\* Two threads and enough objects for both to build while a third is current.
CONSTANTS
  Thread = {th1, th2}
  Client = {c1, c2, c3, c4}
  Host = {h1, h2}
  NoClient = NoClient
SPECIFICATION Spec
INVARIANT ClosedIsBeingDiscarded
INVARIANT OpenIsAccounted
INVARIANT FreshIsItsOwn
SYMMETRY ObjectSymmetry
