\* Two containers, two log viewers, two requests in flight, one reopening.
CONSTANTS
  Container = {c1, c2}
  Viewer = {v1, v2}
  Req = {r1, r2}
  MaxReconnects = 2
  NoContainer = NoContainer
  NoViewer = NoViewer
  NoReq = NoReq
  NoStream = NoStream
SPECIFICATION Spec
INVARIANT LinesAreOwn
INVARIANT ContentIsOwn
INVARIANT PollIsOwn
INVARIANT SignedOutSilent
SYMMETRY DetailSymmetry
