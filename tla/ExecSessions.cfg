\* Two connections of one address for one slot, against a switch, a reset and
\* rotations between two tokens.  No symmetry: liveness is checked.
CONSTANTS
  Ws = {w1, w2}
  Ip = {i1}
  Admin = {a1}
  Token = {k1, k2}
  Limits = {1}
  BootReviewer = FALSE
  NoToken = NoToken
SPECIFICATION FairSpec
INVARIANT SlotsMatch
INVARIANT ReviewerHasNoShell
INVARIANT SweepCovers
PROPERTY SlotReturned
PROPERTY RotationCloses
