\* Two requests or sockets, two tokens that may come back.
CONSTANTS
  Req = {r1, r2}
  Token = {t1, t2}
  Host = {h1}
  NoToken = NoToken
  NoHost = NoHost
  AbsTimeout = 2
  IdleSecs = 1
  WindowSecs = 1
SPECIFICATION Spec
INVARIANT SessionIsOwn
SYMMETRY SessionSymmetry
