\* One request at a time, one token: a session that has expired.
CONSTANTS
  Req = {r1}
  Token = {t1}
  Host = {h1}
  NoToken = NoToken
  NoHost = NoHost
  AbsTimeout = 2
  IdleSecs = 1
  WindowSecs = 1
SPECIFICATION FairSpec
PROPERTY SessionRecovers
