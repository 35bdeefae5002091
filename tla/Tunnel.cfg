\* Two requests; ssh may refuse to start, stay when told to exit, fail to bind and
\* drop, and files may stay when unlinked.
CONSTANTS
  Req = {r1, r2}
  Ssh = {s1, s2}
  Target = {h1, h2}
  Failures = {"exit", "bind", "unlink", "config"}
  NoReq = NoReq
  NoSsh = NoSsh
  NoTarget = NoTarget
SPECIFICATION FairSpec
INVARIANT NoOrphan
INVARIANT SocketIsOwn
INVARIANT TargetIsTrue
INVARIANT ConfigRemoved
PROPERTY LockReleased
