\* Three requests of every kind for a project, two compose files.
CONSTANTS
  Req = {r1, r2, r3}
  Yaml = {y1, y2}
  Jobs = {"up", "down", "stop", "start", "pull", "scale"}
  NoReq = NoReq
  NoYaml = NoYaml
SPECIFICATION Spec
INVARIANT DeploysItsOwn
INVARIANT AckedKeepsFile
INVARIANT NoPhantom
SYMMETRY ComposeSymmetry
