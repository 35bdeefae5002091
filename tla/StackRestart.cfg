\* One browser, one file: nobody else works on the project.
CONSTANTS
  Req = {r1}
  Yaml = {y1}
  Jobs = {"up", "down"}
  NoReq = NoReq
  NoYaml = NoYaml
SPECIFICATION RestartSpec
INVARIANT RestartIsNoTeardown
