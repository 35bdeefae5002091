\* Every page, two requests in flight at once, deletes on the containers and the images page.
CONSTANTS
  Req = {r1, r2}
  NoReq = NoReq
  UndoPage = {"containers", "images"}
SPECIFICATION Spec
INVARIANT PageMatches
INVARIANT OnePoller
INVARIANT FlagHasRequest
INVARIANT ListIsRefreshed
INVARIANT LoginIsNeeded
PROPERTY DetailKept
SYMMETRY RequestSymmetry
