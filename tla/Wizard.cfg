\* Two tokens, two submissions in flight, one other operator.
CONSTANTS
  Token = {t1, t2}
  Theirs = theirs
  Clipboard = {TRUE}
  MaxInFlight = 2
  NoToken = NoToken
SPECIFICATION FairSpec
INVARIANT TokenIsTaken
INVARIANT StoredWasGiven
PROPERTY ExpiryIsShown
