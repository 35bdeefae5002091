\* Two operations for a queue of depth one, or none, all interleavings with
\* cancels, shutdown, crash, reviewer switch and reset, and what the threads of
\* the queue must eventually do.  No symmetry: HoldsEnd is a liveness property.
CONSTANTS
  Token = {t1, t2}
  BootDelay = 1
  Delays = {1}
  Depths = {0, 1}
  MaxDepth = 1
  BootReviewer = FALSE
  NoOp = NoOp
SPECIFICATION FairSpec
INVARIANT AtMostOnce
INVARIANT NothingStranded
INVARIANT DepthBounded
INVARIANT TooLateIsTrue
 
PROPERTY ReadOnlyQuiesces
PROPERTY KeepsPromise
PROPERTY HoldsEnd
CHECK_DEADLOCK FALSE
