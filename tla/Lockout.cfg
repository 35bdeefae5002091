\* Four attempts at once; the threshold is edited between one and three.
CONSTANTS
  Attempt = {a1, a2, a3, a4}
  Maxes = {1, 2, 3}
  Largest = 3
  LockoutSecs = 3
  TokenTimeout = 2
SPECIFICATION Spec
INVARIANT GuessesBounded
INVARIANT LockoutAlerted
SYMMETRY AttemptSymmetry
