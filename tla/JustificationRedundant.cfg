\* Three authorities, of whom a and one more are enough.
CONSTANTS
  a = a
  b = b
  c = c
  d = d
  e = e
  Authorities = {a, b, c}
  Weight <- UnequalWeights
  Strangers = {e}
  Headers <- MCHeaders
  Target <- MCTarget
  MaxPrecommits = 3
SPECIFICATION Spec
INVARIANT RedundantVotesRemoved
CHECK_DEADLOCK FALSE
