\* Four authorities of equal weight, a stranger, and room for one vote too many.
CONSTANTS
  a = a
  b = b
  c = c
  d = d
  e = e
  Authorities = {a, b, c, d}
  Weight <- EqualWeights
  Strangers = {e}
  Headers <- MCHeaders
  Target <- MCTarget
  MaxPrecommits = 4
SYMMETRY AuthoritySymmetry
SPECIFICATION Spec
INVARIANTS
  AcceptedMeansFinalized
  OptimizedIsAccepted
  AcceptedIsMinimal
\* A justification is verified once.
CHECK_DEADLOCK FALSE
