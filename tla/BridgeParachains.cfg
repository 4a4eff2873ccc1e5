\* Three parachains: the heads of one go once around the ring buffer, another has a
\* head that is too large, the third is not tracked.  The relay chain does not change
\* its authorities.
CONSTANTS
  p1 = p1
  p2 = p2
  untracked = untracked
  Accounts = {}
  None = None
  HeadersToKeep = 2
  MaxRequests = 1
  Changes = {"None"}
  MaxNumber = 3
  Parachains = {p1, p2, untracked}
  TrackedParachains = {p1, p2}
  LargeHeads <- FirstHeadOfSecond
  HeadsToKeep = 2
  ParaHeads <- MCParaHeads
  MaxEntries = 2
SPECIFICATION ParaFairSpec
INVARIANTS
  HeadsAreFinalized
  EntriesAreIndependent
  BestHeadStored
PROPERTIES
  BestHeadMovesForward
  ParaClientSpec
  HeadsCatchUp
