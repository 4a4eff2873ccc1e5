\* Four validators, one of them faulty; any leaf may be proved.
CONSTANTS
  Accounts = {a1}
  None = None
  Validators = {v1, v2, v3, v4}
  Faulty = {v1}
  MaxRequests = 1
  CommitmentsToKeep = 2
  MaxNumber = 4
SPECIFICATION FairSpec
INVARIANTS
  OnlyGenuineImported
  BestCommitmentStored
  AuthoritySetFollowsChain
PROPERTIES
  NoHandoffSkipped
  ClientSpec
  CatchesUp
