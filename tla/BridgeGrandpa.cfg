\* Every kind of authority change, in a chain of four headers.
CONSTANTS
  Accounts = {a1}
  None = None
  HeadersToKeep = 2
  MaxRequests = 2
  Changes = {"None", "Scheduled", "TooManyAuthorities", "Delayed", "Forced"}
  MaxNumber = 4
SPECIFICATION FairSpec
INVARIANTS
  TypeOK
  NoMandatoryHeaderSkipped
  AuthoritySetFollowsChain
  StopsAtUnsupportedChange
  RecentHeadersKept
PROPERTIES
  ClientSpec
  CatchesUp
