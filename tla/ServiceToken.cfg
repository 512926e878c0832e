SPECIFICATION FairSpec
CONSTANTS
  Callers = {c1, c2}
  NoCaller = NoCaller
  Skew = 1
  Lifetimes = {2, 3}
  MaxLatency = 1
  MaxTokens = 3
  MaxTime = 3
INVARIANTS
  RetryUsesNewToken
PROPERTIES
  NoWastedRefresh
  NoNeedlessGrant
  FreshWhenTaken
  LookupEnds
CHECK_DEADLOCK FALSE
