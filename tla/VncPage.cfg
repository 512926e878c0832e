SPECIFICATION FairPageSpec
CONSTANTS
  InitialReconnectDelay = 1
  MaximumReconnectDelay = 3
  MaxFailures = 3
  Texts = {t1, t2}
  Contents <- MCContents
  MaxField = 2
CHECK_DEADLOCK FALSE
INVARIANTS AlwaysTrying GoneQuiet PasteIntact CaseKept
PROPERTIES ReconnectOnlyDead NoStorm ComesBack
