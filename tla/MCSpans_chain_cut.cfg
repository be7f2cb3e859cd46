CONSTANTS
  Threads = {t1}
  Subscribers = {s1}
  IncludeSpanList = TRUE
  IncludeCurrentSpan = TRUE
  MaxSpans = 3
  MaxHandles = 1
  MaxDepth = 2
  MaxRecords = 0
  MaxLoggingValues = 0
  MaxEvents = 1
SPECIFICATION SpecAncestry
INVARIANT EnteredChainListed
