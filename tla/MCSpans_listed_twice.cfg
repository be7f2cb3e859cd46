CONSTANTS
  Threads = {t1}
  Subscribers = {s1, s2}
  IncludeSpanList = TRUE
  IncludeCurrentSpan = TRUE
  MaxSpans = 2
  MaxHandles = 2
  MaxDepth = 2
  MaxRecords = 1
  MaxLoggingValues = 0
  MaxEvents = 2
SPECIFICATION SpecAncestry
INVARIANT ListedOnce
