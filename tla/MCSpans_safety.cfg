CONSTANTS
  Threads = {t1, t2}
  Subscribers = {s1}
  IncludeSpanList = TRUE
  IncludeCurrentSpan = TRUE
  MaxSpans = 2
  MaxHandles = 2
  MaxDepth = 2
  MaxRecords = 1
  MaxLoggingValues = 1
  MaxEvents = 1
SPECIFICATION FairAncestry
INVARIANTS
  TypeOK
  StoredWhileReferenced
  StackMatchesGuards
  EventsNameTheirSpan
  ContextIsConsistent
  ParentsOlder
  ListedUnlessClosed
PROPERTY CallsReturn
