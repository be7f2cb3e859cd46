CONSTANTS
  Threads = {t1, t2}
  Pipelines = {p1, p2}
  Layers = {p2}
  Binary = {p1, p2}
  EventSites = {e1}
  SpanSites = {s1}
  QueueCapacity = 1
  CacheCapacity = 1
  MaxId = 3
  MaxCalls = 3
  MaxScope = 1
  MaxLost = 1
SPECIFICATION Spec
INVARIANT CompleteLogDecodes
