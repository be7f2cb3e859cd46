CONSTANTS
  Threads = {t1, t2}
  Pipelines = {p1}
  Layers = {}
  Binary = {p1}
  EventSites = {e1, e2}
  SpanSites = {s1}
  QueueCapacity = 1
  CacheCapacity = 1
  MaxId = 3
  MaxCalls = 4
  MaxScope = 1
  MaxLost = 1
SPECIFICATION Spec
INVARIANT MetadataPrecedesEvents
