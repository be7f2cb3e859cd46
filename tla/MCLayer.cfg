CONSTANTS
  Threads = {t1, t2}
  app_site = app_site
  noise = noise
  LayerCount = 2
  Sites = {app_site, noise}
  EnabledSites <- TwoFilters
  ListsSpans = {1}
  NamesCurrent = {1, 2}
  FieldSets = {{a}, {a, b}}
  MaxSpans = 2
  MaxWrites = 3
  MaxEvents = 1
SPECIFICATION FairSpec
INVARIANTS
  TypeOK
  ContextComplete
  FieldsFresh
PROPERTY CallsReturn
