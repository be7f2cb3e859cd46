CONSTANTS
  Threads = {t1, t2}
  NoThread = NoThread
  QueueCapacity = 2
  FrameBufferCount = 1
  WriterFrames = 2
  MaxFrames = 2
  MaxFlushes = 2
  MaxOversized = 1
  MaxErrors = 2
SPECIFICATION FairSpec
INVARIANTS
  TypeOK
  FlushCoversQueue
  FlushPublishesCounters
  FramesInOrder
  FramesConserved
  FlushNotOrphaned
  WorkerExitsLast
PROPERTIES
  BuffersRecycled
  ImplementsFrameChannel
  FlushReturns
  ShutdownDrains
  StatsCatchUp
