CONSTANTS
  Threads = {t1, t2}
  NoThread = NoThread
  QueueCapacity = 2
  FrameBufferCount = 2
  WriterFrames = 2
  MaxFrames = 4
  MaxFlushes = 2
  MaxOversized = 0
  MaxErrors = 1
SYMMETRY ThreadSymmetry
SPECIFICATION Spec
INVARIANT LossIsVisible
