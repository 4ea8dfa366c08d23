\* Two decoders under fair threads, and a list of two: the template for
\* limitSize > 1, where a worker outlives a job and a cancel meets the frames
\* of both decoders.
CONSTANTS
  d1 = d1
  d2 = d2
  Decoders = {d1, d2}
  ApiUsers = {}
  DecThreads = {}
  Limit = 2
  MaxFrames = 2
SPECIFICATION FairSpec
INVARIANTS WorkerCoversQueue FedInOrder
PROPERTIES EveryJobAnswered ShutdownReturns
