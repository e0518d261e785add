\* Two runs, two streams and a cancel; queues of two frames, runs of three.
CONSTANTS
  reader = reader
  idler = idler
  k1 = k1
  MaxRuns = 2
  Length = 3
  MaxFrames = 2
  Streams = {reader, idler}
  Readers = {reader}
  Cancels = {k1}
SPECIFICATION FairSpec
CHECK_DEADLOCK FALSE
INVARIANT BrokerInv
INVARIANT Consecutive
INVARIANT EndsWithTheRun
PROPERTY StreamsEnd
