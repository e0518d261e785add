\* One run of three frames and one client that reads it, queues of one frame.
CONSTANTS
  reader = reader
  idler = idler
  k1 = k1
  MaxRuns = 1
  Length = 3
  MaxFrames = 1
  Streams = {reader}
  Readers = {reader}
  Cancels = {}
SPECIFICATION FairSpec
CHECK_DEADLOCK FALSE
PROPERTY StreamsReleased
