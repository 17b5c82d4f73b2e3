SPECIFICATION ChannelSpec
CONSTANTS
  A = A
  B = B
  Tasks = {A, B}
  None = None
  MinInterval = 2
  TightMargin = 1
  TypicalDuration = 1
  MaxQueueSize = 2
  MinSamples = 2
  MaxSamples = 2
  Lifetimes = {5}
  Estimates = {1}
  MaxTime = 3
  MaxArrivals = 3
PROPERTIES
  MinIntervalBetweenStarts
