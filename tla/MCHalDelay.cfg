SPECIFICATION Spec
CONSTANTS
  Slots = {1}
  BadSlot = 0
  NumChannels = 1
  DelayCodes <- TwoDelays
  Cycle = 2
  TimeoutIters = 3
  SpiFaults = FALSE
  NoCall = NoCall
PROPERTY SetDelayWaits
