SPECIFICATION Spec
CONSTANTS
  Slots = {1}
  BadSlot = 0
  NumChannels = 1
  DelayCodes <- OneDelay
  Cycle = 2
  TimeoutIters = 2
  SpiFaults = TRUE
  NoCall = NoCall
PROPERTY CallsStartIdle
