SPECIFICATION MCSpec
CONSTANTS
  Slots = {1, 2}
  LeftSlots = {1}
  BadSlot = 3
  NumChannels = 2
  Configs <- TwoConfigs
  MaxValue = 1
  Values = {0, 1, 2}
  PollReads = 2
  HalfSize = 2
  MaxIters = 2
  MaxClock = 2
  SpiFaults = TRUE
  Families <- ScalerFamily
INVARIANT ScalersAreSet
