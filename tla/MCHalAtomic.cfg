SPECIFICATION Spec
CONSTANTS
  Slots = {1}
  BadSlot = 0
  NumChannels = 2
  DelayCodes <- OneDelay
  Cycle = 2
  TimeoutIters = 2
  SpiFaults = TRUE
  NoCall = NoCall
INVARIANT TypeOK
INVARIANT ChannelCallAsPromised
PROPERTY CallsAreAtomic
PROPERTY CallsAreBounded
