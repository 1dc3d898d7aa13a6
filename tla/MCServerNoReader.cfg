SPECIFICATION FairSpec
CONSTANTS
  Clients = {c1}
  NoClient = NoClient
  Slots = {1}
  BadSlot = 0
  NumChannels = 2
  Configs <- OneConfig
  ClientTimeout = 1
  RampDelay = 1
  MaxLag = 1
  MaxUnread = 1
  SpiFaults = FALSE
PROPERTY RampNeverStalls
