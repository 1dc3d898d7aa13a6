SPECIFICATION Spec
CONSTANTS
  Clients = {c1}
  NoClient = NoClient
  Slots = {1}
  BadSlot = 0
  NumChannels = 2
  Configs <- OneConfig
  ClientTimeout = 0
  RampDelay = 0
  MaxLag = 0
  MaxUnread = 1
  SpiFaults = TRUE
INVARIANT EmergencyHolds
