SPECIFICATION Spec
CONSTANTS
  Clients = {c1}
  NoClient = NoClient
  Slots = {1, 2}
  BadSlot = 0
  NumChannels = 2
  Configs <- PowerConfigs
  ClientTimeout = 0
  RampDelay = 0
  MaxLag = 0
  MaxUnread = 1
  SpiFaults = FALSE
INVARIANT TypeOK
INVARIANT RampDelivers
INVARIANT EmergencyHolds
PROPERTY ManagedPowerOnly
PROPERTY OneChannelPerBoard
PROPERTY KeepsPromise
