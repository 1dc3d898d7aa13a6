SPECIFICATION FairSpec
CONSTANTS
  Clients = {c1, c2}
  NoClient = NoClient
  Slots = {1}
  BadSlot = 0
  NumChannels = 1
  Configs <- OneConfig
  ClientTimeout = 1
  RampDelay = 0
  MaxLag = 0
  MaxUnread = 1
  SpiFaults = FALSE
INVARIANT SessionOwnsState
PROPERTY DeadClientEvicted
PROPERTY ConnectionAnswered
