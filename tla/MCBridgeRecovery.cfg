SPECIFICATION FairSpec
CONSTANTS
  Poll = poll
  Calls = {t1}
  Modules = {m1}
  Methods = {"IMMUTABLE"}
  Ratio = 2
  Lifetime = 0
  MaxBackoff = 2
  SeqSize = 1
  Timeouts = TRUE
  Resets = TRUE
  Endless = FALSE
  MaxFaults = 2
  MaxCancels = 0
  MaxBacklog = 1
PROPERTY Recovers
