SPECIFICATION Spec
CONSTANTS
  Poll = poll
  Calls = {t1, t2}
  Modules = {m1}
  Methods = {"POWER", "IMMUTABLE"}
  Ratio = 1
  Lifetime = 0
  MaxBackoff = 1
  SeqSize = 1
  Timeouts = TRUE
  Resets = FALSE
  Endless = FALSE
  MaxFaults = 1
  MaxCancels = 0
  MaxBacklog = 1
PROPERTY ImmutableHonoured
