SPECIFICATION Spec
CONSTANTS
  Poll = poll
  Calls = {t1}
  Modules = {m1}
  Methods = {"IMMUTABLE"}
  Ratio = 1
  Lifetime = 0
  MaxBackoff = 1
  SeqSize = 1
  Timeouts = FALSE
  Resets = FALSE
  Endless = TRUE
  MaxFaults = 0
  MaxCancels = 0
  MaxBacklog = 1
INVARIANT MutabilityPublished
