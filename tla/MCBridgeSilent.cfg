SPECIFICATION FairBridge
CONSTANTS
  Poll = poll
  Calls = {t1}
  Modules = {}
  Methods = {"CRATE"}
  Ratio = 1
  Lifetime = 1
  MaxBackoff = 1
  SeqSize = 2
  Timeouts = TRUE
  Resets = FALSE
  Endless = TRUE
  MaxFaults = 0
  MaxCancels = 1
  MaxBacklog = 1
PROPERTY OkMeansApplied
PROPERTY CallsAnswered
PROPERTY LossIsPublished
