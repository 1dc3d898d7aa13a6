SPECIFICATION GuiSpec
CONSTANTS
  NumChannels = 1
  ValidSlots <- TwoSlots
  ActiveSlots <- Crates
  Vars <- SomeVars
  MaxConnects = 2
  Overlap = TRUE
  MaxEvents = 1
CHECK_DEADLOCK FALSE
INVARIANT NoSessionLeftBehind
