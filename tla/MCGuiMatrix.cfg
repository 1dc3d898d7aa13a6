SPECIFICATION GuiSpec
CONSTANTS
  NumChannels = 1
  ValidSlots <- TwoSlots
  ActiveSlots <- Crates
  Vars <- SomeVars
  MaxConnects = 1
  Overlap = FALSE
  MaxEvents = 0
CHECK_DEADLOCK FALSE
INVARIANT RecreatedMatrixFilled
