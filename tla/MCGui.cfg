SPECIFICATION GuiSpec
CONSTANTS
  NumChannels = 1
  ValidSlots <- TwoSlots
  ActiveSlots <- Crates
  Vars <- SomeVars
  MaxConnects = 2
  Overlap = FALSE
  MaxEvents = 1
CHECK_DEADLOCK FALSE
INVARIANT GuiTypeOK
INVARIANT ShownIsPublished
INVARIANT LabelIsTrue
INVARIANT DisconnectedIsQuiet
PROPERTY CloseEnds
