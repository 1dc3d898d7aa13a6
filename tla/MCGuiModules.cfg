SPECIFICATION GuiSpec
CONSTANTS
  NumChannels = 1
  ValidSlots <- ThreeSlots
  ActiveSlots <- TwoOfThree
  Vars <- SomeVars
  MaxConnects = 1
  Overlap = FALSE
  MaxEvents = 1
CHECK_DEADLOCK FALSE
INVARIANT ClicksFollowRenumbering
