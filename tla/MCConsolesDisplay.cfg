SPECIFICATION ConsolesSpec
CONSTANTS
  NumSlots = 17
  Terminals <- TallTerminal
  CliVars = {"v1"}
  MaxToggles = 1
CHECK_DEADLOCK FALSE
INVARIANT KeyboardListens
INVARIANT CrateFits
INVARIANT ArraysFilled
