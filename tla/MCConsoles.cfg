SPECIFICATION ConsolesSpec
CONSTANTS
  NumSlots = 2
  Terminals <- TerminalSizes
  CliVars = {"v1", "v2"}
  MaxToggles = 2
CHECK_DEADLOCK FALSE
INVARIANT MonitoredIsRemembered
INVARIANT ReconnectRestores
INVARIANT NothingUnread
PROPERTY DisplaySurvives
PROPERTY DisconnectionShown
PROPERTY TcpCommandsReturn
