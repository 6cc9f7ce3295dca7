SPECIFICATION Spec
CONSTANTS
  MaxReloads = 2
  MaxHangups = 2
CHECK_DEADLOCK FALSE
INVARIANTS
  OnlyHangupsUndo
  FaultsHaveACause
  OneState
  ReadyOrNull
  BrokenByScripts
