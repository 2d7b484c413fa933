\* A tick is two units, a cluster spans four, an offset four ticks.
SPECIFICATION Spec
CONSTANTS
  TsScale = 2
  MaxCluster = 4
  MaxShort = 4
  Configs <- MCConfigs
  AccessUnits <- MCAccessUnits
  Times <- MCTimes
  MaxCalls = 4
  MCPieces = 5
\* a closed file stays as it is
CHECK_DEADLOCK FALSE
INVARIANTS BlocksFit NothingLost DurationIsNewest 
