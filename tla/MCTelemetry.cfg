SPECIFICATION TelemetrySpec
CONSTANTS
  Capacity = 2
  MaxGapUs = 2
  Times = {0, 1, 2, 3}
  Readings = {0, 2}
  Window = 3
  Enough = 2
  Alpha = 5
  Word = 6
  MaxStatuses = 5
  MaxTime = 3
  OwnEchoes = {0, 1}
  ForeignEchoes = {5}
INVARIANTS InterpolateCorrect RateAndJitterAreRecent ReportsAreMeasured
CHECK_DEADLOCK FALSE
