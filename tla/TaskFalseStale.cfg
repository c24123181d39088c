SPECIFICATION TaskSpec
CONSTANTS
  Zone = {z1, z2}
  InvalidZone = nozone
  Durations = {1}
  ClockMod = 8
  LoadSettle = 1
  PullIn = 0
  PumpToClose = 0
  CloseToLoadOff = 1
  PrimeTimeout = 1
  PrimePulses = 1
  MaxDispense = 2
  StaleThreshold = 3
  UartTimes = {0}
  TickGap = 1
  Lags = {0}
  PollTimes = {1, 2, 3, 4, 5, 6, 7}
  MaxPulses = 1
  LowBatteryReadings = {FALSE}
  LowTankReadings = {FALSE}
  QueueDepth = 2
  MaxLost = 0
  MinDuration = 1
  MaxDuration = 1
  DefaultDuration = 1
  RawDurations = {0, 1, 2, 3}
  NaN = nan
PROPERTY StaleMeansStale
