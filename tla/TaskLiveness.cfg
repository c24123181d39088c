SPECIFICATION FairTaskSpec
CONSTANTS
  Zone = {z1}
  InvalidZone = nozone
  Durations = {1}
  ClockMod = 3
  LoadSettle = 0
  PullIn = 0
  PumpToClose = 0
  CloseToLoadOff = 0
  PrimeTimeout = 1
  PrimePulses = 1
  MaxDispense = 1
  StaleThreshold = 1
  UartTimes = {1}
  TickGap = 1
  Lags = {0}
  PollTimes = {1}
  MaxPulses = 1
  LowBatteryReadings = {FALSE}
  LowTankReadings = {FALSE}
  QueueDepth = 2
  MaxLost = 0
  MinDuration = 1
  MaxDuration = 1
  DefaultDuration = 1
  RawDurations = {0, 1, 2, 3}
  NaN = nan
PROPERTIES QueueDrains ClearAnswered CycleEnds CallsReturn MachineSpec
