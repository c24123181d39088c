SPECIFICATION AgedSpec
CONSTANTS
  Zone = {z1, z2}
  InvalidZone = nozone
  Durations = {0, 3, 5}
  ClockMod = 11
  LoadSettle = 1
  PullIn = 1
  PumpToClose = 1
  CloseToLoadOff = 1
  PrimeTimeout = 2
  PrimePulses = 1
  MaxDispense = 4
  StaleThreshold = 2
  UartTimes = {0, 1}
  TickGap = 1
  Lags = {0, 1}
  PollTimes = {0, 1, 6}
  MaxPulses = 1
  LowBatteryReadings = {TRUE, FALSE}
  LowTankReadings = {TRUE, FALSE}
SYMMETRY ZoneSymmetry
INVARIANTS PumpSafe RestIsDry RunBounded FreshEnough Inductive
PROPERTIES FaultLatched StopIsRecorded OneAtATime RestTriesLoadOff InterlockSpec
