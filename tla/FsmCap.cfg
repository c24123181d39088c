SPECIFICATION Spec
CONSTANTS
  Zone = {z1}
  InvalidZone = nozone
  Durations = {0, 3, 4}
  ClockMod = 13
  LoadSettle = 1
  PullIn = 1
  PumpToClose = 1
  CloseToLoadOff = 1
  PrimeTimeout = 2
  PrimePulses = 1
  MaxDispense = 4
  StaleThreshold = 3
  UartTimes = {0, 1}
  TickGap = 1
  Lags = {0, 1}
  PollTimes = {0, 1, 5, 9}
  MaxPulses = 1
  LowBatteryReadings = {TRUE, FALSE}
  LowTankReadings = {TRUE, FALSE}
INVARIANT CapOnlyWhenExceeded
