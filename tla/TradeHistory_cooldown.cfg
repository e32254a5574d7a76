CONSTANTS
  RoundTripLimit = 5
  Cooldown = 2
  Week = 168
  Day = 24
  MaxTrades = 3
  LastHour = 26
SPECIFICATION Spec
PROPERTY CooldownAfterStopLoss
CHECK_DEADLOCK FALSE
