SPECIFICATION Spec
CONSTANTS
  Fine = 4
  LevelTop = 40
  ActuatorDelay = 3
  Hysteresis = 1
  InletRate = 1
  PumpRate = 1
  FlowUnit = 1
  CurrentIdle = 3
  CurrentSpan = 12
  SpeedScale = 10
  HighLimit = 8
  LowLimit = 2
  SetpointMin = 4
  SetpointMax = 6
  SpeedMin = 1
  SpeedMax = 3
  ModeMin = 0
  ModeMax = 1
  Defaults <- ScaledDefaults
  CountMax = 2
  Phases = 1
  ThermalStep = 1
  TickSeconds = {1, 2}
  PumpFaults = {FALSE, TRUE}
  WriteKeys <- AllKeys
  WriteValues = {0, 1, 3, 4, 6, 7}
INVARIANTS
  TypeOK
  SettledFeedback
  SnapshotCoherent
  AssertionsHold
PROPERTIES
  DelayedFeedback
  AutoStartInBand
