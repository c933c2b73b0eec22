SPECIFICATION FairSpec
CONSTANTS
  Fine = 26000
  LevelTop = 260000000
  ActuatorDelay = 3
  Hysteresis = 400
  InletRate = 144000
  PumpRate = 27
  FlowUnit = 200
  CurrentIdle = 300
  CurrentSpan = 1200
  SpeedScale = 10000
  HighLimit = 8200
  LowLimit = 1800
  SetpointMin = 3000
  SetpointMax = 8000
  SpeedMin = 2000
  SpeedMax = 10000
  ModeMin = 0
  ModeMax = 1
  Defaults <- RealDefaults
  CountMax = 387
  Phases = 20
  ThermalStep = 120
  TickSeconds = {2}
  PumpFaults = {FALSE}
  WriteKeys = {}
  WriteValues = {}
INVARIANTS
  AutoHoldsLevel
PROPERTIES
  AutoCycles
