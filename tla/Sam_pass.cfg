SPECIFICATION FairSpec
CONSTANTS
  None = None
  g1 = g1
  g2 = g2
  a1 = a1
  p1 = p1
  Gpio <- Gpios
  Adc <- Adcs
  Pwm <- Pwms
  Order <- Visits
  Room = 2
  Readings <- Analog
  MaxLines = 2
  Speeds <- SpeedSet
  Ramps <- RampSet
  Thresholds <- ThreshSet
  Tries = 2
  MaxWork = 4
  Pulse = p1
  DirPin = g1
  PinB = g2
  Programs <- AllPrograms
  Direct <- DirectPins
CHECK_DEADLOCK FALSE
INVARIANTS TypeOK Answering OneView Consistent OffWhenDeleted MotorObeys
PROPERTIES SessionClean CallsEnd RampEnds
