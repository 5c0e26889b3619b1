SPECIFICATION Spec

CONSTANTS
  Setups <- SecuritySetup
  DistanceBase = 100
  DistanceStep = 5
  DIST_MODULUS = 112
  REPORT_LIMIT = 2
  CONTROL_PAYLOAD_LIMIT = 16
  CountBound = 5
  TimestampBound = 2

INVARIANTS
  KeyRateDocumented
