SPECIFICATION TcpSpec

CONSTANTS
  s1 = s1
  s2 = s2
  m1 = m1
  NoSid = NoSid
  NoMsg = NoMsg
  Sid = {s1, s2}
  Msg = {m1}
  Tlvs <- StreamTlvs
  Scenario = "ranging_stream"
  MAX_SESSIONS = 2
  MAX_SCENARIO_EVENTS = 3
  MAX_PENDING_NOTIFICATIONS = 2
  MAX_OUTBOUND_PACKETS = 6
  HostCommands = {"RESET", "INIT", "DEINIT", "START", "STOP"}
  RefusalCodes = {}
  StartVerdicts = {"OK", "INVALID_PARAM", "SURFACED"}
  BurstCount = 2
  DefaultInterval = 1
  DefaultMeasurements = 16
  MinInterval = 1
  TxModulus = 4
  Elapsed = {1}
  SeqBound = 1
  CountBound = 1

SYMMETRY SidSymmetry

INVARIANTS
  TypeOK
  NothingLost
  HostViewCurrent
  RangeNumbersConsecutive
  RangeDataOnlyWhileActive
  IdleHasNoEvents

PROPERTIES
  EventsAccounted
  BudgetRespected
  RestartWaitsOneInterval
  LifecycleImplemented
