SPECIFICATION TcpFairSpec

CONSTANTS
  s1 = s1
  s2 = s2
  m1 = m1
  m2 = m2
  NoSid = NoSid
  NoMsg = NoMsg
  Sid = {s1, s2}
  Msg = {m1, m2}
  Tlvs <- RepetitionTlvs
  Scenario = "default"
  MAX_SESSIONS = 2
  MAX_SCENARIO_EVENTS = 1
  MAX_PENDING_NOTIFICATIONS = 2
  MAX_OUTBOUND_PACKETS = 6
  HostCommands = {"INIT", "DEINIT", "START", "STOP", "BAD_DATA"}
  RefusalCodes = {}
  StartVerdicts = {"OK"}
  BurstCount = 2
  DefaultInterval = 1
  DefaultMeasurements = 16
  MinInterval = 1
  TxModulus = 2
  Elapsed = {1}
  SeqBound = 2
  CountBound = 2

INVARIANTS
  TransferHasEvent

PROPERTIES
  TransferEndsWithCredit
  TransferEnds
