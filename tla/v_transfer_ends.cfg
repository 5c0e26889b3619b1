SPECIFICATION TcpFairSpec

CONSTANTS
  s1 = s1
  m1 = m1
  NoSid = NoSid
  NoMsg = NoMsg
  Sid = {s1}
  Msg = {m1}
  Tlvs <- BudgetAndRepetitionTlvs
  Scenario = "ranging_stream"
  MAX_SESSIONS = 1
  MAX_SCENARIO_EVENTS = 2
  MAX_PENDING_NOTIFICATIONS = 2
  MAX_OUTBOUND_PACKETS = 6
  HostCommands = {"INIT", "START", "STOP"}
  RefusalCodes = {}
  StartVerdicts = {"OK"}
  BurstCount = 2
  DefaultInterval = 1
  DefaultMeasurements = 16
  MinInterval = 1
  TxModulus = 4
  Elapsed = {1}
  SeqBound = 2
  CountBound = 2

PROPERTIES
  TransferEnds
