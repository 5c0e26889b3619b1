SPECIFICATION ChardevFairSpec

CONSTANTS
  s1 = s1
  NoSid = NoSid
  NoMsg = NoMsg
  Sid = {s1}
  Msg = {}
  Tlvs = {}
  Scenario = "ranging_stream"
  MAX_SESSIONS = 1
  MAX_SCENARIO_EVENTS = 2
  MAX_PENDING_NOTIFICATIONS = 2
  MAX_OUTBOUND_PACKETS = 2
  HostCommands = {}
  RefusalCodes = {}
  StartVerdicts = {"OK"}
  BurstCount = 2
  DefaultInterval = 1
  DefaultMeasurements = 16
  MinInterval = 1
  TxModulus = 4
  Elapsed = {1}
  SeqBound = 2
  CountBound = 2
  WirePackets <- Session1Packets
  HEADER_SIZE = 2
  PayloadLimit = 1
  MAX_PACKET = 5
  SentBound = 3

INVARIANTS
  ChardevTypeOK
  FramingKept

PROPERTIES
  WrittenIsSubmitted
