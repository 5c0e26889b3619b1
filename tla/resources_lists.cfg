SPECIFICATION ResourceSpec

CONSTANTS
  s1 = s1
  s2 = s2
  NoSid = NoSid
  NoMsg = NoMsg
  Sid = {s1, s2}
  Msg = {}
  Tlvs = {}
  Scenario = "default"
  MAX_SESSIONS = 1
  MAX_SCENARIO_EVENTS = 2
  MAX_PENDING_NOTIFICATIONS = 2
  MAX_OUTBOUND_PACKETS = 2
  HostCommands = {"QUERY"}
  RefusalCodes = {"INVALID_MSG_SIZE"}
  StartVerdicts = {"OK"}
  BurstCount = 2
  DefaultInterval = 1
  DefaultMeasurements = 16
  MinInterval = 1
  TxModulus = 4
  Elapsed = {}
  SeqBound = 2
  CountBound = 2
  MAX_LOGICAL_LINKS = 1
  MAX_MULTICAST_ENTRIES = 1
  MAX_DT_ROUNDS = 1
  DTP_CAPACITY = 1
  c1 = c1
  c2 = c2
  Controlees = {c1, c2}
  LinkIds = {}
  MulticastLists <- SomeLists
  RoundLists <- SomeRounds
  PhaseSizes = {1, 2}

INVARIANTS
  FreedOwnsNothing

PROPERTIES
  AnswerTellsAll
