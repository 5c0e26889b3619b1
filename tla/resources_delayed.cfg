SPECIFICATION ResourceSpec

CONSTANTS
  s1 = s1
  m1 = m1
  NoSid = NoSid
  NoMsg = NoMsg
  Sid = {s1}
  Msg = {m1}
  Tlvs = {}
  Scenario = "delayed_notifications"
  MAX_SESSIONS = 1
  MAX_SCENARIO_EVENTS = 2
  MAX_PENDING_NOTIFICATIONS = 2
  MAX_OUTBOUND_PACKETS = 2
  HostCommands = {"START", "STOP", "BAD_DATA"}
  RefusalCodes = {}
  StartVerdicts = {"OK", "INVALID_PARAM", "SURFACED"}
  BurstCount = 2
  DefaultInterval = 1
  DefaultMeasurements = 16
  MinInterval = 1
  TxModulus = 4
  Elapsed = {}
  SeqBound = 2
  CountBound = 2
  MAX_LOGICAL_LINKS = 2
  MAX_MULTICAST_ENTRIES = 1
  MAX_DT_ROUNDS = 1
  DTP_CAPACITY = 1
  c1 = c1
  c2 = c2
  Controlees = {c1, c2}
  LinkIds = {0, 1, 255}
  MulticastLists <- NoLists
  RoundLists <- NoLists
  PhaseSizes = {}

INVARIANTS
  ResourceTypeOK
  LinkIdsUnique
  LinksAnnounced
  FreedOwnsNothing

PROPERTIES
  StatusDeferred
