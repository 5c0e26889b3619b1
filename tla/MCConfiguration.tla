--------------------------- MODULE MCConfiguration ---------------------------
(***************************************************************************)
(* Small hosts and profiles for the parameter stores.  Each host works on  *)
(* parameters that depend on each other; the others keep their defaults.   *)
(***************************************************************************)
EXTENDS Configuration

Message(es) == [entries |-> es, count |-> Len(es), cut |-> FALSE]
Entry(p, v) == [id |-> p, value |-> v]
One(p, values) == {Message(<<Entry(p, v)>>) : v \in values}
Pair(p, v, q, w) == Message(<<Entry(p, v), Entry(q, w)>>)

(* Of two entries, one is declared, or a third is declared and cut short,  *)
(* or is just not there.                                                   *)
Misdeclared(m) == {[m EXCEPT !.count = 1], [m EXCEPT !.count = 3, !.cut = TRUE],
                   [m EXCEPT !.count = 3]}

SessionOps == {"INIT", "DEINIT", "START", "STOP", "SET"}
Host(ops, sets) ==
  [ranges |-> DefaultRanges, deferred |-> {}, ops |-> ops, sets |-> sets,
   gets |-> {}, coreSets |-> {}, coreGets |-> {}, burst |-> 0,
   calibrations |-> {}, caps |-> TRUE]

(* A profile that also knows contention-based scheduling.                  *)
SchedulingSets ==
  LET two == Pair("SLOTS_PER_RR", 2, "CAP_SIZE_RANGE", 257)
      last == Pair("RESPONDER_SLOT_INDEX", 1, "SLOTS_PER_RR", 1)
  IN  UNION {One("SLOTS_PER_RR", {0, 2, 3, Malformed}), One("RESPONDER_SLOT_INDEX", {0, 1, 2}),
             One("RANGING_TIME_STRUCT", {0, 1, 2}), One("SCHEDULED_MODE", {0, 1, 2}),
             One("BLOCK_STRIDE_LENGTH", {0, 1}), One("CAP_SIZE_RANGE", {0, 1, 258, 256, Malformed}),
             {two, last}, Misdeclared(two), Misdeclared(last)}
Scheduling ==
  [Host(SessionOps, SchedulingSets) EXCEPT !.ranges.SCHEDULED_MODE = {0, 1}]

(* A profile that defers some of the checks.                               *)
Deferring ==
  [Host(SessionOps \cup {"GET", "RESET"},
        UNION {One("STS_CONFIG", {1, 5}), One("SLOTS_PER_RR", {0, 6, Malformed, Overlong}),
               One("RESPONDER_SLOT_INDEX", {0, 6}), One("RANGING_INTERVAL", {49, 50, Malformed}),
               One("AOA_RESULT_REQ", {Malformed}), One("MAC_ADDRESS_MODE", {0, 2, Malformed}),
               One("DEVICE_MAC_ADDRESS", {2, 8, Overlong})})
   EXCEPT !.deferred = {"STS_CONFIG", "SLOTS_PER_RR", "AOA_RESULT_REQ", "RANGING_INTERVAL",
                        "MAC_ADDRESS_MODE"},
          !.gets = {<<"STS_CONFIG", "ANTENNA_SET_ID">>, << >>}]

(* Key material, key rotation and the PHY parameters.                      *)
Security ==
  Host(SessionOps,
       UNION {One("STS_CONFIG", {0, 1, 3, 4, 5}), One("STATIC_STS_IV", {8, 0}),
              One("SESSION_KEY", {16, 0, Overlong}), One("SUBSESSION_KEY", {32, 8}),
              One("KEY_ROTATION", {0, 1}), One("KEY_ROTATION_RATE", {15, 16, 256})})
Phy ==
  Host(SessionOps,
       UNION {One("PRF_MODE", {0, 1, 3}), One("PREAMBLE_CODE_INDEX", {12, 13, 25}),
              One("SFD_ID", {0, 1, 2, 5}), One("SLOT_DURATION", {15, 16}),
              One("RANGING_INTERVAL", {49, 50}), One("CHANNEL_NUMBER", {5, 6, 9}),
              One("AOA_RESULT_REQ", {3, 4}), One("RSSI_REPORTING", {1, 2})})

(* Roles and addresses, under a profile that knows extended addresses.     *)
Topology ==
  [Host(SessionOps,
        UNION {One("DEVICE_TYPE", {0, 1, 2}), One("DEVICE_ROLE", {0, 1, 5, Malformed}),
               One("MULTI_NODE_MODE", {0, 1, 3}), One("NUMBER_OF_CONTROLEES", {1, 3, 9}),
               One("DST_MAC_ADDRESS", {0, 2, 3, 6}), One("MAC_ADDRESS_MODE", {0, 1}),
               One("DEVICE_MAC_ADDRESS", {2, 8})})
   EXCEPT !.ranges.MAC_ADDRESS_MODE = {0, 1}]

(* The notification policy and the measurement budget while the session    *)
(* streams.                                                                *)
Policy ==
  [Host({"INIT", "START", "STOP", "SET"},
        UNION {One("SESSION_INFO_NTF_CONFIG", {0, 2, 5, Malformed}),
               One("RNG_DATA_NTF_PROXIMITY_NEAR", {103, 120, Malformed}),
               One("RNG_DATA_NTF_PROXIMITY_FAR", {107, Malformed}),
               One("MAX_NUMBER_OF_MEASUREMENTS", {0, 2}),
               {Pair("RNG_DATA_NTF_PROXIMITY_FAR", 112, "PRF_MODE", 3)}})
   EXCEPT !.burst = 4]

(* Two keys fill the answer, a third may be too long, or still fit.        *)
Requests ==
  {[keys |-> ks, count |-> Len(ks), extra |-> 0] :
     ks \in {<<>>, <<2>>, <<2, 3>>, <<9, 2, 3>>, <<3, 9, 2>>, <<3, 3, 1>>}}
  \cup {[keys |-> <<2>>, count |-> 2, extra |-> 0], [keys |-> <<2, 2>>, count |-> 1, extra |-> 0],
        [keys |-> <<2>>, count |-> 1, extra |-> 1]}

(* The device's own parameters, and a session parameter without a default. *)
Core ==
  [Host({"RESET", "INIT", "DEINIT", "SET", "GET", "CORE_SET", "CORE_GET", "TIMESTAMP", "SHORT",
         "INFO", "CAPS", "UNKNOWN", "CALIBRATIONS"},
        One("ANTENNA_SET_ID", {7, Overlong}) \cup One(Unsupported, {1}))
   EXCEPT !.gets = {<<"ANTENNA_SET_ID">>, <<"PRF_MODE", "SFD_ID", "PRF_MODE">>, <<Unsupported>>,
                    << >>},
          !.caps = FALSE,
          !.calibrations = Requests,
          !.coreSets =
            LET two == Pair("LOW_POWER_MODE", 1, "DEVICE_PAN_ID", 7)
            IN  {two, Pair("DEVICE_PAN_ID", Overlong, "LOW_POWER_MODE", 0),
                 Pair(ReadOnly, 1, "DEVICE_PAN_ID", 8), Pair(Unsupported, 1, "LOW_POWER_MODE", 1),
                 Pair("DEVICE_PAN_ID", 9, "DEVICE_PAN_ID", Overlong)} \cup Misdeclared(two),
          !.coreGets = {<<ReadOnly, "DEVICE_PAN_ID">>, <<"LOW_POWER_MODE", Unsupported>>,
                        <<Unsupported>>}]

AllSetups ==
  [scheduling |-> Scheduling, deferring |-> Deferring, security |-> Security, phy |-> Phy,
   topology |-> Topology, policy |-> Policy, core |-> Core]
SecuritySetup == [security |-> Security]
=============================================================================
