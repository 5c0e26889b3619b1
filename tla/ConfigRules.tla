----------------------------- MODULE ConfigRules -----------------------------
(***************************************************************************)
(* The parameter rules of a session: the value ranges and defaults of the  *)
(* default profile (src/src/spec/uci_sim_profile.c) and the checks of      *)
(* src/src/core/uci_sim_validation.c, when a parameter is set and when the *)
(* session starts.                                                         *)
(*                                                                         *)
(* A value is the number its bytes encode, little endian; of key material  *)
(* and address lists only the length matters, and is the value.  Malformed *)
(* stands for a value whose length is not the parameter's.                 *)
(***************************************************************************)
EXTENDS Integers, Sequences, FiniteSetsExt

Malformed == -1
Unset == -2              \* a supported parameter that was never stored
Overlong == -3           \* more bytes than an entry holds
MaxInterval == 2^30      \* bound: the field is a uint32_t

(* default_session_app_config_values; the last three identifiers of the    *)
(* profile are supported but have no default, ANTENNA_SET_ID stands for    *)
(* them.                                                                   *)
Defaults ==
  [DEVICE_TYPE |-> 1, DEVICE_ROLE |-> 1, MULTI_NODE_MODE |-> 1,
   NUMBER_OF_CONTROLEES |-> 3, DST_MAC_ADDRESS |-> 6,
   MAC_ADDRESS_MODE |-> 0, DEVICE_MAC_ADDRESS |-> 2,
   RANGING_ROUND_USAGE |-> 1, CHANNEL_NUMBER |-> 5, SLOT_DURATION |-> 2400,
   STS_CONFIG |-> 1, STATIC_STS_IV |-> 8, SESSION_KEY |-> 16,
   SUBSESSION_KEY |-> 16, KEY_ROTATION |-> 1, KEY_ROTATION_RATE |-> 15,
   NUMBER_OF_STS_SEGMENTS |-> 2, STS_LENGTH |-> 2,
   PRF_MODE |-> 0, PREAMBLE_CODE_INDEX |-> 12, SFD_ID |-> 2,
   PSDU_DATA_RATE |-> 1, PREAMBLE_DURATION |-> 1, LINK_LAYER_MODE |-> 1,
   MAX_RR_RETRY |-> 0, RANGING_TIME_STRUCT |-> 0, SCHEDULED_MODE |-> 1,
   BLOCK_STRIDE_LENGTH |-> 0, SLOTS_PER_RR |-> 6, RESPONDER_SLOT_INDEX |-> 0,
   CAP_SIZE_RANGE |-> 0, RANGING_INTERVAL |-> 2000, RESULT_REPORT_CONFIG |-> 7,
   AOA_RESULT_REQ |-> 3, RSSI_REPORTING |-> 1, SESSION_INFO_NTF_CONFIG |-> 1,
   RNG_DATA_NTF_PROXIMITY_NEAR |-> 100, RNG_DATA_NTF_PROXIMITY_FAR |-> 500,
   MAX_NUMBER_OF_MEASUREMENTS |-> 16, DATA_REPETITION_COUNT |-> 0,
   ANTENNA_SET_ID |-> Unset]

Params == DOMAIN Defaults
Values == Nat \cup {Malformed, Overlong}     \* what an entry may hold
Entries == [id : STRING, value : Values]

(* A list of short addresses, of at most supported_max_controlees.         *)
AddressLists == {2 * n : n \in 1 .. 8}

(* The supported_* fields: per parameter the values it may have on its     *)
(* own.  The preamble code and the SFD depend on the PRF mode.             *)
DefaultRanges ==
  [DEVICE_TYPE |-> 0 .. 1, MULTI_NODE_MODE |-> 0 .. 2,
   NUMBER_OF_CONTROLEES |-> 0 .. 8, DST_MAC_ADDRESS |-> AddressLists,
   MAC_ADDRESS_MODE |-> {0}, RANGING_ROUND_USAGE |-> {1, 2, 3, 4, 7, 8},
   CHANNEL_NUMBER |-> {5, 9}, SLOT_DURATION |-> 16 .. 65535,
   STS_CONFIG |-> 0 .. 4, KEY_ROTATION |-> 0 .. 1, KEY_ROTATION_RATE |-> 0 .. 15,
   NUMBER_OF_STS_SEGMENTS |-> 0 .. 4, STS_LENGTH |-> 0 .. 2,
   PRF_MODE |-> 0 .. 2, PSDU_DATA_RATE |-> 0 .. 3, PREAMBLE_DURATION |-> 0 .. 1,
   LINK_LAYER_MODE |-> 0 .. 1, MAX_RR_RETRY |-> 0 .. 65535,
   RANGING_TIME_STRUCT |-> 0 .. 1, SCHEDULED_MODE |-> {1},
   BLOCK_STRIDE_LENGTH |-> 0 .. 255, SLOTS_PER_RR |-> 1 .. 255,
   RANGING_INTERVAL |-> 50 .. MaxInterval, RESULT_REPORT_CONFIG |-> 0 .. 15,
   AOA_RESULT_REQ |-> 0 .. 3, RSSI_REPORTING |-> 0 .. 1]
Ranged == DOMAIN DefaultRanges

PreambleCodes(prf) == IF prf = 0 THEN 9 .. 12 ELSE 25 .. 32
SfdIds(prf) == IF prf = 0 THEN {0, 2} ELSE {1, 2, 3, 4}

-----------------------------------------------------------------------------
(* The checks that read several parameters, of the configuration c.  Of an *)
(* address mode that is neither short nor extended only the mode itself is *)
(* checked (the rule ADDRESS_MODE).                                        *)

DeviceMacLength(c) ==
  /\ c.MAC_ADDRESS_MODE = 0 => c.DEVICE_MAC_ADDRESS = 2
  /\ c.MAC_ADDRESS_MODE = 1 => c.DEVICE_MAC_ADDRESS = 8

KeyMaterial(c) ==
  /\ c.STS_CONFIG = 0 => c.STATIC_STS_IV = 8
  /\ c.STS_CONFIG \in {3, 4} => c.SESSION_KEY \in {16, 32}
  /\ c.STS_CONFIG = 4 => c.SUBSESSION_KEY \in {16, 32}

SlotTopology(c) ==
  c.RESPONDER_SLOT_INDEX # Malformed /\ c.RESPONDER_SLOT_INDEX < c.SLOTS_PER_RR

BlockStride(ranges, c) ==
  /\ c.BLOCK_STRIDE_LENGTH \in ranges.BLOCK_STRIDE_LENGTH
  /\ c.BLOCK_STRIDE_LENGTH # 0 => c.RANGING_TIME_STRUCT = 1 /\ c.SCHEDULED_MODE = 1

(* The first byte is the maximum, the second the minimum; contention-based *)
(* scheduling is mode 0.                                                   *)
CapSize(c) ==
  LET max == c.CAP_SIZE_RANGE % 256
      min == c.CAP_SIZE_RANGE \div 256
  IN  /\ c.CAP_SIZE_RANGE # Malformed
      /\ min <= max
      /\ max # 0 => c.SCHEDULED_MODE = 0 /\ max < c.SLOTS_PER_RR

(* Roles 0 and 1 are responder and initiator, types 0 and 1 controlee and  *)
(* controller; the other roles go with either type.                        *)
Rules(ranges, c) ==
  [DEVICE_ROLE |-> c.DEVICE_ROLE # Malformed,
   TYPE_ROLE |-> c.DEVICE_ROLE \in {0, 1} => c.DEVICE_TYPE = c.DEVICE_ROLE,
   ADDRESS_MODE |-> c.MAC_ADDRESS_MODE \in {0, 1} \cup ranges.MAC_ADDRESS_MODE,
   DEVICE_MAC_ADDRESS |-> DeviceMacLength(c),
   CONTROLEE_COUNT |-> c.DST_MAC_ADDRESS \div 2 = c.NUMBER_OF_CONTROLEES,
   UNICAST |-> c.MULTI_NODE_MODE = 0 =>
                 c.NUMBER_OF_CONTROLEES = 1 /\ c.DST_MAC_ADDRESS = 2,
   KEY_MATERIAL |-> KeyMaterial(c),
   ROTATION_STS |-> c.KEY_ROTATION # 0 => c.STS_CONFIG \in 1 .. 4,
   PREAMBLE_CODE_INDEX |-> c.PREAMBLE_CODE_INDEX \in PreambleCodes(c.PRF_MODE),
   SFD_ID |-> c.SFD_ID \in SfdIds(c.PRF_MODE),
   SLOT_TOPOLOGY |-> SlotTopology(c),
   BLOCK_STRIDE |-> BlockStride(ranges, c),
   CAP_SIZE |-> CapSize(c)]

RuleNames == {"DEVICE_ROLE", "TYPE_ROLE", "ADDRESS_MODE", "DEVICE_MAC_ADDRESS",
              "CONTROLEE_COUNT", "UNICAST", "KEY_MATERIAL", "ROTATION_STS",
              "PREAMBLE_CODE_INDEX", "SFD_ID", "SLOT_TOPOLOGY", "BLOCK_STRIDE",
              "CAP_SIZE"}
Checks == Ranged \cup RuleNames

(* Only the first byte of the two-byte key rotation rate is compared.      *)
InRange(ranges, c, p) ==
  /\ c[p] >= 0
  /\ (IF p = "KEY_ROTATION_RATE" THEN c[p] % 256 ELSE c[p]) \in ranges[p]

Holds(ranges, c, k) ==
  IF k \in Ranged THEN InRange(ranges, c, k) ELSE Rules(ranges, c)[k]

(* The profile tells, per parameter, whether a bad value is refused at     *)
(* once or reported by a session status when the session starts.  A check  *)
(* of several parameters follows the parameter named here.                 *)
Owner(k) ==
  CASE k = "TYPE_ROLE" -> "DEVICE_TYPE"
    [] k = "ADDRESS_MODE" -> "MAC_ADDRESS_MODE"
    [] k = "CONTROLEE_COUNT" -> "NUMBER_OF_CONTROLEES"
    [] k = "UNICAST" -> "MULTI_NODE_MODE"
    [] k = "KEY_MATERIAL" -> "STS_CONFIG"
    [] k = "ROTATION_STS" -> "KEY_ROTATION"
    [] k \in {"SLOT_TOPOLOGY", "RESPONDER_SLOT_INDEX"} -> "SLOTS_PER_RR"
    [] k = "BLOCK_STRIDE" -> "BLOCK_STRIDE_LENGTH"
    [] k = "CAP_SIZE" -> "CAP_SIZE_RANGE"
    [] OTHER -> k

-----------------------------------------------------------------------------
(* uci_sim_validate_session_app_config: the checks made when p is set, in  *)
(* their order, of the configuration with p set.                           *)

(* A stored PRF or address mode of the wrong length is taken for zero.     *)
OrZero(v) == IF v = Malformed THEN 0 ELSE v
ModesRead(c) == [c EXCEPT !.PRF_MODE = OrZero(@), !.MAC_ADDRESS_MODE = OrZero(@)]

Validated ==
  Ranged \cup {"DEVICE_MAC_ADDRESS", "PREAMBLE_CODE_INDEX", "SFD_ID",
               "RESPONDER_SLOT_INDEX", "CAP_SIZE_RANGE"}

(* Mutant of SetChecks: a new slot count is not compared with the CAP size. *)
SetChecksSlotsAlone(p) ==
  CASE p = "SLOTS_PER_RR" -> <<p, "SLOT_TOPOLOGY">>
    [] p = "RESPONDER_SLOT_INDEX" -> <<"SLOTS_PER_RR", "SLOT_TOPOLOGY">>
    [] p = "SCHEDULED_MODE" -> <<p, "BLOCK_STRIDE", "CAP_SIZE">>
    [] p \in {"RANGING_TIME_STRUCT", "BLOCK_STRIDE_LENGTH"} -> <<p, "BLOCK_STRIDE">>
    [] p = "CAP_SIZE_RANGE" -> <<"CAP_SIZE">>
    [] p \in {"PREAMBLE_CODE_INDEX", "SFD_ID"} -> <<"PRF_MODE", p>>
    [] p = "DEVICE_MAC_ADDRESS" -> <<"ADDRESS_MODE", p>>
    [] OTHER -> <<p>>

SetChecks(p) ==
  CASE p = "SLOTS_PER_RR" -> <<p, "SLOT_TOPOLOGY", "CAP_SIZE">>
    [] p = "RESPONDER_SLOT_INDEX" -> <<"SLOTS_PER_RR", "SLOT_TOPOLOGY">>
    [] p = "SCHEDULED_MODE" -> <<p, "BLOCK_STRIDE", "CAP_SIZE">>
    [] p \in {"RANGING_TIME_STRUCT", "BLOCK_STRIDE_LENGTH"} -> <<p, "BLOCK_STRIDE">>
    [] p = "CAP_SIZE_RANGE" -> <<"CAP_SIZE">>
    [] p \in {"PREAMBLE_CODE_INDEX", "SFD_ID"} -> <<"PRF_MODE", p>>
    [] p = "DEVICE_MAC_ADDRESS" -> <<"ADDRESS_MODE", p>>
    [] OTHER -> <<p>>

(* Mutant of StartChecks: the preamble code and the SFD are trusted to fit *)
(* the PRF mode because they were checked when they were set.              *)
StartChecksTrustingPhy ==
  <<"RANGING_INTERVAL", "DEVICE_TYPE", "DEVICE_ROLE", "TYPE_ROLE",
    "MULTI_NODE_MODE", "MAC_ADDRESS_MODE", "NUMBER_OF_CONTROLEES",
    "DEVICE_MAC_ADDRESS", "DST_MAC_ADDRESS", "CONTROLEE_COUNT", "UNICAST",
    "SLOT_DURATION", "CHANNEL_NUMBER", "STS_CONFIG", "KEY_MATERIAL",
    "RESULT_REPORT_CONFIG", "AOA_RESULT_REQ", "PRF_MODE", "PSDU_DATA_RATE",
    "PREAMBLE_DURATION", "STS_LENGTH", "KEY_ROTATION", "ROTATION_STS",
    "KEY_ROTATION_RATE", "NUMBER_OF_STS_SEGMENTS", "MAX_RR_RETRY",
    "LINK_LAYER_MODE", "RANGING_TIME_STRUCT", "SCHEDULED_MODE",
    "BLOCK_STRIDE_LENGTH", "BLOCK_STRIDE", "SLOTS_PER_RR", "SLOT_TOPOLOGY",
    "CAP_SIZE", "RSSI_REPORTING", "RANGING_ROUND_USAGE">>

(* uci_sim_validate_session_start, in its order.                           *)
StartChecks ==
  <<"RANGING_INTERVAL", "DEVICE_TYPE", "DEVICE_ROLE", "TYPE_ROLE",
    "MULTI_NODE_MODE", "MAC_ADDRESS_MODE", "NUMBER_OF_CONTROLEES",
    "DEVICE_MAC_ADDRESS", "DST_MAC_ADDRESS", "CONTROLEE_COUNT", "UNICAST",
    "SLOT_DURATION", "CHANNEL_NUMBER", "STS_CONFIG", "KEY_MATERIAL",
    "RESULT_REPORT_CONFIG", "AOA_RESULT_REQ", "PRF_MODE",
    "PREAMBLE_CODE_INDEX", "SFD_ID", "PSDU_DATA_RATE",
    "PREAMBLE_DURATION", "STS_LENGTH", "KEY_ROTATION", "ROTATION_STS",
    "KEY_ROTATION_RATE", "NUMBER_OF_STS_SEGMENTS", "MAX_RR_RETRY",
    "LINK_LAYER_MODE", "RANGING_TIME_STRUCT", "SCHEDULED_MODE",
    "BLOCK_STRIDE_LENGTH", "BLOCK_STRIDE", "SLOTS_PER_RR", "SLOT_TOPOLOGY",
    "CAP_SIZE", "RSSI_REPORTING", "RANGING_ROUND_USAGE">>

Passed == "PASSED"

FirstFailure(ranges, c, checks) ==
  LET failed == {i \in DOMAIN checks : ~Holds(ranges, c, checks[i])}
  IN  IF failed = {} THEN Passed
      ELSE checks[Min(failed)]

(* What the getters of the model return for a stored value of another      *)
(* length.                                                                 *)
Fallback ==
  [RANGING_INTERVAL |-> 2000, RESULT_REPORT_CONFIG |-> 1, AOA_RESULT_REQ |-> 0,
   RSSI_REPORTING |-> 0, RANGING_ROUND_USAGE |-> 1, SESSION_INFO_NTF_CONFIG |-> 1,
   RNG_DATA_NTF_PROXIMITY_NEAR |-> 0, RNG_DATA_NTF_PROXIMITY_FAR |-> 65535,
   MAX_NUMBER_OF_MEASUREMENTS |-> 0]
Effective(c) ==
  [p \in Params |-> IF c[p] = Malformed /\ p \in DOMAIN Fallback
                    THEN Fallback[p] ELSE c[p]]
=============================================================================
