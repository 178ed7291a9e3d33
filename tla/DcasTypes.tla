----------------------------- MODULE DcasTypes -----------------------------
(***************************************************************************)
(* The enumerations shared by the two steps of the DCAS policy engine      *)
(* (include/dcas_policy_engine/types.hpp), and the order the driver states *)
(* are meant to have.                                                      *)
(***************************************************************************)
EXTENDS Integers

DriverState == {"OK", "WARNING", "ESCALATION", "ABSENT"}

Reason == {"NONE", "PHONE", "DROWSY", "UNRESPONSIVE", "INTOXICATED",
           "UNKNOWN", "BLOCKED_CAMERA"}

HmiAction == {"INFO", "EOR", "DCA", "MRM"}

LkasMode == {"OFF", "ON_INACTIVE", "ON_ACTIVE"}

LkasSwitchEvent == {"NONE", "ON", "OFF"}

SpeedBand == {"LOW", "MID", "HIGH"}

is_critical_reason(reason) ==
    reason \in {"UNRESPONSIVE", "INTOXICATED", "BLOCKED_CAMERA"}

\* std::max(0.0, x)
NonNegative(x) == IF x < 0 THEN 0 ELSE x

\* The declaration order of the enumeration: how severe a driver state is.
Severity(state) == CASE state = "OK"         -> 0
                     [] state = "WARNING"    -> 1
                     [] state = "ESCALATION" -> 2
                     [] state = "ABSENT"     -> 3
=============================================================================
