-------------------------- MODULE MCPolicyRuntime --------------------------
(***************************************************************************)
(* Small inputs for the policy runtime: every branch of Step B with long   *)
(* ticks, and every combination of the Step C request with a positive and  *)
(* a negative throttle.                                                    *)
(***************************************************************************)
EXTENDS PolicyRuntime

Sample(attentive, reason, blocked) ==
    [is_attentive |-> attentive, reason |-> reason, reason_ts_ms |-> 1,
     camera_blocked |-> blocked, blocked_for |-> 10,
     jetracer_input |-> 50, delta_s |-> IF attentive THEN 15 ELSE 20]

Samples == {Sample(TRUE, "NONE", FALSE), Sample(FALSE, "NONE", FALSE),
            Sample(FALSE, "DROWSY", FALSE), Sample(TRUE, "UNRESPONSIVE", FALSE),
            Sample(FALSE, "INTOXICATED", FALSE), Sample(TRUE, "INTOXICATED", TRUE)}

Requests == [notebook_input_alive : BOOLEAN,
             driver_override      : BOOLEAN,
             lkas_throttle        : {-10, 50},
             lkas_switch_event    : LkasSwitchEvent]
=============================================================================
