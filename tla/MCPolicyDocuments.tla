------------------------- MODULE MCPolicyDocuments -------------------------
(***************************************************************************)
(* A few samples and requests in which the policy runtime meets each rule  *)
(* of PolicyDocuments: an inattentive driver at low and at high speed, a   *)
(* glance, a blocked camera, the two critical reasons; with and without an *)
(* override.                                                               *)
(***************************************************************************)
EXTENDS PolicyDocuments

Sample(attentive, reason, blocked, jetracer_input) ==
    [is_attentive |-> attentive, reason |-> reason, reason_ts_ms |-> 1,
     camera_blocked |-> blocked, blocked_for |-> 10,
     jetracer_input |-> jetracer_input, delta_s |-> 15]

Samples == {Sample(TRUE, "NONE", FALSE, 0),
            Sample(FALSE, "NONE", FALSE, 0), Sample(FALSE, "NONE", FALSE, 100),
            Sample(FALSE, "NONE", TRUE, 0),
            Sample(FALSE, "INTOXICATED", FALSE, 0),
            Sample(FALSE, "UNRESPONSIVE", FALSE, 0)}

Requests == [notebook_input_alive : {TRUE},
             driver_override      : BOOLEAN,
             lkas_throttle        : {50},
             lkas_switch_event    : {"NONE"}]
=============================================================================
