------------------------------ MODULE MCStepB ------------------------------
(***************************************************************************)
(* Small sets of samples for Step B.  Ticks of 0.2 s and 1 s and one       *)
(* negative delta_s; the three speed bands; reasons that are empty, not    *)
(* critical, critical, and (wrongly) BLOCKED_CAMERA; timestamps out of     *)
(* order; blockages on both sides of the absent threshold of a band.       *)
(***************************************************************************)
EXTENDS StepBHistory

ReasonStamps == {<<"NONE", 0>>, <<"PHONE", 1>>, <<"DROWSY", 2>>,
                 <<"INTOXICATED", 1>>, <<"BLOCKED_CAMERA", 2>>}

ClearSamples ==
    {[is_attentive |-> a, reason |-> r[1], reason_ts_ms |-> r[2],
      camera_blocked |-> FALSE, blocked_for |-> 0,
      jetracer_input |-> j, delta_s |-> d] :
        a \in BOOLEAN, r \in ReasonStamps, j \in {0, 50, 100}, d \in {2, 10}}

\* A caller that passes a negative delta_s (main.cpp:97).
BackwardSamples ==
    {[is_attentive |-> a, reason |-> "NONE", reason_ts_ms |-> 0,
      camera_blocked |-> FALSE, blocked_for |-> 0,
      jetracer_input |-> 0, delta_s |-> -10] : a \in BOOLEAN}

BlockedSamples ==
    {[is_attentive |-> a, reason |-> r[1], reason_ts_ms |-> r[2],
      camera_blocked |-> TRUE, blocked_for |-> b,
      jetracer_input |-> j, delta_s |-> 10] :
        a \in BOOLEAN, r \in ReasonStamps, j \in {0, 50, 100}, b \in {0, 80, 100}}

NoCamera   == ClearSamples \cup BackwardSamples
WithCamera == NoCamera \cup BlockedSamples
=============================================================================
