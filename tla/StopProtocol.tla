---------------------------- MODULE StopProtocol ----------------------------
(***************************************************************************)
(* What the code of the policy engine promises about stopping the car,     *)
(* without saying how it judges the driver.  Once the engine has decided   *)
(* to stop it stays decided until the next run cycle; while it stops, no   *)
(* throttle is allowed and the minimum-risk manoeuvre (MRM) runs, unless   *)
(* the driver takes over; after two ticks of MRM the driver cannot take    *)
(* over again.  The documents promise something else about the lock: at    *)
(* once for an intoxicated driver, never for an unresponsive one, and      *)
(* otherwise at the second manoeuvre.  PolicyDocuments shows the code      *)
(* break each of these.                                                    *)
(***************************************************************************)
EXTENDS Naturals

VARIABLES
    stopping,       \* the engine has decided to stop
    mrm,            \* the manoeuvre was requested by the last tick
    mrm_ticks,      \* how many ticks requested it in this run cycle, up to two
    throttle_cut    \* the last tick allowed no throttle

stopVars == <<stopping, mrm, mrm_ticks, throttle_cut>>

LockAfter == 2

Init == /\ stopping = FALSE
        /\ mrm = FALSE
        /\ mrm_ticks = 0
        /\ throttle_cut = TRUE

Assist == /\ ~stopping
          /\ mrm' = FALSE
          /\ throttle_cut' \in BOOLEAN
          /\ UNCHANGED <<stopping, mrm_ticks>>

Manoeuvre == /\ stopping' = TRUE
             /\ mrm' = TRUE
             /\ mrm_ticks' = IF mrm_ticks < LockAfter THEN mrm_ticks + 1 ELSE LockAfter
             /\ throttle_cut' = TRUE

TakeOver == /\ mrm_ticks < LockAfter
            /\ stopping' = TRUE
            /\ mrm' = FALSE
            /\ throttle_cut' = TRUE
            /\ UNCHANGED mrm_ticks

NewRunCycle == /\ stopping' = FALSE
               /\ mrm' = FALSE
               /\ mrm_ticks' = 0
               /\ throttle_cut' = TRUE

Next == Assist \/ Manoeuvre \/ TakeOver \/ NewRunCycle

Spec == Init /\ [][Next]_stopVars
=============================================================================
