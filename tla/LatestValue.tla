----------------------------- MODULE LatestValue -----------------------------
(***************************************************************************)
(* What a slot of shared memory promises its reader, without saying how    *)
(* samples are stored, numbered or copied.  The reader comes to hold the   *)
(* sample written last; samples in between may be missed.  While a write   *)
(* is under way, or after it was cut short, what the reader takes may be   *)
(* anything, and so may what it takes while a newer sample is waiting.  A  *)
(* write that is announced before it is complete counts as under way, and  *)
(* when the reader has taken it meanwhile, as cut short.                   *)
(***************************************************************************)
CONSTANTS
    Samples,        \* what the reader may hold
    Default         \* what it holds before it has read anything

VARIABLES
    latest,         \* the sample written last; Default if there is none
    settled,        \* no write is under way or was cut short
    fresh,          \* something was written that the reader has not taken
    taken           \* what the reader holds

valueVars == <<latest, settled, fresh, taken>>

Init == /\ latest = Default
        /\ settled = TRUE
        /\ fresh = FALSE
        /\ taken = Default

Disturb == /\ settled' = FALSE
           /\ UNCHANGED <<latest, fresh, taken>>

\* A sample is announced; it may be complete or not.
Publish(sample) == /\ latest' = sample
                   /\ settled' \in BOOLEAN
                   /\ fresh' = TRUE
                   /\ UNCHANGED taken

\* The announced sample is complete before the reader has taken it.
Settle == /\ fresh
          /\ settled' = TRUE
          /\ UNCHANGED <<latest, fresh, taken>>

\* A reader that has nothing left to take holds what the slot holds.
NothingMissed == settled' /\ ~fresh' => taken' = latest'

Take == /\ fresh
        /\ taken' \in Samples
        /\ fresh' \in BOOLEAN
        /\ UNCHANGED <<latest, settled>>
        /\ NothingMissed

\* The reader is started again and has read nothing; it can take once more
\* what it took too early.
Forget == /\ taken' = Default
          /\ fresh' \in BOOLEAN
          /\ settled' \in {settled, settled \/ fresh'}
          /\ UNCHANGED latest
          /\ NothingMissed

Next == Disturb \/ (\E sample \in Samples : Publish(sample)) \/ Settle \/ Take \/ Forget

Spec == Init /\ [][Next]_valueVars
=============================================================================
