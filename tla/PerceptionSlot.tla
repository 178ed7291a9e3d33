--------------------------- MODULE PerceptionSlot ---------------------------
(***************************************************************************)
(* The shared-memory slot perception_to_dcas: one writer, the feeder       *)
(* process perception_feeder.py, and one reader, the bridge.  The feeder   *)
(* stores the words of a sample and then a sequence number; the reader     *)
(* takes a sample whose sequence number it has not seen.  Nothing locks    *)
(* the slot, and either process may be killed and started again at any     *)
(* point.                                                                  *)
(*                                                                         *)
(* A word of the slot holds the message it was taken from, so a sample is  *)
(* torn when two of its words come from different messages.  The feeder    *)
(* stores with plain writes and no barrier, so its stores, the number's    *)
(* included, become visible in any order.                                  *)
(*                                                                         *)
(* The reader is RtControlShm::read_perception_to_dcas, which is not in    *)
(* the repository: it is modelled from the feeder's comment on it, a load  *)
(* of the number with acquire and then of the struct (perception_feeder.py *)
(* :70-71), and from its use in dcas_rt_bridge.cpp:160-165.                *)
(***************************************************************************)
EXTENDS Integers

CONSTANTS
    Words,              \* the words of a sample, stored and copied one by one
    Messages,           \* what the perception service may send
    NoMessage,          \* the content of a slot that was never written
    SeqMax,             \* the largest sequence number (0xFFFFFFFF in the code)
    MaxLag,             \* bound: messages published between two looks of the reader
    MaxReaderRestarts   \* bound: restarts of the reader

ASSUME SeqMaxAssumption == SeqMax \in Nat /\ SeqMax >= 2
ASSUME MaxLagAssumption == MaxLag \in 1 .. SeqMax - 1
ASSUME MaxReaderRestartsAssumption == MaxReaderRestarts \in Nat
ASSUME NoMessageAssumption == NoMessage \notin Messages
ASSUME WordsAssumption == "seq" \notin Words

VARIABLES
    sample, perception_seq,     \* the slot
    feeder,                     \* "down", "idle" or "writing"
    seq,                        \* the feeder's next sequence number (an unbounded int)
    msg, unwritten,             \* the message being written, the stores not yet visible
    reader,                     \* "idle" or "copying"
    seen, copy, uncopied,       \* the sequence number loaded, the words copied so far
    last_seq, held,             \* what the reader took last
    published,                  \* auxiliary: the last message whose store was completed
    interrupted,                \* auxiliary: a store was cut short and none completed since
    early,                      \* auxiliary: the number was loaded before its words were visible
    lag,                        \* auxiliary: messages published since the reader looked
    reader_restarts             \* auxiliary: bounded by MaxReaderRestarts

slotVars   == <<sample, perception_seq>>
feederVars == <<feeder, seq, msg, unwritten>>
readerVars == <<reader, seen, copy, uncopied, last_seq, held>>
slotAux    == <<published, interrupted, early, lag, reader_restarts>>
allVars    == <<slotVars, feederVars, readerVars, slotAux>>

Content  == Messages \cup {NoMessage}
Whole(m) == [w \in Words |-> m]

SlotInit ==
    /\ sample = Whole(NoMessage) /\ perception_seq = 0
    /\ feeder = "down" /\ seq = 1 /\ msg = NoMessage /\ unwritten = {}
    /\ reader = "idle" /\ seen = 0 /\ copy = Whole(NoMessage) /\ uncopied = {}
    /\ last_seq = 0 /\ held = Whole(NoMessage)
    /\ published = NoMessage /\ interrupted = FALSE
    /\ early = FALSE /\ lag = 0 /\ reader_restarts = 0

-----------------------------------------------------------------------------
(* The feeder *)

MutResumeSeq == 1
MutResumeSeqAgain == IF perception_seq > 1 THEN perception_seq ELSE 1

\* max(1, the number in the slot + 1)
ResumeSeq == IF perception_seq + 1 > 1 THEN perception_seq + 1 ELSE 1

\* main(): map the slot and resume after the sequence number found there.
StartFeeder ==
    /\ feeder = "down"
    /\ feeder' = "idle"
    /\ seq' = ResumeSeq
    /\ UNCHANGED <<slotVars, msg, unwritten, readerVars, slotAux>>

\* sub.poll() returned a message: _write() begins.
Receive(m) ==
    /\ feeder = "idle"
    /\ lag < MaxLag
    /\ feeder' = "writing" /\ msg' = m /\ unwritten' = Words \cup {"seq"}
    /\ UNCHANGED <<slotVars, seq, readerVars, slotAux>>

\* One word of the sample becomes visible.
StoreWord(w) ==
    /\ feeder = "writing"
    /\ w \in unwritten
    /\ sample' = [sample EXCEPT ![w] = msg]
    /\ unwritten' = unwritten \ {w}
    /\ UNCHANGED <<perception_seq, feeder, seq, msg, readerVars, slotAux>>

MutAdvanceSeqToZero(n) == IF n = SeqMax THEN 0 ELSE n + 1

\* seq += 1, wrapping to 1 because 0 means never written.
AdvanceSeq(n) == IF n + 1 > SeqMax THEN 1 ELSE n + 1

MutMayStoreSeqOfAnyWidth == "seq" \in unwritten

\* struct.pack('<I', seq) takes no larger number.
MayStoreSeq == "seq" \in unwritten /\ seq <= SeqMax

\* The sequence number becomes visible, before, after or between the words.
StoreSeq ==
    /\ feeder = "writing"
    /\ MayStoreSeq
    /\ perception_seq' = seq
    /\ unwritten' = unwritten \ {"seq"}
    /\ lag' = lag + 1
    /\ UNCHANGED <<sample, feeder, seq, msg, readerVars, published, interrupted, early,
                   reader_restarts>>

\* _write() returns.
FinishWrite ==
    /\ feeder = "writing"
    /\ unwritten = {}
    /\ feeder' = "idle"
    /\ seq' = AdvanceSeq(seq)
    /\ published' = msg
    /\ interrupted' = FALSE
    /\ UNCHANGED <<slotVars, msg, unwritten, readerVars, early, lag, reader_restarts>>

\* struct.pack('<I', seq) raises for a number of more than 32 bits, after the
\* sample was stored; the process ends.
PackFails ==
    /\ feeder = "writing"
    /\ unwritten = {"seq"}
    /\ seq > SeqMax
    /\ feeder' = "down"
    /\ unwritten' = {}
    /\ interrupted' = TRUE
    /\ UNCHANGED <<slotVars, seq, msg, readerVars, published, early, lag, reader_restarts>>

\* The feeder ends or is killed; stores it has issued still become visible, so
\* a number that is visible is followed by the words stored before it.
StopFeeder ==
    /\ feeder # "down"
    /\ "seq" \notin unwritten => unwritten = {}
    /\ feeder' = "down"
    /\ unwritten' = {}
    /\ interrupted' = ("seq" \in unwritten \/ (interrupted /\ feeder = "idle"))
    /\ published' = IF feeder = "writing" /\ unwritten = {} THEN msg ELSE published
    /\ UNCHANGED <<slotVars, seq, msg, readerVars, early, lag, reader_restarts>>

-----------------------------------------------------------------------------
(* The reader *)

\* The number has been stored for the message being written.
Announced == feeder = "writing" /\ "seq" \notin unwritten

\* The sequence number is neither 0 nor the one taken last: start copying.
LoadSeq ==
    /\ reader = "idle"
    /\ perception_seq \notin {0, last_seq}
    /\ reader' = "copying" /\ seen' = perception_seq /\ uncopied' = Words
    /\ early' = (Announced /\ unwritten # {})
    /\ lag' = 0
    /\ UNCHANGED <<slotVars, feederVars, copy, last_seq, held,
                   published, interrupted, reader_restarts>>

CopyWord(w) ==
    /\ reader = "copying"
    /\ w \in uncopied
    /\ copy' = [copy EXCEPT ![w] = sample[w]]
    /\ uncopied' = uncopied \ {w}
    /\ UNCHANGED <<slotVars, feederVars, reader, seen, last_seq, held, slotAux>>

MutTakeSampleMarksLatest ==
    /\ reader = "copying"
    /\ uncopied = {}
    /\ reader' = "idle" /\ last_seq' = perception_seq /\ held' = copy
    /\ UNCHANGED <<slotVars, feederVars, seen, copy, uncopied, slotAux>>

\* read_perception_to_dcas() returns true: the bridge takes the sample.
TakeSample ==
    /\ reader = "copying"
    /\ uncopied = {}
    /\ reader' = "idle" /\ last_seq' = seen /\ held' = copy
    /\ UNCHANGED <<slotVars, feederVars, seen, copy, uncopied, slotAux>>

\* The bridge is started again: it has seen nothing and holds its defaults.
RestartReader ==
    /\ reader_restarts < MaxReaderRestarts
    /\ reader' = "idle" /\ seen' = 0 /\ copy' = Whole(NoMessage) /\ uncopied' = {}
    /\ last_seq' = 0 /\ held' = Whole(NoMessage)
    /\ early' = FALSE /\ lag' = 0
    /\ reader_restarts' = reader_restarts + 1
    /\ UNCHANGED <<slotVars, feederVars, published, interrupted>>

FeederStep == \/ StartFeeder
              \/ \E m \in Messages : Receive(m)
              \/ \E w \in Words : StoreWord(w)
              \/ StoreSeq
              \/ FinishWrite
              \/ PackFails
              \/ StopFeeder

ReaderStep == LoadSeq \/ (\E w \in Words : CopyWord(w)) \/ TakeSample

SlotNext == FeederStep \/ ReaderStep \/ RestartReader

\* The reader is polled by the bridge's loop, which never waits for anything
\* once the grace period is over (dcas_rt_bridge.cpp:145-249).
SlotSpec == SlotInit /\ [][SlotNext]_allVars /\ WF_allVars(ReaderStep)

-----------------------------------------------------------------------------
(* Properties *)

\* The number the reader compares the next one with.
Observed == IF reader = "copying" THEN seen ELSE last_seq

\* The message the slot is meant to hold, and whether it holds it undisturbed:
\* no store is under way, and none was cut short since the last one completed.
Current == IF Announced THEN msg ELSE published
Settled == IF feeder = "writing" THEN unwritten = {} ELSE ~interrupted

\* The number in the slot is the one the reader compares with, and the reader
\* loaded it before the words it announces.
Overtaken == early /\ Observed = perception_seq

Value == INSTANCE LatestValue WITH
             Samples <- [Words -> Content],
             Default <- Whole(NoMessage),
             latest  <- Whole(Current),
             settled <- Settled /\ ~Overtaken,
             fresh   <- reader = "copying" \/ last_seq # perception_seq,
             taken   <- held

\* In whatever order the stores become visible, words and numbers amount to a
\* register that keeps the last sample.  A torn sample is taken only while the
\* feeder stores, and is replaced by the reader's next look; it stays only if
\* the feeder died while storing or the number overtook its words
\* (perception_feeder.py:70-81, 99-114).
RefinesLatestValue == Value!Spec

\* Types; the sequence number in the slot has its width, the feeder's own may
\* be one more (perception_feeder.py:81, 92-93, 110-112).
SlotTypeOK ==
    /\ sample \in [Words -> Content] /\ perception_seq \in 0 .. SeqMax
    /\ feeder \in {"down", "idle", "writing"} /\ seq \in 1 .. SeqMax + 1
    /\ msg \in Content /\ unwritten \subseteq Words \cup {"seq"}
    /\ reader \in {"idle", "copying"} /\ seen \in 0 .. SeqMax
    /\ copy \in [Words -> Content] /\ uncopied \subseteq Words
    /\ last_seq \in 0 .. SeqMax /\ held \in [Words -> Content]
    /\ published \in Content /\ interrupted \in BOOLEAN /\ early \in BOOLEAN
    /\ lag \in 0 .. MaxLag /\ reader_restarts \in 0 .. MaxReaderRestarts

\* A reader that has nothing left to read holds exactly the last message that
\* was published, whole.  A sample may be torn, but only until the reader's
\* next look.  Two things alone can make it last: the feeder died in the middle
\* of a store, or the reader loaded the number before the words it announces
\* were visible (perception_feeder.py:70-81).
CaughtUpMeansCurrent ==
    /\ reader = "idle" /\ last_seq = perception_seq
    /\ feeder # "writing" /\ ~interrupted /\ ~early
    => held = Whole(published)

\* Publishing is never a no-op for the reader: the number stored is new in the
\* slot, is not the never-written sentinel and is not the number the reader
\* compares with, after a restart of the feeder or a wrap as well
\* (perception_feeder.py:89-93, 110-112).
PublishIsVisible ==
    [][ lag' = lag + 1 =>
          perception_seq' \notin {0, perception_seq, Observed} ]_allVars

\* Once the feeder falls silent, the bridge gets to hold its last message and
\* keeps it, unless it has loaded the number of that message too early
\* (perception_feeder.py:99-114, dcas_rt_bridge.cpp:160-165).
LastMessageArrives ==
    <>[](feeder # "writing" /\ ~interrupted /\ ~early) => <>[](held = Whole(published))

\* The number the feeder is about to publish fits the slot: "wrap; never return
\* to 0" (perception_feeder.py:110-112, and the layout, lines 10-12).
NextSeqFits == feeder # "down" => seq \in 1 .. SeqMax
=============================================================================
