------------------------ MODULE PerceptionSlot_proofs ------------------------
(***************************************************************************)
(* The shared-memory slot for every set of words and messages, every width *)
(* of the sequence number, any number of restarts of both processes and    *)
(* any order in which stores become visible: publishing is always visible  *)
(* to the reader, and a reader that has nothing left to read holds the     *)
(* last message whole, unless the feeder died while storing it or its      *)
(* number overtook its words.                                              *)
(***************************************************************************)
EXTENDS PerceptionSlot, TLAPS

-----------------------------------------------------------------------------
(* Sequence numbers *)

\* The feeder's next number follows the one in the slot; it is the one in the
\* slot between the store of the number and the return of _write().
SeqFollows ==
    /\ perception_seq \in 0 .. SeqMax /\ seq \in 1 .. SeqMax + 1
    /\ feeder \in {"down", "idle", "writing"}
    /\ feeder # "writing" => unwritten = {}
    /\ Announced => seq = perception_seq
    /\ feeder # "down" /\ ~Announced =>
          \/ seq = perception_seq + 1
          \/ seq = 1 /\ perception_seq = SeqMax

\* The reader is lag steps behind, around the circle 1 .. SeqMax; it never is a
\* whole round behind.
LagCounts ==
    /\ reader \in {"idle", "copying"}
    /\ seen \in 0 .. SeqMax /\ last_seq \in 0 .. SeqMax
    /\ lag \in 0 .. MaxLag
    /\ "seq" \in unwritten => lag < MaxLag
    /\ Observed # 0 =>
          \/ perception_seq = Observed + lag
          \/ perception_seq = Observed + lag - SeqMax

NumberInv == SeqFollows /\ LagCounts

\* All that the reader does leaves the feeder and the slot alone.
LEMMA ReaderLeavesFeeder ==
    ASSUME ReaderStep \/ RestartReader
    PROVE  UNCHANGED <<slotVars, feederVars, published, interrupted>>
BY DEF ReaderStep, LoadSeq, CopyWord, TakeSample, RestartReader, slotAux

LEMMA NumberInit == SlotInit => NumberInv
BY SeqMaxAssumption, MaxLagAssumption
   DEF SlotInit, NumberInv, SeqFollows, Announced, LagCounts, Observed

\* A number is stored: it is new, whatever the reader has seen.
LEMMA StoredSeqIsNew ==
    ASSUME NumberInv, StoreSeq
    PROVE  /\ perception_seq' \in 1 .. SeqMax
           /\ perception_seq' # perception_seq
           /\ Observed' = Observed
           /\ perception_seq' # Observed
           /\ lag' = lag + 1 /\ lag' <= MaxLag
           /\ Observed # 0 =>
                 \/ perception_seq' = Observed + lag'
                 \/ perception_seq' = Observed + lag' - SeqMax
<1>1. /\ perception_seq' = seq /\ seq \in 1 .. SeqMax
      /\ lag' = lag + 1 /\ lag < MaxLag /\ lag \in 0 .. MaxLag
      /\ perception_seq \in 0 .. SeqMax
      /\ \/ seq = perception_seq + 1
         \/ seq = 1 /\ perception_seq = SeqMax
  BY DEF NumberInv, SeqFollows, LagCounts, StoreSeq, MayStoreSeq, Announced
<1>2. Observed' = Observed /\ Observed \in 0 .. SeqMax
  BY DEF NumberInv, LagCounts, Observed, StoreSeq, readerVars
<1>3. Observed # 0 => \/ perception_seq = Observed + lag
                      \/ perception_seq = Observed + lag - SeqMax
  BY DEF NumberInv, LagCounts
<1>4. QED
  BY <1>1, <1>2, <1>3, SeqMaxAssumption, MaxLagAssumption

LEMMA NumberNext == NumberInv /\ [SlotNext]_allVars => NumberInv'
<1> SUFFICES ASSUME NumberInv, [SlotNext]_allVars PROVE NumberInv'
  OBVIOUS
<1>1. CASE StartFeeder
  BY <1>1, SeqMaxAssumption DEF StartFeeder, ResumeSeq, NumberInv, SeqFollows, Announced,
     LagCounts, Observed, slotVars, readerVars, slotAux
<1>2. ASSUME NEW m \in Messages, Receive(m) PROVE NumberInv'
  BY <1>2 DEF Receive, NumberInv, SeqFollows, Announced, LagCounts, Observed,
     slotVars, readerVars, slotAux
<1>3. ASSUME NEW w \in Words, StoreWord(w) PROVE NumberInv'
  BY <1>3, WordsAssumption DEF StoreWord, NumberInv, SeqFollows, Announced, LagCounts,
     Observed, readerVars, slotAux
<1>4. CASE StoreSeq
  <2>1. SeqFollows'
    BY <1>4, StoredSeqIsNew DEF StoreSeq, NumberInv, SeqFollows, Announced
  <2>2. LagCounts'
    BY <1>4, StoredSeqIsNew DEF StoreSeq, NumberInv, LagCounts, readerVars
  <2>3. QED
    BY <2>1, <2>2 DEF NumberInv
<1>5. CASE FinishWrite
  BY <1>5, SeqMaxAssumption DEF FinishWrite, AdvanceSeq, NumberInv, SeqFollows, Announced,
     LagCounts, Observed, slotVars, readerVars
<1>6. CASE PackFails \/ StopFeeder
  BY <1>6 DEF PackFails, StopFeeder, NumberInv, SeqFollows, Announced, LagCounts,
     Observed, slotVars, readerVars
<1>7. CASE ReaderStep \/ RestartReader
  <2>1. SeqFollows'
    BY <1>7, ReaderLeavesFeeder DEF NumberInv, SeqFollows, Announced, slotVars, feederVars
  <2>2. perception_seq \in 0 .. SeqMax /\ MaxLag \in Nat /\ 0 < MaxLag
    BY MaxLagAssumption, SeqMaxAssumption DEF NumberInv, SeqFollows
  <2>3. UNCHANGED <<perception_seq, unwritten>>
    BY <1>7, ReaderLeavesFeeder DEF slotVars, feederVars
  <2>4. CASE LoadSeq
    BY <2>1, <2>2, <2>3, <2>4 DEF LoadSeq, NumberInv, LagCounts, Observed
  <2>5. CASE RestartReader
    BY <2>1, <2>2, <2>3, <2>5, SeqMaxAssumption DEF RestartReader, NumberInv, LagCounts, Observed
  <2>6. ASSUME NEW w \in Words, CopyWord(w) PROVE LagCounts'
    BY <2>3, <2>6 DEF CopyWord, NumberInv, LagCounts, Observed, slotAux
  <2>7. CASE TakeSample
    BY <2>1, <2>3, <2>7 DEF TakeSample, NumberInv, LagCounts, Observed, slotAux
  <2>8. QED
    BY <1>7, <2>1, <2>4, <2>5, <2>6, <2>7 DEF NumberInv, ReaderStep
<1>8. CASE UNCHANGED allVars
  BY <1>8 DEF NumberInv, SeqFollows, Announced, LagCounts, Observed, allVars,
     slotVars, feederVars, readerVars, slotAux
<1>9. QED
  BY <1>1, <1>2, <1>3, <1>4, <1>5, <1>6, <1>7, <1>8 DEF SlotNext, FeederStep

LEMMA NumberInvariance == SlotSpec => []NumberInv
BY NumberInit, NumberNext, PTL DEF SlotSpec

\* Publishing is visible to the reader after restarts and wraps, whatever the
\* order in which stores become visible (perception_feeder.py:89-93, 110-112).
THEOREM SlotPublishIsVisible == SlotSpec => PublishIsVisible
<1>1. NumberInv /\ [SlotNext]_allVars =>
        [lag' = lag + 1 => perception_seq' \notin {0, perception_seq, Observed}]_allVars
  <2> SUFFICES ASSUME NumberInv, SlotNext, lag' = lag + 1
               PROVE  perception_seq' \notin {0, perception_seq, Observed}
    BY DEF allVars
  <2>1. lag \in Nat
    BY MaxLagAssumption, SeqMaxAssumption DEF NumberInv, LagCounts
  <2>2. StoreSeq
    BY <2>1 DEF SlotNext, FeederStep, StartFeeder, Receive, StoreWord, FinishWrite, PackFails,
       StopFeeder, ReaderStep, LoadSeq, CopyWord, TakeSample, RestartReader, slotAux
  <2>3. QED
    BY <2>2, StoredSeqIsNew
<1>2. QED
  BY <1>1, NumberInvariance, PTL DEF SlotSpec, PublishIsVisible

-----------------------------------------------------------------------------
(* Contents *)

\* A settled slot is whole; of the message being written, the words stored so
\* far are in the slot.  A slot without a number was never written.
SlotContent ==
    /\ sample \in [Words -> Content]
    /\ unwritten \subseteq Words \cup {"seq"}
    /\ msg \in Content /\ published \in Content /\ interrupted \in BOOLEAN
    /\ feeder = "writing" => \A w \in Words \ unwritten : sample[w] = msg
    /\ Settled => \A w \in Words : sample[w] = Current
    /\ perception_seq = 0 => ~Announced /\ published = NoMessage

\* What the reader has copied under the number in the slot, and what it holds
\* when that number is the one it took, comes from the settled slot, unless the
\* number was loaded too early.
ReaderContent ==
    /\ reader \in {"idle", "copying"}
    /\ copy \in [Words -> Content] /\ held \in [Words -> Content]
    /\ early \in BOOLEAN
    /\ early => Observed # 0
    /\ Announced /\ Observed = perception_seq => early \/ unwritten = {}
    /\ Settled /\ ~early /\ reader = "copying" /\ seen = perception_seq =>
          \A w \in Words \ uncopied : copy[w] = Current
    /\ Settled /\ ~early /\ reader = "idle" /\ last_seq = perception_seq =>
          \A w \in Words : held[w] = Current

ContentInv == SlotContent /\ ReaderContent

LEMMA ContentInit == SlotInit => ContentInv
BY DEF SlotInit, ContentInv, SlotContent, ReaderContent, Announced, Settled, Current,
   Observed, Whole, Content

LEMMA SlotContentNext ==
    ASSUME NumberInv, SlotContent, [SlotNext]_allVars
    PROVE  SlotContent'
<1>1. CASE StartFeeder
  BY <1>1 DEF StartFeeder, SlotContent, Announced, Settled, Current, slotVars, slotAux
<1>2. ASSUME NEW m \in Messages, Receive(m) PROVE SlotContent'
  BY <1>2 DEF Receive, SlotContent, Announced, Settled, Current, slotVars, slotAux, Content
<1>3. ASSUME NEW w \in Words, StoreWord(w) PROVE SlotContent'
  <2>1. Announced' = Announced /\ Current' = Current /\ perception_seq' = perception_seq
    BY <1>3, WordsAssumption DEF StoreWord, Announced, Current, slotAux
  <2>2. feeder' = "writing" /\ \A v \in Words \ unwritten' : sample'[v] = msg'
    BY <1>3 DEF StoreWord, SlotContent
  <2>3. Settled' => Announced' /\ \A v \in Words : sample'[v] = msg'
    BY <2>2 DEF Settled, Announced
  <2>4. sample' \in [Words -> Content] /\ unwritten' \subseteq Words \cup {"seq"}
    BY <1>3 DEF StoreWord, SlotContent
  <2>5. QED
    BY <1>3, <2>1, <2>2, <2>3, <2>4 DEF StoreWord, SlotContent, Current, slotAux
<1>4. CASE StoreSeq
  <2>1. /\ Announced' /\ Current' = msg' /\ UNCHANGED <<sample, msg, published, interrupted>>
        /\ unwritten' = unwritten \ {"seq"}
    BY <1>4 DEF StoreSeq, Announced, Current
  <2>2. feeder' = "writing" /\ \A w \in Words \ unwritten' : sample'[w] = msg'
    BY <1>4, WordsAssumption DEF StoreSeq, SlotContent
  <2>3. Settled' => \A w \in Words : sample'[w] = msg'
    BY <2>2 DEF Settled
  <2>4. perception_seq' # 0
    BY <1>4, StoredSeqIsNew
  <2>5. QED
    BY <2>1, <2>2, <2>3, <2>4 DEF SlotContent
<1>5. CASE FinishWrite
  BY <1>5 DEF FinishWrite, SlotContent, Announced, Settled, Current, slotVars
<1>6. CASE PackFails
  BY <1>6 DEF PackFails, SlotContent, Announced, Settled, Current, slotVars
<1>7. CASE StopFeeder
  BY <1>7 DEF StopFeeder, SlotContent, Announced, Settled, Current, slotVars,
     NumberInv, SeqFollows
<1>8. CASE ReaderStep \/ RestartReader \/ UNCHANGED allVars
  <2>1. UNCHANGED <<slotVars, feederVars, published, interrupted>>
    BY <1>8, ReaderLeavesFeeder DEF allVars, slotAux
  <2>2. QED
    BY <2>1 DEF SlotContent, Announced, Settled, Current, slotVars, feederVars
<1>9. QED
  BY <1>1, <1>2, <1>3, <1>4, <1>5, <1>6, <1>7, <1>8 DEF SlotNext, FeederStep

\* What the reader holds or copies stays right as long as the slot is settled
\* under the same number; a new number makes it out of date instead.
LEMMA ReaderContentNext ==
    ASSUME NumberInv, SlotContent, ReaderContent, [SlotNext]_allVars
    PROVE  ReaderContent'
<1>1. CASE StartFeeder
  BY <1>1 DEF StartFeeder, ReaderContent, Announced, Settled, Current, Observed,
     slotVars, readerVars, slotAux
<1>2. ASSUME NEW m \in Messages, Receive(m) PROVE ReaderContent'
  BY <1>2 DEF Receive, ReaderContent, Announced, Settled, Current, Observed,
     slotVars, readerVars, slotAux
<1>3. ASSUME NEW w \in Words, StoreWord(w) PROVE ReaderContent'
  <2>1. /\ Announced' = Announced /\ Current' = Current /\ Observed' = Observed
        /\ UNCHANGED <<perception_seq, early, readerVars>>
    BY <1>3, WordsAssumption DEF StoreWord, Announced, Current, Observed, readerVars, slotAux
  <2>2. unwritten # {} /\ ~Settled /\ (Settled' => Announced)
    BY <1>3, <2>1 DEF StoreWord, Settled, Announced
  <2>3. Announced /\ Observed = perception_seq => early
    BY <2>2 DEF ReaderContent
  <2>4. QED
    BY <2>1, <2>2, <2>3 DEF ReaderContent, Observed, readerVars
<1>4. CASE StoreSeq
  <2>1. perception_seq' # Observed /\ Observed' = Observed
    BY <1>4, StoredSeqIsNew
  <2>2. UNCHANGED <<readerVars, early>>
    BY <1>4 DEF StoreSeq
  <2>3. QED
    BY <2>1, <2>2 DEF ReaderContent, Observed, readerVars
<1>5. CASE FinishWrite
  BY <1>5 DEF FinishWrite, ReaderContent, Announced, Settled, Current, Observed,
     slotVars, readerVars
<1>6. CASE PackFails
  BY <1>6 DEF PackFails, ReaderContent, Announced, Settled, Current, Observed,
     slotVars, readerVars
<1>7. CASE StopFeeder
  BY <1>7 DEF StopFeeder, ReaderContent, Announced, Settled, Current, Observed,
     slotVars, readerVars, NumberInv, SeqFollows
<1>8. CASE ReaderStep \/ RestartReader
  <2>1. UNCHANGED <<Announced, Settled, Current, perception_seq, sample, unwritten>>
    BY <1>8, ReaderLeavesFeeder DEF slotVars, feederVars, Announced, Settled, Current
  <2>2. CASE LoadSeq
    <3>1. /\ reader' = "copying" /\ seen' = perception_seq /\ uncopied' = Words
          /\ Observed' = perception_seq /\ perception_seq # 0
          /\ early' = (Announced /\ unwritten # {})
          /\ UNCHANGED <<copy, held>>
      BY <2>2 DEF LoadSeq, Observed
    <3>2. QED
      BY <2>1, <3>1 DEF ReaderContent
  <2>3. ASSUME NEW w \in Words, CopyWord(w) PROVE ReaderContent'
    <3>1. Observed' = Observed /\ UNCHANGED <<early, reader, seen, last_seq, held>>
      BY <2>3 DEF CopyWord, Observed, slotAux
    <3>2. reader = "copying" /\ copy' \in [Words -> Content]
      BY <2>3 DEF CopyWord, ReaderContent, SlotContent
    <3>3. Settled /\ ~early /\ seen = perception_seq =>
             \A v \in Words \ uncopied' : copy'[v] = Current
      BY <2>3 DEF CopyWord, ReaderContent, SlotContent
    <3>4. QED
      BY <2>1, <3>1, <3>2, <3>3 DEF ReaderContent
  <2>4. CASE TakeSample
    <3>1. Observed' = Observed /\ early' = early
      BY <2>4 DEF TakeSample, Observed, slotAux
    <3>2. QED
      BY <2>1, <2>4, <3>1 DEF TakeSample, ReaderContent
  <2>5. CASE RestartReader
    <3>1. /\ Observed' = 0 /\ early' = FALSE
          /\ reader' = "idle" /\ last_seq' = 0 /\ held' = Whole(NoMessage)
          /\ copy' = Whole(NoMessage)
      BY <2>5 DEF RestartReader, Observed
    <3>2. perception_seq = 0 => ~Announced /\ Current = NoMessage
      BY DEF SlotContent, Current
    <3>3. Whole(NoMessage) \in [Words -> Content]
          /\ \A w \in Words : Whole(NoMessage)[w] = NoMessage
      BY DEF Whole, Content
    <3>4. QED
      BY <2>1, <3>1, <3>2, <3>3 DEF ReaderContent
  <2>6. QED
    BY <1>8, <2>2, <2>3, <2>4, <2>5 DEF ReaderStep
<1>9. CASE UNCHANGED allVars
  BY <1>9 DEF ReaderContent, Announced, Settled, Current, Observed, allVars, slotVars,
     feederVars, readerVars, slotAux
<1>10. QED
  BY <1>1, <1>2, <1>3, <1>4, <1>5, <1>6, <1>7, <1>8, <1>9 DEF SlotNext, FeederStep

LEMMA ContentNext == NumberInv /\ ContentInv /\ [SlotNext]_allVars => ContentInv'
BY SlotContentNext, ReaderContentNext DEF ContentInv

\* In whatever order stores become visible, a reader with nothing left to read
\* holds the last message whole: a torn sample survives the reader's next look
\* only if the feeder died while it stored, or if the reader loaded the number
\* before the words it announces were visible (perception_feeder.py:70-81).
THEOREM SlotCaughtUpMeansCurrent == SlotSpec => []CaughtUpMeansCurrent
<1>1. ContentInv => CaughtUpMeansCurrent
  <2> SUFFICES ASSUME ContentInv, reader = "idle", last_seq = perception_seq,
                      feeder # "writing", ~interrupted, ~early
               PROVE  held = Whole(published)
    BY DEF CaughtUpMeansCurrent
  <2>1. Settled /\ Current = published
    BY DEF Settled, Current, Announced
  <2>2. held \in [Words -> Content] /\ \A w \in Words : held[w] = published
    BY <2>1 DEF ContentInv, ReaderContent
  <2>3. QED
    BY <2>2 DEF Whole
<1>2. QED
  BY <1>1, ContentNext, ContentInit, NumberInvariance, PTL DEF SlotSpec

-----------------------------------------------------------------------------
(* The slot as a register *)

LEMMA ValueInit == SlotInit => Value!Init
BY DEF SlotInit, Value!Init, Whole, Current, Settled, Announced, Overtaken

\* What the feeder does writes a sample, completes one that the reader has not
\* taken yet or, at most, disturbs one.
LEMMA FeederKeepsValue ==
    ASSUME NumberInv, ContentInv, FeederStep
    PROVE  [Value!Next]_(Value!valueVars)
<1> USE DEF Value!Next, Value!valueVars
<1>1. CASE StoreSeq
  <2>1. /\ perception_seq' # Observed /\ Observed' = Observed
        /\ UNCHANGED readerVars
    BY <1>1, StoredSeqIsNew DEF StoreSeq
  <2>2. (reader = "copying" \/ last_seq # perception_seq)'
    BY <2>1 DEF Observed, readerVars, ContentInv, ReaderContent
  <2>3. Current' = msg /\ msg \in Content
    BY <1>1 DEF StoreSeq, Announced, Current, ContentInv, SlotContent
  <2>4. (Settled /\ ~Overtaken)' \in BOOLEAN
    OBVIOUS
  <2>5. Whole(Current)' = Whole(msg) /\ Whole(msg) \in [Words -> Content]
    BY <2>3 DEF Whole
  <2>6. Value!Publish(Whole(msg))
    BY <2>1, <2>2, <2>4, <2>5 DEF Value!Publish, readerVars
  <2>7. QED
    BY <2>5, <2>6
<1>2. ASSUME UNCHANGED <<Current, reader, seen, last_seq, perception_seq, early, held>>,
             Settled' => Settled
      PROVE  [Value!Next]_(Value!valueVars)
  <2>1. Overtaken' = Overtaken /\ Whole(Current)' = Whole(Current)
    BY <1>2 DEF Overtaken, Observed, Whole
  <2>2. (Settled /\ ~Overtaken)' = (Settled /\ ~Overtaken) \/ ~(Settled /\ ~Overtaken)'
    BY <1>2, <2>1
  <2>3. QED
    BY <1>2, <2>1, <2>2 DEF Value!Disturb
<1>3. CASE StartFeeder
  BY <1>2, <1>3 DEF StartFeeder, Current, Announced, Settled, slotVars, readerVars, slotAux
<1>4. ASSUME NEW m \in Messages, Receive(m) PROVE [Value!Next]_(Value!valueVars)
  BY <1>2, <1>4 DEF Receive, Current, Announced, Settled, slotVars, readerVars, slotAux
<1>5. ASSUME NEW w \in Words, StoreWord(w) PROVE [Value!Next]_(Value!valueVars)
  <2>1. /\ UNCHANGED <<Current, reader, seen, last_seq, perception_seq, early, held>>
        /\ Announced' = Announced /\ unwritten # {} /\ feeder' = "writing"
    BY <1>5, WordsAssumption DEF StoreWord, Current, Announced, readerVars, slotAux
  <2>2. CASE Settled' => Settled
    BY <1>2, <2>1, <2>2
  <2>3. CASE Settled' /\ ~Settled
    <3>1. Announced
      BY <2>1, <2>3 DEF Settled, Announced
    <3>2. CASE Observed = perception_seq
      <4>1. Overtaken /\ Overtaken'
        BY <2>1, <3>1, <3>2 DEF ContentInv, ReaderContent, Overtaken, Observed
      <4>2. Whole(Current)' = Whole(Current)
        BY <2>1 DEF Whole
      <4>3. QED
        BY <2>1, <4>1, <4>2
    <3>3. CASE Observed # perception_seq
      <4>1. /\ reader = "copying" \/ last_seq # perception_seq
            /\ ~Overtaken'
        BY <2>1, <3>3 DEF Overtaken, Observed
      <4>2. Whole(Current)' = Whole(Current)
        BY <2>1 DEF Whole
      <4>3. Value!Settle
        BY <2>1, <2>3, <4>1, <4>2 DEF Value!Settle
      <4>4. QED
        BY <4>3
    <3>4. QED
      BY <3>2, <3>3
  <2>4. QED
    BY <2>2, <2>3
<1>6. CASE FinishWrite
  BY <1>2, <1>6 DEF FinishWrite, Current, Announced, Settled, slotVars, readerVars
<1>7. CASE PackFails
  BY <1>2, <1>7 DEF PackFails, Current, Announced, Settled, slotVars, readerVars
<1>8. CASE StopFeeder
  <2>1. feeder # "writing" => unwritten = {}
    BY DEF NumberInv, SeqFollows
  <2>2. UNCHANGED Current /\ (Settled' => Settled)
    BY <1>8, <2>1 DEF StopFeeder, Current, Announced, Settled, NumberInv, SeqFollows
  <2>3. QED
    BY <1>2, <1>8, <2>2 DEF StopFeeder, slotVars, readerVars
<1>9. QED
  BY <1>1, <1>3, <1>4, <1>5, <1>6, <1>7, <1>8 DEF FeederStep

\* What the reader holds after it has taken a sample or was started again is
\* what the slot holds, if nothing is left to take.
LEMMA ReaderKeepsValue ==
    ASSUME ContentInv, ContentInv', ReaderStep \/ RestartReader
    PROVE  [Value!Next]_(Value!valueVars)
<1> USE DEF Value!Next, Value!valueVars
<1>1. UNCHANGED <<Current, Settled, perception_seq, Announced, unwritten>>
  BY ReaderLeavesFeeder DEF Current, Settled, Announced, slotVars, feederVars
<1>2. Whole(Current)' = Whole(Current)
  BY <1>1 DEF Whole
<1>3. /\ held' \in [Words -> Content]
      /\ Settled' /\ ~Overtaken' /\ reader' = "idle" /\ last_seq' = perception_seq'
         => held' = Whole(Current)
  BY <1>1 DEF ContentInv, ReaderContent, Overtaken, Observed, Whole
<1>4. CASE LoadSeq
  <2>1. /\ reader = "idle" /\ last_seq # perception_seq /\ reader' = "copying"
        /\ early' = (Announced /\ unwritten # {}) /\ held' = held
    BY <1>4 DEF LoadSeq
  <2>2. ~Overtaken /\ (Settled => ~Overtaken')
    BY <2>1 DEF Overtaken, Observed, Settled, Announced
  <2>3. QED
    BY <1>1, <1>2, <2>1, <2>2
<1>5. ASSUME NEW w \in Words, CopyWord(w) PROVE [Value!Next]_(Value!valueVars)
  <2>1. Overtaken' = Overtaken
    BY <1>1, <1>5 DEF CopyWord, Overtaken, Observed, slotAux
  <2>2. QED
    BY <1>1, <1>2, <1>5, <2>1 DEF CopyWord
<1>6. CASE TakeSample
  <2>1. reader = "copying" /\ reader' = "idle" /\ Overtaken' = Overtaken
    BY <1>1, <1>6 DEF TakeSample, Overtaken, Observed, slotAux
  <2>2. Value!Take
    BY <1>1, <1>2, <1>3, <2>1 DEF Value!Take, Value!NothingMissed
  <2>3. QED
    BY <2>2
<1>7. CASE RestartReader
  <2>1. /\ reader' = "idle" /\ last_seq' = 0 /\ held' = Whole(NoMessage)
        /\ ~Overtaken'
    BY <1>7 DEF RestartReader, Overtaken
  <2>2. Overtaken => last_seq' # perception_seq'
    BY <1>1, <2>1 DEF Overtaken, ContentInv, ReaderContent
  <2>3. (Settled /\ ~Overtaken)' \in
           {Settled /\ ~Overtaken,
            (Settled /\ ~Overtaken) \/ (reader = "copying" \/ last_seq # perception_seq)'}
    BY <1>1, <2>1, <2>2
  <2>4. Value!Forget
    BY <1>1, <1>2, <1>3, <2>1, <2>3 DEF Value!Forget, Value!NothingMissed
  <2>5. QED
    BY <2>4
<1>8. QED
  BY <1>4, <1>5, <1>6, <1>7 DEF ReaderStep

\* In whatever order stores become visible, the slot implements a register that
\* keeps the last sample, for every set of words, every width of the number and
\* any number of restarts (perception_feeder.py:70-81, 99-114).
THEOREM SlotRefinesLatestValue == SlotSpec => RefinesLatestValue
<1>1. ContentInv /\ ContentInv' /\ NumberInv /\ [SlotNext]_allVars
      => [Value!Next]_(Value!valueVars)
  <2> SUFFICES ASSUME ContentInv, ContentInv', NumberInv, [SlotNext]_allVars
               PROVE  [Value!Next]_(Value!valueVars)
    OBVIOUS
  <2>1. CASE UNCHANGED allVars
    BY <2>1 DEF Value!valueVars, allVars, slotVars, feederVars, readerVars, slotAux,
       Current, Settled, Announced, Overtaken, Observed, Whole
  <2>2. QED
    BY <2>1, FeederKeepsValue, ReaderKeepsValue DEF SlotNext
<1>2. QED
  BY <1>1, ContentNext, ContentInit, ValueInit, NumberInvariance, PTL
     DEF SlotSpec, RefinesLatestValue, Value!Spec

-----------------------------------------------------------------------------
(* Types *)

\* What NumberInv does not say of the types.
WordTypes ==
    /\ sample \in [Words -> Content] /\ msg \in Content
    /\ unwritten \subseteq Words \cup {"seq"}
    /\ copy \in [Words -> Content] /\ uncopied \subseteq Words
    /\ held \in [Words -> Content]
    /\ published \in Content /\ interrupted \in BOOLEAN /\ early \in BOOLEAN
    /\ reader_restarts \in 0 .. MaxReaderRestarts

LEMMA WordTypesNext ==
    ASSUME WordTypes, [SlotNext]_allVars
    PROVE  WordTypes'
<1>1. CASE StartFeeder \/ (\E m \in Messages : Receive(m))
           \/ (\E w \in Words : StoreWord(w)) \/ StoreSeq \/ UNCHANGED allVars
  BY <1>1 DEF StartFeeder, Receive, StoreWord, StoreSeq, WordTypes, Content, allVars,
     slotVars, feederVars, readerVars, slotAux
<1>2. CASE FinishWrite \/ PackFails \/ StopFeeder
  BY <1>2 DEF FinishWrite, PackFails, StopFeeder, WordTypes, slotVars, readerVars
<1>3. CASE ReaderStep
  BY <1>3 DEF ReaderStep, LoadSeq, CopyWord, TakeSample, WordTypes, slotVars, feederVars,
     slotAux
<1>4. CASE RestartReader
  <2>1. Whole(NoMessage) \in [Words -> Content]
    BY DEF Whole, Content
  <2>2. reader_restarts + 1 \in 0 .. MaxReaderRestarts
    BY <1>4, MaxReaderRestartsAssumption DEF RestartReader, WordTypes
  <2>3. QED
    BY <1>4, <2>1, <2>2 DEF RestartReader, WordTypes, slotVars, feederVars
<1>5. QED
  BY <1>1, <1>2, <1>3, <1>4 DEF SlotNext, FeederStep

\* Type correctness of both processes and the slot, for every width of the
\* sequence number (perception_feeder.py:81, 92-93, 110-112).
THEOREM SlotTypeCorrect == SlotSpec => []SlotTypeOK
<1>1. SlotInit => WordTypes
  <2>1. Whole(NoMessage) \in [Words -> Content] /\ NoMessage \in Content
    BY DEF Whole, Content
  <2>2. SlotInit => interrupted \in BOOLEAN /\ early \in BOOLEAN
    BY DEF SlotInit
  <2>3. SlotInit => reader_restarts \in 0 .. MaxReaderRestarts
    BY MaxReaderRestartsAssumption DEF SlotInit
  <2>4. SlotInit => /\ sample = Whole(NoMessage) /\ copy = Whole(NoMessage)
                    /\ held = Whole(NoMessage) /\ msg = NoMessage /\ published = NoMessage
                    /\ unwritten = {} /\ uncopied = {}
    BY DEF SlotInit
  <2>5. QED
    BY <2>1, <2>2, <2>3, <2>4 DEF WordTypes
<1>2. WordTypes /\ [SlotNext]_allVars => WordTypes'
  BY WordTypesNext
<1>3. NumberInv /\ WordTypes => SlotTypeOK
  BY DEF NumberInv, SeqFollows, LagCounts, WordTypes, SlotTypeOK
<1>4. QED
  BY <1>1, <1>2, <1>3, NumberInvariance, PTL DEF SlotSpec
=============================================================================
