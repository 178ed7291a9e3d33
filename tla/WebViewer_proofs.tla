-------------------------- MODULE WebViewer_proofs --------------------------
(***************************************************************************)
(* The web viewer's safety for any number of pages, connections and        *)
(* threads.                                                                *)
(***************************************************************************)
EXTENDS WebViewer, TLAPS

\* A handler registers its client while it runs, and holds up the event loop
\* while it waits for the lock.
HandlerInv ==
    /\ handler \in [Handles -> {"none", "adding", "open", "discarding", "popping"}]
    /\ \A h \in Handles :
          /\ h \in clients <=> handler[h] \in {"open", "discarding"}
          /\ handler[h] \in {"adding", "discarding", "popping"} <=> loop_at = h
    /\ clients \subseteq Handles

\* Whoever is broadcasting has the lock.
LockInv ==
    /\ thread \in [Threads -> {"receiving", "waiting", "sending"}]
    /\ todo \in [Threads -> SUBSET Handles]
    /\ \A t \in Threads : /\ thread[t] = "sending" <=> lock = t
                          /\ todo[t] # {} => thread[t] = "sending"
                          /\ todo[t] \subseteq clients

\* While a handler runs, a client is thought busy if and only if it is.
FutureInv ==
    /\ send_futures \in [Handles -> {"none", "pending", "done"}]
    /\ frames \in [Handles -> 0 .. 1]
    /\ \A h \in Handles :
          /\ handler[h] # "none" => (send_futures[h] = "pending" <=> frames[h] = 1)
          /\ handler[h] = "none" => send_futures[h] = "none"
          /\ handler[h] = "adding" => send_futures[h] = "none"

ViewerInv == HandlerInv /\ LockInv /\ FutureInv

\* A status travels from the bridge to the socket, the message, the sends of a
\* connection and the page, and never overtakes another.
StatusTypes ==
    /\ bridge_status \in Nat /\ socket \in Nat \cup {None} /\ message \in Nat \cup {None}
    /\ texts \in [Handles -> Seq(Nat)]
    /\ shown \in [Pages -> Nat \cup {None}]
    /\ page \in [Handles -> Pages \cup {None}]
    /\ thread \in [Threads -> {"receiving", "waiting", "sending"}]
    /\ thread[StatusThread] # "receiving" => message # None

OnePage == \A g, h \in Handles : page[g] = page[h] /\ page[g] # None => g = h

UpToSocket ==
    /\ socket # None => socket <= bridge_status
    /\ message # None => message <= bridge_status
    /\ message # None /\ socket # None => message <= socket

UpToMessage ==
    /\ \A h \in Handles : \A i \in 1 .. Len(texts[h]) :
          message # None /\ texts[h][i] <= message
    /\ \A p \in Pages : shown[p] # None => message # None /\ shown[p] <= message

UpToSends ==
    /\ \A h \in Handles : \A i, j \in 1 .. Len(texts[h]) :
          i <= j => texts[h][i] <= texts[h][j]
    /\ \A h \in Handles : \A i \in 1 .. Len(texts[h]) :
          page[h] # None /\ shown[page[h]] # None => shown[page[h]] <= texts[h][i]

OrderInv == StatusTypes /\ OnePage /\ UpToSocket /\ UpToMessage /\ UpToSends

\* The sets of model values are apart, as the code's objects are.
LEMMA Apart == None \notin Handles /\ None \notin Threads /\ StatusThread \in Threads
BY WebViewerAssumption DEF Threads

-----------------------------------------------------------------------------
(* Handlers *)

\* Only connecting and the steps of a handler touch clients and handlers.
LEMMA HandlerSteps ==
    ASSUME [ViewerNext]_viewerVars
    PROVE  \/ \E h \in Handles : \/ \E p \in Pages : Connect(p, h)
                                 \/ AddClient(h) \/ Closed(h) \/ Leave(h)
           \/ UNCHANGED <<clients, handler, loop_at>>
BY DEF ViewerNext, viewerVars, sharedVars, loopVars, HandlerStep, Broadcast, Disconnect,
       FinishFrame, FinishText, ReceiveFrame, BeginBroadcast, SendFrame, SendText,
       EndBroadcast, ReceiveStatus, ClockTick, ChangeStatus, PublishStatus

LEMMA HandlerInvStep ==
    ASSUME HandlerInv, [ViewerNext]_viewerVars
    PROVE  HandlerInv'
<1>1. CASE UNCHANGED <<clients, handler, loop_at>>
  BY <1>1 DEF HandlerInv
<1>2. ASSUME NEW h \in Handles, \E p \in Pages : Connect(p, h)
      PROVE  HandlerInv'
  BY <1>2, Apart DEF HandlerInv, Connect, sharedVars
<1>3. ASSUME NEW h \in Handles, AddClient(h)
      PROVE  HandlerInv'
  BY <1>3, Apart DEF HandlerInv, AddClient
<1>4. ASSUME NEW h \in Handles, Closed(h)
      PROVE  HandlerInv'
  BY <1>4, Apart DEF HandlerInv, Closed, sharedVars
<1>5. ASSUME NEW h \in Handles, Leave(h)
      PROVE  HandlerInv'
  BY <1>5, Apart DEF HandlerInv, Leave
<1> QED BY <1>1, <1>2, <1>3, <1>4, <1>5, HandlerSteps

-----------------------------------------------------------------------------
(* The lock *)

\* Receiving, the steps of a broadcast and those of a handler are the ones
\* that touch the lock or what it protects.
LEMMA LockSteps ==
    ASSUME [ViewerNext]_viewerVars
    PROVE  \/ \E h \in Handles : AddClient(h) \/ Leave(h)
           \/ \E t \in FrameThreads : ReceiveFrame(t)
           \/ \E t \in Threads : \/ BeginBroadcast(t) \/ EndBroadcast(t)
                                 \/ \E h \in Handles : SendFrame(t, h)
           \/ \E h \in Handles : SendText(h)
           \/ ReceiveStatus
           \/ UNCHANGED <<clients, lock, thread, todo>>
BY DEF ViewerNext, viewerVars, sharedVars, loopVars, threadVars, HandlerStep, Broadcast,
       Connect, Closed, Disconnect, FinishFrame, FinishText, ClockTick, ChangeStatus,
       PublishStatus

LEMMA LockInvStep ==
    ASSUME HandlerInv, LockInv, [ViewerNext]_viewerVars
    PROVE  LockInv'
<1>1. CASE UNCHANGED <<clients, lock, thread, todo>>
  BY <1>1 DEF LockInv
<1>2. ASSUME NEW h \in Handles, AddClient(h)
      PROVE  LockInv'
  BY <1>2 DEF LockInv, AddClient, threadVars
<1>3. ASSUME NEW h \in Handles, Leave(h)
      PROVE  LockInv'
  <2>1. UNCHANGED <<lock, thread, todo>>
    BY <1>3 DEF Leave, threadVars
  <2>2. ASSUME NEW t \in Threads PROVE todo[t] \subseteq clients'
    <3>1. CASE lock = None
      BY <3>1, Apart DEF LockInv
    <3>2. CASE UNCHANGED clients
      BY <3>2 DEF LockInv
    <3> QED BY <1>3, <3>1, <3>2 DEF Leave, LockFree
  <2> QED BY <2>1, <2>2 DEF LockInv
<1>4. ASSUME NEW t \in FrameThreads, ReceiveFrame(t)
      PROVE  LockInv'
  <2>1. t \in Threads BY DEF Threads
  <2> QED BY <1>4, <2>1 DEF LockInv, ReceiveFrame, sharedVars
<1>5. ASSUME NEW t \in Threads, BeginBroadcast(t)
      PROVE  LockInv'
  BY <1>5, Apart DEF LockInv, HandlerInv, BeginBroadcast
<1>6. ASSUME NEW t \in Threads, EndBroadcast(t)
      PROVE  LockInv'
  BY <1>6, Apart DEF LockInv, EndBroadcast
<1>7. ASSUME NEW t \in Threads, NEW h \in Handles, SendFrame(t, h)
      PROVE  LockInv'
  BY <1>7 DEF LockInv, SendFrame
<1>8. ASSUME NEW h \in Handles, SendText(h)
      PROVE  LockInv'
  BY <1>8, Apart DEF LockInv, SendText, sharedVars
<1>9. CASE ReceiveStatus
  BY <1>9, Apart DEF LockInv, ReceiveStatus, sharedVars
<1> QED BY <1>1, <1>2, <1>3, <1>4, <1>5, <1>6, <1>7, <1>8, <1>9, LockSteps

-----------------------------------------------------------------------------
(* Futures *)

\* Frames are sent by a broadcast and finished by the event loop; futures also
\* end with their handler.
LEMMA FutureSteps ==
    ASSUME [ViewerNext]_viewerVars
    PROVE  \/ \E h \in Handles : \/ \E p \in Pages : Connect(p, h)
                                 \/ AddClient(h) \/ Closed(h) \/ Leave(h)
                                 \/ FinishFrame(h)
           \/ \E t \in Threads, h \in Handles : SendFrame(t, h)
           \/ UNCHANGED <<send_futures, frames, handler>>
BY DEF ViewerNext, viewerVars, sharedVars, loopVars, HandlerStep, Broadcast, Disconnect,
       FinishText, ReceiveFrame, BeginBroadcast, SendText, EndBroadcast, ReceiveStatus,
       ClockTick, ChangeStatus, PublishStatus

LEMMA FutureInvStep ==
    ASSUME ViewerInv, [ViewerNext]_viewerVars
    PROVE  FutureInv'
<1> USE DEF ViewerInv
<1>1. CASE UNCHANGED <<send_futures, frames, handler>>
  BY <1>1 DEF FutureInv
<1>2. ASSUME NEW h \in Handles, NEW p \in Pages, Connect(p, h)
      PROVE  FutureInv'
  BY <1>2 DEF FutureInv, HandlerInv, Connect, sharedVars
<1>3. ASSUME NEW h \in Handles, AddClient(h)
      PROVE  FutureInv'
  BY <1>3 DEF FutureInv, HandlerInv, AddClient
<1>4. ASSUME NEW h \in Handles, Closed(h)
      PROVE  FutureInv'
  BY <1>4 DEF FutureInv, HandlerInv, Closed, sharedVars
<1>5. ASSUME NEW h \in Handles, Leave(h)
      PROVE  FutureInv'
  BY <1>5 DEF FutureInv, HandlerInv, Leave
<1>6. ASSUME NEW h \in Handles, FinishFrame(h)
      PROVE  FutureInv'
  <2>1. frames[h] = 1 BY <1>6 DEF FutureInv, FinishFrame
  <2> QED BY <1>6, <2>1 DEF FutureInv, FinishFrame
<1>7. ASSUME NEW t \in Threads, NEW h \in Handles, SendFrame(t, h)
      PROVE  FutureInv'
  <2>1. h \in clients BY <1>7 DEF LockInv, SendFrame
  <2>2. handler[h] \in {"open", "discarding"} BY <2>1 DEF HandlerInv
  <2>3. CASE send_futures[h] = "pending"
    BY <1>7, <2>3 DEF FutureInv, SendFrame, Busy
  <2>4. CASE send_futures[h] # "pending"
    <3>1. frames[h] = 0 BY <2>2, <2>4 DEF FutureInv
    <3> QED BY <1>7, <2>2, <2>4, <3>1 DEF FutureInv, SendFrame
  <2> QED BY <2>3, <2>4
<1> QED BY <1>1, <1>2, <1>3, <1>4, <1>5, <1>6, <1>7, FutureSteps

-----------------------------------------------------------------------------

LEMMA ViewerInvInit == ViewerInit => ViewerInv
BY Apart DEF ViewerInit, ViewerInv, HandlerInv, LockInv, FutureInv

LEMMA ViewerInvariant == ViewerSpec => []ViewerInv
<1>1. ViewerInv /\ [ViewerNext]_viewerVars => ViewerInv'
  BY HandlerInvStep, LockInvStep, FutureInvStep DEF ViewerInv
<1> QED BY <1>1, ViewerInvInit, PTL DEF ViewerSpec

\* Broadcasts never leave the lock, for any number of threads
\* (dcas_web_viewer.py:137-167, 209-213).
THEOREM ViewerBroadcastReachesClients == ViewerSpec => []BroadcastReachesClients
<1>1. ViewerInv => BroadcastReachesClients
  BY DEF ViewerInv, LockInv, BroadcastReachesClients
<1> QED BY <1>1, ViewerInvariant, PTL

\* However many threads send frames, and however slow a page is, it holds at
\* most one (dcas_web_viewer.py:144-150).
THEOREM ViewerOneFrameInFlight == ViewerSpec => []OneFrameInFlight
<1>1. ViewerInv => OneFrameInFlight
  BY DEF ViewerInv, FutureInv, OneFrameInFlight
<1> QED BY <1>1, ViewerInvariant, PTL

\* Futures end with their handlers, so ids can be used again
\* (dcas_web_viewer.py:144-154, 209-213).
THEOREM ViewerNoForeignFuture == ViewerSpec => []NoForeignFuture
<1>1. ViewerInv => NoForeignFuture
  BY DEF ViewerInv, HandlerInv, FutureInv, NoForeignFuture
<1> QED BY <1>1, ViewerInvariant, PTL

-----------------------------------------------------------------------------
(* The order of the statuses *)

statusVars == <<thread, message, socket, bridge_status, texts, shown, page>>

\* The steps that move a status on, or a page to another connection.
LEMMA StatusSteps ==
    ASSUME [ViewerNext]_viewerVars
    PROVE  \/ \E h \in Handles : \/ \E p \in Pages : Connect(p, h)
                                 \/ Disconnect(h) \/ FinishText(h) \/ SendText(h)
           \/ \E t \in FrameThreads : ReceiveFrame(t)
           \/ \E t \in Threads : BeginBroadcast(t) \/ EndBroadcast(t)
           \/ ReceiveStatus \/ ChangeStatus \/ PublishStatus
           \/ UNCHANGED statusVars
BY DEF ViewerNext, viewerVars, sharedVars, loopVars, threadVars, bridgeVars, pageVars,
       statusVars, HandlerStep, Broadcast, AddClient, Closed, Leave, FinishFrame, SendFrame,
       ClockTick

LEMMA OrderInvStep ==
    ASSUME OrderInv, [ViewerNext]_viewerVars
    PROVE  OrderInv'
<1> USE WebViewerAssumption, Apart
<1> USE DEF OrderInv
<1>1. CASE UNCHANGED statusVars
  BY <1>1 DEF statusVars, StatusTypes, OnePage, UpToSocket, UpToMessage, UpToSends
<1>2. ASSUME NEW h \in Handles, NEW p \in Pages, Connect(p, h)
      PROVE  OrderInv'
  <2>1. /\ UNCHANGED <<thread, message, socket, bridge_status, texts, shown>>
        /\ texts[h] = <<>>
        /\ page' = [page EXCEPT ![h] = p]
    BY <1>2 DEF Connect, threadVars, bridgeVars
  <2>2. OnePage'
    BY <1>2 DEF Connect, Unconnected, OnePage, StatusTypes
  <2>3. UpToSends'
    BY <2>1 DEF UpToSends, StatusTypes
  <2> QED BY <2>1, <2>2, <2>3 DEF StatusTypes, UpToSocket, UpToMessage
<1>3. ASSUME NEW h \in Handles, Disconnect(h)
      PROVE  OrderInv'
  <2>1. /\ UNCHANGED <<thread, message, socket, bridge_status, texts, shown>>
        /\ page' = [page EXCEPT ![h] = None]
    BY <1>3 DEF Disconnect, loopVars, threadVars, bridgeVars
  <2>2. OnePage' /\ UpToSends'
    BY <2>1 DEF OnePage, UpToSends, StatusTypes
  <2> QED BY <2>1, <2>2 DEF StatusTypes, UpToSocket, UpToMessage
<1>4. ASSUME NEW h \in Handles, FinishText(h)
      PROVE  OrderInv'
  <2>1. /\ UNCHANGED <<thread, message, socket, bridge_status, page>>
        /\ texts[h] # <<>>
        /\ texts' = [texts EXCEPT ![h] = Tail(texts[h])]
        /\ shown' = [p \in Pages |-> IF page[h] = p THEN Head(texts[h]) ELSE shown[p]]
    BY <1>4 DEF FinishText, threadVars, bridgeVars
  <2>2. /\ texts[h] \in Seq(Nat) /\ Len(texts[h]) > 0
        /\ Head(texts[h]) = texts[h][1] /\ texts[h][1] \in Nat
        /\ Tail(texts[h]) \in Seq(Nat) /\ Len(Tail(texts[h])) = Len(texts[h]) - 1
        /\ \A i \in 1 .. Len(Tail(texts[h])) : Tail(texts[h])[i] = texts[h][i + 1]
    BY <2>1 DEF StatusTypes
  <2>3. StatusTypes'
    BY <2>1, <2>2 DEF StatusTypes
  <2>4. UpToMessage'
    BY <2>1, <2>2 DEF UpToMessage, StatusTypes
  <2>5. ASSUME NEW g \in Handles, NEW i \in 1 .. Len(texts'[g]), NEW j \in 1 .. Len(texts'[g]),
               i <= j
        PROVE  texts'[g][i] <= texts'[g][j]
    <3>1. CASE g = h
      <4>1. /\ texts'[h] = Tail(texts[h])
            /\ i + 1 \in 1 .. Len(texts[h]) /\ j + 1 \in 1 .. Len(texts[h]) /\ i + 1 <= j + 1
        BY <2>1, <2>2, <2>5, <3>1 DEF StatusTypes
      <4>2. texts'[h][i] = texts[h][i + 1] /\ texts'[h][j] = texts[h][j + 1]
        BY <2>2, <3>1, <4>1
      <4> QED BY <3>1, <4>1, <4>2 DEF UpToSends
    <3>2. CASE g # h
      <4>1. texts'[g] = texts[g]
        BY <2>1, <3>2 DEF StatusTypes
      <4> QED BY <2>5, <4>1 DEF UpToSends
    <3> QED BY <3>1, <3>2
  <2>6. ASSUME NEW g \in Handles, NEW i \in 1 .. Len(texts'[g]),
               page[g] # None, shown'[page[g]] # None
        PROVE  shown'[page[g]] <= texts'[g][i]
    <3>1. CASE g = h
      BY <2>1, <2>2, <2>6, <3>1 DEF UpToSends, StatusTypes
    <3>2. CASE g # h
      BY <2>1, <2>6, <3>2 DEF UpToSends, OnePage, StatusTypes
    <3> QED BY <3>1, <3>2
  <2> QED BY <2>1, <2>3, <2>4, <2>5, <2>6 DEF OnePage, UpToSocket, UpToSends
<1>5. ASSUME NEW h \in Handles, SendText(h)
      PROVE  OrderInv'
  <2>1. /\ UNCHANGED <<thread, message, socket, bridge_status, page, shown>>
        /\ thread[StatusThread] = "sending"
        /\ \/ UNCHANGED texts
           \/ texts' = [texts EXCEPT ![h] = Append(texts[h], message)]
    BY <1>5 DEF SendText, BroadcastText, bridgeVars, pageVars, StatusTypes
  <2>2. message \in Nat
    BY <2>1 DEF StatusTypes
  <2>3. CASE UNCHANGED texts
    BY <2>1, <2>3 DEF StatusTypes, OnePage, UpToSocket, UpToMessage, UpToSends
  <2>4. CASE texts' = [texts EXCEPT ![h] = Append(texts[h], message)]
    <3>1. /\ texts[h] \in Seq(Nat) /\ texts'[h] = Append(texts[h], message)
          /\ texts'[h] \in Seq(Nat) /\ Len(texts'[h]) = Len(texts[h]) + 1
          /\ texts'[h][Len(texts[h]) + 1] = message
          /\ \A i \in 1 .. Len(texts[h]) : texts'[h][i] = texts[h][i]
          /\ \A g \in Handles : g # h => texts'[g] = texts[g]
      BY <2>2, <2>4 DEF StatusTypes
    <3>2. StatusTypes'
      BY <2>1, <2>4, <3>1 DEF StatusTypes
    <3>n. Len(texts[h]) \in Nat
      BY <3>1
    <3>a. \A i \in 1 .. Len(texts'[h]) : i \in 1 .. Len(texts[h]) \/ i = Len(texts[h]) + 1
      BY <3>1, <3>n
    <3>b. \A i \in 1 .. Len(texts'[h]) : texts'[h][i] <= message
      BY <2>2, <3>1, <3>a DEF UpToMessage
    <3>3. UpToMessage'
      BY <2>1, <2>2, <3>1, <3>b DEF UpToMessage
    <3>4. ASSUME NEW g \in Handles, NEW i \in 1 .. Len(texts'[g]),
                 NEW j \in 1 .. Len(texts'[g]), i <= j
          PROVE  texts'[g][i] <= texts'[g][j]
      <4>1. CASE g # h
        BY <3>1, <3>4, <4>1 DEF UpToSends
      <4>2. CASE g = h /\ j = Len(texts[h]) + 1
        BY <3>1, <3>b, <4>2
      <4>3. CASE g = h /\ j \in 1 .. Len(texts[h])
        <5>1. i \in 1 .. Len(texts[h])
          BY <3>4, <3>n, <4>3
        <5> QED BY <3>1, <3>4, <4>3, <5>1 DEF UpToSends
      <4> QED BY <3>a, <4>1, <4>2, <4>3
    <3>5. ASSUME NEW g \in Handles, NEW i \in 1 .. Len(texts'[g]),
                 page[g] # None, shown[page[g]] # None
          PROVE  shown[page[g]] <= texts'[g][i]
      <4>1. CASE g # h
        BY <3>1, <3>5, <4>1 DEF UpToSends
      <4>2. CASE g = h /\ i = Len(texts[h]) + 1
        BY <3>1, <3>5, <4>2 DEF UpToMessage, StatusTypes
      <4>3. CASE g = h /\ i \in 1 .. Len(texts[h])
        BY <3>1, <3>5, <4>3 DEF UpToSends
      <4> QED BY <3>a, <4>1, <4>2, <4>3
    <3> QED BY <2>1, <3>2, <3>3, <3>4, <3>5 DEF OnePage, UpToSocket, UpToSends
  <2> QED BY <2>1, <2>3, <2>4
<1>6. ASSUME NEW t \in Threads, \/ t \in FrameThreads /\ ReceiveFrame(t)
                                \/ BeginBroadcast(t) \/ EndBroadcast(t)
      PROVE  OrderInv'
  <2>1. UNCHANGED <<message, socket, bridge_status, texts, shown, page>>
    BY <1>6 DEF ReceiveFrame, BeginBroadcast, EndBroadcast, loopVars, bridgeVars, pageVars
  <2>2. StatusTypes'
    BY <1>6, <2>1 DEF StatusTypes, ReceiveFrame, BeginBroadcast, EndBroadcast
  <2> QED BY <2>1, <2>2 DEF OnePage, UpToSocket, UpToMessage, UpToSends
<1>7. CASE ReceiveStatus
  <2>1. UNCHANGED <<bridge_status, texts, shown, page>> /\ socket # None /\ socket' = None
    BY <1>7 DEF ReceiveStatus, loopVars, pageVars
  <2>2. StatusTypes'
    BY <1>7, <2>1 DEF ReceiveStatus, StatusTypes
  <2>3. UpToSocket'
    BY <1>7, <2>1 DEF ReceiveStatus, UpToSocket, StatusTypes
  <2>4. UpToMessage'
    <3>1. CASE UNCHANGED message
      BY <2>1, <3>1 DEF UpToMessage
    <3>2. CASE message' = socket
      BY <2>1, <3>2 DEF UpToMessage, UpToSocket, StatusTypes
    <3> QED BY <1>7, <3>1, <3>2 DEF ReceiveStatus
  <2> QED BY <2>1, <2>2, <2>3, <2>4 DEF OnePage, UpToSends
<1>8. CASE ChangeStatus \/ PublishStatus
  <2>1. UNCHANGED <<thread, message, texts, shown, page>>
    BY <1>8 DEF ChangeStatus, PublishStatus, loopVars, threadVars, pageVars
  <2>2. StatusTypes' /\ UpToSocket'
    BY <1>8, <2>1 DEF ChangeStatus, PublishStatus, StatusTypes, UpToSocket
  <2> QED BY <2>1, <2>2 DEF OnePage, UpToMessage, UpToSends
<1> QED
  <2>1. FrameThreads \subseteq Threads BY DEF Threads
  <2> QED BY <2>1, <1>1, <1>2, <1>3, <1>4, <1>5, <1>6, <1>7, <1>8, StatusSteps

LEMMA OrderInvariant == ViewerSpec => []OrderInv
<1>1. ViewerInit => OrderInv
  BY WebViewerAssumption, Apart
     DEF ViewerInit, OrderInv, StatusTypes, OnePage, UpToSocket, UpToMessage, UpToSends
<1>2. OrderInv /\ [ViewerNext]_viewerVars => OrderInv'
  BY OrderInvStep
<1> QED BY <1>1, <1>2, PTL DEF ViewerSpec

\* A page never shows an older status than before, across any number of
\* reconnections (dcas_web_viewer.py:157-167, 512-522).
THEOREM ViewerPageNeverGoesBack == ViewerSpec => PageNeverGoesBack
<1>1. OrderInv /\ [ViewerNext]_viewerVars
        => [\A p \in Pages : shown[p] # None => shown'[p] >= shown[p]]_viewerVars
  <2> SUFFICES ASSUME OrderInv, [ViewerNext]_viewerVars,
                      NEW p \in Pages, shown[p] # None
               PROVE  shown'[p] >= shown[p]
    OBVIOUS
  <2>1. shown[p] \in Nat BY DEF OrderInv, StatusTypes
  <2>2. CASE UNCHANGED shown
    BY <2>1, <2>2
  <2>3. ASSUME NEW h \in Handles, FinishText(h)
        PROVE  shown'[p] >= shown[p]
    <3>1. shown'[p] = IF page[h] = p THEN Head(texts[h]) ELSE shown[p]
      BY <2>3 DEF FinishText
    <3>2. Head(texts[h]) = texts[h][1] /\ Len(texts[h]) > 0 /\ texts[h][1] \in Nat
      BY <2>3 DEF FinishText, OrderInv, StatusTypes
    <3>3. CASE page[h] = p
      <4>1. shown[p] <= texts[h][1]
        BY <3>2, <3>3, WebViewerAssumption DEF OrderInv, UpToSends, StatusTypes
      <4> QED BY <2>1, <3>1, <3>2, <3>3, <4>1
    <3> QED BY <2>1, <3>1, <3>3
  <2> QED BY <2>2, <2>3, StatusSteps
     DEF Connect, Disconnect, SendText, ReceiveFrame, BeginBroadcast, EndBroadcast,
         ReceiveStatus, ChangeStatus, PublishStatus, statusVars, pageVars
<1> QED BY <1>1, OrderInvariant, PTL DEF ViewerSpec, PageNeverGoesBack

-----------------------------------------------------------------------------
(* Types *)

\* What the other invariants leave open.
BoundsInv == /\ lock \in Threads \cup {None} /\ loop_at \in Handles \cup {None}
             /\ bridge_status \in Statuses /\ wait \in 0 .. Interval

LEMMA BoundsNext ==
    ASSUME BoundsInv, [ViewerNext]_viewerVars
    PROVE  BoundsInv'
<1> USE WebViewerAssumption
<1>1. lock' \in Threads \cup {None}
  BY DEF BoundsInv, ViewerNext, viewerVars, sharedVars, HandlerStep, Broadcast, Connect,
     AddClient, Closed, Leave, Disconnect, FinishFrame, FinishText, ReceiveFrame,
     BeginBroadcast, SendFrame, SendText, EndBroadcast, ReceiveStatus, ClockTick,
     ChangeStatus, PublishStatus
<1>2. loop_at' \in Handles \cup {None}
  BY HandlerSteps DEF BoundsInv, Connect, AddClient, Closed, Leave
<1>3. bridge_status' \in Statuses
  BY StatusSteps DEF BoundsInv, Statuses, statusVars, bridgeVars, Connect, Disconnect,
     FinishText, SendText, ReceiveFrame, BeginBroadcast, EndBroadcast, ReceiveStatus,
     ChangeStatus, PublishStatus
<1>4. wait' \in 0 .. Interval
  BY DEF BoundsInv, ViewerNext, viewerVars, threadVars, HandlerStep, Broadcast, Connect,
     AddClient, Closed, Leave, Disconnect, FinishFrame, FinishText, ReceiveFrame,
     BeginBroadcast, SendFrame, SendText, EndBroadcast, ReceiveStatus,
     WaitAfterDrop, ClockTick, ChangeStatus, PublishStatus
<1> QED BY <1>1, <1>2, <1>3, <1>4 DEF BoundsInv

\* Statuses on their way are statuses the bridge has had.
LEMMA StatusBounds ==
    ASSUME OrderInv, BoundsInv
    PROVE  /\ socket \in Statuses \cup {None} /\ message \in Statuses \cup {None}
           /\ texts \in [Handles -> Seq(Statuses)]
           /\ shown \in [Pages -> Statuses \cup {None}]
<1>1. socket \in Statuses \cup {None} /\ message \in Statuses \cup {None}
  BY WebViewerAssumption DEF OrderInv, StatusTypes, UpToSocket, BoundsInv, Statuses
<1>2. ASSUME NEW n \in Nat, message # None, n <= message PROVE n \in Statuses
  BY <1>1, <1>2, WebViewerAssumption DEF Statuses
<1>3. ASSUME NEW h \in Handles PROVE texts[h] \in Seq(Statuses)
  <2>1. texts[h] \in Seq(Nat)
    BY DEF OrderInv, StatusTypes
  <2>2. \A i \in 1 .. Len(texts[h]) : texts[h][i] \in Statuses
    BY <1>2, <2>1 DEF OrderInv, UpToMessage
  <2> QED BY <2>1, <2>2
<1>4. shown \in [Pages -> Statuses \cup {None}]
  BY <1>2 DEF OrderInv, StatusTypes, UpToMessage
<1> QED BY <1>1, <1>3, <1>4 DEF OrderInv, StatusTypes

\* Type correctness of the viewer, for any number of pages, connections and
\* threads (dcas_web_viewer.py:93-213, 512-522).
THEOREM ViewerTypeCorrect == ViewerSpec => []ViewerTypeOK
<1>1. ViewerInit => BoundsInv
  BY WebViewerAssumption DEF ViewerInit, BoundsInv, Statuses
<1>2. BoundsInv /\ [ViewerNext]_viewerVars => BoundsInv'
  BY BoundsNext
<1>3. ViewerInv /\ OrderInv /\ BoundsInv => ViewerTypeOK
  BY StatusBounds DEF ViewerInv, HandlerInv, LockInv, FutureInv, OrderInv, StatusTypes,
     BoundsInv, ViewerTypeOK
<1> QED BY <1>1, <1>2, <1>3, ViewerInvariant, OrderInvariant, PTL DEF ViewerSpec
=============================================================================
