----------------------------- MODULE WebViewer -----------------------------
(***************************************************************************)
(* The web viewer (dcas_web_viewer.py) and the pages it serves             *)
(* (dcas_viewer.html).                                                     *)
(*                                                                         *)
(* Three subscriber threads receive camera frames and the bridge's status  *)
(* and broadcast them; an event loop thread runs one handler for each      *)
(* connection and performs the sends that the subscribers schedule.  They  *)
(* share `clients`, under a lock, and `_send_futures`, which the handlers  *)
(* change without it.  A connection is known by its handle, the id() of    *)
(* its object, and a handle is used again once the object is gone.         *)
(*                                                                         *)
(* A status is the number of the bridge's state in the order of its        *)
(* changes.  Repeating a status changes nothing on a page, so the sends    *)
(* of equal statuses next to each other in a connection count as one.      *)
(* Frames have no content, and their rate limit is a free choice.          *)
(* Starting and stopping the viewer are left out.                          *)
(***************************************************************************)
EXTENDS Naturals, Sequences

CONSTANTS
    Pages,          \* the browsers
    Prompt,         \* those that take what is sent to them
    Handles,        \* the identities a connection's object may have
    FrameThreads,   \* the subscribers of frames: LKAS and driver
    StatusThread,   \* the subscriber of the status
    Interval,       \* the status interval, in ticks of the clock
    MaxChanges,     \* bound: how often the bridge's state changes
    None            \* nobody, nothing

Threads  == FrameThreads \cup {StatusThread}
Statuses == 0 .. MaxChanges

ASSUME WebViewerAssumption ==
    /\ Prompt \subseteq Pages
    /\ StatusThread \notin FrameThreads
    /\ Interval \in Nat /\ MaxChanges \in Nat
    /\ None \notin Pages \cup Handles \cup Threads \cup Nat

VARIABLES
    clients,        \* self.clients
    lock,           \* who holds self._lock
    send_futures,   \* self._send_futures: the last frame sent to each client
    handler,        \* where the handler of each connection is
    loop_at,        \* the handler that holds up the event loop, or None
    frames,         \* the sends of frames not finished, for each connection
    texts,          \* the statuses a connection is still to send
    thread,         \* where each subscriber is
    todo,           \* the clients its broadcast has yet to visit
    message,        \* the status being broadcast
    wait,           \* clock ticks until the next status may be sent
    bridge_status,  \* the bridge's state
    socket,         \* the status in the subscriber's socket
    page,           \* the page at the other end of each connection
    shown           \* the last status each page has shown

sharedVars == <<clients, lock, send_futures>>
loopVars   == <<handler, loop_at, frames, texts>>
threadVars == <<thread, todo, message, wait>>
bridgeVars == <<bridge_status, socket>>
pageVars   == <<page, shown>>
viewerVars == <<sharedVars, loopVars, threadVars, bridgeVars, pageVars>>

ViewerInit ==
    /\ clients = {} /\ lock = None
    /\ send_futures = [h \in Handles |-> "none"]
    /\ handler = [h \in Handles |-> "none"] /\ loop_at = None
    /\ frames = [h \in Handles |-> 0] /\ texts = [h \in Handles |-> <<>>]
    /\ thread = [t \in Threads |-> "receiving"]
    /\ todo = [t \in Threads |-> {}]
    /\ message = None /\ wait = 0
    /\ bridge_status = 0 /\ socket = None
    /\ page = [h \in Handles |-> None]
    /\ shown = [p \in Pages |-> None]

-----------------------------------------------------------------------------
(* Connections: the handler on the event loop *)

Connected(p) == \E h \in Handles : page[h] = p /\ handler[h] = "open"

MutUnconnected(p) == TRUE

\* A page connects again only from onclose.
Unconnected(p) == \A g \in Handles : page[g] # p

\* A page connects when it is loaded, and again once its connection is closed.
\* The object of an earlier connection is gone, and its id free, when its
\* handler has ended and no send refers to it.
Connect(p, h) ==
    /\ loop_at = None /\ handler[h] = "none" /\ frames[h] = 0 /\ texts[h] = <<>>
    /\ Unconnected(p)
    /\ page' = [page EXCEPT ![h] = p]
    /\ handler' = [handler EXCEPT ![h] = "adding"] /\ loop_at' = h
    /\ UNCHANGED <<sharedVars, frames, texts, threadVars, bridgeVars, shown>>

MutLockFree == TRUE
LockFree == lock = None

\* with self._lock: self.clients.add(websocket)
AddClient(h) ==
    /\ handler[h] = "adding" /\ LockFree
    /\ clients' = clients \cup {h}
    /\ handler' = [handler EXCEPT ![h] = "open"] /\ loop_at' = None
    /\ UNCHANGED <<lock, send_futures, frames, texts, threadVars, bridgeVars, pageVars>>

\* The page closes the connection, or loses it; the server need not know yet.
Disconnect(h) ==
    /\ page[h] # None
    /\ page' = [page EXCEPT ![h] = None]
    /\ UNCHANGED <<sharedVars, loopVars, threadVars, bridgeVars, shown>>

\* The server notices, and the handler's loop over the messages ends.
Closed(h) ==
    /\ loop_at = None /\ handler[h] = "open" /\ page[h] = None
    /\ handler' = [handler EXCEPT ![h] = "discarding"] /\ loop_at' = h
    /\ UNCHANGED <<sharedVars, frames, texts, threadVars, bridgeVars, pageVars>>

MutLeavePopsFirst(h) ==
    /\ \/ /\ handler[h] = "discarding"
          /\ send_futures' = [send_futures EXCEPT ![h] = "none"]
          /\ handler' = [handler EXCEPT ![h] = "popping"]
          /\ UNCHANGED <<clients, loop_at>>
       \/ /\ handler[h] = "popping" /\ LockFree
          /\ clients' = clients \ {h}
          /\ handler' = [handler EXCEPT ![h] = "none"] /\ loop_at' = None
          /\ UNCHANGED send_futures
    /\ UNCHANGED <<lock, frames, texts, threadVars, bridgeVars, pageVars>>

\* The finally clause: discard the client under the lock, then forget its
\* future without it.
Leave(h) ==
    /\ \/ /\ handler[h] = "discarding" /\ LockFree
          /\ clients' = clients \ {h}
          /\ handler' = [handler EXCEPT ![h] = "popping"]
          /\ UNCHANGED <<send_futures, loop_at>>
       \/ /\ handler[h] = "popping"
          /\ send_futures' = [send_futures EXCEPT ![h] = "none"]
          /\ handler' = [handler EXCEPT ![h] = "none"] /\ loop_at' = None
          /\ UNCHANGED clients
    /\ UNCHANGED <<lock, frames, texts, threadVars, bridgeVars, pageVars>>

-----------------------------------------------------------------------------
(* Sends: tasks on the event loop *)

\* A frame has been sent, or has failed because the connection is closed.
FinishFrame(h) ==
    /\ loop_at = None /\ frames[h] > 0
    /\ frames' = [frames EXCEPT ![h] = @ - 1]
    /\ send_futures' = [send_futures EXCEPT ![h] = IF frames[h] = 1 /\ @ = "pending"
                                                   THEN "done" ELSE @]
    /\ UNCHANGED <<clients, lock, handler, loop_at, texts, threadVars, bridgeVars, pageVars>>

\* A status reaches the page, which shows it, or is lost with the connection.
FinishText(h) ==
    /\ loop_at = None /\ texts[h] # <<>>
    /\ texts' = [texts EXCEPT ![h] = Tail(@)]
    /\ shown' = [p \in Pages |-> IF page[h] = p THEN Head(texts[h]) ELSE shown[p]]
    /\ UNCHANGED <<sharedVars, handler, loop_at, frames, threadVars, bridgeVars, page>>

-----------------------------------------------------------------------------
(* Subscribers and broadcasts *)

\* broadcast_lkas_frame, broadcast_driver_frame: the client count is read
\* without the lock.
ReceiveFrame(t) ==
    /\ thread[t] = "receiving" /\ clients # {}
    /\ thread' = [thread EXCEPT ![t] = "waiting"]
    /\ UNCHANGED <<sharedVars, loopVars, todo, message, wait, bridgeVars, pageVars>>

MutWaitAfterDrop == IF clients = {} THEN wait ELSE Interval
WaitAfterDrop == wait

\* broadcast_status: what comes within the interval of the last one that was
\* broadcast, or finds no client, is dropped.
ReceiveStatus ==
    /\ thread[StatusThread] = "receiving" /\ socket # None
    /\ socket' = None
    /\ IF wait > 0 \/ clients = {}
       THEN wait' = WaitAfterDrop /\ UNCHANGED <<thread, message>>
       ELSE /\ wait' = Interval /\ message' = socket
            /\ thread' = [thread EXCEPT ![StatusThread] = "waiting"]
    /\ UNCHANGED <<sharedVars, loopVars, todo, bridge_status, pageVars>>

\* with self._lock: for client in self.clients
BeginBroadcast(t) ==
    /\ thread[t] = "waiting" /\ lock = None
    /\ lock' = t /\ todo' = [todo EXCEPT ![t] = clients]
    /\ thread' = [thread EXCEPT ![t] = "sending"]
    /\ UNCHANGED <<clients, send_futures, loopVars, message, wait, bridgeVars, pageVars>>

MutBusy(h) == FALSE
Busy(h) == send_futures[h] = "pending"

\* broadcast_binary for one client: a busy one is skipped.
SendFrame(t, h) ==
    /\ thread[t] = "sending" /\ t \in FrameThreads /\ h \in todo[t]
    /\ todo' = [todo EXCEPT ![t] = @ \ {h}]
    /\ IF Busy(h)
       THEN UNCHANGED <<send_futures, frames>>
       ELSE /\ send_futures' = [send_futures EXCEPT ![h] = "pending"]
            /\ frames' = [frames EXCEPT ![h] = @ + 1]
    /\ UNCHANGED <<clients, lock, handler, loop_at, texts, thread, message, wait,
                   bridgeVars, pageVars>>

MutBroadcastText == socket
BroadcastText == message

\* broadcast_text for one client: busy or not, the status is sent.
SendText(h) ==
    /\ thread[StatusThread] = "sending" /\ h \in todo[StatusThread]
    /\ todo' = [todo EXCEPT ![StatusThread] = @ \ {h}]
    /\ texts' = [texts EXCEPT ![h] = IF @ # <<>> /\ @[Len(@)] = BroadcastText
                                     THEN @ ELSE Append(@, BroadcastText)]
    /\ UNCHANGED <<sharedVars, handler, loop_at, frames, thread, message, wait,
                   bridgeVars, pageVars>>

\* The lock is released and the thread goes back to its socket.
EndBroadcast(t) ==
    /\ thread[t] = "sending" /\ todo[t] = {}
    /\ lock' = None
    /\ thread' = [thread EXCEPT ![t] = "receiving"]
    /\ UNCHANGED <<clients, send_futures, loopVars, todo, message, wait, bridgeVars, pageVars>>

-----------------------------------------------------------------------------
(* Time and the bridge *)

ClockTick ==
    /\ wait > 0
    /\ wait' = wait - 1
    /\ UNCHANGED <<sharedVars, loopVars, thread, todo, message, bridgeVars, pageVars>>

ChangeStatus ==
    /\ bridge_status < MaxChanges
    /\ bridge_status' = bridge_status + 1
    /\ UNCHANGED <<sharedVars, loopVars, threadVars, socket, pageVars>>

\* The bridge publishes on every tick and drops what the socket does not take.
PublishStatus ==
    /\ socket = None
    /\ socket' = bridge_status
    /\ UNCHANGED <<sharedVars, loopVars, threadVars, bridge_status, pageVars>>

-----------------------------------------------------------------------------

HandlerStep(h) == AddClient(h) \/ Closed(h) \/ Leave(h)

Broadcast(t) == \/ BeginBroadcast(t)
                \/ \E h \in Handles : SendFrame(t, h)
                \/ t = StatusThread /\ \E h \in Handles : SendText(h)
                \/ EndBroadcast(t)

ViewerNext ==
    \/ \E h \in Handles : \/ \E p \in Pages : Connect(p, h)
                          \/ Disconnect(h)
                          \/ HandlerStep(h)
                          \/ FinishFrame(h)
                          \/ FinishText(h)
    \/ \E t \in FrameThreads : ReceiveFrame(t)
    \/ \E t \in Threads : Broadcast(t)
    \/ ReceiveStatus
    \/ ClockTick \/ ChangeStatus \/ PublishStatus

ViewerSpec ==
    /\ ViewerInit /\ [][ViewerNext]_viewerVars
    /\ \A h \in Handles :
          /\ SF_viewerVars(HandlerStep(h))
          /\ SF_viewerVars(page[h] \in Prompt /\ FinishText(h))
    /\ \A t \in Threads : SF_viewerVars(Broadcast(t))
    /\ WF_viewerVars(ReceiveStatus) /\ WF_viewerVars(ClockTick)
    /\ WF_viewerVars(PublishStatus)

-----------------------------------------------------------------------------
(* Properties *)

ViewerTypeOK ==
    /\ clients \subseteq Handles /\ lock \in Threads \cup {None}
    /\ send_futures \in [Handles -> {"none", "pending", "done"}]
    /\ handler \in [Handles -> {"none", "adding", "open", "discarding", "popping"}]
    /\ loop_at \in Handles \cup {None}
    /\ frames \in [Handles -> Nat] /\ texts \in [Handles -> Seq(Statuses)]
    /\ thread \in [Threads -> {"receiving", "waiting", "sending"}]
    /\ todo \in [Threads -> SUBSET Handles]
    /\ message \in Statuses \cup {None} /\ wait \in 0 .. Interval
    /\ bridge_status \in Statuses /\ socket \in Statuses \cup {None}
    /\ page \in [Handles -> Pages \cup {None}]
    /\ shown \in [Pages -> Statuses \cup {None}]

\* A broadcast visits clients only while it holds the lock, so it never sends
\* to one that has left, whose handler has gone past the lock
\* (dcas_web_viewer.py:137-167, 209-213).
BroadcastReachesClients ==
    \A t \in Threads : todo[t] # {} => lock = t /\ todo[t] \subseteq clients

\* Two threads send frames, but no connection is given a frame before it has
\* finished the one before, so a slow page holds one frame and no more
\* (dcas_web_viewer.py:144-150).
OneFrameInFlight == \A h \in Handles : frames[h] <= 1

\* A future does not survive the handler of its client, so a new client with
\* the id of an old one starts without, and no client is thought busy that is
\* not (dcas_web_viewer.py:144-154, 209-213).
NoForeignFuture ==
    \A h \in Handles :
        /\ send_futures[h] # "none" => handler[h] \in {"open", "discarding", "popping"}
        /\ send_futures[h] = "pending" => frames[h] > 0

\* No page goes back to an older status, not even across a reconnection with
\* sends left in the old connection (dcas_web_viewer.py:157-167, 512-522;
\* dcas_viewer.html:469-493).
PageNeverGoesBack ==
    [][ \A p \in Pages : shown[p] # None => shown'[p] >= shown[p] ]_viewerVars

\* When the bridge settles in a state, every page that keeps its connection and
\* takes what it is sent ends up showing it, whatever the other pages do and
\* however many statuses the rate limit drops (dcas_web_viewer.py:157-167,
\* 343-351, 512-522).
PagesLearnStatus ==
    \A p \in Prompt : \A s \in Statuses :
        <>[](Connected(p) /\ bridge_status = s) => <>[](shown[p] = s)
=============================================================================
