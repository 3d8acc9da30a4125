------------------------------ MODULE WsServer ------------------------------
(***************************************************************************)
(* The WebSocket half of the server (src/papago.c): the table of live      *)
(* connections, the per-connection send queue, the libwebsockets event     *)
(* loop that owns every connection, and the API calls other threads make.  *)
(*                                                                         *)
(* Locks.  send_mutex is a leaf lock: nothing blocks or is called while it *)
(* is held, so each of its critical sections (push, pop, has_more, drain)  *)
(* is one step.  ws_mutex is held across several steps only by             *)
(* papago_ws_broadcast; every other critical section of it is one step     *)
(* that needs it free.                                                     *)
(*                                                                         *)
(* conn->closing is read (2075, 2088) and assigned nowhere in the source,  *)
(* so it is the constant false and drain_cond is never signalled: the      *)
(* model has neither.                                                      *)
(*                                                                         *)
(* Use of a destroyed mutex or of freed memory is undefined behaviour of   *)
(* the C program.  A step that does it records the kind in fault and the   *)
(* model stops there: nothing is claimed about the states after it.        *)
(***************************************************************************)
EXTENDS Integers, FiniteSets, SequencesExt

CONSTANTS
    Conns,                \* the connections lws will ever accept
    AppThreads,           \* threads of the application (HTTP handlers too)
    Lws,                  \* the event-loop thread, lws_thread_func
    DirectSenders,        \* the AppThreads that send on connection handles
    Msgs,                 \* message contents
    MsgLen,               \* payload length of each message
    MAX_WS_CONNECTIONS,   \* slots of server->ws_connections
    WS_MAX_QUEUE_MSGS,    \* limits of one send queue
    WS_MAX_QUEUE_BYTES,
    MaxCalls,             \* bound: API calls made in one behaviour
    None                  \* no thread, no connection, no message

Threads == AppThreads \cup {Lws}

ASSUME ConstantsAssumption ==
    /\ Lws \notin AppThreads
    /\ DirectSenders \subseteq AppThreads
    /\ None \notin Threads \cup Conns \cup Msgs
    /\ MsgLen \in [Msgs -> Nat]
    /\ MAX_WS_CONNECTIONS \in Nat
    /\ WS_MAX_QUEUE_MSGS \in Nat
    /\ WS_MAX_QUEUE_BYTES \in Nat
    /\ MaxCalls \in Nat

VARIABLES
    \* papago_ws_connection_t
    phase,              \* life of the wsi and its user memory, as lws has it
    endpoint,           \* conn->wsi, ->server and ->endpoint are set
    send_mutex,         \* "none" | "ready" | "destroyed"
    send_mutex_ready,
    inflight,
    queue,              \* send_head .. send_tail
    queue_msg_count,
    queue_byte_count,
    \* papago_server
    ws_connections,     \* the table and its count
    ws_mutex,           \* its holder
    \* libwebsockets
    pollout,            \* a WRITEABLE callback has been asked for
    partial,            \* lws_partial_buffered
    \* threads
    lws_pc,             \* what the event loop is doing,
    lws_conn,           \*   on which connection,
    lws_msg,            \*   with which message in hand
    op,                 \* the API call each thread is in,
    pc,                 \*   how far it has come,
    conn,               \*   its connection,
    msg,                \*   its message,
    idx,                \*   and its place in the table
    \* the application, the bound and the history
    handles,            \* connections between on_connect and on_close
    calls,              \* API calls made so far
    accepted,           \* messages queued for a connection, in order
    wire,               \* messages lws_write took for a connection, in order
    fault               \* kind of undefined behaviour met

connVars == <<phase, endpoint, send_mutex, send_mutex_ready, inflight>>
queueVars == <<queue, queue_msg_count, queue_byte_count>>
tableVars == <<ws_connections, ws_mutex>>
pollVars == <<pollout, partial>>
histVars == <<accepted, wire>>
lwsVars == <<lws_pc, lws_conn, lws_msg>>
callVars == <<op, pc, conn, msg, idx>>
vars == <<connVars, queueVars, tableVars, pollVars, lwsVars, callVars, handles,
          calls, histVars, fault>>

\* The user callbacks the event loop may be in.
Callbacks == {"on_connect", "on_message", "on_error", "on_close"}

InCallback == lws_pc \in Callbacks

-----------------------------------------------------------------------------
Init ==
    /\ phase = [c \in Conns |-> "absent"]
    /\ endpoint = [c \in Conns |-> FALSE]
    /\ send_mutex = [c \in Conns |-> "none"]
    /\ send_mutex_ready = [c \in Conns |-> FALSE]
    /\ inflight = [c \in Conns |-> 0]
    /\ queue = [c \in Conns |-> <<>>]
    /\ queue_msg_count = [c \in Conns |-> 0]
    /\ queue_byte_count = [c \in Conns |-> 0]
    /\ ws_connections = <<>>
    /\ ws_mutex = None
    /\ pollout = [c \in Conns |-> FALSE]
    /\ partial = [c \in Conns |-> FALSE]
    /\ lws_pc = "service" /\ lws_conn = None /\ lws_msg = None
    /\ op = [t \in Threads |-> "none"]
    /\ pc = [t \in Threads |-> "idle"]
    /\ conn = [t \in Threads |-> None]
    /\ msg = [t \in Threads |-> None]
    /\ idx = [t \in Threads |-> 0]
    /\ handles = {}
    /\ calls = 0
    /\ accepted = [c \in Conns |-> <<>>]
    /\ wire = [c \in Conns |-> <<>>]
    /\ fault = "none"

\* The event loop moves on to p, for connection c, holding message m.
LwsTo(p, c, m) == lws_pc' = p /\ lws_conn' = c /\ lws_msg' = m

\* It goes back to polling.
LwsReturn == LwsTo("service", None, None)

-----------------------------------------------------------------------------
(* LWS_CALLBACK_ESTABLISHED                                                *)

\* mTLS refused, URI unreadable or no endpoint at that path: return 1 with
\* the zeroed per-session memory untouched; lws then closes the connection.
EstablishedRefused(c) ==
    /\ lws_pc = "service" /\ phase[c] = "absent"
    /\ phase' = [phase EXCEPT ![c] = "open"]
    /\ LwsTo("closed", c, None)
    /\ UNCHANGED <<endpoint, send_mutex, send_mutex_ready, inflight, queueVars,
                   tableVars, pollVars, callVars, handles, calls, histVars,
                   fault>>

\* The path matched, and pthread_mutex_init (m = "none") or pthread_cond_init
\* (m = "destroyed") failed: return 1 with the endpoint already set.
EstablishedInitFailed(c, m) ==
    /\ lws_pc = "service" /\ phase[c] = "absent"
    /\ phase' = [phase EXCEPT ![c] = "open"]
    /\ endpoint' = [endpoint EXCEPT ![c] = TRUE]
    /\ send_mutex' = [send_mutex EXCEPT ![c] = m]
    /\ LwsTo("closed", c, None)
    /\ UNCHANGED <<send_mutex_ready, inflight, queueVars, tableVars, pollVars,
                   callVars, handles, calls, histVars, fault>>

\* The path matched and both primitives were created.
EstablishedMatched(c) ==
    /\ lws_pc = "service" /\ phase[c] = "absent"
    /\ phase' = [phase EXCEPT ![c] = "open"]
    /\ endpoint' = [endpoint EXCEPT ![c] = TRUE]
    /\ send_mutex' = [send_mutex EXCEPT ![c] = "ready"]
    /\ LwsTo("register", c, None)
    /\ UNCHANGED <<send_mutex_ready, inflight, queueVars, tableVars, pollVars,
                   callVars, handles, calls, histVars, fault>>

\* Under ws_mutex: take a slot of the table if one is left, then become live;
\* on_connect is called after the unlock and hands the connection out.
Register ==
    /\ lws_pc = "register" /\ ws_mutex = None
    /\ ws_connections' = IF Len(ws_connections) < MAX_WS_CONNECTIONS
                         THEN Append(ws_connections, lws_conn)
                         ELSE ws_connections
    /\ send_mutex_ready' = [send_mutex_ready EXCEPT ![lws_conn] = TRUE]
    /\ handles' = handles \cup {lws_conn}
    /\ LwsTo("on_connect", lws_conn, None)
    /\ UNCHANGED <<phase, endpoint, send_mutex, inflight, queueVars, ws_mutex,
                   pollVars, callVars, calls, histVars, fault>>

-----------------------------------------------------------------------------
(* LWS_CALLBACK_SERVER_WRITEABLE                                           *)

\* lws still holds part of an earlier write: ask to be called again.
WriteableBusy(c) ==
    /\ lws_pc = "service" /\ phase[c] = "open" /\ pollout[c]
    /\ partial[c]
    /\ UNCHANGED vars

\* ws_queue_pop finds nothing: the callback returns.
WriteableEmpty(c) ==
    /\ lws_pc = "service" /\ phase[c] = "open" /\ pollout[c]
    /\ ~partial[c] /\ queue[c] = <<>>
    /\ pollout' = [pollout EXCEPT ![c] = FALSE]
    /\ UNCHANGED <<connVars, queueVars, tableVars, partial, lwsVars, callVars,
                   handles, calls, histVars, fault>>

\* ws_queue_pop takes the first message.
WriteablePop(c) ==
    /\ lws_pc = "service" /\ phase[c] = "open" /\ pollout[c]
    /\ ~partial[c] /\ queue[c] # <<>>
    /\ pollout' = [pollout EXCEPT ![c] = FALSE]
    /\ queue' = [queue EXCEPT ![c] = Tail(@)]
    /\ queue_msg_count' = [queue_msg_count EXCEPT ![c] = @ - 1]
    /\ queue_byte_count' =
           [queue_byte_count EXCEPT ![c] = @ - MsgLen[Head(queue[c])]]
    /\ LwsTo("write", c, Head(queue[c]))
    /\ UNCHANGED <<connVars, tableVars, partial, callVars, handles, calls,
                   histVars, fault>>

\* lws_write took the message: all of it, or (buffered) with a remainder it
\* keeps and asks a WRITEABLE for.  The queue is then looked at once more.
WriteTaken(buffered) ==
    LET c == lws_conn IN
    /\ lws_pc = "write"
    /\ wire' = [wire EXCEPT ![c] = Append(@, lws_msg)]
    /\ partial' = [partial EXCEPT ![c] = buffered]
    /\ pollout' = [pollout EXCEPT ![c] = @ \/ buffered]
    /\ LwsTo("has_more", c, None)
    /\ UNCHANGED <<connVars, queueVars, tableVars, callVars, handles, calls,
                   accepted, fault>>

\* Mutant of WriteFailed: the connection stays open after losing a message.
WriteFailedKeepsOpen ==
    /\ lws_pc = "write"
    /\ LwsTo("has_more", lws_conn, None)
    /\ UNCHANGED <<connVars, queueVars, tableVars, pollVars, callVars, handles,
                   calls, histVars, fault>>

\* lws_write failed or was cut short: the message is freed, on_error is told,
\* and the callback's -1 closes the connection.
WriteFailed ==
    /\ lws_pc = "write"
    /\ LwsTo("on_error", lws_conn, None)
    /\ UNCHANGED <<connVars, queueVars, tableVars, pollVars, callVars, handles,
                   calls, histVars, fault>>

\* Mutant of HasMore: the rest of the queue is forgotten.
HasMoreForgets ==
    /\ lws_pc = "has_more"
    /\ LwsReturn
    /\ UNCHANGED <<connVars, queueVars, tableVars, pollVars, callVars, handles,
                   calls, histVars, fault>>

\* ws_queue_has_more, and lws_callback_on_writable unless lws is flushing.
HasMore ==
    LET c == lws_conn IN
    /\ lws_pc = "has_more"
    /\ pollout' = [pollout EXCEPT
                     ![c] = @ \/ (queue[c] # <<>> /\ ~partial[c])]
    /\ LwsReturn
    /\ UNCHANGED <<connVars, queueVars, tableVars, partial, callVars, handles,
                   calls, histVars, fault>>

\* External: lws flushes what it kept, and leaves POLLOUT as it was.
Flush(c) ==
    /\ lws_pc = "service" /\ phase[c] = "open" /\ partial[c]
    /\ partial' = [partial EXCEPT ![c] = FALSE]
    /\ UNCHANGED <<connVars, queueVars, tableVars, pollout, lwsVars, callVars,
                   handles, calls, histVars, fault>>

-----------------------------------------------------------------------------
(* LWS_CALLBACK_RECEIVE and LWS_CALLBACK_CLOSED                            *)

Receive(c) ==
    /\ lws_pc = "service" /\ phase[c] = "open"
    /\ LwsTo("on_message", c, None)
    /\ UNCHANGED <<connVars, queueVars, tableVars, pollVars, callVars, handles,
                   calls, histVars, fault>>

\* External: the peer goes away, or the context is torn down.
Disconnect(c) ==
    /\ lws_pc = "service" /\ phase[c] = "open"
    /\ LwsTo("closed", c, None)
    /\ UNCHANGED <<connVars, queueVars, tableVars, pollVars, callVars, handles,
                   calls, histVars, fault>>

\* Mutant of Without: the count goes down, the entries stay.
WithoutNoShift(table, c) ==
    IF \A i \in 1 .. Len(table) : table[i] # c
    THEN table
    ELSE SubSeq(table, 1, Len(table) - 1)

\* The table without connection c: the entries after it move down one slot.
Without(table, c) ==
    IF \A i \in 1 .. Len(table) : table[i] # c
    THEN table
    ELSE [i \in 1 .. (Len(table) - 1) |->
              IF \E j \in 1 .. i : table[j] = c THEN table[i + 1]
                                                ELSE table[i]]

\* Mutant of ClosedRemove: the connection stays listed.
ClosedStaysListed ==
    /\ lws_pc = "closed"
    /\ endpoint[lws_conn] => ws_mutex = None
    /\ phase' = [phase EXCEPT ![lws_conn] = "closing"]
    /\ LwsTo("drain", lws_conn, None)
    /\ UNCHANGED <<endpoint, send_mutex, send_mutex_ready, inflight, queueVars,
                   tableVars, pollVars, callVars, handles, calls, histVars,
                   fault>>

\* The table is left under ws_mutex; a connection that never matched an
\* endpoint has no server pointer and takes no lock.
ClosedRemove ==
    LET c == lws_conn IN
    /\ lws_pc = "closed"
    /\ endpoint[c] => ws_mutex = None
    /\ phase' = [phase EXCEPT ![c] = "closing"]
    /\ ws_connections' = IF endpoint[c] THEN Without(ws_connections, c)
                                        ELSE ws_connections
    /\ LwsTo("drain", c, None)
    /\ UNCHANGED <<endpoint, send_mutex, send_mutex_ready, inflight, queueVars,
                   ws_mutex, pollVars, callVars, handles, calls, histVars,
                   fault>>

\* Mutant of ClosedDrain: what is queued is not freed.
ClosedKeepsQueue ==
    /\ lws_pc = "drain"
    /\ LwsTo("destroy", lws_conn, None)
    /\ UNCHANGED <<connVars, queueVars, tableVars, pollVars, callVars, handles,
                   calls, histVars, fault>>

\* ws_queue_drain_and_free: the messages go, the two counters stay.
ClosedDrain ==
    LET c == lws_conn IN
    /\ lws_pc = "drain"
    /\ queue' = IF send_mutex_ready[c] THEN [queue EXCEPT ![c] = <<>>]
                                       ELSE queue
    /\ LwsTo("destroy", c, None)
    /\ UNCHANGED <<connVars, queue_msg_count, queue_byte_count, tableVars,
                   pollVars, callVars, handles, calls, histVars, fault>>

\* pthread_mutex_destroy, whether or not the mutex was created and whoever
\* is still inside a send; then on_close, if the endpoint was set.
ClosedDestroy ==
    LET c == lws_conn IN
    /\ lws_pc = "destroy"
    /\ send_mutex' = [send_mutex EXCEPT ![c] = "destroyed"]
    /\ handles' = handles \ {c}
    /\ LwsTo(IF endpoint[c] THEN "on_close" ELSE "free", c, None)
    /\ UNCHANGED <<phase, endpoint, send_mutex_ready, inflight, queueVars,
                   tableVars, pollVars, callVars, calls, histVars, fault>>

\* External: after the CLOSED callback lws frees the wsi and its memory.
Free ==
    LET c == lws_conn IN
    /\ lws_pc = "free"
    /\ phase' = [phase EXCEPT ![c] = "freed"]
    /\ pollout' = [pollout EXCEPT ![c] = FALSE]
    /\ partial' = [partial EXCEPT ![c] = FALSE]
    /\ LwsReturn
    /\ UNCHANGED <<endpoint, send_mutex, send_mutex_ready, inflight, queueVars,
                   tableVars, callVars, handles, calls, histVars, fault>>

\* A user callback returns: on_error goes on to the close its -1 asks for.
CallbackReturn ==
    /\ InCallback /\ pc[Lws] = "idle"
    /\ \/ lws_pc \in {"on_connect", "on_message"} /\ LwsReturn
       \/ lws_pc = "on_error" /\ LwsTo("closed", lws_conn, None)
       \/ lws_pc = "on_close" /\ LwsTo("free", lws_conn, None)
    /\ UNCHANGED <<connVars, queueVars, tableVars, pollVars, callVars, handles,
                   calls, histVars, fault>>

-----------------------------------------------------------------------------
(* The calls of the application.  An application thread may call at any    *)
(* time; the event loop's thread calls from inside a user callback.        *)

MayCall(t) ==
    /\ pc[t] = "idle" /\ calls < MaxCalls
    /\ t = Lws => InCallback

\* A handle is used from on_connect until on_close is called.
MaySend(t, c) == t \in DirectSenders \cup {Lws} /\ c \in handles

Begin(t, o, p, c, m) ==
    /\ MayCall(t)
    /\ op' = [op EXCEPT ![t] = o]
    /\ pc' = [pc EXCEPT ![t] = p]
    /\ conn' = [conn EXCEPT ![t] = c]
    /\ msg' = [msg EXCEPT ![t] = m]
    /\ idx' = [idx EXCEPT ![t] = 1]
    /\ calls' = calls + 1
    /\ UNCHANGED <<connVars, queueVars, tableVars, pollVars, lwsVars, handles,
                   histVars, fault>>

papago_ws_send(t, c, m) == MaySend(t, c) /\ Begin(t, "send", "acquire", c, m)

papago_ws_send_binary(t, c, m) ==
    MaySend(t, c) /\ Begin(t, "binary", "push", c, m)

papago_ws_broadcast(t, m) == Begin(t, "broadcast", "lock", None, m)

\* The reason is not used.
papago_ws_close(t, c) == MaySend(t, c) /\ Begin(t, "close", "close", c, None)

CallTo(t, p) ==
    pc' = [pc EXCEPT ![t] = p] /\ UNCHANGED <<op, conn, msg, idx>>

Return(t) ==
    /\ op' = [op EXCEPT ![t] = "none"]
    /\ pc' = [pc EXCEPT ![t] = "idle"]
    /\ conn' = [conn EXCEPT ![t] = None]
    /\ msg' = [msg EXCEPT ![t] = None]
    /\ idx' = [idx EXCEPT ![t] = 0]

\* Where a call goes once its message is queued or given up.
AfterPush(t) ==
    \/ op[t] = "send" /\ CallTo(t, "release")
    \/ op[t] = "binary" /\ Return(t)
    \/ op[t] = "broadcast" /\ CallTo(t, "next")

\* The step touches memory that is no longer a connection.
Faults(kind) ==
    /\ fault' = kind
    /\ UNCHANGED <<connVars, queueVars, tableVars, pollVars, lwsVars, callVars,
                   handles, calls, histVars>>

\* Each step below reads the connection: conn->server, ->send_mutex, ->wsi.
UseAfterFree(t) ==
    /\ pc[t] \in {"acquire", "push", "notify", "release", "close"}
    /\ phase[conn[t]] = "freed"
    /\ Faults("use after free")

\* ws_queue_push locks send_mutex after CLOSED has destroyed it.
LockDestroyed(t) ==
    /\ pc[t] = "push"
    /\ phase[conn[t]] # "freed" /\ send_mutex[conn[t]] # "ready"
    /\ Faults("lock of destroyed mutex")

\* papago_ws_conn_acquire on a live connection, and on one that is not.
Acquire(t) ==
    /\ pc[t] = "acquire" /\ phase[conn[t]] # "freed"
    /\ ws_mutex = None
    /\ send_mutex_ready[conn[t]]
    /\ inflight' = [inflight EXCEPT ![conn[t]] = @ + 1]
    /\ CallTo(t, "push")
    /\ UNCHANGED <<phase, endpoint, send_mutex, send_mutex_ready, queueVars,
                   tableVars, pollVars, lwsVars, handles, calls, histVars,
                   fault>>

AcquireRefused(t) ==
    /\ pc[t] = "acquire" /\ phase[conn[t]] # "freed"
    /\ ws_mutex = None
    /\ ~send_mutex_ready[conn[t]]
    /\ Return(t)
    /\ UNCHANGED <<connVars, queueVars, tableVars, pollVars, lwsVars, handles,
                   calls, histVars, fault>>

\* ws_msg_create ran out of memory.
PushNoMemory(t) ==
    /\ pc[t] = "push"
    /\ AfterPush(t)
    /\ UNCHANGED <<connVars, queueVars, tableVars, pollVars, lwsVars, handles,
                   calls, histVars, fault>>

\* Mutants of QueueFull: one message too many; the new message's length left
\* out of the sum.
QueueFullOneMore(c, m) ==
    \/ queue_msg_count[c] > WS_MAX_QUEUE_MSGS
    \/ queue_byte_count[c] + MsgLen[m] > WS_MAX_QUEUE_BYTES

QueueFullOldBytes(c, m) ==
    \/ queue_msg_count[c] >= WS_MAX_QUEUE_MSGS
    \/ queue_byte_count[c] >= WS_MAX_QUEUE_BYTES

\* The test of ws_queue_push.
QueueFull(c, m) ==
    \/ queue_msg_count[c] >= WS_MAX_QUEUE_MSGS
    \/ queue_byte_count[c] + MsgLen[m] > WS_MAX_QUEUE_BYTES

PushFull(t) ==
    /\ pc[t] = "push"
    /\ phase[conn[t]] # "freed" /\ send_mutex[conn[t]] = "ready"
    /\ QueueFull(conn[t], msg[t])
    /\ AfterPush(t)
    /\ UNCHANGED <<connVars, queueVars, tableVars, pollVars, lwsVars, handles,
                   calls, histVars, fault>>

\* ws_queue_push
Push(t) ==
    LET c == conn[t]
        m == msg[t] IN
    /\ pc[t] = "push"
    /\ phase[c] # "freed" /\ send_mutex[c] = "ready"
    /\ ~QueueFull(c, m)
    /\ queue' = [queue EXCEPT ![c] = Append(@, m)]
    /\ queue_msg_count' = [queue_msg_count EXCEPT ![c] = @ + 1]
    /\ queue_byte_count' = [queue_byte_count EXCEPT ![c] = @ + MsgLen[m]]
    /\ accepted' = [accepted EXCEPT ![c] = Append(@, m)]
    /\ CallTo(t, "notify")
    /\ UNCHANGED <<connVars, tableVars, pollVars, lwsVars, handles, calls,
                   wire, fault>>

\* Mutant of Notify: the sender does not ask for a WRITEABLE callback.
NotifyNothing(t) ==
    /\ pc[t] = "notify" /\ phase[conn[t]] # "freed"
    /\ AfterPush(t)
    /\ UNCHANGED <<connVars, queueVars, tableVars, pollVars, lwsVars, handles,
                   calls, histVars, fault>>

\* lws_callback_on_writable(conn->wsi) and lws_cancel_service
Notify(t) ==
    /\ pc[t] = "notify" /\ phase[conn[t]] # "freed"
    /\ pollout' = [pollout EXCEPT ![conn[t]] = TRUE]
    /\ AfterPush(t)
    /\ UNCHANGED <<connVars, queueVars, tableVars, partial, lwsVars, handles,
                   calls, histVars, fault>>

\* ws_conn_release
Release(t) ==
    /\ pc[t] = "release" /\ phase[conn[t]] # "freed"
    /\ ws_mutex = None
    /\ inflight' = [inflight EXCEPT ![conn[t]] = @ - 1]
    /\ Return(t)
    /\ UNCHANGED <<phase, endpoint, send_mutex, send_mutex_ready, queueVars,
                   tableVars, pollVars, lwsVars, handles, calls, histVars,
                   fault>>

\* lws_close_reason records what a close frame would say.  It closes nothing:
\* the connection stays open, listed and served after papago_ws_close.
CloseReason(t) ==
    /\ pc[t] = "close" /\ phase[conn[t]] # "freed"
    /\ Return(t)
    /\ UNCHANGED <<connVars, queueVars, tableVars, pollVars, lwsVars, handles,
                   calls, histVars, fault>>

BroadcastLock(t) ==
    /\ pc[t] = "lock" /\ ws_mutex = None
    /\ ws_mutex' = t
    /\ CallTo(t, "next")
    /\ UNCHANGED <<connVars, queueVars, ws_connections, pollVars, lwsVars,
                   handles, calls, histVars, fault>>

\* Mutant of BroadcastVisit: the loop does not move on.
BroadcastVisitsAgain(t) ==
    /\ pc[t] = "next" /\ idx[t] <= Len(ws_connections)
    /\ conn' = [conn EXCEPT ![t] = ws_connections[idx[t]]]
    /\ pc' = [pc EXCEPT ![t] = "push"]
    /\ UNCHANGED <<op, msg, idx, connVars, queueVars, tableVars, pollVars,
                   lwsVars, handles, calls, histVars, fault>>

\* The loop over the table, and the unlock after it.
BroadcastVisit(t) ==
    /\ pc[t] = "next" /\ idx[t] <= Len(ws_connections)
    /\ conn' = [conn EXCEPT ![t] = ws_connections[idx[t]]]
    /\ idx' = [idx EXCEPT ![t] = @ + 1]
    /\ pc' = [pc EXCEPT ![t] = "push"]
    /\ UNCHANGED <<op, msg, connVars, queueVars, tableVars, pollVars, lwsVars,
                   handles, calls, histVars, fault>>

BroadcastUnlock(t) ==
    /\ pc[t] = "next" /\ idx[t] > Len(ws_connections)
    /\ ws_mutex' = None
    /\ Return(t)
    /\ UNCHANGED <<connVars, queueVars, ws_connections, pollVars, lwsVars,
                   handles, calls, histVars, fault>>

-----------------------------------------------------------------------------
CallStep(t) ==
    \/ UseAfterFree(t) \/ LockDestroyed(t)
    \/ Acquire(t) \/ AcquireRefused(t)
    \/ PushNoMemory(t) \/ PushFull(t) \/ Push(t)
    \/ Notify(t) \/ Release(t) \/ CloseReason(t)
    \/ BroadcastLock(t) \/ BroadcastVisit(t) \/ BroadcastUnlock(t)

\* What the event loop does inside one callback of lws.
LwsStep ==
    \/ Register \/ WriteTaken(FALSE) \/ WriteTaken(TRUE) \/ WriteFailed
    \/ HasMore \/ ClosedRemove \/ ClosedDrain \/ ClosedDestroy \/ Free
    \/ CallbackReturn

\* What lws finds to do for connection c when it polls.
LwsEvent(c) ==
    \/ EstablishedRefused(c)
    \/ \E m \in {"none", "destroyed"} : EstablishedInitFailed(c, m)
    \/ EstablishedMatched(c)
    \/ WriteableBusy(c) \/ WriteableEmpty(c) \/ WriteablePop(c) \/ Flush(c)
    \/ Receive(c) \/ Disconnect(c)

ApiCall(t) ==
    \/ \E c \in Conns, m \in Msgs :
           papago_ws_send(t, c, m) \/ papago_ws_send_binary(t, c, m)
    \/ \E m \in Msgs : papago_ws_broadcast(t, m)
    \/ \E c \in Conns : papago_ws_close(t, c)

\* lws_service returns after its timeout with nothing to do: not a deadlock.
PollTimeout ==
    /\ lws_pc = "service"
    /\ \A t \in Threads : pc[t] = "idle"
    /\ UNCHANGED vars

Step ==
    \/ \E c \in Conns : LwsEvent(c)
    \/ LwsStep
    \/ \E t \in Threads : ApiCall(t) \/ CallStep(t)
    \/ PollTimeout

\* Nothing is said of a run after undefined behaviour.
Undefined == fault # "none" /\ UNCHANGED vars

Next == (fault = "none" /\ Step) \/ Undefined

Spec == Init /\ [][Next]_vars

\* Fairness.  Every thread is scheduled, so a call or callback that can take
\* its next step takes it.  lws_service looks at every descriptor each time it
\* polls, so a connection that is writeable again and again is served (strong,
\* since the loop is busy with other connections in between); the peer is
\* assumed to go on reading, so lws can flush what it kept.
Fairness ==
    /\ \A t \in Threads : WF_vars(fault = "none" /\ CallStep(t))
    /\ WF_vars(fault = "none" /\ LwsStep)
    /\ \A c \in Conns : SF_vars(fault = "none" /\ WriteablePop(c))
    /\ \A c \in Conns : SF_vars(fault = "none" /\ Flush(c))

FairSpec == Spec /\ Fairness

-----------------------------------------------------------------------------
LwsPcs == Callbacks \cup {"service", "register", "write", "has_more", "closed",
                          "drain", "destroy", "free"}

CallPcs == {"idle", "acquire", "push", "notify", "release", "lock", "next",
            "close"}

ConnTypes ==
    /\ phase \in [Conns -> {"absent", "open", "closing", "freed"}]
    /\ endpoint \in [Conns -> BOOLEAN]
    /\ send_mutex \in [Conns -> {"none", "ready", "destroyed"}]
    /\ send_mutex_ready \in [Conns -> BOOLEAN]
    /\ inflight \in [Conns -> Int]

QueueTypes ==
    /\ queue \in [Conns -> Seq(Msgs)]
    /\ queue_msg_count \in [Conns -> Int]
    /\ queue_byte_count \in [Conns -> Int]
    /\ accepted \in [Conns -> Seq(Msgs)]
    /\ wire \in [Conns -> Seq(Msgs)]

LwsTypes ==
    /\ lws_pc \in LwsPcs
    /\ lws_conn \in Conns \cup {None}
    /\ lws_msg \in Msgs \cup {None}
    /\ pollout \in [Conns -> BOOLEAN]
    /\ partial \in [Conns -> BOOLEAN]

CallTypes ==
    /\ op \in [Threads -> {"none", "send", "binary", "broadcast", "close"}]
    /\ pc \in [Threads -> CallPcs]
    /\ conn \in [Threads -> Conns \cup {None}]
    /\ msg \in [Threads -> Msgs \cup {None}]
    /\ idx \in [Threads -> Nat]

\* Every variable has the type of the C object it stands for.
TypeOK ==
    /\ ConnTypes /\ QueueTypes /\ LwsTypes /\ CallTypes
    /\ ws_connections \in Seq(Conns)
    /\ ws_mutex \in Threads \cup {None}
    /\ handles \subseteq Conns
    /\ calls \in 0 .. MaxCalls
    /\ fault \in {"none", "use after free", "lock of destroyed mutex"}

Registered == {ws_connections[i] : i \in 1 .. Len(ws_connections)}

\* What broadcast finds in the table it may use: every entry is an open
\* connection whose mutex was created and not destroyed, listed once, and the
\* table never outgrows its array.
RegistrySafe ==
    /\ Len(ws_connections) <= MAX_WS_CONNECTIONS
    /\ \A c \in Registered :
           phase[c] = "open" /\ endpoint[c] /\ send_mutex[c] = "ready"
    /\ \A i, j \in 1 .. Len(ws_connections) :
           ws_connections[i] = ws_connections[j] => i = j

\* Nothing locks a destroyed send_mutex or touches a freed connection.  The
\* application is taken to leave a connection alone from on_close on: on_close
\* itself runs after send_mutex was destroyed, so a send there would fault.
NoFault == fault = "none"

\* Until CLOSED drains it, a queue's message counter is the number of messages
\* in it and does not pass the limit, whatever pushes and pops interleave.
QueueCounted ==
    \A c \in Conns : phase[c] = "open" =>
        /\ queue_msg_count[c] = Len(queue[c])
        /\ queue_msg_count[c] <= WS_MAX_QUEUE_MSGS

\* The total length of the messages of a queue.
Bytes(q) ==
    LET sum[i \in 0 .. Len(q)] ==
            IF i = 0 THEN 0 ELSE sum[i - 1] + MsgLen[q[i]]
    IN  sum[Len(q)]

\* The same for the byte counter and the total length of the messages.
BytesCounted ==
    \A c \in Conns : phase[c] = "open" =>
        /\ queue_byte_count[c] = Bytes(queue[c])
        /\ queue_byte_count[c] <= WS_MAX_QUEUE_BYTES

\* The message WRITEABLE has popped for c and not yet written.
InHand(c) == IF lws_pc = "write" /\ lws_conn = c THEN <<lws_msg>> ELSE <<>>

\* The connection is being closed, or is about to be.
Doomed(c) ==
    \/ phase[c] # "open"
    \/ lws_conn = c /\ lws_pc \in {"on_error", "closed"}

\* Every message a send accepted for an open connection is, in the order of
\* acceptance and once, written, in hand or still queued.
Fifo ==
    \A c \in Conns :
        /\ ~Doomed(c) => accepted[c] = wire[c] \o InHand(c) \o queue[c]
        /\ IsPrefix(wire[c], accepted[c])

\* A queue that is not empty has a WRITEABLE coming: one was asked for, or a
\* sender is about to ask, or the event loop is in the callback that looks at
\* the queue again before it returns.
NoLostWakeup ==
    \A c \in Conns : (~Doomed(c) /\ queue[c] # <<>>) =>
        \/ pollout[c]
        \/ \E t \in Threads : pc[t] = "notify" /\ conn[t] = c
        \/ lws_conn = c /\ lws_pc \in {"write", "has_more"}

\* A freed connection leaves no queued message behind.
NoLeak == \A c \in Conns : phase[c] = "freed" => queue[c] = <<>>

\* Every accepted message is written, unless its connection is closed.
Delivery ==
    \A c \in Conns, n \in 1 .. MaxCalls :
        Len(accepted[c]) >= n ~> (Len(wire[c]) >= n \/ Doomed(c))

\* Nobody waits for ever on ws_mutex: every API call returns, and every close
\* ends with the connection freed, CLOSED waiting only as long as a broadcast.
NobodyStuck ==
    /\ \A t \in Threads : pc[t] # "idle" ~> pc[t] = "idle"
    /\ \A c \in Conns :
          (lws_conn = c /\ lws_pc = "closed") ~> (phase[c] = "freed")

-----------------------------------------------------------------------------
(* The parts of the inductive invariant the proofs rest on.                *)

\* A call in progress has its operation, message and connection.
CallShape ==
    \A t \in Threads :
        /\ pc[t] = "idle" <=> op[t] = "none"
        /\ pc[t] \notin {"idle", "close"} => msg[t] \in Msgs
        /\ pc[t] \in {"acquire", "push", "notify", "release", "close"} =>
               conn[t] \in Conns /\ phase[conn[t]] # "absent"
        /\ pc[t] \in {"acquire", "release"} => op[t] = "send"
        /\ pc[t] \in {"lock", "next"} => op[t] = "broadcast"
        /\ pc[t] = "close" <=> op[t] = "close"
        /\ op[t] = "broadcast" => idx[t] >= 1

\* Where the event loop is says how far its connection has come.
LwsShape ==
    LET c == lws_conn IN
    /\ lws_pc # "service" => c \in Conns
    /\ lws_pc = "write" => lws_msg \in Msgs
    /\ lws_pc = "register" =>
           /\ phase[c] = "open" /\ endpoint[c]
           /\ send_mutex[c] = "ready" /\ ~send_mutex_ready[c]
    /\ lws_pc \in {"drain", "destroy", "on_close", "free"} =>
           phase[c] = "closing"
    /\ lws_pc \in {"write", "has_more", "closed", "on_connect", "on_message",
                   "on_error"} => phase[c] = "open"

\* ws_mutex is held by exactly the thread that is inside the broadcast loop.
LockHeld ==
    \A t \in Threads :
        ws_mutex = t <=> /\ op[t] = "broadcast"
                         /\ pc[t] \in {"next", "push", "notify"}

\* Registered and handed-out connections became live; absent ones did not.
Lived ==
    /\ \A c \in Registered : send_mutex_ready[c]
    /\ \A c \in handles : phase[c] # "absent"
    /\ \A c \in Conns : phase[c] = "absent" =>
           queue[c] = <<>> /\ queue_msg_count[c] = 0 /\ ~send_mutex_ready[c]
    /\ \A c \in Conns : partial[c] => pollout[c]

\* A handle the application still has is usable, unless CLOSED is at it.
HandlesUsable ==
    \A c \in handles :
        /\ send_mutex[c] = "ready"
        /\ phase[c] = "open" \/ (lws_conn = c /\ lws_pc \in {"drain", "destroy"})

\* Without direct senders, a call that reaches for a connection either runs on
\* the event loop inside a callback or holds ws_mutex over a listed connection.
CallsUsable ==
    \A t \in Threads :
        /\ op[t] \in {"send", "binary", "close"} =>
               t = Lws /\ conn[t] \in handles
        /\ (t = Lws /\ pc[t] # "idle") => InCallback
        /\ (op[t] = "broadcast" /\ pc[t] \in {"push", "notify"}) =>
               conn[t] \in Registered

-----------------------------------------------------------------------------
\* A connection's life as its senders see it.
Status(c) ==
    IF ~send_mutex_ready[c] THEN "absent"
    ELSE IF send_mutex[c] = "destroyed" THEN "gone"
    ELSE IF Doomed(c) THEN "closing" ELSE "open"

Channel == INSTANCE WsChannel WITH
    Capacity <- WS_MAX_QUEUE_MSGS + 1,      \* the queue and the one in hand
    status <- [c \in Conns |-> Status(c)],
    delivered <- wire

\* The queues, locks and callbacks together implement a bounded FIFO channel
\* per connection that nothing is delivered on after its close has begun.
ChannelSpec == Channel!Spec
=============================================================================
