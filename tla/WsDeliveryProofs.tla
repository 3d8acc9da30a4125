-------------------------- MODULE WsDeliveryProofs --------------------------
(***************************************************************************)
(* What WsServer does with messages, over the invariants of                *)
(* WsServerProofs: no wakeup of the event loop is lost; a server whose     *)
(* connection handles are used by callbacks only never touches a dead      *)
(* connection and leaks no message; and, whoever uses the handles, the     *)
(* queues, locks and callbacks implement the bounded FIFO channel of       *)
(* WsChannel.                                                              *)
(*                                                                         *)
(* The refinement needs that what was written is a prefix of what was      *)
(* accepted (Fifo), that a connection not live has been given no message   *)
(* (Lively), and that what is accepted and not written stays within the    *)
(* limit also after CLOSED, which empties the queue and leaves its counter *)
(* as it is (Owed).                                                        *)
(***************************************************************************)
EXTENDS WsServerProofs, SequenceTheorems

USE DEF Threads, connVars, queueVars, tableVars, pollVars, lwsVars, callVars,
        histVars

\* What makes a connection's queue sure to be looked at.
Awaited(c) ==
    \/ pollout[c]
    \/ \E t \in Threads : pc[t] = "notify" /\ conn[t] = c
    \/ lws_conn = c /\ lws_pc \in {"write", "has_more"}

\* A step of the event loop keeps a waiting queue awaited.
LEMMA WakeupLws ==
    ASSUME ConstantsAssumption, TableInv, NoLostWakeup,
           NEW d \in Conns, ~Doomed(d)', queue'[d] # <<>>,
           LwsStep \/ \E c \in Conns : LwsEvent(c)
    PROVE  Awaited(d)'
<1>t. /\ queue \in [Conns -> Seq(Msgs)]
      /\ pollout \in [Conns -> BOOLEAN] /\ partial \in [Conns -> BOOLEAN]
      /\ phase \in [Conns -> {"absent", "open", "closing", "freed"}]
  BY DEF TableInv, TypeOK, ConnTypes, QueueTypes, LwsTypes
<1>n. None \notin Conns
  BY DEF ConstantsAssumption
<1>c. UNCHANGED callVars
  BY LwsFrame DEF TableInv
<1>0. ~Doomed(d) /\ queue[d] # <<>> => Awaited(d)
  BY DEF NoLostWakeup, Awaited
<1>1. ASSUME NEW c \in Conns, LwsEvent(c) PROVE Awaited(d)'
  <2>1. CASE EstablishedRefused(c) \/ EstablishedMatched(c)
             \/ \E m \in {"none", "destroyed"} : EstablishedInitFailed(c, m)
    <3>1. UNCHANGED <<queue, pollout>> /\ phase[c] = "absent"
          /\ lws_pc = "service" /\ phase' = [phase EXCEPT ![c] = "open"]
      BY <2>1, Zenon DEF EstablishedRefused, EstablishedMatched,
                  EstablishedInitFailed
    <3>2. d # c
      BY <3>1 DEF TableInv, Lived
    <3>3. ~Doomed(d)
      BY <1>t, <3>1, <3>2 DEF Doomed
    <3> QED BY <1>0, <1>c, <3>1, <3>3 DEF Awaited
  <2>2. CASE WriteableBusy(c) \/ WriteableEmpty(c) \/ Flush(c)
    <3>1. ~Doomed(d) /\ queue[d] # <<>>
      BY <2>2 DEF WriteableBusy, WriteableEmpty, Flush, Doomed, vars
    <3> QED BY <1>t, <1>0, <1>c, <2>2, <3>1
            DEF WriteableBusy, WriteableEmpty, Flush, Awaited, vars
  <2>3. CASE WriteablePop(c)
    <3>1. CASE d = c
      BY <2>3, <3>1 DEF WriteablePop, LwsTo, Awaited
    <3>2. CASE d # c
      <4>1. queue'[d] = queue[d] /\ pollout'[d] = pollout[d]
        BY <1>t, <2>3, <3>2 DEF WriteablePop
      <4>2. ~Doomed(d)
        BY <2>3 DEF WriteablePop, Doomed
      <4> QED BY <1>0, <1>c, <2>3, <4>1, <4>2 DEF WriteablePop, Awaited
    <3> QED BY <3>1, <3>2
  <2>4. CASE Receive(c) \/ Disconnect(c)
    <3>1. ~Doomed(d)
      BY <2>4 DEF Receive, Disconnect, Doomed
    <3> QED BY <1>0, <1>c, <2>4, <3>1 DEF Receive, Disconnect, Awaited
  <2> QED BY <1>1, <2>1, <2>2, <2>3, <2>4 DEF LwsEvent
<1>2. ASSUME LwsStep PROVE Awaited(d)'
  <2>0. lws_pc # "service" => lws_conn \in Conns
    BY DEF TableInv, LwsShape
  <2>1. ASSUME NEW b \in BOOLEAN, WriteTaken(b) PROVE Awaited(d)'
    <3>1. ~Doomed(d) /\ queue[d] # <<>> /\ (pollout[d] => pollout'[d])
      BY <1>t, <2>0, <2>1 DEF WriteTaken, Doomed, LwsTo
    <3> QED BY <1>0, <1>c, <2>1, <3>1 DEF WriteTaken, Awaited, LwsTo
  <2>2. CASE HasMore
    <3>1. ~Doomed(d) /\ queue[d] # <<>>
      BY <2>2 DEF HasMore, Doomed
    <3>2. CASE d = lws_conn
      <4>1. partial[d] => pollout[d]
        BY DEF TableInv, Lived
      <4> QED BY <1>t, <2>2, <3>1, <3>2, <4>1 DEF HasMore, Awaited
    <3>3. CASE d # lws_conn
      BY <1>t, <1>0, <1>c, <2>0, <2>2, <3>1, <3>3 DEF HasMore, Awaited
    <3> QED BY <3>2, <3>3
  <2>3. CASE ClosedDrain
    <3>1. d # lws_conn
      BY <1>t, <2>3 DEF ClosedDrain, Doomed, TableInv, LwsShape
    <3>2. queue'[d] = queue[d] /\ ~Doomed(d)
      BY <1>t, <2>0, <2>3, <3>1 DEF ClosedDrain, Doomed
    <3> QED BY <1>0, <1>c, <2>3, <3>1, <3>2 DEF ClosedDrain, Awaited
  <2>4. CASE ClosedRemove \/ Free
    <3>1. d # lws_conn
      BY <1>t, <2>0, <2>4 DEF ClosedRemove, Free, Doomed
    <3>2. ~Doomed(d) /\ queue[d] # <<>> /\ pollout'[d] = pollout[d]
      BY <1>t, <2>0, <2>4, <3>1 DEF ClosedRemove, Free, Doomed
    <3> QED BY <1>0, <1>c, <2>4, <3>1, <3>2 DEF ClosedRemove, Free, Awaited
  <2>5. CASE Register \/ ClosedDestroy
    <3>1. ~Doomed(d) /\ queue[d] # <<>>
      BY <2>5 DEF Register, ClosedDestroy, Doomed
    <3> QED BY <1>0, <1>c, <2>5, <3>1 DEF Register, ClosedDestroy, Awaited
  <2>6. CASE WriteFailed
    <3>1. d # lws_conn
      BY <2>6 DEF WriteFailed, LwsTo, Doomed
    <3>2. ~Doomed(d) /\ queue[d] # <<>>
      BY <2>6, <3>1 DEF WriteFailed, LwsTo, Doomed
    <3> QED BY <1>0, <1>c, <2>6, <3>1, <3>2 DEF WriteFailed, Awaited
  <2>7. CASE CallbackReturn
    <3>1. ~Doomed(d)
      BY <1>t, <2>0, <2>7 DEF CallbackReturn, LwsTo, LwsReturn, Doomed,
                              InCallback, Callbacks
    <3> QED BY <1>0, <1>c, <2>7, <3>1
            DEF CallbackReturn, Awaited, InCallback, Callbacks
  <2> QED BY <1>2, <2>1, <2>2, <2>3, <2>4, <2>5, <2>6, <2>7 DEF LwsStep
<1> QED BY <1>1, <1>2

\* A step of a call keeps a waiting queue awaited.
LEMMA WakeupCall ==
    ASSUME ConstantsAssumption, TableInv, NoLostWakeup,
           NEW d \in Conns, ~Doomed(d)', queue'[d] # <<>>,
           NEW t \in Threads, ApiCall(t) \/ CallStep(t)
    PROVE  Awaited(d)'
<1>t. /\ queue \in [Conns -> Seq(Msgs)] /\ pollout \in [Conns -> BOOLEAN]
      /\ CallTypes
  BY DEF TableInv, TypeOK, QueueTypes, LwsTypes
<1>d. ~Doomed(d) /\ UNCHANGED lwsVars
  BY CallFrame DEF Doomed
<1>0. queue[d] # <<>> => Awaited(d)
  BY <1>d DEF NoLostWakeup, Awaited
<1>1. CASE Push(t)
  <2>1. CASE d = conn[t]
    BY <1>t, <1>1, <2>1 DEF Push, CallTo, Awaited, CallTypes
  <2>2. CASE d # conn[t]
    <3>1. queue'[d] = queue[d]
      BY <1>t, <1>1, <2>2 DEF Push
    <3> QED BY <1>t, <1>d, <1>0, <1>1, <2>2, <3>1
            DEF Push, CallTo, Awaited, CallTypes
  <2> QED BY <2>1, <2>2
<1>2. CASE Notify(t)
  <2>1. conn[t] \in Conns
    BY <1>2 DEF Notify, TableInv, CallShape
  <2>2. CASE d = conn[t]
    BY <1>t, <1>2, <2>1, <2>2 DEF Notify, Awaited
  <2>3. CASE d # conn[t]
    BY <1>t, <1>d, <1>0, <1>2, <2>1, <2>3
       DEF Notify, AfterPush, CallTo, Return, Awaited, CallTypes
  <2> QED BY <2>2, <2>3
<1>3. CASE ~Push(t) /\ ~Notify(t)
  <2>1. UNCHANGED <<queue, pollout>>
    BY <1>3, Zenon DEF ApiCall, papago_ws_send, papago_ws_send_binary,
       papago_ws_broadcast, papago_ws_close, Begin, CallStep, UseAfterFree,
       LockDestroyed, CloseReason, Faults, Acquire, AcquireRefused,
       PushNoMemory, PushFull, Release, BroadcastLock, BroadcastVisit,
       BroadcastUnlock
  <2>2. ASSUME NEW u \in Threads, pc[u] = "notify"
        PROVE  pc'[u] = "notify" /\ conn'[u] = conn[u]
    <3>1. CASE ApiCall(t)
      BY <1>t, <2>2, <3>1 DEF ApiCall, papago_ws_send, papago_ws_send_binary,
         papago_ws_broadcast, papago_ws_close, Begin, MayCall, CallTypes
    <3>2. CASE CallStep(t)
      BY <1>t, <1>3, <2>2, <3>2 DEF CallStep, UseAfterFree, LockDestroyed,
         CloseReason, Faults, Acquire, AcquireRefused, PushNoMemory, PushFull,
         AfterPush, Release, BroadcastLock, BroadcastVisit, BroadcastUnlock,
         CallTo, Return, CallTypes
    <3> QED BY <3>1, <3>2
  <2> QED BY <1>d, <1>0, <2>1, <2>2 DEF Awaited
<1> QED BY <1>1, <1>2, <1>3

\* A queued message on an open connection always has a WRITEABLE callback
\* coming: asked for, about to be asked for, or just running.
THEOREM WakeupIsNeverLost == Spec => []NoLostWakeup
<1>1. Init => NoLostWakeup
  BY DEF Init, NoLostWakeup
<1>2. ASSUME ConstantsAssumption, TableInv, NoLostWakeup, [Next]_vars
      PROVE  NoLostWakeup'
  <2>1. CASE UNCHANGED vars
    BY <1>2, <2>1 DEF vars, NoLostWakeup, Doomed
  <2>2. CASE ~UNCHANGED vars
    <3>1. \/ LwsStep \/ \E c \in Conns : LwsEvent(c)
          \/ \E t \in Threads : ApiCall(t) \/ CallStep(t)
      BY <1>2, <2>2 DEF Next, Step, Undefined, PollTimeout
    <3>2. \A d \in Conns : ~Doomed(d)' /\ queue'[d] # <<>> => Awaited(d)'
      BY <1>2, <3>1, WakeupLws, WakeupCall
    <3> QED BY <3>2 DEF NoLostWakeup, Awaited
  <2> QED BY <2>1, <2>2
<1>3. TableInv /\ NoLostWakeup /\ [Next]_vars => NoLostWakeup'
  BY <1>2, ConstantsAssumption
<1> QED BY <1>1, <1>3, TableInvariant, PTL DEF Spec

-----------------------------------------------------------------------------
(* Handles used by callbacks only.                                         *)

\* HandlesUsable is kept by every step.
LEMMA HandlesStep == ASSUME ConstantsAssumption, TableInv, HandlesUsable,
                            [Next]_vars
                     PROVE  HandlesUsable'
<1>t. /\ phase \in [Conns -> {"absent", "open", "closing", "freed"}]
      /\ send_mutex \in [Conns -> {"none", "ready", "destroyed"}]
      /\ handles \subseteq Conns
  BY DEF TableInv, TypeOK, ConnTypes
<1>p. \A d \in handles : phase[d] # "absent"
  BY DEF TableInv, Lived
<1>1. ASSUME NEW c \in Conns, LwsEvent(c) PROVE HandlesUsable'
  <2>1. lws_pc = "service" /\ handles' = handles
    BY <1>1, Zenon DEF LwsEvent, EstablishedRefused, EstablishedInitFailed,
       EstablishedMatched, WriteableBusy, WriteableEmpty, WriteablePop, Flush,
       Receive, Disconnect, vars
  <2>2. \A d \in handles : phase[d] = "open" /\ send_mutex[d] = "ready"
    BY <2>1 DEF HandlesUsable
  <2>3. \A d \in handles : phase'[d] = "open" /\ send_mutex'[d] = "ready"
    BY <1>t, <1>p, <1>1, <2>2 DEF LwsEvent, EstablishedRefused,
       EstablishedInitFailed, EstablishedMatched, WriteableBusy,
       WriteableEmpty, WriteablePop, Flush, Receive, Disconnect, vars
  <2> QED BY <2>1, <2>3 DEF HandlesUsable
<1>2. ASSUME LwsStep PROVE HandlesUsable'
  <2>0. lws_pc # "service" => lws_conn \in Conns
    BY DEF TableInv, LwsShape
  <2>1. CASE Register
    BY <1>t, <2>0, <2>1 DEF Register, HandlesUsable, TableInv, LwsShape
  <2>2. CASE ClosedRemove
    BY <1>t, <2>0, <2>2 DEF ClosedRemove, HandlesUsable, LwsTo
  <2>3. CASE ClosedDrain
    BY <2>3 DEF ClosedDrain, HandlesUsable, LwsTo
  <2>4. CASE ClosedDestroy
    BY <1>t, <2>0, <2>4 DEF ClosedDestroy, HandlesUsable
  <2>5. CASE Free
    BY <1>t, <2>0, <2>5 DEF Free, HandlesUsable, TableInv, LwsShape
  <2>6. CASE WriteTaken(TRUE) \/ WriteTaken(FALSE) \/ WriteFailed \/ HasMore
    BY <2>6 DEF WriteTaken, WriteFailed, HasMore, HandlesUsable
  <2>7. CASE CallbackReturn
    BY <2>7 DEF CallbackReturn, InCallback, Callbacks, HandlesUsable
  <2> QED BY <1>2, <2>1, <2>2, <2>3, <2>4, <2>5, <2>6, <2>7 DEF LwsStep
<1>3. CASE UNCHANGED <<lwsVars, phase, send_mutex, handles>>
  BY <1>3 DEF HandlesUsable
<1>4. UNCHANGED vars => UNCHANGED <<lwsVars, phase, send_mutex, handles>>
  BY DEF vars
<1> QED BY <1>1, <1>2, <1>3, <1>4, CallFrame
        DEF Next, Step, Undefined, PollTimeout

\* CallsUsable is kept by every step when no application thread sends
\* directly.
LEMMA CallsStep == ASSUME ConstantsAssumption, DirectSenders = {}, TableInv,
                          CallsUsable, [Next]_vars
                   PROVE  CallsUsable'
<1>c. CallTypes /\ ws_connections \in Seq(Conns)
  BY DEF TableInv, TypeOK
<1>s. CallShape /\ LockHeld
  BY DEF TableInv
<1>n. None \notin Threads /\ Lws \in Threads
  BY DEF ConstantsAssumption
<1>1. CASE LwsStep \/ \E c \in Conns : LwsEvent(c)
  <2>1. UNCHANGED callVars
    BY <1>1, LwsFrame DEF TableInv
  <2>2. pc[Lws] # "idle" => InCallback'
    <3>1. ASSUME pc[Lws] # "idle" PROVE InCallback
      BY <1>n, <3>1 DEF CallsUsable
    <3>2. ASSUME InCallback, pc[Lws] # "idle" PROVE UNCHANGED lws_pc
      <4>1. lws_pc \in Callbacks
        BY <3>2 DEF InCallback
      <4>2. ASSUME NEW c \in Conns, LwsEvent(c) PROVE lws_pc = "service"
        BY <4>2, Zenon DEF LwsEvent, EstablishedRefused,
           EstablishedInitFailed, EstablishedMatched, WriteableBusy,
           WriteableEmpty, WriteablePop, Flush, Receive, Disconnect
      <4>3. ASSUME LwsStep PROVE lws_pc \notin Callbacks
        BY <3>2, <4>3 DEF LwsStep, Register, WriteTaken, WriteFailed, HasMore,
           ClosedRemove, ClosedDrain, ClosedDestroy, Free, CallbackReturn,
           Callbacks
      <4> QED BY <1>1, <4>1, <4>2, <4>3 DEF Callbacks
    <3> QED BY <3>1, <3>2 DEF InCallback
  <2>3. ASSUME op[Lws] \in {"send", "binary", "close"}
        PROVE  handles \subseteq handles'
    <3>1. pc[Lws] # "idle"
      BY <1>n, <1>s, <2>3 DEF CallShape
    <3>2. ~ClosedDestroy
      BY <1>n, <3>1 DEF CallsUsable, InCallback, Callbacks, ClosedDestroy
    <3>3. ASSUME NEW c \in Conns, LwsEvent(c) PROVE handles' = handles
      BY <3>3, Zenon DEF LwsEvent, EstablishedRefused, EstablishedInitFailed,
         EstablishedMatched, WriteableBusy, WriteableEmpty, WriteablePop,
         Flush, Receive, Disconnect, vars
    <3>4. ASSUME LwsStep PROVE handles \subseteq handles'
      BY <3>2, <3>4 DEF LwsStep, Register, WriteTaken, WriteFailed,
         HasMore, ClosedRemove, ClosedDrain, Free, CallbackReturn
    <3> QED BY <1>1, <3>3, <3>4
  <2>4. ASSUME NEW t \in Threads, op[t] = "broadcast",
               pc[t] \in {"push", "notify"}
        PROVE  conn[t] \in Registered'
    <3>1. ws_mutex = t /\ conn[t] \in Registered
      BY <1>s, <2>4 DEF LockHeld, CallsUsable
    <3>2. UNCHANGED ws_connections
      <4>1. ~Register
        BY <1>n, <3>1 DEF Register
      <4>2. CASE ClosedRemove
        BY <1>n, <3>1, <4>2 DEF ClosedRemove
      <4>3. CASE ~ClosedRemove
        BY <4>1, <4>3, TableFrame
      <4> QED BY <4>2, <4>3
    <3> QED BY <3>1, <3>2 DEF Registered
  <2> QED BY <1>n, <2>1, <2>2, <2>3, <2>4 DEF CallsUsable
<1>2. ASSUME NEW t \in Threads, ApiCall(t) PROVE CallsUsable'
  <2>1. UNCHANGED <<lws_pc, handles, ws_connections>>
    BY <1>2, CallFrame
  <2>2. ASSUME NEW o \in {"send", "binary"}, NEW p \in {"acquire", "push"},
               NEW c \in handles, NEW m \in Msgs, Begin(t, o, p, c, m),
               t = Lws
        PROVE  CallsUsable'
    BY <1>c, <2>1, <2>2
       DEF Begin, MayCall, CallsUsable, CallTypes, InCallback, Registered
  <2>3. ASSUME NEW m \in Msgs, Begin(t, "broadcast", "lock", None, m)
        PROVE  CallsUsable'
    BY <1>c, <2>1, <2>3
       DEF Begin, MayCall, CallsUsable, CallTypes, InCallback, Registered
  <2>4. ASSUME NEW c \in handles, Begin(t, "close", "close", c, None), t = Lws
        PROVE  CallsUsable'
    BY <1>c, <2>1, <2>4
       DEF Begin, MayCall, CallsUsable, CallTypes, InCallback, Registered
  <2> QED BY <1>2, <2>2, <2>3, <2>4 DEF ApiCall, MaySend, papago_ws_send,
             papago_ws_send_binary, papago_ws_broadcast, papago_ws_close
<1>3. ASSUME NEW t \in Threads, CallStep(t) PROVE CallsUsable'
  <2>0. UNCHANGED <<lws_pc, handles, ws_connections>>
    BY <1>3, CallFrame
  <2> USE DEF CallsUsable, CallTypes, InCallback, Registered
  <2>1. CASE Return(t)
    BY <1>c, <2>0, <2>1 DEF Return
  <2>2. ASSUME NEW p \in {"push", "notify", "release", "next"}, CallTo(t, p),
               pc[t] # "idle",
               (op[t] = "broadcast" /\ p \in {"push", "notify"})
                   => pc[t] = "push"
        PROVE  CallsUsable'
    <3>1. ASSUME NEW u \in Threads
          PROVE  /\ op'[u] = op[u] /\ conn'[u] = conn[u]
                 /\ pc'[u] # "idle" => pc[u] # "idle"
                 /\ (op[u] = "broadcast" /\ pc'[u] \in {"push", "notify"})
                        => pc[u] \in {"push", "notify"}
      BY <1>c, <2>2 DEF CallTo
    <3> QED BY <2>0, <3>1
  <2>3. CASE BroadcastVisit(t)
    <3>1. idx[t] \in 1 .. Len(ws_connections)
      <4>1. idx[t] \in Nat /\ idx[t] >= 1 /\ idx[t] <= Len(ws_connections)
        BY <1>c, <1>s, <2>3 DEF BroadcastVisit, CallShape
      <4> QED BY <1>c, <4>1
    <3>2. op[t] = "broadcast"
      BY <1>s, <2>3 DEF BroadcastVisit, CallShape
    <3> QED BY <1>c, <2>0, <2>3, <3>1, <3>2 DEF BroadcastVisit
  <2>4. CASE UseAfterFree(t) \/ LockDestroyed(t)
    <3>1. UNCHANGED <<op, pc, conn>>
      BY <2>4, Zenon DEF UseAfterFree, LockDestroyed, Faults
    <3> QED BY <2>0, <3>1
  <2>5. CASE AcquireRefused(t) \/ Release(t) \/ BroadcastUnlock(t)
              \/ CloseReason(t)
    BY <2>1, <2>5 DEF AcquireRefused, Release, BroadcastUnlock, CloseReason
  <2>6. CASE Acquire(t) \/ Push(t) \/ BroadcastLock(t)
    <3>1. CASE Acquire(t)
      BY <1>s, <2>2, <3>1 DEF Acquire, CallShape
    <3>2. CASE Push(t)
      BY <2>2, <3>2 DEF Push
    <3>3. CASE BroadcastLock(t)
      BY <2>2, <3>3 DEF BroadcastLock
    <3> QED BY <2>6, <3>1, <3>2, <3>3
  <2>7. CASE PushNoMemory(t) \/ PushFull(t) \/ Notify(t)
    <3>1. AfterPush(t) /\ pc[t] # "idle"
      BY <2>7 DEF PushNoMemory, PushFull, Notify
    <3>2. CASE CallTo(t, "release") /\ op[t] = "send"
      BY <2>2, <3>1, <3>2
    <3>3. CASE CallTo(t, "next")
      BY <2>2, <3>1, <3>3
    <3> QED BY <2>1, <3>1, <3>2, <3>3 DEF AfterPush
  <2> QED BY <1>3, <2>3, <2>4, <2>5, <2>6, <2>7 DEF CallStep
<1>4. CASE UNCHANGED vars
  BY <1>4 DEF vars, CallsUsable, InCallback, Registered
<1> QED BY <1>1, <1>2, <1>3, <1>4 DEF Next, Step, Undefined, PollTimeout

LoopInv == HandlesUsable /\ CallsUsable

\* A connection a call reaches for is open and its mutex usable.
LEMMA ReachUsable ==
    ASSUME TableInv, LoopInv, NEW t \in Threads,
           pc[t] \in {"acquire", "push", "notify", "release", "close"}
    PROVE  phase[conn[t]] = "open" /\ send_mutex[conn[t]] = "ready"
<1>1. CASE op[t] \in {"send", "binary", "close"}
  <2>1. conn[t] \in handles /\ lws_pc \in Callbacks
    BY <1>1 DEF LoopInv, CallsUsable, InCallback, TableInv, CallShape
  <2> QED BY <2>1 DEF LoopInv, HandlesUsable, Callbacks
<1>2. CASE op[t] = "broadcast"
  <2>1. conn[t] \in Registered
    BY <1>2 DEF LoopInv, CallsUsable, TableInv, CallShape
  <2> QED BY <2>1 DEF TableInv, RegistrySafe
<1>3. op[t] \in {"send", "binary", "broadcast", "close"}
  BY DEF TableInv, CallShape, TypeOK, CallTypes
<1> QED BY <1>1, <1>2, <1>3

\* Without direct senders, what a call reaches for is usable in every state.
LEMMA LoopInvariant == DirectSenders = {} => (Spec => []LoopInv)
<1> SUFFICES ASSUME DirectSenders = {} PROVE Spec => []LoopInv
  OBVIOUS
<1>1. Init => LoopInv
  <2>1. Init => HandlesUsable
    BY DEF Init, HandlesUsable
  <2>2. Init => CallsUsable
    BY DEF Init, CallsUsable
  <2> QED BY <2>1, <2>2 DEF LoopInv
<1>2. TableInv /\ LoopInv /\ [Next]_vars => LoopInv'
  BY ConstantsAssumption, HandlesStep, CallsStep DEF LoopInv
<1> QED BY <1>1, <1>2, TableInvariant, PTL DEF Spec

\* If application threads only broadcast, and handles are used by callbacks
\* alone, no step locks a destroyed mutex or reads a freed connection.
THEOREM LoopOnlyIsSafe == DirectSenders = {} => (Spec => []NoFault)
<1> SUFFICES ASSUME DirectSenders = {} PROVE Spec => []NoFault
  OBVIOUS
<1>1. Init => NoFault
  BY DEF Init, NoFault
<1>2. ASSUME TableInv, LoopInv, NoFault, [Next]_vars PROVE NoFault'
  <2>1. \A t \in Threads : ~UseAfterFree(t) /\ ~LockDestroyed(t)
    BY <1>2, ReachUsable DEF UseAfterFree, LockDestroyed
  <2>2. UNCHANGED fault
    <3>1. ASSUME NEW c \in Conns, LwsEvent(c) PROVE UNCHANGED fault
      BY <3>1, Zenon DEF LwsEvent, EstablishedRefused, EstablishedInitFailed,
         EstablishedMatched, WriteableBusy, WriteableEmpty, WriteablePop,
         Flush, Receive, Disconnect, vars
    <3>2. ASSUME LwsStep PROVE UNCHANGED fault
      BY <3>2, Zenon DEF LwsStep, Register, WriteTaken, WriteFailed, HasMore,
         ClosedRemove, ClosedDrain, ClosedDestroy, Free, CallbackReturn
    <3>3. ASSUME NEW t \in Threads, ApiCall(t) \/ CallStep(t)
          PROVE  UNCHANGED fault
      BY <2>1, <3>3, Zenon DEF ApiCall, papago_ws_send, papago_ws_send_binary,
         papago_ws_broadcast, papago_ws_close, Begin, CallStep, CloseReason,
         Acquire, AcquireRefused, PushNoMemory, PushFull, Push, Notify,
         Release, BroadcastLock, BroadcastVisit, BroadcastUnlock
    <3>4. UNCHANGED vars => UNCHANGED fault
      BY DEF vars
    <3> QED BY <1>2, <3>1, <3>2, <3>3, <3>4
            DEF Next, Step, Undefined, PollTimeout
  <2> QED BY <1>2, <2>2 DEF NoFault
<1>3. TableInv /\ LoopInv /\ NoFault /\ [Next]_vars => NoFault'
  BY <1>2
<1> QED BY <1>1, <1>3, TableInvariant, LoopInvariant, PTL DEF Spec

-----------------------------------------------------------------------------
(* The abstract channel.                                                   *)

\* A connection that is not live has been given no message; one that a call
\* reaches for, or the application holds, is live; and a live one keeps its
\* mutex until CLOSED destroys it.
Lively ==
    /\ \A c \in handles : send_mutex_ready[c]
    /\ \A t \in Threads : pc[t] \in {"acquire", "push", "notify", "release"} =>
           send_mutex_ready[conn[t]]
    /\ \A c \in Conns : ~send_mutex_ready[c] =>
           /\ accepted[c] = <<>> /\ wire[c] = <<>> /\ queue[c] = <<>>
           /\ ~(lws_pc = "write" /\ lws_conn = c)
    /\ \A c \in Conns :
           /\ send_mutex_ready[c]
           /\ phase[c] = "open" \/ (lws_conn = c /\ lws_pc \in {"drain", "destroy"})
           => send_mutex[c] = "ready"

\* What was accepted and not written is at most what the counter says and the
\* message in hand: also after a close has begun, which leaves the counter.
Owed == \A c \in Conns :
            Len(accepted[c]) <= Len(wire[c]) + queue_msg_count[c] + 1

\* Only on_connect's registration makes a connection live, and nothing makes
\* it less than that.
LEMMA ReadyFrame == ASSUME TableInv, [Next]_vars
                    PROVE  /\ ~Register => UNCHANGED send_mutex_ready
                           /\ \A c \in Conns : send_mutex_ready[c]
                                                   => send_mutex_ready'[c]
<1>t. send_mutex_ready \in [Conns -> BOOLEAN]
  BY DEF TableInv, TypeOK, ConnTypes
<1>1. ASSUME ~Register PROVE UNCHANGED send_mutex_ready
  <2>1. ASSUME NEW c \in Conns, LwsEvent(c) PROVE UNCHANGED send_mutex_ready
    BY <2>1, Zenon DEF LwsEvent, EstablishedRefused, EstablishedInitFailed,
       EstablishedMatched, WriteableBusy, WriteableEmpty, WriteablePop,
       Flush, Receive, Disconnect, vars
  <2>2. ASSUME LwsStep PROVE UNCHANGED send_mutex_ready
    BY <1>1, <2>2, Zenon DEF LwsStep, WriteTaken, WriteFailed, HasMore,
       ClosedRemove, ClosedDrain, ClosedDestroy, Free, CallbackReturn
  <2>3. UNCHANGED vars => UNCHANGED send_mutex_ready
    BY DEF vars
  <2> QED BY <2>1, <2>2, <2>3, CallFrame
          DEF Next, Step, Undefined, PollTimeout
<1>2. CASE Register
  BY <1>t, <1>2 DEF Register
<1> QED BY <1>1, <1>2

\* The four parts of Lively are kept by every step.
LEMMA HandlesLive == ASSUME TableInv, Lively, [Next]_vars
                     PROVE  \A c \in handles' : send_mutex_ready'[c]
<1>t. handles \subseteq Conns /\ send_mutex_ready \in [Conns -> BOOLEAN]
  BY DEF TableInv, TypeOK, ConnTypes
<1>0. \A c \in handles : send_mutex_ready'[c]
  BY <1>t, ReadyFrame DEF Lively
<1>1. CASE Register
  <2>1. lws_conn \in Conns
    BY <1>1 DEF Register, TableInv, LwsShape
  <2> QED BY <1>t, <1>0, <1>1, <2>1 DEF Register
<1>2. ASSUME ~Register PROVE handles' \subseteq handles
  <2>1. ASSUME NEW c \in Conns, LwsEvent(c) PROVE handles' = handles
    BY <2>1, Zenon DEF LwsEvent, EstablishedRefused, EstablishedInitFailed,
       EstablishedMatched, WriteableBusy, WriteableEmpty, WriteablePop, Flush,
       Receive, Disconnect, vars
  <2>2. ASSUME LwsStep PROVE handles' \subseteq handles
    BY <1>2, <2>2, Zenon DEF LwsStep, WriteTaken, WriteFailed, HasMore,
       ClosedRemove, ClosedDrain, ClosedDestroy, Free, CallbackReturn
  <2>3. UNCHANGED vars => UNCHANGED handles
    BY DEF vars
  <2> QED BY <2>1, <2>2, <2>3, CallFrame
          DEF Next, Step, Undefined, PollTimeout
<1> QED BY <1>0, <1>1, <1>2

\* A call that reaches for a connection finds it live.
LEMMA CallsLive ==
    ASSUME ConstantsAssumption, TableInv, Lively, [Next]_vars,
           NEW u \in Threads,
           pc'[u] \in {"acquire", "push", "notify", "release"}
    PROVE  send_mutex_ready'[conn'[u]]
<1>t. CallTypes /\ handles \subseteq Conns /\ ws_connections \in Seq(Conns)
  BY DEF TableInv, TypeOK
<1>0. ASSUME pc[u] \in {"acquire", "push", "notify", "release"},
             conn'[u] = conn[u]
      PROVE  send_mutex_ready'[conn'[u]]
  BY <1>0, ReadyFrame DEF Lively, TableInv, CallShape
<1>1. CASE LwsStep \/ \E c \in Conns : LwsEvent(c)
  BY <1>0, <1>1, LwsFrame DEF TableInv
<1>2. ASSUME NEW t \in Threads, ApiCall(t) PROVE send_mutex_ready'[conn'[u]]
  <2>1. CASE u = t
    <3>1. conn'[u] \in handles
      BY <1>t, <1>2, <2>1 DEF ApiCall, MaySend, papago_ws_send,
         papago_ws_send_binary, papago_ws_broadcast, papago_ws_close, Begin,
         CallTypes
    <3> QED BY <1>t, <3>1, ReadyFrame DEF Lively
  <2>2. CASE u # t
    BY <1>t, <1>0, <1>2, <2>2 DEF ApiCall, papago_ws_send,
       papago_ws_send_binary, papago_ws_broadcast, papago_ws_close, Begin,
       CallTypes
  <2> QED BY <2>1, <2>2
<1>3. ASSUME NEW t \in Threads, CallStep(t) PROVE send_mutex_ready'[conn'[u]]
  <2>1. CASE BroadcastVisit(t) /\ u = t
    <3>1. idx[t] \in 1 .. Len(ws_connections)
      <4>1. idx[t] \in Nat /\ idx[t] >= 1 /\ idx[t] <= Len(ws_connections)
        BY <1>t, <2>1 DEF BroadcastVisit, TableInv, CallShape, CallTypes
      <4> QED BY <1>t, <4>1
    <3>2. conn'[u] \in Registered /\ conn'[u] \in Conns
      BY <1>t, <2>1, <3>1 DEF BroadcastVisit, Registered, CallTypes
    <3> QED BY <3>2, ReadyFrame DEF TableInv, Lived
  <2>2. CASE ~(BroadcastVisit(t) /\ u = t)
    <3>1. /\ pc[u] \in {"acquire", "push", "notify", "release"}
          /\ conn'[u] = conn[u]
      BY <1>t, <1>3, <2>2 DEF CallStep, UseAfterFree, LockDestroyed,
         CloseReason, Faults, Acquire, AcquireRefused, PushNoMemory, PushFull,
         Push, Notify, AfterPush, Release, BroadcastLock, BroadcastVisit,
         BroadcastUnlock, CallTo, Return, CallTypes
    <3> QED BY <1>0, <3>1
  <2> QED BY <2>1, <2>2
<1>4. CASE UNCHANGED vars
  BY <1>0, <1>4 DEF vars
<1> QED BY <1>1, <1>2, <1>3, <1>4 DEF Next, Step, Undefined, PollTimeout

\* A connection that is not live is given no message.
LEMMA UnusedEmpty ==
    ASSUME ConstantsAssumption, TableInv, Lively, [Next]_vars,
           NEW d \in Conns, ~send_mutex_ready'[d]
    PROVE  /\ accepted'[d] = <<>> /\ wire'[d] = <<>> /\ queue'[d] = <<>>
           /\ ~(lws_pc' = "write" /\ lws_conn' = d)
<1>t. /\ queue \in [Conns -> Seq(Msgs)] /\ accepted \in [Conns -> Seq(Msgs)]
      /\ wire \in [Conns -> Seq(Msgs)]
  BY DEF TableInv, TypeOK, QueueTypes
<1>0. /\ ~send_mutex_ready[d] /\ accepted[d] = <<>> /\ wire[d] = <<>>
      /\ queue[d] = <<>> /\ ~(lws_pc = "write" /\ lws_conn = d)
  BY ReadyFrame DEF Lively
<1> DEFINE Empty == /\ accepted'[d] = <<>> /\ wire'[d] = <<>>
                    /\ queue'[d] = <<>>
                    /\ ~(lws_pc' = "write" /\ lws_conn' = d)
<1>1. ASSUME NEW c \in Conns, LwsEvent(c) PROVE Empty
  <2>1. CASE WriteablePop(c)
    <3>1. c # d
      BY <1>0, <2>1 DEF WriteablePop
    <3> QED BY <1>t, <1>0, <2>1, <3>1 DEF WriteablePop, LwsTo
  <2> QED BY <1>0, <1>1, <2>1 DEF LwsEvent, EstablishedRefused,
     EstablishedInitFailed, EstablishedMatched, WriteableBusy, WriteableEmpty,
     Flush, Receive, Disconnect, LwsTo, vars
<1>2. ASSUME LwsStep PROVE Empty
  <2>0. lws_pc # "service" => lws_conn \in Conns
    BY DEF TableInv, LwsShape
  <2>1. ASSUME NEW b \in BOOLEAN, WriteTaken(b) PROVE Empty
    BY <1>t, <1>0, <2>0, <2>1 DEF WriteTaken, LwsTo
  <2>2. CASE ClosedDrain
    BY <1>t, <1>0, <2>0, <2>2 DEF ClosedDrain, LwsTo
  <2> QED BY <1>0, <1>2, <2>1, <2>2 DEF LwsStep, Register, WriteFailed,
             HasMore, ClosedRemove, ClosedDestroy, Free, CallbackReturn, LwsTo,
             LwsReturn
<1>3. ASSUME NEW t \in Threads, ApiCall(t) \/ CallStep(t) PROVE Empty
  <2>1. UNCHANGED lwsVars
    BY <1>3, CallFrame
  <2>2. CASE Push(t)
    <3>1. conn[t] # d
      BY <1>0, <2>2 DEF Push, Lively
    <3> QED BY <1>t, <1>0, <2>1, <2>2, <3>1 DEF Push
  <2>3. CASE ~Push(t)
    <3>1. UNCHANGED <<queue, accepted, wire>>
      BY <1>3, <2>3, Zenon DEF ApiCall, papago_ws_send, papago_ws_send_binary,
         papago_ws_broadcast, papago_ws_close, Begin, CallStep, UseAfterFree,
         LockDestroyed, CloseReason, Faults, Acquire, AcquireRefused,
         PushNoMemory, PushFull, Notify, Release, BroadcastLock,
         BroadcastVisit, BroadcastUnlock
    <3> QED BY <1>0, <2>1, <3>1
  <2> QED BY <2>2, <2>3
<1>4. ASSUME UNCHANGED vars PROVE Empty
  BY <1>0, <1>4 DEF vars
<1> HIDE DEF Empty
<1>5. Empty
  BY <1>1, <1>2, <1>3, <1>4 DEF Next, Step, Undefined, PollTimeout
<1> QED BY <1>5 DEF Empty

\* A live connection keeps its mutex until CLOSED destroys it.
LEMMA MutexKept ==
    ASSUME ConstantsAssumption, TableInv, Lively, [Next]_vars,
           NEW d \in Conns, send_mutex_ready'[d],
           \/ phase'[d] = "open"
           \/ lws_conn' = d /\ lws_pc' \in {"drain", "destroy"}
    PROVE  send_mutex'[d] = "ready"
<1>t. /\ phase \in [Conns -> {"absent", "open", "closing", "freed"}]
      /\ send_mutex \in [Conns -> {"none", "ready", "destroyed"}]
      /\ send_mutex_ready \in [Conns -> BOOLEAN]
  BY DEF TableInv, TypeOK, ConnTypes
<1>0. /\ send_mutex_ready[d]
      /\ \/ phase[d] = "open"
         \/ lws_conn = d /\ lws_pc \in {"drain", "destroy"}
      => send_mutex[d] = "ready"
  BY DEF Lively
<1>a. phase[d] = "absent" => ~send_mutex_ready[d]
  BY DEF TableInv, Lived
<1>1. ASSUME NEW c \in Conns, LwsEvent(c) PROVE send_mutex'[d] = "ready"
  BY <1>t, <1>0, <1>a, <1>1 DEF LwsEvent, EstablishedRefused,
     EstablishedInitFailed, EstablishedMatched, WriteableBusy, WriteableEmpty,
     WriteablePop, Flush, Receive, Disconnect, LwsTo, vars
<1>2. ASSUME LwsStep PROVE send_mutex'[d] = "ready"
  <2>0. lws_pc # "service" => lws_conn \in Conns
    BY DEF TableInv, LwsShape
  <2>1. CASE Register
    BY <1>t, <1>0, <2>0, <2>1 DEF Register, LwsTo, TableInv, LwsShape
  <2>2. CASE ClosedRemove
    BY <1>t, <1>0, <2>0, <2>2 DEF ClosedRemove, LwsTo, TableInv, LwsShape
  <2>3. CASE ClosedDrain
    BY <1>0, <2>0, <2>3 DEF ClosedDrain, LwsTo, TableInv, LwsShape
  <2>4. CASE ClosedDestroy
    BY <1>t, <1>0, <2>0, <2>4 DEF ClosedDestroy, LwsTo, TableInv, LwsShape
  <2>5. CASE Free
    BY <1>t, <1>0, <2>0, <2>5 DEF Free, LwsTo, LwsReturn
  <2>6. CASE WriteTaken(TRUE) \/ WriteTaken(FALSE) \/ WriteFailed \/ HasMore
             \/ CallbackReturn
    BY <1>0, <2>6 DEF WriteTaken, WriteFailed, HasMore, CallbackReturn, LwsTo,
                      LwsReturn
  <2> QED BY <1>2, <2>1, <2>2, <2>3, <2>4, <2>5, <2>6 DEF LwsStep
<1>3. CASE UNCHANGED <<lwsVars, connVars>>
  BY <1>0, <1>3
<1>4. UNCHANGED vars => UNCHANGED <<lwsVars, connVars>>
  BY DEF vars
<1>5. ASSUME NEW t \in Threads, ApiCall(t) \/ CallStep(t)
      PROVE  send_mutex'[d] = "ready"
  BY <1>0, <1>5, CallFrame
<1> QED BY <1>1, <1>2, <1>3, <1>4, <1>5
        DEF Next, Step, Undefined, PollTimeout

\* Together: Lively is inductive over TableInv.
LEMMA LivelyStep == ASSUME ConstantsAssumption, TableInv, Lively, [Next]_vars
                    PROVE  Lively'
BY HandlesLive, CallsLive, UnusedEmpty, MutexKept DEF Lively

\* What happens to accepted = written \o in hand \o queued when a message is
\* queued, taken in hand and written.
LEMMA JoinPush == \A p, q \in Seq(Msgs), m \in Msgs :
                      Append(p \o q, m) = p \o Append(q, m)
<1> TAKE p, q \in Seq(Msgs), m \in Msgs
<1>1. p \o q \in Seq(Msgs)
  BY ConcatProperties
<1>2. <<m>> \in Seq(Msgs)
  OBVIOUS
<1>3. Append(q, m) = q \o <<m>>
  BY AppendIsConcat
<1>4. Append(p \o q, m) = (p \o q) \o <<m>>
  BY <1>1, AppendIsConcat
<1>5. (p \o q) \o <<m>> = p \o (q \o <<m>>)
  BY <1>2, ConcatAssociative
<1> QED BY <1>3, <1>4, <1>5, Zenon

\* The message popped joins what was written and what is queued.
LEMMA JoinPop ==
    ASSUME NEW T, NEW w \in Seq(T), NEW q \in Seq(T), q # <<>>
    PROVE  w \o <<>> \o q = w \o <<Head(q)>> \o Tail(q)
<1>1. Head(q) \in T /\ Tail(q) \in Seq(T)
  BY HeadTailProperties
<1>2. <<Head(q)>> \in Seq(T)
  BY <1>1
<1>3. w \o <<>> = w
  BY ConcatEmptySeq
<1>4. q = <<Head(q)>> \o Tail(q)
  <2>1. Len(q) \in Nat \ {0}
    BY EmptySeq
  <2>2. SubSeq(q, 1, Len(q)) = <<q[1]>> \o SubSeq(q, 1 + 1, Len(q))
    BY <2>1, SubSeqRecursiveFirst
  <2>3. Tail(q) = SubSeq(q, 2, Len(q)) /\ SubSeq(q, 1, Len(q)) = q
    BY TailIsSubSeq, SubSeqFull
  <2>4. Head(q) = q[1] /\ 1 + 1 = 2
    OBVIOUS
  <2> QED BY <2>2, <2>3, <2>4
<1>5. (w \o <<Head(q)>>) \o Tail(q) = w \o (<<Head(q)>> \o Tail(q))
  BY <1>1, <1>2, ConcatAssociative
<1> QED BY <1>3, <1>4, <1>5, Zenon

\* The message in hand becomes the last that was written.
LEMMA JoinWrite ==
    ASSUME NEW T, NEW w \in Seq(T), NEW q \in Seq(T), NEW m \in T
    PROVE  w \o <<m>> \o q = Append(w, m) \o <<>> \o q
<1>1. Append(w, m) \in Seq(T) /\ Append(w, m) = w \o <<m>>
  BY AppendProperties, AppendIsConcat
<1>2. Append(w, m) \o <<>> = Append(w, m)
  BY <1>1, ConcatEmptySeq
<1> QED BY <1>1, <1>2, Zenon

\* Where the parts of a joined history are found in it.
LEMMA JoinPlaces ==
    \A w, h, q \in Seq(Msgs) :
        /\ Len(w \o h \o q) = Len(w) + Len(h) + Len(q)
        /\ \A i \in 1 .. Len(w) : (w \o h \o q)[i] = w[i]
        /\ h # <<>> => (w \o h \o q)[Len(w) + 1] = h[1]
<1> TAKE w, h, q \in Seq(Msgs)
<1>n. Len(w) \in Nat /\ Len(h) \in Nat /\ Len(q) \in Nat
  BY LenProperties
<1> DEFINE p == w \o h
<1>1. /\ p \in Seq(Msgs) /\ Len(p) = Len(w) + Len(h)
      /\ \A i \in 1 .. Len(w) + Len(h) :
             p[i] = IF i <= Len(w) THEN w[i] ELSE h[i - Len(w)]
  BY ConcatProperties
<1> HIDE DEF p
<1>2. /\ Len(p \o q) = Len(p) + Len(q)
      /\ \A i \in 1 .. Len(p) + Len(q) :
             (p \o q)[i] = IF i <= Len(p) THEN p[i] ELSE q[i - Len(p)]
  <2>1. p \in Seq(Msgs)
    BY <1>1
  <2> QED BY <2>1, ConcatProperties
<1>3. \A i \in 1 .. Len(w) + Len(h) : (p \o q)[i] = p[i]
  BY <1>n, <1>1, <1>2
<1>4. \A i \in 1 .. Len(w) : (p \o q)[i] = w[i]
  BY <1>n, <1>1, <1>3
<1>5. ASSUME h # <<>> PROVE (p \o q)[Len(w) + 1] = h[1]
  <2>1. Len(h) \in Nat \ {0}
    BY <1>5, EmptySeq
  <2>2. Len(w) + 1 \in 1 .. Len(w) + Len(h) /\ ~(Len(w) + 1 <= Len(w))
        /\ Len(w) + 1 - Len(w) = 1
    BY <1>n, <2>1
  <2> QED BY <1>1, <1>3, <2>2
<1> QED BY <1>1, <1>2, <1>4, <1>5 DEF p

\* The accepted messages of connection d are those written, the one in hand
\* and those queued.
Joined(d) == accepted[d] = wire[d] \o InHand(d) \o queue[d]

\* The messages of a connection that is not doomed stay in order.
LEMMA OrderStep ==
    ASSUME ConstantsAssumption, TableInv, Lively, Fifo, [Next]_vars,
           NEW d \in Conns, ~Doomed(d)'
    PROVE  Joined(d)'
<1>t. /\ queue \in [Conns -> Seq(Msgs)] /\ accepted \in [Conns -> Seq(Msgs)]
      /\ wire \in [Conns -> Seq(Msgs)]
      /\ phase \in [Conns -> {"absent", "open", "closing", "freed"}]
  BY DEF TableInv, TypeOK, QueueTypes, ConnTypes
<1>q. wire[d] \in Seq(Msgs) /\ queue[d] \in Seq(Msgs)
  BY <1>t
<1>n. None \notin Conns /\ (lws_pc # "service" => lws_conn \in Conns)
  BY DEF ConstantsAssumption, TableInv, LwsShape
<1>0. ~Doomed(d) => Joined(d)
  BY DEF Fifo, Joined
<1>s. ASSUME ~Doomed(d), queue'[d] = queue[d], accepted'[d] = accepted[d],
             wire'[d] = wire[d], InHand(d)' = InHand(d)
      PROVE  Joined(d)'
  BY <1>0, <1>s, Zenon DEF Joined
<1>1. ASSUME NEW c \in Conns, LwsEvent(c) PROVE Joined(d)'
  <2>0. lws_pc = "service"
    BY <1>1, Zenon DEF LwsEvent, EstablishedRefused, EstablishedInitFailed,
       EstablishedMatched, WriteableBusy, WriteableEmpty, WriteablePop, Flush,
       Receive, Disconnect
  <2>1. CASE WriteablePop(c) /\ c = d
    <3>1. Joined(d) /\ InHand(d) = <<>>
      BY <1>0, <2>0, <2>1 DEF WriteablePop, Doomed, InHand
    <3>2. /\ queue'[d] = Tail(queue[d]) /\ InHand(d)' = <<Head(queue[d])>>
          /\ UNCHANGED <<accepted, wire>> /\ queue[d] # <<>>
      BY <1>t, <2>1 DEF WriteablePop, LwsTo, InHand
    <3>3. wire[d] \o <<>> \o queue[d]
              = wire[d] \o <<Head(queue[d])>> \o Tail(queue[d])
      BY <1>q, <3>2, JoinPop
    <3> QED BY <3>1, <3>2, <3>3, Zenon DEF Joined
  <2>2. CASE WriteablePop(c) /\ c # d
    <3>1. /\ ~Doomed(d) /\ InHand(d)' = <<>> /\ InHand(d) = <<>>
          /\ queue'[d] = queue[d] /\ UNCHANGED <<accepted, wire>>
      BY <1>t, <2>0, <2>2 DEF WriteablePop, LwsTo, Doomed, InHand
    <3> QED BY <1>s, <3>1
  <2>3. CASE ~WriteablePop(c)
    <3>1. /\ UNCHANGED <<queue, accepted, wire>>
          /\ InHand(d)' = <<>> /\ InHand(d) = <<>>
      BY <1>1, <2>0, <2>3 DEF LwsEvent, EstablishedRefused, InHand,
         EstablishedInitFailed, EstablishedMatched, WriteableBusy,
         WriteableEmpty, Flush, Receive, Disconnect, LwsTo, vars
    <3>2. CASE ~Doomed(d)
      BY <1>s, <3>1, <3>2
    <3>3. CASE Doomed(d)
      <4>1. phase[d] = "absent"
        BY <1>t, <1>1, <2>0, <2>3, <3>3 DEF LwsEvent, EstablishedRefused,
           EstablishedInitFailed, EstablishedMatched, WriteableBusy,
           WriteableEmpty, Flush, Receive, Disconnect, LwsTo, Doomed, vars
      <4>2. accepted[d] = <<>> /\ wire[d] = <<>> /\ queue[d] = <<>>
        BY <4>1 DEF TableInv, Lived, Lively
      <4> QED BY <3>1, <4>2 DEF Joined
    <3> QED BY <3>2, <3>3
  <2> QED BY <2>1, <2>2, <2>3
<1>2. ASSUME LwsStep PROVE Joined(d)'
  <2>1. ASSUME NEW b \in BOOLEAN, WriteTaken(b) PROVE Joined(d)'
    <3>1. ~Doomed(d) /\ InHand(d)' = <<>> /\ UNCHANGED <<queue, accepted>>
      BY <2>1 DEF WriteTaken, LwsTo, Doomed, InHand
    <3>2. CASE d = lws_conn
      <4>1. InHand(d) = <<lws_msg>> /\ lws_msg \in Msgs
        BY <2>1, <3>2 DEF WriteTaken, InHand, TableInv, LwsShape
      <4>2. wire'[d] = Append(wire[d], lws_msg)
        BY <1>t, <2>1, <3>2 DEF WriteTaken
      <4>3. wire[d] \o <<lws_msg>> \o queue[d]
                = Append(wire[d], lws_msg) \o <<>> \o queue[d]
        <5>1. \A m \in Msgs : wire[d] \o <<m>> \o queue[d]
                                  = Append(wire[d], m) \o <<>> \o queue[d]
          BY ONLY <1>q, JoinWrite
        <5> QED BY <4>1, <5>1, Zenon
      <4> QED BY <1>0, <3>1, <4>1, <4>2, <4>3, Zenon DEF Joined
    <3>3. CASE d # lws_conn
      <4>1. wire'[d] = wire[d] /\ InHand(d) = <<>>
        BY <1>t, <1>n, <2>1, <3>3 DEF WriteTaken, InHand
      <4> QED BY <1>s, <3>1, <4>1
    <3> QED BY <3>2, <3>3
  <2>2. CASE ClosedDrain
    <3>1. d # lws_conn
      BY <1>t, <2>2 DEF ClosedDrain, Doomed, TableInv, LwsShape
    <3>2. /\ queue'[d] = queue[d] /\ ~Doomed(d) /\ UNCHANGED <<accepted, wire>>
          /\ InHand(d)' = <<>> /\ InHand(d) = <<>>
      BY <1>t, <1>n, <2>2, <3>1 DEF ClosedDrain, Doomed, InHand, LwsTo
    <3> QED BY <1>s, <3>2
  <2>3. CASE WriteFailed
    <3>1. d # lws_conn
      BY <2>3 DEF WriteFailed, LwsTo, Doomed
    <3>2. /\ ~Doomed(d) /\ UNCHANGED <<queue, accepted, wire>>
          /\ InHand(d)' = <<>> /\ InHand(d) = <<>>
      BY <2>3, <3>1 DEF WriteFailed, LwsTo, Doomed, InHand
    <3> QED BY <1>s, <3>2
  <2>4. CASE Register \/ HasMore \/ ClosedRemove \/ ClosedDestroy \/ Free
             \/ CallbackReturn
    <3>1. /\ UNCHANGED <<queue, accepted, wire>>
          /\ InHand(d)' = <<>> /\ InHand(d) = <<>>
      BY <2>4 DEF Register, HasMore, ClosedRemove, ClosedDestroy, Free,
         CallbackReturn, LwsTo, LwsReturn, InHand, InCallback, Callbacks
    <3>2. ~Doomed(d)
      <4>1. CASE ClosedRemove \/ Free
        <5>1. d # lws_conn
          BY <1>t, <1>n, <4>1 DEF ClosedRemove, Free, Doomed
        <5> QED BY <1>t, <1>n, <4>1, <5>1 DEF ClosedRemove, Free, Doomed
      <4>2. CASE Register \/ HasMore \/ ClosedDestroy
        BY <4>2 DEF Register, HasMore, ClosedDestroy, Doomed
      <4>3. CASE CallbackReturn
        BY <1>t, <1>n, <4>3 DEF CallbackReturn, LwsTo, LwsReturn, Doomed,
                                InCallback, Callbacks
      <4> QED BY <2>4, <4>1, <4>2, <4>3
    <3> QED BY <1>s, <3>1, <3>2
  <2> QED BY <1>2, <2>1, <2>2, <2>3, <2>4 DEF LwsStep
<1>3. ASSUME NEW t \in Threads, ApiCall(t) \/ CallStep(t) PROVE Joined(d)'
  <2>1. ~Doomed(d) /\ UNCHANGED lwsVars /\ InHand(d)' = InHand(d)
    BY <1>3, CallFrame DEF Doomed, InHand
  <2>2. CASE Push(t) /\ d = conn[t]
    <3>1. msg[t] \in Msgs
      BY <2>2 DEF Push, TableInv, CallShape
    <3>2. /\ queue'[d] = Append(queue[d], msg[t])
          /\ accepted'[d] = Append(accepted[d], msg[t])
          /\ wire'[d] = wire[d]
      BY <1>t, <2>2 DEF Push
    <3>3. InHand(d) \in Seq(Msgs)
      <4>1. lws_pc = "write" => lws_msg \in Msgs
        BY DEF TableInv, LwsShape
      <4>2. CASE lws_pc = "write" /\ lws_conn = d
        BY <4>1, <4>2 DEF InHand
      <4>3. CASE ~(lws_pc = "write" /\ lws_conn = d)
        BY <4>3 DEF InHand
      <4> QED BY <4>2, <4>3
    <3>4. Append(wire[d] \o InHand(d) \o queue[d], msg[t])
              = wire[d] \o InHand(d) \o Append(queue[d], msg[t])
      <4>1. wire[d] \o InHand(d) \in Seq(Msgs)
        BY ONLY <1>q, <3>3, ConcatProperties
      <4> QED BY <1>q, <3>1, <4>1, JoinPush, Zenon
    <3> QED BY <1>0, <2>1, <3>2, <3>4, Zenon DEF Joined
  <2>3. CASE Push(t) /\ d # conn[t]
    <3>1. queue'[d] = queue[d] /\ accepted'[d] = accepted[d]
          /\ wire'[d] = wire[d]
      BY <1>t, <2>3 DEF Push
    <3> QED BY <1>s, <2>1, <3>1
  <2>4. CASE ~Push(t)
    <3>1. UNCHANGED <<queue, accepted, wire>>
      BY <1>3, <2>4, Zenon DEF ApiCall, papago_ws_send, papago_ws_send_binary,
         papago_ws_broadcast, papago_ws_close, Begin, CallStep, UseAfterFree,
         LockDestroyed, CloseReason, Faults, Acquire, AcquireRefused,
         PushNoMemory, PushFull, Notify, Release, BroadcastLock,
         BroadcastVisit, BroadcastUnlock
    <3> QED BY <1>s, <2>1, <3>1
  <2> QED BY <2>2, <2>3, <2>4
<1>4. ASSUME UNCHANGED vars PROVE Joined(d)'
  <2>1. ~Doomed(d) /\ InHand(d)' = InHand(d)
    BY <1>4 DEF vars, Doomed, InHand
  <2> QED BY <1>s, <1>4, <2>1 DEF vars
<1> QED BY <1>1, <1>2, <1>3, <1>4 DEF Next, Step, Undefined, PollTimeout

\* A prefix, place by place.
LEMMA PrefixPlaces ==
    \A s, t \in Seq(Msgs) :
        IsPrefix(s, t) <=> /\ Len(s) <= Len(t)
                           /\ \A i \in 1 .. Len(s) : s[i] = t[i]
<1> TAKE s, t \in Seq(Msgs)
<1>n. Len(s) \in Nat /\ Len(t) \in Nat
  BY LenProperties
<1>1. ASSUME Len(s) <= Len(t)
      PROVE  SubSeq(s, 1, Len(s)) = SubSeq(t, 1, Len(s))
                 <=> \A i \in 1 .. Len(s) : s[i] = t[i]
  <2>1. SubSeq(s, 1, Len(s)) = s
    BY SubSeqFull
  <2>2. \A i \in 1 .. Len(s) : t[i] \in Msgs
    BY <1>n, <1>1, ElementOfSeq
  <2> DEFINE u == SubSeq(t, 1, Len(s))
  <2>3. /\ u \in Seq(Msgs)
        /\ Len(u) = IF 1 <= Len(s) THEN Len(s) - 1 + 1 ELSE 0
        /\ \A i \in 1 .. Len(s) - 1 + 1 : u[i] = t[1 + i - 1]
    BY <1>n, <2>2, SubSeqProperties
  <2> HIDE DEF u
  <2>4. Len(u) = Len(s) /\ \A i \in 1 .. Len(s) : u[i] = t[i]
    BY <1>n, <2>3
  <2>5. (\A i \in 1 .. Len(s) : s[i] = u[i]) => s = u
    BY <2>3, <2>4, SeqEqual
  <2> QED BY <2>1, <2>4, <2>5 DEF u
<1> QED BY <1>1 DEF IsPrefix

\* A connection's history grows when a message is written or queued, and at
\* no other time.
LEMMA HistoryFrame ==
    ASSUME [Next]_vars
    PROVE  \/ UNCHANGED <<accepted, wire>>
           \/ \E b \in BOOLEAN : WriteTaken(b)
           \/ \E t \in Threads : Push(t)
<1>1. ASSUME NEW c \in Conns, LwsEvent(c) PROVE UNCHANGED <<accepted, wire>>
  BY <1>1, Zenon DEF LwsEvent, EstablishedRefused, EstablishedInitFailed,
     EstablishedMatched, WriteableBusy, WriteableEmpty, WriteablePop, Flush,
     Receive, Disconnect, vars
<1>2. ASSUME LwsStep, ~WriteTaken(TRUE), ~WriteTaken(FALSE)
      PROVE  UNCHANGED <<accepted, wire>>
  BY <1>2, Zenon DEF LwsStep, Register, WriteFailed, HasMore, ClosedRemove,
     ClosedDrain, ClosedDestroy, Free, CallbackReturn
<1>3. ASSUME NEW t \in Threads, ApiCall(t) \/ CallStep(t), ~Push(t)
      PROVE  UNCHANGED <<accepted, wire>>
  BY <1>3, Zenon DEF ApiCall, papago_ws_send, papago_ws_send_binary,
     papago_ws_broadcast, papago_ws_close, Begin, CallStep, UseAfterFree,
     LockDestroyed, CloseReason, Faults, Acquire, AcquireRefused, PushNoMemory,
     PushFull, Notify, Release, BroadcastLock, BroadcastVisit, BroadcastUnlock
<1>4. UNCHANGED vars => UNCHANGED <<accepted, wire>>
  BY DEF vars
<1> QED BY <1>1, <1>2, <1>3, <1>4 DEF Next, Step, Undefined, PollTimeout

\* The message being written is the first accepted one not yet written.
LEMMA NextIsWritten ==
    ASSUME ConstantsAssumption, TableInv, Fifo, lws_pc = "write"
    PROVE  /\ lws_conn \in Conns /\ lws_msg \in Msgs
           /\ Len(wire[lws_conn]) < Len(accepted[lws_conn])
           /\ accepted[lws_conn][Len(wire[lws_conn]) + 1] = lws_msg
<1> DEFINE c == lws_conn
<1>1. c \in Conns /\ lws_msg \in Msgs /\ phase[c] = "open"
  BY DEF TableInv, LwsShape
<1>2. /\ queue \in [Conns -> Seq(Msgs)] /\ wire \in [Conns -> Seq(Msgs)]
  BY DEF TableInv, TypeOK, QueueTypes
<1>3. wire[c] \in Seq(Msgs) /\ queue[c] \in Seq(Msgs)
  BY <1>1, <1>2
<1>4. accepted[c] = wire[c] \o <<lws_msg>> \o queue[c]
  BY <1>1, Zenon DEF Fifo, Doomed, InHand
<1>5. <<lws_msg>> \in Seq(Msgs)
  BY <1>1
<1>6. <<lws_msg>> # <<>> /\ <<lws_msg>>[1] = lws_msg /\ Len(<<lws_msg>>) = 1
  OBVIOUS
<1>7. \A w, q \in Seq(Msgs) :
          /\ Len(w \o <<lws_msg>> \o q) = Len(w) + 1 + Len(q)
          /\ (w \o <<lws_msg>> \o q)[Len(w) + 1] = lws_msg
  BY ONLY <1>5, <1>6, JoinPlaces
<1>8. \A w, q \in Seq(Msgs) : Len(w) < Len(w) + 1 + Len(q)
  OBVIOUS
<1>9. /\ Len(wire[c]) < Len(wire[c] \o <<lws_msg>> \o queue[c])
      /\ (wire[c] \o <<lws_msg>> \o queue[c])[Len(wire[c]) + 1] = lws_msg
  <2> HIDE DEF c
  <2>1. \A w, q \in Seq(Msgs) :
            /\ Len(w) < Len(w \o <<lws_msg>> \o q)
            /\ (w \o <<lws_msg>> \o q)[Len(w) + 1] = lws_msg
    BY ONLY <1>7, <1>8, Zenon
  <2> QED BY ONLY <1>3, <2>1, Zenon
<1> QED BY <1>1, <1>4, <1>9, Zenon

\* What was written stays a prefix of what was accepted.
LEMMA PrefixStep == ASSUME ConstantsAssumption, TableInv, Fifo, [Next]_vars,
                           NEW d \in Conns
                    PROVE  IsPrefix(wire'[d], accepted'[d])
<1>t. accepted \in [Conns -> Seq(Msgs)] /\ wire \in [Conns -> Seq(Msgs)]
  BY DEF TableInv, TypeOK, QueueTypes
<1>s. accepted[d] \in Seq(Msgs) /\ wire[d] \in Seq(Msgs)
  BY <1>t
<1>n. Len(accepted[d]) \in Nat /\ Len(wire[d]) \in Nat
  BY <1>s
<1>0. /\ Len(wire[d]) <= Len(accepted[d])
      /\ \A i \in 1 .. Len(wire[d]) : wire[d][i] = accepted[d][i]
  BY <1>s, PrefixPlaces DEF Fifo
<1>1. ASSUME NEW b \in BOOLEAN, WriteTaken(b), d = lws_conn
      PROVE  IsPrefix(wire'[d], accepted'[d])
  <2>1. /\ lws_msg \in Msgs /\ Len(wire[d]) < Len(accepted[d])
        /\ accepted[d][Len(wire[d]) + 1] = lws_msg
    BY <1>1, NextIsWritten DEF WriteTaken
  <2>2. wire'[d] = Append(wire[d], lws_msg) /\ accepted'[d] = accepted[d]
    BY <1>t, <1>1 DEF WriteTaken
  <2>3. /\ wire'[d] \in Seq(Msgs) /\ Len(wire'[d]) = Len(wire[d]) + 1
        /\ \A i \in 1 .. Len(wire[d]) : wire'[d][i] = wire[d][i]
        /\ wire'[d][Len(wire[d]) + 1] = lws_msg
    BY <1>s, <2>1, <2>2, AppendProperties
  <2>4. Len(wire'[d]) <= Len(accepted[d])
    BY <1>n, <2>1, <2>3
  <2>5. \A i \in 1 .. Len(wire'[d]) : wire'[d][i] = accepted[d][i]
    BY <1>n, <1>0, <2>1, <2>3
  <2> QED BY <1>s, <2>2, <2>3, <2>4, <2>5, PrefixPlaces
<1>2. ASSUME NEW t \in Threads, Push(t), d = conn[t]
      PROVE  IsPrefix(wire'[d], accepted'[d])
  <2>1. msg[t] \in Msgs
    BY <1>2 DEF Push, TableInv, CallShape
  <2>2. accepted'[d] = Append(accepted[d], msg[t]) /\ wire'[d] = wire[d]
    BY <1>t, <1>2 DEF Push
  <2>3. /\ accepted'[d] \in Seq(Msgs)
        /\ Len(accepted'[d]) = Len(accepted[d]) + 1
        /\ \A i \in 1 .. Len(accepted[d]) : accepted'[d][i] = accepted[d][i]
    BY <1>s, <2>1, <2>2, AppendProperties
  <2>4. Len(wire[d]) <= Len(accepted'[d])
    BY <1>n, <1>0, <2>3
  <2>5. \A i \in 1 .. Len(wire[d]) : wire[d][i] = accepted'[d][i]
    BY <1>n, <1>0, <2>3
  <2> QED BY <1>s, <2>2, <2>3, <2>4, <2>5, PrefixPlaces
<1>3. ASSUME accepted'[d] = accepted[d], wire'[d] = wire[d]
      PROVE  IsPrefix(wire'[d], accepted'[d])
  BY <1>3, Zenon DEF Fifo
<1>4. \/ accepted'[d] = accepted[d] /\ wire'[d] = wire[d]
      \/ \E b \in BOOLEAN : WriteTaken(b) /\ d = lws_conn
      \/ \E t \in Threads : Push(t) /\ d = conn[t]
  <2>1. ASSUME NEW b \in BOOLEAN, WriteTaken(b), d # lws_conn
        PROVE  accepted'[d] = accepted[d] /\ wire'[d] = wire[d]
    BY <1>t, <2>1 DEF WriteTaken
  <2>2. ASSUME NEW t \in Threads, Push(t), d # conn[t]
        PROVE  accepted'[d] = accepted[d] /\ wire'[d] = wire[d]
    BY <1>t, <2>2 DEF Push
  <2> QED BY <2>1, <2>2, HistoryFrame
<1> QED BY <1>1, <1>2, <1>3, <1>4

\* Fifo is inductive over TableInv and Lively.
LEMMA FifoStep == ASSUME ConstantsAssumption, TableInv, Lively, Fifo,
                         [Next]_vars
                  PROVE  Fifo'
BY OrderStep, PrefixStep DEF Fifo, Joined

\* No more is owed than the counter says and the message in hand.
LEMMA OwedStep == ASSUME ConstantsAssumption, TableInv, QueueCounted, Fifo,
                         Owed, [Next]_vars
                  PROVE  Owed'
<1> SUFFICES ASSUME NEW d \in Conns
             PROVE  Len(accepted'[d])
                        <= Len(wire'[d]) + queue_msg_count'[d] + 1
  BY DEF Owed
<1>t. /\ accepted \in [Conns -> Seq(Msgs)] /\ wire \in [Conns -> Seq(Msgs)]
      /\ queue \in [Conns -> Seq(Msgs)] /\ queue_msg_count \in [Conns -> Int]
  BY DEF TableInv, TypeOK, QueueTypes
<1>s. /\ accepted[d] \in Seq(Msgs) /\ wire[d] \in Seq(Msgs)
      /\ queue[d] \in Seq(Msgs)
  BY <1>t
<1>n. /\ Len(accepted[d]) \in Nat /\ Len(wire[d]) \in Nat
      /\ Len(queue[d]) \in Nat /\ queue_msg_count[d] \in Int
  BY <1>t, <1>s
<1>0. Len(accepted[d]) <= Len(wire[d]) + queue_msg_count[d] + 1
  BY DEF Owed
<1> DEFINE Bounded == Len(accepted'[d])
                          <= Len(wire'[d]) + queue_msg_count'[d] + 1
<1>k. ASSUME accepted'[d] = accepted[d], wire'[d] = wire[d],
             queue_msg_count'[d] = queue_msg_count[d]
      PROVE  Bounded
  BY <1>0, <1>k
<1>1. ASSUME NEW c \in Conns, LwsEvent(c) PROVE Bounded
  <2>1. CASE WriteablePop(c) /\ c = d
    <3>1. ~Doomed(d) /\ InHand(d) = <<>> /\ queue_msg_count[d] = Len(queue[d])
      BY <2>1 DEF WriteablePop, Doomed, InHand, QueueCounted
    <3>2. accepted[d] = wire[d] \o <<>> \o queue[d]
      BY <3>1, Zenon DEF Fifo
    <3>3. wire[d] \o <<>> = wire[d]
      BY <1>s, ConcatEmptySeq
    <3>4. Len(wire[d] \o queue[d]) = Len(wire[d]) + Len(queue[d])
      BY <1>s, ConcatProperties
    <3>5. Len(accepted[d]) = Len(wire[d]) + Len(queue[d])
      BY <3>2, <3>3, <3>4, Zenon
    <3>6. /\ queue_msg_count'[d] = queue_msg_count[d] - 1
          /\ accepted'[d] = accepted[d] /\ wire'[d] = wire[d]
      BY <1>t, <2>1 DEF WriteablePop
    <3>7. Len(accepted[d]) <= Len(wire[d]) + (queue_msg_count[d] - 1) + 1
      BY ONLY <1>n, <3>1, <3>5
    <3> QED BY <3>6, <3>7
  <2>2. CASE WriteablePop(c) /\ c # d
    BY <1>t, <1>k, <2>2 DEF WriteablePop
  <2>3. CASE ~WriteablePop(c)
    <3>1. UNCHANGED <<queue_msg_count, accepted, wire>>
      BY <1>1, <2>3, Zenon DEF LwsEvent, EstablishedRefused,
         EstablishedInitFailed, EstablishedMatched, WriteableBusy,
         WriteableEmpty, Flush, Receive, Disconnect, vars
    <3> QED BY <1>k, <3>1
  <2> QED BY <2>1, <2>2, <2>3
<1>2. ASSUME LwsStep PROVE Bounded
  <2>1. UNCHANGED <<queue_msg_count, accepted>>
    BY <1>2, Zenon DEF LwsStep, Register, WriteTaken, WriteFailed, HasMore,
       ClosedRemove, ClosedDrain, ClosedDestroy, Free, CallbackReturn
  <2>2. CASE wire'[d] = wire[d]
    BY <1>k, <2>1, <2>2
  <2>3. ASSUME NEW b \in BOOLEAN, WriteTaken(b), d = lws_conn PROVE Bounded
    <3>1. lws_msg \in Msgs /\ wire'[d] = Append(wire[d], lws_msg)
      BY <1>t, <2>3 DEF WriteTaken, TableInv, LwsShape
    <3>2. Len(wire'[d]) = Len(wire[d]) + 1
      BY <1>s, <3>1, AppendProperties
    <3>3. Len(accepted[d]) <= (Len(wire[d]) + 1) + queue_msg_count[d] + 1
      BY ONLY <1>n, <1>0
    <3> QED BY <2>1, <3>2, <3>3
  <2>4. \/ wire'[d] = wire[d]
        \/ \E b \in BOOLEAN : WriteTaken(b) /\ d = lws_conn
    <3>1. ASSUME NEW b \in BOOLEAN, WriteTaken(b), d # lws_conn
          PROVE  wire'[d] = wire[d]
      BY <1>t, <3>1 DEF WriteTaken
    <3>2. ASSUME NEW t \in Threads, Push(t) PROVE wire' = wire
      BY <3>2 DEF Push
    <3> QED BY <3>1, <3>2, HistoryFrame
  <2> QED BY <2>2, <2>3, <2>4
<1>3. ASSUME NEW t \in Threads, ApiCall(t) \/ CallStep(t) PROVE Bounded
  <2>1. CASE Push(t) /\ d = conn[t]
    <3>1. msg[t] \in Msgs
      BY <2>1 DEF Push, TableInv, CallShape
    <3>2. /\ accepted'[d] = Append(accepted[d], msg[t]) /\ wire'[d] = wire[d]
          /\ queue_msg_count'[d] = queue_msg_count[d] + 1
      BY <1>t, <2>1 DEF Push
    <3>3. Len(accepted'[d]) = Len(accepted[d]) + 1
      BY <1>s, <3>1, <3>2, AppendProperties
    <3>4. Len(accepted[d]) + 1
              <= Len(wire[d]) + (queue_msg_count[d] + 1) + 1
      BY ONLY <1>n, <1>0
    <3> QED BY <3>2, <3>3, <3>4
  <2>2. CASE Push(t) /\ d # conn[t]
    BY <1>t, <1>k, <2>2 DEF Push
  <2>3. CASE ~Push(t)
    <3>1. UNCHANGED <<queue_msg_count, accepted, wire>>
      BY <1>3, <2>3, Zenon DEF ApiCall, papago_ws_send, papago_ws_send_binary,
         papago_ws_broadcast, papago_ws_close, Begin, CallStep, UseAfterFree,
         LockDestroyed, CloseReason, Faults, Acquire, AcquireRefused,
         PushNoMemory, PushFull, Notify, Release, BroadcastLock,
         BroadcastVisit, BroadcastUnlock
    <3> QED BY <1>k, <3>1
  <2> QED BY <2>1, <2>2, <2>3
<1>4. ASSUME UNCHANGED vars PROVE Bounded
  BY <1>k, <1>4 DEF vars
<1> HIDE DEF Bounded
<1>5. Bounded
  BY <1>1, <1>2, <1>3, <1>4 DEF Next, Step, Undefined, PollTimeout
<1> QED BY <1>5 DEF Bounded

-----------------------------------------------------------------------------
(* The refinement.  WriteTaken delivers, Push accepts, and five steps move *)
(* a connection through its life; every other step stutters.               *)

ChannelInv == TableInv /\ QueueCounted /\ Lively /\ Fifo /\ Owed

\* A step that changes the status of connection c alone.
LEMMA Becomes ==
    ASSUME NEW c \in Conns, NEW from, NEW to, Status(c) = from,
           Status(c)' = to, UNCHANGED <<accepted, wire>>,
           \A d \in Conns : d # c => Status(d)' = Status(d)
    PROVE  Channel!Become(c, from, to)
BY DEF Channel!Become

\* A step that changes no status and no history.
LEMMA Stutters ==
    ASSUME UNCHANGED <<accepted, wire>>,
           \A d \in Conns : Status(d)' = Status(d)
    PROVE  UNCHANGED Channel!vars
BY DEF Channel!vars

\* A live connection of an open session is open unless doomed.
LEMMA OpenStatus ==
    ASSUME TableInv, Lively, NEW c \in Conns, phase[c] = "open"
    PROVE  Status(c) = IF ~send_mutex_ready[c] THEN "absent"
                       ELSE IF Doomed(c) THEN "closing" ELSE "open"
<1>1. send_mutex_ready[c] => send_mutex[c] # "destroyed"
  BY DEF Lively
<1> QED BY <1>1 DEF Status

\* Each event lws finds is a stutter, but for the peer's going away.
LEMMA EventRefines ==
    ASSUME ConstantsAssumption, ChannelInv, NEW c \in Conns, LwsEvent(c)
    PROVE  Channel!Next \/ UNCHANGED Channel!vars
<1>t. /\ phase \in [Conns -> {"absent", "open", "closing", "freed"}]
      /\ send_mutex \in [Conns -> {"none", "ready", "destroyed"}]
      /\ send_mutex_ready \in [Conns -> BOOLEAN]
  BY DEF ChannelInv, TableInv, TypeOK, ConnTypes
<1>i. TableInv /\ Lively
  BY DEF ChannelInv
<1>0. lws_pc = "service" /\ UNCHANGED <<accepted, wire, send_mutex_ready>>
  BY Zenon DEF LwsEvent, EstablishedRefused, EstablishedInitFailed,
     EstablishedMatched, WriteableBusy, WriteableEmpty, WriteablePop, Flush,
     Receive, Disconnect, vars
<1>1. CASE Disconnect(c)
  <2>1. /\ phase[c] = "open" /\ UNCHANGED <<phase, send_mutex>>
        /\ lws_pc' = "closed" /\ lws_conn' = c
    BY <1>1 DEF Disconnect, LwsTo
  <2>2. \A d \in Conns : d # c => Status(d)' = Status(d)
    BY <1>0, <2>1 DEF Status, Doomed
  <2>3. CASE send_mutex_ready[c]
    <3>1. Status(c) = "open"
      BY <1>i, <1>0, <2>1, <2>3, OpenStatus DEF Doomed
    <3>2. send_mutex[c] # "destroyed"
      BY <1>i, <2>1, <2>3 DEF Lively
    <3>3. Status(c)' = "closing"
      BY <1>0, <2>1, <2>3, <3>2 DEF Status, Doomed
    <3>4. Channel!Become(c, "open", "closing")
      BY <1>0, <2>2, <3>1, <3>3, Becomes
    <3> QED BY <3>4 DEF Channel!Next
  <2>4. CASE ~send_mutex_ready[c]
    <3>1. Status(c)' = Status(c)
      BY <1>0, <2>4 DEF Status
    <3> QED BY <1>0, <2>2, <3>1, Stutters
  <2> QED BY <2>3, <2>4
<1>2. CASE EstablishedRefused(c) \/ EstablishedMatched(c)
           \/ \E m \in {"none", "destroyed"} : EstablishedInitFailed(c, m)
  <2>1. /\ phase[c] = "absent" /\ phase' = [phase EXCEPT ![c] = "open"]
        /\ \E m : send_mutex' = [send_mutex EXCEPT ![c] = m]
        /\ lws_conn' = c
    <3>1. send_mutex = [send_mutex EXCEPT ![c] = send_mutex[c]]
      BY <1>t
    <3> QED BY <1>2, <3>1, Zenon DEF EstablishedRefused, EstablishedMatched,
               EstablishedInitFailed, LwsTo
  <2>2. ~send_mutex_ready[c]
    BY <1>i, <2>1 DEF TableInv, Lived
  <2>3. Status(c)' = Status(c)
    BY <1>0, <2>2 DEF Status
  <2>4. ASSUME NEW d \in Conns, d # c PROVE Status(d)' = Status(d)
    <3>1. phase'[d] = phase[d] /\ send_mutex'[d] = send_mutex[d]
      BY <1>t, <2>1, <2>4
    <3> QED BY <1>0, <2>1, <2>4, <3>1 DEF Status, Doomed
  <2> QED BY <1>0, <2>3, <2>4, Stutters
<1>3. CASE WriteableBusy(c) \/ WriteableEmpty(c) \/ WriteablePop(c) \/ Flush(c)
           \/ Receive(c)
  <2>1. /\ UNCHANGED <<phase, send_mutex>>
        /\ lws_pc' \in {"service", "write", "on_message"}
    BY <1>0, <1>3 DEF WriteableBusy, WriteableEmpty, WriteablePop, Flush,
                      Receive, LwsTo, vars
  <2>2. \A d \in Conns : Status(d)' = Status(d)
    BY <1>0, <2>1 DEF Status, Doomed
  <2> QED BY <1>0, <2>2, Stutters
<1> QED BY <1>1, <1>2, <1>3 DEF LwsEvent

\* Each step of a callback is a delivery, a move in the life of its
\* connection, or a stutter.
LEMMA LwsRefines ==
    ASSUME ConstantsAssumption, ChannelInv, LwsStep
    PROVE  Channel!Next \/ UNCHANGED Channel!vars
<1>t. /\ phase \in [Conns -> {"absent", "open", "closing", "freed"}]
      /\ send_mutex \in [Conns -> {"none", "ready", "destroyed"}]
      /\ send_mutex_ready \in [Conns -> BOOLEAN]
  BY DEF ChannelInv, TableInv, TypeOK, ConnTypes
<1>i. TableInv /\ Lively /\ LwsShape
  BY DEF ChannelInv, TableInv
<1>c. PICK c \in Conns : c = lws_conn
  BY <1>i DEF LwsShape, LwsStep, Register, WriteTaken, WriteFailed, HasMore,
     ClosedRemove, ClosedDrain, ClosedDestroy, Free, CallbackReturn,
     InCallback, Callbacks
<1>1. ASSUME NEW b \in BOOLEAN, WriteTaken(b)
      PROVE  Channel!Next \/ UNCHANGED Channel!vars
  <2>1. /\ UNCHANGED <<connVars, accepted>> /\ lws_pc = "write"
        /\ wire' = [wire EXCEPT ![c] = Append(@, lws_msg)]
        /\ lws_pc' = "has_more" /\ phase[c] = "open"
    BY <1>c, <1>i, <1>1 DEF WriteTaken, LwsTo, LwsShape
  <2>2. \A d \in Conns : Status(d)' = Status(d)
    BY <2>1 DEF Status, Doomed
  <2>3. Status(c) = "open"
    <3>1. send_mutex_ready[c]
      BY <1>c, <1>i, <2>1 DEF Lively
    <3> QED BY <1>c, <1>i, <2>1, <3>1, OpenStatus DEF Doomed
  <2>4. /\ Len(wire[c]) < Len(accepted[c])
        /\ accepted[c][Len(wire[c]) + 1] = lws_msg
    BY <1>c, <2>1, NextIsWritten DEF ChannelInv
  <2>5. Channel!Deliver(c)
    BY <1>c, <2>1, <2>2, <2>3, <2>4 DEF Channel!Deliver
  <2> QED BY <1>c, <2>5 DEF Channel!Next
<1>2. CASE Register
  <2>1. /\ UNCHANGED <<phase, send_mutex, accepted, wire>>
        /\ send_mutex_ready' = [send_mutex_ready EXCEPT ![c] = TRUE]
        /\ lws_pc' = "on_connect" /\ lws_pc = "register"
        /\ phase[c] = "open" /\ ~send_mutex_ready[c]
        /\ send_mutex[c] = "ready"
    BY <1>c, <1>i, <1>2 DEF Register, LwsTo, LwsShape
  <2>2. Status(c) = "absent" /\ Status(c)' = "open"
    BY <1>t, <1>c, <2>1 DEF Status, Doomed
  <2>3. \A d \in Conns : d # c => Status(d)' = Status(d)
    BY <1>t, <1>c, <2>1 DEF Status, Doomed
  <2>4. Channel!Become(c, "absent", "open")
    BY <1>c, <2>1, <2>2, <2>3, Becomes
  <2> QED BY <1>c, <2>4 DEF Channel!Next
<1>3. CASE WriteFailed
  <2>1. /\ UNCHANGED <<connVars, accepted, wire>> /\ lws_pc = "write"
        /\ lws_pc' = "on_error" /\ lws_conn' = c /\ phase[c] = "open"
    BY <1>c, <1>i, <1>3 DEF WriteFailed, LwsTo, LwsShape
  <2>2. send_mutex_ready[c]
    BY <1>c, <1>i, <2>1 DEF Lively
  <2>3. send_mutex[c] # "destroyed"
    BY <1>c, <1>i, <2>1, <2>2 DEF Lively
  <2>4. Status(c) = "open" /\ Status(c)' = "closing"
    BY <1>c, <2>1, <2>2, <2>3 DEF Status, Doomed
  <2>5. \A d \in Conns : d # c => Status(d)' = Status(d)
    BY <1>c, <2>1 DEF Status, Doomed
  <2>6. Channel!Become(c, "open", "closing")
    BY <1>c, <2>1, <2>4, <2>5, Becomes
  <2> QED BY <1>c, <2>6 DEF Channel!Next
<1>4. CASE ClosedDestroy
  <2>1. /\ UNCHANGED <<phase, send_mutex_ready, accepted, wire>>
        /\ send_mutex' = [send_mutex EXCEPT ![c] = "destroyed"]
        /\ lws_pc = "destroy" /\ lws_pc' \in {"on_close", "free"}
        /\ lws_conn' = c /\ phase[c] = "closing"
    BY <1>c, <1>i, <1>4 DEF ClosedDestroy, LwsTo, LwsShape
  <2>2. \A d \in Conns : d # c => Status(d)' = Status(d)
    BY <1>t, <1>c, <2>1 DEF Status, Doomed
  <2>3. CASE send_mutex_ready[c]
    <3>1. send_mutex[c] = "ready"
      BY <1>c, <1>i, <2>1, <2>3 DEF Lively
    <3>2. Status(c) = "closing" /\ Status(c)' = "gone"
      BY <1>t, <1>c, <2>1, <2>3, <3>1 DEF Status, Doomed
    <3>3. Channel!Become(c, "closing", "gone")
      BY <1>c, <2>1, <2>2, <3>2, Becomes
    <3> QED BY <1>c, <3>3 DEF Channel!Next
  <2>4. CASE ~send_mutex_ready[c]
    <3>1. Status(c)' = Status(c)
      BY <2>1, <2>4 DEF Status
    <3> QED BY <1>c, <2>1, <2>2, <3>1, Stutters
  <2> QED BY <2>3, <2>4
<1>5. CASE ClosedRemove \/ Free
  <2>1. /\ UNCHANGED <<send_mutex_ready, send_mutex, accepted, wire>>
        /\ \E p \in {"closing", "freed"} : phase' = [phase EXCEPT ![c] = p]
        /\ Doomed(c) /\ lws_pc' \in {"drain", "service"}
    BY <1>c, <1>i, <1>5 DEF ClosedRemove, Free, LwsTo, LwsReturn, Doomed, LwsShape
  <2>2. Doomed(c)'
    BY <1>t, <1>c, <2>1 DEF Doomed
  <2>3. \A d \in Conns : d # c => (Doomed(d)' <=> Doomed(d))
    BY <1>t, <1>c, <2>1 DEF Doomed
  <2>4. \A d \in Conns : Status(d)' = Status(d)
    <3> SUFFICES ASSUME NEW d \in Conns PROVE Status(d)' = Status(d)
      OBVIOUS
    <3>1. Doomed(d)' <=> Doomed(d)
      BY <2>1, <2>2, <2>3
    <3> QED BY <2>1, <3>1 DEF Status
  <2> QED BY <2>1, <2>4, Stutters
<1>6. CASE HasMore \/ ClosedDrain
  <2>1. /\ UNCHANGED <<connVars, accepted, wire>>
        /\ lws_pc \in {"has_more", "drain"} /\ lws_pc' \in {"service", "destroy"}
    BY <1>6 DEF HasMore, ClosedDrain, LwsTo, LwsReturn
  <2>2. \A d \in Conns : Status(d)' = Status(d)
    BY <2>1 DEF Status, Doomed
  <2> QED BY <2>1, <2>2, Stutters
<1>7. CASE CallbackReturn
  <2>1. UNCHANGED <<connVars, accepted, wire>>
    BY <1>7 DEF CallbackReturn
  <2>2. \A d \in Conns : (Doomed(d)' <=> Doomed(d))
    <3>1. CASE lws_pc \in {"on_connect", "on_message"}
               /\ lws_pc' = "service"
      BY <2>1, <3>1 DEF Doomed
    <3>2. CASE lws_pc = "on_error" /\ lws_pc' = "closed" /\ lws_conn' = c
      BY <1>c, <2>1, <3>2 DEF Doomed
    <3>3. CASE lws_pc = "on_close" /\ lws_pc' = "free"
      BY <2>1, <3>3 DEF Doomed
    <3> QED BY <1>c, <1>7, <3>1, <3>2, <3>3 DEF CallbackReturn, LwsTo, LwsReturn
  <2>3. \A d \in Conns : Status(d)' = Status(d)
    BY <2>1, <2>2 DEF Status
  <2> QED BY <2>1, <2>3, Stutters
<1> QED BY <1>1, <1>2, <1>3, <1>4, <1>5, <1>6, <1>7 DEF LwsStep

\* A step of a call accepts a message or is a stutter.
LEMMA CallRefines ==
    ASSUME ConstantsAssumption, ChannelInv, NEW t \in Threads,
           ApiCall(t) \/ CallStep(t), [Next]_vars
    PROVE  Channel!Next \/ UNCHANGED Channel!vars
<1>1. \A d \in Conns : Status(d)' = Status(d)
  BY CallFrame DEF Status, Doomed
<1>2. CASE Push(t)
  <2> DEFINE c == conn[t]
  <2>1. /\ c \in Conns /\ msg[t] \in Msgs /\ send_mutex[c] = "ready"
        /\ accepted' = [accepted EXCEPT ![c] = Append(@, msg[t])]
        /\ UNCHANGED wire /\ queue_msg_count[c] < WS_MAX_QUEUE_MSGS
    <3>1. queue_msg_count \in [Conns -> Int] /\ WS_MAX_QUEUE_MSGS \in Nat
      BY DEF ChannelInv, TableInv, TypeOK, QueueTypes, ConstantsAssumption
    <3> QED BY <1>2, <3>1
            DEF Push, QueueFull, ChannelInv, TableInv, CallShape
  <2>2. send_mutex_ready[c]
    BY <1>2 DEF Push, ChannelInv, Lively
  <2>3. Status(c) \in {"open", "closing"}
    BY <2>1, <2>2 DEF Status
  <2>4. Len(accepted[c]) - Len(wire[c]) < WS_MAX_QUEUE_MSGS + 1
    <3>1. /\ accepted \in [Conns -> Seq(Msgs)] /\ wire \in [Conns -> Seq(Msgs)]
          /\ queue_msg_count \in [Conns -> Int] /\ WS_MAX_QUEUE_MSGS \in Nat
      BY DEF ChannelInv, TableInv, TypeOK, QueueTypes, ConstantsAssumption
    <3>2. accepted[c] \in Seq(Msgs) /\ wire[c] \in Seq(Msgs)
      BY <2>1, <3>1
    <3>3. Len(accepted[c]) \in Nat /\ Len(wire[c]) \in Nat
      BY <3>2, LenProperties
    <3>4. PICK m, n \in Nat, q \in Int :
              m = Len(accepted[c]) /\ n = Len(wire[c])
              /\ q = queue_msg_count[c]
      BY <2>1, <3>1, <3>3
    <3>5. m <= n + q + 1 /\ q < WS_MAX_QUEUE_MSGS
      BY <2>1, <3>4 DEF ChannelInv, Owed
    <3>6. m - n < WS_MAX_QUEUE_MSGS + 1
      BY ONLY <3>1, <3>5, m \in Nat, n \in Nat, q \in Int
    <3> QED BY <3>4, <3>6
  <2>5. Channel!Accept(c, msg[t])
    BY <1>1, <2>1, <2>3, <2>4 DEF Channel!Accept
  <2> QED BY <2>1, <2>5 DEF Channel!Next
<1>3. CASE ~Push(t)
  <2>1. UNCHANGED <<accepted, wire>>
    BY <1>3, Zenon DEF ApiCall, papago_ws_send, papago_ws_send_binary,
       papago_ws_broadcast, papago_ws_close, Begin, CallStep, UseAfterFree,
       LockDestroyed, CloseReason, Faults, Acquire, AcquireRefused,
       PushNoMemory, PushFull, Notify, Release, BroadcastLock, BroadcastVisit,
       BroadcastUnlock
  <2> QED BY <1>1, <2>1, Stutters
<1> QED BY <1>2, <1>3

\* What the refinement rests on holds in every state: the tables and the
\* counters are right, messages keep their order, and only live connections
\* have been given any.
THEOREM ChannelInvariant == Spec => []ChannelInv
<1>1. Init => Lively /\ Fifo /\ Owed
  <2> SUFFICES ASSUME ConstantsAssumption, Init PROVE Lively /\ Fifo /\ Owed
    BY ConstantsAssumption
  <2>1. Lively
    BY DEF Init, Lively
  <2>2. \A c \in Conns : Doomed(c) /\ wire[c] = <<>> /\ accepted[c] = <<>>
                         /\ queue_msg_count[c] = 0
    BY DEF Init, Doomed
  <2>3. IsPrefix(<<>>, <<>>)
    BY DEF IsPrefix
  <2>4. Fifo
    BY <2>2, <2>3, Zenon DEF Fifo
  <2>5. Owed
    BY <2>2 DEF Owed
  <2> QED BY <2>1, <2>4, <2>5
<1>2. TableInv /\ QueueCounted /\ (Lively /\ Fifo /\ Owed) /\ [Next]_vars
          => (Lively /\ Fifo /\ Owed)'
  BY ConstantsAssumption, LivelyStep, FifoStep, OwedStep
<1>3. TableInv /\ QueueCounted /\ (Lively /\ Fifo /\ Owed) => ChannelInv
  BY DEF ChannelInv
<1> QED BY <1>1, <1>2, <1>3, TableInvariant, QueueIsCounted, PTL DEF Spec

\* What lws has written of a connection is a prefix of what its calls queued, and
\* the rest is in hand or queued in that order: send_queue_push and _pop neither
\* lose, double nor reorder a message of an open connection.
THEOREM InOrderAndOnce == Spec => []Fifo
<1>1. ChannelInv => Fifo
  BY DEF ChannelInv
<1> QED BY <1>1, ChannelInvariant, PTL

\* The queues, locks and callbacks implement the bounded FIFO channel of
\* WsChannel, for every number of connections, threads and messages.
THEOREM ImplementsChannel == Spec => ChannelSpec
<1>1. Init => Channel!Init
  BY DEF Init, Channel!Init, Status
<1>2. ChannelInv /\ [Next]_vars => [Channel!Next]_(Channel!vars)
  <2> SUFFICES ASSUME ConstantsAssumption, ChannelInv, [Next]_vars
               PROVE  Channel!Next \/ UNCHANGED Channel!vars
    BY ConstantsAssumption
  <2>1. CASE UNCHANGED vars
    <3>1. \A d \in Conns : Status(d)' = Status(d)
      BY <2>1 DEF vars, Status, Doomed
    <3> QED BY <2>1, <3>1, Stutters DEF vars
  <2>2. CASE ~UNCHANGED vars
    <3>1. \/ LwsStep \/ \E c \in Conns : LwsEvent(c)
          \/ \E t \in Threads : ApiCall(t) \/ CallStep(t)
      BY <2>2 DEF Next, Step, Undefined, PollTimeout
    <3> QED BY <3>1, EventRefines, LwsRefines, CallRefines
  <2> QED BY <2>1, <2>2
<1> QED BY <1>1, <1>2, ChannelInvariant, PTL DEF Spec, ChannelSpec,
           Channel!Spec

-----------------------------------------------------------------------------
\* From the drain of CLOSED on, a connection's queue is empty.
Drained ==
    \A c \in Conns :
        \/ phase[c] = "freed"
        \/ lws_conn = c /\ lws_pc \in {"destroy", "on_close", "free"}
        => queue[c] = <<>>

\* Drained is kept by every step when no call reaches a connection that is
\* closing.
LEMMA DrainedStep == ASSUME ConstantsAssumption, TableInv, LoopInv, Lively,
                            Drained, [Next]_vars
                     PROVE  Drained'
<1> SUFFICES ASSUME NEW d \in Conns,
                    \/ phase'[d] = "freed"
                    \/ /\ lws_conn' = d
                       /\ lws_pc' \in {"destroy", "on_close", "free"}
             PROVE  queue'[d] = <<>>
  BY DEF Drained
<1>t. /\ queue \in [Conns -> Seq(Msgs)]
      /\ phase \in [Conns -> {"absent", "open", "closing", "freed"}]
  BY DEF TableInv, TypeOK, QueueTypes, ConnTypes
<1>0. \/ phase[d] = "freed"
      \/ lws_conn = d /\ lws_pc \in {"destroy", "on_close", "free"}
      => queue[d] = <<>>
  BY DEF Drained
<1>1. ASSUME NEW c \in Conns, LwsEvent(c) PROVE queue'[d] = <<>>
  <2>1. phase[d] = "freed"
    BY <1>t, <1>1 DEF LwsEvent, EstablishedRefused, EstablishedInitFailed,
       EstablishedMatched, WriteableBusy, WriteableEmpty, WriteablePop, Flush,
       Receive, Disconnect, LwsTo, vars
  <2>2. CASE WriteablePop(c)
    BY <1>t, <1>0, <2>1, <2>2 DEF WriteablePop
  <2>3. CASE ~WriteablePop(c)
    <3>1. UNCHANGED queue
      BY <1>1, <2>3, Zenon DEF LwsEvent, EstablishedRefused,
         EstablishedInitFailed, EstablishedMatched, WriteableBusy,
         WriteableEmpty, Flush, Receive, Disconnect, vars
    <3> QED BY <1>0, <2>1, <3>1
  <2> QED BY <2>2, <2>3
<1>2. ASSUME LwsStep PROVE queue'[d] = <<>>
  <2>0. lws_pc # "service" => lws_conn \in Conns
    BY DEF TableInv, LwsShape
  <2>1. CASE ClosedDrain
    <3>1. CASE d = lws_conn
      BY <1>t, <2>1, <3>1 DEF ClosedDrain, Lively
    <3>2. CASE d # lws_conn
      BY <1>t, <1>0, <2>0, <2>1, <3>2 DEF ClosedDrain, LwsTo
    <3> QED BY <3>1, <3>2
  <2>2. CASE ~ClosedDrain
    <3>1. UNCHANGED queue
      BY <1>2, <2>2, Zenon DEF LwsStep, Register, WriteTaken, WriteFailed,
         HasMore, ClosedRemove, ClosedDestroy, Free, CallbackReturn
    <3>2. \/ phase[d] = "freed"
          \/ lws_conn = d /\ lws_pc \in {"destroy", "on_close", "free"}
      BY <1>t, <1>2, <2>0, <2>2 DEF LwsStep, Register, WriteTaken,
         WriteFailed, HasMore, ClosedRemove, ClosedDestroy, Free,
         CallbackReturn, LwsTo, LwsReturn
    <3> QED BY <1>0, <3>1, <3>2
  <2> QED BY <2>1, <2>2
<1>3. ASSUME NEW t \in Threads, ApiCall(t) \/ CallStep(t)
      PROVE  queue'[d] = <<>>
  <2>1. queue[d] = <<>> /\ phase[d] # "open"
    <3>1. UNCHANGED <<lwsVars, phase>>
      BY <1>3, CallFrame
    <3> QED BY <1>0, <3>1 DEF TableInv, LwsShape
  <2>2. CASE Push(t)
    <3>1. phase[conn[t]] = "open"
      BY <2>2, ReachUsable DEF Push
    <3> QED BY <1>t, <2>1, <2>2, <3>1 DEF Push
  <2>3. CASE ~Push(t)
    <3>1. UNCHANGED queue
      BY <1>3, <2>3, Zenon DEF ApiCall, papago_ws_send, papago_ws_send_binary,
         papago_ws_broadcast, papago_ws_close, Begin, CallStep, UseAfterFree,
         LockDestroyed, CloseReason, Faults, Acquire, AcquireRefused,
         PushNoMemory, PushFull, Notify, Release, BroadcastLock,
         BroadcastVisit, BroadcastUnlock
    <3> QED BY <2>1, <3>1
  <2> QED BY <2>2, <2>3
<1>4. CASE UNCHANGED vars
  BY <1>0, <1>4 DEF vars
<1> QED BY <1>1, <1>2, <1>3, <1>4 DEF Next, Step, Undefined, PollTimeout

\* With handles used by callbacks alone, no message is queued on a connection
\* after CLOSED drained it, so lws frees nothing that still holds one.
THEOREM NothingLeaks == DirectSenders = {} => (Spec => []NoLeak)
<1> SUFFICES ASSUME DirectSenders = {} PROVE Spec => []NoLeak
  OBVIOUS
<1>1. Init => Drained
  BY DEF Init, Drained
<1>2. TableInv /\ LoopInv /\ ChannelInv /\ Drained /\ [Next]_vars => Drained'
  BY ConstantsAssumption, DrainedStep DEF ChannelInv
<1>3. Drained => NoLeak
  BY DEF Drained, NoLeak
<1> QED BY <1>1, <1>2, <1>3, TableInvariant, LoopInvariant, ChannelInvariant,
           PTL DEF Spec
=============================================================================
