--------------------------- MODULE WsServerProofs ---------------------------
(***************************************************************************)
(* Proofs about WsServer for every set of connections, threads and         *)
(* messages and every value of the limits: the table of connections holds  *)
(* what it should (TableInv, of which each part needs the others), and the *)
(* queues' two counters agree with the queues.  The byte counter is        *)
(* compared with a sum over the queue, a recursive function: the lemmas    *)
(* about it are by induction over the queue's length.                      *)
(***************************************************************************)
EXTENDS WsServer, WellFoundedInduction, TLAPS

USE DEF Threads, connVars, queueVars, tableVars, pollVars, lwsVars, callVars,
        histVars

\* Leaving a push keeps the types of the call's registers.
LEMMA AfterPushTypes == ASSUME CallTypes, NEW t \in Threads, AfterPush(t)
                        PROVE  CallTypes'
<1> USE DEF CallTypes, CallPcs
<1>1. CASE CallTo(t, "release")
  BY <1>1 DEF CallTo
<1>2. CASE CallTo(t, "next")
  BY <1>2 DEF CallTo
<1>3. CASE Return(t)
  BY <1>3 DEF Return
<1> QED BY <1>1, <1>2, <1>3 DEF AfterPush

\* A table of the same entries, none listed twice if none was before, and
\* without c.
Thinned(w, table, c, T) ==
    /\ w \in Seq(T)
    /\ Len(w) <= Len(table)
    /\ \A i \in 1 .. Len(w) : \E j \in 1 .. Len(table) : w[i] = table[j]
    /\ (\A i, j \in 1 .. Len(table) : table[i] = table[j] => i = j) =>
           /\ \A i, j \in 1 .. Len(w) : w[i] = w[j] => i = j
           /\ \A i \in 1 .. Len(w) : w[i] # c

\* What CLOSED leaves of the table.
LEMMA WithoutThins ==
    ASSUME NEW T, NEW table \in Seq(T), NEW c, NEW w, w = Without(table, c)
    PROVE  Thinned(w, table, c, T)
<1>n. Len(table) \in Nat
  OBVIOUS
<1>1. CASE \A i \in 1 .. Len(table) : table[i] # c
  <2>1. w = table
    BY <1>1 DEF Without
  <2> QED BY <1>n, <1>1, <2>1 DEF Thinned
<1>2. CASE \E i \in 1 .. Len(table) : table[i] = c
  <2> DEFINE Passed(i) == \E j \in 1 .. i : table[j] = c
             f == [i \in 1 .. (Len(table) - 1) |->
                      IF Passed(i) THEN table[i + 1] ELSE table[i]]
  <2>1. Len(table) - 1 \in Nat
    BY <1>n, <1>2
  <2>2. \A i \in 1 .. (Len(table) - 1) :
            f[i] \in T /\ \E j \in 1 .. Len(table) : f[i] = table[j]
    BY <2>1
  <2>3. f \in Seq(T) /\ Len(f) = Len(table) - 1
    BY <2>1, <2>2
  <2>4. w = f
    BY <1>2 DEF Without
  <2>5. ASSUME \A i, j \in 1 .. Len(table) : table[i] = table[j] => i = j
        PROVE  /\ \A i, j \in 1 .. (Len(table) - 1) : f[i] = f[j] => i = j
               /\ \A i \in 1 .. (Len(table) - 1) : f[i] # c
    <3>1. \A i, j \in 1 .. (Len(table) - 1) : i <= j /\ Passed(i) => Passed(j)
      BY <2>1
    <3>2. \A i \in 1 .. (Len(table) - 1) : ~Passed(i) => table[i] # c
      BY <2>1
    <3>3. \A i \in 1 .. (Len(table) - 1) : Passed(i) => table[i + 1] # c
      BY <2>1, <2>5
    <3> HIDE DEF Passed
    <3> QED BY <2>1, <2>5, <3>1, <3>2, <3>3
  <2> HIDE DEF f
  <2> QED BY <1>n, <2>1, <2>2, <2>3, <2>4, <2>5 DEF Thinned
<1> QED BY <1>1, <1>2

\* A part of the state no variable of which changes keeps its types.
LEMMA KeptTypes ==
    /\ ConnTypes /\ UNCHANGED connVars => ConnTypes'
    /\ QueueTypes /\ UNCHANGED <<queueVars, histVars>> => QueueTypes'
    /\ LwsTypes /\ UNCHANGED <<lwsVars, pollVars>> => LwsTypes'
    /\ CallTypes /\ UNCHANGED callVars => CallTypes'
BY DEF ConnTypes, QueueTypes, LwsTypes, CallTypes

\* Types are kept by every step once a call in progress has its parts.
LEMMA TypeStep == ASSUME ConstantsAssumption, TypeOK, CallShape, LwsShape,
                         [Next]_vars
                  PROVE  TypeOK'
<1>q. queue \in [Conns -> Seq(Msgs)]
  BY DEF TypeOK, QueueTypes
<1>n. queue_msg_count \in [Conns -> Int]
  BY DEF TypeOK, QueueTypes
<1>b. queue_byte_count \in [Conns -> Int]
  BY DEF TypeOK, QueueTypes
<1>a. accepted \in [Conns -> Seq(Msgs)]
  BY DEF TypeOK, QueueTypes
<1>w. wire \in [Conns -> Seq(Msgs)]
  BY DEF TypeOK, QueueTypes
<1>s. ws_connections \in Seq(Conns)
  BY DEF TypeOK
<1>l. calls \in 0 .. MaxCalls /\ MaxCalls \in Nat
  BY DEF TypeOK, ConstantsAssumption
<1> USE DEF TypeOK, ConnTypes, QueueTypes, LwsTypes, CallTypes, CallPcs,
            LwsPcs, Callbacks, LwsTo, LwsReturn, CallTo, Return
<1>1. ASSUME NEW c \in Conns, LwsEvent(c) PROVE TypeOK'
  <2>1. CASE EstablishedRefused(c)
    BY <2>1 DEF EstablishedRefused
  <2>2. ASSUME NEW m \in {"none", "destroyed"}, EstablishedInitFailed(c, m)
        PROVE  TypeOK'
    BY <2>2 DEF EstablishedInitFailed
  <2>3. CASE EstablishedMatched(c)
    BY <2>3 DEF EstablishedMatched
  <2>4. CASE WriteableEmpty(c)
    BY <2>4 DEF WriteableEmpty
  <2>5. CASE WriteablePop(c)
    <3> HIDE DEF TypeOK, ConnTypes, QueueTypes, LwsTypes, CallTypes
    <3>1. Head(queue[c]) \in Msgs /\ Tail(queue[c]) \in Seq(Msgs)
      BY <1>q, <2>5 DEF WriteablePop
    <3>2. queue' \in [Conns -> Seq(Msgs)]
      BY <1>q, <2>5, <3>1 DEF WriteablePop
    <3>3. queue_msg_count' \in [Conns -> Int]
      BY <1>n, <2>5 DEF WriteablePop
    <3>4. queue_byte_count' \in [Conns -> Int]
      <4>1. MsgLen[Head(queue[c])] \in Int
        BY <3>1 DEF ConstantsAssumption
      <4> QED BY <1>b, <2>5, <4>1 DEF WriteablePop
    <3>5. QueueTypes'
      BY <2>5, <3>2, <3>3, <3>4 DEF WriteablePop, TypeOK, QueueTypes
    <3>6. LwsTypes'
      BY <2>5, <3>1 DEF WriteablePop, TypeOK, LwsTypes
    <3> QED BY <2>5, <3>5, <3>6, KeptTypes DEF WriteablePop, TypeOK
  <2>6. CASE Flush(c)
    BY <2>6 DEF Flush
  <2>7. CASE Receive(c)
    BY <2>7 DEF Receive
  <2>8. CASE Disconnect(c)
    BY <2>8 DEF Disconnect
  <2>9. CASE WriteableBusy(c)
    BY <2>9 DEF WriteableBusy, vars
  <2> QED BY <1>1, <2>1, <2>2, <2>3, <2>4, <2>5, <2>6, <2>7, <2>8, <2>9
          DEF LwsEvent
<1>2. ASSUME LwsStep PROVE TypeOK'
  <2>0. lws_pc # "service" => lws_conn \in Conns
    BY DEF LwsShape
  <2>1. CASE Register
    <3> HIDE DEF TypeOK, ConnTypes, QueueTypes, LwsTypes, CallTypes
    <3>1. lws_conn \in Conns
      BY <2>0, <2>1 DEF Register
    <3>2. ws_connections' \in Seq(Conns)
      <4>1. ws_connections \in Seq(Conns)
        BY DEF TypeOK
      <4> QED BY <2>1, <3>1, <4>1 DEF Register
    <3>3. ConnTypes'
      BY <2>1, <3>1 DEF Register, TypeOK, ConnTypes
    <3>4. LwsTypes'
      BY <2>1, <3>1 DEF Register, TypeOK, LwsTypes
    <3> QED BY <2>1, <3>1, <3>2, <3>3, <3>4, KeptTypes DEF Register, TypeOK
  <2>2. ASSUME NEW b \in BOOLEAN, WriteTaken(b) PROVE TypeOK'
    <3> HIDE DEF TypeOK, ConnTypes, QueueTypes, LwsTypes, CallTypes
    <3>1. lws_conn \in Conns /\ lws_msg \in Msgs
      BY <2>0, <2>2 DEF WriteTaken, LwsShape
    <3>2. QueueTypes'
      <4>1. wire' \in [Conns -> Seq(Msgs)]
        BY <1>w, <2>2, <3>1 DEF WriteTaken
      <4> QED BY <2>2, <4>1 DEF WriteTaken, TypeOK, QueueTypes
    <3>3. pollout' \in [Conns -> BOOLEAN] /\ partial' \in [Conns -> BOOLEAN]
      BY <2>2, <3>1 DEF WriteTaken, TypeOK, LwsTypes
    <3>4. LwsTypes'
      BY <2>2, <3>1, <3>3 DEF WriteTaken, TypeOK, LwsTypes
    <3> QED BY <2>2, <3>2, <3>4, KeptTypes DEF WriteTaken, TypeOK
  <2>3. CASE WriteFailed
    BY <2>3 DEF WriteFailed
  <2>4. CASE HasMore
    BY <2>0, <2>4 DEF HasMore
  <2>5. CASE ClosedRemove
    <3> HIDE DEF TypeOK, ConnTypes, QueueTypes, LwsTypes, CallTypes
    <3>1. lws_conn \in Conns
      BY <2>0, <2>5 DEF ClosedRemove
    <3>2. ws_connections' \in Seq(Conns)
      BY <2>5, WithoutThins DEF ClosedRemove, TypeOK, Thinned
    <3>3. ConnTypes'
      BY <2>5, <3>1 DEF ClosedRemove, TypeOK, ConnTypes
    <3>4. LwsTypes'
      BY <2>5, <3>1 DEF ClosedRemove, TypeOK, LwsTypes
    <3> QED BY <2>5, <3>2, <3>3, <3>4, KeptTypes DEF ClosedRemove, TypeOK
  <2>6. CASE ClosedDrain
    <3> HIDE DEF TypeOK, ConnTypes, QueueTypes, LwsTypes, CallTypes
    <3>1. lws_conn \in Conns
      BY <2>0, <2>6 DEF ClosedDrain
    <3>2. queue' \in [Conns -> Seq(Msgs)]
      BY <1>q, <2>6, <3>1 DEF ClosedDrain
    <3>3. QueueTypes'
      BY <2>6, <3>2 DEF ClosedDrain, TypeOK, QueueTypes
    <3>4. LwsTypes'
      BY <2>6, <3>1 DEF ClosedDrain, TypeOK, LwsTypes
    <3> QED BY <2>6, <3>3, <3>4, KeptTypes DEF ClosedDrain, TypeOK
  <2>7. CASE ClosedDestroy
    BY <2>0, <2>7 DEF ClosedDestroy
  <2>8. CASE Free
    BY <2>0, <2>8 DEF Free
  <2>9. CASE CallbackReturn
    BY <2>9 DEF CallbackReturn, InCallback
  <2> QED BY <1>2, <2>1, <2>2, <2>3, <2>4, <2>5, <2>6, <2>7, <2>8, <2>9
          DEF LwsStep
<1>3. ASSUME NEW t \in Threads, ApiCall(t) PROVE TypeOK'
  <2> HIDE DEF TypeOK, ConnTypes, QueueTypes, LwsTypes, CallTypes
  <2>1. ASSUME NEW o \in {"send", "binary", "broadcast", "close"},
               NEW m \in Msgs \cup {None}, NEW p \in CallPcs, NEW c \in Conns \cup {None},
               Begin(t, o, p, c, m)
        PROVE  TypeOK'
    <3>1. CallTypes'
      BY <2>1 DEF Begin, TypeOK, CallTypes
    <3>2. calls' \in 0 .. MaxCalls
      BY <1>l, <2>1 DEF Begin, MayCall
    <3> QED BY <2>1, <3>1, <3>2, KeptTypes DEF Begin, TypeOK
  <2> QED BY <1>3, <2>1 DEF ApiCall, papago_ws_send, papago_ws_send_binary,
                            papago_ws_broadcast, papago_ws_close
<1>4. ASSUME NEW t \in Threads, CallStep(t) PROVE TypeOK'
  <2> USE DEF AfterPush, Faults
  <2>0. /\ pc[t] \in {"acquire", "push", "notify", "release"}
             => conn[t] \in Conns
        /\ pc[t] \notin {"idle", "close"} => msg[t] \in Msgs
    BY <1>4 DEF CallShape
  <2>1. CASE UseAfterFree(t)
    BY <2>1 DEF UseAfterFree
  <2>2. CASE LockDestroyed(t)
    BY <2>2 DEF LockDestroyed
  <2>3. CASE Acquire(t)
    <3> HIDE DEF TypeOK, ConnTypes, QueueTypes, LwsTypes, CallTypes
    <3>1. ConnTypes'
      <4>1. conn[t] \in Conns /\ inflight \in [Conns -> Int]
        BY <2>0, <2>3 DEF Acquire, TypeOK, ConnTypes
      <4>2. inflight' \in [Conns -> Int]
        BY <2>3, <4>1 DEF Acquire
      <4> QED BY <2>3, <4>2 DEF Acquire, TypeOK, ConnTypes
    <3>2. CallTypes'
      BY <2>3 DEF Acquire, TypeOK, CallTypes
    <3> QED BY <2>3, <3>1, <3>2, KeptTypes DEF Acquire, TypeOK
  <2>4. CASE AcquireRefused(t)
    BY <2>0, <2>4 DEF AcquireRefused
  <2>5. CASE PushNoMemory(t)
    <3> HIDE DEF TypeOK, ConnTypes, QueueTypes, LwsTypes, CallTypes, AfterPush
    <3>1. CallTypes'
      BY <2>5, AfterPushTypes DEF PushNoMemory, TypeOK
    <3> QED BY <2>5, <3>1, KeptTypes DEF PushNoMemory, TypeOK
  <2>6. CASE PushFull(t)
    <3> HIDE DEF TypeOK, ConnTypes, QueueTypes, LwsTypes, CallTypes, AfterPush
    <3>1. CallTypes'
      BY <2>6, AfterPushTypes DEF PushFull, TypeOK
    <3> QED BY <2>6, <3>1, KeptTypes DEF PushFull, TypeOK
  <2>7. CASE Push(t)
    <3> HIDE DEF TypeOK, ConnTypes, QueueTypes, LwsTypes, CallTypes
    <3>1. conn[t] \in Conns /\ msg[t] \in Msgs /\ MsgLen[msg[t]] \in Int
      BY <2>0, <2>7 DEF Push, ConstantsAssumption
    <3>2. /\ queue' \in [Conns -> Seq(Msgs)]
          /\ accepted' \in [Conns -> Seq(Msgs)]
      BY <1>q, <1>a, <2>7, <3>1 DEF Push
    <3>3. /\ queue_msg_count' \in [Conns -> Int]
          /\ queue_byte_count' \in [Conns -> Int]
      BY <1>n, <1>b, <2>7, <3>1 DEF Push
    <3>4. QueueTypes'
      BY <2>7, <3>2, <3>3 DEF Push, TypeOK, QueueTypes
    <3>5. CallTypes'
      BY <2>7 DEF Push, TypeOK, CallTypes
    <3> QED BY <2>7, <3>4, <3>5, KeptTypes DEF Push, TypeOK
  <2>8. CASE Notify(t)
    <3> HIDE DEF TypeOK, ConnTypes, QueueTypes, LwsTypes, CallTypes, AfterPush
    <3>1. CallTypes'
      BY <2>8, AfterPushTypes DEF Notify, TypeOK
    <3>2. LwsTypes'
      BY <2>0, <2>8 DEF Notify, TypeOK, LwsTypes
    <3> QED BY <2>8, <3>1, <3>2, KeptTypes DEF Notify, TypeOK
  <2>9. CASE Release(t)
    <3> HIDE DEF TypeOK, ConnTypes, QueueTypes, LwsTypes, CallTypes
    <3>1. ConnTypes'
      <4>1. conn[t] \in Conns /\ inflight \in [Conns -> Int]
        BY <2>0, <2>9 DEF Release, TypeOK, ConnTypes
      <4>2. inflight' \in [Conns -> Int]
        BY <2>9, <4>1 DEF Release
      <4> QED BY <2>9, <4>2 DEF Release, TypeOK, ConnTypes
    <3>2. CallTypes'
      BY <2>9 DEF Release, TypeOK, CallTypes
    <3> QED BY <2>9, <3>1, <3>2, KeptTypes DEF Release, TypeOK
  <2>10. CASE BroadcastLock(t)
    BY <2>10 DEF BroadcastLock
  <2>11. CASE BroadcastVisit(t)
    <3> HIDE DEF TypeOK, ConnTypes, QueueTypes, LwsTypes, CallTypes
    <3>1. ws_connections[idx[t]] \in Conns
      <4>1. idx[t] \in Nat /\ idx[t] >= 1
        BY <2>11 DEF BroadcastVisit, CallShape, TypeOK, CallTypes
      <4> QED BY <1>s, <2>11, <4>1 DEF BroadcastVisit
    <3>2. idx' \in [Threads -> Nat]
      <4>1. idx \in [Threads -> Nat]
        BY DEF TypeOK, CallTypes
      <4> QED BY <2>11, <4>1 DEF BroadcastVisit
    <3>3. CallTypes'
      BY <2>11, <3>1, <3>2 DEF BroadcastVisit, TypeOK, CallTypes
    <3> QED BY <2>11, <3>3, KeptTypes DEF BroadcastVisit, TypeOK
  <2>12. CASE BroadcastUnlock(t)
    BY <2>12 DEF BroadcastUnlock
  <2>13. CASE CloseReason(t)
    BY <2>13 DEF CloseReason
  <2> QED BY <1>4, <2>1, <2>2, <2>3, <2>4, <2>5, <2>6, <2>7, <2>8, <2>9,
             <2>10, <2>11, <2>12, <2>13 DEF CallStep
<1>5. CASE UNCHANGED vars
  BY <1>5 DEF vars
<1> QED BY <1>1, <1>2, <1>3, <1>4, <1>5 DEF Next, Step, Undefined, PollTimeout

-----------------------------------------------------------------------------
\* The event loop leaves the registers of the calls alone, and a connection
\* that has appeared never becomes absent again.
LEMMA LwsFrame == ASSUME TypeOK, LwsShape,
                         LwsStep \/ \E c \in Conns : LwsEvent(c)
                  PROVE  /\ UNCHANGED <<callVars, ws_mutex>>
                         /\ \A d \in Conns : phase[d] # "absent"
                                                 => phase'[d] # "absent"
<1>0. phase \in [Conns -> {"absent", "open", "closing", "freed"}]
  BY DEF TypeOK, ConnTypes
<1>1. ASSUME NEW c \in Conns, LwsEvent(c)
      PROVE  /\ UNCHANGED <<callVars, ws_mutex>>
             /\ phase' = phase \/ phase' = [phase EXCEPT ![c] = "open"]
  BY <1>1, Zenon DEF LwsEvent, EstablishedRefused, EstablishedInitFailed,
     EstablishedMatched, WriteableBusy, WriteableEmpty, WriteablePop, Flush,
     Receive, Disconnect, vars
<1>2. ASSUME LwsStep
      PROVE  /\ UNCHANGED <<callVars, ws_mutex>>
             /\ \/ phase' = phase
                \/ phase' = [phase EXCEPT ![lws_conn] = "closing"]
                \/ phase' = [phase EXCEPT ![lws_conn] = "freed"]
  BY <1>2, Zenon DEF LwsStep, Register, WriteTaken, WriteFailed, HasMore,
     ClosedRemove, ClosedDrain, ClosedDestroy, Free, CallbackReturn
<1> QED BY <1>0, <1>1, <1>2

\* CallShape is kept by every step.
LEMMA CallShapeStep == ASSUME ConstantsAssumption, TypeOK, CallShape, LwsShape,
                              RegistrySafe, Lived, [Next]_vars
                       PROVE  CallShape'
<1>c. CallTypes
  BY DEF TypeOK
<1>1. CASE LwsStep \/ \E c \in Conns : LwsEvent(c)
  BY <1>1, LwsFrame DEF CallShape
<1>2. ASSUME NEW t \in Threads, ApiCall(t) PROVE CallShape'
  <2>1. ASSUME NEW o \in {"send", "binary"}, NEW p \in {"acquire", "push"},
               NEW c \in handles, NEW m \in Msgs, Begin(t, o, p, c, m),
               p = "acquire" => o = "send"
        PROVE  CallShape'
    BY <1>c, <2>1 DEF Begin, CallShape, CallTypes, Lived, TypeOK
  <2>2. ASSUME NEW m \in Msgs, Begin(t, "broadcast", "lock", None, m)
        PROVE  CallShape'
    BY <1>c, <2>2 DEF Begin, CallShape, CallTypes
  <2>3. ASSUME NEW c \in handles, Begin(t, "close", "close", c, None)
        PROVE  CallShape'
    BY <1>c, <2>3 DEF Begin, CallShape, CallTypes, Lived, TypeOK
  <2> QED BY <1>2, <2>1, <2>2, <2>3 DEF ApiCall, MaySend, papago_ws_send,
             papago_ws_send_binary, papago_ws_broadcast, papago_ws_close
<1>3. ASSUME NEW t \in Threads, CallStep(t) PROVE CallShape'
  <2> USE DEF CallShape, CallTypes
  <2>1. CASE UNCHANGED callVars /\ UNCHANGED phase
    BY <2>1
  <2>2. CASE Return(t) /\ UNCHANGED phase
    BY <1>c, <2>2 DEF Return
  <2>3. ASSUME NEW p \in CallPcs, CallTo(t, p), UNCHANGED phase,
               p \in {"push", "notify"} => pc[t] \in {"acquire", "push"},
               p = "release" => pc[t] \in {"push", "notify"} /\ op[t] = "send",
               p = "next" => op[t] = "broadcast",
               p \in {"push", "notify", "release", "next"},
               pc[t] \notin {"idle", "close"}
        PROVE  CallShape'
    BY <1>c, <2>3 DEF CallTo
  <2>4. CASE BroadcastVisit(t)
    <3>1. ws_connections[idx[t]] \in Conns
          /\ phase[ws_connections[idx[t]]] # "absent"
      <4>1. idx[t] \in Nat /\ idx[t] >= 1 /\ idx[t] <= Len(ws_connections)
        BY <1>c, <2>4 DEF BroadcastVisit
      <4>2. ws_connections \in Seq(Conns)
        BY DEF TypeOK
      <4>3. idx[t] \in 1 .. Len(ws_connections)
        BY <4>1, <4>2
      <4>4. ws_connections[idx[t]] \in Registered
        BY <4>3 DEF Registered
      <4>5. ws_connections[idx[t]] \in Conns
        BY <4>2, <4>3
      <4> QED BY <4>4, <4>5 DEF RegistrySafe
    <3> QED BY <1>c, <2>4, <3>1 DEF BroadcastVisit
  <2>5. CASE UseAfterFree(t) \/ LockDestroyed(t)
    BY <2>1, <2>5 DEF UseAfterFree, LockDestroyed, Faults
  <2>6. CASE AcquireRefused(t) \/ Release(t) \/ BroadcastUnlock(t)
              \/ CloseReason(t)
    BY <2>2, <2>6 DEF AcquireRefused, Release, BroadcastUnlock, CloseReason
  <2>7. CASE Acquire(t) \/ Push(t) \/ BroadcastLock(t)
    BY <1>c, <2>3, <2>7 DEF Acquire, Push, BroadcastLock, CallPcs
  <2>8. CASE PushNoMemory(t) \/ PushFull(t) \/ Notify(t)
    BY <1>c, <2>2, <2>3, <2>8 DEF PushNoMemory, PushFull, Notify, AfterPush,
                                  CallPcs
  <2> QED BY <1>3, <2>4, <2>5, <2>6, <2>7, <2>8 DEF CallStep
<1>4. CASE UNCHANGED vars
  BY <1>4 DEF vars, CallShape
<1> QED BY <1>1, <1>2, <1>3, <1>4 DEF Next, Step, Undefined, PollTimeout

-----------------------------------------------------------------------------
\* The calls leave alone the event loop and what belongs to it.
LEMMA CallFrame == ASSUME NEW t \in Threads, ApiCall(t) \/ CallStep(t)
                   PROVE  UNCHANGED <<lwsVars, phase, endpoint, send_mutex,
                                      send_mutex_ready, ws_connections,
                                      partial, handles>>
BY Zenon DEF ApiCall, papago_ws_send, papago_ws_send_binary,
   papago_ws_broadcast, papago_ws_close, Begin, CallStep, UseAfterFree,
   LockDestroyed, CloseReason, Faults, Acquire, AcquireRefused, PushNoMemory,
   PushFull, Push, Notify, Release, BroadcastLock, BroadcastVisit,
   BroadcastUnlock

\* LwsShape is kept by every step.
LEMMA LwsShapeStep == ASSUME ConstantsAssumption, TypeOK, LwsShape, Lived,
                             [Next]_vars
                      PROVE  LwsShape'
<1>t. ConnTypes
  BY DEF TypeOK
<1>1. ASSUME NEW c \in Conns, LwsEvent(c) PROVE LwsShape'
  <2> USE DEF LwsShape, LwsTo, ConnTypes
  <2>1. CASE EstablishedRefused(c)
    BY <1>t, <2>1 DEF EstablishedRefused
  <2>2. ASSUME NEW m \in {"none", "destroyed"}, EstablishedInitFailed(c, m)
        PROVE  LwsShape'
    BY <1>t, <2>2 DEF EstablishedInitFailed
  <2>3. CASE EstablishedMatched(c)
    BY <1>t, <2>3 DEF EstablishedMatched, Lived
  <2>4. CASE WriteableEmpty(c) \/ WriteableBusy(c) \/ Flush(c)
    BY <2>4 DEF WriteableEmpty, WriteableBusy, Flush, vars
  <2>5. CASE WriteablePop(c)
    <3>1. Head(queue[c]) \in Msgs
      <4>1. queue \in [Conns -> Seq(Msgs)]
        BY DEF TypeOK, QueueTypes
      <4> QED BY <2>5, <4>1 DEF WriteablePop
    <3> QED BY <2>5, <3>1 DEF WriteablePop
  <2>6. CASE Receive(c) \/ Disconnect(c)
    BY <2>6 DEF Receive, Disconnect
  <2> QED BY <1>1, <2>1, <2>2, <2>3, <2>4, <2>5, <2>6 DEF LwsEvent
<1>2. ASSUME LwsStep PROVE LwsShape'
  <2> USE DEF LwsShape, LwsTo, LwsReturn, ConnTypes
  <2>1. CASE Register
    BY <1>t, <2>1 DEF Register
  <2>2. ASSUME NEW b \in BOOLEAN, WriteTaken(b) PROVE LwsShape'
    BY <2>2 DEF WriteTaken
  <2>3. CASE WriteFailed \/ HasMore
    BY <2>3 DEF WriteFailed, HasMore
  <2>4. CASE ClosedRemove
    BY <1>t, <2>4 DEF ClosedRemove
  <2>5. CASE ClosedDrain \/ ClosedDestroy
    BY <1>t, <2>5 DEF ClosedDrain, ClosedDestroy
  <2>6. CASE Free
    BY <2>6 DEF Free
  <2>7. CASE CallbackReturn
    BY <2>7 DEF CallbackReturn, InCallback
  <2> QED BY <1>2, <2>1, <2>2, <2>3, <2>4, <2>5, <2>6, <2>7 DEF LwsStep
<1>3. CASE UNCHANGED <<lwsVars, phase, endpoint, send_mutex, send_mutex_ready>>
  BY <1>3 DEF LwsShape
<1>5. UNCHANGED vars => UNCHANGED <<lwsVars, phase, endpoint, send_mutex,
                                    send_mutex_ready>>
  BY DEF vars
<1> QED BY <1>1, <1>2, <1>3, <1>5, CallFrame
        DEF Next, Step, Undefined, PollTimeout

-----------------------------------------------------------------------------
\* LockHeld is kept by every step.
LEMMA LockHeldStep == ASSUME ConstantsAssumption, TypeOK, CallShape, LwsShape,
                             LockHeld, [Next]_vars
                      PROVE  LockHeld'
<1>c. CallTypes
  BY DEF TypeOK
<1>n. None \notin Threads
  BY DEF ConstantsAssumption
<1>1. CASE UNCHANGED <<callVars, ws_mutex>>
  BY <1>1 DEF LockHeld
<1>2. ASSUME NEW t \in Threads, ApiCall(t) PROVE LockHeld'
  <2>1. ASSUME NEW o, NEW p, NEW c, NEW m, Begin(t, o, p, c, m),
               o = "broadcast" => p = "lock"
        PROVE  LockHeld'
    BY <1>c, <2>1 DEF Begin, MayCall, LockHeld, CallTypes
  <2> QED BY <1>2, <2>1 DEF ApiCall, papago_ws_send, papago_ws_send_binary,
                            papago_ws_broadcast, papago_ws_close
<1>3. ASSUME NEW t \in Threads, CallStep(t) PROVE LockHeld'
  <2> USE DEF LockHeld, CallTypes, CallShape, CallTo, Return
  <2>1. CASE UseAfterFree(t) \/ LockDestroyed(t)
    BY <1>1, <2>1 DEF UseAfterFree, LockDestroyed, Faults
  <2>2. CASE Acquire(t) \/ AcquireRefused(t) \/ Release(t) \/ CloseReason(t)
    BY <1>c, <2>2 DEF Acquire, AcquireRefused, Release, CloseReason
  <2>3. CASE Push(t)
    BY <1>c, <2>3 DEF Push
  <2>4. CASE PushNoMemory(t) \/ PushFull(t) \/ Notify(t)
    BY <1>c, <2>4 DEF PushNoMemory, PushFull, Notify, AfterPush
  <2>5. CASE BroadcastLock(t)
    BY <1>c, <1>n, <2>5 DEF BroadcastLock
  <2>6. CASE BroadcastVisit(t)
    BY <1>c, <2>6 DEF BroadcastVisit
  <2>7. CASE BroadcastUnlock(t)
    BY <1>c, <1>n, <2>7 DEF BroadcastUnlock
  <2> QED BY <1>3, <2>1, <2>2, <2>3, <2>4, <2>5, <2>6, <2>7 DEF CallStep
<1>4. CASE LwsStep \/ \E c \in Conns : LwsEvent(c)
  BY <1>1, <1>4, LwsFrame
<1>5. UNCHANGED vars => UNCHANGED <<callVars, ws_mutex>>
  BY DEF vars
<1> QED BY <1>1, <1>2, <1>3, <1>4, <1>5 DEF Next, Step, Undefined, PollTimeout

-----------------------------------------------------------------------------
\* Only Register and ClosedRemove touch the table.
LEMMA TableFrame == ASSUME [Next]_vars, ~Register, ~ClosedRemove
                    PROVE  UNCHANGED ws_connections
<1>1. ASSUME NEW c \in Conns, LwsEvent(c) PROVE UNCHANGED ws_connections
  BY <1>1, Zenon DEF LwsEvent, EstablishedRefused, EstablishedInitFailed,
     EstablishedMatched, WriteableBusy, WriteableEmpty, WriteablePop, Flush,
     Receive, Disconnect, vars
<1>2. ASSUME LwsStep PROVE UNCHANGED ws_connections
  BY <1>2, Zenon DEF LwsStep, WriteTaken, WriteFailed, HasMore, ClosedDrain,
     ClosedDestroy, Free, CallbackReturn
<1>3. UNCHANGED vars => UNCHANGED ws_connections
  BY DEF vars
<1> QED BY <1>1, <1>2, <1>3, CallFrame DEF Next, Step, Undefined, PollTimeout

\* RegistrySafe is kept by every step.  A connection enters the table live and
\* once, because it was not live before; it leaves the table before anything
\* of it is torn down.
LEMMA RegistryStep == ASSUME ConstantsAssumption, TypeOK, LwsShape, Lived,
                             RegistrySafe, [Next]_vars
                      PROVE  RegistrySafe'
<1>t. ConnTypes /\ ws_connections \in Seq(Conns)
  BY DEF TypeOK
<1>1. CASE Register
  <2>1. lws_conn \in Conns /\ lws_conn \notin Registered
    BY <1>1 DEF Register, LwsShape, Lived
  <2>2. CASE Len(ws_connections) < MAX_WS_CONNECTIONS
    <3>1. ws_connections' = Append(ws_connections, lws_conn)
      BY <1>1, <2>2 DEF Register
    <3>2. /\ Len(ws_connections') = Len(ws_connections) + 1
          /\ Len(ws_connections) \in Nat
          /\ \A i \in 1 .. Len(ws_connections) :
                 ws_connections'[i] = ws_connections[i]
          /\ ws_connections'[Len(ws_connections) + 1] = lws_conn
      BY <1>t, <2>1, <3>1
    <3>3. Len(ws_connections') <= MAX_WS_CONNECTIONS
      BY <2>2, <3>2 DEF ConstantsAssumption
    <3>4. Registered' = Registered \cup {lws_conn}
      BY <3>2 DEF Registered
    <3>5. \A c \in Registered' :
              phase'[c] = "open" /\ endpoint'[c] /\ send_mutex'[c] = "ready"
      BY <1>1, <3>4 DEF Register, RegistrySafe, LwsShape
    <3>6. \A i, j \in 1 .. Len(ws_connections') :
              ws_connections'[i] = ws_connections'[j] => i = j
      BY <2>1, <3>2 DEF RegistrySafe, Registered
    <3> QED BY <3>3, <3>5, <3>6 DEF RegistrySafe
  <2>3. CASE ~(Len(ws_connections) < MAX_WS_CONNECTIONS)
    BY <1>1, <2>3 DEF Register, RegistrySafe, Registered
  <2> QED BY <2>2, <2>3
<1>2. CASE ClosedRemove
  <2>1. lws_conn \in Conns
    BY <1>2 DEF ClosedRemove, LwsShape
  <2>2. ws_connections' = Without(ws_connections, lws_conn)
    <3>1. CASE endpoint[lws_conn]
      BY <1>2, <3>1 DEF ClosedRemove
    <3>2. CASE ~endpoint[lws_conn]
      <4>1. \A i \in 1 .. Len(ws_connections) : ws_connections[i] # lws_conn
        BY <3>2 DEF RegistrySafe, Registered
      <4> QED BY <1>2, <3>2, <4>1 DEF ClosedRemove, Without
    <3> QED BY <3>1, <3>2
  <2>3. /\ ws_connections' \in Seq(Conns)
        /\ Len(ws_connections') <= Len(ws_connections)
        /\ \A i \in 1 .. Len(ws_connections') :
               \E j \in 1 .. Len(ws_connections) :
                   ws_connections'[i] = ws_connections[j]
        /\ \A i, j \in 1 .. Len(ws_connections') :
               ws_connections'[i] = ws_connections'[j] => i = j
        /\ \A i \in 1 .. Len(ws_connections') : ws_connections'[i] # lws_conn
    <3>1. PICK w : w = ws_connections'
      OBVIOUS
    <3>2. w = Without(ws_connections, lws_conn)
      BY <2>2, <3>1
    <3>3. \A i, j \in 1 .. Len(ws_connections) :
              ws_connections[i] = ws_connections[j] => i = j
      BY DEF RegistrySafe
    <3>4. /\ w \in Seq(Conns)
          /\ Len(w) <= Len(ws_connections)
          /\ \A i \in 1 .. Len(w) : \E j \in 1 .. Len(ws_connections) :
                 w[i] = ws_connections[j]
          /\ \A i, j \in 1 .. Len(w) : w[i] = w[j] => i = j
          /\ \A i \in 1 .. Len(w) : w[i] # lws_conn
      <4>1. ws_connections \in Seq(Conns)
        BY <1>t
      <4>2. Thinned(w, ws_connections, lws_conn, Conns)
        BY <3>2, <4>1, WithoutThins
      <4> QED BY <3>3, <4>2 DEF Thinned
    <3> QED BY <3>1, <3>4
  <2>4. \A c \in Registered' : c \in Registered /\ c # lws_conn
    BY <2>3 DEF Registered
  <2>5. \A c \in Registered' :
            phase'[c] = "open" /\ endpoint'[c] /\ send_mutex'[c] = "ready"
    <3>1. \A c \in Registered : c \in Conns
      BY <1>t DEF Registered
    <3> QED BY <1>t, <1>2, <2>1, <2>4, <3>1
            DEF ClosedRemove, RegistrySafe, ConnTypes
  <2>6. Len(ws_connections') <= MAX_WS_CONNECTIONS
    BY <1>t, <2>3 DEF RegistrySafe, ConstantsAssumption
  <2> QED BY <2>3, <2>5, <2>6 DEF RegistrySafe
<1>3. ASSUME ~Register, ~ClosedRemove PROVE RegistrySafe'
  <2>1. UNCHANGED ws_connections
    BY <1>3, TableFrame
  <2>2. Registered \subseteq Conns
    BY <1>t DEF Registered
  <2>3. ASSUME NEW d \in Conns, phase[d] = "open", endpoint[d],
               send_mutex[d] = "ready"
        PROVE  phase'[d] = "open" /\ endpoint'[d] /\ send_mutex'[d] = "ready"
    <3>1. ASSUME NEW c \in Conns, LwsEvent(c)
          PROVE  phase'[d] = "open" /\ endpoint'[d] /\ send_mutex'[d] = "ready"
      BY <1>t, <2>3, <3>1 DEF ConnTypes, LwsEvent, EstablishedRefused,
         EstablishedInitFailed, EstablishedMatched, WriteableBusy,
         WriteableEmpty, WriteablePop, Flush, Receive, Disconnect, vars
    <3>2. ASSUME LwsStep
          PROVE  phase'[d] = "open" /\ endpoint'[d] /\ send_mutex'[d] = "ready"
      BY <1>t, <1>3, <2>3, <3>2 DEF ConnTypes, LwsStep, WriteTaken, WriteFailed,
         HasMore, ClosedDrain, ClosedDestroy, Free, CallbackReturn, LwsShape
    <3>3. UNCHANGED vars => UNCHANGED <<phase, endpoint, send_mutex>>
      BY DEF vars
    <3> QED BY <2>3, <3>1, <3>2, <3>3, CallFrame
            DEF Next, Step, Undefined, PollTimeout
  <2> QED BY <2>1, <2>2, <2>3 DEF RegistrySafe, Registered
<1> QED BY <1>1, <1>2, <1>3

-----------------------------------------------------------------------------
\* The four parts of Lived are kept by every step.
LEMMA RegisteredLive == ASSUME TypeOK, LwsShape, RegistrySafe, Lived,
                               [Next]_vars
                        PROVE  \A c \in Registered' : send_mutex_ready'[c]
<1>t. /\ send_mutex_ready \in [Conns -> BOOLEAN]
      /\ ws_connections \in Seq(Conns)
  BY DEF TypeOK, ConnTypes
<1>0. Registered \subseteq Conns
  BY <1>t DEF Registered
<1>1. CASE Register
  <2>1. Registered' \subseteq Registered \cup {lws_conn}
    <3>1. lws_conn \in Conns
      BY <1>1 DEF Register, LwsShape
    <3>2. CASE ws_connections' = ws_connections
      BY <3>2 DEF Registered
    <3>3. CASE ws_connections' = Append(ws_connections, lws_conn)
      BY <1>t, <3>1, <3>3 DEF Registered
    <3> QED BY <1>1, <3>2, <3>3 DEF Register
  <2> QED BY <1>t, <1>0, <1>1, <2>1 DEF Register, LwsShape, Lived
<1>2. CASE ClosedRemove
  <2>1. Registered' \subseteq Registered
    <3>1. CASE ws_connections' = ws_connections
      BY <3>1 DEF Registered
    <3>2. CASE ws_connections' = Without(ws_connections, lws_conn)
      <4>1. \A i \in 1 .. Len(ws_connections') :
                \E j \in 1 .. Len(ws_connections) :
                    ws_connections'[i] = ws_connections[j]
        BY <1>t, <3>2, WithoutThins DEF Thinned
      <4> QED BY <4>1 DEF Registered
    <3> QED BY <1>2, <3>1, <3>2 DEF ClosedRemove
  <2> QED BY <1>2, <2>1 DEF ClosedRemove, Lived
<1>3. ASSUME ~Register, ~ClosedRemove
      PROVE  \A c \in Registered' : send_mutex_ready'[c]
  <2>1. UNCHANGED send_mutex_ready
    <3>1. ASSUME NEW c \in Conns, LwsEvent(c) PROVE UNCHANGED send_mutex_ready
      BY <3>1, Zenon DEF LwsEvent, EstablishedRefused, EstablishedInitFailed,
         EstablishedMatched, WriteableBusy, WriteableEmpty, WriteablePop,
         Flush, Receive, Disconnect, vars
    <3>2. ASSUME LwsStep PROVE UNCHANGED send_mutex_ready
      BY <1>3, <3>2, Zenon DEF LwsStep, WriteTaken, WriteFailed, HasMore,
         ClosedDrain, ClosedDestroy, Free, CallbackReturn
    <3>3. UNCHANGED vars => UNCHANGED send_mutex_ready
      BY DEF vars
    <3> QED BY <3>1, <3>2, <3>3, CallFrame
            DEF Next, Step, Undefined, PollTimeout
  <2> QED BY <1>3, <2>1, TableFrame DEF Lived, Registered
<1> QED BY <1>1, <1>2, <1>3

\* The application holds no handle of a connection that was never made.
LEMMA HandlesPresent == ASSUME TypeOK, LwsShape, Lived, [Next]_vars
                        PROVE  \A c \in handles' : phase'[c] # "absent"
<1>t. handles \subseteq Conns
  BY DEF TypeOK
<1>1. ASSUME LwsStep \/ \E c \in Conns : LwsEvent(c)
      PROVE  \A c \in handles' : phase'[c] # "absent"
  <2>1. ASSUME NEW c \in Conns, LwsEvent(c) PROVE handles' = handles
    BY <2>1, Zenon DEF LwsEvent, EstablishedRefused, EstablishedInitFailed,
       EstablishedMatched, WriteableBusy, WriteableEmpty, WriteablePop, Flush,
       Receive, Disconnect, vars
  <2>2. CASE Register
    BY <1>t, <2>2 DEF Register, LwsShape, Lived
  <2>3. ASSUME LwsStep, ~Register PROVE handles' \subseteq handles
    BY <2>3, Zenon DEF LwsStep, WriteTaken, WriteFailed, HasMore, ClosedRemove,
       ClosedDrain, ClosedDestroy, Free, CallbackReturn
  <2> QED BY <1>t, <1>1, <2>1, <2>2, <2>3, LwsFrame DEF Lived
<1>2. CASE UNCHANGED <<handles, phase>>
  BY <1>2 DEF Lived
<1>3. UNCHANGED vars => UNCHANGED <<handles, phase>>
  BY DEF vars
<1> QED BY <1>1, <1>2, <1>3, CallFrame DEF Next, Step, Undefined, PollTimeout

\* A connection that was never made has an empty queue and no mutex.
LEMMA AbsentEmpty ==
    ASSUME TypeOK, CallShape, LwsShape, Lived, [Next]_vars,
           NEW d \in Conns, phase'[d] = "absent"
    PROVE  queue'[d] = <<>> /\ queue_msg_count'[d] = 0 /\ ~send_mutex_ready'[d]
<1>t. /\ queue \in [Conns -> Seq(Msgs)] /\ queue_msg_count \in [Conns -> Int]
      /\ send_mutex_ready \in [Conns -> BOOLEAN]
      /\ phase \in [Conns -> {"absent", "open", "closing", "freed"}]
  BY DEF TypeOK, ConnTypes, QueueTypes
<1>0. ASSUME phase[d] = "absent"
      PROVE  /\ queue[d] = <<>> /\ queue_msg_count[d] = 0
             /\ ~send_mutex_ready[d]
  BY <1>0 DEF Lived
<1> DEFINE Kept == /\ queue'[d] = queue[d]
                   /\ queue_msg_count'[d] = queue_msg_count[d]
                   /\ send_mutex_ready'[d] = send_mutex_ready[d]
<1>1. ASSUME NEW c \in Conns, LwsEvent(c) PROVE phase[d] = "absent" /\ Kept
  <2>1. CASE WriteablePop(c)
    BY <1>t, <2>1 DEF WriteablePop
  <2> QED BY <1>t, <1>1, <2>1 DEF LwsEvent, EstablishedRefused,
     EstablishedInitFailed, EstablishedMatched, WriteableBusy, WriteableEmpty,
     Flush, Receive, Disconnect, vars
<1>2. ASSUME LwsStep PROVE phase[d] = "absent" /\ Kept
  <2>0. lws_pc # "service" => lws_conn \in Conns
    BY DEF LwsShape
  <2>1. CASE Register
    BY <1>t, <2>0, <2>1 DEF Register, LwsShape
  <2>2. CASE ClosedDrain
    BY <1>t, <2>0, <2>2 DEF ClosedDrain, LwsShape
  <2>3. CASE ClosedRemove \/ Free
    BY <1>t, <2>0, <2>3 DEF ClosedRemove, Free
  <2> QED BY <1>t, <1>2, <2>0, <2>1, <2>2, <2>3 DEF LwsStep, WriteTaken,
             WriteFailed, HasMore, ClosedDestroy, CallbackReturn
<1>3. ASSUME NEW t \in Threads, ApiCall(t) \/ CallStep(t)
      PROVE  phase[d] = "absent" /\ Kept
  <2>1. phase[d] = "absent" /\ UNCHANGED send_mutex_ready
    BY <1>3, CallFrame
  <2>2. CASE Push(t)
    BY <1>t, <2>1, <2>2 DEF Push, CallShape
  <2>3. CASE ~Push(t)
    <3>1. UNCHANGED <<queue, queue_msg_count>>
      BY <1>3, <2>3, Zenon DEF ApiCall, papago_ws_send, papago_ws_send_binary,
         papago_ws_broadcast, papago_ws_close, Begin, CallStep, UseAfterFree,
         LockDestroyed, CloseReason, Faults, Acquire, AcquireRefused,
         PushNoMemory, PushFull, Notify, Release, BroadcastLock,
         BroadcastVisit, BroadcastUnlock
    <3> QED BY <2>1, <3>1
  <2> QED BY <2>2, <2>3
<1>4. ASSUME UNCHANGED vars PROVE phase[d] = "absent" /\ Kept
  BY <1>4 DEF vars
<1> HIDE DEF Kept
<1>5. phase[d] = "absent" /\ Kept
  BY <1>1, <1>2, <1>3, <1>4 DEF Next, Step, Undefined, PollTimeout
<1> QED BY <1>0, <1>5 DEF Kept

\* lws waits for POLLOUT while it holds a buffered remainder.
LEMMA PartialPolled == ASSUME TypeOK, CallShape, LwsShape, Lived, [Next]_vars,
                              NEW d \in Conns, partial'[d]
                       PROVE  pollout'[d]
<1>t. pollout \in [Conns -> BOOLEAN] /\ partial \in [Conns -> BOOLEAN]
  BY DEF TypeOK, LwsTypes
<1>0. partial[d] => pollout[d]
  BY DEF Lived
<1>1. ASSUME NEW c \in Conns, LwsEvent(c) PROVE pollout'[d]
  BY <1>t, <1>0, <1>1 DEF LwsEvent, EstablishedRefused, EstablishedInitFailed,
     EstablishedMatched, WriteableBusy, WriteableEmpty, WriteablePop, Flush,
     Receive, Disconnect, vars
<1>2. ASSUME LwsStep PROVE pollout'[d]
  <2>0. lws_pc # "service" => lws_conn \in Conns
    BY DEF LwsShape
  <2>1. ASSUME NEW b \in BOOLEAN, WriteTaken(b) PROVE pollout'[d]
    BY <1>t, <1>0, <2>0, <2>1 DEF WriteTaken
  <2>2. CASE HasMore
    BY <1>t, <1>0, <2>0, <2>2 DEF HasMore
  <2>3. CASE Free
    BY <1>t, <1>0, <2>0, <2>3 DEF Free
  <2> QED BY <1>0, <1>2, <2>1, <2>2, <2>3 DEF LwsStep, Register, WriteFailed,
             ClosedRemove, ClosedDrain, ClosedDestroy, CallbackReturn
<1>3. ASSUME NEW t \in Threads, ApiCall(t) \/ CallStep(t) PROVE pollout'[d]
  <2>1. CASE Notify(t)
    BY <1>t, <1>0, <2>1 DEF Notify, CallShape
  <2>2. CASE ~Notify(t)
    <3>1. UNCHANGED <<pollout, partial>>
      BY <1>3, <2>2, Zenon DEF ApiCall, papago_ws_send, papago_ws_send_binary,
         papago_ws_broadcast, papago_ws_close, Begin, CallStep, UseAfterFree,
         LockDestroyed, CloseReason, Faults, Acquire, AcquireRefused,
         PushNoMemory, PushFull, Push, Release, BroadcastLock, BroadcastVisit,
         BroadcastUnlock
    <3> QED BY <1>0, <3>1
  <2> QED BY <2>1, <2>2
<1>4. CASE UNCHANGED vars
  BY <1>0, <1>4 DEF vars
<1> QED BY <1>1, <1>2, <1>3, <1>4 DEF Next, Step, Undefined, PollTimeout

\* Together: Lived is inductive.
LEMMA LivedStep == ASSUME TypeOK, CallShape, LwsShape, RegistrySafe, Lived,
                          [Next]_vars
                   PROVE  Lived'
BY RegisteredLive, HandlesPresent, AbsentEmpty, PartialPolled DEF Lived

-----------------------------------------------------------------------------
\* The table of live connections stays safe: the inductive invariant.
TableInv == TypeOK /\ CallShape /\ LwsShape /\ LockHeld /\ Lived /\ RegistrySafe

\* A server without connections satisfies it.
LEMMA InitTable == ASSUME ConstantsAssumption, Init PROVE TableInv
<1>1. TypeOK
  BY DEF ConstantsAssumption, Init, TypeOK, ConnTypes, QueueTypes, LwsTypes,
         CallTypes, LwsPcs, CallPcs
<1>2. CallShape /\ LwsShape /\ LockHeld
  BY DEF ConstantsAssumption, Init, CallShape, LwsShape, LockHeld, Callbacks
<1>3. Registered = {}
  BY DEF Init, Registered
<1>4. Lived /\ RegistrySafe
  BY <1>3 DEF ConstantsAssumption, Init, Lived, RegistrySafe
<1> QED BY <1>1, <1>2, <1>4 DEF TableInv

\* Every step keeps it.
LEMMA TableStep == ASSUME ConstantsAssumption, TableInv, [Next]_vars
                   PROVE  TableInv'
BY TypeStep, CallShapeStep, LwsShapeStep, LockHeldStep, LivedStep, RegistryStep
   DEF TableInv

\* In every reachable state the inductive invariant of the table holds.
THEOREM TableInvariant == Spec => []TableInv
<1>1. Init => TableInv
  BY ConstantsAssumption, InitTable
<1>2. TableInv /\ [Next]_vars => TableInv'
  BY ConstantsAssumption, TableStep
<1> QED BY <1>1, <1>2, PTL DEF Spec

\* Type correctness, for every number of connections, threads and messages.
THEOREM TypeCorrect == Spec => []TypeOK
<1>1. TableInv => TypeOK
  BY DEF TableInv
<1> QED BY <1>1, TableInvariant, PTL

\* Whatever closes, opens and sends interleave, each entry broadcast finds in
\* ws_connections is an open connection, listed once, with a usable mutex.
THEOREM RegistryIsSafe == Spec => []RegistrySafe
<1>1. TableInv => RegistrySafe
  BY DEF TableInv
<1> QED BY <1>1, TableInvariant, PTL

-----------------------------------------------------------------------------
(* The send queue: its counter, and its wakeups.                           *)

\* The message counter is kept by every step.
LEMMA QueueCountedStep == ASSUME ConstantsAssumption, TableInv, QueueCounted,
                                 [Next]_vars
                          PROVE  QueueCounted'
<1> SUFFICES ASSUME NEW d \in Conns, phase'[d] = "open"
             PROVE  /\ queue_msg_count'[d] = Len(queue'[d])
                    /\ queue_msg_count'[d] <= WS_MAX_QUEUE_MSGS
  BY DEF QueueCounted
<1>t. /\ queue \in [Conns -> Seq(Msgs)] /\ queue_msg_count \in [Conns -> Int]
      /\ phase \in [Conns -> {"absent", "open", "closing", "freed"}]
      /\ WS_MAX_QUEUE_MSGS \in Nat
  BY DEF TableInv, TypeOK, ConnTypes, QueueTypes, ConstantsAssumption
<1> DEFINE Counted == /\ queue_msg_count'[d] = Len(queue'[d])
                      /\ queue_msg_count'[d] <= WS_MAX_QUEUE_MSGS
<1>0. ASSUME phase[d] \in {"absent", "open"}, queue'[d] = queue[d],
             queue_msg_count'[d] = queue_msg_count[d]
      PROVE  Counted
  <2>1. CASE phase[d] = "open"
    BY <1>0, <2>1 DEF QueueCounted
  <2>2. CASE phase[d] = "absent"
    <3>1. queue[d] = <<>> /\ queue_msg_count[d] = 0
      BY <2>2 DEF TableInv, Lived
    <3> QED BY <1>t, <1>0, <3>1
  <2> QED BY <1>0, <2>1, <2>2
<1>1. ASSUME NEW c \in Conns, LwsEvent(c) PROVE Counted
  <2>1. CASE WriteablePop(c)
    <3>1. CASE d = c
      <4>1. /\ queue[c] \in Seq(Msgs) /\ queue[c] # <<>>
            /\ queue_msg_count[c] = Len(queue[c])
            /\ queue_msg_count[c] <= WS_MAX_QUEUE_MSGS
        BY <1>t, <2>1 DEF WriteablePop, QueueCounted
      <4>2. Len(Tail(queue[c])) = Len(queue[c]) - 1
        BY <4>1
      <4>3. /\ queue'[c] = Tail(queue[c])
            /\ queue_msg_count'[c] = queue_msg_count[c] - 1
        BY <1>t, <2>1 DEF WriteablePop
      <4> QED BY <1>t, <3>1, <4>1, <4>2, <4>3
    <3>2. CASE d # c
      BY <1>t, <1>0, <2>1, <3>2 DEF WriteablePop
    <3> QED BY <3>1, <3>2
  <2>2. CASE ~WriteablePop(c)
    <3>1. UNCHANGED queueVars /\ phase[d] \in {"absent", "open"}
      BY <1>t, <1>1, <2>2 DEF LwsEvent, EstablishedRefused,
         EstablishedInitFailed, EstablishedMatched, WriteableBusy,
         WriteableEmpty, Flush, Receive, Disconnect, vars
    <3> QED BY <1>0, <3>1
  <2> QED BY <2>1, <2>2
<1>2. ASSUME LwsStep PROVE Counted
  <2>0. lws_pc # "service" => lws_conn \in Conns
    BY DEF TableInv, LwsShape
  <2>1. CASE ClosedDrain
    BY <1>t, <1>0, <2>0, <2>1 DEF ClosedDrain, TableInv, LwsShape
  <2>2. CASE ~ClosedDrain
    <3>1. UNCHANGED queueVars
      BY <1>2, <2>2, Zenon DEF LwsStep, Register, WriteTaken, WriteFailed,
         HasMore, ClosedRemove, ClosedDestroy, Free, CallbackReturn
    <3>2. phase[d] = "open"
      BY <1>t, <1>2, <2>0, <2>2 DEF LwsStep, Register, WriteTaken,
         WriteFailed, HasMore, ClosedRemove, ClosedDestroy, Free,
         CallbackReturn
    <3> QED BY <1>0, <3>1, <3>2
  <2> QED BY <2>1, <2>2
<1>3. ASSUME NEW t \in Threads, ApiCall(t) \/ CallStep(t) PROVE Counted
  <2>1. phase[d] = "open"
    BY <1>3, CallFrame
  <2>2. CASE Push(t)
    <3>1. CASE d = conn[t]
      <4>1. /\ queue[d] \in Seq(Msgs) /\ msg[t] \in Msgs
            /\ queue_msg_count[d] = Len(queue[d])
        BY <1>t, <2>1, <2>2
           DEF Push, QueueCounted, TableInv, CallShape
      <4>2. Len(Append(queue[d], msg[t])) = Len(queue[d]) + 1
        BY <4>1
      <4>3. /\ queue'[d] = Append(queue[d], msg[t])
            /\ queue_msg_count'[d] = queue_msg_count[d] + 1
            /\ ~(queue_msg_count[d] >= WS_MAX_QUEUE_MSGS)
        BY <1>t, <2>2, <3>1 DEF Push, QueueFull
      <4> QED BY <1>t, <4>1, <4>2, <4>3
    <3>2. CASE d # conn[t]
      BY <1>t, <1>0, <2>1, <2>2, <3>2 DEF Push
    <3> QED BY <3>1, <3>2
  <2>3. CASE ~Push(t)
    <3>1. UNCHANGED queueVars
      BY <1>3, <2>3, Zenon DEF ApiCall, papago_ws_send, papago_ws_send_binary,
         papago_ws_broadcast, papago_ws_close, Begin, CallStep, UseAfterFree,
         LockDestroyed, CloseReason, Faults, Acquire, AcquireRefused,
         PushNoMemory, PushFull, Notify, Release, BroadcastLock,
         BroadcastVisit, BroadcastUnlock
    <3> QED BY <1>0, <2>1, <3>1
  <2> QED BY <2>2, <2>3
<1>4. ASSUME UNCHANGED vars PROVE Counted
  BY <1>0, <1>4 DEF vars
<1> HIDE DEF Counted
<1>5. Counted
  BY <1>1, <1>2, <1>3, <1>4 DEF Next, Step, Undefined, PollTimeout
<1> QED BY <1>5 DEF Counted

\* No interleaving of pushes, pops and closes takes a queue past
\* WS_MAX_QUEUE_MSGS or lets its counter drift from its length.
THEOREM QueueIsCounted == Spec => []QueueCounted
<1>1. Init => QueueCounted
  BY DEF Init, QueueCounted
<1>2. TableInv /\ QueueCounted /\ [Next]_vars => QueueCounted'
  BY ConstantsAssumption, QueueCountedStep
<1> QED BY <1>1, <1>2, TableInvariant, PTL DEF Spec

-----------------------------------------------------------------------------
(* The byte counter.  Bytes is defined by recursion, so its lemmas go by   *)
(* induction, stated for a set of numbers.                                 *)

\* A set of numbers with 0 and all successors has every number.
LEMMA NatSetInduction ==
    ASSUME NEW S, 0 \in S, \A n \in Nat : n \in S => n + 1 \in S
    PROVE  Nat \subseteq S
<1> DEFINE R == OpToRel(<, Nat)
           T == Nat \ S
<1> SUFFICES ASSUME T # {} PROVE FALSE
  OBVIOUS
<1>1. \A x, y \in Nat : <<y, x>> \in R <=> y < x
  BY DEF OpToRel
<1>2. PICK x \in T : \A y \in T : <<y, x>> \notin R
  <2>1. IsWellFoundedOn(R, Nat)
    BY NatLessThanWellFounded, Zenon
  <2>2. T \subseteq Nat /\ T # {}
    OBVIOUS
  <2> HIDE DEF R, T
  <2> QED BY <2>1, <2>2, WFMin
<1> HIDE DEF R
<1>3. x \in Nat /\ x # 0
  OBVIOUS
<1>4. x - 1 \in Nat /\ x - 1 < x /\ (x - 1) + 1 = x
  BY <1>3
<1>5. x - 1 \in S
  BY <1>1, <1>2, <1>3, <1>4
<1> QED BY <1>4, <1>5

\* f holds the lengths of the first 0, 1, ... messages of q.
Sums(q, f) ==
    f = [i \in 0 .. Len(q) |-> IF i = 0 THEN 0 ELSE f[i - 1] + MsgLen[q[i]]]

\* Such an f has natural values, and there is no other.
LEMMA SumsUnique ==
    ASSUME ConstantsAssumption, NEW q \in Seq(Msgs), NEW f, NEW g,
           Sums(q, f), Sums(q, g)
    PROVE  f = g /\ \A i \in 0 .. Len(q) : f[i] \in Nat
<1>n. Len(q) \in Nat /\ \A i \in 1 .. Len(q) : MsgLen[q[i]] \in Nat
  BY DEF ConstantsAssumption
<1>f. /\ \A i \in 0 .. Len(q) :
             f[i] = IF i = 0 THEN 0 ELSE f[i - 1] + MsgLen[q[i]]
      /\ \A i \in 0 .. Len(q) :
             g[i] = IF i = 0 THEN 0 ELSE g[i - 1] + MsgLen[q[i]]
  BY DEF Sums
<1> DEFINE S == {n \in Nat : n <= Len(q) => f[n] = g[n] /\ f[n] \in Nat}
<1>1. 0 \in S
  BY <1>n, <1>f
<1>2. ASSUME NEW n \in Nat, n \in S PROVE n + 1 \in S
  <2> SUFFICES ASSUME n + 1 <= Len(q)
               PROVE  f[n + 1] = g[n + 1] /\ f[n + 1] \in Nat
    OBVIOUS
  <2>1. n + 1 \in 0 .. Len(q) /\ n + 1 # 0 /\ (n + 1) - 1 = n /\ n <= Len(q)
    BY <1>n
  <2>2. MsgLen[q[n + 1]] \in Nat
    BY <1>n, <2>1
  <2>3. /\ f[n + 1] = f[n] + MsgLen[q[n + 1]]
        /\ g[n + 1] = g[n] + MsgLen[q[n + 1]]
    BY <1>f, <2>1
  <2> QED BY <1>2, <2>1, <2>2, <2>3
<1> HIDE DEF S
<1>3. Nat \subseteq S
  BY <1>1, <1>2, NatSetInduction
<1>4. \A i \in 0 .. Len(q) : f[i] = g[i] /\ f[i] \in Nat
  BY <1>n, <1>3 DEF S
<1>5. f = [i \in 0 .. Len(q) |-> f[i]] /\ g = [i \in 0 .. Len(q) |-> g[i]]
  BY DEF Sums
<1> QED BY <1>4, <1>5

\* There is one for every queue.
LEMMA SumsExist == ASSUME ConstantsAssumption
                   PROVE  \A q \in Seq(Msgs) : \E f : Sums(q, f)
<1> DEFINE S == {n \in Nat : \A q \in Seq(Msgs) :
                     Len(q) = n => \E f : Sums(q, f)}
<1>1. 0 \in S
  <2> SUFFICES ASSUME NEW q \in Seq(Msgs), Len(q) = 0 PROVE \E f : Sums(q, f)
    OBVIOUS
  <2> DEFINE f == [i \in 0 .. 0 |-> 0]
  <2>1. f = [i \in 0 .. 0 |-> IF i = 0 THEN 0 ELSE f[i - 1] + MsgLen[q[i]]]
    OBVIOUS
  <2> HIDE DEF f
  <2> QED BY <2>1 DEF Sums
<1>2. ASSUME NEW n \in Nat, n \in S PROVE n + 1 \in S
  <2> SUFFICES ASSUME NEW q \in Seq(Msgs), Len(q) = n + 1
               PROVE  \E f : Sums(q, f)
    OBVIOUS
  <2> DEFINE p == SubSeq(q, 1, n)
  <2>1. p \in Seq(Msgs) /\ Len(p) = n /\ \A i \in 1 .. n : p[i] = q[i]
    OBVIOUS
  <2>2. PICK g : Sums(p, g)
    BY <1>2, <2>1
  <2> HIDE DEF p
  <2>3. \A i \in 0 .. n :
            g[i] = IF i = 0 THEN 0 ELSE g[i - 1] + MsgLen[q[i]]
    BY <2>1, <2>2 DEF Sums
  <2> DEFINE f == [i \in 0 .. (n + 1) |->
                      IF i = n + 1 THEN g[n] + MsgLen[q[n + 1]] ELSE g[i]]
             h == [i \in 0 .. (n + 1) |->
                      IF i = 0 THEN 0 ELSE f[i - 1] + MsgLen[q[i]]]
  <2>4. ASSUME NEW i \in 0 .. (n + 1) PROVE f[i] = h[i]
    <3>1. CASE i = 0
      BY <2>3, <3>1
    <3>2. CASE i \in 1 .. n
      <4>1. i - 1 \in 0 .. n /\ i \in 0 .. n /\ i # 0 /\ i # n + 1
            /\ i - 1 # n + 1
        BY <3>2
      <4>2. f[i - 1] = g[i - 1] /\ f[i] = g[i]
        BY <4>1
      <4> QED BY <2>3, <4>1, <4>2
    <3>3. CASE i = n + 1
      <4>1. i # 0 /\ i - 1 = n /\ n # n + 1 /\ n \in 0 .. (n + 1)
        BY <3>3
      <4>2. f[n] = g[n] /\ f[i] = g[n] + MsgLen[q[n + 1]]
        BY <3>3, <4>1
      <4> QED BY <3>3, <4>1, <4>2
    <3> QED BY <3>1, <3>2, <3>3
  <2>5. f = h
    BY <2>4
  <2> HIDE DEF f
  <2> QED BY <2>5 DEF Sums
<1> HIDE DEF S
<1>3. Nat \subseteq S
  BY <1>1, <1>2, NatSetInduction
<1> SUFFICES ASSUME NEW q \in Seq(Msgs) PROVE \E f : Sums(q, f)
  OBVIOUS
<1>4. Len(q) \in S
  BY <1>3
<1> QED BY <1>4 DEF S

\* The one there is gives Bytes.
LEMMA BytesIs == ASSUME ConstantsAssumption, NEW q \in Seq(Msgs), NEW f,
                        Sums(q, f)
                 PROVE  Bytes(q) = f[Len(q)] /\ f[Len(q)] \in Nat
<1> DEFINE e(s) == [i \in 0 .. Len(q) |->
                       IF i = 0 THEN 0 ELSE s[i - 1] + MsgLen[q[i]]]
           g == CHOOSE s : s = e(s)
<1>1. Bytes(q) = g[Len(q)]
  BY DEF Bytes
<1>2. f = e(f)
  BY DEF Sums
<1>3. g = e(g)
  BY <1>2
<1>4. Sums(q, g)
  BY <1>3 DEF Sums
<1> HIDE DEF g
<1>5. f = g /\ f[Len(q)] \in Nat
  <2>1. Len(q) \in 0 .. Len(q)
    OBVIOUS
  <2> QED BY <1>4, <2>1, SumsUnique
<1> QED BY <1>1, <1>5

\* What a push adds to Bytes and a pop takes from it.
LEMMA BytesAppend ==
    ASSUME ConstantsAssumption, NEW q \in Seq(Msgs), NEW m \in Msgs
    PROVE  Bytes(Append(q, m)) = Bytes(q) + MsgLen[m]
<1> DEFINE a == Append(q, m)
           n == Len(q)
<1>n. n \in Nat
  OBVIOUS
<1>1. /\ a \in Seq(Msgs) /\ Len(a) = n + 1
      /\ \A i \in 1 .. n : a[i] = q[i]
      /\ a[n + 1] = m
  OBVIOUS
<1>2. PICK f : Sums(a, f)
  BY <1>1, SumsExist
<1> HIDE DEF a
<1>3. \A i \in 0 .. (n + 1) :
          f[i] = IF i = 0 THEN 0 ELSE f[i - 1] + MsgLen[a[i]]
  BY <1>1, <1>2 DEF Sums
<1> DEFINE g == [i \in 0 .. n |-> f[i]]
           h == [i \in 0 .. n |-> IF i = 0 THEN 0 ELSE g[i - 1] + MsgLen[q[i]]]
<1>4. ASSUME NEW i \in 0 .. n PROVE g[i] = h[i]
  <2>1. CASE i = 0
    BY <1>n, <1>3, <2>1
  <2>2. CASE i \in 1 .. n
    <3>1. i - 1 \in 0 .. n /\ i \in 0 .. (n + 1) /\ i # 0
      BY <1>n, <2>2
    <3>2. f[i] = f[i - 1] + MsgLen[a[i]] /\ a[i] = q[i]
      BY <1>1, <1>3, <2>2, <3>1
    <3> QED BY <3>1, <3>2
  <2> QED BY <1>n, <2>1, <2>2
<1>5. g = h
  BY <1>4
<1>6. g[n] = f[n]
  BY <1>n
<1> HIDE DEF g
<1>7. Sums(q, g)
  BY <1>5 DEF Sums
<1>8. Bytes(q) = g[n] /\ Bytes(a) = f[Len(a)]
  BY <1>1, <1>2, <1>7, BytesIs
<1>9. f[n + 1] = f[n] + MsgLen[m]
  <2>1. n + 1 \in 0 .. (n + 1) /\ n + 1 # 0 /\ (n + 1) - 1 = n
    BY <1>n
  <2> QED BY <1>1, <1>3, <2>1
<1> QED BY <1>1, <1>6, <1>8, <1>9 DEF a

\* A pop takes the length of the first message from the sum.
LEMMA BytesTail ==
    ASSUME ConstantsAssumption, NEW q \in Seq(Msgs), q # <<>>
    PROVE  Bytes(Tail(q)) = Bytes(q) - MsgLen[Head(q)] /\ Bytes(q) \in Nat
<1> DEFINE t == Tail(q)
           n == Len(q) - 1
           l == MsgLen[Head(q)]
<1>n. n \in Nat /\ Len(q) = n + 1 /\ Head(q) \in Msgs /\ Head(q) = q[1]
  OBVIOUS
<1>l. l \in Nat /\ \A i \in 1 .. (n + 1) : MsgLen[q[i]] \in Nat
  BY <1>n DEF ConstantsAssumption
<1>1. /\ t \in Seq(Msgs) /\ Len(t) = n
      /\ \A i \in 1 .. n : t[i] = q[i + 1]
  OBVIOUS
<1>2. PICK f : Sums(q, f)
  BY SumsExist
<1> HIDE DEF t, n, l
<1>3. /\ \A i \in 0 .. (n + 1) :
             f[i] = IF i = 0 THEN 0 ELSE f[i - 1] + MsgLen[q[i]]
      /\ \A i \in 0 .. (n + 1) : f[i] \in Nat
  BY <1>n, <1>2, SumsUnique DEF Sums
<1> DEFINE g == [i \in 0 .. n |-> f[i + 1] - l]
           h == [i \in 0 .. n |-> IF i = 0 THEN 0 ELSE g[i - 1] + MsgLen[t[i]]]
<1>4. ASSUME NEW i \in 0 .. n PROVE g[i] = h[i]
  <2>1. CASE i = 0
    <3>1. 1 \in 0 .. (n + 1) /\ 0 \in 0 .. (n + 1) /\ 1 - 1 = 0
      BY <1>n
    <3>2. f[1] = f[0] + MsgLen[q[1]] /\ f[0] = 0 /\ MsgLen[q[1]] = l
      BY <1>n, <1>3, <3>1 DEF l
    <3>3. f[1] - l = 0
      BY <1>l, <3>2
    <3> QED BY <1>n, <2>1, <3>3
  <2>2. CASE i \in 1 .. n
    <3>1. /\ i - 1 \in 0 .. n /\ i + 1 \in 0 .. (n + 1) /\ i # 0
          /\ i \in 0 .. (n + 1) /\ i + 1 # 0 /\ (i + 1) - 1 = i
          /\ (i - 1) + 1 = i /\ i + 1 \in 1 .. (n + 1)
      BY <1>n, <2>2
    <3>2. f[i + 1] = f[i] + MsgLen[q[i + 1]] /\ t[i] = q[i + 1]
      BY <1>1, <1>3, <2>2, <3>1
    <3>3. f[i] \in Nat /\ MsgLen[q[i + 1]] \in Nat
      BY <1>l, <1>3, <3>1
    <3>4. f[i + 1] - l = (f[i] - l) + MsgLen[q[i + 1]]
      BY <1>l, <3>2, <3>3
    <3>5. g[i] = f[i + 1] - l /\ g[i - 1] = f[i] - l
      BY <3>1
    <3>6. h[i] = g[i - 1] + MsgLen[t[i]]
      BY <3>1
    <3> QED BY <3>2, <3>4, <3>5, <3>6
  <2> QED BY <1>n, <2>1, <2>2
<1>5. g = h
  BY <1>4
<1>6. g[n] = f[n + 1] - l
  BY <1>n
<1> HIDE DEF g
<1>7. Sums(t, g)
  BY <1>1, <1>5 DEF Sums
<1>8. Bytes(t) = g[n] /\ Bytes(q) = f[n + 1] /\ Bytes(q) \in Nat
  BY <1>n, <1>1, <1>2, <1>7, BytesIs
<1> QED BY <1>6, <1>8 DEF t, l

\* An empty queue has no bytes.
LEMMA BytesEmpty == ASSUME ConstantsAssumption PROVE Bytes(<<>>) = 0
<1>1. <<>> \in Seq(Msgs) /\ Len(<<>>) = 0
  OBVIOUS
<1>2. PICK f : Sums(<<>>, f)
  BY <1>1, SumsExist
<1>3. f[0] = 0
  BY <1>1, <1>2 DEF Sums
<1> QED BY <1>1, <1>2, <1>3, BytesIs

\* A connection that has not appeared has counted no byte.
AbsentUncounted ==
    \A c \in Conns : phase[c] = "absent" => queue_byte_count[c] = 0

\* The byte counter is kept by every step.
LEMMA BytesStep ==
    ASSUME ConstantsAssumption, TableInv, BytesCounted, AbsentUncounted,
           [Next]_vars
    PROVE  BytesCounted' /\ AbsentUncounted'
<1> SUFFICES ASSUME NEW d \in Conns
             PROVE  /\ phase'[d] = "open" =>
                           /\ queue_byte_count'[d] = Bytes(queue'[d])
                           /\ queue_byte_count'[d] <= WS_MAX_QUEUE_BYTES
                    /\ phase'[d] = "absent" => queue_byte_count'[d] = 0
  BY DEF BytesCounted, AbsentUncounted, Bytes
<1>t. /\ queue \in [Conns -> Seq(Msgs)] /\ queue_byte_count \in [Conns -> Int]
      /\ phase \in [Conns -> {"absent", "open", "closing", "freed"}]
      /\ WS_MAX_QUEUE_BYTES \in Nat
  BY DEF TableInv, TypeOK, ConnTypes, QueueTypes, ConstantsAssumption
<1>q. queue[d] \in Seq(Msgs) /\ queue_byte_count[d] \in Int
  BY <1>t
<1> DEFINE Counted == /\ phase'[d] = "open" =>
                             /\ queue_byte_count'[d] = Bytes(queue'[d])
                             /\ queue_byte_count'[d] <= WS_MAX_QUEUE_BYTES
                      /\ phase'[d] = "absent" => queue_byte_count'[d] = 0
<1>o. phase[d] = "open" => /\ queue_byte_count[d] = Bytes(queue[d])
                           /\ queue_byte_count[d] <= WS_MAX_QUEUE_BYTES
  BY DEF BytesCounted
<1>0. ASSUME \/ phase'[d] = phase[d]
             \/ phase[d] = "absent" /\ phase'[d] = "open"
             \/ phase'[d] \in {"closing", "freed"},
             queue'[d] = queue[d], queue_byte_count'[d] = queue_byte_count[d]
      PROVE  Counted
  <2>1. CASE phase[d] = "absent"
    <3>1. queue[d] = <<>> /\ queue_byte_count[d] = 0
      BY <2>1 DEF TableInv, Lived, AbsentUncounted
    <3>2. queue_byte_count'[d] = 0 /\ queue'[d] = <<>>
      BY <1>0, <3>1
    <3>3. Bytes(queue'[d]) = 0
      BY <3>2, BytesEmpty, Zenon
    <3>4. 0 <= WS_MAX_QUEUE_BYTES
      BY <1>t
    <3> HIDE DEF Bytes
    <3> QED BY <3>2, <3>3, <3>4
  <2>2. CASE phase[d] # "absent"
    <3>1. Bytes(queue'[d]) = Bytes(queue[d])
      BY <1>0, Zenon
    <3> QED BY <1>o, <1>0, <2>2, <3>1
  <2> QED BY <2>1, <2>2
<1>1. ASSUME NEW c \in Conns, LwsEvent(c) PROVE Counted
  <2>1. CASE WriteablePop(c) /\ c = d
    <3>1. /\ phase[d] = "open" /\ queue[d] # <<>> /\ phase' = phase
          /\ queue'[d] = Tail(queue[d])
          /\ queue_byte_count'[d]
                 = queue_byte_count[d] - MsgLen[Head(queue[d])]
      BY <1>t, <2>1 DEF WriteablePop
    <3>2. /\ Bytes(Tail(queue[d])) = Bytes(queue[d]) - MsgLen[Head(queue[d])]
          /\ Bytes(queue[d]) \in Nat
      BY <1>q, <3>1, BytesTail
    <3>3. MsgLen[Head(queue[d])] \in Nat
      <4>1. Head(queue[d]) \in Msgs
        BY <1>q, <3>1
      <4> QED BY <4>1 DEF ConstantsAssumption
    <3>4. queue_byte_count'[d] = Bytes(queue'[d])
      BY <1>o, <3>1, <3>2
    <3>5. queue_byte_count'[d] <= WS_MAX_QUEUE_BYTES
      BY <1>t, <1>q, <1>o, <3>1, <3>3
    <3> QED BY <3>1, <3>4, <3>5
  <2>2. CASE WriteablePop(c) /\ c # d
    BY <1>t, <1>0, <2>2 DEF WriteablePop
  <2>3. CASE ~WriteablePop(c)
    <3>1. /\ UNCHANGED queueVars
          /\ \/ phase' = phase
             \/ phase[c] = "absent" /\ phase' = [phase EXCEPT ![c] = "open"]
      BY <1>1, <2>3, Zenon DEF LwsEvent, EstablishedRefused,
         EstablishedInitFailed, EstablishedMatched, WriteableBusy,
         WriteableEmpty, Flush, Receive, Disconnect, vars
    <3>2. phase'[d] = phase[d] \/ (phase[d] = "absent" /\ phase'[d] = "open")
      BY <1>t, <3>1
    <3> QED BY <1>0, <3>1, <3>2
  <2> QED BY <2>1, <2>2, <2>3
<1>2. ASSUME LwsStep PROVE Counted
  <2>0. lws_pc # "service" => lws_conn \in Conns
    BY DEF TableInv, LwsShape
  <2>1. CASE ClosedDrain
    <3>1. CASE d = lws_conn
      BY <2>1, <3>1 DEF ClosedDrain, TableInv, LwsShape
    <3>2. CASE d # lws_conn
      BY <1>t, <1>0, <2>0, <2>1, <3>2 DEF ClosedDrain
    <3> QED BY <3>1, <3>2
  <2>2. CASE ~ClosedDrain
    <3>1. UNCHANGED queueVars
      BY <1>2, <2>2, Zenon DEF LwsStep, Register, WriteTaken, WriteFailed,
         HasMore, ClosedRemove, ClosedDestroy, Free, CallbackReturn
    <3>2. phase'[d] = phase[d] \/ phase'[d] \in {"closing", "freed"}
      BY <1>t, <1>2, <2>0, <2>2 DEF LwsStep, Register, WriteTaken,
         WriteFailed, HasMore, ClosedRemove, ClosedDestroy, Free,
         CallbackReturn
    <3> QED BY <1>0, <3>1, <3>2
  <2> QED BY <2>1, <2>2
<1>3. ASSUME NEW t \in Threads, ApiCall(t) \/ CallStep(t) PROVE Counted
  <2>1. phase' = phase
    BY <1>3, CallFrame
  <2>2. CASE Push(t) /\ d = conn[t]
    <3>1. msg[t] \in Msgs /\ MsgLen[msg[t]] \in Nat /\ phase[d] # "absent"
      BY <2>2 DEF Push, TableInv, CallShape, ConstantsAssumption
    <3>2. /\ queue'[d] = Append(queue[d], msg[t])
          /\ queue_byte_count'[d] = queue_byte_count[d] + MsgLen[msg[t]]
          /\ ~(queue_byte_count[d] + MsgLen[msg[t]] > WS_MAX_QUEUE_BYTES)
      BY <1>t, <2>2 DEF Push, QueueFull
    <3>3. Bytes(Append(queue[d], msg[t])) = Bytes(queue[d]) + MsgLen[msg[t]]
      BY <1>q, <3>1, BytesAppend
    <3>4. phase[d] = "open" => queue_byte_count'[d] = Bytes(queue'[d])
      BY <1>o, <3>2, <3>3
    <3>5. queue_byte_count'[d] <= WS_MAX_QUEUE_BYTES
      BY <1>t, <1>q, <3>1, <3>2
    <3> QED BY <2>1, <3>1, <3>4, <3>5
  <2>3. CASE Push(t) /\ d # conn[t]
    BY <1>t, <1>0, <2>1, <2>3 DEF Push
  <2>4. CASE ~Push(t)
    <3>1. UNCHANGED queueVars
      BY <1>3, <2>4, Zenon DEF ApiCall, papago_ws_send, papago_ws_send_binary,
         papago_ws_broadcast, papago_ws_close, Begin, CallStep, UseAfterFree,
         LockDestroyed, CloseReason, Faults, Acquire, AcquireRefused,
         PushNoMemory, PushFull, Notify, Release, BroadcastLock,
         BroadcastVisit, BroadcastUnlock
    <3> QED BY <1>0, <2>1, <3>1
  <2> QED BY <2>2, <2>3, <2>4
<1>4. ASSUME UNCHANGED vars PROVE Counted
  BY <1>0, <1>4 DEF vars
<1> HIDE DEF Counted
<1>5. Counted
  BY <1>1, <1>2, <1>3, <1>4 DEF Next, Step, Undefined, PollTimeout
<1> QED BY <1>5 DEF Counted

\* A queue's byte counter is the total length of what is queued and stays
\* within WS_MAX_QUEUE_BYTES, whatever pushes and pops interleave.
THEOREM BytesAreCounted == Spec => []BytesCounted
<1>1. Init => BytesCounted /\ AbsentUncounted
  BY DEF Init, BytesCounted, AbsentUncounted
<1>2. TableInv /\ (BytesCounted /\ AbsentUncounted) /\ [Next]_vars
          => (BytesCounted /\ AbsentUncounted)'
  BY ConstantsAssumption, BytesStep
<1> QED BY <1>1, <1>2, TableInvariant, PTL DEF Spec
=============================================================================
