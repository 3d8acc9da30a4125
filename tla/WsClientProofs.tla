--------------------------- MODULE WsClientProofs ---------------------------
(***************************************************************************)
(* The client's handle never dangles, for any number of senders, stoppers, *)
(* messages and reconnections.                                             *)
(*                                                                         *)
(* WsiIsLive is not inductive alone: when lws frees a connection, that wsi *)
(* is not the one freed needs to be known from the time the callback has   *)
(* cleared it (ClearedFirst), and that a connect gives lws a link of its   *)
(* own needs that lws_ctx is set while the owner is in it (HasContext).    *)
(*                                                                         *)
(* With sends from callbacks only, one connection and no failing connect,  *)
(* nothing null or freed reaches lws: a stopper that has seen a context    *)
(* finds it alive (StopInv).  A client that connects once ends with its    *)
(* context destroyed.                                                      *)
(*                                                                         *)
(* The queue: a message that waits on an open connection has been asked    *)
(* for, or its sender is about to (AskInv), and messages keep their order  *)
(* (OrderInv: besides the types, that a message about to be pushed is new, *)
(* so that its place is the last).                                         *)
(***************************************************************************)
EXTENDS WsClient, SequenceTheorems, TLAPS

Phases == {"none", "connecting", "open", "broken", "ended"}

\* Types of the fields the argument is about.
HandleTypes ==
    /\ connects \in Nat
    /\ lws_ctx \in Links \cup {Null} /\ wsi \in Links \cup {Null}
    /\ link \in [Links -> Phases]

\* In papago_wsc_connect and papago_wsc_run there is a context.
HasContext ==
    owner \in {"connect", "unconnect", "loop", "user", "closing", "write",
               "more"} => lws_ctx # Null

\* The callback clears wsi before it tells the user.
ClearedFirst == owner = "closing" => wsi = Null

\* The inductive invariant.
HandleInv == HandleTypes /\ HasContext /\ ClearedFirst /\ WsiIsLive

\* papago_wsc_new makes a client without a handle.
LEMMA HandleInit == Init => HandleInv
  BY ConstantsAssumption
     DEF Init, HandleInv, HandleTypes, HasContext, ClearedFirst, WsiIsLive,
         Links, Null, Phases

\* Every step of papago_wsc_connect keeps the invariant.
LEMMA HandleConnect == HandleInv /\ Connect => HandleInv'
<1> SUFFICES ASSUME HandleInv, Connect PROVE HandleInv'
  OBVIOUS
<1> USE ConstantsAssumption
    DEF HandleInv, HandleTypes, HasContext, ClearedFirst, WsiIsLive, OwnerAt,
        Links, Null, Phases
<1>1. CASE ConnectCreate
  BY <1>1 DEF ConnectCreate
<1>2. CASE ConnectNoContext
  BY <1>2 DEF ConnectNoContext, lws
<1>3. CASE ConnectStarted
  BY <1>3 DEF ConnectStarted
<1>4. CASE ConnectFailed
  BY <1>4 DEF ConnectFailed
<1>5. CASE ConnectForget
  BY <1>5 DEF ConnectForget, lws
<1> QED
  BY <1>1, <1>2, <1>3, <1>4, <1>5 DEF Connect

\* Every step of papago_wsc_run and of the callbacks keeps the invariant.
LEMMA HandleLoop == HandleInv /\ Loop => HandleInv'
<1> SUFFICES ASSUME HandleInv, Loop PROVE HandleInv'
  OBVIOUS
<1> USE ConstantsAssumption
    DEF HandleInv, HandleTypes, HasContext, ClearedFirst, WsiIsLive, OwnerAt,
        Links, Null, Phases
<1>1. CASE RunReturns
  BY <1>1 DEF RunReturns, client, lws
<1>2. CASE RunFails
  BY <1>2 DEF RunFails, client, lws
<1>3. CASE Established
  BY <1>3 DEF Established, Serving, CallBack, client
<1>4. CASE Receive
  BY <1>4 DEF Receive, Serving, CallBack, client
<1>5. CASE Lost
  BY <1>5 DEF Lost, Serving, lws
<1>6. CASE LostDone
  BY <1>6 DEF LostDone
<1>7. CASE UserReturns
  BY <1>7 DEF UserReturns, CallBack, client
<1>8. CASE UserStops
  BY <1>8 DEF UserStops, lws
<1>9. CASE UserSends
  BY <1>9 DEF UserSends
<1>10. CASE FlushTake
  BY <1>10 DEF FlushTake, Serving
<1>11. CASE FlushNothing
  BY <1>11 DEF FlushNothing, Serving, client
<1>12. CASE FlushWrite
  BY <1>12 DEF FlushWrite, client, lws
<1>13. CASE FlushFails
  BY <1>13 DEF FlushFails, client
<1>14. CASE FlushMore
  BY <1>14 DEF FlushMore, client
<1> QED
  BY <1>1, <1>2, <1>3, <1>4, <1>5, <1>6, <1>7, <1>8, <1>9, <1>10, <1>11,
     <1>12, <1>13, <1>14 DEF Loop

\* Senders and stoppers read the handle and the context and never set them.
LEMMA HandleThreads ==
  ASSUME HandleInv,
         (\E t \in Senders : Send(t)) \/ (\E t \in Stoppers : Stop(t))
  PROVE  HandleInv'
<1> UNCHANGED <<connects, lws_ctx, wsi, link, owner>>
  BY DEF Send, SendCheck, SendPush, SendRead, SendWake, SendWakeFaults, Stop,
         StopFlag, StopTest, StopCancel, StopCancelFaults, client, lws
<1> QED
  BY DEF HandleInv, HandleTypes, HasContext, ClearedFirst, WsiIsLive

\* Every step keeps the invariant.
LEMMA HandleStep == HandleInv /\ [Next]_vars => HandleInv'
<1> SUFFICES ASSUME HandleInv, [Next]_vars PROVE HandleInv'
  OBVIOUS
<1>1. CASE Connect
  BY <1>1, HandleConnect
<1>2. CASE Loop
  BY <1>2, HandleLoop
<1>3. CASE (\E t \in Senders : Send(t)) \/ (\E t \in Stoppers : Stop(t))
  BY <1>3, HandleThreads
<1>4. CASE RunBegin
  BY <1>4 DEF RunBegin, HandleInv, HandleTypes, HasContext, ClearedFirst,
              WsiIsLive, OwnerAt, lws
<1>5. CASE Destroy
  <2>1. wsi' = Null /\ lws_ctx' = Null /\ owner' = "gone"
        /\ connects' = connects /\ link' \in [Links -> Phases]
    BY <1>5 DEF Destroy, HandleInv, HandleTypes, Phases, lws
  <2> QED
    BY <2>1 DEF HandleInv, HandleTypes, HasContext, ClearedFirst, WsiIsLive
<1>6. CASE RunIdles \/ Over \/ UNCHANGED vars
  BY <1>6 DEF RunIdles, Over, vars, client, lws, HandleInv, HandleTypes,
              HasContext, ClearedFirst, WsiIsLive
<1> QED
  BY <1>1, <1>2, <1>3, <1>4, <1>5, <1>6 DEF Next

\* The wsi that wsc_enqueue tests and wsc_flush_one writes to is never a
\* connection that lws has freed, for every number of threads and of
\* reconnections: what is wrong with papago_wsc_send from other threads is
\* only that it keeps the handle past the test.
THEOREM WsiNeverDangles == Spec => []WsiIsLive
<1>1. HandleInv => WsiIsLive
  BY DEF HandleInv
<1> QED
  BY <1>1, HandleInit, HandleStep, PTL DEF Spec

-----------------------------------------------------------------------------
(* papago_wsc_stop against the owner                                       *)

\* The use of the client that wsc_loop checks: it connects at most once, and only
\* callbacks send.
SimpleUse == Senders = {} /\ MaxConnects <= 1

\* Types of what the stoppers see.
StopTypes ==
    /\ connects \in 0 .. MaxConnects
    /\ lws_ctx \in Links \cup {Null}
    /\ context \in [Links -> {"none", "live", "destroyed"}]
    /\ stop_pc \in [Stoppers -> {"idle", "test", "cancel"}]
    /\ fault \in {"none", "context"}

\* A context that is not null is alive, and the failure path of connect is not
\* taken.
ContextLives ==
    /\ lws_ctx # Null => context[lws_ctx] = "live"
    /\ owner # "unconnect"

\* There is no context before the first connect.
NoneYet ==
    connects = 0 => lws_ctx = Null /\ \A k \in Links : context[k] = "none"

\* Between its two calls into lws, papago_wsc_connect has a context.
Connecting == owner = "connect" => connects # 0 /\ lws_ctx # Null

\* A stopper that has seen a context still finds it.
SeenStays == \A t \in Stoppers : stop_pc[t] = "cancel" => lws_ctx # Null

\* What holds as long as the connection is not refused at once.
InOrder == ContextLives /\ SeenStays /\ NoFault

\* The inductive invariant.
StopInv ==
    /\ StopTypes /\ NoneYet /\ Connecting
    /\ Refused => "connect" \in MayFail
    /\ Refused \/ InOrder

\* Steps that leave the context, the stoppers and fault alone keep StopInv.
LEMMA StopFrame ==
  ASSUME StopInv, UNCHANGED <<connects, lws_ctx, context, stop_pc, fault>>,
         owner # "gone", owner' \notin {"connect", "unconnect", "gone"}
  PROVE  StopInv'
<1>1. Refused' <=> Refused
  BY DEF Refused
<1>2. InOrder => InOrder'
  BY DEF InOrder, ContextLives, SeenStays, NoFault
<1> QED
  BY <1>1, <1>2 DEF StopInv, StopTypes, NoneYet, Connecting

\* Every step of the owner keeps the invariant.
LEMMA StopOwner ==
  ASSUME SimpleUse, StopInv, Connect \/ RunBegin \/ Loop \/ Destroy
  PROVE  StopInv'
<1>1. CASE ConnectCreate
  <2>0. connects = 0 /\ connects' = 1 /\ 1 \in Links
    BY <1>1, ConstantsAssumption
       DEF ConnectCreate, SimpleUse, StopInv, StopTypes, Links
  <2>1. /\ connects = 0 /\ connects' = 1 /\ 1 \in Links /\ lws_ctx' = 1
        /\ context' = [context EXCEPT ![1] = "live"]
        /\ owner' = "connect" /\ UNCHANGED <<stop_pc, fault>> /\ fault = "none"
    BY <1>1, <2>0 DEF ConnectCreate, OwnerAt, stopping
  <2>2. StopTypes' /\ NoneYet' /\ Connecting'
    BY <2>1, ConstantsAssumption
       DEF StopInv, StopTypes, NoneYet, Connecting, Links, Null
  <2>3. ~Refused'
    BY <2>1 DEF StopInv, StopTypes, NoneYet, Refused
  <2>4. InOrder'
    BY <2>1
       DEF StopInv, StopTypes, InOrder, ContextLives, SeenStays, NoFault, Null
  <2> QED
    BY <2>2, <2>3, <2>4 DEF StopInv
<1>2. CASE ConnectNoContext
  <2>1. connects = 0 /\ connects' = 1 /\ 1 \in 0 .. MaxConnects
    BY <1>2, ConstantsAssumption
       DEF ConnectNoContext, SimpleUse, StopInv, StopTypes
  <2>2. lws_ctx = Null /\ lws_ctx' = Null
    BY <1>2, <2>1 DEF ConnectNoContext, StopInv, NoneYet
  <2>3. UNCHANGED <<context, stop_pc, fault, owner>>
    BY <1>2 DEF ConnectNoContext, lws, stopping
  <2>4. (Refused' <=> Refused) /\ (InOrder => InOrder')
    BY <2>2, <2>3 DEF Refused, InOrder, ContextLives, SeenStays, NoFault
  <2>5. owner = "idle"
    BY <1>2 DEF ConnectNoContext, OwnerAt
  <2> QED
    BY <2>1, <2>2, <2>3, <2>4, <2>5 DEF StopInv, StopTypes, NoneYet, Connecting
<1>3. CASE ConnectStarted
  BY <1>3, StopFrame DEF ConnectStarted, OwnerAt, stopping
<1>4. CASE ConnectFailed
  <2>1. /\ "connect" \in MayFail /\ owner' = "unconnect"
        /\ context' = [context EXCEPT ![lws_ctx] = "destroyed"]
        /\ UNCHANGED <<connects, lws_ctx, stop_pc, fault>>
    BY <1>4 DEF ConnectFailed, stopping
  <2>2. connects # 0 /\ lws_ctx \in Links
    BY <1>4 DEF ConnectFailed, OwnerAt, StopInv, StopTypes, Connecting
  <2> QED
    BY <2>1, <2>2 DEF StopInv, StopTypes, NoneYet, Connecting, Refused
<1>5. CASE ConnectForget
  <2>1. /\ owner = "unconnect" /\ owner' = "idle" /\ lws_ctx' = Null
        /\ UNCHANGED <<connects, context, stop_pc, fault>>
    BY <1>5 DEF ConnectForget, OwnerAt, lws, stopping
  <2>2. Refused /\ Refused'
    BY <2>1 DEF StopInv, InOrder, ContextLives, Refused
  <2> QED
    BY <2>1, <2>2 DEF StopInv, StopTypes, NoneYet, Connecting
<1>6. CASE RunBegin
  BY <1>6, StopFrame DEF RunBegin, OwnerAt, lws, stopping
<1>7. CASE Loop
  <2>1. UNCHANGED <<connects, lws_ctx, context, stop_pc, fault>>
    BY <1>7 DEF Loop, RunReturns, RunFails, Established, Receive, Lost,
        LostDone, UserReturns, UserStops, UserSends, FlushTake, FlushNothing,
        FlushWrite, FlushFails, FlushMore, CallBack, client, lws, stopping
  <2>2. owner # "gone" /\ owner' \notin {"connect", "unconnect", "gone"}
    BY <1>7 DEF Loop, RunReturns, RunFails, Established, Receive, Lost,
        LostDone, UserReturns, UserStops, UserSends, FlushTake, FlushNothing,
        FlushWrite, FlushFails, FlushMore, CallBack, OwnerAt, Serving
  <2> QED
    BY <2>1, <2>2, StopFrame
<1>8. CASE Destroy
  <2>1. /\ lws_ctx' = Null /\ owner' = "gone" /\ fault = "none"
        /\ UNCHANGED <<connects, fault>>
    BY <1>8 DEF Destroy, OwnerAt
  <2>2. stop_pc' = stop_pc /\ \A t \in Stoppers : stop_pc[t] = "idle"
    BY <1>8 DEF Destroy, Unused, stopping
  <2>3. /\ context' \in [Links -> {"none", "live", "destroyed"}]
        /\ lws_ctx = Null => context' = context
    BY <1>8 DEF Destroy, StopInv, StopTypes, lws
  <2>4. StopTypes' /\ NoneYet' /\ Connecting'
    BY <2>1, <2>2, <2>3 DEF StopInv, StopTypes, NoneYet, Connecting
  <2>5. InOrder'
    BY <2>1, <2>2 DEF InOrder, ContextLives, SeenStays, NoFault
  <2>6. ~Refused'
    BY <2>1 DEF Refused
  <2> QED
    BY <2>4, <2>5, <2>6 DEF StopInv
<1> QED
  BY <1>1, <1>2, <1>3, <1>4, <1>5, <1>6, <1>7, <1>8 DEF Connect

\* Every step of a stopper keeps the invariant.
LEMMA StopStopper ==
  ASSUME StopInv, NEW t \in Stoppers, Stop(t)
  PROVE  StopInv'
<1>1. UNCHANGED <<connects, lws_ctx, context, owner>>
  BY DEF Stop, StopFlag, StopTest, StopCancel, StopCancelFaults, client, lws
<1>2. Refused' <=> Refused
  BY <1>1 DEF Refused
<1>3. StopTypes' /\ NoneYet' /\ Connecting'
  BY <1>1 DEF Stop, StopFlag, StopTest, StopCancel, StopCancelFaults, stopping,
              StopInv, StopTypes, NoneYet, Connecting
<1>4. ASSUME InOrder PROVE InOrder'
  <2>1. CASE StopFlag(t)
    BY <1>1, <1>4, <2>1
       DEF StopFlag, StopInv, StopTypes, InOrder, ContextLives, SeenStays, NoFault
  <2>2. CASE StopTest(t)
    BY <1>1, <1>4, <2>2
       DEF StopTest, StopInv, StopTypes, InOrder, ContextLives, SeenStays, NoFault
  <2>3. CASE StopCancel(t)
    BY <1>1, <1>4, <2>3
       DEF StopCancel, StopInv, StopTypes, InOrder, ContextLives, SeenStays,
           NoFault
  <2>4. ~StopCancelFaults(t)
    BY <1>4 DEF StopCancelFaults, Live, InOrder, ContextLives, SeenStays
  <2> QED
    BY <2>1, <2>2, <2>3, <2>4 DEF Stop
<1> QED
  BY <1>2, <1>3, <1>4 DEF StopInv

\* StopInv is an invariant of the simple use.
LEMMA StopAlways == ASSUME SimpleUse PROVE Spec => []StopInv
<1>1. Init => StopInv
  BY ConstantsAssumption
     DEF Init, StopInv, StopTypes, NoneYet, Connecting, Refused, InOrder, ContextLives,
         SeenStays, NoFault, Links, Null
<1>2. StopInv /\ [Next]_vars => StopInv'
  <2> SUFFICES ASSUME StopInv, [Next]_vars PROVE StopInv'
    OBVIOUS
  <2>1. CASE Connect \/ RunBegin \/ Loop \/ Destroy
    BY <2>1, StopOwner, SimpleUse
  <2>2. CASE \E t \in Stoppers : Stop(t)
    BY <2>2, StopStopper
  <2>3. CASE \E t \in Senders : Send(t)
    BY <2>3, SimpleUse DEF SimpleUse
  <2>4. CASE RunIdles \/ Over \/ UNCHANGED vars
    <3>1. UNCHANGED <<connects, lws_ctx, context, stop_pc, fault, owner>>
      BY <2>4 DEF RunIdles, Over, vars, client, lws, stopping
    <3>2. (Refused' <=> Refused) /\ (InOrder => InOrder')
      BY <3>1 DEF Refused, InOrder, ContextLives, SeenStays, NoFault
    <3> QED
      BY <3>1, <3>2 DEF StopInv, StopTypes, NoneYet, Connecting
  <2> QED
    BY <2>1, <2>2, <2>3, <2>4 DEF Next
<1> QED
  BY <1>1, <1>2, PTL DEF Spec

\* With any number of threads that call papago_wsc_stop at any time, a client that
\* connects once and sends from callbacks hands lws nothing null or freed, unless
\* its papago_wsc_connect was refused at once while a stop was in progress.
THEOREM StopIsSafe == ASSUME SimpleUse PROVE Spec => []NoFaultUnlessRefused
<1>1. StopInv => NoFaultUnlessRefused
  BY DEF StopInv, StopTypes, InOrder, NoFault, NoFaultUnlessRefused
<1> QED
  BY <1>1, StopAlways, PTL

\* In particular never, when connections are not refused at once.
THEOREM SimpleUseIsSafe ==
  ASSUME SimpleUse, "connect" \notin MayFail PROVE Spec => []NoFault
<1>1. StopInv => NoFault
  BY DEF StopInv, InOrder
<1> QED
  BY <1>1, StopAlways, PTL

-----------------------------------------------------------------------------
(* Nothing of lws is left behind                                           *)

\* Contexts are made in order, and the one that is alive is lws_ctx.
ContextKnown ==
    /\ connects \in Nat /\ lws_ctx \in Links \cup {Null} /\ lws_ctx <= connects
    /\ context \in [Links -> {"none", "live", "destroyed"}]
    /\ \A k \in Links :
          /\ connects < k => context[k] = "none"
          /\ context[k] = "live" => lws_ctx = k
    /\ owner \in {"unconnect", "gone"} =>
          \A k \in Links : context[k] # "live"
    /\ owner = "connect" => lws_ctx # Null

\* A client that connects at most once leaves no lws context when it is
\* destroyed, however its connection, its run and the threads around it went.
\* (A second papago_wsc_connect overwrites the pointer to the first context.)
THEOREM ContextIsDestroyed ==
  ASSUME MaxConnects <= 1 PROVE Spec => []NoContextLeft
<1> USE ConstantsAssumption DEF Links, Null
<1>1. Init => ContextKnown
  BY DEF Init, ContextKnown
<1>2. ContextKnown /\ [Next]_vars => ContextKnown'
  <2> SUFFICES ASSUME ContextKnown, [Next]_vars PROVE ContextKnown'
    OBVIOUS
  <2> USE DEF ContextKnown, OwnerAt
  <2>1. CASE ConnectCreate
    <3>1. connects = 0 /\ connects' = 1 /\ lws_ctx' = 1 /\ 1 \in Links
          /\ owner' = "connect"
      BY <2>1, MaxConnects <= 1 DEF ConnectCreate
    <3>2. \A k \in Links : k = 1
      BY MaxConnects <= 1
    <3>3. context' \in [Links -> {"none", "live", "destroyed"}]
      BY <2>1, <3>1 DEF ConnectCreate
    <3> QED
      BY <3>1, <3>2, <3>3
  <2>2. CASE ConnectNoContext
    <3>1. connects = 0 /\ connects' = 1 /\ lws_ctx' = Null
          /\ UNCHANGED <<context, owner>> /\ owner = "idle"
      BY <2>2, MaxConnects <= 1 DEF ConnectNoContext, lws
    <3>2. \A k \in Links : context[k] = "none"
      BY <3>1
    <3> QED
      BY <3>1, <3>2
  <2>3. CASE ConnectStarted
    BY <2>3 DEF ConnectStarted
  <2>4. CASE ConnectFailed
    <3>1. owner' = "unconnect" /\ UNCHANGED <<connects, lws_ctx>>
          /\ lws_ctx \in Links
          /\ context' = [context EXCEPT ![lws_ctx] = "destroyed"]
      BY <2>4 DEF ConnectFailed
    <3>2. \A k \in Links : context'[k] # "live" /\ (k # lws_ctx =>
                                                    context'[k] = context[k])
      BY <3>1
    <3>3. \A k \in Links : connects < k => k # lws_ctx
      BY <2>4, <3>1 DEF ConnectFailed
    <3> QED
      BY <3>1, <3>2, <3>3
  <2>5. CASE ConnectForget
    BY <2>5 DEF ConnectForget, lws
  <2>6. CASE RunBegin
    BY <2>6 DEF RunBegin, lws
  <2>7. CASE Loop
    <3>1. UNCHANGED <<connects, lws_ctx, context>>
      BY <2>7 DEF Loop, RunReturns, RunFails, Established, Receive, Lost,
          LostDone, UserReturns, UserStops, UserSends, FlushTake,
          FlushNothing, FlushWrite, FlushFails, FlushMore, CallBack, client,
          lws
    <3>2. owner' \notin {"unconnect", "gone", "connect"}
      BY <2>7 DEF Loop, RunReturns, RunFails, Established, Receive, Lost,
          LostDone, UserReturns, UserStops, UserSends, FlushTake,
          FlushNothing, FlushWrite, FlushFails, FlushMore, CallBack, Serving
    <3> QED
      BY <3>1, <3>2
  <2>8. CASE Destroy
    <3>1. owner' = "gone" /\ connects' = connects /\ lws_ctx' = Null
          /\ owner = "idle"
      BY <2>8 DEF Destroy
    <3>2. context' = IF lws_ctx = Null THEN context
                     ELSE [context EXCEPT ![lws_ctx] = "destroyed"]
      BY <2>8 DEF Destroy, lws
    <3>3. context' \in [Links -> {"none", "live", "destroyed"}]
      BY <3>2
    <3>4. \A k \in Links : context'[k] # "live"
      BY <3>2
    <3>5. \A k \in Links : connects < k => context'[k] = "none"
      BY <3>2
    <3> QED
      BY <3>1, <3>3, <3>4, <3>5
  <2>9. CASE (\E t \in Senders : Send(t)) \/ (\E t \in Stoppers : Stop(t))
             \/ RunIdles \/ Over \/ UNCHANGED vars
    <3>1. UNCHANGED <<connects, lws_ctx, context, owner>>
      BY <2>9 DEF Send, SendCheck, SendPush, SendRead, SendWake,
          SendWakeFaults, Stop, StopFlag, StopTest, StopCancel,
          StopCancelFaults, RunIdles, Over, vars, client, lws
    <3> QED
      BY <3>1
  <2> QED
    BY <2>1, <2>2, <2>3, <2>4, <2>5, <2>6, <2>7, <2>8, <2>9 DEF Next, Connect
<1>3. ContextKnown => NoContextLeft
  BY DEF ContextKnown, NoContextLeft
<1> QED
  BY <1>1, <1>2, <1>3, PTL DEF Spec

-----------------------------------------------------------------------------
(* A queued message is never forgotten                                     *)

\* Types of what asks for WRITEABLE.
AskTypes ==
    /\ pollout \in [Links -> BOOLEAN]
    /\ send_pc \in [Senders -> {"idle", "push", "read", "wake"}]
    /\ send_wsi \in [Senders -> Links \cup {Null}]

\* Handles name connections that were made: with one connect there is one.
Handed ==
    /\ wsi <= connects /\ lws_ctx <= connects
    /\ \A t \in Senders : send_wsi[t] <= connects

\* Before the first connection is up nothing can have been queued.
NothingYet ==
    (connects = 0 \/ (connects = 1 /\ owner = "connect")) =>
        /\ wsi = Null /\ queue = <<>>
        /\ \A t \in Senders : send_pc[t] = "idle"

\* Together with HandleInv, the inductive invariant.
AskInv == AskTypes /\ Handed /\ NothingYet /\ NoLostWakeup

\* Steps that leave the queue, the handles, what was asked for and the senders
\* alone keep AskInv, unless the owner comes back from a write.
LEMMA AskFrame ==
  ASSUME AskInv,
         UNCHANGED <<connects, lws_ctx, wsi, queue, pollout, send_pc,
                     send_wsi>>,
         wsi # Null => link'[wsi] = link[wsi],
         fault' = "none" => fault = "none",
         owner' = "connect" => owner = "connect",
         owner' \notin {"write", "more"} => owner \notin {"write", "more"}
  PROVE  AskInv'
<1>1. AskTypes' /\ Handed' /\ NothingYet'
  BY DEF AskInv, AskTypes, Handed, NothingYet
<1>2. NoLostWakeup'
  BY DEF AskInv, NoLostWakeup
<1> QED
  BY <1>1, <1>2 DEF AskInv

\* Every step of papago_wsc_connect keeps the invariant.
LEMMA AskConnect == HandleInv /\ AskInv /\ Connect => AskInv'
<1> SUFFICES ASSUME HandleInv, AskInv, Connect PROVE AskInv'
  OBVIOUS
<1> USE ConstantsAssumption DEF Links, Null, OwnerAt
<1>1. CASE ConnectCreate
  <2>1. /\ connects' = connects + 1 /\ lws_ctx' = connects'
        /\ owner' = "connect"
        /\ UNCHANGED <<wsi, queue, pollout, send_pc, send_wsi, link, fault>>
    BY <1>1 DEF ConnectCreate, sending
  <2>2. AskTypes' /\ Handed'
    BY <2>1 DEF AskInv, AskTypes, Handed, HandleInv, HandleTypes
  <2>3. connects' <= 1 => connects = 0
    BY <2>1 DEF HandleInv, HandleTypes
  <2>4. NothingYet'
    BY <2>1, <2>3 DEF AskInv, NothingYet, HandleInv, HandleTypes
  <2>5. NoLostWakeup'
    BY <2>1, <2>3 DEF AskInv, NothingYet, NoLostWakeup
  <2> QED
    BY <2>2, <2>4, <2>5 DEF AskInv
<1>2. CASE ConnectNoContext
  <2>1. /\ connects' = connects + 1 /\ lws_ctx' = Null
        /\ owner' = owner /\ owner = "idle"
        /\ UNCHANGED <<wsi, queue, pollout, send_pc, send_wsi, link, fault>>
    BY <1>2 DEF ConnectNoContext, sending, lws
  <2>2. AskTypes' /\ Handed'
    BY <2>1 DEF AskInv, AskTypes, Handed, HandleInv, HandleTypes
  <2>3. connects' <= 1 => connects = 0
    BY <2>1 DEF HandleInv, HandleTypes
  <2>4. NothingYet'
    BY <2>1 DEF AskInv, NothingYet, HandleInv, HandleTypes
  <2>5. NoLostWakeup'
    BY <2>1, <2>3 DEF AskInv, NothingYet, NoLostWakeup
  <2> QED
    BY <2>2, <2>4, <2>5 DEF AskInv
<1>3. CASE ConnectStarted
  <2>1. /\ wsi' = lws_ctx /\ owner = "connect" /\ owner' = "idle"
        /\ UNCHANGED <<connects, lws_ctx, queue, pollout, send_pc, send_wsi,
                       fault>>
    BY <1>3 DEF ConnectStarted, sending
  <2>2. lws_ctx \in Nat /\ lws_ctx # 0 /\ connects \in Nat
        /\ lws_ctx <= connects
    BY <2>1 DEF HandleInv, HandleTypes, HasContext, AskInv, Handed
  <2>3. AskTypes' /\ Handed'
    BY <2>1 DEF AskInv, AskTypes, Handed
  <2>4. NothingYet'
    BY <2>1, <2>2 DEF NothingYet
  <2>5. NoLostWakeup'
    BY <2>1, <2>2 DEF AskInv, NothingYet, NoLostWakeup
  <2> QED
    BY <2>3, <2>4, <2>5 DEF AskInv
<1>4. CASE ConnectFailed
  <2>1. /\ wsi' = Null /\ owner' = "unconnect" /\ owner = "connect"
        /\ UNCHANGED <<connects, lws_ctx, queue, pollout, send_pc, send_wsi>>
    BY <1>4 DEF ConnectFailed, sending
  <2>2. connects \in Nat
    BY DEF HandleInv, HandleTypes
  <2> QED
    BY <2>1, <2>2 DEF AskInv, AskTypes, Handed, NothingYet, NoLostWakeup
<1>5. CASE ConnectForget
  <2>1. /\ lws_ctx' = Null /\ owner' = "idle" /\ owner = "unconnect"
        /\ UNCHANGED <<connects, wsi, queue, pollout, send_pc, send_wsi, link,
                       fault>>
    BY <1>5 DEF ConnectForget, sending, lws
  <2>2. connects \in Nat
    BY DEF HandleInv, HandleTypes
  <2> QED
    BY <2>1, <2>2 DEF AskInv, AskTypes, Handed, NothingYet, NoLostWakeup
<1> QED
  BY <1>1, <1>2, <1>3, <1>4, <1>5 DEF Connect

\* Every step of papago_wsc_run and of the callbacks keeps the invariant.
LEMMA AskLoop == HandleInv /\ AskInv /\ Loop => AskInv'
<1> SUFFICES ASSUME HandleInv, AskInv, Loop PROVE AskInv'
  OBVIOUS
<1> USE ConstantsAssumption DEF Links, Null, OwnerAt
<1>0. /\ connects \in Nat /\ wsi \in Nat /\ lws_ctx \in Nat
      /\ InRun => lws_ctx # Null
      /\ (connects <= 1 /\ InRun /\ wsi # Null) => wsi = lws_ctx
  BY DEF HandleInv, HandleTypes, HasContext, InRun, AskInv, Handed
<1>1. CASE RunReturns \/ RunFails \/ UserReturns \/ UserStops \/ Receive
  BY <1>1, AskFrame
     DEF RunReturns, RunFails, UserReturns, UserStops, Receive, Serving,
         CallBack, client, lws, sending
<1>2. CASE Established
  <2>1. /\ link' = [link EXCEPT ![lws_ctx] = "open"] /\ owner = "loop"
        /\ link[lws_ctx] = "connecting" /\ owner' = "user"
        /\ UNCHANGED <<connects, lws_ctx, wsi, queue, pollout, send_pc,
                       send_wsi, fault>>
    BY <1>2 DEF Established, Serving, CallBack, client, sending
  <2>2. wsi # Null /\ link'[wsi] # "broken" => link[wsi] # "broken"
    BY <2>1, <1>0 DEF HandleInv, HandleTypes
  <2>3. AskTypes' /\ Handed'
    BY <2>1 DEF AskInv, AskTypes, Handed
  <2>4. NothingYet'
    BY <2>1 DEF AskInv, NothingYet
  <2>5. NoLostWakeup'
    BY <2>1, <2>2 DEF AskInv, NoLostWakeup
  <2> QED
    BY <2>3, <2>4, <2>5 DEF AskInv
<1>3. CASE Lost
  <2>1. /\ wsi' = Null /\ owner' = "closing"
        /\ UNCHANGED <<connects, lws_ctx, queue, pollout, send_pc, send_wsi>>
    BY <1>3 DEF Lost, lws, sending
  <2> QED
    BY <2>1, <1>0 DEF AskInv, AskTypes, Handed, NothingYet, NoLostWakeup
<1>4. CASE LostDone
  <2>1. /\ wsi = Null /\ wsi' = Null /\ owner' = "loop"
        /\ pollout' = [pollout EXCEPT ![lws_ctx] = FALSE]
        /\ UNCHANGED <<connects, lws_ctx, queue, send_pc, send_wsi>>
    BY <1>4 DEF LostDone, sending, HandleInv, ClearedFirst
  <2>2. AskTypes'
    BY <2>1 DEF AskInv, AskTypes
  <2> QED
    BY <2>1, <2>2, <1>0 DEF AskInv, Handed, NothingYet, NoLostWakeup
<1>5. CASE UserSends
  <2>1. /\ UNCHANGED <<connects, lws_ctx, wsi, send_pc, send_wsi, link, owner,
                       fault>>
        /\ owner \in {"user", "closing"}
        /\ wsi = Null => UNCHANGED <<queue, pollout>>
        /\ wsi # Null => pollout' = [pollout EXCEPT ![wsi] = TRUE]
    BY <1>5 DEF UserSends
  <2>2. AskTypes' /\ Handed'
    BY <2>1 DEF AskInv, AskTypes, Handed
  <2>3. NothingYet'
    BY <2>1 DEF AskInv, NothingYet
  <2>4. wsi # Null => pollout'[wsi]
    BY <2>1 DEF HandleInv, HandleTypes, AskInv, AskTypes
  <2>5. NoLostWakeup'
    BY <2>1, <2>4 DEF NoLostWakeup
  <2> QED
    BY <2>2, <2>3, <2>5 DEF AskInv
<1>6. CASE FlushTake
  <2>1. /\ UNCHANGED <<connects, lws_ctx, wsi, send_pc, send_wsi>>
        /\ pollout' = [pollout EXCEPT ![lws_ctx] = FALSE]
        /\ owner' = "write" /\ queue # <<>> /\ owner = "loop"
    BY <1>6 DEF FlushTake, Serving, sending
  <2>2. AskTypes' /\ Handed'
    BY <2>1 DEF AskInv, AskTypes, Handed
  <2>3. NothingYet' /\ NoLostWakeup'
    BY <2>1 DEF AskInv, NothingYet, NoLostWakeup
  <2> QED
    BY <2>2, <2>3 DEF AskInv
<1>7. CASE FlushNothing
  <2>1. /\ UNCHANGED <<connects, lws_ctx, wsi, queue, send_pc, send_wsi, owner>>
        /\ pollout' = [pollout EXCEPT ![lws_ctx] = FALSE]
        /\ queue = <<>>
    BY <1>7 DEF FlushNothing, Serving, sending, client
  <2>2. AskTypes' /\ Handed'
    BY <2>1 DEF AskInv, AskTypes, Handed
  <2>3. NothingYet' /\ NoLostWakeup'
    BY <2>1 DEF AskInv, NothingYet, NoLostWakeup
  <2> QED
    BY <2>2, <2>3 DEF AskInv
<1>8. CASE FlushWrite
  BY <1>8, AskFrame DEF FlushWrite, client, lws, sending
<1>9. CASE FlushFails
  <2>1. /\ UNCHANGED <<connects, lws_ctx, wsi, queue, pollout, send_pc,
                       send_wsi, fault>>
        /\ link' = [link EXCEPT ![lws_ctx] = "broken"]
        /\ owner = "write" /\ owner' = "loop"
    BY <1>9 DEF FlushFails, sending, client
  <2>2. AskTypes' /\ Handed' /\ NothingYet'
    BY <2>1 DEF AskInv, AskTypes, Handed, NothingYet
  <2>3. connects <= 1 /\ wsi # Null => link'[wsi] = "broken"
    BY <2>1, <1>0 DEF InRun, HandleInv, HandleTypes
  <2>4. NoLostWakeup'
    BY <2>1, <2>3 DEF NoLostWakeup
  <2> QED
    BY <2>2, <2>4 DEF AskInv
<1>10. CASE FlushMore
  <2>1. /\ UNCHANGED <<connects, lws_ctx, wsi, queue, send_pc, send_wsi, link,
                       fault>>
        /\ pollout' = [pollout EXCEPT ![wsi] = pollout[wsi] \/ queue # <<>>]
        /\ owner = "more" /\ owner' = "loop"
    BY <1>10 DEF FlushMore, sending, client
  <2>2. AskTypes' /\ Handed' /\ NothingYet'
    BY <2>1 DEF AskInv, AskTypes, Handed, NothingYet
  <2>3. wsi # Null /\ queue # <<>> => pollout'[wsi]
    BY <2>1 DEF AskInv, AskTypes, HandleInv, HandleTypes
  <2>4. NoLostWakeup'
    BY <2>1, <2>3 DEF NoLostWakeup
  <2> QED
    BY <2>2, <2>4 DEF AskInv
<1> QED
  BY <1>1, <1>2, <1>3, <1>4, <1>5, <1>6, <1>7, <1>8, <1>9, <1>10 DEF Loop

\* Every step of a sender keeps the invariant.
LEMMA AskSend ==
  ASSUME HandleInv, AskInv, NEW t \in Senders, Send(t)
  PROVE  AskInv'
<1> USE ConstantsAssumption DEF Links, Null
<1>0. /\ connects \in Nat /\ wsi \in Links \cup {Null}
      /\ wsi \in Nat /\ wsi <= connects
      /\ send_wsi[t] \in Nat /\ send_wsi[t] <= connects
  BY DEF HandleInv, HandleTypes, AskInv, AskTypes, Handed
<1>1. UNCHANGED <<connects, lws_ctx, wsi, link, owner>>
  BY DEF Send, SendCheck, SendPush, SendRead, SendWake, SendWakeFaults,
         client, lws
<1>2. CASE SendCheck(t)
  <2>1. /\ UNCHANGED <<queue, pollout, send_wsi, fault>>
        /\ wsi = Null => send_pc' = send_pc
        /\ wsi # Null => send_pc' = [send_pc EXCEPT ![t] = "push"]
        /\ send_pc[t] = "idle"
    BY <1>2 DEF SendCheck, client, lws
  <2>2. AskTypes' /\ Handed'
    BY <1>1, <2>1 DEF AskInv, AskTypes, Handed
  <2>3. NothingYet'
    BY <1>1, <2>1 DEF AskInv, NothingYet
  <2>4. \A u \in Senders : send_pc[u] \in {"read", "wake"}
                           => send_pc'[u] = send_pc[u]
    BY <2>1 DEF AskInv, AskTypes
  <2>5. NoLostWakeup'
    BY <1>1, <2>1, <2>4 DEF AskInv, NoLostWakeup
  <2> QED
    BY <2>2, <2>3, <2>5 DEF AskInv
<1>3. CASE SendPush(t)
  <2>1. /\ UNCHANGED <<pollout, send_wsi, fault>>
        /\ send_pc' = [send_pc EXCEPT ![t] = "read"] /\ send_pc[t] = "push"
    BY <1>3 DEF SendPush, lws
  <2>2. AskTypes' /\ Handed'
    BY <1>1, <2>1 DEF AskInv, AskTypes, Handed
  <2>3. NothingYet'
    BY <1>1, <2>1 DEF AskInv, NothingYet
  <2>4. send_pc'[t] = "read"
    BY <2>1 DEF AskInv, AskTypes
  <2>5. NoLostWakeup'
    BY <2>4 DEF NoLostWakeup
  <2> QED
    BY <2>2, <2>3, <2>5 DEF AskInv
<1>4. CASE SendRead(t)
  <2>1. /\ UNCHANGED <<queue, pollout, fault>>
        /\ send_wsi' = [send_wsi EXCEPT ![t] = wsi]
        /\ send_pc' = [send_pc EXCEPT ![t] = "wake"] /\ send_pc[t] = "read"
    BY <1>4 DEF SendRead, client, lws
  <2>2. AskTypes' /\ Handed'
    BY <1>0, <1>1, <2>1 DEF AskInv, AskTypes, Handed
  <2>3. NothingYet'
    BY <1>1, <2>1 DEF AskInv, NothingYet
  <2>4. send_pc'[t] = "wake"
    BY <2>1 DEF AskInv, AskTypes
  <2>5. NoLostWakeup'
    BY <2>4 DEF NoLostWakeup
  <2> QED
    BY <2>2, <2>3, <2>5 DEF AskInv
<1>5. CASE SendWake(t)
  <2>1. /\ UNCHANGED <<queue, fault>> /\ send_wsi[t] # Null
        /\ pollout' = [pollout EXCEPT ![send_wsi[t]] = TRUE]
        /\ send_wsi' = [send_wsi EXCEPT ![t] = Null]
        /\ send_pc' = [send_pc EXCEPT ![t] = "idle"] /\ send_pc[t] = "wake"
    BY <1>5 DEF SendWake, Usable, client
  <2>2. AskTypes' /\ Handed'
    BY <1>0, <1>1, <2>1 DEF AskInv, AskTypes, Handed
  <2>3. NothingYet'
    BY <1>1, <2>1 DEF AskInv, NothingYet
  <2>4. connects <= 1 /\ wsi # Null => wsi = send_wsi[t]
    BY <1>0, <2>1
  <2>5. connects <= 1 /\ wsi # Null => pollout'[wsi]
    BY <1>0, <2>1, <2>4 DEF AskInv, AskTypes
  <2>6. NoLostWakeup'
    BY <1>1, <2>5 DEF NoLostWakeup
  <2> QED
    BY <2>2, <2>3, <2>6 DEF AskInv
<1>6. CASE SendWakeFaults(t)
  BY <1>1, <1>6, AskFrame DEF SendWakeFaults, client, lws, sending
<1> QED
  BY <1>2, <1>3, <1>4, <1>5, <1>6 DEF Send

\* On a first connection no queued message is left without a WRITEABLE to
\* come, for every number of senders that queue while the loop runs: whoever
\* empties the request has the queue looked at again, whoever fills the queue
\* asks afterwards.
THEOREM QueuedIsAskedFor == Spec => []NoLostWakeup
<1>1. Init => AskInv
  BY ConstantsAssumption
     DEF Init, AskInv, AskTypes, Handed, NothingYet, NoLostWakeup, Links, Null
<1>2. HandleInv /\ AskInv /\ [Next]_vars => AskInv'
  <2> SUFFICES ASSUME HandleInv, AskInv, [Next]_vars PROVE AskInv'
    OBVIOUS
  <2>1. CASE Connect
    BY <2>1, AskConnect
  <2>2. CASE Loop
    BY <2>2, AskLoop
  <2>3. CASE \E t \in Senders : Send(t)
    BY <2>3, AskSend
  <2>4. CASE RunBegin
    BY <2>4, AskFrame DEF RunBegin, OwnerAt, lws, sending
  <2>5. CASE Destroy
    <3>1. /\ wsi' = Null /\ lws_ctx' = Null /\ owner' = "gone"
          /\ queue' = <<>>
          /\ UNCHANGED <<connects, send_pc, send_wsi>>
          /\ \A t \in Senders : send_pc[t] = "idle"
      BY <2>5 DEF Destroy, Unused, sending
    <3>2. pollout' \in [Links -> BOOLEAN]
      BY <2>5 DEF Destroy, lws, AskInv, AskTypes
    <3>3. connects \in Nat
      BY DEF HandleInv, HandleTypes
    <3> QED
      BY <3>1, <3>2, <3>3
         DEF AskInv, AskTypes, Handed, NothingYet, NoLostWakeup, Null
  <2>6. CASE \E t \in Stoppers : Stop(t)
    BY <2>6, AskFrame
       DEF Stop, StopFlag, StopTest, StopCancel, StopCancelFaults, client,
           lws, sending
  <2>7. CASE RunIdles \/ Over \/ UNCHANGED vars
    BY <2>7, AskFrame DEF RunIdles, Over, vars, client, lws, sending
  <2> QED
    BY <2>1, <2>2, <2>3, <2>4, <2>5, <2>6, <2>7 DEF Next
<1>3. AskInv => NoLostWakeup
  BY DEF AskInv
<1> QED
  BY <1>1, <1>2, <1>3, HandleInit, HandleStep, PTL DEF Spec

-----------------------------------------------------------------------------
(* Order of the messages                                                   *)

\* What Fifo says of the messages queued so far, those still on their way and
\* those that are gone.
Kept(all, now, gone) ==
    /\ Range(all) = Range(now) \cup gone
    /\ Range(now) \cap gone = {}
    /\ \A i, j \in DOMAIN now, a, b \in DOMAIN all :
          (i < j /\ now[i] = all[a] /\ now[j] = all[b]) => a < b

\* The messages of a sequence that one is appended to.
LEMMA RangeAppend == \A s \in Seq(Msgs), m \in Msgs :
                         Range(Append(s, m)) = Range(s) \cup {m}
<1> TAKE s \in Seq(Msgs), m \in Msgs
<1> DEFINE a == Append(s, m)
<1>1. /\ Len(s) \in Nat /\ DOMAIN s = 1 .. Len(s)
      /\ DOMAIN a = 1 .. Len(s) + 1 /\ a[Len(s) + 1] = m
      /\ \A i \in 1 .. Len(s) : a[i] = s[i]
  BY AppendProperties, LenProperties
<1> HIDE DEF a
<1>2. Range(a) = Range(s) \cup {m}
  BY <1>1 DEF Range
<1> QED BY <1>2 DEF a

\* wsc_enqueue puts a new message behind both.
LEMMA KeptPush ==
    ASSUME NEW all \in Seq(Msgs), NEW now \in Seq(Msgs), NEW gone,
           NEW m \in Msgs, m \notin Range(all), Kept(all, now, gone)
    PROVE  Kept(Append(all, m), Append(now, m), gone)
<1> DEFINE all2 == Append(all, m)
           now2 == Append(now, m)
<1>n. Len(all) \in Nat /\ Len(now) \in Nat
  BY LenProperties
<1>1. /\ DOMAIN all = 1 .. Len(all) /\ DOMAIN now = 1 .. Len(now)
      /\ DOMAIN all2 = 1 .. Len(all) + 1 /\ DOMAIN now2 = 1 .. Len(now) + 1
      /\ all2[Len(all) + 1] = m /\ now2[Len(now) + 1] = m
      /\ \A i \in 1 .. Len(all) : all2[i] = all[i]
      /\ \A i \in 1 .. Len(now) : now2[i] = now[i]
  BY AppendProperties, LenProperties
<1> HIDE DEF all2, now2
<1>2. Range(all2) = Range(all) \cup {m} /\ Range(now2) = Range(now) \cup {m}
  BY RangeAppend DEF all2, now2
<1>3. m \notin Range(now) /\ m \notin gone
  BY DEF Kept
<1>4. ASSUME NEW i \in DOMAIN now2, NEW j \in DOMAIN now2,
             NEW a \in DOMAIN all2, NEW b \in DOMAIN all2,
             i < j, now2[i] = all2[a], now2[j] = all2[b]
      PROVE  a < b
  <2>1. i \in 1 .. Len(now) /\ now2[i] = now[i] /\ now[i] # m
    BY <1>n, <1>1, <1>3, <1>4 DEF Range
  <2>2. a \in 1 .. Len(all) /\ all2[a] = all[a]
    <3>1. all2[a] # m
      BY <1>4, <2>1
    <3>2. a # Len(all) + 1
      BY <1>1, <3>1
    <3> QED BY <1>n, <1>1, <3>2
  <2>3. CASE b = Len(all) + 1
    BY <1>n, <2>2, <2>3
  <2>4. CASE b # Len(all) + 1
    <3>1. b \in 1 .. Len(all) /\ all2[b] = all[b] /\ all[b] # m
      BY <1>n, <1>1, <2>4 DEF Range
    <3>2. j \in 1 .. Len(now) /\ now2[j] = now[j]
      BY <1>n, <1>1, <1>4, <3>1
    <3> QED BY <1>1, <1>4, <2>1, <2>2, <3>1, <3>2 DEF Kept
  <2> QED BY <2>3, <2>4
<1>5. Kept(all2, now2, gone)
  BY <1>2, <1>3, <1>4 DEF Kept
<1> QED BY <1>5 DEF all2, now2

\* What is left of a sequence: now2, place[i] being where its i-th message was.
Leave(now, now2, place, left) ==
    /\ \A i \in DOMAIN now : i \in Int
    /\ \A i \in DOMAIN now2 : place[i] \in DOMAIN now
                              /\ now2[i] = now[place[i]]
    /\ \A i, j \in DOMAIN now2 : i < j => place[i] < place[j]
    /\ Range(now) = Range(now2) \cup left
    /\ Range(now2) \cap left = {}

\* Messages that leave the sequence for the ones gone, wherever they stand,
\* leave the others as they were.
LEMMA KeptLeave ==
    ASSUME NEW all, NEW now, NEW gone, NEW now2, NEW left, NEW place,
           Kept(all, now, gone), Leave(now, now2, place, left)
    PROVE  Kept(all, now2, gone \cup left)
<1> USE DEF Leave
<1>1. Range(now2) \subseteq Range(now)
  OBVIOUS
<1>2. /\ Range(all) = Range(now2) \cup (gone \cup left)
      /\ Range(now2) \cap (gone \cup left) = {}
  BY <1>1 DEF Kept
<1> QED BY <1>2 DEF Kept

\* A message stands in one place only.
LEMMA KeptOnce ==
    ASSUME NEW all \in Seq(Msgs), NEW now \in Seq(Msgs), NEW gone,
           Kept(all, now, gone), NEW i \in DOMAIN now, NEW j \in DOMAIN now,
           i < j
    PROVE  now[i] # now[j]
<1> SUFFICES ASSUME now[i] = now[j] PROVE FALSE
  OBVIOUS
<1>1. PICK a \in DOMAIN all : all[a] = now[i]
  BY DEF Kept, Range
<1>2. a < a
  BY <1>1 DEF Kept
<1>3. a \in Int
  BY LenProperties
<1> QED BY <1>2, <1>3

\* Where the messages written, in hand and queued stand in their sequence.
LEMMA JoinPlaces ==
    \A w, h, q \in Seq(Msgs) :
        /\ w \o h \o q \in Seq(Msgs)
        /\ Len(w \o h \o q) = Len(w) + Len(h) + Len(q)
        /\ DOMAIN (w \o h \o q) = 1 .. Len(w) + Len(h) + Len(q)
        /\ \A i \in 1 .. Len(w) : (w \o h \o q)[i] = w[i]
        /\ \A i \in 1 .. Len(h) : (w \o h \o q)[Len(w) + i] = h[i]
        /\ \A i \in 1 .. Len(q) : (w \o h \o q)[Len(w) + Len(h) + i] = q[i]
<1> TAKE w, h, q \in Seq(Msgs)
<1>n. Len(w) \in Nat /\ Len(h) \in Nat /\ Len(q) \in Nat
  BY LenProperties
<1> DEFINE p == w \o h
<1>1. /\ p \in Seq(Msgs) /\ Len(p) = Len(w) + Len(h)
      /\ \A i \in 1 .. Len(w) + Len(h) :
             p[i] = IF i <= Len(w) THEN w[i] ELSE h[i - Len(w)]
  BY ConcatProperties
<1> HIDE DEF p
<1>2. /\ p \o q \in Seq(Msgs)
      /\ Len(p \o q) = Len(p) + Len(q)
      /\ \A i \in 1 .. Len(p) + Len(q) :
             (p \o q)[i] = IF i <= Len(p) THEN p[i] ELSE q[i - Len(p)]
  <2>1. p \in Seq(Msgs)
    BY <1>1
  <2> QED BY <2>1, ConcatProperties
<1>3. DOMAIN (p \o q) = 1 .. Len(p) + Len(q)
  BY <1>2, LenProperties
<1>4. ASSUME NEW i \in 1 .. Len(w) PROVE (p \o q)[i] = w[i]
  BY <1>n, <1>1, <1>2
<1>5. ASSUME NEW i \in 1 .. Len(h) PROVE (p \o q)[Len(w) + i] = h[i]
  <2>1. /\ Len(w) + i \in 1 .. Len(w) + Len(h) /\ ~(Len(w) + i <= Len(w))
        /\ Len(w) + i - Len(w) = i
        /\ Len(w) + i \in 1 .. Len(w) + Len(h) + Len(q)
    BY <1>n
  <2> QED BY <1>1, <1>2, <2>1
<1>6. ASSUME NEW i \in 1 .. Len(q)
      PROVE  (p \o q)[Len(w) + Len(h) + i] = q[i]
  <2>1. /\ Len(p) + i \in 1 .. Len(p) + Len(q) /\ ~(Len(p) + i <= Len(p))
        /\ Len(p) + i - Len(p) = i
    BY <1>n, <1>1
  <2> QED BY <1>1, <1>2, <2>1
<1> QED BY <1>1, <1>2, <1>3, <1>4, <1>5, <1>6 DEF p

\* Queueing a message appends it to the sequence.
LEMMA JoinPush ==
    \A w, h, q \in Seq(Msgs), m \in Msgs :
        w \o h \o Append(q, m) = Append(w \o h \o q, m)
<1> TAKE w, h, q \in Seq(Msgs), m \in Msgs
<1>1. w \o h \in Seq(Msgs) /\ <<m>> \in Seq(Msgs)
  BY ConcatProperties
<1>2. w \o h \o q \in Seq(Msgs)
  BY JoinPlaces
<1>3. Append(q, m) = q \o <<m>> /\ Append(w \o h \o q, m) = w \o h \o q \o <<m>>
  BY <1>2, AppendIsConcat
<1>4. (w \o h) \o (q \o <<m>>) = ((w \o h) \o q) \o <<m>>
  BY <1>1, ConcatAssociative
<1> QED BY <1>3, <1>4, Zenon

\* Taking the head of the queue in hand leaves the sequence as it is.
LEMMA JoinTake ==
    \A w, q \in Seq(Msgs) :
        q # <<>> => w \o <<Head(q)>> \o Tail(q) = w \o <<>> \o q
<1> TAKE w, q \in Seq(Msgs)
<1> HAVE q # <<>>
<1>1. /\ Head(q) \in Msgs /\ Tail(q) \in Seq(Msgs)
      /\ Len(q) \in Nat \ {0} /\ Len(Tail(q)) = Len(q) - 1 /\ Head(q) = q[1]
      /\ \A i \in 1 .. Len(q) - 1 : Tail(q)[i] = q[i + 1]
  BY HeadTailProperties, EmptySeq
<1>2. <<Head(q)>> \in Seq(Msgs)
  BY <1>1
<1>3. q = <<Head(q)>> \o Tail(q)
  <2>1. SubSeq(q, 1, Len(q)) = <<q[1]>> \o SubSeq(q, 1 + 1, Len(q))
    BY <1>1, SubSeqRecursiveFirst
  <2>2. Tail(q) = SubSeq(q, 2, Len(q)) /\ SubSeq(q, 1, Len(q)) = q
    BY TailIsSubSeq, SubSeqFull
  <2>3. 1 + 1 = 2
    OBVIOUS
  <2> QED BY <1>1, <2>1, <2>2, <2>3
<1>4. w \o <<>> = w
  BY ConcatEmptySeq
<1>5. (w \o <<Head(q)>>) \o Tail(q) = w \o (<<Head(q)>> \o Tail(q))
  BY <1>1, <1>2, ConcatAssociative
<1> QED BY <1>3, <1>4, <1>5, Zenon

\* So does writing what is in hand.
LEMMA JoinWrite ==
    \A w, q \in Seq(Msgs), m \in Msgs :
        Append(w, m) \o <<>> \o q = w \o <<m>> \o q
<1> TAKE w, q \in Seq(Msgs), m \in Msgs
<1>1. Append(w, m) \in Seq(Msgs) /\ Append(w, m) = w \o <<m>>
  BY AppendProperties, AppendIsConcat
<1>2. Append(w, m) \o <<>> = Append(w, m)
  BY <1>1, ConcatEmptySeq
<1> QED BY <1>1, <1>2, Zenon

\* lws_write refuses what is in hand: the others keep their order.
LEMMA KeptRefused ==
    ASSUME NEW all \in Seq(Msgs), NEW w \in Seq(Msgs), NEW q \in Seq(Msgs),
           NEW m \in Msgs, NEW gone, Kept(all, w \o <<m>> \o q, gone)
    PROVE  Kept(all, w \o <<>> \o q, gone \cup {m})
<1> DEFINE now == w \o <<m>> \o q
           now2 == w \o <<>> \o q
           place == [i \in 1 .. Len(w) + Len(q) |->
                        IF i <= Len(w) THEN i ELSE i + 1]
<1>h. <<m>> \in Seq(Msgs) /\ <<>> \in Seq(Msgs) /\ Len(<<m>>) = 1
      /\ Len(<<>>) = 0 /\ <<m>>[1] = m
  OBVIOUS
<1>n. Len(w) \in Nat /\ Len(q) \in Nat
  BY LenProperties
<1>1. /\ now \in Seq(Msgs)
      /\ DOMAIN now = 1 .. Len(w) + 1 + Len(q)
      /\ \A i \in 1 .. Len(w) : now[i] = w[i]
      /\ now[Len(w) + 1] = m
      /\ \A i \in 1 .. Len(q) : now[Len(w) + 1 + i] = q[i]
  <2>1. 1 \in 1 .. 1
    OBVIOUS
  <2> QED BY <1>h, <2>1, JoinPlaces
<1>2. /\ DOMAIN now2 = 1 .. Len(w) + 0 + Len(q)
      /\ \A i \in 1 .. Len(w) : now2[i] = w[i]
      /\ \A i \in 1 .. Len(q) : now2[Len(w) + 0 + i] = q[i]
  BY <1>h, JoinPlaces
<1>k. Kept(all, now, gone)
  OBVIOUS
<1> HIDE DEF now, now2
<1>3. ASSUME NEW i \in DOMAIN now, i # Len(w) + 1 PROVE now[i] # m
  <2>1. i < Len(w) + 1 \/ Len(w) + 1 < i
    BY <1>n, <1>1, <1>3
  <2>2. Len(w) + 1 \in DOMAIN now
    BY <1>n, <1>1
  <2> QED BY <1>1, <1>k, <2>1, <2>2, KeptOnce
<1>4. ASSUME NEW i \in DOMAIN now2
      PROVE  /\ place[i] \in DOMAIN now /\ now2[i] = now[place[i]]
             /\ place[i] # Len(w) + 1
  <2>1. CASE i <= Len(w)
    BY <1>n, <1>1, <1>2, <2>1
  <2>2. CASE ~(i <= Len(w))
    <3> DEFINE k == i - Len(w)
    <3>1. k \in 1 .. Len(q) /\ i = Len(w) + 0 + k /\ i + 1 = Len(w) + 1 + k
          /\ i \in 1 .. Len(w) + Len(q)
      BY <1>n, <1>2, <2>2
    <3>2. now2[i] = q[k] /\ now[i + 1] = q[k]
      BY <1>1, <1>2, <3>1
    <3>3. place[i] = i + 1
      BY <2>2, <3>1
    <3> QED BY <1>n, <1>1, <3>1, <3>2, <3>3
  <2> QED BY <2>1, <2>2
<1>5. \A i, j \in DOMAIN now2 : i < j => place[i] < place[j]
  BY <1>n, <1>2
<1>6. ASSUME NEW i \in DOMAIN now, i # Len(w) + 1
      PROVE  \E j \in DOMAIN now2 : now2[j] = now[i]
  <2>1. CASE i < Len(w) + 1
    BY <1>n, <1>1, <1>2, <2>1
  <2>2. CASE ~(i < Len(w) + 1)
    <3>1. i - 1 \in DOMAIN now2 /\ place[i - 1] = i
      BY <1>n, <1>1, <1>2, <1>6, <2>2
    <3> QED BY <1>4, <3>1
  <2> QED BY <2>1, <2>2
<1>7. Range(now) = Range(now2) \cup {m}
  <2>1. Len(w) + 1 \in DOMAIN now
    BY <1>n, <1>1
  <2>2. Range(now) \subseteq Range(now2) \cup {m}
    <3>1. ASSUME NEW i \in DOMAIN now PROVE now[i] \in Range(now2) \cup {m}
      <4>1. CASE i = Len(w) + 1
        BY <1>1, <4>1
      <4>2. CASE i # Len(w) + 1
        <5>1. PICK j \in DOMAIN now2 : now2[j] = now[i]
          BY <1>6, <4>2
        <5> QED BY <5>1 DEF Range
      <4> QED BY <4>1, <4>2
    <3> QED BY <3>1 DEF Range
  <2>3. Range(now2) \subseteq Range(now)
    <3> HIDE DEF place
    <3> QED BY <1>4 DEF Range
  <2>4. m \in Range(now)
    BY <1>1, <2>1 DEF Range
  <2> QED BY <2>2, <2>3, <2>4
<1>8. Range(now2) \cap {m} = {}
  <2>1. ASSUME NEW i \in DOMAIN now2 PROVE now2[i] # m
    <3> HIDE DEF place
    <3> QED BY <1>3, <1>4
  <2> QED BY <2>1 DEF Range
<1>9. Kept(all, now2, gone \cup {m})
  <2> HIDE DEF place
  <2>1. \A i \in DOMAIN now : i \in Int
    BY <1>n, <1>1
  <2>2. Leave(now, now2, place, {m})
    BY <1>4, <1>5, <1>7, <1>8, <2>1 DEF Leave
  <2> QED BY <1>k, <2>2, KeptLeave
<1> QED BY <1>9 DEF now2

\* papago_wsc_destroy frees what is queued.
LEMMA KeptDrained ==
    ASSUME NEW all \in Seq(Msgs), NEW w \in Seq(Msgs), NEW q \in Seq(Msgs),
           NEW gone, Kept(all, w \o <<>> \o q, gone)
    PROVE  Kept(all, w \o <<>> \o <<>>, gone \cup Range(q))
<1> DEFINE now == w \o <<>> \o q
           now2 == w \o <<>> \o <<>>
           place == [i \in 1 .. Len(w) |-> i]
<1>h. <<>> \in Seq(Msgs) /\ Len(<<>>) = 0
  OBVIOUS
<1>n. Len(w) \in Nat /\ Len(q) \in Nat /\ DOMAIN q = 1 .. Len(q)
  BY LenProperties
<1>1. /\ now \in Seq(Msgs)
      /\ DOMAIN now = 1 .. Len(w) + 0 + Len(q)
      /\ \A i \in 1 .. Len(w) : now[i] = w[i]
      /\ \A i \in 1 .. Len(q) : now[Len(w) + 0 + i] = q[i]
  BY <1>h, JoinPlaces
<1>2. /\ DOMAIN now2 = 1 .. Len(w) + 0 + 0
      /\ \A i \in 1 .. Len(w) : now2[i] = w[i]
  BY <1>h, JoinPlaces
<1>k. Kept(all, now, gone)
  OBVIOUS
<1> HIDE DEF now, now2
<1>3. \A i \in DOMAIN now2 : place[i] \in DOMAIN now /\ now2[i] = now[place[i]]
  BY <1>n, <1>1, <1>2
<1>4. \A i, j \in DOMAIN now2 : i < j => place[i] < place[j]
  BY <1>n, <1>2
<1>5. ASSUME NEW i \in DOMAIN now
      PROVE  now[i] \in Range(now2) \cup Range(q)
  <2>1. CASE i <= Len(w)
    <3>1. i \in 1 .. Len(w) /\ i \in DOMAIN now2
      BY <1>n, <1>1, <1>2, <2>1
    <3>2. now[i] = now2[i]
      BY <1>1, <1>2, <3>1
    <3> QED BY <3>1, <3>2 DEF Range
  <2>2. CASE ~(i <= Len(w))
    <3>1. i - Len(w) \in 1 .. Len(q) /\ i = Len(w) + 0 + (i - Len(w))
      BY <1>n, <1>1, <2>2
    <3> QED BY <1>n, <1>1, <3>1 DEF Range
  <2> QED BY <2>1, <2>2
<1>6. ASSUME NEW i \in 1 .. Len(q)
      PROVE  Len(w) + 0 + i \in DOMAIN now /\ now[Len(w) + 0 + i] = q[i]
  BY <1>n, <1>1
<1>7. Range(now) = Range(now2) \cup Range(q)
  <2> HIDE DEF place
  <2>1. Range(now2) \subseteq Range(now)
    BY <1>3 DEF Range
  <2>2. Range(q) \subseteq Range(now)
    BY <1>n, <1>6 DEF Range
  <2>3. Range(now) \subseteq Range(now2) \cup Range(q)
    BY <1>5 DEF Range
  <2> QED BY <2>1, <2>2, <2>3
<1>8. ASSUME NEW i \in DOMAIN now2, NEW j \in 1 .. Len(q) PROVE now2[i] # q[j]
  <2>1. i \in DOMAIN now /\ i < Len(w) + 0 + j /\ now2[i] = now[i]
    BY <1>n, <1>1, <1>2
  <2> QED BY <1>1, <1>6, <1>k, <2>1, KeptOnce
<1>9. Range(now2) \cap Range(q) = {}
  BY <1>n, <1>8 DEF Range
<1>10. Kept(all, now2, gone \cup Range(q))
  <2> HIDE DEF place
  <2>1. \A i \in DOMAIN now : i \in Int
    BY <1>n, <1>1
  <2>2. Leave(now, now2, place, Range(q))
    BY <1>3, <1>4, <1>7, <1>9, <2>1 DEF Leave
  <2> QED BY <1>k, <2>2, KeptLeave
<1> QED BY <1>10 DEF now2

\* Types of the messages' places; a message is in hand in wsc_flush_one only,
\* and nothing is freed before papago_wsc_destroy.
OrderTypes ==
    /\ sent \in 0 .. MaxSends
    /\ queue \in Seq(Msgs) /\ accepted \in Seq(Msgs) /\ wire \in Seq(Msgs)
    /\ writing \in Msgs \cup {Null} /\ (writing # Null <=> owner = "write")
    /\ send_pc \in [Senders -> {"idle", "push", "read", "wake"}]
    /\ send_msg \in [Senders -> Msgs \cup {Null}]
    /\ owner # "gone" => drained = {}

\* A message that a sender is about to queue is nobody else's.
Fresh ==
    /\ \A m \in Range(accepted) : m <= sent
    /\ \A t \in Senders : send_pc[t] = "push" =>
          /\ send_msg[t] \in 1 .. sent
          /\ send_msg[t] \notin Range(accepted)
          /\ \A u \in Senders :
                (send_pc[u] = "push" /\ u # t) => send_msg[u] # send_msg[t]

\* The inductive invariant.
OrderInv == OrderTypes /\ Fresh /\ Fifo

InHand == IF writing = Null THEN <<>> ELSE <<writing>>
Underway == wire \o InHand \o queue

\* Fifo is Kept of the messages under way and those that failed or were drained.
LEMMA FifoKept == Fifo <=> Kept(accepted, Underway, failed \cup drained)
  BY DEF Fifo, Kept, Underway, InHand

\* The messages under way are a sequence of messages.
LEMMA InHandType == OrderTypes => InHand \in Seq(Msgs) /\ Underway \in Seq(Msgs)
<1> SUFFICES ASSUME OrderTypes PROVE InHand \in Seq(Msgs) /\ Underway \in Seq(Msgs)
  OBVIOUS
<1>1. InHand \in Seq(Msgs)
  BY DEF OrderTypes, InHand
<1>2. wire \in Seq(Msgs) /\ queue \in Seq(Msgs)
  BY DEF OrderTypes
<1> QED BY <1>1, <1>2, JoinPlaces DEF Underway

\* Steps that leave the messages alone.
LEMMA OrderFrame ==
    ASSUME OrderInv,
           UNCHANGED <<queue, writing, sending, history>>,
           owner' = "write" <=> owner = "write",
           owner' # "gone" => owner # "gone"
    PROVE  OrderInv'
<1>1. OrderTypes'
  BY DEF OrderInv, OrderTypes, sending, history
<1>2. Fresh'
  BY DEF OrderInv, Fresh, sending, history
<1>3. Fifo'
  BY DEF OrderInv, Fifo, history
<1> QED BY <1>1, <1>2, <1>3 DEF OrderInv

\* A new message m is queued and is no longer anybody's.
LEMMA OrderPush ==
    ASSUME OrderInv, NEW m \in Msgs, m \notin Range(accepted),
           queue' = Append(queue, m), accepted' = Append(accepted, m),
           UNCHANGED <<wire, writing, failed, drained>>
    PROVE  Fifo'
<1>1. /\ queue \in Seq(Msgs) /\ accepted \in Seq(Msgs) /\ wire \in Seq(Msgs)
      /\ InHand \in Seq(Msgs) /\ Underway \in Seq(Msgs)
  BY InHandType DEF OrderInv, OrderTypes
<1>2. InHand' = InHand
  BY DEF InHand
<1>3. Underway' = Append(Underway, m)
  <2>1. wire \o InHand \o Append(queue, m) = Append(wire \o InHand \o queue, m)
    BY ONLY <1>1, m \in Msgs, JoinPush
  <2>2. Underway' = wire \o InHand \o Append(queue, m)
    BY <1>2 DEF Underway
  <2> QED BY <2>1, <2>2 DEF Underway
<1>4. Kept(accepted, Underway, failed \cup drained)
  BY FifoKept DEF OrderInv
<1>5. Kept(accepted', Underway', (failed \cup drained)')
  <2>1. Kept(Append(accepted, m), Append(Underway, m), failed \cup drained)
    BY ONLY <1>1, <1>4, m \in Msgs, m \notin Range(accepted), KeptPush
  <2>2. failed' = failed /\ drained' = drained
    OBVIOUS
  <2> QED BY <1>3, <2>1, <2>2
<1>6. Fifo' <=> Kept(accepted', Underway', (failed \cup drained)')
  BY DEF Fifo, Kept, Underway, InHand
<1> QED BY <1>5, <1>6

\* A number is used up, and the message may have been queued.
LEMMA FreshGrows ==
    ASSUME OrderInv, sent' = sent + 1, UNCHANGED <<send_pc, send_msg>>,
           Range(accepted') \subseteq Range(accepted) \cup {sent + 1}
    PROVE  Fresh'
<1>1. sent \in Nat /\ \A m \in Range(accepted) : m \in Nat /\ m <= sent
  <2>1. MaxSends \in Nat /\ sent \in 0 .. MaxSends /\ accepted \in Seq(Msgs)
    BY ConstantsAssumption DEF OrderInv, OrderTypes
  <2>2. \A m \in Range(accepted) : m \in Msgs
    BY <2>1, LenProperties DEF Range
  <2> QED BY <2>1, <2>2 DEF OrderInv, Fresh, Msgs
<1>2. \A m \in Range(accepted') : m <= sent'
  BY <1>1
<1>3. ASSUME NEW t \in Senders, send_pc[t] = "push"
      PROVE  /\ send_msg[t] \in 1 .. sent
             /\ send_msg[t] \notin Range(accepted)
             /\ \A u \in Senders :
                   (send_pc[u] = "push" /\ u # t) => send_msg[u] # send_msg[t]
  BY <1>3 DEF OrderInv, Fresh
<1>4. ASSUME NEW t \in Senders, send_pc[t] = "push"
      PROVE  send_msg[t] \in 1 .. sent' /\ send_msg[t] \notin Range(accepted')
  BY <1>1, <1>3, <1>4
<1> QED BY <1>2, <1>3, <1>4 DEF Fresh

\* Steps of the event loop.
LEMMA OrderLoop == OrderInv /\ Loop => OrderInv'
<1> SUFFICES ASSUME OrderInv, Loop PROVE OrderInv'
  OBVIOUS
<1>t. /\ queue \in Seq(Msgs) /\ accepted \in Seq(Msgs) /\ wire \in Seq(Msgs)
      /\ sent \in 0 .. MaxSends /\ MaxSends \in Nat
  BY ConstantsAssumption DEF OrderInv, OrderTypes
<1>k. Kept(accepted, Underway, failed \cup drained)
  BY FifoKept DEF OrderInv
<1>f. ASSUME Kept(accepted', Underway', (failed \cup drained)') PROVE Fifo'
  BY <1>f DEF Fifo, Kept, Underway, InHand
<1>1. CASE RunReturns \/ RunFails \/ Established \/ Receive \/ Lost \/ LostDone
           \/ UserReturns \/ UserStops \/ FlushNothing \/ FlushMore
  BY <1>1, OrderFrame
     DEF RunReturns, RunFails, Established, Receive, Lost, LostDone,
         UserReturns, UserStops, FlushNothing, FlushMore, Serving, CallBack,
         OwnerAt, client, sending
<1>2. CASE UserSends
  <2> DEFINE m == sent + 1
  <2>1. /\ sent < MaxSends /\ sent' = m
        /\ UNCHANGED <<owner, writing, send_pc, send_msg, wire, failed, drained>>
    BY <1>2 DEF UserSends
  <2>2. m \in Msgs /\ m \notin Range(accepted)
    BY <1>t, <2>1 DEF OrderInv, Fresh, Msgs
  <2>3. CASE UNCHANGED <<queue, accepted>>
    <3>1. OrderTypes'
      BY <1>t, <2>1, <2>3 DEF OrderInv, OrderTypes
    <3>2. Fresh'
      BY <2>1, <2>3, FreshGrows
    <3>3. Fifo'
      BY <2>1, <2>3 DEF OrderInv, Fifo
    <3> QED BY <3>1, <3>2, <3>3 DEF OrderInv
  <2>4. CASE /\ queue' = Append(queue, m)
             /\ accepted' = Append(accepted, m)
    <3>1. Fifo'
      BY <2>1, <2>2, <2>4, OrderPush
    <3>2. OrderTypes'
      BY <1>t, <2>1, <2>2, <2>4 DEF OrderInv, OrderTypes
    <3>3. Range(accepted') = Range(accepted) \cup {m}
      BY <1>t, <2>2, <2>4, RangeAppend
    <3>4. Fresh'
      BY <2>1, <3>3, FreshGrows
    <3> QED BY <3>1, <3>2, <3>4 DEF OrderInv
  <2> QED BY <1>2, <2>3, <2>4 DEF UserSends
<1>3. CASE FlushTake
  <2>1. /\ queue # <<>> /\ writing' = Head(queue) /\ queue' = Tail(queue)
        /\ owner = "loop" /\ owner' = "write"
        /\ UNCHANGED <<sending, history>>
    BY <1>3 DEF FlushTake, Serving, OwnerAt
  <2>2. writing = Null
    BY <2>1 DEF OrderInv, OrderTypes
  <2>3. Head(queue) \in Msgs /\ Tail(queue) \in Seq(Msgs) /\ Null \notin Msgs
    BY <1>t, <2>1, HeadTailProperties DEF Null, Msgs
  <2>4. OrderTypes'
    BY <2>1, <2>3 DEF OrderInv, OrderTypes, sending, history
  <2>5. Fresh'
    BY <2>1 DEF OrderInv, Fresh, sending, history
  <2>6. Underway' = wire \o <<Head(queue)>> \o Tail(queue)
    BY <2>1, <2>3 DEF Underway, InHand, history
  <2>7. Underway = wire \o <<>> \o queue
    BY <2>2 DEF Underway, InHand
  <2>8. Underway' = Underway
    BY <1>t, <2>1, <2>6, <2>7, JoinTake, Zenon
  <2>9. UNCHANGED <<accepted, failed, drained>>
    BY <2>1 DEF history
  <2> QED BY <1>k, <1>f, <2>4, <2>5, <2>8, <2>9 DEF OrderInv
<1>4. CASE FlushWrite
  <2>1. /\ wire' = Append(wire, writing) /\ writing' = Null /\ owner = "write"
        /\ owner' = "more"
        /\ UNCHANGED <<queue, sending, accepted, failed, drained>>
    BY <1>4 DEF FlushWrite, OwnerAt, client
  <2>2. writing \in Msgs /\ writing # Null
    BY <2>1 DEF OrderInv, OrderTypes
  <2>4. OrderTypes'
    BY <1>t, <2>1, <2>2 DEF OrderInv, OrderTypes, sending
  <2>5. Fresh'
    BY <2>1 DEF OrderInv, Fresh, sending
  <2>6. Underway' = Append(wire, writing) \o <<>> \o queue
    BY <2>1 DEF Underway, InHand
  <2>7. Underway = wire \o <<writing>> \o queue
    BY <2>2 DEF Underway, InHand
  <2>8. Underway' = Underway
    BY <1>t, <2>2, <2>6, <2>7, JoinWrite, Zenon
  <2> QED BY <1>k, <1>f, <2>1, <2>4, <2>5, <2>8 DEF OrderInv
<1>5. CASE FlushFails
  <2>1. /\ failed' = failed \cup {writing} /\ writing' = Null
        /\ owner = "write" /\ owner' = "loop"
        /\ UNCHANGED <<queue, sending, accepted, wire, drained>>
    BY <1>5 DEF FlushFails, OwnerAt, client
  <2>2. writing \in Msgs /\ writing # Null
    BY <2>1 DEF OrderInv, OrderTypes
  <2>4. OrderTypes'
    BY <2>1 DEF OrderInv, OrderTypes, sending
  <2>5. Fresh'
    BY <2>1 DEF OrderInv, Fresh, sending
  <2>6. Underway' = wire \o <<>> \o queue
    BY <2>1 DEF Underway, InHand
  <2>7. Underway = wire \o <<writing>> \o queue
    BY <2>2 DEF Underway, InHand
  <2>8. Kept(accepted, wire \o <<>> \o queue,
             (failed \cup drained) \cup {writing})
    BY <1>t, <1>k, <2>2, <2>7, KeptRefused
  <2>9. (failed \cup drained)' = (failed \cup drained) \cup {writing}
    BY <2>1
  <2>10. Kept(accepted', Underway', (failed \cup drained)')
    BY <2>1, <2>6, <2>8, <2>9
  <2> QED BY <1>f, <2>4, <2>5, <2>10 DEF OrderInv
<1> QED BY <1>1, <1>2, <1>3, <1>4, <1>5 DEF Loop

\* Steps of a sender.
LEMMA OrderSend == ASSUME OrderInv, NEW t \in Senders, Send(t) PROVE OrderInv'
<1>t. /\ queue \in Seq(Msgs) /\ accepted \in Seq(Msgs) /\ wire \in Seq(Msgs)
      /\ sent \in 0 .. MaxSends /\ MaxSends \in Nat
      /\ send_pc \in [Senders -> {"idle", "push", "read", "wake"}]
      /\ send_msg \in [Senders -> Msgs \cup {Null}]
  BY ConstantsAssumption DEF OrderInv, OrderTypes
<1>1. CASE SendCheck(t)
  <2>1. /\ sent < MaxSends /\ sent' = sent + 1
        /\ UNCHANGED <<owner, queue, writing, accepted, wire, failed, drained>>
    BY <1>1 DEF SendCheck, client, history
  <2>2. Fifo'
    BY <2>1 DEF OrderInv, Fifo
  <2>3. sent' \in Msgs /\ sent' \in 0 .. MaxSends
    BY <1>t, <2>1 DEF Msgs
  <2>4. CASE UNCHANGED <<send_pc, send_msg>>
    <3>1. OrderTypes'
      BY <2>1, <2>3, <2>4 DEF OrderInv, OrderTypes
    <3>2. Fresh'
      BY <2>1, <2>4, FreshGrows
    <3> QED BY <2>2, <3>1, <3>2 DEF OrderInv
  <2>5. CASE /\ send_pc' = [send_pc EXCEPT ![t] = "push"]
             /\ send_msg' = [send_msg EXCEPT ![t] = sent']
    <3>1. OrderTypes'
      BY <1>t, <2>1, <2>3, <2>5 DEF OrderInv, OrderTypes
    <3>2. \A m \in Range(accepted) : m <= sent /\ m \in Nat
      BY <1>t DEF OrderInv, Fresh, Range, Msgs
    <3>3. \A u \in Senders : (u # t /\ send_pc'[u] = "push") =>
              /\ send_pc[u] = "push" /\ send_msg'[u] = send_msg[u]
              /\ send_msg[u] \in 1 .. sent
      BY <1>t, <2>5 DEF OrderInv, Fresh
    <3>4. send_msg'[t] = sent + 1
      BY <1>t, <2>1, <2>5
    <3>5. Fresh'
      <4>1. \A m \in Range(accepted') : m <= sent'
        BY <1>t, <2>1, <3>2
      <4>2. ASSUME NEW u \in Senders, send_pc'[u] = "push"
            PROVE  /\ send_msg'[u] \in 1 .. sent'
                   /\ send_msg'[u] \notin Range(accepted')
                   /\ \A v \in Senders : (send_pc'[v] = "push" /\ v # u) =>
                          send_msg'[v] # send_msg'[u]
        <5>1. CASE u = t
          BY <1>t, <2>1, <3>2, <3>3, <3>4, <4>2, <5>1
        <5>2. CASE u # t
          <6>1. send_msg'[u] \in 1 .. sent /\ send_msg'[u] \notin Range(accepted)
            BY <3>3, <4>2, <5>2 DEF OrderInv, Fresh
          <6>2. ASSUME NEW v \in Senders, send_pc'[v] = "push", v # u
                PROVE  send_msg'[v] # send_msg'[u]
            <7>1. CASE v = t
              BY <1>t, <3>4, <6>1, <7>1
            <7>2. CASE v # t
              BY <3>3, <4>2, <5>2, <6>2, <7>2 DEF OrderInv, Fresh
            <7> QED BY <7>1, <7>2
          <6> QED BY <1>t, <2>1, <6>1, <6>2
        <5> QED BY <5>1, <5>2
      <4> QED BY <4>1, <4>2 DEF Fresh
    <3> QED BY <2>2, <3>1, <3>5 DEF OrderInv
  <2> QED BY <1>1, <2>4, <2>5 DEF SendCheck
<1>2. CASE SendPush(t)
  <2> DEFINE m == send_msg[t]
  <2>1. /\ send_pc[t] = "push"
        /\ queue' = Append(queue, m) /\ accepted' = Append(accepted, m)
        /\ send_pc' = [send_pc EXCEPT ![t] = "read"]
        /\ send_msg' = [send_msg EXCEPT ![t] = Null]
        /\ UNCHANGED <<owner, writing, sent, wire, failed, drained>>
    BY <1>2 DEF SendPush
  <2>2. m \in 1 .. sent /\ m \in Msgs /\ m \notin Range(accepted)
    BY <1>t, <2>1 DEF OrderInv, Fresh, Msgs
  <2>3. Fifo'
    BY <2>1, <2>2, OrderPush
  <2>4. OrderTypes'
    BY <1>t, <2>1, <2>2 DEF OrderInv, OrderTypes
  <2>5. Range(accepted') = Range(accepted) \cup {m}
    BY <1>t, <2>1, <2>2, RangeAppend
  <2>6. \A u \in Senders : send_pc'[u] = "push" =>
            u # t /\ send_pc[u] = "push" /\ send_msg'[u] = send_msg[u]
    BY <1>t, <2>1
  <2>7. Fresh'
    <3>1. \A k \in Range(accepted') : k <= sent'
      BY <1>t, <2>1, <2>2, <2>5 DEF OrderInv, Fresh
    <3>2. ASSUME NEW u \in Senders, send_pc'[u] = "push"
          PROVE  /\ send_msg'[u] \in 1 .. sent'
                 /\ send_msg'[u] \notin Range(accepted')
                 /\ \A v \in Senders : (send_pc'[v] = "push" /\ v # u) =>
                        send_msg'[v] # send_msg'[u]
      BY <2>1, <2>5, <2>6, <3>2 DEF OrderInv, Fresh
    <3> QED BY <3>1, <3>2 DEF Fresh
  <2> QED BY <2>3, <2>4, <2>7 DEF OrderInv
<1>3. CASE SendRead(t) \/ SendWake(t)
  <2>1. /\ UNCHANGED <<owner, queue, writing, send_msg, sent, history>>
        /\ \E p \in {"wake", "idle"} : send_pc' = [send_pc EXCEPT ![t] = p]
    BY <1>3 DEF SendRead, SendWake, client
  <2>2. OrderTypes'
    BY <1>t, <2>1 DEF OrderInv, OrderTypes, history
  <2>3. Fresh'
    <3>1. \A u \in Senders : send_pc'[u] = "push" => send_pc[u] = "push"
      BY <1>t, <2>1
    <3> QED BY <2>1, <3>1 DEF OrderInv, Fresh, history
  <2>4. Fifo'
    BY <2>1 DEF OrderInv, Fifo, history
  <2> QED BY <2>2, <2>3, <2>4 DEF OrderInv
<1>4. CASE SendWakeFaults(t)
  BY <1>4, OrderFrame DEF SendWakeFaults, client
<1> QED BY <1>1, <1>2, <1>3, <1>4 DEF Send

\* Messages go out in the order they were queued, each of them once, and none
\* vanishes, for every number of senders, failing writes and reconnections.
THEOREM SentInOrder == Spec => []Fifo
<1>1. Init => OrderInv
  <2> SUFFICES ASSUME Init PROVE OrderInv
    OBVIOUS
  <2>1. /\ accepted = <<>> /\ wire = <<>> /\ queue = <<>> /\ writing = Null
        /\ failed = {} /\ drained = {}
    BY DEF Init
  <2>2. OrderTypes
    BY ConstantsAssumption DEF Init, OrderTypes
  <2>3. Range(<<>>) = {} /\ DOMAIN <<>> = {}
    BY DEF Range
  <2>4. Fresh
    BY <2>3 DEF Init, Fresh
  <2>5. <<>> \o <<>> \o <<>> = <<>>
    <3>1. <<>> \in Seq(Msgs)
      OBVIOUS
    <3> QED BY <3>1, ConcatEmptySeq
  <2>6. Fifo
    BY <2>1, <2>3, <2>5 DEF Fifo
  <2> QED BY <2>2, <2>4, <2>6 DEF OrderInv
<1>2. OrderInv /\ [Next]_vars => OrderInv'
  <2> SUFFICES ASSUME OrderInv, [Next]_vars PROVE OrderInv'
    OBVIOUS
  <2>1. CASE Connect \/ RunBegin
    BY <2>1, OrderFrame
       DEF Connect, ConnectCreate, ConnectNoContext, ConnectStarted,
           ConnectFailed, ConnectForget, RunBegin, OwnerAt
  <2>2. CASE Loop
    BY <2>2, OrderLoop
  <2>3. CASE Destroy
    <3>1. /\ drained' = Range(queue) /\ queue' = <<>> /\ owner = "idle"
          /\ owner' = "gone"
          /\ UNCHANGED <<writing, sending, accepted, wire, failed>>
      BY <2>3 DEF Destroy, OwnerAt
    <3>2. writing = Null /\ drained = {} /\ queue \in Seq(Msgs)
          /\ wire \in Seq(Msgs) /\ accepted \in Seq(Msgs)
      BY <3>1 DEF OrderInv, OrderTypes
    <3>3. OrderTypes'
      BY <3>1 DEF OrderInv, OrderTypes, sending
    <3>4. Fresh'
      BY <3>1 DEF OrderInv, Fresh, sending
    <3>5. Kept(accepted, wire \o <<>> \o queue, failed \cup drained)
      BY <3>2, FifoKept DEF OrderInv, Underway, InHand
    <3>6. Kept(accepted, wire \o <<>> \o <<>>,
               (failed \cup drained) \cup Range(queue))
      BY <3>2, <3>5, KeptDrained
    <3>7. (failed \cup drained)' = (failed \cup drained) \cup Range(queue)
      BY <3>1, <3>2
    <3>8. Underway' = wire \o <<>> \o <<>>
      BY <3>1, <3>2 DEF Underway, InHand
    <3>9. Kept(accepted', Underway', (failed \cup drained)')
      BY <3>1, <3>6, <3>7, <3>8
    <3>10. Fifo'
      BY <3>9 DEF Fifo, Kept, Underway, InHand
    <3> QED BY <3>3, <3>4, <3>10 DEF OrderInv
  <2>4. CASE \E t \in Senders : Send(t)
    BY <2>4, OrderSend
  <2>5. CASE \E t \in Stoppers : Stop(t)
    BY <2>5, OrderFrame
       DEF Stop, StopFlag, StopTest, StopCancel, StopCancelFaults, client
  <2>6. CASE RunIdles \/ Over \/ UNCHANGED vars
    BY <2>6, OrderFrame DEF RunIdles, Over, vars, client
  <2> QED BY <2>1, <2>2, <2>3, <2>4, <2>5, <2>6 DEF Next
<1>3. OrderInv => Fifo
  BY DEF OrderInv
<1> QED BY <1>1, <1>2, <1>3, PTL DEF Spec
=============================================================================
