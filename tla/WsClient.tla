------------------------------ MODULE WsClient ------------------------------
(***************************************************************************)
(* The WebSocket client (src/papago_wsc.c): its owner, which connects,     *)
(* runs the event loop and destroys the client, threads that send while    *)
(* the loop runs, and threads that stop it.                                *)
(*                                                                         *)
(* Every papago_wsc_connect makes a libwebsockets context with one         *)
(* connection, both named here by the number of the call.  lws calls back  *)
(* on the thread that is in lws_service; the user's callbacks may send and *)
(* stop.  connected is assigned and never read, and is left out.           *)
(*                                                                         *)
(* A null or freed lws object that is handed to lws is undefined           *)
(* behaviour: it is recorded in fault and the model stops there.           *)
(***************************************************************************)
EXTENDS Naturals, Sequences, FiniteSets, Functions

CONSTANTS
    Senders,       \* threads that call papago_wsc_send
    Stoppers,      \* threads that call papago_wsc_stop
    MayFail,       \* which calls into lws may fail
    MaxConnects,   \* bound: calls of papago_wsc_connect
    MaxSends,      \* bound: messages
    MaxStops       \* bound: calls of papago_wsc_stop from other threads

Calls == {"context", "connect", "service", "write"}

ASSUME ConstantsAssumption ==
    /\ Senders \cap Stoppers = {}
    /\ MayFail \subseteq Calls
    /\ MaxConnects \in Nat /\ MaxSends \in Nat /\ MaxStops \in Nat

Links == 1 .. MaxConnects
Msgs == 1 .. MaxSends
Null == 0           \* a null wsi or lws_ctx, and no message

VARIABLES
    \* papago_wsc
    lws_ctx, wsi, queue, running,
    \* libwebsockets
    context,        \* of each link: "none" | "live" | "destroyed"
    link,           \* "none" | "connecting" | "open" | "broken" | "ended"
    pollout,        \* a WRITEABLE callback has been asked for
    \* threads
    owner,          \* where the owner is
    writing,        \* the message wsc_flush_one has taken off the queue
    send_pc, send_msg, send_wsi,
    stop_pc,
    \* bounds and history
    connects, sent, stops,
    accepted,       \* messages queued, in order
    wire,           \* messages lws_write took, in order
    failed,         \* messages lws_write refused
    drained,        \* messages papago_wsc_destroy freed
    stop_asked,     \* papago_wsc_stop was called during the run in progress
    fault

client == <<lws_ctx, wsi, queue, running>>
lws == <<context, link, pollout>>
sending == <<send_pc, send_msg, send_wsi, sent>>
stopping == <<stop_pc, stops, stop_asked>>
history == <<accepted, wire, failed, drained>>
vars == <<client, lws, owner, writing, sending, stopping, connects, history,
          fault>>

Init ==
    /\ lws_ctx = Null /\ wsi = Null /\ queue = <<>> /\ running = FALSE
    /\ context = [k \in Links |-> "none"]
    /\ link = [k \in Links |-> "none"]
    /\ pollout = [k \in Links |-> FALSE]
    /\ owner = "idle" /\ writing = Null
    /\ send_pc = [t \in Senders |-> "idle"]
    /\ send_msg = [t \in Senders |-> Null]
    /\ send_wsi = [t \in Senders |-> Null]
    /\ stop_pc = [t \in Stoppers |-> "idle"]
    /\ connects = 0 /\ sent = 0 /\ stops = 0
    /\ accepted = <<>> /\ wire = <<>> /\ failed = {} /\ drained = {}
    /\ stop_asked = FALSE /\ fault = "none"

\* The owner takes its next step from p.
OwnerAt(p) == owner = p /\ fault = "none"

\* The owner is in papago_wsc_run, past running = true.
InRun == owner \in {"loop", "user", "closing", "write", "more"}

-----------------------------------------------------------------------------
(* papago_wsc_connect                                                      *)

\* The new context replaces the pointer to the last one.
ConnectCreate ==
    /\ OwnerAt("idle") /\ connects < MaxConnects
    /\ connects' = connects + 1
    /\ lws_ctx' = connects'
    /\ context' = [context EXCEPT ![connects'] = "live"]
    /\ owner' = "connect"
    /\ UNCHANGED <<wsi, queue, running, link, pollout, writing, sending,
                   stopping, history, fault>>

ConnectNoContext ==
    /\ OwnerAt("idle") /\ connects < MaxConnects /\ "context" \in MayFail
    /\ connects' = connects + 1
    /\ lws_ctx' = Null
    /\ UNCHANGED <<wsi, queue, running, lws, owner, writing, sending, stopping,
                   history, fault>>

ConnectStarted ==
    /\ OwnerAt("connect")
    /\ wsi' = lws_ctx
    /\ link' = [link EXCEPT ![lws_ctx] = "connecting"]
    /\ owner' = "idle"
    /\ UNCHANGED <<lws_ctx, queue, running, context, pollout, writing, sending,
                   stopping, connects, history, fault>>

\* lws reports the error to the callback, which clears wsi and running, and
\* returns null; lws_context_destroy follows.
ConnectFailed ==
    /\ OwnerAt("connect") /\ "connect" \in MayFail
    /\ wsi' = Null /\ running' = FALSE
    /\ context' = [context EXCEPT ![lws_ctx] = "destroyed"]
    /\ link' = [link EXCEPT ![lws_ctx] = "ended"]
    /\ owner' = "unconnect"
    /\ UNCHANGED <<lws_ctx, queue, pollout, writing, sending, stopping,
                   connects, history, fault>>

ConnectForget ==
    /\ OwnerAt("unconnect")
    /\ lws_ctx' = Null
    /\ owner' = "idle"
    /\ UNCHANGED <<wsi, queue, running, lws, writing, sending, stopping,
                   connects, history, fault>>

-----------------------------------------------------------------------------
(* papago_wsc_run, on a context that may have been run before, with a      *)
(* connection that may be over.                                            *)

RunBegin ==
    /\ OwnerAt("idle") /\ lws_ctx # Null
    /\ running' = TRUE
    /\ owner' = "loop"
    /\ UNCHANGED <<lws_ctx, wsi, queue, lws, writing, sending, stopping,
                   connects, history, fault>>

RunReturns ==
    /\ OwnerAt("loop") /\ ~running
    /\ owner' = "idle"
    /\ stop_asked' = FALSE
    /\ UNCHANGED <<client, lws, writing, sending, stop_pc, stops, connects,
                   history, fault>>

\* lws_service fails: running is left as it is.
RunFails ==
    /\ OwnerAt("loop") /\ "service" \in MayFail
    /\ owner' = "idle"
    /\ stop_asked' = FALSE
    /\ UNCHANGED <<client, lws, writing, sending, stop_pc, stops, connects,
                   history, fault>>

\* lws_service finds nothing to do for 50 ms, as always after the connection is
\* over.
RunIdles ==
    /\ OwnerAt("loop") /\ running
    /\ UNCHANGED vars

\* lws_service finds something to do on the link of the current context.  It
\* may do several things before it returns and running is looked at.
Serving(phases) == OwnerAt("loop") /\ link[lws_ctx] \in phases

\* The owner goes to p, in a callback; the rest of the client is as before.
CallBack(p) ==
    /\ owner' = p
    /\ UNCHANGED <<client, context, pollout, writing, sending, stopping,
                   connects, history, fault>>

\* LWS_CALLBACK_CLIENT_ESTABLISHED
Established ==
    /\ Serving({"connecting"})
    /\ link' = [link EXCEPT ![lws_ctx] = "open"]
    /\ CallBack("user")

\* LWS_CALLBACK_CLIENT_RECEIVE
Receive ==
    /\ Serving({"open"})
    /\ CallBack("user")
    /\ UNCHANGED link

\* Mutant of Lost: wsi is left set.
LostKeepsWsi ==
    /\ Serving({"connecting", "open", "broken"})
    /\ owner' = "closing"
    /\ UNCHANGED <<client, lws, writing, sending, stopping, connects, history,
                   fault>>

\* LWS_CALLBACK_CLIENT_CLOSED and _CONNECTION_ERROR, up to the user's callback.
Lost ==
    /\ Serving({"connecting", "open", "broken"})
    /\ wsi' = Null
    /\ owner' = "closing"
    /\ UNCHANGED <<lws_ctx, queue, running, lws, writing, sending, stopping,
                   connects, history, fault>>

\* The user's callback has returned, and lws frees the connection.
LostDone ==
    /\ OwnerAt("closing")
    /\ running' = FALSE
    /\ link' = [link EXCEPT ![lws_ctx] = "ended"]
    /\ pollout' = [pollout EXCEPT ![lws_ctx] = FALSE]
    /\ owner' = "loop"
    /\ UNCHANGED <<lws_ctx, wsi, queue, context, writing, sending, stopping,
                   connects, history, fault>>

\* on_connect or on_message returns.
UserReturns ==
    /\ OwnerAt("user")
    /\ CallBack("loop")
    /\ UNCHANGED link

\* Mutant of UserStops: only lws_service is cancelled.
UserStopsCancelOnly ==
    /\ OwnerAt("user") \/ OwnerAt("closing")
    /\ stop_asked' = TRUE
    /\ UNCHANGED <<client, lws, owner, writing, sending, stop_pc, stops,
                   connects, history, fault>>

\* A user's callback calls papago_wsc_stop.
UserStops ==
    /\ OwnerAt("user") \/ OwnerAt("closing")
    /\ running' = FALSE
    /\ stop_asked' = TRUE
    /\ UNCHANGED <<lws_ctx, wsi, queue, lws, owner, writing, sending, stop_pc,
                   stops, connects, history, fault>>

\* Mutant of UserSends: no WRITEABLE is asked for.
UserSendsQuietly ==
    /\ OwnerAt("user") \/ OwnerAt("closing")
    /\ sent < MaxSends
    /\ sent' = sent + 1
    /\ IF wsi = Null
         THEN UNCHANGED <<queue, accepted>>
         ELSE /\ queue' = Append(queue, sent')
              /\ accepted' = Append(accepted, sent')
    /\ UNCHANGED <<lws_ctx, wsi, running, lws, owner, writing, send_pc,
                   send_msg, send_wsi, stopping, connects, wire, failed,
                   drained, fault>>

\* A user's callback calls papago_wsc_send; in on_close and on_error wsi is
\* null and wsc_enqueue refuses.
UserSends ==
    /\ OwnerAt("user") \/ OwnerAt("closing")
    /\ sent < MaxSends
    /\ sent' = sent + 1
    /\ IF wsi = Null
         THEN UNCHANGED <<queue, accepted, pollout>>
         ELSE /\ queue' = Append(queue, sent')
              /\ accepted' = Append(accepted, sent')
              /\ pollout' = [pollout EXCEPT ![wsi] = TRUE]
    /\ UNCHANGED <<lws_ctx, wsi, running, context, link, owner, writing,
                   send_pc, send_msg, send_wsi, stopping, connects, wire,
                   failed, drained, fault>>

-----------------------------------------------------------------------------
(* LWS_CALLBACK_CLIENT_WRITEABLE: wsc_flush_one                            *)

\* Mutant of FlushTake: the last message is taken.
FlushTakeLast ==
    /\ Serving({"open"}) /\ pollout[lws_ctx] /\ queue # <<>>
    /\ pollout' = [pollout EXCEPT ![lws_ctx] = FALSE]
    /\ writing' = queue[Len(queue)]
    /\ queue' = SubSeq(queue, 1, Len(queue) - 1)
    /\ owner' = "write"
    /\ UNCHANGED <<lws_ctx, wsi, running, context, link, sending, stopping,
                   connects, history, fault>>

FlushTake ==
    /\ Serving({"open"}) /\ pollout[lws_ctx] /\ queue # <<>>
    /\ pollout' = [pollout EXCEPT ![lws_ctx] = FALSE]
    /\ writing' = Head(queue)
    /\ queue' = Tail(queue)
    /\ owner' = "write"
    /\ UNCHANGED <<lws_ctx, wsi, running, context, link, sending, stopping,
                   connects, history, fault>>

\* The queue is empty: a later send asked before the earlier one was flushed.
FlushNothing ==
    /\ Serving({"open"}) /\ pollout[lws_ctx] /\ queue = <<>>
    /\ pollout' = [pollout EXCEPT ![lws_ctx] = FALSE]
    /\ UNCHANGED <<client, context, link, owner, writing, sending, stopping,
                   connects, history, fault>>

FlushWrite ==
    /\ OwnerAt("write")
    /\ wire' = Append(wire, writing)
    /\ writing' = Null
    /\ owner' = "more"
    /\ UNCHANGED <<client, lws, sending, stopping, connects, accepted, failed,
                   drained, fault>>

\* lws_write fails when the connection is lost: the message is dropped, no
\* other WRITEABLE is asked for, and lws closes the connection.
FlushFails ==
    /\ OwnerAt("write") /\ "write" \in MayFail
    /\ failed' = failed \cup {writing}
    /\ writing' = Null
    /\ link' = [link EXCEPT ![lws_ctx] = "broken"]
    /\ owner' = "loop"
    /\ UNCHANGED <<client, context, pollout, sending, stopping, connects,
                   accepted, wire, drained, fault>>

\* Mutant of FlushMore: more is not looked at.
FlushMoreForgotten ==
    /\ OwnerAt("more")
    /\ owner' = "loop"
    /\ UNCHANGED <<client, lws, writing, sending, stopping, connects, history,
                   fault>>

\* Another WRITEABLE is asked for when the queue has more.
FlushMore ==
    /\ OwnerAt("more")
    /\ pollout' = [pollout EXCEPT ![wsi] = @ \/ queue # <<>>]
    /\ owner' = "loop"
    /\ UNCHANGED <<client, context, link, writing, sending, stopping, connects,
                   history, fault>>

-----------------------------------------------------------------------------
(* papago_wsc_send and papago_wsc_send_binary on other threads             *)

\* wsc_enqueue's test of wsi, and the copy of the message.
SendCheck(t) ==
    /\ fault = "none" /\ owner # "gone"
    /\ send_pc[t] = "idle" /\ sent < MaxSends
    /\ sent' = sent + 1
    /\ IF wsi = Null
         THEN UNCHANGED <<send_pc, send_msg>>
         ELSE /\ send_pc' = [send_pc EXCEPT ![t] = "push"]
              /\ send_msg' = [send_msg EXCEPT ![t] = sent']
    /\ UNCHANGED <<client, lws, owner, writing, send_wsi, stopping, connects,
                   history, fault>>

SendPush(t) ==
    /\ fault = "none" /\ send_pc[t] = "push"
    /\ queue' = Append(queue, send_msg[t])
    /\ accepted' = Append(accepted, send_msg[t])
    /\ send_pc' = [send_pc EXCEPT ![t] = "read"]
    /\ send_msg' = [send_msg EXCEPT ![t] = Null]
    /\ UNCHANGED <<lws_ctx, wsi, running, lws, owner, writing, send_wsi, sent,
                   stopping, connects, wire, failed, drained, fault>>

\* client->wsi is read again for lws_callback_on_writable.
SendRead(t) ==
    /\ fault = "none" /\ send_pc[t] = "read"
    /\ send_wsi' = [send_wsi EXCEPT ![t] = wsi]
    /\ send_pc' = [send_pc EXCEPT ![t] = "wake"]
    /\ UNCHANGED <<client, lws, owner, writing, send_msg, sent, stopping,
                   connects, history, fault>>

Usable(k) == k # Null /\ link[k] # "ended"

\* lws_callback_on_writable
SendWake(t) ==
    /\ fault = "none" /\ send_pc[t] = "wake" /\ Usable(send_wsi[t])
    /\ pollout' = [pollout EXCEPT ![send_wsi[t]] = TRUE]
    /\ send_pc' = [send_pc EXCEPT ![t] = "idle"]
    /\ send_wsi' = [send_wsi EXCEPT ![t] = Null]
    /\ UNCHANGED <<client, context, link, owner, writing, send_msg, sent,
                   stopping, connects, history, fault>>

SendWakeFaults(t) ==
    /\ fault = "none" /\ send_pc[t] = "wake" /\ ~Usable(send_wsi[t])
    /\ fault' = "wsi"
    /\ UNCHANGED <<client, lws, owner, writing, sending, stopping, connects,
                   history>>

-----------------------------------------------------------------------------
(* papago_wsc_stop on other threads                                        *)

StopFlag(t) ==
    /\ fault = "none" /\ owner # "gone"
    /\ stop_pc[t] = "idle" /\ stops < MaxStops
    /\ stops' = stops + 1
    /\ running' = FALSE
    /\ stop_asked' = (stop_asked \/ InRun)
    /\ stop_pc' = [stop_pc EXCEPT ![t] = "test"]
    /\ UNCHANGED <<lws_ctx, wsi, queue, lws, owner, writing, sending, connects,
                   history, fault>>

\* Mutant of StopTest: a null context is not told apart.
StopTestNot(t) ==
    /\ fault = "none" /\ stop_pc[t] = "test"
    /\ stop_pc' = [stop_pc EXCEPT ![t] = "cancel"]
    /\ UNCHANGED <<client, lws, owner, writing, sending, stops, stop_asked,
                   connects, history, fault>>

\* A context that is null is left alone.
StopTest(t) ==
    /\ fault = "none" /\ stop_pc[t] = "test"
    /\ stop_pc' = [stop_pc EXCEPT ![t] = IF lws_ctx = Null THEN "idle"
                                                           ELSE "cancel"]
    /\ UNCHANGED <<client, lws, owner, writing, sending, stops, stop_asked,
                   connects, history, fault>>

Live(k) == k # Null /\ context[k] = "live"

\* lws_cancel_service, on the context lws_ctx now is; lws_service returns.
StopCancel(t) ==
    /\ fault = "none" /\ stop_pc[t] = "cancel" /\ Live(lws_ctx)
    /\ stop_pc' = [stop_pc EXCEPT ![t] = "idle"]
    /\ UNCHANGED <<client, lws, owner, writing, sending, stops, stop_asked,
                   connects, history, fault>>

StopCancelFaults(t) ==
    /\ fault = "none" /\ stop_pc[t] = "cancel" /\ ~Live(lws_ctx)
    /\ fault' = "context"
    /\ UNCHANGED <<client, lws, owner, writing, sending, stopping, connects,
                   history>>

-----------------------------------------------------------------------------
(* papago_wsc_destroy, after which nobody may use the client               *)

Unused == /\ \A t \in Senders : send_pc[t] = "idle"
          /\ \A t \in Stoppers : stop_pc[t] = "idle"

\* Mutant of Destroy: the context is only forgotten.
DestroyForgets ==
    /\ OwnerAt("idle") /\ Unused
    /\ running' = FALSE /\ wsi' = Null /\ lws_ctx' = Null
    /\ drained' = Range(queue)
    /\ queue' = <<>>
    /\ owner' = "gone"
    /\ UNCHANGED <<lws, writing, sending, stopping, connects, accepted, wire,
                   failed, fault>>

\* The context is destroyed with its connection, whose CLOSED callback finds
\* wsi null already; the queue is drained.
Destroy ==
    /\ OwnerAt("idle") /\ Unused
    /\ running' = FALSE /\ wsi' = Null /\ lws_ctx' = Null
    /\ IF lws_ctx = Null
         THEN UNCHANGED lws
         ELSE /\ context' = [context EXCEPT ![lws_ctx] = "destroyed"]
              /\ link' = [link EXCEPT ![lws_ctx] = "ended"]
              /\ pollout' = [pollout EXCEPT ![lws_ctx] = FALSE]
    /\ drained' = Range(queue)
    /\ queue' = <<>>
    /\ owner' = "gone"
    /\ UNCHANGED <<writing, sending, stopping, connects, accepted, wire,
                   failed, fault>>

\* The program goes on without the client, or has met undefined behaviour.
Over ==
    /\ owner = "gone" \/ fault # "none"
    /\ UNCHANGED vars

Connect ==
    \/ ConnectCreate \/ ConnectNoContext \/ ConnectStarted \/ ConnectFailed
    \/ ConnectForget

Loop ==
    \/ RunReturns \/ RunFails \/ Established \/ Receive \/ Lost \/ LostDone
    \/ UserReturns \/ UserStops \/ UserSends
    \/ FlushTake \/ FlushNothing \/ FlushWrite \/ FlushFails \/ FlushMore

Send(t) ==
    \/ SendCheck(t) \/ SendPush(t) \/ SendRead(t) \/ SendWake(t)
    \/ SendWakeFaults(t)

Stop(t) == StopFlag(t) \/ StopTest(t) \/ StopCancel(t) \/ StopCancelFaults(t)

Next ==
    \/ Connect \/ RunBegin \/ RunIdles \/ Loop \/ Destroy
    \/ \E t \in Senders : Send(t)
    \/ \E t \in Stoppers : Stop(t)
    \/ Over

Spec == Init /\ [][Next]_vars

\* Threads are scheduled, user callbacks return and so does lws_service, which
\* waits 50 ms at most.  lws_service looks at
\* every descriptor on each turn, so a WRITEABLE that stays possible comes
\* whatever else the peer sends; a connection attempt succeeds or times out,
\* and lws closes a connection whose write has failed.  Nobody has to send,
\* to stop or to close.
Fairness ==
    /\ WF_vars(ConnectStarted \/ ConnectFailed) /\ WF_vars(ConnectForget)
    /\ SF_vars(RunReturns)
    /\ SF_vars(Established \/ (Lost /\ link[lws_ctx] # "open"))
    /\ WF_vars(LostDone)
    /\ WF_vars(UserReturns)
    /\ SF_vars(FlushTake \/ FlushNothing)
    /\ WF_vars(FlushWrite \/ FlushFails) /\ WF_vars(FlushMore)
    /\ \A t \in Senders :
          WF_vars(SendPush(t) \/ SendRead(t) \/ SendWake(t)
                  \/ SendWakeFaults(t))
    /\ \A t \in Stoppers :
          WF_vars(StopTest(t) \/ StopCancel(t) \/ StopCancelFaults(t))

FairSpec == Spec /\ Fairness

-----------------------------------------------------------------------------
(* Properties                                                              *)

\* Messages go out in the order they were queued, whichever threads queue
\* them, and none is sent twice or vanishes: what was accepted is what lws_write
\* got, what it is getting and what is queued, in this order, or lws_write
\* refused it or papago_wsc_destroy freed it.
Fifo ==
    LET now == wire \o (IF writing = Null THEN <<>> ELSE <<writing>>) \o queue
        gone == failed \cup drained
    IN  /\ Range(accepted) = Range(now) \cup gone
        /\ Range(now) \cap gone = {}
        /\ \A i, j \in DOMAIN now, a, b \in DOMAIN accepted :
              (i < j /\ now[i] = accepted[a] /\ now[j] = accepted[b]) => a < b

\* No queued message is left without a WRITEABLE callback to come: on a link
\* that is in order, somebody has asked for it or is about to.  A second
\* connection inherits the queue and nobody asks for it: it is not claimed.
NoLostWakeup ==
    (/\ connects <= 1
     /\ queue # <<>> /\ wsi # Null /\ fault = "none"
     /\ link[wsi] # "broken" /\ owner \notin {"write", "more"}
     /\ \A t \in Senders : send_pc[t] \notin {"read", "wake"})
        => pollout[wsi]

\* lws never gets a null or freed connection or context: papago_wsc_send and
\* papago_wsc_stop may be called from any thread.
NoFault == fault = "none"

\* A papago_wsc_connect was refused at once, and its context destroyed.
Refused == owner # "gone" /\ \E k \in Links : context[k] = "destroyed"

\* The same of a client that connects once, on which only its callbacks send,
\* whoever stops it and whenever, with one exception: while papago_wsc_connect
\* gives up a connection that was refused at once, it destroys the context before
\* it clears lws_ctx, and a papago_wsc_stop in progress hands it to lws.
NoFaultUnlessRefused == fault # "none" => fault = "context" /\ Refused

\* The handle that wsc_enqueue tests and wsc_flush_one writes to is cleared
\* before lws frees the connection, also when the client connects again.
WsiIsLive ==
    wsi # Null => link[wsi] \in {"connecting", "open", "broken"}

\* papago_wsc_destroy leaves nothing of lws behind (a client that connects a
\* second time does: wsc_loop has one connect).
NoContextLeft ==
    owner = "gone" => \A k \in Links : context[k] # "live"

\* papago_wsc_run returns once the connection is closed, and once
\* papago_wsc_stop has been called, from a callback or from another thread, at
\* any time while it is executing.
RunEnds ==
    /\ owner = "closing" ~> (owner = "idle" \/ fault # "none")
    /\ stop_asked ~> (~stop_asked \/ fault # "none")

\* A message queued while the loop runs a connection is taken off the queue, or
\* the run ends.
Delivery ==
    \A m \in Msgs :
        (m \in Range(queue) /\ owner = "loop" /\ wsi # Null)
            ~> (m \notin Range(queue) \/ owner = "idle" \/ fault # "none")
=============================================================================
