------------------------------ MODULE Lifecycle ------------------------------
(***************************************************************************)
(* Starting, stopping and destroying a server (src/papago.c): the main     *)
(* thread in papago_start and papago_destroy, the event-loop thread, MHD's *)
(* own threads, and whoever calls papago_stop.                             *)
(*                                                                         *)
(* papago_stop can be called by a request handler, which is on an MHD      *)
(* thread, by a WebSocket callback, which is on the event-loop thread, by  *)
(* a thread of the application, and by a signal handler that interrupts    *)
(* the main thread, as in every program under examples/.                   *)
(*                                                                         *)
(* Failures that valid_config excludes (TLS without certificate names, a   *)
(* required client certificate without a CA) are left out.  A use of freed *)
(* or finished objects is undefined behaviour: the thread that meets it is *)
(* recorded in fault and the model stops there.                            *)
(***************************************************************************)
EXTENDS Naturals

CONSTANTS
    Main,          \* the thread that calls papago_start and papago_destroy
    Lws,           \* the event-loop thread
    Handlers,      \* threads of MHD's pool
    Outside,       \* threads of the application
    Sig,           \* the signal handler, when it interrupts Main
    Callers,       \* which of them may call papago_stop
    MaxStops,      \* bound: calls of papago_stop
    MaxStarts,     \* bound: calls of papago_start; a failed one may be retried
    MayFail,       \* the parts of papago_start that may fail
    None

\* The threads the library itself runs user code on.
LibraryThreads == Handlers \cup {Lws}

Stoppers == Handlers \cup Outside \cup {Lws, Sig}
Parts == {"template", "ssl", "mhd", "lws", "thread"}

ASSUME ConstantsAssumption ==
    /\ Callers \subseteq Stoppers
    /\ Main \notin Stoppers /\ None \notin Stoppers \cup {Main}
    /\ Lws \notin Handlers \cup Outside \cup {Sig}
    /\ Sig \notin Handlers \cup Outside
    /\ Handlers \cap Outside = {}
    /\ MayFail \subseteq Parts
    /\ MaxStops \in Nat /\ MaxStarts \in Nat

VARIABLES
    \* papago_server
    running, shutdown_mutex,
    mhd_daemon,     \* "null" | "live" | "stopped": the pointer dangles
    lws_context,    \* "null" | "live" | "destroyed"
    freed,
    \* the configuration
    has_ws,         \* ws_endpoint_count > 0
    \* threads
    main_pc, lws_pc, stop_pc,
    signalled,      \* shutdown_cond has been signalled since Main waits
    \* bounds and history
    starts, stops,
    stop_asked,     \* papago_stop was called since papago_start set running
    fault           \* the thread that met undefined behaviour

objects == <<mhd_daemon, lws_context, freed, has_ws>>
counts == <<starts, stops>>
vars == <<running, shutdown_mutex, objects, main_pc, lws_pc, stop_pc, signalled,
          counts, stop_asked, fault>>

Init ==
    /\ running = FALSE /\ shutdown_mutex = None
    /\ mhd_daemon = "null" /\ lws_context = "null" /\ freed = FALSE
    /\ has_ws \in BOOLEAN
    /\ main_pc = "new" /\ lws_pc = "none"
    /\ stop_pc = [t \in Stoppers |-> "idle"]
    /\ signalled = FALSE
    /\ starts = 0 /\ stops = 0
    /\ stop_asked = FALSE /\ fault = None

\* Main takes its next step: it is at p and no signal handler is on top of it.
MainAt(p) == main_pc = p /\ stop_pc[Sig] = "idle" /\ fault = None

\* No MHD thread is in a request handler, so MHD_stop_daemon can return.
HandlersDone == \A h \in Handlers : stop_pc[h] = "idle"

-----------------------------------------------------------------------------
(* papago_start                                                            *)

StartBegin ==
    /\ MainAt("new") \/ MainAt("failed")
    /\ starts < MaxStarts
    /\ starts' = starts + 1
    /\ running' = TRUE
    /\ main_pc' = "setup"
    /\ stop_asked' = FALSE
    /\ UNCHANGED <<shutdown_mutex, objects, lws_pc, stop_pc, signalled, stops,
                   fault>>

\* mp_init fails.
TemplateFailed ==
    /\ MainAt("setup") /\ "template" \in MayFail
    /\ running' = FALSE
    /\ main_pc' = "failed"
    /\ UNCHANGED <<shutdown_mutex, objects, lws_pc, stop_pc, signalled, counts,
                   stop_asked, fault>>

\* A certificate, key or CA file cannot be read: running stays true.
SslFailed ==
    /\ MainAt("setup") /\ "ssl" \in MayFail
    /\ main_pc' = "failed"
    /\ UNCHANGED <<running, shutdown_mutex, objects, lws_pc, stop_pc, signalled,
                   counts, stop_asked, fault>>

\* MHD_start_daemon returns NULL (the port is taken): running stays true.
MhdFailed ==
    /\ MainAt("setup") /\ "mhd" \in MayFail
    /\ mhd_daemon' = "null"
    /\ main_pc' = "failed"
    /\ UNCHANGED <<running, shutdown_mutex, lws_context, freed, has_ws, lws_pc,
                   stop_pc, signalled, counts, stop_asked, fault>>

MhdStarted ==
    /\ MainAt("setup")
    /\ mhd_daemon' = "live"
    /\ main_pc' = IF has_ws THEN "websocket" ELSE "lock"
    /\ UNCHANGED <<running, shutdown_mutex, lws_context, freed, has_ws, lws_pc,
                   stop_pc, signalled, counts, stop_asked, fault>>

\* lws_create_context fails: the daemon is stopped, which waits for its
\* threads, and server->mhd_daemon keeps pointing at it.
LwsFailed ==
    /\ MainAt("websocket") /\ "lws" \in MayFail
    /\ HandlersDone
    /\ mhd_daemon' = "stopped"
    /\ running' = FALSE
    /\ main_pc' = "failed"
    /\ UNCHANGED <<shutdown_mutex, lws_context, freed, has_ws, lws_pc, stop_pc,
                   signalled, counts, stop_asked, fault>>

LwsStarted ==
    /\ MainAt("websocket")
    /\ lws_context' = "live"
    /\ lws_pc' = "check"
    /\ main_pc' = "lock"
    /\ UNCHANGED <<running, shutdown_mutex, mhd_daemon, freed, has_ws, stop_pc,
                   signalled, counts, stop_asked, fault>>

\* pthread_create fails, which nobody looks at: the server goes on with a
\* context no thread serves and lws_thread unset.
LwsNoThread ==
    /\ MainAt("websocket") /\ "thread" \in MayFail
    /\ lws_context' = "live"
    /\ main_pc' = "lock"
    /\ UNCHANGED <<running, shutdown_mutex, mhd_daemon, freed, has_ws, lws_pc,
                   stop_pc, signalled, counts, stop_asked, fault>>

\* pthread_mutex_lock, on the way to the wait loop or out of the wait.
WaitLock ==
    /\ MainAt("lock")
    /\ shutdown_mutex = None
    /\ shutdown_mutex' = Main
    /\ main_pc' = "check"
    /\ UNCHANGED <<running, objects, lws_pc, stop_pc, signalled, counts,
                   stop_asked, fault>>

\* while (server->running)
WaitCheck ==
    /\ MainAt("check")
    /\ main_pc' = IF running THEN "wait" ELSE "unlock"
    /\ UNCHANGED <<running, shutdown_mutex, objects, lws_pc, stop_pc, signalled,
                   counts, stop_asked, fault>>

\* Mutant of WaitSleep: it polls running and keeps the mutex.
WaitSleepHolding ==
    /\ MainAt("wait")
    /\ main_pc' = "check"
    /\ UNCHANGED <<running, shutdown_mutex, objects, lws_pc, stop_pc, signalled,
                   counts, stop_asked, fault>>

\* pthread_cond_timedwait lets the mutex go.
WaitSleep ==
    /\ MainAt("wait")
    /\ shutdown_mutex' = None
    /\ signalled' = FALSE
    /\ main_pc' = "sleep"
    /\ UNCHANGED <<running, objects, lws_pc, stop_pc, counts, stop_asked, fault>>

\* It wakes: signalled, or after a second; then it takes the mutex again.
WaitWake ==
    /\ MainAt("sleep")
    /\ main_pc' = "lock"
    /\ UNCHANGED <<running, shutdown_mutex, objects, lws_pc, stop_pc, signalled,
                   counts, stop_asked, fault>>

StartReturns ==
    /\ MainAt("unlock")
    /\ shutdown_mutex' = None
    /\ main_pc' = "returned"
    /\ UNCHANGED <<running, objects, lws_pc, stop_pc, signalled, counts,
                   stop_asked, fault>>

-----------------------------------------------------------------------------
(* lws_thread_func                                                         *)

\* The event-loop thread runs unless it is in a callback that calls stop.
LwsAt(p) == lws_pc = p /\ stop_pc[Lws] = "idle" /\ fault = None

\* Mutant of LwsCheck: running is not looked at.
LwsCheckForever ==
    /\ LwsAt("check")
    /\ lws_pc' = "service"
    /\ UNCHANGED <<running, shutdown_mutex, objects, main_pc, stop_pc,
                   signalled, counts, stop_asked, fault>>

\* while (server->running)
LwsCheck ==
    /\ LwsAt("check")
    /\ lws_pc' = IF running THEN "service" ELSE "done"
    /\ UNCHANGED <<running, shutdown_mutex, objects, main_pc, stop_pc,
                   signalled, counts, stop_asked, fault>>

\* lws_service returns, after 10 ms at the latest.
LwsService ==
    /\ LwsAt("service")
    /\ lws_pc' = "check"
    /\ UNCHANGED <<running, shutdown_mutex, objects, main_pc, stop_pc,
                   signalled, counts, stop_asked, fault>>

-----------------------------------------------------------------------------
(* papago_stop, by thread t                                                *)

\* Where t can be running user code that calls papago_stop.  An application
\* thread stops calling once papago_start has returned.
InUserCode(t) ==
    \/ t \in Handlers /\ mhd_daemon = "live"
    \/ t = Lws /\ lws_pc = "service"
    \/ t \in Outside \cup {Sig} /\ main_pc \notin {"returned", "failed", "join",
                                                  "free", "gone"}

StopCall(t) ==
    /\ stop_pc[t] = "idle" /\ stops < MaxStops /\ fault = None
    /\ InUserCode(t)
    /\ stops' = stops + 1
    /\ stop_pc' = [stop_pc EXCEPT ![t] = "lock"]
    /\ stop_asked' = (stop_asked \/ main_pc # "new")
    /\ UNCHANGED <<running, shutdown_mutex, objects, main_pc, lws_pc, signalled,
                   starts, fault>>

\* Mutant of StopLock: the mutex is not taken.
StopLockSkipped(t) ==
    /\ stop_pc[t] = "lock" /\ fault = None /\ ~freed
    /\ stop_pc' = [stop_pc EXCEPT ![t] = "set"]
    /\ UNCHANGED <<running, shutdown_mutex, objects, main_pc, lws_pc, signalled,
                   counts, stop_asked, fault>>

StopLock(t) ==
    /\ stop_pc[t] = "lock" /\ fault = None /\ ~freed
    /\ shutdown_mutex = None
    /\ shutdown_mutex' = t
    /\ stop_pc' = [stop_pc EXCEPT ![t] = "set"]
    /\ UNCHANGED <<running, objects, main_pc, lws_pc, signalled, counts,
                   stop_asked, fault>>

\* Mutant of StopSet: running is left alone.
StopSetNothing(t) ==
    /\ stop_pc[t] = "set" /\ fault = None /\ ~freed
    /\ stop_pc' = [stop_pc EXCEPT ![t] = "signal"]
    /\ UNCHANGED <<running, shutdown_mutex, objects, main_pc, lws_pc, signalled,
                   counts, stop_asked, fault>>

StopSet(t) ==
    /\ stop_pc[t] = "set" /\ fault = None /\ ~freed
    /\ running' = FALSE
    /\ stop_pc' = [stop_pc EXCEPT ![t] = "signal"]
    /\ UNCHANGED <<shutdown_mutex, objects, main_pc, lws_pc, signalled, counts,
                   stop_asked, fault>>

\* pthread_cond_signal wakes Main only if it is waiting.
StopSignal(t) ==
    /\ stop_pc[t] = "signal" /\ fault = None /\ ~freed
    /\ signalled' = (signalled \/ main_pc = "sleep")
    /\ stop_pc' = [stop_pc EXCEPT ![t] = "unlock"]
    /\ UNCHANGED <<running, shutdown_mutex, objects, main_pc, lws_pc, counts,
                   stop_asked, fault>>

StopUnlock(t) ==
    /\ stop_pc[t] = "unlock" /\ fault = None /\ ~freed
    /\ shutdown_mutex' = None
    /\ stop_pc' = [stop_pc EXCEPT ![t] = "cancel"]
    /\ UNCHANGED <<running, objects, main_pc, lws_pc, signalled, counts,
                   stop_asked, fault>>

\* server->lws_context is read, and lws_cancel_service called, unlocked.
StopCancel(t) ==
    /\ stop_pc[t] = "cancel" /\ fault = None
    /\ ~freed /\ lws_context # "destroyed"
    /\ stop_pc' = [stop_pc EXCEPT ![t] = "idle"]
    /\ UNCHANGED <<running, shutdown_mutex, objects, main_pc, lws_pc, signalled,
                   counts, stop_asked, fault>>

\* The server, or the context it still points to, is gone.
StopFaults(t) ==
    /\ fault = None
    /\ \/ stop_pc[t] # "idle" /\ freed
       \/ stop_pc[t] = "cancel" /\ lws_context = "destroyed"
    /\ fault' = t
    /\ UNCHANGED <<running, shutdown_mutex, objects, main_pc, lws_pc, stop_pc,
                   signalled, counts, stop_asked>>

-----------------------------------------------------------------------------
(* papago_destroy, once papago_start has returned                          *)

\* Mutant of DestroyMhd: the daemon's threads are not waited for.
DestroyMhdNoWait ==
    /\ MainAt("returned") \/ MainAt("failed")
    /\ mhd_daemon # "stopped"
    /\ running' = FALSE
    /\ mhd_daemon' = IF mhd_daemon = "live" THEN "stopped" ELSE mhd_daemon
    /\ main_pc' = IF lws_context = "live" THEN "join" ELSE "free"
    /\ UNCHANGED <<shutdown_mutex, lws_context, freed, has_ws, lws_pc, stop_pc,
                   signalled, counts, stop_asked, fault>>

\* running = false, and MHD_stop_daemon, which waits for its threads.
DestroyMhd ==
    /\ MainAt("returned") \/ MainAt("failed")
    /\ mhd_daemon # "stopped"
    /\ mhd_daemon = "live" => HandlersDone
    /\ running' = FALSE
    /\ mhd_daemon' = IF mhd_daemon = "live" THEN "stopped" ELSE mhd_daemon
    /\ main_pc' = IF lws_context = "live" THEN "join" ELSE "free"
    /\ UNCHANGED <<shutdown_mutex, lws_context, freed, has_ws, lws_pc, stop_pc,
                   signalled, counts, stop_asked, fault>>

\* The pointer LwsFailed left behind: MHD_stop_daemon is called once more.
DestroyMhdFaults ==
    /\ MainAt("failed") /\ mhd_daemon = "stopped"
    /\ fault' = Main
    /\ UNCHANGED <<running, shutdown_mutex, objects, main_pc, lws_pc, stop_pc,
                   signalled, counts, stop_asked>>

\* pthread_join, then lws_context_destroy.
DestroyLws ==
    /\ MainAt("join")
    /\ lws_pc = "done"
    /\ lws_context' = "destroyed"
    /\ main_pc' = "free"
    /\ UNCHANGED <<running, shutdown_mutex, mhd_daemon, freed, has_ws, lws_pc,
                   stop_pc, signalled, counts, stop_asked, fault>>

\* After LwsNoThread, pthread_join is given a thread that never was.
DestroyLwsFaults ==
    /\ MainAt("join") /\ lws_pc = "none"
    /\ fault' = Main
    /\ UNCHANGED <<running, shutdown_mutex, objects, main_pc, lws_pc, stop_pc,
                   signalled, counts, stop_asked>>

\* Mutexes destroyed, tables and the server freed.
DestroyFree ==
    /\ MainAt("free")
    /\ freed' = TRUE
    /\ main_pc' = "gone"
    /\ UNCHANGED <<running, shutdown_mutex, mhd_daemon, lws_context, has_ws,
                   lws_pc, stop_pc, signalled, counts, stop_asked, fault>>

\* The program goes on without the server, or has met undefined behaviour.
Over ==
    /\ main_pc = "gone" \/ fault # None
    /\ UNCHANGED vars

Start ==
    \/ StartBegin \/ TemplateFailed \/ SslFailed \/ MhdFailed \/ MhdStarted
    \/ LwsFailed \/ LwsStarted \/ LwsNoThread

Wait == WaitLock \/ WaitCheck \/ WaitSleep \/ WaitWake \/ StartReturns

Destroy ==
    \/ DestroyMhd \/ DestroyMhdFaults \/ DestroyLws \/ DestroyLwsFaults
    \/ DestroyFree

Stop(t) ==
    \/ StopLock(t) \/ StopSet(t) \/ StopSignal(t) \/ StopUnlock(t)
    \/ StopCancel(t) \/ StopFaults(t)

Next ==
    \/ Start \/ Wait \/ Destroy
    \/ LwsCheck \/ LwsService
    \/ \E t \in Callers : StopCall(t) \/ Stop(t)
    \/ Over

Spec == Init /\ [][Next]_vars

\* Threads are scheduled, timed waits end, and a stopper gets the mutex if it
\* keeps coming free, as it does while Main sleeps.  Nobody has to call
\* papago_stop; an application calls papago_destroy in the end.
Fairness ==
    /\ WF_vars(Start \/ Wait)
    /\ WF_vars(Destroy)
    /\ WF_vars(LwsCheck \/ LwsService)
    /\ \A t \in Callers :
          /\ SF_vars(StopLock(t))
          /\ WF_vars(StopSet(t) \/ StopSignal(t) \/ StopUnlock(t)
                     \/ StopCancel(t) \/ StopFaults(t))

FairSpec == Spec /\ Fairness

-----------------------------------------------------------------------------
(* Properties                                                              *)

\* A papago_stop made by a handler or a callback of the library never touches
\* a server that papago_destroy has torn down, nor its WebSocket context,
\* whatever the application's own threads do meanwhile.
NoUseAfterFree == fault \notin LibraryThreads

\* The server is freed only when nothing that belongs to it is running: the
\* daemon is stopped, the event-loop thread has ended, and none of its threads
\* holds the mutex or is inside papago_stop.
QuietWhenFreed ==
    freed => /\ mhd_daemon # "live" /\ lws_pc \in {"none", "done"}
             /\ lws_context # "live"
             /\ shutdown_mutex \notin LibraryThreads \cup {Main}
             /\ \A t \in LibraryThreads : stop_pc[t] = "idle"

\* papago_destroy against everything else that runs: the two above together.
TornDownSafely == NoUseAfterFree /\ QuietWhenFreed

\* papago_start does not sleep through a papago_stop: when it waits and
\* running is false, it has been signalled or a stopper is just about to.
StopWakesStart ==
    (main_pc = "sleep" /\ ~running) =>
        signalled \/ \E t \in Callers : stop_pc[t] = "signal"

\* A stop is honoured: after a papago_stop called at any time since papago_start
\* set running, by any thread, papago_start returns.
StopHonoured ==
    stop_asked ~> (main_pc \in {"returned", "failed", "join", "free", "gone"}
                  \/ fault # None)

\* Every papago_stop returns.
StopReturns ==
    \A t \in Callers : (stop_pc[t] = "lock") ~> (stop_pc[t] = "idle"
                                                \/ fault # None)

\* papago_destroy, once called, frees the server.
DestroyCompletes == (main_pc = "returned") ~> (main_pc = "gone"
                                               \/ fault # None)
=============================================================================
