--------------------------- MODULE LifecycleProofs ---------------------------
(***************************************************************************)
(* papago_destroy never pulls the server from under its own threads, and   *)
(* papago_start never sleeps through a stop, for any number of handler and *)
(* application threads, of stops and of retried starts, with a signal      *)
(* handler or without.                                                     *)
(*                                                                         *)
(* Neither property is inductive.  That a handler or a callback in         *)
(* papago_stop finds the server rests on where those threads can be: a     *)
(* handler is in user code only while the daemon lives (HandlersInside), a *)
(* callback only while the event loop services its context (CallbackInside)*)
(* and the objects follow the phases of the main thread (Phased).  That no *)
(* wake-up is lost rests on the mutex: its holder is exactly the thread    *)
(* between lock and unlock (MutexHeld), so nobody clears running between   *)
(* the test of the wait loop and the wait (AwakeToSleep).                  *)
(***************************************************************************)
EXTENDS Lifecycle, TLAPS

MainPcs == {"new", "setup", "websocket", "lock", "check", "wait", "sleep",
            "unlock", "returned", "failed", "join", "free", "gone"}
LwsPcs == {"none", "check", "service", "done"}
StopPcs == {"idle", "lock", "set", "signal", "unlock", "cancel"}

\* Types of what the argument is about.
LifeTypes ==
    /\ shutdown_mutex \in Stoppers \cup {Main, None}
    /\ mhd_daemon \in {"null", "live", "stopped"}
    /\ lws_context \in {"null", "live", "destroyed"}
    /\ main_pc \in MainPcs /\ lws_pc \in LwsPcs
    /\ stop_pc \in [Stoppers -> StopPcs]

\* The mutex is held by the thread that is between its lock and its unlock.
MutexHeld ==
    /\ shutdown_mutex = Main <=> main_pc \in {"check", "wait", "unlock"}
    /\ \A t \in Stoppers :
          shutdown_mutex = t <=> stop_pc[t] \in {"set", "signal", "unlock"}

\* A request handler runs only on a live daemon, which waits for it.
HandlersInside ==
    \A h \in Handlers : stop_pc[h] # "idle" => mhd_daemon = "live"

\* A callback runs only inside lws_service, on a live context.
CallbackInside ==
    /\ stop_pc[Lws] # "idle" => lws_pc = "service"
    /\ lws_pc \in {"check", "service"} => lws_context = "live"

\* Which objects there can be in which phase of the main thread.
Phased ==
    /\ main_pc \in {"new", "setup", "failed", "join", "free", "gone"} =>
          mhd_daemon # "live"
    /\ main_pc \in {"new", "setup", "failed", "websocket"} =>
          lws_context = "null"
    /\ lws_context = "destroyed" => main_pc \in {"free", "gone"}
    /\ lws_context = "live" => main_pc \notin {"free", "gone"}
    /\ freed => main_pc = "gone"

\* The inductive invariant behind papago_destroy.
LifeInv ==
    /\ LifeTypes /\ MutexHeld /\ HandlersInside /\ CallbackInside /\ Phased
    /\ NoUseAfterFree

\* papago_new makes a server with nothing running.
LEMMA LifeInit == Init => LifeInv
  BY ConstantsAssumption
     DEF Init, LifeInv, LifeTypes, MutexHeld, HandlersInside, CallbackInside,
         Phased, NoUseAfterFree, MainPcs, LwsPcs, StopPcs, LibraryThreads,
         Stoppers

\* Every step of papago_start up to the wait loop keeps the invariant.
LEMMA LifeStart == LifeInv /\ Start => LifeInv'
<1> SUFFICES ASSUME LifeInv, Start PROVE LifeInv'
  OBVIOUS
<1> USE ConstantsAssumption
    DEF LifeInv, LifeTypes, MutexHeld, HandlersInside, CallbackInside, Phased,
        NoUseAfterFree, MainPcs, LwsPcs, StopPcs, MainAt, objects, counts
<1>1. CASE StartBegin
  BY <1>1 DEF StartBegin
<1>2. CASE TemplateFailed
  BY <1>2 DEF TemplateFailed
<1>3. CASE SslFailed
  BY <1>3 DEF SslFailed
<1>4. CASE MhdFailed
  BY <1>4 DEF MhdFailed
<1>5. CASE MhdStarted
  BY <1>5 DEF MhdStarted
<1>6. CASE LwsFailed
  BY <1>6 DEF LwsFailed, HandlersDone
<1>7. CASE LwsStarted
  BY <1>7 DEF LwsStarted
<1>8. CASE LwsNoThread
  BY <1>8 DEF LwsNoThread
<1> QED
  BY <1>1, <1>2, <1>3, <1>4, <1>5, <1>6, <1>7, <1>8 DEF Start

\* Every step of the wait loop keeps the invariant.
LEMMA LifeWait == LifeInv /\ Wait => LifeInv'
<1> SUFFICES ASSUME LifeInv, Wait PROVE LifeInv'
  OBVIOUS
<1> USE ConstantsAssumption
    DEF LifeInv, LifeTypes, MutexHeld, HandlersInside, CallbackInside, Phased,
        NoUseAfterFree, MainPcs, LwsPcs, StopPcs, MainAt, objects, counts
<1>1. CASE WaitLock
  BY <1>1 DEF WaitLock
<1>2. CASE WaitCheck
  BY <1>2 DEF WaitCheck
<1>3. CASE WaitSleep
  BY <1>3 DEF WaitSleep
<1>4. CASE WaitWake
  BY <1>4 DEF WaitWake
<1>5. CASE StartReturns
  BY <1>5 DEF StartReturns
<1> QED
  BY <1>1, <1>2, <1>3, <1>4, <1>5 DEF Wait

\* Every step of papago_destroy keeps the invariant.
LEMMA LifeDestroy == LifeInv /\ Destroy => LifeInv'
<1> SUFFICES ASSUME LifeInv, Destroy PROVE LifeInv'
  OBVIOUS
<1> USE ConstantsAssumption
    DEF LifeInv, LifeTypes, MutexHeld, HandlersInside, CallbackInside, Phased,
        NoUseAfterFree, MainPcs, LwsPcs, StopPcs, MainAt, objects, counts
<1>1. CASE DestroyMhd
  BY <1>1 DEF DestroyMhd, HandlersDone
<1>2. CASE DestroyMhdFaults
  BY <1>2 DEF DestroyMhdFaults, LibraryThreads, Stoppers
<1>3. CASE DestroyLws
  BY <1>3 DEF DestroyLws
<1>4. CASE DestroyFree
  BY <1>4 DEF DestroyFree
<1>5. CASE DestroyLwsFaults
  BY <1>5 DEF DestroyLwsFaults, LibraryThreads, Stoppers
<1> QED
  BY <1>1, <1>2, <1>3, <1>4, <1>5 DEF Destroy

\* The event-loop thread keeps the invariant.
LEMMA LifeLoop == LifeInv /\ (LwsCheck \/ LwsService) => LifeInv'
  BY ConstantsAssumption
     DEF LwsCheck, LwsService, LwsAt, LifeInv, LifeTypes, MutexHeld,
         HandlersInside, CallbackInside, Phased, NoUseAfterFree, LwsPcs,
         objects

\* A call of papago_stop, by any thread, keeps the invariant.
LEMMA LifeStop ==
  ASSUME LifeInv, NEW t \in Stoppers, StopCall(t) \/ Stop(t)
  PROVE  LifeInv'
<1> USE ConstantsAssumption
    DEF LifeInv, LifeTypes, MutexHeld, HandlersInside, CallbackInside, Phased,
        NoUseAfterFree, StopPcs, objects, counts
<1>0. Lws \in Stoppers /\ Handlers \subseteq Stoppers
  BY DEF Stoppers
<1>1. CASE StopCall(t)
  <2>1. t \in Handlers => mhd_daemon = "live"
    BY <1>1, <1>0 DEF StopCall, InUserCode
  <2>2. t = Lws => lws_pc = "service"
    BY <1>1, <1>0 DEF StopCall, InUserCode
  <2> QED
    BY <1>0, <1>1, <2>1, <2>2 DEF StopCall
<1>2. CASE StopLock(t)
  BY <1>0, <1>2 DEF StopLock
<1>3. CASE StopSet(t)
  BY <1>0, <1>3 DEF StopSet
<1>4. CASE StopSignal(t)
  BY <1>0, <1>4 DEF StopSignal
<1>5. CASE StopUnlock(t)
  BY <1>0, <1>5 DEF StopUnlock
<1>6. CASE StopCancel(t)
  BY <1>0, <1>6 DEF StopCancel
<1>7. CASE StopFaults(t)
  <2>1. t \notin LibraryThreads
    BY <1>7 DEF StopFaults, LibraryThreads
  <2> QED
    BY <1>7, <2>1 DEF StopFaults
<1> QED
  BY <1>1, <1>2, <1>3, <1>4, <1>5, <1>6, <1>7 DEF Stop

\* Every step keeps the invariant.
LEMMA LifeStep == LifeInv /\ [Next]_vars => LifeInv'
<1> SUFFICES ASSUME LifeInv, [Next]_vars PROVE LifeInv'
  OBVIOUS
<1>1. CASE Start \/ Wait \/ Destroy \/ LwsCheck \/ LwsService
  BY <1>1, LifeStart, LifeWait, LifeDestroy, LifeLoop
<1>2. CASE \E t \in Callers : StopCall(t) \/ Stop(t)
  BY <1>2, LifeStop, ConstantsAssumption
<1>3. CASE Over \/ UNCHANGED vars
  BY <1>3 DEF Over, vars, objects, counts, LifeInv, LifeTypes, MutexHeld,
              HandlersInside, CallbackInside, Phased, NoUseAfterFree
<1> QED
  BY <1>1, <1>2, <1>3 DEF Next

\* A server is quiet when it is freed: what the invariant says of the phase
\* "gone" rules out each of its threads.
LEMMA FreedIsQuiet == LifeInv => QuietWhenFreed
<1> SUFFICES ASSUME LifeInv, freed PROVE QuietWhenFreed
  BY DEF QuietWhenFreed
<1>1. main_pc = "gone" /\ mhd_daemon # "live" /\ lws_context # "live"
  BY DEF LifeInv, Phased
<1>2. lws_pc \in {"none", "done"}
  BY <1>1 DEF LifeInv, LifeTypes, LwsPcs, CallbackInside
<1>3. \A t \in LibraryThreads : stop_pc[t] = "idle"
  BY <1>1, <1>2 DEF LifeInv, HandlersInside, CallbackInside, LibraryThreads
<1>4. shutdown_mutex \notin LibraryThreads \cup {Main}
  BY <1>1, <1>3 DEF LifeInv, MutexHeld, LibraryThreads, Stoppers
<1> QED
  BY <1>1, <1>2, <1>3, <1>4 DEF QuietWhenFreed

\* papago_destroy is safe against everything the library runs: no handler and
\* no callback inside papago_stop meets a freed server or a destroyed context,
\* and the server is freed only when nothing of it runs.
THEOREM DestroyIsSafe == Spec => []TornDownSafely
<1>1. LifeInv => TornDownSafely
  BY FreedIsQuiet DEF LifeInv, TornDownSafely
<1> QED
  BY <1>1, LifeInit, LifeStep, PTL DEF Spec

-----------------------------------------------------------------------------
(* papago_stop against the wait of papago_start                            *)

\* Between the test of running and the wait, running stays true.
AwakeToSleep == main_pc = "wait" => running

\* The inductive invariant behind papago_stop, given LifeInv.
WakeInv == AwakeToSleep /\ StopWakesStart

\* A step of the main thread or of the event loop keeps a stop visible.
LEMMA WakeMain ==
  ASSUME WakeInv, Start \/ Wait \/ Destroy \/ LwsCheck \/ LwsService
  PROVE  WakeInv'
<1> USE DEF WakeInv, AwakeToSleep, StopWakesStart, MainAt
<1>1. CASE Start
  BY <1>1 DEF Start, StartBegin, TemplateFailed, SslFailed, MhdFailed,
              MhdStarted, LwsFailed, LwsStarted, LwsNoThread
<1>2. CASE Wait
  BY <1>2 DEF Wait, WaitLock, WaitCheck, WaitSleep, WaitWake, StartReturns
<1>3. CASE Destroy
  BY <1>3 DEF Destroy, DestroyMhd, DestroyMhdFaults, DestroyLws,
              DestroyLwsFaults, DestroyFree
<1>4. CASE LwsCheck \/ LwsService
  BY <1>4 DEF LwsCheck, LwsService
<1> QED
  BY <1>1, <1>2, <1>3, <1>4

\* A stopper clears running only while it holds the mutex, so not between the
\* test and the wait, and is then about to signal.
LEMMA WakeStop ==
  ASSUME LifeInv, WakeInv, NEW t \in Callers, StopCall(t) \/ Stop(t)
  PROVE  WakeInv'
<1>0. t \in Stoppers /\ Callers \subseteq Stoppers
      /\ stop_pc \in [Stoppers -> StopPcs]
  BY ConstantsAssumption DEF LifeInv, LifeTypes
<1> USE DEF WakeInv, AwakeToSleep, StopWakesStart
<1>1. CASE StopSet(t)
  <2>1. shutdown_mutex = t /\ t # Main
    BY <1>0, <1>1, ConstantsAssumption DEF StopSet, LifeInv, MutexHeld
  <2>2. main_pc # "wait"
    BY <2>1 DEF LifeInv, MutexHeld
  <2>3. main_pc' # "wait" /\ stop_pc'[t] = "signal"
    BY <1>0, <1>1, <2>2 DEF StopSet
  <2> QED
    BY <2>3
<1>2. CASE StopSignal(t)
  <2>1. UNCHANGED <<running, main_pc>>
        /\ (main_pc = "sleep" => signalled')
    BY <1>2 DEF StopSignal
  <2> QED
    BY <2>1
<1>3. CASE StopCall(t) \/ StopLock(t) \/ StopUnlock(t) \/ StopCancel(t)
           \/ StopFaults(t)
  <2>1. UNCHANGED <<running, main_pc, signalled>>
    BY <1>3 DEF StopCall, StopLock, StopUnlock, StopCancel, StopFaults
  <2>2. \A u \in Callers : stop_pc[u] = "signal" => stop_pc'[u] = "signal"
    BY <1>0, <1>3
       DEF StopCall, StopLock, StopUnlock, StopCancel, StopFaults
  <2> QED
    BY <2>1, <2>2
<1> QED
  BY <1>1, <1>2, <1>3 DEF Stop

\* papago_start never sleeps on after a stop: whenever it waits and running is
\* false, the condition has been signalled or its signal is the stopper's next
\* step, whatever the number and the timing of the stoppers.
THEOREM StopNeverMissed == Spec => []StopWakesStart
<1>1. Init => WakeInv
  BY DEF Init, WakeInv, AwakeToSleep, StopWakesStart
<1>2. LifeInv /\ WakeInv /\ [Next]_vars => WakeInv'
  <2> SUFFICES ASSUME LifeInv, WakeInv, [Next]_vars PROVE WakeInv'
    OBVIOUS
  <2>1. CASE Start \/ Wait \/ Destroy \/ LwsCheck \/ LwsService
    BY <2>1, WakeMain
  <2>2. CASE \E t \in Callers : StopCall(t) \/ Stop(t)
    BY <2>2, WakeStop
  <2>3. CASE Over \/ UNCHANGED vars
    BY <2>3 DEF Over, vars, WakeInv, AwakeToSleep, StopWakesStart
  <2> QED
    BY <2>1, <2>2, <2>3 DEF Next
<1>3. WakeInv => StopWakesStart
  BY DEF WakeInv
<1> QED
  BY <1>1, <1>2, <1>3, LifeInit, LifeStep, PTL DEF Spec
=============================================================================
