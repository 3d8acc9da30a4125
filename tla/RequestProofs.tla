---------------------------- MODULE RequestProofs ----------------------------
(***************************************************************************)
(* What holds of every request that mhd_handler answers, for any tables of *)
(* routes and middleware; of every fetch the CORS middleware answers, for  *)
(* any configuration; of every rendering of a template; of the metrics of  *)
(* any requests; and of every file the static handler sends.               *)
(*                                                                         *)
(* Requests: the properties speak of a request at its handler or at its    *)
(* end; the invariant says what each phase of mhd_handler has established: *)
(* how far the loop over the before() functions has come (Asked), and the  *)
(* one over the after() functions (Told), and that a request that was      *)
(* turned away has passed neither.                                         *)
(*                                                                         *)
(* CORS: what the headers mean to a browser is worked out once, for an     *)
(* origin, a credential and a preflight; the invariant then says whose     *)
(* answer the browser has before it: the middleware's, or the cache's.     *)
(*                                                                         *)
(* Templates: the context has the values of the holder of the mutex, and a *)
(* stream's text followed by the stdio buffer is the text of the call's    *)
(* own values.  Streams are counted by giving each the number of its call. *)
(*                                                                         *)
(* Metrics: a sum is the one function of its partial sums, so the sum of a *)
(* table grows with an entry or behind it.  An entry that is new has all   *)
(* requests of its URL, since with room in the table none went unlisted.   *)
(*                                                                         *)
(* Routes: up to the first '*' match_route's loop has failed, or collected *)
(* one capture for each parameter passed; a '*' ends it.                   *)
(*                                                                         *)
(* Static files: what realpath returns is canonical, and resolves to       *)
(* itself, so what was compared with the root is what is opened.           *)
(***************************************************************************)
EXTENDS Dispatch, Cors, Templates, Metrics, StaticFiles, FiniteSetTheorems,
        SequenceTheorems, WellFoundedInduction, TLAPS

Pcs == {"setup", "certificate", "before", "route", "after", "metrics", "send",
        "done", "closed", "crashed"}

\* The places of the table of middleware.
Slots == [path : MiddlewarePaths, after : BOOLEAN]

\* Types of what the argument is about.
FlowTypes ==
    /\ middleware \in Seq(Slots)
    /\ pc \in Pcs /\ j \in Nat
    /\ befores \in Seq(Nat) /\ afters \in Seq(Nat)
    /\ refused \in BOOLEAN /\ certified \in BOOLEAN
    /\ body_too_large \in BOOLEAN

\* The middleware before n that applies has been asked, in order.
Asked(n) ==
    /\ Range(befores) = {i \in 1 .. n - 1 : Applies(middleware[i])}
    /\ Increasing(befores)

\* The after() functions behind n that apply have run, in the opposite order.
Told(n) ==
    /\ Range(afters) = {i \in n + 1 .. Len(middleware) :
                            middleware[i].after /\ Applies(middleware[i])}
    /\ Decreasing(afters)

\* What a request that is past the before() functions has behind it.
Passed == ~TurnedAway /\ Asked(Len(middleware) + 1)

\* What each phase of mhd_handler has established.
Flow ==
    /\ pc \in {"setup", "certificate"} =>
          befores = <<>> /\ ~certified /\ ~refused
    /\ pc = "before" =>
          /\ j \in 1 .. Len(middleware) + 1
          /\ Asked(j) /\ certified /\ ~refused
    /\ pc \in {"route", "after"} => Passed
    /\ pc = "after" => j \in 0 .. Len(middleware) /\ Told(j)
    /\ pc \notin {"after", "metrics", "send", "done", "crashed"} =>
          afters = <<>> /\ handled = 0
    /\ pc = "crashed" => handled = 0 \/ Passed
    /\ handled # 0 => path # None
    /\ pc \in {"metrics", "send", "done"} =>
          \/ TurnedAway /\ afters = <<>> /\ handled = 0
          \/ Passed /\ Told(0)

\* The inductive invariant.
FlowInv == FlowTypes /\ Flow

\* A sequence grows by its end.
LEMMA AppendRange ==
  ASSUME NEW s \in Seq(Nat), NEW x \in Nat
  PROVE  Range(Append(s, x)) = Range(s) \cup {x}
<1>1. DOMAIN s = 1 .. Len(s) /\ DOMAIN Append(s, x) = 1 .. Len(s) + 1
  OBVIOUS
<1>2. \A i \in 1 .. Len(s) : Append(s, x)[i] = s[i]
  OBVIOUS
<1>3. Append(s, x)[Len(s) + 1] = x
  OBVIOUS
<1> QED
  BY <1>1, <1>2, <1>3 DEF Range

\* It stays increasing when the new element is above the others.
LEMMA AppendIncreasing ==
  ASSUME NEW s \in Seq(Nat), NEW x \in Nat, Increasing(s),
         \A y \in Range(s) : y < x
  PROVE  Increasing(Append(s, x))
  BY DEF Increasing, Range

\* It stays decreasing when the new element is below the others.
LEMMA AppendDecreasing ==
  ASSUME NEW s \in Seq(Nat), NEW x \in Nat, Decreasing(s),
         \A y \in Range(s) : y > x
  PROVE  Decreasing(Append(s, x))
  BY DEF Decreasing, Range

\* papago_new has no tables and no request.
LEMMA FlowInit == Init => FlowInv
<1> SUFFICES ASSUME Init PROVE FlowInv
  OBVIOUS
<1>1. FlowTypes
  <2>1. middleware \in Seq(Slots)
    BY DEF Init
  <2>2. befores \in Seq(Nat) /\ afters \in Seq(Nat)
    BY DEF Init
  <2>3. pc \in Pcs /\ j \in Nat
    BY DEF Init, Pcs
  <2>4. refused \in BOOLEAN /\ certified \in BOOLEAN
        /\ body_too_large \in BOOLEAN
    BY DEF Init
  <2> QED
    BY <2>1, <2>2, <2>3, <2>4 DEF FlowTypes
<1>2. Flow
  BY DEF Init, Flow
<1> QED
  BY <1>1, <1>2 DEF FlowInv

\* Registration and the arrival of a request keep the invariant.
LEMMA FlowSetup == FlowInv /\ (Setup \/ Arrives) => FlowInv'
<1> SUFFICES ASSUME FlowInv, Setup \/ Arrives PROVE FlowInv'
  OBVIOUS
<1>1. CASE Setup
  <2>1. /\ pc = "setup" /\ UNCHANGED <<pc, j, certified, body_too_large>>
        /\ UNCHANGED <<befores, refused, afters, handled>>
    BY <1>1 DEF Setup, Route, MiddlewareAdd, request, history
  <2>2. \A p \in MiddlewarePaths, after \in BOOLEAN :
            [path |-> p, after |-> after] \in Slots
    BY DEF Slots
  <2>3. middleware' \in Seq(Slots)
    <3>1. \/ middleware' = middleware
          \/ \E slot \in Slots : middleware' = Append(middleware, slot)
      BY <1>1, <2>2 DEF Setup, Route, MiddlewareAdd
    <3>2. middleware \in Seq(Slots)
      BY DEF FlowInv, FlowTypes
    <3> QED
      BY <3>1, <3>2
  <2> QED
    BY <2>1, <2>3 DEF FlowInv, FlowTypes, Flow
<1>2. CASE Arrives
  <2>1. /\ pc = "setup" /\ pc' \in {"certificate", "closed"}
        /\ body_too_large' \in BOOLEAN
        /\ UNCHANGED <<middleware, j, certified, befores, refused, afters,
                       handled>>
    BY <1>2 DEF Arrives, Arrive, ArriveNoPath, ArriveNoMemory, tables, history
  <2> QED
    BY <2>1 DEF FlowInv, FlowTypes, Flow, Pcs, TurnedAway
<1> QED
  BY <1>1, <1>2

\* The certificate and the loop over the before() functions keep it.
LEMMA FlowBefore ==
  ASSUME FlowInv,
         \/ Certified \/ \E s \in {500, 403} : NotCertified(s)
         \/ \E continue \in BOOLEAN : BeforeRuns(continue)
         \/ BeforeSkips \/ BeforesDone \/ TooLarge
  PROVE  FlowInv'
<1>1. CASE Certified
  <2>1. /\ pc = "certificate" /\ pc' = "before" /\ j' = 1 /\ certified' = TRUE
        /\ UNCHANGED <<middleware, path, body_too_large, befores, refused,
                       afters, handled>>
    BY <1>1 DEF Certified, tables, request, history
  <2>2. Asked(j)'
    BY <2>1 DEF FlowInv, Flow, Asked, Increasing, Range
  <2> QED
    BY <2>1, <2>2 DEF FlowInv, FlowTypes, Flow, Pcs
<1>2. CASE \E s \in {500, 403} : NotCertified(s)
  <2>1. /\ pc = "certificate" /\ pc' = "metrics"
        /\ UNCHANGED <<middleware, j, certified, path, body_too_large, befores,
                       refused, afters, handled>>
    BY <1>2 DEF NotCertified, tables, request
  <2> QED
    BY <2>1 DEF FlowInv, FlowTypes, Flow, Pcs, TurnedAway
<1>3. ASSUME NEW continue \in BOOLEAN, BeforeRuns(continue) PROVE FlowInv'
  <2>1. /\ pc = "before" /\ j <= Len(middleware) /\ Applies(middleware[j])
        /\ befores' = Append(befores, j) /\ refused' = ~continue
        /\ IF continue THEN j' = j + 1 /\ pc' = pc ELSE j' = j /\ pc' = "metrics"
        /\ UNCHANGED <<middleware, certified, path, body_too_large, afters,
                       handled>>
    BY <1>3 DEF BeforeRuns, tables, request
  <2>2. /\ j \in 1 .. Len(middleware) /\ Len(middleware) \in Nat
        /\ Asked(j) /\ certified
    BY <2>1 DEF FlowInv, FlowTypes, Flow
  <2>3. FlowTypes'
    BY <2>1, <2>2 DEF FlowInv, FlowTypes, Pcs
  <2>4. CASE continue
    <3>1. Range(befores') = Range(befores) \cup {j}
      BY <2>1, <2>2, AppendRange DEF FlowInv, FlowTypes
    <3>2. Increasing(befores')
      BY <2>1, <2>2, AppendIncreasing DEF FlowInv, FlowTypes, Asked
    <3>3. (1 .. j' - 1) = (1 .. j - 1) \cup {j}
      BY <2>1, <2>2, <2>4
    <3>4. \A i : Applies(middleware[i])' <=> Applies(middleware[i])
      BY <2>1 DEF Applies
    <3>5. Asked(j)'
      BY <2>1, <2>2, <3>1, <3>2, <3>3, <3>4 DEF Asked
    <3>6. j' \in 1 .. Len(middleware') + 1 /\ pc' = "before"
      BY <2>1, <2>2, <2>4
    <3>7. certified' /\ ~refused' /\ afters' = <<>> /\ handled' = 0
      BY <2>1, <2>2, <2>4 DEF FlowInv, Flow
    <3> QED
      BY <2>3, <3>5, <3>6, <3>7 DEF FlowInv, Flow
  <2>5. CASE ~continue
    BY <2>1, <2>3, <2>5 DEF FlowInv, Flow, TurnedAway
  <2> QED
    BY <2>4, <2>5
<1>4. CASE BeforeSkips
  <2>1. /\ pc = "before" /\ j <= Len(middleware) /\ ~Applies(middleware[j])
        /\ j' = j + 1
        /\ UNCHANGED <<middleware, pc, certified, path, body_too_large, befores,
                       refused, afters, handled>>
    BY <1>4 DEF BeforeSkips, tables, request, history
  <2>2. /\ j \in 1 .. Len(middleware) /\ Len(middleware) \in Nat /\ Asked(j)
    BY <2>1 DEF FlowInv, FlowTypes, Flow
  <2>3. (1 .. j' - 1) = (1 .. j - 1) \cup {j}
    BY <2>1, <2>2
  <2>4. Asked(j)'
    BY <2>1, <2>2, <2>3 DEF Asked, Applies
  <2> QED
    BY <2>1, <2>2, <2>4 DEF FlowInv, FlowTypes, Flow
<1>5. CASE BeforesDone
  <2>1. /\ pc = "before" /\ j > Len(middleware) /\ ~body_too_large
        /\ pc' = "route"
        /\ UNCHANGED <<middleware, j, certified, path, body_too_large, befores,
                       refused, afters, handled>>
    BY <1>5 DEF BeforesDone, tables, request, history
  <2>2. j = Len(middleware) + 1
    BY <2>1 DEF FlowInv, FlowTypes, Flow
  <2>3. Passed'
    BY <2>1, <2>2 DEF FlowInv, Flow, Passed, TurnedAway, Asked, Applies
  <2> QED
    BY <2>1, <2>3 DEF FlowInv, FlowTypes, Flow, Pcs
<1>6. CASE TooLarge
  <2>1. /\ pc = "before" /\ body_too_large /\ pc' = "metrics"
        /\ UNCHANGED <<middleware, j, certified, path, body_too_large, befores,
                       refused, afters, handled>>
    BY <1>6 DEF TooLarge, tables, request
  <2> QED
    BY <2>1 DEF FlowInv, FlowTypes, Flow, Pcs, TurnedAway
<1> QED
  BY <1>1, <1>2, <1>3, <1>4, <1>5, <1>6

\* The search for a route keeps it, whether it finds one or not.
LEMMA FlowRoute ==
  ASSUME FlowInv, Found \/ FoundEmbedded \/ FoundNoMemory \/ NotFound
  PROVE  FlowInv'
<1>1. /\ pc = "route" /\ pc' = "after" /\ j' = Len(middleware)
      /\ UNCHANGED <<middleware, certified, path, body_too_large, befores,
                     refused, afters>>
  BY DEF Found, FoundEmbedded, FoundNoMemory, NotFound, tables, request
<1>2. Passed'
  BY <1>1 DEF FlowInv, Flow, Passed, TurnedAway, Asked, Applies
<1>3. Told(j)'
  BY <1>1 DEF FlowInv, FlowTypes, Flow, Told, Decreasing, Range
<1>4. Len(middleware) \in Nat
  BY DEF FlowInv, FlowTypes
<1>5. handled' # 0 => path' # None
  <2>1. handled' = handled \/ Candidates # {}
    BY DEF Found, FoundEmbedded, FoundNoMemory, NotFound
  <2>2. Candidates # {} => path # None
    BY DEF Candidates, Matches
  <2> QED
    BY <1>1, <2>1, <2>2 DEF FlowInv, Flow
<1> QED
  BY <1>1, <1>2, <1>3, <1>4, <1>5 DEF FlowInv, FlowTypes, Flow, Pcs

\* The loop over the after() functions keeps it.
LEMMA FlowAfter ==
  ASSUME FlowInv, AfterRuns \/ AfterSkips \/ AftersDone
  PROVE  FlowInv'
<1>0. /\ pc = "after" /\ j \in 0 .. Len(middleware) /\ Len(middleware) \in Nat
      /\ Told(j) /\ Passed
  BY DEF AfterRuns, AfterSkips, AftersDone, FlowInv, FlowTypes, Flow
<1>1. UNCHANGED <<middleware, certified, path, body_too_large, befores,
                  refused, handled>>
  BY DEF AfterRuns, AfterSkips, AftersDone, tables, request, history
<1>2. Passed'
  BY <1>0, <1>1 DEF Passed, TurnedAway, Asked, Applies
<1>3. \A i : Applies(middleware[i])' <=> Applies(middleware[i])
  BY <1>1 DEF Applies
<1>4. CASE AfterRuns
  <2>1. /\ j >= 1 /\ middleware[j].after /\ Applies(middleware[j])
        /\ afters' = Append(afters, j) /\ j' = j - 1 /\ pc' = pc
    BY <1>4 DEF AfterRuns
  <2>2. j \in Nat /\ afters \in Seq(Nat)
    BY DEF FlowInv, FlowTypes
  <2>3. Range(afters') = Range(afters) \cup {j}
    BY <2>1, <2>2, AppendRange
  <2>4. Decreasing(afters')
    BY <1>0, <2>1, <2>2, AppendDecreasing DEF Told
  <2>5. (j' + 1 .. Len(middleware)) = (j + 1 .. Len(middleware)) \cup {j}
    BY <1>0, <2>1
  <2>6. Told(j)'
    BY <1>0, <1>1, <1>3, <2>1, <2>3, <2>4, <2>5 DEF Told
  <2> QED
    BY <1>0, <1>1, <1>2, <2>1, <2>6 DEF FlowInv, FlowTypes, Flow
<1>5. CASE AfterSkips
  <2>1. /\ j >= 1 /\ ~(middleware[j].after /\ Applies(middleware[j]))
        /\ afters' = afters /\ j' = j - 1 /\ pc' = pc
    BY <1>5 DEF AfterSkips, history
  <2>2. (j' + 1 .. Len(middleware)) = (j + 1 .. Len(middleware)) \cup {j}
    BY <1>0, <2>1
  <2>3. Told(j)'
    BY <1>0, <1>1, <1>3, <2>1, <2>2 DEF Told
  <2> QED
    BY <1>0, <1>1, <1>2, <2>1, <2>3 DEF FlowInv, FlowTypes, Flow
<1>6. CASE AftersDone
  <2>1. j = 0 /\ afters' = afters /\ j' = j /\ pc' = "metrics"
    BY <1>6 DEF AftersDone, history
  <2>2. Told(0)'
    BY <1>0, <1>1, <1>3, <2>1 DEF Told
  <2> QED
    BY <1>0, <1>1, <1>2, <2>1, <2>2 DEF FlowInv, FlowTypes, Flow, Pcs
<1> QED
  BY <1>4, <1>5, <1>6

\* Counting and sending change nothing that the invariant is about.
LEMMA FlowSend ==
  ASSUME FlowInv,
         \/ UpdateMetrics \/ SendFile \/ SendBody \/ SendCompressed
         \/ SendFails \/ Done \/ UNCHANGED vars
  PROVE  FlowInv'
<1>1. /\ UNCHANGED <<middleware, j, certified, path, body_too_large, befores,
                     refused, afters, handled>>
      /\ \/ pc \in {"metrics", "send"} /\ pc' \in {"send", "done"}
         \/ pc' = pc
  BY DEF UpdateMetrics, SendFile, SendBody, SendCompressed, SendFails, Sent,
         Done, vars, tables, request, history
<1>2. /\ Passed' <=> Passed
      /\ TurnedAway' <=> TurnedAway
      /\ \A n : (Told(n)' <=> Told(n)) /\ (Asked(n)' <=> Asked(n))
  BY <1>1 DEF Passed, TurnedAway, Told, Asked, Applies
<1> QED
  BY <1>1, <1>2 DEF FlowInv, FlowTypes, Flow, Pcs

\* So does a crash: it comes before the routes or behind all before() functions.
LEMMA FlowCrash ==
  ASSUME FlowInv, BeforeFaults \/ AfterFaults \/ SendFaults
  PROVE  FlowInv'
<1>1. /\ UNCHANGED <<middleware, j, certified, path, body_too_large, befores,
                     refused, afters, handled>>
      /\ pc \in {"before", "after", "send"} /\ pc' = "crashed"
  BY DEF BeforeFaults, AfterFaults, SendFaults, Crash, tables, request, history
<1>2. /\ Passed' <=> Passed
      /\ FlowTypes'
  BY <1>1 DEF Passed, TurnedAway, Asked, Applies, FlowInv, FlowTypes, Pcs
<1> QED
  BY <1>1, <1>2 DEF FlowInv, Flow

\* Every step keeps the invariant.
LEMMA FlowStep == FlowInv /\ [Next]_vars => FlowInv'
  BY FlowSetup, FlowBefore, FlowRoute, FlowAfter, FlowSend, FlowCrash DEF Next

\* No handler runs for a request that was not certified, was refused or was too
\* large, nor before every middleware whose path covers the request's has been
\* asked, whatever the tables and the user functions are.
THEOREM HandlerIsGuarded == Spec => []GuardedHandler
<1>1. FlowInv => GuardedHandler
  <2> SUFFICES ASSUME FlowInv, handled # 0 PROVE GuardedHandler
    BY DEF GuardedHandler
  <2>1. Passed
    BY DEF FlowInv, Flow, FlowTypes, Pcs
  <2>2. (1 .. (Len(middleware) + 1) - 1) = DOMAIN middleware
    BY DEF FlowInv, FlowTypes
  <2>3. Range(befores) = {i \in DOMAIN middleware : Applies(middleware[i])}
    BY <2>1, <2>2 DEF Passed, Asked
  <2>4. ASSUME NEW i \in DOMAIN middleware, Covers(middleware[i])
        PROVE  Applies(middleware[i])
    <3>1. CASE middleware[i].path = None
      BY <3>1 DEF Applies
    <3>2. CASE middleware[i].path # None
      <4> DEFINE n == Len(middleware[i].path)
      <4>1. path # None
        BY DEF FlowInv, Flow
      <4>2. middleware[i].path \in Seq(STRING) /\ middleware[i].path # <<>>
        <5>1. middleware[i] \in Slots
          BY DEF FlowInv, FlowTypes
        <5>2. middleware[i].path \in MiddlewarePaths \ {None}
          BY <3>2, <5>1 DEF Slots
        <5> QED
          BY <5>2, DispatchAssumption
      <4>3. n \in Nat /\ n # 0
        BY <4>2
      <4>4. /\ n <= Len(path)
            /\ \A k \in 1 .. n : \/ middleware[i].path[k] = path[k]
                                 \/ k = n /\ middleware[i].path[k] = ""
        BY <2>4, <3>2 DEF Covers
      <4>5. /\ \A k \in 1 .. n - 1 : path[k] = middleware[i].path[k]
            /\ middleware[i].path[n] \in {"", path[n]}
        <5> HIDE DEF n
        <5>1. n \in 1 .. n /\ \A k \in 1 .. n - 1 : k \in 1 .. n /\ k # n
          BY <4>3
        <5> QED
          BY <4>4, <5>1
      <4>6. BeginsWith(path, middleware[i].path)
        BY <4>4, <4>5 DEF BeginsWith
      <4> QED
        BY <4>1, <4>6 DEF Applies
    <3> QED
      BY <3>1, <3>2
  <2> QED
    BY <2>1, <2>3, <2>4 DEF Passed, Asked, GuardedHandler
<1> QED
  BY <1>1, FlowInit, FlowStep, PTL DEF Spec

\* The after() functions that run are those of the middleware whose before()
\* functions ran, once each and in the opposite order, or none for a request
\* that was turned away, whatever the tables and the user functions are.
THEOREM AftersMirror == Spec => []AftersMirrorBefores
<1>1. FlowInv => AftersMirrorBefores
  <2> SUFFICES ASSUME FlowInv, pc = "send" PROVE AftersMirrorBefores
    BY DEF AftersMirrorBefores
  <2>1. CASE TurnedAway
    <3>1. ~Passed
      BY <2>1 DEF Passed
    <3> QED
      BY <2>1, <3>1 DEF FlowInv, Flow, AftersMirrorBefores
  <2>2. CASE ~TurnedAway
    <3>1. Passed /\ Told(0) /\ Len(middleware) \in Nat
      BY <2>2 DEF FlowInv, Flow, FlowTypes
    <3>2. (1 .. (Len(middleware) + 1) - 1) = 0 + 1 .. Len(middleware)
      BY <3>1
    <3>3. Range(afters) = {i \in Range(befores) : middleware[i].after}
      BY <3>1, <3>2 DEF Passed, Asked, Told
    <3> QED
      BY <2>2, <3>1, <3>3 DEF Passed, Asked, Told, AftersMirrorBefores
  <2> QED
    BY <2>1, <2>2
<1> QED
  BY <1>1, FlowInit, FlowStep, PTL DEF Spec

-----------------------------------------------------------------------------
(* Metrics and memory of a response                                        *)

\* A file response has no body, and none dangles, unless an embedded file was put
\* over it; nothing is counted before update_metrics, and before a response there
\* is nothing at all.
Accounts ==
    /\ pc \in Pcs
    /\ stream_fd \in BOOLEAN
    /\ \/ "overlaid" \in failures
       \/ body # "dangling" /\ (stream_fd => body = "null")
    /\ pc \notin {"send", "done", "crashed"} => counted = <<>>
    /\ pc = "setup" => body = "null" /\ ~stream_fd /\ failures = {}

\* Every request whose URL could be copied is counted once with the status it is
\* answered with; its memory and descriptor are freed unless MHD makes no response
\* of it or an embedded file was put over an earlier one, however middleware,
\* handler and framework respond over each other; and nothing but a failed copy or
\* such a file leads to undefined behaviour.
THEOREM ResponseIsSettled == Spec => []CountedAndFreed
<1> DEFINE Inv == Accounts /\ CountedAndFreed
<1>1. Init => Inv
  BY DEF Init, Accounts, CountedAndFreed, Pcs
<1>2. Inv /\ [Next]_vars => Inv'
  <2> SUFFICES ASSUME Inv, [Next]_vars PROVE Inv'
    OBVIOUS
  <2> USE DEF Accounts, Pcs
  <2>0. "unbacked" # "dangling" /\ \A new \in Copied \cup {"null"} : new # "dangling"
    BY DEF Copied
  \* Steps in which a user function or the framework sets up the response.
  <2>1. ASSUME pc \in {"certificate", "before", "route", "after"},
               pc' \in {"before", "route", "after", "metrics"},
               counted' = counted, leaked' = leaked,
               failures \subseteq failures',
               \/ UserResponds \/ \E s \in {413, 500, 403, 404, 405} : Answer(s)
               \/ UNCHANGED response
        PROVE  Inv'
    <3>1. /\ stream_fd' \in BOOLEAN
          /\ \/ "overlaid" \in failures'
             \/ body' # "dangling" /\ (stream_fd' => body' = "null")
      <4>1. \/ UNCHANGED <<body, stream_fd>>
            \/ \E new \in Copied \cup {"null"} : Send(new)
            \/ body' = "null" /\ stream_fd' = TRUE
        BY <2>1 DEF UserResponds, Answer, response
      <4>2. CASE UNCHANGED <<body, stream_fd>>
        BY <2>1, <4>2
      <4>3. ASSUME NEW new \in Copied \cup {"null"}, Send(new)
            PROVE  /\ stream_fd' \in BOOLEAN
                   /\ \/ "overlaid" \in failures'
                      \/ body' # "dangling" /\ (stream_fd' => body' = "null")
        <5>1. CASE stream_fd
          BY <2>1, <4>3, <5>1 DEF Send
        <5>2. CASE ~stream_fd
          BY <2>0, <4>3, <5>2 DEF Send
        <5> QED
          BY <5>1, <5>2
      <4>4. CASE body' = "null" /\ stream_fd' = TRUE
        BY <4>4
      <4> QED
        BY <4>1, <4>2, <4>3, <4>4
    <3>2. failures' \cap {"mhd", "overlaid"} = {} => leaked' = {}
      BY <2>1 DEF CountedAndFreed
    <3> QED
      BY <2>1, <3>1, <3>2 DEF CountedAndFreed
  <2>2. CASE Setup
    <3>1. pc = "setup" /\ UNCHANGED <<pc, response, counted, failures, leaked>>
      BY <2>2 DEF Setup, Route, MiddlewareAdd, history
    <3> QED
      BY <3>1 DEF response, CountedAndFreed
  <2>3. CASE Arrives
    <3>1. /\ pc = "setup" /\ pc' \in {"certificate", "closed"}
          /\ UNCHANGED <<body, stream_fd, counted, leaked>>
          /\ failures' \in {failures, {"memory"}}
      BY <2>3 DEF Arrives, Arrive, ArriveNoPath, ArriveNoMemory, response, history
    <3>2. body # "dangling" /\ ~stream_fd /\ counted = <<>>
      BY <3>1
    <3> QED
      BY <3>1, <3>2 DEF CountedAndFreed
  <2>4. CASE Certified \/ BeforeSkips \/ BeforesDone \/ AfterSkips
             \/ AftersDone
    BY <2>1, <2>4 DEF Certified, BeforeSkips, BeforesDone, AfterSkips,
                      AftersDone, history
  <2>5. CASE \E s \in {500, 403} : NotCertified(s)
    BY <2>1, <2>5 DEF NotCertified
  <2>6. CASE \E continue \in BOOLEAN : BeforeRuns(continue)
    BY <2>1, <2>6 DEF BeforeRuns
  <2>7. CASE TooLarge
    BY <2>1, <2>7 DEF TooLarge
  <2>8. CASE Found \/ AfterRuns
    BY <2>1, <2>8 DEF Found, AfterRuns
  <2>9. CASE FoundNoMemory
    BY <2>1, <2>9 DEF FoundNoMemory
  <2>10. CASE NotFound
    BY <2>1, <2>10 DEF NotFound
  <2>11. CASE FoundEmbedded
    <3>1. pc = "route" /\ pc' = "after" /\ counted' = counted
      BY <2>11 DEF FoundEmbedded
    <3>2. CASE Answer(404) /\ UNCHANGED <<failures, leaked>>
      BY <2>1, <3>1, <3>2
    <3>3. CASE UNCHANGED <<status, body, stream_fd, encoding, failures, leaked>>
      BY <3>1, <3>3 DEF CountedAndFreed
    <3>4. CASE /\ body' = "owned" /\ leaked' = leaked \cup Body
               /\ failures' = IF stream_fd \/ Body # {}
                                THEN failures \cup {"overlaid"} ELSE failures
               /\ UNCHANGED stream_fd
      <4>1. CASE stream_fd \/ Body # {}
        <5>1. "overlaid" \in failures'
          BY <3>4, <4>1
        <5> QED
          BY <3>1, <3>4, <5>1 DEF CountedAndFreed
      <4>2. CASE ~(stream_fd \/ Body # {})
        <5>1. failures' = failures /\ leaked' = leaked /\ ~stream_fd'
          BY <3>4, <4>2
        <5> QED
          BY <3>1, <3>4, <5>1 DEF CountedAndFreed
      <4> QED
        BY <4>1, <4>2
    <3> QED
      BY <2>11, <3>2, <3>3, <3>4 DEF FoundEmbedded, EmbeddedResponds
  <2>12. CASE UpdateMetrics
    <3>1. /\ pc = "metrics" /\ pc' = "send" /\ counted = <<>>
          /\ counted' = IF path = None THEN counted ELSE Append(counted, status)
          /\ UNCHANGED <<path, status, body, stream_fd, failures, leaked>>
      BY <2>12 DEF UpdateMetrics, request, response
    <3>2. counted' = IF path' = None THEN <<>> ELSE <<status'>>
      BY <3>1
    <3> QED
      BY <3>1, <3>2 DEF CountedAndFreed
  <2>13. CASE SendFile \/ SendBody \/ SendCompressed
    <3>1. /\ pc = "send" /\ pc' = "done" /\ UNCHANGED <<path, status, counted>>
          /\ failures' = failures /\ stream_fd' = FALSE /\ body' = "null"
      BY <2>13 DEF SendFile, SendBody, SendCompressed, Sent, request
    <3>2. "overlaid" \in failures \/ leaked' = leaked
      BY <2>13 DEF SendFile, SendBody, SendCompressed, Sent, Body
    <3> QED
      BY <3>1, <3>2 DEF CountedAndFreed
  <2>14. CASE SendFails
    <3>1. /\ pc = "send" /\ pc' = "done" /\ UNCHANGED <<path, status, counted>>
          /\ "mhd" \in failures' /\ stream_fd' = FALSE /\ body' = "null"
      BY <2>14 DEF SendFails, Sent, request
    <3> QED
      BY <3>1 DEF CountedAndFreed
  <2>15. CASE BeforeFaults \/ AfterFaults \/ SendFaults
    <3>1. /\ pc' = "crashed"
          /\ UNCHANGED <<path, status, body, stream_fd, counted, failures, leaked>>
          /\ path = None \/ body = "dangling" \/ body = "unbacked"
      BY <2>15 DEF BeforeFaults, AfterFaults, SendFaults, Crash, request, response,
                   history
    <3>2. body = "dangling" => "overlaid" \in failures
      OBVIOUS
    <3> QED
      BY <3>1, <3>2 DEF CountedAndFreed
  <2>16. CASE Done \/ UNCHANGED vars
    BY <2>16 DEF Done, vars, request, response, history, CountedAndFreed
  <2> QED
    BY <2>2, <2>3, <2>4, <2>5, <2>6, <2>7, <2>8, <2>9, <2>10, <2>11, <2>12,
       <2>13, <2>14, <2>15, <2>16 DEF Next
<1>3. Inv => CountedAndFreed
  OBVIOUS
<1> QED
  BY <1>1, <1>2, <1>3, PTL DEF Spec

-----------------------------------------------------------------------------
(* The CORS middleware                                                     *)

\* A set of natural numbers that is not empty has a least element.
LEMMA LeastOne == ASSUME NEW S \in SUBSET Nat, S # {}
                  PROVE  Min(S) \in S /\ \A n \in S : Min(S) <= n
<1> DEFINE R == OpToRel(<, Nat)
<1>1. \A x, y \in Nat : <<y, x>> \in R <=> y < x
  BY DEF OpToRel
<1>2. IsWellFoundedOn(R, Nat)
  BY NatLessThanWellFounded, Zenon
<1> HIDE DEF R
<1>3. PICK x \in S : \A y \in S : <<y, x>> \notin R
  BY <1>2, WFMin
<1>4. ASSUME NEW y \in S PROVE x <= y
  <2>1. x \in Nat /\ y \in Nat /\ ~(y < x)
    BY <1>1, <1>3
  <2> QED BY <2>1
<1> QED BY <1>4 DEF Min

\* What the middleware answers to an origin: its own name or "*" if it is on
\* the list, and "*" never with credentials.
LEMMA AnswerToOrigin ==
    ASSUME config \in CorsConfigs, NEW o \in Origins
    PROVE  /\ AllowOrigin(o) # Absent <=> OnList(o)
           /\ AllowOrigin(o) \in {o, Star, Absent}
           /\ AllowOrigin(o) = Star =>
                 /\ ~config.allow_credentials
                 /\ Star \in Range(config.allowed_origins)
<1> DEFINE list == config.allowed_origins
           hits == {i \in DOMAIN list : list[i] \in {o, Star}}
<1>1. /\ list \in Seq(Origins \cup {Star}) /\ config.allow_credentials \in BOOLEAN
      /\ Star \notin Origins /\ Absent \notin Origins /\ Star # Absent
  BY CorsAssumption DEF Star, Absent
<1>2. CASE list = <<>>
  <2>1. MatchAllowedOrigin(o) = o
    BY <1>2 DEF MatchAllowedOrigin
  <2> QED BY <1>1, <1>2, <2>1 DEF AllowOrigin, OnList
<1>3. CASE list # <<>> /\ hits = {}
  <2>1. MatchAllowedOrigin(o) = Absent
    BY <1>3 DEF MatchAllowedOrigin
  <2>2. ~OnList(o)
    BY <1>3 DEF OnList, Range
  <2> QED BY <1>1, <2>1, <2>2 DEF AllowOrigin
<1>4. CASE list # <<>> /\ hits # {}
  <2>1. hits \in SUBSET Nat
    BY <1>1
  <2>2. Min(hits) \in hits
    BY <1>4, <2>1, LeastOne
  <2>3. MatchAllowedOrigin(o) = list[Min(hits)]
    BY <1>4 DEF MatchAllowedOrigin
  <2>4. MatchAllowedOrigin(o) \in {o, Star} /\ MatchAllowedOrigin(o) \in Range(list)
    BY <2>2, <2>3 DEF Range
  <2>5. OnList(o)
    BY <2>4 DEF OnList
  <2> QED BY <1>1, <2>4, <2>5 DEF AllowOrigin
<1> QED BY <1>2, <1>3, <1>4

\* The browser lets the page read an answer made for it exactly when the origin
\* is on the list and credentials are only sent where they are allowed.
Welcome(f) == OnList(f.origin) /\ (f.credentials => config.allow_credentials)

\* That is what the middleware's own answer to a page says.
LEMMA OwnAnswer ==
    ASSUME config \in CorsConfigs, fetch \in Fetches, fetch.origin # Absent
    PROVE  CorsCheck(CommonHeaders(fetch.origin)) <=> Welcome(fetch)
<1> DEFINE o == fetch.origin
           h == CommonHeaders(o)
<1>1. /\ o \in Origins /\ fetch.credentials \in BOOLEAN /\ o # Star
      /\ Star # Absent /\ config.allow_credentials \in BOOLEAN
  BY CorsAssumption DEF Fetches, NoFetch, Star, Absent
<1>2. /\ AllowOrigin(o) # Absent <=> OnList(o)
      /\ AllowOrigin(o) \in {o, Star, Absent}
      /\ AllowOrigin(o) = Star => ~config.allow_credentials
  BY <1>1, AnswerToOrigin
<1>3. CASE AllowOrigin(o) = Absent
  <2>1. h.allow_origin = Absent
    BY <1>3 DEF CommonHeaders, NoHeaders
  <2> QED BY <1>2, <1>3, <2>1 DEF CorsCheck, Welcome
<1>4. CASE AllowOrigin(o) # Absent
  <2>1. h.allow_origin = AllowOrigin(o) /\ h.credentials = config.allow_credentials
    BY <1>4 DEF CommonHeaders, NoHeaders
  <2> QED BY <1>1, <1>2, <1>4, <2>1 DEF CorsCheck, Welcome
<1> QED BY <1>3, <1>4

\* A cached answer that was made for somebody else and does not vary is one to
\* nobody on the list, or one to everybody.
LEMMA OthersAnswer ==
    ASSUME config \in CorsConfigs, fetch \in Fetches, fetch.origin # Absent,
           NEW so \in Origins \cup {Absent}, ~CommonHeaders(so).vary
    PROVE  \/ /\ so = Absent \/ ~OnList(so)
              /\ ~CorsCheck(CommonHeaders(so))
           \/ CorsCheck(CommonHeaders(so)) <=> Welcome(fetch)
<1> DEFINE h == CommonHeaders(so)
<1>1. /\ fetch.origin \in Origins /\ fetch.credentials \in BOOLEAN
      /\ fetch.origin # Star
      /\ Star # Absent /\ config.allow_credentials \in BOOLEAN
  BY CorsAssumption DEF Fetches, NoFetch, Star, Absent
<1>2. CASE so = Absent
  <2>1. h.allow_origin = Absent
    BY <1>2 DEF CommonHeaders, NoHeaders
  <2> QED BY <1>2, <2>1 DEF CorsCheck
<1>3. CASE so # Absent
  <2>1. /\ AllowOrigin(so) # Absent <=> OnList(so)
        /\ AllowOrigin(so) = Star =>
              /\ ~config.allow_credentials
              /\ Star \in Range(config.allowed_origins)
    BY <1>3, AnswerToOrigin
  <2>2. CASE AllowOrigin(so) = Absent
    <3>1. h.allow_origin = Absent
      BY <2>2 DEF CommonHeaders, NoHeaders
    <3> QED BY <2>1, <2>2, <3>1 DEF CorsCheck
  <2>3. CASE AllowOrigin(so) # Absent
    <3>1. h.vary = (AllowOrigin(so) # Star) /\ h.allow_origin = AllowOrigin(so)
      BY <1>3, <2>3 DEF CommonHeaders, NoHeaders
    <3>2. AllowOrigin(so) = Star /\ h.allow_origin = Star
      BY <3>1
    <3>3. OnList(fetch.origin)
      BY <2>1, <3>2 DEF OnList
    <3> QED BY <1>1, <2>1, <3>2, <3>3 DEF CorsCheck, Welcome
  <2> QED BY <2>2, <2>3
<1> QED BY <1>2, <1>3

\* Of a preflight the browser makes the same of the answer, and it finds the
\* permissions it needs exactly when the configuration gives them.
LEMMA PreflightAnswer ==
    ASSUME config \in CorsConfigs, fetch \in Fetches, fetch.origin # Absent,
           NEW h, h = PreflightHeaders(fetch.origin, fetch.fields)
    PROVE  /\ CorsCheck(h) <=> CorsCheck(CommonHeaders(fetch.origin))
           /\ Permitted(h) <=>
                 /\ fetch.method \in config.allowed_methods \cup {"GET", "POST"}
                 /\ \A granted \in Range(config.allowed_headers) :
                       fetch.fields \subseteq granted
<1> DEFINE g == CommonHeaders(fetch.origin)
           list == config.allowed_headers
<1>1. /\ h.allow_origin = g.allow_origin /\ h.credentials = g.credentials
      /\ h.methods = config.allowed_methods
      /\ h.fields = IF list # <<>> THEN list[1] ELSE fetch.fields
  BY DEF PreflightHeaders, CommonHeaders, NoHeaders
<1>2. CorsCheck(h) <=> CorsCheck(g)
  BY <1>1 DEF CorsCheck
<1>3. list \in Seq(SUBSET FieldNames) /\ Len(list) <= 1
  BY CorsAssumption
<1>4. CASE list = <<>>
  <2>1. Range(list) = {}
    BY <1>4 DEF Range
  <2> QED BY <1>1, <1>2, <1>4, <2>1 DEF Permitted
<1>5. CASE list # <<>>
  <2>1. DOMAIN list = {1}
    BY <1>3, <1>5
  <2>2. Range(list) = {list[1]}
    BY <2>1 DEF Range
  <2> QED BY <1>1, <1>2, <1>5, <2>2 DEF Permitted
<1> QED BY <1>4, <1>5

\* Types of the fetch and of the configuration, which does not change.
CorsTypes ==
    /\ fetch \in Fetches
    /\ step \in {"unconfigured", "idle", "preflight", "actual", "check",
                 "settled"}
    /\ step # "unconfigured" => config \in CorsConfigs

\* The cache holds what the middleware answered to the origin it was made for.
CacheFaithful ==
    \/ stored = Nothing
    \/ /\ step # "unconfigured" /\ ~stored.empty
       /\ stored.origin \in Origins \cup {Absent}
       /\ stored.headers = CommonHeaders(stored.origin)

\* A request that needs a preflight is sent only by a page that is entitled.
PreflightPassed ==
    /\ step = "preflight" =>
          ~routed /\ ~cached /\ fetch.origin # Absent /\ NeedsPreflight(fetch)
    /\ step = "actual" => ~cached
    /\ (step \in {"actual", "check"} /\ NeedsPreflight(fetch)) =>
          fetch.origin # Absent /\ Entitled(fetch)

\* The answer at the browser is the route's own, or the cache's.
AnswerFaithful ==
    step = "check" =>
        IF cached THEN /\ ~stored.empty /\ reply_headers = stored.headers
                       /\ stored.headers.vary => stored.origin = fetch.origin
                  ELSE reply_headers = CommonHeaders(fetch.origin)

\* The inductive invariant.
CorsInv ==
    /\ CorsTypes /\ CacheFaithful /\ PreflightPassed /\ AnswerFaithful
    /\ CorsAgrees

\* A fetch without an Origin header needs no preflight.
LEMMA FetchTypes ==
    ASSUME NEW f \in Fetches
    PROVE  /\ f.origin \in Origins \cup {Absent}
           /\ NeedsPreflight(f) => f.origin # Absent
  BY CorsAssumption DEF Fetches, NoFetch, NeedsPreflight

\* As long as the configuration is the same, the answers are.
LEMMA SameAnswers ==
    ASSUME config' = config
    PROVE  /\ \A o : CommonHeaders(o)' = CommonHeaders(o)
           /\ \A f : Entitled(f)' <=> Entitled(f)
  BY DEF CommonHeaders, AllowOrigin, MatchAllowedOrigin, Entitled, OnList

\* Every step keeps the invariant.
LEMMA CorsStep == CorsInv /\ [CorsNext]_corsVars => CorsInv'
<1> SUFFICES ASSUME CorsInv, [CorsNext]_corsVars PROVE CorsInv'
  OBVIOUS
<1>t. CorsTypes /\ CacheFaithful /\ PreflightPassed /\ AnswerFaithful
  BY DEF CorsInv
<1>1. ASSUME NEW c \in CorsConfigs, ConfigureCors(c) PROVE CorsInv'
  <2>1. /\ step = "unconfigured" /\ step' = "idle" /\ config' = c
        /\ UNCHANGED <<fetch, stored>>
    BY <1>1 DEF ConfigureCors
  <2>2. stored' = Nothing
    BY <1>t, <2>1 DEF CacheFaithful
  <2> QED
    BY <1>t, <2>1, <2>2 DEF CorsInv, CorsTypes, CacheFaithful, PreflightPassed,
       AnswerFaithful, CorsAgrees
<1>2. ASSUME NEW f \in Fetches, Fetch(f) PROVE CorsInv'
  <2>1. /\ step \in {"idle", "settled"} /\ fetch' = f
        /\ step' = (IF NeedsPreflight(f) THEN "preflight" ELSE "actual")
        /\ cached' = FALSE /\ routed' = FALSE
        /\ UNCHANGED <<config, stored>>
    BY <1>2 DEF Fetch
  <2>2. CacheFaithful'
    BY <1>t, <2>1, SameAnswers DEF CacheFaithful
  <2>3. CorsTypes'
    BY <1>t, <2>1 DEF CorsTypes
  <2>4. PreflightPassed'
    BY <2>1, FetchTypes DEF PreflightPassed
  <2> QED
    BY <2>1, <2>2, <2>3, <2>4 DEF CorsInv, AnswerFaithful, CorsAgrees
<1>3. CASE Preflight
  <2> DEFINE h == PreflightHeaders(fetch.origin, fetch.fields)
  <2>1. /\ step = "preflight" /\ UNCHANGED <<config, fetch, stored, cached>>
        /\ config \in CorsConfigs /\ fetch \in Fetches
        /\ ~routed /\ ~cached /\ fetch.origin # Absent
        /\ NeedsPreflight(fetch) /\ fetch.origin \in Origins
    BY <1>3, <1>t, FetchTypes DEF Preflight, CorsTypes, PreflightPassed
  <2>2. CacheFaithful'
    <3>1. step' # "unconfigured"
      BY <1>3 DEF Preflight
    <3> QED BY <1>t, <2>1, <3>1, SameAnswers DEF CacheFaithful
  <2>3. CASE AllowOrigin(fetch.origin) = Absent
    <3>1. reply_headers' = NoHeaders
      BY <1>3, <2>3 DEF Preflight
    <3>2. ~CorsCheck(reply_headers')
      BY <3>1 DEF CorsCheck, NoHeaders
    <3>3. step' = "settled" /\ outcome' = "blocked"
      BY <1>3, <3>2 DEF Preflight
    <3>4. ~OnList(fetch.origin)
      BY <2>1, <2>3, AnswerToOrigin
    <3>5. ~Entitled(fetch)' /\ ~OnList(fetch.origin)'
      BY <2>1, <3>4 DEF Entitled, OnList
    <3> QED
      BY <2>1, <2>2, <3>3, <3>5 DEF CorsInv, CorsTypes, PreflightPassed,
         AnswerFaithful, CorsAgrees
  <2>4. CASE AllowOrigin(fetch.origin) # Absent
    <3>1. reply_headers' = h /\ routed' = routed
      BY <1>3, <2>4 DEF Preflight
    <3>2. /\ CorsCheck(h) <=> Welcome(fetch)
          /\ Permitted(h) <=>
                /\ fetch.method \in config.allowed_methods \cup {"GET", "POST"}
                /\ \A granted \in Range(config.allowed_headers) :
                      fetch.fields \subseteq granted
      BY <2>1, PreflightAnswer, OwnAnswer
    <3>3. CASE CorsCheck(h) /\ Permitted(h)
      <4>1. step' = "actual"
        BY <1>3, <3>1, <3>3 DEF Preflight
      <4>2. Entitled(fetch)
        BY <3>2, <3>3 DEF Entitled, Welcome
      <4>3. Entitled(fetch)' /\ fetch'.origin # Absent
        BY <2>1, <4>2 DEF Entitled, OnList
      <4> QED
        BY <2>1, <2>2, <4>1, <4>3 DEF CorsInv, CorsTypes, PreflightPassed,
           AnswerFaithful, CorsAgrees
    <3>4. CASE ~(CorsCheck(h) /\ Permitted(h))
      <4>1. step' = "settled" /\ outcome' = "blocked"
        BY <1>3, <3>1, <3>4 DEF Preflight
      <4>2. ~Entitled(fetch)
        BY <2>1, <3>2, <3>4 DEF Entitled, Welcome
      <4>3. ~Entitled(fetch)' /\ ~routed'
        BY <2>1, <3>1, <4>2 DEF Entitled, OnList
      <4> QED
        BY <2>1, <2>2, <4>1, <4>3 DEF CorsInv, CorsTypes, PreflightPassed,
           AnswerFaithful, CorsAgrees
    <3> QED BY <3>3, <3>4
  <2> QED BY <2>3, <2>4
<1>4. CASE Actual
  <2>1. /\ step = "actual" /\ step' = "check"
        /\ reply_headers' = CommonHeaders(fetch.origin)
        /\ UNCHANGED <<config, fetch, cached>>
    BY <1>4 DEF Actual
  <2>2. CacheFaithful'
    <3>1. CASE UNCHANGED stored
      BY <1>t, <2>1, <3>1, SameAnswers DEF CacheFaithful
    <3>2. CASE stored' = [origin |-> fetch.origin, headers |-> reply_headers',
                          empty |-> FALSE]
      <4>1. /\ stored'.origin = fetch.origin /\ ~stored'.empty
            /\ stored'.headers = CommonHeaders(fetch.origin)
        BY <2>1, <3>2
      <4>2. fetch.origin \in Origins \cup {Absent}
        BY <1>t, FetchTypes DEF CorsTypes
      <4>3. CommonHeaders(stored.origin)' = CommonHeaders(fetch.origin)
        BY <2>1, <4>1 DEF CommonHeaders, AllowOrigin, MatchAllowedOrigin
      <4> QED BY <2>1, <4>1, <4>2, <4>3 DEF CacheFaithful
    <3> QED BY <1>4, <3>1, <3>2 DEF Actual
  <2>3. PreflightPassed'
    BY <1>t, <2>1, SameAnswers DEF PreflightPassed
  <2>4. AnswerFaithful'
    BY <1>t, <2>1 DEF PreflightPassed, AnswerFaithful, CommonHeaders,
       AllowOrigin, MatchAllowedOrigin
  <2> QED
    BY <1>t, <2>1, <2>2, <2>3, <2>4 DEF CorsInv, CorsTypes, CorsAgrees
<1>5. CASE FromCache
  <2>1. /\ step = "actual" /\ step' = "check" /\ cached' /\ ~stored.empty
        /\ stored.headers.vary => stored.origin = fetch.origin
        /\ reply_headers' = stored.headers
        /\ UNCHANGED <<config, fetch, stored>>
    BY <1>5 DEF FromCache
  <2>2. CacheFaithful'
    BY <1>t, <2>1, SameAnswers DEF CacheFaithful
  <2>3. PreflightPassed'
    BY <1>t, <2>1, SameAnswers DEF PreflightPassed
  <2>4. AnswerFaithful'
    BY <2>1 DEF AnswerFaithful
  <2> QED
    BY <1>t, <2>1, <2>2, <2>3, <2>4 DEF CorsInv, CorsTypes, CorsAgrees
<1>6. CASE Check
  <2>1. /\ step = "check" /\ step' = "settled"
        /\ UNCHANGED <<config, fetch, reply_headers, stored, cached, routed>>
        /\ outcome' = IF fetch.origin = Absent \/ CorsCheck(reply_headers)
                      THEN "read" ELSE "blocked"
    BY <1>6 DEF Check
  <2>2. CacheFaithful'
    BY <1>t, <2>1, SameAnswers DEF CacheFaithful
  <2>3. CorsAgrees'
    <3> SUFFICES ASSUME fetch.origin # Absent PROVE CorsAgrees'
      BY <2>1 DEF CorsAgrees
    <3>1. config \in CorsConfigs /\ fetch \in Fetches
      BY <1>t, <2>1 DEF CorsTypes
    <3>2. Entitled(fetch) <=> Welcome(fetch)
      BY <1>t, <2>1 DEF PreflightPassed, Entitled, Welcome
    <3>3. NeedsPreflight(fetch) => Entitled(fetch)
      BY <1>t, <2>1 DEF PreflightPassed
    <3>4. /\ Entitled(fetch)' <=> Entitled(fetch)
          /\ OnList(stored.origin)' <=> OnList(stored.origin)
      BY <2>1 DEF Entitled, OnList
    <3>5. \/ CorsCheck(reply_headers) <=> Welcome(fetch)
          \/ /\ cached /\ (stored.origin = Absent \/ ~OnList(stored.origin))
             /\ ~CorsCheck(reply_headers)
      <4>1. CASE ~cached
        BY <1>t, <2>1, <3>1, <4>1, OwnAnswer DEF AnswerFaithful
      <4>2. CASE cached
        <5>1. /\ ~stored.empty /\ reply_headers = stored.headers
              /\ stored.headers.vary => stored.origin = fetch.origin
          BY <1>t, <2>1, <4>2 DEF AnswerFaithful
        <5>2. /\ stored.origin \in Origins \cup {Absent}
              /\ stored.headers = CommonHeaders(stored.origin)
          BY <1>t, <5>1 DEF CacheFaithful, Nothing
        <5>3. CASE stored.headers.vary
          BY <3>1, <5>1, <5>2, <5>3, OwnAnswer
        <5>4. CASE ~stored.headers.vary
          BY <3>1, <4>2, <5>1, <5>2, <5>4, OthersAnswer
        <5> QED BY <5>3, <5>4
      <4> QED BY <4>1, <4>2
    <3>6. \/ outcome' = "read" /\ Entitled(fetch)
          \/ outcome' = "blocked" /\ ~Entitled(fetch)
          \/ /\ outcome' = "blocked" /\ cached
             /\ stored.origin = Absent \/ ~OnList(stored.origin)
      BY <2>1, <3>2, <3>5
    <3>7. "read" # "blocked"
      OBVIOUS
    <3> QED BY <2>1, <3>3, <3>4, <3>6, <3>7 DEF CorsAgrees
  <2> QED
    BY <1>t, <2>1, <2>2, <2>3 DEF CorsInv, CorsTypes, PreflightPassed,
       AnswerFaithful
<1>7. CASE UNCHANGED corsVars
  <2>1. UNCHANGED <<config, step, fetch, reply_headers, stored, cached, routed,
                    outcome>>
    BY <1>7 DEF corsVars
  <2>2. CacheFaithful' /\ PreflightPassed' /\ AnswerFaithful'
    BY <1>t, <2>1, SameAnswers DEF CacheFaithful, PreflightPassed, AnswerFaithful
  <2>3. CorsAgrees'
    BY <2>1 DEF CorsInv, CorsAgrees, Entitled, OnList
  <2> QED BY <1>t, <2>1, <2>2, <2>3 DEF CorsInv, CorsTypes
<1> QED
  BY <1>1, <1>2, <1>3, <1>4, <1>5, <1>6, <1>7 DEF CorsNext

\* For every list of origins, in any order, and every configuration: a page can
\* read an answer exactly when it is entitled to, but for the cached answers to
\* others that carry no Vary, and without a preflight that passes its request
\* does not reach a route.
THEOREM CorsIsExact == CorsSpec => []CorsAgrees
<1>1. CorsInit => CorsInv
  <2> SUFFICES ASSUME CorsInit PROVE CorsInv
    OBVIOUS
  <2>1. step = "unconfigured" /\ stored = Nothing /\ fetch \in Fetches
    BY DEF CorsInit, Fetches
  <2> QED
    BY <2>1 DEF CorsInv, CorsTypes, CacheFaithful, PreflightPassed,
       AnswerFaithful, CorsAgrees
<1>2. CorsInv => CorsAgrees
  BY DEF CorsInv
<1> QED BY <1>1, <1>2, CorsStep, PTL DEF CorsSpec

-----------------------------------------------------------------------------
(* Templates                                                               *)

\* Induction, stated for a set of numbers.
LEMMA NatSetInduction ==
    ASSUME NEW S, 0 \in S, \A n \in Nat : n \in S => n + 1 \in S
    PROVE  Nat \subseteq S
<1> DEFINE T == Nat \ S
<1> SUFFICES ASSUME T # {} PROVE FALSE
  OBVIOUS
<1>1. T \in SUBSET Nat
  OBVIOUS
<1>2. Min(T) \in T /\ \A n \in T : Min(T) <= n
  BY <1>1, LeastOne
<1> DEFINE x == Min(T)
<1> HIDE DEF x
<1>3. x \in Nat /\ x # 0 /\ x \notin S /\ \A n \in T : x <= n
  BY <1>2 DEF x
<1>4. x - 1 \in Nat /\ ~(x <= x - 1) /\ (x - 1) + 1 = x
  BY <1>3
<1>5. x - 1 \in S
  BY <1>3, <1>4
<1> QED BY <1>3, <1>4, <1>5

\* f joins the first 1, 2, ... of the sequences in s.
Flattens(s, f) ==
    f = [i \in 1 .. Len(s) |-> IF i = 1 THEN s[i] ELSE f[i - 1] \o s[i]]

\* There is such an f for every s.
LEMMA FlattensExist == ASSUME NEW T
                       PROVE  \A s \in Seq(Seq(T)) : \E f : Flattens(s, f)
<1> DEFINE S == {n \in Nat : \A s \in Seq(Seq(T)) :
                     Len(s) = n => \E f : Flattens(s, f)}
<1>1. 0 \in S
  <2> SUFFICES ASSUME NEW s \in Seq(Seq(T)), Len(s) = 0
               PROVE  \E f : Flattens(s, f)
    OBVIOUS
  <2> DEFINE f == [i \in 1 .. 0 |-> s]
  <2>1. f = [i \in 1 .. 0 |-> IF i = 1 THEN s[i] ELSE f[i - 1] \o s[i]]
    OBVIOUS
  <2> HIDE DEF f
  <2> QED BY <2>1 DEF Flattens
<1>2. ASSUME NEW n \in Nat, n \in S PROVE n + 1 \in S
  <2> SUFFICES ASSUME NEW s \in Seq(Seq(T)), Len(s) = n + 1
               PROVE  \E f : Flattens(s, f)
    OBVIOUS
  <2> DEFINE p == SubSeq(s, 1, n)
  <2>1. p \in Seq(Seq(T)) /\ Len(p) = n /\ \A i \in 1 .. n : p[i] = s[i]
    OBVIOUS
  <2>2. PICK g : Flattens(p, g)
    BY <1>2, <2>1
  <2> HIDE DEF p
  <2>3. \A i \in 1 .. n : g[i] = IF i = 1 THEN s[i] ELSE g[i - 1] \o s[i]
    BY <2>1, <2>2 DEF Flattens
  <2> DEFINE f == [i \in 1 .. (n + 1) |->
                      IF i = n + 1 /\ i # 1 THEN g[n] \o s[n + 1]
                      ELSE IF i = n + 1 THEN s[1] ELSE g[i]]
             h == [i \in 1 .. (n + 1) |->
                      IF i = 1 THEN s[i] ELSE f[i - 1] \o s[i]]
  <2>4. ASSUME NEW i \in 1 .. (n + 1) PROVE f[i] = h[i]
    <3>1. CASE i = 1
      <4>1. h[i] = s[1]
        BY <3>1
      <4>2. CASE n = 0
        BY <3>1, <4>1, <4>2
      <4>3. CASE n # 0
        <5>1. 1 \in 1 .. n /\ 1 # n + 1
          BY <4>3
        <5>2. f[i] = g[1] /\ g[1] = s[1]
          BY <2>3, <3>1, <5>1
        <5> QED BY <4>1, <5>2
      <4> QED BY <4>2, <4>3
    <3>2. CASE i # 1 /\ i # n + 1
      <4>1. i - 1 \in 1 .. n /\ i \in 1 .. n /\ i - 1 # n + 1
            /\ i - 1 \in 1 .. (n + 1)
        BY <3>2
      <4>2. f[i - 1] = g[i - 1] /\ f[i] = g[i]
        BY <3>2, <4>1
      <4> QED BY <2>3, <3>2, <4>1, <4>2
    <3>3. CASE i # 1 /\ i = n + 1
      <4>1. i - 1 = n /\ n # n + 1 /\ n \in 1 .. (n + 1)
        BY <3>3
      <4>2. f[n] = g[n] /\ f[i] = g[n] \o s[n + 1]
        BY <3>3, <4>1
      <4> QED BY <3>3, <4>1, <4>2
    <3> QED BY <3>1, <3>2, <3>3
  <2>5. f = h
    BY <2>4
  <2> HIDE DEF f
  <2> QED BY <2>5 DEF Flattens
<1> HIDE DEF S
<1>3. Nat \subseteq S
  BY <1>1, <1>2, NatSetInduction
<1> SUFFICES ASSUME NEW s \in Seq(Seq(T)) PROVE \E f : Flattens(s, f)
  OBVIOUS
<1>4. Len(s) \in S
  BY <1>3
<1> QED BY <1>4 DEF S

\* A sequence of sequences joins to a sequence.
LEMMA FlattenType == ASSUME NEW T, NEW s \in Seq(Seq(T))
                     PROVE  FlattenSeq(s) \in Seq(T)
<1>n. Len(s) \in Nat /\ \A i \in 1 .. Len(s) : s[i] \in Seq(T)
  OBVIOUS
<1>0. CASE Len(s) = 0
  BY <1>0 DEF FlattenSeq
<1>1. CASE Len(s) # 0
  <2> DEFINE e(f) == [i \in 1 .. Len(s) |->
                         IF i = 1 THEN s[i] ELSE f[i - 1] \o s[i]]
             g == CHOOSE f : f = e(f)
  <2>1. FlattenSeq(s) = g[Len(s)]
    BY <1>1 DEF FlattenSeq
  <2>2. PICK f : f = e(f)
    BY FlattensExist DEF Flattens
  <2>3. g = e(g)
    BY <2>2
  <2> HIDE DEF g
  <2>4. \A i \in 1 .. Len(s) : g[i] = IF i = 1 THEN s[i] ELSE g[i - 1] \o s[i]
    BY <2>3
  <2> DEFINE S == {n \in Nat : n + 1 <= Len(s) => g[n + 1] \in Seq(T)}
  <2>5. 0 \in S
    BY <1>n, <2>4
  <2>6. ASSUME NEW n \in Nat, n \in S PROVE n + 1 \in S
    <3> SUFFICES ASSUME (n + 1) + 1 <= Len(s) PROVE g[(n + 1) + 1] \in Seq(T)
      OBVIOUS
    <3> DEFINE k == (n + 1) + 1
    <3>1. k \in 1 .. Len(s) /\ k # 1 /\ k - 1 = n + 1 /\ n + 1 <= Len(s)
      BY <1>n
    <3>2. g[n + 1] \in Seq(T) /\ s[k] \in Seq(T)
      BY <1>n, <2>6, <3>1
    <3> HIDE DEF k
    <3>3. g[k] = g[n + 1] \o s[k]
      BY <2>4, <3>1
    <3>4. g[n + 1] \o s[k] \in Seq(T)
      BY <3>2, ConcatProperties
    <3> QED BY <3>3, <3>4 DEF k
  <2> HIDE DEF S
  <2>7. Nat \subseteq S
    BY <2>5, <2>6, NatSetInduction
  <2>8. Len(s) - 1 \in S /\ (Len(s) - 1) + 1 = Len(s) /\ Len(s) <= Len(s)
    BY <1>n, <1>1, <2>7
  <2>9. g[Len(s)] \in Seq(T)
    BY <2>8 DEF S
  <2> QED BY <2>1, <2>9
<1> QED BY <1>0, <1>1

\* What a rendered text is made of.
Tokens == ((UNION {Range(text) : text \in TemplateTexts}) \cup Values)
          \ {NUL, Junk}

\* The call sets every variable of its template.
SetsAll(t) == \A i \in DOMAIN tmpl[t] :
                  tmpl[t][i] \in Vars => tmpl[t][i] \in DOMAIN args[t]

\* The text of the call's own values.
Own(t) == Expand(tmpl[t], args[t])

\* A template becomes a sequence of tokens, whatever the variables are.
LEMMA ExpandType ==
    ASSUME NEW text \in TemplateTexts, NEW ctx,
           \A i \in DOMAIN text : text[i] \in Vars => ctx[text[i]] \in Values \cup {Unset}
    PROVE  Expand(text, ctx) \in Seq(Tokens)
<1> DEFINE s == [i \in DOMAIN text |->
                    IF text[i] \notin Vars THEN <<text[i]>>
                    ELSE IF ctx[text[i]] = Unset THEN <<>>
                    ELSE <<ctx[text[i]]>>]
<1>1. /\ text \in Seq(Range(text)) /\ {NUL, Junk} \cap Range(text) = {}
      /\ {NUL, Junk} \cap Values = {}
  BY TemplatesAssumption
<1>2. ASSUME NEW i \in DOMAIN text PROVE s[i] \in Seq(Tokens)
  <2>1. text[i] \in Tokens
    BY <1>1 DEF Tokens, Range
  <2>2. CASE text[i] \notin Vars
    BY <2>1, <2>2
  <2>3. CASE text[i] \in Vars /\ ctx[text[i]] = Unset
    BY <2>3
  <2>4. CASE text[i] \in Vars /\ ctx[text[i]] # Unset
    <3>1. ctx[text[i]] \in Values
      BY <2>4
    <3>2. ctx[text[i]] \in Tokens
      BY <1>1, <3>1 DEF Tokens
    <3> QED BY <2>4, <3>2
  <2> QED BY <2>2, <2>3, <2>4
<1>3. DOMAIN text = 1 .. Len(text) /\ Len(text) \in Nat
  BY <1>1, LenProperties
<1>4. s \in [1 .. Len(text) -> Seq(Tokens)]
  BY <1>2, <1>3
<1>5. s \in Seq(Seq(Tokens))
  <2> HIDE DEF s
  <2> QED BY <1>3, <1>4, SeqDef
<1>6. Expand(text, ctx) = FlattenSeq(s)
  BY DEF Expand
<1> HIDE DEF s
<1> QED BY <1>5, <1>6, FlattenType

\* Only the variables of the template matter.
LEMMA ExpandSame ==
    ASSUME NEW text, NEW ctx, NEW own,
           \A i \in DOMAIN text : text[i] \in Vars => ctx[text[i]] = own[text[i]]
    PROVE  Expand(text, ctx) = Expand(text, own)
<1> DEFINE s(c) == [i \in DOMAIN text |->
                       IF text[i] \notin Vars THEN <<text[i]>>
                       ELSE IF c[text[i]] = Unset THEN <<>>
                       ELSE <<c[text[i]]>>]
<1>1. s(ctx) = s(own)
  OBVIOUS
<1>2. Expand(text, ctx) = FlattenSeq(s(ctx)) /\ Expand(text, own) = FlattenSeq(s(own))
  BY DEF Expand
<1> QED BY <1>1, <1>2

\* The larger of two numbers.
LEMMA LargerOne == ASSUME NEW a \in Nat, NEW b \in Nat
                   PROVE  Max({a, b}) = IF a >= b THEN a ELSE b
<1> DEFINE m == IF a >= b THEN a ELSE b
<1>1. m \in {a, b} /\ \A y \in {a, b} : m >= y
  OBVIOUS
<1>2. \A x \in {a, b} : (\A y \in {a, b} : x >= y) => x = m
  OBVIOUS
<1>3. Max({a, b}) = CHOOSE x \in {a, b} : \A y \in {a, b} : x >= y
  BY DEF Max
<1> QED BY <1>1, <1>2, <1>3

\* Types of a rendering and of its stream.
RenderTypes ==
    /\ template_ctx \in [Vars -> Values \cup {Unset}]
    /\ rpc \in [RenderThreads -> {"idle", "lock", "open", "render", "flush"}]
    /\ tmpl \in [RenderThreads -> TemplateTexts \cup {<<>>}]
    /\ args \in [RenderThreads -> ArgLists \cup {<<>>}]
    /\ \A t \in RenderThreads : rpc[t] # "idle" =>
          tmpl[t] \in TemplateTexts /\ args[t] \in ArgLists
    /\ stdio \in [RenderThreads -> Seq(Tokens)]
    /\ data \in [RenderThreads -> Seq(Tokens \cup {NUL, Junk})]
    /\ size \in [RenderThreads -> Nat] /\ pos \in [RenderThreads -> Nat]
    /\ capacity \in [RenderThreads -> Nat]
    /\ output \in [RenderThreads -> Seq(Tokens \cup {NUL, Junk})]
    /\ ret \in [RenderThreads -> {0, 1}]
    /\ truncated \in [RenderThreads -> BOOLEAN]

\* Only the holder of the mutex is between its variables and its rendering, and
\* the context has its values.
Exclusive ==
    \A t \in RenderThreads : rpc[t] \in {"open", "render"} =>
        /\ template_mutex = t
        /\ \A v \in DOMAIN args[t] : template_ctx[v] = args[t][v]

\* The buffer is clear until the text is copied into it.
Clear(t) == rpc[t] # "idle" => \A i \in DOMAIN output[t] : output[t][i] = NUL

\* The stream's memory is sound, and its text ends where the next write goes.
Memory(t) ==
    rpc[t] \in {"render", "flush"} =>
        /\ pos[t] = size[t] /\ size[t] < capacity[t]
        /\ Len(data[t]) = capacity[t]
        /\ data[t][size[t] + 1] = NUL
        /\ \A i \in 1 .. size[t] : data[t][i] \notin {NUL, Junk}
        /\ rpc[t] = "render" => size[t] = 0

\* The text is the call's own: the part in the stream, then the part to come.
Text(t) ==
    (rpc[t] = "flush" /\ ~truncated[t] /\ SetsAll(t)) =>
        /\ Len(Own(t)) = size[t] + Len(stdio[t])
        /\ \A i \in 1 .. size[t] : data[t][i] = Own(t)[i]
        /\ \A i \in 1 .. Len(stdio[t]) : Own(t)[size[t] + i] = stdio[t][i]

\* What RenderExact says of one thread.
Exact(t) ==
    (rpc[t] = "idle" /\ ret[t] = 0 /\ tmpl[t] # <<>> /\ ~truncated[t]
     /\ SetsAll(t))
    => (Len(output[t]) > Len(Own(t)) => AsString(output[t]) = Own(t))

Rendering(t) == Clear(t) /\ Memory(t) /\ Text(t) /\ Exact(t)

\* The inductive invariant.
RenderInv ==
    RenderTypes /\ Exclusive /\ \A t \in RenderThreads : Rendering(t)

\* The rendering of another thread stays as it is.
LEMMA OtherRendering ==
    ASSUME RenderInv, NEW u \in RenderThreads,
           rpc'[u] = rpc[u], tmpl'[u] = tmpl[u], args'[u] = args[u],
           stdio'[u] = stdio[u], data'[u] = data[u], size'[u] = size[u],
           capacity'[u] = capacity[u], pos'[u] = pos[u],
           output'[u] = output[u], ret'[u] = ret[u],
           truncated'[u] = truncated[u]
    PROVE  Rendering(u)'
<1>1. Rendering(u)
  BY DEF RenderInv
<1>2. (SetsAll(u)' <=> SetsAll(u)) /\ Own(u)' = Own(u)
  BY DEF SetsAll, Own
<1>3. Clear(u)'
  BY <1>1 DEF Rendering, Clear
<1>4. Memory(u)'
  BY <1>1 DEF Rendering, Memory
<1>5. Text(u)'
  BY <1>1, <1>2 DEF Rendering, Text
<1>6. Exact(u)'
  BY <1>1, <1>2 DEF Rendering, Exact
<1> QED BY <1>3, <1>4, <1>5, <1>6 DEF Rendering

\* Nobody else is between its variables and its rendering.
LEMMA OthersWait ==
    ASSUME RenderInv, NEW u \in RenderThreads, template_mutex # u
    PROVE  rpc[u] \notin {"open", "render"}
  BY DEF RenderInv, Exclusive

\* A call is made, and sets its variables.
LEMMA RenderBegins ==
    ASSUME RenderInv, NEW t \in RenderThreads,
           \/ \E text \in TemplateTexts, a \in ArgLists, n \in OutputSizes :
                 RenderCall(t, text, a, n)
           \/ SetVars(t) \/ OpenStream(t)
    PROVE  RenderInv'
<1>t. RenderTypes /\ Exclusive
  BY DEF RenderInv
<1>m. Nobody \notin RenderThreads
  BY TemplatesAssumption
<1>1. ASSUME NEW text \in TemplateTexts, NEW a \in ArgLists,
             NEW n \in OutputSizes, RenderCall(t, text, a, n)
      PROVE  RenderInv'
  <2>1. n \in Nat
    BY TemplatesAssumption
  <2>2. [i \in 1 .. n |-> NUL] \in Seq(Tokens \cup {NUL, Junk})
    BY <2>1
  <2>3. RenderTypes'
    <3>1. output' \in [RenderThreads -> Seq(Tokens \cup {NUL, Junk})]
      BY <1>1, <1>t, <2>2 DEF RenderCall, RenderTypes
    <3>2. /\ rpc' \in [RenderThreads -> {"idle", "lock", "open", "render", "flush"}]
          /\ tmpl' \in [RenderThreads -> TemplateTexts \cup {<<>>}]
          /\ args' \in [RenderThreads -> ArgLists \cup {<<>>}]
          /\ truncated' \in [RenderThreads -> BOOLEAN]
          /\ \A u \in RenderThreads : rpc'[u] # "idle" =>
                tmpl'[u] \in TemplateTexts /\ args'[u] \in ArgLists
      BY <1>1, <1>t DEF RenderCall, At, RenderTypes
    <3> QED BY <1>1, <1>t, <3>1, <3>2 DEF RenderCall, ctxVars, memVars, RenderTypes
  <2>4. Exclusive'
    BY <1>1, <1>t DEF RenderCall, At, ctxVars, RenderTypes, Exclusive
  <2>5. ASSUME NEW u \in RenderThreads, u # t PROVE Rendering(u)'
    BY <1>1, <1>t, <2>5, OtherRendering DEF RenderCall, At, memVars, RenderTypes
  <2>6. Rendering(t)'
    <3>1. rpc'[t] = "lock" /\ output'[t] = [i \in 1 .. n |-> NUL]
      BY <1>1, <1>t DEF RenderCall, At, RenderTypes
    <3> QED BY <3>1 DEF Rendering, Clear, Memory, Text, Exact
  <2> QED BY <2>3, <2>4, <2>5, <2>6 DEF RenderInv
<1>2. CASE SetVars(t)
  <2>1. /\ rpc[t] = "lock" /\ rpc' = [rpc EXCEPT ![t] = "open"]
        /\ template_mutex = Nobody /\ template_mutex' = t
        /\ template_ctx' = [v \in Vars |-> IF v \in DOMAIN args[t]
                                           THEN args[t][v] ELSE template_ctx[v]]
        /\ UNCHANGED <<tmpl, args, stdio, data, size, capacity, pos, output,
                       ret, truncated>>
    BY <1>2 DEF SetVars, At, callVars, memVars
  <2>2. args[t] \in ArgLists
    BY <1>t, <2>1 DEF RenderTypes
  <2>3. /\ DOMAIN args[t] \subseteq Vars
        /\ \A v \in DOMAIN args[t] : args[t][v] \in Values
    BY <2>2, TemplatesAssumption DEF Range
  <2>4. template_ctx' \in [Vars -> Values \cup {Unset}]
    BY <1>t, <2>1, <2>3 DEF RenderTypes
  <2>5. RenderTypes'
    BY <1>t, <2>1, <2>4 DEF RenderTypes
  <2>6. \A u \in RenderThreads : rpc[u] \notin {"open", "render"}
    BY <1>m, <2>1, OthersWait
  <2>7. rpc'[t] = "open" /\ \A u \in RenderThreads : u # t => rpc'[u] = rpc[u]
    BY <1>t, <2>1 DEF RenderTypes
  <2>8. Exclusive'
    BY <2>1, <2>3, <2>6, <2>7 DEF Exclusive
  <2>9. ASSUME NEW u \in RenderThreads, u # t PROVE Rendering(u)'
    BY <2>1, <2>7, <2>9, OtherRendering
  <2>10. Rendering(t)'
    <3>1. Clear(t)
      BY DEF RenderInv, Rendering
    <3> QED BY <2>1, <2>7, <3>1 DEF Rendering, Clear, Memory, Text, Exact
  <2> QED BY <2>5, <2>8, <2>9, <2>10 DEF RenderInv
<1>3. CASE OpenStream(t)
  <2> DEFINE d == [i \in 1 .. STREAM_CAP |-> IF i = 1 THEN NUL ELSE Junk]
  <2>1. /\ rpc[t] = "open" /\ rpc' = [rpc EXCEPT ![t] = "render"]
        /\ data' = [data EXCEPT ![t] = d]
        /\ size' = [size EXCEPT ![t] = 0] /\ pos' = [pos EXCEPT ![t] = 0]
        /\ capacity' = [capacity EXCEPT ![t] = STREAM_CAP]
        /\ UNCHANGED <<template_ctx, template_mutex, tmpl, args, stdio, output,
                       ret, truncated>>
    BY <1>3 DEF OpenStream, At, callVars, ctxVars
  <2>2. STREAM_CAP \in Nat \ {0}
    BY TemplatesAssumption
  <2>3. d \in Seq(Tokens \cup {NUL, Junk}) /\ Len(d) = STREAM_CAP /\ d[1] = NUL
    BY <2>2
  <2> HIDE DEF d
  <2>4. RenderTypes'
    BY <1>t, <2>1, <2>2, <2>3 DEF RenderTypes
  <2>5. /\ rpc'[t] = "render" /\ data'[t] = d /\ size'[t] = 0 /\ pos'[t] = 0
        /\ capacity'[t] = STREAM_CAP
        /\ \A u \in RenderThreads : u # t =>
              /\ rpc'[u] = rpc[u] /\ data'[u] = data[u] /\ size'[u] = size[u]
              /\ pos'[u] = pos[u] /\ capacity'[u] = capacity[u]
    BY <1>t, <2>1 DEF RenderTypes
  <2>6. Exclusive'
    BY <1>t, <2>1, <2>5 DEF Exclusive
  <2>7. ASSUME NEW u \in RenderThreads, u # t PROVE Rendering(u)'
    BY <2>1, <2>5, <2>7, OtherRendering
  <2>8. Rendering(t)'
    <3>1. Clear(t)
      BY DEF RenderInv, Rendering
    <3>2. Clear(t)' /\ Text(t)' /\ Exact(t)'
      BY <2>1, <2>5, <3>1 DEF Clear, Text, Exact
    <3>3. Memory(t)'
      BY <2>2, <2>3, <2>5 DEF Memory
    <3> QED BY <3>2, <3>3 DEF Rendering
  <2> QED BY <2>4, <2>6, <2>7, <2>8 DEF RenderInv
<1> QED BY <1>1, <1>2, <1>3

\* The engine renders, or one of the calls it needs fails.
LEMMA RenderEngine ==
    ASSUME RenderInv, NEW t \in RenderThreads,
           OpenStreamFails(t) \/ Render(t) \/ RenderFails(t)
    PROVE  RenderInv'
<1>t. RenderTypes /\ Exclusive /\ Rendering(t)
  BY DEF RenderInv
<1>m. \A u \in RenderThreads : u # t => rpc[u] \notin {"open", "render"}
  <2>1. rpc[t] \in {"open", "render"}
    BY DEF OpenStreamFails, Render, RenderFails, At
  <2>2. template_mutex = t
    BY <1>t, <2>1 DEF Exclusive
  <2> QED BY <2>2, OthersWait
<1>1. CASE OpenStreamFails(t) \/ RenderFails(t)
  <2>1. /\ rpc' = [rpc EXCEPT ![t] = "idle"] /\ ret' = [ret EXCEPT ![t] = 1]
        /\ UNCHANGED <<template_ctx, tmpl, args, stdio, data, size, capacity,
                       pos, output, truncated>>
    BY <1>1 DEF OpenStreamFails, RenderFails, At, Fails, callVars, memVars
  <2>2. RenderTypes'
    BY <1>t, <2>1 DEF RenderTypes
  <2>3. /\ rpc'[t] = "idle" /\ ret'[t] = 1
        /\ \A u \in RenderThreads : u # t => rpc'[u] = rpc[u] /\ ret'[u] = ret[u]
    BY <1>t, <2>1 DEF RenderTypes
  <2>4. Exclusive'
    BY <1>m, <2>3 DEF Exclusive
  <2>5. ASSUME NEW u \in RenderThreads, u # t PROVE Rendering(u)'
    BY <2>1, <2>3, <2>5, OtherRendering
  <2>6. Rendering(t)'
    BY <2>3 DEF Rendering, Clear, Memory, Text, Exact
  <2> QED BY <2>2, <2>4, <2>5, <2>6 DEF RenderInv
<1>2. CASE Render(t)
  <2> DEFINE text == Expand(tmpl[t], template_ctx)
  <2>1. /\ rpc[t] = "render" /\ rpc' = [rpc EXCEPT ![t] = "flush"]
        /\ stdio' = [stdio EXCEPT ![t] = text]
        /\ UNCHANGED <<template_ctx, tmpl, args, data, size, capacity, pos,
                       output, ret, truncated>>
    BY <1>2 DEF Render, At, callVars, memVars
  <2>2. tmpl[t] \in TemplateTexts /\ args[t] \in ArgLists
    BY <1>t, <2>1 DEF RenderTypes
  <2>3. text \in Seq(Tokens)
    <3>1. \A v \in Vars : template_ctx[v] \in Values \cup {Unset}
      BY <1>t DEF RenderTypes
    <3> QED BY <2>2, <3>1, ExpandType
  <2>4. SetsAll(t) => text = Own(t)
    <3>1. \A v \in DOMAIN args[t] : template_ctx[v] = args[t][v]
      BY <1>t, <2>1 DEF Exclusive
    <3>2. ASSUME SetsAll(t)
          PROVE  \A i \in DOMAIN tmpl[t] : tmpl[t][i] \in Vars =>
                     template_ctx[tmpl[t][i]] = args[t][tmpl[t][i]]
      BY <3>1, <3>2 DEF SetsAll
    <3>3. ASSUME SetsAll(t) PROVE text = Expand(tmpl[t], args[t])
      BY <3>2, <3>3, ExpandSame
    <3> QED BY <3>3 DEF Own
  <2> HIDE DEF text
  <2>5. RenderTypes'
    BY <1>t, <2>1, <2>3 DEF RenderTypes
  <2>6. /\ rpc'[t] = "flush" /\ stdio'[t] = text
        /\ \A u \in RenderThreads : u # t =>
              rpc'[u] = rpc[u] /\ stdio'[u] = stdio[u]
    BY <1>t, <2>1 DEF RenderTypes
  <2>7. Exclusive'
    BY <1>m, <2>6 DEF Exclusive
  <2>8. ASSUME NEW u \in RenderThreads, u # t PROVE Rendering(u)'
    BY <2>1, <2>6, <2>8, OtherRendering
  <2>9. Clear(t)' /\ Exact(t)'
    BY <1>t, <2>1, <2>6 DEF Rendering, Clear, Exact
  <2>10. Memory(t)' /\ size[t] = 0
    BY <1>t, <2>1, <2>6 DEF Rendering, Memory
  <2>11. Text(t)'
    <3>1. SetsAll(t)' <=> SetsAll(t)
      BY <2>1 DEF SetsAll
    <3>2. Own(t)' = Own(t)
      BY <2>1 DEF Own
    <3> SUFFICES ASSUME text = Own(t) PROVE Text(t)'
      BY <2>4, <3>1 DEF Text
    <3>3. Len(text) \in Nat /\ \A i \in 1 .. Len(text) : 0 + i = i
      BY <2>3, LenProperties
    <3> QED BY <2>1, <2>6, <2>10, <3>2, <3>3 DEF Text
  <2> QED BY <2>5, <2>7, <2>8, <2>9, <2>10, <2>11 DEF RenderInv, Rendering
<1> QED BY <1>1, <1>2

\* A piece of the text is written into the stream, or dropped.
LEMMA RenderWrites ==
    ASSUME RenderInv, NEW t \in RenderThreads, NEW n \in 1 .. Len(stdio[t]),
           MsWrite(t, n) \/ MsWriteNoMemory(t, n)
    PROVE  RenderInv'
<1>t. RenderTypes /\ Exclusive /\ Rendering(t)
  BY DEF RenderInv
<1> DEFINE buf == stdio[t]
           rest == SubSeq(buf, n + 1, Len(buf))
<1>b. /\ buf \in Seq(Tokens) /\ Len(buf) \in Nat /\ n \in Nat
      /\ rest \in Seq(Tokens) /\ Len(rest) = Len(buf) - n
      /\ \A i \in 1 .. Len(rest) : rest[i] = buf[n + i]
  <2>1. buf \in Seq(Tokens)
    BY <1>t DEF RenderTypes
  <2> HIDE DEF buf
  <2>2. Len(buf) \in Nat /\ n \in 1 .. Len(buf)
    BY <2>1, LenProperties DEF buf
  <2>3. rest \in Seq(Tokens) /\ Len(rest) = Len(buf) - n
    BY <2>1, <2>2
  <2>4. \A i \in 1 .. Len(buf) - n : rest[i] = buf[n + i]
    BY <2>1, <2>2
  <2> QED BY <2>1, <2>2, <2>3, <2>4
<1>0. rpc[t] = "flush" /\ stdio' = [stdio EXCEPT ![t] = rest]
      /\ UNCHANGED <<template_ctx, template_mutex, rpc, tmpl, args, output, ret>>
  BY DEF MsWrite, MsWriteNoMemory, ctxVars, callVars
<1> HIDE DEF buf, rest
<1>s. stdio'[t] = rest /\ \A u \in RenderThreads : u # t => stdio'[u] = stdio[u]
  BY <1>t, <1>0 DEF RenderTypes
<1>x. Exclusive'
  BY <1>t, <1>0 DEF Exclusive
<1>c. Clear(t)' /\ Exact(t)'
  BY <1>t, <1>0 DEF Rendering, Clear, Exact
<1>1. CASE MsWriteNoMemory(t, n)
  <2>1. /\ truncated' = [truncated EXCEPT ![t] = TRUE]
        /\ UNCHANGED <<data, size, capacity, pos>>
    BY <1>1 DEF MsWriteNoMemory, memVars
  <2>2. RenderTypes'
    BY <1>t, <1>b, <1>0, <2>1 DEF RenderTypes
  <2>3. truncated'[t] /\ \A u \in RenderThreads : u # t =>
                             truncated'[u] = truncated[u]
    BY <1>t, <2>1 DEF RenderTypes
  <2>4. ASSUME NEW u \in RenderThreads, u # t PROVE Rendering(u)'
    BY <1>0, <1>s, <2>1, <2>3, <2>4, OtherRendering
  <2>5. Memory(t)' /\ Text(t)'
    BY <1>t, <1>0, <2>1, <2>3 DEF Rendering, Memory, Text
  <2> QED BY <1>x, <1>c, <2>2, <2>4, <2>5 DEF RenderInv, Rendering
<1>2. CASE MsWrite(t, n)
  <2> DEFINE end == pos[t] + n
             cap == NewCapacity(capacity[t], end)
             mem == [i \in 1 .. cap |-> Written(t, n, end, i)]
  <2>1. /\ capacity' = [capacity EXCEPT ![t] = cap]
        /\ data' = [data EXCEPT ![t] = [i \in 1 .. capacity'[t] |->
                                           Written(t, n, end, i)]]
        /\ pos' = [pos EXCEPT ![t] = end]
        /\ size' = [size EXCEPT ![t] = Max({size[t], end})]
        /\ UNCHANGED truncated
    BY <1>2 DEF MsWrite
  <2>m. /\ pos[t] \in Nat /\ size[t] \in Nat /\ capacity[t] \in Nat
        /\ pos[t] = size[t] /\ size[t] < capacity[t]
        /\ data[t] \in Seq(Tokens \cup {NUL, Junk})
        /\ Len(data[t]) = capacity[t]
        /\ \A i \in 1 .. size[t] : data[t][i] \notin {NUL, Junk}
    BY <1>t, <1>0 DEF RenderTypes, Rendering, Memory
  <2>2. end \in Nat /\ end = size[t] + n /\ Max({size[t], end}) = end
    <3>1. end \in Nat /\ end = size[t] + n /\ ~(size[t] >= end)
      BY <1>b, <2>m
    <3> QED BY <2>m, <3>1, LargerOne
  <2>3. cap \in Nat /\ end < cap /\ capacity[t] <= cap
    BY <2>m, <2>2 DEF NewCapacity
  <2>4. /\ capacity'[t] = cap /\ data'[t] = mem /\ pos'[t] = end
        /\ size'[t] = end
        /\ \A u \in RenderThreads : u # t =>
              /\ capacity'[u] = capacity[u] /\ data'[u] = data[u]
              /\ pos'[u] = pos[u] /\ size'[u] = size[u]
    BY <1>t, <2>1, <2>2 DEF RenderTypes
  <2> HIDE DEF end, cap
  <2>5. mem[end + 1] = NUL
    BY <2>2, <2>3 DEF Written
  <2>6. ASSUME NEW i \in 1 .. size[t] PROVE mem[i] = data[t][i]
    <3>1. i \in 1 .. cap /\ i # end + 1 /\ ~(i > pos[t]) /\ i <= capacity[t]
      BY <1>b, <2>m, <2>2, <2>3
    <3> QED BY <3>1 DEF Written
  <2>7. ASSUME NEW i \in 1 .. n PROVE mem[size[t] + i] = buf[i]
    <3> DEFINE k == size[t] + i
    <3>1. /\ k \in 1 .. cap /\ k # end + 1 /\ k > pos[t] /\ k <= end
          /\ k - pos[t] = i
      <4>1. \A a, e, c, m \in Nat : \A j1 \in 1 .. m :
                e = a + m /\ e < c =>
                    /\ a + j1 \in 1 .. c /\ a + j1 # e + 1 /\ a + j1 > a
                    /\ a + j1 <= e /\ (a + j1) - a = j1
        OBVIOUS
      <4>2. size[t] \in Nat /\ pos[t] = size[t] /\ n \in Nat
        BY <1>b, <2>m
      <4>3. end = size[t] + n /\ end < cap /\ end \in Nat /\ cap \in Nat
        BY <2>2, <2>3
      <4> QED BY ONLY <4>1, <4>2, <4>3, i \in 1 .. n
    <3> HIDE DEF k
    <3>2. mem[k] = stdio[t][k - pos[t]]
      BY <3>1 DEF Written
    <3> QED BY <3>1, <3>2 DEF k, buf
  <2>8. ASSUME NEW i \in 1 .. cap PROVE mem[i] \in Tokens \cup {NUL, Junk}
    <3>1. mem[i] = Written(t, n, end, i)
      OBVIOUS
    <3>2. CASE i > pos[t] /\ i <= end
      <4>1. i - size[t] \in 1 .. n /\ i - size[t] \in 1 .. Len(buf)
            /\ size[t] + (i - size[t]) = i
        BY <1>b, <2>m, <2>2, <3>2 DEF buf
      <4>2. mem[i] = buf[i - size[t]]
        BY <2>7, <4>1
      <4>3. buf[i - size[t]] \in Tokens
        BY <1>b, <4>1
      <4> QED BY <4>2, <4>3
    <3>3. CASE ~(i > pos[t] /\ i <= end) /\ i <= capacity[t]
      <4>1. data[t][i] \in Tokens \cup {NUL, Junk}
        BY <2>m, <3>3
      <4> QED BY <3>1, <3>3, <4>1 DEF Written
    <3>4. CASE ~(i > pos[t] /\ i <= end) /\ ~(i <= capacity[t])
      BY <3>1, <3>4 DEF Written
    <3> QED BY <3>2, <3>3, <3>4
  <2>9. mem \in Seq(Tokens \cup {NUL, Junk}) /\ Len(mem) = cap
    <3>1. mem \in [1 .. cap -> Tokens \cup {NUL, Junk}]
      BY <2>8
    <3>2. DOMAIN mem = 1 .. cap
      OBVIOUS
    <3> HIDE DEF mem
    <3> QED BY <2>3, <3>1, <3>2, SeqDef, LenProperties
  <2> HIDE DEF mem
  <2>10. RenderTypes'
    <3>1. capacity' = [capacity EXCEPT ![t] = cap] /\ pos' = [pos EXCEPT ![t] = end]
          /\ size' = [size EXCEPT ![t] = end] /\ data' = [data EXCEPT ![t] = mem]
      BY <1>t, <2>1, <2>2, <2>4 DEF RenderTypes, mem
    <3>2. stdio' \in [RenderThreads -> Seq(Tokens)]
      BY <1>t, <1>b, <1>0 DEF RenderTypes
    <3>3. data' \in [RenderThreads -> Seq(Tokens \cup {NUL, Junk})]
      BY <1>t, <2>9, <3>1 DEF RenderTypes
    <3>4. /\ capacity' \in [RenderThreads -> Nat] /\ pos' \in [RenderThreads -> Nat]
          /\ size' \in [RenderThreads -> Nat]
      BY <1>t, <2>2, <2>3, <3>1 DEF RenderTypes
    <3> QED BY <1>t, <1>0, <2>1, <3>2, <3>3, <3>4 DEF RenderTypes
  <2>11. ASSUME NEW u \in RenderThreads, u # t PROVE Rendering(u)'
    BY <1>0, <1>s, <2>1, <2>4, <2>11, OtherRendering
  <2>12. ASSUME NEW i \in 1 .. end
         PROVE  \/ i \in 1 .. size[t]
                \/ i - size[t] \in 1 .. n /\ size[t] + (i - size[t]) = i
    BY <1>b, <2>m, <2>2
  <2>13. Memory(t)'
    <3>1. ASSUME NEW i \in 1 .. end PROVE mem[i] \notin {NUL, Junk}
      <4>1. CASE i \in 1 .. size[t]
        BY <2>m, <2>6, <4>1
      <4>2. CASE i - size[t] \in 1 .. n /\ size[t] + (i - size[t]) = i
        <5>1. mem[i] = buf[i - size[t]]
          BY <2>7, <4>2
        <5>2. i - size[t] \in 1 .. Len(buf)
          BY <1>b, <4>2 DEF buf
        <5>3. buf[i - size[t]] \in Tokens
          BY <1>b, <5>2
        <5> QED BY <5>1, <5>3 DEF Tokens
      <4> QED BY <2>12, <4>1, <4>2
    <3> QED BY <1>0, <2>3, <2>4, <2>5, <2>9, <3>1 DEF Memory
  <2>14. Text(t)'
    <3>1. (SetsAll(t)' <=> SetsAll(t)) /\ Own(t)' = Own(t) /\ truncated' = truncated
      BY <1>0, <2>1 DEF SetsAll, Own
    <3> SUFFICES ASSUME ~truncated[t], SetsAll(t) PROVE Text(t)'
      BY <3>1 DEF Text
    <3>2. /\ Len(Own(t)) = size[t] + Len(buf)
          /\ \A i \in 1 .. size[t] : data[t][i] = Own(t)[i]
          /\ \A i \in 1 .. Len(buf) : Own(t)[size[t] + i] = buf[i]
      BY <1>t, <1>0 DEF Rendering, Text, buf
    <3>3. Len(Own(t)) = end + Len(rest)
      BY <1>b, <2>m, <2>2, <3>2
    <3>4. ASSUME NEW i \in 1 .. end PROVE mem[i] = Own(t)[i]
      <4>1. CASE i \in 1 .. size[t]
        BY <2>6, <3>2, <4>1
      <4>2. CASE i - size[t] \in 1 .. n /\ size[t] + (i - size[t]) = i
        <5>1. mem[i] = buf[i - size[t]]
          BY <2>7, <4>2
        <5>2. i - size[t] \in 1 .. Len(buf)
          BY <1>b, <4>2 DEF buf
        <5> QED BY <3>2, <4>2, <5>1, <5>2
      <4> QED BY <2>12, <4>1, <4>2
    <3>5. ASSUME NEW i \in 1 .. Len(rest) PROVE Own(t)[end + i] = rest[i]
      <4>1. n + i \in 1 .. Len(buf) /\ end + i = size[t] + (n + i)
        BY <1>b, <2>m, <2>2
      <4> QED BY <1>b, <3>2, <4>1
    <3> QED BY <1>s, <2>4, <3>1, <3>3, <3>4, <3>5 DEF Text
  <2> QED BY <1>x, <1>c, <2>10, <2>11, <2>13, <2>14 DEF RenderInv, Rendering
<1> QED BY <1>1, <1>2

\* The text is copied out.
LEMMA RenderCopies == ASSUME RenderInv, NEW t \in RenderThreads, CopyOut(t)
                      PROVE  RenderInv'
<1>t. RenderTypes /\ Exclusive /\ Rendering(t)
  BY DEF RenderInv
<1> DEFINE old == output[t]
           len == Max({Len(old), size[t]})
           out == [i \in 1 .. len |-> IF i <= size[t] THEN data[t][i] ELSE old[i]]
<1>1. /\ rpc[t] = "flush" /\ rpc' = [rpc EXCEPT ![t] = "idle"]
      /\ stdio[t] = <<>>
      /\ output' = [output EXCEPT ![t] = out]
      /\ ret' = [ret EXCEPT ![t] = 0]
      /\ data' = [data EXCEPT ![t] = <<>>] /\ size' = [size EXCEPT ![t] = 0]
      /\ capacity' = [capacity EXCEPT ![t] = 0] /\ pos' = [pos EXCEPT ![t] = 0]
      /\ UNCHANGED <<template_ctx, template_mutex, tmpl, args, stdio, truncated>>
  BY DEF CopyOut, At, ctxVars, callVars
<1>m. /\ size[t] \in Nat /\ size[t] < capacity[t] /\ capacity[t] \in Nat
      /\ data[t] \in Seq(Tokens \cup {NUL, Junk}) /\ Len(data[t]) = capacity[t]
      /\ old \in Seq(Tokens \cup {NUL, Junk}) /\ Len(old) \in Nat
      /\ \A i \in 1 .. Len(old) : old[i] = NUL
      /\ \A i \in 1 .. size[t] : data[t][i] \notin {NUL, Junk}
  <2>1. /\ size[t] \in Nat /\ capacity[t] \in Nat
        /\ data[t] \in Seq(Tokens \cup {NUL, Junk})
        /\ old \in Seq(Tokens \cup {NUL, Junk}) /\ Len(old) \in Nat
    BY <1>t, LenProperties DEF RenderTypes
  <2>2. /\ size[t] < capacity[t] /\ Len(data[t]) = capacity[t]
        /\ \A i \in 1 .. size[t] : data[t][i] \notin {NUL, Junk}
    BY <1>t, <1>1 DEF Rendering, Memory
  <2>3. \A i \in 1 .. Len(old) : old[i] = NUL
    BY <1>t, <1>1 DEF Rendering, Clear
  <2> QED BY <2>1, <2>2, <2>3
<1>2. len \in Nat /\ size[t] <= len
      /\ (len = Len(old) \/ (len = size[t] /\ Len(old) <= size[t]))
  BY <1>m, LargerOne
<1> HIDE DEF old, len
<1>3. ASSUME NEW i \in 1 .. len
      PROVE  /\ i <= size[t] => out[i] = data[t][i]
             /\ ~(i <= size[t]) => out[i] = NUL
             /\ out[i] \in Tokens \cup {NUL, Junk}
  <2>1. CASE i <= size[t]
    <3>1. data[t][i] \in Tokens \cup {NUL, Junk}
      BY <1>m, <1>2, <2>1
    <3> QED BY <2>1, <3>1
  <2>2. CASE ~(i <= size[t])
    BY <1>m, <1>2, <2>2
  <2> QED BY <2>1, <2>2
<1>4. out \in Seq(Tokens \cup {NUL, Junk}) /\ DOMAIN out = 1 .. len
      /\ Len(out) = len
  <2>1. out \in [1 .. len -> Tokens \cup {NUL, Junk}] /\ DOMAIN out = 1 .. len
    BY <1>3
  <2> HIDE DEF out
  <2> QED BY <1>2, <2>1, SeqDef, LenProperties
<1> HIDE DEF out
<1>5. RenderTypes'
  <2>1. output' \in [RenderThreads -> Seq(Tokens \cup {NUL, Junk})]
    BY <1>t, <1>1, <1>4 DEF RenderTypes
  <2>2. data' \in [RenderThreads -> Seq(Tokens \cup {NUL, Junk})]
    BY <1>t, <1>1 DEF RenderTypes
  <2> QED BY <1>t, <1>1, <2>1, <2>2 DEF RenderTypes
<1>6. /\ rpc'[t] = "idle" /\ output'[t] = out
      /\ \A u \in RenderThreads : u # t =>
            /\ rpc'[u] = rpc[u] /\ output'[u] = output[u] /\ ret'[u] = ret[u]
            /\ data'[u] = data[u] /\ size'[u] = size[u]
            /\ capacity'[u] = capacity[u] /\ pos'[u] = pos[u]
  BY <1>t, <1>1 DEF RenderTypes
<1>7. Exclusive'
  BY <1>t, <1>1, <1>6 DEF Exclusive
<1>8. ASSUME NEW u \in RenderThreads, u # t PROVE Rendering(u)'
  BY <1>1, <1>6, <1>8, OtherRendering
<1>9. Clear(t)' /\ Memory(t)' /\ Text(t)'
  BY <1>6 DEF Clear, Memory, Text
<1>10. Exact(t)'
  <2>1. (SetsAll(t)' <=> SetsAll(t)) /\ Own(t)' = Own(t) /\ truncated' = truncated
    BY <1>1 DEF SetsAll, Own
  <2> SUFFICES ASSUME ~truncated[t], SetsAll(t), Len(out) > Len(Own(t))
               PROVE  AsString(out) = Own(t)
    BY <1>6, <2>1 DEF Exact
  <2>2. /\ Len(Own(t)) = size[t]
        /\ \A i \in 1 .. size[t] : data[t][i] = Own(t)[i]
    <3>1. Len(Own(t)) = size[t] + Len(stdio[t])
          /\ \A i \in 1 .. size[t] : data[t][i] = Own(t)[i]
      BY <1>t, <1>1 DEF Rendering, Text
    <3>2. Len(stdio[t]) = 0
      BY <1>1
    <3> QED BY <1>m, <3>1, <3>2
  <2>3. Own(t) \in Seq(Tokens)
    <3>1. tmpl[t] \in TemplateTexts /\ args[t] \in ArgLists
      BY <1>t, <1>1 DEF RenderTypes
    <3>2. \A v \in DOMAIN args[t] : args[t][v] \in Values
      BY <3>1, TemplatesAssumption DEF Range
    <3>3. \A i \in DOMAIN tmpl[t] : tmpl[t][i] \in Vars =>
              args[t][tmpl[t][i]] \in Values \cup {Unset}
      BY <3>2 DEF SetsAll
    <3> QED BY <3>1, <3>3, ExpandType DEF Own
  <2> DEFINE ends == {i \in DOMAIN out : out[i] = NUL}
             k == size[t] + 1
  <2>4. k \in 1 .. len /\ k \in ends
    BY <1>m, <1>2, <1>3, <1>4, <2>2
  <2>5. ASSUME NEW i \in ends PROVE k <= i
    <3>1. i \in 1 .. len /\ out[i] = NUL
      BY <1>4
    <3>2. ~(i <= size[t])
      <4>1. i <= size[t] => i \in 1 .. size[t]
        BY <1>m, <1>2, <3>1
      <4> QED BY <1>m, <1>3, <3>1, <4>1
    <3> QED BY <1>m, <1>2, <3>1, <3>2
  <2>6. Min(ends) = k
    <3>1. ends \in SUBSET Nat /\ ends # {}
      BY <1>2, <1>4, <2>4
    <3>2. Min(ends) \in ends /\ Min(ends) <= k
      BY <2>4, <3>1, LeastOne
    <3>3. k <= Min(ends)
      BY <2>5, <3>2
    <3>4. Min(ends) \in Nat /\ k \in Nat
      BY <1>m, <3>1, <3>2
    <3> HIDE DEF ends
    <3> QED BY <3>2, <3>3, <3>4
  <2>7. AsString(out) = SubSeq(out, 1, size[t])
    <3>1. AsString(out) = SubSeq(out, 1, Min(ends) - 1)
      BY <2>4 DEF AsString
    <3>2. k - 1 = size[t]
      BY <1>m
    <3> HIDE DEF ends, k
    <3> QED BY <2>6, <3>1, <3>2
  <2> DEFINE str == SubSeq(out, 1, size[t])
  <2>8. /\ str \in Seq(Tokens \cup {NUL, Junk}) /\ Len(str) = size[t]
        /\ \A i \in 1 .. size[t] : str[i] = out[i]
    BY <1>m, <1>2, <1>4
  <2>9. \A i \in 1 .. size[t] : str[i] = Own(t)[i]
    BY <1>m, <1>2, <1>3, <2>2, <2>8
  <2> HIDE DEF str
  <2>10. str = Own(t)
    <3>1. Own(t) \in Seq(Tokens \cup {NUL, Junk})
      BY <2>3
    <3> QED BY <2>2, <2>8, <2>9, <3>1, SeqEqual
  <2> QED BY <2>7, <2>10 DEF str
<1> QED BY <1>5, <1>7, <1>8, <1>9, <1>10 DEF RenderInv, Rendering

\* Every step keeps the invariant.
LEMMA RenderStep == RenderInv /\ [TemplatesNext]_templateVars => RenderInv'
<1> SUFFICES ASSUME RenderInv, [TemplatesNext]_templateVars PROVE RenderInv'
  OBVIOUS
<1>1. CASE UNCHANGED templateVars
  <2>1. UNCHANGED <<template_ctx, template_mutex, rpc, tmpl, args, stdio, data,
                    size, capacity, pos, output, ret, truncated>>
    BY <1>1 DEF templateVars, ctxVars, callVars, memVars
  <2>2. RenderTypes' /\ Exclusive'
    BY <2>1 DEF RenderInv, RenderTypes, Exclusive
  <2>3. \A u \in RenderThreads : Rendering(u)'
    BY <2>1, OtherRendering
  <2> QED BY <2>2, <2>3 DEF RenderInv
<1>2. ASSUME NEW t \in RenderThreads,
             \/ \E text \in TemplateTexts, a \in ArgLists, n \in OutputSizes :
                   RenderCall(t, text, a, n)
             \/ SetVars(t) \/ OpenStream(t)
      PROVE  RenderInv'
  BY <1>2, RenderBegins
<1>3. ASSUME NEW t \in RenderThreads,
             OpenStreamFails(t) \/ Render(t) \/ RenderFails(t)
      PROVE  RenderInv'
  BY <1>3, RenderEngine
<1>4. ASSUME NEW t \in RenderThreads, NEW n \in 1 .. Len(stdio[t]),
             MsWrite(t, n) \/ MsWriteNoMemory(t, n)
      PROVE  RenderInv'
  BY <1>4, RenderWrites
<1>5. ASSUME NEW t \in RenderThreads, CopyOut(t) PROVE RenderInv'
  BY <1>5, RenderCopies
<1> QED BY <1>1, <1>2, <1>3, <1>4, <1>5 DEF TemplatesNext, TemplatesDone

\* At the start nothing is rendered.
LEMMA RenderStart == TemplatesInit => RenderInv
<1> SUFFICES ASSUME TemplatesInit PROVE RenderInv
  OBVIOUS
<1>1. <<>> \in Seq(Tokens) /\ <<>> \in Seq(Tokens \cup {NUL, Junk})
  OBVIOUS
<1>2. RenderTypes
  BY <1>1 DEF TemplatesInit, RenderTypes
<1>3. \A t \in RenderThreads : rpc[t] = "idle" /\ tmpl[t] = <<>>
  BY DEF TemplatesInit
<1>4. Exclusive /\ \A t \in RenderThreads : Rendering(t)
  BY <1>3 DEF Exclusive, Rendering, Clear, Memory, Text, Exact
<1> QED BY <1>2, <1>4 DEF RenderInv

\* Calls of any number of threads that share the template context each get the
\* text of their own values, for any templates, values and cut into writes:
\* papago_render_file and papago_render_template keep template_mutex from the
\* first variable to the end of the rendering.
THEOREM TextIsTheCallersOwn == TemplatesSpec => []RenderExact
<1>1. RenderInv => RenderExact
  BY DEF RenderInv, Rendering, Exact, SetsAll, Own, RenderExact
<1> QED BY <1>1, RenderStart, RenderStep, PTL DEF TemplatesSpec

\* The threads that have a stream.
Streaming == {t \in RenderThreads : rpc[t] \in {"render", "flush"}}

\* A stream's number is that of a call already made; a call that has not opened
\* its stream is newer than every stream of its thread.
StreamsInv ==
    /\ renders \in Nat /\ failed \in Nat
    /\ streams \in SUBSET (RenderThreads \X Nat)
    /\ IsFiniteSet(streams) /\ IsFiniteSet(Streaming)
    /\ \A s \in streams : s[2] <= renders
    /\ \A t \in RenderThreads : rpc[t] \in {"lock", "open"} =>
          <<t, renders>> \notin streams
    /\ \A t \in Streaming : \E s \in streams : s[1] = t
    /\ Cardinality(streams) = failed + Cardinality(Streaming)

\* A thread's newest stream is one stream: closing it leaves all the others.
LEMMA NewestStream ==
    ASSUME StreamsInv, NEW t \in Streaming
    PROVE  \E z \in streams :
              {s \in streams : s[1] # t \/ \E u \in streams :
                                  u[1] = t /\ u[2] > s[2]} = streams \ {z}
<1> DEFINE Ages == {renders - s[2] : s \in {x \in streams : x[1] = t}}
<1>s. \A s \in streams : s = <<s[1], s[2]>> /\ s[2] \in Nat /\ s[2] <= renders
  BY DEF StreamsInv
<1>r. renders \in Nat
  BY DEF StreamsInv
<1>1. Ages \in SUBSET Nat /\ Ages # {}
  BY <1>s, <1>r DEF StreamsInv
<1>2. Min(Ages) \in Ages /\ \A a \in Ages : Min(Ages) <= a
  BY <1>1, LeastOne
<1>3. PICK z \in streams : z[1] = t /\ Min(Ages) = renders - z[2]
  BY <1>2
<1>4. ASSUME NEW u \in streams, u[1] = t PROVE u[2] <= z[2]
  <2>1. renders - u[2] \in Ages
    BY <1>4
  <2>2. renders - z[2] <= renders - u[2]
    BY <1>2, <1>3, <2>1
  <2> QED BY <1>s, <1>r, <2>2
<1>5. ASSUME NEW s \in streams, s[1] = t, s # z PROVE z[2] > s[2]
  <2>1. s[2] # z[2]
    BY <1>s, <1>3, <1>5
  <2> QED BY <1>s, <1>4, <1>5, <2>1
<1>6. ~ \E u \in streams : u[1] = t /\ u[2] > z[2]
  BY <1>s, <1>4
<1> QED BY <1>3, <1>5, <1>6

\* The streams that are open are those in use and those of failed renderings.
LEMMA StreamsStep ==
    RenderTypes /\ StreamsInv /\ [TemplatesNext]_templateVars => StreamsInv'
<1> SUFFICES ASSUME RenderTypes, StreamsInv, [TemplatesNext]_templateVars
             PROVE  StreamsInv'
  OBVIOUS
<1>0. ASSUME UNCHANGED <<rpc, renders, streams, failed>> PROVE StreamsInv'
  BY <1>0 DEF StreamsInv, Streaming
<1>1. ASSUME UNCHANGED templateVars PROVE StreamsInv'
  BY <1>0, <1>1 DEF templateVars
<1>2. ASSUME NEW t \in RenderThreads, NEW text \in TemplateTexts,
             NEW a \in ArgLists, NEW n \in OutputSizes, RenderCall(t, text, a, n)
      PROVE  StreamsInv'
  <2>1. /\ rpc[t] = "idle" /\ rpc' = [rpc EXCEPT ![t] = "lock"]
        /\ renders' = renders + 1 /\ UNCHANGED <<streams, failed>>
    BY <1>2 DEF RenderCall, At
  <2>2. Streaming' = Streaming
    BY <2>1 DEF RenderTypes, Streaming
  <2>3. \A u \in RenderThreads : <<u, renders'>> \notin streams
    BY <2>1 DEF StreamsInv
  <2>4. \A s \in streams : s[2] <= renders'
    BY <2>1 DEF StreamsInv
  <2> QED BY <2>1, <2>2, <2>3, <2>4 DEF StreamsInv
<1>3. ASSUME NEW t \in RenderThreads,
             \/ rpc[t] = "lock" /\ rpc' = [rpc EXCEPT ![t] = "open"]
             \/ rpc[t] = "open" /\ rpc' = [rpc EXCEPT ![t] = "idle"]
             \/ rpc[t] = "render" /\ rpc' = [rpc EXCEPT ![t] = "flush"],
             UNCHANGED <<renders, streams, failed>>
      PROVE  StreamsInv'
  <2>1. Streaming' = Streaming
    BY <1>3 DEF RenderTypes, Streaming
  <2>2. \A u \in RenderThreads : rpc'[u] \in {"lock", "open"} =>
            rpc[u] \in {"lock", "open"}
    BY <1>3 DEF RenderTypes
  <2> QED BY <1>3, <2>1, <2>2 DEF StreamsInv
<1>4. ASSUME NEW t \in RenderThreads, OpenStream(t) PROVE StreamsInv'
  <2>1. /\ rpc[t] = "open" /\ rpc' = [rpc EXCEPT ![t] = "render"]
        /\ streams' = streams \cup {<<t, renders>>}
        /\ UNCHANGED <<renders, failed>>
    BY <1>4 DEF OpenStream, At
  <2>2. Streaming' = Streaming \cup {t} /\ t \notin Streaming
    BY <2>1 DEF RenderTypes, Streaming
  <2>3. <<t, renders>> \notin streams
    BY <2>1 DEF StreamsInv
  <2>4. /\ IsFiniteSet(streams') /\ IsFiniteSet(Streaming')
        /\ Cardinality(streams') = Cardinality(streams) + 1
        /\ Cardinality(Streaming') = Cardinality(Streaming) + 1
    BY <2>1, <2>2, <2>3, FS_AddElement DEF StreamsInv
  <2>5. Cardinality(streams') = failed' + Cardinality(Streaming')
    <3>1. Cardinality(Streaming) \in Nat
      BY FS_CardinalityType DEF StreamsInv
    <3> QED BY <2>1, <2>4, <3>1 DEF StreamsInv
  <2>6. \A u \in RenderThreads : rpc'[u] \in {"lock", "open"} =>
            u # t /\ rpc[u] \in {"lock", "open"}
    BY <2>1 DEF RenderTypes
  <2>7. \A s \in streams' : s[2] <= renders'
    BY <2>1 DEF StreamsInv
  <2>8. \A u \in Streaming' : \E s \in streams' : s[1] = u
    <3>1. <<t, renders>> \in streams' /\ <<t, renders>>[1] = t
      BY <2>1
    <3> QED BY <2>1, <2>2, <3>1 DEF StreamsInv
  <2>9. streams' \in SUBSET (RenderThreads \X Nat)
    BY <2>1 DEF StreamsInv
  <2> QED BY <2>1, <2>4, <2>5, <2>6, <2>7, <2>8, <2>9 DEF StreamsInv
<1>5. ASSUME NEW t \in RenderThreads, rpc[t] \in {"render", "flush"},
             rpc' = [rpc EXCEPT ![t] = "idle"]
      PROVE  /\ t \in Streaming /\ Streaming' = Streaming \ {t}
             /\ IsFiniteSet(Streaming')
             /\ Cardinality(Streaming') = Cardinality(Streaming) - 1
             /\ Cardinality(Streaming) \in Nat
             /\ \A u \in RenderThreads : rpc'[u] \in {"lock", "open"} =>
                   rpc[u] \in {"lock", "open"}
  <2>1. /\ t \in Streaming /\ Streaming' = Streaming \ {t}
        /\ \A u \in RenderThreads : rpc'[u] \in {"lock", "open"} =>
              rpc[u] \in {"lock", "open"}
    BY <1>5 DEF RenderTypes, Streaming
  <2>2. IsFiniteSet(Streaming)
    BY DEF StreamsInv
  <2>3. IsFiniteSet(Streaming \ {t})
        /\ Cardinality(Streaming \ {t}) = Cardinality(Streaming) - 1
    BY <2>1, <2>2, FS_RemoveElement
  <2> QED BY <2>1, <2>2, <2>3, FS_CardinalityType
<1>6. ASSUME NEW t \in RenderThreads, RenderFails(t) PROVE StreamsInv'
  <2>1. /\ rpc[t] = "render" /\ rpc' = [rpc EXCEPT ![t] = "idle"]
        /\ failed' = failed + 1 /\ UNCHANGED <<renders, streams>>
    BY <1>6 DEF RenderFails, At
  <2>2. /\ t \in Streaming /\ Streaming' = Streaming \ {t}
        /\ IsFiniteSet(Streaming')
        /\ Cardinality(Streaming') = Cardinality(Streaming) - 1
        /\ Cardinality(Streaming) \in Nat
        /\ \A u \in RenderThreads : rpc'[u] \in {"lock", "open"} =>
              rpc[u] \in {"lock", "open"}
    BY <1>5, <2>1
  <2>3. Cardinality(streams') = failed' + Cardinality(Streaming')
    BY <2>1, <2>2 DEF StreamsInv
  <2> QED BY <2>1, <2>2, <2>3 DEF StreamsInv
<1>7. ASSUME NEW t \in RenderThreads, CopyOut(t) PROVE StreamsInv'
  <2>1. /\ rpc[t] = "flush" /\ rpc' = [rpc EXCEPT ![t] = "idle"]
        /\ streams' = {s \in streams : s[1] # t \/ \E u \in streams :
                                           u[1] = t /\ u[2] > s[2]}
        /\ UNCHANGED <<renders, failed>>
    BY <1>7 DEF CopyOut, At
  <2>2. /\ t \in Streaming /\ Streaming' = Streaming \ {t}
        /\ IsFiniteSet(Streaming')
        /\ Cardinality(Streaming') = Cardinality(Streaming) - 1
        /\ Cardinality(Streaming) \in Nat
        /\ \A u \in RenderThreads : rpc'[u] \in {"lock", "open"} =>
              rpc[u] \in {"lock", "open"}
    BY <1>5, <2>1
  <2>3. PICK z \in streams : streams' = streams \ {z}
    BY <2>1, <2>2, NewestStream
  <2>4. IsFiniteSet(streams') /\ Cardinality(streams') = Cardinality(streams) - 1
    BY <2>3, FS_RemoveElement DEF StreamsInv
  <2>5. Cardinality(streams') = failed' + Cardinality(Streaming')
    BY <2>1, <2>2, <2>4 DEF StreamsInv
  <2>6. \A u \in Streaming' : \E s \in streams' : s[1] = u
    BY <2>1, <2>2 DEF StreamsInv
  <2>7. /\ streams' \in SUBSET (RenderThreads \X Nat)
        /\ \A s \in streams' : s[2] <= renders'
    BY <2>1, <2>3 DEF StreamsInv
  <2>8. \A u \in RenderThreads : rpc'[u] \in {"lock", "open"} =>
            <<u, renders'>> \notin streams'
    BY <2>1, <2>2, <2>3 DEF StreamsInv
  <2> QED BY <2>1, <2>2, <2>4, <2>5, <2>6, <2>7, <2>8 DEF StreamsInv
<1>8. ASSUME NEW t \in RenderThreads, SetVars(t) \/ OpenStreamFails(t) \/ Render(t)
      PROVE  StreamsInv'
  BY <1>3, <1>8 DEF SetVars, OpenStreamFails, Render, At
<1>9. ASSUME NEW t \in RenderThreads, NEW n \in 1 .. Len(stdio[t]),
             MsWrite(t, n) \/ MsWriteNoMemory(t, n)
      PROVE  StreamsInv'
  BY <1>0, <1>9 DEF MsWrite, MsWriteNoMemory
<1> QED BY <1>1, <1>2, <1>4, <1>6, <1>7, <1>8, <1>9 DEF TemplatesNext, TemplatesDone

\* However the text is cut into writes and whatever memory runs out, ms_write
\* keeps the text and its end inside the memory it has, and papago_render_file
\* and papago_render_template leave open the streams of failed renderings only.
THEOREM StreamsAreSound == TemplatesSpec => []StreamSound
<1>1. TemplatesInit => StreamsInv
  <2> SUFFICES ASSUME TemplatesInit PROVE StreamsInv
    OBVIOUS
  <2>1. streams = {} /\ renders = 0 /\ failed = 0 /\ Streaming = {}
    BY DEF TemplatesInit, Streaming
  <2> QED BY <2>1, FS_EmptySet DEF StreamsInv
<1>2. RenderInv /\ StreamsInv => StreamSound
  <2> SUFFICES ASSUME RenderInv, StreamsInv PROVE StreamSound
    OBVIOUS
  <2>1. \A t \in RenderThreads : pos[t] \in Nat /\ Memory(t)
    BY DEF RenderInv, RenderTypes, Rendering
  <2>2. Cardinality(streams) = failed + Cardinality(Streaming)
    BY DEF StreamsInv
  <2> QED BY <2>1, <2>2 DEF Memory, Streaming, StreamSound
<1>3. RenderInv => RenderTypes
  BY DEF RenderInv
<1> QED BY <1>1, <1>2, <1>3, RenderStart, RenderStep, StreamsStep, PTL
        DEF TemplatesSpec

-----------------------------------------------------------------------------
(* Metrics                                                                 *)

\* f holds the sums of the first 0, 1, ... numbers of s.
Adds(s, f) ==
    f = [i \in 0 .. Len(s) |-> IF i = 0 THEN 0 ELSE f[i - 1] + s[i]]

\* Such an f has natural values, and there is no other.
LEMMA AddsUnique ==
    ASSUME NEW s \in Seq(Nat), NEW f, NEW g, Adds(s, f), Adds(s, g)
    PROVE  f = g /\ \A i \in 0 .. Len(s) : f[i] \in Nat
<1>n. Len(s) \in Nat /\ \A i \in 1 .. Len(s) : s[i] \in Nat
  OBVIOUS
<1>f. /\ \A i \in 0 .. Len(s) : f[i] = IF i = 0 THEN 0 ELSE f[i - 1] + s[i]
      /\ \A i \in 0 .. Len(s) : g[i] = IF i = 0 THEN 0 ELSE g[i - 1] + s[i]
  BY DEF Adds
<1> DEFINE S == {n \in Nat : n <= Len(s) => f[n] = g[n] /\ f[n] \in Nat}
<1>1. 0 \in S
  BY <1>n, <1>f
<1>2. ASSUME NEW n \in Nat, n \in S PROVE n + 1 \in S
  <2> SUFFICES ASSUME n + 1 <= Len(s)
               PROVE  f[n + 1] = g[n + 1] /\ f[n + 1] \in Nat
    OBVIOUS
  <2>1. n + 1 \in 0 .. Len(s) /\ n + 1 # 0 /\ (n + 1) - 1 = n /\ n <= Len(s)
    BY <1>n
  <2>2. s[n + 1] \in Nat
    BY <1>n, <2>1
  <2>3. f[n + 1] = f[n] + s[n + 1] /\ g[n + 1] = g[n] + s[n + 1]
    BY <1>f, <2>1
  <2> QED BY <1>2, <2>1, <2>2, <2>3
<1> HIDE DEF S
<1>3. Nat \subseteq S
  BY <1>1, <1>2, NatSetInduction
<1>4. \A i \in 0 .. Len(s) : f[i] = g[i] /\ f[i] \in Nat
  BY <1>n, <1>3 DEF S
<1>5. f = [i \in 0 .. Len(s) |-> f[i]] /\ g = [i \in 0 .. Len(s) |-> g[i]]
  BY DEF Adds
<1> QED BY <1>4, <1>5

\* From the sums of a sequence to those with one more number behind it.
LEMMA AddsExtend ==
    ASSUME NEW s \in Seq(Nat), NEW w \in Seq(Nat), Len(w) = Len(s) + 1,
           \A i \in 1 .. Len(s) : w[i] = s[i],
           NEW g, Adds(s, g)
    PROVE  \E f : Adds(w, f) /\ f[Len(w)] = g[Len(s)] + w[Len(w)]
<1> DEFINE n == Len(s)
<1>n. n \in Nat /\ Len(w) = n + 1 /\ \A i \in 1 .. n : w[i] = s[i]
  OBVIOUS
<1>1. \A i \in 0 .. n : g[i] = IF i = 0 THEN 0 ELSE g[i - 1] + s[i]
  BY DEF Adds
<1> HIDE DEF n
<1> DEFINE f == [i \in 0 .. (n + 1) |->
                    IF i = n + 1 THEN g[n] + w[n + 1] ELSE g[i]]
           h == [i \in 0 .. (n + 1) |->
                    IF i = 0 THEN 0 ELSE f[i - 1] + w[i]]
<1>2. ASSUME NEW i \in 0 .. (n + 1) PROVE f[i] = h[i]
  <2>1. CASE i = 0
    BY <1>n, <1>1, <2>1
  <2>2. CASE i \in 1 .. n
    <3>1. /\ i - 1 \in 0 .. n /\ i \in 0 .. n /\ i # 0 /\ i # n + 1
          /\ i - 1 # n + 1 /\ i - 1 \in 0 .. (n + 1) /\ i \in 0 .. (n + 1)
      BY <1>n, <2>2
    <3>2. f[i - 1] = g[i - 1] /\ f[i] = g[i]
      BY <3>1
    <3>3. w[i] = s[i]
      BY <1>n, <2>2
    <3>4. g[i] = g[i - 1] + s[i]
      BY <1>1, <3>1
    <3>5. h[i] = f[i - 1] + w[i]
      BY <3>1
    <3> QED BY <3>2, <3>3, <3>4, <3>5
  <2>3. CASE i = n + 1
    <3>1. /\ i # 0 /\ i - 1 = n /\ n # n + 1 /\ n \in 0 .. (n + 1)
      BY <1>n, <2>3
    <3>2. f[n] = g[n] /\ f[i] = g[n] + w[n + 1]
      BY <2>3, <3>1
    <3>3. h[i] = f[i - 1] + w[i]
      BY <3>1
    <3> QED BY <2>3, <3>1, <3>2, <3>3
  <2> QED BY <1>n, <2>1, <2>2, <2>3
<1>3. f = h
  BY <1>2
<1>4. f[n + 1] = g[n] + w[n + 1]
  BY <1>n
<1> HIDE DEF f
<1>5. Adds(w, f)
  BY <1>n, <1>3 DEF Adds
<1> QED BY <1>n, <1>4, <1>5 DEF n

\* There is one for every sequence.
LEMMA AddsExist == \A s \in Seq(Nat) : \E f : Adds(s, f)
<1> DEFINE S == {n \in Nat : \A s \in Seq(Nat) : Len(s) = n => \E f : Adds(s, f)}
<1>1. 0 \in S
  <2> SUFFICES ASSUME NEW s \in Seq(Nat), Len(s) = 0 PROVE \E f : Adds(s, f)
    OBVIOUS
  <2> DEFINE f == [i \in 0 .. 0 |-> 0]
  <2>1. f = [i \in 0 .. 0 |-> IF i = 0 THEN 0 ELSE f[i - 1] + s[i]]
    OBVIOUS
  <2> HIDE DEF f
  <2> QED BY <2>1 DEF Adds
<1>2. ASSUME NEW n \in Nat, n \in S PROVE n + 1 \in S
  <2> SUFFICES ASSUME NEW s \in Seq(Nat), Len(s) = n + 1
               PROVE  \E f : Adds(s, f)
    OBVIOUS
  <2> DEFINE p == SubSeq(s, 1, n)
  <2>1. p \in Seq(Nat) /\ Len(p) = n /\ \A i \in 1 .. n : s[i] = p[i]
    OBVIOUS
  <2>2. PICK g : Adds(p, g)
    BY <1>2, <2>1
  <2> HIDE DEF p
  <2> QED BY <2>1, <2>2, AddsExtend
<1> HIDE DEF S
<1>3. Nat \subseteq S
  BY <1>1, <1>2, NatSetInduction
<1> SUFFICES ASSUME NEW s \in Seq(Nat) PROVE \E f : Adds(s, f)
  OBVIOUS
<1>4. Len(s) \in S
  BY <1>3
<1> QED BY <1>4 DEF S

\* The one there is gives Total.
LEMMA TotalIs ==
    ASSUME NEW s \in Seq(Nat), NEW f, Adds(s, f)
    PROVE  Total(s) = f[Len(s)] /\ f[Len(s)] \in Nat
<1> DEFINE e(x) == [i \in 0 .. Len(s) |-> IF i = 0 THEN 0 ELSE x[i - 1] + s[i]]
           g == CHOOSE x : x = e(x)
<1>1. Total(s) = g[Len(s)]
  BY DEF Total
<1>2. f = e(f)
  BY DEF Adds
<1>3. g = e(g)
  BY <1>2
<1>4. Adds(s, g)
  BY <1>3 DEF Adds
<1> HIDE DEF g
<1>5. f = g /\ f[Len(s)] \in Nat
  <2>1. Len(s) \in 0 .. Len(s)
    OBVIOUS
  <2> QED BY <1>4, <2>1, AddsUnique
<1> QED BY <1>1, <1>5

\* A sum is a number.
LEMMA TotalNat == \A s \in Seq(Nat) : Total(s) \in Nat
<1> SUFFICES ASSUME NEW s \in Seq(Nat) PROVE Total(s) \in Nat
  OBVIOUS
<1>1. PICK f : Adds(s, f)
  BY AddsExist
<1> QED BY <1>1, TotalIs

\* Nothing sums up to nothing.
LEMMA TotalEmpty == Total(<<>>) = 0
<1>1. <<>> \in Seq(Nat) /\ Len(<<>>) = 0
  OBVIOUS
<1>2. PICK f : Adds(<<>>, f)
  BY <1>1, AddsExist
<1>3. f[0] = 0
  BY <1>1, <1>2 DEF Adds
<1> QED BY <1>1, <1>2, <1>3, TotalIs

\* A number behind the others adds to the sum.
LEMMA TotalOneMore ==
    ASSUME NEW s \in Seq(Nat), NEW w \in Seq(Nat), Len(w) = Len(s) + 1,
           \A i \in 1 .. Len(s) : w[i] = s[i]
    PROVE  Total(w) = Total(s) + w[Len(w)]
<1>1. PICK g : Adds(s, g)
  BY AddsExist
<1>2. PICK f : Adds(w, f) /\ f[Len(w)] = g[Len(s)] + w[Len(w)]
  BY <1>1, AddsExtend
<1> QED BY <1>1, <1>2, TotalIs

\* A number that grows makes the sum grow as much.
LEMMA TotalGrows ==
    ASSUME NEW s \in Seq(Nat), NEW w \in Seq(Nat), Len(w) = Len(s),
           NEW k \in 1 .. Len(s), NEW d \in Nat, w[k] = s[k] + d,
           \A i \in 1 .. Len(s) : i # k => w[i] = s[i]
    PROVE  Total(w) = Total(s) + d
<1> PICK n \in Nat : n = Len(s)
  OBVIOUS
<1>k. k \in 1 .. n /\ \A i \in 1 .. n : s[i] \in Nat
  OBVIOUS
<1>1. PICK g : Adds(s, g)
  BY AddsExist
<1>2. \A i \in 0 .. n : g[i] = IF i = 0 THEN 0 ELSE g[i - 1] + s[i]
  BY <1>1 DEF Adds
<1>3. \A i \in 0 .. n : g[i] \in Nat
  BY <1>1, AddsUnique
<1> DEFINE f == [i \in 0 .. n |-> IF i < k THEN g[i] ELSE g[i] + d]
           h == [i \in 0 .. n |-> IF i = 0 THEN 0 ELSE f[i - 1] + w[i]]
<1>4. ASSUME NEW i \in 0 .. n PROVE f[i] = h[i]
  <2>1. CASE i = 0
    <3>1. i < k /\ 0 \in 0 .. n
      BY <1>k, <2>1
    <3> QED BY <1>2, <2>1, <3>1
  <2>2. CASE i # 0
    <3>1. i - 1 \in 0 .. n /\ i \in 1 .. n /\ g[i] = g[i - 1] + s[i]
      BY <1>2, <2>2
    <3>2. h[i] = f[i - 1] + w[i] /\ g[i - 1] \in Nat /\ s[i] \in Nat
      BY <1>k, <1>3, <2>2, <3>1
    <3>3. CASE i < k
      <4>1. w[i] = s[i] /\ f[i - 1] = g[i - 1] /\ f[i] = g[i]
        BY <1>k, <3>1, <3>3
      <4> QED BY <3>1, <3>2, <4>1
    <3>4. CASE i = k
      <4>1. w[i] = s[i] + d /\ f[i - 1] = g[i - 1] /\ f[i] = g[i] + d
        <5>1. i - 1 < k /\ ~(i < k)
          BY <1>k, <3>4
        <5> QED BY <3>1, <3>4, <5>1
      <4> QED BY ONLY <3>1, <3>2, <4>1, d \in Nat
    <3>5. CASE i > k
      <4>1. w[i] = s[i] /\ f[i - 1] = g[i - 1] + d /\ f[i] = g[i] + d
        <5>1. ~(i - 1 < k) /\ ~(i < k) /\ i # k
          BY <1>k, <3>5
        <5> QED BY <3>1, <5>1
      <4> QED BY ONLY <3>1, <3>2, <4>1, d \in Nat
    <3> QED BY <1>k, <3>1, <3>3, <3>4, <3>5
  <2> QED BY <2>1, <2>2
<1>5. f = h
  BY <1>4
<1>6. f[n] = g[n] + d
  BY <1>k
<1> HIDE DEF f
<1>7. Adds(w, f)
  BY <1>5 DEF Adds
<1> QED BY <1>1, <1>6, <1>7, TotalIs

\* The entries of the table.
Endpoint == [path : Urls, count : Nat, total_ms : Nat]

\* Types of what the argument is about.
MetricsTypes ==
    /\ total_requests \in Nat
    /\ requests_by_method \in [MetricMethods \cup {"other"} -> Nat]
    /\ requests_by_status \in [0 .. 5 -> Nat]
    /\ errors_4xx \in Nat /\ errors_5xx \in Nat
    /\ min_duration_ms \in Nat /\ max_duration_ms \in Nat
    /\ endpoints \in Seq(Endpoint)
    /\ seen \in Seq(Served)

\* The smaller of two numbers.
LEMMA SmallerOne == ASSUME NEW a \in Nat, NEW b \in Nat
                    PROVE  Min({a, b}) = IF a <= b THEN a ELSE b
<1>1. {a, b} \in SUBSET Nat /\ {a, b} # {}
  OBVIOUS
<1>2. Min({a, b}) \in {a, b} /\ Min({a, b}) <= a /\ Min({a, b}) <= b
  BY <1>1, LeastOne
<1> QED BY <1>2

\* The table with a request counted in entry k.
CountedIn(k, ms, es) ==
    [es EXCEPT ![k].count = @ + 1, ![k].total_ms = @ + ms]

\* What becomes of the table: the entry of the URL counts the request, or a new
\* one is made for it, or there is no room for one.
LEMMA EndpointsCases ==
    ASSUME MetricsTypes, NEW r \in Served
    PROVE  \/ \E k \in Listed(r.url) :
                 EndpointsAfter(r.url, r.ms) = CountedIn(k, r.ms, endpoints)
           \/ /\ Listed(r.url) = {} /\ Len(endpoints) < MAX_ENDPOINTS
              /\ EndpointsAfter(r.url, r.ms) =
                     Append(endpoints, [path |-> Shortened[r.url], count |-> 1,
                                        total_ms |-> r.ms])
           \/ /\ Listed(r.url) = {} /\ ~(Len(endpoints) < MAX_ENDPOINTS)
              /\ EndpointsAfter(r.url, r.ms) = endpoints
<1>1. CASE Listed(r.url) # {}
  <2>1. Listed(r.url) \in SUBSET Nat
    BY DEF Listed, MetricsTypes
  <2>2. Min(Listed(r.url)) \in Listed(r.url)
    BY <1>1, <2>1, LeastOne
  <2> QED BY <1>1, <2>2, Zenon DEF EndpointsAfter, CountedIn
<1>2. CASE Listed(r.url) = {}
  BY <1>2 DEF EndpointsAfter
<1> QED BY <1>1, <1>2

\* A request counted in an entry changes its count and its time.
LEMMA EntryCounts ==
    ASSUME NEW es \in Seq(Endpoint), NEW k \in 1 .. Len(es), NEW ms \in Nat,
           NEW ws, ws = CountedIn(k, ms, es)
    PROVE  /\ ws \in Seq(Endpoint) /\ Len(ws) = Len(es)
           /\ ws[k].path = es[k].path /\ ws[k].count = es[k].count + 1
           /\ ws[k].total_ms = es[k].total_ms + ms
           /\ \A i \in 1 .. Len(es) : i # k => ws[i] = es[i]
<1> PICK n \in Nat : n = Len(es)
  OBVIOUS
<1> PICK e \in Endpoint : e = es[k]
  OBVIOUS
<1>1. es \in [1 .. n -> Endpoint] /\ k \in 1 .. n /\ DOMAIN es = 1 .. n
  OBVIOUS
<1> DEFINE x == [path |-> e.path, count |-> e.count + 1, total_ms |-> e.total_ms + ms]
<1>2. /\ e = [path |-> e.path, count |-> e.count, total_ms |-> e.total_ms]
      /\ e.path \in Urls /\ e.count \in Nat /\ e.total_ms \in Nat
  BY DEF Endpoint
<1>3. x \in Endpoint
  BY <1>2 DEF Endpoint
<1>4. ws = [es EXCEPT ![k] = x]
  <2>1. ws[k] = x
    BY <1>1, <1>2 DEF CountedIn
  <2> QED BY <1>1, <2>1 DEF CountedIn
<1>5. x.path = e.path /\ x.count = e.count + 1 /\ x.total_ms = e.total_ms + ms
  OBVIOUS
<1> HIDE DEF x
<1>6. /\ ws \in [1 .. n -> Endpoint] /\ ws[k] = x
      /\ \A i \in 1 .. n : i # k => ws[i] = es[i]
  BY <1>1, <1>3, <1>4
<1>7. ws \in Seq(Endpoint) /\ Len(ws) = n
  BY <1>6
<1> QED BY <1>5, <1>6, <1>7

\* The same of the table.
LEMMA EntryUpdated ==
    ASSUME MetricsTypes, NEW r \in Served, NEW k \in Listed(r.url),
           endpoints' = CountedIn(k, r.ms, endpoints)
    PROVE  /\ endpoints' \in Seq(Endpoint) /\ Len(endpoints') = Len(endpoints)
           /\ DOMAIN endpoints' = 1 .. Len(endpoints)
           /\ endpoints'[k].path = endpoints[k].path
           /\ endpoints'[k].count = endpoints[k].count + 1
           /\ endpoints'[k].total_ms = endpoints[k].total_ms + r.ms
           /\ \A i \in 1 .. Len(endpoints) : i # k => endpoints'[i] = endpoints[i]
<1>1. endpoints \in Seq(Endpoint) /\ k \in 1 .. Len(endpoints)
  BY DEF Listed, MetricsTypes
<1>m. r.ms \in Nat
  BY MetricsAssumption
<1>2. /\ endpoints' \in Seq(Endpoint) /\ Len(endpoints') = Len(endpoints)
      /\ endpoints'[k].path = endpoints[k].path
      /\ endpoints'[k].count = endpoints[k].count + 1
      /\ endpoints'[k].total_ms = endpoints[k].total_ms + r.ms
      /\ \A i \in 1 .. Len(endpoints) : i # k => endpoints'[i] = endpoints[i]
  BY <1>1, <1>m, EntryCounts
<1> QED BY <1>2

\* The table keeps its type.
LEMMA EndpointsTyped ==
    ASSUME MetricsTypes, NEW r \in Served
    PROVE  EndpointsAfter(r.url, r.ms) \in Seq(Endpoint)
<1>1. r.url \in Urls /\ r.ms \in Nat /\ Shortened[r.url] \in Urls
  BY MetricsAssumption
<1>2. ASSUME NEW k \in Listed(r.url)
      PROVE  CountedIn(k, r.ms, endpoints) \in Seq(Endpoint)
  <2>1. k \in 1 .. Len(endpoints) /\ endpoints \in Seq(Endpoint)
    BY <1>2 DEF Listed, MetricsTypes
  <2> QED BY <1>1, <2>1, EntryCounts
<1>3. Append(endpoints, [path |-> Shortened[r.url], count |-> 1, total_ms |-> r.ms])
          \in Seq(Endpoint)
  BY <1>1 DEF MetricsTypes, Endpoint
<1> QED BY <1>2, <1>3, EndpointsCases DEF MetricsTypes

\* Every step keeps the types.
LEMMA MetricsTyped == MetricsTypes /\ [MetricsNext]_metricsVars => MetricsTypes'
<1> SUFFICES ASSUME MetricsTypes, [MetricsNext]_metricsVars PROVE MetricsTypes'
  OBVIOUS
<1>1. ASSUME NEW r \in Served, MetricsUpdate(r) PROVE MetricsTypes'
  <2>1. r.url \in Urls /\ r.ms \in Nat /\ r.status \in 0 .. 5
    BY MetricsAssumption
  <2>2. endpoints' \in Seq(Endpoint)
    BY <1>1, EndpointsTyped DEF MetricsUpdate
  <2>3. min_duration_ms' \in Nat /\ max_duration_ms' \in Nat
    BY <1>1, <2>1, SmallerOne, LargerOne DEF MetricsUpdate, MetricsTypes
  <2>4. requests_by_method' \in [MetricMethods \cup {"other"} -> Nat]
    <3>1. MethodOf(r) \in MetricMethods \cup {"other"}
      BY DEF MethodOf
    <3>2. requests_by_method \in [MetricMethods \cup {"other"} -> Nat]
      BY DEF MetricsTypes
    <3>3. requests_by_method' =
              [requests_by_method EXCEPT ![MethodOf(r)] = @ + 1]
      BY <1>1 DEF MetricsUpdate
    <3> QED BY ONLY <3>1, <3>2, <3>3
  <2>5. requests_by_status' \in [0 .. 5 -> Nat]
    <3>1. requests_by_status \in [0 .. 5 -> Nat]
      BY DEF MetricsTypes
    <3>2. requests_by_status' = [requests_by_status EXCEPT ![r.status] = @ + 1]
      BY <1>1 DEF MetricsUpdate
    <3> QED BY <2>1, <3>1, <3>2
  <2>6. /\ total_requests' \in Nat /\ errors_4xx' \in Nat /\ errors_5xx' \in Nat
        /\ seen' \in Seq(Served)
    BY <1>1 DEF MetricsUpdate, MetricsTypes
  <2> QED BY <2>2, <2>3, <2>4, <2>5, <2>6 DEF MetricsTypes
<1>2. CASE MetricsPage \/ MetricsPageNoServer \/ UNCHANGED metricsVars
  BY <1>2 DEF MetricsPage, MetricsPageNoServer, metricsVars, counters, MetricsTypes
<1> QED BY <1>1, <1>2 DEF MetricsNext

\* The types hold when papago_new is done.
LEMMA MetricsStart == MetricsInit => MetricsTypes
<1> SUFFICES ASSUME MetricsInit PROVE MetricsTypes
  OBVIOUS
<1>1. endpoints \in Seq(Endpoint) /\ seen \in Seq(Served)
  BY DEF MetricsInit
<1>2. /\ requests_by_method \in [MetricMethods \cup {"other"} -> Nat]
      /\ requests_by_status \in [0 .. 5 -> Nat]
  BY DEF MetricsInit
<1>3. min_duration_ms \in Nat /\ max_duration_ms \in Nat
  BY MetricsAssumption DEF MetricsInit
<1> QED BY <1>1, <1>2, <1>3 DEF MetricsInit, MetricsTypes

\* The page grows by the entry that is printed.
LEMMA PageGrows ==
    ASSUME MetricsTypes
    PROVE  /\ PageLen(0) = HeadLen
           /\ \A n \in 0 .. Len(endpoints) : PageLen(n) \in Nat
           /\ \A n \in 1 .. Len(endpoints) :
                 /\ EntryLen[endpoints[n].path] \in Nat
                 /\ PageLen(n) = PageLen(n - 1) + EntryLen[endpoints[n].path]
<1> PICK m \in Nat : m = Len(endpoints)
  BY DEF MetricsTypes
<1>1. \A i \in 1 .. m : EntryLen[endpoints[i].path] \in Nat
  <2>1. \A i \in 1 .. m : endpoints[i] \in Endpoint
    BY DEF MetricsTypes
  <2> QED BY <2>1, MetricsAssumption DEF Endpoint
<1> DEFINE s(n) == [i \in 1 .. n |-> EntryLen[endpoints[i].path]]
<1>2. HeadLen \in Nat
  BY MetricsAssumption
<1>3. ASSUME NEW n \in 0 .. m
      PROVE  /\ n \in Nat
             /\ s(n) \in Seq(Nat) /\ Len(s(n)) = n
             /\ \A i \in 1 .. n : s(n)[i] = EntryLen[endpoints[i].path]
  <2>1. n \in Nat /\ \A i \in 1 .. n : i \in 1 .. m
    OBVIOUS
  <2> QED BY <1>1, <2>1
<1>4. \A n \in 0 .. m : PageLen(n) = HeadLen + Total(s(n))
  BY DEF PageLen
<1>5. s(0) = <<>>
  OBVIOUS
<1> HIDE DEF s
<1>6. \A n \in 0 .. m : PageLen(n) \in Nat
  BY <1>2, <1>3, <1>4, TotalNat
<1>7. PageLen(0) = HeadLen
  BY <1>2, <1>4, <1>5, TotalEmpty
<1>8. ASSUME NEW n \in 1 .. m
      PROVE  PageLen(n) = PageLen(n - 1) + EntryLen[endpoints[n].path]
  <2>1. n \in 0 .. m /\ n - 1 \in 0 .. m /\ n \in 1 .. n /\ n = (n - 1) + 1
    OBVIOUS
  <2>2. /\ s(n) \in Seq(Nat) /\ s(n - 1) \in Seq(Nat)
        /\ Len(s(n)) = Len(s(n - 1)) + 1 /\ Len(s(n)) = n
        /\ s(n)[n] = EntryLen[endpoints[n].path]
    BY <1>3, <2>1
  <2>3. \A i \in 1 .. Len(s(n - 1)) : s(n)[i] = s(n - 1)[i]
    <3>1. Len(s(n - 1)) = n - 1
      BY <1>3, <2>1
    <3>2. \A i \in 1 .. n - 1 : i \in 1 .. n
      OBVIOUS
    <3>3. /\ \A i \in 1 .. n : s(n)[i] = EntryLen[endpoints[i].path]
          /\ \A i \in 1 .. n - 1 : s(n - 1)[i] = EntryLen[endpoints[i].path]
      BY <1>3, <2>1
    <3> QED BY ONLY <3>1, <3>2, <3>3
  <2>4. Total(s(n)) = Total(s(n - 1)) + EntryLen[endpoints[n].path]
    BY <2>2, <2>3, TotalOneMore
  <2>5. Total(s(n - 1)) \in Nat /\ EntryLen[endpoints[n].path] \in Nat
    BY <1>1, <2>2, TotalNat
  <2> QED BY <1>2, <1>4, <2>1, <2>4, <2>5
<1> QED BY <1>1, <1>6, <1>7, <1>8

\* papago_metrics_handler refuses the page only for an entry longer than the
\* margin, and leaves endpoints out only when the margin is reached.
THEOREM PageIsWhole == MetricsSpec => PageWhole
<1> DEFINE Whole ==
        /\ page'.status = 500 =>
              \E i \in DOMAIN endpoints :
                  EntryLen[endpoints[i].path] > PAGE_MARGIN
        /\ (page'.status = 200 /\ page'.entries < Len(endpoints)) =>
              PageLen(page'.entries) \in
                  (METRICS_BUF_SIZE - PAGE_MARGIN) .. (METRICS_BUF_SIZE - 1)
<1>1. ASSUME MetricsTypes, MetricsPage PROVE Whole
  <2> PICK m \in Nat : m = Len(endpoints)
    BY <1>1 DEF MetricsTypes
  <2> PICK low \in Int : low = METRICS_BUF_SIZE - PAGE_MARGIN
    BY MetricsAssumption
  <2> DEFINE Stops == {n \in 0 .. m : n = m \/ PageLen(n) >= low}
  <2>1. /\ DOMAIN endpoints = 1 .. m
        /\ METRICS_BUF_SIZE \in Nat /\ PAGE_MARGIN \in Nat
        /\ low < METRICS_BUF_SIZE /\ low = METRICS_BUF_SIZE - PAGE_MARGIN
        /\ HeadLen \in Nat /\ HeadLen <= low
    BY <1>1, MetricsAssumption DEF MetricsTypes
  <2>2. /\ PageLen(0) = HeadLen
        /\ \A n \in 0 .. m : PageLen(n) \in Nat
        /\ \A n \in 1 .. m :
              /\ EntryLen[endpoints[n].path] \in Nat
              /\ PageLen(n) = PageLen(n - 1) + EntryLen[endpoints[n].path]
    BY <1>1, PageGrows
  <2>3. Stops \in SUBSET Nat /\ m \in Stops
    OBVIOUS
  <2>4. PICK p : p = Min(Stops)
    OBVIOUS
  <2>5. p \in Stops /\ \A n \in Stops : p <= n
    BY <2>3, <2>4, LeastOne
  <2>6. PageEntries = p
    BY <2>4 DEF PageEntries
  <2>7. p \in 0 .. m /\ PageLen(p) \in Nat /\ (p < m => PageLen(p) >= low)
    BY <2>2, <2>5
  <2>8. page' = IF PageLen(p) >= METRICS_BUF_SIZE
                  THEN [status |-> 500, entries |-> 0]
                  ELSE [status |-> 200, entries |-> p]
    BY <1>1, <2>6, Zenon DEF MetricsPage
  <2>9. CASE PageLen(p) >= METRICS_BUF_SIZE
    <3>1. p # 0
      BY <2>1, <2>2, <2>9
    <3>2. p \in 1 .. m /\ p - 1 \in 0 .. m /\ p - 1 # m /\ ~(p <= p - 1)
      BY <2>7, <3>1
    <3>3. p - 1 \notin Stops
      BY <2>5, <3>2
    <3>4. PageLen(p - 1) \in Nat /\ ~(PageLen(p - 1) >= low)
      BY <2>2, <3>2, <3>3
    <3>5. /\ EntryLen[endpoints[p].path] \in Nat
          /\ PageLen(p) = PageLen(p - 1) + EntryLen[endpoints[p].path]
      BY <2>2, <3>2
    <3>6. EntryLen[endpoints[p].path] > PAGE_MARGIN
      BY <2>1, <2>7, <2>9, <3>4, <3>5
    <3>7. page'.status # 200
      BY <2>8, <2>9
    <3> QED BY <2>1, <3>2, <3>6, <3>7
  <2>10. CASE ~(PageLen(p) >= METRICS_BUF_SIZE)
    <3>1. page'.status = 200 /\ page'.entries = p
      BY <2>8, <2>10
    <3>2. p < m => PageLen(p) \in low .. (METRICS_BUF_SIZE - 1)
      BY <2>1, <2>7, <2>10
    <3> QED BY <2>1, <3>1, <3>2
  <2> QED BY <2>9, <2>10
<1>2. MetricsTypes => [MetricsPage => Whole]_metricsVars
  BY <1>1
<1> HIDE DEF Whole
<1>3. MetricsSpec => []MetricsTypes
  BY MetricsStart, MetricsTyped, PTL DEF MetricsSpec
<1>4. MetricsSpec => [][MetricsPage => Whole]_metricsVars
  BY <1>2, <1>3, PTL
<1> QED BY <1>4 DEF PageWhole, Whole

\* No URL so far was shortened.
Unshortened == \A i \in DOMAIN seen : Shortened[seen[i].url] = seen[i].url

\* As long as the table has room, every URL asked for is in it.
AllListed ==
    (Unshortened /\ Len(endpoints) < MAX_ENDPOINTS) =>
        \A i \in DOMAIN seen : \E k \in DOMAIN endpoints :
            endpoints[k].path = seen[i].url

\* One entry per URL, with its own requests and time.
Entries ==
    Unshortened =>
        \A i \in DOMAIN endpoints :
            /\ \A k \in DOMAIN endpoints :
                  endpoints[k].path = endpoints[i].path => k = i
            /\ \A u \in Urls : endpoints[i].path = u =>
                  /\ endpoints[i].count = AskedFor(u)
                  /\ endpoints[i].total_ms = TimeOf(u)

\* The requests the table has counted.
ListedTotal == Total([i \in DOMAIN endpoints |-> endpoints[i].count])

\* They are requests, and all of them while there is room.
Requests ==
    /\ ListedTotal <= Len(seen)
    /\ Len(endpoints) < MAX_ENDPOINTS => ListedTotal = Len(seen)

\* The inductive invariant.
AgreeInv == MetricsTypes /\ CountersAgree /\ Requests /\ AllListed /\ Entries

\* Some of the first n, and one more.
LEMMA OneMore ==
    ASSUME NEW n \in Nat, NEW A, A \subseteq 1 .. n
    PROVE  /\ Cardinality(A) \in Nat
           /\ Cardinality(A \cup {n + 1}) = Cardinality(A) + 1
<1>1. IsFiniteSet(A)
  <2>1. IsFiniteSet(1 .. n)
    BY FS_Interval
  <2> QED BY <2>1, FS_Subset
<1>2. n + 1 \notin A
  OBVIOUS
<1> QED BY <1>1, <1>2, FS_CardinalityType, FS_AddElement

\* The requests with one more.
LEMMA SeenAppend ==
    ASSUME seen \in Seq(Served), NEW r \in Served, seen' = Append(seen, r),
           NEW n \in Nat, n = Len(seen)
    PROVE  /\ Len(seen') = n + 1 /\ DOMAIN seen = 1 .. n
           /\ DOMAIN seen' = 1 .. (n + 1) /\ seen' \in Seq(Served)
           /\ \A i \in 1 .. n : seen'[i] = seen[i]
           /\ seen'[n + 1] = r
OBVIOUS

\* The counters of a step of update_metrics.
LEMMA CountersStep ==
    ASSUME MetricsTypes, CountersAgree, NEW r \in Served, MetricsUpdate(r)
    PROVE  CountersAgree'
<1> PICK n \in Nat : n = Len(seen)
  BY DEF MetricsTypes
<1>1. /\ Len(seen') = n + 1 /\ DOMAIN seen = 1 .. n /\ DOMAIN seen' = 1 .. (n + 1)
      /\ \A i \in 1 .. n : seen'[i] = seen[i]
      /\ seen'[n + 1] = r
  BY SeenAppend DEF MetricsTypes, MetricsUpdate
<1>2. r.ms \in Nat /\ r.status \in 0 .. 5
  BY MetricsAssumption
<1>3. (total_requests = Len(seen))'
  BY <1>1 DEF MetricsTypes, MetricsUpdate, CountersAgree
<1>4. ASSUME NEW m \in MetricMethods \cup {"other"}
      PROVE  (requests_by_method[m] =
                  Cardinality({i \in DOMAIN seen : MethodOf(seen[i]) = m}))'
  <2> DEFINE A == {i \in 1 .. n : MethodOf(seen[i]) = m}
             B == {i \in 1 .. (n + 1) : MethodOf(seen'[i]) = m}
  <2>1. requests_by_method[m] = Cardinality(A) /\ A \subseteq 1 .. n
    BY <1>1 DEF CountersAgree
  <2>2. CASE MethodOf(r) = m
    <3>1. B = A \cup {n + 1}
      <4>1. \A i : i \in 1 .. (n + 1) <=> i \in 1 .. n \/ i = n + 1
        OBVIOUS
      <4>2. n + 1 \notin 1 .. n
        OBVIOUS
      <4>3. \A i : i \in B <=> i \in A \cup {n + 1}
        BY <1>1, <2>2, <4>1, <4>2
      <4> QED BY <4>3
    <3>2. requests_by_method'[m] = requests_by_method[m] + 1
      BY <2>2 DEF MetricsUpdate, MetricsTypes
    <3> HIDE DEF A, B
    <3>3. Cardinality(B) = Cardinality(A) + 1
      BY <2>1, <3>1, OneMore
    <3> QED BY <1>1, <2>1, <3>2, <3>3 DEF B
  <2>3. CASE MethodOf(r) # m
    <3>1. B = A
      <4>1. \A i : i \in 1 .. (n + 1) <=> i \in 1 .. n \/ i = n + 1
        OBVIOUS
      <4>3. \A i : i \in B <=> i \in A
        BY <1>1, <2>3, <4>1
      <4> QED BY <4>3
    <3>2. requests_by_method'[m] = requests_by_method[m]
      BY <2>3 DEF MetricsUpdate, MetricsTypes
    <3> QED BY <1>1, <2>1, <3>1, <3>2
  <2> QED BY <2>2, <2>3
<1>5. ASSUME NEW c \in 0 .. 5
      PROVE  /\ (requests_by_status[c] =
                     Cardinality({i \in DOMAIN seen : seen[i].status = c}))'
             /\ requests_by_status'[c] =
                    requests_by_status[c] + (IF r.status = c THEN 1 ELSE 0)
  <2> DEFINE A == {i \in 1 .. n : seen[i].status = c}
             B == {i \in 1 .. (n + 1) : seen'[i].status = c}
  <2>1. /\ requests_by_status[c] = Cardinality(A) /\ A \subseteq 1 .. n
        /\ requests_by_status \in [0 .. 5 -> Nat] /\ requests_by_status[c] \in Nat
        /\ requests_by_status' = [requests_by_status EXCEPT ![r.status] = @ + 1]
    BY <1>1 DEF CountersAgree, MetricsTypes, MetricsUpdate
  <2>2. CASE r.status = c
    <3>1. B = A \cup {n + 1}
      <4>1. \A i : i \in 1 .. (n + 1) <=> i \in 1 .. n \/ i = n + 1
        OBVIOUS
      <4>2. n + 1 \notin 1 .. n
        OBVIOUS
      <4>3. \A i : i \in B <=> i \in A \cup {n + 1}
        BY <1>1, <2>2, <4>1, <4>2
      <4> QED BY <4>3
    <3>2. requests_by_status'[c] = requests_by_status[c] + 1
      BY <2>1, <2>2
    <3> HIDE DEF A, B
    <3>3. Cardinality(B) = Cardinality(A) + 1
      BY <2>1, <3>1, OneMore
    <3> QED BY <1>1, <2>1, <2>2, <3>2, <3>3 DEF B
  <2>3. CASE r.status # c
    <3>1. B = A
      <4>1. \A i : i \in 1 .. (n + 1) <=> i \in 1 .. n \/ i = n + 1
        OBVIOUS
      <4>3. \A i : i \in B <=> i \in A
        BY <1>1, <2>3, <4>1
      <4> QED BY <4>3
    <3>2. requests_by_status'[c] = requests_by_status[c]
      BY <1>2, <2>1, <2>3
    <3>3. requests_by_status'[c] =
              requests_by_status[c] + (IF r.status = c THEN 1 ELSE 0)
      BY <2>1, <2>3, <3>2
    <3>4. {i \in DOMAIN seen' : seen'[i].status = c} = B
      BY <1>1
    <3> HIDE DEF A, B
    <3> QED BY <2>1, <3>1, <3>2, <3>3, <3>4
  <2> QED BY <2>2, <2>3
<1>6. (errors_4xx = requests_by_status[4] /\ errors_5xx = requests_by_status[5])'
  <2>1. 4 \in 0 .. 5 /\ 5 \in 0 .. 5
    OBVIOUS
  <2>2. /\ errors_4xx = requests_by_status[4] /\ errors_5xx = requests_by_status[5]
        /\ errors_4xx' = errors_4xx + (IF r.status = 4 THEN 1 ELSE 0)
        /\ errors_5xx' = errors_5xx + (IF r.status = 5 THEN 1 ELSE 0)
    BY DEF CountersAgree, MetricsUpdate
  <2> QED BY <1>5, <2>1, <2>2
<1>7. ASSUME NEW i \in DOMAIN seen'
      PROVE  (seen[i].ms \in min_duration_ms .. max_duration_ms)'
  <2>1. /\ min_duration_ms \in Nat /\ max_duration_ms \in Nat
        /\ min_duration_ms' =
              IF min_duration_ms <= r.ms THEN min_duration_ms ELSE r.ms
        /\ max_duration_ms' =
              IF max_duration_ms >= r.ms THEN max_duration_ms ELSE r.ms
    BY <1>2, SmallerOne, LargerOne DEF MetricsUpdate, MetricsTypes
  <2>2. CASE i = n + 1
    BY <1>1, <1>2, <2>1, <2>2
  <2>3. CASE i \in 1 .. n
    <3>1. seen'[i].ms \in min_duration_ms .. max_duration_ms
      BY <1>1, <2>3 DEF CountersAgree
    <3> QED BY <1>2, <2>1, <3>1
  <2> QED BY <1>1, <2>2, <2>3
<1> QED BY <1>3, <1>4, <1>5, <1>6, <1>7 DEF CountersAgree

\* The requests and the time of a URL, with one request more.
LEMMA UrlStep ==
    ASSUME seen \in Seq(Served), NEW r \in Served, seen' = Append(seen, r),
           NEW u
    PROVE  /\ AskedFor(u) \in Nat /\ TimeOf(u) \in Nat
           /\ AskedFor(u)' = AskedFor(u) + (IF r.url = u THEN 1 ELSE 0)
           /\ TimeOf(u)' = TimeOf(u) + (IF r.url = u THEN r.ms ELSE 0)
<1> PICK n \in Nat : n = Len(seen)
  OBVIOUS
<1>1. /\ Len(seen') = n + 1 /\ DOMAIN seen = 1 .. n /\ DOMAIN seen' = 1 .. (n + 1)
      /\ \A i \in 1 .. n : seen'[i] = seen[i]
      /\ seen'[n + 1] = r
      /\ \A i \in 1 .. n : seen[i] \in Served
  BY SeenAppend
<1>2. /\ r.ms \in Nat /\ \A i \in 1 .. n : seen[i].ms \in Nat
  BY <1>1, MetricsAssumption
<1>3. \A i : i \in 1 .. (n + 1) <=> i \in 1 .. n \/ i = n + 1
  OBVIOUS
<1>4. n + 1 \notin 1 .. n
  OBVIOUS
<1>5. AskedFor(u) \in Nat /\ AskedFor(u)' = AskedFor(u) + (IF r.url = u THEN 1 ELSE 0)
  <2> DEFINE A == {i \in 1 .. n : seen[i].url = u}
             B == {i \in 1 .. (n + 1) : seen'[i].url = u}
  <2>1. AskedFor(u) = Cardinality(A) /\ AskedFor(u)' = Cardinality(B)
    BY <1>1 DEF AskedFor
  <2>2. A \subseteq 1 .. n
    OBVIOUS
  <2>3. r.url = u => B = A \cup {n + 1}
    <3> SUFFICES ASSUME r.url = u PROVE \A i : i \in B <=> i \in A \cup {n + 1}
      OBVIOUS
    <3> QED BY <1>1, <1>3, <1>4
  <2>4. r.url # u => B = A
    <3> SUFFICES ASSUME r.url # u PROVE \A i : i \in B <=> i \in A
      OBVIOUS
    <3> QED BY <1>1, <1>3
  <2> HIDE DEF A, B
  <2>5. Cardinality(A) \in Nat /\ Cardinality(A \cup {n + 1}) = Cardinality(A) + 1
    BY <2>2, OneMore
  <2>6. CASE r.url = u
    BY <2>1, <2>3, <2>5, <2>6
  <2>7. CASE r.url # u
    BY <2>1, <2>4, <2>5, <2>7
  <2> QED BY <2>6, <2>7
<1>6. TimeOf(u) \in Nat /\ TimeOf(u)' = TimeOf(u) + (IF r.url = u THEN r.ms ELSE 0)
  <2> DEFINE s == [i \in 1 .. n |-> IF seen[i].url = u THEN seen[i].ms ELSE 0]
             w == [i \in 1 .. (n + 1) |-> IF seen'[i].url = u THEN seen'[i].ms ELSE 0]
  <2>1. TimeOf(u) = Total(s) /\ TimeOf(u)' = Total(w)
    BY <1>1 DEF TimeOf
  <2>2. s \in Seq(Nat) /\ Len(s) = n
    BY <1>2
  <2>3. \A i \in 1 .. (n + 1) : seen'[i].ms \in Nat
    BY <1>1, <1>2, <1>3
  <2>4. w \in Seq(Nat) /\ Len(w) = n + 1
    BY <2>3
  <2>5. \A i \in 1 .. n : w[i] = s[i]
    BY <1>1, <1>3
  <2>6. w[n + 1] = IF r.url = u THEN r.ms ELSE 0
    BY <1>1, <1>3
  <2> HIDE DEF s, w
  <2>7. Total(w) = Total(s) + w[n + 1] /\ Total(s) \in Nat
    BY <2>2, <2>4, <2>5, TotalOneMore, TotalNat
  <2> QED BY <2>1, <2>6, <2>7
<1> QED BY <1>5, <1>6

\* A URL nobody asked for.
LEMMA NeverAsked ==
    ASSUME seen \in Seq(Served), NEW u, \A i \in DOMAIN seen : seen[i].url # u
    PROVE  AskedFor(u) = 0 /\ TimeOf(u) = 0
<1> PICK n \in Nat : n = Len(seen)
  OBVIOUS
<1>1. DOMAIN seen = 1 .. n
  OBVIOUS
<1>2. AskedFor(u) = 0
  <2>1. {i \in DOMAIN seen : seen[i].url = u} = {}
    OBVIOUS
  <2> QED BY <2>1, FS_EmptySet DEF AskedFor
<1>3. TimeOf(u) = Total([i \in 1 .. n |-> 0])
  <2>1. [i \in DOMAIN seen |-> IF seen[i].url = u THEN seen[i].ms ELSE 0] =
        [i \in 1 .. n |-> 0]
    BY <1>1
  <2> QED BY <2>1 DEF TimeOf
<1> DEFINE z == [i \in 1 .. n |-> 0]
           f == [i \in 0 .. n |-> 0]
<1>4. z \in Seq(Nat) /\ Len(z) = n /\ f[n] = 0
  OBVIOUS
<1>5. f = [i \in 0 .. n |-> IF i = 0 THEN 0 ELSE f[i - 1] + z[i]]
  <2>1. ASSUME NEW i \in 0 .. n, i # 0 PROVE f[i - 1] = 0 /\ z[i] = 0
    <3>1. i - 1 \in 0 .. n /\ i \in 1 .. n
      BY <2>1
    <3> QED BY <3>1
  <2> QED BY <2>1
<1> HIDE DEF z, f
<1>6. Adds(z, f)
  BY <1>4, <1>5 DEF Adds
<1>7. Total(z) = 0
  BY <1>4, <1>6, TotalIs
<1> QED BY <1>2, <1>3, <1>7 DEF z

\* The requests in the table, after a step of update_metrics.
LEMMA RequestsStep ==
    ASSUME MetricsTypes, Requests, NEW r \in Served, MetricsUpdate(r)
    PROVE  Requests'
<1> PICK n \in Nat : n = Len(seen)
  BY DEF MetricsTypes
<1> PICK m \in Nat : m = Len(endpoints)
  BY DEF MetricsTypes
<1>1. Len(seen') = n + 1
  BY SeenAppend DEF MetricsTypes, MetricsUpdate
<1>2. /\ endpoints \in Seq(Endpoint) /\ DOMAIN endpoints = 1 .. m
      /\ \A i \in 1 .. m : endpoints[i].count \in Nat
      /\ MAX_ENDPOINTS \in Nat /\ r.ms \in Nat
  <2>1. endpoints \in Seq(Endpoint) /\ DOMAIN endpoints = 1 .. m
    BY DEF MetricsTypes
  <2>2. \A i \in 1 .. m : endpoints[i] \in Endpoint
    BY <2>1
  <2>3. MAX_ENDPOINTS \in Nat /\ r.ms \in Nat
    BY MetricsAssumption
  <2> QED BY <2>1, <2>2, <2>3 DEF Endpoint
<1> DEFINE s == [i \in 1 .. m |-> endpoints[i].count]
<1>3. s \in Seq(Nat) /\ Len(s) = m /\ ListedTotal = Total(s)
  BY <1>2 DEF ListedTotal
<1>s. \A i \in 1 .. m : s[i] = endpoints[i].count
  OBVIOUS
<1> HIDE DEF s
<1>4. Total(s) \in Nat
  BY <1>3, TotalNat
<1>5. Total(s) <= n /\ (m < MAX_ENDPOINTS => Total(s) = n)
  BY <1>3 DEF Requests
<1>6. ASSUME NEW k \in Listed(r.url),
             endpoints' = CountedIn(k, r.ms, endpoints)
      PROVE  Requests'
  <2>1. k \in 1 .. m
    BY <1>2 DEF Listed
  <2>2. /\ endpoints' \in Seq(Endpoint) /\ Len(endpoints') = m
        /\ endpoints'[k].count = endpoints[k].count + 1
        /\ \A i \in 1 .. m : i # k => endpoints'[i] = endpoints[i]
    BY <1>6, EntryUpdated
  <2> DEFINE w == [i \in 1 .. m |-> endpoints'[i].count]
  <2>3. /\ DOMAIN endpoints' = 1 .. m
        /\ \A i \in 1 .. m : endpoints'[i].count \in Nat
    <3>1. DOMAIN endpoints' = 1 .. m
      BY <2>2
    <3>2. \A i \in 1 .. m : endpoints'[i] \in Endpoint
      BY <2>2, <3>1
    <3> QED BY <3>1, <3>2 DEF Endpoint
  <2>4. /\ w \in Seq(Nat) /\ Len(w) = m /\ ListedTotal' = Total(w)
        /\ w[k] = s[k] + 1 /\ \A i \in 1 .. m : i # k => w[i] = s[i]
    BY <1>s, <2>1, <2>2, <2>3 DEF ListedTotal
  <2> HIDE DEF w
  <2>5. Total(w) = Total(s) + 1
    BY <1>3, <2>1, <2>4, TotalGrows
  <2> QED BY <1>1, <1>4, <1>5, <2>2, <2>4, <2>5 DEF Requests
<1>7. ASSUME m < MAX_ENDPOINTS,
             endpoints' = Append(endpoints, [path |-> Shortened[r.url],
                                             count |-> 1, total_ms |-> r.ms])
      PROVE  Requests'
  <2>1. /\ Len(endpoints') = m + 1 /\ DOMAIN endpoints' = 1 .. (m + 1)
        /\ \A i \in 1 .. m : endpoints'[i] = endpoints[i]
        /\ endpoints'[m + 1].count = 1
    BY <1>2, <1>7
  <2> DEFINE w == [i \in 1 .. (m + 1) |-> endpoints'[i].count]
  <2>2. \A i \in 1 .. (m + 1) : endpoints'[i].count \in Nat
    BY <1>2, <2>1
  <2>3. /\ w \in Seq(Nat) /\ Len(w) = m + 1 /\ ListedTotal' = Total(w)
        /\ w[m + 1] = 1 /\ \A i \in 1 .. m : w[i] = s[i]
    BY <1>s, <2>1, <2>2 DEF ListedTotal
  <2> HIDE DEF w
  <2>4. Total(w) = Total(s) + 1
    BY <1>3, <2>3, TotalOneMore
  <2> QED BY <1>1, <1>4, <1>5, <1>7, <2>1, <2>3, <2>4 DEF Requests
<1>8. ASSUME ~(m < MAX_ENDPOINTS), endpoints' = endpoints
      PROVE  Requests'
  <2>1. ListedTotal' = ListedTotal
    BY <1>8 DEF ListedTotal
  <2> QED BY <1>1, <1>3, <1>4, <1>5, <1>8, <2>1 DEF Requests
<1>9. endpoints' = EndpointsAfter(r.url, r.ms)
  BY DEF MetricsUpdate
<1> QED BY <1>6, <1>7, <1>8, <1>9, EndpointsCases

\* The entries, after a step of update_metrics.
LEMMA EntriesStep ==
    ASSUME MetricsTypes, AllListed, Entries, NEW r \in Served, MetricsUpdate(r)
    PROVE  AllListed' /\ Entries'
<1> SUFFICES ASSUME Unshortened' PROVE AllListed' /\ Entries'
  BY DEF AllListed, Entries
<1> PICK n \in Nat : n = Len(seen)
  BY DEF MetricsTypes
<1> PICK m \in Nat : m = Len(endpoints)
  BY DEF MetricsTypes
<1>1. /\ DOMAIN seen = 1 .. n /\ DOMAIN seen' = 1 .. (n + 1)
      /\ \A i \in 1 .. n : seen'[i] = seen[i]
      /\ seen'[n + 1] = r
  BY SeenAppend DEF MetricsTypes, MetricsUpdate
<1>i. \A i : i \in 1 .. (n + 1) <=> i \in 1 .. n \/ i = n + 1
  OBVIOUS
<1>2. Unshortened /\ Shortened[r.url] = r.url
  BY <1>1, <1>i DEF Unshortened
<1>3. /\ endpoints \in Seq(Endpoint) /\ DOMAIN endpoints = 1 .. m
      /\ \A i \in 1 .. m : endpoints[i].count \in Nat /\ endpoints[i].total_ms \in Nat
      /\ MAX_ENDPOINTS \in Nat /\ r.ms \in Nat
  <2>1. endpoints \in Seq(Endpoint) /\ DOMAIN endpoints = 1 .. m
    BY DEF MetricsTypes
  <2>2. \A i \in 1 .. m : endpoints[i] \in Endpoint
    BY <2>1
  <2>3. MAX_ENDPOINTS \in Nat /\ r.ms \in Nat
    BY MetricsAssumption
  <2> QED BY <2>1, <2>2, <2>3 DEF Endpoint
<1>4. \A u : /\ AskedFor(u) \in Nat /\ TimeOf(u) \in Nat
             /\ AskedFor(u)' = AskedFor(u) + (IF r.url = u THEN 1 ELSE 0)
             /\ TimeOf(u)' = TimeOf(u) + (IF r.url = u THEN r.ms ELSE 0)
  BY UrlStep DEF MetricsTypes, MetricsUpdate
<1>5. m < MAX_ENDPOINTS =>
          \A i \in 1 .. n : \E k \in 1 .. m : endpoints[k].path = seen[i].url
  BY <1>1, <1>2, <1>3 DEF AllListed
<1>6. \A i \in 1 .. m :
          /\ \A k \in 1 .. m : endpoints[k].path = endpoints[i].path => k = i
          /\ \A u \in Urls : endpoints[i].path = u =>
                endpoints[i].count = AskedFor(u) /\ endpoints[i].total_ms = TimeOf(u)
  BY <1>2, <1>3 DEF Entries
<1>7. ASSUME NEW k \in Listed(r.url),
             endpoints' = CountedIn(k, r.ms, endpoints)
      PROVE  AllListed' /\ Entries'
  <2>1. k \in 1 .. m /\ endpoints[k].path = r.url
    BY <1>3 DEF Listed
  <2>2. /\ Len(endpoints') = m /\ DOMAIN endpoints' = 1 .. m
        /\ endpoints'[k].path = endpoints[k].path
        /\ endpoints'[k].count = endpoints[k].count + 1
        /\ endpoints'[k].total_ms = endpoints[k].total_ms + r.ms
        /\ \A i \in 1 .. m : i # k => endpoints'[i] = endpoints[i]
    BY <1>7, EntryUpdated
  <2>3. \A i \in 1 .. m : endpoints'[i].path = endpoints[i].path
    BY <2>2
  <2>4. AllListed'
    <3> SUFFICES ASSUME m < MAX_ENDPOINTS, NEW i \in 1 .. (n + 1)
                 PROVE  \E x \in 1 .. m : endpoints'[x].path = seen'[i].url
      BY <1>1, <2>2 DEF AllListed
    <3>1. CASE i = n + 1
      BY <1>1, <2>1, <2>3, <3>1
    <3>2. CASE i \in 1 .. n
      BY <1>1, <1>5, <2>3, <3>2
    <3> QED BY <1>i, <3>1, <3>2
  <2>5. Entries'
    <3>1. ASSUME NEW i \in 1 .. m, NEW u \in Urls, endpoints'[i].path = u
          PROVE  (endpoints[i].count = AskedFor(u) /\ endpoints[i].total_ms = TimeOf(u))'
      <4>1. endpoints[i].path = u
        BY <2>3, <3>1
      <4>2. endpoints[i].count = AskedFor(u) /\ endpoints[i].total_ms = TimeOf(u)
        BY <1>6, <4>1
      <4>3. CASE i = k
        <5>1. r.url = u
          BY <2>1, <4>1, <4>3
        <5> QED BY <1>4, <2>2, <4>2, <4>3, <5>1
      <4>4. CASE i # k
        <5>1. r.url # u
          BY <1>6, <2>1, <4>1, <4>4
        <5>2. endpoints'[i] = endpoints[i]
          BY <2>2, <4>4
        <5> QED BY <1>4, <4>2, <5>1, <5>2
      <4> QED BY <4>3, <4>4
    <3>2. \A i, x \in 1 .. m : endpoints'[x].path = endpoints'[i].path => x = i
      BY <1>6, <2>3
    <3> QED BY <2>2, <3>1, <3>2 DEF Entries
  <2> QED BY <2>4, <2>5
<1>8. ASSUME Listed(r.url) = {}, m < MAX_ENDPOINTS,
             endpoints' = Append(endpoints, [path |-> Shortened[r.url],
                                             count |-> 1, total_ms |-> r.ms])
      PROVE  AllListed' /\ Entries'
  <2>i. \A i : i \in 1 .. (m + 1) <=> i \in 1 .. m \/ i = m + 1
    OBVIOUS
  <2>1. /\ Len(endpoints') = m + 1 /\ DOMAIN endpoints' = 1 .. (m + 1)
        /\ \A i \in 1 .. m : endpoints'[i] = endpoints[i]
        /\ endpoints'[m + 1] = [path |-> r.url, count |-> 1, total_ms |-> r.ms]
    BY <1>2, <1>3, <1>8
  <2>2. \A i \in 1 .. m : endpoints[i].path # r.url
    BY <1>3, <1>8 DEF Listed
  <2>3. \A i \in 1 .. n : seen[i].url # r.url
    BY <1>5, <1>8, <2>2
  <2>4. AskedFor(r.url) = 0 /\ TimeOf(r.url) = 0
    BY <2>3, NeverAsked, <1>1 DEF MetricsTypes
  <2>5. AllListed'
    <3> SUFFICES ASSUME NEW i \in 1 .. (n + 1)
                 PROVE  \E x \in 1 .. (m + 1) : endpoints'[x].path = seen'[i].url
      BY <1>1, <2>1 DEF AllListed
    <3>1. CASE i = n + 1
      BY <1>1, <2>i, <2>1, <3>1
    <3>2. CASE i \in 1 .. n
      BY <1>1, <1>5, <1>8, <2>i, <2>1, <3>2
    <3> QED BY <1>i, <3>1, <3>2
  <2>6. Entries'
    <3>1. ASSUME NEW i \in 1 .. (m + 1), NEW u \in Urls, endpoints'[i].path = u
          PROVE  (endpoints[i].count = AskedFor(u) /\ endpoints[i].total_ms = TimeOf(u))'
      <4>1. CASE i = m + 1
        <5>1. r.url = u /\ endpoints'[i].count = 1 /\ endpoints'[i].total_ms = r.ms
          BY <2>1, <3>1, <4>1
        <5>2. AskedFor(u)' = 0 + 1 /\ TimeOf(u)' = 0 + r.ms
          BY <1>4, <2>4, <5>1
        <5> QED BY <1>3, <5>1, <5>2
      <4>2. CASE i \in 1 .. m
        <5>1. endpoints'[i] = endpoints[i] /\ endpoints[i].path = u /\ r.url # u
          BY <2>1, <2>2, <3>1, <4>2
        <5>2. endpoints[i].count = AskedFor(u) /\ endpoints[i].total_ms = TimeOf(u)
          BY <1>6, <4>2, <5>1
        <5> QED BY <1>4, <5>1, <5>2
      <4> QED BY <2>i, <4>1, <4>2
    <3>2. ASSUME NEW i \in 1 .. (m + 1), NEW x \in 1 .. (m + 1),
                 endpoints'[x].path = endpoints'[i].path
          PROVE  x = i
      <4>1. /\ endpoints'[m + 1].path = r.url
            /\ \A y \in 1 .. m : endpoints'[y].path = endpoints[y].path
        BY <2>1
      <4> QED BY <1>6, <2>i, <2>2, <3>2, <4>1
    <3> QED BY <2>1, <3>1, <3>2 DEF Entries
  <2> QED BY <2>5, <2>6
<1>9. ASSUME Listed(r.url) = {}, ~(m < MAX_ENDPOINTS), endpoints' = endpoints
      PROVE  AllListed' /\ Entries'
  <2>1. \A i \in 1 .. m : endpoints[i].path # r.url
    BY <1>3, <1>9 DEF Listed
  <2>2. AllListed'
    BY <1>9 DEF AllListed
  <2>3. ASSUME NEW i \in 1 .. m, NEW u \in Urls, endpoints'[i].path = u
        PROVE  (endpoints[i].count = AskedFor(u) /\ endpoints[i].total_ms = TimeOf(u))'
    <3>1. endpoints[i].path = u /\ r.url # u
      BY <1>9, <2>1, <2>3
    <3>2. endpoints[i].count = AskedFor(u) /\ endpoints[i].total_ms = TimeOf(u)
      BY <1>6, <3>1
    <3> QED BY <1>4, <1>9, <3>1, <3>2
  <2>4. Entries'
    BY <1>3, <1>6, <1>9, <2>3 DEF Entries
  <2> QED BY <2>2, <2>4
<1>10. endpoints' = EndpointsAfter(r.url, r.ms)
  BY DEF MetricsUpdate
<1> QED BY <1>7, <1>8, <1>9, <1>10, EndpointsCases

\* What /metrics says, after any step.
LEMMA AgreeStep == AgreeInv /\ [MetricsNext]_metricsVars => AgreeInv'
<1> SUFFICES ASSUME AgreeInv, [MetricsNext]_metricsVars PROVE AgreeInv'
  OBVIOUS
<1>1. MetricsTypes'
  BY MetricsTyped DEF AgreeInv
<1>2. ASSUME NEW r \in Served, MetricsUpdate(r)
      PROVE  (CountersAgree /\ Requests /\ AllListed /\ Entries)'
  BY <1>2, CountersStep, RequestsStep, EntriesStep DEF AgreeInv
<1>3. CASE UNCHANGED <<counters, seen>>
  <2>1. CountersAgree'
    BY <1>3 DEF AgreeInv, CountersAgree, counters, MethodOf
  <2>u. UNCHANGED <<endpoints, seen>>
    BY <1>3 DEF counters
  <2>2. Requests' /\ AllListed' /\ Entries'
    <3>1. Requests'
      BY <2>u DEF AgreeInv, Requests, ListedTotal
    <3>2. AllListed'
      BY <2>u DEF AgreeInv, AllListed, Unshortened
    <3>3. Entries'
      BY <2>u DEF AgreeInv, Entries, Unshortened, AskedFor, TimeOf
    <3> QED BY <3>1, <3>2, <3>3
  <2> QED BY <1>1, <2>1, <2>2 DEF AgreeInv
<1> QED BY <1>1, <1>2, <1>3 DEF AgreeInv, MetricsNext, MetricsPage,
                               MetricsPageNoServer, metricsVars

\* update_metrics: whatever was requested, the counters it keeps side by side
\* agree with the requests, and the table of endpoints with them as long as it
\* has room and no URL was shortened.
THEOREM MetricsDoAgree == MetricsSpec => []MetricsAgree
<1>1. MetricsInit => AgreeInv
  <2> SUFFICES ASSUME MetricsInit PROVE AgreeInv
    OBVIOUS
  <2>1. MetricsTypes
    BY MetricsStart
  <2>2. /\ seen = <<>> /\ endpoints = <<>> /\ DOMAIN seen = {} /\ DOMAIN endpoints = {}
        /\ Len(seen) = 0
    BY DEF MetricsInit
  <2>3. CountersAgree
    <3>1. \A m : {i \in DOMAIN seen : MethodOf(seen[i]) = m} = {}
      BY <2>2
    <3>2. \A c : {i \in DOMAIN seen : seen[i].status = c} = {}
      BY <2>2
    <3>3. Cardinality({}) = 0
      BY FS_EmptySet
    <3>4. \A m \in MetricMethods \cup {"other"} :
              requests_by_method[m] =
                  Cardinality({i \in DOMAIN seen : MethodOf(seen[i]) = m})
      BY <3>1, <3>3 DEF MetricsInit
    <3>5. \A c \in 0 .. 5 :
              requests_by_status[c] =
                  Cardinality({i \in DOMAIN seen : seen[i].status = c})
      BY <3>2, <3>3 DEF MetricsInit
    <3>6. errors_4xx = requests_by_status[4] /\ errors_5xx = requests_by_status[5]
      BY DEF MetricsInit
    <3>7. total_requests = Len(seen)
      BY <2>2 DEF MetricsInit
    <3> QED BY <2>2, <3>4, <3>5, <3>6, <3>7 DEF CountersAgree
  <2>4. Requests
    <3>1. [i \in DOMAIN endpoints |-> endpoints[i].count] = <<>>
      BY <2>2
    <3> QED BY <2>2, <3>1, TotalEmpty DEF Requests, ListedTotal
  <2> QED BY <2>1, <2>2, <2>3, <2>4 DEF AgreeInv, AllListed, Entries
<1>2. AgreeInv => MetricsAgree
  <2> SUFFICES ASSUME AgreeInv PROVE EndpointsAgree
    BY DEF AgreeInv, MetricsAgree
  <2>1. ASSUME NEW i \in DOMAIN endpoints, Unshortened
        PROVE  /\ Listed(endpoints[i].path) = {i}
               /\ endpoints[i].count = AskedFor(endpoints[i].path)
               /\ endpoints[i].total_ms = TimeOf(endpoints[i].path)
    <3>1. endpoints[i] \in Endpoint
      BY DEF AgreeInv, MetricsTypes
    <3>2. endpoints[i].path \in Urls
      BY <3>1 DEF Endpoint
    <3>3. /\ endpoints[i].count = AskedFor(endpoints[i].path)
          /\ endpoints[i].total_ms = TimeOf(endpoints[i].path)
      BY <2>1, <3>2 DEF AgreeInv, Entries
    <3>4. \A k : k \in Listed(endpoints[i].path) <=> k \in {i}
      BY <2>1 DEF AgreeInv, Entries, Listed
    <3>5. Listed(endpoints[i].path) = {i}
      BY <3>4
    <3> QED BY <3>3, <3>5
  <2> QED BY <2>1 DEF AgreeInv, Requests, ListedTotal, EndpointsAgree, Unshortened
<1> QED BY <1>1, <1>2, AgreeStep, PTL DEF MetricsSpec

-----------------------------------------------------------------------------
(* Routes                                                                  *)

\* Those of S up to n.
UpTo(S, n) == {m \in S : m <= n}

\* They become one more at a member of S and only there.
LEMMA UpToGrows ==
    ASSUME NEW f \in Nat, NEW S, S \subseteq 1 .. f
    PROVE  /\ Cardinality(UpTo(S, 0)) = 0
           /\ UpTo(S, f) = S
           /\ Cardinality(S) \in Nat
           /\ \A n \in Nat :
                 /\ Cardinality(UpTo(S, n)) \in Nat
                 /\ Cardinality(UpTo(S, n)) <= Cardinality(S)
                 /\ Cardinality(UpTo(S, n + 1)) =
                       Cardinality(UpTo(S, n)) + (IF n + 1 \in S THEN 1 ELSE 0)
<1>0. \A m \in S : m \in Nat /\ 1 <= m /\ m <= f
  OBVIOUS
<1>1. IsFiniteSet(S)
  <2>1. IsFiniteSet(1 .. f)
    BY FS_Interval
  <2> QED BY <2>1, FS_Subset
<1>2. UpTo(S, 0) = {} /\ UpTo(S, f) = S
  <2>1. \A m \in S : ~(m <= 0) /\ m <= f
    BY <1>0
  <2> QED BY <2>1, Zenon DEF UpTo
<1>3. ASSUME NEW n \in Nat
      PROVE  /\ IsFiniteSet(UpTo(S, n))
             /\ Cardinality(UpTo(S, n)) <= Cardinality(S)
  <2>1. UpTo(S, n) \in SUBSET S
    BY DEF UpTo
  <2> QED BY <1>1, <2>1, FS_Subset
<1>4. ASSUME NEW n \in Nat
      PROVE  Cardinality(UpTo(S, n + 1)) =
                Cardinality(UpTo(S, n)) + (IF n + 1 \in S THEN 1 ELSE 0)
  <2>1. n + 1 \notin UpTo(S, n)
    BY DEF UpTo
  <2>2. UpTo(S, n + 1) = IF n + 1 \in S THEN UpTo(S, n) \cup {n + 1}
                                         ELSE UpTo(S, n)
    <3>1. \A m \in S : m <= n + 1 <=> m <= n \/ m = n + 1
      BY <1>0
    <3>2. n <= n + 1
      OBVIOUS
    <3> QED BY <3>1, <3>2, Zenon DEF UpTo
  <2>3. Cardinality(UpTo(S, n)) \in Nat
    BY <1>3, FS_CardinalityType
  <2>4. Cardinality(UpTo(S, n) \cup {n + 1}) = Cardinality(UpTo(S, n)) + 1
    BY <1>3, <2>1, FS_AddElement
  <2> QED BY <2>2, <2>3, <2>4
<1>5. \A n \in Nat : Cardinality(UpTo(S, n)) \in Nat
  BY <1>3, FS_CardinalityType
<1>6. Cardinality(S) \in Nat
  BY <1>1, FS_CardinalityType
<1> QED BY <1>2, <1>3, <1>4, <1>5, <1>6, FS_EmptySet

\* InOrder has a member of S at the place that counts the members up to it.
LEMMA InOrderAt ==
    ASSUME NEW f \in Nat, NEW S, S \subseteq 1 .. f, NEW n \in S
    PROVE  /\ Cardinality(UpTo(S, n)) \in 1 .. Cardinality(S)
           /\ InOrder(S)[Cardinality(UpTo(S, n))] = n
<1> DEFINE R(x) == Cardinality(UpTo(S, x))
<1>0. \A m \in S : m \in Nat
  OBVIOUS
<1>1. n \in Nat /\ n - 1 \in Nat /\ (n - 1) + 1 = n
  OBVIOUS
<1>r. /\ Cardinality(S) \in Nat
      /\ \A x \in Nat :
            /\ R(x) \in Nat /\ R(x) <= Cardinality(S)
            /\ R(x + 1) = R(x) + (IF x + 1 \in S THEN 1 ELSE 0)
  BY UpToGrows
<1> HIDE DEF R
<1>2. R(n) \in Nat /\ R(n - 1) \in Nat /\ R(n) = R(n - 1) + 1
      /\ R(n) <= Cardinality(S) /\ Cardinality(S) \in Nat
  <2>1. R((n - 1) + 1) = R(n - 1) + 1
    BY <1>1, <1>r
  <2> QED BY <1>1, <1>r, <2>1
<1>3. ASSUME NEW x \in S, NEW y \in S, x < y PROVE R(x) < R(y)
  <2>1. IsFiniteSet(S)
    <3>1. IsFiniteSet(1 .. f)
      BY FS_Interval
    <3> QED BY <3>1, FS_Subset
  <2>2. UpTo(S, y) \in SUBSET S
    BY DEF UpTo
  <2>3. IsFiniteSet(UpTo(S, y))
    BY <2>1, <2>2, FS_Subset
  <2>4. UpTo(S, x) \in SUBSET UpTo(S, y)
    <3>1. \A m \in S : m <= x => m <= y
      BY <1>0, <1>3
    <3> QED BY <3>1, Zenon DEF UpTo
  <2>5. y \in UpTo(S, y) /\ y \notin UpTo(S, x)
    BY <1>0, <1>3 DEF UpTo
  <2>6. R(x) <= R(y) /\ R(x) # R(y)
    BY <2>3, <2>4, <2>5, FS_Subset DEF R
  <2>7. R(x) \in Nat /\ R(y) \in Nat
    BY <1>0, <1>r
  <2> QED BY <2>6, <2>7
<1>4. R(n) \in 1 .. Cardinality(S)
  BY <1>2
<1>5. \A x \in S : R(x) = R(n) => x = n
  <2> SUFFICES ASSUME NEW x \in S, R(x) = R(n), x # n PROVE FALSE
    OBVIOUS
  <2>1. x \in Nat /\ (x < n \/ n < x) /\ R(n) \in Nat
    BY <1>2
  <2>2. R(x) < R(n) \/ R(n) < R(x)
    BY <1>3, <2>1
  <2> QED BY <2>1, <2>2
<1>6. InOrder(S)[R(n)] = CHOOSE x \in S : R(x) = R(n)
  BY <1>4 DEF InOrder, UpTo, R
<1>7. (CHOOSE x \in S : R(x) = R(n)) = n
  BY <1>5
<1> QED BY <1>4, <1>6, <1>7 DEF R

\* The values of a sequence.
Parts(s) == {s[i] : i \in DOMAIN s}

\* The segments of a path are a sequence.
LEMMA SegmentsSeq ==
    ASSUME NEW p \in Seq(STRING)
    PROVE  Segments(p) \in Seq(Parts(Segments(p)))
<1> DEFINE S == {n \in DOMAIN p : p[n] # ""}
           k == Cardinality(S)
<1>1. S \subseteq 1 .. Len(p) /\ Len(p) \in Nat
  <2>1. DOMAIN p = 1 .. Len(p) /\ Len(p) \in Nat
    OBVIOUS
  <2>2. S \subseteq DOMAIN p
    BY Zenon
  <2> QED BY <2>1, <2>2
<1> HIDE DEF S
<1>2. k \in Nat
  BY <1>1, UpToGrows
<1>3. Segments(p) = [i \in DOMAIN InOrder(S) |-> p[InOrder(S)[i]]]
  BY DEF Segments, S
<1>4. DOMAIN InOrder(S) = 1 .. k
  BY DEF InOrder
<1> DEFINE s == Segments(p)
<1>5. s = [i \in 1 .. k |-> s[i]]
  BY <1>3, <1>4
<1> HIDE DEF s, k
<1>6. \A i \in 1 .. k : s[i] \in Parts(s)
  BY <1>5 DEF Parts
<1> QED BY <1>2, <1>5, <1>6 DEF s

\* a holds what match_route knows after 0, 1, ... turns of its loop.
Turns(pt, qt, a) ==
    a = [n \in 0 .. Len(pt) |->
            IF n = 0 THEN [at |-> "matching", spans |-> <<>>]
            ELSE Turn(pt, qt, n, a[n - 1])]

\* Its loop has an end.
LEMMA TurnsExist ==
    ASSUME NEW pt, NEW qt, Len(pt) \in Nat PROVE \E a : Turns(pt, qt, a)
<1> DEFINE z == [at |-> "matching", spans |-> <<>>]
           E(k, a) == a = [n \in 0 .. k |->
                              IF n = 0 THEN z ELSE Turn(pt, qt, n, a[n - 1])]
           S == {k \in Nat : \E a : E(k, a)}
<1> HIDE DEF z
<1>1. 0 \in S
  <2> DEFINE a == [n \in 0 .. 0 |-> z]
  <2>1. a = [n \in 0 .. 0 |-> IF n = 0 THEN z ELSE Turn(pt, qt, n, a[n - 1])]
    OBVIOUS
  <2> HIDE DEF a
  <2> QED BY <2>1
<1>2. ASSUME NEW k \in Nat, k \in S PROVE k + 1 \in S
  <2>1. PICK a : E(k, a)
    BY <1>2
  <2>2. \A n \in 0 .. k : a[n] = IF n = 0 THEN z ELSE Turn(pt, qt, n, a[n - 1])
    BY <2>1
  <2> DEFINE b == [n \in 0 .. k + 1 |->
                      IF n = k + 1 THEN Turn(pt, qt, k + 1, a[k]) ELSE a[n]]
             c == [n \in 0 .. k + 1 |->
                      IF n = 0 THEN z ELSE Turn(pt, qt, n, b[n - 1])]
  <2>3. ASSUME NEW n \in 0 .. k + 1 PROVE b[n] = c[n]
    <3>1. CASE n = k + 1
      <4>1. n # 0 /\ n - 1 = k /\ k \in 0 .. k + 1 /\ k # k + 1
        BY <3>1
      <4>2. b[k] = a[k]
        BY <4>1
      <4> QED BY <3>1, <4>1, <4>2
    <3>2. CASE n # k + 1
      <4>1. n \in 0 .. k /\ b[n] = a[n]
        BY <3>2
      <4>2. CASE n = 0
        BY <2>2, <4>1, <4>2
      <4>3. CASE n # 0
        <5>1. n - 1 \in 0 .. k + 1 /\ n - 1 # k + 1
          BY <4>1, <4>3
        <5>2. b[n - 1] = a[n - 1]
          BY <5>1
        <5> QED BY <2>2, <4>1, <4>3, <5>2
      <4> QED BY <4>2, <4>3
    <3> QED BY <3>1, <3>2
  <2>4. b = c
    BY <2>3
  <2> HIDE DEF b
  <2> QED BY <2>4
<1> HIDE DEF S
<1>3. Nat \subseteq S
  BY <1>1, <1>2, NatSetInduction
<1>4. Len(pt) \in S
  BY <1>3
<1> QED BY <1>4 DEF S, Turns, z

\* What MatchRoute answers is read off its end.
LEMMA MatchRouteIs ==
    ASSUME NEW pattern, NEW path_, Len(Segments(pattern)) \in Nat
    PROVE  \E a :
             LET pt == Segments(pattern)
                 qt == Segments(path_)
                 end == a[Len(pt)]
             IN  /\ Turns(pt, qt, a)
                 /\ MatchRoute(pattern, path_) =
                      [ok |-> \/ end.at = "matched"
                              \/ end.at = "matching" /\ Len(pt) = Len(qt),
                       spans |-> end.spans]
<1> DEFINE pt == Segments(pattern)
           qt == Segments(path_)
           e(x) == [n \in 0 .. Len(pt) |->
                       IF n = 0 THEN [at |-> "matching", spans |-> <<>>]
                       ELSE Turn(pt, qt, n, x[n - 1])]
           a == CHOOSE x : x = e(x)
<1>1. MatchRoute(pattern, path_) =
        [ok |-> \/ a[Len(pt)].at = "matched"
                \/ a[Len(pt)].at = "matching" /\ Len(pt) = Len(qt),
         spans |-> a[Len(pt)].spans]
  BY DEF MatchRoute
<1> HIDE DEF pt, qt
<1>2. PICK f : Turns(pt, qt, f)
  BY TurnsExist DEF pt
<1>3. f = e(f)
  BY <1>2 DEF Turns
<1>4. a = e(a)
  BY <1>3
<1>5. Turns(pt, qt, a)
  BY <1>4 DEF Turns
<1> HIDE DEF a
<1> QED BY <1>1, <1>5 DEF pt, qt

\* The fixed part of a pattern ends at its first '*' or with the pattern.
LEMMA FixedIs ==
    ASSUME NEW pt, NEW L \in Nat, L = Len(pt)
    PROVE  /\ Fixed(pt) \in 0 .. L
           /\ \A i \in 1 .. Fixed(pt) : pt[i] # Wild
           /\ Contains(pt, Wild) => /\ Fixed(pt) + 1 \in 1 .. L
                                    /\ pt[Fixed(pt) + 1] = Wild
           /\ ~Contains(pt, Wild) => Fixed(pt) = L
<1>1. CASE Contains(pt, Wild)
  <2> DEFINE S == {n \in 1 .. L : pt[n] = Wild}
             m == Min(S)
  <2>1. S # {} /\ S \in SUBSET Nat
    BY <1>1 DEF Contains
  <2>2. m \in S /\ \A n \in S : m <= n
    BY <2>1, LeastOne
  <2>3. m \in 1 .. L /\ pt[m] = Wild
    BY <2>2
  <2> HIDE DEF m
  <2>4. \A i \in 1 .. (m - 1) : pt[i] # Wild
    <3> SUFFICES ASSUME NEW i \in 1 .. (m - 1), pt[i] = Wild PROVE FALSE
      OBVIOUS
    <3>1. i \in 1 .. L /\ ~(m <= i)
      BY <2>3
    <3> QED BY <2>2, <3>1
  <2> DEFINE Ends(n) == pt[n + 1] = Wild /\ \A i \in 1 .. n : pt[i] # Wild
  <2>5. m - 1 \in 0 .. L - 1 /\ Ends(m - 1)
    <3>1. m - 1 \in 0 .. L - 1 /\ (m - 1) + 1 = m
      BY <2>3
    <3> QED BY <2>3, <2>4, <3>1
  <2>6. Fixed(pt) = CHOOSE n \in 0 .. L - 1 : Ends(n)
    BY <1>1 DEF Fixed
  <2> HIDE DEF Ends
  <2>7. Fixed(pt) \in 0 .. L - 1 /\ Ends(Fixed(pt))
    BY <2>5, <2>6
  <2> QED BY <1>1, <2>7 DEF Ends
<1>2. CASE ~Contains(pt, Wild)
  BY <1>2 DEF Fixed, Contains
<1> QED BY <1>1, <1>2

\* The places of the parameters in the fixed part.
ParamPlaces(pt) == {n \in 1 .. Fixed(pt) : pt[n] \in ParamSegs}

\* The captures of the first n segments.
Captured(pt, qt, n) ==
    LET places == InOrder(ParamPlaces(pt))
    IN  [i \in 1 .. Cardinality(UpTo(ParamPlaces(pt), n)) |->
            Span(pt[places[i]], <<qt[places[i]]>>)]

\* The first n segments of the pattern have segments that fit.
FitsUpTo(pt, qt, n) ==
    n <= Len(qt) /\ \A i \in 1 .. n : Fits(pt[i], qt[i])

\* They become one more at a parameter.
LEMMA CapturedGrows ==
    ASSUME NEW pt, NEW qt, Len(pt) \in Nat,
           NEW n \in Nat, n + 1 \in 1 .. Fixed(pt)
    PROVE  Captured(pt, qt, n + 1) =
             IF pt[n + 1] \in ParamSegs
               THEN Append(Captured(pt, qt, n), Span(pt[n + 1], <<qt[n + 1]>>))
               ELSE Captured(pt, qt, n)
<1> DEFINE S == ParamPlaces(pt)
           k == Cardinality(UpTo(S, n))
           places == InOrder(S)
           V(i) == Span(pt[places[i]], <<qt[places[i]]>>)
<1>f. Fixed(pt) \in Nat
  BY FixedIs
<1>s. S \subseteq 1 .. Fixed(pt) /\ (n + 1 \in S <=> pt[n + 1] \in ParamSegs)
  BY DEF ParamPlaces
<1> HIDE DEF S
<1>1. k \in Nat /\ Cardinality(UpTo(S, n + 1)) =
                      k + (IF n + 1 \in S THEN 1 ELSE 0)
  BY <1>f, <1>s, UpToGrows
<1>2. /\ Captured(pt, qt, n) = [i \in 1 .. k |-> V(i)]
      /\ Captured(pt, qt, n + 1) =
           [i \in 1 .. Cardinality(UpTo(S, n + 1)) |-> V(i)]
  BY DEF Captured, S
<1>3. CASE n + 1 \notin S
  <2>1. Cardinality(UpTo(S, n + 1)) = k
    BY <1>1, <1>3
  <2> HIDE DEF k, V
  <2> QED BY <1>s, <1>2, <1>3, <2>1
<1>4. CASE n + 1 \in S
  <2>1. Cardinality(UpTo(S, n + 1)) = k + 1
    BY <1>1, <1>4
  <2>2. places[k + 1] = n + 1
    BY <1>f, <1>s, <1>4, <2>1, InOrderAt
  <2>3. V(k + 1) = Span(pt[n + 1], <<qt[n + 1]>>)
    BY <2>2
  <2> HIDE DEF k, V
  <2>4. [i \in 1 .. k + 1 |-> V(i)] = Append([i \in 1 .. k |-> V(i)], V(k + 1))
    BY <1>1
  <2> QED BY <1>s, <1>2, <1>4, <2>1, <2>3, <2>4
<1> QED BY <1>3, <1>4

\* In the fixed part the loop goes on as long as the segments fit, with the
\* captures so far.
LEMMA LoopInFixedPart ==
    ASSUME NEW pt, NEW qt, NEW a, Turns(pt, qt, a),
           Len(pt) \in Nat, Len(qt) \in Nat
    PROVE  \A n \in 0 .. Fixed(pt) :
              IF FitsUpTo(pt, qt, n)
                THEN a[n] = [at |-> "matching", spans |-> Captured(pt, qt, n)]
                ELSE a[n].at = "failed"
<1> DEFINE f == Fixed(pt)
           Holds(n) == IF FitsUpTo(pt, qt, n)
                         THEN a[n] = [at |-> "matching",
                                      spans |-> Captured(pt, qt, n)]
                         ELSE a[n].at = "failed"
           S == {n \in Nat : n <= f => Holds(n)}
<1>f. f \in 0 .. Len(pt) /\ \A i \in 1 .. f : pt[i] # Wild
  BY FixedIs
<1>a. /\ a[0] = [at |-> "matching", spans |-> <<>>]
      /\ \A n \in 0 .. Len(pt) : n # 0 => a[n] = Turn(pt, qt, n, a[n - 1])
  BY DEF Turns
<1>1. 0 \in S
  <2>1. FitsUpTo(pt, qt, 0)
    BY DEF FitsUpTo
  <2>2. Captured(pt, qt, 0) = <<>>
    <3>1. ParamPlaces(pt) \subseteq 1 .. f
      BY DEF ParamPlaces
    <3>2. Cardinality(UpTo(ParamPlaces(pt), 0)) = 0
      BY <1>f, <3>1, UpToGrows
    <3> QED BY <3>2 DEF Captured
  <2> QED BY <1>a, <2>1, <2>2
<1>2. ASSUME NEW n \in Nat, n \in S PROVE n + 1 \in S
  <2> SUFFICES ASSUME n + 1 <= f PROVE Holds(n + 1)
    OBVIOUS
  <2>0. /\ n + 1 \in 1 .. f /\ n + 1 \in 0 .. Len(pt) /\ n + 1 # 0
        /\ (n + 1) - 1 = n /\ Holds(n)
    BY <1>f, <1>2
  <2>1. pt[n + 1] # Wild /\ a[n + 1] = Turn(pt, qt, n + 1, a[n])
    BY <1>f, <1>a, <2>0
  <2>2. FitsUpTo(pt, qt, n + 1) <=>
          /\ FitsUpTo(pt, qt, n)
          /\ n + 1 <= Len(qt) /\ Fits(pt[n + 1], qt[n + 1])
    <3>1. n + 1 <= Len(qt) => n <= Len(qt)
      OBVIOUS
    <3>2. \A i : i \in 1 .. (n + 1) <=> i \in 1 .. n \/ i = n + 1
      OBVIOUS
    <3> QED BY <3>1, <3>2, Zenon DEF FitsUpTo
  <2>3. CASE ~FitsUpTo(pt, qt, n)
    <3>1. a[n].at = "failed"
      BY <2>0, <2>3
    <3>2. a[n + 1] = a[n]
      BY <2>1, <3>1 DEF Turn
    <3> QED BY <2>2, <2>3, <3>1, <3>2
  <2>4. CASE FitsUpTo(pt, qt, n)
    <3> DEFINE c == Captured(pt, qt, n)
    <3>1. a[n] = [at |-> "matching", spans |-> c]
      BY <2>0, <2>4
    <3>2. Captured(pt, qt, n + 1) =
             IF pt[n + 1] \in ParamSegs
               THEN Append(c, Span(pt[n + 1], <<qt[n + 1]>>)) ELSE c
      BY <2>0, CapturedGrows
    <3> HIDE DEF c
    <3>3. CASE ~(n + 1 <= Len(qt) /\ Fits(pt[n + 1], qt[n + 1]))
      BY <2>1, <2>2, <3>1, <3>3 DEF Turn
    <3>4. CASE n + 1 <= Len(qt) /\ Fits(pt[n + 1], qt[n + 1])
      <4>1. a[n + 1] = IF pt[n + 1] \in ParamSegs
                         THEN [at |-> "matching",
                               spans |-> Append(c, Span(pt[n + 1],
                                                        <<qt[n + 1]>>))]
                         ELSE a[n]
        <5> DEFINE x == Span(pt[n + 1], <<qt[n + 1]>>)
        <5>1. a[n].at = "matching"
          BY <3>1
        <5>2. a[n + 1] = IF pt[n + 1] \in ParamSegs
                           THEN [a[n] EXCEPT !.spans = Append(@, x)] ELSE a[n]
          BY <2>1, <3>4, <5>1 DEF Turn
        <5> HIDE DEF x
        <5>3. [a[n] EXCEPT !.spans = Append(@, x)] =
                [at |-> "matching", spans |-> Append(c, x)]
          BY <3>1
        <5> QED BY <5>2, <5>3 DEF x
      <4> QED BY <2>2, <2>4, <3>1, <3>2, <3>4, <4>1
    <3> QED BY <3>3, <3>4
  <2> QED BY <2>3, <2>4
<1> HIDE DEF S
<1>3. Nat \subseteq S
  BY <1>1, <1>2, NatSetInduction
<1>4. ASSUME NEW n \in 0 .. f PROVE Holds(n)
  <2>1. n \in Nat /\ n <= f
    BY <1>f
  <2>2. n \in S
    BY <1>3, <2>1
  <2> QED BY <2>1, <2>2 DEF S
<1> QED BY <1>4

\* A loop that is no longer matching stays as it is.
LEMMA LoopStays ==
    ASSUME NEW pt, NEW qt, NEW a, Turns(pt, qt, a), Len(pt) \in Nat,
           NEW k \in 0 .. Len(pt), a[k].at # "matching"
    PROVE  a[Len(pt)] = a[k]
<1> DEFINE S == {d \in Nat : k + d <= Len(pt) => a[k + d] = a[k]}
<1>1. 0 \in S
  OBVIOUS
<1>2. ASSUME NEW d \in Nat, d \in S PROVE d + 1 \in S
  <2> SUFFICES ASSUME k + (d + 1) <= Len(pt) PROVE a[k + (d + 1)] = a[k]
    OBVIOUS
  <2> DEFINE n == k + (d + 1)
  <2>1. n \in 0 .. Len(pt) /\ n # 0 /\ n - 1 = k + d /\ k + d <= Len(pt)
    OBVIOUS
  <2>2. a[k + d] = a[k]
    BY <1>2, <2>1
  <2> HIDE DEF n
  <2>3. a[n] = Turn(pt, qt, n, a[n - 1])
    BY <2>1 DEF Turns
  <2>4. a[n] = a[k]
    BY <2>1, <2>2, <2>3 DEF Turn
  <2> QED BY <2>4 DEF n
<1> HIDE DEF S
<1>3. Nat \subseteq S
  BY <1>1, <1>2, NatSetInduction
<1>4. Len(pt) - k \in Nat /\ k + (Len(pt) - k) = Len(pt)
  OBVIOUS
<1>5. Len(pt) - k \in S
  BY <1>3, <1>4
<1> QED BY <1>4, <1>5 DEF S

\* match_route matches a path exactly when the pattern stands for it, and then
\* its captures are those the pattern stands for.
LEMMA MatchRouteExact ==
    ASSUME NEW pattern \in Seq(STRING), NEW q \in Seq(STRING),
           ~IsStatic(pattern)
    PROVE  /\ MatchRoute(pattern, q).ok \in BOOLEAN
           /\ MatchRoute(pattern, q).ok <=> Means(pattern, q)
           /\ Means(pattern, q) =>
                 MatchRoute(pattern, q).spans = Captures(pattern, q)
<1> DEFINE pt == Segments(pattern)
           qt == Segments(q)
           f == Fixed(pt)
<1>s. pt \in Seq(Parts(pt)) /\ qt \in Seq(Parts(qt))
  BY SegmentsSeq
<1>l. Len(pt) \in Nat /\ Len(qt) \in Nat
  BY <1>s
<1>1. PICK a : /\ Turns(pt, qt, a)
               /\ MatchRoute(pattern, q) =
                    [ok |-> \/ a[Len(pt)].at = "matched"
                            \/ a[Len(pt)].at = "matching" /\ Len(pt) = Len(qt),
                     spans |-> a[Len(pt)].spans]
  BY <1>l, MatchRouteIs
<1>k. MatchRoute(pattern, q).ok =
         (\/ a[Len(pt)].at = "matched"
          \/ a[Len(pt)].at = "matching" /\ Len(pt) = Len(qt))
  BY <1>1
<1>b. MatchRoute(pattern, q).ok \in BOOLEAN
  BY <1>k
<1> DEFINE places == InOrder(ParamPlaces(pt))
           star == IF Contains(pt, Wild)
                     THEN <<Span(Wild, SubSeq(qt, f + 1, Len(qt)))>> ELSE <<>>
<1>2. Means(pattern, q) <=> /\ FitsUpTo(pt, qt, f)
                            /\ Contains(pt, Wild) \/ f = Len(qt)
  BY DEF Means, FitsUpTo
<1>3. Captures(pattern, q) =
        [i \in DOMAIN places |-> Span(pt[places[i]], <<qt[places[i]]>>)] \o star
  BY DEF Captures, ParamPlaces
<1> HIDE DEF pt, qt
<1>f. /\ f \in 0 .. Len(pt)
      /\ Contains(pt, Wild) => f + 1 \in 1 .. Len(pt) /\ pt[f + 1] = Wild
      /\ ~Contains(pt, Wild) => f = Len(pt)
  BY <1>l, FixedIs
<1> HIDE DEF f
<1>4. DOMAIN places = 1 .. Cardinality(UpTo(ParamPlaces(pt), f))
      /\ Cardinality(UpTo(ParamPlaces(pt), f)) \in Nat
  <2>1. f \in Nat /\ ParamPlaces(pt) \subseteq 1 .. f
    BY <1>f DEF ParamPlaces, f
  <2>2. UpTo(ParamPlaces(pt), f) = ParamPlaces(pt)
        /\ Cardinality(ParamPlaces(pt)) \in Nat
    BY <2>1, UpToGrows
  <2> QED BY <2>2 DEF InOrder
<1>5. Captures(pattern, q) = Captured(pt, qt, f) \o star
  BY <1>3, <1>4 DEF Captured
<1>6. IF FitsUpTo(pt, qt, f)
        THEN a[f] = [at |-> "matching", spans |-> Captured(pt, qt, f)]
        ELSE a[f].at = "failed"
  <2>1. f \in 0 .. f
    BY <1>f, <1>l
  <2> QED BY <1>1, <1>l, <2>1, LoopInFixedPart DEF f
<1>7. CASE ~FitsUpTo(pt, qt, f)
  <2>1. a[Len(pt)].at = "failed"
    BY <1>1, <1>l, <1>f, <1>6, <1>7, LoopStays
  <2> QED BY <1>k, <1>b, <1>2, <1>7, <2>1
<1>8. CASE FitsUpTo(pt, qt, f) /\ ~Contains(pt, Wild)
  <2>1. a[Len(pt)] = [at |-> "matching", spans |-> Captured(pt, qt, f)]
    BY <1>f, <1>6, <1>8
  <2>2. Captured(pt, qt, f) \o <<>> = Captured(pt, qt, f)
    BY <1>4 DEF Captured
  <2> DEFINE c == Captured(pt, qt, f)
  <2>3. Captures(pattern, q) = c
    BY <1>5, <1>8, <2>2
  <2> HIDE DEF c
  <2>4. a[Len(pt)].at = "matching" /\ a[Len(pt)].spans = c
    BY <2>1 DEF c
  <2>5. (MatchRoute(pattern, q).ok <=> Len(pt) = Len(qt))
        /\ MatchRoute(pattern, q).spans = c
    BY <1>1, <1>k, <2>4
  <2>6. Means(pattern, q) <=> Len(pt) = Len(qt)
    BY <1>2, <1>f, <1>8
  <2> QED BY <1>b, <2>3, <2>5, <2>6
<1>9. CASE FitsUpTo(pt, qt, f) /\ Contains(pt, Wild)
  <2> DEFINE c == Captured(pt, qt, f)
             x == Span(Wild, SubSeq(qt, f + 1, Len(qt)))
  <2>1. a[f] = [at |-> "matching", spans |-> c]
    BY <1>6, <1>9
  <2>2. f + 1 \in 0 .. Len(pt) /\ f + 1 # 0 /\ (f + 1) - 1 = f
        /\ pt[f + 1] = Wild
    BY <1>f, <1>l, <1>9
  <2>3. a[f + 1] = Turn(pt, qt, f + 1, a[f])
    BY <1>1, <2>2 DEF Turns
  <2>4. a[f + 1] = [at |-> "matched", spans |-> Append(c, x)]
    BY <2>1, <2>2, <2>3 DEF Turn
  <2>5. a[Len(pt)] = a[f + 1]
    BY <1>1, <1>l, <2>2, <2>4, LoopStays
  <2>6. Append(c, x) = c \o <<x>>
    BY <1>4 DEF Captured
  <2>7. Captures(pattern, q) = c \o <<x>>
    BY <1>5, <1>9
  <2> HIDE DEF c, x
  <2>8. a[Len(pt)].at = "matched" /\ a[Len(pt)].spans = c \o <<x>>
    BY <2>4, <2>5, <2>6
  <2>9. MatchRoute(pattern, q).ok /\ MatchRoute(pattern, q).spans = c \o <<x>>
    BY <1>1, <1>k, <2>8
  <2>10. Means(pattern, q)
    BY <1>2, <1>9
  <2> QED BY <1>b, <2>7, <2>9, <2>10
<1> QED BY <1>7, <1>8, <1>9

\* A pattern has no more captures than papago_route has counted.
LEMMA CapturesCounted ==
    ASSUME NEW pattern \in Seq(STRING), NEW q \in Seq(STRING),
           ~IsStatic(pattern)
    PROVE  /\ \E T : Captures(pattern, q) \in Seq(T)
           /\ Len(Captures(pattern, q)) \in Nat
           /\ CountRouteParams(pattern) \in Nat
           /\ Len(Captures(pattern, q)) <= CountRouteParams(pattern)
<1> DEFINE pt == Segments(pattern)
           qt == Segments(q)
           f == Fixed(pt)
           S == ParamPlaces(pt)
           places == InOrder(S)
           star == IF Contains(pt, Wild)
                     THEN <<Span(Wild, SubSeq(qt, f + 1, Len(qt)))>> ELSE <<>>
           C == {n \in DOMAIN pt : Takes(pt[n])}
<1>s. pt \in Seq(Parts(pt))
  BY SegmentsSeq
<1>l. Len(pt) \in Nat /\ DOMAIN pt = 1 .. Len(pt)
  BY <1>s
<1>1. Captures(pattern, q) =
        [i \in DOMAIN places |-> Span(pt[places[i]], <<qt[places[i]]>>)] \o star
  BY DEF Captures, ParamPlaces
<1>2. CountRouteParams(pattern) = Cardinality(C)
  BY DEF CountRouteParams
<1> HIDE DEF pt, qt
<1>f. /\ f \in 0 .. Len(pt) /\ \A i \in 1 .. f : pt[i] # Wild
      /\ Contains(pt, Wild) => f + 1 \in 1 .. Len(pt) /\ pt[f + 1] = Wild
  BY <1>l, FixedIs
<1>3. S \subseteq 1 .. f /\ S \subseteq C /\ C \subseteq 1 .. Len(pt)
  BY <1>f, <1>l DEF ParamPlaces, Takes
<1>4. f + 1 \notin S /\ (Contains(pt, Wild) => f + 1 \in C)
  BY <1>f, <1>l DEF ParamPlaces, Takes
<1> HIDE DEF S, C, f
<1>5. IsFiniteSet(C) /\ IsFiniteSet(S) /\ Cardinality(C) \in Nat
      /\ Cardinality(S) \in Nat
  <2>1. IsFiniteSet(1 .. Len(pt))
    BY <1>l, FS_Interval
  <2>2. IsFiniteSet(C)
    BY <1>3, <2>1, FS_Subset
  <2>3. IsFiniteSet(S)
    BY <1>3, <2>2, FS_Subset
  <2> QED BY <2>2, <2>3, FS_CardinalityType
<1>6. Cardinality(S) <= Cardinality(C)
      /\ (Contains(pt, Wild) => Cardinality(S) + 1 <= Cardinality(C))
  <2>1. Cardinality(S) <= Cardinality(C)
    BY <1>3, <1>5, FS_Subset
  <2>2. Contains(pt, Wild) => Cardinality(S) # Cardinality(C)
    BY <1>3, <1>4, <1>5, FS_Subset
  <2> QED BY <1>5, <2>1, <2>2
<1> DEFINE V(i) == Span(pt[places[i]], <<qt[places[i]]>>)
           k == Cardinality(S)
           c == [i \in 1 .. k |-> V(i)]
<1>7. Captures(pattern, q) = c \o star
  BY <1>1 DEF InOrder
<1> HIDE DEF V
<1>8. c \in Seq({V(i) : i \in 1 .. k}) /\ Len(c) = k
  BY <1>5
<1> DEFINE x == Span(Wild, SubSeq(qt, f + 1, Len(qt)))
           T == {V(i) : i \in 1 .. k} \cup {x}
<1>10. c \in Seq(T)
  BY <1>5
<1> HIDE DEF c, k
<1>9. star \in Seq(T) /\ Len(star) = IF Contains(pt, Wild) THEN 1 ELSE 0
  <2> HIDE DEF x
  <2>1. x \in T
    OBVIOUS
  <2> HIDE DEF T
  <2>2. <<x>> \in Seq(T) /\ Len(<<x>>) = 1 /\ <<>> \in Seq(T) /\ Len(<<>>) = 0
    BY <2>1
  <2>3. star = IF Contains(pt, Wild) THEN <<x>> ELSE <<>>
    BY DEF x
  <2> HIDE DEF star
  <2> QED BY <2>2, <2>3
<1> HIDE DEF star, T
<1>11. c \o star \in Seq(T) /\ Len(c \o star) = Len(c) + Len(star)
  BY <1>9, <1>10, ConcatProperties
<1>12. Len(c \o star) \in Nat /\ Len(c \o star) <= Cardinality(C)
  BY <1>5, <1>6, <1>8, <1>9, <1>11 DEF k
<1> QED BY <1>2, <1>5, <1>7, <1>11, <1>12

\* What papago_route has accepted.
AcceptedPatterns ==
    {p \in Patterns : CountRouteParams(p) <= PAPAGO_MAX_ROUTE_PARAMS}

\* route_matches agrees with what the patterns stand for.
LEMMA RouteMatchesExact ==
    ASSUME NEW p \in AcceptedPatterns, NEW q \in Paths
    PROVE  /\ RouteMatches(p, q).ok <=> Means(p, q)
           /\ Means(p, q) => RouteMatches(p, q).spans = Captures(p, q)
<1>1. p \in Seq(STRING) /\ q \in Seq(STRING)
      /\ CountRouteParams(p) <= PAPAGO_MAX_ROUTE_PARAMS
      /\ PAPAGO_MAX_ROUTE_PARAMS \in Nat
  BY DispatchAssumption, RoutingAssumption DEF AcceptedPatterns
<1>2. CASE IsStatic(p)
  BY <1>2 DEF RouteMatches, Means, Captures
<1>3. CASE ~IsStatic(p)
  <2> DEFINE r == MatchRoute(p, q)
  <2>1. RouteMatches(p, q) =
          [ok |-> r.ok, spans |-> IF r.ok THEN Kept(r.spans) ELSE <<>>]
    BY <1>3 DEF RouteMatches
  <2>2. /\ r.ok \in BOOLEAN /\ (r.ok <=> Means(p, q))
        /\ Means(p, q) => r.spans = Captures(p, q)
    BY <1>1, <1>3, MatchRouteExact
  <2> HIDE DEF r
  <2>3. Kept(Captures(p, q)) = Captures(p, q)
    <3>1. PICK T : Captures(p, q) \in Seq(T)
      BY <1>1, <1>3, CapturesCounted
    <3>2. /\ Len(Captures(p, q)) \in Nat
          /\ Len(Captures(p, q)) <= PAPAGO_MAX_ROUTE_PARAMS
      <4>1. /\ CountRouteParams(p) \in Nat /\ Len(Captures(p, q)) \in Nat
            /\ Len(Captures(p, q)) <= CountRouteParams(p)
        BY <1>1, <1>3, CapturesCounted
      <4> QED BY <1>1, <4>1
    <3> DEFINE c == Captures(p, q)
    <3>3. Kept(c) = SubSeq(c, 1, Len(c))
      BY <1>1, <3>2 DEF Kept
    <3> HIDE DEF c
    <3>4. SubSeq(c, 1, Len(c)) = c
      BY <3>1 DEF c
    <3> QED BY <3>3, <3>4 DEF c
  <2>4. RouteMatches(p, q).ok = r.ok
        /\ (r.ok => RouteMatches(p, q).spans = Kept(r.spans))
    BY <2>1
  <2> QED BY <2>2, <2>3, <2>4
<1> QED BY <1>2, <1>3

RouteRecords == [method : Methods, path : AcceptedPatterns]

\* What the answer is made from: routes that were accepted, and the request, whose
\* path is there unless memory ran out; until the routes are searched nothing is
\* captured.
AnswerTypes ==
    /\ routes \in Seq(RouteRecords)
    /\ pc # "setup" => /\ \/ path \in Paths
                          \/ path = None /\ "memory" \in failures
                       /\ method \in Methods \cup {Unknown}
    /\ pc \in {"setup", "certificate", "before", "route"} => params = <<>>

\* The inductive invariant, beside FlowInv.
AnswerInv == AnswerTypes /\ RightAnswer

\* The candidates are the routes that are meant.
LEMMA CandidatesMeant ==
    ASSUME routes \in Seq(RouteRecords), path \in Paths
    PROVE  /\ \A i \in DOMAIN routes :
                 /\ routes[i].path \in AcceptedPatterns
                 /\ routes[i].method \in Methods
                 /\ Matches(routes[i]) <=> Means(routes[i].path, path)
           /\ Candidates = {i \in DOMAIN routes :
                               /\ routes[i].method = method
                               /\ Means(routes[i].path, path)}
<1>1. ASSUME NEW i \in DOMAIN routes
      PROVE  /\ routes[i].path \in AcceptedPatterns
             /\ routes[i].method \in Methods
             /\ Matches(routes[i]) <=> Means(routes[i].path, path)
  <2>1. routes[i] \in RouteRecords
    OBVIOUS
  <2>2. routes[i].path \in AcceptedPatterns /\ routes[i].method \in Methods
    BY <2>1 DEF RouteRecords
  <2> QED BY <2>2, RouteMatchesExact, DispatchAssumption DEF Matches
<1>2. Candidates = {i \in DOMAIN routes : /\ routes[i].method = method
                                          /\ Means(routes[i].path, path)}
  BY <1>1, Zenon DEF Candidates
<1> QED BY <1>1, <1>2

\* A set of places has a first.
LEMMA FirstIs ==
    ASSUME NEW S \in SUBSET Nat, S # {}
    PROVE  First(S) \in S /\ \A k \in S : First(S) <= k
<1>1. Min(S) \in S /\ \A k \in S : Min(S) <= k
  BY LeastOne
<1> QED BY <1>1 DEF First

\* The search for a route answers right.
LEMMA AnswerRoute ==
    ASSUME FlowInv, AnswerInv, path # None,
           Found \/ FoundEmbedded \/ FoundNoMemory \/ NotFound
    PROVE  AnswerInv'
<1> DEFINE Wanted == {i \in DOMAIN routes : /\ routes[i].method = method
                                           /\ Means(routes[i].path, path)}
           Having == {i \in DOMAIN routes : Means(routes[i].path, path)}
<1>0. /\ pc = "route" /\ pc' = "after" /\ j' = Len(middleware)
      /\ routes' = routes /\ middleware' = middleware /\ method' = method
      /\ path' = path /\ afters' = afters
  BY DEF Found, FoundEmbedded, FoundNoMemory, NotFound, tables, request
<1>1. /\ routes \in Seq(RouteRecords) /\ path \in Paths
      /\ method \in Methods \cup {Unknown} /\ handled = 0 /\ params = <<>>
  BY <1>0 DEF AnswerInv, AnswerTypes, FlowInv, Flow
<1>2. /\ \A i \in DOMAIN routes :
             /\ routes[i].path \in AcceptedPatterns
             /\ routes[i].method \in Methods
             /\ Matches(routes[i]) <=> Means(routes[i].path, path)
      /\ Candidates = Wanted
  BY <1>1, CandidatesMeant
<1>3. AnswerTypes'
  BY <1>0, <1>1 DEF AnswerInv, AnswerTypes
<1>4. CASE Found \/ FoundEmbedded
  <2>1. /\ Candidates # {} /\ handled' = First(Candidates)
        /\ params' = RouteMatches(routes[First(Candidates)].path, path).spans
    BY <1>4 DEF Found, FoundEmbedded
  <2>2. Candidates \in SUBSET Nat
    BY <1>1 DEF Candidates
  <2> DEFINE i == First(Candidates)
  <2>3. i \in Wanted /\ \A k \in Wanted : i <= k
    BY <1>2, <2>1, <2>2, FirstIs
  <2> HIDE DEF i
  <2>4. i \in DOMAIN routes /\ Means(routes[i].path, path) /\ i # 0
    BY <1>1, <2>3
  <2>5. params' = Captures(routes[i].path, path)
    BY <1>1, <1>2, <2>1, <2>4, RouteMatchesExact DEF i
  <2> HIDE DEF Wanted
  <2>6. RightHandler'
    BY <1>0, <2>1, <2>3, <2>4, <2>5 DEF RightHandler, Wanted, i
  <2>7. RightRefusal'
    BY <2>1, <2>4 DEF RightRefusal, i
  <2> QED BY <1>3, <2>6, <2>7 DEF AnswerInv, RightAnswer
<1>5. CASE FoundNoMemory
  <2>1. handled' = 0 /\ params' = <<>> /\ "memory" \in failures'
    BY <1>1, <1>5 DEF FoundNoMemory
  <2> QED BY <1>3, <2>1 DEF AnswerInv, RightAnswer, RightHandler, RightRefusal
<1>6. CASE NotFound
  <2>1. /\ method = Unknown \/ Candidates = {}
        /\ status' = IF Allowed # {} \/ method = Unknown THEN 405 ELSE 404
        /\ allow' = Allowed /\ handled' = 0 /\ params' = <<>>
    BY <1>1, <1>6 DEF NotFound, Answer
  <2>2. \A k \in DOMAIN routes :
           routes[k].method # method /\ Matches(routes[k]) <=> k \in Having
    <3> SUFFICES ASSUME NEW k \in DOMAIN routes
                 PROVE  routes[k].method # method /\ Matches(routes[k])
                        <=> k \in Having
      OBVIOUS
    <3>1. Matches(routes[k]) <=> k \in Having
      BY <1>2
    <3>2. k \in Having => routes[k].method # method
      <4>1. CASE method = Unknown
        BY <1>2, <4>1, DispatchAssumption
      <4>2. CASE Wanted = {}
        BY <4>2
      <4> QED BY <1>2, <2>1, <4>1, <4>2
    <3> QED BY <3>1, <3>2
  <2>3. {k \in DOMAIN routes : routes[k].method # method
                               /\ Matches(routes[k])} = Having
    BY <2>2, Zenon
  <2>4. Allowed = {routes[k].method : k \in Having}
    BY <2>3 DEF Allowed
  <2>5. Allowed # {} <=> Having # {}
    BY <2>4
  <2>6. RightHandler'
    BY <1>0, <1>2, <2>1 DEF RightHandler
  <2>7. RightRefusal'
    <3> HIDE DEF Having
    <3>1. /\ allow' = {routes'[k].method : k \in Having}
          /\ status' = IF Having # {} \/ method' = Unknown THEN 405 ELSE 404
      BY <1>0, <2>1, <2>4, <2>5
    <3>2. Having = {k \in DOMAIN routes' : Means(routes'[k].path, path')}
      BY <1>0 DEF Having
    <3> QED BY <3>1, <3>2 DEF RightRefusal
  <2> QED BY <1>3, <2>6, <2>7 DEF AnswerInv, RightAnswer
<1> QED BY <1>4, <1>5, <1>6

\* A request without a path is taken by no route, and no claim is made for it.
LEMMA AnswerNoPath ==
    ASSUME FlowInv, AnswerInv, path = None,
           Found \/ FoundEmbedded \/ FoundNoMemory \/ NotFound
    PROVE  AnswerInv'
<1>1. Candidates = {}
  BY DEF Candidates, Matches
<1>2. NotFound
  BY <1>1 DEF Found, FoundEmbedded, FoundNoMemory
<1>3. /\ pc = "route" /\ pc' = "after"
      /\ UNCHANGED <<routes, method, path, params, handled, failures>>
  BY <1>2 DEF NotFound, tables, request
<1>4. path \notin Paths
  BY DispatchAssumption
<1>5. /\ handled = 0 /\ params = <<>> /\ "memory" \in failures
      /\ AnswerTypes
  BY <1>3, <1>4 DEF AnswerInv, AnswerTypes, FlowInv, Flow
<1>6. AnswerTypes'
  BY <1>3, <1>5 DEF AnswerTypes
<1> QED BY <1>3, <1>5, <1>6 DEF AnswerInv, RightAnswer, RightHandler, RightRefusal

\* What was answered stays answered.
LEMMA HandlerStays ==
    ASSUME RightHandler, UNCHANGED <<routes, method, path, params, handled>>,
           pc' = "after" => pc = "after" /\ failures' = failures
    PROVE  RightHandler'
<1> DEFINE Wanted == {i \in DOMAIN routes : /\ routes[i].method = method
                                           /\ Means(routes[i].path, path)}
<1>1. Wanted = {i \in DOMAIN routes' : /\ routes'[i].method = method'
                                      /\ Means(routes'[i].path, path')}
  OBVIOUS
<1>2. CASE handled # 0
  <2>1. /\ handled \in Wanted /\ \A k \in Wanted : handled <= k
        /\ params = Captures(routes[handled].path, path)
    BY <1>2 DEF RightHandler
  <2> HIDE DEF Wanted
  <2> QED BY <1>1, <1>2, <2>1 DEF RightHandler
<1>3. CASE handled = 0
  <2>1. /\ params = <<>>
        /\ (pc = "after" /\ "memory" \notin failures)
              => method = Unknown \/ Wanted = {}
    BY <1>3 DEF RightHandler
  <2> HIDE DEF Wanted
  <2> QED BY <1>1, <1>3, <2>1 DEF RightHandler
<1> QED BY <1>2, <1>3

\* Every step keeps the answers right.
LEMMA AnswerStep == FlowInv /\ AnswerInv /\ [Next]_vars => AnswerInv'
<1> SUFFICES ASSUME FlowInv, AnswerInv, [Next]_vars PROVE AnswerInv'
  OBVIOUS
<1>t. AnswerTypes /\ RightHandler /\ RightRefusal
  BY DEF AnswerInv, RightAnswer
<1>1. CASE Setup
  <2>1. /\ pc = "setup" /\ handled = 0 /\ params = <<>>
    BY <1>1, <1>t DEF Setup, Route, MiddlewareAdd, AnswerTypes, FlowInv, Flow
  <2>2. UNCHANGED <<pc, path, method, handled, params, failures>>
    BY <1>1 DEF Setup, Route, MiddlewareAdd, request, history
  <2>3. routes' \in Seq(RouteRecords)
    <3>1. CASE routes' = routes
      BY <1>t, <3>1 DEF AnswerTypes
    <3>2. ASSUME NEW m \in Methods, NEW p \in Patterns, Route(m, p)
          PROVE  routes' \in Seq(RouteRecords)
      <4>1. /\ CountRouteParams(p) <= PAPAGO_MAX_ROUTE_PARAMS
            /\ routes' = Append(routes, [method |-> m, path |-> p])
        BY <3>2 DEF Route
      <4>2. p \in AcceptedPatterns
        BY <4>1 DEF AcceptedPatterns
      <4>3. [method |-> m, path |-> p] \in RouteRecords
        BY <4>2 DEF RouteRecords
      <4>4. routes \in Seq(RouteRecords)
        BY <1>t DEF AnswerTypes
      <4> HIDE DEF RouteRecords
      <4> QED BY <4>1, <4>3, <4>4
    <3> QED BY <1>1, <3>1, <3>2 DEF Setup, MiddlewareAdd
  <2> QED BY <2>1, <2>2, <2>3
          DEF AnswerInv, AnswerTypes, RightAnswer, RightHandler, RightRefusal
<1>2. CASE Arrives
  <2>1. /\ pc = "setup" /\ handled = 0 /\ params = <<>>
    BY <1>2, <1>t
       DEF Arrives, Arrive, ArriveNoPath, ArriveNoMemory, AnswerTypes, FlowInv,
           Flow
  <2>2. /\ pc' \in {"certificate", "closed"}
        /\ \/ path' \in Paths
           \/ path' = None /\ "memory" \in failures'
        /\ method' \in Methods \cup {Unknown}
        /\ UNCHANGED <<routes, handled, params>>
    BY <1>2 DEF Arrives, Arrive, ArriveNoPath, ArriveNoMemory, tables, history
  <2> QED BY <1>t, <2>1, <2>2
          DEF AnswerInv, AnswerTypes, RightAnswer, RightHandler, RightRefusal
<1>3. CASE \/ Certified \/ \E s \in {500, 403} : NotCertified(s)
           \/ \E continue \in BOOLEAN : BeforeRuns(continue)
           \/ BeforeSkips \/ BeforesDone \/ TooLarge
  <2>1. /\ pc \in {"certificate", "before"}
        /\ pc' \in {"before", "route", "metrics"}
        /\ UNCHANGED <<routes, method, path, handled, params, failures>>
    BY <1>3 DEF Certified, NotCertified, BeforeRuns, BeforeSkips, BeforesDone,
                TooLarge, tables, request, history
  <2>2. RightHandler'
    BY <1>t, <2>1, HandlerStays
  <2>3. RightRefusal'
    BY <2>1 DEF RightRefusal
  <2> QED BY <1>t, <2>1, <2>2, <2>3 DEF AnswerInv, AnswerTypes, RightAnswer
<1>4. CASE Found \/ FoundEmbedded \/ FoundNoMemory \/ NotFound
  BY <1>4, AnswerRoute, AnswerNoPath
<1>5. CASE AfterRuns \/ AfterSkips \/ AftersDone
  <2>1. /\ pc = "after" /\ pc' \in {"after", "metrics"}
        /\ UNCHANGED <<routes, method, path, handled, params, failures,
                       middleware>>
    BY <1>5 DEF AfterRuns, AfterSkips, AftersDone, tables, request, history
  <2>2. RightHandler'
    BY <1>t, <2>1, HandlerStays
  <2>3. RightRefusal'
    <3>1. CASE AftersDone
      BY <3>1 DEF AftersDone, RightRefusal
    <3>2. CASE AfterRuns
      <4>1. afters' = Append(afters, j) /\ afters \in Seq(Nat) /\ j \in Nat
        BY <3>2 DEF AfterRuns, FlowInv, FlowTypes
      <4>2. afters' # <<>>
        BY <4>1
      <4> QED BY <4>2 DEF RightRefusal
    <3>3. CASE AfterSkips
      <4>1. j' = j - 1 /\ j \in 0 .. Len(middleware) /\ Len(middleware) \in Nat
        BY <2>1, <3>3 DEF AfterSkips, FlowInv, FlowTypes, Flow
      <4>2. j' # Len(middleware')
        BY <2>1, <4>1
      <4> QED BY <4>2 DEF RightRefusal
    <3> QED BY <1>5, <3>1, <3>2, <3>3
  <2> QED BY <1>t, <2>1, <2>2, <2>3 DEF AnswerInv, AnswerTypes, RightAnswer
<1>6. CASE \/ UpdateMetrics \/ SendFile \/ SendBody \/ SendCompressed \/ SendFails
           \/ BeforeFaults \/ AfterFaults \/ SendFaults
  <2>1. /\ pc # "setup" /\ pc' \in {"send", "done", "crashed"}
        /\ UNCHANGED <<routes, method, path, handled, params>>
        /\ failures \subseteq failures'
    BY <1>6 DEF UpdateMetrics, SendFile, SendBody, SendCompressed, SendFails,
                Sent, BeforeFaults, AfterFaults, SendFaults, Crash, tables,
                request, history
  <2>2. RightHandler'
    BY <1>t, <2>1, HandlerStays
  <2>3. RightRefusal'
    BY <2>1 DEF RightRefusal
  <2> QED BY <1>t, <2>1, <2>2, <2>3 DEF AnswerInv, AnswerTypes, RightAnswer
<1>7. CASE Done \/ UNCHANGED vars
  <2>1. UNCHANGED vars
    BY <1>7 DEF Done
  <2>2. UNCHANGED <<routes, method, path, handled, params, failures, pc, j,
                    middleware, afters, allow, status>>
    BY <2>1 DEF vars, tables, request, history, response
  <2>3. RightHandler'
    BY <1>t, <2>2, HandlerStays
  <2>4. RightRefusal'
    BY <1>t, <2>2 DEF RightRefusal
  <2> QED BY <1>t, <2>2, <2>3, <2>4 DEF AnswerInv, AnswerTypes, RightAnswer
<1> QED BY <1>1, <1>2, <1>3, <1>4, <1>5, <1>6, <1>7 DEF Next

\* The handler that runs is that of the first route registered for the method
\* whose pattern stands for the path, with exactly its captures; a path nobody
\* has is 404, one that others have is 405 with their methods in Allow: for any
\* patterns, paths and tables, whatever the middleware does.
THEOREM AnswerIsRight == Spec => []RightAnswer
<1>1. Init => AnswerInv
  <2> SUFFICES ASSUME Init PROVE AnswerInv
    OBVIOUS
  <2>1. routes \in Seq(RouteRecords)
    BY DEF Init
  <2> QED BY <2>1
          DEF Init, AnswerInv, AnswerTypes, RightAnswer, RightHandler,
              RightRefusal
<1>2. AnswerInv => RightAnswer
  BY DEF AnswerInv
<1> QED BY <1>1, <1>2, FlowInit, FlowStep, AnswerStep, PTL DEF Spec

-----------------------------------------------------------------------------
(* Static files                                                            *)

\* The names there are.
Names == STRING \cup {IndexHtml, "nowhere"}

\* A path of strings is one of names.
LEMMA StringsNames == \A p \in Seq(STRING) : p \in Seq(Names)
<1>1. STRING \subseteq Names
  BY DEF Names
<1>2. \A S, T : S \subseteq T => \A p \in Seq(S) : p \in Seq(T)
  OBVIOUS
<1> QED BY <1>1, <1>2

\* A file system: a directory at the root, and nodes.
GoodFiles(fs) ==
    /\ <<>> \in DOMAIN fs /\ fs[<<>>] = Dir /\ Nowhere \notin DOMAIN fs
    /\ \A p \in DOMAIN fs : IsNode(fs[p])

\* A path as realpath returns it: plain names, directories on the way, and
\* neither nothing nor a link at the end.
Canonical(fs, p) ==
    /\ p \in Seq(Names)
    /\ \A i \in 1 .. Len(p) : p[i] \notin {"", ".."}
    /\ \A i \in 0 .. Len(p) - 1 : NodeAt(fs, SubSeq(p, 1, i)).kind = "dir"
    /\ NodeAt(fs, p).kind \notin {"gone", "link"}

\* The answers of realpath.
Resolved(fs, p) == p = Nowhere \/ Canonical(fs, p)

\* What the nodes are.
LEMMA Nodes ==
    ASSUME NEW fs, GoodFiles(fs), NEW p
    PROVE  /\ NodeAt(fs, p).kind \in {"dir", "file", "fifo", "gone", "link"}
           /\ NodeAt(fs, p).kind = "link" =>
                 /\ NodeAt(fs, p).target \in Targets(fs)
                 /\ NodeAt(fs, p).target \in Seq(Names)
           /\ NodeAt(fs, Nowhere).kind = "gone" /\ NodeAt(fs, <<>>).kind = "dir"
<1>1. Dir.kind = "dir" /\ File.kind = "file" /\ Fifo.kind = "fifo"
      /\ Gone.kind = "gone" /\ \A t : LinkTo(t).kind = "link"
  BY DEF Dir, File, Fifo, Gone, LinkTo
<1>2. CASE p \in DOMAIN fs
  <2>1. NodeAt(fs, p) = fs[p] /\ IsNode(fs[p])
    BY <1>2 DEF NodeAt, GoodFiles
  <2>2. fs[p].kind = "link" => fs[p].target \in Seq(Names)
    BY <1>1, <2>1, StringsNames DEF IsNode
  <2>3. fs[p].kind = "link" => fs[p].target \in Targets(fs)
    BY <1>2 DEF Targets
  <2>4. fs[p].kind \in {"dir", "file", "fifo", "gone", "link"}
    BY <1>1, <2>1 DEF IsNode
  <2> QED BY <1>1, <2>1, <2>2, <2>3, <2>4 DEF NodeAt, GoodFiles
<1>3. CASE p \notin DOMAIN fs
  BY <1>1, <1>3 DEF NodeAt, GoodFiles
<1> QED BY <1>2, <1>3

\* The parts of that.
LEMMA CanonicalParts ==
    ASSUME NEW fs, NEW p, Canonical(fs, p)
    PROVE  /\ p \in Seq(Names) /\ Len(p) \in Nat
           /\ \A i \in 1 .. Len(p) : p[i] \notin {"", ".."}
           /\ \A i \in 0 .. Len(p) - 1 : NodeAt(fs, SubSeq(p, 1, i)).kind = "dir"
<1>1. p \in Seq(Names)
  BY Zenon DEF Canonical
<1>2. Len(p) \in Nat
  BY <1>1
<1>3. \A i \in 1 .. Len(p) : p[i] \notin {"", ".."}
  BY Zenon DEF Canonical
<1>4. \A i \in 0 .. Len(p) - 1 : NodeAt(fs, SubSeq(p, 1, i)).kind = "dir"
  BY Zenon DEF Canonical
<1> QED BY <1>1, <1>2, <1>3, <1>4, Zenon

\* A path without its last name.
LEMMA FrontOf ==
    ASSUME NEW T, NEW p \in Seq(T), p # <<>>
    PROVE  /\ Front(p) = SubSeq(p, 1, Len(p) - 1) /\ Front(p) \in Seq(T)
           /\ Len(Front(p)) = Len(p) - 1 /\ Len(p) \in Nat /\ Len(p) # 0
           /\ \A i \in 1 .. Len(p) - 1 : Front(p)[i] = p[i]
           /\ \A i \in 0 .. Len(p) - 1 : SubSeq(Front(p), 1, i) = SubSeq(p, 1, i)
<1> DEFINE q == Front(p)
<1>1. Len(p) \in Nat /\ Len(p) # 0
  OBVIOUS
<1>2. q = SubSeq(p, 1, Len(p) - 1)
  BY DEF Front
<1>3. q \in Seq(T) /\ Len(q) = Len(p) - 1
      /\ \A i \in 1 .. Len(p) - 1 : q[i] = p[i]
  <2>1. PICK n \in Nat : n = Len(p) - 1
    BY <1>1
  <2>2. q = SubSeq(p, 1, n) /\ 1 <= n + 1 /\ n <= Len(p)
    BY <1>1, <1>2, <2>1
  <2> HIDE DEF q
  <2>3. q \in Seq(T) /\ Len(q) = n /\ \A i \in 1 .. n : q[i] = p[i]
    BY <2>2
  <2> QED BY <2>1, <2>3
<1> HIDE DEF q
<1>4. \A i \in 0 .. Len(p) - 1 : SubSeq(q, 1, i) = SubSeq(p, 1, i)
  BY <1>1, <1>3
<1> QED BY <1>1, <1>2, <1>3, <1>4 DEF q

\* A path with one name more.
LEMMA AppendOf ==
    ASSUME NEW T, NEW p \in Seq(T), NEW x \in T
    PROVE  /\ Append(p, x) \in Seq(T) /\ Len(p) \in Nat
           /\ Len(Append(p, x)) = Len(p) + 1 /\ Append(p, x)[Len(p) + 1] = x
           /\ \A i \in 1 .. Len(p) : Append(p, x)[i] = p[i]
           /\ \A i \in 0 .. Len(p) - 1 :
                 SubSeq(Append(p, x), 1, i) = SubSeq(p, 1, i)
           /\ SubSeq(Append(p, x), 1, Len(p)) = p
<1> DEFINE q == Append(p, x)
<1>1. q \in Seq(T) /\ Len(q) = Len(p) + 1 /\ Len(p) \in Nat
      /\ q[Len(p) + 1] = x /\ \A i \in 1 .. Len(p) : q[i] = p[i]
  OBVIOUS
<1> HIDE DEF q
<1>2. \A i \in 0 .. Len(p) - 1 : SubSeq(q, 1, i) = SubSeq(p, 1, i)
  BY <1>1
<1>3. SubSeq(q, 1, Len(p)) = p
  BY <1>1
<1> QED BY <1>1, <1>2, <1>3 DEF q

\* The places of it.
LEMMA OnePlaceMore ==
    ASSUME NEW n \in Nat
    PROVE  /\ \A i \in 1 .. n + 1 : i \in 1 .. n \/ i = n + 1
           /\ \A i \in 0 .. (n + 1) - 1 : i \in 0 .. n - 1 \/ i = n
           /\ n \in 0 .. n
           /\ \A i \in 0 .. n - 1 : i \in 0 .. (n + 1) - 1
           /\ \A i \in 1 .. n : i \in 1 .. n + 1
OBVIOUS

\* The root is canonical.
LEMMA RootCanonical ==
    ASSUME NEW fs, GoodFiles(fs) PROVE Canonical(fs, <<>>)
<1>1. NodeAt(fs, <<>>).kind = "dir"
  BY Nodes
<1> QED BY <1>1 DEF Canonical

\* So is the directory above a canonical path.
LEMMA FrontCanonical ==
    ASSUME NEW fs, NEW p, Canonical(fs, p), p # <<>>
    PROVE  Canonical(fs, Front(p)) /\ NodeAt(fs, Front(p)).kind = "dir"
<1> DEFINE q == Front(p)
<1>0. p \in Seq(Names)
  BY CanonicalParts
<1>1. /\ q = SubSeq(p, 1, Len(p) - 1) /\ q \in Seq(Names)
      /\ Len(q) = Len(p) - 1 /\ Len(p) \in Nat /\ Len(p) # 0
      /\ \A i \in 1 .. Len(p) - 1 : q[i] = p[i]
      /\ \A i \in 0 .. Len(p) - 1 : SubSeq(q, 1, i) = SubSeq(p, 1, i)
  BY <1>0, FrontOf
<1> HIDE DEF q
<1>4. NodeAt(fs, q).kind = "dir"
  <2>1. Len(p) - 1 \in 0 .. Len(p) - 1
    BY <1>1
  <2> QED BY <1>1, <2>1, CanonicalParts
<1>6. ASSUME NEW i \in 0 .. Len(q) - 1
      PROVE  NodeAt(fs, SubSeq(q, 1, i)).kind = "dir"
  <2>1. i \in 0 .. Len(p) - 1
    BY <1>1
  <2>2. SubSeq(q, 1, i) = SubSeq(p, 1, i)
    BY <1>1, <2>1, Zenon
  <2>3. NodeAt(fs, SubSeq(p, 1, i)).kind = "dir"
    BY <2>1, CanonicalParts, Zenon
  <2> QED BY <2>2, <2>3, Zenon
<1>7. ASSUME NEW i \in 1 .. Len(q) PROVE q[i] \notin {"", ".."}
  <2>1. i \in 1 .. Len(p) /\ i \in 1 .. Len(p) - 1
    BY <1>1
  <2> QED BY <1>1, <2>1, CanonicalParts
<1>8. NodeAt(fs, q).kind \notin {"gone", "link"}
  BY <1>4
<1>9. Canonical(fs, q)
  BY <1>1, <1>6, <1>7, <1>8, Zenon DEF Canonical
<1> QED BY <1>4, <1>9 DEF q

\* And what a directory holds.
LEMMA AppendCanonical ==
    ASSUME NEW fs, NEW p, Canonical(fs, p), NodeAt(fs, p).kind = "dir",
           NEW name \in Names, name \notin {"", ".."},
           NodeAt(fs, Append(p, name)).kind \notin {"gone", "link"}
    PROVE  Canonical(fs, Append(p, name))
<1> DEFINE q == Append(p, name)
<1>1. p \in Seq(Names)
  BY CanonicalParts
<1>2. /\ q \in Seq(Names) /\ Len(p) \in Nat
      /\ Len(q) = Len(p) + 1 /\ q[Len(p) + 1] = name
      /\ \A i \in 1 .. Len(p) : q[i] = p[i]
      /\ \A i \in 0 .. Len(p) - 1 : SubSeq(q, 1, i) = SubSeq(p, 1, i)
      /\ SubSeq(q, 1, Len(p)) = p
  BY ONLY <1>1, name \in Names, AppendOf
<1> HIDE DEF q
<1>i. /\ \A i \in 1 .. Len(q) : i \in 1 .. Len(p) \/ i = Len(p) + 1
      /\ \A i \in 0 .. Len(q) - 1 : i \in 0 .. Len(p) - 1 \/ i = Len(p)
  BY <1>2, OnePlaceMore, Zenon
<1>3. ASSUME NEW i \in 1 .. Len(q) PROVE q[i] \notin {"", ".."}
  BY <1>2, <1>i, CanonicalParts, Zenon
<1>4. ASSUME NEW i \in 0 .. Len(q) - 1
      PROVE  NodeAt(fs, SubSeq(q, 1, i)).kind = "dir"
  <2>1. CASE i = Len(p)
    BY <1>2, <2>1, Zenon
  <2>2. CASE i \in 0 .. Len(p) - 1
    <3>1. SubSeq(q, 1, i) = SubSeq(p, 1, i)
      BY <1>2, <2>2, Zenon
    <3>2. NodeAt(fs, SubSeq(p, 1, i)).kind = "dir"
      BY <2>2, CanonicalParts, Zenon
    <3> QED BY <3>1, <3>2, Zenon
  <2> QED BY <1>i, <2>1, <2>2, Zenon
<1>5. NodeAt(fs, q).kind \notin {"gone", "link"}
  BY DEF q
<1>6. Canonical(fs, q)
  BY <1>2, <1>3, <1>4, <1>5, Zenon DEF Canonical
<1> QED BY <1>6 DEF q

\* What the links of a file system lead to.
Follows(fs, follow) == \A t \in Targets(fs) : Resolved(fs, follow[t])

\* One name further leads from an answer to an answer.
LEMMA WalkResolved ==
    ASSUME NEW fs, GoodFiles(fs), NEW p, Resolved(fs, p), NEW name \in Names,
           NEW follow, Follows(fs, follow)
    PROVE  Resolved(fs, Walk(fs, p, name, follow))
<1> DEFINE next == CASE name = "" -> p
                     [] name = ".." -> IF p = <<>> THEN p ELSE Front(p)
                     [] OTHER -> Append(p, name)
           w == Walk(fs, p, name, follow)
<1>1. w = IF NodeAt(fs, p).kind # "dir" \/ NodeAt(fs, next).kind = "gone"
            THEN Nowhere
          ELSE IF NodeAt(fs, next).kind = "link"
            THEN follow[NodeAt(fs, next).target]
          ELSE next
  BY DEF Walk
<1>2. CASE NodeAt(fs, p).kind # "dir" \/ NodeAt(fs, next).kind = "gone"
  BY <1>1, <1>2 DEF Resolved
<1>3. CASE NodeAt(fs, p).kind = "dir" /\ NodeAt(fs, next).kind = "link"
  <2> HIDE DEF next
  <2>1. NodeAt(fs, next).target \in Targets(fs)
    BY <1>3, Nodes
  <2>2. w = follow[NodeAt(fs, next).target]
    BY <1>1, <1>3
  <2> QED BY <2>1, <2>2 DEF Follows
<1>4. CASE NodeAt(fs, p).kind = "dir" /\ NodeAt(fs, next).kind \notin {"gone", "link"}
  <2>1. p # Nowhere
    BY <1>4, Nodes
  <2>2. Canonical(fs, p)
    BY <2>1 DEF Resolved
  <2>3. CASE name = "" \/ (name = ".." /\ p = <<>>)
    <3>1. next = p
      BY <2>3
    <3> QED BY <1>1, <1>4, <2>2, <3>1 DEF Resolved
  <2>4. CASE name = ".." /\ p # <<>>
    <3>1. next = Front(p)
      BY <2>4
    <3>2. Canonical(fs, next)
      BY <2>2, <2>4, <3>1, FrontCanonical
    <3> HIDE DEF next
    <3> QED BY <1>1, <1>4, <3>2 DEF Resolved
  <2>5. CASE name \notin {"", ".."}
    <3>1. next = Append(p, name)
      BY <2>5
    <3> HIDE DEF next
    <3>2. Canonical(fs, next)
      BY <1>4, <2>2, <2>5, <3>1, AppendCanonical
    <3> QED BY <1>1, <1>4, <3>2 DEF Resolved
  <2> QED BY <2>3, <2>4, <2>5
<1> QED BY <1>2, <1>3, <1>4

\* a holds where the first 0, 1, ... names of p lead.
Walks(fs, p, follow, a) ==
    a = [n \in 0 .. Len(p) |->
            IF n = 0 THEN <<>> ELSE Walk(fs, a[n - 1], p[n], follow)]

\* Every path leads somewhere.
LEMMA WalksExist ==
    ASSUME NEW fs, NEW p, NEW follow, Len(p) \in Nat
    PROVE  \E a : Walks(fs, p, follow, a)
<1> DEFINE E(k, a) == a = [n \in 0 .. k |->
                              IF n = 0 THEN <<>>
                              ELSE Walk(fs, a[n - 1], p[n], follow)]
           S == {k \in Nat : \E a : E(k, a)}
<1>1. 0 \in S
  <2> DEFINE a == [n \in 0 .. 0 |-> <<>>]
  <2>1. a = [n \in 0 .. 0 |-> IF n = 0 THEN <<>>
                              ELSE Walk(fs, a[n - 1], p[n], follow)]
    OBVIOUS
  <2> HIDE DEF a
  <2> QED BY <2>1
<1>2. ASSUME NEW k \in Nat, k \in S PROVE k + 1 \in S
  <2>1. PICK a : E(k, a)
    BY <1>2
  <2>2. \A n \in 0 .. k : a[n] = IF n = 0 THEN <<>>
                                 ELSE Walk(fs, a[n - 1], p[n], follow)
    BY <2>1
  <2> DEFINE b == [n \in 0 .. k + 1 |->
                      IF n = k + 1 THEN Walk(fs, a[k], p[k + 1], follow)
                      ELSE a[n]]
             c == [n \in 0 .. k + 1 |->
                      IF n = 0 THEN <<>> ELSE Walk(fs, b[n - 1], p[n], follow)]
  <2>3. ASSUME NEW n \in 0 .. k + 1 PROVE b[n] = c[n]
    <3>1. CASE n = k + 1
      <4>1. n # 0 /\ n - 1 = k /\ k \in 0 .. k + 1 /\ k # k + 1
        BY <3>1
      <4>2. b[k] = a[k]
        BY <4>1
      <4> QED BY <3>1, <4>1, <4>2
    <3>2. CASE n # k + 1
      <4>1. n \in 0 .. k /\ b[n] = a[n]
        BY <3>2
      <4>2. CASE n = 0
        BY <2>2, <4>1, <4>2
      <4>3. CASE n # 0
        <5>1. n - 1 \in 0 .. k + 1 /\ n - 1 # k + 1
          BY <4>1, <4>3
        <5>2. b[n - 1] = a[n - 1]
          BY <5>1
        <5> QED BY <2>2, <4>1, <4>3, <5>2
      <4> QED BY <4>2, <4>3
    <3> QED BY <3>1, <3>2
  <2>4. b = c
    BY <2>3
  <2> HIDE DEF b
  <2> QED BY <2>4
<1> HIDE DEF S
<1>3. Nat \subseteq S
  BY <1>1, <1>2, NatSetInduction
<1>4. Len(p) \in S
  BY <1>3
<1> QED BY <1>4 DEF S, Walks

\* Resolve is where its last name leads.
LEMMA ResolveIs ==
    ASSUME NEW fs, NEW p, NEW follow, Len(p) \in Nat
    PROVE  \E a : Walks(fs, p, follow, a) /\ Resolve(fs, p, follow) = a[Len(p)]
<1> DEFINE e(x) == [n \in 0 .. Len(p) |->
                       IF n = 0 THEN <<>> ELSE Walk(fs, x[n - 1], p[n], follow)]
           a == CHOOSE x : x = e(x)
<1>1. Resolve(fs, p, follow) = a[Len(p)]
  BY DEF Resolve
<1>2. PICK f : Walks(fs, p, follow, f)
  BY WalksExist
<1>3. f = e(f)
  BY <1>2 DEF Walks
<1>4. a = e(a)
  BY <1>3
<1>5. Walks(fs, p, follow, a)
  BY <1>4 DEF Walks
<1> HIDE DEF a
<1> QED BY <1>1, <1>5

\* Paths that begin alike lead the same way as long as they are alike.
LEMMA WalksAgree ==
    ASSUME NEW fs, NEW follow, NEW p, NEW q, NEW k \in Nat,
           k <= Len(p), k <= Len(q), Len(p) \in Nat, Len(q) \in Nat,
           \A i \in 1 .. k : p[i] = q[i],
           NEW a, NEW b, Walks(fs, p, follow, a), Walks(fs, q, follow, b)
    PROVE  a[k] = b[k]
<1> DEFINE S == {n \in Nat : n <= k => a[n] = b[n]}
<1>a. /\ a[0] = <<>> /\ b[0] = <<>>
      /\ \A n \in 1 .. k : a[n] = Walk(fs, a[n - 1], p[n], follow)
      /\ \A n \in 1 .. k : b[n] = Walk(fs, b[n - 1], q[n], follow)
  <2>1. /\ \A n \in 0 .. Len(p) :
              a[n] = IF n = 0 THEN <<>> ELSE Walk(fs, a[n - 1], p[n], follow)
        /\ \A n \in 0 .. Len(q) :
              b[n] = IF n = 0 THEN <<>> ELSE Walk(fs, b[n - 1], q[n], follow)
    BY DEF Walks
  <2>2. 0 \in 0 .. Len(p) /\ 0 \in 0 .. Len(q)
    OBVIOUS
  <2>3. \A n \in 1 .. k : n \in 0 .. Len(p) /\ n \in 0 .. Len(q) /\ n # 0
    OBVIOUS
  <2> QED BY <2>1, <2>2, <2>3
<1>1. 0 \in S
  BY <1>a
<1>2. ASSUME NEW n \in Nat, n \in S PROVE n + 1 \in S
  <2> SUFFICES ASSUME n + 1 <= k PROVE a[n + 1] = b[n + 1]
    OBVIOUS
  <2>1. n + 1 \in 1 .. k /\ (n + 1) - 1 = n /\ n <= k
    OBVIOUS
  <2>2. a[n] = b[n] /\ p[n + 1] = q[n + 1]
    BY <1>2, <2>1
  <2>3. a[n + 1] = Walk(fs, a[n], p[n + 1], follow)
        /\ b[n + 1] = Walk(fs, b[n], q[n + 1], follow)
    BY <1>a, <2>1
  <2> QED BY <2>2, <2>3
<1> HIDE DEF S
<1>3. Nat \subseteq S
  BY <1>1, <1>2, NatSetInduction
<1> QED BY <1>3 DEF S

\* A path of names leads to an answer.
LEMMA ResolveResolved ==
    ASSUME NEW fs, GoodFiles(fs), NEW follow, Follows(fs, follow),
           NEW p \in Seq(Names)
    PROVE  Resolved(fs, Resolve(fs, p, follow))
<1>0. Len(p) \in Nat /\ \A n \in 1 .. Len(p) : p[n] \in Names
  OBVIOUS
<1>1. PICK a : Walks(fs, p, follow, a) /\ Resolve(fs, p, follow) = a[Len(p)]
  BY <1>0, ResolveIs
<1>2. \A n \in 0 .. Len(p) :
         a[n] = IF n = 0 THEN <<>> ELSE Walk(fs, a[n - 1], p[n], follow)
  BY <1>1 DEF Walks
<1> DEFINE S == {n \in Nat : n <= Len(p) => Resolved(fs, a[n])}
<1>3. 0 \in S
  <2>1. a[0] = <<>>
    BY <1>0, <1>2
  <2> QED BY <2>1, RootCanonical DEF Resolved
<1>4. ASSUME NEW n \in Nat, n \in S PROVE n + 1 \in S
  <2> SUFFICES ASSUME n + 1 <= Len(p) PROVE Resolved(fs, a[n + 1])
    OBVIOUS
  <2>1. /\ n + 1 \in 0 .. Len(p) /\ n + 1 # 0 /\ (n + 1) - 1 = n
        /\ n <= Len(p) /\ n + 1 \in 1 .. Len(p)
    BY <1>0
  <2>2. a[n + 1] = Walk(fs, a[n], p[n + 1], follow)
    BY <1>2, <2>1
  <2>3. Resolved(fs, a[n]) /\ p[n + 1] \in Names
    BY <1>0, <1>4, <2>1
  <2> QED BY <2>2, <2>3, WalkResolved
<1> HIDE DEF S
<1>5. Nat \subseteq S
  BY <1>3, <1>4, NatSetInduction
<1>6. Len(p) \in S
  BY <1>0, <1>5
<1>7. Len(p) <= Len(p)
  BY <1>0
<1> QED BY <1>1, <1>6, <1>7 DEF S

\* One plain name further.
LEMMA WalkPlain ==
    ASSUME NEW fs, NEW p, NEW name, NEW follow, name # "", name # "..",
           NodeAt(fs, p).kind = "dir",
           NodeAt(fs, Append(p, name)).kind \notin {"gone", "link"}
    PROVE  Walk(fs, p, name, follow) = Append(p, name)
BY DEF Walk

\* The first names of a path, and one more.
LEMMA PrefixGrows ==
    ASSUME NEW T, NEW p \in Seq(T), NEW n \in Nat, n + 1 <= Len(p)
    PROVE  SubSeq(p, 1, n + 1) = Append(SubSeq(p, 1, n), p[n + 1])
OBVIOUS

\* A canonical path leads to itself.
LEMMA ResolveCanonical ==
    ASSUME NEW fs, GoodFiles(fs), NEW follow, NEW p, Canonical(fs, p)
    PROVE  Resolve(fs, p, follow) = p
<1>0. p \in Seq(Names) /\ Len(p) \in Nat
  BY CanonicalParts, Zenon
<1>c. \A i \in 1 .. Len(p) : p[i] \notin {"", ".."}
  BY CanonicalParts, Zenon
<1>d. \A i \in 0 .. Len(p) - 1 : NodeAt(fs, SubSeq(p, 1, i)).kind = "dir"
  BY CanonicalParts, Zenon
<1>1. PICK a : Walks(fs, p, follow, a) /\ Resolve(fs, p, follow) = a[Len(p)]
  BY <1>0, ResolveIs
<1>2. \A n \in 0 .. Len(p) :
         a[n] = IF n = 0 THEN <<>> ELSE Walk(fs, a[n - 1], p[n], follow)
  BY <1>1 DEF Walks
<1> DEFINE L == Len(p)
           S == {n \in Nat : n <= L => a[n] = SubSeq(p, 1, n)}
<1>w. SubSeq(p, 1, L) = p
  BY <1>0
<1>3. 0 \in S
  <2>1. 0 \in 0 .. L
    BY <1>0
  <2>2. SubSeq(p, 1, 0) = <<>>
    BY <1>0
  <2> QED BY <1>2, <2>1, <2>2
<1>4. ASSUME NEW n \in Nat, n \in S PROVE n + 1 \in S
  <2> SUFFICES ASSUME n + 1 <= L PROVE a[n + 1] = SubSeq(p, 1, n + 1)
    OBVIOUS
  <2>1. /\ n + 1 \in 0 .. L /\ n + 1 # 0 /\ (n + 1) - 1 = n
        /\ n <= L /\ n + 1 \in 1 .. L /\ n \in 0 .. L - 1
    BY <1>0
  <2>2. a[n + 1] = Walk(fs, SubSeq(p, 1, n), p[n + 1], follow)
    BY <1>2, <1>4, <2>1
  <2>3. SubSeq(p, 1, n + 1) = Append(SubSeq(p, 1, n), p[n + 1])
    BY <1>0, PrefixGrows
  <2>4. p[n + 1] # "" /\ p[n + 1] # ".."
    BY <1>c, <2>1
  <2>5. NodeAt(fs, SubSeq(p, 1, n)).kind = "dir"
    BY <1>d, <2>1, Zenon
  <2>6. NodeAt(fs, SubSeq(p, 1, n + 1)).kind \notin {"gone", "link"}
    <3>1. CASE n + 1 = L
      <4>1. SubSeq(p, 1, n + 1) = p
        BY <1>w, <3>1
      <4>2. NodeAt(fs, p).kind \notin {"gone", "link"}
        BY Zenon DEF Canonical
      <4> QED BY <4>1, <4>2
    <3>2. CASE n + 1 # L
      <4>1. n + 1 \in 0 .. L - 1
        BY <1>0, <2>1, <3>2
      <4>2. NodeAt(fs, SubSeq(p, 1, n + 1)).kind = "dir"
        BY <1>d, <4>1, Zenon
      <4> QED BY <4>2
    <3> QED BY <3>1, <3>2
  <2>7. Walk(fs, SubSeq(p, 1, n), p[n + 1], follow) =
           Append(SubSeq(p, 1, n), p[n + 1])
    <3>1. NodeAt(fs, Append(SubSeq(p, 1, n), p[n + 1])).kind
             \notin {"gone", "link"}
      BY <2>3, <2>6, Zenon
    <3> QED BY <2>4, <2>5, <3>1, WalkPlain, Zenon
  <2> QED BY <2>2, <2>3, <2>7, Zenon
<1> HIDE DEF S
<1>5. Nat \subseteq S
  BY <1>3, <1>4, NatSetInduction
<1>6. L \in S /\ L <= L
  BY <1>0, <1>5
<1>7. a[L] = SubSeq(p, 1, L)
  BY <1>6 DEF S
<1> QED BY <1>1, <1>7, <1>w

\* A name more is a step more.
LEMMA ResolveAppend ==
    ASSUME NEW fs, NEW follow, NEW T, NEW p \in Seq(T), NEW x \in T
    PROVE  Resolve(fs, Append(p, x), follow) =
              Walk(fs, Resolve(fs, p, follow), x, follow)
<1> DEFINE q == Append(p, x)
<1>0. /\ Len(p) \in Nat /\ Len(q) = Len(p) + 1 /\ q[Len(p) + 1] = x
      /\ \A i \in 1 .. Len(p) : q[i] = p[i]
  BY AppendOf
<1> HIDE DEF q
<1>1. PICK a : Walks(fs, p, follow, a) /\ Resolve(fs, p, follow) = a[Len(p)]
  BY <1>0, ResolveIs
<1>n. Len(q) \in Nat
  BY <1>0
<1>2. PICK b : Walks(fs, q, follow, b) /\ Resolve(fs, q, follow) = b[Len(q)]
  BY <1>n, ResolveIs
<1>3. a[Len(p)] = b[Len(p)]
  <2>1. Len(p) <= Len(p) /\ Len(p) <= Len(q)
    BY <1>0
  <2>2. \A i \in 1 .. Len(p) : p[i] = q[i]
    BY <1>0
  <2> QED BY <1>0, <1>n, <1>1, <1>2, <2>1, <2>2, WalksAgree
<1>4. b[Len(q)] = Walk(fs, b[Len(p)], q[Len(q)], follow)
  <2>1. \A n \in 0 .. Len(q) :
           b[n] = IF n = 0 THEN <<>> ELSE Walk(fs, b[n - 1], q[n], follow)
    BY <1>2 DEF Walks
  <2>2. Len(q) \in 0 .. Len(q) /\ Len(q) # 0 /\ Len(q) - 1 = Len(p)
    BY <1>0
  <2> QED BY <2>1, <2>2
<1> QED BY <1>0, <1>1, <1>2, <1>3, <1>4 DEF q

\* realpath: it answers with canonical paths, leaves those as they are, and
\* takes a name after the other.
LEMMA RealPathIs ==
    ASSUME NEW fs, GoodFiles(fs)
    PROVE  /\ \A p \in Seq(Names) : Resolved(fs, RealPath(fs, p))
           /\ \A p \in Seq(Names) :
                 Canonical(fs, p) => RealPath(fs, p) = p
           /\ \A p, q \in Seq(Names), x \in Names :
                 RealPath(fs, p) = RealPath(fs, q) =>
                    RealPath(fs, Append(p, x)) = RealPath(fs, Append(q, x))
<1> DEFINE fourth == [t \in Targets(fs) |-> Nowhere]
           third == [t \in Targets(fs) |-> Resolve(fs, t, fourth)]
           second == [t \in Targets(fs) |-> Resolve(fs, t, third)]
<1>1. \A t \in Targets(fs) : t \in Seq(Names)
  <2> SUFFICES ASSUME NEW q \in DOMAIN fs, fs[q].kind = "link"
               PROVE  fs[q].target \in Seq(Names)
    BY DEF Targets
  <2>1. NodeAt(fs, q) = fs[q]
    BY DEF NodeAt
  <2> QED BY <2>1, Nodes
<1>2. \A p : RealPath(fs, p) = Resolve(fs, p, second)
  BY DEF RealPath
<1>3. Follows(fs, fourth)
  BY DEF Follows, Resolved
<1>4. Follows(fs, third)
  <2> HIDE DEF fourth
  <2>1. \A t \in Targets(fs) : third[t] = Resolve(fs, t, fourth)
    OBVIOUS
  <2> HIDE DEF third
  <2> QED BY <1>1, <1>3, <2>1, ResolveResolved DEF Follows
<1> HIDE DEF third
<1>5. Follows(fs, second)
  <2>1. \A t \in Targets(fs) : second[t] = Resolve(fs, t, third)
    OBVIOUS
  <2> HIDE DEF second
  <2> QED BY <1>1, <1>4, <2>1, ResolveResolved DEF Follows
<1> HIDE DEF second
<1>6. ASSUME NEW p \in Seq(Names) PROVE Resolved(fs, RealPath(fs, p))
  BY <1>2, <1>5, ResolveResolved
<1>7. ASSUME NEW p \in Seq(Names), Canonical(fs, p) PROVE RealPath(fs, p) = p
  BY <1>2, <1>7, ResolveCanonical
<1>8. ASSUME NEW p \in Seq(Names), NEW q \in Seq(Names), NEW x \in Names,
             RealPath(fs, p) = RealPath(fs, q)
      PROVE  RealPath(fs, Append(p, x)) = RealPath(fs, Append(q, x))
  <2>1. /\ Resolve(fs, Append(p, x), second) =
              Walk(fs, Resolve(fs, p, second), x, second)
        /\ Resolve(fs, Append(q, x), second) =
              Walk(fs, Resolve(fs, q, second), x, second)
    BY ResolveAppend
  <2> QED BY <1>2, <1>8, <2>1
<1> QED BY <1>6, <1>7, <1>8

\* Under a root that is not that of the file system, what Inside compares is
\* whether the path begins with the root.
LEMMA InsideIs ==
    ASSUME NEW T, NEW p \in Seq(T), NEW root \in Seq(T)
    PROVE  /\ Inside(p, root) => IsPrefix(root, p)
           /\ root # <<>> /\ IsPrefix(root, p) => Inside(p, root)
<1> DEFINE k == Len(root)
<1>0. k \in Nat /\ Len(p) \in Nat /\ DOMAIN root = 1 .. k
      /\ SubSeq(root, 1, k) = root
  OBVIOUS
<1>1. IsPrefix(root, p) <=>
        k <= Len(p) /\ \A i \in 1 .. k : root[i] = p[i]
  <2>1. CASE k <= Len(p)
    <3>1. /\ SubSeq(p, 1, k) \in Seq(T) /\ Len(SubSeq(p, 1, k)) = k
          /\ \A i \in 1 .. k : SubSeq(p, 1, k)[i] = p[i]
      BY <1>0, <2>1
    <3> DEFINE s == SubSeq(p, 1, k)
    <3> HIDE DEF s
    <3>2. root = s <=> \A i \in 1 .. k : root[i] = s[i]
      BY <1>0, <3>1 DEF s
    <3>3. IsPrefix(root, p) <=> root = s
      BY <1>0, <2>1 DEF IsPrefix, s
    <3> QED BY <2>1, <3>1, <3>2, <3>3 DEF s
  <2>2. CASE ~(k <= Len(p))
    BY <2>2 DEF IsPrefix
  <2> QED BY <2>1, <2>2
<1> HIDE DEF k
<1>2. ASSUME Inside(p, root) PROVE IsPrefix(root, p)
  <2>1. CASE root = <<>>
    BY <1>0, <1>1, <2>1 DEF k
  <2>2. CASE root # <<>>
    <3>1. /\ Len(p) >= k /\ p[k] = root[k]
          /\ \A i \in 1 .. k : p[i] = root[i] \/ i = k
      BY <1>0, <1>2, <2>2 DEF Inside, BeginsWithRoot, k
    <3>2. k <= Len(p)
      BY <1>0, <3>1
    <3> QED BY <1>1, <3>1, <3>2
  <2> QED BY <2>1, <2>2
<1>3. ASSUME root # <<>>, IsPrefix(root, p) PROVE Inside(p, root)
  <2>1. k <= Len(p) /\ \A i \in 1 .. k : root[i] = p[i]
    BY <1>1, <1>3
  <2>2. k \in 1 .. k
    BY <1>0, <1>3 DEF k
  <2>3. Len(p) >= k
    BY <1>0, <2>1
  <2> QED BY <1>0, <1>3, <2>1, <2>2, <2>3 DEF Inside, BeginsWithRoot, k
<1> QED BY <1>2, <1>3

Questions == {"root", "stat", "index", "realpath", "open"}

\* Types, and when what is set.
StaticTypes ==
    /\ static_dir \in Seq(Names) /\ request_path \in Seq(Names)
    /\ filepath \in Seq(Names)
    /\ resolved_root \in Seq(Names) /\ resolved_path \in Seq(Names)
    /\ where \in Questions \cup {"unconfigured", "idle", "answered"}
    /\ where \in Questions \cup {"idle"} => GoodFiles(files)
    /\ where \in {"unconfigured", "idle"} => fresh = {}
    /\ where # "answered" => opened = Nowhere
    /\ "realpath" \in fresh => where \in {"open", "answered"}

\* A handler that opens has compared, and nothing that changes matters to that.
Compared ==
    where = "open" =>
        /\ Inside(resolved_path, resolved_root)
        /\ "realpath" \in fresh => Canonical(files, resolved_path)

\* When nothing has changed, the handler is on the way to the file meant.
OnTheWay ==
    "handler" \in fresh =>
        /\ where \in {"stat", "index", "realpath", "open"} =>
              resolved_root = RealPath(files, static_dir)
              /\ resolved_root # Nowhere
        /\ where = "stat" => filepath = static_dir \o request_path
        /\ where \in {"index", "realpath"} => RealPath(files, filepath) = Meant
        /\ where = "realpath" => Kind(files, filepath) = "file"
        /\ where = "open" => resolved_path = Meant /\ "realpath" \in fresh
                             /\ NodeAt(files, Meant).kind = "file"

\* The inductive invariant.
StaticInv == StaticTypes /\ Compared /\ OnTheWay /\ StaticContained

\* What an answer leaves of the invariant.
LEMMA AnswerKeeps ==
    ASSUME StaticTypes, where' = "answered", StaticContained',
           request_path' \in Seq(Names), filepath' \in Seq(Names),
           resolved_root' \in Seq(Names), resolved_path' \in Seq(Names),
           static_dir' = static_dir
    PROVE  StaticInv'
<1>1. StaticTypes'
  BY DEF StaticTypes, Questions
<1> QED BY <1>1 DEF StaticInv, Compared, OnTheWay

\* Another process may change the file system at any time.
LEMMA StaticChange ==
    ASSUME StaticInv, NEW c \in Changes, Change(c[1], c[2]) PROVE StaticInv'
<1>1. /\ where \in Questions /\ fresh' = {}
      /\ files' = [q \in DOMAIN files \cup {c[1]} |->
                      IF q = c[1] THEN c[2] ELSE files[q]]
      /\ UNCHANGED <<static_dir, where, request_path, resolved_root, filepath,
                     resolved_path, opened>>
  BY DEF Change, Questions, names
<1>2. c[1] # <<>> /\ c[1] # Nowhere /\ IsNode(c[2])
  BY StaticAssumption
<1>3. GoodFiles(files)
  BY <1>1 DEF StaticInv, StaticTypes
<1>4. GoodFiles(files')
  <2> DEFINE g == files'
  <2>1. DOMAIN g = DOMAIN files \cup {c[1]}
    BY <1>1
  <2>2. \A q \in DOMAIN g : g[q] = IF q = c[1] THEN c[2] ELSE files[q]
    BY <1>1
  <2> HIDE DEF g
  <2>3. \A q \in DOMAIN g : IsNode(g[q])
    BY <1>2, <1>3, <2>1, <2>2 DEF GoodFiles
  <2>4. <<>> \in DOMAIN g /\ g[<<>>] = Dir /\ Nowhere \notin DOMAIN g
    BY <1>2, <1>3, <2>1, <2>2 DEF GoodFiles
  <2>5. GoodFiles(g)
    BY <2>3, <2>4 DEF GoodFiles
  <2> QED BY <2>5 DEF g
<1>5. StaticTypes'
  <2>1. (where \in Questions \cup {"idle"} => GoodFiles(files))'
    BY <1>4
  <2> QED BY <1>1, <2>1 DEF StaticInv, StaticTypes, Questions
<1>6. where' # "answered"
  BY <1>1 DEF Questions
<1>7. StaticContained'
  BY <1>1, <1>6 DEF StaticContained, StaticInv, StaticTypes
<1> QED BY <1>1, <1>5, <1>7 DEF StaticInv, Compared, OnTheWay

\* Configuration, and the answers that need no file.
LEMMA StaticBegins ==
    ASSUME StaticInv,
           \/ \E fs \in FileSystems, dir \in StaticDirs : ConfigureStatic(fs, dir)
           \/ \E p \in RequestPaths :
                 \/ \E wildcard \in BOOLEAN : Request(p, wildcard)
                 \/ RequestUnconfigured(p)
    PROVE  StaticInv'
<1>t. StaticTypes
  BY DEF StaticInv
<1>1. ASSUME NEW fs \in FileSystems, NEW dir \in StaticDirs,
             ConfigureStatic(fs, dir)
      PROVE  StaticInv'
  <2>1. /\ where = "unconfigured" /\ where' = "idle"
        /\ files' = fs /\ static_dir' = dir
        /\ UNCHANGED <<request_path, resolved_root, filepath, resolved_path,
                       opened, fresh>>
    BY <1>1 DEF ConfigureStatic, names
  <2>2. GoodFiles(files') /\ static_dir' \in Seq(Names)
    BY <2>1, StaticAssumption, StringsNames DEF GoodFiles
  <2>3. StaticTypes'
    BY <1>t, <2>1, <2>2 DEF StaticTypes, Questions
  <2>4. StaticContained'
    BY <1>t, <2>1 DEF StaticTypes, StaticContained
  <2> QED BY <1>t, <2>1, <2>3, <2>4 DEF StaticInv, Compared, OnTheWay
<1>2. ASSUME NEW p \in RequestPaths, NEW wildcard \in BOOLEAN,
             Request(p, wildcard)
      PROVE  StaticInv'
  <2>1. /\ where = "idle" /\ request_path' = p /\ fresh' = {"handler"}
        /\ \/ where' = "answered" /\ code' = 414
           \/ where' = "root"
        /\ UNCHANGED <<files, static_dir, resolved_root, filepath,
                       resolved_path, opened>>
    BY <1>2 DEF Request, Answers
  <2>2. request_path' \in Seq(Names)
    BY <2>1, StaticAssumption, StringsNames
  <2>3. StaticTypes'
    BY <1>t, <2>1, <2>2 DEF StaticTypes, Questions
  <2>4. StaticContained'
    BY <1>t, <2>1 DEF StaticTypes, StaticContained
  <2> QED BY <2>1, <2>3, <2>4 DEF StaticInv, Compared, OnTheWay
<1>3. ASSUME NEW p \in RequestPaths,
             RequestUnconfigured(p)
      PROVE  StaticInv'
  <2>1. /\ where = "unconfigured" /\ request_path' = p /\ where' = "answered"
        /\ UNCHANGED <<files, static_dir, resolved_root, filepath,
                       resolved_path, opened, fresh>>
    BY <1>3 DEF RequestUnconfigured, Answers
  <2>2. request_path' \in Seq(Names)
    BY <2>1, StaticAssumption, StringsNames
  <2>3. StaticContained'
    BY <1>t, <2>1 DEF StaticTypes, StaticContained
  <2> QED BY <1>t, <2>1, <2>2, <2>3, AnswerKeeps DEF StaticTypes
<1> QED BY <1>1, <1>2, <1>3

\* The names in the code are names.
LEMMA NamesInUse == IndexHtml \in Names /\ Nowhere \in Seq(Names)
<1>1. "nowhere" \in Names /\ "index.html" \in Names
  BY DEF Names, IndexHtml
<1>2. <<"nowhere">> \in Seq(Names)
  <2> DEFINE x == "nowhere"
  <2> HIDE DEF x
  <2>1. x \in Names
    BY <1>1 DEF x
  <2>2. <<x>> \in Seq(Names)
    BY <2>1
  <2> QED BY <2>2 DEF x
<1> QED BY <1>1, <1>2 DEF IndexHtml, Nowhere

\* What realpath answers is a path of names.
LEMMA RealPathTyped ==
    ASSUME NEW fs, GoodFiles(fs), NEW p \in Seq(Names)
    PROVE  /\ Resolved(fs, RealPath(fs, p)) /\ RealPath(fs, p) \in Seq(Names)
           /\ NodeAt(fs, RealPath(fs, p)).kind # "gone" =>
                 Canonical(fs, RealPath(fs, p))
<1>1. Resolved(fs, RealPath(fs, p))
  BY RealPathIs
<1>2. Nowhere \in Seq(Names)
  BY NamesInUse
<1>3. NodeAt(fs, Nowhere).kind = "gone"
  BY Nodes
<1> QED BY <1>1, <1>2, <1>3, CanonicalParts DEF Resolved

\* The root is resolved, and the file is named.
LEMMA StaticRoot == ASSUME StaticInv, ResolveRoot PROVE StaticInv'
<1>t. StaticTypes
  BY DEF StaticInv
<1>1. /\ where = "root" /\ resolved_root' = RealPath(files, static_dir)
      /\ filepath' = static_dir \o request_path
      /\ UNCHANGED <<files, static_dir, request_path, resolved_path, opened,
                     fresh>>
  BY DEF ResolveRoot
<1>2. \/ resolved_root' = Nowhere /\ code' = 500 /\ where' = "answered"
      \/ code' = 414 /\ where' = "answered"
      \/ resolved_root' # Nowhere /\ where' = "stat"
  BY DEF ResolveRoot, Answers
<1>3. /\ GoodFiles(files) /\ opened = Nowhere /\ "realpath" \notin fresh
      /\ static_dir \in Seq(Names) /\ request_path \in Seq(Names)
  BY <1>t, <1>1 DEF StaticTypes, Questions
<1>4. resolved_root' \in Seq(Names) /\ filepath' \in Seq(Names)
  BY <1>1, <1>3, RealPathTyped
<1>5. CASE where' = "answered"
  <2>1. StaticContained'
    BY <1>1, <1>2, <1>3, <1>5
       DEF StaticContained, FileUnder
  <2> QED BY <1>t, <1>1, <1>3, <1>4, <1>5, <2>1, AnswerKeeps DEF StaticTypes
<1>6. CASE where' = "stat"
  <2>1. StaticTypes'
    BY <1>t, <1>1, <1>3, <1>4, <1>6 DEF StaticTypes, Questions
  <2>2. StaticContained'
    BY <1>1, <1>3, <1>6 DEF StaticContained
  <2>3. OnTheWay'
    BY <1>1, <1>2, <1>6 DEF OnTheWay
  <2> QED BY <1>6, <2>1, <2>2, <2>3 DEF StaticInv, Compared
<1> QED BY <1>2, <1>5, <1>6

\* stat on the file, and on the index.html of a directory.
LEMMA StaticStat == ASSUME StaticInv, Stat \/ StatIndex PROVE StaticInv'
<1>t. StaticTypes
  BY DEF StaticInv
<1>1. /\ where \in {"stat", "index"}
      /\ UNCHANGED <<files, static_dir, request_path, resolved_root,
                     resolved_path, opened, fresh>>
  BY DEF Stat, StatIndex, names
<1>2. /\ GoodFiles(files) /\ opened = Nowhere /\ "realpath" \notin fresh
      /\ static_dir \in Seq(Names) /\ request_path \in Seq(Names)
      /\ filepath \in Seq(Names)
  BY <1>t, <1>1 DEF StaticTypes, Questions
<1>m. Meant' = Meant
  BY <1>1 DEF Meant
<1>n. /\ static_dir \o request_path \in Seq(Names)
      /\ IndexHtml \in Names /\ Append(filepath, IndexHtml) \in Seq(Names)
  <2>1. IndexHtml \in Names
    BY NamesInUse
  <2> QED BY <1>2, <2>1
<1>w. "handler" \in fresh =>
        /\ resolved_root = RealPath(files, static_dir) /\ resolved_root # Nowhere
        /\ where = "stat" => filepath = static_dir \o request_path
        /\ where = "index" => RealPath(files, filepath) = Meant
  BY <1>1 DEF StaticInv, OnTheWay
<1> DEFINE at == RealPath(files, filepath)
           kind == NodeAt(files, at).kind
<1>k. Kind(files, filepath) = kind
  BY DEF Kind
\* The file the request means, seen from the file that is asked about.
<1>3. ASSUME "handler" \in fresh, where = "stat"
      PROVE  /\ kind # "dir" => Meant = at
             /\ kind = "dir" =>
                   Meant = RealPath(files, Append(filepath, IndexHtml))
  <2>1. Meant = IF kind # "dir" THEN at
                ELSE RealPath(files, Append(at, IndexHtml))
    BY <1>w, <1>3 DEF Meant
  <2>2. CASE kind = "dir"
    <3>1. Canonical(files, at) /\ at \in Seq(Names)
      BY <1>2, <2>2, RealPathTyped
    <3>2. RealPath(files, at) = at
      BY <1>2, <3>1, RealPathIs
    <3>3. RealPath(files, Append(at, IndexHtml)) =
            RealPath(files, Append(filepath, IndexHtml))
      <4> HIDE DEF at
      <4>1. RealPath(files, filepath) = RealPath(files, at)
        BY <3>2 DEF at
      <4> QED BY <1>2, <1>n, <3>1, <4>1, RealPathIs
    <3> QED BY <2>1, <2>2, <3>3
  <2> QED BY <2>1, <2>2
<1> HIDE DEF kind, at
\* The answers.
<1>4. ASSUME where' = "answered", code' # 200, filepath' \in Seq(Names),
             "handler" \in fresh /\ code' # 414
                => NodeAt(files, Meant).kind # "file"
      PROVE  StaticInv'
  <2>1. StaticContained'
    BY <1>1, <1>2, <1>4, <1>m DEF StaticContained, FileUnder
  <2> QED BY <1>t, <1>1, <1>2, <1>4, <2>1, AnswerKeeps DEF StaticTypes
\* The next question.
<1>5. ASSUME where' \in {"index", "realpath"}, filepath' \in Seq(Names),
             "handler" \in fresh =>
                /\ RealPath(files, filepath') = Meant
                /\ where' = "realpath" => Kind(files, filepath') = "file"
      PROVE  StaticInv'
  <2>1. StaticTypes'
    BY <1>t, <1>1, <1>2, <1>5 DEF StaticTypes, Questions
  <2>2. StaticContained'
    BY <1>1, <1>2, <1>5 DEF StaticContained
  <2>3. OnTheWay'
    <3>1. "handler" \in fresh' =>
             /\ resolved_root' = RealPath(files', static_dir')
             /\ resolved_root' # Nowhere
             /\ RealPath(files', filepath') = Meant'
             /\ where' = "realpath" => Kind(files', filepath') = "file"
      BY <1>1, <1>5, <1>m, <1>w
    <3> QED BY <1>5, <3>1 DEF OnTheWay
  <2> QED BY <1>5, <2>1, <2>2, <2>3 DEF StaticInv, Compared
<1>6. CASE Stat
  <2>0. where = "stat"
    BY <1>6 DEF Stat
  <2>1. CASE kind = "gone"
    <3>1. where' = "answered" /\ code' = 404 /\ filepath' = filepath
      BY <1>6, <1>k, <2>1 DEF Stat, Answers
    <3> QED BY <1>2, <1>3, <1>4, <2>0, <2>1, <3>1 DEF kind
  <2>2. CASE kind = "file"
    <3>1. where' = "realpath" /\ filepath' = filepath
      BY <1>6, <1>k, <2>2 DEF Stat
    <3> QED BY <1>2, <1>3, <1>5, <1>k, <2>0, <2>2, <3>1 DEF at
  <2>3. CASE kind = "dir"
    <3>1. /\ filepath' = Append(filepath, IndexHtml)
          /\ \/ where' = "answered" /\ code' = 414
             \/ where' = "index"
      BY <1>6, <1>k, <2>3 DEF Stat, Answers
    <3> QED BY <1>n, <1>3, <1>4, <1>5, <2>0, <2>3, <3>1
  <2>4. CASE kind \notin {"gone", "file", "dir"}
    <3>1. where' = "answered" /\ code' = 403 /\ filepath' = filepath
      BY <1>6, <1>k, <2>4 DEF Stat, Answers
    <3> QED BY <1>2, <1>3, <1>4, <2>0, <2>4, <3>1 DEF kind
  <2> QED BY <2>1, <2>2, <2>3, <2>4
<1>7. CASE StatIndex
  <2>0. where = "index" /\ filepath' = filepath
    BY <1>7 DEF StatIndex, names
  <2>1. \/ kind # "file" /\ where' = "answered" /\ code' = 403
        \/ kind = "file" /\ where' = "realpath"
    BY <1>7, <1>k DEF StatIndex, Answers
  <2>2. "handler" \in fresh => at = Meant
    BY <1>w, <2>0 DEF at
  <2>3. CASE kind # "file" /\ where' = "answered" /\ code' = 403
    BY <1>2, <1>4, <2>0, <2>2, <2>3 DEF kind
  <2>4. CASE kind = "file" /\ where' = "realpath"
    BY <1>2, <1>5, <1>k, <2>0, <2>2, <2>4 DEF at
  <2> QED BY <2>1, <2>3, <2>4
<1> QED BY <1>6, <1>7

\* realpath on the file, and the comparison.
LEMMA StaticRealpath == ASSUME StaticInv, ResolvePath PROVE StaticInv'
<1>t. StaticTypes
  BY DEF StaticInv
<1>1. /\ where = "realpath" /\ resolved_path' = RealPath(files, filepath)
      /\ fresh' = fresh \cup {"realpath"}
      /\ UNCHANGED <<files, static_dir, request_path, resolved_root, filepath,
                     opened>>
  BY DEF ResolvePath
<1> DEFINE r == RealPath(files, filepath)
<1>2. \/ r = Nowhere /\ code' = 404 /\ where' = "answered"
      \/ ~Inside(r, resolved_root) /\ code' = 403 /\ where' = "answered"
      \/ r # Nowhere /\ Inside(r, resolved_root) /\ where' = "open"
  BY <1>1 DEF ResolvePath, Answers
<1>3. /\ GoodFiles(files) /\ opened = Nowhere
      /\ static_dir \in Seq(Names) /\ request_path \in Seq(Names)
      /\ filepath \in Seq(Names) /\ resolved_root \in Seq(Names)
  BY <1>t, <1>1 DEF StaticTypes, Questions
<1>4. r \in Seq(Names) /\ (r # Nowhere => Canonical(files, r))
  BY <1>3, RealPathTyped DEF Resolved
<1>5. "handler" \in fresh =>
        /\ resolved_root = RealPath(files, static_dir) /\ resolved_root # Nowhere
        /\ r = Meant /\ NodeAt(files, r).kind = "file"
  BY <1>1 DEF StaticInv, OnTheWay, Kind
<1>m. Meant' = Meant
  BY <1>1 DEF Meant
<1>h. "handler" \in fresh' <=> "handler" \in fresh
  BY <1>1
<1> HIDE DEF r
<1>6. CASE where' = "answered"
  <2>1. ASSUME "handler" \in fresh, RealPath(files, static_dir) # <<>>
        PROVE  ~FileUnder(Meant, RealPath(files, static_dir))
    <3>1. r # Nowhere
      BY <1>3, <1>5, <2>1, Nodes
    <3>2. ~Inside(r, resolved_root)
      BY <1>2, <1>6, <3>1
    <3>3. resolved_root # <<>>
      BY <1>5, <2>1
    <3>4. ~IsPrefix(resolved_root, r)
      BY <1>3, <1>4, <3>2, <3>3, InsideIs
    <3> QED BY <1>5, <2>1, <3>4 DEF FileUnder
  <2>2. code' # 200
    BY <1>2, <1>6
  <2>3. FileUnder(Meant, RealPath(files, static_dir))' <=>
           FileUnder(Meant, RealPath(files, static_dir))
    BY <1>1, <1>m DEF FileUnder
  <2>4. StaticContained'
    BY <1>1, <1>3, <1>h, <2>1, <2>2, <2>3 DEF StaticContained
  <2> QED BY <1>t, <1>1, <1>3, <1>4, <1>6, <2>4, AnswerKeeps DEF StaticTypes, r
<1>7. CASE where' = "open"
  <2>1. StaticTypes'
    BY <1>t, <1>1, <1>3, <1>4, <1>7 DEF StaticTypes, Questions, r
  <2>2. StaticContained'
    BY <1>1, <1>3, <1>7 DEF StaticContained
  <2>3. Compared'
    BY <1>1, <1>2, <1>4, <1>7 DEF Compared, r
  <2>4. OnTheWay'
    BY <1>1, <1>5, <1>7, <1>m, <1>h DEF OnTheWay, r
  <2> QED BY <2>1, <2>2, <2>3, <2>4 DEF StaticInv
<1> QED BY <1>2, <1>6, <1>7

\* papago_res_sendfile.
LEMMA StaticSends ==
    ASSUME StaticInv, SendStatic \/ SendFileFails PROVE StaticInv'
<1>t. StaticTypes
  BY DEF StaticInv
<1>1. /\ where = "open" /\ where' = "answered"
      /\ UNCHANGED <<files, static_dir, request_path, resolved_root, filepath,
                     resolved_path>>
  BY DEF SendStatic, SendFileFails, Answers, names
<1>2. /\ GoodFiles(files) /\ opened = Nowhere
      /\ resolved_root \in Seq(Names) /\ resolved_path \in Seq(Names)
  BY <1>t, <1>1 DEF StaticTypes, Questions
<1>3. StaticContained' => StaticInv'
  BY <1>t, <1>1, AnswerKeeps DEF StaticTypes
<1>4. CASE SendFileFails
  <2>1. code' = 500 /\ fresh' = {} /\ opened' = opened
    BY <1>4 DEF SendFileFails, Answers
  <2> QED BY <1>2, <1>3, <2>1 DEF StaticContained
<1>5. CASE SendStatic
  <2> DEFINE at == RealPath(files, resolved_path)
  <2>1. /\ fresh' = fresh
        /\ \/ /\ NodeAt(files, at).kind # "file" /\ code' = 500
              /\ opened' = opened
           \/ /\ NodeAt(files, at).kind = "file" /\ code' = 200
              /\ opened' = at
    BY <1>5 DEF SendStatic, Answers, Kind
  <2>2. /\ Inside(resolved_path, resolved_root)
        /\ "realpath" \in fresh => Canonical(files, resolved_path)
    BY <1>1 DEF StaticInv, Compared
  <2>3. "realpath" \in fresh => at = resolved_path
    BY <1>2, <2>2, RealPathIs
  <2>4. IsPrefix(resolved_root, resolved_path)
    BY <1>2, <2>2, InsideIs
  <2>5. "handler" \in fresh =>
          /\ resolved_root = RealPath(files, static_dir)
          /\ resolved_root # Nowhere /\ at = Meant
          /\ NodeAt(files, Meant).kind = "file"
    BY <1>1, <2>3 DEF StaticInv, OnTheWay
  <2>m. Meant' = Meant
    BY <1>1 DEF Meant
  <2> HIDE DEF at
  <2>6. /\ opened' # Nowhere =>
             /\ code' = 200 /\ NodeAt(files', opened').kind = "file"
             /\ "realpath" \in fresh' => IsPrefix(resolved_root', opened')
    BY <1>1, <1>2, <2>1, <2>3, <2>4
  <2>7. ASSUME "handler" \in fresh'
        PROVE  /\ code' = 200 /\ opened' = Meant'
               /\ FileUnder(Meant, RealPath(files, static_dir))'
    <3>1. code' = 200 /\ opened' = Meant
      BY <2>1, <2>5, <2>7
    <3>2. FileUnder(Meant, RealPath(files, static_dir))
      <4>1. "realpath" \in fresh /\ resolved_path = Meant
        BY <1>1, <2>1, <2>7 DEF StaticInv, OnTheWay
      <4> QED BY <2>1, <2>4, <2>5, <2>7, <4>1 DEF FileUnder
    <3>3. FileUnder(Meant, RealPath(files, static_dir))'
      BY <1>1, <2>m, <3>2 DEF FileUnder
    <3> QED BY <2>m, <3>1, <3>3
  <2>8. StaticContained'
    BY <2>6, <2>7 DEF StaticContained
  <2> QED BY <1>3, <2>8
<1> QED BY <1>4, <1>5

\* Whatever another process does to the file system, only regular files are
\* sent, and one outside the directory only if something changed after
\* realpath; when nothing changes, exactly the files in the directory are sent:
\* for any file system, directory and path.
THEOREM StaticIsContained == StaticSpec => []StaticContained
<1>1. StaticInit => StaticInv
  <2> SUFFICES ASSUME StaticInit PROVE StaticInv
    OBVIOUS
  <2>1. Nowhere \in Seq(Names) /\ <<>> \in Seq(Names)
    BY NamesInUse
  <2>2. StaticTypes
    BY <2>1 DEF StaticInit, StaticTypes, Questions
  <2> QED BY <2>2
          DEF StaticInit, StaticInv, Compared, OnTheWay, StaticContained
<1>2. StaticInv /\ [StaticNext]_staticVars => StaticInv'
  <2> SUFFICES ASSUME StaticInv, [StaticNext]_staticVars PROVE StaticInv'
    OBVIOUS
  <2>1. CASE Answered \/ UNCHANGED staticVars
    <3>1. UNCHANGED staticVars
      BY <2>1 DEF Answered
    <3>2. UNCHANGED <<files, static_dir, where, request_path, resolved_root,
                      filepath, resolved_path, code, opened, fresh>>
      BY <3>1 DEF staticVars, names
    <3>3. Meant' = Meant
      BY <3>2 DEF Meant
    <3>4. StaticTypes'
      BY <3>2 DEF StaticInv, StaticTypes
    <3>5. Compared' /\ OnTheWay'
      BY <3>2, <3>3 DEF StaticInv, Compared, OnTheWay
    <3>6. StaticContained'
      BY <3>2, <3>3 DEF StaticInv, StaticContained, FileUnder
    <3> QED BY <3>4, <3>5, <3>6 DEF StaticInv
  <2> QED BY <2>1, StaticBegins, StaticRoot, StaticStat, StaticRealpath,
             StaticSends, StaticChange DEF StaticNext
<1>3. StaticInv => StaticContained
  BY DEF StaticInv
<1> QED BY <1>1, <1>2, <1>3, PTL DEF StaticSpec
=============================================================================
