-------------------------- MODULE RateLimitProofs --------------------------
(***************************************************************************)
(* The table of clients for any number of threads, clients and entries,    *)
(* and any delay between reading the clock and taking the lock.            *)
(*                                                                         *)
(* That a client has one entry is inductive with the types: an entry is    *)
(* given to a client only when the loop has seen every entry and none      *)
(* matches, and entries of that client that remain would have matched.     *)
(*                                                                         *)
(* How much passes in a window, for any limit and window: RateInv says of  *)
(* every client what its entry counts, or, if it has none, that a stretch  *)
(* reaching the present holds at most the limit, so that the next window   *)
(* can be added to it.  It holds while no check is late: a check with an   *)
(* old clock value starts a window in the past.                            *)
(***************************************************************************)
EXTENDS RateLimit, WellFoundedInduction, TLAPS

\* Types of the table and of the calls.
TableTypes ==
    /\ ip \in [Slots -> IPs \cup {NoAddress}]
    /\ client_ip \in [Threads -> IPs \cup {NoAddress}]

\* The inductive invariant.
TableInv == TableTypes /\ OneEntryPerClient

\* Clearing expired entries never makes two entries of a client.
LEMMA ClearingKeeps ==
  ASSUME TableInv, NEW t \in Threads, NEW f \in Slots, NEW n, Cleared(f, t, n)
  PROVE  ip' \in [Slots -> IPs \cup {NoAddress}] /\ OneEntryPerClient'
<1>1. \A i \in Slots : ip'[i] \in {NoAddress, ip[i]}
  BY DEF Cleared
<1>2. ip' \in [Slots -> IPs \cup {NoAddress}]
  BY DEF Cleared, TableInv, TableTypes
<1> QED
  BY <1>1, <1>2 DEF TableInv, TableTypes, OneEntryPerClient

\* A new entry is the only one of its client.
LEMMA NewIsOnly ==
  ASSUME TableInv, NEW t \in Threads, CheckNew(t)
  PROVE  ip' \in [Slots -> IPs \cup {NoAddress}] /\ OneEntryPerClient'
<1>1. PICK s \in Slots :
          ip' = [i \in Slots |-> IF i = s THEN client_ip[t]
                                 ELSE IF Expired(i, now[t]) THEN NoAddress
                                 ELSE ip[i]]
  BY DEF CheckNew
<1>2. \A i \in Slots : ip[i] = client_ip[t] => Expired(i, now[t])
  BY DEF CheckNew, Match
<1>3. \A i \in Slots \ {s} :
          ip'[i] # NoAddress => ip'[i] = ip[i] /\ ip[i] # client_ip[t]
  BY <1>1, <1>2
<1>4. ip'[s] = client_ip[t]
  BY <1>1
<1>5. ip' \in [Slots -> IPs \cup {NoAddress}]
  BY <1>1 DEF TableInv, TableTypes
<1>6. ASSUME NEW i \in Slots, NEW j \in Slots, ip'[i] # NoAddress, ip'[i] = ip'[j]
      PROVE  i = j
  BY <1>3, <1>4, <1>6 DEF TableInv, OneEntryPerClient
<1> QED
  BY <1>5, <1>6 DEF OneEntryPerClient

\* Every check keeps the invariant.
LEMMA CheckKeeps ==
  ASSUME TableInv, NEW t \in Threads, Check(t)
  PROVE  TableInv'
<1>1. client_ip' \in [Threads -> IPs \cup {NoAddress}]
  BY DEF TableInv, TableTypes, Check, CheckAdmitted, CheckRefused, CheckNew,
         CheckFull, Returns
<1>2. CASE CheckAdmitted(t)
  <2>1. PICK f \in Slots : Cleared(f, t, count[f] + 1)
    BY <1>2 DEF CheckAdmitted
  <2> QED
    BY <1>1, <2>1, ClearingKeeps DEF TableInv, TableTypes
<1>3. CASE CheckRefused(t)
  <2>1. PICK f \in Slots : Cleared(f, t, count[f] + 1)
    BY <1>3 DEF CheckRefused
  <2> QED
    BY <1>1, <2>1, ClearingKeeps DEF TableInv, TableTypes
<1>4. CASE CheckNew(t)
  BY <1>1, <1>4, NewIsOnly DEF TableInv, TableTypes
<1>5. CASE CheckFull(t)
  BY <1>1, <1>5
     DEF CheckFull, entries, TableInv, TableTypes, OneEntryPerClient
<1> QED
  BY <1>2, <1>3, <1>4, <1>5 DEF Check

\* So does every other step.
LEMMA TableStep == TableInv /\ [RateNext]_rateVars => TableInv'
<1> SUFFICES ASSUME TableInv, [RateNext]_rateVars PROVE TableInv'
  OBVIOUS
<1>1. CASE Enable \/ EnableNoMemory \/ Serve \/ Tick \/ Done
           \/ UNCHANGED rateVars
  <2>1. UNCHANGED <<ip, client_ip>>
    BY <1>1 DEF Enable, EnableNoMemory, Serve, Tick, Done, rateVars, entries,
                calls
  <2> QED
    BY <2>1 DEF TableInv, TableTypes, OneEntryPerClient
<1>2. ASSUME NEW t \in Threads, NEW a \in IPs,
             CheckOff(t, a) \/ CheckBegin(t, a)
      PROVE  TableInv'
  <2>1. ip' = ip
    BY <1>2 DEF CheckOff, CheckBegin, entries
  <2>2. client_ip' \in [Threads -> IPs \cup {NoAddress}]
    BY <1>2 DEF CheckOff, CheckBegin, calls, TableInv, TableTypes
  <2> QED
    BY <2>1, <2>2 DEF TableInv, TableTypes, OneEntryPerClient
<1>3. ASSUME NEW t \in Threads, Check(t)
      PROVE  TableInv'
  BY <1>3, CheckKeeps
<1> QED
  BY <1>1, <1>2, <1>3 DEF RateNext

\* At the start the table is empty.
LEMMA TableStart == RateInit => TableInv
  BY RateAssumption DEF RateInit, TableInv, TableTypes, OneEntryPerClient

\* papago_check_rate_limit never gives a client a second entry, however the
\* requests of many threads interleave with the clearing of expired entries
\* and however stale the clock values they carry.
THEOREM ClientHasOneEntry == RateSpec => []OneEntryPerClient
<1>1. TableInv => OneEntryPerClient
  BY DEF TableInv
<1> QED
  BY <1>1, TableStart, TableStep, PTL DEF RateSpec

-----------------------------------------------------------------------------
(* Totals is defined by recursion; its lemmas go by induction over time.   *)

\* A set of numbers with 0 and all successors has every number.
LEMMA NatSetInduction ==
    ASSUME NEW S, 0 \in S, \A n \in Nat : n \in S => n + 1 \in S
    PROVE  Nat \subseteq S
<1> DEFINE R == OpToRel(<, Nat)
           T == Nat \ S
<1> SUFFICES ASSUME T # {} PROVE FALSE
  OBVIOUS
<1>1. \A x, y \in Nat : <<y, x>> \in R <=> y < x
  BY DEF OpToRel
<1>2. PICK x \in T : \A y \in T : <<y, x>> \notin R
  <2>1. IsWellFoundedOn(R, Nat)
    BY NatLessThanWellFounded, Zenon
  <2>2. T \subseteq Nat /\ T # {}
    OBVIOUS
  <2> HIDE DEF R, T
  <2> QED BY <2>1, <2>2, WFMin
<1> HIDE DEF R
<1>3. x \in Nat /\ x # 0
  OBVIOUS
<1>4. x - 1 \in Nat /\ x - 1 < x /\ (x - 1) + 1 = x
  BY <1>3
<1>5. x - 1 \in S
  BY <1>1, <1>2, <1>3, <1>4
<1> QED BY <1>4, <1>5

\* The numbers of requests in each second of the clock.
Tallies == [0 .. MaxClock -> Nat]
End == MaxClock + 1

\* The recursion has a solution up to any second.
LEMMA SumsExist ==
    ASSUME NEW f
    PROVE  \A n \in Nat : \E g :
              g = [x \in 0 .. n |-> IF x = 0 THEN 0 ELSE g[x - 1] + f[x - 1]]
<1> DEFINE S == {n \in Nat : \E g :
              g = [x \in 0 .. n |-> IF x = 0 THEN 0 ELSE g[x - 1] + f[x - 1]]}
<1>1. 0 \in S
  <2> DEFINE g == [x \in 0 .. 0 |-> 0]
  <2>1. g = [x \in 0 .. 0 |-> IF x = 0 THEN 0 ELSE g[x - 1] + f[x - 1]]
    OBVIOUS
  <2> HIDE DEF g
  <2> QED BY <2>1
<1>2. ASSUME NEW n \in Nat, n \in S PROVE n + 1 \in S
  <2>1. PICK g : g = [x \in 0 .. n |->
                         IF x = 0 THEN 0 ELSE g[x - 1] + f[x - 1]]
    BY <1>2
  <2>2. \A x \in 0 .. n : g[x] = IF x = 0 THEN 0 ELSE g[x - 1] + f[x - 1]
    BY <2>1
  <2> DEFINE h == [x \in 0 .. (n + 1) |-> IF x = n + 1 THEN g[n] + f[n] ELSE g[x]]
             k == [x \in 0 .. (n + 1) |->
                      IF x = 0 THEN 0 ELSE h[x - 1] + f[x - 1]]
  <2>3. ASSUME NEW x \in 0 .. (n + 1) PROVE h[x] = k[x]
    <3>1. CASE x = 0
      BY <2>2, <3>1
    <3>2. CASE x \in 1 .. n
      <4>1. x - 1 \in 0 .. n /\ x \in 0 .. n /\ x # 0 /\ x # n + 1
            /\ x - 1 # n + 1
        BY <3>2
      <4>2. h[x - 1] = g[x - 1] /\ h[x] = g[x]
        BY <4>1
      <4> QED BY <2>2, <4>1, <4>2
    <3>3. CASE x = n + 1
      <4>1. x # 0 /\ x - 1 = n /\ n # n + 1 /\ n \in 0 .. (n + 1)
        BY <3>3
      <4>2. h[n] = g[n] /\ h[x] = g[n] + f[n]
        BY <3>3, <4>1
      <4> QED BY <3>3, <4>1, <4>2
    <3> QED BY <3>1, <3>2, <3>3
  <2>4. h = k
    BY <2>3
  <2> HIDE DEF h
  <2> QED BY <2>4
<1> HIDE DEF S
<1>3. Nat \subseteq S
  BY <1>1, <1>2, NatSetInduction
<1> QED BY <1>3 DEF S

\* The totals are the solution, and numbers.
LEMMA TotalsAre ==
    ASSUME NEW f \in Tallies
    PROVE  /\ Totals(f)[0] = 0
           /\ \A x \in 0 .. MaxClock :
                 Totals(f)[x + 1] = Totals(f)[x] + f[x]
           /\ \A x \in 0 .. End : Totals(f)[x] \in Nat
<1> DEFINE e(s) == [x \in 0 .. MaxClock + 1 |->
                       IF x = 0 THEN 0 ELSE s[x - 1] + f[x - 1]]
           U == CHOOSE s : s = e(s)
<1>m. MaxClock \in Nat /\ MaxClock + 1 \in Nat
  BY RateAssumption
<1>1. Totals(f) = U
  BY DEF Totals
<1>2. \E s : s = e(s)
  BY <1>m, SumsExist
<1>3. U = e(U)
  BY <1>2
<1> HIDE DEF U
<1>4. \A x \in 0 .. MaxClock + 1 : U[x] = IF x = 0 THEN 0 ELSE U[x - 1] + f[x - 1]
  BY <1>3
<1> HIDE DEF e
<1>5. U[0] = 0
  BY <1>m, <1>4
<1>6. ASSUME NEW x \in 0 .. MaxClock PROVE U[x + 1] = U[x] + f[x]
  <2>1. x + 1 \in 0 .. MaxClock + 1 /\ x + 1 # 0 /\ (x + 1) - 1 = x
    BY <1>m
  <2> QED BY <1>4, <2>1
<1> DEFINE S == {n \in Nat : n <= End => U[n] \in Nat}
<1>7. 0 \in S
  BY <1>5
<1>8. ASSUME NEW n \in Nat, n \in S PROVE n + 1 \in S
  <2> SUFFICES ASSUME n + 1 <= End PROVE U[n + 1] \in Nat
    OBVIOUS
  <2>1. n \in 0 .. MaxClock /\ n <= End
    BY <1>m DEF End
  <2>2. f[n] \in Nat
    BY <2>1 DEF Tallies
  <2> QED BY <1>6, <1>8, <2>1, <2>2
<1>9. \A x \in 0 .. End : U[x] \in Nat
  <2> HIDE DEF S
  <2>1. Nat \subseteq S
    BY <1>7, <1>8, NatSetInduction
  <2> QED BY <1>m, <2>1 DEF S, End
<1> QED BY <1>1, <1>5, <1>6, <1>9

\* The totals grow, and stay the same where nothing is counted.
LEMMA TotalsGrow ==
    ASSUME NEW f \in Tallies, NEW m \in 0 .. End, NEW n \in 0 .. End, m <= n
    PROVE  /\ Totals(f)[m] <= Totals(f)[n]
           /\ (\A x \in 0 .. MaxClock : (m <= x /\ x < n) => f[x] = 0)
                 => Totals(f)[m] = Totals(f)[n]
<1> DEFINE U == Totals(f)
           Flat(k) == \A x \in 0 .. MaxClock : (m <= x /\ x < k) => f[x] = 0
           S == {k \in Nat : (m <= k /\ k <= End) =>
                    U[m] <= U[k] /\ (Flat(k) => U[m] = U[k])}
<1>m. MaxClock \in Nat /\ End = MaxClock + 1 /\ m \in Nat /\ n \in Nat
  BY RateAssumption DEF End
<1>u. /\ \A x \in 0 .. MaxClock : U[x + 1] = U[x] + f[x]
      /\ \A x \in 0 .. End : U[x] \in Nat
  BY TotalsAre
<1> HIDE DEF U
<1>1. 0 \in S
  BY <1>m, <1>u
<1>2. ASSUME NEW k \in Nat, k \in S PROVE k + 1 \in S
  <2> SUFFICES ASSUME m <= k + 1, k + 1 <= End
               PROVE  U[m] <= U[k + 1] /\ (Flat(k + 1) => U[m] = U[k + 1])
    OBVIOUS
  <2>1. CASE m = k + 1
    BY <1>u, <2>1
  <2>2. CASE m # k + 1
    <3>1. m <= k /\ k \in 0 .. MaxClock /\ k \in 0 .. End /\ k <= End
      BY <1>m, <2>2
    <3>2. U[m] <= U[k] /\ (Flat(k) => U[m] = U[k])
      BY <1>2, <3>1
    <3>3. f[k] \in Nat /\ U[k + 1] = U[k] + f[k] /\ U[k] \in Nat /\ U[m] \in Nat
      BY <1>u, <3>1 DEF Tallies
    <3>4. Flat(k + 1) => Flat(k) /\ f[k] = 0
      BY <1>m, <3>1
    <3> HIDE DEF Flat
    <3> QED BY <3>2, <3>3, <3>4
  <2> QED BY <2>1, <2>2
<1> HIDE DEF S
<1>3. n \in S
  BY <1>1, <1>2, <1>m, NatSetInduction
<1> QED BY <1>m, <1>3 DEF S, U

\* One more request in second c.
LEMMA TotalsMore ==
    ASSUME NEW f \in Tallies, NEW c \in 0 .. MaxClock,
           NEW g, g = [f EXCEPT ![c] = @ + 1]
    PROVE  /\ g \in Tallies
           /\ \A n \in 0 .. End : Totals(g)[n] =
                 IF n <= c THEN Totals(f)[n] ELSE Totals(f)[n] + 1
<1> DEFINE U == Totals(f)
           V == Totals(g)
           S == {n \in Nat : n <= End => V[n] = IF n <= c THEN U[n] ELSE U[n] + 1}
<1>m. MaxClock \in Nat /\ End = MaxClock + 1 /\ c \in Nat
  BY RateAssumption DEF End
<1>g. g \in Tallies /\ \A x \in 0 .. MaxClock :
                           g[x] = IF x = c THEN f[x] + 1 ELSE f[x]
  BY DEF Tallies
<1>u. /\ U[0] = 0 /\ V[0] = 0
      /\ \A x \in 0 .. MaxClock : U[x + 1] = U[x] + f[x]
      /\ \A x \in 0 .. MaxClock : V[x + 1] = V[x] + g[x]
      /\ \A x \in 0 .. End : U[x] \in Nat
  BY <1>g, TotalsAre
<1> HIDE DEF U, V
<1>1. 0 \in S
  BY <1>m, <1>u
<1>2. ASSUME NEW k \in Nat, k \in S PROVE k + 1 \in S
  <2> SUFFICES ASSUME k + 1 <= End
               PROVE  V[k + 1] = IF k + 1 <= c THEN U[k + 1] ELSE U[k + 1] + 1
    OBVIOUS
  <2>1. k \in 0 .. MaxClock /\ k \in 0 .. End /\ k <= End
    BY <1>m
  <2>2. /\ f[k] \in Nat /\ U[k] \in Nat
        /\ U[k + 1] = U[k] + f[k] /\ V[k + 1] = V[k] + g[k]
        /\ g[k] = IF k = c THEN f[k] + 1 ELSE f[k]
        /\ V[k] = IF k <= c THEN U[k] ELSE U[k] + 1
    BY <1>2, <1>g, <1>u, <2>1 DEF Tallies
  <2>3. CASE k < c
    BY <1>m, <2>2, <2>3
  <2>4. CASE k = c
    BY <1>m, <2>2, <2>4
  <2>5. CASE k > c
    BY <1>m, <2>2, <2>5
  <2> QED BY <1>m, <2>3, <2>4, <2>5
<1> HIDE DEF S
<1>3. Nat \subseteq S
  BY <1>1, <1>2, NatSetInduction
<1>4. \A n \in 0 .. End : V[n] = IF n <= c THEN U[n] ELSE U[n] + 1
  BY <1>m, <1>3 DEF S
<1> QED BY <1>g, <1>4 DEF U, V

-----------------------------------------------------------------------------
(* Windows                                                                 *)

\* Types of what the argument about windows is about.
RateTypes ==
    /\ TableInv
    /\ clock \in 0 .. MaxClock
    /\ count \in [Slots -> Nat] /\ window_start \in [Slots -> Nat]
    /\ \A i \in Slots : window_start[i] <= clock
    /\ now \in [Threads -> Nat] /\ \A t \in Threads : now[t] <= clock
    /\ admitted \in [IPs -> Tallies] /\ refused \in [IPs -> Tallies]
    /\ late \in BOOLEAN

\* Every check under way has the current second.
InTime == \A t \in Threads : ~Idle(t) => now[t] = clock

\* Requests of client a let through from second s on.
Since(a, s) == Totals(admitted[a])[End] - Totals(admitted[a])[s]

\* Client a can start a window now: it has had at most the limit in what a
\* stretch that reaches the present sees, and nothing in this second.
Fresh(a) ==
    /\ \A s \in 0 .. End : s > clock - rate_limit_window =>
          Since(a, s) <= rate_limit_requests
    /\ \A x \in 0 .. MaxClock : x >= clock => admitted[a][x] = 0

\* Entry i counts what client a was let through since the window's start, up to
\* the limit; a stretch that ends before the start saw at most the limit; and
\* nothing comes behind the window's end.
Window(a, i) ==
    /\ Since(a, window_start[i]) =
          IF count[i] <= rate_limit_requests THEN count[i] ELSE rate_limit_requests
    /\ \A s \in 0 .. window_start[i] : s > window_start[i] - rate_limit_window =>
          Since(a, s) - Since(a, window_start[i]) <= rate_limit_requests
    /\ \A x \in 0 .. MaxClock : x >= window_start[i] + rate_limit_window =>
          admitted[a][x] = 0

\* What is known of client a, with or without an entry.
Windows(a) ==
    /\ \A x \in 0 .. MaxClock : x > clock => admitted[a][x] = 0
    /\ \A i \in Slots : ip[i] = a => Window(a, i)
    /\ (\A i \in Slots : ip[i] # a) => Fresh(a)
    /\ \A s \in 0 .. MaxClock : AdmittedIn(a, s) <= 2 * rate_limit_requests

\* A limit of no requests lets one through per window, and a window of no
\* seconds never refuses; the argument is about the others.
Limiting == rate_limit_requests # 0 /\ rate_limit_window # 0

\* The inductive invariant.
RateInv ==
    /\ RateTypes
    /\ ~late => InTime /\ (Limiting => \A a \in IPs : Windows(a))

\* The types are kept.
LEMMA RateTypesStep == RateTypes /\ [RateNext]_rateVars => RateTypes'
<1> SUFFICES ASSUME RateTypes, [RateNext]_rateVars PROVE RateTypes'
  OBVIOUS
<1>m. MaxClock \in Nat
  BY RateAssumption
<1>t. TableInv'
  BY TableStep DEF RateTypes
<1>n. \A t \in Threads : now[t] \in 0 .. MaxClock
  BY <1>m DEF RateTypes
<1>1. CASE Enable \/ EnableNoMemory \/ Serve \/ Done \/ UNCHANGED rateVars
  <2>1. UNCHANGED <<clock, count, window_start, now, admitted, refused, late>>
    BY <1>1 DEF Enable, EnableNoMemory, Serve, Done, rateVars, entries, calls,
                history
  <2> QED BY <1>t, <2>1 DEF RateTypes
<1>2. CASE Tick
  <2>1. /\ clock' = clock + 1 /\ clock < MaxClock /\ late' \in BOOLEAN
        /\ UNCHANGED <<count, window_start, now, admitted, refused>>
    BY <1>2 DEF Tick, entries, calls
  <2> QED BY <1>m, <1>t, <2>1 DEF RateTypes
<1>3. ASSUME NEW t \in Threads, NEW a \in IPs, CheckOff(t, a) \/ CheckBegin(t, a)
      PROVE  RateTypes'
  <2>1. UNCHANGED <<clock, count, window_start, admitted, refused, late>>
    BY <1>3 DEF CheckOff, CheckBegin, entries, history
  <2>2. now' = now \/ now' = [now EXCEPT ![t] = clock]
    BY <1>3 DEF CheckOff, CheckBegin, calls
  <2>3. now' \in [Threads -> Nat] /\ \A u \in Threads : now'[u] <= clock
    BY <1>m, <2>2 DEF RateTypes
  <2> QED BY <1>t, <2>1, <2>3 DEF RateTypes
<1>4. ASSUME NEW t \in Threads, Check(t) PROVE RateTypes'
  <2>1. UNCHANGED <<clock, late>> /\ now' = [now EXCEPT ![t] = 0]
    BY <1>4 DEF Check, CheckAdmitted, CheckRefused, CheckNew, CheckFull, Returns,
                history
  <2>2. now' \in [Threads -> Nat] /\ \A u \in Threads : now'[u] <= clock
    BY <1>m, <2>1 DEF RateTypes
  <2>3. ASSUME NEW F \in [IPs -> Tallies], NEW G,
               G = [F EXCEPT ![client_ip[t]][now[t]] = @ + 1]
        PROVE  G \in [IPs -> Tallies]
    <3>1. G = [a \in IPs |-> IF a = client_ip[t]
                               THEN [F[a] EXCEPT ![now[t]] = @ + 1] ELSE F[a]]
      BY <2>3
    <3>2. ASSUME NEW a \in IPs PROVE [F[a] EXCEPT ![now[t]] = @ + 1] \in Tallies
      BY <1>n, TotalsMore
    <3> QED BY <3>1, <3>2
  <2>4. admitted' \in [IPs -> Tallies] /\ refused' \in [IPs -> Tallies]
    BY <1>4, <2>3 DEF RateTypes, Check, CheckAdmitted, CheckRefused, CheckNew,
                      CheckFull, Admit, history
  <2>5. ASSUME CheckAdmitted(t) \/ CheckRefused(t)
        PROVE  /\ count' \in [Slots -> Nat] /\ window_start' = window_start
    <3>1. PICK f \in Slots : Cleared(f, t, count[f] + 1)
      BY <2>5 DEF CheckAdmitted, CheckRefused
    <3>2. count' \in [Slots -> Nat]
      BY <3>1 DEF Cleared, RateTypes
    <3> QED BY <2>5, <3>2 DEF CheckAdmitted, CheckRefused
  <2>6. ASSUME CheckNew(t)
        PROVE  /\ count' \in [Slots -> Nat] /\ window_start' \in [Slots -> Nat]
               /\ \A i \in Slots : window_start'[i] <= clock
    <3>1. PICK s \in Slots :
             /\ count' = [i \in Slots |-> IF i = s THEN 1
                                          ELSE IF Expired(i, now[t]) THEN 0
                                          ELSE count[i]]
             /\ window_start' = [window_start EXCEPT ![s] = now[t]]
      BY <2>6 DEF CheckNew
    <3> QED BY <1>m, <3>1 DEF RateTypes
  <2>7. CASE CheckAdmitted(t) \/ CheckRefused(t)
    BY <1>t, <2>1, <2>2, <2>4, <2>5, <2>7 DEF RateTypes
  <2>8. CASE CheckNew(t)
    BY <1>t, <2>1, <2>2, <2>4, <2>6, <2>8 DEF RateTypes
  <2>9. CASE CheckFull(t)
    BY <1>t, <2>1, <2>2, <2>4, <2>9 DEF RateTypes, CheckFull, entries
  <2> QED BY <1>4, <2>7, <2>8, <2>9 DEF Check
<1> QED BY <1>1, <1>2, <1>3, <1>4 DEF RateNext

\* A client whose window is over can start another.
LEMMA OverIsFresh ==
    ASSUME RateTypes, NEW a \in IPs, NEW i \in Slots, Window(a, i),
           clock - window_start[i] >= rate_limit_window
    PROVE  Fresh(a)
<1> DEFINE w == window_start[i]
           U == Totals(admitted[a])
<1>m. /\ MaxClock \in Nat /\ End = MaxClock + 1 /\ clock \in 0 .. MaxClock
      /\ rate_limit_window \in Nat /\ rate_limit_requests \in Nat
      /\ w \in Nat /\ w <= clock /\ admitted[a] \in Tallies /\ count[i] \in Nat
  BY RateAssumption DEF RateTypes, End
<1>1. U[End] - U[w] <= rate_limit_requests
  BY <1>m DEF Window, Since
<1>2. ASSUME NEW s \in 0 .. End, s > clock - rate_limit_window
      PROVE  U[End] - U[s] <= rate_limit_requests
  <2>1. w \in 0 .. End /\ w <= s /\ End \in 0 .. End
    BY <1>m, <1>2
  <2>2. U[w] <= U[s]
    BY <1>m, <2>1, TotalsGrow
  <2>3. U[w] \in Nat /\ U[s] \in Nat /\ U[End] \in Nat
    BY <1>m, <2>1, TotalsAre
  <2> HIDE DEF U, w
  <2> QED BY <1>m, <1>1, <2>2, <2>3
<1>3. ASSUME NEW x \in 0 .. MaxClock, x >= clock PROVE admitted[a][x] = 0
  BY <1>m, <1>3 DEF Window
<1> QED BY <1>2, <1>3 DEF Fresh, Since

\* What a check leaves of another client.
LEMMA OthersKept ==
    ASSUME RateTypes, NEW a \in IPs, Windows(a), clock' = clock,
           admitted'[a] = admitted[a],
           \A i \in Slots : ip'[i] = a =>
               ip[i] = a /\ count'[i] = count[i] /\ window_start'[i] = window_start[i],
           \A i \in Slots : (ip[i] = a /\ ip'[i] # a) =>
               clock - window_start[i] >= rate_limit_window
    PROVE  Windows(a)'
<1>1. Fresh(a)' <=> Fresh(a)
  BY DEF Fresh, Since
<1>2. ASSUME NEW i \in Slots, ip'[i] = a PROVE Window(a, i)'
  <2>1. Window(a, i)
    BY <1>2 DEF Windows
  <2> QED BY <1>2, <2>1 DEF Window, Since
<1>3. ASSUME \A i \in Slots : ip'[i] # a PROVE Fresh(a)
  <2>1. CASE \A i \in Slots : ip[i] # a
    BY <2>1 DEF Windows
  <2>2. CASE \E i \in Slots : ip[i] = a
    <3>1. PICK i \in Slots : ip[i] = a
      BY <2>2
    <3> QED BY <1>3, <3>1, OverIsFresh DEF Windows
  <2> QED BY <2>1, <2>2
<1>4. \A s \in 0 .. MaxClock : AdmittedIn(a, s)' <= 2 * rate_limit_requests
  BY DEF Windows, AdmittedIn
<1>5. \A x \in 0 .. MaxClock : x > clock' => admitted'[a][x] = 0
  BY DEF Windows
<1> QED BY <1>1, <1>2, <1>3, <1>4, <1>5 DEF Windows

\* One more request of client a, at a time when every stretch that reaches the
\* present has room for it.
LEMMA OneMore ==
    ASSUME RateTypes, NEW a \in IPs, Windows(a), clock' = clock,
           admitted'[a] = [admitted[a] EXCEPT ![clock] = @ + 1],
           \A s \in 0 .. clock : s > clock - rate_limit_window =>
               Since(a, s) + 1 <= 2 * rate_limit_requests
    PROVE  /\ \A s \in 0 .. clock : Since(a, s)' = Since(a, s) + 1
           /\ \A x \in 0 .. MaxClock : x > clock => admitted'[a][x] = 0
           /\ \A s \in 0 .. MaxClock : AdmittedIn(a, s)' <= 2 * rate_limit_requests
<1> DEFINE U == Totals(admitted[a])
           V == Totals(admitted'[a])
<1>m. /\ MaxClock \in Nat /\ End = MaxClock + 1 /\ clock \in 0 .. MaxClock
      /\ rate_limit_window \in Nat /\ rate_limit_requests \in Nat
      /\ admitted[a] \in Tallies /\ End \in 0 .. End
  BY RateAssumption DEF RateTypes, End
<1>v. \A n \in 0 .. End : V[n] = IF n <= clock THEN U[n] ELSE U[n] + 1
  BY <1>m, TotalsMore
<1>u. \A n \in 0 .. End : U[n] \in Nat
  BY <1>m, TotalsAre
<1>g. \A n \in 0 .. End : U[n] <= U[End]
  BY <1>m, TotalsGrow
<1> HIDE DEF U, V
<1>1. ASSUME NEW s \in 0 .. clock PROVE V[End] - V[s] = (U[End] - U[s]) + 1
  <2>1. s \in 0 .. End /\ s <= clock /\ ~(End <= clock)
    BY <1>m
  <2>2. V[End] = U[End] + 1 /\ V[s] = U[s] /\ U[End] \in Nat /\ U[s] \in Nat
    BY <1>m, <1>v, <1>u, <2>1
  <2> QED BY <2>2
<1>2. ASSUME NEW x \in 0 .. MaxClock, x > clock PROVE admitted'[a][x] = 0
  BY <1>m, <1>2 DEF Windows, Tallies
<1>3. ASSUME NEW s \in 0 .. MaxClock
      PROVE  V[Within(s + rate_limit_window)] - V[Within(s)]
                <= 2 * rate_limit_requests
  <2> DEFINE e == Within(s + rate_limit_window)
  <2>1. /\ Within(s) = s /\ s \in 0 .. End /\ e \in 0 .. End
        /\ s <= e /\ (s + rate_limit_window <= clock => e <= clock)
    BY <1>m DEF Within
  <2>2. U[e] - U[s] <= 2 * rate_limit_requests
    BY <2>1 DEF Windows, AdmittedIn, U
  <2>3. /\ U[e] \in Nat /\ U[s] \in Nat /\ U[End] \in Nat /\ U[e] <= U[End]
        /\ V[e] = IF e <= clock THEN U[e] ELSE U[e] + 1
        /\ V[s] = IF s <= clock THEN U[s] ELSE U[s] + 1
    BY <1>m, <1>u, <1>v, <1>g, <2>1
  <2> SUFFICES V[e] - V[s] <= 2 * rate_limit_requests
    BY <2>1
  <2> HIDE DEF e
  <2>4. CASE s > clock
    BY <1>m, <2>1, <2>2, <2>3, <2>4
  <2>5. CASE e <= clock
    BY <1>m, <2>1, <2>2, <2>3, <2>5
  <2>6. CASE s <= clock /\ ~(e <= clock)
    <3>1. s \in 0 .. clock /\ s > clock - rate_limit_window
      BY <1>m, <2>1, <2>6
    <3>2. (U[End] - U[s]) + 1 <= 2 * rate_limit_requests
      BY <3>1 DEF Since, U
    <3>3. V[e] = U[e] + 1 /\ V[s] = U[s]
      BY <2>3, <2>6
    <3> QED BY <1>m, <2>1, <2>3, <3>2, <3>3
  <2> QED BY <1>m, <2>1, <2>4, <2>5, <2>6
<1>4. \A s \in 0 .. clock : Since(a, s)' = Since(a, s) + 1
  BY <1>1 DEF Since, U, V
<1>5. \A s \in 0 .. MaxClock : AdmittedIn(a, s)' <= 2 * rate_limit_requests
  BY <1>3 DEF AdmittedIn, V
<1> QED BY <1>2, <1>4, <1>5

\* A check by client c that has an entry.
LEMMA EntryChecked ==
    ASSUME RateInv, ~late, Limiting, NEW t \in Threads,
           CheckAdmitted(t) \/ CheckRefused(t)
    PROVE  \A a \in IPs : Windows(a)'
<1>t. RateTypes /\ InTime /\ \A a \in IPs : Windows(a)
  BY DEF RateInv
<1>i. PICK c \in IPs : c = client_ip[t] /\ ~Idle(t) /\ now[t] = clock
  BY <1>t DEF CheckAdmitted, CheckRefused, Idle, InTime, RateTypes, TableInv,
              TableTypes
<1>m. /\ MaxClock \in Nat /\ clock \in 0 .. MaxClock
      /\ rate_limit_window \in Nat \ {0} /\ rate_limit_requests \in Nat \ {0}
  BY <1>t, RateAssumption DEF RateTypes, Limiting
<1>1. PICK f \in Slots :
         /\ FirstMatch(f, t) /\ Cleared(f, t, count[f] + 1)
         /\ CheckAdmitted(t) => count[f] + 1 <= rate_limit_requests
         /\ CheckRefused(t) => count[f] + 1 > rate_limit_requests
  <2>1. CASE CheckAdmitted(t) /\ ~CheckRefused(t)
    BY <2>1 DEF CheckAdmitted
  <2>2. CASE CheckRefused(t) /\ ~CheckAdmitted(t)
    BY <2>2 DEF CheckRefused
  <2>3. CASE CheckRefused(t) /\ CheckAdmitted(t)
    <3>1. admitted' = admitted
      BY <2>3 DEF CheckRefused
    <3>2. admitted' = [admitted EXCEPT ![c][clock] = @ + 1]
      BY <1>i, <2>3 DEF CheckAdmitted, Admit
    <3>3. admitted'[c][clock] = admitted[c][clock] + 1
          /\ admitted[c][clock] \in Nat
      BY <1>t, <1>i, <1>m, <3>2 DEF RateTypes, Tallies
    <3> QED BY <3>1, <3>3
  <2> QED BY <2>1, <2>2, <2>3
<1>2. /\ ip[f] = c /\ ~(clock - window_start[f] >= rate_limit_window)
      /\ \A i \in Slots : ip[i] = c => i = f
  BY <1>t, <1>i, <1>1 DEF FirstMatch, Match, Expired, RateTypes, TableInv,
     TableTypes, OneEntryPerClient, Idle
<1>3. /\ clock' = clock /\ window_start' = window_start
      /\ \A i \in Slots : ip'[i] = IF i < f /\ Expired(i, clock) THEN NoAddress
                                   ELSE ip[i]
      /\ \A i \in Slots : i # f /\ ip'[i] # NoAddress => count'[i] = count[i]
      /\ count'[f] = count[f] + 1
  BY <1>i, <1>1 DEF CheckAdmitted, CheckRefused, Cleared
<1>4. ASSUME NEW a \in IPs, a # c PROVE Windows(a)'
  <2>1. admitted'[a] = admitted[a]
    BY <1>t, <1>i, <1>4 DEF CheckAdmitted, CheckRefused, Admit, RateTypes
  <2>2. a # NoAddress
    BY RateAssumption
  <2>3. ASSUME NEW i \in Slots, ip'[i] = a
        PROVE  ip[i] = a /\ count'[i] = count[i]
    BY <1>2, <1>3, <1>4, <2>2, <2>3
  <2>4. ASSUME NEW i \in Slots, ip[i] = a, ip'[i] # a
        PROVE  clock - window_start[i] >= rate_limit_window
    BY <1>3, <2>4 DEF Expired
  <2>5. Windows(a)
    BY <1>t
  <2> QED BY <1>t, <1>3, <2>1, <2>3, <2>4, <2>5, OthersKept
<1>5. Windows(c)'
  <2>w. PICK w : w = window_start[f]
    OBVIOUS
  <2>1. Windows(c) /\ Window(c, f)
    BY <1>t, <1>i, <1>2 DEF Windows
  <2>2. /\ w \in Nat /\ w <= clock /\ count[f] \in Nat /\ w \in 0 .. clock
        /\ ~(clock - w >= rate_limit_window)
    BY <1>t, <1>m, <1>2, <2>w DEF RateTypes
  <2>3. ip'[f] = c /\ \A i \in Slots : ip'[i] = c => i = f
    BY <1>i, <1>2, <1>3, RateAssumption DEF Expired
  <2>s. \A s \in 0 .. clock : Since(c, s) \in Int
    <3>1. \A s \in 0 .. End : Totals(admitted[c])[s] \in Nat
      BY <1>t, <1>i, TotalsAre DEF RateTypes
    <3>2. End \in 0 .. End /\ \A s \in 0 .. clock : s \in 0 .. End
      BY <1>m DEF End
    <3> QED BY <3>1, <3>2 DEF Since
  <2>4. CASE CheckRefused(t)
    <3>1. admitted' = admitted /\ count[f] + 1 > rate_limit_requests
      BY <1>1, <2>4 DEF CheckRefused
    <3>2. \A s : Since(c, s)' = Since(c, s)
      BY <3>1 DEF Since
    <3>3. Since(c, w) = rate_limit_requests
      BY <1>m, <2>w, <2>1, <2>2, <3>1 DEF Window
    <3>4. Window(c, f)'
      BY <1>m, <1>3, <2>w, <2>1, <2>2, <3>1, <3>2, <3>3 DEF Window
    <3>5. \A s \in 0 .. MaxClock : AdmittedIn(c, s)' <= 2 * rate_limit_requests
      BY <2>1, <3>1 DEF Windows, AdmittedIn
    <3>6. \A x \in 0 .. MaxClock : x > clock' => admitted'[c][x] = 0
      BY <1>3, <2>1, <3>1 DEF Windows
    <3> QED BY <2>3, <3>4, <3>5, <3>6 DEF Windows
  <2>5. CASE CheckAdmitted(t)
    <3>1. count[f] + 1 <= rate_limit_requests
          /\ admitted'[c] = [admitted[c] EXCEPT ![clock] = @ + 1]
      BY <1>t, <1>i, <1>1, <2>5 DEF CheckAdmitted, Admit, RateTypes
    <3>2. Since(c, w) = count[f]
      BY <1>m, <2>w, <2>1, <2>2, <3>1 DEF Window
    <3>3. ASSUME NEW s \in 0 .. clock, s > clock - rate_limit_window
          PROVE  Since(c, s) + 1 <= 2 * rate_limit_requests
      <4>1. CASE s < w
        <5>1. s \in 0 .. w /\ s > w - rate_limit_window
          BY <1>m, <2>2, <3>3, <4>1
        <5>2. Since(c, s) - Since(c, w) <= rate_limit_requests
          BY <2>w, <2>1, <5>1 DEF Window
        <5> QED BY <1>m, <2>2, <2>s, <3>1, <3>2, <5>2
      <4>2. CASE ~(s < w)
        <5>1. w \in 0 .. End /\ s \in 0 .. End /\ w <= s /\ End \in 0 .. End
          BY <1>m, <2>2, <4>2 DEF End
        <5>2. Totals(admitted[c])[w] <= Totals(admitted[c])[s]
          BY <1>t, <1>i, <5>1, TotalsGrow DEF RateTypes
        <5>3. /\ Totals(admitted[c])[w] \in Nat /\ Totals(admitted[c])[s] \in Nat
              /\ Totals(admitted[c])[End] \in Nat
          BY <1>t, <1>i, <5>1, TotalsAre DEF RateTypes
        <5>4. Since(c, s) <= Since(c, w)
          BY <5>2, <5>3 DEF Since
        <5> QED BY <1>m, <2>2, <2>s, <3>1, <3>2, <5>4
      <4> QED BY <4>1, <4>2
    <3>4. /\ \A s \in 0 .. clock : Since(c, s)' = Since(c, s) + 1
          /\ \A x \in 0 .. MaxClock : x > clock => admitted'[c][x] = 0
          /\ \A s \in 0 .. MaxClock :
                AdmittedIn(c, s)' <= 2 * rate_limit_requests
      BY <1>t, <1>i, <1>3, <2>1, <3>1, <3>3, OneMore
    <3>5. Since(c, w)' = count[f] + 1
      BY <2>2, <3>2, <3>4
    <3>6. ASSUME NEW s \in 0 .. w, s > w - rate_limit_window
          PROVE  Since(c, s)' - Since(c, w)' <= rate_limit_requests
      <4>1. s \in 0 .. clock
        BY <1>m, <2>2
      <4>2. Since(c, s) - Since(c, w) <= rate_limit_requests
        BY <2>w, <2>1, <3>6 DEF Window
      <4>3. Since(c, s)' = Since(c, s) + 1 /\ Since(c, w)' = Since(c, w) + 1
        BY <2>2, <3>4, <4>1
      <4> QED BY <1>m, <2>2, <2>s, <4>1, <4>2, <4>3
    <3>7. ASSUME NEW x \in 0 .. MaxClock, x >= w + rate_limit_window
          PROVE  admitted'[c][x] = 0
      BY <1>m, <2>2, <3>4, <3>7
    <3>8. Window(c, f)'
      BY <1>3, <2>w, <3>1, <3>5, <3>6, <3>7 DEF Window
    <3> QED BY <1>3, <2>3, <3>4, <3>8 DEF Windows
  <2> QED BY <2>4, <2>5
<1> QED BY <1>4, <1>5

\* A check by a client that has none.
LEMMA EntryMade ==
    ASSUME RateInv, ~late, Limiting, NEW t \in Threads, CheckNew(t)
    PROVE  \A a \in IPs : Windows(a)'
<1>t. RateTypes /\ InTime /\ \A a \in IPs : Windows(a)
  BY DEF RateInv
<1>i. PICK c \in IPs : c = client_ip[t] /\ ~Idle(t) /\ now[t] = clock
  BY <1>t DEF CheckNew, Idle, InTime, RateTypes, TableInv, TableTypes
<1>m. /\ MaxClock \in Nat /\ clock \in 0 .. MaxClock /\ End = MaxClock + 1
      /\ rate_limit_window \in Nat \ {0} /\ rate_limit_requests \in Nat \ {0}
      /\ admitted[c] \in Tallies
  BY <1>t, <1>i, RateAssumption DEF RateTypes, Limiting, End
<1>1. PICK s \in Slots :
         /\ Vacant(s, t)
         /\ \A i \in Slots : ip'[i] = IF i = s THEN c
                                      ELSE IF Expired(i, clock) THEN NoAddress
                                      ELSE ip[i]
         /\ \A i \in Slots : count'[i] = IF i = s THEN 1
                                         ELSE IF Expired(i, clock) THEN 0
                                         ELSE count[i]
         /\ window_start' = [window_start EXCEPT ![s] = clock]
  <2>1. PICK s \in Slots :
           /\ Vacant(s, t)
           /\ ip' = [i \in Slots |-> IF i = s THEN c
                                     ELSE IF Expired(i, clock) THEN NoAddress
                                     ELSE ip[i]]
           /\ count' = [i \in Slots |-> IF i = s THEN 1
                                        ELSE IF Expired(i, clock) THEN 0
                                        ELSE count[i]]
           /\ window_start' = [window_start EXCEPT ![s] = clock]
    BY <1>i, Zenon DEF CheckNew
  <2>2. \A i \in Slots : ip'[i] = IF i = s THEN c
                                  ELSE IF Expired(i, clock) THEN NoAddress
                                  ELSE ip[i]
    BY <2>1
  <2>3. \A i \in Slots : count'[i] = IF i = s THEN 1
                                     ELSE IF Expired(i, clock) THEN 0
                                     ELSE count[i]
    BY <2>1
  <2> QED BY <2>1, <2>2, <2>3
<1>2. /\ clock' = clock
      /\ window_start'[s] = clock
      /\ \A i \in Slots : i # s => window_start'[i] = window_start[i]
      /\ admitted'[c] = [admitted[c] EXCEPT ![clock] = @ + 1]
      /\ \A a \in IPs : a # c => admitted'[a] = admitted[a]
  BY <1>t, <1>i, <1>1 DEF CheckNew, Admit, RateTypes
<1>3. \A i \in Slots : ip[i] = c => clock - window_start[i] >= rate_limit_window
  BY <1>i DEF CheckNew, Match, Expired
<1>4. ASSUME NEW a \in IPs, a # c PROVE Windows(a)'
  <2>1. a # NoAddress
    BY RateAssumption
  <2>2. ASSUME NEW i \in Slots, ip'[i] = a
        PROVE  ip[i] = a /\ count'[i] = count[i]
               /\ window_start'[i] = window_start[i]
    BY <1>1, <1>2, <1>4, <2>1, <2>2
  <2>3. ASSUME NEW i \in Slots, ip[i] = a, ip'[i] # a
        PROVE  clock - window_start[i] >= rate_limit_window
    <3>1. i = s \/ Expired(i, clock)
      BY <1>1, <2>3
    <3>2. Expired(i, clock)
      BY <1>i, <1>1, <2>1, <2>3, <3>1 DEF Vacant
    <3> QED BY <3>2 DEF Expired
  <2>4. Windows(a)
    BY <1>t
  <2> QED BY <1>t, <1>2, <1>4, <2>2, <2>3, <2>4, OthersKept
<1>5. Fresh(c)
  <2>1. Windows(c)
    BY <1>t, <1>i
  <2>2. CASE \A i \in Slots : ip[i] # c
    BY <2>1, <2>2 DEF Windows
  <2>3. CASE \E i \in Slots : ip[i] = c
    BY <1>t, <1>i, <1>3, <2>1, <2>3, OverIsFresh DEF Windows
  <2> QED BY <2>2, <2>3
<1>6. Windows(c)'
  <2>1. \A x \in 0 .. End : Totals(admitted[c])[x] \in Nat
    BY <1>m, TotalsAre
  <2>2. clock \in 0 .. End /\ End \in 0 .. End /\ \A x \in 0 .. clock : x \in 0 .. End
    BY <1>m
  <2>3. Since(c, clock) = 0
    <3>1. Totals(admitted[c])[clock] = Totals(admitted[c])[End]
      BY <1>m, <1>5, <2>2, TotalsGrow DEF Fresh
    <3> QED BY <2>1, <2>2, <3>1 DEF Since
  <2>4. \A x \in 0 .. clock : Since(c, x) \in Int
    BY <2>1, <2>2 DEF Since
  <2>5. ASSUME NEW x \in 0 .. clock, x > clock - rate_limit_window
        PROVE  /\ Since(c, x) <= rate_limit_requests
               /\ Since(c, x) + 1 <= 2 * rate_limit_requests
    <3>1. Since(c, x) <= rate_limit_requests
      BY <1>5, <2>2, <2>5 DEF Fresh
    <3> QED BY <1>m, <2>4, <3>1
  <2>6. /\ \A x \in 0 .. clock : Since(c, x)' = Since(c, x) + 1
        /\ \A x \in 0 .. MaxClock : x > clock => admitted'[c][x] = 0
        /\ \A x \in 0 .. MaxClock :
              AdmittedIn(c, x)' <= 2 * rate_limit_requests
    BY <1>t, <1>i, <1>2, <2>5, OneMore
  <2>7. ip'[s] = c /\ \A i \in Slots : ip'[i] = c => i = s
    BY <1>1, <1>3, <1>i, RateAssumption DEF Expired
  <2>8. Since(c, clock)' = 1 /\ count'[s] = 1
    <3>1. clock \in 0 .. clock
      BY <1>m
    <3>2. Since(c, clock)' = Since(c, clock) + 1
      BY <1>2, <2>6, <3>1
    <3> QED BY <1>1, <2>3, <3>2
  <2>9. ASSUME NEW x \in 0 .. clock, x > clock - rate_limit_window
        PROVE  Since(c, x)' - Since(c, clock)' <= rate_limit_requests
    BY <1>m, <2>4, <2>5, <2>6, <2>8, <2>9
  <2>10. ASSUME NEW x \in 0 .. MaxClock, x >= clock + rate_limit_window
         PROVE  admitted'[c][x] = 0
    BY <1>m, <2>6, <2>10
  <2>11. Window(c, s)'
    BY <1>m, <1>2, <2>8, <2>9, <2>10 DEF Window
  <2> QED BY <1>2, <2>6, <2>7, <2>11 DEF Windows
<1> QED BY <1>4, <1>6

\* A second passes while nobody is in a check.
LEMMA SecondPasses ==
    ASSUME RateTypes, NEW a \in IPs, Windows(a), clock' = clock + 1,
           UNCHANGED <<ip, count, window_start, admitted>>
    PROVE  Windows(a)'
<1>m. clock \in Nat /\ rate_limit_window \in Nat
  BY RateAssumption DEF RateTypes
<1>1. \A s : Since(a, s)' = Since(a, s)
  BY DEF Since
<1>2. Fresh(a) => Fresh(a)'
  <2> SUFFICES ASSUME Fresh(a) PROVE Fresh(a)'
    OBVIOUS
  <2>1. ASSUME NEW s \in 0 .. End, s > clock' - rate_limit_window
        PROVE  Since(a, s)' <= rate_limit_requests
    <3>1. s > clock - rate_limit_window
      BY <1>m, <2>1, RateAssumption DEF End
    <3> QED BY <1>1, <3>1 DEF Fresh
  <2>2. ASSUME NEW x \in 0 .. MaxClock, x >= clock' PROVE admitted'[a][x] = 0
    BY <1>m, <2>2 DEF Fresh
  <2> QED BY <2>1, <2>2 DEF Fresh
<1>3. ASSUME NEW i \in Slots, ip'[i] = a PROVE Window(a, i)'
  BY <1>1, <1>3 DEF Windows, Window
<1>4. \A s \in 0 .. MaxClock : AdmittedIn(a, s)' <= 2 * rate_limit_requests
  BY DEF Windows, AdmittedIn
<1>5. ASSUME NEW x \in 0 .. MaxClock, x > clock' PROVE admitted'[a][x] = 0
  BY <1>m, <1>5 DEF Windows
<1> QED BY <1>2, <1>3, <1>4, <1>5 DEF Windows

\* Every step keeps the invariant.
LEMMA RateStep == RateInv /\ [RateNext]_rateVars => RateInv'
<1> SUFFICES ASSUME RateInv, [RateNext]_rateVars, ~late'
             PROVE  InTime' /\ (Limiting => \A a \in IPs : Windows(a)')
  BY RateTypesStep DEF RateInv, Limiting
<1>t. RateTypes
  BY DEF RateInv
<1>l. ~late
  BY DEF RateNext, Enable, EnableNoMemory, Serve, CheckOff, CheckBegin, Check,
         CheckAdmitted, CheckRefused, CheckNew, CheckFull, Tick, Done, rateVars,
         history
<1>i. InTime /\ (Limiting => \A a \in IPs : Windows(a))
  BY <1>l DEF RateInv
<1>0. ASSUME UNCHANGED <<ip, count, window_start, clock, admitted>>
      PROVE  Limiting => \A a \in IPs : Windows(a)'
  BY <1>0, <1>i, <1>t, OthersKept
<1>1. CASE Enable \/ EnableNoMemory \/ Serve \/ Done \/ UNCHANGED rateVars
  <2>1. UNCHANGED <<ip, count, window_start, clock, client_ip, now, admitted>>
    BY <1>1 DEF Enable, EnableNoMemory, Serve, Done, rateVars, entries, calls,
                history
  <2>2. InTime'
    BY <1>i, <2>1 DEF InTime, Idle
  <2> QED BY <1>0, <2>1, <2>2
<1>2. CASE Tick
  <2>1. /\ \A t \in Threads : Idle(t)
        /\ clock' = clock + 1
        /\ UNCHANGED <<ip, count, window_start, client_ip, now, admitted>>
    BY <1>2 DEF Tick, entries, calls
  <2>2. InTime'
    BY <2>1 DEF InTime, Idle
  <2> QED BY <1>i, <1>t, <2>1, <2>2, SecondPasses
<1>3. ASSUME NEW t \in Threads, NEW a \in IPs, CheckOff(t, a) \/ CheckBegin(t, a)
      PROVE  InTime' /\ (Limiting => \A b \in IPs : Windows(b)')
  <2>1. /\ UNCHANGED <<ip, count, window_start, clock, admitted>>
        /\ \/ UNCHANGED <<client_ip, now>>
           \/ /\ client_ip' = [client_ip EXCEPT ![t] = a]
              /\ now' = [now EXCEPT ![t] = clock]
    BY <1>3 DEF CheckOff, CheckBegin, entries, history, calls
  <2>2. InTime'
    BY <1>i, <1>t, <2>1 DEF InTime, Idle, RateTypes, TableInv, TableTypes
  <2> QED BY <1>0, <2>1, <2>2
<1>4. ASSUME NEW t \in Threads, Check(t)
      PROVE  InTime' /\ (Limiting => \A a \in IPs : Windows(a)')
  <2>1. /\ client_ip' = [client_ip EXCEPT ![t] = NoAddress]
        /\ now' = [now EXCEPT ![t] = 0] /\ clock' = clock
    BY <1>4 DEF Check, CheckAdmitted, CheckRefused, CheckNew, CheckFull, Returns
  <2>2. InTime'
    BY <1>i, <1>t, <2>1 DEF InTime, Idle, RateTypes, TableInv, TableTypes
  <2>3. CASE CheckAdmitted(t) \/ CheckRefused(t)
    BY <1>l, <2>2, <2>3, EntryChecked
  <2>4. CASE CheckNew(t)
    BY <1>l, <2>2, <2>4, EntryMade
  <2>5. CASE CheckFull(t)
    BY <1>0, <2>2, <2>5 DEF CheckFull, entries, history
  <2> QED BY <1>4, <2>3, <2>4, <2>5 DEF Check
<1> QED BY <1>1, <1>2, <1>3, <1>4 DEF RateNext

\* At the start nothing has been let through.
LEMMA RateStart == RateInit => RateInv
<1> SUFFICES ASSUME RateInit PROVE RateInv
  OBVIOUS
<1>m. /\ MaxClock \in Nat /\ End = MaxClock + 1 /\ rate_limit_requests \in Nat
      /\ rate_limit_window \in Nat
  BY RateAssumption DEF End
<1>1. RateTypes
  <2>1. admitted \in [IPs -> Tallies] /\ refused \in [IPs -> Tallies]
    BY DEF RateInit, Tallies
  <2>2. /\ clock = 0 /\ late = FALSE
        /\ count \in [Slots -> Nat] /\ window_start = [i \in Slots |-> 0]
        /\ now = [t \in Threads |-> 0]
    BY DEF RateInit
  <2>3. TableInv
    BY TableStart
  <2>4. clock \in 0 .. MaxClock
    BY <1>m, <2>2
  <2>5. /\ window_start \in [Slots -> Nat] /\ now \in [Threads -> Nat]
        /\ \A i \in Slots : window_start[i] <= clock
        /\ \A t \in Threads : now[t] <= clock
    BY <2>2
  <2>6. late \in BOOLEAN
    BY <2>2
  <2> QED BY <2>1, <2>2, <2>3, <2>4, <2>5, <2>6 DEF RateTypes
<1>2. InTime
  BY DEF RateInit, InTime, Idle
<1>3. ASSUME NEW a \in IPs PROVE Windows(a)
  <2> DEFINE U == Totals(admitted[a])
  <2>1. /\ admitted[a] \in Tallies
        /\ \A x \in 0 .. MaxClock : admitted[a][x] = 0
        /\ \A i \in Slots : ip[i] # a
    BY RateAssumption DEF RateInit, Tallies
  <2>2. \A n \in 0 .. End : U[n] = 0
    <3>1. 0 \in 0 .. End /\ U[0] = 0 /\ \A n \in 0 .. End : 0 <= n
      BY <1>m, <2>1, TotalsAre
    <3> QED BY <2>1, <3>1, TotalsGrow
  <2> HIDE DEF U
  <2>3. \A s \in 0 .. End : U[End] - U[s] <= rate_limit_requests
    BY <1>m, <2>2
  <2>4. Fresh(a)
    BY <2>1, <2>3 DEF Fresh, Since, U
  <2>5. ASSUME NEW s \in 0 .. MaxClock
        PROVE  AdmittedIn(a, s) <= 2 * rate_limit_requests
    <3>1. Within(s) \in 0 .. End /\ Within(s + rate_limit_window) \in 0 .. End
      BY <1>m DEF Within
    <3>2. U[Within(s + rate_limit_window)] - U[Within(s)] = 0
      BY <2>2, <3>1
    <3> QED BY <1>m, <3>2 DEF AdmittedIn, U
  <2> QED BY <2>1, <2>4, <2>5 DEF Windows
<1> QED BY <1>1, <1>2, <1>3 DEF RateInv

\* For every limit of at least one request and every window, in any stretch of
\* the window's length a client has at most twice the limit counted and let
\* through by papago_check_rate_limit, as long as no check outlives the second
\* in which it read the clock.
THEOREM TwiceAtMost ==
    ASSUME rate_limit_requests # 0 PROVE RateSpec => []AtMostTwice
<1>1. RateInv => AtMostTwice
  <2> SUFFICES ASSUME RateInv, ~late, NEW a \in IPs, NEW s \in 0 .. MaxClock
               PROVE  AdmittedIn(a, s) <= 2 * rate_limit_requests
    BY DEF AtMostTwice
  <2>1. CASE rate_limit_window # 0
    BY <2>1 DEF RateInv, Limiting, Windows
  <2>2. CASE rate_limit_window = 0
    <3>1. MaxClock \in Nat /\ rate_limit_requests \in Nat
          /\ admitted[a] \in Tallies
      BY RateAssumption DEF RateInv, RateTypes
    <3>2. Within(s) = s /\ s + rate_limit_window = s /\ s \in 0 .. End
      BY <2>2, <3>1 DEF Within, End
    <3>3. Totals(admitted[a])[s] \in Nat
      BY <3>1, <3>2, TotalsAre
    <3>4. AdmittedIn(a, s) = Totals(admitted[a])[s] - Totals(admitted[a])[s]
      BY <3>2 DEF AdmittedIn
    <3> QED BY <3>1, <3>3, <3>4
  <2> QED BY <2>1, <2>2
<1> QED BY <1>1, RateStart, RateStep, PTL DEF RateSpec

\* For every limit and window, papago_check_rate_limit refuses a client only when
\* the limit has been counted and let through in the window that ends now.
THEOREM RefusedWhenUsedUp == RateSpec => RefusedOnlyOverLimit
<1> DEFINE Fair == ~late => \A a \in IPs, s \in 0 .. MaxClock :
                       refused'[a][s] > refused[a][s] =>
                           AdmittedIn(a, s + 1 - rate_limit_window)
                               >= rate_limit_requests
<1>1. RateInv /\ [RateNext]_rateVars => [Fair]_rateVars
  <2> SUFFICES ASSUME RateInv, RateNext, ~late, NEW a \in IPs,
                      NEW s \in 0 .. MaxClock,
                      refused'[a][s] > refused[a][s]
               PROVE  AdmittedIn(a, s + 1 - rate_limit_window)
                          >= rate_limit_requests
    OBVIOUS
  <2>t. RateTypes /\ InTime /\ (Limiting => Windows(a))
    BY DEF RateInv
  <2>m. /\ MaxClock \in Nat /\ clock \in 0 .. MaxClock /\ End = MaxClock + 1
        /\ rate_limit_window \in Nat /\ rate_limit_requests \in Nat
        /\ admitted[a] \in Tallies /\ refused \in [IPs -> Tallies]
        /\ refused[a][s] \in Nat
    BY <2>t, RateAssumption DEF RateTypes, End, Tallies
  <2>1. refused' # refused
    BY <2>m
  <2>2. PICK t \in Threads : CheckRefused(t)
    BY <2>1 DEF RateNext, Enable, EnableNoMemory, Serve, CheckOff, CheckBegin,
       Check, CheckAdmitted, CheckNew, CheckFull, Tick, Done, rateVars, history
  <2>3. now[t] = clock
    BY <2>t, <2>2 DEF CheckRefused, InTime
  <2>4. a = client_ip[t] /\ s = clock
    <3>1. refused' = [refused EXCEPT ![client_ip[t]][clock] = @ + 1]
      BY <2>2, <2>3 DEF CheckRefused
    <3> QED BY <2>m, <3>1 DEF Tallies
  <2>5. PICK f \in Slots : /\ ip[f] = a /\ count[f] + 1 > rate_limit_requests
                           /\ ~(clock - window_start[f] >= rate_limit_window)
    BY <2>2, <2>3, <2>4, RateAssumption DEF CheckRefused, FirstMatch, Match,
       Expired, Idle
  <2> DEFINE U == Totals(admitted[a])
             w == window_start[f]
             b == Within(s + 1 - rate_limit_window)
             e == Within((s + 1 - rate_limit_window) + rate_limit_window)
  <2>a. AdmittedIn(a, s + 1 - rate_limit_window) = U[e] - U[b]
    BY Zenon DEF AdmittedIn
  <2>6. w \in Nat /\ w <= clock /\ count[f] \in Nat
    BY <2>t DEF RateTypes
  <2>7. rate_limit_window # 0
    BY <2>m, <2>5, <2>6
  <2>8. e = clock + 1 /\ b \in 0 .. End /\ b <= w /\ w \in 0 .. End
        /\ e \in 0 .. End /\ End \in 0 .. End /\ b <= e
    BY <2>m, <2>4, <2>5, <2>6 DEF Within
  <2>9. U[b] <= U[w] /\ U[b] <= U[e]
    BY <2>m, <2>8, TotalsGrow
  <2>10. U[b] \in Nat /\ U[w] \in Nat /\ U[e] \in Nat /\ U[End] \in Nat
    BY <2>m, <2>8, TotalsAre
  <2>11. CASE rate_limit_requests = 0
    <3> HIDE DEF U, w, b, e
    <3>1. U[e] - U[b] >= rate_limit_requests
      BY <2>9, <2>10, <2>11
    <3> QED BY <2>a, <3>1
  <2>12. CASE rate_limit_requests # 0
    <3>1. Windows(a) /\ Window(a, f)
      BY <2>t, <2>5, <2>7, <2>12 DEF Limiting, Windows
    <3>2. U[End] - U[w] = rate_limit_requests
      BY <2>m, <2>5, <2>6, <3>1 DEF Window, Since
    <3>3. U[e] = U[End]
      <4>1. e <= End /\ \A x \in 0 .. MaxClock : e <= x => x > clock
        BY <2>m, <2>8
      <4>2. \A x \in 0 .. MaxClock : (e <= x /\ x < End) => admitted[a][x] = 0
        BY <3>1, <4>1 DEF Windows
      <4> HIDE DEF e
      <4>3. (\A x \in 0 .. MaxClock : (e <= x /\ x < End) => admitted[a][x] = 0)
               => Totals(admitted[a])[e] = Totals(admitted[a])[End]
        BY <2>m, <2>8, <4>1, TotalsGrow
      <4> QED BY <4>2, <4>3
    <3> HIDE DEF U, w, b, e
    <3>4. U[e] - U[b] >= rate_limit_requests
      BY <2>m, <2>9, <2>10, <3>2, <3>3
    <3> QED BY <2>a, <3>4
  <2> QED BY <2>11, <2>12
<1> QED BY <1>1, RateStart, RateStep, PTL DEF RateSpec, RefusedOnlyOverLimit
=============================================================================
