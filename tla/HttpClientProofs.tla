-------------------------- MODULE HttpClientProofs --------------------------
(***************************************************************************)
(* libcurl's global state is there exactly while a client counts on it,    *)
(* and a send leaves what it should, for any number of threads, clients    *)
(* and calls and for any replies.                                          *)
(*                                                                         *)
(* CurlCounted is not inductive: that giving back a reference takes away   *)
(* the right one rests on who may use which client.  The thread inside     *)
(* papago_client_new is alone with the client it makes (OwnsNew); one that *)
(* sends has a live client (SendsWithLive); a CA name belongs to a live    *)
(* client (NamesOfLive).  The set of counted clients need not be finite    *)
(* beforehand: it is because every call adds one (Finite).                 *)
(*                                                                         *)
(* SendSettled speaks of a send that is over; SendInv says what is true as *)
(* it runs: the body is in a buffer with room for its terminator (Roomy),  *)
(* exactly what is recorded is allocated (Owned), and body and headers are *)
(* those of what has come of the reply (Faithful).                         *)
(***************************************************************************)
EXTENDS HttpClient, FiniteSetTheorems, SequenceTheorems, WellFoundedInduction,
        TLAPS

Places == {"idle", "new", "prepare", "transfer", "failed"}

\* Types of the fields the argument is about.
HttpTypes ==
    /\ refs \in Nat /\ curl_ready \in BOOLEAN
    /\ clients \in [HttpClients -> {"none", "counted", "live"}]
    /\ ca_cert_file \in [HttpClients -> BOOLEAN]
    /\ at \in [HttpThreads -> Places]
    /\ using \in [HttpThreads -> HttpClients \cup {NoClient}]

Finite == IsFiniteSet(Counted)
RefsCount == refs = Cardinality(Counted)
ReadyIfCounted == curl_ready <=> refs > 0

\* A thread in papago_client_new is the only one with the client it makes.
OwnsNew ==
    \A t \in HttpThreads : at[t] = "new" =>
        /\ using[t] \in HttpClients /\ clients[using[t]] = "counted"
        /\ \A u \in HttpThreads : using[u] = using[t] => u = t

\* A thread in papago_http_send has a live client, an idle one has none.
SendsWithLive ==
    \A t \in HttpThreads :
        /\ at[t] = "idle" => using[t] = NoClient
        /\ at[t] \in {"prepare", "transfer", "failed"} =>
              using[t] \in HttpClients /\ clients[using[t]] = "live"

NamesOfLive == \A c \in HttpClients : ca_cert_file[c] => clients[c] = "live"

\* The inductive invariant.
CurlInv ==
    /\ HttpTypes /\ Finite /\ RefsCount /\ ReadyIfCounted
    /\ OwnsNew /\ SendsWithLive /\ NamesOfLive

\* A client that gets its reference is counted once more.
LEMMA CountedMore ==
  ASSUME HttpTypes, Finite, NEW c \in HttpClients, clients[c] = "none",
         clients' = [clients EXCEPT ![c] = "counted"]
  PROVE  Finite' /\ Cardinality(Counted)' = Cardinality(Counted) + 1
<1>1. Counted' = Counted \cup {c} /\ c \notin Counted
  BY DEF HttpTypes, Counted
<1> QED
  BY <1>1, FS_AddElement DEF Finite

\* A client that gives its reference back is counted once less.
LEMMA CountedLess ==
  ASSUME HttpTypes, Finite, NEW c \in HttpClients, clients[c] # "none",
         clients' = [clients EXCEPT ![c] = "none"]
  PROVE  /\ Finite' /\ Cardinality(Counted)' = Cardinality(Counted) - 1
         /\ Cardinality(Counted) \in Nat /\ Cardinality(Counted) > 0
<1>1. Counted' = Counted \ {c} /\ c \in Counted
  BY DEF HttpTypes, Counted
<1>2. Cardinality(Counted) \in Nat /\ Cardinality(Counted) # 0
  BY <1>1, FS_CardinalityType, FS_EmptySet DEF Finite
<1> QED
  BY <1>1, <1>2, FS_RemoveElement DEF Finite

\* ref_dec shuts libcurl down with the last reference and not before.
LEMMA ReadyLess ==
  ASSUME HttpTypes, ReadyIfCounted, refs > 0,
         refs' = refs - 1, curl_ready' = (curl_ready /\ refs # 1)
  PROVE  refs' \in Nat /\ curl_ready' \in BOOLEAN /\ ReadyIfCounted'
<1>1. refs \in Nat /\ refs' \in Nat /\ (refs' > 0 <=> refs # 1)
  BY DEF HttpTypes
<1>2. curl_ready
  BY DEF ReadyIfCounted
<1>3. curl_ready' <=> refs # 1
  BY <1>2
<1>4. curl_ready' \in BOOLEAN
  BY Zenon
<1> QED
  BY <1>1, <1>3, <1>4 DEF ReadyIfCounted

\* A step that leaves the clients and the count alone, and lets no thread into
\* or out of a call, keeps the invariant.
LEMMA CurlFrame ==
  ASSUME CurlInv, UNCHANGED clientVars, UNCHANGED <<at, using>>
  PROVE  CurlInv'
  BY DEF CurlInv, HttpTypes, Finite, RefsCount, ReadyIfCounted, OwnsNew,
         SendsWithLive, NamesOfLive, Counted, clientVars

\* papago_client_new keeps the invariant.
LEMMA CurlNew ==
  ASSUME CurlInv, NEW t \in HttpThreads,
         (\E c \in HttpClients : NewRef(t, c)) \/ NewFails(t) \/ NewAlloc(t)
         \/ NewNoMemory(t)
  PROVE  CurlInv'
<1> USE HttpAssumption DEF CurlInv
<1>1. ASSUME NEW c \in HttpClients, NewRef(t, c) PROVE CurlInv'
  <2>1. /\ at[t] = "idle" /\ clients[c] = "none"
        /\ refs' = refs + 1 /\ curl_ready' = TRUE
        /\ clients' = [clients EXCEPT ![c] = "counted"]
        /\ using' = [using EXCEPT ![t] = c]
        /\ at' = [at EXCEPT ![t] = "new"]
        /\ ca_cert_file' = ca_cert_file
    BY <1>1 DEF NewRef, Goes
  <2>2. Finite' /\ RefsCount'
    BY <2>1, CountedMore DEF RefsCount
  <2>3. HttpTypes' /\ ReadyIfCounted'
    BY <2>1 DEF HttpTypes, Places, ReadyIfCounted
  <2>4. \A u \in HttpThreads : using[u] # c
    BY <2>1 DEF OwnsNew, SendsWithLive, HttpTypes, Places
  <2>5. OwnsNew'
    BY <2>1, <2>4 DEF OwnsNew, HttpTypes
  <2>6. SendsWithLive' /\ NamesOfLive'
    BY <2>1, <2>4 DEF SendsWithLive, NamesOfLive, HttpTypes
  <2> QED
    BY <2>2, <2>3, <2>5, <2>6
<1>2. CASE NewFails(t)
  BY <1>2, CurlFrame DEF NewFails, requestVars
<1>3. CASE NewAlloc(t)
  <2>1. /\ at[t] = "new"
        /\ clients' = [clients EXCEPT ![using[t]] = "live"]
        /\ using' = [using EXCEPT ![t] = NoClient]
        /\ at' = [at EXCEPT ![t] = "idle"]
        /\ UNCHANGED <<refs, curl_ready, ca_cert_file>>
    BY <1>3 DEF NewAlloc, Goes
  <2>2. /\ using[t] \in HttpClients /\ clients[using[t]] = "counted"
        /\ \A u \in HttpThreads : using[u] = using[t] => u = t
    BY <2>1 DEF OwnsNew
  <2>3. Counted' = Counted
    BY <2>1, <2>2 DEF Counted, HttpTypes
  <2>4. HttpTypes' /\ Finite' /\ RefsCount' /\ ReadyIfCounted'
    BY <2>1, <2>2, <2>3 DEF HttpTypes, Places, Finite, RefsCount,
                            ReadyIfCounted
  <2>5. OwnsNew'
    BY <2>1, <2>2 DEF OwnsNew, HttpTypes
  <2>6. SendsWithLive'
    BY <2>1, <2>2 DEF SendsWithLive, HttpTypes
  <2>7. NamesOfLive'
    BY <2>1, <2>2 DEF NamesOfLive, HttpTypes
  <2> QED
    BY <2>4, <2>5, <2>6, <2>7
<1>4. CASE NewNoMemory(t)
  <2>1. /\ at[t] = "new"
        /\ refs' = refs - 1 /\ curl_ready' = (curl_ready /\ refs # 1)
        /\ clients' = [clients EXCEPT ![using[t]] = "none"]
        /\ using' = [using EXCEPT ![t] = NoClient]
        /\ at' = [at EXCEPT ![t] = "idle"]
        /\ UNCHANGED ca_cert_file
    BY <1>4 DEF NewNoMemory, Goes, RefDec
  <2>2. /\ using[t] \in HttpClients /\ clients[using[t]] = "counted"
        /\ \A u \in HttpThreads : using[u] = using[t] => u = t
    BY <2>1 DEF OwnsNew
  <2>3. Finite' /\ RefsCount' /\ refs > 0
    BY <2>1, <2>2, CountedLess DEF RefsCount
  <2>4. HttpTypes' /\ ReadyIfCounted'
    BY <2>1, <2>2, <2>3, ReadyLess DEF HttpTypes, Places
  <2>5. OwnsNew'
    BY <2>1, <2>2 DEF OwnsNew, HttpTypes
  <2>6. SendsWithLive'
    BY <2>1, <2>2 DEF SendsWithLive, HttpTypes
  <2>7. NamesOfLive'
    BY <2>1, <2>2 DEF NamesOfLive, HttpTypes
  <2> QED
    BY <2>3, <2>4, <2>5, <2>6, <2>7
<1> QED
  BY <1>1, <1>2, <1>3, <1>4

\* papago_client_destroy and the setters of CA names keep the invariant.
LEMMA CurlClients ==
  ASSUME CurlInv, NEW c \in HttpClients,
         DestroyClient(c) \/ \E set \in BOOLEAN : SetCaFile(c, set)
  PROVE  CurlInv'
<1> USE HttpAssumption DEF CurlInv
<1>1. CASE DestroyClient(c)
  <2>1. /\ clients[c] = "live" /\ \A t \in HttpThreads : using[t] # c
        /\ refs' = refs - 1 /\ curl_ready' = (curl_ready /\ refs # 1)
        /\ clients' = [clients EXCEPT ![c] = "none"]
        /\ ca_cert_file' = [ca_cert_file EXCEPT ![c] = FALSE]
        /\ UNCHANGED <<at, using>>
    BY <1>1 DEF DestroyClient, Quiet, RefDec, requestVars
  <2>2. Finite' /\ RefsCount' /\ refs > 0
    BY <2>1, CountedLess DEF RefsCount
  <2>3. HttpTypes' /\ ReadyIfCounted'
    BY <2>1, <2>2, ReadyLess DEF HttpTypes
  <2>4. OwnsNew' /\ SendsWithLive' /\ NamesOfLive'
    BY <2>1 DEF OwnsNew, SendsWithLive, NamesOfLive, HttpTypes
  <2> QED
    BY <2>2, <2>3, <2>4
<1>2. ASSUME NEW set \in BOOLEAN, SetCaFile(c, set) PROVE CurlInv'
  <2>1. /\ clients[c] = "live"
        /\ ca_cert_file' = [ca_cert_file EXCEPT ![c] = set]
        /\ UNCHANGED <<refs, curl_ready, clients, at, using>>
    BY <1>2 DEF SetCaFile, requestVars
  <2>2. HttpTypes'
    BY <2>1 DEF HttpTypes
  <2>3. NamesOfLive'
    BY <2>1 DEF NamesOfLive, HttpTypes
  <2>4. Finite' /\ RefsCount' /\ ReadyIfCounted' /\ OwnsNew' /\ SendsWithLive'
    BY <2>1 DEF Finite, RefsCount, ReadyIfCounted, OwnsNew, SendsWithLive,
                Counted
  <2> QED
    BY <2>2, <2>3, <2>4
<1> QED
  BY <1>1, <1>2

\* papago_http_send and papago_http_response_free keep the invariant.
LEMMA CurlSend ==
  ASSUME CurlInv, NEW t \in HttpThreads, HttpSend(t)
  PROVE  CurlInv'
<1> USE HttpAssumption DEF CurlInv
<1>1. ASSUME NEW c \in HttpClients, NEW m \in RequestMethods,
             SendBegin(t, c, m)
      PROVE  CurlInv'
  <2>1. /\ at[t] = "idle" /\ clients[c] = "live"
        /\ using' = [using EXCEPT ![t] = c]
        /\ at' = [at EXCEPT ![t] = "prepare"]
        /\ UNCHANGED clientVars
    BY <1>1 DEF SendBegin, Goes
  <2>2. HttpTypes'
    BY <2>1 DEF HttpTypes, Places, clientVars
  <2>3. OwnsNew' /\ SendsWithLive'
    BY <2>1 DEF OwnsNew, SendsWithLive, HttpTypes, clientVars
  <2>4. Finite' /\ RefsCount' /\ ReadyIfCounted' /\ NamesOfLive'
    BY <2>1 DEF Finite, RefsCount, ReadyIfCounted, NamesOfLive, Counted,
                clientVars
  <2> QED
    BY <2>2, <2>3, <2>4
<1>2. CASE \/ \E c \in HttpClients : SendNoHandle(t, c)
           \/ HeaderCb(t) \/ HeaderCbNoMemory(t) \/ HeaderCbSkips(t)
           \/ WriteCb(t) \/ ResponseFree(t)
  BY <1>2, CurlFrame
     DEF SendNoHandle, HeaderCb, HeaderCbNoMemory, HeaderCbSkips, WriteCb,
         ResponseFree, requestVars
\* On from one step of the transfer to the next, with the same client.
<1>3. ASSUME NEW there \in {"transfer", "failed"},
             at[t] \in {"prepare", "transfer"}, Goes(t, there),
             UNCHANGED clientVars, UNCHANGED using
      PROVE  CurlInv'
  <2>1. HttpTypes'
    BY <1>3 DEF HttpTypes, Places, Goes, clientVars
  <2>2. OwnsNew' /\ SendsWithLive'
    BY <1>3 DEF OwnsNew, SendsWithLive, HttpTypes, Goes, clientVars
  <2>3. Finite' /\ RefsCount' /\ ReadyIfCounted' /\ NamesOfLive'
    BY <1>3 DEF Finite, RefsCount, ReadyIfCounted, NamesOfLive, Counted,
                clientVars
  <2> QED
    BY <2>1, <2>2, <2>3
<1>4. CASE \E m \in Method, r \in Replies, lines \in BOOLEAN :
              SendPrepare(t, m, r, lines)
  BY <1>3, <1>4 DEF SendPrepare
<1>5. CASE PerformFails(t)
  BY <1>3, <1>5 DEF PerformFails, requestVars
<1>6. CASE SendFailed(t) \/ SendReturns(t)
  <2>1. /\ using' = [using EXCEPT ![t] = NoClient]
        /\ at' = [at EXCEPT ![t] = "idle"]
        /\ UNCHANGED clientVars
    BY <1>6 DEF SendFailed, SendReturns, Finished, Goes
  <2>2. HttpTypes'
    BY <2>1 DEF HttpTypes, Places, clientVars
  <2>3. OwnsNew' /\ SendsWithLive'
    BY <2>1 DEF OwnsNew, SendsWithLive, HttpTypes, clientVars
  <2>4. Finite' /\ RefsCount' /\ ReadyIfCounted' /\ NamesOfLive'
    BY <2>1 DEF Finite, RefsCount, ReadyIfCounted, NamesOfLive, Counted,
                clientVars
  <2> QED
    BY <2>2, <2>3, <2>4
<1> QED
  BY <1>1, <1>2, <1>4, <1>5, <1>6 DEF HttpSend

\* The count of ref_inc and ref_dec is right at every moment: libcurl is
\* initialised as long as some client needs it and no longer, a client in use
\* is never gone, and a destroyed one leaves no CA name behind, for every
\* number of threads and clients and whichever calls fail.
THEOREM CurlIsCounted == HttpSpec => []CurlCounted
<1>1. HttpInit => CurlInv
  <2> SUFFICES ASSUME HttpInit PROVE CurlInv
    OBVIOUS
  <2>1. Counted = {}
    BY DEF HttpInit, Counted
  <2>2. Finite /\ RefsCount
    BY <2>1, FS_EmptySet DEF HttpInit, Finite, RefsCount
  <2>3. HttpTypes
    BY DEF HttpInit, HttpTypes, Places
  <2>4. ReadyIfCounted
    BY DEF HttpInit, ReadyIfCounted
  <2>5. OwnsNew /\ SendsWithLive /\ NamesOfLive
    BY DEF HttpInit, OwnsNew, SendsWithLive, NamesOfLive
  <2> QED
    BY <2>2, <2>3, <2>4, <2>5 DEF CurlInv
<1>2. CurlInv /\ [HttpNext]_httpVars => CurlInv'
  <2> SUFFICES ASSUME CurlInv, [HttpNext]_httpVars PROVE CurlInv'
    OBVIOUS
  <2>1. CASE HttpDone \/ UNCHANGED httpVars
    BY <2>1, CurlFrame DEF HttpDone, httpVars, requestVars
  <2>2. CASE \E t \in HttpThreads :
                \/ (\E c \in HttpClients : NewRef(t, c))
                \/ NewFails(t) \/ NewAlloc(t) \/ NewNoMemory(t)
    BY <2>2, CurlNew
  <2>3. CASE \E t \in HttpThreads : HttpSend(t)
    BY <2>3, CurlSend
  <2>4. CASE \E c \in HttpClients :
                DestroyClient(c) \/ \E set \in BOOLEAN : SetCaFile(c, set)
    BY <2>4, CurlClients
  <2> QED
    BY <2>1, <2>2, <2>3, <2>4 DEF HttpNext
<1>3. CurlInv => CurlCounted
  BY DEF CurlInv, CurlCounted, HttpTypes, Places, RefsCount, ReadyIfCounted,
         OwnsNew, SendsWithLive, NamesOfLive, Counted
<1> QED
  BY <1>1, <1>2, <1>3, PTL DEF HttpSpec

-----------------------------------------------------------------------------
(* What a send leaves behind                                               *)

\* A set of numbers with 0 and all successors has every number.
LEMMA NatSetInduction ==
    ASSUME NEW S, 0 \in S, \A n \in Nat : n \in S => n + 1 \in S
    PROVE  Nat \subseteq S
<1> DEFINE R == OpToRel(<, Nat)
           T == Nat \ S
<1> SUFFICES ASSUME T # {} PROVE FALSE
  OBVIOUS
<1>1. \A x, y \in Nat : <<y, x>> \in R <=> y < x
  BY DEF OpToRel
<1>2. PICK x \in T : \A y \in T : <<y, x>> \notin R
  <2>1. IsWellFoundedOn(R, Nat)
    BY NatLessThanWellFounded, Zenon
  <2>2. T \subseteq Nat /\ T # {}
    OBVIOUS
  <2> HIDE DEF R, T
  <2> QED BY <2>1, <2>2, WFMin
<1> HIDE DEF R
<1>3. x \in Nat /\ x # 0
  OBVIOUS
<1>4. x - 1 \in Nat /\ x - 1 < x /\ (x - 1) + 1 = x
  BY <1>3
<1>5. x - 1 \in S
  BY <1>1, <1>2, <1>3, <1>4
<1> QED BY <1>4, <1>5

\* r is the capacity after 0, 1, ... rounds of write_cb's loop.
Rounds(first, need, r) ==
    r = [i \in 0 .. need |->
            IF i = 0 THEN first
            ELSE IF r[i - 1] < need THEN 2 * r[i - 1] ELSE r[i - 1]]

\* Each round has its capacity.
LEMMA RoundsExist ==
    ASSUME NEW first \in Nat, NEW need \in Nat
    PROVE  \E r : Rounds(first, need, r)
<1> DEFINE Part(n, r) ==
        r = [i \in 0 .. n |->
                IF i = 0 THEN first
                ELSE IF r[i - 1] < need THEN 2 * r[i - 1] ELSE r[i - 1]]
    S == {n \in Nat : \E r : Part(n, r)}
<1>1. 0 \in S
  <2> DEFINE r == [i \in 0 .. 0 |-> first]
  <2>1. Part(0, r)
    OBVIOUS
  <2> QED BY <2>1
<1>2. ASSUME NEW n \in Nat, n \in S PROVE n + 1 \in S
  <2>1. PICK g : Part(n, g)
    BY <1>2
  <2>2. \A i \in 0 .. n :
            g[i] = IF i = 0 THEN first
                   ELSE IF g[i - 1] < need THEN 2 * g[i - 1] ELSE g[i - 1]
    BY <2>1
  <2> DEFINE last == IF g[n] < need THEN 2 * g[n] ELSE g[n]
             r == [i \in 0 .. (n + 1) |-> IF i = n + 1 THEN last ELSE g[i]]
             h == [i \in 0 .. (n + 1) |->
                      IF i = 0 THEN first
                      ELSE IF r[i - 1] < need THEN 2 * r[i - 1] ELSE r[i - 1]]
  <2> HIDE DEF last
  <2>3. ASSUME NEW i \in 0 .. (n + 1) PROVE r[i] = h[i]
    <3>1. CASE i = 0
      <4>1. 0 \in 0 .. n /\ 0 # n + 1
        OBVIOUS
      <4> QED BY <2>2, <3>1, <4>1
    <3>2. CASE i \in 1 .. n
      <4>1. /\ i - 1 \in 0 .. n /\ i \in 0 .. n /\ i # 0 /\ i # n + 1
            /\ i - 1 # n + 1 /\ i - 1 \in 0 .. (n + 1)
        BY <3>2
      <4>2. r[i - 1] = g[i - 1] /\ r[i] = g[i]
        BY <4>1
      <4>3. h[i] = IF r[i - 1] < need THEN 2 * r[i - 1] ELSE r[i - 1]
        BY <4>1
      <4>4. g[i] = IF g[i - 1] < need THEN 2 * g[i - 1] ELSE g[i - 1]
        BY <2>2, <4>1
      <4> QED BY <4>2, <4>3, <4>4
    <3>3. CASE i = n + 1
      <4>1. i # 0 /\ i - 1 = n /\ n # n + 1 /\ n \in 0 .. (n + 1)
        BY <3>3
      <4>2. r[n] = g[n] /\ r[i] = last
        BY <3>3, <4>1
      <4>3. h[i] = IF r[i - 1] < need THEN 2 * r[i - 1] ELSE r[i - 1]
        BY <4>1
      <4> QED BY <4>1, <4>2, <4>3 DEF last
    <3> QED BY <3>1, <3>2, <3>3
  <2>4. r = h
    BY <2>3
  <2> HIDE DEF r
  <2>5. Part(n + 1, r)
    BY <2>4
  <2> QED BY <2>5
<1>3. need \in S
  <2> HIDE DEF S
  <2> QED BY <1>1, <1>2, NatSetInduction
<1> QED BY <1>3 DEF Rounds

\* The loop of write_cb ends with room for the piece and its end.
LEMMA GrownFits ==
    ASSUME NEW old \in Nat, NEW need \in Nat
    PROVE  Grown(old, need) \in Nat /\ Grown(old, need) >= need
           /\ Grown(old, need) # 0
<1> DEFINE first == IF old = 0 THEN BODY_CAP ELSE 2 * old
           e(r) == [i \in 0 .. need |->
                       IF i = 0 THEN first
                       ELSE IF r[i - 1] < need THEN 2 * r[i - 1] ELSE r[i - 1]]
           g == CHOOSE r : r = e(r)
<1>f. first \in Nat /\ first # 0
  BY HttpAssumption
<1>1. Grown(old, need) = g[need]
  BY DEF Grown
<1> HIDE DEF first
<1>2. \E r : r = e(r)
  BY <1>f, RoundsExist DEF Rounds
<1>3. g = e(g)
  BY <1>2
<1> HIDE DEF g
<1>4. \A i \in 0 .. need :
          g[i] = IF i = 0 THEN first
                 ELSE IF g[i - 1] < need THEN 2 * g[i - 1] ELSE g[i - 1]
  BY <1>3
<1> DEFINE S == {n \in Nat : n <= need =>
                    g[n] \in Nat /\ g[n] # 0 /\ (g[n] >= need \/ g[n] > n)}
<1>5. 0 \in S
  BY <1>f, <1>4
<1>6. ASSUME NEW n \in Nat, n \in S PROVE n + 1 \in S
  <2> SUFFICES ASSUME n + 1 <= need
               PROVE  /\ g[n + 1] \in Nat /\ g[n + 1] # 0
                      /\ g[n + 1] >= need \/ g[n + 1] > n + 1
    OBVIOUS
  <2>1. n + 1 \in 0 .. need /\ n + 1 # 0 /\ (n + 1) - 1 = n /\ n <= need
    OBVIOUS
  <2>2. g[n + 1] = IF g[n] < need THEN 2 * g[n] ELSE g[n]
    BY <1>4, <2>1
  <2>3. g[n] \in Nat /\ g[n] # 0 /\ (g[n] >= need \/ g[n] > n)
    BY <1>6, <2>1
  <2> QED BY <2>2, <2>3
<1> HIDE DEF S
<1>7. need \in S
  BY <1>5, <1>6, NatSetInduction
<1>8. g[need] \in Nat /\ g[need] # 0 /\ (g[need] >= need \/ g[need] > need)
  BY <1>7 DEF S
<1> QED BY <1>1, <1>8

\* f has the body after the first 0, 1, ... events.
Bodies(evs, f) ==
    f = [i \in 0 .. Len(evs) |->
            IF i = 0 THEN <<>> ELSE f[i - 1] \o Bytes(evs[i])]

\* There is only one such f.
LEMMA BodiesUnique ==
    ASSUME NEW evs \in Seq(HttpEvents), NEW f, NEW g,
           Bodies(evs, f), Bodies(evs, g)
    PROVE  f = g
<1>n. Len(evs) \in Nat
  OBVIOUS
<1>f. /\ \A i \in 0 .. Len(evs) :
             f[i] = IF i = 0 THEN <<>> ELSE f[i - 1] \o Bytes(evs[i])
      /\ \A i \in 0 .. Len(evs) :
             g[i] = IF i = 0 THEN <<>> ELSE g[i - 1] \o Bytes(evs[i])
  BY DEF Bodies
<1> DEFINE S == {n \in Nat : n <= Len(evs) => f[n] = g[n]}
<1>1. 0 \in S
  BY <1>n, <1>f
<1>2. ASSUME NEW n \in Nat, n \in S PROVE n + 1 \in S
  <2> SUFFICES ASSUME n + 1 <= Len(evs) PROVE f[n + 1] = g[n + 1]
    OBVIOUS
  <2>1. n + 1 \in 0 .. Len(evs) /\ n + 1 # 0 /\ (n + 1) - 1 = n
        /\ n <= Len(evs)
    BY <1>n
  <2>2. /\ f[n + 1] = f[n] \o Bytes(evs[n + 1])
        /\ g[n + 1] = g[n] \o Bytes(evs[n + 1])
    BY <1>f, <2>1
  <2> QED BY <1>2, <2>1, <2>2
<1> HIDE DEF S
<1>3. Nat \subseteq S
  BY <1>1, <1>2, NatSetInduction
<1>4. \A i \in 0 .. Len(evs) : f[i] = g[i]
  BY <1>n, <1>3 DEF S
<1>5. f = [i \in 0 .. Len(evs) |-> f[i]] /\ g = [i \in 0 .. Len(evs) |-> g[i]]
  BY DEF Bodies
<1> QED BY <1>4, <1>5

\* From the bodies of some events to those of one more.
LEMMA BodiesExtend ==
    ASSUME NEW evs \in Seq(HttpEvents), NEW e \in HttpEvents,
           NEW g, Bodies(evs, g)
    PROVE  \E f : /\ Bodies(Append(evs, e), f)
                  /\ f[Len(evs) + 1] = g[Len(evs)] \o Bytes(e)
<1> DEFINE n == Len(evs)
           a == Append(evs, e)
<1>n. /\ n \in Nat /\ Len(a) = n + 1 /\ a[n + 1] = e
      /\ \A i \in 1 .. n : a[i] = evs[i]
  OBVIOUS
<1>1. \A i \in 0 .. n :
          g[i] = IF i = 0 THEN <<>> ELSE g[i - 1] \o Bytes(evs[i])
  BY DEF Bodies
<1> HIDE DEF n, a
<1> DEFINE f == [i \in 0 .. (n + 1) |->
                    IF i = n + 1 THEN g[n] \o Bytes(e) ELSE g[i]]
           h == [i \in 0 .. (n + 1) |->
                    IF i = 0 THEN <<>> ELSE f[i - 1] \o Bytes(a[i])]
<1>2. ASSUME NEW i \in 0 .. (n + 1) PROVE f[i] = h[i]
  <2>1. CASE i = 0
    <3>1. 0 \in 0 .. n /\ 0 # n + 1
      BY <1>n
    <3> QED BY <1>1, <2>1, <3>1
  <2>2. CASE i \in 1 .. n
    <3>1. /\ i - 1 \in 0 .. n /\ i \in 0 .. n /\ i # 0 /\ i # n + 1
          /\ i - 1 # n + 1 /\ i - 1 \in 0 .. (n + 1)
      BY <1>n, <2>2
    <3>2. f[i - 1] = g[i - 1] /\ f[i] = g[i]
      BY <3>1
    <3>3. h[i] = f[i - 1] \o Bytes(a[i]) /\ a[i] = evs[i]
      BY <1>n, <2>2, <3>1
    <3>4. g[i] = g[i - 1] \o Bytes(evs[i])
      BY <1>1, <3>1
    <3> QED BY <3>2, <3>3, <3>4
  <2>3. CASE i = n + 1
    <3>1. i # 0 /\ i - 1 = n /\ n # n + 1 /\ n \in 0 .. (n + 1)
      BY <1>n, <2>3
    <3>2. f[n] = g[n] /\ f[i] = g[n] \o Bytes(e)
      BY <2>3, <3>1
    <3>3. h[i] = f[i - 1] \o Bytes(a[i])
      BY <3>1
    <3> QED BY <1>n, <2>3, <3>1, <3>2, <3>3
  <2> QED BY <1>n, <2>1, <2>2, <2>3
<1>3. f = h
  BY <1>2
<1>4. f[n + 1] = g[n] \o Bytes(e)
  BY <1>n
<1> HIDE DEF f
<1>5. Bodies(a, f)
  BY <1>n, <1>3 DEF Bodies
<1> QED BY <1>4, <1>5 DEF n, a

\* There is one for every sequence of events.
LEMMA BodiesExist == \A evs \in Seq(HttpEvents) : \E f : Bodies(evs, f)
<1> DEFINE S == {n \in Nat : \A evs \in Seq(HttpEvents) :
                     Len(evs) = n => \E f : Bodies(evs, f)}
<1>1. 0 \in S
  <2> SUFFICES ASSUME NEW evs \in Seq(HttpEvents), Len(evs) = 0
               PROVE  \E f : Bodies(evs, f)
    OBVIOUS
  <2> DEFINE f == [i \in 0 .. 0 |-> <<>>]
  <2>1. f = [i \in 0 .. 0 |->
                IF i = 0 THEN <<>> ELSE f[i - 1] \o Bytes(evs[i])]
    OBVIOUS
  <2> HIDE DEF f
  <2> QED BY <2>1 DEF Bodies
<1>2. ASSUME NEW n \in Nat, n \in S PROVE n + 1 \in S
  <2> SUFFICES ASSUME NEW evs \in Seq(HttpEvents), Len(evs) = n + 1
               PROVE  \E f : Bodies(evs, f)
    OBVIOUS
  <2> DEFINE p == SubSeq(evs, 1, n)
  <2>1. p \in Seq(HttpEvents) /\ Len(p) = n /\ evs[n + 1] \in HttpEvents
    OBVIOUS
  <2>2. evs = Append(p, evs[n + 1])
    OBVIOUS
  <2>3. PICK g : Bodies(p, g)
    BY <1>2, <2>1
  <2> HIDE DEF p
  <2>4. PICK e \in HttpEvents : e = evs[n + 1]
    BY <2>1
  <2>5. \E f : Bodies(Append(p, e), f)
    BY <2>1, <2>3, BodiesExtend
  <2> QED BY <2>2, <2>4, <2>5
<1> HIDE DEF S
<1>3. Nat \subseteq S
  BY <1>1, <1>2, NatSetInduction
<1> SUFFICES ASSUME NEW evs \in Seq(HttpEvents) PROVE \E f : Bodies(evs, f)
  OBVIOUS
<1>4. Len(evs) \in S
  BY <1>3
<1> QED BY <1>4 DEF S

\* The one there is gives BodyReceived.
LEMMA BodyReceivedIs ==
    ASSUME NEW evs \in Seq(HttpEvents), NEW f, Bodies(evs, f)
    PROVE  BodyReceived(evs) = f[Len(evs)]
<1> DEFINE e(s) == [i \in 0 .. Len(evs) |->
                       IF i = 0 THEN <<>> ELSE s[i - 1] \o Bytes(evs[i])]
           g == CHOOSE s : s = e(s)
<1>1. BodyReceived(evs) = g[Len(evs)]
  BY DEF BodyReceived
<1>2. f = e(f)
  BY DEF Bodies
<1>3. g = e(g)
  BY <1>2
<1>4. Bodies(evs, g)
  BY <1>3 DEF Bodies
<1> HIDE DEF g
<1> QED BY <1>1, <1>4, BodiesUnique

\* One more event adds its bytes to the body received; none is no body.
LEMMA BodyGrows ==
    /\ BodyReceived(<<>>) = <<>>
    /\ \A evs \in Seq(HttpEvents), e \in HttpEvents :
           BodyReceived(Append(evs, e)) = BodyReceived(evs) \o Bytes(e)
<1>1. BodyReceived(<<>>) = <<>>
  <2>1. <<>> \in Seq(HttpEvents) /\ Len(<<>>) = 0
    OBVIOUS
  <2>2. PICK f : Bodies(<<>>, f)
    BY <2>1, BodiesExist
  <2>3. f[0] = <<>>
    BY <2>1, <2>2 DEF Bodies
  <2> QED BY <2>1, <2>2, <2>3, BodyReceivedIs
<1>2. ASSUME NEW evs \in Seq(HttpEvents), NEW e \in HttpEvents
      PROVE  BodyReceived(Append(evs, e)) = BodyReceived(evs) \o Bytes(e)
  <2>1. PICK g : Bodies(evs, g)
    BY BodiesExist
  <2>2. PICK f : /\ Bodies(Append(evs, e), f)
                 /\ f[Len(evs) + 1] = g[Len(evs)] \o Bytes(e)
    BY <2>1, BodiesExtend
  <2>3. Append(evs, e) \in Seq(HttpEvents) /\ Len(Append(evs, e)) = Len(evs) + 1
    OBVIOUS
  <2>4. BodyReceived(Append(evs, e)) = f[Len(evs) + 1]
    BY <2>2, <2>3, BodyReceivedIs
  <2>5. BodyReceived(evs) = g[Len(evs)]
    BY <2>1, BodyReceivedIs
  <2> QED BY <2>2, <2>4, <2>5
<1> QED BY <1>1, <1>2

\* The list with a header in front answers for that header's key with its
\* value, and for other keys as before.
LEMMA HeaderGetFront ==
    ASSUME NEW list \in Seq(HttpEvents), NEW e \in HttpEvents, NEW k
    PROVE  HeaderGet(<<e>> \o list, k) =
               IF e.key = k THEN {e.value} ELSE HeaderGet(list, k)
<1> DEFINE n == Len(list)
           l == <<e>> \o list
<1>n. /\ n \in Nat /\ DOMAIN l = 1 .. (n + 1) /\ DOMAIN list = 1 .. n
      /\ l[1] = e /\ \A i \in 1 .. n : l[i + 1] = list[i]
  OBVIOUS
<1> HIDE DEF n, l
<1>1. CASE e.key = k
  <2>1. \A j \in 1 .. (n + 1) :
           (l[j].key = k /\ \A h \in 1 .. (n + 1) : h < j => l[h].key # k)
           <=> j = 1
    BY <1>n, <1>1
  <2>0. 1 \in 1 .. (n + 1)
    BY <1>n
  <2> DEFINE First(j) == l[j].key = k
                         /\ \A h \in 1 .. (n + 1) : h < j => l[h].key # k
             F == {j \in 1 .. (n + 1) : First(j)}
  <2>2. HeaderGet(l, k) = {l[j].value : j \in F}
    BY <1>n DEF HeaderGet
  <2>3. \A j \in 1 .. (n + 1) : First(j) <=> j = 1
    BY <2>1, Zenon
  <2> HIDE DEF First
  <2>4. F = {1}
    BY <2>0, <2>3, Zenon
  <2> HIDE DEF F
  <2>5. {l[j].value : j \in {1}} = {l[1].value}
    OBVIOUS
  <2>6. HeaderGet(l, k) = {l[1].value}
    BY <2>2, <2>4, <2>5
  <2> QED BY <1>n, <1>1, <2>6 DEF l
<1>2. CASE e.key # k
  <2> DEFINE First(j) == list[j].key = k
                         /\ \A h \in 1 .. n : h < j => list[h].key # k
             FirstIn(j) == l[j].key = k
                           /\ \A h \in 1 .. (n + 1) : h < j => l[h].key # k
  <2>1. ~FirstIn(1)
    BY <1>n, <1>2
  <2>2. ASSUME NEW j \in 1 .. n PROVE FirstIn(j + 1) <=> First(j)
    <3>1. ASSUME FirstIn(j + 1), NEW h \in 1 .. n, h < j PROVE list[h].key # k
      <4>1. h + 1 \in 1 .. (n + 1) /\ h + 1 < j + 1
        BY <1>n, <3>1
      <4> QED BY <1>n, <3>1, <4>1
    <3>2. ASSUME First(j), NEW h \in 1 .. (n + 1), h < j + 1
          PROVE  l[h].key # k
      <4>1. CASE h = 1
        BY <1>n, <1>2, <4>1
      <4>2. CASE h # 1
        <5>1. h - 1 \in 1 .. n /\ h - 1 < j /\ (h - 1) + 1 = h
          BY <1>n, <3>2, <4>2
        <5>2. l[h] = list[h - 1]
          BY <1>n, <5>1
        <5> QED BY <3>2, <5>1, <5>2
      <4> QED BY <4>1, <4>2
    <3>3. l[j + 1] = list[j]
      BY <1>n
    <3> QED BY <3>1, <3>2, <3>3
  <2>3. /\ HeaderGet(l, k) = {l[j].value : j \in {i \in 1 .. (n + 1) : FirstIn(i)}}
        /\ HeaderGet(list, k) = {list[j].value : j \in {i \in 1 .. n : First(i)}}
    BY <1>n DEF HeaderGet
  <2> HIDE DEF First, FirstIn
  <2>4. ASSUME NEW j \in 1 .. (n + 1), FirstIn(j)
        PROVE  j - 1 \in 1 .. n /\ First(j - 1) /\ l[j] = list[j - 1]
    <3>1. j - 1 \in 1 .. n /\ (j - 1) + 1 = j
      BY <1>n, <2>1, <2>4
    <3> QED BY <1>n, <2>2, <2>4, <3>1
  <2>5. ASSUME NEW j \in 1 .. n, First(j)
        PROVE  j + 1 \in 1 .. (n + 1) /\ FirstIn(j + 1) /\ l[j + 1] = list[j]
    BY <1>n, <2>2, <2>5
  <2>6. HeaderGet(l, k) \subseteq HeaderGet(list, k)
    BY <2>3, <2>4
  <2>7. HeaderGet(list, k) \subseteq HeaderGet(l, k)
    BY <2>3, <2>5
  <2> QED BY <1>2, <2>6, <2>7 DEF l
<1> QED BY <1>1, <1>2

\* One more event received is the last one of its key, if it is a header.
LEMMA LastReceivedAppend ==
    ASSUME NEW evs \in Seq(HttpEvents), NEW e \in HttpEvents, NEW k
    PROVE  LastReceived(Append(evs, e), k) =
               IF OfKey(e, k) THEN {e.value} ELSE LastReceived(evs, k)
<1> DEFINE n == Len(evs)
           a == Append(evs, e)
<1>n. /\ n \in Nat /\ DOMAIN a = 1 .. (n + 1) /\ DOMAIN evs = 1 .. n
      /\ a[n + 1] = e /\ \A i \in 1 .. n : a[i] = evs[i]
  OBVIOUS
<1> HIDE DEF n, a
<1>1. CASE OfKey(e, k)
  <2>1. \A j \in 1 .. (n + 1) :
           (OfKey(a[j], k) /\ \A h \in 1 .. (n + 1) : j < h => ~OfKey(a[h], k))
           <=> j = n + 1
    BY <1>n, <1>1
  <2>2. n + 1 \in 1 .. (n + 1)
    BY <1>n
  <2>3. LastReceived(a, k) = {a[n + 1].value}
    BY <1>n, <2>1, <2>2 DEF LastReceived
  <2> QED BY <1>n, <1>1, <2>3 DEF a
<1>2. CASE ~OfKey(e, k)
  <2> DEFINE LastOf(j) == OfKey(evs[j], k)
                          /\ \A h \in 1 .. n : j < h => ~OfKey(evs[h], k)
             LastIn(j) == OfKey(a[j], k)
                          /\ \A h \in 1 .. (n + 1) : j < h => ~OfKey(a[h], k)
  <2>1. ~LastIn(n + 1)
    BY <1>n, <1>2
  <2>2. ASSUME NEW j \in 1 .. n PROVE LastIn(j) <=> LastOf(j)
    <3>1. \A h \in 1 .. (n + 1) : h = n + 1 \/ h \in 1 .. n
      BY <1>n
    <3>2. \A h \in 1 .. n : h \in 1 .. (n + 1)
      BY <1>n
    <3> QED BY <1>n, <1>2, <3>1, <3>2
  <2>3. /\ LastReceived(a, k) = {a[j].value : j \in {i \in 1 .. (n + 1) : LastIn(i)}}
        /\ LastReceived(evs, k) = {evs[j].value : j \in {i \in 1 .. n : LastOf(i)}}
    BY <1>n DEF LastReceived
  <2> HIDE DEF LastOf, LastIn
  <2>4. \A j \in 1 .. (n + 1) : LastIn(j) => j \in 1 .. n
    BY <1>n, <2>1
  <2>5. \A j \in 1 .. n : j \in 1 .. (n + 1) /\ a[j] = evs[j]
    BY <1>n
  <2>6. LastReceived(a, k) = LastReceived(evs, k)
    BY <2>2, <2>3, <2>4, <2>5
  <2> QED BY <1>2, <2>6 DEF a
<1> QED BY <1>1, <1>2

Parts == {"easy", "slist", "body", "headers"}

\* Types of what a send works on.
SendTypes ==
    /\ at \in [HttpThreads -> Places]
    /\ reply \in [HttpThreads -> Seq(HttpEvents)]
    /\ received \in [HttpThreads -> Seq(HttpEvents)]
    /\ body_buf \in [HttpThreads -> Seq(0 .. 255)]
    /\ cap \in [HttpThreads -> Nat]
    /\ headers \in [HttpThreads -> Seq(HttpEvents)]
    /\ rc \in [HttpThreads -> {0, 1}]
    /\ heap \in [HttpThreads -> SUBSET Parts]
    /\ dropped \in [HttpThreads -> BOOLEAN]

\* A buffer there is holds the body and its end.
Roomy(buf, size) == IF size = 0 THEN buf = <<>> ELSE Len(buf) < size

\* The body and the list are allocated exactly while they are there; when no
\* send is on, nothing else is, and nothing at all if the last one failed.
Owned(a, size, list, code, mem) ==
    /\ "body" \in mem <=> size # 0
    /\ "headers" \in mem <=> list # <<>>
    /\ a \in {"idle", "new"} =>
          /\ "easy" \notin mem /\ "slist" \notin mem
          /\ code = 1 => size = 0 /\ list = <<>>
    /\ a = "prepare" => size = 0 /\ list = <<>>

\* The body and the headers are those received so far.
Faithful(a, buf, list, code, evs, lost) ==
    (a = "transfer" \/ (a \in {"idle", "new"} /\ code = 0)) /\ ~lost =>
        /\ buf = BodyReceived(evs)
        /\ \A k \in HeaderKeys : HeaderGet(list, k) = LastReceived(evs, k)

Sound(t) ==
    /\ Roomy(body_buf[t], cap[t])
    /\ Owned(at[t], cap[t], headers[t], rc[t], heap[t])
    /\ Faithful(at[t], body_buf[t], headers[t], rc[t], received[t], dropped[t])

\* The inductive invariant of sends.
SendInv == SendTypes /\ \A t \in HttpThreads : Sound(t)

\* Nothing received is answered by nothing.
LEMMA NothingReceived ==
    \A k : HeaderGet(<<>>, k) = {} /\ LastReceived(<<>>, k) = {}
BY DEF HeaderGet, LastReceived

\* A step of one thread's send leaves the others' sound.
LEMMA OthersSound ==
    ASSUME SendInv, NEW t \in HttpThreads, SendTypes', Sound(t)',
           \A u \in HttpThreads : u # t =>
               /\ at'[u] = at[u] /\ body_buf'[u] = body_buf[u]
               /\ cap'[u] = cap[u] /\ headers'[u] = headers[u]
               /\ rc'[u] = rc[u] /\ heap'[u] = heap[u]
               /\ received'[u] = received[u] /\ dropped'[u] = dropped[u]
    PROVE  SendInv'
<1>1. ASSUME NEW u \in HttpThreads, u # t PROVE Sound(u)'
  <2>1. Sound(u)
    BY DEF SendInv
  <2> QED BY <1>1, <2>1 DEF Sound
<1> QED BY <1>1 DEF SendInv

\* papago_client_new only moves a thread.
LEMMA NewSound ==
    ASSUME SendInv, NEW t \in HttpThreads,
           (\E c \in HttpClients : NewRef(t, c)) \/ NewFails(t) \/ NewAlloc(t)
           \/ NewNoMemory(t)
    PROVE  SendInv'
<1>1. /\ at' = at \/ \E p \in {"idle", "new"} : at' = [at EXCEPT ![t] = p]
      /\ at[t] \in {"idle", "new"}
      /\ UNCHANGED <<reply, outcomeVars, received, dropped>>
  BY DEF NewRef, NewFails, NewAlloc, NewNoMemory, Goes
<1>2. SendTypes'
  BY <1>1 DEF SendInv, SendTypes, outcomeVars, Places
<1>3. ASSUME NEW u \in HttpThreads PROVE Sound(u)'
  <2>1. at'[u] = at[u] \/ (at[u] \in {"idle", "new"} /\ at'[u] \in {"idle", "new"})
    BY <1>1 DEF SendInv, SendTypes
  <2>2. Sound(u)
    BY DEF SendInv
  <2> QED BY <1>1, <2>1, <2>2 DEF Sound, Owned, Faithful, outcomeVars
<1> QED BY <1>2, <1>3 DEF SendInv

\* An event libcurl has for the thread is one of the reply's.
LEMMA ComingEvent ==
    ASSUME SendTypes, NEW t \in HttpThreads, NEW kind, Coming(t, kind)
    PROVE  /\ Next1(t) \in HttpEvents /\ Next1(t).kind = kind
           /\ Tail(reply[t]) \in Seq(HttpEvents)
           /\ Append(received[t], Next1(t)) \in Seq(HttpEvents)
<1>1. /\ reply[t] \in Seq(HttpEvents) /\ reply[t] # <<>>
      /\ received[t] \in Seq(HttpEvents)
  BY DEF Coming, SendTypes
<1>2. Head(reply[t]) \in HttpEvents /\ Tail(reply[t]) \in Seq(HttpEvents)
  BY <1>1
<1> QED BY <1>1, <1>2 DEF Coming, Next1

\* The callbacks keep every send sound.
LEMMA CallbackSound ==
    ASSUME SendInv, NEW t \in HttpThreads,
           HeaderCb(t) \/ HeaderCbNoMemory(t) \/ HeaderCbSkips(t) \/ WriteCb(t)
    PROVE  SendInv'
<1>t. SendTypes /\ Sound(t)
  BY DEF SendInv
<1>1. CASE HeaderCb(t)
  <2> DEFINE e == Next1(t)
  <2>1. /\ Coming(t, "header")
        /\ reply' = [reply EXCEPT ![t] = Tail(@)]
        /\ received' = [received EXCEPT ![t] = Append(@, e)]
        /\ headers' = [headers EXCEPT ![t] = <<e>> \o @]
        /\ heap' = [heap EXCEPT ![t] = @ \cup {"headers"}]
        /\ UNCHANGED <<at, body_buf, cap, rc, dropped>>
    BY <1>1 DEF HeaderCb, Received
  <2>2. /\ e \in HttpEvents /\ e.kind = "header"
        /\ Tail(reply[t]) \in Seq(HttpEvents)
        /\ Append(received[t], e) \in Seq(HttpEvents)
    BY <1>t, <2>1, ComingEvent
  <2> HIDE DEF e
  <2>3. headers[t] \in Seq(HttpEvents) /\ received[t] \in Seq(HttpEvents)
    BY <1>t DEF SendTypes
  <2>4. <<e>> \o headers[t] \in Seq(HttpEvents) /\ <<e>> \o headers[t] # <<>>
    BY <2>2, <2>3
  <2>5. SendTypes'
    BY <1>t, <2>1, <2>2, <2>4 DEF SendTypes, Parts
  <2>6. /\ headers'[t] = <<e>> \o headers[t]
        /\ received'[t] = Append(received[t], e)
        /\ heap'[t] = heap[t] \cup {"headers"}
    BY <1>t, <2>1 DEF SendTypes
  <2>7. Roomy(body_buf[t], cap[t])'
    BY <1>t, <2>1 DEF Sound
  <2>8. Owned(at[t], cap[t], headers[t], rc[t], heap[t])'
    BY <1>t, <2>1, <2>4, <2>6 DEF Sound, Owned, Coming
  <2>9. Faithful(at[t], body_buf[t], headers[t], rc[t], received[t], dropped[t])'
    <3> SUFFICES ASSUME ~dropped[t]
                 PROVE  /\ body_buf[t] = BodyReceived(Append(received[t], e))
                        /\ \A k \in HeaderKeys :
                              HeaderGet(<<e>> \o headers[t], k) =
                              LastReceived(Append(received[t], e), k)
      BY <2>1, <2>6 DEF Faithful
    <3>1. /\ body_buf[t] = BodyReceived(received[t])
          /\ \A k \in HeaderKeys :
                HeaderGet(headers[t], k) = LastReceived(received[t], k)
      BY <1>t, <2>1 DEF Sound, Faithful, Coming
    <3>2. Bytes(e) = <<>>
      BY <2>2 DEF Bytes
    <3>3. BodyReceived(Append(received[t], e)) = body_buf[t] \o <<>>
      BY <2>2, <2>3, <3>1, <3>2, BodyGrows
    <3>4. body_buf[t] \o <<>> = body_buf[t]
      BY <1>t DEF SendTypes
    <3>5. ASSUME NEW k \in HeaderKeys
          PROVE  HeaderGet(<<e>> \o headers[t], k) =
                 LastReceived(Append(received[t], e), k)
      <4>1. HeaderGet(<<e>> \o headers[t], k) =
                IF e.key = k THEN {e.value} ELSE HeaderGet(headers[t], k)
        BY <2>2, <2>3, HeaderGetFront
      <4>2. LastReceived(Append(received[t], e), k) =
                IF OfKey(e, k) THEN {e.value} ELSE LastReceived(received[t], k)
        BY <2>2, <2>3, LastReceivedAppend
      <4>3. OfKey(e, k) <=> e.key = k
        BY <2>2 DEF OfKey
      <4> QED BY <3>1, <4>1, <4>2, <4>3
    <3> QED BY <3>3, <3>4, <3>5
  <2>10. Sound(t)'
    BY <2>7, <2>8, <2>9 DEF Sound
  <2> QED BY <1>t, <2>1, <2>5, <2>10, OthersSound DEF SendTypes
<1>2. CASE HeaderCbNoMemory(t)
  <2>1. /\ Coming(t, "header")
        /\ reply' = [reply EXCEPT ![t] = Tail(@)]
        /\ received' = [received EXCEPT ![t] = Append(@, Next1(t))]
        /\ dropped' = [dropped EXCEPT ![t] = TRUE]
        /\ UNCHANGED <<at, body_buf, cap, headers, rc, heap>>
    BY <1>2 DEF HeaderCbNoMemory, Received, outcomeVars
  <2>2. SendTypes'
    BY <1>t, <2>1, ComingEvent DEF SendTypes
  <2>3. dropped'[t] = TRUE
    BY <1>t, <2>1 DEF SendTypes
  <2>4. Sound(t)'
    BY <1>t, <2>1, <2>3 DEF Sound, Faithful
  <2> QED BY <1>t, <2>1, <2>2, <2>4, OthersSound DEF SendTypes
<1>3. CASE HeaderCbSkips(t)
  <2> DEFINE e == Next1(t)
  <2>1. /\ Coming(t, "line")
        /\ reply' = [reply EXCEPT ![t] = Tail(@)]
        /\ received' = [received EXCEPT ![t] = Append(@, e)]
        /\ UNCHANGED <<at, body_buf, cap, headers, rc, heap, dropped>>
    BY <1>3 DEF HeaderCbSkips, Received, outcomeVars
  <2>2. /\ e \in HttpEvents /\ e.kind = "line"
        /\ Tail(reply[t]) \in Seq(HttpEvents)
        /\ Append(received[t], e) \in Seq(HttpEvents)
    BY <1>t, <2>1, ComingEvent
  <2> HIDE DEF e
  <2>3. SendTypes'
    BY <1>t, <2>1, <2>2 DEF SendTypes
  <2>4. received'[t] = Append(received[t], e) /\ received[t] \in Seq(HttpEvents)
        /\ body_buf[t] \in Seq(0 .. 255)
    BY <1>t, <2>1 DEF SendTypes
  <2>5. BodyReceived(Append(received[t], e)) = BodyReceived(received[t]) \o <<>>
    BY <2>2, <2>4, BodyGrows DEF Bytes
  <2>6. \A k \in HeaderKeys :
           LastReceived(Append(received[t], e), k) = LastReceived(received[t], k)
    BY <2>2, <2>4, LastReceivedAppend DEF OfKey
  <2>7. body_buf[t] \o <<>> = body_buf[t]
    BY <2>4
  <2>8. Faithful(at[t], body_buf[t], headers[t], rc[t], received[t], dropped[t])'
    BY <1>t, <2>1, <2>4, <2>5, <2>6, <2>7 DEF Sound, Faithful
  <2>9. Sound(t)'
    BY <1>t, <2>1, <2>8 DEF Sound
  <2> QED BY <1>t, <2>1, <2>3, <2>9, OthersSound DEF SendTypes
<1>4. CASE WriteCb(t)
  <2> DEFINE e == Next1(t)
             need == Len(body_buf[t]) + Len(e.bytes) + 1
  <2>1. /\ Coming(t, "data")
        /\ reply' = [reply EXCEPT ![t] = Tail(@)]
        /\ received' = [received EXCEPT ![t] = Append(@, e)]
        /\ cap' = [cap EXCEPT ![t] = IF need > @ THEN Grown(@, need) ELSE @]
        /\ body_buf' = [body_buf EXCEPT ![t] = @ \o e.bytes]
        /\ heap' = [heap EXCEPT ![t] = @ \cup {"body"}]
        /\ UNCHANGED <<at, headers, rc, dropped>>
    BY <1>4 DEF WriteCb, Received
  <2>2. /\ e \in HttpEvents /\ e.kind = "data"
        /\ Tail(reply[t]) \in Seq(HttpEvents)
        /\ Append(received[t], e) \in Seq(HttpEvents)
    BY <1>t, <2>1, ComingEvent
  <2> HIDE DEF e
  <2>3. e.bytes \in Seq(0 .. 255) /\ body_buf[t] \in Seq(0 .. 255)
    BY <1>t, <2>2, HttpAssumption DEF SendTypes
  <2>l. PICK m \in Nat, n \in Nat :
           m = Len(body_buf[t]) /\ n = Len(e.bytes)
    BY <2>3, LenProperties
  <2>4. /\ body_buf[t] \o e.bytes \in Seq(0 .. 255)
        /\ Len(body_buf[t] \o e.bytes) = m + n
    BY <2>3, <2>l, ConcatProperties
  <2>5. need \in Nat /\ need # 0 /\ need = m + n + 1
    <3>1. need = m + n + 1
      BY <2>l, Zenon
    <3> HIDE DEF need
    <3> QED BY <3>1
  <2> HIDE DEF need
  <2>6. cap[t] \in Nat /\ received[t] \in Seq(HttpEvents)
    BY <1>t DEF SendTypes
  <2>7. PICK c \in Nat : /\ c = IF need > cap[t] THEN Grown(cap[t], need)
                                ELSE cap[t]
                         /\ c >= need /\ c # 0
    <3>1. CASE need > cap[t]
      <4>1. /\ Grown(cap[t], need) \in Nat /\ Grown(cap[t], need) >= need
            /\ Grown(cap[t], need) # 0
        BY <2>5, <2>6, GrownFits
      <4> QED BY <3>1, <4>1
    <3>2. CASE ~(need > cap[t])
      <4>1. cap[t] >= need /\ cap[t] # 0
        BY <2>5, <2>6, <3>2
      <4> QED BY <2>6, <3>2, <4>1
    <3> QED BY <3>1, <3>2
  <2>8. cap' = [cap EXCEPT ![t] = c]
    BY <2>1, <2>7
  <2>9. SendTypes'
    BY <1>t, <2>1, <2>2, <2>4, <2>8 DEF SendTypes, Parts
  <2>10. /\ cap'[t] = c /\ body_buf'[t] = body_buf[t] \o e.bytes
         /\ received'[t] = Append(received[t], e)
         /\ heap'[t] = heap[t] \cup {"body"}
    BY <1>t, <2>1, <2>8 DEF SendTypes
  <2>11. Roomy(body_buf[t], cap[t])'
    <3>1. m + n < c
      BY <2>5, <2>7
    <3> QED BY <2>4, <2>7, <2>10, <3>1 DEF Roomy
  <2>12. Owned(at[t], cap[t], headers[t], rc[t], heap[t])'
    BY <1>t, <2>1, <2>7, <2>10 DEF Sound, Owned, Coming
  <2>13. BodyReceived(Append(received[t], e)) = BodyReceived(received[t]) \o e.bytes
    BY <2>2, <2>6, BodyGrows DEF Bytes
  <2>14. \A k \in HeaderKeys :
           LastReceived(Append(received[t], e), k) = LastReceived(received[t], k)
    BY <2>2, <2>6, LastReceivedAppend DEF OfKey
  <2>15. Faithful(at[t], body_buf[t], headers[t], rc[t], received[t], dropped[t])'
    BY <1>t, <2>1, <2>10, <2>13, <2>14 DEF Sound, Faithful
  <2>16. Sound(t)'
    BY <2>11, <2>12, <2>15 DEF Sound
  <2> QED BY <1>t, <2>1, <2>9, <2>16, OthersSound DEF SendTypes
<1> QED BY <1>1, <1>2, <1>3, <1>4

\* The rest of papago_http_send, and papago_http_response_free.
LEMMA SendSound ==
    ASSUME SendInv, NEW t \in HttpThreads, HttpSend(t)
    PROVE  SendInv'
<1>t. SendTypes /\ Sound(t)
  BY DEF SendInv
<1>e. <<>> \in Seq(HttpEvents) /\ <<>> \in Seq(0 .. 255)
  OBVIOUS
<1>n. /\ Roomy(<<>>, 0)
      /\ \A a, code, lost : Faithful(a, <<>>, <<>>, code, <<>>, lost)
  BY NothingReceived, BodyGrows DEF Roomy, Faithful
<1>1. ASSUME NEW c \in HttpClients, NEW m \in RequestMethods,
             SendBegin(t, c, m)
      PROVE  SendInv'
  <2>1. /\ heap[t] = {}
        /\ heap' = [heap EXCEPT ![t] = {"easy"}]
        /\ body_buf' = [body_buf EXCEPT ![t] = <<>>]
        /\ cap' = [cap EXCEPT ![t] = 0]
        /\ headers' = [headers EXCEPT ![t] = <<>>]
        /\ at' = [at EXCEPT ![t] = "prepare"]
        /\ UNCHANGED <<reply, rc, received, dropped>>
    BY <1>1 DEF SendBegin, Goes
  <2>2. SendTypes'
    BY <1>t, <1>e, <2>1 DEF SendTypes, Parts, Places
  <2>3. /\ at'[t] = "prepare" /\ body_buf'[t] = <<>> /\ cap'[t] = 0
        /\ headers'[t] = <<>> /\ heap'[t] = {"easy"}
    BY <1>t, <2>1 DEF SendTypes
  <2>4. Sound(t)'
    BY <1>n, <2>3 DEF Sound, Owned, Faithful
  <2> QED BY <1>t, <2>1, <2>2, <2>4, OthersSound DEF SendTypes
<1>2. ASSUME NEW c \in HttpClients, SendNoHandle(t, c) PROVE SendInv'
  <2>1. /\ at[t] = "idle" /\ heap[t] = {}
        /\ rc' = [rc EXCEPT ![t] = 1]
        /\ body_buf' = [body_buf EXCEPT ![t] = <<>>]
        /\ headers' = [headers EXCEPT ![t] = <<>>]
        /\ UNCHANGED <<at, reply, cap, heap, received, dropped>>
    BY <1>2 DEF SendNoHandle
  <2>2. SendTypes'
    BY <1>t, <1>e, <2>1 DEF SendTypes
  <2>3. rc'[t] = 1 /\ body_buf'[t] = <<>> /\ headers'[t] = <<>>
    BY <1>t, <2>1 DEF SendTypes
  <2>4. cap[t] = 0
    BY <1>t, <2>1 DEF Sound, Owned
  <2>5. Sound(t)'
    BY <1>n, <2>1, <2>3, <2>4 DEF Sound, Owned, Faithful
  <2> QED BY <1>t, <2>1, <2>2, <2>5, OthersSound DEF SendTypes
<1>3. ASSUME NEW m \in Method, NEW r \in Replies, NEW lines \in BOOLEAN,
             SendPrepare(t, m, r, lines)
      PROVE  SendInv'
  <2> DEFINE list == IF lines THEN {"slist"} ELSE {}
  <2>0. list \subseteq {"slist"}
    OBVIOUS
  <2> HIDE DEF list
  <2>1. /\ at[t] = "prepare"
        /\ heap' = [heap EXCEPT ![t] = @ \cup list]
        /\ reply' = [reply EXCEPT ![t] = r]
        /\ received' = [received EXCEPT ![t] = <<>>]
        /\ dropped' = [dropped EXCEPT ![t] = FALSE]
        /\ at' = [at EXCEPT ![t] = "transfer"]
        /\ UNCHANGED <<body_buf, cap, headers, rc>>
    BY <1>3 DEF SendPrepare, Goes, list
  <2>2. r \in Seq(HttpEvents)
    BY HttpAssumption
  <2>3. SendTypes'
    BY <1>t, <1>e, <2>0, <2>1, <2>2 DEF SendTypes, Parts, Places
  <2>4. /\ at'[t] = "transfer" /\ received'[t] = <<>>
        /\ heap'[t] = heap[t] \cup list
    BY <1>t, <2>1 DEF SendTypes
  <2>5. cap[t] = 0 /\ headers[t] = <<>> /\ body_buf[t] = <<>>
    BY <1>t, <2>1 DEF Sound, Owned, Roomy
  <2>6. Owned(at[t], cap[t], headers[t], rc[t], heap[t])'
    BY <1>t, <2>0, <2>1, <2>4, <2>5 DEF Sound, Owned
  <2>7. Faithful(at[t], body_buf[t], headers[t], rc[t], received[t], dropped[t])'
    BY <2>1, <2>4, <2>5, NothingReceived, BodyGrows DEF Faithful
  <2>8. Sound(t)'
    BY <1>t, <2>1, <2>6, <2>7 DEF Sound
  <2> QED BY <1>t, <2>1, <2>3, <2>8, OthersSound DEF SendTypes
<1>4. CASE PerformFails(t)
  <2>1. /\ at[t] = "transfer" /\ at' = [at EXCEPT ![t] = "failed"]
        /\ UNCHANGED <<reply, body_buf, cap, headers, rc, heap, received,
                       dropped>>
    BY <1>4 DEF PerformFails, Goes, outcomeVars
  <2>2. SendTypes' /\ at'[t] = "failed"
    BY <1>t, <2>1 DEF SendTypes, Places
  <2>3. Sound(t)'
    BY <1>t, <2>1, <2>2 DEF Sound, Owned, Faithful
  <2> QED BY <1>t, <2>1, <2>2, <2>3, OthersSound DEF SendTypes
<1>5. CASE SendFailed(t)
  <2>1. /\ heap' = [heap EXCEPT ![t] = @ \ Parts]
        /\ headers' = [headers EXCEPT ![t] = <<>>]
        /\ body_buf' = [body_buf EXCEPT ![t] = <<>>]
        /\ cap' = [cap EXCEPT ![t] = 0]
        /\ rc' = [rc EXCEPT ![t] = 1]
        /\ reply' = [reply EXCEPT ![t] = <<>>]
        /\ at' = [at EXCEPT ![t] = "idle"]
        /\ UNCHANGED <<received, dropped>>
    <3>1. Parts = {"body", "headers", "slist", "easy"}
      BY DEF Parts
    <3> QED BY <1>5, <3>1 DEF SendFailed, Finished, Goes
  <2>2. SendTypes'
    BY <1>t, <1>e, <2>1 DEF SendTypes, Places
  <2>3. /\ heap'[t] = heap[t] \ Parts /\ headers'[t] = <<>>
        /\ body_buf'[t] = <<>> /\ cap'[t] = 0 /\ rc'[t] = 1 /\ at'[t] = "idle"
    BY <1>t, <2>1 DEF SendTypes
  <2>4. Sound(t)'
    BY <1>n, <2>3 DEF Sound, Owned, Faithful, Parts
  <2> QED BY <1>t, <2>1, <2>2, <2>4, OthersSound DEF SendTypes
<1>6. CASE SendReturns(t)
  <2>1. /\ at[t] = "transfer"
        /\ heap' = [heap EXCEPT ![t] = @ \ {"slist", "easy"}]
        /\ rc' = [rc EXCEPT ![t] = 0]
        /\ reply' = [reply EXCEPT ![t] = <<>>]
        /\ at' = [at EXCEPT ![t] = "idle"]
        /\ UNCHANGED <<received, dropped, body_buf, cap, headers>>
    BY <1>6 DEF SendReturns, Finished, Goes
  <2>2. SendTypes'
    BY <1>t, <1>e, <2>1 DEF SendTypes, Places
  <2>3. /\ heap'[t] = heap[t] \ {"slist", "easy"} /\ rc'[t] = 0
        /\ at'[t] = "idle"
    BY <1>t, <2>1 DEF SendTypes
  <2>4. Owned(at[t], cap[t], headers[t], rc[t], heap[t])'
    BY <1>t, <2>1, <2>3 DEF Sound, Owned
  <2>5. Faithful(at[t], body_buf[t], headers[t], rc[t], received[t], dropped[t])'
    BY <1>t, <2>1, <2>3 DEF Sound, Faithful
  <2>6. Sound(t)'
    BY <1>t, <2>1, <2>4, <2>5 DEF Sound
  <2> QED BY <1>t, <2>1, <2>2, <2>6, OthersSound DEF SendTypes
<1>7. CASE ResponseFree(t)
  <2>1. /\ at[t] = "idle"
        /\ heap' = [heap EXCEPT ![t] = @ \ {"body", "headers"}]
        /\ body_buf' = [body_buf EXCEPT ![t] = <<>>]
        /\ cap' = [cap EXCEPT ![t] = 0]
        /\ headers' = [headers EXCEPT ![t] = <<>>]
        /\ received' = [received EXCEPT ![t] = <<>>]
        /\ UNCHANGED <<at, reply, rc, dropped>>
    BY <1>7 DEF ResponseFree
  <2>2. SendTypes'
    BY <1>t, <1>e, <2>1 DEF SendTypes
  <2>3. /\ heap'[t] = heap[t] \ {"body", "headers"} /\ headers'[t] = <<>>
        /\ body_buf'[t] = <<>> /\ cap'[t] = 0 /\ received'[t] = <<>>
    BY <1>t, <2>1 DEF SendTypes
  <2>4. Owned(at[t], cap[t], headers[t], rc[t], heap[t])'
    BY <1>t, <2>1, <2>3 DEF Sound, Owned
  <2>5. Sound(t)'
    BY <1>n, <2>3, <2>4 DEF Sound
  <2> QED BY <1>t, <2>1, <2>2, <2>5, OthersSound DEF SendTypes
<1> QED
  BY <1>1, <1>2, <1>3, <1>4, <1>5, <1>6, <1>7, CallbackSound DEF HttpSend

\* For every reply and cut into pieces, and wherever memory or the transfer
\* fails: papago_http_send succeeds with the whole body, terminated inside its
\* buffer, and the last value of each header, or fails with nothing; and it
\* leaves allocated exactly what papago_http_response_free frees.
THEOREM SendIsSettled == HttpSpec => []SendSettled
<1>1. HttpInit => SendInv
  <2> SUFFICES ASSUME HttpInit PROVE SendInv
    OBVIOUS
  <2>1. <<>> \in Seq(HttpEvents) /\ <<>> \in Seq(0 .. 255)
    OBVIOUS
  <2>2. SendTypes
    BY <2>1 DEF HttpInit, SendTypes, Places, Parts
  <2>3. ASSUME NEW t \in HttpThreads PROVE Sound(t)
    <3>1. /\ at[t] = "idle" /\ body_buf[t] = <<>> /\ cap[t] = 0
          /\ headers[t] = <<>> /\ rc[t] = 0 /\ heap[t] = {}
          /\ received[t] = <<>>
      BY DEF HttpInit
    <3> QED BY <3>1, NothingReceived, BodyGrows
            DEF Sound, Roomy, Owned, Faithful
  <2> QED BY <2>2, <2>3 DEF SendInv
<1>2. SendInv /\ [HttpNext]_httpVars => SendInv'
  <2> SUFFICES ASSUME SendInv, [HttpNext]_httpVars PROVE SendInv'
    OBVIOUS
  <2>1. ASSUME UNCHANGED <<at, reply, outcomeVars, received, dropped>>
        PROVE  SendInv'
    BY <2>1 DEF SendInv, SendTypes, Sound, outcomeVars
  <2>2. CASE UNCHANGED httpVars
    BY <2>1, <2>2 DEF httpVars
  <2>3. ASSUME NEW c \in HttpClients,
               DestroyClient(c) \/ \E set \in BOOLEAN : SetCaFile(c, set)
        PROVE  SendInv'
    BY <2>1, <2>3 DEF DestroyClient, SetCaFile
  <2> QED BY <2>2, <2>3, NewSound, SendSound DEF HttpNext, HttpDone
<1>3. SendInv => SendSettled
  <2> SUFFICES ASSUME SendInv, NEW t \in HttpThreads
               PROVE  /\ body_buf[t] # <<>> => Len(body_buf[t]) < cap[t]
                      /\ (at[t] = "idle" /\ rc[t] = 0 /\ ~dropped[t]) =>
                            /\ body_buf[t] = BodyReceived(received[t])
                            /\ \A k \in HeaderKeys :
                                  HeaderGet(headers[t], k) =
                                  LastReceived(received[t], k)
                      /\ at[t] = "idle" =>
                            heap[t] = (IF cap[t] # 0 THEN {"body"} ELSE {})
                                      \cup (IF headers[t] # <<>>
                                            THEN {"headers"} ELSE {})
                      /\ (at[t] = "idle" /\ rc[t] = 1) => heap[t] = {}
    BY DEF SendSettled
  <2>1. Sound(t) /\ heap[t] \subseteq Parts
    BY DEF SendInv, SendTypes
  <2>2. at[t] = "idle" =>
            heap[t] = (IF cap[t] # 0 THEN {"body"} ELSE {})
                      \cup (IF headers[t] # <<>> THEN {"headers"} ELSE {})
    BY <2>1 DEF Sound, Owned, Parts
  <2>3. (at[t] = "idle" /\ rc[t] = 1) => heap[t] = {}
    BY <2>1, <2>2 DEF Sound, Owned
  <2> QED BY <2>1, <2>2, <2>3 DEF Sound, Roomy, Faithful
<1> QED BY <1>1, <1>2, <1>3, PTL DEF HttpSpec
=============================================================================
