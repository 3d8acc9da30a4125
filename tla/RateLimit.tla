------------------------------ MODULE RateLimit ------------------------------
(***************************************************************************)
(* Rate limiting by client address (src/papago.c): the table               *)
(* rate_limit_map, papago_enable_rate_limit and papago_check_rate_limit.   *)
(*                                                                         *)
(* papago_check_rate_limit reads the clock first and takes                 *)
(* rate_limit_mutex later.  The mutex is released in the same function and *)
(* nothing blocks under it, so the loop over the table is one step, on the *)
(* clock value read before it.  The clock ticks in seconds.                *)
(***************************************************************************)
EXTENDS Integers

CONSTANTS
    Threads,                  \* MHD threads that serve requests
    IPs,                      \* client addresses
    MAX_RATE_LIMIT_ENTRIES,
    rate_limit_requests,
    rate_limit_window,
    MaxSkew,                  \* ticks between reading the clock and the lock
    MaxClock,                 \* bound: the clock stops here
    MaxRequests,              \* bound: requests made
    NoAddress                      \* no address: ip[0] is '\0'

Slots == 1 .. MAX_RATE_LIMIT_ENTRIES

ASSUME RateAssumption ==
    /\ NoAddress \notin IPs
    /\ MAX_RATE_LIMIT_ENTRIES \in Nat
    /\ rate_limit_requests \in Nat /\ rate_limit_window \in Nat
    /\ MaxSkew \in Nat /\ MaxClock \in Nat /\ MaxRequests \in Nat

VARIABLES
    enable_rate_limiting, rate_limit_map,
    serving,                  \* papago_start has been called
    \* papago_rate_limit_entry_t
    ip, count, window_start,
    clock,
    \* a request on its way through papago_check_rate_limit
    client_ip, now,
    requests,                 \* requests made so far
    \* history
    admitted, refused,        \* counted requests, per address and clock value
    late                      \* a check outlived the second it read

setup == <<enable_rate_limiting, rate_limit_map, serving>>
entries == <<ip, count, window_start>>
calls == <<client_ip, now>>
history == <<admitted, refused, late>>
rateVars == <<setup, entries, clock, calls, requests, history>>

RateInit ==
    /\ enable_rate_limiting \in BOOLEAN
    /\ rate_limit_map = enable_rate_limiting
    /\ serving = FALSE
    /\ ip = [i \in Slots |-> NoAddress]
    /\ count = [i \in Slots |-> 0]
    /\ window_start = [i \in Slots |-> 0]
    /\ clock = 0
    /\ client_ip = [t \in Threads |-> NoAddress]
    /\ now = [t \in Threads |-> 0]
    /\ requests = 0
    /\ admitted = [a \in IPs |-> [s \in 0 .. MaxClock |-> 0]]
    /\ refused = [a \in IPs |-> [s \in 0 .. MaxClock |-> 0]]
    /\ late = FALSE

-----------------------------------------------------------------------------
(* papago_enable_rate_limit, while the server is being set up              *)

\* It allocates the table unless papago_new has.
Enable ==
    /\ ~serving
    /\ enable_rate_limiting' = TRUE /\ rate_limit_map' = TRUE
    /\ UNCHANGED <<serving, entries, clock, calls, requests, history>>

\* calloc fails: rate limiting is off again.
EnableNoMemory ==
    /\ ~serving /\ ~rate_limit_map
    /\ enable_rate_limiting' = FALSE
    /\ UNCHANGED <<rate_limit_map, serving, entries, clock, calls, requests,
                   history>>

Serve ==
    /\ ~serving
    /\ serving' = TRUE
    /\ UNCHANGED <<enable_rate_limiting, rate_limit_map, entries, clock, calls,
                   requests, history>>

-----------------------------------------------------------------------------
(* papago_check_rate_limit, on thread t for client a                       *)

Idle(t) == client_ip[t] = NoAddress

Returns(t) ==
    /\ client_ip' = [client_ip EXCEPT ![t] = NoAddress]
    /\ now' = [now EXCEPT ![t] = 0]

\* Rate limiting is off: the request goes through.
CheckOff(t, a) ==
    /\ serving /\ Idle(t) /\ requests < MaxRequests
    /\ ~enable_rate_limiting
    /\ requests' = requests + 1
    /\ UNCHANGED <<setup, entries, clock, calls, history>>

\* The address is known and the clock is read.
CheckBegin(t, a) ==
    /\ serving /\ Idle(t) /\ requests < MaxRequests
    /\ enable_rate_limiting
    /\ requests' = requests + 1
    /\ client_ip' = [client_ip EXCEPT ![t] = a]
    /\ now' = [now EXCEPT ![t] = clock]
    /\ UNCHANGED <<setup, entries, clock, history>>

\* Mutant of Expired: the window is one second longer.
ExpiredLate(i, n) == ip[i] # NoAddress /\ n - window_start[i] > rate_limit_window

Expired(i, n) == ip[i] # NoAddress /\ n - window_start[i] >= rate_limit_window

\* Entry i is the client's; entry i is free, or freed by the loop.
Match(i, t) == ip[i] = client_ip[t] /\ ~Expired(i, now[t])
Vacant(i, t) == ip[i] = NoAddress \/ Expired(i, now[t])

\* The loop stops at the client's entry f, having cleared the expired ones
\* before it.
FirstMatch(f, t) == Match(f, t) /\ \A i \in 1 .. (f - 1) : ~Match(i, t)

\* Expired entries below f are cleared and entry f has count n.
Cleared(f, t, n) ==
    /\ ip' = [i \in Slots |-> IF i < f /\ Expired(i, now[t]) THEN NoAddress
                              ELSE ip[i]]
    /\ count' = [i \in Slots |-> IF i = f THEN n
                                 ELSE IF i < f /\ Expired(i, now[t]) THEN 0
                                 ELSE count[i]]

Admit(t) ==
    admitted' = [admitted EXCEPT ![client_ip[t]][now[t]] = @ + 1]

\* Mutant of CheckAdmitted: one request too many passes.
CheckAdmittedOneMore(t) ==
    /\ ~Idle(t)
    /\ \E f \in Slots :
          /\ FirstMatch(f, t)
          /\ count[f] <= rate_limit_requests
          /\ Cleared(f, t, count[f] + 1)
    /\ Admit(t)
    /\ Returns(t)
    /\ UNCHANGED <<setup, window_start, clock, requests, refused, late>>

\* The client's entry is counted up and within the limit.
CheckAdmitted(t) ==
    /\ ~Idle(t)
    /\ \E f \in Slots :
          /\ FirstMatch(f, t)
          /\ count[f] + 1 <= rate_limit_requests
          /\ Cleared(f, t, count[f] + 1)
    /\ Admit(t)
    /\ Returns(t)
    /\ UNCHANGED <<setup, window_start, clock, requests, refused, late>>

\* It is counted up and over the limit: 429 with Retry-After.
CheckRefused(t) ==
    /\ ~Idle(t)
    /\ \E f \in Slots :
          /\ FirstMatch(f, t)
          /\ count[f] + 1 > rate_limit_requests
          /\ Cleared(f, t, count[f] + 1)
    /\ refused' = [refused EXCEPT ![client_ip[t]][now[t]] = @ + 1]
    /\ Returns(t)
    /\ UNCHANGED <<setup, window_start, clock, requests, admitted, late>>

\* Mutant of CheckNew: the search ends at the first free entry.
CheckNewEager(t) ==
    /\ ~Idle(t)
    /\ \E s \in Slots :
          /\ Vacant(s, t)
          /\ \A i \in 1 .. (s - 1) : ~Vacant(i, t) /\ ~Match(i, t)
          /\ ip' = [ip EXCEPT ![s] = client_ip[t]]
          /\ count' = [count EXCEPT ![s] = 1]
          /\ window_start' = [window_start EXCEPT ![s] = now[t]]
    /\ Admit(t)
    /\ Returns(t)
    /\ UNCHANGED <<setup, clock, requests, refused, late>>

\* The client has no entry: the first free one starts a window, and every
\* expired one has been cleared.
CheckNew(t) ==
    /\ ~Idle(t)
    /\ \A i \in Slots : ~Match(i, t)
    /\ \E s \in Slots :
          /\ Vacant(s, t)
          /\ \A i \in 1 .. (s - 1) : ~Vacant(i, t)
          /\ ip' = [i \in Slots |-> IF i = s THEN client_ip[t]
                                    ELSE IF Expired(i, now[t]) THEN NoAddress
                                    ELSE ip[i]]
          /\ count' = [i \in Slots |-> IF i = s THEN 1
                                       ELSE IF Expired(i, now[t]) THEN 0
                                       ELSE count[i]]
          /\ window_start' = [window_start EXCEPT ![s] = now[t]]
    /\ Admit(t)
    /\ Returns(t)
    /\ UNCHANGED <<setup, clock, requests, refused, late>>

\* No entry and none free: the request goes through uncounted.
CheckFull(t) ==
    /\ ~Idle(t)
    /\ \A i \in Slots : ~Match(i, t) /\ ~Vacant(i, t)
    /\ Returns(t)
    /\ UNCHANGED <<setup, entries, clock, requests, history>>

\* A second passes; no thread is held up longer than MaxSkew.
Tick ==
    /\ serving /\ clock < MaxClock
    /\ \A t \in Threads : Idle(t) \/ clock + 1 - now[t] <= MaxSkew
    /\ clock' = clock + 1
    /\ late' = (late \/ \E t \in Threads : ~Idle(t))
    /\ UNCHANGED <<setup, entries, calls, requests, admitted, refused>>

\* The clock and the requests have reached their bounds.
Done ==
    /\ serving /\ clock = MaxClock /\ requests = MaxRequests
    /\ \A t \in Threads : Idle(t)
    /\ UNCHANGED rateVars

Check(t) == CheckAdmitted(t) \/ CheckRefused(t) \/ CheckNew(t) \/ CheckFull(t)

RateNext ==
    \/ Enable \/ EnableNoMemory \/ Serve
    \/ \E t \in Threads, a \in IPs : CheckOff(t, a) \/ CheckBegin(t, a)
    \/ \E t \in Threads : Check(t)
    \/ Tick \/ Done

RateSpec == RateInit /\ [][RateNext]_rateVars

-----------------------------------------------------------------------------
(* Properties                                                              *)

\* However requests of a client interleave with each other and with the
\* clearing of expired entries, it never has two entries, over which its
\* requests would be spread.
OneEntryPerClient ==
    \A i, j \in Slots : (ip[i] # NoAddress /\ ip[i] = ip[j]) => i = j

\* How many requests f counts before the seconds 0, 1, ...
Totals(f) ==
    LET sum[x \in 0 .. MaxClock + 1] ==
            IF x = 0 THEN 0 ELSE sum[x - 1] + f[x - 1]
    IN  sum

\* The second x, or the nearest one the clock can come to.
Within(x) == IF x < 0 THEN 0 ELSE IF x > MaxClock THEN MaxClock + 1 ELSE x

\* Requests of client a counted and let through in the rate_limit_window seconds
\* from s on.
AdmittedIn(a, s) ==
    Totals(admitted[a])[Within(s + rate_limit_window)]
        - Totals(admitted[a])[Within(s)]

\* Counting in fixed windows lets through at most twice the limit in any
\* stretch of rate_limit_window seconds, as long as every check takes the lock
\* in the second it read.  Clients that found the table full are not counted.
AtMostTwice ==
    ~late => \A a \in IPs, s \in 0 .. MaxClock :
                 AdmittedIn(a, s) <= 2 * rate_limit_requests

\* No client is refused that did not use its allowance: under the same
\* condition, it had the full number of requests counted and let through in the
\* window that ends with the refused one.
RefusedOnlyOverLimit ==
    [][~late => \A a \in IPs, s \in 0 .. MaxClock :
          refused'[a][s] > refused[a][s] =>
              AdmittedIn(a, s + 1 - rate_limit_window) >= rate_limit_requests
      ]_rateVars
=============================================================================
