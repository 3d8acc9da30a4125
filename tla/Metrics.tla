------------------------------ MODULE Metrics ------------------------------
(***************************************************************************)
(* The server's metrics (src/papago.c): update_metrics, which every        *)
(* response goes through, and papago_metrics_handler, which prints them.   *)
(* Both work under metrics->mutex and are one step each.                   *)
(*                                                                         *)
(* A URL is a value; Shortened is what is left of one in path[128], and    *)
(* EntryLen the length of the two lines printed for a path.  Statuses are  *)
(* modelled by their hundreds.  The page is modelled by how much of it     *)
(* fits, which is what its early returns depend on.                        *)
(***************************************************************************)
EXTENDS Integers, SequencesExt, FiniteSetsExt

CONSTANTS
    Urls, Shortened,         \* Shortened \in [Urls -> Urls]
    MetricMethods,           \* methods counted by name; others are "other"
    Served,                  \* requests: url, method, status and ms, where
                             \* status is 1 to 5, or 0 for any other status
    ULONG_MAX,               \* no request takes longer
    MAX_ENDPOINTS,           \* 64
    METRICS_BUF_SIZE,        \* 16384
    PAGE_MARGIN,             \* 256
    HeadLen,                 \* length of the page before the endpoints
    EntryLen,                \* EntryLen \in [Urls -> Nat]
    MaxUpdates               \* bound: requests counted

ASSUME MetricsAssumption ==
    /\ Shortened \in [Urls -> Urls]
    /\ \A u \in Urls : Shortened[Shortened[u]] = Shortened[u]
    /\ \A r \in Served : r.url \in Urls /\ r.status \in 0 .. 5 /\ r.ms \in Nat
    /\ ULONG_MAX \in Nat /\ \A r \in Served : r.ms <= ULONG_MAX
    /\ MAX_ENDPOINTS \in Nat
    /\ METRICS_BUF_SIZE \in Nat /\ PAGE_MARGIN \in Nat \ {0}
    /\ HeadLen \in 0 .. (METRICS_BUF_SIZE - PAGE_MARGIN)
    /\ EntryLen \in [Urls -> Nat \ {0}]
    /\ MaxUpdates \in Nat

VARIABLES
    total_requests, requests_by_method, requests_by_status,
    errors_4xx, errors_5xx,
    total_duration_ms, min_duration_ms, max_duration_ms,
    endpoints,               \* records of path, count, total_ms
    page,                    \* the last page: its status and how many entries
    seen                     \* history: the requests counted, in order

counters == <<total_requests, requests_by_method, requests_by_status,
              errors_4xx, errors_5xx,
              total_duration_ms, min_duration_ms, max_duration_ms, endpoints>>
metricsVars == <<counters, page, seen>>

NoPage == [status |-> 0, entries |-> 0]

\* min_duration_ms starts as the largest value there is.
MetricsInit ==
    /\ total_requests = 0
    /\ requests_by_method = [m \in MetricMethods \cup {"other"} |-> 0]
    /\ requests_by_status = [s \in 0 .. 5 |-> 0]
    /\ errors_4xx = 0 /\ errors_5xx = 0
    /\ total_duration_ms = 0
    /\ min_duration_ms = ULONG_MAX /\ max_duration_ms = 0
    /\ endpoints = <<>>
    /\ page = NoPage
    /\ seen = <<>>

-----------------------------------------------------------------------------

\* Entries are compared with the whole URL, and made of the shortened one.
Listed(url) == {i \in DOMAIN endpoints : endpoints[i].path = url}

\* Mutant of EndpointsAfter: a new endpoint's first request is not counted.
EndpointsAfterFromZero(url, ms) ==
    IF Listed(url) # {}
      THEN [endpoints EXCEPT ![Min(Listed(url))].count = @ + 1,
                             ![Min(Listed(url))].total_ms = @ + ms]
      ELSE IF Len(endpoints) < MAX_ENDPOINTS
      THEN Append(endpoints, [path |-> Shortened[url], count |-> 0,
                              total_ms |-> ms])
      ELSE endpoints

EndpointsAfter(url, ms) ==
    IF Listed(url) # {}
      THEN [endpoints EXCEPT ![Min(Listed(url))].count = @ + 1,
                             ![Min(Listed(url))].total_ms = @ + ms]
      ELSE IF Len(endpoints) < MAX_ENDPOINTS
      THEN Append(endpoints, [path |-> Shortened[url], count |-> 1,
                              total_ms |-> ms])
      ELSE endpoints

\* The counter of a method: its own, or the one for all others.
MethodOf(r) == IF r.method \in MetricMethods THEN r.method ELSE "other"

MetricsUpdate(r) ==
    /\ Len(seen) < MaxUpdates
    /\ total_requests' = total_requests + 1
    /\ requests_by_method' =
          [requests_by_method EXCEPT ![MethodOf(r)] = @ + 1]
    /\ requests_by_status' = [requests_by_status EXCEPT ![r.status] = @ + 1]
    /\ errors_4xx' = errors_4xx + (IF r.status = 4 THEN 1 ELSE 0)
    /\ errors_5xx' = errors_5xx + (IF r.status = 5 THEN 1 ELSE 0)
    /\ total_duration_ms' = total_duration_ms + r.ms
    /\ min_duration_ms' = Min({min_duration_ms, r.ms})
    /\ max_duration_ms' = Max({max_duration_ms, r.ms})
    /\ endpoints' = EndpointsAfter(r.url, r.ms)
    /\ seen' = Append(seen, r)
    /\ UNCHANGED page

\* The sum of a sequence of numbers.
Total(s) ==
    LET sum[i \in 0 .. Len(s)] == IF i = 0 THEN 0 ELSE sum[i - 1] + s[i]
    IN  sum[Len(s)]

\* Length of the page once n endpoints are printed.
PageLen(n) == HeadLen + Total([i \in 1 .. n |-> EntryLen[endpoints[i].path]])

\* Mutant of PageEntries: the loop may fill the margin.
PageEntriesNoMargin ==
    Min({n \in 0 .. Len(endpoints) :
            n = Len(endpoints) \/ PageLen(n) >= METRICS_BUF_SIZE})

\* The loop over the endpoints ends after the last one, or as soon as there is
\* less than the margin left.
PageEntries ==
    Min({n \in 0 .. Len(endpoints) :
            \/ n = Len(endpoints)
            \/ PageLen(n) >= METRICS_BUF_SIZE - PAGE_MARGIN})

\* papago_metrics_handler, registered with the server.  An entry that does not
\* fit ends it with status 500 and no page.
MetricsPage ==
    /\ page' = IF PageLen(PageEntries) >= METRICS_BUF_SIZE
                 THEN [status |-> 500, entries |-> 0]
                 ELSE [status |-> 200, entries |-> PageEntries]
    /\ UNCHANGED <<counters, seen>>

\* Registered with NULL, it says that metrics are unavailable.
MetricsPageNoServer ==
    /\ page' = [status |-> 500, entries |-> 0]
    /\ UNCHANGED <<counters, seen>>

MetricsNext ==
    \/ \E r \in Served : MetricsUpdate(r)
    \/ MetricsPage \/ MetricsPageNoServer

MetricsSpec == MetricsInit /\ [][MetricsNext]_metricsVars

-----------------------------------------------------------------------------
(* Properties                                                              *)

\* Reference: how many of the requests are for a URL, and the time they took.
AskedFor(url) == Cardinality({i \in DOMAIN seen : seen[i].url = url})
TimeOf(url) ==
    Total([i \in DOMAIN seen |-> IF seen[i].url = url THEN seen[i].ms ELSE 0])

\* The counters that are kept side by side tell the same story: each method and
\* each status class has its own requests, the error counters are the classes'
\* own, and the shortest and longest times enclose all.
CountersAgree ==
    /\ total_requests = Len(seen)
    /\ \A m \in MetricMethods \cup {"other"} :
          requests_by_method[m] =
              Cardinality({i \in DOMAIN seen : MethodOf(seen[i]) = m})
    /\ \A s \in 0 .. 5 :
          requests_by_status[s] =
              Cardinality({i \in DOMAIN seen : seen[i].status = s})
    /\ errors_4xx = requests_by_status[4] /\ errors_5xx = requests_by_status[5]
    /\ \A i \in DOMAIN seen : seen[i].ms \in min_duration_ms .. max_duration_ms

\* The requests in the table of endpoints are requests, and all of them as long
\* as the table has room.  As long as no URL was shortened either, every URL
\* has one entry, with its own requests and time.
EndpointsAgree ==
    /\ LET listed == Total([i \in DOMAIN endpoints |-> endpoints[i].count])
       IN  /\ listed <= Len(seen)
           /\ Len(endpoints) < MAX_ENDPOINTS => listed = Len(seen)
    /\ (\A i \in DOMAIN seen : Shortened[seen[i].url] = seen[i].url) =>
          \A i \in DOMAIN endpoints :
              /\ Listed(endpoints[i].path) = {i}
              /\ endpoints[i].count = AskedFor(endpoints[i].path)
              /\ endpoints[i].total_ms = TimeOf(endpoints[i].path)

\* What /metrics says agrees with the requests and with itself.
MetricsAgree == CountersAgree /\ EndpointsAgree

\* The page shows every endpoint that leaves the margin free behind it, and as
\* long as no entry is longer than the margin it is never refused.
PageWhole ==
    [][MetricsPage =>
         /\ page'.status = 500 =>
               \E i \in DOMAIN endpoints :
                   EntryLen[endpoints[i].path] > PAGE_MARGIN
         /\ (page'.status = 200 /\ page'.entries < Len(endpoints)) =>
               PageLen(page'.entries) \in
                   (METRICS_BUF_SIZE - PAGE_MARGIN) .. (METRICS_BUF_SIZE - 1)
      ]_metricsVars
=============================================================================
