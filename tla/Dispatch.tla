------------------------------ MODULE Dispatch ------------------------------
(***************************************************************************)
(* What mhd_handler does with a request whose body is complete             *)
(* (src/papago.c from 1769 on): client certificate, middleware, route,     *)
(* middleware again, metrics and response; and papago_route and            *)
(* papago_middleware_path_add, which are called before.                    *)
(*                                                                         *)
(* Requests share nothing but the tables, which no longer change, and the  *)
(* metrics, which have a mutex, so one request is enough.  User functions  *)
(* set any status and respond with text, a file, or not at all; one route  *)
(* handler is the library's own, papago_serve_embedded_handler.            *)
(***************************************************************************)
EXTENDS Routing

CONSTANTS
    Methods,            \* the methods routes may have
    Patterns, Paths,
    MiddlewarePaths,    \* paths middleware is registered for; None is global
    EmbeddedPaths,      \* the paths of the table of embedded files
    PAPAGO_MAX_ROUTES, PAPAGO_MAX_MIDDLEWARE,
    RequireClientCert, enable_compression,
    MayFail,            \* which of "memory", "mhd" may fail
    UserStatuses,       \* statuses user functions set
    MaxSetup,           \* bound: setup calls, a route counting for two
    None

Unknown == "UNKNOWN"

ASSUME DispatchAssumption ==
    /\ Unknown \notin Methods
    /\ Patterns \cup Paths \subseteq Seq(STRING) /\ None \notin Paths
    /\ MiddlewarePaths \ {None} \subseteq Seq(STRING) \ {<<>>}
    /\ PAPAGO_MAX_ROUTES \in Nat /\ PAPAGO_MAX_MIDDLEWARE \in Nat
    /\ RequireClientCert \in BOOLEAN /\ enable_compression \in BOOLEAN
    /\ MayFail \subseteq {"memory", "mhd"}
    /\ MaxSetup \in Nat

VARIABLES
    routes, middleware,     \* the server's tables
    pc, j,                  \* where mhd_handler is, and its loop counter
    method, path, body_too_large, params,               \* papago_request_t
    status, allow, body, stream_fd,                     \* papago_response_t
    encoding,               \* Content-Encoding of what is sent
    \* history
    certified,              \* no client certificate is missing
    befores, afters,        \* middleware that has run, in order
    refused,                \* a before() has returned false
    handled,                \* the route whose handler has run, or 0
    counted,                \* statuses given to update_metrics
    failures,               \* what has failed; "overlaid": an embedded file
                            \* was put over an earlier response
    leaked                  \* what nothing points to any more

tables == <<routes, middleware>>
request == <<method, path, body_too_large>>
response == <<status, allow, body, stream_fd, encoding>>
history == <<befores, refused, afters, handled, counted, failures, leaked>>
vars == <<tables, pc, j, request, params, certified, response, history>>

Init ==
    /\ routes = <<>> /\ middleware = <<>>
    /\ pc = "setup" /\ j = 0
    /\ method = None /\ path = None /\ body_too_large = FALSE
    /\ params = <<>> /\ certified = FALSE
    /\ status = 0 /\ allow = {} /\ body = "null" /\ stream_fd = FALSE
    /\ encoding = "identity"
    /\ befores = <<>> /\ refused = FALSE /\ afters = <<>> /\ handled = 0
    /\ counted = <<>> /\ failures = {} /\ leaked = {}

-----------------------------------------------------------------------------
(* Registration                                                            *)

SetupLeft(n) == 2 * Len(routes) + Len(middleware) + n <= MaxSetup

\* papago_route, when it returns 0.
Route(m, p) ==
    /\ SetupLeft(2)
    /\ pc = "setup" /\ Len(routes) < PAPAGO_MAX_ROUTES
    /\ CountRouteParams(p) <= PAPAGO_MAX_ROUTE_PARAMS
    /\ routes' = Append(routes, [method |-> m, path |-> p])
    /\ UNCHANGED <<middleware, pc, j, request, params, certified, response,
                   history>>

\* papago_middleware_add and papago_middleware_path_add, when they return 0.
MiddlewareAdd(p, after) ==
    /\ SetupLeft(1)
    /\ pc = "setup" /\ Len(middleware) < PAPAGO_MAX_MIDDLEWARE
    /\ middleware' = Append(middleware, [path |-> p, after |-> after])
    /\ UNCHANGED <<routes, pc, j, request, params, certified, response,
                   history>>

-----------------------------------------------------------------------------
(* The request                                                             *)

\* A request with its body arrives and gets an empty response.
Arrive(m, p, large) ==
    /\ pc = "setup"
    /\ method' = m /\ path' = p /\ body_too_large' = large
    /\ status' = 200
    /\ pc' = "certificate"
    /\ UNCHANGED <<tables, j, params, certified, allow, body, stream_fd,
                   encoding, history>>

\* The copy of the URL has failed, which nobody looks at: req->path is NULL.
ArriveNoPath(m, large) ==
    /\ pc = "setup" /\ "memory" \in MayFail
    /\ method' = m /\ path' = None /\ body_too_large' = large
    /\ status' = 200
    /\ failures' = {"memory"}
    /\ pc' = "certificate"
    /\ UNCHANGED <<tables, j, params, certified, allow, body, stream_fd, encoding,
                   befores, refused, afters, handled, counted, leaked>>

\* There is no memory for a response: the connection is closed.
ArriveNoMemory(m, p, large) ==
    /\ pc = "setup" /\ "memory" \in MayFail
    /\ method' = m /\ path' = p /\ body_too_large' = large
    /\ pc' = "closed"
    /\ UNCHANGED <<tables, j, params, certified, response, history>>

\* The request has a client certificate if it needs one.
Certified ==
    /\ pc = "certificate"
    /\ certified' = TRUE
    /\ pc' = "before" /\ j' = 1
    /\ UNCHANGED <<tables, request, params, response, history>>

\* What becomes of a text that is copied: without memory there is no copy, but
\* body_length is that of the text.
Copied == {"owned"} \cup (IF "memory" \in MayFail THEN {"unbacked"} ELSE {})

\* papago_res_send frees the body and sets the new one.  On a file response it
\* sets none, so that a body that was there (an embedded file) dangles.
Send(new) ==
    /\ body # "dangling"
    /\ body' = IF ~stream_fd THEN new
               ELSE IF body = "owned" THEN "dangling" ELSE "null"
    /\ UNCHANGED stream_fd

\* papago_res_json with an error and a status of the framework's own.
Answer(s) ==
    /\ status' = s
    /\ \E new \in Copied : Send(new)
    /\ UNCHANGED encoding

\* The certificate cannot be verified or loaded (500) or is missing (403).
NotCertified(s) ==
    /\ pc = "certificate" /\ RequireClientCert
    /\ Answer(s)
    /\ pc' = "metrics"
    /\ UNCHANGED <<tables, j, request, params, certified, allow, befores,
                   refused, afters, handled, counted, failures, leaked>>

\* A user function may set a status and respond: papago_res_send with a text or
\* NULL, papago_res_sendfile, or nothing.  papago_res_sendfile frees the body,
\* closes an earlier descriptor and sets the new one.
UserResponds ==
    /\ status' \in UserStatuses \cup {status}
    /\ UNCHANGED encoding
    /\ \/ UNCHANGED <<body, stream_fd>>
       \/ \E new \in Copied \cup {"null"} : Send(new)
       \/ body # "dangling" /\ body' = "null" /\ stream_fd' = TRUE

\* Undefined behaviour ends the process.
Crash ==
    /\ pc' = "crashed"
    /\ UNCHANGED <<tables, j, request, params, certified, response, history>>

\* A middleware's path, if it has one, begins the request's.
Applies(slot) == slot.path # None => path # None /\ BeginsWith(path, slot.path)

\* Mutant of BeforeRuns: the result of before() is not looked at.
BeforeRunsOn(continue) ==
    /\ pc = "before" /\ j <= Len(middleware) /\ Applies(middleware[j])
    /\ befores' = Append(befores, j)
    /\ refused' = (refused \/ ~continue)
    /\ UserResponds
    /\ j' = j + 1
    /\ UNCHANGED <<tables, pc, request, params, certified, allow, afters,
                   handled, counted, failures, leaked>>

\* before() runs; when it returns false the response is sent as it is.
BeforeRuns(continue) ==
    /\ pc = "before" /\ j <= Len(middleware) /\ Applies(middleware[j])
    /\ befores' = Append(befores, j)
    /\ refused' = ~continue
    /\ UserResponds
    /\ IF continue THEN j' = j + 1 /\ pc' = pc ELSE j' = j /\ pc' = "metrics"
    /\ UNCHANGED <<tables, request, params, certified, allow, afters, handled,
                   counted, failures, leaked>>

BeforeSkips ==
    /\ pc = "before" /\ j <= Len(middleware)
    /\ path # None /\ ~Applies(middleware[j])
    /\ j' = j + 1
    /\ UNCHANGED <<tables, pc, request, params, certified, response, history>>

\* strncmp is given the path of a request that has none.
BeforeFaults ==
    /\ pc = "before" /\ j <= Len(middleware)
    /\ path = None /\ middleware[j].path # None
    /\ Crash

BeforesDone ==
    /\ pc = "before" /\ j > Len(middleware) /\ ~body_too_large
    /\ pc' = "route"
    /\ UNCHANGED <<tables, j, request, params, certified, response, history>>

\* Mutant of TooLarge: the metrics are passed over.
TooLargeUncounted ==
    /\ pc = "before" /\ j > Len(middleware) /\ body_too_large
    /\ Answer(413)
    /\ pc' = "send"
    /\ UNCHANGED <<tables, j, request, params, certified, allow, befores,
                   refused, afters, handled, counted, failures, leaked>>

TooLarge ==
    /\ pc = "before" /\ j > Len(middleware) /\ body_too_large
    /\ Answer(413)
    /\ pc' = "metrics"
    /\ UNCHANGED <<tables, j, request, params, certified, allow, befores,
                   refused, afters, handled, counted, failures, leaked>>

-----------------------------------------------------------------------------
(* Routes                                                                  *)

\* route_matches, which takes no path for one that matches nothing.
Matches(r) == path # None /\ RouteMatches(r.path, path).ok

Candidates == {i \in DOMAIN routes : routes[i].method = method
                                     /\ Matches(routes[i])}

First(S) == CHOOSE i \in S : \A k \in S : i <= k

\* Mutant of Found: captures of the candidates before it stay behind.
FoundWithLeftovers ==
    /\ pc = "route" /\ method # Unknown /\ Candidates # {}
    /\ LET i == First(Candidates)
       IN  /\ handled' = i
           /\ params' = FoldLeft(LAMBDA acc, r :
                                   acc \o MatchRoute(r.path, path).spans,
                                 <<>>, SubSeq(routes, 1, i))
    /\ UserResponds
    /\ pc' = "after" /\ j' = Len(middleware)
    /\ UNCHANGED <<tables, request, certified, allow, befores, refused,
                   afters, counted, failures, leaked>>

\* The first route of the method that matches: its captures become the
\* request's parameters and its handler runs.
Found ==
    /\ pc = "route" /\ method # Unknown /\ Candidates # {}
    /\ LET i == First(Candidates)
       IN  /\ handled' = i
           /\ params' = RouteMatches(routes[i].path, path).spans
    /\ UserResponds
    /\ pc' = "after" /\ j' = Len(middleware)
    /\ UNCHANGED <<tables, request, certified, allow, befores, refused,
                   afters, counted, failures, leaked>>

\* There is an entry for the path, "/" standing for "/index.html".
IsEmbedded ==
    (IF path = <<"">> THEN <<"index.html">> ELSE path) \in EmbeddedPaths

\* What nobody will free, once a body is written over.
Body == IF body = "owned" THEN {"body"} ELSE {}

\* papago_serve_embedded_handler: a copy of the file becomes the body, over
\* whatever the response already is; the status stays, and so does all else when
\* there is no memory.  A NULL table is one without entries.
EmbeddedResponds ==
    \/ /\ IsEmbedded
       /\ body' = "owned" /\ leaked' = leaked \cup Body
       /\ failures' = IF stream_fd \/ Body # {}
                        THEN failures \cup {"overlaid"} ELSE failures
       /\ UNCHANGED <<status, stream_fd, encoding>>
    \/ /\ IsEmbedded /\ "memory" \in MayFail
       /\ UNCHANGED <<status, body, stream_fd, encoding, failures, leaked>>
    \/ /\ ~IsEmbedded
       /\ Answer(404)
       /\ UNCHANGED <<failures, leaked>>

\* Found, where the handler is papago_serve_embedded_handler.
FoundEmbedded ==
    /\ pc = "route" /\ method # Unknown /\ Candidates # {}
    /\ LET i == First(Candidates)
       IN  /\ handled' = i
           /\ params' = RouteMatches(routes[i].path, path).spans
    /\ EmbeddedResponds
    /\ pc' = "after" /\ j' = Len(middleware)
    /\ UNCHANGED <<tables, request, certified, allow, befores, refused,
                   afters, counted>>

\* commit_params fails: no parameter is kept and the handler does not run.
FoundNoMemory ==
    /\ pc = "route" /\ method # Unknown /\ Candidates # {}
    /\ "memory" \in MayFail
    /\ RouteMatches(routes[First(Candidates)].path, path).spans # <<>>
    /\ failures' = failures \cup {"memory"}
    /\ Answer(500)
    /\ pc' = "after" /\ j' = Len(middleware)
    /\ UNCHANGED <<tables, request, params, certified, allow, befores, refused,
                   afters, handled, counted, leaked>>

\* The methods other than the request's under which the path exists.
Allowed == {routes[i].method : i \in {k \in DOMAIN routes :
                routes[k].method # method /\ Matches(routes[k])}}

\* 405 with the Allow header, or 404.
NotFound ==
    /\ pc = "route" /\ (method = Unknown \/ Candidates = {})
    /\ Answer(IF Allowed # {} \/ method = Unknown THEN 405 ELSE 404)
    /\ allow' = Allowed
    /\ pc' = "after" /\ j' = Len(middleware)
    /\ UNCHANGED <<tables, request, params, certified, befores, refused, afters,
                   handled, counted, failures, leaked>>

-----------------------------------------------------------------------------
(* Afterwards                                                              *)

\* after() functions run from the last middleware to the first.
AfterRuns ==
    /\ pc = "after" /\ j >= 1
    /\ middleware[j].after /\ Applies(middleware[j])
    /\ afters' = Append(afters, j)
    /\ UserResponds
    /\ j' = j - 1
    /\ UNCHANGED <<tables, pc, request, params, certified, allow, befores,
                   refused, handled, counted, failures, leaked>>

\* after() responds, which frees a body that was freed before.
AfterFaults ==
    /\ pc = "after" /\ j >= 1
    /\ middleware[j].after /\ Applies(middleware[j])
    /\ body = "dangling"
    /\ Crash

AfterSkips ==
    /\ pc = "after" /\ j >= 1
    /\ ~(middleware[j].after /\ Applies(middleware[j]))
    /\ j' = j - 1
    /\ UNCHANGED <<tables, pc, request, params, certified, response, history>>

\* Mutant of AftersDone: the first middleware's after() is left out.
AftersDoneEarly ==
    /\ pc = "after" /\ j <= 1
    /\ pc' = "metrics"
    /\ UNCHANGED <<tables, j, request, params, certified, response, history>>

AftersDone ==
    /\ pc = "after" /\ j = 0
    /\ pc' = "metrics"
    /\ UNCHANGED <<tables, j, request, params, certified, response, history>>

\* send_response: update_metrics, which returns at once when there is no path.
UpdateMetrics ==
    /\ pc = "metrics"
    /\ counted' = IF path = None THEN counted ELSE Append(counted, status)
    /\ pc' = "send"
    /\ UNCHANGED <<tables, j, request, params, certified, response, befores,
                   refused, afters, handled, failures, leaked>>

\* The response is gone, with what nobody has freed.
Sent(lost) ==
    /\ leaked' = leaked \cup lost
    /\ stream_fd' = FALSE /\ body' = "null"
    /\ pc' = "done"
    /\ UNCHANGED <<tables, j, request, params, certified, status, allow, befores,
                   refused, afters, handled, counted>>

\* A file response: MHD owns the descriptor; a body is not freed.
SendFile ==
    /\ pc = "send" /\ stream_fd
    /\ Sent(Body)
    /\ UNCHANGED <<encoding, failures>>

\* MHD has copied the body and everything is freed.  A body that is not there
\* is copied from "", over body_length bytes: whatever they are is sent, or
\* there are none to be read.
SendBody ==
    /\ pc = "send" /\ ~stream_fd
    /\ Sent({})
    /\ UNCHANGED <<encoding, failures>>

SendFaults ==
    /\ pc = "send" /\ ~stream_fd /\ body = "unbacked"
    /\ Crash

\* The client takes gzip and compress_gzip made the body smaller: MHD owns what
\* it made.  When it fails or does not help, the body is sent as in SendBody.
SendCompressed ==
    /\ pc = "send" /\ ~stream_fd /\ enable_compression /\ body = "owned"
    /\ encoding' = "gzip"
    /\ Sent({})
    /\ UNCHANGED failures

\* MHD makes no response: on a file the descriptor and the response are
\* freed, otherwise the response and its body, compressed or not, are not.
SendFails ==
    /\ pc = "send" /\ "mhd" \in MayFail
    /\ failures' = failures \cup {"mhd"}
    /\ Sent(Body \cup (IF stream_fd THEN {} ELSE {"response"}))
    /\ UNCHANGED encoding

Done == pc \in {"done", "closed", "crashed"} /\ UNCHANGED vars

Setup ==
    \/ \E m \in Methods, p \in Patterns : Route(m, p)
    \/ \E p \in MiddlewarePaths, after \in BOOLEAN : MiddlewareAdd(p, after)

Arrives ==
    \E m \in Methods \cup {Unknown}, large \in BOOLEAN :
        \/ \E p \in Paths : Arrive(m, p, large) \/ ArriveNoMemory(m, p, large)
        \/ ArriveNoPath(m, large)

Next ==
    \/ Setup \/ Arrives
    \/ Certified \/ \E s \in {500, 403} : NotCertified(s)
    \/ \E continue \in BOOLEAN : BeforeRuns(continue)
    \/ BeforeSkips \/ BeforeFaults \/ BeforesDone \/ TooLarge
    \/ Found \/ FoundEmbedded \/ FoundNoMemory \/ NotFound
    \/ AfterRuns \/ AfterFaults \/ AfterSkips \/ AftersDone
    \/ UpdateMetrics
    \/ SendFile \/ SendBody \/ SendFaults \/ SendCompressed \/ SendFails
    \/ Done

Spec == Init /\ [][Next]_vars

-----------------------------------------------------------------------------
(* Properties                                                              *)

\* The handler that runs is that of the first route registered for the method
\* whose pattern stands for the path, and it sees the captures of its own
\* pattern, all of them and in order, whatever candidates were tried before;
\* when none runs there is no such route or memory ran out.
RightHandler ==
    LET meant == {i \in DOMAIN routes : routes[i].method = method
                                        /\ Means(routes[i].path, path)}
    IN  IF handled # 0
          THEN /\ handled \in meant /\ \A k \in meant : handled <= k
               /\ params = Captures(routes[handled].path, path)
          ELSE /\ params = <<>>
               /\ (pc = "after" /\ "memory" \notin failures)
                     => method = Unknown \/ meant = {}

\* A path nobody has is 404 and a path that exists under other methods is 405
\* with exactly those in Allow; an unknown method is always 405.
RightRefusal ==
    LET having == {i \in DOMAIN routes : Means(routes[i].path, path)}
    IN  (/\ pc = "after" /\ j = Len(middleware) /\ afters = <<>>
         /\ handled = 0 /\ "memory" \notin failures)
          => /\ allow = {routes[i].method : i \in having}
             /\ status = IF having # {} \/ method = Unknown THEN 405 ELSE 404

\* Every answer of the framework is the right one: the two above together.
RightAnswer == RightHandler /\ RightRefusal

Increasing(s) == \A x, y \in DOMAIN s : x < y => s[x] < s[y]
Decreasing(s) == \A x, y \in DOMAIN s : x < y => s[x] > s[y]

\* The request was turned away before the routes were looked at.
TurnedAway == ~certified \/ refused \/ body_too_large

\* after() functions mirror before() functions: for a request that came as far
\* as the routes, whether one took it or not, they run once each for the same
\* middleware in the opposite order; for one turned away before that none runs.
AftersMirrorBefores ==
    pc = "send" =>
        IF TurnedAway THEN afters = <<>>
        ELSE /\ Range(afters) = {i \in Range(befores) : middleware[i].after}
             /\ Increasing(befores) /\ Decreasing(afters)

\* The request's path is the middleware's or lies below it, segment by segment,
\* as "/api" covers "/api/users" and not "/apis".
Covers(slot) ==
    slot.path # None =>
        LET n == Len(slot.path)
        IN  /\ n <= Len(path)
            /\ \A i \in 1 .. n : \/ slot.path[i] = path[i]
                                 \/ i = n /\ slot.path[i] = ""

\* A handler runs only after every middleware whose path covers the request's
\* has agreed, each asked once and in the order of registration, none whose path
\* the request's does not even begin with, and only for a request that was
\* certified and whose body was accepted.  Whether middleware for "/a" is asked
\* about "/ab" is left open: mhd_handler compares characters and asks it.
GuardedHandler ==
    handled # 0 =>
        /\ ~TurnedAway
        /\ {i \in DOMAIN middleware : Covers(middleware[i])} \subseteq Range(befores)
        /\ Range(befores) \subseteq {i \in DOMAIN middleware : Applies(middleware[i])}
        /\ Increasing(befores)

\* Every request that comes to be answered is counted once, with the status that
\* is sent, unless the copy of its URL had failed.  Nothing of the response is
\* leaked, however middleware, handler and framework respond over each other,
\* unless MHD makes no response of it or an embedded file was put over an earlier
\* one.  And mhd_handler runs into undefined behaviour only after one of these:
\* the copy of the URL or of the body failed, or a file was put over.
CountedAndFreed ==
    /\ pc \in {"send", "done"} =>
          counted = IF path = None THEN <<>> ELSE <<status>>
    /\ failures \cap {"mhd", "overlaid"} = {} =>
          leaked = {} /\ (pc = "done" => body = "null" /\ ~stream_fd)
    /\ pc = "crashed" =>
          path = None \/ body = "unbacked" \/ "overlaid" \in failures
=============================================================================
