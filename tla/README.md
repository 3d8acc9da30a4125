# TLA+ models of libpapago

libpapago is a C web framework: an HTTP server over libmicrohttpd, a WebSocket
server over libwebsockets (lws), and an HTTP and a WebSocket client. This
directory holds TLA+ models of its stateful parts, TLC configurations that check
them on small instances, and TLAPS proofs of the main results for all instances.

## Inventory

| Component | State | Operations | Hard because |
|---|---|---|---|
| WebSocket server (`papago.c` 2059-2440, 3085-3250) | `ws_connections`, per-connection queue, `send_mutex`, `inflight`; lws's POLLOUT and buffering | lws callbacks ESTABLISHED, SERVER_WRITEABLE, RECEIVE, CLOSED; `papago_ws_send`, `_send_binary`, `_broadcast`, `_close` | any thread sends while the event loop opens and closes connections |
| Request body and multipart (1346-1550, 1618-1767) | the `request_t` of one request: body buffer, field being assembled, uploads, temp files | MHD's repeated handler calls, `multipart_iterator`, `request_completed` | data arrives in arbitrary pieces; limits and failures between them |
| Server lifecycle (2484-2852) | `running`, `mhd_daemon`, `lws_context`, `lws_thread`, mutexes | `papago_new/start/stop/destroy` | stop comes from another thread or a signal handler; partial failures of start |
| Rate limiting (3548-3664) | table of (ip, count, window start) | `papago_enable_rate_limit`, `papago_check_rate_limit` | concurrent requests, a full table, clock sampled before the lock |
| Routing and middleware (446-627, 1552-1616, 1868-1951, 2856-2921) | route and middleware tables, path parameters | `match_route`, dispatch, `papago_route`, `papago_middleware_add` | 404 against 405, parameters of rejected candidates, short circuits |
| Metrics (992-1236) | counters, 64 endpoint slots | `update_metrics`, `papago_metrics_handler` | truncated keys, full table, a page of fixed size |
| WebSocket client (`papago_wsc.c`) | `wsi`, queue, `running`, `lws_ctx` | connect, run, stop, send, destroy, callback | sends race with the close callback; stop before run |
| HTTP client (`papago_client.c`) | reference count of the global curl state; response body and header list of a send | new, destroy, set_ca, send with its callbacks, response_free | process-wide count; transfers fail half way; redirects |
| Response and sendfile (853-990, 1955-2057) | `papago_response_t` | send, json, sendfile, stream | ownership of body and fd on error paths |
| Templates and memory streams (3321-3546, 3803-3958) | one `template_ctx` per server, a growing stream per call | render_file, render_template, res_render | threads share the context; growth at the buffer's end |
| Static and embedded files (908-990, 2922-3083) | none of their own | the two handlers | the file system changes between the questions |
| CORS (3666-3801) | configuration | `papago_cors_mw` | browser, cache and configuration must agree |
| URL codec, forms, paths, MIME, gzip (570, 1240-1344, 3250-3319, 3962-) | none | conversions | boundaries |

Components interact through the server structure. MHD threads run
`mhd_handler`, which fills the request, runs middleware (rate limit and CORS are
middleware), finds the route and sends. The lws thread runs `lws_callback`.
User handlers on MHD threads may call the WebSocket API, which is where
the two halves meet: `ws_mutex` protects the connection table, and each
connection's `send_mutex` its queue. `papago_start` creates both halves and
waits; `papago_stop` wakes it; `papago_destroy` tears both down.

## WebSocket server: `WsServer`, `WsChannel`

State. Each field of `papago_ws_connection_t` that the control depends on is a
function on `Conns` with the field's name; `endpoint` stands for the three
pointers ESTABLISHED sets together; `phase` is lws's view of the connection's
memory. `ws_connections` is the table with its count, `ws_mutex` its holder.
`pollout` and `partial` are lws's pending WRITEABLE request and buffered
remainder. `lws_pc`, `lws_conn`, `lws_msg` say which callback the event loop is
in; `op`, `pc`, `conn`, `msg`, `idx` are the registers of the API call each thread
is in. `accepted` and `wire` record what was queued and what `lws_write` took.

Steps. A step is what one thread does between two points where another thread can
notice. `send_mutex` is a leaf lock, so push, pop, has_more and drain are single
steps. `ws_mutex` is held over several steps by broadcast only; acquire, release,
registration and removal are single steps that need it free. CLOSED is four
steps (remove, drain, destroy, then on_close and free). User callbacks run on the
event loop and may make any API call. `papago_ws_close` is a call that records a close
reason in lws and changes nothing else: the connection stays open, listed and served.
on_close does not use the handle it is given for a send: `send_mutex` is destroyed by
then (2393).

`conn->closing` is read in two places and assigned nowhere, so it is the constant
false and `drain_cond` is never used; the model leaves both out.

Undefined behaviour. Locking a destroyed mutex and reading a freed connection
are recorded in `fault`, after which the model stops: properties speak
of everything up to there. Destroying a never-created, zeroed mutex is
harmless in practice and does not stop the model.

Application. An application thread in `DirectSenders` uses a handle from the time
on_connect gets it until on_close is called, the most careful use the API allows.
Other application threads only broadcast.

Abstract specification. `WsChannel` is a bounded FIFO channel per connection:
absent, open, closing, gone; accept while open or closing; deliver in order while
open. `WsServer!ChannelSpec` is its specification under the mapping `Status`.

Fairness. Weak for every call and callback step (threads are scheduled, user
callbacks return); strong for writing and flushing per connection, since
`lws_service` polls every descriptor on each turn and peers are assumed to read.

### Runs

| Run | Instance | Shows |
|---|---|---|
| `ws_direct` | 2 connections, 1 direct sender, table of 1, queue of 2 messages or 3 bytes, lengths 1 and 2, 3 calls | `QueueCounted`, `BytesCounted`, `NoLostWakeup`, refinement of `WsChannel`, which includes the order of messages |
| `ws_loop` | 2 connections, 1 broadcasting thread, handles used by callbacks, table of 2, queue of 1, 2 calls, fairness | `RegistrySafe`, `NoFault`, `NoLeak`, `Delivery`, `NobodyStuck` (calls return, closes complete) |
| `ws_close_race` | 1 connection, 1 direct sender | violated `NoFault`: a send races with CLOSED |

Bounds. Two connections let one be listed while the other opens, closes or finds
the table full. Two lengths against three bytes reach the byte limit before the
message limit and the other way round. Three calls fill a queue and leave one
to be refused, or put two senders on one connection with a broadcast; in `ws_loop`
two calls put a callback and a broadcast on one connection. `MaxCalls`
bounds the calls of a behaviour; nothing else is bounded.
Connections are not reused after they are freed: lws hands out zeroed memory for a
new connection, so a reuse is another element of `Conns`.

### Proofs

`WsServerProofs` proves `TableInv` inductive: types, the registers of a call in
progress (`CallShape`), how far the event loop's connection has come (`LwsShape`),
that `ws_mutex` is held exactly inside the broadcast loop (`LockHeld`), that listed
connections are live, absent ones empty and buffered ones polled (`Lived`), and
`RegistrySafe`. RegistrySafe alone is not inductive: that Register never
lists a connection twice needs "listed connections are live" with "a connection
about to be registered is not", and that ClosedDestroy spares listed
connections needs "the connection CLOSED is at is no longer open". From it:
`TypeCorrect`, `RegistryIsSafe`, `QueueIsCounted`. `BytesAreCounted` adds that the
byte counter is the sum of the queued lengths and within its limit; `Bytes` is a
recursive function, and what it does to a queue that loses its first or gains a last
message is shown by induction over the length.

`WsDeliveryProofs` proves `WakeupIsNeverLost` (NoLostWakeup is inductive over
`TableInv`) and `LoopOnlyIsSafe`: with `DirectSenders = {}`, a call that touches a
connection is on the event loop inside a callback, where every handle is
usable, or holds `ws_mutex` over a listed connection. `NothingLeaks` rests on the same
and on `Drained`: from CLOSED's drain on the queue stays empty.

`InOrderAndOnce` and `ImplementsChannel` are about the history variables. What an open
connection accepted is what is on the wire, then the message in the event loop's hands,
then the queue (`Fifo`); a connection with messages, or that a call reaches for, has been
registered (`Lively`); and what was accepted and not written stays within the message
counter and the message in hand also while a connection closes (`Owed`), where `Fifo`
says less: that keeps the channel within its capacity. Under the mapping `Status`,
WriteTaken is Deliver; Push is Accept; Register, Disconnect, WriteFailed and
ClosedDestroy are Become; every other step leaves the channel as it is.
Only model-checked: liveness (`Delivery`, `NobodyStuck`).

## Request body: `Upload`

State. The fields of `papago_request_t` and `multipart_field_t` that carry the
body: `body`, `body_length`, `body_too_large`, the open field (`key`, `is_file`,
`value`, `value_len`, `tmp_path`), the finished `form` and `files`, and the file
system's temporary files. A body is a sequence of events: one call of
`multipart_iterator` each for a multipart body, one byte each otherwise; a buffer
is a sequence of tokens, so that a byte that was never written (`Junk`) shows.
An event is the unit of length.

Steps. First call, chunk, each iterator call, end of body, `request_completed`, and
every point where an allocation, `mkstemp` or a write can fail, or `MHD_post_process`
finds that the body is not multipart (`Malformed`). MHD serves a
connection on one thread: nothing interleaves, but where the body is cut, what
fails and when the client leaves is open. Libmicrohttpd is taken to call the
iterator part after part, with offset 0 exactly once for every part and with the same
name and file name throughout it (`Iterates`); texts with a NUL in them, which a C
string cannot carry, are left out.

`upload` serves every multipart body of up to 3 parts and raw bodies of up to 8
bytes against a limit of 5, with one failure: temporary files are exactly those
the request owns and none survives it (`TempFilesOwned`), files get the bytes of
their part, in the order sent, and no complete field is missing from the form
(`PartsDelivered`), raw bodies arrive whole or are refused exactly when above the
limit, and no more than the limit is held (`BodyLimited`). "Exactly" is for well-formed
bodies on which nothing fails: a malformed one is refused as too large at any length,
and counts as a failure here. Three parts are file, text,
file in every order; the limit falls
inside a part and between two. `upload_file_then_text` violates `FormExact`: a text field
after a file starts at the file's length in its buffer.

`UploadProofs` proves `NoTempFileLost`, `LimitIsKept` and `PartsAreDelivered` for every
body, limit and number of failures.
`TempFilesOwned` is inductive with the types and `FieldShape` (a path is held only by
an open file field, and never one that is also in `files`); without it, a path
might be dropped when a field is closed, or owned twice.
`BodyLimited` looks at the end of a request, except for what is held. `LimitInv` follows
the count: nothing is left of an earlier request (`StartsEmpty`), a request that is
ready has been read to its end (`AllArrived`), a body is refused exactly if more than the
limit has arrived and is otherwise what has arrived (`Counting`), and the files of a
multipart body hold no more than the events dealt with (`Metered`). An event
carries at most one unit of data (`Piece`), as its length in the model says.
`PartsDelivered` is the work of all events of a body. `PartsInv` says, after each of
them, which parts have been delivered (`Delivered`: those that begin before the one
under assembly), and what the open field has of its part (`Assembled`): its name, all
its bytes so far in the file, or in the buffer with a terminator behind them if that was
empty when the part began. `Stage` says which of this holds where the thread is: between
the commit of a part and the opening of the next there is no open field (`Settled`). A
function `g` names the event at which the part behind each upload and each entry
begins. As it is one to one and in order (falling for `files`, which is newest first,
rising for `form`), it gives the counts and the places by which `FilesExact` compares
the answer of `papago_req_files`. The invariant was checked with TLC over the bodies of
`upload` before it was proved.

## Server lifecycle: `Lifecycle`

State. `running`, `shutdown_mutex`, the two server objects as pointers that may
dangle, the position of the main thread in `papago_start` and `papago_destroy`, of
the event-loop thread, and of each caller of `papago_stop`. A signal handler is a
caller on top of the main thread, which takes no step meanwhile.

Fairness. Weak for each thread's steps; strong for a stopper's lock, since the
main thread releases the mutex whenever it sleeps; the application calls
`papago_destroy` in the end. Nobody has to stop.

In `life` two handlers, the event loop and an application thread stop the server
while any part of start may fail and start may be retried: `TornDownSafely` (the
library's own threads never use what is freed, and nothing runs any more when the
server is freed), `StopWakesStart`, `StopHonoured`,
`StopReturns`, `DestroyCompletes`. `life_signal` violates `StopReturns`: a stop in a
signal handler waits for the mutex of the thread it interrupted.

papago_start does not look whether `pthread_create` succeeded: in `LwsNoThread` the server
goes on with a context nobody serves.

An undefined access (`fault` names the thread) ends a behaviour; the application
thread and the main thread after a failed start or a missing event loop
(`DestroyMhdFaults`, `DestroyLwsFaults`) do reach one, see the last section.
`TornDownSafely` does not count these two threads: it is about the library's own. A stop counts for
`StopHonoured` from the moment papago_start has set `running`.

Three stops and two starts: two stoppers at once and one late, one failed start
and its retry.

`LifecycleProofs` proves `DestroyIsSafe` (TornDownSafely) and `StopNeverMissed`
(StopWakesStart) for any number of handlers, stoppers and starts. The first needs
`LifeInv`: who holds `shutdown_mutex` (`MutexHeld`), that handlers run only under a daemon
and callbacks only under a context (`HandlersInside`, `CallbackInside`), and which
objects exist in each phase of the main thread (`Phased`). The second needs
`AwakeToSleep`: between its test of `running` and its sleep the main thread holds the
mutex, so `running` stays true, and a stop comes before the test or after the sleep.

## Rate limiting: `RateLimit`

State. The entries, the clock, and for each thread in `papago_check_rate_limit` the
address and the clock value it carries: the clock is read before the lock. The
loop under the lock is one step; `Cleared` is what it does to expired entries.
`MaxSkew` bounds the delay between the two.

In `upload` (2 threads, 3 clients, 2 entries, limit 2, window 2, delays up to 1):
`OneEntryPerClient`; at most twice the limit in a window (`AtMostTwice`, what fixed
windows give) and nobody refused below it (`RefusedOnlyOverLimit`), both over the
requests that are counted, as long as no check has outlived the second it read
(`late`). A clock of 4 holds two windows and the stretch across them; 7 requests
exceed twice the limit for one client while others take and lose entries. A client
that finds the table full is let through uncounted (`CheckFull`).

`RateLimitProofs` proves `ClientHasOneEntry` for all numbers and any delay, and for
checks that do not outlive their second `TwiceAtMost` and `RefusedWhenUsedUp`. What was
let through in a stretch of time is a sum over its seconds (`AdmittedIn`), split and
bounded by induction. `RateInv` says where an entry stands in the history: its `Window`
has counted what was let through since it began, up to the limit, a stretch that ends
before it saw at most the limit, and nothing comes behind its end; a client without an
entry may start one, having had at most the limit in any stretch that reaches the
present, and nothing in this second (`Fresh`). A stretch of the window's length meets
at most two windows, hence "twice". `TwiceAtMost` assumes a limit of at least 1: see the
last section for 0.

## WebSocket client: `WsClient`

State. `lws_ctx`, `wsi`, the queue and `running`; every `papago_wsc_connect` makes a
context and a connection, numbered. `owner` is the thread that connects, runs and
destroys; senders and stoppers are other threads. `connected` is written and never
read, and is left out.

Steps. As for the server, a step ends where another thread can notice. `SendCheck`,
`SendPush`, `SendRead` and `SendWake` are the four accesses of `wsc_enqueue` to shared
state; a callback clears `wsi`, then the user runs, then `running` is cleared and lws
frees the connection. Destroy is one step: nobody may use the client any more.
lws keeps a WRITEABLE request made while it is still connecting. papago_wsc_run may be
called again after the connection has closed; it then waits until it is stopped
(`RunIdles`).

Fairness. Weak for threads and user callbacks; strong for the end of `lws_service`,
for WRITEABLE, and for the end of a connection attempt, which other callbacks may
precede any number of times.

| Run | Instance | Shows |
|---|---|---|
| `wsc_send` | 2 senders, 1 stopper, 2 connects, 3 messages, every failure | `Fifo`, `NoLostWakeup` (first connection), `WsiIsLive` |
| `wsc_loop` | 2 stoppers, 1 connect, sends from callbacks only, every failure, fairness | `NoFaultUnlessRefused`, `NoContextLeft`, `RunEnds`, `Delivery` |
| `wsc_send_race` | 1 sender, 1 message | violated `NoFault`: a send that outlives the connection |

Three messages let one be written while another is queued and a third pushed.
`WsClientProofs` proves `WsiNeverDangles` (with `ClearedFirst` and `HasContext`) and
`StopIsSafe`: `NoFaultUnlessRefused` for one connection, any number of stoppers, no
other senders; its invariant says that a context a stopper has seen is alive until
the stopper is done, unless papago_wsc_connect has given it up. That is the one
exception: when `lws_client_connect_via_info` refuses at once, the context is destroyed
(`papago_wsc.c:325`) before `lws_ctx` is cleared (326), and a papago_wsc_stop in between
hands it to lws. `SimpleUseIsSafe` is `NoFault` for connections that are not refused so. `ContextIsDestroyed` (NoContextLeft) is for one connect,
`MaxConnects <= 1`: the second one leaks, see the last section. `QueuedIsAskedFor`
(NoLostWakeup, which speaks of the first connection) rests on `AskInv`: the handles the
owner and the senders hold are of connections made so far, and nothing was queued
before the first was up. `SentInOrder` (Fifo) holds without conditions; `OrderInv` adds
that a message about to be queued is a new one.

## Routes, middleware, response: `Routing`, `Dispatch`

`Routing` has the pure part. A path is the sequence of what follows each slash, so
that "/a", "/a/" and "//a" differ; a segment is a value, and what its characters
matter for is in the constants (begins with ':', contains '*', is the beginning of
another). `MatchRoute` is the loop of `match_route`; `Means` and `Captures` say without
a loop what a pattern stands for and what it captures.

`Dispatch` takes one request through `mhd_handler` from the client certificate to
the response. Requests share only the tables, which no longer change, and the
metrics, which have a mutex. User functions set a status and respond with text, a
file or not at all; a route's handler may be the library's own for embedded files
(`FoundEmbedded`). `body` and `stream_fd` are owned resources; `leaked` records what is
lost. Two copies fail without anybody looking. Without the URL (1658) the request goes
on with no path: it matches no route, is not counted (998), and crashes at the
first middleware that has a path (1872). Without the body (885) the response keeps the
length of a text it does not have ("unbacked"), and MHD is told to copy that many bytes
from "" (2026). An embedded file becomes the body of whatever response there is: the
earlier body leaks, and on a file response the next `papago_res_send` frees the new one
and keeps the pointer ("dangling", 876-883).

`dispatch` registers every two of 11 patterns (static with and without a trailing
slash, parameters, '*' last, in the middle and inside a segment, too many
parameters) under two methods, or one of them with up to two middlewares (global or
for a path, with or without after()), and asks for 8 paths, with client certificates,
too large bodies, compression and failing allocations: `RightAnswer` (handler,
captures, 404, 405, Allow), `AftersMirrorBefores`, `GuardedHandler`, `CountedAndFreed`.
`GuardedHandler` asks for the middleware whose path covers the request segment by
segment; that "/a" is also asked about "/ab", which the code does and the documents
deny, it neither requires nor forbids. `CountedAndFreed` names its exceptions: no URL,
no response from MHD, an embedded file over an earlier response.
`MaxSetup` is the bound that makes this "or". Pairs of routes are enough for "first
wins" and for captures of a failed candidate; matching looks at one route at a time.

`RequestProofs` proves `HandlerIsGuarded`, `AftersMirror` and `ResponseIsSettled` for tables
of any size. `FlowInv` says how far the loop over the middleware has come: the before()
functions of the slots passed that apply have been asked, in order (`Asked`), the
after() functions of the slots behind have been called, in the opposite order (`Told`),
and nobody past the loop was turned away (`Passed`). `Accounts` follows what a
response owns and what has gone wrong with it.

`AnswerIsRight` (RightAnswer) is for patterns and paths of any length. By induction over
the turns of the loop (`Turn`), up to the first '*' it has either failed at a segment
that does not fit or collected one span for every parameter passed, in order; a '*'
ends it (`LoopInFixedPart`, `LoopStays`). So `MatchRoute` agrees with `Means` and
`Captures` (`MatchRouteExact`), and since `papago_route` counts the parameters,
none of the captures of a registered pattern is dropped (`CapturesCounted`).
`AnswerInv` carries that from the search to the end of the request.

## Runs of several subjects

`dispatch` and `upload` each check several modules that share no state. A
variable `subject`, chosen at the start, says which of them moves, so that their state
spaces add up and do not multiply. Nothing is lost by it: a property of one module
looks at the variables of that module only.

| Run | Subjects |
|---|---|
| `dispatch` | `Dispatch`, `Cors`, `StaticFiles`, `Templates`, `Metrics` |
| `upload` | `Upload`, `Conversions`, `RateLimit`, `HttpClient` |

Symmetry is used in `upload` (addresses and threads of the rate limiter), `ws_direct`
(connections and application threads) and `wsc_send` (senders), all without liveness
properties.

## Metrics: `Metrics`

The counters have their names from `papago_metrics_t`; `endpoints` is the table of 64.
`update_metrics` and `papago_metrics_handler` work under one mutex and are one step
each. A URL is a value, `Shortened` what `path[128]` keeps of it, `EntryLen` how long
its two lines on the page are, `HeadLen` how long what comes before them: that is all
the early returns of the page depend on. A status is modelled by its hundreds.

`MetricsAgree`: methods, status classes, error counters and endpoints tell the same
story, and every URL has one entry with its own requests and time, as long as none
was shortened and there was room. `PageWhole`: the page ends early only when the margin
is reached, and is refused only for an entry longer than the margin. Five requests
for five URLs on three slots: a full table, the same URL again, a shortened one that
shows up twice, and one that meets the entry of another.

`RequestProofs` proves both, `MetricsDoAgree` and `PageIsWhole`, for tables, pages and
numbers of requests of any size. `AgreeInv` adds to `MetricsAgree` that
while the table has room every URL asked for is listed (`AllListed`): without it a new entry could start at 1 for
a URL that was asked for before. Sums (`Total`) are handled by induction. The page
needs a margin of at least one byte: a head as long as the buffer is refused
whatever the entries.

## Static files: `StaticFiles`

A path is a sequence of names; the file system is a function from paths to directories,
files, links and other nodes, and another process replaces nodes between any two of
the handler's five questions (root, stat, index.html, realpath, open). The comparison
with the root is by character, as in the code: `NameBegins` has the pairs of names of
which one begins with the other.

`StaticContained`: only regular files are sent; outside the directory only when
something changed after `realpath`; and when nothing changes, exactly the files in the
directory are sent. 14 paths (plain, "..", links inside and outside, a directory with
and without an index, a pipe, a neighbour "www2" of "www", names too long) under four
directories, with two changes out of seven: one before and one after `realpath`.

`RequestProofs` proves it, `StaticIsContained`, for all file systems, directories, paths and
changes. The walk of `realpath` is a recursive function over the names of a path. By
induction its result is canonical, a path on which no name is empty, ".." or a link
(`ResolveResolved`); resolving a canonical path leads back to it (`ResolveCanonical`),
and a path can be resolved up to a point and then on from there (`ResolveAppend`).
Comparing characters and the slash behind them is comparing names (`InsideIs`). `StaticInv`
says what the handler has established at each question: while it is about to open, the
path was compared, and is still canonical unless something changed (`Compared`); and
with no change at all it is on the way to the file meant (`OnTheWay`). The
assumption is that the root of the file system stays a directory.

## CORS: `Cors`

The middleware is a function from configuration, origin and method to headers. Around
it stand, external, the browser with the checks of the Fetch standard, and a shared
cache that honours Vary. `CorsAgrees`: a page reads an answer exactly if the
configuration entitles it. 60 combinations of list, credentials, fields and
methods; three origins, one on no list, fetch after fetch without a bound.

`CorsIsExact` in `RequestProofs` proves it for every configuration and set of origins.
What the headers mean to the browser is worked out per origin, credential and
preflight; `CorsInv` then says whose answer is looked at: the cache's entry is what the
middleware once answered to somebody (`CacheFaithful`), a request that needs a preflight
and goes on has passed one (`PreflightPassed`), and the answer before the browser is
one of the two (`AnswerFaithful`). It assumes that "*" is no origin and that a
configuration has the fields of `papago_cors_config_t`.

## Templates and memory streams: `Templates`

A call sets its variables in the shared `template_ctx` and renders under
`template_mutex`, then flushes and copies on its own. Text is a sequence of tokens; the
engine (external) replaces variables. stdio hands the text to `ms_write` in pieces of
any size. Unwritten memory is `Junk`.

`RenderExact`: a call that sets all variables of its template, with room in a cleared
buffer, gets its own text, whatever other threads render. `StreamSound`: text and
terminator lie inside the memory and hold only what was written; streams are closed.
Two threads and three calls, a first capacity of 2 against texts of 1 to 3 tokens, so
that a text ends before, at and behind the capacity.

`RequestProofs` proves `TextIsTheCallersOwn` (RenderExact) and `StreamsAreSound` for any
number of threads, texts, capacities and ways to cut the text. `RenderInv`: only the
holder of the mutex has its values in the context (`Exclusive`), a stream's memory is
what its position and size say (`Memory`), its bytes followed by the stdio buffer are
the call's own text (`Text`), and what was copied is that text (`Exact`). `StreamsInv`
gives every stream the number of its call, so that closing takes the right one away.

## Conversions: `Conversions`

The URL codec, the form parser, `collapse_slashes` and the search for an extension are
functions on sequences of bytes, `sscanf` with "%2x" included. `ConversionsExact`
compares them with definitions that have no loop, and requires that decoding undoes
encoding and that a form arrives as it was sent. Every text of up to 4 characters out
of 11 (space, '%', '&', '+', '-', '.', '/', '2', '=', 'a', and a byte above 127): an
escape, complete or not, in every position. The prefix "0x", which `%2x` skips, is left
out of the alphabet.

## HTTP client: `HttpClient`

`refs` and `curl_ready` are the count and libcurl's global state. A send is cut
where something may fail or libcurl calls back; `heap` is what it has allocated. A
client is destroyed only while nobody sends with it, and its CA names change only
while no send reads them: the code has no lock for the rest. A reply is a sequence of
status lines, headers and pieces of
body, ended at any point by a failure.

`CurlCounted`: libcurl is initialised exactly while a client is counted. `SendSettled`: a
success leaves the whole body and the last value of each header, a failure nothing,
and nothing else stays allocated. In `upload` two threads make three calls on two
clients, with two replies: a redirect whose header comes again and a body that grows
its buffer, and two headers without a body. Three calls are two clients and a send
while the other client is destroyed, or two sends with one client; destroying,
configuring and freeing are not counted. `http_method` violates `MethodSent`.

`HttpClientProofs` proves both for any number of threads, clients, calls and replies.
`CurlIsCounted` needs who may use which client: the thread in papago_client_new is
alone with its client (`OwnsNew`), one that sends has a live one (`SendsWithLive`), CA names
belong to live clients (`NamesOfLive`), and the counted clients are finitely many
(`Finite`). `SendIsSettled` needs, while a send runs, that the body has room for its
terminator (`Roomy`), that exactly what is recorded is allocated (`Owned`), and that body
and headers are those of the reply so far (`Faithful`). `Grown` is the doubling loop
of `write_cb`; that it ends above the need is shown by induction, as is what a piece
of body or a header adds.

## Not modelled

- Error texts, configuration defaults and the WebSocket endpoint table: assignments
  before anything runs.
- Request headers and query arguments of the server: copies of what MHD hands over.
  The HTTP client's request header list (`papago_header_append`), its TLS flag and its
  time limits: they only become libcurl options.
- The table of MIME types, deflate itself, and the texts of headers and pages.
- `ms_read`, which nothing calls, and `ms_seek` with other offsets than 0.
- Examples and tests: their calls are inputs of the models.

## What is proved and what is only model-checked

The proofs hold for every value of the constants that satisfies the ASSUME of its
module; TLC evaluates each of these on its instance. An assumption only says what kind
of value a constant is (a set of records with such fields, a number), what the
program's own constants guarantee (a margin, a buffer, a limit not zero), or that marks
such as "no memory" are not among the data. Hypotheses of a theorem itself
(`DirectSenders = {}`, no other senders, `MaxConnects <= 1`, `"connect" \notin MayFail`, a
limit of at least 1) are
the conditions under which the code keeps its promise; the violations of `ws_close_race` and
`wsc_send_race` and the last section show what happens without them.

Induction over data. The induction theorems of the library take an operator as a
parameter, which the provers cannot instantiate. The proofs use induction for a set
(`NatSetInduction`: a set with 0 that is closed under successors has all of Nat), which
follows from the least element of a set of numbers. What a recursive function
computes is then shown in three steps: there is a function that satisfies its
equation, there is no other, and it has the value wanted. Properties that used
folds or selections are written with such functions or with sets for this reason.

Only model-checked:

- Liveness, under the fairness given with each component: `Delivery`, `NobodyStuck`,
  `StopHonoured`, `StopReturns`, `DestroyCompletes`, `RunEnds`. Fairness and ENABLED are
  outside the prover.
- `ConversionsExact`. It compares loops over a text with definitions that have none, and
  is written with folds and selections (`FoldLeft`, `SelectSeq`), of which the provers
  know nothing.

## Where code and documents differ, without a run of its own

Found while modelling; the model follows the code and the properties are stated so
that they leave these cases out, or name them as exceptions.

- CLOSED destroys `send_mutex` of a connection ESTABLISHED refused (`papago.c:2393`);
  the comment at 2309 says it skips primitives never created.
- `papago_ws_close` records a close reason and closes nothing (3222; `papago.h:530`
  "Close websocket connection.").
- A connection that finds the table full is live and never listed, so
  `papago_ws_broadcast` misses it (2294; `papago.h:523` "to all websocket clients").
- A `papago_stop` before papago_start sets `running` (2573), or a `papago_wsc_stop`
  before papago_wsc_run does (`papago_wsc.c:341`), is lost.
- `papago_stop` on an application thread uses the server after it has woken
  papago_start (2782), by when papago_destroy may have freed it (`StopFaults`).
- After `lws_create_context` fails the stopped daemon's pointer is kept (2743) and
  papago_destroy stops it again (`DestroyMhdFaults`).
- `pthread_create` for the event loop is not checked (2751); without the thread
  WebSockets are not served and papago_destroy joins a thread that never was (2809,
  `DestroyLwsFaults`).
- A `papago_wsc_stop` while `papago_wsc_connect` gives up a connection refused at once
  hands lws a context already destroyed (`papago_wsc.c:325`, 363; `papago_wsc.h:157`
  "Safe to call from any thread.").
- The copies of the URL (1658) and of the body (885) are not checked. Without the first a
  request is answered and not counted, or crashes in `strncmp` (1872); without the
  second MHD reads behind the end of "" (2026).
- With the rate-limit table full, further clients are not limited (3649); checks
  delayed over the end of a window start windows in the past (3602), and more than
  twice the limit can pass.
- A limit of 0, which `papago_enable_rate_limit` does not refuse (3549), lets one
  request per window through: a client without an entry is let through and counted as
  1, whatever the limit (3650).
- `papago_wsc_connect` called again leaks the first context (`papago_wsc.c:303`),
  although 180 says the caller can reconnect; the queue it inherits waits until the
  next send.
- Middleware for "/api" also runs for "/apix" (1871; `src/README.md:207` and
  `papago.3:260` "runs only on /api/* routes"). `GuardedHandler` leaves it open.
- `papago_serve_embedded_handler` assigns `res->body` over an earlier one and on file
  responses (2971), where 881 says there should be none: the body leaks, or is freed by
  each later `papago_res_send`, which does not clear the pointer (876-883).
- A malformed multipart body is answered 413 (1710), whatever its length.
- `src/README.md:293` registers `papago_metrics_handler` with NULL, for which it answers
  500 "metrics unavailable" (1096).
- `min_duration_ms` starts as ULONG_MAX (2550) and the page looks for UINT_MAX (1135):
  before the first request it prints the largest number instead of 0.
- The metrics page has status 500 and no body when an entry longer than the margin of
  256 does not fit (1221); the two lines of a path of 127 characters are longer.
- In `papago_http_send`, CONNECT and TRACE go out as GET (`papago_client.c:329`); with
  invalid arguments `res` is left as it was (285), though the caller may free it.
- `papago_header_append` on an empty list returns NULL and adds nothing, and the list
  itself when it fails (`papago_client.c:437`).
- `papago_client_set_ca_file` frees a name a send on another thread may be reading
  (`papago_client.c:223`; `papago_client.h:80` "internally thread safe").
- The rendering calls check `output_size` for zero only: the text is copied whatever
  its length, and without its terminator (3850, 3902, 3948). When the engine fails the
  stream is not closed (3843). Variables of one call stay set for the next (3831).
- `ms_write` returns 1 when it fails (3402), a number of bytes to stdio; nobody looks
  whether text is missing.
- A `static_dir` of "/" refuses every file (3073).
- An answer to an origin that is not listed carries no Vary (3732), so that a shared
  cache may keep it from pages that are listed. `config.enable_cors` (3687) is never
  read.
- `papago_url_decode` takes "%+2", "% 2" and "%2g" for escapes, as `sscanf` does (3304).

## Plan

Done: what several threads touch (`WsServer` with `WsChannel`, `WsClient`, `Lifecycle`,
`RateLimit`, `Templates`, `HttpClient`), what one request goes through (`Upload`,
`Routing`, `Dispatch`, `StaticFiles`, `Cors`, `Metrics`), conversions (`Conversions`).

Every safety property of a passing run has a theorem but the one named above. Left, in
this order:

1. `ConversionsExact`, once its loops are recursive functions.
2. `WsClient` against `WsChannel` as the same abstract channel.

Each run asks its questions of few components and their number is kept small; new
components replace a weaker run or join one as a subject.
