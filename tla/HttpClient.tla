----------------------------- MODULE HttpClient -----------------------------
(***************************************************************************)
(* The HTTP client (src/papago_client.c) over libcurl: the process-wide    *)
(* reference count, clients that threads share, and papago_http_send with  *)
(* the callbacks libcurl makes on the sending thread.                      *)
(*                                                                         *)
(* ref_inc and ref_dec are single steps under ref_count_mu.  Everything    *)
(* else of a send belongs to its thread; it is cut where a call may fail   *)
(* or libcurl calls back, so that the count moves in between.  A client is *)
(* destroyed only while nobody sends with it, and its CA names, for which  *)
(* the code has no lock, change only while no send reads them.  libcurl,   *)
(* marked external, delivers a reply as a sequence of events: status lines *)
(* and lines without a colon, headers, and pieces of the last response's   *)
(* body; each may be followed by a failure of the transfer.                *)
(***************************************************************************)
EXTENDS Integers, SequencesExt, FiniteSetsExt

CONSTANTS
    HttpThreads,
    HttpClients,         \* handles papago_client_new returns
    Method,              \* papago_method_t, by name
    RequestMethods,      \* the methods the application asks for
    HeaderKeys,
    Replies,             \* sequences of events libcurl may deliver
    BODY_CAP,            \* the first capacity of a body: 8192
    MaxCalls             \* bound: calls of papago_client_new and _send

NoClient == "no client"
NoMethod == "none"

\* What replies are made of: status and other lines, headers, pieces of body.
HttpEvents == UNION {Range(r) : r \in Replies}

ASSUME HttpAssumption ==
    /\ NoClient \notin HttpClients /\ NoMethod \notin Method
    /\ {"GET", "POST", "PUT", "PATCH", "DELETE", "HEAD", "OPTIONS"}
          \subseteq Method
    /\ RequestMethods \subseteq Method
    /\ BODY_CAP \in Nat \ {0} /\ MaxCalls \in Nat
    /\ Replies \subseteq Seq(HttpEvents)
    /\ \A e \in HttpEvents : e.kind = "data" => e.bytes \in Seq(0 .. 255)

VARIABLES
    refs, curl_ready,            \* the count, and libcurl's global state
    clients,                     \* "none", "counted", "live"
    ca_cert_file,                \* the client owns the name of a CA file
    \* papago_http_send on a thread
    at, using, method, wire_method, reply,
    body_buf, cap, headers,      \* req_body_t and res->headers
    rc,                          \* what the last send returned
    heap,                        \* what the send has allocated
    \* bounds and history
    http_calls, received, dropped

clientVars == <<refs, curl_ready, clients, ca_cert_file>>
requestVars == <<using, method, wire_method>>
outcomeVars == <<body_buf, cap, headers, rc, heap>>
httpVars == <<clientVars, at, requestVars, reply, outcomeVars, http_calls,
              received, dropped>>

HttpInit ==
    /\ refs = 0 /\ curl_ready = FALSE
    /\ clients = [c \in HttpClients |-> "none"]
    /\ ca_cert_file = [c \in HttpClients |-> FALSE]
    /\ at = [t \in HttpThreads |-> "idle"]
    /\ using = [t \in HttpThreads |-> NoClient]
    /\ method = [t \in HttpThreads |-> NoMethod]
    /\ wire_method = [t \in HttpThreads |-> NoMethod]
    /\ reply = [t \in HttpThreads |-> <<>>]
    /\ body_buf = [t \in HttpThreads |-> <<>>]
    /\ cap = [t \in HttpThreads |-> 0]
    /\ headers = [t \in HttpThreads |-> <<>>]
    /\ rc = [t \in HttpThreads |-> 0]
    /\ heap = [t \in HttpThreads |-> {}]
    /\ http_calls = 0
    /\ received = [t \in HttpThreads |-> <<>>]
    /\ dropped = [t \in HttpThreads |-> FALSE]

Goes(t, there) == at' = [at EXCEPT ![t] = there]
Counts == http_calls < MaxCalls /\ http_calls' = http_calls + 1

-----------------------------------------------------------------------------
(* Clients                                                                 *)

RefDec ==
    /\ refs' = refs - 1
    /\ curl_ready' = (curl_ready /\ refs # 1)

\* ref_inc: the first client initialises libcurl.
NewRef(t, c) ==
    /\ at[t] = "idle" /\ clients[c] = "none" /\ Counts
    /\ refs' = refs + 1 /\ curl_ready' = TRUE
    /\ clients' = [clients EXCEPT ![c] = "counted"]
    /\ using' = [using EXCEPT ![t] = c]
    /\ Goes(t, "new")
    /\ UNCHANGED <<ca_cert_file, method, wire_method, reply, outcomeVars, received, dropped>>

\* curl_global_init fails and papago_client_new returns NULL.
NewFails(t) ==
    /\ at[t] = "idle" /\ refs = 0 /\ Counts
    /\ UNCHANGED <<clientVars, at, requestVars, reply, outcomeVars, received,
                   dropped>>

NewAlloc(t) ==
    /\ at[t] = "new"
    /\ clients' = [clients EXCEPT ![using[t]] = "live"]
    /\ using' = [using EXCEPT ![t] = NoClient]
    /\ Goes(t, "idle")
    /\ UNCHANGED <<refs, curl_ready, ca_cert_file, method, wire_method, reply,
                   outcomeVars, http_calls, received,
                   dropped>>

\* Mutant of NewNoMemory: the reference is kept.
NewNoMemoryKeepsRef(t) ==
    /\ at[t] = "new"
    /\ clients' = [clients EXCEPT ![using[t]] = "none"]
    /\ using' = [using EXCEPT ![t] = NoClient]
    /\ Goes(t, "idle")
    /\ UNCHANGED <<refs, curl_ready, ca_cert_file, method, wire_method, reply,
                   outcomeVars, http_calls, received,
                   dropped>>

\* calloc fails: the reference is given back.
NewNoMemory(t) ==
    /\ at[t] = "new"
    /\ RefDec
    /\ clients' = [clients EXCEPT ![using[t]] = "none"]
    /\ using' = [using EXCEPT ![t] = NoClient]
    /\ Goes(t, "idle")
    /\ UNCHANGED <<ca_cert_file, method, wire_method, reply, outcomeVars, http_calls, received, dropped>>

Quiet(c) == clients[c] = "live" /\ \A t \in HttpThreads : using[t] # c

\* papago_client_set_ca_file with a name, with NULL, or without memory for the
\* copy: the old name is gone in each case.  papago_client_set_ca_path is alike.
\* A send reads the name when it prepares; libcurl copies it.
SetCaFile(c, set) ==
    /\ clients[c] = "live"
    /\ \A t \in HttpThreads : ~(using[t] = c /\ at[t] = "prepare")
    /\ ca_cert_file' = [ca_cert_file EXCEPT ![c] = set]
    /\ UNCHANGED <<refs, curl_ready, clients, at, requestVars, reply, outcomeVars,
                   http_calls, received, dropped>>

DestroyClient(c) ==
    /\ Quiet(c)
    /\ RefDec
    /\ clients' = [clients EXCEPT ![c] = "none"]
    /\ ca_cert_file' = [ca_cert_file EXCEPT ![c] = FALSE]
    /\ UNCHANGED <<at, requestVars, reply, outcomeVars, http_calls, received,
                   dropped>>

-----------------------------------------------------------------------------
(* papago_http_send on thread t                                            *)

\* The response is cleared and curl_easy_init gives a handle.
SendBegin(t, c, m) ==
    /\ at[t] = "idle" /\ clients[c] = "live" /\ heap[t] = {} /\ Counts
    /\ using' = [using EXCEPT ![t] = c]
    /\ method' = [method EXCEPT ![t] = m]
    /\ heap' = [heap EXCEPT ![t] = {"easy"}]
    /\ body_buf' = [body_buf EXCEPT ![t] = <<>>]
    /\ cap' = [cap EXCEPT ![t] = 0]
    /\ headers' = [headers EXCEPT ![t] = <<>>]
    /\ Goes(t, "prepare")
    /\ UNCHANGED <<clientVars, wire_method, reply, rc, received, dropped>>

SendNoHandle(t, c) ==
    /\ at[t] = "idle" /\ clients[c] = "live" /\ heap[t] = {} /\ Counts
    /\ rc' = [rc EXCEPT ![t] = 1]
    /\ body_buf' = [body_buf EXCEPT ![t] = <<>>]
    /\ headers' = [headers EXCEPT ![t] = <<>>]
    /\ UNCHANGED <<clientVars, at, requestVars, reply, cap, heap, received,
                   dropped>>

\* papago_req_method reads the method through a papago_request_t, at an offset
\* just past the end of the papago_http_request_t it is given: any name comes
\* back.  Only GET and POST are set without it; what is left goes out as GET.
WireMethods(m) ==
    CASE m \in {"PUT", "PATCH", "DELETE", "HEAD", "OPTIONS"} -> Method
      [] m = "POST" -> {"POST"}
      [] OTHER -> {"GET"}

\* The options are set, with a curl_slist if the request has a content type
\* or headers, and libcurl begins the transfer.
SendPrepare(t, m, r, lines) ==
    /\ at[t] = "prepare"
    /\ m \in WireMethods(method[t])
    /\ wire_method' = [wire_method EXCEPT ![t] = m]
    /\ heap' = [heap EXCEPT ![t] = @ \cup (IF lines THEN {"slist"} ELSE {})]
    /\ reply' = [reply EXCEPT ![t] = r]
    /\ received' = [received EXCEPT ![t] = <<>>]
    /\ dropped' = [dropped EXCEPT ![t] = FALSE]
    /\ Goes(t, "transfer")
    /\ UNCHANGED <<clientVars, using, method, body_buf, cap, headers, rc,
                   http_calls>>

Next1(t) == Head(reply[t])
Coming(t, kind) ==
    at[t] = "transfer" /\ reply[t] # <<>> /\ Next1(t).kind = kind
Received(t) ==
    /\ reply' = [reply EXCEPT ![t] = Tail(@)]
    /\ received' = [received EXCEPT ![t] = Append(@, Next1(t))]

\* Mutant of HeaderCb: the list is kept in the order received.
HeaderCbAppends(t) ==
    /\ Coming(t, "header") /\ Received(t)
    /\ headers' = [headers EXCEPT ![t] = Append(@, Next1(t))]
    /\ heap' = [heap EXCEPT ![t] = @ \cup {"headers"}]
    /\ UNCHANGED <<clientVars, at, requestVars, body_buf, cap, rc, http_calls,
                   dropped>>

\* header_cb puts a header in front of the list.
HeaderCb(t) ==
    /\ Coming(t, "header") /\ Received(t)
    /\ headers' = [headers EXCEPT ![t] = <<Next1(t)>> \o @]
    /\ heap' = [heap EXCEPT ![t] = @ \cup {"headers"}]
    /\ UNCHANGED <<clientVars, at, requestVars, body_buf, cap, rc, http_calls,
                   dropped>>

\* It has no memory and drops the header without a word.
HeaderCbNoMemory(t) ==
    /\ Coming(t, "header") /\ Received(t)
    /\ dropped' = [dropped EXCEPT ![t] = TRUE]
    /\ UNCHANGED <<clientVars, at, requestVars, outcomeVars, http_calls>>

\* A status line, a blank line, or one without a colon is passed over.
HeaderCbSkips(t) ==
    /\ Coming(t, "line") /\ Received(t)
    /\ UNCHANGED <<clientVars, at, requestVars, outcomeVars, http_calls, dropped>>

\* The capacity write_cb grows to: doubled until the piece and its end fit.
\* A round that is not needed changes nothing, and need rounds are enough.
Grown(old, need) ==
    LET nc[i \in 0 .. need] ==
            IF i = 0 THEN (IF old = 0 THEN BODY_CAP ELSE 2 * old)
            ELSE IF nc[i - 1] < need THEN 2 * nc[i - 1] ELSE nc[i - 1]
    IN  nc[need]

\* write_cb copies a piece behind the others.
WriteCb(t) ==
    /\ Coming(t, "data") /\ Received(t)
    /\ LET need == Len(body_buf[t]) + Len(Next1(t).bytes) + 1
       IN  cap' = [cap EXCEPT ![t] = IF need > @ THEN Grown(@, need) ELSE @]
    /\ body_buf' = [body_buf EXCEPT ![t] = @ \o Next1(t).bytes]
    /\ heap' = [heap EXCEPT ![t] = @ \cup {"body"}]
    /\ UNCHANGED <<clientVars, at, requestVars, headers, rc, http_calls, dropped>>

\* realloc fails, or the transfer does, at any point of it.
PerformFails(t) ==
    /\ at[t] = "transfer"
    /\ Goes(t, "failed")
    /\ UNCHANGED <<clientVars, requestVars, reply, outcomeVars, http_calls,
                   received, dropped>>

Finished(t, code) ==
    /\ rc' = [rc EXCEPT ![t] = code]
    /\ using' = [using EXCEPT ![t] = NoClient]
    /\ method' = [method EXCEPT ![t] = NoMethod]
    /\ wire_method' = [wire_method EXCEPT ![t] = NoMethod]
    /\ reply' = [reply EXCEPT ![t] = <<>>]
    /\ Goes(t, "idle")
    /\ UNCHANGED <<clientVars, http_calls, received, dropped>>

SendFailed(t) ==
    /\ at[t] = "failed"
    /\ heap' = [heap EXCEPT ![t] = @ \ {"body", "headers", "slist", "easy"}]
    /\ headers' = [headers EXCEPT ![t] = <<>>]
    /\ body_buf' = [body_buf EXCEPT ![t] = <<>>]
    /\ cap' = [cap EXCEPT ![t] = 0]
    /\ Finished(t, 1)

\* The response gets the body; the handle and the list are freed.
SendReturns(t) ==
    /\ at[t] = "transfer" /\ reply[t] = <<>>
    /\ heap' = [heap EXCEPT ![t] = @ \ {"slist", "easy"}]
    /\ Finished(t, 0)
    /\ UNCHANGED <<body_buf, cap, headers>>

\* papago_http_response_free.
ResponseFree(t) ==
    /\ at[t] = "idle" /\ heap[t] # {}
    /\ heap' = [heap EXCEPT ![t] = @ \ {"body", "headers"}]
    /\ body_buf' = [body_buf EXCEPT ![t] = <<>>]
    /\ cap' = [cap EXCEPT ![t] = 0]
    /\ headers' = [headers EXCEPT ![t] = <<>>]
    /\ received' = [received EXCEPT ![t] = <<>>]
    /\ UNCHANGED <<clientVars, at, requestVars, reply, rc, http_calls, dropped>>

HttpSend(t) ==
    \/ \E c \in HttpClients, m \in RequestMethods : SendBegin(t, c, m)
    \/ \E c \in HttpClients : SendNoHandle(t, c)
    \/ \E m \in Method, r \in Replies, lines \in BOOLEAN :
           SendPrepare(t, m, r, lines)
    \/ HeaderCb(t) \/ HeaderCbNoMemory(t) \/ HeaderCbSkips(t) \/ WriteCb(t)
    \/ PerformFails(t) \/ SendFailed(t) \/ SendReturns(t)
    \/ ResponseFree(t)

\* The calls have reached their bound.
HttpDone == http_calls = MaxCalls /\ UNCHANGED httpVars

HttpNext ==
    \/ HttpDone
    \/ \E t \in HttpThreads :
          \/ (\E c \in HttpClients : NewRef(t, c))
          \/ NewFails(t) \/ NewAlloc(t) \/ NewNoMemory(t)
          \/ HttpSend(t)
    \/ \E c \in HttpClients : DestroyClient(c) \/ \E set \in BOOLEAN : SetCaFile(c, set)

HttpSpec == HttpInit /\ [][HttpNext]_httpVars

-----------------------------------------------------------------------------
(* Properties                                                              *)

Counted == {c \in HttpClients : clients[c] # "none"}

\* However threads make, use and destroy clients, and whatever of it fails,
\* libcurl's global state is there exactly while a client is counted, and so
\* under every transfer; a destroyed client leaves nothing behind.
CurlCounted ==
    /\ refs = Cardinality(Counted)
    /\ curl_ready <=> refs > 0
    /\ \A t \in HttpThreads : using[t] # NoClient => clients[using[t]] # "none"
    /\ \A c \in HttpClients : ca_cert_file[c] => c \in Counted

\* papago_header_get: the value of the first entry of the list with the key,
\* as a set that is empty for NULL.
HeaderGet(list, k) ==
    {list[i].value : i \in {j \in DOMAIN list :
        list[j].key = k /\ \A h \in DOMAIN list : h < j => list[h].key # k}}

\* Reference: the last value received for the key, likewise.
OfKey(e, k) == e.kind = "header" /\ e.key = k
LastReceived(evs, k) ==
    {evs[i].value : i \in {j \in DOMAIN evs :
        OfKey(evs[j], k) /\ \A h \in DOMAIN evs : j < h => ~OfKey(evs[h], k)}}

\* Reference: the body received.
Bytes(e) == IF e.kind = "data" THEN e.bytes ELSE <<>>
BodyReceived(evs) ==
    LET body[i \in 0 .. Len(evs)] ==
            IF i = 0 THEN <<>> ELSE body[i - 1] \o Bytes(evs[i])
    IN  body[Len(evs)]

\* A send that succeeds leaves the whole body, ended inside its buffer, and for
\* every header the last value received for it, which after redirects is the
\* last response's if it has the header; one that fails leaves nothing.  In both
\* cases nothing is allocated but what papago_http_response_free will free.
SendSettled ==
    \A t \in HttpThreads :
        /\ body_buf[t] # <<>> => Len(body_buf[t]) < cap[t]
        /\ (at[t] = "idle" /\ rc[t] = 0 /\ ~dropped[t]) =>
              /\ body_buf[t] = BodyReceived(received[t])
              /\ \A k \in HeaderKeys :
                    HeaderGet(headers[t], k) = LastReceived(received[t], k)
        /\ at[t] = "idle" =>
              heap[t] = (IF cap[t] # 0 THEN {"body"} ELSE {})
                        \cup (IF headers[t] # <<>> THEN {"headers"} ELSE {})
        /\ (at[t] = "idle" /\ rc[t] = 1) => heap[t] = {}

\* The request goes out with the method the application asked for.
MethodSent ==
    \A t \in HttpThreads :
        at[t] = "transfer" => wire_method[t] = method[t]
=============================================================================
