-------------------------------- MODULE Cors --------------------------------
(***************************************************************************)
(* papago_cors_mw (src/papago.c) between a browser, a shared HTTP cache    *)
(* and a route.  The browser and the cache are external: the browser sends *)
(* a preflight where the Fetch standard asks for one and lets a page read  *)
(* an answer when its CORS check passes; the cache may store an answer to  *)
(* a GET and hand it to whoever asks next, to the same origin alone if the *)
(* answer varies with it.                                                  *)
(***************************************************************************)
EXTENDS Integers, SequencesExt, FiniteSetsExt

CONSTANTS
    Origins,             \* origins pages are from
    CorsConfigs,         \* values of papago_cors_config_t; allowed_headers is a
                         \* sequence of at most one set, <<>> being NULL
    CorsMethods,         \* methods pages use, "GET" among them
    FieldNames           \* request headers that need permission

Star == "*"
Absent == "absent"       \* a header that is not there

ASSUME CorsAssumption ==
    /\ {Star, Absent} \cap Origins = {}
    /\ \A c \in CorsConfigs :
          /\ c.allowed_origins \in Seq(Origins \cup {Star})
          /\ c.allow_credentials \in BOOLEAN
          /\ c.allowed_methods \subseteq CorsMethods
          /\ c.allowed_headers \in Seq(SUBSET FieldNames)
          /\ Len(c.allowed_headers) <= 1

VARIABLES
    config,
    step,                \* where the fetch is
    fetch,               \* origin, method, credentials, fields of the page
    reply_headers,       \* what the last answer carries
    stored,              \* the cache's answer, with the origin it was made for
    cached,              \* the last answer is the cache's
    routed,              \* the route's handler has run for the fetch
    outcome

corsVars == <<config, step, fetch, reply_headers, stored, cached, routed,
              outcome>>

NoHeaders == [allow_origin |-> Absent, vary |-> FALSE, credentials |-> FALSE,
              methods |-> {}, fields |-> {}]
Nothing == [origin |-> Absent, headers |-> NoHeaders, empty |-> TRUE]
NoFetch == [origin |-> Absent, method |-> "GET", credentials |-> FALSE,
            fields |-> {}]

CorsInit ==
    /\ config = Absent /\ step = "unconfigured"
    /\ fetch = NoFetch
    /\ reply_headers = NoHeaders
    /\ stored = Nothing /\ cached = FALSE
    /\ routed = FALSE /\ outcome = "none"

-----------------------------------------------------------------------------
(* The middleware                                                          *)

\* The first entry that is the origin or "*"; without a list, the origin.
MatchAllowedOrigin(origin) ==
    LET list == config.allowed_origins
        hits == {i \in DOMAIN list : list[i] \in {origin, Star}}
    IN  IF list = <<>> THEN origin
        ELSE IF hits = {} THEN Absent ELSE list[Min(hits)]

\* Mutant of AllowOrigin: "*" is sent with credentials, too.
AllowOriginWild(origin) == MatchAllowedOrigin(origin)

\* With credentials "*" becomes the origin itself.
AllowOrigin(origin) ==
    IF MatchAllowedOrigin(origin) = Star /\ config.allow_credentials THEN origin
    ELSE MatchAllowedOrigin(origin)

\* The headers every answer to an allowed origin gets.
CommonHeaders(origin) ==
    IF origin = Absent \/ AllowOrigin(origin) = Absent THEN NoHeaders
    ELSE [NoHeaders EXCEPT
             !.allow_origin = AllowOrigin(origin),
             !.vary = (AllowOrigin(origin) # Star),
             !.credentials = config.allow_credentials]

\* The headers of a preflight answer: allowed fields are those configured, or
\* whatever the browser asks for.
PreflightHeaders(origin, fields) ==
    [CommonHeaders(origin) EXCEPT
        !.methods = config.allowed_methods,
        !.fields = IF config.allowed_headers # <<>> THEN config.allowed_headers[1]
                   ELSE fields]

-----------------------------------------------------------------------------
(* The browser and the cache, external                                     *)

\* The CORS check of the Fetch standard.
CorsCheck(h) ==
    /\ h.allow_origin # Absent
    /\ \/ h.allow_origin = Star /\ ~fetch.credentials
       \/ /\ h.allow_origin = fetch.origin
          /\ fetch.credentials => h.credentials

NeedsPreflight(f) == f.method \notin {"GET", "POST"} \/ f.fields # {}

\* Of the checks on a preflight answer, those beyond the CORS check.
Permitted(h) ==
    /\ fetch.method \in h.methods \cup {"GET", "POST"}
    /\ fetch.fields \subseteq h.fields

ConfigureCors(c) ==
    /\ step = "unconfigured"
    /\ config' = c /\ step' = "idle"
    /\ UNCHANGED <<fetch, reply_headers, stored, cached, routed, outcome>>

\* A page asks its browser for the resource.
Fetch(f) ==
    /\ step \in {"idle", "settled"}
    /\ fetch' = f
    /\ step' = IF NeedsPreflight(f) THEN "preflight" ELSE "actual"
    /\ cached' = FALSE /\ routed' = FALSE /\ outcome' = "none"
    /\ UNCHANGED <<config, reply_headers, stored>>

\* A preflight with an allowed origin is answered by the middleware, with 204.
\* Any other goes on to the routes without CORS headers; one may take OPTIONS.
Preflight ==
    /\ step = "preflight"
    /\ IF AllowOrigin(fetch.origin) # Absent
         THEN /\ reply_headers' = PreflightHeaders(fetch.origin, fetch.fields)
              /\ UNCHANGED routed
         ELSE reply_headers' = NoHeaders /\ routed' \in BOOLEAN
    /\ IF CorsCheck(reply_headers') /\ Permitted(reply_headers')
         THEN step' = "actual" /\ UNCHANGED outcome
         ELSE step' = "settled" /\ outcome' = "blocked"
    /\ UNCHANGED <<config, fetch, stored, cached>>

\* The request itself: the middleware sets the headers and the route answers.
\* The cache may store the answer to a GET.
Actual ==
    /\ step = "actual"
    /\ reply_headers' = CommonHeaders(fetch.origin)
    /\ routed' = TRUE
    /\ \/ UNCHANGED stored
       \/ fetch.method = "GET"
          /\ stored' = [origin |-> fetch.origin, headers |-> reply_headers',
                        empty |-> FALSE]
    /\ step' = "check"
    /\ UNCHANGED <<config, fetch, cached, outcome>>

\* Or the cache answers.
FromCache ==
    /\ step = "actual" /\ fetch.method = "GET" /\ ~stored.empty
    /\ stored.headers.vary => stored.origin = fetch.origin
    /\ reply_headers' = stored.headers
    /\ cached' = TRUE
    /\ step' = "check"
    /\ UNCHANGED <<config, fetch, stored, routed, outcome>>

\* The browser gives the answer to the page, or keeps it from it; a client that
\* is no browser sends no Origin and takes every answer.
Check ==
    /\ step = "check"
    /\ outcome' = IF fetch.origin = Absent \/ CorsCheck(reply_headers)
                  THEN "read" ELSE "blocked"
    /\ step' = "settled"
    /\ UNCHANGED <<config, fetch, reply_headers, stored, cached, routed>>

Fetches ==
    [origin : Origins, method : CorsMethods, credentials : BOOLEAN,
     fields : SUBSET FieldNames] \cup {NoFetch}

CorsNext ==
    \/ \E c \in CorsConfigs : ConfigureCors(c)
    \/ \E f \in Fetches : Fetch(f)
    \/ Preflight \/ Actual \/ FromCache \/ Check

CorsSpec == CorsInit /\ [][CorsNext]_corsVars

-----------------------------------------------------------------------------
(* Properties                                                              *)

\* What the configuration means for an origin and for a page.
OnList(origin) ==
    \/ config.allowed_origins = <<>>
    \/ {origin, Star} \cap Range(config.allowed_origins) # {}
Entitled(f) ==
    /\ OnList(f.origin)
    /\ f.credentials => config.allow_credentials
    /\ NeedsPreflight(f) =>
          /\ f.method \in config.allowed_methods \cup {"GET", "POST"}
          /\ \A granted \in Range(config.allowed_headers) : f.fields \subseteq granted

\* A page can read an answer exactly when the configuration entitles it, through
\* preflight and answer, with and without credentials, however the list is
\* ordered; and a shared cache does not change that, except that an answer once
\* made for somebody who is not on the list, which carries no Vary, may be kept
\* from a page that is.  A page whose preflight fails never reaches a route with
\* its request.
CorsAgrees ==
    (step = "settled" /\ fetch.origin # Absent) =>
        /\ outcome = "read" => Entitled(fetch)
        /\ (outcome = "blocked" /\ Entitled(fetch)) =>
              cached /\ (stored.origin = Absent \/ ~OnList(stored.origin))
        /\ (outcome = "blocked" /\ NeedsPreflight(fetch) /\ OnList(fetch.origin)
            /\ ~Entitled(fetch)) => ~routed
=============================================================================
