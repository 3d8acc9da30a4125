----------------------------- MODULE MCDispatch -----------------------------
(* What becomes of a request: Dispatch with small sets of patterns and     *)
(* paths, and what it and the application call on the way, the CORS        *)
(* middleware, the static file handler, the templates and the metrics.     *)
(* They share no state: subject is the one that moves.                     *)
EXTENDS Dispatch, Cors, StaticFiles, Templates, Metrics, TLC

VARIABLE subject

Params == {":x", ":y"}
Marked == {"*", "a*"}
Starts == {<<"a", "ab">>, <<"a", "a*">>}

\* Static patterns with and without a trailing slash, parameters, wildcards
\* last and in the middle, a segment with a '*' inside, and one parameter
\* more than is allowed.
RoutePatterns ==
    {<<"a">>, <<"a", "">>, <<":x">>, <<"a", ":x">>, <<":x", "b">>, <<"*">>,
     <<"a", "*">>, <<":x", ":y">>, <<":x", "*", "a">>, <<"a*">>,
     <<":x", ":y", "*">>}

RoutePaths ==
    {<<"">>, <<"a">>, <<"a", "">>, <<"", "a">>, <<"ab">>, <<"a", "b">>,
     <<"a*">>, <<"a", "", "b", "a">>}

Scopes == {None, <<"a">>}

Embedded == {<<"a">>, <<IndexHtml>>}

\* Lists with the wildcard first, last and not at all.
Configs ==
    [allowed_origins : {<<>>, <<"o1">>, <<"o1", "*">>, <<"*", "o1">>,
                        <<"o1", "o2">>},
     allow_credentials : BOOLEAN,
     allowed_methods : {{"GET", "POST"}, {"GET", "PUT"}},
     allowed_headers : {<<>>, <<{}>>, <<{"f"}>>}]

\* A directory, a neighbour whose name begins with its name, links that stay
\* inside and lead outside, and something that is not a file.
Disk ==
    [p \in {<<>>, <<"www">>, <<"www", "sub">>, <<"www2">>} |-> Dir]
    @@ [p \in {<<"www", "a">>, <<"www", "sub", IndexHtml>>, <<"www2", "s">>,
               <<"www2", IndexHtml>>} |-> File]
    @@ (<<"www", "pipe">> :> Fifo)
    @@ (<<"www", "in">> :> LinkTo(<<"www", "a">>))
    @@ (<<"www", "out">> :> LinkTo(<<"www2", "s">>))
    @@ (<<"alias">> :> LinkTo(<<"www">>))
Disks == {Disk}

Roots == {<<"www">>, <<"alias">>, <<>>, <<"missing">>}

Asked ==
    {<<>>, <<"a">>, <<"a", "">>, <<"sub">>, <<"sub", "">>, <<"in">>, <<"out">>,
     <<"pipe">>, <<"x">>, <<"..", "www2", "s">>, <<"..", "www2">>,
     <<"sub", "..", "a">>, <<"sub", "..", "sub">>,
     <<"sub", "..", "sub", "..", "a">>}

Swaps ==
    {<<<<"www", "a">>, n>> : n \in {Gone, Fifo, LinkTo(<<"www2", "s">>)}}
    \cup {<<<<"www", "sub">>, n>> : n \in {File, LinkTo(<<"www2">>)}}
    \cup {<<p, LinkTo(<<"www2">>)>> : p \in {<<"alias">>, <<"www">>}}

Begins == {<<"www", "www2">>}

\* Calls that set all variables of a template, and one that leaves one out.
Texts == {<<"x">>, <<"literal", "x", "y">>}
Arguments == {[v \in {"x"} |-> "one"], [v \in {"x", "y"} |-> "two"]}

\* "long" is stored as "b", and the entries of both are longer than the margin.
ShortUrl == [u \in Urls |-> IF u = "long" THEN "b" ELSE u]
PrintedLen ==
    [u \in Urls |-> CASE u \in {"b", "long"} -> 7 [] u = "d" -> 4 [] OTHER -> 3]
ServedRequests ==
    {[url |-> u, method |-> "GET", status |-> 2, ms |-> 1] : u \in Urls}
    \cup {[url |-> "a", method |-> "other", status |-> s, ms |-> s] :
             s \in {0, 4, 5}}

MCInit ==
    /\ subject \in {"dispatch", "cors", "static", "templates", "metrics"}
    /\ Init /\ CorsInit /\ StaticInit /\ TemplatesInit /\ MetricsInit

MCNext ==
    /\ UNCHANGED subject
    /\ \/ /\ subject = "dispatch" /\ Next
          /\ UNCHANGED <<corsVars, staticVars, templateVars, metricsVars>>
       \/ /\ subject = "cors" /\ CorsNext
          /\ UNCHANGED <<vars, staticVars, templateVars, metricsVars>>
       \/ /\ subject = "static" /\ StaticNext
          /\ UNCHANGED <<vars, corsVars, templateVars, metricsVars>>
       \/ /\ subject = "templates" /\ TemplatesNext
          /\ UNCHANGED <<vars, corsVars, staticVars, metricsVars>>
       \/ /\ subject = "metrics" /\ MetricsNext
          /\ UNCHANGED <<vars, corsVars, staticVars, templateVars>>

MCSpec ==
    MCInit /\ [][MCNext]_<<subject, vars, corsVars, staticVars, templateVars,
                          metricsVars>>
=============================================================================
