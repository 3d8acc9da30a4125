------------------------------ MODULE Routing ------------------------------
(***************************************************************************)
(* Route patterns and request paths (src/papago.c: match_route and its     *)
(* helpers), as operators.                                                 *)
(*                                                                         *)
(* A path or pattern that begins with a slash is the sequence of what      *)
(* stands after each slash: "/" is <<"">>, "/a/" is <<"a", "">> and        *)
(* "//a" is <<"", "a">>.  A segment is a value; all that matters about its *)
(* characters is in the constants.                                         *)
(***************************************************************************)
EXTENDS Naturals, Sequences, FiniteSets, SequencesExt

CONSTANTS
    ParamSegs,      \* segments that begin with ':'
    MarkedSegs,     \* the other segments that contain ':' or '*'
    Beginnings,     \* pairs <<s, t>>: segment t is longer and begins with s
    PAPAGO_MAX_ROUTE_PARAMS

Wild == "*"

ASSUME RoutingAssumption ==
    /\ ParamSegs \cap MarkedSegs = {} /\ Wild \in MarkedSegs
    /\ "" \notin ParamSegs \cup MarkedSegs
    /\ PAPAGO_MAX_ROUTE_PARAMS \in Nat

\* The members of a finite set of numbers from the smallest to the largest.
InOrder(S) ==
    [i \in 1 .. Cardinality(S) |->
        CHOOSE n \in S : Cardinality({m \in S : m <= n}) = i]

\* next_segment, over and over: empty segments are passed over.
Segments(path) ==
    LET places == InOrder({n \in DOMAIN path : path[n] # ""})
    IN  [i \in DOMAIN places |-> path[places[i]]]

Takes(seg) == seg \in ParamSegs \/ seg = Wild

\* count_route_params
CountRouteParams(pattern) ==
    LET pt == Segments(pattern)
    IN  Cardinality({n \in DOMAIN pt : Takes(pt[n])})

\* route->is_static: there is no ':' and no '*' anywhere in the pattern.
IsStatic(pattern) ==
    \A n \in DOMAIN pattern : pattern[n] \notin ParamSegs \cup MarkedSegs

\* A capture: what the pattern calls it and the segments it is of.  The value
\* of a wildcard is stored by commit_params through collapse_slashes, which
\* leaves the non-empty segments.
Span(key, val) == [key |-> key, val |-> val]

Fits(seg, s) == seg \in ParamSegs \/ seg = s

\* One turn of match_route's loop, at segment n of the pattern, after the turns
\* that left r: a '*' takes what is left of the path, perhaps nothing.
Turn(pt, qt, n, r) ==
    IF r.at # "matching" THEN r
    ELSE IF pt[n] = Wild
      THEN [at |-> "matched",
            spans |-> Append(r.spans, Span(Wild, SubSeq(qt, n, Len(qt))))]
    ELSE IF ~(n <= Len(qt) /\ Fits(pt[n], qt[n]))
      THEN [r EXCEPT !.at = "failed"]
    ELSE IF pt[n] \in ParamSegs
      THEN [r EXCEPT !.spans = Append(@, Span(pt[n], <<qt[n]>>))]
    ELSE r

\* match_route: both sides advance together, and end together unless a '*' was
\* met.
MatchRoute(pattern, path) ==
    LET pt == Segments(pattern)
        qt == Segments(path)
        after[n \in 0 .. Len(pt)] ==
            IF n = 0 THEN [at |-> "matching", spans |-> <<>>]
            ELSE Turn(pt, qt, n, after[n - 1])
        end == after[Len(pt)]
    IN  [ok |-> \/ end.at = "matched"
                \/ end.at = "matching" /\ Len(pt) = Len(qt),
         spans |-> end.spans]

\* The spans array has PAPAGO_MAX_ROUTE_PARAMS places; further captures are
\* dropped.
Kept(spans) ==
    SubSeq(spans, 1, IF Len(spans) < PAPAGO_MAX_ROUTE_PARAMS
                       THEN Len(spans) ELSE PAPAGO_MAX_ROUTE_PARAMS)

\* route_matches: a static pattern is compared as it is, slashes included.
RouteMatches(pattern, path) ==
    IF IsStatic(pattern)
      THEN [ok |-> pattern = path, spans |-> <<>>]
      ELSE LET r == MatchRoute(pattern, path)
           IN  [ok |-> r.ok, spans |-> IF r.ok THEN Kept(r.spans) ELSE <<>>]

\* strncmp(path, prefix, strlen(prefix)) == 0
BeginsWith(path, prefix) ==
    LET n == Len(prefix)
    IN  /\ n <= Len(path)
        /\ \A i \in 1 .. n - 1 : path[i] = prefix[i]
        /\ \/ prefix[n] \in {"", path[n]}
           \/ <<prefix[n], path[n]>> \in Beginnings

-----------------------------------------------------------------------------
(* What patterns mean, without a loop: the reference for the above.        *)

\* The places of the pattern before its first '*'; all of them without one.
Fixed(pt) ==
    IF Contains(pt, Wild)
      THEN CHOOSE n \in 0 .. Len(pt) - 1 :
             pt[n + 1] = Wild /\ \A i \in 1 .. n : pt[i] # Wild
      ELSE Len(pt)

\* A pattern with '*' or ':' stands for the paths whose first segments fit
\* its fixed part, and that go no further unless a '*' follows; one without
\* stands for itself.
Means(pattern, path) ==
    LET pt == Segments(pattern)
        qt == Segments(path)
        f == Fixed(pt)
    IN  IF IsStatic(pattern) THEN pattern = path
        ELSE /\ f <= Len(qt)
             /\ \A n \in 1 .. f : Fits(pt[n], qt[n])
             /\ Contains(pt, Wild) \/ f = Len(qt)

\* What a matching pattern calls the segments: its parameters in the fixed
\* part one segment each, then the '*' all that follow.
Captures(pattern, path) ==
    LET pt == Segments(pattern)
        qt == Segments(path)
        f == Fixed(pt)
        places == InOrder({n \in 1 .. f : pt[n] \in ParamSegs})
        star == IF Contains(pt, Wild)
                  THEN <<Span(Wild, SubSeq(qt, f + 1, Len(qt)))>> ELSE <<>>
    IN  IF IsStatic(pattern) THEN <<>>
        ELSE [i \in DOMAIN places |-> Span(pt[places[i]], <<qt[places[i]]>>)]
                 \o star
=============================================================================
