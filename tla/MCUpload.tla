------------------------------ MODULE MCUpload ------------------------------
(* Bounded instances of Upload: every multipart body of at most MaxParts    *)
(* parts drawn from PartKinds, and raw bodies of at most MaxRaw bytes; with *)
(* the rate limiter and the conversions of text a request goes through, and *)
(* the client that puts the parts of a response together.                   *)
(* They share no state: subject is the one that moves.                      *)
EXTENDS Upload, Conversions, RateLimit, MCHttp, TLC

VARIABLE subject

CONSTANTS a, b, MaxParts, MaxRaw

\* Kinds of part: a key, whether it is a file, the number of pieces of data.
PartKinds ==
    {[key |-> a, file |-> FALSE, pieces |-> 0],
     [key |-> a, file |-> FALSE, pieces |-> 2],
     [key |-> b, file |-> TRUE, pieces |-> 0],
     [key |-> b, file |-> TRUE, pieces |-> 2],
     [key |-> Empty, file |-> FALSE, pieces |-> 1],
     [key |-> None, file |-> FALSE, pieces |-> 1]}

\* The iterator calls for part p of kind kd: one even if it has no data.
Calls(p, kd) ==
    [i \in 1 .. (IF kd.pieces = 0 THEN 1 ELSE kd.pieces) |->
        [part |-> p, key |-> kd.key, file |-> kd.file, off |-> i - 1,
         data |-> IF kd.pieces = 0 THEN <<>> ELSE << <<p, i>> >>]]

MCRequests ==
    {[ctype |-> "multipart",
      events |-> FlattenSeq([p \in 1 .. Len(parts) |-> Calls(p, parts[p])])] :
         parts \in UNION {[1 .. n -> PartKinds] : n \in 0 .. MaxParts}}
    \cup
    {[ctype |-> ct,
      events |-> [i \in 1 .. n |->
                     [part |-> i, key |-> None, file |-> FALSE, off |-> 0,
                      data |-> <<>>]]] :
         ct \in {"urlencoded", "other"}, n \in 0 .. MaxRaw}

\* One field, then one file, then one field.
FileBetweenFields ==
    {[ctype |-> "multipart",
      events |-> FlattenSeq(
          [p \in 1 .. 3 |-> Calls(p, [key |-> IF p = 2 THEN b ELSE a,
                                      file |-> p = 2, pieces |-> 1])])]}

Symmetry == Permutations(IPs) \cup Permutations(Threads)

MCInit ==
    /\ subject \in {"upload", "text", "rate", "http"}
    /\ Init /\ TextInit /\ RateInit /\ HttpInit
    /\ subject # "rate" => enable_rate_limiting

MCNext ==
    /\ UNCHANGED subject
    /\ \/ subject = "upload" /\ Next /\ UNCHANGED <<text, rateVars, httpVars>>
       \/ subject = "text" /\ TextNext /\ UNCHANGED <<vars, rateVars, httpVars>>
       \/ subject = "rate" /\ RateNext /\ UNCHANGED <<vars, text, httpVars>>
       \/ subject = "http" /\ HttpNext /\ UNCHANGED <<vars, text, rateVars>>

MCSpec == MCInit /\ [][MCNext]_<<subject, vars, text, rateVars, httpVars>>
=============================================================================
