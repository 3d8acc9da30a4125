------------------------------- MODULE MCHttp -------------------------------
(* Bounded instances of HttpClient.                                        *)
EXTENDS HttpClient

\* A redirect whose headers the last response repeats, and one response.
ServerReplies ==
    LET hdr(k, v) == [kind |-> "header", key |-> k, value |-> v]
        line == [kind |-> "line"]
        data(b) == [kind |-> "data", bytes |-> b]
    IN  {<<line, hdr("a", 1), line, hdr("a", 2), data(<<1, 2>>), data(<<3>>)>>,
         <<line, hdr("a", 1), hdr("b", 1), line>>}
=============================================================================
