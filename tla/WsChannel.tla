----------------------------- MODULE WsChannel ------------------------------
(***************************************************************************)
(* What the WebSocket server promises to senders: each connection is a     *)
(* bounded FIFO channel.  Messages are accepted while the connection lives *)
(* and delivered in the order of acceptance, each at most once; once it is *)
(* closing nothing more is delivered, and once it is gone nothing is       *)
(* accepted either.                                                        *)
(***************************************************************************)
EXTENDS Naturals, Sequences

CONSTANTS Conns, Msgs, Capacity

VARIABLES status, accepted, delivered

vars == <<status, accepted, delivered>>

Init ==
    /\ status = [c \in Conns |-> "absent"]
    /\ accepted = [c \in Conns |-> <<>>]
    /\ delivered = [c \in Conns |-> <<>>]

Become(c, from, to) ==
    /\ status[c] = from
    /\ status' = [status EXCEPT ![c] = to]
    /\ UNCHANGED <<accepted, delivered>>

Accept(c, m) ==
    /\ status[c] \in {"open", "closing"}
    /\ Len(accepted[c]) - Len(delivered[c]) < Capacity
    /\ accepted' = [accepted EXCEPT ![c] = Append(@, m)]
    /\ UNCHANGED <<status, delivered>>

Deliver(c) ==
    /\ status[c] = "open"
    /\ Len(delivered[c]) < Len(accepted[c])
    /\ delivered' = [delivered EXCEPT
                       ![c] = Append(@, accepted[c][Len(@) + 1])]
    /\ UNCHANGED <<status, accepted>>

Next == \E c \in Conns :
    \/ Become(c, "absent", "open")
    \/ Become(c, "open", "closing")
    \/ Become(c, "closing", "gone")
    \/ \E m \in Msgs : Accept(c, m)
    \/ Deliver(c)

Spec == Init /\ [][Next]_vars
=============================================================================
