----------------------------- MODULE UdpService -----------------------------
(***************************************************************************)
(* What the UDP layer promises, with the table of sockets out of sight: a  *)
(* port has at most one holder, a datagram goes to the holder of its port, *)
(* and only one for a port without a holder is reported unreachable.       *)
(***************************************************************************)
CONSTANTS Port, Handler, NoHandler

VARIABLES
    holder,   \* per port: the handler that receives its datagrams
    given     \* what became of the last datagram

svcVars == <<holder, given>>

Nothing == [kind |-> "nothing"]

Init == holder = [p \in Port |-> NoHandler] /\ given = Nothing

Free(p) == holder[p] = NoHandler

\* A free port is taken; whoever takes it may give up the port it had.
Bind(p, h) == /\ Free(p)
              /\ \/ holder' = [holder EXCEPT ![p] = h]
                 \/ \E q \in Port : /\ holder[q] = h
                                    /\ holder' = [holder EXCEPT ![p] = h, ![q] = NoHandler]
              /\ given' = Nothing

Release(p) == /\ holder' = [holder EXCEPT ![p] = NoHandler]
              /\ given' = Nothing

Arrive(p) == /\ \/ given' = Nothing /\ ~Free(p)
                \/ given' = [kind |-> "handler", port |-> p, handler |-> holder[p]] /\ ~Free(p)
                \/ given' = [kind |-> "unreachable", port |-> p] /\ Free(p)
             /\ UNCHANGED holder

Quiet == given' = Nothing /\ UNCHANGED holder

Next == \/ Quiet
        \/ \E p \in Port : \/ Release(p) \/ Arrive(p)
                           \/ \E h \in Handler : Bind(p, h)

Spec == Init /\ [][Next]_svcVars
=============================================================================
