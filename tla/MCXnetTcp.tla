------------------------------ MODULE MCXnetTcp ------------------------------
(***************************************************************************)
(* Instances of XnetTcp for TLC.  The sets of header flags below are the   *)
(* ones a TCP peer can send; a configuration picks one of them.            *)
(***************************************************************************)
EXTENDS XnetTcp

\* The flags of a peer that opens, transfers and closes.
PeerFlags == {{"SYN"}, {"ACK"}, {"FIN", "ACK"}}

\* What of a state can make a difference to the steps that follow and to what
\* the properties say: not the segment and the report of the last step; of a
\* block without a peer only its state, its port and its handler (xtcp_alloc
\* resets the rest); of a block with a peer not the cells of a ring that are
\* never read again, nor bytes behind a FIN or a SYN too many, of which the
\* properties do not speak.
UnsentBytes(b) == [i \in 0 .. WaitSendCount(b) - 1 |-> Unsent(b, i)]
UnreadBytes(b) == [i \in 0 .. b.data_count - 1 |-> Unread(b, i)]

Bytes(t) == IF t.state \in {"SYN_RECVD", "ESTABLISHED"}
              THEN <<UnsentBytes(t.tx_buf), IF t.syn THEN <<>> ELSE UnreadBytes(t.rx_buf)>>
              ELSE <<>>

Significant ==
    [s \in Slot |->
        LET t == tcp_socket[s]
        IN  IF t.state \in Connected
              THEN <<[t EXCEPT !.tx_buf.data = <<>>, !.rx_buf.data = <<>>],
                     Bytes(t), written[s]>>
              ELSE <<t.state, t.local_port, t.handler>>]

\* A bound for the runs about data: once a block has a peer, the server does
\* not close the block it listens with.  (What happens to the other blocks
\* then makes no difference to this one; the run tcp_table has no bound.)
ListenerStays == (\E s \in Slot : tcp_socket[s].state \in Connected)
                   => \E s \in Slot : tcp_socket[s].state = "LISTEN"
=============================================================================
