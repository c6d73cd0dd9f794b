------------------------------ MODULE ByteStream ------------------------------
(***************************************************************************)
(* What a connection promises in one direction: the receiver gets the      *)
(* bytes of the sender in order, none lost, repeated or made up, whatever  *)
(* the network does.  It may be kept waiting for ever.                     *)
(***************************************************************************)
EXTENDS SequencesExt

VARIABLES
    sent,      \* what the sender has handed over so far
    rcvd       \* what the receiver has been given so far

Init == sent = <<>> /\ rcvd = <<>>

Send == /\ IsPrefix(sent, sent')
        /\ UNCHANGED rcvd

Receive == /\ IsPrefix(rcvd, rcvd') /\ IsPrefix(rcvd', sent)
           /\ UNCHANGED sent

Spec == Init /\ [][Send \/ Receive]_<<sent, rcvd>>
=============================================================================
