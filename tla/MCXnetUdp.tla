----------------------------- MODULE MCXnetUdp -----------------------------
(***************************************************************************)
(* Instances of XnetUdp for TLC: three sockets are the fewest among which  *)
(* a port can be shared by two and left behind in a third.                 *)
(***************************************************************************)
EXTENDS XnetUdp
=============================================================================
