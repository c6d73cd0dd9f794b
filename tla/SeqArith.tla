------------------------------ MODULE SeqArith ------------------------------
(***************************************************************************)
(* TCP sequence numbers: uint32_t values that wrap.  Both tcp_send and     *)
(* xtcp_in move a sequence number forward with the unsigned + of C, and    *)
(* compare two of them with the plain <= of C, which does not know of the  *)
(* wrap.                                                                   *)
(***************************************************************************)
EXTENDS Integers

CONSTANT SeqSpace        \* 2^32 in the program

ASSUME SeqSpaceAssumption == SeqSpace \in Nat \ {0}

SeqNum == 0 .. SeqSpace - 1

\* x + n in uint32_t arithmetic, for a distance n of at most SeqSpace.
SeqAdd(x, n) == IF x + n >= SeqSpace THEN x + n - SeqSpace ELSE x + n

\* The macro min of the C library's stdlib.h, which xnet_tcp.c uses.
min(a, b) == IF a < b THEN a ELSE b
=============================================================================
