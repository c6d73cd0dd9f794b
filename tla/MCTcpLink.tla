------------------------------ MODULE MCTcpLink ------------------------------
(***************************************************************************)
(* Instances of TcpLink for TLC.                                           *)
(***************************************************************************)
EXTENDS TcpLink

\* The options of common clients: an MSS of 1 first in the list; the same
\* behind two fillers and before a window scale and "SACK permitted"; none.
ClientOptions == { << <<1>>, <<1>>, <<2, 4, 0, 1>>, <<3, 3, 8>>, <<4, 2>> >>, <<>> }

\* The hypothesis of theorem SegmentsFit.
ASSUME ClientsReadable == \A options \in ClientOptions : Options!Readable(options)

\* Every acknowledgement and every value of an MSS option may arrive.
AllSeqs == SeqNum
AllMss  == Win
=============================================================================
