---------------------------- MODULE MCXnetStack ----------------------------
(***************************************************************************)
(* An instance of XnetStack for TLC.                                       *)
(***************************************************************************)
EXTENDS XnetStack

CONSTANT Pinger   \* the neighbour that sends the datagrams

\* A datagram for this host that has arrived undamaged.
Good(kind, header, data, pad) ==
    [ from |-> Pinger, for |-> "us", intact |-> TRUE, kind |-> kind,
      total |-> header + data, header |-> header, data |-> data, pad |-> pad,
      sum |-> 0, rest |-> 0 ]

\* A segment with the checksum that tcp_send would give it.
Segment(header, data, pad, rest) ==
    [Good("tcp", header, data, pad) EXCEPT
        !.rest = rest, !.sum = (Base - 1) - ((rest + data) % (Base - 1))]

\* For each purpose the smallest and the largest there are, one with options
\* in its header, and one that the link has filled up to 46 bytes; quotes that
\* just fit, and that do not; a length that is not that of the datagram; and
\* segments whose sums are at the boundaries.
SomeDatagrams ==
    { Good("datetime", 20, 8, 0), Good("datetime", 20, 9, 17),
      Good("closed port", 20, 8, 0), Good("closed port", 20, 1454, 0),
      Good("closed port", 20, 1455, 0), Good("protocol", 20, 1480, 0),
      Good("protocol", 60, 1414, 0), Good("protocol", 20, 1, 25),
      [Good("protocol", 20, 40, 0) EXCEPT !.total = 12],
      [Good("protocol", 20, 40, 0) EXCEPT !.total = 1509],
      Good("echo", 20, 40, 0), Good("echo", 20, 1480, 0), Good("echo", 20, 8, 18),
      Good("icmp", 20, 36, 0),
      Segment(20, 20, 0, 0), Segment(24, 21, 0, 40000), Segment(20, 1480, 0, Base - 1),
      Segment(20, 20, 6, 0), Segment(20, 20, 6, Base - 24), Segment(20, 25, 1, Base - 26),
      Good("tcp", 20, 20, 6),
      [Good("echo", 20, 40, 0) EXCEPT !.for = "other"],
      [Segment(20, 20, 0, 5) EXCEPT !.intact = FALSE] }
=============================================================================
