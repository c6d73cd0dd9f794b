------------------------------- MODULE XtcpBuf -------------------------------
(***************************************************************************)
(* xtcp_buf_t, the ring buffer of a TCP control block.  The same structure *)
(* serves as tx_buf and as rx_buf:                                         *)
(*                                                                         *)
(*   front           the cell the next byte is written to                  *)
(*   tail            rx_buf: the cell the application reads next           *)
(*                   tx_buf: only moved by tcp_buf_add_acked_count         *)
(*   next            tx_buf: the cell the next segment starts at           *)
(*   data_count      bytes held                                            *)
(*   unacked_count   tx_buf: bytes handed to the network, not acknowledged *)
(*                                                                         *)
(* The loops of the code move an index byte by byte and reset it to 0 when *)
(* it reaches the end; Cell(i, n) is where n such steps from cell i lead.  *)
(* The counters are uint16_t in the code; they are integers here and the   *)
(* type invariants of the modules that use them show that no subtraction   *)
(* ever goes below 0 and no counter above XTCP_CFG_RTX_BUF_SIZE.           *)
(*                                                                         *)
(* A payload byte is represented by the sequence number its sender gives   *)
(* it: that is all the properties need to see a byte lost, repeated or     *)
(* moved.                                                                  *)
(***************************************************************************)
EXTENDS SeqArith, Sequences

CONSTANT BufSize         \* XTCP_CFG_RTX_BUF_SIZE

ASSUME BufSizeAssumption == BufSize \in Nat \ {0} /\ BufSize + 1 < SeqSpace

Index == 0 .. BufSize - 1
Byte  == SeqNum

Buf == [ data_count : 0 .. BufSize, unacked_count : 0 .. BufSize,
         front : Index, tail : Index, next : Index,
         data : [Index -> Byte] ]

\* tcp_socket is cleared by memset in xtcp_init.
ZeroBuf == [ data_count |-> 0, unacked_count |-> 0,
             front |-> 0, tail |-> 0, next |-> 0,
             data |-> [i \in Index |-> 0] ]

\* n single-byte steps forward from cell i, and the steps from i to k.
Cell(i, n)     == IF i + n >= BufSize THEN i + n - BufSize ELSE i + n
Distance(i, k) == IF k >= i THEN k - i ELSE k - i + BufSize

\* xtcp_buf_init: the bytes themselves are left where they are.
Emptied(b) == [b EXCEPT !.front = 0, !.tail = 0, !.next = 0,
                        !.data_count = 0, !.unacked_count = 0]

FreeCount(b)     == BufSize - b.data_count
WaitSendCount(b) == b.data_count - b.unacked_count

\* A wrong tcp_buf_add_acked_count: the acknowledged bytes stay counted
\* as unacknowledged.
AddAcked_KeepsUnacked(b, size) ==
    [b EXCEPT !.tail = IF @ + size >= BufSize THEN 0 ELSE @ + size,
              !.data_count = @ - size]

\* tcp_buf_add_acked_count.  The tail is set to 0, not to the excess, when
\* it passes the end; nothing reads the tail of tx_buf.
AddAcked(b, size) ==
    [b EXCEPT !.tail = IF @ + size >= BufSize THEN 0 ELSE @ + size,
              !.data_count = @ - size, !.unacked_count = @ - size]

\* tcp_buf_add_unacked_count.
AddUnacked(b, size) == [b EXCEPT !.unacked_count = @ + size]

\* xtcp_buf_write: how many bytes of from fit, and the buffer after.
WriteSize(b, from) == min(Len(from), FreeCount(b))

Written(b, from) ==
    LET size == WriteSize(b, from)
    IN  [b EXCEPT !.data = [k \in Index |-> IF Distance(b.front, k) < size
                                              THEN from[Distance(b.front, k) + 1]
                                              ELSE @[k]],
                  !.front = Cell(@, size), !.data_count = @ + size]

\* xtcp_buf_read: how many bytes the caller gets, and the buffer after.
ReadSize(b, size) == min(size, b.data_count)

Taken(b, size) == [b EXCEPT !.tail = Cell(@, ReadSize(b, size)),
                            !.data_count = @ - ReadSize(b, size)]

\* xtcp_buf_read_for_send: the bytes copied into the packet, the buffer after.
SendBytes(b, size) == [i \in 1 .. size |-> b.data[Cell(b.next, i - 1)]]
ReadForSend(b, size) == [b EXCEPT !.next = Cell(@, size)]

\* The i-th unread byte of an rx_buf, the i-th unsent byte of a tx_buf, and
\* the i-th byte from the oldest one held, all counted from 0.
Unread(b, i) == b.data[Cell(b.tail, i)]
Unsent(b, i) == b.data[Cell(b.next, i)]
=============================================================================
