--------------------------- MODULE XnetTcpProofs ---------------------------
(***************************************************************************)
(* Theorems about XnetTcp, for every table size, buffer size and width of  *)
(* the sequence numbers, and for every set of segments and calls.          *)
(***************************************************************************)
EXTENDS XnetTcp, TLAPS

-----------------------------------------------------------------------------
(***************************************************************************)
(* What the operations of the ring buffer keep.                            *)
(***************************************************************************)
\* Sequence numbers stay in their space (tcp_send and xtcp_in: uint32_t +).
LEMMA SeqAddType ==
    ASSUME NEW x \in SeqNum, NEW n \in 0 .. SeqSpace
    PROVE  SeqAdd(x, n) \in SeqNum
BY SeqSpaceAssumption DEF SeqAdd, SeqNum

\* Moving on by a and then by b is moving on by a + b.
LEMMA SeqAddSum ==
    ASSUME NEW x \in SeqNum, NEW a \in Nat, NEW b \in Nat, a + b <= SeqSpace
    PROVE  SeqAdd(SeqAdd(x, a), b) = SeqAdd(x, a + b)
BY SeqSpaceAssumption DEF SeqAdd, SeqNum

\* An index moved on by at most one round is an index again: the tests
\* against XTCP_CFG_RTX_BUF_SIZE in the loops keep every access in bounds.
LEMMA CellType ==
    ASSUME NEW i \in Index, NEW n \in 0 .. BufSize
    PROVE  Cell(i, n) \in Index
BY BufSizeAssumption DEF Cell, Index

LEMMA DistanceType ==
    ASSUME NEW i \in Index, NEW k \in Index
    PROVE  Distance(i, k) \in Index
BY BufSizeAssumption DEF Distance, Index

\* xtcp_buf_init.
LEMMA EmptiedType ==
    ASSUME NEW b \in Buf
    PROVE  Emptied(b) \in Buf
<1>1. 0 \in Index /\ 0 \in 0 .. BufSize
  BY BufSizeAssumption DEF Index
<1> QED
  BY <1>1 DEF Emptied, Buf

\* xtcp_buf_read_for_send.
LEMMA ReadForSendType ==
    ASSUME NEW b \in Buf, NEW size \in 0 .. BufSize
    PROVE  ReadForSend(b, size) \in Buf
<1>1. b.next \in Index
  BY DEF Buf
<1>2. Cell(b.next, size) \in Index
  BY <1>1, CellType
<1> QED
  BY <1>2 DEF ReadForSend, Buf

\* tcp_buf_add_unacked_count.
LEMMA AddUnackedType ==
    ASSUME NEW b \in Buf, NEW size \in Nat,
           b.unacked_count + size <= b.data_count
    PROVE  AddUnacked(b, size) \in Buf
<1>1. b.unacked_count + size \in 0 .. BufSize
  BY BufSizeAssumption DEF Buf
<1> QED
  BY <1>1 DEF AddUnacked, Buf

\* tcp_buf_add_acked_count: nothing goes below 0 while no more bytes are
\* acknowledged than are counted as unacknowledged.
LEMMA AddAckedType ==
    ASSUME NEW b \in Buf, NEW size \in Nat,
           size <= b.unacked_count, b.unacked_count <= b.data_count
    PROVE  AddAcked(b, size) \in Buf
<1> DEFINE tail == IF b.tail + size >= BufSize THEN 0 ELSE b.tail + size
<1>1. /\ b.data_count \in 0 .. BufSize /\ b.unacked_count \in 0 .. BufSize
      /\ b.tail \in Index
  BY DEF Buf
<1>2. /\ b.data_count - size \in 0 .. BufSize
      /\ b.unacked_count - size \in 0 .. BufSize
      /\ tail \in Index
  BY <1>1, BufSizeAssumption DEF Index
<1>3. AddAcked(b, size) = [b EXCEPT !.tail = tail,
                                    !.data_count = b.data_count - size,
                                    !.unacked_count = b.unacked_count - size]
  BY DEF AddAcked
<1> HIDE DEF tail
<1> QED
  BY <1>2, <1>3 DEF Buf

\* xtcp_buf_write: what is written fits.
LEMMA WriteSizeType ==
    ASSUME NEW b \in Buf, NEW from \in Seq(Byte)
    PROVE  /\ WriteSize(b, from) \in Nat
           /\ WriteSize(b, from) <= Len(from)
           /\ b.data_count + WriteSize(b, from) <= BufSize
BY BufSizeAssumption DEF WriteSize, FreeCount, min, Buf

LEMMA WrittenType ==
    ASSUME NEW b \in Buf, NEW from \in Seq(Byte)
    PROVE  Written(b, from) \in Buf
<1> DEFINE size == WriteSize(b, from)
           cells == [k \in Index |-> IF Distance(b.front, k) < size
                                       THEN from[Distance(b.front, k) + 1]
                                       ELSE b.data[k]]
<1>1. /\ size \in 0 .. BufSize /\ size <= Len(from)
      /\ b.data_count + size \in 0 .. BufSize
  BY WriteSizeType, BufSizeAssumption DEF Buf
<1>2. b.front \in Index /\ b.data \in [Index -> Byte]
  BY DEF Buf
<1>3. Cell(b.front, size) \in Index
  BY <1>1, <1>2, CellType
<1>4. cells \in [Index -> Byte]
  <2> SUFFICES ASSUME NEW k \in Index
               PROVE  cells[k] \in Byte
    OBVIOUS
  <2>1. Distance(b.front, k) \in Nat
    <3>1. Distance(b.front, k) \in Index
      BY <1>2, DistanceType
    <3> QED
      BY <3>1, BufSizeAssumption DEF Index
  <2>2. CASE Distance(b.front, k) < size
    <3>1. Distance(b.front, k) + 1 \in 1 .. Len(from)
      BY <1>1, <2>1, <2>2
    <3> QED
      BY <2>2, <3>1
  <2>3. CASE ~(Distance(b.front, k) < size)
    BY <1>2, <2>3
  <2> QED
    BY <2>2, <2>3
<1>5. Written(b, from) = [b EXCEPT !.data = cells, !.front = Cell(b.front, size),
                                   !.data_count = b.data_count + size]
  BY DEF Written
<1> HIDE DEF size, cells
<1> QED
  BY <1>1, <1>3, <1>4, <1>5 DEF Buf

\* xtcp_buf_read: what is read was there.
LEMMA TakenType ==
    ASSUME NEW b \in Buf, NEW size \in Nat
    PROVE  Taken(b, size) \in Buf
<1>1. /\ ReadSize(b, size) \in 0 .. BufSize
      /\ b.data_count - ReadSize(b, size) \in 0 .. BufSize
  BY BufSizeAssumption DEF ReadSize, min, Buf
<1>2. Cell(b.tail, ReadSize(b, size)) \in Index
  BY <1>1, CellType DEF Buf
<1> QED
  BY <1>1, <1>2 DEF Taken, Buf
-----------------------------------------------------------------------------
(***************************************************************************)
(* The order of the bytes in the ring.                                     *)
(***************************************************************************)
\* Moving an index on by m and then by n cells is moving it on by m + n: the
\* wrap to 0 in the loops of xtcp_buf_write, xtcp_buf_read and
\* xtcp_buf_read_for_send falls on the same cell however a run is cut.
LEMMA CellSum ==
    ASSUME NEW i \in Index, NEW m \in Nat, NEW n \in Nat, m + n <= BufSize
    PROVE  Cell(Cell(i, m), n) = Cell(i, m + n)
BY BufSizeAssumption DEF Cell, Index

\* How far a cell of a run that starts at cell i and has m cells before the
\* writing index is from that index: the cells held are the last ones that
\* a write would reach.
LEMMA DistanceHeld ==
    ASSUME NEW i \in Index, NEW m \in 0 .. BufSize, NEW k \in 0 .. m - 1
    PROVE  Distance(Cell(i, m), Cell(i, k)) = BufSize - m + k
BY BufSizeAssumption DEF Distance, Cell, Index

LEMMA DistanceAhead ==
    ASSUME NEW i \in Index, NEW m \in 0 .. BufSize, NEW k \in m .. BufSize - 1
    PROVE  Distance(Cell(i, m), Cell(i, k)) = k - m
BY BufSizeAssumption DEF Distance, Cell, Index

\* xtcp_buf_write: behind the m bytes from cell i on, which end where the
\* write starts, come the bytes written, and the m bytes stay as they were.
LEMMA WrittenCells ==
    ASSUME NEW b \in Buf, NEW from \in Seq(Byte), NEW i \in Index, NEW m \in Nat,
           m <= b.data_count, b.front = Cell(i, m),
           NEW n, n = WriteSize(b, from), NEW c, c = Written(b, from)
    PROVE  /\ c.front = Cell(i, m + n)
           /\ c.data_count = b.data_count + n
           /\ \A k \in 0 .. m - 1 : c.data[Cell(i, k)] = b.data[Cell(i, k)]
           /\ \A k \in m .. m + n - 1 : c.data[Cell(i, k)] = from[k - m + 1]
<1> DEFINE cells == [k \in Index |-> IF Distance(b.front, k) < n
                                       THEN from[Distance(b.front, k) + 1]
                                       ELSE b.data[k]]
<1>1. /\ n \in Nat /\ n <= Len(from) /\ b.data_count + n <= BufSize
      /\ b.data_count \in Nat
  BY WriteSizeType DEF Buf
<1>2. m \in 0 .. BufSize /\ m + n <= BufSize
  BY <1>1, BufSizeAssumption
<1>3. c = [b EXCEPT !.data = cells, !.front = Cell(b.front, n),
                    !.data_count = b.data_count + n]
  BY DEF Written
<1>4. c.front = Cell(b.front, n) /\ c.data_count = b.data_count + n /\ c.data = cells
  BY <1>3 DEF Buf
<1>5. c.front = Cell(i, m + n)
  BY <1>1, <1>2, <1>4, CellSum
<1>6. ASSUME NEW k \in 0 .. m - 1
      PROVE  c.data[Cell(i, k)] = b.data[Cell(i, k)]
  <2>1. Cell(i, k) \in Index
    BY <1>2, CellType, BufSizeAssumption
  <2>2. Distance(b.front, Cell(i, k)) = BufSize - m + k
    BY <1>2, DistanceHeld
  <2>3. ~(BufSize - m + k < n)
    BY <1>1, <1>2, BufSizeAssumption
  <2> QED
    BY <1>4, <2>1, <2>2, <2>3
<1>7. ASSUME NEW k \in m .. m + n - 1
      PROVE  c.data[Cell(i, k)] = from[k - m + 1]
  <2>1. k \in m .. BufSize - 1 /\ k \in 0 .. BufSize
    BY <1>1, <1>2, BufSizeAssumption
  <2>2. Cell(i, k) \in Index
    BY <2>1, CellType
  <2>3. Distance(b.front, Cell(i, k)) = k - m
    BY <1>2, <2>1, DistanceAhead
  <2>4. k - m < n
    BY <1>1
  <2> QED
    BY <1>4, <2>2, <2>3, <2>4
<1> QED
  BY <1>4, <1>5, <1>6, <1>7
-----------------------------------------------------------------------------
USE SeqSpaceAssumption, BufSizeAssumption

(***************************************************************************)
(* A tx_buf whose unsent bytes are a piece of the application's stream:    *)
(* the first has the number seq, and w is the number of the byte that the  *)
(* application writes next.                                                *)
(***************************************************************************)
TxAt(b, seq, w) ==
    /\ b.front = Cell(b.next, WaitSendCount(b))
    /\ \A i \in 0 .. WaitSendCount(b) - 1 : Unsent(b, i) = SeqAdd(seq, i)
    /\ w = SeqAdd(seq, WaitSendCount(b))

\* A buffer that counts no more bytes as unacknowledged than it holds.
Consistent(b) == b \in Buf /\ b.unacked_count <= b.data_count

LEMMA WaitSendType ==
    ASSUME NEW b, Consistent(b)
    PROVE  /\ b \in Buf /\ b.next \in Index /\ b.front \in Index
           /\ WaitSendCount(b) \in 0 .. BufSize /\ WaitSendCount(b) <= b.data_count
           /\ b.data_count \in 0 .. BufSize /\ b.unacked_count \in 0 .. BufSize
BY BufSizeAssumption DEF Consistent, WaitSendCount, Buf

\* xtcp_buf_read_for_send and tcp_buf_add_unacked_count: what is left is the
\* rest of the stream.
LEMMA SentTxAt ==
    ASSUME NEW b, Consistent(b), NEW seq \in SeqNum, NEW w, TxAt(b, seq, w),
           NEW size \in 0 .. WaitSendCount(b)
    PROVE  TxAt(AddUnacked(ReadForSend(b, size), size), SeqAdd(seq, size), w)
<1> DEFINE c == AddUnacked(ReadForSend(b, size), size)
           wait == WaitSendCount(b)
<1>1. /\ b \in Buf /\ b.next \in Index /\ wait \in 0 .. BufSize
      /\ b.data_count \in Int /\ b.unacked_count \in Int
      /\ size \in Nat /\ size <= wait /\ BufSize \in Nat /\ BufSize < SeqSpace
  BY WaitSendType, BufSizeAssumption
<1>2. /\ c.next = Cell(b.next, size) /\ c.front = b.front /\ c.data = b.data
      /\ WaitSendCount(c) = wait - size
  BY <1>1 DEF AddUnacked, ReadForSend, WaitSendCount, Buf
<1> HIDE DEF c, wait
<1>3. Cell(c.next, wait - size) = Cell(b.next, wait)
  BY <1>1, <1>2, CellSum
<1>4. ASSUME NEW i \in 0 .. wait - size - 1
      PROVE  Unsent(c, i) = SeqAdd(SeqAdd(seq, size), i)
  <2>1. i \in Nat /\ size + i \in 0 .. wait - 1 /\ size + i <= BufSize
    BY <1>1
  <2>2. Unsent(c, i) = Unsent(b, size + i)
    BY <1>1, <1>2, <2>1, CellSum DEF Unsent
  <2>3. Unsent(b, size + i) = SeqAdd(seq, size + i)
    BY <2>1 DEF TxAt, wait
  <2>4. SeqAdd(SeqAdd(seq, size), i) = SeqAdd(seq, size + i)
    BY <1>1, <2>1, SeqAddSum
  <2> QED
    BY <2>2, <2>3, <2>4
<1>5. w = SeqAdd(SeqAdd(seq, size), wait - size)
  <2>1. SeqAdd(SeqAdd(seq, size), wait - size) = SeqAdd(seq, size + (wait - size))
    BY <1>1, SeqAddSum
  <2>2. size + (wait - size) = wait
    BY <1>1
  <2> QED
    BY <2>1, <2>2 DEF TxAt, wait
<1>6. c.front = Cell(b.next, wait)
  BY <1>2 DEF TxAt, wait
<1> QED
  BY <1>2, <1>3, <1>4, <1>5, <1>6 DEF TxAt, c

\* tcp_buf_add_acked_count: what is acknowledged was sent, so the unsent bytes
\* do not change.
LEMMA AckedTxAt ==
    ASSUME NEW b, Consistent(b), NEW seq, NEW w, TxAt(b, seq, w),
           NEW size \in 0 .. b.unacked_count
    PROVE  TxAt(AddAcked(b, size), seq, w)
<1> DEFINE c == AddAcked(b, size)
<1>1. /\ c.next = b.next /\ c.front = b.front /\ c.data = b.data
      /\ c.data_count = b.data_count - size /\ c.unacked_count = b.unacked_count - size
  BY DEF AddAcked, Consistent, Buf
<1>2. b.data_count \in Int /\ b.unacked_count \in Int /\ size \in Int
  BY WaitSendType
<1> HIDE DEF c
<1>3. WaitSendCount(c) = WaitSendCount(b)
  BY <1>1, <1>2 DEF WaitSendCount
<1> QED
  BY <1>1, <1>3 DEF TxAt, Unsent, c

\* xtcp_buf_write: the next bytes of the stream join at the end.
LEMMA WrittenTxAt ==
    ASSUME NEW b, Consistent(b), NEW seq \in SeqNum, NEW w \in SeqNum, TxAt(b, seq, w),
           NEW size \in 0 .. SeqSpace,
           NEW from \in Seq(Byte), from = [i \in 1 .. size |-> SeqAdd(w, i - 1)]
    PROVE  TxAt(Written(b, from), seq, SeqAdd(w, WriteSize(b, from)))
<1> DEFINE c == Written(b, from)
           n == WriteSize(b, from)
           wait == WaitSendCount(b)
<1>1. /\ b \in Buf /\ b.next \in Index /\ wait \in 0 .. BufSize /\ wait <= b.data_count
      /\ b.data_count \in 0 .. BufSize /\ b.unacked_count \in 0 .. BufSize
      /\ BufSize \in Nat /\ BufSize < SeqSpace
  BY WaitSendType, BufSizeAssumption
<1>2. n \in Nat /\ n <= Len(from) /\ b.data_count + n <= BufSize /\ Len(from) = size
  BY <1>1, WriteSizeType
<1>3. b.front = Cell(b.next, wait) /\ w = SeqAdd(seq, wait)
  BY DEF TxAt
<1>5. c.next = b.next /\ c.unacked_count = b.unacked_count
  BY <1>1 DEF Written, Buf
<1>6. wait = b.data_count - b.unacked_count
  BY DEF WaitSendCount
<1>a. c = Written(b, from) /\ n = WriteSize(b, from)
  OBVIOUS
<1>b. \A i \in 0 .. wait - 1 : b.data[Cell(b.next, i)] = SeqAdd(seq, i)
  BY DEF TxAt, Unsent
<1> HIDE DEF c, n, wait
<1>4. /\ c.front = Cell(b.next, wait + n)
      /\ c.data_count = b.data_count + n
      /\ \A k \in 0 .. wait - 1 : c.data[Cell(b.next, k)] = b.data[Cell(b.next, k)]
      /\ \A k \in wait .. wait + n - 1 : c.data[Cell(b.next, k)] = from[k - wait + 1]
  <2>1. /\ b \in Buf /\ b.next \in Index /\ wait \in Nat /\ wait <= b.data_count
        /\ b.front = Cell(b.next, wait) /\ from \in Seq(Byte)
    BY <1>1, <1>3
  <2> DEFINE next == b.next
  <2> HIDE DEF next
  <2>2. /\ b \in Buf /\ next \in Index /\ b.front = Cell(next, wait)
        /\ wait <= b.data_count
    BY <2>1 DEF next
  <2>3. /\ c.front = Cell(next, wait + n)
        /\ c.data_count = b.data_count + n
        /\ \A k \in 0 .. wait - 1 : c.data[Cell(next, k)] = b.data[Cell(next, k)]
        /\ \A k \in wait .. wait + n - 1 : c.data[Cell(next, k)] = from[k - wait + 1]
    BY <1>a, <2>1, <2>2, WrittenCells
  <2> QED
    BY <2>3 DEF next
<1>7. WaitSendCount(c) = wait + n
  BY <1>1, <1>2, <1>4, <1>5, <1>6 DEF WaitSendCount
<1>8. ASSUME NEW i \in 0 .. wait + n - 1
      PROVE  Unsent(c, i) = SeqAdd(seq, i)
  <2>1. CASE i < wait
    <3>1. i \in 0 .. wait - 1
      BY <1>1, <2>1
    <3> QED
      BY <1>4, <1>5, <1>b, <3>1 DEF Unsent
  <2>2. CASE ~(i < wait)
    <3> DEFINE k == i - wait
    <3>1. /\ i \in wait .. wait + n - 1 /\ k \in Nat /\ k + 1 \in 1 .. size
          /\ wait \in Nat /\ wait + k = i /\ wait + k <= SeqSpace /\ (k + 1) - 1 = k
      BY <1>1, <1>2, <2>2, SMTT(30)
    <3>2. Unsent(c, i) = from[k + 1]
      BY <1>4, <1>5, <3>1 DEF Unsent
    <3> HIDE DEF k
    <3>3. from[k + 1] = SeqAdd(w, k)
      BY <3>1
    <3>4. SeqAdd(SeqAdd(seq, wait), k) = SeqAdd(seq, wait + k)
      BY <3>1, SeqAddSum
    <3> QED
      BY <1>3, <3>1, <3>2, <3>3, <3>4
  <2> QED
    BY <2>1, <2>2
<1>9. SeqAdd(w, n) = SeqAdd(seq, wait + n)
  <2>1. wait \in Nat /\ wait + n <= SeqSpace
    BY <1>1, <1>2
  <2> QED
    BY <1>2, <1>3, <2>1, SeqAddSum
<1>c. TxAt(c, seq, SeqAdd(w, n))
  <2>1. c.front = Cell(c.next, WaitSendCount(c))
    BY <1>4, <1>5, <1>7
  <2>2. \A i \in 0 .. WaitSendCount(c) - 1 : Unsent(c, i) = SeqAdd(seq, i)
    BY <1>1, <1>2, <1>7, <1>8
  <2> QED
    BY <1>7, <1>9, <2>1, <2>2 DEF TxAt
<1> QED
  BY <1>c DEF c, n
-----------------------------------------------------------------------------
(***************************************************************************)
(* An rx_buf whose bytes are the last ones before the number ack.          *)
(***************************************************************************)
RxAt(b, ack) ==
    /\ b.front = Cell(b.tail, b.data_count)
    /\ \A i \in 0 .. b.data_count - 1 : SeqAdd(Unread(b, i), b.data_count - i) = ack

\* xtcp_buf_write: bytes that continue the stream join at the end.
LEMMA WrittenRxAt ==
    ASSUME NEW b \in Buf, NEW ack \in SeqNum, RxAt(b, ack), NEW size \in 0 .. SeqSpace,
           NEW from \in Seq(Byte), from = [i \in 1 .. size |-> SeqAdd(ack, i - 1)]
    PROVE  RxAt(Written(b, from), SeqAdd(ack, WriteSize(b, from)))
<1> DEFINE c == Written(b, from)
           n == WriteSize(b, from)
           m == b.data_count
<1>1. /\ b.tail \in Index /\ m \in 0 .. BufSize /\ m \in Nat
      /\ b.data \in [Index -> SeqNum] /\ BufSize \in Nat /\ BufSize < SeqSpace
  BY BufSizeAssumption DEF Buf, Byte
<1>2. n \in Nat /\ n <= Len(from) /\ m + n <= BufSize /\ Len(from) = size
  BY <1>1, WriteSizeType
<1>3. b.front = Cell(b.tail, m)
  BY DEF RxAt
<1>5. c.tail = b.tail
  BY <1>1 DEF Written, Buf
<1>a. c = Written(b, from) /\ n = WriteSize(b, from)
  OBVIOUS
<1>c. m = b.data_count
  OBVIOUS
<1>b. \A i \in 0 .. m - 1 : SeqAdd(Unread(b, i), m - i) = ack
  BY DEF RxAt
<1> HIDE DEF c, n, m
<1>4. /\ c.front = Cell(b.tail, m + n)
      /\ c.data_count = m + n
      /\ \A k \in 0 .. m - 1 : c.data[Cell(b.tail, k)] = b.data[Cell(b.tail, k)]
      /\ \A k \in m .. m + n - 1 : c.data[Cell(b.tail, k)] = from[k - m + 1]
  <2>1. m <= b.data_count
    BY <1>1, <1>c
  <2>2. /\ c.front = Cell(b.tail, m + n)
        /\ c.data_count = b.data_count + n
        /\ \A k \in 0 .. m - 1 : c.data[Cell(b.tail, k)] = b.data[Cell(b.tail, k)]
        /\ \A k \in m .. m + n - 1 : c.data[Cell(b.tail, k)] = from[k - m + 1]
    BY <1>1, <1>3, <1>a, <2>1, WrittenCells
  <2> QED
    BY <1>c, <2>2
<1>6. ASSUME NEW i \in 0 .. m + n - 1
      PROVE  SeqAdd(Unread(c, i), m + n - i) = SeqAdd(ack, n)
  <2>1. CASE i < m
    <3>1. i \in 0 .. m - 1 /\ i \in 0 .. BufSize
      BY <1>1, <2>1
    <3>2. Unread(c, i) = Unread(b, i)
      BY <1>4, <1>5, <3>1 DEF Unread
    <3>3. Unread(b, i) \in SeqNum
      BY <1>1, <3>1, CellType DEF Unread
    <3>4. SeqAdd(SeqAdd(Unread(b, i), m - i), n) = SeqAdd(Unread(b, i), (m - i) + n)
      BY <1>1, <1>2, <3>1, <3>3, SeqAddSum
    <3>5. (m - i) + n = m + n - i
      BY <1>1, <1>2
    <3> QED
      BY <1>b, <3>1, <3>2, <3>4, <3>5
  <2>2. CASE ~(i < m)
    <3> DEFINE k == i - m
               rest == m + n - i
    <3>1. /\ i \in m .. m + n - 1 /\ k \in Nat /\ k + 1 \in 1 .. size
          /\ rest \in Nat /\ k + rest = n /\ n <= SeqSpace /\ (k + 1) - 1 = k
      BY <1>1, <1>2, <2>2, SMTT(30)
    <3>2. Unread(c, i) = from[k + 1]
      BY <1>4, <1>5, <3>1 DEF Unread
    <3> HIDE DEF k
    <3>3. from[k + 1] = SeqAdd(ack, k)
      BY <3>1
    <3> HIDE DEF rest
    <3>4. SeqAdd(SeqAdd(ack, k), rest) = SeqAdd(ack, k + rest)
      BY <3>1, SeqAddSum
    <3> QED
      BY <3>1, <3>2, <3>3, <3>4 DEF rest
  <2> QED
    BY <2>1, <2>2
<1>7. RxAt(c, SeqAdd(ack, n))
  <2>1. c.front = Cell(c.tail, c.data_count)
    BY <1>4, <1>5
  <2>2. \A i \in 0 .. c.data_count - 1 : SeqAdd(Unread(c, i), c.data_count - i)
                                           = SeqAdd(ack, n)
    BY <1>1, <1>2, <1>4, <1>6
  <2> QED
    BY <2>1, <2>2 DEF RxAt
<1> QED
  BY <1>7 DEF c, n

\* xtcp_buf_read: the bytes read are the oldest ones, and the rest stays.
LEMMA TakenRxAt ==
    ASSUME NEW b \in Buf, NEW ack, RxAt(b, ack), NEW size \in Nat
    PROVE  RxAt(Taken(b, size), ack)
<1> DEFINE c == Taken(b, size)
           n == ReadSize(b, size)
           m == b.data_count
<1>1. b.tail \in Index /\ m \in 0 .. BufSize /\ BufSize \in Nat
  BY BufSizeAssumption DEF Buf
<1>2. n \in Nat /\ n <= m
  BY <1>1 DEF ReadSize, min
<1>3. /\ c.tail = Cell(b.tail, n) /\ c.front = b.front /\ c.data = b.data
      /\ c.data_count = m - n
  BY DEF Taken, Buf
<1>4. b.front = Cell(b.tail, m)
  BY DEF RxAt
<1> HIDE DEF c, n, m
<1>5. Cell(c.tail, m - n) = Cell(b.tail, m)
  BY <1>1, <1>2, <1>3, CellSum
<1>6. ASSUME NEW i \in 0 .. m - n - 1
      PROVE  SeqAdd(Unread(c, i), (m - n) - i) = ack
  <2>1. i \in Nat /\ n + i \in 0 .. m - 1 /\ n + i <= BufSize
    BY <1>1, <1>2
  <2>2. Unread(c, i) = Unread(b, n + i)
    BY <1>1, <1>2, <1>3, <2>1, CellSum DEF Unread
  <2>3. SeqAdd(Unread(b, n + i), m - (n + i)) = ack
    BY <2>1 DEF RxAt, m
  <2>4. (m - n) - i = m - (n + i)
    BY <1>1, <1>2
  <2> QED
    BY <2>2, <2>3, <2>4
<1> QED
  BY <1>3, <1>4, <1>5, <1>6 DEF RxAt, c

\* xtcp_buf_init: an empty buffer fits any place in a stream.
LEMMA EmptiedAt ==
    ASSUME NEW b \in Buf, NEW seq \in SeqNum, NEW ack
    PROVE  TxAt(Emptied(b), seq, seq) /\ RxAt(Emptied(b), ack)
<1> DEFINE c == Emptied(b)
<1>1. /\ c.front = 0 /\ c.tail = 0 /\ c.next = 0
      /\ c.data_count = 0 /\ c.unacked_count = 0
  BY DEF Emptied, Buf
<1> HIDE DEF c
<1>2. WaitSendCount(c) = 0 /\ Cell(0, 0) = 0 /\ SeqAdd(seq, 0) = seq
  BY <1>1, BufSizeAssumption, SeqSpaceAssumption DEF WaitSendCount, Cell, SeqAdd, SeqNum
<1> QED
  BY <1>1, <1>2 DEF TxAt, RxAt, c
-----------------------------------------------------------------------------
USE SeqSpaceAssumption, BufSizeAssumption

(***************************************************************************)
(* The inductive invariant.  TypeOK alone is not inductive: that an ACK    *)
(* takes no more bytes from tx_buf than it holds needs SeqAccounting, and  *)
(* that a segment is addressed to a peer needs that a block of a           *)
(* connection has one.  All of it is a property of single blocks.          *)
(***************************************************************************)
BlockInv(t) ==
    /\ t \in Tcb
    /\ t.state \in Connected => t.remote \in Peer /\ Accounted(t)
    /\ t.state \in {"CLOSED", "LISTEN"} => t.remote = NoPeer

IInv == /\ tcp_socket \in [Slot -> Tcb]
        /\ \A s \in Slot : BlockInv(tcp_socket[s])
        /\ out \in SUBSET Departing
        /\ event \in SUBSET Event
        /\ written \in [Slot -> SeqNum]
-----------------------------------------------------------------------------
(***************************************************************************)
(* tcp_send.                                                               *)
(***************************************************************************)
\* The values a block's buffers can take while it may send.
Countable(t) == t \in Tcb /\ t.tx_buf.unacked_count <= t.tx_buf.data_count

LEMMA SendSizeType ==
    ASSUME NEW t, Countable(t), NEW flags \in SUBSET Flag
    PROVE  /\ SendSize(t, flags) \in 0 .. BufSize
           /\ SendSize(t, flags) <= t.remote_win
           /\ t.tx_buf.unacked_count + SendSize(t, flags) <= t.tx_buf.data_count
<1>1. /\ t.tx_buf \in Buf /\ t.remote_win \in Nat /\ t.remote_mss \in Nat
  BY SizeAssumption DEF Countable, Tcb, Win
<1>2. /\ t.tx_buf.data_count \in 0 .. BufSize
      /\ t.tx_buf.unacked_count \in 0 .. BufSize
  BY <1>1 DEF Buf
<1>3. DataMax - SynOption(flags) \in Nat
  BY SizeAssumption DEF SynOption
<1> QED
  BY <1>1, <1>2, <1>3 DEF SendSize, WaitSendCount, min, Countable

LEMMA SentType ==
    ASSUME NEW t, Countable(t), NEW flags \in SUBSET Flag
    PROVE  LET u    == Sent(t, flags)
               size == SendSize(t, flags)
           IN  /\ u \in Tcb
               /\ u.tx_buf.unacked_count = t.tx_buf.unacked_count + size
               /\ u.tx_buf.data_count = t.tx_buf.data_count
               /\ u.next_seq = SeqAdd(t.next_seq, size + Control(flags))
               /\ u.unacked_seq = t.unacked_seq
               /\ u.state = t.state /\ u.remote = t.remote
<1> DEFINE size == SendSize(t, flags)
           b == ReadForSend(t.tx_buf, size)
<1>1. /\ size \in 0 .. BufSize /\ size <= t.remote_win
      /\ t.tx_buf.unacked_count + size <= t.tx_buf.data_count
  BY SendSizeType
<1>2. /\ t.tx_buf \in Buf /\ t.remote_win \in Win /\ t.next_seq \in SeqNum
  BY DEF Countable, Tcb
<1>3. /\ b \in Buf
      /\ b.unacked_count = t.tx_buf.unacked_count
      /\ b.data_count = t.tx_buf.data_count
  <2>1. b \in Buf
    BY <1>1, <1>2, ReadForSendType
  <2> QED
    BY <2>1, <1>2 DEF ReadForSend, Buf
<1> HIDE DEF b, size
<1>4. /\ AddUnacked(b, size) \in Buf
      /\ AddUnacked(b, size).unacked_count = t.tx_buf.unacked_count + size
      /\ AddUnacked(b, size).data_count = t.tx_buf.data_count
  <2>1. AddUnacked(b, size) \in Buf
    BY <1>1, <1>3, AddUnackedType
  <2> QED
    BY <2>1, <1>3 DEF AddUnacked, Buf
<1>5. SeqAdd(t.next_seq, size + Control(flags)) \in SeqNum
  <2>1. size + Control(flags) \in 0 .. SeqSpace
    BY <1>1 DEF Control
  <2> QED
    BY <1>2, <2>1, SeqAddType
<1>6. t.remote_win - size \in Win
  BY <1>1, <1>2, SizeAssumption DEF Win
<1>7. Sent(t, flags) = [t EXCEPT !.tx_buf = AddUnacked(b, size),
                                 !.remote_win = t.remote_win - size,
                                 !.next_seq = SeqAdd(t.next_seq, size + Control(flags))]
  BY DEF Sent, b, size
<1> DEFINE tb == AddUnacked(b, size)
           ns == SeqAdd(t.next_seq, size + Control(flags))
           rw == t.remote_win - size
<1>8. /\ tb \in Buf /\ ns \in SeqNum /\ rw \in Win
      /\ tb.unacked_count = t.tx_buf.unacked_count + size
      /\ tb.data_count = t.tx_buf.data_count
      /\ Sent(t, flags) = [t EXCEPT !.tx_buf = tb, !.remote_win = rw, !.next_seq = ns]
  BY <1>4, <1>5, <1>6, <1>7
<1>9. t \in Tcb /\ ns = SeqAdd(t.next_seq, size + Control(flags))
  BY DEF Countable
<1> HIDE DEF tb, ns, rw
<1>10. Sent(t, flags) \in Tcb
  BY <1>8, <1>9 DEF Tcb
<1>11. /\ Sent(t, flags).tx_buf = tb /\ Sent(t, flags).next_seq = ns
       /\ Sent(t, flags).unacked_seq = t.unacked_seq
       /\ Sent(t, flags).state = t.state /\ Sent(t, flags).remote = t.remote
  BY <1>8, <1>9 DEF Tcb
<1> QED
  BY <1>8, <1>9, <1>10, <1>11 DEF size

LEMMA RefusedType ==
    ASSUME NEW t, Countable(t), NEW flags \in SUBSET Flag
    PROVE  LET u == Refused(t, flags)
           IN  /\ u \in Tcb
               /\ u.tx_buf.unacked_count = t.tx_buf.unacked_count
               /\ u.tx_buf.data_count = t.tx_buf.data_count
               /\ u.next_seq = t.next_seq
               /\ u.unacked_seq = t.unacked_seq
               /\ u.state = t.state /\ u.remote = t.remote
<1> DEFINE b == ReadForSend(t.tx_buf, SendSize(t, flags))
<1>1. /\ t \in Tcb /\ t.tx_buf \in Buf
  BY DEF Countable, Tcb
<1>2. b \in Buf
  BY <1>1, SendSizeType, ReadForSendType
<1>3. b.unacked_count = t.tx_buf.unacked_count /\ b.data_count = t.tx_buf.data_count
  BY <1>1, <1>2 DEF ReadForSend, Buf
<1>4. Refused(t, flags) = [t EXCEPT !.tx_buf = b]
  BY DEF Refused
<1> HIDE DEF b
<1>5. Refused(t, flags) \in Tcb /\ Refused(t, flags).tx_buf = b
  BY <1>1, <1>2, <1>4 DEF Tcb
<1> QED
  BY <1>1, <1>3, <1>4, <1>5 DEF Tcb

\* next_seq is c control bits and the unacknowledged bytes ahead of
\* unacked_seq.
AheadBy(t, c) == t.next_seq = SeqAdd(t.unacked_seq, t.tx_buf.unacked_count + c)

\* tcp_send, whatever xip_out returns: the block keeps its type, and the
\* sequence numbers and the counters move together.
LEMMA AfterSendAccounts ==
    ASSUME NEW t, Countable(t), NEW flags \in SUBSET Flag, NEW r \in XipOut,
           AheadBy(t, 0)
    PROVE  LET u == AfterSend(t, flags, r)
           IN  /\ Countable(u)
               /\ AheadBy(u, IF r = "OK" THEN Control(flags) ELSE 0)
               /\ u.state = t.state /\ u.remote = t.remote
<1>1. CASE r = "OK"
  <2> DEFINE size == SendSize(t, flags)
             u == Sent(t, flags)
  <2>1. AfterSend(t, flags, r) = u
    BY <1>1 DEF AfterSend
  <2>2. /\ u \in Tcb
        /\ u.tx_buf.unacked_count = t.tx_buf.unacked_count + size
        /\ u.tx_buf.data_count = t.tx_buf.data_count
        /\ u.next_seq = SeqAdd(t.next_seq, size + Control(flags))
        /\ u.unacked_seq = t.unacked_seq
        /\ u.state = t.state /\ u.remote = t.remote
    BY SentType
  <2>3. /\ size \in Nat /\ t.tx_buf.unacked_count \in Nat
        /\ t.tx_buf.unacked_count + size <= t.tx_buf.data_count
        /\ t.tx_buf.data_count \in 0 .. BufSize
        /\ t.unacked_seq \in SeqNum
    BY SendSizeType DEF Countable, Tcb, Buf
  <2>4. Control(flags) \in {0, 1}
    BY DEF Control
  <2> HIDE DEF u, size
  <2>5. u.next_seq = SeqAdd(SeqAdd(t.unacked_seq, t.tx_buf.unacked_count),
                            size + Control(flags))
    BY <2>2, <2>3 DEF AheadBy
  <2>6. u.next_seq = SeqAdd(t.unacked_seq,
                            t.tx_buf.unacked_count + (size + Control(flags)))
    BY <2>3, <2>4, <2>5, SeqAddSum
  <2>7. t.tx_buf.unacked_count + (size + Control(flags))
          = u.tx_buf.unacked_count + Control(flags)
    BY <2>2, <2>3, <2>4
  <2> QED
    BY <1>1, <2>1, <2>2, <2>3, <2>6, <2>7 DEF AheadBy, Countable
<1>2. CASE r # "OK"
  <2>1. AfterSend(t, flags, r) = Refused(t, flags)
    BY <1>2 DEF AfterSend
  <2> QED
    BY <1>2, <2>1, RefusedType DEF AheadBy, Countable
<1> QED
  BY <1>1, <1>2

\* What tcp_send and tcp_send_reset hand to xip_out is a segment.
LEMMA SegmentType ==
    ASSUME NEW t, Countable(t), t.remote \in Peer, NEW flags \in SUBSET Flag
    PROVE  SegmentOf(t, flags) \in Departing
<1>1. /\ t.tx_buf \in Buf /\ t.rx_buf \in Buf
      /\ t.next_seq \in SeqNum /\ t.ack \in SeqNum /\ t.local_port \in Port \cup {0}
  BY DEF Countable, Tcb
<1>2. FreeCount(t.rx_buf) \in 0 .. BufSize
  BY <1>1 DEF FreeCount, Buf
<1>3. SendBytes(t.tx_buf, SendSize(t, flags)) \in Seq(Byte)
  <2> DEFINE size == SendSize(t, flags)
  <2>1. size \in 0 .. BufSize
    BY SendSizeType
  <2> HIDE DEF size
  <2>2. \A i \in 1 .. size : t.tx_buf.data[Cell(t.tx_buf.next, i - 1)] \in Byte
    <3> SUFFICES ASSUME NEW i \in 1 .. size
                 PROVE  t.tx_buf.data[Cell(t.tx_buf.next, i - 1)] \in Byte
      OBVIOUS
    <3>1. i - 1 \in 0 .. BufSize
      BY <2>1
    <3>2. t.tx_buf.next \in Index /\ t.tx_buf.data \in [Index -> Byte]
      BY <1>1 DEF Buf
    <3>3. Cell(t.tx_buf.next, i - 1) \in Index
      BY <3>1, <3>2, CellType
    <3> QED
      BY <3>2, <3>3
  <2>3. SendBytes(t.tx_buf, size) \in Seq(Byte)
    BY <2>1, <2>2 DEF SendBytes
  <2> QED
    BY <2>3 DEF size
<1> QED
  BY <1>1, <1>2, <1>3 DEF SegmentOf, Departing

LEMMA EmitType ==
    ASSUME NEW t, Countable(t), t.remote \in Peer, NEW flags \in SUBSET Flag,
           NEW r, Emit(t, flags, r)
    PROVE  out' \in SUBSET Departing
BY SegmentType DEF Emit

LEMMA SendResetType ==
    ASSUME NEW ack \in SeqNum, NEW port \in Port \cup {0}, NEW peer \in Peer,
           NEW r, SendReset(ack, port, peer, r)
    PROVE  out' \in SUBSET Departing
<1>1. /\ 0 \in SeqNum /\ 0 \in 0 .. BufSize /\ {"RST", "ACK"} \in SUBSET Flag
      /\ <<>> \in Seq(Byte)
  BY DEF SeqNum, Flag
<1> QED
  BY <1>1 DEF SendReset, Departing
-----------------------------------------------------------------------------
(***************************************************************************)
(* The steps of one block.                                                 *)
(***************************************************************************)
\* A block of a connection can send; one that is open or half-closed by its
\* application is ahead by its bytes alone.
LEMMA ConnectedCountable ==
    ASSUME NEW t, BlockInv(t), t.state \in Connected
    PROVE  Countable(t) /\ t.remote \in Peer
BY DEF BlockInv, Accounted, Countable

LEMMA EstablishedAhead ==
    ASSUME NEW t, BlockInv(t), t.state = "ESTABLISHED"
    PROVE  AheadBy(t, 0)
BY DEF BlockInv, Accounted, AheadBy, ControlInFlight, Connected

LEMMA FreedInv ==
    ASSUME NEW t \in Tcb
    PROVE  BlockInv(Freed(t))
<1>1. Freed(t) \in Tcb /\ Freed(t).state = "FREE"
  BY DEF Freed, Tcb, TcpState
<1> QED
  BY <1>1 DEF BlockInv, Connected

\* An arriving segment's fields.
LEMMA ArrivingType ==
    ASSUME NEW seg \in Arriving
    PROVE  /\ seg.from \in Peer /\ seg.dest_port \in Port
           /\ seg.seq \in SeqNum /\ seg.ack \in SeqNum
           /\ seg.flags \in SUBSET Flag /\ seg.window \in Win /\ seg.mss \in Win
           /\ seg.len \in 0 .. SeqSpace
BY InputAssumption DEF Arriving

LEMMA HeardInv ==
    ASSUME NEW s \in Slot, NEW seg \in Arriving, BlockInv(tcp_socket[s])
    PROVE  LET t == tcp_socket[s]
               u == Heard(s, seg)
           IN  /\ BlockInv(u)
               /\ u.state = t.state /\ u.remote = t.remote /\ u.ack = t.ack
               /\ u.tx_buf = t.tx_buf /\ u.rx_buf = t.rx_buf
               /\ u.next_seq = t.next_seq /\ u.unacked_seq = t.unacked_seq
               /\ u.local_port = t.local_port /\ u.handler = t.handler
              /\ u.syn = t.syn
<1> DEFINE t == tcp_socket[s]
           u == Heard(s, seg)
<1>1. t \in Tcb /\ seg.window \in Win
  BY ArrivingType DEF BlockInv
<1>2. u = [t EXCEPT !.remote_win = seg.window]
  BY DEF Heard
<1>3. u \in Tcb
  BY <1>1, <1>2 DEF Tcb
<1>4. /\ u.state = t.state /\ u.remote = t.remote /\ u.ack = t.ack
      /\ u.tx_buf = t.tx_buf /\ u.rx_buf = t.rx_buf
      /\ u.next_seq = t.next_seq /\ u.unacked_seq = t.unacked_seq
      /\ u.local_port = t.local_port /\ u.handler = t.handler
      /\ u.syn = t.syn
  BY <1>1, <1>2 DEF Tcb
<1> HIDE DEF u
<1> QED
  BY <1>3, <1>4 DEF BlockInv, Accounted, ControlInFlight, u
-----------------------------------------------------------------------------
(***************************************************************************)
(* ESTABLISHED.                                                            *)
(***************************************************************************)
\* An ACK takes no more from tx_buf than is counted as unacknowledged: the
\* plain comparison refuses ack numbers beyond a wrap, it does not misjudge
\* them.
LEMMA AckedType ==
    ASSUME NEW t, Countable(t), AheadBy(t, 0), NEW seg \in Arriving
    PROVE  LET u == Acknowledged(t, seg)
           IN  /\ Countable(u) /\ AheadBy(u, 0)
               /\ u.state = t.state /\ u.remote = t.remote /\ u.ack = t.ack
               /\ u.rx_buf = t.rx_buf /\ u.syn = t.syn
<1>1. CASE ~AckInRange(t, seg)
  BY <1>1 DEF Acknowledged
<1>2. CASE AckInRange(t, seg)
  <2> DEFINE n == seg.ack - t.unacked_seq
             b == AddAcked(t.tx_buf, n)
  <2>1. /\ t \in Tcb /\ t.tx_buf \in Buf
        /\ t.tx_buf.unacked_count \in 0 .. BufSize
        /\ t.tx_buf.data_count \in 0 .. BufSize
        /\ t.tx_buf.unacked_count <= t.tx_buf.data_count
        /\ t.unacked_seq \in SeqNum /\ t.next_seq \in SeqNum /\ seg.ack \in SeqNum
    BY ArrivingType DEF Countable, Tcb, Buf
  <2>2. t.unacked_seq <= seg.ack /\ seg.ack <= t.next_seq
    BY <1>2 DEF AckInRange
  <2>3. t.next_seq = SeqAdd(t.unacked_seq, t.tx_buf.unacked_count)
    BY <2>1 DEF AheadBy
  <2>4. n \in Nat /\ n <= t.tx_buf.unacked_count
    BY <2>1, <2>2, <2>3 DEF SeqAdd, SeqNum
  <2>5. t.next_seq = SeqAdd(seg.ack, t.tx_buf.unacked_count - n)
    BY <2>1, <2>2, <2>3 DEF SeqAdd, SeqNum
  <2>6. b \in Buf
    BY <2>1, <2>4, AddAckedType
  <2>7. /\ b.unacked_count = t.tx_buf.unacked_count - n
        /\ b.data_count = t.tx_buf.data_count - n
    BY <2>1 DEF AddAcked, Buf
  <2>8. Acknowledged(t, seg) = [t EXCEPT !.tx_buf = b, !.unacked_seq = seg.ack]
    BY <1>2 DEF Acknowledged
  <2> HIDE DEF b, n
  <2>9. /\ Acknowledged(t, seg) \in Tcb
        /\ Acknowledged(t, seg).tx_buf = b
        /\ Acknowledged(t, seg).unacked_seq = seg.ack
        /\ Acknowledged(t, seg).next_seq = t.next_seq
        /\ Acknowledged(t, seg).state = t.state
        /\ Acknowledged(t, seg).remote = t.remote
        /\ Acknowledged(t, seg).ack = t.ack
        /\ Acknowledged(t, seg).rx_buf = t.rx_buf
        /\ Acknowledged(t, seg).syn = t.syn
    BY <2>1, <2>6, <2>8 DEF Tcb
  <2>10. b.unacked_count <= b.data_count
    BY <2>1, <2>4, <2>7
  <2>11. t.next_seq = SeqAdd(seg.ack, b.unacked_count + 0)
    BY <2>1, <2>4, <2>5, <2>7
  <2> QED
    BY <2>9, <2>10, <2>11 DEF Countable, AheadBy
<1> QED
  BY <1>1, <1>2

LEMMA PayloadType ==
    ASSUME NEW seg \in Arriving
    PROVE  Payload(seg) \in Seq(Byte) /\ Len(Payload(seg)) = seg.len
<1>1. seg.seq \in SeqNum /\ seg.len \in 0 .. SeqSpace
  BY ArrivingType
<1>2. \A i \in 1 .. seg.len : SeqAdd(seg.seq, i - 1) \in Byte
  BY <1>1 DEF SeqAdd, SeqNum, Byte
<1> QED
  BY <1>1, <1>2 DEF Payload

LEMMA ReceivedType ==
    ASSUME NEW t, Countable(t), AheadBy(t, 0), NEW seg \in Arriving
    PROVE  LET u == Received(t, seg)
           IN  /\ Countable(u) /\ AheadBy(u, 0)
               /\ u.state = t.state /\ u.remote = t.remote
<1> DEFINE b == Written(t.rx_buf, Payload(seg))
           a == SeqAdd(t.ack, WriteSize(t.rx_buf, Payload(seg)) + Control(seg.flags))
<1>1. t \in Tcb /\ t.rx_buf \in Buf /\ t.ack \in SeqNum
  BY DEF Countable, Tcb
<1>2. b \in Buf
  BY <1>1, PayloadType, WrittenType
<1>3. a \in SeqNum
  <2>1. t.rx_buf.data_count \in Nat
    BY <1>1 DEF Buf
  <2>2. /\ WriteSize(t.rx_buf, Payload(seg)) \in Nat
        /\ WriteSize(t.rx_buf, Payload(seg)) <= BufSize
    BY <1>1, <2>1, PayloadType, WriteSizeType
  <2>3. WriteSize(t.rx_buf, Payload(seg)) + Control(seg.flags) \in 0 .. SeqSpace
    BY <2>2 DEF Control
  <2> QED
    BY <1>1, <2>3, SeqAddType
<1> DEFINE y == t.syn \/ "SYN" \in seg.flags
<1>4. Received(t, seg) = [t EXCEPT !.rx_buf = b, !.ack = a, !.syn = y]
  BY DEF Received
<1>6. y \in BOOLEAN
  OBVIOUS
<1> HIDE DEF a, b, y
<1>5. /\ Received(t, seg) \in Tcb
      /\ Received(t, seg).tx_buf = t.tx_buf
      /\ Received(t, seg).next_seq = t.next_seq
      /\ Received(t, seg).unacked_seq = t.unacked_seq
      /\ Received(t, seg).state = t.state
      /\ Received(t, seg).remote = t.remote
  BY <1>1, <1>2, <1>3, <1>4, <1>6 DEF Tcb
<1> QED
  BY <1>5 DEF Countable, AheadBy

LEMMA AfterDataType ==
    ASSUME NEW s \in Slot, NEW seg \in Arriving, BlockInv(tcp_socket[s]),
           tcp_socket[s].state = "ESTABLISHED"
    PROVE  LET t == AfterData(s, seg)
           IN  /\ Countable(t) /\ AheadBy(t, 0)
               /\ t.state = "ESTABLISHED" /\ t.remote \in Peer
<1> DEFINE h == Heard(s, seg)
           a == Acknowledged(h, seg)
<1>1. BlockInv(h) /\ h.state = "ESTABLISHED"
  BY HeardInv
<1>2. Countable(h) /\ AheadBy(h, 0) /\ h.remote \in Peer
  BY <1>1, ConnectedCountable, EstablishedAhead DEF Connected
<1>3. /\ Countable(a) /\ AheadBy(a, 0)
      /\ a.state = "ESTABLISHED" /\ a.remote \in Peer
  BY <1>1, <1>2, AckedType
<1> QED
  BY <1>3, ReceivedType DEF AfterData

\* A block that is ahead by its bytes alone satisfies the invariant when it
\* is open, or when it has been closed by the peer.
LEMMA AheadInv ==
    ASSUME NEW t, Countable(t), NEW c \in {0, 1}, AheadBy(t, c), t.remote \in Peer,
           c \in ControlInFlight(t), t.state \in Connected
    PROVE  BlockInv(t)
BY DEF BlockInv, Accounted, Countable, AheadBy, Connected
-----------------------------------------------------------------------------
(***************************************************************************)
(* Every step keeps the invariant.                                         *)
(***************************************************************************)
LEMMA OneBlock ==
    ASSUME IInv, NEW s \in Slot, NEW t, BlockInv(t), Update(s, t),
           out' \in SUBSET Departing, event' \in SUBSET Event,
           written' \in [Slot -> SeqNum]
    PROVE  IInv'
<1>1. tcp_socket' = [tcp_socket EXCEPT ![s] = t]
  BY DEF Update
<1>2. tcp_socket' \in [Slot -> Tcb]
  BY <1>1 DEF IInv, BlockInv
<1>3. \A r \in Slot : BlockInv(tcp_socket'[r])
  BY <1>1 DEF IInv
<1> QED
  BY <1>2, <1>3 DEF IInv

LEMMA NotifyType ==
    ASSUME NEW s \in Slot, NEW t \in Tcb,
           NEW e \in {"CONNECTED", "DATA_RECV", "CLOSED"}, Notify(s, t, e)
    PROVE  event' \in SUBSET Event
BY DEF Notify, Event, Tcb

LEMMA SilentType ==
    ASSUME Silent
    PROVE  out' \in SUBSET Departing /\ event' \in SUBSET Event
BY DEF Silent

\* xtcp_alloc.
LEMMA AllocatedType ==
    ASSUME NEW t \in Tcb, NEW iss \in InitSeq
    PROVE  /\ Allocated(t, iss) \in Tcb
           /\ Allocated(t, iss).remote = NoPeer
           /\ Allocated(t, iss).tx_buf = Emptied(t.tx_buf)
           /\ Allocated(t, iss).next_seq = iss
           /\ Allocated(t, iss).unacked_seq = iss
<1>1. /\ Emptied(t.tx_buf) \in Buf /\ Emptied(t.rx_buf) \in Buf
      /\ iss \in SeqNum /\ 0 \in SeqNum
      /\ MssDefault \in Win
  BY EmptiedType, SizeAssumption, InputAssumption DEF Tcb, SeqNum
<1> QED
  BY <1>1 DEF Allocated, Tcb

LEMMA ChildType ==
    ASSUME NEW t \in Tcb, NEW listen \in Tcb, NEW seg \in Arriving,
           NEW iss \in InitSeq
    PROVE  LET c == Child(t, listen, seg, iss)
           IN  /\ Countable(c) /\ AheadBy(c, 0)
               /\ c.state = "SYN_RECVD" /\ c.remote \in Peer
<1> DEFINE a == Allocated(t, iss)
           c == Child(t, listen, seg, iss)
           ack == SeqAdd(seg.seq, 1)
<1>1. /\ seg.from \in Peer /\ seg.window \in Win /\ seg.mss \in Win
      /\ seg.seq \in SeqNum
  BY ArrivingType
<1>2. ack \in SeqNum
  BY <1>1, SeqAddType
<1>3. /\ a \in Tcb /\ a.tx_buf = Emptied(t.tx_buf)
      /\ a.next_seq = iss /\ a.unacked_seq = iss /\ iss \in SeqNum
  BY AllocatedType, InputAssumption
<1>4. c = [a EXCEPT !.state = "SYN_RECVD", !.local_port = listen.local_port,
                    !.handler = listen.handler, !.remote = seg.from,
                    !.ack = ack, !.remote_win = seg.window,
                    !.remote_mss = seg.mss]
  BY DEF Child
<1>5. Emptied(t.tx_buf).unacked_count = 0 /\ Emptied(t.tx_buf).data_count = 0
  BY DEF Emptied, Tcb, Buf
<1> HIDE DEF a, c, ack
<1>6. /\ c \in Tcb /\ c.tx_buf = a.tx_buf
      /\ c.next_seq = a.next_seq /\ c.unacked_seq = a.unacked_seq
      /\ c.state = "SYN_RECVD" /\ c.remote = seg.from
  BY <1>1, <1>2, <1>3, <1>4 DEF Tcb, TcpState
<1>7. iss = SeqAdd(iss, 0 + 0)
  BY <1>3 DEF SeqAdd, SeqNum
<1> QED
  BY <1>1, <1>3, <1>5, <1>6, <1>7 DEF Countable, AheadBy, c

LEMMA AcceptKeeps ==
    ASSUME IInv, NEW s \in Slot, NEW seg \in Arriving, AcceptIn(s, seg)
    PROVE  IInv'
<1> PICK n \in Slot, iss \in InitSeq, r \in XipOut :
      LET child == Child(tcp_socket[n], tcp_socket[s], seg, iss)
          after == AfterSend(child, {"SYN", "ACK"}, r)
      IN  /\ First(n, FreeSlots)
          /\ tcp_socket' = [tcp_socket EXCEPT
                              ![s] = Heard(s, seg),
                              ![n] = IF r = "OK" THEN after ELSE Freed(after)]
          /\ Emit(child, {"SYN", "ACK"}, r)
          /\ written' = [written EXCEPT ![n] = SeqAdd(iss, 1)]
  BY DEF AcceptIn
<1> DEFINE child == Child(tcp_socket[n], tcp_socket[s], seg, iss)
           after == AfterSend(child, {"SYN", "ACK"}, r)
           new == IF r = "OK" THEN after ELSE Freed(after)
<1>0. tcp_socket \in [Slot -> Tcb] /\ {"SYN", "ACK"} \in SUBSET Flag
      /\ BlockInv(tcp_socket[s])
  BY DEF IInv, Flag
<1>1. /\ Countable(child) /\ AheadBy(child, 0)
      /\ child.state = "SYN_RECVD" /\ child.remote \in Peer
  BY <1>0, ChildType
<1>2. /\ Countable(after)
      /\ AheadBy(after, IF r = "OK" THEN Control({"SYN", "ACK"}) ELSE 0)
      /\ after.state = "SYN_RECVD" /\ after.remote \in Peer
  BY <1>0, <1>1, AfterSendAccounts
<1>3. BlockInv(new)
  <2>1. CASE r = "OK"
    <3>1. Control({"SYN", "ACK"}) = 1
      BY DEF Control
    <3>2. AheadBy(after, 1) /\ 1 \in ControlInFlight(after) /\ after.state \in Connected
      BY <1>2, <2>1, <3>1 DEF ControlInFlight, Connected
    <3>3. BlockInv(after)
      BY <1>2, <3>2, AheadInv
    <3> QED
      BY <2>1, <3>3
  <2>2. CASE r # "OK"
    BY <1>2, <2>2, FreedInv DEF Countable
  <2> QED
    BY <2>1, <2>2
<1>4. out' \in SUBSET Departing
  BY <1>0, <1>1, EmitType
<1>5. BlockInv(Heard(s, seg))
  BY <1>0, HeardInv
<1>6. written' \in [Slot -> SeqNum]
  <2>1. SeqAdd(iss, 1) \in SeqNum
    BY SeqAddType, InputAssumption
  <2> QED
    BY <2>1 DEF IInv
<1>7. event' \in SUBSET Event
  BY DEF AcceptIn
<1>8. tcp_socket' = [tcp_socket EXCEPT ![s] = Heard(s, seg), ![n] = new]
  OBVIOUS
<1> HIDE DEF new
<1>9. tcp_socket' \in [Slot -> Tcb]
  BY <1>0, <1>3, <1>5, <1>8 DEF BlockInv
<1>10. \A q \in Slot : BlockInv(tcp_socket'[q])
  BY <1>0, <1>3, <1>5, <1>8 DEF IInv
<1> QED
  BY <1>4, <1>6, <1>7, <1>9, <1>10 DEF IInv

\* The steps of xtcp_in that leave every block as HeardInv does, or free one.
LEMMA ResetKeeps ==
    ASSUME IInv, NEW s \in Slot, NEW seg \in Arriving,
           AcceptFullIn(s, seg) \/ NotSynIn(s, seg) \/ WrongSeqIn(s, seg)
             \/ IgnoredIn(s, seg)
    PROVE  IInv'
<1>1. /\ BlockInv(tcp_socket[s]) /\ written \in [Slot -> SeqNum]
      /\ tcp_socket[s].local_port \in Port \cup {0}
      /\ seg.from \in Peer /\ seg.seq \in SeqNum /\ seg.dest_port \in Port \cup {0}
      /\ SeqAdd(seg.seq, 1) \in SeqNum
  BY ArrivingType, SeqAddType DEF IInv, BlockInv, Tcb
<1>2. BlockInv(Heard(s, seg))
  BY <1>1, HeardInv
<1>3. Update(s, Heard(s, seg)) /\ written' = written
  BY DEF AcceptFullIn, NotSynIn, WrongSeqIn, IgnoredIn, InSequence
<1>4. out' \in SUBSET Departing
  BY <1>1, SendResetType, SilentType
     DEF AcceptFullIn, NotSynIn, WrongSeqIn, IgnoredIn
<1>5. event' \in SUBSET Event
  BY SilentType DEF AcceptFullIn, NotSynIn, WrongSeqIn, IgnoredIn
<1> QED
  BY <1>1, <1>2, <1>3, <1>4, <1>5, OneBlock

LEMMA SynRecvdKeeps ==
    ASSUME IInv, NEW s \in Slot, NEW seg \in Arriving, SynRecvdIn(s, seg)
    PROVE  IInv'
<1> DEFINE h == Heard(s, seg)
           u == [h EXCEPT !.unacked_seq = SeqAdd(h.unacked_seq, 1),
                          !.state = "ESTABLISHED"]
<1>1. /\ BlockInv(tcp_socket[s]) /\ tcp_socket[s] \in Tcb
      /\ tcp_socket[s].state = "SYN_RECVD"
  BY DEF IInv, SynRecvdIn, InSequence
<1>2. BlockInv(h) /\ h.state = "SYN_RECVD"
  BY <1>1, HeardInv
<1>3. /\ h \in Tcb /\ h.remote \in Peer /\ h.unacked_seq \in SeqNum /\ h.tx_buf \in Buf
      /\ h.tx_buf.unacked_count <= h.tx_buf.data_count
      /\ h.next_seq = SeqAdd(h.unacked_seq, h.tx_buf.unacked_count + 1)
  BY <1>2 DEF BlockInv, Accounted, Connected, ControlInFlight, Tcb
<1>4. SeqAdd(h.unacked_seq, 1) \in SeqNum
  BY <1>3, SeqAddType
<1>5. h.tx_buf.unacked_count \in 0 .. BufSize
  BY <1>3 DEF Buf
<1>6. h.next_seq = SeqAdd(SeqAdd(h.unacked_seq, 1), h.tx_buf.unacked_count + 0)
  BY <1>3, <1>5, SeqAddSum
<1>7. Update(s, u) /\ Notify(s, tcp_socket[s], "CONNECTED") /\ out' = {}
      /\ written' = written
  BY DEF SynRecvdIn, InSequence
<1> HIDE DEF h
<1>8. /\ u \in Tcb /\ u.tx_buf = h.tx_buf /\ u.next_seq = h.next_seq
      /\ u.unacked_seq = SeqAdd(h.unacked_seq, 1)
      /\ u.state = "ESTABLISHED" /\ u.remote = h.remote
  BY <1>3, <1>4 DEF Tcb, TcpState
<1> HIDE DEF u
<1>9. Countable(u) /\ AheadBy(u, 0) /\ u.remote \in Peer
  BY <1>3, <1>6, <1>8 DEF Countable, AheadBy
<1>10. BlockInv(u)
  BY <1>8, <1>9, AheadInv DEF ControlInFlight, Connected
<1>11. event' \in SUBSET Event
  BY <1>1, <1>7, NotifyType
<1> QED
  BY <1>7, <1>10, <1>11, OneBlock DEF IInv

LEMMA FinWait1Keeps ==
    ASSUME IInv, NEW s \in Slot, NEW seg \in Arriving, FinWait1In(s, seg)
    PROVE  IInv'
<1> DEFINE h == Heard(s, seg)
           u == [h EXCEPT !.state = "FIN_WAIT_2"]
           t == IF "FIN" \in seg.flags THEN Freed(h) ELSE u
<1>1. BlockInv(h) /\ h.state = "FIN_WAIT_1"
  BY HeardInv DEF IInv, FinWait1In, InSequence
<1>2. Update(s, t) /\ Silent /\ written' = written
  BY DEF FinWait1In, InSequence
<1> HIDE DEF h
<1>3. /\ u \in Tcb /\ u.state = "FIN_WAIT_2" /\ u.remote = h.remote
      /\ u.tx_buf = h.tx_buf /\ u.next_seq = h.next_seq
      /\ u.unacked_seq = h.unacked_seq
  BY <1>1 DEF BlockInv, Tcb, TcpState
<1> HIDE DEF u
<1>4. BlockInv(u)
  BY <1>1, <1>3 DEF BlockInv, Accounted, Connected, ControlInFlight
<1>5. BlockInv(Freed(h))
  BY <1>1, FreedInv DEF BlockInv
<1>6. BlockInv(t)
  BY <1>4, <1>5
<1> HIDE DEF t
<1> QED
  BY <1>2, <1>6, SilentType, OneBlock DEF IInv

LEMMA FinWait2Keeps ==
    ASSUME IInv, NEW s \in Slot, NEW seg \in Arriving, FinWait2In(s, seg)
    PROVE  IInv'
<1> DEFINE h == Heard(s, seg)
           t == [h EXCEPT !.ack = SeqAdd(seg.seq, 1)]
<1>1. BlockInv(h) /\ h.state = "FIN_WAIT_2"
  BY HeardInv DEF IInv, FinWait2In, InSequence
<1>2. PICK r \in XipOut : /\ Update(s, Freed(AfterSend(t, {"ACK"}, r)))
                          /\ Emit(t, {"ACK"}, r)
  BY DEF FinWait2In
<1>3. event' = {} /\ written' = written
  BY DEF FinWait2In, InSequence
<1>4. SeqAdd(seg.seq, 1) \in SeqNum /\ {"ACK"} \in SUBSET Flag
  BY ArrivingType, SeqAddType DEF Flag
<1> HIDE DEF h
<1>5. Countable(h) /\ h.remote \in Peer
  BY <1>1, ConnectedCountable DEF Connected
<1>6. /\ t \in Tcb /\ t.tx_buf = h.tx_buf /\ t.remote = h.remote
  BY <1>4, <1>5 DEF Countable, Tcb
<1> HIDE DEF t
<1>7. Countable(t) /\ t.remote \in Peer
  BY <1>5, <1>6 DEF Countable
<1>8. AfterSend(t, {"ACK"}, r) \in Tcb
  BY <1>4, <1>7, SentType, RefusedType DEF AfterSend
<1>9. BlockInv(Freed(AfterSend(t, {"ACK"}, r)))
  BY <1>8, FreedInv
<1>10. out' \in SUBSET Departing
  BY <1>2, <1>4, <1>7, EmitType
<1> QED
  BY <1>2, <1>3, <1>9, <1>10, OneBlock DEF IInv

LEMMA LastAckKeeps ==
    ASSUME IInv, NEW s \in Slot, NEW seg \in Arriving, LastAckIn(s, seg)
    PROVE  IInv'
<1>1. /\ Update(s, Freed(Heard(s, seg))) /\ Notify(s, tcp_socket[s], "CLOSED")
      /\ out' = {} /\ written' = written
  BY DEF LastAckIn, InSequence
<1>2. tcp_socket[s] \in Tcb /\ BlockInv(Heard(s, seg))
  BY HeardInv DEF IInv
<1>3. BlockInv(Freed(Heard(s, seg)))
  BY <1>2, FreedInv DEF BlockInv
<1>4. event' \in SUBSET Event
  BY <1>1, <1>2, NotifyType
<1> QED
  BY <1>1, <1>3, <1>4, OneBlock DEF IInv

\* The answer to a segment that continues the stream (no FIN in it).
LEMMA AnswerInv ==
    ASSUME NEW t, Countable(t), AheadBy(t, 0), t.state = "ESTABLISHED",
           t.remote \in Peer, NEW r \in XipOut
    PROVE  BlockInv(AfterSend(t, {"ACK"}, r))
<1>1. Control({"ACK"}) = 0 /\ {"ACK"} \in SUBSET Flag
  BY DEF Control, Flag
<1> DEFINE u == AfterSend(t, {"ACK"}, r)
<1>2. /\ Countable(u) /\ AheadBy(u, 0)
      /\ u.state = "ESTABLISHED" /\ u.remote \in Peer
  BY <1>1, AfterSendAccounts
<1> HIDE DEF u
<1>3. BlockInv(u)
  BY <1>2, AheadInv DEF ControlInFlight, Connected
<1> QED
  BY <1>3 DEF u

LEMMA EstablishedDataKeeps ==
    ASSUME IInv, NEW s \in Slot, NEW seg \in Arriving,
           EstablishedDataIn(s, seg) \/ EstablishedAckIn(s, seg)
    PROVE  IInv'
<1> DEFINE t == AfterData(s, seg)
<1>1. /\ tcp_socket[s].state = "ESTABLISHED" /\ BlockInv(tcp_socket[s])
      /\ tcp_socket[s] \in Tcb /\ written' = written /\ {"ACK"} \in SUBSET Flag
  BY DEF IInv, EstablishedDataIn, EstablishedAckIn, InSequence, Flag
<1>2. /\ Countable(t) /\ AheadBy(t, 0)
      /\ t.state = "ESTABLISHED" /\ t.remote \in Peer
  BY <1>1, AfterDataType
<1>3. \/ \E r \in XipOut : Update(s, AfterSend(t, {"ACK"}, r)) /\ Emit(t, {"ACK"}, r)
      \/ Update(s, t) /\ out' = {}
  BY DEF EstablishedDataIn, EstablishedAckIn
<1>4. event' \in SUBSET Event
  BY <1>1, NotifyType DEF EstablishedDataIn, EstablishedAckIn
<1> HIDE DEF t
<1>5. CASE \E r \in XipOut : Update(s, AfterSend(t, {"ACK"}, r)) /\ Emit(t, {"ACK"}, r)
  <2>1. PICK r \in XipOut : Update(s, AfterSend(t, {"ACK"}, r)) /\ Emit(t, {"ACK"}, r)
    BY <1>5
  <2>2. BlockInv(AfterSend(t, {"ACK"}, r))
    BY <1>2, AnswerInv
  <2>3. out' \in SUBSET Departing
    BY <1>1, <1>2, <2>1, EmitType
  <2> QED
    BY <1>1, <1>4, <2>1, <2>2, <2>3, OneBlock DEF IInv
<1>6. CASE Update(s, t) /\ out' = {}
  <2>1. BlockInv(t)
    BY <1>2, AheadInv DEF ControlInFlight, Connected
  <2> QED
    BY <1>1, <1>4, <1>6, <2>1, OneBlock DEF IInv
<1> QED
  BY <1>3, <1>5, <1>6

LEMMA EstablishedFinKeeps ==
    ASSUME IInv, NEW s \in Slot, NEW seg \in Arriving, EstablishedFinIn(s, seg)
    PROVE  IInv'
<1> DEFINE d == AfterData(s, seg)
           t == [d EXCEPT !.state = "LAST_ACK", !.ack = SeqAdd(seg.seq, 1)]
           flags == {"FIN", "ACK"}
<1>1. /\ tcp_socket[s].state = "ESTABLISHED" /\ BlockInv(tcp_socket[s])
      /\ written' = written /\ event' = {} /\ flags \in SUBSET Flag
      /\ SeqAdd(seg.seq, 1) \in SeqNum
  BY ArrivingType, SeqAddType DEF IInv, EstablishedFinIn, InSequence, Flag
<1>2. Countable(d) /\ AheadBy(d, 0) /\ d.remote \in Peer
  BY <1>1, AfterDataType
<1>3. PICK r \in XipOut : Update(s, AfterSend(t, flags, r)) /\ Emit(t, flags, r)
  BY DEF EstablishedFinIn
<1> HIDE DEF d, flags
<1>4. /\ t \in Tcb /\ t.tx_buf = d.tx_buf /\ t.next_seq = d.next_seq
      /\ t.unacked_seq = d.unacked_seq
      /\ t.state = "LAST_ACK" /\ t.remote = d.remote
  BY <1>1, <1>2 DEF Countable, Tcb, TcpState
<1> HIDE DEF t
<1>5. Countable(t) /\ AheadBy(t, 0) /\ t.remote \in Peer
  BY <1>2, <1>4 DEF Countable, AheadBy
<1> DEFINE u == AfterSend(t, flags, r)
           c == IF r = "OK" THEN Control(flags) ELSE 0
<1>6. /\ Countable(u) /\ AheadBy(u, c)
      /\ u.state = "LAST_ACK" /\ u.remote \in Peer
  BY <1>1, <1>4, <1>5, AfterSendAccounts
<1>7. c \in {0, 1}
  BY DEF Control
<1>8. BlockInv(u)
  <2> HIDE DEF u, c
  <2> QED
    BY <1>6, <1>7, AheadInv DEF ControlInFlight, Connected
<1>9. out' \in SUBSET Departing
  BY <1>1, <1>3, <1>5, EmitType
<1> QED
  BY <1>1, <1>3, <1>8, <1>9, OneBlock DEF IInv

\* xtcp_in.
LEMMA SegmentKeeps ==
    ASSUME IInv, NEW seg \in Arriving, xtcp_in(seg)
    PROVE  IInv'
<1>1. CASE NoBlockIn(seg)
  <2>1. /\ seg.from \in Peer /\ seg.dest_port \in Port \cup {0}
        /\ SeqAdd(seg.seq, 1) \in SeqNum
    BY ArrivingType, SeqAddType
  <2>2. out' \in SUBSET Departing
    BY <1>1, <2>1, SendResetType DEF NoBlockIn
  <2> QED
    BY <1>1, <2>2 DEF NoBlockIn, IInv
<1>2. ASSUME NEW s \in Slot,
             \/ AcceptIn(s, seg)   \/ AcceptFullIn(s, seg) \/ NotSynIn(s, seg)
             \/ WrongSeqIn(s, seg) \/ SynRecvdIn(s, seg)
             \/ FinWait1In(s, seg) \/ FinWait2In(s, seg)
             \/ LastAckIn(s, seg)  \/ IgnoredIn(s, seg)
             \/ EstablishedFinIn(s, seg) \/ EstablishedDataIn(s, seg)
             \/ EstablishedAckIn(s, seg)
      PROVE  IInv'
  BY <1>2, AcceptKeeps, ResetKeeps, SynRecvdKeeps, FinWait1Keeps, FinWait2Keeps,
     LastAckKeeps, EstablishedFinKeeps, EstablishedDataKeeps
<1> QED
  BY <1>1, <1>2 DEF xtcp_in
-----------------------------------------------------------------------------
(***************************************************************************)
(* The calls of an application.                                            *)
(***************************************************************************)
LEMMA OpenKeeps ==
    ASSUME IInv, NEW app \in App, xtcp_open(app)
    PROVE  IInv'
<1>1. PICK s \in Slot, iss \in InitSeq :
        Update(s, [Allocated(tcp_socket[s], iss) EXCEPT !.state = "CLOSED",
                                                       !.handler = app])
  BY DEF xtcp_open
<1> DEFINE a == Allocated(tcp_socket[s], iss)
           u == [a EXCEPT !.state = "CLOSED", !.handler = app]
<1>2. Silent /\ written' = written
  BY DEF xtcp_open
<1>3. a \in Tcb /\ a.remote = NoPeer
  BY AllocatedType DEF IInv
<1> HIDE DEF a
<1>4. u \in Tcb /\ u.state = "CLOSED" /\ u.remote = NoPeer
  BY <1>3 DEF Tcb, TcpState
<1>5. Update(s, u)
  BY <1>1 DEF a
<1> HIDE DEF u
<1>6. BlockInv(u)
  BY <1>4 DEF BlockInv, Connected
<1> QED
  BY <1>2, <1>5, <1>6, SilentType, OneBlock DEF IInv

LEMMA BindKeeps ==
    ASSUME IInv, NEW s \in Slot, NEW port \in Port, xtcp_bind(s, port)
    PROVE  IInv'
<1> DEFINE u == [tcp_socket[s] EXCEPT !.local_port = port]
<1>1. /\ tcp_socket[s] \in Tcb /\ BlockInv(tcp_socket[s])
      /\ tcp_socket[s].state = "CLOSED"
      /\ Silent /\ written' = written /\ Update(s, u)
  BY DEF IInv, xtcp_bind
<1>2. u \in Tcb /\ u.state = "CLOSED" /\ u.remote = tcp_socket[s].remote
  BY <1>1 DEF Tcb
<1> HIDE DEF u
<1>3. BlockInv(u)
  BY <1>1, <1>2 DEF BlockInv, Connected
<1> QED
  BY <1>1, <1>3, SilentType, OneBlock DEF IInv

LEMMA ListenKeeps ==
    ASSUME IInv, NEW s \in Slot, xtcp_listen(s)
    PROVE  IInv'
<1> DEFINE u == [tcp_socket[s] EXCEPT !.state = "LISTEN"]
<1>1. /\ tcp_socket[s] \in Tcb /\ BlockInv(tcp_socket[s])
      /\ tcp_socket[s].state = "CLOSED"
      /\ Silent /\ written' = written /\ Update(s, u)
  BY DEF IInv, xtcp_listen
<1>2. u \in Tcb /\ u.state = "LISTEN" /\ u.remote = tcp_socket[s].remote
  BY <1>1 DEF Tcb, TcpState
<1> HIDE DEF u
<1>3. BlockInv(u)
  BY <1>1, <1>2 DEF BlockInv, Connected
<1> QED
  BY <1>1, <1>3, SilentType, OneBlock DEF IInv

LEMMA CloseKeeps ==
    ASSUME IInv, NEW s \in Slot, xtcp_close(s)
    PROVE  IInv'
<1> DEFINE t == tcp_socket[s]
           flags == {"FIN", "ACK"}
<1>1. BlockInv(t) /\ t \in Tcb /\ flags \in SUBSET Flag
  BY DEF IInv, Flag
<1>2. CASE CloseEstablished(s)
  <2>1. PICK r \in XipOut :
          /\ Update(s, IF r = "OK"
                         THEN [AfterSend(t, flags, r) EXCEPT !.state = "FIN_WAIT_1"]
                         ELSE AfterSend(t, flags, r))
          /\ Emit(t, flags, r)
    BY <1>2 DEF CloseEstablished
  <2> DEFINE u == AfterSend(t, flags, r)
             v == [u EXCEPT !.state = "FIN_WAIT_1"]
  <2>2. t.state = "ESTABLISHED" /\ event' = {} /\ written' = written
    BY <1>2 DEF CloseEstablished
  <2>3. Countable(t) /\ AheadBy(t, 0) /\ t.remote \in Peer
    BY <1>1, <2>2, ConnectedCountable, EstablishedAhead DEF Connected
  <2>4. /\ Countable(u) /\ u.state = "ESTABLISHED" /\ u.remote \in Peer
        /\ AheadBy(u, IF r = "OK" THEN Control(flags) ELSE 0)
    BY <1>1, <2>2, <2>3, AfterSendAccounts
  <2>5. Control(flags) = 1
    BY DEF Control
  <2>6. out' \in SUBSET Departing
    BY <1>1, <2>1, <2>3, EmitType
  <2>7. Update(s, IF r = "OK" THEN v ELSE u)
    BY <2>1
  <2> HIDE DEF u, flags, t
  <2>8. CASE r = "OK"
    <3>1. /\ v \in Tcb /\ v.tx_buf = u.tx_buf /\ v.next_seq = u.next_seq
          /\ v.unacked_seq = u.unacked_seq
          /\ v.state = "FIN_WAIT_1" /\ v.remote = u.remote
      BY <2>4 DEF Countable, Tcb, TcpState
    <3> HIDE DEF v
    <3>2. Countable(v) /\ AheadBy(v, 1) /\ v.remote \in Peer
      BY <2>4, <2>5, <2>8, <3>1 DEF Countable, AheadBy
    <3>3. BlockInv(v)
      BY <3>1, <3>2, AheadInv DEF ControlInFlight, Connected
    <3>4. Update(s, v)
      BY <2>7, <2>8
    <3> QED
      BY <2>2, <2>6, <3>3, <3>4, OneBlock DEF IInv
  <2>9. CASE r # "OK"
    <3>1. AheadBy(u, 0)
      BY <2>4, <2>9
    <3>2. BlockInv(u)
      BY <2>4, <3>1, AheadInv DEF ControlInFlight, Connected
    <3>3. Update(s, u)
      BY <2>7, <2>9
    <3> QED
      BY <2>2, <2>6, <3>2, <3>3, OneBlock DEF IInv
  <2> QED
    BY <2>8, <2>9
<1>3. CASE CloseOther(s)
  <2>1. Update(s, Freed(t)) /\ Silent /\ written' = written
    BY <1>3 DEF CloseOther
  <2>2. BlockInv(Freed(t))
    BY <1>1, FreedInv
  <2> QED
    BY <2>1, <2>2, SilentType, OneBlock DEF IInv
<1> QED
  BY <1>2, <1>3 DEF xtcp_close

\* What the buffer operations of an application do to its block.
LEMMA WriteInv ==
    ASSUME NEW t \in Tcb, BlockInv(t), t.state = "ESTABLISHED",
           NEW from \in Seq(Byte)
    PROVE  LET u == [t EXCEPT !.tx_buf = Written(@, from)]
           IN  /\ Countable(u) /\ AheadBy(u, 0)
               /\ u.state = "ESTABLISHED" /\ u.remote \in Peer
<1> DEFINE b == Written(t.tx_buf, from)
<1>1. Countable(t) /\ AheadBy(t, 0) /\ t.remote \in Peer /\ t.tx_buf \in Buf
  BY ConnectedCountable, EstablishedAhead DEF Connected, Tcb
<1>2. b \in Buf
  BY <1>1, WrittenType
<1>3. /\ b.unacked_count = t.tx_buf.unacked_count
      /\ b.data_count = t.tx_buf.data_count + WriteSize(t.tx_buf, from)
  BY <1>1 DEF Written, Buf
<1>4. WriteSize(t.tx_buf, from) \in Nat
  BY <1>1, WriteSizeType
<1>5. b.unacked_count <= b.data_count
  BY <1>1, <1>3, <1>4 DEF Countable, Buf
<1> HIDE DEF b
<1> QED
  BY <1>1, <1>2, <1>3, <1>5 DEF Countable, AheadBy, Tcb, b

LEMMA WriteKeeps ==
    ASSUME IInv, NEW s \in Slot, NEW size \in WriteSizes, xtcp_write(s, size)
    PROVE  IInv'
<1> DEFINE t == tcp_socket[s]
           from == [i \in 1 .. size |-> SeqAdd(written[s], i - 1)]
           u == [t EXCEPT !.tx_buf = Written(@, from)]
           taken == WriteSize(t.tx_buf, from)
<1>1. /\ BlockInv(t) /\ t \in Tcb /\ {"ACK"} \in SUBSET Flag
      /\ t.state = "ESTABLISHED" /\ event' = {} /\ written[s] \in SeqNum
      /\ t.tx_buf \in Buf
  BY DEF IInv, Flag, xtcp_write, Tcb
<1>2. PICK r \in XipOut : Update(s, AfterSend(u, {"ACK"}, r)) /\ Emit(u, {"ACK"}, r)
  BY DEF xtcp_write
<1>3. written' = [written EXCEPT ![s] = SeqAdd(written[s], taken)]
  BY DEF xtcp_write
<1>4. from \in Seq(Byte)
  <2>1. size \in 0 .. SeqSpace
    BY InputAssumption
  <2>2. \A i \in 1 .. size : SeqAdd(written[s], i - 1) \in Byte
    BY <1>1, <2>1 DEF SeqAdd, SeqNum, Byte
  <2> QED
    BY <2>1, <2>2
<1>5. SeqAdd(written[s], taken) \in SeqNum
  <2>1. taken \in Nat /\ taken <= BufSize
    BY <1>1, <1>4, WriteSizeType DEF Buf
  <2>2. taken \in 0 .. SeqSpace
    BY <2>1
  <2> QED
    BY <1>1, <2>2, SeqAddType
<1> HIDE DEF from, taken
<1>6. /\ Countable(u) /\ AheadBy(u, 0)
      /\ u.state = "ESTABLISHED" /\ u.remote \in Peer
  BY <1>1, <1>4, WriteInv
<1> HIDE DEF u
<1>7. BlockInv(AfterSend(u, {"ACK"}, r))
  BY <1>6, AnswerInv
<1>8. out' \in SUBSET Departing
  BY <1>1, <1>2, <1>6, EmitType
<1>9. written' \in [Slot -> SeqNum]
  BY <1>3, <1>5 DEF IInv
<1> QED
  BY <1>1, <1>2, <1>7, <1>8, <1>9, OneBlock

LEMMA ReadKeeps ==
    ASSUME IInv, NEW s \in Slot, NEW size \in ReadSizes, xtcp_read(s, size)
    PROVE  IInv'
<1> DEFINE t == tcp_socket[s]
           b == Taken(t.rx_buf, size)
           u == [t EXCEPT !.rx_buf = b]
<1>1. /\ BlockInv(t) /\ t \in Tcb /\ size \in Nat /\ t.rx_buf \in Buf
      /\ Silent /\ written' = written /\ Update(s, u)
  BY InputAssumption DEF IInv, xtcp_read, Tcb
<1>2. b \in Buf
  BY <1>1, TakenType
<1> HIDE DEF b
<1>3. /\ u \in Tcb /\ u.state = t.state /\ u.remote = t.remote
      /\ u.tx_buf = t.tx_buf /\ u.next_seq = t.next_seq
      /\ u.unacked_seq = t.unacked_seq
  BY <1>1, <1>2 DEF Tcb
<1> HIDE DEF u, t
<1>4. BlockInv(u)
  BY <1>1, <1>3 DEF BlockInv, Accounted, ControlInFlight
<1> QED
  BY <1>1, <1>4, SilentType, OneBlock DEF IInv
-----------------------------------------------------------------------------
LEMMA InitInv == Init => IInv
<1> SUFFICES ASSUME Init PROVE IInv
  OBVIOUS
<1>1. 0 \in SeqNum /\ 0 \in Index /\ 0 \in 0 .. BufSize /\ 0 \in Win
  BY SizeAssumption DEF SeqNum, Index, Win
<1>2. ZeroBuf \in Buf
  BY <1>1 DEF ZeroBuf, Buf, Byte
<1>3. ZeroTcb \in Tcb /\ ZeroTcb.state = "FREE"
  BY <1>1, <1>2 DEF ZeroTcb, Tcb, TcpState
<1>4. BlockInv(ZeroTcb)
  BY <1>3 DEF BlockInv, Connected
<1> QED
  BY <1>1, <1>3, <1>4 DEF Init, IInv

LEMMA NextKeeps == IInv /\ [Next]_vars => IInv'
<1> SUFFICES ASSUME IInv, [Next]_vars PROVE IInv'
  OBVIOUS
<1>1. CASE \E seg \in Arriving : xtcp_in(seg)
  BY <1>1, SegmentKeeps
<1>2. CASE \E app \in App : xtcp_open(app)
  BY <1>2, OpenKeeps
<1>3. ASSUME NEW s \in Slot, \E port \in Port : xtcp_bind(s, port) PROVE IInv'
  BY <1>3, BindKeeps
<1>4. ASSUME NEW s \in Slot, xtcp_listen(s) PROVE IInv'
  BY <1>4, ListenKeeps
<1>5. ASSUME NEW s \in Slot, xtcp_close(s) PROVE IInv'
  BY <1>5, CloseKeeps
<1>6. ASSUME NEW s \in Slot, \E size \in WriteSizes : xtcp_write(s, size) PROVE IInv'
  BY <1>6, WriteKeeps
<1>7. ASSUME NEW s \in Slot, \E size \in ReadSizes : xtcp_read(s, size) PROVE IInv'
  BY <1>7, ReadKeeps
<1>8. CASE UNCHANGED vars
  BY <1>8 DEF vars, IInv
<1> QED
  BY <1>1, <1>2, <1>3, <1>4, <1>5, <1>6, <1>7, <1>8 DEF Next

LEMMA Invariance == Spec => []IInv
BY InitInv, NextKeeps, PTL DEF Spec

\* For every table, buffer and sequence space: no counter of a buffer leaves
\* its range, no index leaves the buffer, and every segment sent and report
\* made is well formed (xtcp_in, tcp_send and the calls of an application).
THEOREM TypeCorrect == Spec => []TypeOK
<1>1. IInv => TypeOK
  BY DEF IInv, TypeOK
<1> QED
  BY <1>1, Invariance, PTL

\* For every table, buffer and sequence space: next_seq, unacked_seq and the
\* counters of tx_buf agree in every connection, also across a wrap and also
\* when xip_out fails.
THEOREM SequenceAccounting == Spec => []SeqAccounting
<1>1. IInv => SeqAccounting
  BY DEF IInv, BlockInv, SeqAccounting, Live
<1> QED
  BY <1>1, Invariance, PTL

\* For every buffer and every sequence space: on an open connection each ACK for
\* bytes that are unacknowledged frees these bytes and no others, as long as
\* next_seq is not behind unacked_seq.
THEOREM AcksFreeBytes == Spec => []AckRecognised
<1>1. ASSUME IInv, NEW s \in Slot, tcp_socket[s].state = "ESTABLISHED",
             tcp_socket[s].unacked_seq <= tcp_socket[s].next_seq,
             NEW n \in 0 .. tcp_socket[s].tx_buf.unacked_count
      PROVE  LET t == tcp_socket[s]
                 u == Acknowledged(t, [ack |-> t.unacked_seq + n, flags |-> {"ACK"}])
             IN  /\ u.tx_buf.unacked_count = t.tx_buf.unacked_count - n
                 /\ u.tx_buf.data_count = t.tx_buf.data_count - n
  <2> DEFINE t == tcp_socket[s]
             seg == [ack |-> t.unacked_seq + n, flags |-> {"ACK"}]
  <2>1. BlockInv(t)
    BY <1>1 DEF IInv
  <2>2. /\ t \in Tcb /\ t.tx_buf \in Buf
        /\ t.tx_buf.unacked_count \in 0 .. BufSize
        /\ t.tx_buf.data_count \in 0 .. BufSize
        /\ t.unacked_seq \in SeqNum /\ t.next_seq \in SeqNum
    BY <2>1 DEF BlockInv, Tcb, Buf
  <2>3. t.next_seq = SeqAdd(t.unacked_seq, t.tx_buf.unacked_count)
    BY <1>1, <2>1, <2>2, EstablishedAhead DEF AheadBy
  <2>4. t.next_seq = t.unacked_seq + t.tx_buf.unacked_count
    BY <1>1, <2>2, <2>3, SeqSpaceAssumption, BufSizeAssumption DEF SeqAdd, SeqNum
  <2>5. seg.ack = t.unacked_seq + n /\ seg.flags = {"ACK"}
    OBVIOUS
  <2>6. AckInRange(t, seg) /\ seg.ack - t.unacked_seq = n
    BY <2>2, <2>4, <2>5 DEF AckInRange, SeqNum
  <2>7. Acknowledged(t, seg).tx_buf = AddAcked(t.tx_buf, n)
    BY <2>2, <2>6 DEF Acknowledged, Tcb
  <2>8. /\ AddAcked(t.tx_buf, n).unacked_count = t.tx_buf.unacked_count - n
        /\ AddAcked(t.tx_buf, n).data_count = t.tx_buf.data_count - n
    BY <2>2 DEF AddAcked, Buf
  <2> QED
    BY <2>7, <2>8
<1>2. IInv => AckRecognised
  BY <1>1 DEF AckRecognised, Live
<1> QED
  BY <1>2, Invariance, PTL
-----------------------------------------------------------------------------
(***************************************************************************)
(* The order of the bytes: what waits in tx_buf is the piece of the        *)
(* application's stream that the sequence numbers name, and what waits in  *)
(* rx_buf is the end of what was acknowledged to the peer.  The invariants *)
(* above (types and counters) are used throughout.                         *)
(***************************************************************************)
USE SeqSpaceAssumption, BufSizeAssumption

\* The states whose buffers carry a stream.  Behind a FIN the application
\* writes no more, and the FIN takes a sequence number of its own.
Streaming == {"SYN_RECVD", "ESTABLISHED"}

\* Every packet is taken by xip_out.  After a miss tcp_send has moved
\* tx_buf.next and not next_seq, and the bytes it skipped are never sent.
NoMiss == XipOut \subseteq {"OK"}

(***************************************************************************)
(* The inductive invariant.  The properties speak of the bytes; that a     *)
(* byte written goes behind them needs to know where the writing index is, *)
(* and that an open connection starts with its buffers empty needs the     *)
(* state before it, SYN_RECVD, too.  A SYN that is counted on an open       *)
(* connection ends what is said of rx_buf (t.syn), not of tx_buf.           *)
(***************************************************************************)
BlockStreams(t, w) ==
    t.state \in Streaming =>
        /\ ~t.syn => RxAt(t.rx_buf, t.ack)
        /\ NoMiss => TxAt(t.tx_buf, t.next_seq, w)

StreamInv == \A s \in Slot : BlockStreams(tcp_socket[s], written[s])
-----------------------------------------------------------------------------
(***************************************************************************)
(* tcp_send.                                                               *)
(***************************************************************************)
\* It does not touch rx_buf, and it does not change the state of the block.
LEMMA AfterSendKeeps ==
    ASSUME NEW t \in Tcb, NEW flags, NEW r
    PROVE  LET u == AfterSend(t, flags, r)
           IN  /\ u.state = t.state /\ u.rx_buf = t.rx_buf
               /\ u.ack = t.ack /\ u.syn = t.syn
BY DEF AfterSend, Sent, Refused, Tcb

\* The bytes that remain unsent are those behind the ones sent.  (The SYN is
\* sent before the first byte of the stream; it takes one number.)
LEMMA SentStream ==
    ASSUME NEW t, Countable(t), NEW flags \in SUBSET Flag, NEW w,
           TxAt(t.tx_buf, SeqAdd(t.next_seq, Control(flags)), w)
    PROVE  TxAt(Sent(t, flags).tx_buf, Sent(t, flags).next_seq, w)
<1> DEFINE size == SendSize(t, flags)
           c == Control(flags)
           b == AddUnacked(ReadForSend(t.tx_buf, size), size)
<1>1. /\ t \in Tcb /\ Consistent(t.tx_buf) /\ t.next_seq \in SeqNum
      /\ t.tx_buf.data_count \in 0 .. BufSize /\ t.tx_buf.unacked_count \in 0 .. BufSize
  BY DEF Countable, Consistent, Tcb, Buf
<1>2. size \in 0 .. WaitSendCount(t.tx_buf) /\ size \in 0 .. BufSize
  BY <1>1, SendSizeType DEF WaitSendCount
<1>3. c \in {0, 1}
  BY DEF Control
<1>4. Sent(t, flags).tx_buf = b /\ Sent(t, flags).next_seq = SeqAdd(t.next_seq, size + c)
  BY <1>1 DEF Sent, Tcb
<1> HIDE DEF size, c
<1>5. SeqAdd(t.next_seq, c) \in SeqNum
  BY <1>1, <1>3, SeqAddType
<1>6. TxAt(b, SeqAdd(SeqAdd(t.next_seq, c), size), w)
  BY <1>1, <1>2, <1>5, SentTxAt DEF c
<1>7. SeqAdd(SeqAdd(t.next_seq, c), size) = SeqAdd(t.next_seq, c + size)
  BY <1>1, <1>2, <1>3, SeqAddSum
<1>8. c + size = size + c
  BY <1>2, <1>3
<1> QED
  BY <1>4, <1>6, <1>7, <1>8

\* The ack number of a segment takes acknowledged bytes only, and those are no
\* longer among the unsent ones.
LEMMA AcknowledgedStream ==
    ASSUME NEW t, Countable(t), AheadBy(t, 0), NEW seg \in Arriving, NEW w,
           TxAt(t.tx_buf, t.next_seq, w)
    PROVE  TxAt(Acknowledged(t, seg).tx_buf, Acknowledged(t, seg).next_seq, w)
<1>1. CASE ~AckInRange(t, seg)
  BY <1>1 DEF Acknowledged
<1>2. CASE AckInRange(t, seg)
  <2> DEFINE n == seg.ack - t.unacked_seq
  <2>1. /\ t \in Tcb /\ Consistent(t.tx_buf) /\ t.tx_buf.unacked_count \in 0 .. BufSize
        /\ t.unacked_seq \in SeqNum /\ t.next_seq \in SeqNum /\ seg.ack \in SeqNum
    BY ArrivingType DEF Countable, Consistent, Tcb, Buf
  <2>2. n \in 0 .. t.tx_buf.unacked_count
    BY <1>2, <2>1 DEF AckInRange, AheadBy, SeqAdd, SeqNum
  <2>3. /\ Acknowledged(t, seg).tx_buf = AddAcked(t.tx_buf, n)
        /\ Acknowledged(t, seg).next_seq = t.next_seq
    BY <1>2, <2>1 DEF Acknowledged, Tcb
  <2> HIDE DEF n
  <2> QED
    BY <2>1, <2>2, <2>3, AckedTxAt
<1> QED
  BY <1>1, <1>2

\* An answer without SYN and FIN keeps both streams of a block.
LEMMA AnswerStreams ==
    ASSUME NEW t, Countable(t), NEW w, BlockStreams(t, w), NEW r \in XipOut
    PROVE  BlockStreams(AfterSend(t, {"ACK"}, r), w)
<1> DEFINE u == AfterSend(t, {"ACK"}, r)
<1>1. t \in Tcb /\ t.next_seq \in SeqNum
  BY DEF Countable, Tcb
<1>2. u.state = t.state /\ u.rx_buf = t.rx_buf /\ u.ack = t.ack /\ u.syn = t.syn
  BY <1>1, AfterSendKeeps
<1>3. ASSUME NoMiss, TxAt(t.tx_buf, t.next_seq, w)
      PROVE  TxAt(u.tx_buf, u.next_seq, w)
  <2>1. r = "OK"
    BY <1>3 DEF NoMiss
  <2>2. SeqAdd(t.next_seq, Control({"ACK"})) = t.next_seq /\ {"ACK"} \in SUBSET Flag
    BY <1>1 DEF SeqAdd, Control, SeqNum, Flag
  <2>3. TxAt(Sent(t, {"ACK"}).tx_buf, Sent(t, {"ACK"}).next_seq, w)
    BY <1>3, <2>2, SentStream
  <2> QED
    BY <2>1, <2>3 DEF AfterSend
<1> HIDE DEF u
<1>4. BlockStreams(u, w)
  BY <1>2, <1>3 DEF BlockStreams
<1> QED
  BY <1>4 DEF u
-----------------------------------------------------------------------------
(***************************************************************************)
(* Steps that change one block.                                            *)
(***************************************************************************)
LEMMA OneStream ==
    ASSUME IInv, StreamInv, NEW s \in Slot, NEW t, Update(s, t),
           BlockStreams(t, written'[s]),
           \A q \in Slot \ {s} : written'[q] = written[q]
    PROVE  StreamInv'
BY DEF IInv, StreamInv, Update

\* A block that carries no stream after the step is of no concern.
LEMMA NoStream ==
    ASSUME NEW t, t.state \notin Streaming, NEW w
    PROVE  BlockStreams(t, w)
BY DEF BlockStreams

\* A step that leaves the buffers and their sequence numbers alone and does
\* not open a connection.
LEMMA SameStreams ==
    ASSUME NEW t, NEW u, NEW w, BlockStreams(t, w),
           u.state \in Streaming => t.state \in Streaming,
           u.rx_buf = t.rx_buf, u.ack = t.ack, u.syn = t.syn,
           u.tx_buf = t.tx_buf, u.next_seq = t.next_seq
    PROVE  BlockStreams(u, w)
BY DEF BlockStreams
-----------------------------------------------------------------------------
(***************************************************************************)
(* xtcp_in.                                                                *)
(***************************************************************************)
\* The buffers of a new connection are empty, and the first byte of each
\* stream comes behind the SYN.
LEMMA AcceptStreams ==
    ASSUME IInv, StreamInv, NEW s \in Slot, NEW seg \in Arriving, AcceptIn(s, seg)
    PROVE  StreamInv'
<1> PICK n \in Slot, iss \in InitSeq, r \in XipOut :
      LET child == Child(tcp_socket[n], tcp_socket[s], seg, iss)
          after == AfterSend(child, {"SYN", "ACK"}, r)
      IN  /\ First(n, FreeSlots)
          /\ tcp_socket' = [tcp_socket EXCEPT
                              ![s] = Heard(s, seg),
                              ![n] = IF r = "OK" THEN after ELSE Freed(after)]
          /\ Emit(child, {"SYN", "ACK"}, r)
          /\ written' = [written EXCEPT ![n] = SeqAdd(iss, 1)]
  BY DEF AcceptIn
<1> DEFINE listen == tcp_socket[s]
           child == Child(tcp_socket[n], listen, seg, iss)
           after == AfterSend(child, {"SYN", "ACK"}, r)
           new == IF r = "OK" THEN after ELSE Freed(after)
           w == SeqAdd(iss, 1)
<1>1. /\ tcp_socket \in [Slot -> Tcb] /\ written \in [Slot -> SeqNum]
      /\ tcp_socket[n] \in Tcb /\ BlockInv(listen)
      /\ listen \in Tcb /\ listen.state = "LISTEN" /\ iss \in SeqNum
      /\ {"SYN", "ACK"} \in SUBSET Flag
  BY InputAssumption DEF IInv, AcceptIn, Flag
<1>2. Countable(child) /\ child \in Tcb
  BY <1>1, ChildType DEF Countable
<1>3. /\ child.tx_buf = Emptied(tcp_socket[n].tx_buf)
      /\ child.rx_buf = Emptied(tcp_socket[n].rx_buf) /\ child.next_seq = iss
      /\ tcp_socket[n].tx_buf \in Buf /\ tcp_socket[n].rx_buf \in Buf
  BY <1>1 DEF Child, Allocated, Tcb
<1>4. new.state \in Streaming => r = "OK"
  BY <1>2, AfterSendKeeps DEF Freed, Streaming
<1>5. ASSUME r = "OK"
      PROVE  BlockStreams(new, w)
  <2>1. w \in SeqNum /\ Control({"SYN", "ACK"}) = 1
    BY <1>1, SeqAddType DEF Control
  <2>2. /\ RxAt(child.rx_buf, child.ack)
        /\ TxAt(child.tx_buf, w, w)
    BY <1>3, <2>1, EmptiedAt
  <2>3. TxAt(Sent(child, {"SYN", "ACK"}).tx_buf,
             Sent(child, {"SYN", "ACK"}).next_seq, w)
    BY <1>1, <1>2, <1>3, <2>1, <2>2, SentStream
  <2>4. /\ new = Sent(child, {"SYN", "ACK"}) /\ new.rx_buf = child.rx_buf
        /\ new.ack = child.ack
    BY <1>2, <1>5, AfterSendKeeps DEF AfterSend
  <2> HIDE DEF new, child, w
  <2> QED
    BY <2>2, <2>3, <2>4 DEF BlockStreams
<1>6. BlockStreams(new, w)
  BY <1>4, <1>5 DEF BlockStreams
<1>7. Heard(s, seg).state = "LISTEN"
  BY <1>1, HeardInv
<1>8. /\ tcp_socket' = [tcp_socket EXCEPT ![s] = Heard(s, seg), ![n] = new]
      /\ written' = [written EXCEPT ![n] = w]
  OBVIOUS
<1> HIDE DEF new, w, listen
<1>9. ASSUME NEW q \in Slot
      PROVE  BlockStreams(tcp_socket'[q], written'[q])
  <2>1. CASE q = n
    BY <1>1, <1>6, <1>8, <2>1
  <2>2. CASE q = s /\ q # n
    BY <1>1, <1>7, <1>8, <2>2, NoStream DEF Streaming
  <2>3. CASE q # s /\ q # n
    BY <1>1, <1>8, <2>3 DEF StreamInv
  <2> QED
    BY <2>1, <2>2, <2>3
<1> QED
  BY <1>9 DEF StreamInv

\* A segment that only brings its window.
LEMMA HeardStreams ==
    ASSUME IInv, StreamInv, NEW s \in Slot, NEW seg \in Arriving,
           Update(s, Heard(s, seg)), written' = written
    PROVE  StreamInv'
<1> DEFINE t == tcp_socket[s]
           h == Heard(s, seg)
<1>1. BlockInv(t) /\ BlockStreams(t, written[s])
  BY DEF IInv, StreamInv
<1>2. /\ h.state = t.state /\ h.ack = t.ack /\ h.next_seq = t.next_seq
      /\ h.tx_buf = t.tx_buf /\ h.rx_buf = t.rx_buf /\ h.syn = t.syn
  BY <1>1, HeardInv
<1> HIDE DEF t, h
<1>3. BlockStreams(h, written'[s])
  BY <1>1, <1>2, SameStreams
<1> QED
  BY <1>3, OneStream DEF h

LEMMA SynRecvdStreams ==
    ASSUME IInv, StreamInv, NEW s \in Slot, NEW seg \in Arriving, SynRecvdIn(s, seg)
    PROVE  StreamInv'
<1> DEFINE t == tcp_socket[s]
           h == Heard(s, seg)
           u == [h EXCEPT !.unacked_seq = SeqAdd(@, 1), !.state = "ESTABLISHED"]
<1>1. /\ BlockInv(t) /\ BlockStreams(t, written[s]) /\ t.state = "SYN_RECVD"
      /\ Update(s, u) /\ written' = written
  BY DEF IInv, StreamInv, SynRecvdIn, InSequence
<1>2. /\ h \in Tcb /\ h.state = t.state /\ h.ack = t.ack /\ h.next_seq = t.next_seq
      /\ h.tx_buf = t.tx_buf /\ h.rx_buf = t.rx_buf /\ h.syn = t.syn
  BY <1>1, HeardInv DEF BlockInv
<1> HIDE DEF h
<1>3. /\ u.ack = h.ack /\ u.next_seq = h.next_seq
      /\ u.tx_buf = h.tx_buf /\ u.rx_buf = h.rx_buf /\ u.syn = h.syn
  BY <1>2 DEF Tcb
<1> HIDE DEF u, t
<1>4. BlockStreams(u, written'[s])
  BY <1>1, <1>2, <1>3, SameStreams DEF Streaming
<1> QED
  BY <1>1, <1>4, OneStream

\* The segments that leave a block behind its stream: in FIN_WAIT_2 or freed.
LEMMA FinStreams ==
    ASSUME IInv, StreamInv, NEW s \in Slot, NEW seg \in Arriving,
           FinWait1In(s, seg) \/ FinWait2In(s, seg) \/ LastAckIn(s, seg)
    PROVE  StreamInv'
<1> DEFINE h == Heard(s, seg)
           t == [h EXCEPT !.ack = SeqAdd(seg.seq, 1)]
<1>1. BlockInv(tcp_socket[s]) /\ h \in Tcb
  BY HeardInv DEF IInv, BlockInv
<1>2. written' = written
  BY DEF FinWait1In, FinWait2In, LastAckIn, InSequence
<1>3. PICK u : Update(s, u) /\ u.state \notin Streaming
  <2>1. CASE FinWait1In(s, seg) \/ LastAckIn(s, seg)
    <3>1. /\ Freed(h).state = "FREE" /\ [h EXCEPT !.state = "FIN_WAIT_2"].state = "FIN_WAIT_2"
      BY <1>1 DEF Freed, Tcb
    <3> QED
      BY <2>1, <3>1 DEF FinWait1In, LastAckIn, Streaming
  <2>2. CASE FinWait2In(s, seg)
    <3>1. PICK r \in XipOut : Update(s, Freed(AfterSend(t, {"ACK"}, r)))
      BY <2>2 DEF FinWait2In
    <3>2. Freed(AfterSend(t, {"ACK"}, r)).state = "FREE"
      BY <1>1 DEF Freed, AfterSend, Sent, Refused, Tcb
    <3> QED
      BY <3>1, <3>2 DEF Streaming
  <2> QED
    BY <2>1, <2>2
<1> QED
  BY <1>2, <1>3, NoStream, OneStream

\* In ESTABLISHED a segment takes acknowledged bytes from tx_buf, and sends and
\* writes none.
LEMMA DataTx ==
    ASSUME NEW s \in Slot, NEW seg \in Arriving, BlockInv(tcp_socket[s]),
           tcp_socket[s].state = "ESTABLISHED",
           NEW w, TxAt(tcp_socket[s].tx_buf, tcp_socket[s].next_seq, w)
    PROVE  LET u == AfterData(s, seg)
           IN  u.next_seq = tcp_socket[s].next_seq /\ TxAt(u.tx_buf, u.next_seq, w)
<1> DEFINE t == tcp_socket[s]
           h == Heard(s, seg)
           a == Acknowledged(h, seg)
           u == Received(a, seg)
<1>1. /\ BlockInv(h) /\ h.state = "ESTABLISHED"
      /\ h.next_seq = t.next_seq /\ h.tx_buf = t.tx_buf
  BY HeardInv
<1>2. Countable(h) /\ AheadBy(h, 0) /\ h \in Tcb
  BY <1>1, ConnectedCountable, EstablishedAhead DEF Connected, BlockInv
<1>3. a \in Tcb
  BY <1>2, AckedType DEF Countable
<1>4. a.next_seq = h.next_seq
  BY <1>2 DEF Acknowledged, Tcb
<1>5. TxAt(a.tx_buf, a.next_seq, w)
  BY <1>1, <1>2, AcknowledgedStream
<1>6. u.tx_buf = a.tx_buf /\ u.next_seq = a.next_seq
  BY <1>3 DEF Received, Tcb
<1> HIDE DEF u, a, h
<1> QED
  BY <1>1, <1>4, <1>5, <1>6 DEF AfterData, u, a, h

\* The ACK of a segment takes acknowledged bytes only from tx_buf, and its
\* payload, which starts at ack, joins rx_buf: what is stored of it and what
\* is acknowledged are the same.
LEMMA DataStreams ==
    ASSUME NEW s \in Slot, NEW seg \in Arriving, BlockInv(tcp_socket[s]),
           NEW w, BlockStreams(tcp_socket[s], w),
           tcp_socket[s].state = "ESTABLISHED", seg.seq = tcp_socket[s].ack,
           "FIN" \notin seg.flags
    PROVE  BlockStreams(AfterData(s, seg), w)
<1> DEFINE t == tcp_socket[s]
           h == Heard(s, seg)
           a == Acknowledged(h, seg)
           n == WriteSize(a.rx_buf, Payload(seg))
           u == Received(a, seg)
<1>1. /\ BlockInv(h) /\ h.state = "ESTABLISHED" /\ h.ack = t.ack /\ h.rx_buf = t.rx_buf
      /\ h.syn = t.syn
  BY HeardInv
<1>2. Countable(h) /\ AheadBy(h, 0) /\ h \in Tcb
  BY <1>1, ConnectedCountable, EstablishedAhead DEF Connected, BlockInv
<1>3. /\ Countable(a) /\ a.state = "ESTABLISHED" /\ a.ack = t.ack /\ a.rx_buf = t.rx_buf
      /\ a.syn = t.syn
  BY <1>1, <1>2, AckedType
<1>4. /\ a \in Tcb /\ a.rx_buf \in Buf /\ a.ack \in SeqNum /\ seg.seq \in SeqNum
      /\ seg.len \in 0 .. SeqSpace
  BY <1>3, ArrivingType DEF Countable, Tcb
<1>5. /\ u.rx_buf = Written(a.rx_buf, Payload(seg))
      /\ u.ack = SeqAdd(a.ack, n + Control(seg.flags))
      /\ u.syn = (a.syn \/ "SYN" \in seg.flags)
  BY <1>4 DEF Received, Tcb
<1>6. ASSUME ~u.syn
      PROVE  RxAt(u.rx_buf, u.ack)
  <2>0. ~a.syn /\ Control(seg.flags) = 0
    BY <1>5, <1>6 DEF Control
  <2>1. RxAt(a.rx_buf, a.ack)
    BY <1>3, <2>0 DEF BlockStreams, Streaming
  <2>2. Payload(seg) = [i \in 1 .. seg.len |-> SeqAdd(a.ack, i - 1)]
    BY <1>3 DEF Payload
  <2>3. n + Control(seg.flags) = n
    BY <1>4, <2>0, PayloadType, WriteSizeType
  <2>4. RxAt(Written(a.rx_buf, Payload(seg)), SeqAdd(a.ack, n))
    BY <1>4, <2>1, <2>2, PayloadType, WrittenRxAt
  <2> QED
    BY <1>5, <2>3, <2>4
<1>7. ASSUME NoMiss
      PROVE  TxAt(u.tx_buf, u.next_seq, w)
  <2>1. TxAt(t.tx_buf, t.next_seq, w)
    BY <1>7 DEF BlockStreams, Streaming
  <2> QED
    BY <2>1, DataTx DEF AfterData
<1> HIDE DEF u
<1>8. BlockStreams(u, w)
  BY <1>6, <1>7 DEF BlockStreams
<1> QED
  BY <1>8 DEF u, AfterData

LEMMA EstablishedDataStreams ==
    ASSUME IInv, StreamInv, NEW s \in Slot, NEW seg \in Arriving,
           EstablishedDataIn(s, seg) \/ EstablishedAckIn(s, seg)
    PROVE  StreamInv'
<1> DEFINE t == AfterData(s, seg)
<1>1. /\ InSequence(s, seg, "ESTABLISHED") /\ "FIN" \notin seg.flags
      /\ tcp_socket[s].state = "ESTABLISHED" /\ seg.seq = tcp_socket[s].ack
      /\ BlockInv(tcp_socket[s]) /\ BlockStreams(tcp_socket[s], written[s])
      /\ written' = written
  BY DEF IInv, StreamInv, EstablishedDataIn, EstablishedAckIn, InSequence
<1>3. BlockStreams(t, written'[s]) /\ Countable(t)
  BY <1>1, DataStreams, AfterDataType
<1>4. \/ \E r \in XipOut : Update(s, AfterSend(t, {"ACK"}, r))
      \/ Update(s, t)
  BY DEF EstablishedDataIn, EstablishedAckIn
<1> HIDE DEF t
<1>5. ASSUME NEW r \in XipOut, Update(s, AfterSend(t, {"ACK"}, r))
      PROVE  StreamInv'
  <2>1. BlockStreams(AfterSend(t, {"ACK"}, r), written'[s])
    BY <1>3, AnswerStreams
  <2> QED
    BY <1>1, <1>5, <2>1, OneStream
<1>6. CASE Update(s, t)
  BY <1>1, <1>3, <1>6, OneStream
<1> QED
  BY <1>4, <1>5, <1>6

LEMMA EstablishedFinStreams ==
    ASSUME IInv, StreamInv, NEW s \in Slot, NEW seg \in Arriving,
           EstablishedFinIn(s, seg)
    PROVE  StreamInv'
<1> DEFINE d == AfterData(s, seg)
           t == [d EXCEPT !.state = "LAST_ACK", !.ack = SeqAdd(seg.seq, 1)]
<1>1. /\ tcp_socket[s].state = "ESTABLISHED" /\ BlockInv(tcp_socket[s])
      /\ written' = written /\ SeqAdd(seg.seq, 1) \in SeqNum
  BY ArrivingType, SeqAddType DEF IInv, EstablishedFinIn, InSequence
<1>2. d \in Tcb
  BY <1>1, AfterDataType DEF Countable
<1>3. PICK r \in XipOut : Update(s, AfterSend(t, {"FIN", "ACK"}, r))
  BY DEF EstablishedFinIn
<1> HIDE DEF d
<1>4. t \in Tcb /\ t.state = "LAST_ACK"
  BY <1>1, <1>2 DEF Tcb, TcpState
<1> HIDE DEF t
<1>5. AfterSend(t, {"FIN", "ACK"}, r).state = "LAST_ACK"
  BY <1>4, AfterSendKeeps
<1> QED
  BY <1>1, <1>3, <1>5, NoStream, OneStream DEF Streaming

\* xtcp_in.
LEMMA SegmentStreams ==
    ASSUME IInv, StreamInv, NEW seg \in Arriving, xtcp_in(seg)
    PROVE  StreamInv'
<1>1. CASE NoBlockIn(seg)
  BY <1>1 DEF NoBlockIn, StreamInv
<1>2. ASSUME NEW s \in Slot, Finds(s, seg),
             \/ AcceptIn(s, seg)   \/ AcceptFullIn(s, seg) \/ NotSynIn(s, seg)
             \/ WrongSeqIn(s, seg) \/ SynRecvdIn(s, seg)
             \/ FinWait1In(s, seg) \/ FinWait2In(s, seg)
             \/ LastAckIn(s, seg)  \/ IgnoredIn(s, seg)
             \/ EstablishedFinIn(s, seg) \/ EstablishedDataIn(s, seg)
             \/ EstablishedAckIn(s, seg)
      PROVE  StreamInv'
  <2>1. CASE AcceptFullIn(s, seg) \/ NotSynIn(s, seg) \/ WrongSeqIn(s, seg)
               \/ IgnoredIn(s, seg)
    <3>1. Update(s, Heard(s, seg)) /\ written' = written
      BY <2>1 DEF AcceptFullIn, NotSynIn, WrongSeqIn, IgnoredIn, InSequence
    <3> QED
      BY <3>1, HeardStreams
  <2> QED
    BY <1>2, <2>1, AcceptStreams, SynRecvdStreams, FinStreams, EstablishedFinStreams,
       EstablishedDataStreams
<1> QED
  BY <1>1, <1>2 DEF xtcp_in
-----------------------------------------------------------------------------
(***************************************************************************)
(* The calls of an application.                                            *)
(***************************************************************************)
\* A handle carries no stream, nor does a block that is freed.
LEMMA HandleStreams ==
    ASSUME IInv, StreamInv,
           \/ \E app \in App : xtcp_open(app)
           \/ \E s \in Slot : \/ \E port \in Port : xtcp_bind(s, port)
                              \/ xtcp_listen(s) \/ CloseOther(s)
    PROVE  StreamInv'
<1>1. PICK s \in Slot : \E u : Update(s, u) /\ u.state \notin Streaming /\ written' = written
  <2>1. ASSUME NEW app \in App, xtcp_open(app)
        PROVE  \E s \in Slot : \E u : Update(s, u) /\ u.state \notin Streaming /\ written' = written
    <3>1. PICK s \in Slot, iss \in InitSeq :
            Update(s, [Allocated(tcp_socket[s], iss) EXCEPT !.state = "CLOSED",
                                                           !.handler = app])
      BY <2>1 DEF xtcp_open
    <3>2. Allocated(tcp_socket[s], iss) \in Tcb
      BY AllocatedType DEF IInv
    <3>3. [Allocated(tcp_socket[s], iss) EXCEPT !.state = "CLOSED", !.handler = app].state
            = "CLOSED"
      BY <3>2 DEF Tcb
    <3> QED
      BY <2>1, <3>1, <3>3 DEF xtcp_open, Streaming
  <2>2. ASSUME NEW s \in Slot, \/ \E port \in Port : xtcp_bind(s, port)
                               \/ xtcp_listen(s) \/ CloseOther(s)
        PROVE  \E u : Update(s, u) /\ u.state \notin Streaming /\ written' = written
    <3>1. tcp_socket[s] \in Tcb
      BY DEF IInv
    <3>2. CASE \E port \in Port : xtcp_bind(s, port)
      <4>1. PICK port \in Port : xtcp_bind(s, port)
        BY <3>2
      <4>2. [tcp_socket[s] EXCEPT !.local_port = port].state = "CLOSED"
        BY <3>1, <4>1 DEF xtcp_bind, Tcb
      <4> QED
        BY <4>1, <4>2 DEF xtcp_bind, Streaming
    <3>3. CASE xtcp_listen(s)
      <4>1. [tcp_socket[s] EXCEPT !.state = "LISTEN"].state = "LISTEN"
        BY <3>1 DEF Tcb
      <4> QED
        BY <3>3, <4>1 DEF xtcp_listen, Streaming
    <3>4. CASE CloseOther(s)
      <4>1. Freed(tcp_socket[s]).state = "FREE"
        BY <3>1 DEF Freed, Tcb
      <4> QED
        BY <3>4, <4>1 DEF CloseOther, Streaming
    <3> QED
      BY <2>2, <3>2, <3>3, <3>4
  <2> QED
    BY <2>1, <2>2
<1> QED
  BY <1>1, NoStream, OneStream

\* A close that fails leaves the connection open: what tx_buf holds is then
\* no longer in order, what rx_buf holds is.
LEMMA CloseStreams ==
    ASSUME IInv, StreamInv, NEW s \in Slot, CloseEstablished(s)
    PROVE  StreamInv'
<1> DEFINE t == tcp_socket[s]
           flags == {"FIN", "ACK"}
<1>1. /\ t \in Tcb /\ BlockInv(t) /\ BlockStreams(t, written[s])
      /\ t.state = "ESTABLISHED" /\ written' = written
  BY DEF IInv, StreamInv, CloseEstablished
<1>2. PICK r \in XipOut :
        Update(s, IF r = "OK" THEN [AfterSend(t, flags, r) EXCEPT !.state = "FIN_WAIT_1"]
                              ELSE AfterSend(t, flags, r))
  BY DEF CloseEstablished
<1> DEFINE u == AfterSend(t, flags, r)
           v == [u EXCEPT !.state = "FIN_WAIT_1"]
<1>3. u.state = t.state /\ u.rx_buf = t.rx_buf /\ u.ack = t.ack /\ u.syn = t.syn
  BY <1>1, AfterSendKeeps
<1>4. CASE r = "OK"
  <2>1. v.state = "FIN_WAIT_1"
    BY <1>1 DEF AfterSend, Sent, Refused, Tcb
  <2>2. Update(s, v)
    BY <1>2, <1>4
  <2> HIDE DEF v
  <2> QED
    BY <1>1, <2>1, <2>2, NoStream, OneStream DEF Streaming
<1>5. CASE r # "OK"
  <2>1. ~NoMiss
    BY <1>5 DEF NoMiss
  <2>2. Update(s, u)
    BY <1>2, <1>5
  <2> HIDE DEF u, t
  <2>3. BlockStreams(u, written'[s])
    BY <1>1, <1>3, <2>1 DEF BlockStreams
  <2> QED
    BY <1>1, <2>2, <2>3, OneStream
<1> QED
  BY <1>4, <1>5

LEMMA WriteStreams ==
    ASSUME IInv, StreamInv, NEW s \in Slot, NEW size \in WriteSizes, xtcp_write(s, size)
    PROVE  StreamInv'
<1> DEFINE t == tcp_socket[s]
           w == written[s]
           from == [i \in 1 .. size |-> SeqAdd(w, i - 1)]
           taken == WriteSize(t.tx_buf, from)
           u == [t EXCEPT !.tx_buf = Written(@, from)]
<1>1. /\ t \in Tcb /\ BlockInv(t) /\ BlockStreams(t, w) /\ t.state = "ESTABLISHED"
      /\ w \in SeqNum /\ size \in 0 .. SeqSpace
      /\ t.next_seq \in SeqNum /\ t.tx_buf \in Buf
  BY InputAssumption DEF IInv, StreamInv, xtcp_write, Tcb
<1>2. PICK r \in XipOut : Update(s, AfterSend(u, {"ACK"}, r))
  BY DEF xtcp_write
<1>3. written' = [written EXCEPT ![s] = SeqAdd(w, taken)]
  BY DEF xtcp_write
<1>4. from \in Seq(Byte)
  <2>1. \A i \in 1 .. size : SeqAdd(w, i - 1) \in Byte
    BY <1>1 DEF SeqAdd, SeqNum, Byte
  <2> QED
    BY <1>1, <2>1
<1>5. Consistent(t.tx_buf)
  BY <1>1, ConnectedCountable DEF Consistent, Countable, Connected
<1>6. from = [i \in 1 .. size |-> SeqAdd(w, i - 1)]
  OBVIOUS
<1> HIDE DEF from
<1>7. Countable(u)
  BY <1>1, <1>4, WriteInv
<1>8. /\ u.state = "ESTABLISHED" /\ u.rx_buf = t.rx_buf /\ u.ack = t.ack /\ u.syn = t.syn
      /\ u.next_seq = t.next_seq /\ u.tx_buf = Written(t.tx_buf, from)
  BY <1>1 DEF Tcb
<1>9. ASSUME TxAt(t.tx_buf, t.next_seq, w)
      PROVE  TxAt(Written(t.tx_buf, from), t.next_seq, SeqAdd(w, taken))
  BY <1>1, <1>4, <1>5, <1>6, <1>9, WrittenTxAt
<1> HIDE DEF u, t, w, taken
<1>10. BlockStreams(u, SeqAdd(w, taken))
  BY <1>1, <1>8, <1>9 DEF BlockStreams, Streaming
<1>11. BlockStreams(AfterSend(u, {"ACK"}, r), SeqAdd(w, taken))
  BY <1>7, <1>10, AnswerStreams
<1>12. written'[s] = SeqAdd(w, taken) /\ \A q \in Slot \ {s} : written'[q] = written[q]
  BY <1>3 DEF IInv
<1> QED
  BY <1>2, <1>11, <1>12, OneStream

LEMMA ReadStreams ==
    ASSUME IInv, StreamInv, NEW s \in Slot, NEW size \in ReadSizes, xtcp_read(s, size)
    PROVE  StreamInv'
<1> DEFINE t == tcp_socket[s]
           u == [t EXCEPT !.rx_buf = Taken(@, size)]
<1>1. /\ t \in Tcb /\ BlockStreams(t, written[s]) /\ t.rx_buf \in Buf /\ size \in Nat
      /\ Update(s, u) /\ written' = written
  BY InputAssumption DEF IInv, StreamInv, xtcp_read, Tcb
<1>2. /\ u.state = t.state /\ u.ack = t.ack /\ u.next_seq = t.next_seq /\ u.syn = t.syn
      /\ u.tx_buf = t.tx_buf /\ u.rx_buf = Taken(t.rx_buf, size)
  BY <1>1 DEF Tcb
<1>3. RxAt(t.rx_buf, t.ack) => RxAt(Taken(t.rx_buf, size), t.ack)
  BY <1>1, TakenRxAt
<1> HIDE DEF u, t
<1>4. BlockStreams(u, written'[s])
  BY <1>1, <1>2, <1>3 DEF BlockStreams
<1> QED
  BY <1>1, <1>4, OneStream
-----------------------------------------------------------------------------
LEMMA InitStreams == Init => StreamInv
<1> SUFFICES ASSUME Init, NEW s \in Slot PROVE BlockStreams(tcp_socket[s], written[s])
  BY DEF StreamInv
<1>1. tcp_socket[s].state = "FREE"
  BY DEF Init, ZeroTcb
<1> QED
  BY <1>1, NoStream DEF Streaming

LEMMA NextStreams == IInv /\ StreamInv /\ [Next]_vars => StreamInv'
<1> SUFFICES ASSUME IInv, StreamInv, [Next]_vars PROVE StreamInv'
  OBVIOUS
<1>1. CASE \E seg \in Arriving : xtcp_in(seg)
  BY <1>1, SegmentStreams
<1>2. CASE \E app \in App : xtcp_open(app)
  BY <1>2, HandleStreams
<1>3. ASSUME NEW s \in Slot, (\E port \in Port : xtcp_bind(s, port)) \/ xtcp_listen(s)
      PROVE  StreamInv'
  BY <1>3, HandleStreams
<1>4. ASSUME NEW s \in Slot, xtcp_close(s) PROVE StreamInv'
  BY <1>4, HandleStreams, CloseStreams DEF xtcp_close
<1>5. ASSUME NEW s \in Slot, \E size \in WriteSizes : xtcp_write(s, size) PROVE StreamInv'
  BY <1>5, WriteStreams
<1>6. ASSUME NEW s \in Slot, \E size \in ReadSizes : xtcp_read(s, size) PROVE StreamInv'
  BY <1>6, ReadStreams
<1>7. CASE UNCHANGED vars
  BY <1>7 DEF vars, StreamInv
<1> QED
  BY <1>1, <1>2, <1>3, <1>4, <1>5, <1>6, <1>7 DEF Next

LEMMA StreamInvariance == Spec => []StreamInv
<1>1. Init => StreamInv
  BY InitStreams
<1>2. IInv /\ StreamInv /\ [Next]_vars => StreamInv'
  BY NextStreams
<1> QED
  BY <1>1, <1>2, Invariance, PTL DEF Spec

\* For every buffer size, every width of the sequence numbers and every
\* sequence of segments: what the application can still read of an open
\* connection is the end of what was acknowledged to the peer, in order, also
\* when the ring or the sequence numbers wrap, when only part of a payload
\* fits (tcp_recv) and when xip_out fails; but for a connection on which
\* tcp_recv has counted a second SYN.
THEOREM ReceivedInOrder == Spec => []RxStreamOrder
<1>1. StreamInv => RxStreamOrder
  BY DEF StreamInv, BlockStreams, Streaming, RxStreamOrder, RxAt, Live
<1> QED
  BY <1>1, StreamInvariance, PTL

\* For every buffer size, MSS and window: while xip_out takes every packet,
\* the unsent bytes are the next ones of the application's stream, in order,
\* and the next segment is numbered like the first of them (tcp_send,
\* xtcp_write).  The hypothesis is needed: the run tcp_unsent_skipped shows
\* the bytes that one failing xip_out skips.
THEOREM SentInOrder == NoMiss => (Spec => []TxStreamOrder)
<1> SUFFICES ASSUME NoMiss PROVE Spec => []TxStreamOrder
  OBVIOUS
<1>1. StreamInv => TxStreamOrder
  BY DEF StreamInv, BlockStreams, Streaming, TxStreamOrder, TxAt, Live
<1> QED
  BY <1>1, StreamInvariance, PTL
=============================================================================
