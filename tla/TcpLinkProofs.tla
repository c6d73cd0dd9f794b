--------------------------- MODULE TcpLinkProofs ---------------------------
(***************************************************************************)
(* Theorems about TcpLink: whatever the link loses or repeats and whenever *)
(* an end closes, neither end forgets a byte that the other does not have, *)
(* no segment is larger than the client allows, the application reads the  *)
(* stream of the client, and the client receives that of the application.  *)
(***************************************************************************)
EXTENDS TcpLink, XnetTcpProofs, SequenceTheorems, WellFoundedInduction

\* What the assumptions say of the numbers: those of a whole connection do
\* not wrap.
LEMMA Sizes ==
    /\ ClientIss \in Nat /\ ServerIss \in Nat /\ ClientWin \in Nat
    /\ ToSend \in Nat /\ ToWrite \in Nat /\ SeqSpace \in Nat /\ BufSize \in Nat
    /\ ClientIss > 0 /\ ServerIss > 0 /\ ClientWin > 0 /\ BufSize > 0
    /\ ClientIss + ToSend + BufSize + 2 < SeqSpace
    /\ ServerIss + ToWrite + ClientWin + 2 < SeqSpace
    /\ FinSeq = ClientIss + 1 + ToSend
BY LinkAssumption, SeqSpaceAssumption, BufSizeAssumption DEF FinSeq

\* The table has the two blocks that one connection needs.
LEMMA TwoSlots == Slot = {Listener, Conn} /\ Listener # Conn
BY LinkAssumption DEF Slot, Listener, Conn
-----------------------------------------------------------------------------
(***************************************************************************)
(* Sequences of segments: what is in them, and that the SYNs come first.   *)
(***************************************************************************)
IsSyn(m) == "SYN" \in m.flags
IsFin(m) == "FIN" \in m.flags
IsRst(m) == "RST" \in m.flags

Elems(s) == {s[i] : i \in 1 .. Len(s)}

SynsFirst(s) == \A i, j \in 1 .. Len(s) : i < j /\ IsSyn(s[j]) => IsSyn(s[i])

\* Taking the first of a queue; behind one that is no SYN, none is.
LEMMA HeadElems ==
    ASSUME NEW S, NEW s \in Seq(S), s # <<>>
    PROVE  /\ Head(s) \in Elems(s) /\ Head(s) \in S /\ Tail(s) \in Seq(S)
           /\ Elems(Tail(s)) \subseteq Elems(s)
           /\ SynsFirst(s) => /\ SynsFirst(Tail(s))
                              /\ ~ IsSyn(Head(s)) => \A m \in Elems(s) : ~ IsSyn(m)
<1>1. /\ Len(s) \in Nat /\ Len(s) > 0 /\ Head(s) = s[1] /\ s[1] \in S
      /\ Tail(s) \in Seq(S) /\ Len(Tail(s)) = Len(s) - 1
      /\ \A i \in 1 .. Len(Tail(s)) : Tail(s)[i] = s[i + 1]
  BY HeadTailProperties, ElementOfSeq, EmptySeq
<1>2. Elems(Tail(s)) \subseteq Elems(s) /\ Head(s) \in Elems(s)
  BY <1>1 DEF Elems
<1>3. ASSUME SynsFirst(s) PROVE SynsFirst(Tail(s))
  <2> DEFINE r == Tail(s)
  <2> SUFFICES ASSUME NEW i \in 1 .. Len(r), NEW j \in 1 .. Len(r), i < j, IsSyn(r[j])
               PROVE  IsSyn(r[i])
    BY DEF SynsFirst
  <2>1. r[i] = s[i + 1] /\ r[j] = s[j + 1] /\ i + 1 \in 1 .. Len(s) /\ j + 1 \in 1 .. Len(s)
        /\ i + 1 < j + 1
    BY <1>1
  <2> QED
    BY <1>3, <2>1 DEF SynsFirst
<1>4. ASSUME SynsFirst(s), ~ IsSyn(Head(s)), NEW m \in Elems(s) PROVE ~ IsSyn(m)
  <2>1. PICK j \in 1 .. Len(s) : m = s[j]
    BY DEF Elems
  <2>2. j = 1 \/ 1 < j
    BY <2>1
  <2> QED
    BY <1>1, <1>4, <2>1, <2>2 DEF SynsFirst
<1> QED
  BY <1>1, <1>2, <1>3, <1>4

\* Putting one at the end of a queue.
LEMMA AppendElems ==
    ASSUME NEW S, NEW s \in Seq(S), NEW m \in S
    PROVE  /\ Append(s, m) \in Seq(S)
           /\ Elems(Append(s, m)) = Elems(s) \cup {m}
           /\ /\ SynsFirst(s)
              /\ IsSyn(m) => \A e \in Elems(s) : IsSyn(e)
              => SynsFirst(Append(s, m))
<1> DEFINE r == Append(s, m)
<1>1. /\ Len(s) \in Nat /\ r \in Seq(S) /\ Len(r) = Len(s) + 1 /\ r[Len(s) + 1] = m
      /\ \A i \in 1 .. Len(s) : r[i] = s[i]
  BY AppendProperties
<1> HIDE DEF r
<1>2. Elems(r) = Elems(s) \cup {m}
  BY <1>1 DEF Elems
<1>3. ASSUME SynsFirst(s), IsSyn(m) => \A e \in Elems(s) : IsSyn(e)
      PROVE  SynsFirst(r)
  <2> SUFFICES ASSUME NEW i \in 1 .. Len(r), NEW j \in 1 .. Len(r), i < j, IsSyn(r[j])
               PROVE  IsSyn(r[i])
    BY DEF SynsFirst
  <2>1. i \in 1 .. Len(s) /\ r[i] = s[i]
    BY <1>1
  <2>2. CASE j = Len(s) + 1
    <3>1. s[i] \in Elems(s) /\ r[j] = m
      BY <1>1, <2>1, <2>2 DEF Elems
    <3> QED
      BY <1>3, <2>1, <3>1
  <2>3. CASE j \in 1 .. Len(s)
    BY <1>1, <1>3, <2>1, <2>3 DEF SynsFirst
  <2> QED
    BY <1>1, <2>2, <2>3
<1> QED
  BY <1>1, <1>2, <1>3 DEF r

\* Repeating the first of a queue.
LEMMA RepeatElems ==
    ASSUME NEW S, NEW s \in Seq(S), s # <<>>
    PROVE  LET r == <<Head(s)>> \o s
           IN  /\ r \in Seq(S) /\ Elems(r) = Elems(s)
               /\ SynsFirst(s) => SynsFirst(r)
<1> DEFINE q == <<Head(s)>>
           r == q \o s
<1>1. Len(s) \in Nat /\ Len(s) > 0 /\ Head(s) = s[1] /\ s[1] \in S
  BY HeadTailProperties, ElementOfSeq, EmptySeq
<1>2. q \in Seq(S) /\ Len(q) = 1 /\ q[1] = s[1]
  BY <1>1
<1> HIDE DEF q
<1>3. /\ r \in Seq(S) /\ Len(r) = Len(s) + 1
      /\ \A i \in 1 .. Len(s) + 1 : r[i] = IF i <= 1 THEN q[i] ELSE s[i - 1]
  <2>1. /\ r \in Seq(S) /\ Len(r) = Len(q) + Len(s)
        /\ \A i \in 1 .. Len(q) + Len(s) : r[i] = IF i <= Len(q) THEN q[i] ELSE s[i - Len(q)]
    BY <1>2, ConcatProperties
  <2> QED
    BY <1>1, <1>2, <2>1
<1> HIDE DEF r
<1>4. /\ r[1] = s[1] /\ \A i \in 1 .. Len(s) : r[i + 1] = s[i]
      /\ \A j \in 1 .. Len(r) : j = 1 \/ (j - 1 \in 1 .. Len(s) /\ r[j] = s[j - 1])
  BY <1>1, <1>2, <1>3
<1>5. Elems(r) = Elems(s)
  <2>1. ASSUME NEW j \in 1 .. Len(r) PROVE r[j] \in Elems(s)
    BY <1>1, <1>3, <1>4 DEF Elems
  <2>2. ASSUME NEW j \in 1 .. Len(s) PROVE s[j] \in Elems(r)
    <3>1. j + 1 \in 1 .. Len(r) /\ r[j + 1] = s[j]
      BY <1>1, <1>3, <1>4
    <3> QED
      BY <3>1 DEF Elems
  <2> QED
    BY <2>1, <2>2 DEF Elems
<1>6. ASSUME SynsFirst(s), NEW i \in 1 .. Len(r), NEW j \in 1 .. Len(r), i < j, IsSyn(r[j])
      PROVE  IsSyn(r[i])
  <2>1. j - 1 \in 1 .. Len(s) /\ r[j] = s[j - 1] /\ j - 1 > 0
    BY <1>4, <1>6
  <2>2. CASE i = 1
    <3>1. 1 = j - 1 \/ 1 < j - 1
      BY <2>1
    <3>2. 1 \in 1 .. Len(s)
      BY <1>1
    <3> QED
      BY <1>4, <1>6, <2>1, <2>2, <3>1, <3>2 DEF SynsFirst
  <2>3. CASE i # 1
    <3>1. i - 1 \in 1 .. Len(s) /\ r[i] = s[i - 1] /\ i - 1 < j - 1
      BY <1>4, <1>6, <2>3
    <3> QED
      BY <1>6, <2>1, <3>1 DEF SynsFirst
  <2> QED
    BY <2>2, <2>3
<1> QED
  BY <1>2, <1>3, <1>5, <1>6 DEF r, q, SynsFirst
-----------------------------------------------------------------------------
(***************************************************************************)
(* What the operations of XnetTcp do to the fields of a block that matter  *)
(* here.                                                                   *)
(***************************************************************************)
\* The number behind the last byte of tx_buf, if none is skipped.
Ahead(t) == t.next_seq + WaitSendCount(t.tx_buf)

\* The number behind the last byte that rx_buf has room for.
Edge(t) == t.ack + FreeCount(t.rx_buf)

\* The types of the fields of a block that is in use.
LEMMA TcbFields ==
    ASSUME NEW t, Countable(t)
    PROVE  /\ t \in Tcb /\ t.next_seq \in SeqNum /\ t.unacked_seq \in SeqNum
           /\ t.ack \in SeqNum /\ t.remote_mss \in Nat /\ t.remote_win \in Nat
           /\ t.tx_buf \in Buf /\ t.rx_buf \in Buf
           /\ WaitSendCount(t.tx_buf) \in 0 .. BufSize
           /\ t.rx_buf.data_count \in 0 .. BufSize
           /\ FreeCount(t.rx_buf) \in 0 .. BufSize
<1>1. /\ t \in Tcb /\ t.next_seq \in SeqNum /\ t.unacked_seq \in SeqNum
      /\ t.ack \in SeqNum /\ t.remote_mss \in Nat /\ t.remote_win \in Nat
      /\ t.tx_buf \in Buf /\ t.rx_buf \in Buf
  BY SizeAssumption DEF Countable, Tcb, Win
<1>2. /\ t.tx_buf.data_count \in 0 .. BufSize /\ t.tx_buf.unacked_count \in 0 .. BufSize
      /\ t.rx_buf.data_count \in 0 .. BufSize
      /\ t.tx_buf.unacked_count <= t.tx_buf.data_count
  BY <1>1 DEF Buf, Countable
<1> QED
  BY <1>1, <1>2, Sizes DEF WaitSendCount, FreeCount

\* tcp_send moves only the sending half; what it sends is the beginning of
\* what waits, under the next number.
LEMMA SendFields ==
    ASSUME NEW t, Countable(t), NEW flags \in SUBSET Flag, NEW r,
           Ahead(t) + 1 < SeqSpace
    PROVE  LET u == AfterSend(t, flags, r)
               m == SegmentOf(t, flags)
           IN  /\ u.state = t.state /\ u.rx_buf = t.rx_buf /\ u.ack = t.ack
               /\ u.unacked_seq = t.unacked_seq /\ u.remote_mss = t.remote_mss
               /\ u.remote = t.remote /\ u.local_port = t.local_port
               /\ Ahead(u) = Ahead(t) + (IF r = "OK" THEN Control(flags) ELSE 0)
               /\ m.flags = flags /\ m.seq = t.next_seq /\ m.ack = t.ack
               /\ m.window = FreeCount(t.rx_buf)
               /\ Len(m.data) \in Nat
               /\ m.seq + Len(m.data) <= Ahead(t)
               /\ Len(m.data) <= t.remote_mss
<1> DEFINE u == AfterSend(t, flags, r)
           m == SegmentOf(t, flags)
           size == SendSize(t, flags)
<1>1. /\ t \in Tcb /\ t.next_seq \in SeqNum /\ t.remote_mss \in Nat /\ t.remote_win \in Nat
      /\ t.tx_buf \in Buf /\ WaitSendCount(t.tx_buf) \in 0 .. BufSize
      /\ t.tx_buf.data_count \in 0 .. BufSize /\ t.tx_buf.unacked_count \in 0 .. BufSize
  BY TcbFields DEF Buf
<1>2. /\ u.state = t.state /\ u.rx_buf = t.rx_buf /\ u.ack = t.ack
      /\ u.unacked_seq = t.unacked_seq /\ u.remote_mss = t.remote_mss
      /\ u.remote = t.remote /\ u.local_port = t.local_port
  BY <1>1 DEF AfterSend, Sent, Refused, Tcb
<1>3. size \in 0 .. BufSize /\ size <= WaitSendCount(t.tx_buf)
  BY <1>1, SendSizeType DEF WaitSendCount
<1>4. size <= t.remote_mss
  <2>1. DataMax - SynOption(flags) \in Nat
    BY SizeAssumption DEF SynOption
  <2> QED
    BY <1>1, <2>1 DEF SendSize, min
<1>5. Control(flags) \in {0, 1}
  BY DEF Control
<1>6. Ahead(u) = Ahead(t) + (IF r = "OK" THEN Control(flags) ELSE 0)
  <2>1. CASE r = "OK"
    <3>1. /\ u.tx_buf.unacked_count = t.tx_buf.unacked_count + size
          /\ u.tx_buf.data_count = t.tx_buf.data_count
          /\ u.next_seq = SeqAdd(t.next_seq, size + Control(flags))
      BY <2>1, SentType DEF AfterSend
    <3>2. u.next_seq = t.next_seq + size + Control(flags)
      BY <1>1, <1>3, <1>5, <3>1, Sizes DEF SeqAdd, SeqNum, Ahead
    <3> QED
      BY <1>1, <1>3, <1>5, <2>1, <3>1, <3>2, Sizes DEF Ahead, WaitSendCount, SeqNum
  <2>2. CASE r # "OK"
    <3>1. /\ u.tx_buf.unacked_count = t.tx_buf.unacked_count
          /\ u.tx_buf.data_count = t.tx_buf.data_count
          /\ u.next_seq = t.next_seq
      BY <2>2, RefusedType DEF AfterSend
    <3> QED
      BY <1>1, <2>2, <3>1, Sizes DEF Ahead, WaitSendCount, SeqNum
  <2> QED
    BY <2>1, <2>2
<1>7. /\ m.flags = flags /\ m.seq = t.next_seq /\ m.ack = t.ack
      /\ m.window = FreeCount(t.rx_buf) /\ m.data = SendBytes(t.tx_buf, size)
  BY DEF SegmentOf
<1>8. Len(m.data) = size
  <2>1. Len(SendBytes(t.tx_buf, size)) = size
    BY <1>3 DEF SendBytes
  <2> QED
    BY <1>7, <2>1
<1>9. m.seq + Len(m.data) <= Ahead(t)
  <2>1. t.next_seq \in Nat /\ WaitSendCount(t.tx_buf) \in Nat
    BY <1>1, Sizes DEF SeqNum
  <2> HIDE DEF size, m
  <2> QED
    BY <1>3, <1>7, <1>8, <2>1, Sizes DEF Ahead
<1> QED
  BY <1>2, <1>3, <1>4, <1>6, <1>7, <1>8, <1>9

\* A segment in ESTABLISHED: the bytes that are stored move ack, and an ACK
\* takes bytes that were sent.
LEMMA DataFields ==
    ASSUME NEW s \in Slot, NEW seg \in Arriving, BlockInv(tcp_socket[s]),
           tcp_socket[s].state = "ESTABLISHED",
           tcp_socket[s].ack + BufSize + 1 < SeqSpace
    PROVE  LET t == tcp_socket[s]
               u == AfterData(s, seg)
           IN  /\ Countable(u) /\ u.state = "ESTABLISHED"
               /\ u.remote = t.remote /\ u.local_port = t.local_port
               /\ u.remote_mss = t.remote_mss
               /\ Ahead(u) = Ahead(t)
               /\ u.unacked_seq = t.unacked_seq \/ u.unacked_seq = seg.ack
               /\ u.rx_buf = Written(t.rx_buf, Payload(seg))
               /\ u.rx_buf.data_count = t.rx_buf.data_count + Stored(s, seg)
               /\ u.ack = t.ack + Stored(s, seg) + Control(seg.flags)
               /\ Stored(s, seg) = min(seg.len, FreeCount(t.rx_buf))
<1> DEFINE t == tcp_socket[s]
           h == Heard(s, seg)
           a == Acknowledged(h, seg)
           u == AfterData(s, seg)
           n == Stored(s, seg)
<1>1. /\ BlockInv(h) /\ h.state = t.state /\ h.remote = t.remote /\ h.ack = t.ack
      /\ h.tx_buf = t.tx_buf /\ h.rx_buf = t.rx_buf
      /\ h.next_seq = t.next_seq /\ h.unacked_seq = t.unacked_seq
      /\ h.local_port = t.local_port
  BY HeardInv
<1>2. h.remote_mss = t.remote_mss
  BY DEF Heard, BlockInv, Tcb
<1>3. Countable(h) /\ AheadBy(h, 0) /\ h \in Tcb
  BY <1>1, ConnectedCountable, EstablishedAhead DEF Connected, BlockInv
<1>4. /\ Countable(a) /\ AheadBy(a, 0)
      /\ a.state = h.state /\ a.remote = h.remote /\ a.ack = h.ack /\ a.rx_buf = h.rx_buf
  BY <1>3, AckedType
<1>5. /\ a.local_port = h.local_port /\ a.remote_mss = h.remote_mss
      /\ a.next_seq = h.next_seq
      /\ a.unacked_seq = h.unacked_seq \/ a.unacked_seq = seg.ack
  BY <1>3 DEF Acknowledged, Tcb
<1>6. WaitSendCount(a.tx_buf) = WaitSendCount(h.tx_buf)
  <2>1. CASE ~AckInRange(h, seg)
    BY <2>1 DEF Acknowledged
  <2>2. CASE AckInRange(h, seg)
    <3> DEFINE k == seg.ack - h.unacked_seq
    <3>1. /\ h.tx_buf \in Buf /\ h.unacked_seq \in SeqNum /\ seg.ack \in SeqNum
          /\ h.tx_buf.data_count \in Nat /\ h.tx_buf.unacked_count \in Nat
      BY <1>3, ArrivingType, Sizes DEF Tcb, Buf
    <3>2. k \in Int
      BY <3>1, Sizes DEF SeqNum
    <3>3. a.tx_buf = AddAcked(h.tx_buf, k)
      BY <1>3, <2>2 DEF Acknowledged, Tcb
    <3> HIDE DEF k
    <3>4. /\ a.tx_buf.data_count = h.tx_buf.data_count - k
          /\ a.tx_buf.unacked_count = h.tx_buf.unacked_count - k
      BY <3>1, <3>3 DEF AddAcked, Buf
    <3> QED
      BY <3>1, <3>2, <3>4 DEF WaitSendCount
  <2> QED
    BY <2>1, <2>2
<1>7. /\ a \in Tcb /\ a.rx_buf \in Buf /\ a.ack \in SeqNum
      /\ a.rx_buf.data_count \in 0 .. BufSize
  BY <1>4, TcbFields
<1>8. /\ u.rx_buf = Written(a.rx_buf, Payload(seg))
      /\ u.ack = SeqAdd(a.ack, WriteSize(a.rx_buf, Payload(seg)) + Control(seg.flags))
      /\ u.tx_buf = a.tx_buf /\ u.next_seq = a.next_seq /\ u.unacked_seq = a.unacked_seq
      /\ u.state = a.state /\ u.remote = a.remote /\ u.local_port = a.local_port
      /\ u.remote_mss = a.remote_mss
  BY <1>7 DEF AfterData, Received, Tcb
<1>9. Countable(u)
  BY AfterDataType
<1>10. n = WriteSize(a.rx_buf, Payload(seg))
  BY <1>1, <1>4 DEF Stored
<1>11. n \in Nat /\ n <= BufSize /\ n = min(seg.len, FreeCount(t.rx_buf))
  <2>1. seg.len \in Nat /\ Len(Payload(seg)) = seg.len
    BY ArrivingType, PayloadType, Sizes
  <2>2. FreeCount(t.rx_buf) \in 0 .. BufSize
    BY <1>1, <1>4, <1>7, Sizes DEF FreeCount
  <2>3. n = min(seg.len, FreeCount(t.rx_buf))
    BY <2>1 DEF Stored, WriteSize
  <2> HIDE DEF n
  <2> QED
    BY <2>1, <2>2, <2>3, Sizes DEF min
<1>12. u.rx_buf.data_count = t.rx_buf.data_count + n
  <2>1. Written(a.rx_buf, Payload(seg)).data_count = a.rx_buf.data_count + n
    BY <1>7, <1>10 DEF Written, Buf
  <2> QED
    BY <1>1, <1>4, <1>8, <2>1
<1>13. u.ack = t.ack + n + Control(seg.flags)
  <2>1. Control(seg.flags) \in {0, 1}
    BY DEF Control
  <2>2. t.ack \in Nat /\ t.ack + BufSize + 1 < SeqSpace
    BY <1>1, <1>4, <1>7, Sizes DEF SeqNum
  <2> QED
    BY <1>1, <1>4, <1>8, <1>10, <1>11, <2>1, <2>2, Sizes DEF SeqAdd
<1>14. Ahead(u) = Ahead(t)
  BY <1>1, <1>5, <1>6, <1>8 DEF Ahead
<1> HIDE DEF h, a, u, n
<1> QED
  BY <1>1, <1>2, <1>4, <1>5, <1>8, <1>9, <1>11, <1>12, <1>13, <1>14 DEF u, n
-----------------------------------------------------------------------------
(***************************************************************************)
(* The inductive invariant.  Each part is about the block t of the         *)
(* connection, the client c, and what the application holds: the bytes it  *)
(* has read and those in rx_buf.                                           *)
(***************************************************************************)
FirstByte == ClientIss + 1

\* Behind every number the server uses: the SYN, its stream, and the FIN.
Limit == ServerIss + ToWrite + 2

\* How far the client has sent, without its FIN.
SentUpTo(c) == IF c.state = "CLOSED" THEN FirstByte ELSE min(c.nxt, FinSeq)

Asks(c)     == c.state \in {"CLOSED", "SYN_SENT"}
Receives(t) == t.state \in {"SYN_RECVD", "ESTABLISHED"}
FinSent(t)  == IF Receives(t) THEN 0 ELSE 1

\* tcp_read_mss finds the MSS in the options that the client may send.
ParserReads == \A options \in SynOptions \cup {<<>>} :
    Options!tcp_read_mss(Options!Bytes(options), MssDefault)
      = Options!Announced(options, MssDefault)

UpMsg == [ seq : Nat, ack : Nat, flags : {{"SYN"}, {"ACK"}, {"FIN", "ACK"}},
           len : 0 .. ToSend, options : SynOptions \cup {<<>>} ]

ClientType == [ state : {"CLOSED", "SYN_SENT", "OPEN", "REFUSED"},
                una : Nat, nxt : Nat, rcv : Nat, edge : Nat, mss : Nat,
                eof : BOOLEAN ]

\* One block listens, and the other is free or belongs to the client.
Blocks(l, t) ==
    /\ l.state = "LISTEN" /\ l.local_port = ServerPort
    /\ t.state \in Connected \cup {"FREE"}
    /\ t.state \in Connected => t.remote = Client /\ t.local_port = ServerPort

ClientOk(c) ==
    /\ c \in ClientType
    /\ ClientIss <= c.una /\ c.una <= c.nxt /\ c.nxt <= FinSeq + 1
    /\ c.rcv <= Limit
    /\ c.state = "SYN_SENT" => c.nxt = FirstByte
    /\ Asks(c) => c.una = ClientIss /\ c.rcv = 0 /\ c.edge = 0
    /\ c.state = "OPEN" => FirstByte <= c.una /\ ServerIss < c.rcv

\* A segment under way to the server.
UpOk(m, c, t) ==
    /\ m.ack <= c.rcv
    /\ IsSyn(m) =>
         /\ m.seq = ClientIss /\ m.len = 0
         /\ c.state # "CLOSED" /\ c.mss = Options!Announced(m.options, MssDefault)
         /\ t.state = "SYN_RECVD" \/ (t.state = "FREE" /\ Asks(c))
    /\ ~ IsSyn(m) =>
         /\ ~ Asks(c) /\ ServerIss < c.rcv
         /\ FirstByte <= m.seq /\ m.seq <= FinSeq + 1
         /\ m.len > 0 => m.seq + m.len <= SentUpTo(c)
         /\ IsFin(m) => /\ m.seq + m.len = FinSeq
                        /\ m.len > 0 /\ Receives(t) => FinSeq <= Edge(t)

\* A segment under way to the client; h is what the application holds.
DownOk(m, c, t, h) ==
    /\ ParserReads => Len(m.data) <= c.mss
    /\ IsRst(m) => m.seq = 0
    /\ ~ IsRst(m) =>
         /\ IsSyn(m) => m.seq = ServerIss
         /\ m.seq + Len(m.data) + Control(m.flags) <= Limit
         /\ Receives(t) => m.ack + m.window <= Edge(t)
         /\ t.state \in Connected => min(m.ack, FinSeq) <= FirstByte + h

\* The block; w is the number of the byte that the application writes next.
BlockOk(t, c, w, h) ==
    t.state \in Connected =>
      /\ w \in ServerIss + 1 .. ServerIss + 1 + ToWrite
      /\ Ahead(t) <= w + FinSent(t)
      /\ ParserReads => t.remote_mss = c.mss
      /\ IF t.state = "LAST_ACK" THEN min(t.ack, FinSeq) <= FirstByte + h
                                 ELSE t.ack = FirstByte + h
      /\ RxAt(t.rx_buf, FirstByte + h)
      /\ min(c.una, FinSeq) <= FirstByte + h
      /\ Receives(t) => c.edge <= Edge(t)
      /\ t.state = "SYN_RECVD" => /\ h = 0 /\ t.unacked_seq = ServerIss
                                  /\ c.state # "CLOSED"
      /\ t.state = "ESTABLISHED" => t.unacked_seq <= c.rcv

\* The application has read the beginning of the client's stream.
ReadOk(c, r, h) ==
    /\ r \in Seq(Byte) /\ r = Numbers(FirstByte, FirstByte + Len(r))
    /\ FirstByte + h <= SentUpTo(c)

\* While the client asks for a connection, there is none that has been open.
AskingOk(c, t, d) ==
    Asks(c) => /\ t.state \in {"FREE", "SYN_RECVD"}
               /\ t.state = "FREE" => d = <<>>

Conns == tcp_socket[Conn]
Held  == Len(read) + Conns.rx_buf.data_count

Queues ==
    /\ up \in Seq(UpMsg) /\ SynsFirst(up)
    /\ \A m \in Elems(up) : UpOk(m, client, Conns)
    /\ down \in Seq(Departing)
    /\ \A m \in Elems(down) : DownOk(m, client, Conns, Held)

LinkInv ==
    /\ IInv
    /\ Blocks(tcp_socket[Listener], Conns)
    /\ ClientOk(client)
    /\ BlockOk(Conns, client, written[Conn], Held)
    /\ ReadOk(client, read, Held)
    /\ AskingOk(client, Conns, down)
    /\ Queues
-----------------------------------------------------------------------------
(***************************************************************************)
(* Facts that every step needs.                                            *)
(***************************************************************************)
LEMMA InvFacts ==
    ASSUME LinkInv
    PROVE  /\ Conns \in Tcb /\ BlockInv(Conns) /\ BlockInv(tcp_socket[Listener])
           /\ Conns = tcp_socket[Conn]
           /\ Conns.ack \in Nat /\ Conns.rx_buf \in Buf
           /\ FreeCount(Conns.rx_buf) \in Nat /\ Edge(Conns) \in Nat
           /\ Len(read) \in Nat /\ Held \in Nat
           /\ Held = Len(read) + Conns.rx_buf.data_count
           /\ Conns.rx_buf.data_count \in 0 .. BufSize
           /\ SentUpTo(client) \in Nat /\ SentUpTo(client) <= FinSeq
           /\ FirstByte + Held <= FinSeq
<1>1. /\ Conns = tcp_socket[Conn] /\ Conns \in Tcb
      /\ BlockInv(Conns) /\ BlockInv(tcp_socket[Listener])
  BY TwoSlots DEF LinkInv, IInv, Conns
<1>2. /\ Conns.ack \in Nat /\ Conns.rx_buf \in Buf
      /\ Conns.rx_buf.data_count \in 0 .. BufSize
  BY <1>1, Sizes DEF Tcb, SeqNum, Buf
<1>3. FreeCount(Conns.rx_buf) \in Nat /\ Edge(Conns) \in Nat
  BY <1>2, Sizes DEF FreeCount, Edge
<1>4. Len(read) \in Nat
  BY DEF LinkInv, ReadOk
<1>5. Held \in Nat /\ Held = Len(read) + Conns.rx_buf.data_count
  BY <1>2, <1>4, Sizes DEF Held
<1>6. SentUpTo(client) \in Nat /\ SentUpTo(client) <= FinSeq
  <2>1. client.nxt \in Nat
    BY DEF LinkInv, ClientOk, ClientType
  <2> QED
    BY <2>1, Sizes DEF SentUpTo, FirstByte, min
<1>7. FirstByte + Held <= FinSeq
  <2>1. FirstByte + Held <= SentUpTo(client) /\ FirstByte \in Nat /\ FinSeq \in Nat
    BY Sizes DEF LinkInv, ReadOk, FirstByte
  <2> QED
    BY <1>5, <1>6, <2>1
<1> QED
  BY <1>1, <1>2, <1>3, <1>4, <1>5, <1>6, <1>7

\* A segment under way stays as good as it was while the server only moves
\* on: it makes room and takes bytes, or closes.
Evolves(t, h, v, k) ==
    /\ Receives(v) => Receives(t) /\ Edge(t) <= Edge(v)
    /\ v.state \in Connected => t.state \in Connected /\ h <= k

\* What is promised of a segment to the server outlives a step of the server.
LEMMA UpStays ==
    ASSUME NEW m, NEW c, NEW t, NEW v, UpOk(m, c, t),
           Receives(v) => Receives(t) /\ Edge(t) <= Edge(v),
           Edge(t) \in Nat, Edge(v) \in Nat,
           IsSyn(m) => v.state = "SYN_RECVD" \/ (v.state = "FREE" /\ Asks(c))
    PROVE  UpOk(m, c, v)
<1> USE Sizes
<1>1. CASE IsSyn(m)
  BY <1>1 DEF UpOk
<1>2. CASE ~ IsSyn(m)
  BY <1>2 DEF UpOk
<1> QED
  BY <1>1, <1>2

\* And so does what is promised of a segment to the client.
LEMMA DownStays ==
    ASSUME NEW m \in Departing, NEW c, NEW t, NEW v, NEW h \in Nat, NEW k \in Nat,
           DownOk(m, c, t, h), Evolves(t, h, v, k),
           Edge(t) \in Nat, Edge(v) \in Nat
    PROVE  DownOk(m, c, v, k)
<1>1. m.ack \in Nat /\ m.window \in Nat /\ FirstByte \in Nat /\ FinSeq \in Nat
  BY Sizes DEF Departing, SeqNum, FirstByte
<1>2. ASSUME ~ IsRst(m), Receives(v) PROVE m.ack + m.window <= Edge(v)
  BY <1>1, <1>2 DEF DownOk, Evolves
<1>3. ASSUME ~ IsRst(m), v.state \in Connected
      PROVE  min(m.ack, FinSeq) <= FirstByte + k
  BY <1>1, <1>3 DEF DownOk, Evolves, min
<1> QED
  BY <1>2, <1>3 DEF DownOk
-----------------------------------------------------------------------------
(***************************************************************************)
(* A step of the server: the block v after it, and what it sends.          *)
(***************************************************************************)
LEMMA ServerStep ==
    ASSUME LinkInv, IInv', client' = client,
           NEW v, v = Conns', NEW k, k = Held',
           Blocks(tcp_socket'[Listener], v),
           BlockOk(v, client, written'[Conn], k),
           ReadOk(client, read', k),
           AskingOk(client, v, down'),
           \/ Evolves(Conns, Held, v, k)
           \/ down = <<>> /\ \A m \in Elems(up) : IsSyn(m),
           up' \in Seq(UpMsg), SynsFirst(up'), Elems(up') \subseteq Elems(up),
           \A m \in Elems(up') : IsSyn(m) =>
               v.state = "SYN_RECVD" \/ (v.state = "FREE" /\ Asks(client)),
           down' = down \o Answer',
           out' = {} \/ \E m : out' = {m},
           \A m \in out' : DownOk(m, client, v, k)
    PROVE  LinkInv'
<1>1. Edge(Conns) \in Nat /\ Held \in Nat
  BY InvFacts
<1>2. Edge(v) \in Nat /\ k \in Nat
  <2>1. v \in Tcb
    BY TwoSlots DEF IInv, Conns
  <2>2. v.ack \in Nat /\ v.rx_buf.data_count \in 0 .. BufSize
    BY <2>1, Sizes DEF Tcb, SeqNum, Buf
  <2>3. Len(read') \in Nat /\ k = Len(read') + v.rx_buf.data_count
    BY DEF ReadOk, Held
  <2>4. BufSize \in Nat
    BY Sizes
  <2>5. FreeCount(v.rx_buf) \in Nat /\ v.rx_buf.data_count \in Nat
    BY ONLY <2>2, <2>4 DEF FreeCount
  <2>6. k \in Nat
    BY ONLY <2>3, <2>5
  <2>7. Edge(v) \in Nat
    BY ONLY <2>2, <2>5 DEF Edge
  <2> QED
    BY <2>6, <2>7
<1>3. \A m \in Elems(up') : UpOk(m, client, v)
  <2> SUFFICES ASSUME NEW m \in Elems(up') PROVE UpOk(m, client, v)
    OBVIOUS
  <2>1. m \in Elems(up) /\ UpOk(m, client, Conns)
    BY DEF LinkInv, Queues
  <2>2. CASE Evolves(Conns, Held, v, k)
    BY <1>1, <1>2, <2>1, <2>2, UpStays DEF Evolves
  <2>3. CASE \A n \in Elems(up) : IsSyn(n)
    BY <2>1, <2>3 DEF UpOk
  <2> QED
    BY <2>2, <2>3
<1>4. \A m \in Elems(down) : DownOk(m, client, v, k)
  <2> SUFFICES ASSUME NEW m \in Elems(down) PROVE DownOk(m, client, v, k)
    OBVIOUS
  <2>1. PICK i \in 1 .. Len(down) : m = down[i]
    BY DEF Elems
  <2>2. down # <<>> /\ m \in Departing /\ DownOk(m, client, Conns, Held)
    BY <2>1, ElementOfSeq DEF LinkInv, Queues
  <2> QED
    BY <1>1, <1>2, <2>2, DownStays
<1>5. down' \in Seq(Departing) /\ \A m \in Elems(down') : DownOk(m, client, v, k)
  <2>0. down \in Seq(Departing) /\ out' \subseteq Departing
    BY DEF LinkInv, Queues, IInv
  <2>1. CASE out' = {}
    <3>1. down' = down
      BY <2>0, <2>1 DEF Answer
    <3> QED
      BY <1>4, <2>0, <3>1
  <2>2. CASE out' # {}
    <3>1. PICK m : out' = {m}
      BY <2>2
    <3>2. m \in Departing /\ DownOk(m, client, v, k)
      BY <2>0, <3>1
    <3>3. down' = Append(down, m)
      BY <2>0, <3>1, <3>2 DEF Answer
    <3>4. down' \in Seq(Departing) /\ Elems(down') = Elems(down) \cup {m}
      BY <2>0, <3>2, <3>3, AppendElems
    <3> QED
      BY <1>4, <3>2, <3>4
  <2> QED
    BY <2>1, <2>2
<1>6. Queues'
  BY <1>3, <1>5 DEF Queues
<1>7. ClientOk(client)
  BY DEF LinkInv
<1> QED
  BY <1>6, <1>7 DEF LinkInv

\* What arrives is a segment that XnetTcp knows, and says what the client
\* meant.
LEMMA HeadArrives ==
    ASSUME LinkInv, up # <<>>
    PROVE  LET m   == Head(up)
               seg == Arrived(m)
           IN  /\ m \in UpMsg /\ UpOk(m, client, Conns)
               /\ seg \in Arriving /\ seg.from = Client /\ seg.dest_port = ServerPort
               /\ seg.seq = m.seq /\ seg.ack = m.ack /\ seg.flags = m.flags
               /\ seg.len = m.len
               /\ ParserReads => seg.mss = Options!Announced(m.options, MssDefault)
               /\ Tail(up) \in Seq(UpMsg) /\ SynsFirst(Tail(up))
               /\ Elems(Tail(up)) \subseteq Elems(up)
               /\ ~ IsSyn(m) => \A e \in Elems(up) : ~ IsSyn(e)
<1> DEFINE m   == Head(up)
           seg == Arrived(m)
<1>1. up \in Seq(UpMsg) /\ SynsFirst(up)
  BY DEF LinkInv, Queues
<1>2. /\ m \in Elems(up) /\ m \in UpMsg
      /\ Tail(up) \in Seq(UpMsg) /\ SynsFirst(Tail(up))
      /\ Elems(Tail(up)) \subseteq Elems(up)
      /\ ~ IsSyn(m) => \A e \in Elems(up) : ~ IsSyn(e)
  BY <1>1, HeadElems
<1> HIDE DEF m
<1>3. UpOk(m, client, Conns)
  BY <1>2 DEF LinkInv, Queues
<1>4. /\ seg.from = Client /\ seg.dest_port = ServerPort
      /\ seg.seq = m.seq /\ seg.ack = m.ack /\ seg.flags = m.flags
      /\ seg.len = m.len /\ seg.window = ClientWin
      /\ seg.mss = Options!tcp_read_mss(Options!Bytes(m.options), MssDefault)
  BY DEF Arrived
<1>5. ParserReads => seg.mss = Options!Announced(m.options, MssDefault)
  BY <1>2, <1>4 DEF ParserReads, UpMsg
<1>6. m.seq \in SeqNum
  <2>1. m.seq \in Nat /\ (m.seq = ClientIss \/ m.seq <= FinSeq + 1)
    BY <1>2, <1>3 DEF UpMsg, UpOk
  <2> QED
    BY <2>1, Sizes DEF SeqNum
<1>7. m.ack \in SeqNum
  <2>1. m.ack \in Nat /\ client.rcv \in Nat /\ m.ack <= client.rcv /\ client.rcv <= Limit
    BY <1>2, <1>3 DEF UpMsg, UpOk, LinkInv, ClientOk, ClientType
  <2> QED
    BY <2>1, Sizes DEF SeqNum, Limit
<1>8. seg \in Arriving
  <2>1. /\ m.flags \in SegFlags /\ ClientWin \in SegWindows /\ m.len \in SegLens
        /\ seg.mss \in SegMss /\ m.ack \in SegAcks
        /\ Client \in Peer /\ ServerPort \in Port
    BY <1>2, <1>4, <1>7, ArrivingAssumption, LinkAssumption DEF UpMsg
  <2> QED
    BY <1>6, <2>1, <1>4 DEF Arriving, Arrived
<1> HIDE DEF seg
<1> QED
  BY <1>2, <1>3, <1>4, <1>5, <1>8 DEF m, seg

\* What a step of the server on the block of a connection has to show.
LEMMA ConnStep ==
    ASSUME LinkInv, IInv', ServerSide, Conns.state \in Connected,
           \/ up' = up
           \/ up # <<>> /\ up' = Tail(up),
           NEW v, Update(Conn, v),
           v.state \in Connected \cup {"FREE"},
           v.state \in Connected =>
             v.remote = Conns.remote /\ v.local_port = Conns.local_port,
           NEW k, k = Len(read') + v.rx_buf.data_count,
           BlockOk(v, client, written'[Conn], k),
           ReadOk(client, read', k),
           Evolves(Conns, Held, v, k),
           Conns.state = "SYN_RECVD" =>
             \/ v.state = "SYN_RECVD"
             \/ ~ Asks(client) /\ \A m \in Elems(up) : ~ IsSyn(m),
           out' = {} \/ \E m : out' = {m},
           \A m \in out' : DownOk(m, client, v, k)
    PROVE  LinkInv'
<1>1. client' = client /\ down' = down \o Answer'
  BY DEF ServerSide
<1>2. tcp_socket'[Conn] = v /\ tcp_socket'[Listener] = tcp_socket[Listener]
  BY TwoSlots DEF Update, LinkInv, IInv
<1>3. Conns' = v /\ Held' = k
  BY <1>2 DEF Conns, Held
<1>4. Blocks(tcp_socket'[Listener], v)
  BY <1>2 DEF LinkInv, Blocks
<1>5. Conns.state # "FREE"
  BY DEF Connected
<1>6. AskingOk(client, v, down')
  BY <1>5 DEF LinkInv, AskingOk
<1>7. up' \in Seq(UpMsg) /\ SynsFirst(up') /\ Elems(up') \subseteq Elems(up)
  BY HeadArrives DEF LinkInv, Queues
<1>8. ASSUME NEW m \in Elems(up'), IsSyn(m)
      PROVE  v.state = "SYN_RECVD" \/ (v.state = "FREE" /\ Asks(client))
  <2>1. m \in Elems(up) /\ UpOk(m, client, Conns)
    BY <1>7, <1>8 DEF LinkInv, Queues
  <2>2. Conns.state = "SYN_RECVD"
    BY <1>5, <1>8, <2>1 DEF UpOk
  <2> QED
    BY <1>8, <2>1, <2>2
<1> QED
  BY <1>1, <1>3, <1>4, <1>6, <1>7, <1>8, ServerStep

\* A reset says nothing of the streams.
IsReset(m) == IsRst(m) /\ m.seq = 0 /\ m.data = <<>>

\* Therefore a reset keeps every promise.
LEMMA ResetOk ==
    ASSUME LinkInv, NEW m, IsReset(m), NEW v, NEW k
    PROVE  DownOk(m, client, v, k)
<1>1. client.mss \in Nat /\ Len(m.data) = 0
  BY DEF LinkInv, ClientOk, ClientType, IsReset
<1> QED
  BY <1>1 DEF DownOk, IsReset

\* tcp_send_reset sends a reset, or, on a miss, nothing.
LEMMA SendResetOk ==
    ASSUME NEW ack, NEW port, NEW peer, NEW r, SendReset(ack, port, peer, r)
    PROVE  /\ out' = {} \/ \E m : out' = {m}
           /\ \A m \in out' : IsReset(m)
<1>1. CASE r = "OK"
  <2> DEFINE m == [ to |-> peer, src_port |-> port, seq |-> 0, ack |-> ack,
                    flags |-> {"RST", "ACK"}, window |-> 0, data |-> <<>> ]
  <2>1. IsReset(m)
    BY DEF IsReset, IsRst
  <2>2. out' = {m}
    BY <1>1 DEF SendReset
  <2> HIDE DEF m
  <2> QED
    BY <2>1, <2>2
<1>2. CASE r # "OK"
  BY <1>2 DEF SendReset
<1> QED
  BY <1>1, <1>2

\* A step that leaves what the two streams need as it was: the block keeps
\* its state, goes from FIN_WAIT_1 to FIN_WAIT_2, or is freed.
LEMMA QuietStep ==
    ASSUME LinkInv, IInv', ServerSide, Conns.state \in Connected,
           \/ up' = up
           \/ up # <<>> /\ up' = Tail(up),
           read' = read, written' = written,
           NEW v, Update(Conn, v),
           v.rx_buf = Conns.rx_buf, v.ack = Conns.ack, v.tx_buf = Conns.tx_buf,
           v.next_seq = Conns.next_seq, v.unacked_seq = Conns.unacked_seq,
           v.remote_mss = Conns.remote_mss,
           v.remote = Conns.remote, v.local_port = Conns.local_port,
           \/ v.state = Conns.state
           \/ v.state = "FREE" /\ Conns.state # "SYN_RECVD"
           \/ v.state = "FIN_WAIT_2" /\ Conns.state = "FIN_WAIT_1",
           out' = {} \/ \E m : out' = {m},
           \A m \in out' : IsReset(m)
    PROVE  LinkInv'
<1>1. Held = Len(read') + v.rx_buf.data_count /\ Held \in Nat /\ Edge(Conns) \in Nat
  BY InvFacts
<1>2. Edge(v) = Edge(Conns) /\ Ahead(v) = Ahead(Conns)
  BY DEF Edge, Ahead
<1>3. v.state \in Connected \cup {"FREE"}
  BY DEF Connected
<1>4. BlockOk(Conns, client, written[Conn], Held)
  BY DEF LinkInv
<1>5. BlockOk(v, client, written'[Conn], Held)
  BY <1>2, <1>4 DEF BlockOk, Receives, FinSent, Connected
<1>6. Evolves(Conns, Held, v, Held)
  BY <1>1, <1>2 DEF Evolves, Receives
<1>7. ReadOk(client, read', Held)
  BY DEF LinkInv
<1>8. \A m \in out' : DownOk(m, client, v, Held)
  BY ResetOk
<1> QED
  BY <1>1, <1>3, <1>5, <1>6, <1>7, <1>8, ConnStep
-----------------------------------------------------------------------------
(***************************************************************************)
(* The segments of an open connection.                                     *)
(***************************************************************************)
\* What tcp_send sends is within the bounds of the client, and names a window
\* and an ack number that the block keeps.
LEMMA SendOk ==
    ASSUME LinkInv, NEW t, Countable(t), NEW flags \in SUBSET Flag, "RST" \notin flags,
           Ahead(t) + Control(flags) <= Limit,
           "SYN" \in flags => t.next_seq = ServerIss,
           ParserReads => t.remote_mss = client.mss,
           NEW v, NEW k,
           Receives(v) => v.ack = t.ack /\ v.rx_buf = t.rx_buf,
           v.state \in Connected => min(t.ack, FinSeq) <= FirstByte + k,
           NEW r, Emit(t, flags, r)
    PROVE  /\ out' = {} \/ \E m : out' = {m}
           /\ \A m \in out' : DownOk(m, client, v, k)
<1> DEFINE m == SegmentOf(t, flags)
<1>1. /\ Ahead(t) \in Nat /\ Limit \in Nat /\ Limit + 1 < SeqSpace
      /\ t.ack \in Nat /\ FreeCount(t.rx_buf) \in Nat
      /\ Control(flags) \in {0, 1}
  <2>1. /\ t.next_seq \in Nat /\ WaitSendCount(t.tx_buf) \in Nat
        /\ t.ack \in Nat /\ FreeCount(t.rx_buf) \in Nat
    BY TcbFields, Sizes DEF SeqNum
  <2> QED
    BY <2>1, Sizes DEF Ahead, Limit, Control
<1>2. /\ m.flags = flags /\ m.seq = t.next_seq /\ m.ack = t.ack
      /\ m.window = FreeCount(t.rx_buf)
      /\ Len(m.data) \in Nat /\ m.seq + Len(m.data) <= Ahead(t)
      /\ Len(m.data) <= t.remote_mss
  <2>1. Ahead(t) + 1 < SeqSpace
    BY <1>1, Sizes
  <2> QED
    BY <2>1, SendFields
<1> HIDE DEF m
<1>3. m.seq \in Nat
  BY <1>2, TcbFields, Sizes DEF SeqNum
<1>4. m.seq + Len(m.data) + Control(m.flags) <= Limit
  BY <1>1, <1>2, <1>3
<1>5. Receives(v) => m.ack + m.window <= Edge(v)
  BY <1>1, <1>2 DEF Edge
<1>6. DownOk(m, client, v, k)
  BY <1>2, <1>4, <1>5 DEF DownOk, IsRst, IsSyn
<1>7. out' = IF r = "OK" THEN {m} ELSE {}
  BY DEF Emit, m
<1> QED
  BY <1>6, <1>7

\* tcp_recv: what is stored continues what the application holds, and with
\* the FIN everything has been stored.
LEMMA OpenFacts ==
    ASSUME LinkInv, up # <<>>, NEW seg, seg = Arrived(Head(up)),
           Conns.state = "ESTABLISHED", seg.seq = Conns.ack
    PROVE  LET t == AfterData(Conn, seg)
               n == Stored(Conn, seg)
           IN  /\ Countable(t) /\ t.state = "ESTABLISHED"
               /\ t.remote = Conns.remote /\ t.local_port = Conns.local_port
               /\ t.remote_mss = Conns.remote_mss /\ Ahead(t) = Ahead(Conns)
               /\ n \in Nat
               /\ t.rx_buf.data_count = Conns.rx_buf.data_count + n
               /\ t.ack = Conns.ack + n + Control(seg.flags)
               /\ t.unacked_seq <= client.rcv
               /\ Conns.ack = FirstByte + Held
               /\ RxAt(t.rx_buf, FirstByte + Held + n)
               /\ FirstByte + Held + n <= SentUpTo(client)
               /\ "SYN" \notin seg.flags
               /\ "FIN" \in seg.flags => FirstByte + Held + n = FinSeq
<1> DEFINE m == Head(up)
           t == AfterData(Conn, seg)
           n == Stored(Conn, seg)
<1>1. /\ m \in UpMsg /\ UpOk(m, client, Conns) /\ seg \in Arriving
      /\ seg.seq = m.seq /\ seg.ack = m.ack /\ seg.flags = m.flags /\ seg.len = m.len
  BY HeadArrives
<1>2. /\ Conns.ack = FirstByte + Held /\ RxAt(Conns.rx_buf, FirstByte + Held)
      /\ Conns.unacked_seq <= client.rcv
  BY DEF LinkInv, BlockOk, Connected
<1>3. /\ Conns.ack \in Nat /\ Conns.ack <= FinSeq /\ Conns.ack + BufSize + 1 < SeqSpace
      /\ FirstByte \in Nat /\ Held \in Nat
  <2>1. FirstByte + Held <= FinSeq /\ Conns.ack \in Nat /\ Held \in Nat
    BY InvFacts
  <2>2. FirstByte \in Nat
    BY Sizes DEF FirstByte
  <2> QED
    BY <1>2, <2>1, <2>2, Sizes
<1>4. /\ Countable(t) /\ t.state = "ESTABLISHED"
      /\ t.remote = Conns.remote /\ t.local_port = Conns.local_port
      /\ t.remote_mss = Conns.remote_mss /\ Ahead(t) = Ahead(Conns)
      /\ t.unacked_seq = Conns.unacked_seq \/ t.unacked_seq = seg.ack
      /\ t.rx_buf = Written(Conns.rx_buf, Payload(seg))
      /\ t.rx_buf.data_count = Conns.rx_buf.data_count + n
      /\ t.ack = Conns.ack + n + Control(seg.flags)
      /\ n = min(seg.len, FreeCount(Conns.rx_buf))
  <2>1. Conn \in Slot /\ BlockInv(Conns) /\ Conns = tcp_socket[Conn]
    BY InvFacts, TwoSlots
  <2> QED
    BY <1>1, <1>3, <2>1, DataFields
<1>5. seg.len \in Nat /\ FreeCount(Conns.rx_buf) \in Nat /\ n \in Nat /\ n <= seg.len
  <2>1. seg.len \in Nat /\ FreeCount(Conns.rx_buf) \in Nat
    BY <1>1, InvFacts DEF UpMsg
  <2> HIDE DEF n
  <2> QED
    BY <1>4, <2>1 DEF min
<1>6. t.unacked_seq <= client.rcv
  BY <1>1, <1>2, <1>4 DEF UpOk
<1>7. ~ IsSyn(m) /\ "SYN" \notin seg.flags
  BY <1>1 DEF UpOk, IsSyn
<1>8. FirstByte + Held + n <= SentUpTo(client)
  <2>1. CASE seg.len = 0
    <3>1. FirstByte + Held <= SentUpTo(client)
      BY DEF LinkInv, ReadOk
    <3> HIDE DEF n
    <3> QED
      BY <1>3, <1>5, <2>1, <3>1
  <2>2. CASE seg.len > 0
    <3>1. m.seq + m.len <= SentUpTo(client) /\ SentUpTo(client) \in Nat
      BY <1>1, <1>7, <2>2, InvFacts DEF UpOk
    <3>2. Conns.ack + seg.len <= SentUpTo(client) /\ SentUpTo(client) \in Nat
      BY <1>1, <3>1
    <3> HIDE DEF n, m
    <3> QED
      BY <1>2, <1>3, <1>5, <3>2
  <2> QED
    BY <1>5, <2>1, <2>2
<1>9. RxAt(t.rx_buf, FirstByte + Held + n)
  <2>1. Payload(seg) \in Seq(Byte) /\ Payload(seg) = [i \in 1 .. seg.len |-> SeqAdd(Conns.ack, i - 1)]
    BY <1>1, PayloadType DEF Payload
  <2>2. Conns.ack \in SeqNum /\ Conns.rx_buf \in Buf /\ seg.len \in 0 .. SeqSpace
    BY <1>1, <1>3, InvFacts, ArrivingType, Sizes DEF SeqNum
  <2>3. RxAt(t.rx_buf, SeqAdd(Conns.ack, WriteSize(Conns.rx_buf, Payload(seg))))
    BY <1>2, <1>4, <2>1, <2>2, WrittenRxAt
  <2>4. WriteSize(Conns.rx_buf, Payload(seg)) = n
    BY DEF Stored, Conns
  <2>5. SeqAdd(Conns.ack, n) = FirstByte + Held + n
    <3>1. SentUpTo(client) \in Nat /\ SentUpTo(client) <= FinSeq
      BY InvFacts
    <3> HIDE DEF n
    <3> QED
      BY <1>2, <1>3, <1>5, <1>8, <3>1, Sizes DEF SeqAdd
  <2> QED
    BY <2>3, <2>4, <2>5
<1>10. "FIN" \in seg.flags => FirstByte + Held + n = FinSeq
  <2> SUFFICES ASSUME "FIN" \in seg.flags PROVE FirstByte + Held + n = FinSeq
    OBVIOUS
  <2>1. /\ m.seq + m.len = FinSeq
        /\ m.len > 0 => FinSeq <= Conns.ack + FreeCount(Conns.rx_buf)
    BY <1>1, <1>7 DEF UpOk, IsFin, Receives, Edge
  <2> HIDE DEF n, m
  <2>2. n = seg.len
    BY <1>1, <1>3, <1>4, <1>5, <2>1 DEF min
  <2> QED
    BY <1>1, <1>2, <1>3, <2>1, <2>2
<1> HIDE DEF t, n
<1> QED
  BY <1>2, <1>4, <1>5, <1>6, <1>7, <1>8, <1>9, <1>10 DEF t, n

\* The arithmetic of storing n bytes: what is held grows, the room shrinks.
LEMMA Sums ==
    ASSUME NEW f \in Nat, NEW h \in Nat, NEW n \in Nat
    PROVE  /\ \A x \in Nat : x <= f + h => x <= f + (h + n)
           /\ \A b \in Nat, d \in Nat : /\ b - (d + n) \in Int
                                       /\ h + (b - d) = h + n + (b - (d + n))
OBVIOUS

\* The block after such a segment, before it is known whether it stays open.
LEMMA OpenNumbers ==
    ASSUME LinkInv, Conns.state = "ESTABLISHED", NEW n \in Nat,
           NEW v, v.rx_buf.data_count = Conns.rx_buf.data_count + n,
           RxAt(v.rx_buf, FirstByte + Held + n),
           FirstByte + Held + n <= SentUpTo(client),
           NEW k, k = Len(read) + v.rx_buf.data_count
    PROVE  /\ k = Held + n /\ k \in Nat
           /\ ReadOk(client, read, k)
           /\ RxAt(v.rx_buf, FirstByte + k)
           /\ min(client.una, FinSeq) <= FirstByte + k
           /\ FreeCount(v.rx_buf) \in Int
           /\ Edge(Conns) = Conns.ack + n + FreeCount(v.rx_buf)
<1>1. /\ Held = Len(read) + Conns.rx_buf.data_count /\ Held \in Nat /\ Len(read) \in Nat
      /\ Conns.rx_buf.data_count \in Nat /\ Conns.ack \in Nat
  BY InvFacts
<1>2. FirstByte \in Nat /\ BufSize \in Nat
  BY Sizes DEF FirstByte
<1>3. k = Held + n /\ k \in Nat
  BY <1>1
<1>4. FirstByte + k = FirstByte + Held + n
  BY <1>1, <1>2, <1>3
<1>5. ReadOk(client, read, k)
  BY <1>4 DEF LinkInv, ReadOk
<1>6. min(client.una, FinSeq) <= FirstByte + k
  <2>1. min(client.una, FinSeq) <= FirstByte + Held
    BY DEF LinkInv, BlockOk, Connected
  <2>2. min(client.una, FinSeq) \in Nat
    BY Sizes DEF LinkInv, ClientOk, ClientType, min
  <2>3. min(client.una, FinSeq) <= FirstByte + (Held + n)
    BY <1>1, <1>2, <2>1, <2>2, Sums
  <2> QED
    BY <1>3, <2>3
<1>7. /\ FreeCount(v.rx_buf) \in Int
      /\ Edge(Conns) = Conns.ack + n + FreeCount(v.rx_buf)
  <2> DEFINE d == Conns.rx_buf.data_count
  <2>1. d \in Nat /\ Conns.ack \in Nat /\ BufSize \in Nat
    BY <1>1, <1>2
  <2> HIDE DEF d
  <2>2. /\ BufSize - (d + n) \in Int
        /\ Conns.ack + (BufSize - d) = Conns.ack + n + (BufSize - (d + n))
    BY <2>1, Sums
  <2>3. v.rx_buf.data_count = d + n
    BY DEF d
  <2>4. FreeCount(v.rx_buf) = BufSize - (d + n)
    BY <2>3 DEF FreeCount
  <2>5. Edge(Conns) = Conns.ack + (BufSize - d)
    BY DEF Edge, FreeCount, d
  <2> QED
    BY <2>2, <2>4, <2>5
<1> QED
  BY <1>3, <1>4, <1>5, <1>6, <1>7

\* ESTABLISHED, without a FIN: what is stored is held by the application, and
\* the ACK that goes out says no more than that.
LEMMA DataStep ==
    ASSUME LinkInv, IInv', ServerSide, up # <<>>, up' = Tail(up), read' = read,
           NEW seg, seg = Arrived(Head(up)),
           EstablishedDataIn(Conn, seg) \/ EstablishedAckIn(Conn, seg)
    PROVE  LinkInv'
<1> DEFINE t == AfterData(Conn, seg)
           n == Stored(Conn, seg)
<1>1. /\ Conns.state = "ESTABLISHED" /\ seg.seq = Conns.ack /\ written' = written
      /\ "FIN" \notin seg.flags
  BY DEF EstablishedDataIn, EstablishedAckIn, InSequence, Conns
<1>2. /\ Countable(t) /\ t.state = "ESTABLISHED"
      /\ t.remote = Conns.remote /\ t.local_port = Conns.local_port
      /\ t.remote_mss = Conns.remote_mss /\ Ahead(t) = Ahead(Conns)
      /\ n \in Nat /\ t.ack = Conns.ack + n + Control(seg.flags)
      /\ t.rx_buf.data_count = Conns.rx_buf.data_count + n
      /\ RxAt(t.rx_buf, FirstByte + Held + n)
      /\ FirstByte + Held + n <= SentUpTo(client)
      /\ t.unacked_seq <= client.rcv /\ Conns.ack = FirstByte + Held
      /\ "SYN" \notin seg.flags
  BY <1>1, OpenFacts
<1>3. \/ \E r \in XipOut : Update(Conn, AfterSend(t, {"ACK"}, r)) /\ Emit(t, {"ACK"}, r)
      \/ Update(Conn, t) /\ out' = {}
  BY DEF EstablishedDataIn, EstablishedAckIn
<1> HIDE DEF t, n
<1>4. /\ Control(seg.flags) = 0 /\ Control({"ACK"}) = 0 /\ {"ACK"} \in SUBSET Flag
      /\ Held \in Nat /\ FirstByte \in Nat
  <2>1. Control(seg.flags) = 0 /\ Control({"ACK"}) = 0 /\ {"ACK"} \in SUBSET Flag
    BY <1>1, <1>2 DEF Control, Flag
  <2>2. FirstByte \in Nat
    BY Sizes DEF FirstByte
  <2> QED
    BY <2>1, <2>2, InvFacts
<1>5. BlockOk(Conns, client, written[Conn], Held) /\ Conns.state \in Connected
  BY <1>1 DEF LinkInv, Connected
<1>6. /\ Ahead(t) \in Nat /\ Ahead(t) + Control({"ACK"}) <= Limit /\ Ahead(t) + 1 < SeqSpace
      /\ Ahead(t) <= written[Conn] + 0
  <2>1. Ahead(t) \in Nat
    <3>1. t.next_seq \in Nat /\ WaitSendCount(t.tx_buf) \in Nat
      BY <1>2, TcbFields, Sizes DEF SeqNum
    <3> QED
      BY <3>1 DEF Ahead
  <2>2. written[Conn] \in Nat /\ written[Conn] <= ServerIss + 1 + ToWrite
    <3>1. written[Conn] \in ServerIss + 1 .. ServerIss + 1 + ToWrite
      BY <1>5 DEF BlockOk
    <3>2. ServerIss \in Nat /\ ToWrite \in Nat
      BY Sizes
    <3> QED
      BY ONLY <3>1, <3>2
  <2>3. Ahead(t) <= written[Conn] + 0
    BY <1>1, <1>2, <1>5 DEF BlockOk, FinSent, Receives
  <2> QED
    BY <1>4, <2>1, <2>2, <2>3, Sizes DEF Limit
<1>7. ASSUME NEW v, Update(Conn, v), v.state = t.state, v.rx_buf = t.rx_buf,
             v.ack = t.ack, v.unacked_seq = t.unacked_seq, v.remote_mss = t.remote_mss,
             v.remote = t.remote, v.local_port = t.local_port, Ahead(v) = Ahead(t),
             NEW k, k = Len(read) + v.rx_buf.data_count,
             out' = {} \/ \E m : out' = {m},
             \A m \in out' : DownOk(m, client, v, k)
      PROVE  LinkInv'
  <2>1. /\ k = Held + n /\ k \in Nat /\ ReadOk(client, read, k)
        /\ RxAt(v.rx_buf, FirstByte + k) /\ min(client.una, FinSeq) <= FirstByte + k
        /\ FreeCount(v.rx_buf) \in Int
        /\ Edge(Conns) = Conns.ack + n + FreeCount(v.rx_buf)
    BY <1>1, <1>2, <1>7, OpenNumbers
  <2>2. v.ack = FirstByte + k /\ Edge(v) = Edge(Conns)
    <3>1. n \in Int
      BY <1>2
    <3>2. /\ Conns.ack = FirstByte + Held /\ v.ack = Conns.ack + n + 0
          /\ k = Held + n /\ Held \in Nat /\ FirstByte \in Nat
      BY ONLY <1>2, <1>4, <1>7, <2>1
    <3>3. v.ack = FirstByte + k /\ v.ack = Conns.ack + n
      BY ONLY <3>1, <3>2
    <3>4. Edge(v) = v.ack + FreeCount(v.rx_buf)
      BY DEF Edge
    <3> QED
      BY ONLY <2>1, <3>3, <3>4
  <2>3. BlockOk(v, client, written'[Conn], k)
    <3>1. client.edge <= Edge(v)
      BY <1>1, <1>5, <2>2 DEF BlockOk, Receives
    <3> QED
      BY <1>1, <1>2, <1>5, <1>6, <1>7, <2>1, <2>2, <3>1
         DEF BlockOk, Receives, FinSent, Connected
  <2>4. Evolves(Conns, Held, v, k)
    <3>1. Held <= k /\ Edge(Conns) \in Nat
      BY <1>2, <1>4, <2>1, InvFacts
    <3> QED
      BY <1>1, <1>5, <2>2, <3>1 DEF Evolves, Receives
  <2>5. v.state \in Connected
    BY <1>2, <1>7 DEF Connected
  <2> QED
    BY <1>1, <1>2, <1>5, <1>7, <2>1, <2>3, <2>4, <2>5, ConnStep
<1>8. CASE Update(Conn, t) /\ out' = {}
  BY <1>7, <1>8
<1>9. ASSUME NEW r \in XipOut, Update(Conn, AfterSend(t, {"ACK"}, r)), Emit(t, {"ACK"}, r)
      PROVE  LinkInv'
  <2> DEFINE v == AfterSend(t, {"ACK"}, r)
             k == Len(read) + v.rx_buf.data_count
  <2>1. /\ v.state = t.state /\ v.rx_buf = t.rx_buf /\ v.ack = t.ack
        /\ v.unacked_seq = t.unacked_seq /\ v.remote_mss = t.remote_mss
        /\ v.remote = t.remote /\ v.local_port = t.local_port
        /\ Ahead(v) = Ahead(t) + (IF r = "OK" THEN Control({"ACK"}) ELSE 0)
    BY <1>2, <1>4, <1>6, SendFields
  <2>2. Ahead(v) = Ahead(t)
    BY <1>4, <1>6, <2>1
  <2>3. min(t.ack, FinSeq) <= FirstByte + k
    <3>1. k = Held + n /\ k \in Nat
      BY <1>1, <1>2, <2>1, OpenNumbers
    <3> HIDE DEF k
    <3> QED
      BY <1>2, <1>4, <3>1, Sizes DEF min
  <2>4. ParserReads => t.remote_mss = client.mss
    BY <1>2, <1>5 DEF BlockOk
  <2>5. /\ out' = {} \/ \E m : out' = {m}
        /\ \A m \in out' : DownOk(m, client, v, k)
    <3> HIDE DEF v, k
    <3> QED
      BY <1>2, <1>4, <1>6, <1>9, <2>1, <2>3, <2>4, SendOk
  <2> HIDE DEF v
  <2> QED
    BY <1>7, <1>9, <2>1, <2>2, <2>5 DEF v
<1> QED
  BY <1>3, <1>8, <1>9

\* What a block of a connection has sent and may still send.
LEMMA AheadBound ==
    ASSUME LinkInv, Conns.state \in Connected,
           NEW t, Countable(t), Ahead(t) = Ahead(Conns)
    PROVE  /\ written[Conn] \in Nat /\ written[Conn] <= ServerIss + 1 + ToWrite
           /\ Ahead(t) \in Nat /\ Ahead(t) <= written[Conn] + FinSent(Conns)
           /\ Ahead(t) <= Limit /\ Limit \in Nat /\ Ahead(t) + 1 < SeqSpace
           /\ Receives(Conns) => Ahead(t) <= written[Conn] /\ Ahead(t) + 1 <= Limit
<1>1. /\ written[Conn] \in ServerIss + 1 .. ServerIss + 1 + ToWrite
      /\ Ahead(t) <= written[Conn] + FinSent(Conns)
  BY DEF LinkInv, BlockOk
<1>2. written[Conn] \in Nat /\ written[Conn] <= ServerIss + 1 + ToWrite
  BY <1>1, Sizes
<1>3. Ahead(t) \in Nat
  <2>1. t.next_seq \in Nat /\ WaitSendCount(t.tx_buf) \in Nat
    BY TcbFields, Sizes DEF SeqNum
  <2> QED
    BY <2>1 DEF Ahead
<1>4. FinSent(Conns) \in {0, 1} /\ (Receives(Conns) => FinSent(Conns) = 0)
  BY DEF FinSent
<1>5. Limit = ServerIss + ToWrite + 2 /\ Limit \in Nat
  BY Sizes DEF Limit
<1> QED
  BY <1>1, <1>2, <1>3, <1>4, <1>5, Sizes

\* The FIN of the client has all of the stream before it; the block goes to
\* LAST_ACK, also when its own FIN is not sent.
LEMMA FinStep ==
    ASSUME LinkInv, IInv', ServerSide, up # <<>>, up' = Tail(up), read' = read,
           NEW seg, seg = Arrived(Head(up)), EstablishedFinIn(Conn, seg)
    PROVE  LinkInv'
<1> DEFINE d == AfterData(Conn, seg)
           n == Stored(Conn, seg)
           t == [d EXCEPT !.state = "LAST_ACK", !.ack = SeqAdd(seg.seq, 1)]
           flags == {"FIN", "ACK"}
<1>1. /\ Conns.state = "ESTABLISHED" /\ seg.seq = Conns.ack /\ written' = written
      /\ "FIN" \in seg.flags /\ Conns.state \in Connected
  BY DEF EstablishedFinIn, InSequence, Conns, Connected
<1>2. /\ Countable(d) /\ d.remote = Conns.remote /\ d.local_port = Conns.local_port
      /\ d.remote_mss = Conns.remote_mss /\ Ahead(d) = Ahead(Conns)
      /\ n \in Nat /\ d.rx_buf.data_count = Conns.rx_buf.data_count + n
      /\ RxAt(d.rx_buf, FirstByte + Held + n)
      /\ FirstByte + Held + n <= SentUpTo(client)
      /\ FirstByte + Held + n = FinSeq
  BY <1>1, OpenFacts
<1>3. PICK r \in XipOut : Update(Conn, AfterSend(t, flags, r)) /\ Emit(t, flags, r)
  BY DEF EstablishedFinIn
<1>4. SeqAdd(seg.seq, 1) \in SeqNum
  <2>1. seg.seq \in SeqNum
    BY HeadArrives, ArrivingType
  <2> QED
    BY <2>1, SeqAddType, Sizes
<1>5. /\ Countable(t) /\ t.state = "LAST_ACK" /\ t.rx_buf = d.rx_buf
      /\ t.remote = d.remote /\ t.local_port = d.local_port
      /\ t.remote_mss = d.remote_mss /\ Ahead(t) = Ahead(d)
  BY <1>2, <1>4 DEF Countable, Tcb, TcpState, Ahead
<1> HIDE DEF d, n, t
<1>6. /\ written[Conn] \in Nat /\ written[Conn] <= ServerIss + 1 + ToWrite
      /\ Ahead(t) \in Nat /\ Ahead(t) <= written[Conn]
      /\ Ahead(t) + 1 <= Limit /\ Ahead(t) + 1 < SeqSpace
  BY <1>1, <1>2, <1>5, AheadBound DEF Receives
<1>7. /\ Control(flags) = 1 /\ flags \in SUBSET Flag
      /\ "RST" \notin flags /\ "SYN" \notin flags
  BY DEF Control, Flag
<1> DEFINE v == AfterSend(t, flags, r)
           k == Len(read) + v.rx_buf.data_count
<1>8. /\ v.state = "LAST_ACK" /\ v.rx_buf = d.rx_buf /\ v.ack = t.ack
      /\ v.remote_mss = Conns.remote_mss
      /\ v.remote = Conns.remote /\ v.local_port = Conns.local_port
      /\ Ahead(v) = Ahead(t) + (IF r = "OK" THEN Control(flags) ELSE 0)
  BY <1>2, <1>5, <1>6, <1>7, SendFields
<1>9. Ahead(v) <= written[Conn] + 1
  BY <1>6, <1>7, <1>8
<1> HIDE DEF v, flags
<1>10. /\ k = Held + n /\ k \in Nat /\ ReadOk(client, read, k)
       /\ RxAt(v.rx_buf, FirstByte + k) /\ min(client.una, FinSeq) <= FirstByte + k
  BY <1>1, <1>2, <1>8, OpenNumbers
<1> HIDE DEF k
<1>11. FirstByte + k = FinSeq /\ Held \in Nat /\ Held <= k
  <2>1. FirstByte \in Nat /\ Held \in Nat
    BY InvFacts, Sizes DEF FirstByte
  <2> QED
    BY <1>2, <1>10, <2>1
<1>12. min(t.ack, FinSeq) <= FirstByte + k
  <2>1. t.ack \in Nat
    BY <1>5, TcbFields, Sizes DEF SeqNum
  <2> QED
    BY <1>11, <2>1, Sizes DEF min
<1>13. BlockOk(Conns, client, written[Conn], Held)
  BY DEF LinkInv
<1>14. BlockOk(v, client, written'[Conn], k)
  BY <1>1, <1>8, <1>9, <1>10, <1>12, <1>13 DEF BlockOk, FinSent, Receives
<1>15. Evolves(Conns, Held, v, k) /\ ~ Receives(v) /\ v.state \in Connected
  BY <1>1, <1>8, <1>11 DEF Evolves, Receives, Connected
<1>16. ParserReads => t.remote_mss = client.mss
  BY <1>1, <1>2, <1>5, <1>13 DEF BlockOk
<1>17. /\ out' = {} \/ \E m : out' = {m}
       /\ \A m \in out' : DownOk(m, client, v, k)
  BY <1>3, <1>5, <1>6, <1>7, <1>12, <1>15, <1>16, SendOk
<1>18. Update(Conn, v)
  BY <1>3 DEF v
<1>19. k = Len(read') + v.rx_buf.data_count /\ ReadOk(client, read', k)
  BY <1>10 DEF k
<1> QED
  BY <1>1, <1>8, <1>14, <1>15, <1>17, <1>18, <1>19, ConnStep

\* The block when only the window of a segment has been taken over.
LEMMA HeardFields ==
    ASSUME LinkInv, up # <<>>, NEW seg, seg = Arrived(Head(up))
    PROVE  LET t == Heard(Conn, seg)
           IN  /\ BlockInv(t) /\ t.state = Conns.state /\ t.remote = Conns.remote
               /\ t.local_port = Conns.local_port /\ t.ack = Conns.ack
               /\ t.tx_buf = Conns.tx_buf /\ t.rx_buf = Conns.rx_buf
               /\ t.next_seq = Conns.next_seq /\ t.unacked_seq = Conns.unacked_seq
               /\ t.remote_mss = Conns.remote_mss
<1>1. seg \in Arriving /\ Conn \in Slot /\ BlockInv(Conns) /\ Conns = tcp_socket[Conn]
  BY HeadArrives, InvFacts, TwoSlots
<1>2. Heard(Conn, seg).remote_mss = Conns.remote_mss
  BY <1>1 DEF Heard, BlockInv, Tcb
<1> QED
  BY <1>1, <1>2, HeardInv

\* The end of the handshake: the client has the SYN+ACK, and no SYN follows.
LEMMA SynRecvdStep ==
    ASSUME LinkInv, IInv', ServerSide, up # <<>>, up' = Tail(up), read' = read,
           NEW seg, seg = Arrived(Head(up)), SynRecvdIn(Conn, seg)
    PROVE  LinkInv'
<1> DEFINE t == Heard(Conn, seg)
           v == [t EXCEPT !.unacked_seq = SeqAdd(@, 1), !.state = "ESTABLISHED"]
<1>1. /\ Conns.state = "SYN_RECVD" /\ "ACK" \in seg.flags /\ written' = written
      /\ Conns.state \in Connected /\ out' = {} /\ Update(Conn, v)
  BY DEF SynRecvdIn, InSequence, Conns, Connected
<1>2. /\ t \in Tcb /\ t.remote = Conns.remote
      /\ t.local_port = Conns.local_port /\ t.ack = Conns.ack
      /\ t.tx_buf = Conns.tx_buf /\ t.rx_buf = Conns.rx_buf
      /\ t.next_seq = Conns.next_seq /\ t.unacked_seq = Conns.unacked_seq
      /\ t.remote_mss = Conns.remote_mss
  BY HeardFields DEF BlockInv
<1> HIDE DEF t
<1>3. /\ v.state = "ESTABLISHED" /\ v.unacked_seq = SeqAdd(Conns.unacked_seq, 1)
      /\ v.remote = Conns.remote /\ v.local_port = Conns.local_port
      /\ v.ack = Conns.ack /\ v.rx_buf = Conns.rx_buf
      /\ v.remote_mss = Conns.remote_mss
      /\ Edge(v) = Edge(Conns) /\ Ahead(v) = Ahead(Conns)
  BY <1>2 DEF Tcb, Edge, Ahead
<1> HIDE DEF v
<1>4. BlockOk(Conns, client, written[Conn], Held)
  BY DEF LinkInv
<1>5. /\ ~ IsSyn(Head(up)) /\ UpOk(Head(up), client, Conns)
      /\ \A e \in Elems(up) : ~ IsSyn(e)
  <2>1. /\ Head(up) \in UpMsg /\ seg.flags = Head(up).flags
        /\ UpOk(Head(up), client, Conns)
        /\ ~ IsSyn(Head(up)) => \A e \in Elems(up) : ~ IsSyn(e)
    BY HeadArrives
  <2>2. ~ IsSyn(Head(up))
    BY <1>1, <2>1 DEF UpMsg, IsSyn
  <2> QED
    BY <2>1, <2>2
<1>6. ~ Asks(client) /\ ServerIss < client.rcv
  BY <1>5 DEF UpOk
<1>7. v.unacked_seq <= client.rcv
  <2>1. Conns.unacked_seq = ServerIss
    BY <1>1, <1>4 DEF BlockOk
  <2>2. client.rcv \in Nat
    BY DEF LinkInv, ClientOk, ClientType
  <2>3. SeqAdd(ServerIss, 1) = ServerIss + 1
    BY Sizes DEF SeqAdd
  <2> QED
    BY <1>3, <1>6, <2>1, <2>2, <2>3, Sizes
<1>8. BlockOk(v, client, written'[Conn], Held)
  BY <1>1, <1>3, <1>4, <1>7 DEF BlockOk, FinSent, Receives
<1>9. /\ Held = Len(read') + v.rx_buf.data_count /\ Held \in Nat /\ Edge(Conns) \in Nat
      /\ ReadOk(client, read', Held)
  BY <1>3, InvFacts DEF LinkInv
<1>10. Evolves(Conns, Held, v, Held) /\ v.state \in Connected
  BY <1>1, <1>3, <1>9 DEF Evolves, Receives, Connected
<1> QED
  BY <1>1, <1>3, <1>5, <1>6, <1>8, <1>9, <1>10, ConnStep

\* The FIN of the client in FIN_WAIT_2 is answered, and the block is free.
LEMMA FinWait2Step ==
    ASSUME LinkInv, IInv', ServerSide, up # <<>>, up' = Tail(up), read' = read,
           NEW seg, seg = Arrived(Head(up)), FinWait2In(Conn, seg)
    PROVE  LinkInv'
<1> DEFINE h == Heard(Conn, seg)
           t == [h EXCEPT !.ack = SeqAdd(seg.seq, 1)]
<1>1. Conns.state = "FIN_WAIT_2" /\ Conns.state \in Connected /\ written' = written
  BY DEF FinWait2In, InSequence, Conns, Connected
<1>2. PICK r \in XipOut : /\ Update(Conn, Freed(AfterSend(t, {"ACK"}, r)))
                          /\ Emit(t, {"ACK"}, r)
  BY DEF FinWait2In
<1>3. /\ BlockInv(h) /\ h.state = Conns.state
      /\ h.tx_buf = Conns.tx_buf /\ h.rx_buf = Conns.rx_buf
      /\ h.next_seq = Conns.next_seq /\ h.remote_mss = Conns.remote_mss
  BY HeardFields
<1>4. SeqAdd(seg.seq, 1) \in SeqNum
  <2>1. seg.seq \in SeqNum
    BY HeadArrives, ArrivingType
  <2> QED
    BY <2>1, SeqAddType, Sizes
<1>5. Countable(h)
  BY <1>1, <1>3, ConnectedCountable
<1> HIDE DEF h
<1>6. /\ Countable(t) /\ t.rx_buf = Conns.rx_buf /\ t.remote_mss = Conns.remote_mss
      /\ Ahead(t) = Ahead(Conns)
  BY <1>3, <1>4, <1>5 DEF Countable, Tcb, Ahead
<1> HIDE DEF t
<1>7. /\ Ahead(t) \in Nat /\ Ahead(t) <= Limit /\ Limit \in Nat /\ Ahead(t) + 1 < SeqSpace
  BY <1>1, <1>6, AheadBound
<1> DEFINE u == AfterSend(t, {"ACK"}, r)
           v == Freed(u)
<1>8. Control({"ACK"}) = 0 /\ {"ACK"} \in SUBSET Flag
  BY DEF Control, Flag
<1>9. u.rx_buf = Conns.rx_buf /\ u \in Tcb
  <2>1. u.rx_buf = t.rx_buf
    BY <1>6, <1>7, <1>8, SendFields
  <2>2. u \in Tcb
    BY <1>6, <1>8, SentType, RefusedType DEF AfterSend
  <2> QED
    BY <1>6, <2>1, <2>2
<1> HIDE DEF u
<1>10. v.state = "FREE" /\ v.rx_buf = Conns.rx_buf
  BY <1>9 DEF Freed, Tcb
<1> HIDE DEF v
<1>11. /\ Held = Len(read') + v.rx_buf.data_count /\ ReadOk(client, read', Held)
  BY <1>10, InvFacts DEF LinkInv
<1>12. v.state \notin Connected /\ ~ Receives(v)
  BY <1>10 DEF Connected, Receives
<1>13. BlockOk(v, client, written'[Conn], Held) /\ Evolves(Conns, Held, v, Held)
  BY <1>12 DEF BlockOk, Evolves
<1>14. ParserReads => t.remote_mss = client.mss
  BY <1>1, <1>6 DEF LinkInv, BlockOk
<1>15. /\ out' = {} \/ \E m : out' = {m}
       /\ \A m \in out' : DownOk(m, client, v, Held)
  <2>1. Ahead(t) + Control({"ACK"}) <= Limit
    BY <1>7, <1>8
  <2> QED
    BY <1>2, <1>6, <1>8, <1>12, <1>14, <2>1, SendOk
<1>16. Update(Conn, v)
  BY <1>2 DEF v, u
<1> QED
  BY <1>1, <1>10, <1>11, <1>12, <1>13, <1>15, <1>16, ConnStep

\* The segments that are answered with a reset, ignored, or that end what is
\* left of the connection.
LEMMA QuietSegmentStep ==
    ASSUME LinkInv, IInv', ServerSide, up # <<>>, up' = Tail(up), read' = read,
           Conns.state \in Connected,
           NEW seg, seg = Arrived(Head(up)),
           \/ WrongSeqIn(Conn, seg) \/ IgnoredIn(Conn, seg)
           \/ FinWait1In(Conn, seg) \/ LastAckIn(Conn, seg)
    PROVE  LinkInv'
<1> DEFINE t == Heard(Conn, seg)
<1>1. /\ t \in Tcb /\ t.state = Conns.state /\ t.remote = Conns.remote
      /\ t.local_port = Conns.local_port /\ t.ack = Conns.ack
      /\ t.tx_buf = Conns.tx_buf /\ t.rx_buf = Conns.rx_buf
      /\ t.next_seq = Conns.next_seq /\ t.unacked_seq = Conns.unacked_seq
      /\ t.remote_mss = Conns.remote_mss
  BY HeardFields DEF BlockInv
<1>2. ASSUME NEW state, state \in TcpState,
             \/ state = Conns.state
             \/ state = "FREE" /\ Conns.state # "SYN_RECVD"
             \/ state = "FIN_WAIT_2" /\ Conns.state = "FIN_WAIT_1",
             Update(Conn, [t EXCEPT !.state = state]),
             written' = written,
             out' = {} \/ \E m : out' = {m}, \A m \in out' : IsReset(m)
      PROVE  LinkInv'
  <2> DEFINE v == [t EXCEPT !.state = state]
  <2> HIDE DEF t
  <2>1. /\ v.state = state /\ v.remote = Conns.remote
        /\ v.local_port = Conns.local_port /\ v.ack = Conns.ack
        /\ v.tx_buf = Conns.tx_buf /\ v.rx_buf = Conns.rx_buf
        /\ v.next_seq = Conns.next_seq /\ v.unacked_seq = Conns.unacked_seq
        /\ v.remote_mss = Conns.remote_mss
    BY <1>1 DEF Tcb
  <2>2. Update(Conn, v)
    BY <1>2
  <2> HIDE DEF v
  <2> QED
    BY <1>2, <2>1, <2>2, QuietStep
<1>3. t = [t EXCEPT !.state = Conns.state] /\ Conns.state \in TcpState
  BY <1>1 DEF Tcb
<1>4. CASE WrongSeqIn(Conn, seg)
  <2>1. Update(Conn, t) /\ written' = written
    BY <1>4 DEF WrongSeqIn
  <2>2. PICK r \in XipOut : SendReset(SeqAdd(seg.seq, 1), seg.dest_port, seg.from, r)
    BY <1>4 DEF WrongSeqIn
  <2>3. (out' = {} \/ \E m : out' = {m}) /\ \A m \in out' : IsReset(m)
    BY <2>2, SendResetOk
  <2> HIDE DEF t
  <2> QED
    BY <1>2, <1>3, <2>1, <2>3
<1>5. CASE IgnoredIn(Conn, seg)
  <2>1. Update(Conn, t) /\ written' = written /\ out' = {}
    BY <1>5 DEF IgnoredIn, InSequence, Silent
  <2> HIDE DEF t
  <2> QED
    BY <1>2, <1>3, <2>1
<1>6. CASE FinWait1In(Conn, seg)
  <2>1. /\ Conns.state = "FIN_WAIT_1" /\ written' = written /\ out' = {}
        /\ \/ Update(Conn, [t EXCEPT !.state = "FREE"])
           \/ Update(Conn, [t EXCEPT !.state = "FIN_WAIT_2"])
    BY <1>6 DEF FinWait1In, InSequence, Silent, Conns, Freed
  <2> HIDE DEF t
  <2> QED
    BY <1>2, <2>1 DEF TcpState
<1>7. CASE LastAckIn(Conn, seg)
  <2>1. /\ Conns.state = "LAST_ACK" /\ written' = written /\ out' = {}
        /\ Update(Conn, [t EXCEPT !.state = "FREE"])
    BY <1>7 DEF LastAckIn, InSequence, Conns, Freed
  <2> HIDE DEF t
  <2> QED
    BY <1>2, <2>1 DEF TcpState
<1> QED
  BY <1>4, <1>5, <1>6, <1>7
-----------------------------------------------------------------------------
(***************************************************************************)
(* The segments that find the listening block, and xtcp_in as a whole.     *)
(***************************************************************************)
\* xtcp_find: a segment of the client reaches its block, or else the one
\* that listens.
LEMMA FindsFacts ==
    ASSUME LinkInv, NEW seg, seg.from = Client, seg.dest_port = ServerPort
    PROVE  /\ ~ FindsNone(seg)
           /\ \A s \in Slot : Finds(s, seg) =>
                s = IF Conns.state \in Connected THEN Conn ELSE Listener
<1>1. /\ Slot = {Listener, Conn} /\ Listener # Conn /\ Conns = tcp_socket[Conn]
      /\ tcp_socket[Listener].state = "LISTEN"
      /\ tcp_socket[Listener].local_port = ServerPort
      /\ Conns.state \in Connected =>
           Conns.remote = Client /\ Conns.local_port = ServerPort
      /\ Conns.state \in Connected \cup {"FREE"}
  BY TwoSlots DEF LinkInv, Blocks, Conns
<1>2. tcp_socket[Listener].remote = NoPeer /\ NoPeer # Client
  BY <1>1, InvFacts, LinkAssumption, TableAssumption DEF BlockInv
<1>3. Listening(ServerPort) = {Listener}
  BY <1>1 DEF Listening, Connected
<1>4. Exact(Client, ServerPort) = IF Conns.state \in Connected THEN {Conn} ELSE {}
  BY <1>1, <1>2 DEF Exact, Connected
<1>5. ~ FindsNone(seg)
  BY <1>3 DEF FindsNone
<1>6. ASSUME NEW s \in Slot, Finds(s, seg)
      PROVE  s = IF Conns.state \in Connected THEN Conn ELSE Listener
  BY <1>3, <1>4, <1>6 DEF Finds, First, Last
<1> QED
  BY <1>5, <1>6

\* A connection is accepted: the block child with its buffers empty sends its
\* SYN+ACK, and is free again if xip_out does not take it.
Accepts(seg, r) ==
    LET child == Child(Conns, tcp_socket[Listener], seg, ServerIss)
        after == AfterSend(child, {"SYN", "ACK"}, r)
        v     == IF r = "OK" THEN after ELSE Freed(after)
        heard == Heard(Listener, seg)
    IN  /\ tcp_socket' = [tcp_socket EXCEPT ![Listener] = heard, ![Conn] = v]
        /\ Emit(child, {"SYN", "ACK"}, r)
        /\ written' = [written EXCEPT ![Conn] = SeqAdd(ServerIss, 1)]
        /\ heard.state = "LISTEN" /\ heard.local_port = ServerPort
        /\ Countable(child) /\ child.state = "SYN_RECVD"
        /\ child.remote = Client /\ child.local_port = ServerPort
        /\ child.ack = FirstByte
        /\ child.next_seq = ServerIss /\ child.unacked_seq = ServerIss
        /\ child.remote_mss = seg.mss
        /\ child.rx_buf.data_count = 0 /\ WaitSendCount(child.tx_buf) = 0
        /\ RxAt(child.rx_buf, FirstByte)
        /\ Ahead(child) = ServerIss

\* Then the client asks, and nothing else is under way.
LEMMA AcceptFacts ==
    ASSUME LinkInv, up # <<>>, Conns.state = "FREE",
           NEW seg, seg = Arrived(Head(up)), AcceptIn(Listener, seg)
    PROVE  /\ Asks(client) /\ client.state = "SYN_SENT"
           /\ ParserReads => seg.mss = client.mss
           /\ down = <<>> /\ \A e \in Elems(up) : IsSyn(e)
           /\ Held = 0 /\ Len(read) = 0
           /\ \E r \in XipOut : Accepts(seg, r)
<1> DEFINE m == Head(up)
<1>1. /\ m \in UpMsg /\ UpOk(m, client, Conns) /\ seg \in Arriving
      /\ seg.from = Client /\ seg.seq = m.seq /\ seg.flags = m.flags
      /\ ParserReads => seg.mss = Options!Announced(m.options, MssDefault)
      /\ Tail(up) \in Seq(UpMsg) /\ SynsFirst(Tail(up))
      /\ Elems(Tail(up)) \subseteq Elems(up)
  BY HeadArrives
<1>2. IsSyn(m)
  BY <1>1 DEF AcceptIn, IsSyn
<1> HIDE DEF m
<1>3. /\ m.seq = ClientIss /\ Asks(client) /\ client.state = "SYN_SENT"
      /\ ParserReads => seg.mss = client.mss
  BY <1>1, <1>2 DEF UpOk, Asks
<1>4. down = <<>> /\ \A e \in Elems(up) : IsSyn(e)
  BY <1>3 DEF LinkInv, AskingOk, Queues, UpOk
<1>5. Held = 0 /\ Len(read) = 0
  <2>1. client.nxt = FirstByte /\ FirstByte + Held <= SentUpTo(client)
    BY <1>3 DEF LinkInv, ClientOk, ReadOk
  <2>2. SentUpTo(client) = FirstByte
    BY <1>3, <2>1, Sizes DEF SentUpTo, FirstByte, min
  <2>3. /\ Held \in Nat /\ Len(read) \in Nat /\ Held = Len(read) + Conns.rx_buf.data_count
        /\ Conns.rx_buf.data_count \in 0 .. BufSize
    BY InvFacts
  <2>4. FirstByte \in Nat
    BY Sizes DEF FirstByte
  <2>5. Held = 0
    BY <2>1, <2>2, <2>3, <2>4
  <2> QED
    BY <2>3, <2>5, Sizes
<1>6. PICK n \in Slot, iss \in InitSeq, r \in XipOut :
        LET child == Child(tcp_socket[n], tcp_socket[Listener], seg, iss)
            after == AfterSend(child, {"SYN", "ACK"}, r)
        IN  /\ First(n, FreeSlots)
            /\ tcp_socket' = [tcp_socket EXCEPT
                                ![Listener] = Heard(Listener, seg),
                                ![n] = IF r = "OK" THEN after ELSE Freed(after)]
            /\ Emit(child, {"SYN", "ACK"}, r)
            /\ written' = [written EXCEPT ![n] = SeqAdd(iss, 1)]
  BY DEF AcceptIn
<1> DEFINE child == Child(Conns, tcp_socket[Listener], seg, ServerIss)
           after == AfterSend(child, {"SYN", "ACK"}, r)
           v == IF r = "OK" THEN after ELSE Freed(after)
           heard == Heard(Listener, seg)
<1>7. n = Conn /\ iss = ServerIss
  BY <1>6, TwoSlots, LinkAssumption DEF First, FreeSlots, LinkInv, Blocks
<1>8. /\ tcp_socket' = [tcp_socket EXCEPT ![Listener] = heard, ![Conn] = v]
      /\ Emit(child, {"SYN", "ACK"}, r)
      /\ written' = [written EXCEPT ![Conn] = SeqAdd(ServerIss, 1)]
  BY <1>6, <1>7 DEF Conns
<1>9. heard.state = "LISTEN" /\ heard.local_port = ServerPort
  BY <1>1, TwoSlots, InvFacts, HeardInv DEF LinkInv, Blocks
<1>10. /\ Countable(child) /\ child.state = "SYN_RECVD" /\ child.remote = Client
       /\ child.local_port = ServerPort /\ child.ack = FirstByte
       /\ child.next_seq = ServerIss /\ child.unacked_seq = ServerIss
       /\ child.remote_mss = seg.mss
       /\ child.tx_buf = Emptied(Conns.tx_buf) /\ child.rx_buf = Emptied(Conns.rx_buf)
  <2>1. ServerIss \in InitSeq /\ Conns \in Tcb /\ tcp_socket[Listener] \in Tcb
    BY InvFacts, LinkAssumption DEF BlockInv
  <2>2. Countable(child) /\ child.state = "SYN_RECVD"
    BY <1>1, <2>1, ChildType
  <2>3. SeqAdd(seg.seq, 1) = FirstByte
    BY <1>1, <1>3, Sizes DEF SeqAdd, FirstByte
  <2>4. Allocated(Conns, ServerIss) \in Tcb
    BY <2>1, AllocatedType
  <2>5. /\ Allocated(Conns, ServerIss).next_seq = ServerIss
        /\ Allocated(Conns, ServerIss).unacked_seq = ServerIss
        /\ Allocated(Conns, ServerIss).tx_buf = Emptied(Conns.tx_buf)
        /\ Allocated(Conns, ServerIss).rx_buf = Emptied(Conns.rx_buf)
    BY <2>1 DEF Allocated, Tcb
  <2>6. tcp_socket[Listener].local_port = ServerPort
    BY DEF LinkInv, Blocks
  <2> QED
    BY <1>1, <2>2, <2>3, <2>4, <2>5, <2>6 DEF Child, Tcb
<1> HIDE DEF child, heard
<1>11. /\ child.rx_buf.data_count = 0 /\ WaitSendCount(child.tx_buf) = 0
       /\ RxAt(child.rx_buf, FirstByte)
       /\ Ahead(child) = ServerIss
  <2>1. Conns.rx_buf \in Buf /\ Conns.tx_buf \in Buf /\ ServerIss \in SeqNum
    BY InvFacts, LinkAssumption, InputAssumption DEF Tcb
  <2>2. /\ Emptied(Conns.rx_buf).data_count = 0
        /\ Emptied(Conns.tx_buf).data_count = 0 /\ Emptied(Conns.tx_buf).unacked_count = 0
    BY <2>1 DEF Emptied, Buf
  <2>3. RxAt(Emptied(Conns.rx_buf), FirstByte)
    BY <2>1, EmptiedAt
  <2> QED
    BY <1>10, <2>2, <2>3, Sizes DEF WaitSendCount, Ahead
<1> QED
  BY <1>3, <1>4, <1>5, <1>8, <1>9, <1>10, <1>11 DEF Accepts, child, heard

\* tcp_process_accept: the connection begins.
LEMMA AcceptStep ==
    ASSUME LinkInv, IInv', ServerSide, up # <<>>, up' = Tail(up), read' = read,
           Conns.state = "FREE",
           NEW seg, seg = Arrived(Head(up)), AcceptIn(Listener, seg)
    PROVE  LinkInv'
<1>1. /\ seg \in Arriving /\ Tail(up) \in Seq(UpMsg) /\ SynsFirst(Tail(up))
      /\ Elems(Tail(up)) \subseteq Elems(up)
  BY HeadArrives
<1>2. /\ Asks(client) /\ client.state = "SYN_SENT"
      /\ ParserReads => seg.mss = client.mss
  BY AcceptFacts
<1>3. down = <<>> /\ \A e \in Elems(up) : IsSyn(e)
  BY AcceptFacts
<1>4. Held = 0 /\ Len(read) = 0
  BY AcceptFacts
<1>5. PICK r \in XipOut : Accepts(seg, r)
  BY AcceptFacts
<1> DEFINE child == Child(Conns, tcp_socket[Listener], seg, ServerIss)
           after == AfterSend(child, {"SYN", "ACK"}, r)
           v == IF r = "OK" THEN after ELSE Freed(after)
           heard == Heard(Listener, seg)
<1>6. /\ tcp_socket' = [tcp_socket EXCEPT ![Listener] = heard, ![Conn] = v]
      /\ Emit(child, {"SYN", "ACK"}, r)
      /\ written' = [written EXCEPT ![Conn] = SeqAdd(ServerIss, 1)]
      /\ heard.state = "LISTEN" /\ heard.local_port = ServerPort
  BY <1>5 DEF Accepts
<1>7. /\ Countable(child) /\ child.state = "SYN_RECVD" /\ child.remote = Client
       /\ child.local_port = ServerPort /\ child.ack = FirstByte
       /\ child.next_seq = ServerIss /\ child.unacked_seq = ServerIss
       /\ child.remote_mss = seg.mss
       /\ child.rx_buf.data_count = 0 /\ WaitSendCount(child.tx_buf) = 0
       /\ RxAt(child.rx_buf, FirstByte)
       /\ Ahead(child) = ServerIss
  BY <1>5 DEF Accepts
<1> HIDE DEF child, heard
<1>8. Control({"SYN", "ACK"}) = 1 /\ {"SYN", "ACK"} \in SUBSET Flag /\ "RST" \notin {"SYN", "ACK"}
  BY DEF Control, Flag
<1>9. /\ after.state = "SYN_RECVD" /\ after.rx_buf = child.rx_buf /\ after.ack = FirstByte
       /\ after.unacked_seq = ServerIss /\ after.remote_mss = seg.mss
       /\ after.remote = Client /\ after.local_port = ServerPort
       /\ Ahead(after) = Ahead(child) + (IF r = "OK" THEN Control({"SYN", "ACK"}) ELSE 0)
  <2>1. Ahead(child) + 1 < SeqSpace
    <3>1. Ahead(child) = ServerIss
      BY <1>7
    <3>2. /\ ServerIss \in Nat /\ ToWrite \in Nat /\ ClientWin \in Nat /\ SeqSpace \in Nat
          /\ ServerIss + ToWrite + ClientWin + 2 < SeqSpace
      BY Sizes
    <3> QED
      BY ONLY <3>1, <3>2
  <2> QED
    BY <1>7, <1>8, <2>1, SendFields
<1>10. after \in Tcb
  BY <1>7, <1>8, SentType, RefusedType DEF AfterSend
<1> HIDE DEF after
<1>11. /\ v.rx_buf = child.rx_buf /\ v.ack = FirstByte
       /\ v.remote = Client /\ v.local_port = ServerPort
       /\ v.state = IF r = "OK" THEN "SYN_RECVD" ELSE "FREE"
       /\ r = "OK" => /\ Ahead(v) = ServerIss + 1 /\ v.unacked_seq = ServerIss
                      /\ v.remote_mss = seg.mss
  BY <1>7, <1>8, <1>9, <1>10 DEF Freed, Tcb
<1> HIDE DEF v
<1>12. /\ tcp_socket'[Conn] = v /\ tcp_socket'[Listener] = heard
       /\ written'[Conn] = ServerIss + 1
  <2>1. SeqAdd(ServerIss, 1) = ServerIss + 1
    BY Sizes DEF SeqAdd
  <2> QED
    BY <1>6, <2>1, TwoSlots DEF LinkInv, IInv
<1>13. Conns' = v /\ Held' = 0
  BY <1>4, <1>7, <1>11, <1>12 DEF Conns, Held
<1>14. Blocks(tcp_socket'[Listener], v)
  BY <1>6, <1>11, <1>12 DEF Blocks, Connected
<1>15. ReadOk(client, read', 0)
  BY <1>4 DEF LinkInv, ReadOk
<1>16. FirstByte \in Nat /\ FirstByte + 0 = FirstByte /\ min(FirstByte, FinSeq) <= FirstByte
  BY Sizes DEF FirstByte, min
<1>17. BlockOk(v, client, written'[Conn], 0)
  <2> SUFFICES ASSUME v.state \in Connected PROVE BlockOk(v, client, written'[Conn], 0)
    BY DEF BlockOk
  <2>1. r = "OK" /\ v.state = "SYN_RECVD"
    BY <1>11 DEF Connected
  <2>2. client.una = ClientIss /\ client.edge = 0
    BY <1>2 DEF LinkInv, ClientOk
  <2>3. min(client.una, FinSeq) <= FirstByte
    BY <2>2, Sizes DEF min, FirstByte
  <2>4. client.edge <= Edge(v)
    BY <1>7, <1>11, <1>16, <2>2, Sizes DEF Edge, FreeCount
  <2>5. written'[Conn] \in ServerIss + 1 .. ServerIss + 1 + ToWrite
    BY <1>12, Sizes
  <2>6. Ahead(v) <= written'[Conn] + FinSent(v)
    BY <1>11, <1>12, <2>1, Sizes DEF FinSent, Receives
  <2> QED
    BY <1>2, <1>7, <1>11, <1>16, <2>1, <2>3, <2>4, <2>5, <2>6 DEF BlockOk
<1>18. /\ out' = {} \/ \E e : out' = {e}
       /\ \A e \in out' : DownOk(e, client, v, 0)
  <2>1. Ahead(child) + Control({"SYN", "ACK"}) <= Limit
    BY <1>7, <1>8, Sizes DEF Limit
  <2>2. min(child.ack, FinSeq) <= FirstByte + 0
    BY <1>7, <1>16
  <2>3. v.ack = child.ack /\ v.rx_buf = child.rx_buf
    BY <1>7, <1>11
  <2>4. ParserReads => child.remote_mss = client.mss
    BY <1>2, <1>7
  <2> QED
    BY <1>6, <1>7, <1>8, <2>1, <2>2, <2>3, <2>4, SendOk
<1>19. client' = client /\ down' = down \o Answer'
  BY DEF ServerSide
<1>20. AskingOk(client, v, down')
  <2>1. r # "OK" => out' = {}
    BY <1>6 DEF Emit
  <2>2. r # "OK" => down' = <<>>
    BY <1>3, <1>19, <2>1 DEF Answer
  <2> QED
    BY <1>11, <2>2 DEF AskingOk
<1>21. v.state = "SYN_RECVD" \/ (v.state = "FREE" /\ Asks(client))
  BY <1>2, <1>11
<1> QED
  BY <1>1, <1>3, <1>13, <1>14, <1>15, <1>17, <1>18, <1>19, <1>20, <1>21, ServerStep

\* A segment without SYN for a connection that is gone is answered with a
\* reset.
LEMMA NotSynStep ==
    ASSUME LinkInv, IInv', ServerSide, up # <<>>, up' = Tail(up), read' = read,
           Conns.state = "FREE",
           NEW seg, seg = Arrived(Head(up)), NotSynIn(Listener, seg)
    PROVE  LinkInv'
<1>1. /\ UpOk(Head(up), client, Conns) /\ seg \in Arriving
      /\ seg.flags = Head(up).flags
      /\ Tail(up) \in Seq(UpMsg) /\ SynsFirst(Tail(up))
      /\ Elems(Tail(up)) \subseteq Elems(up)
      /\ ~ IsSyn(Head(up)) => \A e \in Elems(up) : ~ IsSyn(e)
  BY HeadArrives
<1>2. ~ IsSyn(Head(up)) /\ Update(Listener, Heard(Listener, seg)) /\ written' = written
  BY <1>1 DEF NotSynIn, IsSyn
<1>3. ~ Asks(client) /\ \A e \in Elems(up) : ~ IsSyn(e)
  BY <1>1, <1>2 DEF UpOk
<1>4. /\ tcp_socket'[Conn] = tcp_socket[Conn]
      /\ tcp_socket'[Listener] = Heard(Listener, seg)
  BY <1>2, TwoSlots DEF Update, LinkInv, IInv
<1>5. Conns' = Conns /\ Held' = Held
  BY <1>4 DEF Conns, Held
<1>6. Blocks(tcp_socket'[Listener], Conns)
  <2>1. /\ Heard(Listener, seg).state = tcp_socket[Listener].state
        /\ Heard(Listener, seg).local_port = tcp_socket[Listener].local_port
    BY <1>1, TwoSlots, InvFacts, HeardInv
  <2> QED
    BY <1>4, <2>1 DEF LinkInv, Blocks
<1>7. AskingOk(client, Conns, down')
  BY <1>3 DEF AskingOk
<1>8. Evolves(Conns, Held, Conns, Held)
  BY InvFacts DEF Evolves
<1>9. /\ out' = {} \/ \E m : out' = {m}
      /\ \A m \in out' : DownOk(m, client, Conns, Held)
  <2>1. PICK r \in XipOut :
          SendReset(seg.seq, tcp_socket[Listener].local_port, seg.from, r)
    BY DEF NotSynIn
  <2> QED
    BY <2>1, SendResetOk, ResetOk
<1>10. /\ BlockOk(Conns, client, written'[Conn], Held) /\ ReadOk(client, read', Held)
       /\ client' = client /\ down' = down \o Answer'
  BY <1>2 DEF LinkInv, ServerSide
<1> QED
  BY <1>1, <1>3, <1>5, <1>6, <1>7, <1>8, <1>9, <1>10, ServerStep

\* xtcp_in.
LEMMA ReceivesKeeps ==
    ASSUME LinkInv, ServerReceives
    PROVE  LinkInv'
<1> DEFINE seg == Arrived(Head(up))
<1>1. /\ up # <<>> /\ up' = Tail(up) /\ read' = read /\ ServerSide /\ xtcp_in(seg)
  BY DEF ServerReceives
<1>2. seg \in Arriving /\ seg.from = Client /\ seg.dest_port = ServerPort
  BY <1>1, HeadArrives
<1>3. IInv'
  BY <1>1, <1>2, SegmentKeeps DEF LinkInv
<1> HIDE DEF seg
<1>4. ~ FindsNone(seg)
  BY <1>2, FindsFacts
<1>5. PICK s \in Slot :
        /\ Finds(s, seg)
        /\ \/ AcceptIn(s, seg)   \/ AcceptFullIn(s, seg) \/ NotSynIn(s, seg)
           \/ WrongSeqIn(s, seg) \/ SynRecvdIn(s, seg)
           \/ FinWait1In(s, seg) \/ FinWait2In(s, seg)
           \/ LastAckIn(s, seg)  \/ IgnoredIn(s, seg)
           \/ EstablishedFinIn(s, seg) \/ EstablishedDataIn(s, seg)
           \/ EstablishedAckIn(s, seg)
  BY <1>1, <1>4 DEF xtcp_in, NoBlockIn
<1>6. CASE Conns.state \in Connected
  <2>1. s = Conn /\ tcp_socket[s].state # "LISTEN"
    BY <1>2, <1>5, <1>6, FindsFacts DEF Connected, Conns
  <2>2. ~ AcceptIn(s, seg) /\ ~ AcceptFullIn(s, seg) /\ ~ NotSynIn(s, seg)
    BY <2>1 DEF AcceptIn, AcceptFullIn, NotSynIn
  <2> QED
    BY <1>1, <1>3, <1>5, <1>6, <2>1, <2>2, QuietSegmentStep, SynRecvdStep, FinWait2Step,
       FinStep, DataStep DEF seg
<1>7. CASE Conns.state \notin Connected
  <2>1. s = Listener /\ Conns.state = "FREE" /\ tcp_socket[s].state = "LISTEN"
    BY <1>2, <1>5, <1>7, FindsFacts DEF LinkInv, Blocks
  <2>2. /\ ~ WrongSeqIn(s, seg) /\ ~ SynRecvdIn(s, seg) /\ ~ FinWait1In(s, seg)
        /\ ~ FinWait2In(s, seg) /\ ~ LastAckIn(s, seg) /\ ~ IgnoredIn(s, seg)
        /\ ~ EstablishedFinIn(s, seg) /\ ~ EstablishedDataIn(s, seg)
        /\ ~ EstablishedAckIn(s, seg)
    BY <2>1 DEF WrongSeqIn, SynRecvdIn, FinWait1In, FinWait2In, LastAckIn, IgnoredIn,
                EstablishedFinIn, EstablishedDataIn, EstablishedAckIn, InSequence
  <2>3. Conn \in FreeSlots
    BY <2>1, TwoSlots DEF FreeSlots, Conns
  <2>4. ~ AcceptFullIn(s, seg)
    BY <2>3 DEF AcceptFullIn
  <2> QED
    BY <1>1, <1>3, <1>5, <2>1, <2>2, <2>4, AcceptStep, NotSynStep DEF seg
<1> QED
  BY <1>6, <1>7
-----------------------------------------------------------------------------
(***************************************************************************)
(* The calls of the application.                                           *)
(***************************************************************************)
\* xtcp_close.  When its FIN is not sent the block stays open.
LEMMA CloseStep ==
    ASSUME LinkInv, AppCloses
    PROVE  LinkInv'
<1>1. /\ xtcp_close(Conn) /\ ServerSide /\ up' = up /\ read' = read
      /\ Conn \in Slot /\ Conns = tcp_socket[Conn] /\ Conns \in Tcb
  BY TwoSlots, InvFacts DEF AppCloses
<1>2. IInv'
  BY <1>1, CloseKeeps DEF LinkInv
<1>3. CASE CloseOther(Conn)
  <2>1. /\ Conns.state \notin {"FREE", "SYN_RECVD"} /\ written' = written /\ out' = {}
        /\ Update(Conn, Freed(Conns))
    BY <1>1, <1>3 DEF CloseOther, Silent
  <2>2. Conns.state \in Connected
    BY <2>1 DEF LinkInv, Blocks
  <2> DEFINE v == Freed(Conns)
  <2>3. /\ v.state = "FREE" /\ v.remote = Conns.remote
        /\ v.local_port = Conns.local_port /\ v.ack = Conns.ack
        /\ v.tx_buf = Conns.tx_buf /\ v.rx_buf = Conns.rx_buf
        /\ v.next_seq = Conns.next_seq /\ v.unacked_seq = Conns.unacked_seq
        /\ v.remote_mss = Conns.remote_mss
    BY <1>1 DEF Freed, Tcb
  <2>4. Update(Conn, v)
    BY <2>1
  <2> HIDE DEF v
  <2> QED
    BY <1>1, <1>2, <2>1, <2>2, <2>3, <2>4, QuietStep
<1>4. CASE CloseEstablished(Conn)
  <2> DEFINE flags == {"FIN", "ACK"}
  <2>1. Conns.state = "ESTABLISHED" /\ Conns.state \in Connected /\ written' = written
    BY <1>1, <1>4 DEF CloseEstablished, Connected
  <2>2. PICK r \in XipOut :
          LET after == AfterSend(Conns, flags, r)
          IN  /\ Update(Conn, IF r = "OK" THEN [after EXCEPT !.state = "FIN_WAIT_1"]
                                          ELSE after)
              /\ Emit(Conns, flags, r)
    BY <1>1, <1>4 DEF CloseEstablished
  <2> DEFINE u == AfterSend(Conns, flags, r)
             v == IF r = "OK" THEN [u EXCEPT !.state = "FIN_WAIT_1"] ELSE u
  <2>3. Countable(Conns)
    BY <2>1, InvFacts, ConnectedCountable
  <2>4. /\ written[Conn] \in Nat /\ written[Conn] <= ServerIss + 1 + ToWrite
        /\ Ahead(Conns) \in Nat /\ Ahead(Conns) <= written[Conn]
        /\ Ahead(Conns) + 1 <= Limit /\ Ahead(Conns) + 1 < SeqSpace
    BY <2>1, <2>3, AheadBound DEF Receives
  <2>5. /\ Control(flags) = 1 /\ flags \in SUBSET Flag
        /\ "RST" \notin flags /\ "SYN" \notin flags
    BY DEF Control, Flag
  <2>6. /\ u.state = "ESTABLISHED" /\ u.rx_buf = Conns.rx_buf /\ u.ack = Conns.ack
        /\ u.unacked_seq = Conns.unacked_seq /\ u.remote_mss = Conns.remote_mss
        /\ u.remote = Conns.remote /\ u.local_port = Conns.local_port
        /\ Ahead(u) = Ahead(Conns) + (IF r = "OK" THEN Control(flags) ELSE 0)
    BY <2>1, <2>3, <2>4, <2>5, SendFields
  <2>7. u \in Tcb
    BY <2>3, <2>5, SentType, RefusedType DEF AfterSend
  <2> HIDE DEF u, flags
  <2>8. /\ v.state = (IF r = "OK" THEN "FIN_WAIT_1" ELSE "ESTABLISHED")
        /\ v.rx_buf = Conns.rx_buf /\ v.ack = Conns.ack
        /\ v.unacked_seq = Conns.unacked_seq /\ v.remote_mss = Conns.remote_mss
        /\ v.remote = Conns.remote /\ v.local_port = Conns.local_port
        /\ Ahead(v) = Ahead(u) /\ Edge(v) = Edge(Conns)
    BY <2>6, <2>7 DEF Tcb, Ahead, Edge
  <2> HIDE DEF v
  <2>9. Ahead(v) <= written[Conn] + FinSent(v)
    BY <2>4, <2>5, <2>6, <2>8 DEF FinSent, Receives
  <2>10. BlockOk(Conns, client, written[Conn], Held)
    BY DEF LinkInv
  <2>11. v.state \in Connected /\ v.state # "LAST_ACK" /\ v.state # "SYN_RECVD"
    BY <2>8 DEF Connected
  <2>12. BlockOk(v, client, written'[Conn], Held)
    BY <2>1, <2>8, <2>9, <2>10, <2>11 DEF BlockOk, Receives
  <2>13. /\ Held = Len(read') + v.rx_buf.data_count /\ Held \in Nat
         /\ Edge(Conns) \in Nat /\ ReadOk(client, read', Held)
    BY <1>1, <2>8, InvFacts DEF LinkInv
  <2>14. Evolves(Conns, Held, v, Held)
    BY <2>1, <2>8, <2>13 DEF Evolves, Receives
  <2>15. min(Conns.ack, FinSeq) <= FirstByte + Held
    <3>1. Conns.ack = FirstByte + Held /\ Conns.ack \in Nat
      BY <2>1, <2>10, InvFacts DEF BlockOk
    <3> QED
      BY <3>1, Sizes DEF min
  <2>16. ParserReads => Conns.remote_mss = client.mss
    BY <2>1, <2>10 DEF BlockOk
  <2>17. /\ out' = {} \/ \E m : out' = {m}
         /\ \A m \in out' : DownOk(m, client, v, Held)
    <3>1. Ahead(Conns) + Control(flags) <= Limit /\ Emit(Conns, flags, r)
      BY <2>2, <2>4, <2>5
    <3> QED
      BY <2>3, <2>5, <2>8, <2>15, <2>16, <3>1, SendOk
  <2>18. Update(Conn, v)
    BY <2>2 DEF v, u
  <2> QED
    BY <1>1, <1>2, <2>1, <2>8, <2>11, <2>12, <2>13, <2>14, <2>17, <2>18, ConnStep
<1> QED
  BY <1>1, <1>3, <1>4 DEF xtcp_close

\* The next bytes of the application, and the block that has taken them.
WriteFrom(size) == [i \in 1 .. size |-> SeqAdd(written[Conn], i - 1)]

WithWritten(size) == [Conns EXCEPT !.tx_buf = Written(@, WriteFrom(size))]

\* xtcp_write: the bytes that are taken join the stream behind the last one, and
\* its numbers do not wrap.
LEMMA WriteFacts ==
    ASSUME LinkInv, NEW size \in WriteSizes, Wrote + size <= ToWrite,
           xtcp_write(Conn, size)
    PROVE  LET t == WithWritten(size)
               w == written[Conn]
               taken == WriteSize(Conns.tx_buf, WriteFrom(size))
           IN  /\ \E r \in XipOut : /\ Update(Conn, AfterSend(t, {"ACK"}, r))
                                    /\ Emit(t, {"ACK"}, r)
               /\ Conns.state = "ESTABLISHED" /\ Conns.state \in Connected /\ Receives(Conns)
               /\ Countable(Conns) /\ Countable(t) /\ t.state = "ESTABLISHED"
               /\ t.rx_buf = Conns.rx_buf /\ t.ack = Conns.ack
               /\ t.unacked_seq = Conns.unacked_seq /\ t.remote_mss = Conns.remote_mss
               /\ t.remote = Conns.remote /\ t.local_port = Conns.local_port
               /\ t.next_seq = Conns.next_seq
               /\ t.tx_buf = Written(Conns.tx_buf, WriteFrom(size))
               /\ WriteFrom(size) \in Seq(Byte) /\ size \in 0 .. SeqSpace
               /\ w \in Nat /\ ServerIss + 1 <= w
               /\ BlockOk(Conns, client, w, Held)
               /\ taken \in Nat
               /\ w + taken <= ServerIss + 1 + ToWrite
               /\ written' = [written EXCEPT ![Conn] = SeqAdd(w, taken)]
               /\ written'[Conn] = w + taken
               /\ Ahead(t) \in Nat /\ Ahead(t) <= w + taken /\ Ahead(t) + 1 <= Limit
               /\ Ahead(t) + 1 < SeqSpace
<1>1. Wrote + size <= ToWrite /\ xtcp_write(Conn, size)
  OBVIOUS
<1>2. Conn \in Slot /\ Conns = tcp_socket[Conn] /\ Conns \in Tcb /\ BlockInv(Conns)
  BY TwoSlots, InvFacts
<1> DEFINE w == written[Conn]
           from == [i \in 1 .. size |-> SeqAdd(w, i - 1)]
           taken == WriteSize(Conns.tx_buf, from)
           t == [Conns EXCEPT !.tx_buf = Written(@, from)]
<1>3. PICK r \in XipOut : Update(Conn, AfterSend(t, {"ACK"}, r)) /\ Emit(t, {"ACK"}, r)
  BY <1>1, <1>2 DEF xtcp_write
<1>4. /\ Conns.state = "ESTABLISHED" /\ Conns.state \in Connected /\ Receives(Conns)
      /\ written' = [written EXCEPT ![Conn] = SeqAdd(w, taken)]
  BY <1>1, <1>2 DEF xtcp_write, Connected, Receives
<1>5. Countable(Conns)
  BY <1>2, <1>4, ConnectedCountable
<1>6. /\ w \in Nat /\ w <= ServerIss + 1 + ToWrite /\ ServerIss + 1 <= w
      /\ Ahead(Conns) \in Nat /\ Ahead(Conns) <= w
      /\ BlockOk(Conns, client, w, Held)
  <2>1. BlockOk(Conns, client, w, Held)
    BY DEF LinkInv
  <2>2. w \in ServerIss + 1 .. ServerIss + 1 + ToWrite
    BY <1>4, <2>1 DEF BlockOk
  <2>3. Ahead(Conns) \in Nat /\ Ahead(Conns) <= w
    BY <1>4, <1>5, AheadBound
  <2> QED
    BY <2>1, <2>2, <2>3, Sizes
<1>7. from \in Seq(Byte) /\ size \in 0 .. SeqSpace /\ size \in Nat
  <2>1. size \in 0 .. SeqSpace
    BY InputAssumption
  <2>2. w \in SeqNum
    BY <1>2 DEF LinkInv, IInv
  <2>3. \A i \in 1 .. size : SeqAdd(w, i - 1) \in Byte
    BY <2>1, <2>2, Sizes DEF SeqAdd, SeqNum, Byte
  <2> QED
    BY <2>1, <2>3, Sizes
<1>8. taken \in Nat /\ taken <= size
  <2>1. Conns.tx_buf \in Buf
    BY <1>2 DEF Tcb
  <2> QED
    BY <1>7, <2>1, WriteSizeType
<1>9. /\ Countable(t) /\ t.state = "ESTABLISHED"
  BY <1>2, <1>4, <1>7, WriteInv
<1>10. /\ t.rx_buf = Conns.rx_buf /\ t.ack = Conns.ack
       /\ t.unacked_seq = Conns.unacked_seq /\ t.remote_mss = Conns.remote_mss
       /\ t.remote = Conns.remote /\ t.local_port = Conns.local_port
       /\ t.next_seq = Conns.next_seq /\ t.tx_buf = Written(Conns.tx_buf, from)
  BY <1>2 DEF Tcb
<1> HIDE DEF t, w
<1>11. Ahead(t) = Ahead(Conns) + taken
  <2>1. /\ Conns.tx_buf.data_count \in Nat /\ Conns.tx_buf.unacked_count \in Nat
        /\ Conns.next_seq \in Nat /\ Conns.tx_buf \in Buf
    BY <1>2, Sizes DEF Tcb, Buf, SeqNum
  <2>2. /\ t.tx_buf.data_count = Conns.tx_buf.data_count + taken
        /\ t.tx_buf.unacked_count = Conns.tx_buf.unacked_count
    BY <1>10, <2>1 DEF Written, Buf
  <2> HIDE DEF taken
  <2> QED
    BY <1>8, <1>10, <2>1, <2>2 DEF Ahead, WaitSendCount
<1> HIDE DEF taken, from
<1>12. w + taken <= ServerIss + 1 + ToWrite
  <2>1. Wrote = w - (ServerIss + 1)
    BY <1>6, Sizes DEF Wrote, w
  <2> QED
    BY <1>1, <1>6, <1>7, <1>8, <2>1, Sizes
<1>13. written'[Conn] = w + taken
  <2>1. written'[Conn] = SeqAdd(w, taken)
    BY <1>2, <1>4 DEF LinkInv, IInv
  <2> QED
    BY <1>6, <1>8, <1>12, <2>1, Sizes DEF SeqAdd
<1>14. /\ Ahead(t) \in Nat /\ Ahead(t) <= w + taken /\ Ahead(t) + 1 <= Limit
       /\ Ahead(t) + 1 < SeqSpace
  BY <1>6, <1>8, <1>11, <1>12, Sizes DEF Limit
<1>15. t = WithWritten(size) /\ from = WriteFrom(size)
  BY DEF t, from, w, WithWritten, WriteFrom
<1> QED
  BY <1>3, <1>4, <1>5, <1>6, <1>7, <1>8, <1>9, <1>10, <1>12, <1>13, <1>14, <1>15 DEF w, taken

\* xtcp_write: the bytes taken join the stream, and some of them are sent.
LEMMA WriteStep ==
    ASSUME LinkInv, AppWrites
    PROVE  LinkInv'
<1>1. PICK size \in WriteSizes : Wrote + size <= ToWrite /\ xtcp_write(Conn, size)
  BY DEF AppWrites
<1>2. /\ ServerSide /\ up' = up /\ read' = read /\ Conn \in Slot
  BY TwoSlots DEF AppWrites
<1>3. IInv'
  BY <1>1, <1>2, WriteKeeps DEF LinkInv
<1> DEFINE w == written[Conn]
           taken == WriteSize(Conns.tx_buf, WriteFrom(size))
           t == WithWritten(size)
<1>4. PICK r \in XipOut : Update(Conn, AfterSend(t, {"ACK"}, r)) /\ Emit(t, {"ACK"}, r)
  BY <1>1, WriteFacts
<1>5. /\ Conns.state = "ESTABLISHED" /\ Conns.state \in Connected /\ Receives(Conns)
      /\ Countable(t) /\ t.state = "ESTABLISHED"
      /\ t.rx_buf = Conns.rx_buf /\ t.ack = Conns.ack
      /\ t.unacked_seq = Conns.unacked_seq /\ t.remote_mss = Conns.remote_mss
      /\ t.remote = Conns.remote /\ t.local_port = Conns.local_port
      /\ w \in Nat /\ ServerIss + 1 <= w /\ BlockOk(Conns, client, w, Held)
      /\ taken \in Nat /\ w + taken <= ServerIss + 1 + ToWrite
      /\ written'[Conn] = w + taken
      /\ Ahead(t) \in Nat /\ Ahead(t) <= w + taken /\ Ahead(t) + 1 <= Limit
      /\ Ahead(t) + 1 < SeqSpace
  BY <1>1, WriteFacts
<1> HIDE DEF t, w, taken
<1>6. Control({"ACK"}) = 0 /\ {"ACK"} \in SUBSET Flag
  BY DEF Control, Flag
<1> DEFINE v == AfterSend(t, {"ACK"}, r)
<1>7. /\ v.state = "ESTABLISHED" /\ v.rx_buf = Conns.rx_buf /\ v.ack = Conns.ack
       /\ v.unacked_seq = Conns.unacked_seq /\ v.remote_mss = Conns.remote_mss
       /\ v.remote = Conns.remote /\ v.local_port = Conns.local_port
       /\ Ahead(v) = Ahead(t) /\ Edge(v) = Edge(Conns)
  <2>1. /\ v.state = t.state /\ v.rx_buf = t.rx_buf /\ v.ack = t.ack
        /\ v.unacked_seq = t.unacked_seq /\ v.remote_mss = t.remote_mss
        /\ v.remote = t.remote /\ v.local_port = t.local_port
        /\ Ahead(v) = Ahead(t) + (IF r = "OK" THEN Control({"ACK"}) ELSE 0)
    BY <1>5, <1>6, SendFields
  <2> HIDE DEF v
  <2>2. Ahead(v) = Ahead(t)
    BY <1>5, <1>6, <2>1
  <2> QED
    BY <1>5, <2>1, <2>2 DEF Edge
<1> HIDE DEF v
<1>8. v.state \in Connected
  BY <1>7 DEF Connected
<1>9. BlockOk(v, client, written'[Conn], Held)
  <2>1. w + taken \in ServerIss + 1 .. ServerIss + 1 + ToWrite
    BY <1>5, Sizes
  <2>2. Ahead(v) <= w + taken + FinSent(v)
    BY <1>5, <1>7 DEF FinSent, Receives
  <2> QED
    BY <1>5, <1>7, <2>1, <2>2 DEF BlockOk, Receives
<1>10. /\ Held = Len(read') + v.rx_buf.data_count /\ Held \in Nat
       /\ Edge(Conns) \in Nat /\ ReadOk(client, read', Held)
  BY <1>2, <1>7, InvFacts DEF LinkInv
<1>11. Evolves(Conns, Held, v, Held)
  BY <1>5, <1>7, <1>10 DEF Evolves, Receives
<1>12. /\ out' = {} \/ \E m : out' = {m}
       /\ \A m \in out' : DownOk(m, client, v, Held)
  <2>1. min(t.ack, FinSeq) <= FirstByte + Held
    <3>1. Conns.ack = FirstByte + Held /\ Conns.ack \in Nat
      BY <1>5, InvFacts DEF BlockOk
    <3> QED
      BY <1>5, <3>1, Sizes DEF min
  <2>2. ParserReads => t.remote_mss = client.mss
    BY <1>5 DEF BlockOk
  <2>3. Ahead(t) + Control({"ACK"}) <= Limit
    BY <1>5, <1>6, Sizes DEF Limit
  <2>4. v.ack = t.ack /\ v.rx_buf = t.rx_buf
    BY <1>5, <1>7
  <2> QED
    BY <1>4, <1>5, <1>6, <2>1, <2>2, <2>3, <2>4, SendOk
<1>13. Update(Conn, v)
  BY <1>4 DEF v
<1> QED
  BY <1>2, <1>3, <1>5, <1>7, <1>8, <1>9, <1>10, <1>11, <1>12, <1>13, ConnStep

\* min is one of the two, and above neither.
LEMMA MinBound ==
    ASSUME NEW a \in Nat, NEW b \in Nat
    PROVE  min(a, b) \in Nat /\ min(a, b) <= a /\ min(a, b) <= b
BY DEF min

\* The oldest bytes of rx_buf are the next ones of the client's stream.
LEMMA UnreadBytes ==
    ASSUME LinkInv, Conns.state \in Connected, NEW i \in 0 .. Conns.rx_buf.data_count - 1
    PROVE  /\ Unread(Conns.rx_buf, i) = FirstByte + Len(read) + i
           /\ Unread(Conns.rx_buf, i) \in Byte
<1> DEFINE x == Unread(Conns.rx_buf, i)
           d == Conns.rx_buf.data_count
           f == FirstByte + Len(read)
<1>1. /\ Conns.rx_buf \in Buf /\ d \in 0 .. BufSize /\ Len(read) \in Nat
      /\ Held = Len(read) + d /\ FirstByte \in Nat
  BY InvFacts, Sizes DEF FirstByte
<1>2. f \in Nat /\ FirstByte + Held = f + d /\ d \in Nat /\ i \in Nat /\ i < d
  BY <1>1, Sizes
<1>3. x \in SeqNum
  <2>1. Conns.rx_buf.tail \in Index /\ Conns.rx_buf.data \in [Index -> SeqNum]
    BY <1>1 DEF Buf, Byte
  <2>2. i \in 0 .. BufSize
    BY <1>1, <1>2, Sizes
  <2> QED
    BY <2>1, <2>2, CellType DEF Unread
<1>4. SeqAdd(x, d - i) = f + d
  BY <1>2 DEF LinkInv, BlockOk, RxAt
<1> HIDE DEF x, d, f
<1>5. x = f + i
  BY <1>2, <1>3, <1>4, Sizes DEF SeqAdd, SeqNum
<1> QED
  BY <1>3, <1>5 DEF x, f, Byte

\* The numbers from f up to a, which are a - f ones.
LEMMA NumbersType ==
    ASSUME NEW f \in Nat, NEW a \in Nat, f <= a
    PROVE  /\ Numbers(f, a) \in Seq(Nat) /\ Len(Numbers(f, a)) = a - f
           /\ \A i \in 1 .. a - f : Numbers(f, a)[i] = f + i - 1
<1>1. a - f \in Nat /\ \A i \in 1 .. a - f : f + i - 1 \in Nat
  OBVIOUS
<1> QED
  BY <1>1 DEF Numbers

\* Numbers that go on where the first ones end.
LEMMA NumbersGrow ==
    ASSUME NEW f \in Nat, NEW a \in Nat, NEW b \in Nat, f <= a, a <= b
    PROVE  Numbers(f, a) \o Numbers(a, b) = Numbers(f, b)
<1> DEFINE r == Numbers(f, a)
           s == Numbers(a, b)
           q == r \o s
<1>1. /\ r \in Seq(Nat) /\ Len(r) = a - f /\ \A i \in 1 .. a - f : r[i] = f + i - 1
      /\ s \in Seq(Nat) /\ Len(s) = b - a /\ \A i \in 1 .. b - a : s[i] = a + i - 1
  BY NumbersType
<1> HIDE DEF r, s
<1>2. /\ q \in Seq(Nat) /\ Len(q) = Len(r) + Len(s)
      /\ \A i \in 1 .. Len(r) + Len(s) : q[i] = IF i <= Len(r) THEN r[i] ELSE s[i - Len(r)]
  BY <1>1, ConcatProperties
<1> HIDE DEF q
<1>3. Len(q) = b - f
  BY <1>1, <1>2
<1>4. ASSUME NEW i \in 1 .. b - f PROVE q[i] = f + i - 1
  <2>1. i \in 1 .. Len(r) + Len(s)
    BY <1>1
  <2>2. CASE i <= a - f
    <3>1. q[i] = r[i]
      BY <1>1, <1>2, <2>1, <2>2
    <3> QED
      BY <1>1, <2>2, <3>1
  <2>3. CASE ~ (i <= a - f)
    <3>1. q[i] = s[i - (a - f)]
      BY <1>1, <1>2, <2>1, <2>3
    <3>2. i - (a - f) \in 1 .. b - a
      BY <2>3
    <3>3. s[i - (a - f)] = a + (i - (a - f)) - 1
      BY <1>1, <3>2
    <3> QED
      BY <3>1, <3>3
  <2> QED
    BY <2>2, <2>3
<1>5. q = [i \in 1 .. b - f |-> q[i]]
  BY <1>2, <1>3
<1>6. q = Numbers(f, b)
  BY <1>4, <1>5 DEF Numbers
<1> QED
  BY <1>6 DEF q, r, s

\* xtcp_read: the window of the server grows by what the application takes.
LEMMA ReadStep ==
    ASSUME LinkInv, AppReads
    PROVE  LinkInv'
<1>1. PICK size \in ReadSizes :
        /\ xtcp_read(Conn, size)
        /\ read' = read \o [i \in 1 .. ReadSize(Conns.rx_buf, size) |-> Unread(Conns.rx_buf, i - 1)]
  BY DEF AppReads, Conns
<1>2. /\ ServerSide /\ up' = up
      /\ Conn \in Slot /\ Conns = tcp_socket[Conn] /\ Conns \in Tcb /\ BlockInv(Conns)
  BY TwoSlots, InvFacts DEF AppReads
<1>3. IInv'
  BY <1>1, <1>2, ReadKeeps DEF LinkInv
<1> DEFINE rx == Conns.rx_buf
           n == ReadSize(rx, size)
           s == [i \in 1 .. n |-> Unread(rx, i - 1)]
           v == [Conns EXCEPT !.rx_buf = Taken(@, size)]
           k == Held
<1>4. /\ Conns.state \in Connected \ {"SYN_RECVD"} /\ Update(Conn, v) /\ out' = {}
      /\ written' = written /\ read' = read \o s
  BY <1>1, <1>2 DEF xtcp_read, Silent
<1>5. /\ rx \in Buf /\ rx.data_count \in 0 .. BufSize /\ size \in Nat
      /\ Held = Len(read) + rx.data_count /\ Len(read) \in Nat /\ Held \in Nat
      /\ Edge(Conns) \in Nat /\ Conns.ack \in Nat
  BY InvFacts, InputAssumption
<1>6. n \in Nat /\ n <= rx.data_count
  <2>1. \A x \in 0 .. BufSize : x \in Nat
    BY Sizes
  <2>2. rx.data_count \in Nat
    BY <1>5, <2>1
  <2> QED
    BY <1>5, <2>2, MinBound DEF ReadSize
<1>7. /\ v.state = Conns.state /\ v.rx_buf = Taken(rx, size) /\ v.ack = Conns.ack
      /\ v.unacked_seq = Conns.unacked_seq /\ v.remote_mss = Conns.remote_mss
      /\ v.remote = Conns.remote /\ v.local_port = Conns.local_port
      /\ Ahead(v) = Ahead(Conns)
  BY <1>2 DEF Tcb, Ahead
<1>8. v.rx_buf.data_count = rx.data_count - n
  BY <1>5, <1>7 DEF Taken, Buf
<1>9. RxAt(v.rx_buf, FirstByte + Held)
  <2>1. RxAt(rx, FirstByte + Held)
    BY <1>4 DEF LinkInv, BlockOk
  <2> QED
    BY <1>5, <1>7, <2>1, TakenRxAt
<1>10. /\ read' \in Seq(Byte) /\ Len(read') = Len(read) + n
       /\ read' = Numbers(FirstByte, FirstByte + Len(read'))
  <2>1. \A i \in 1 .. n : /\ Unread(rx, i - 1) = FirstByte + Len(read) + i - 1
                          /\ Unread(rx, i - 1) \in Byte
    <3> SUFFICES ASSUME NEW i \in 1 .. n
                 PROVE  /\ Unread(rx, i - 1) = FirstByte + Len(read) + i - 1
                        /\ Unread(rx, i - 1) \in Byte
      OBVIOUS
    <3>1. i - 1 \in 0 .. Conns.rx_buf.data_count - 1 /\ FirstByte \in Nat
      BY <1>5, <1>6, Sizes DEF FirstByte
    <3>2. /\ Unread(rx, i - 1) = FirstByte + Len(read) + (i - 1)
          /\ Unread(rx, i - 1) \in Byte
      BY <1>4, <3>1, UnreadBytes
    <3> QED
      BY <1>5, <3>1, <3>2
  <2> HIDE DEF n, rx
  <2> DEFINE a == FirstByte + Len(read)
  <2>2. /\ read \in Seq(Byte) /\ read = Numbers(FirstByte, a)
        /\ FirstByte \in Nat /\ a \in Nat /\ FirstByte <= a
    BY Sizes DEF LinkInv, ReadOk, FirstByte
  <2>3. s \in Seq(Byte) /\ Len(s) = n /\ s = Numbers(a, a + n)
    <3>1. s = [i \in 1 .. n |-> a + i - 1] /\ s \in Seq(Byte) /\ Len(s) = n
      BY <1>6, <2>1
    <3> HIDE DEF s, a
    <3>2. (a + n) - a = n
      BY <1>6, <2>2
    <3> QED
      BY <3>1, <3>2 DEF Numbers
  <2>4. a + n \in Nat /\ a <= a + n /\ a + n = FirstByte + (Len(read) + n)
    BY <1>6, <2>2
  <2> HIDE DEF s, a
  <2>5. read' = Numbers(FirstByte, a + n)
    <3>1. Numbers(FirstByte, a) \o Numbers(a, a + n) = Numbers(FirstByte, a + n)
      BY <2>2, <2>4, NumbersGrow
    <3>2. read' = read \o s
      BY <1>4
    <3> QED
      BY <2>2, <2>3, <3>1, <3>2
  <2>6. read \o s \in Seq(Byte) /\ Len(read \o s) = Len(read) + n
    BY <2>2, <2>3, ConcatProperties
  <2> QED
    BY <1>4, <2>4, <2>5, <2>6
<1> HIDE DEF v, s, n
<1>11. Held = Len(read') + v.rx_buf.data_count
  BY <1>5, <1>6, <1>8, <1>10, Sizes
<1>12. Edge(v) \in Nat /\ Edge(Conns) <= Edge(v)
  <2> DEFINE d == rx.data_count
             e == v.rx_buf.data_count
  <2>1. /\ d \in 0 .. BufSize /\ e = d - n /\ n \in Nat /\ n <= d /\ BufSize \in Nat
        /\ Conns.ack \in Nat
    BY <1>5, <1>6, <1>8, Sizes
  <2>2. Edge(v) = Conns.ack + (BufSize - e) /\ Edge(Conns) = Conns.ack + (BufSize - d)
    BY <1>7 DEF Edge, FreeCount
  <2> HIDE DEF d, e
  <2> QED
    BY <2>1, <2>2
<1>13. BlockOk(Conns, client, written[Conn], Held) /\ ReadOk(client, read, Held)
  BY DEF LinkInv
<1>14. client.edge \in Nat
  BY DEF LinkInv, ClientOk, ClientType
<1>15. BlockOk(v, client, written'[Conn], Held)
  BY <1>4, <1>5, <1>7, <1>9, <1>12, <1>13, <1>14 DEF BlockOk, Receives, FinSent
<1>16. ReadOk(client, read', Held)
  BY <1>10, <1>13 DEF ReadOk
<1>17. Evolves(Conns, Held, v, Held)
  BY <1>4, <1>5, <1>7, <1>12 DEF Evolves, Receives
<1> QED
  BY <1>2, <1>3, <1>4, <1>7, <1>11, <1>15, <1>16, <1>17, ConnStep
-----------------------------------------------------------------------------
(***************************************************************************)
(* A step of the client or of the link: the block stays as it is.          *)
(***************************************************************************)
\* What the client is known to be.
LEMMA ClientFacts ==
    ASSUME NEW c, ClientOk(c)
    PROVE  /\ c \in ClientType
           /\ c.una \in Nat /\ c.nxt \in Nat /\ c.rcv \in Nat /\ c.edge \in Nat
           /\ c.mss \in Nat
           /\ ClientIss <= c.una /\ c.una <= c.nxt /\ c.nxt <= FinSeq + 1
           /\ c.rcv <= Limit
           /\ FirstByte \in Nat /\ FinSeq \in Nat /\ Limit \in Nat
           /\ FinSeq = FirstByte + ToSend /\ FirstByte = ClientIss + 1
           /\ c.state = "OPEN" => /\ ~ Asks(c) /\ FirstByte <= c.una /\ ServerIss < c.rcv
                                  /\ FirstByte <= c.nxt
                                  /\ SentUpTo(c) = min(c.nxt, FinSeq)
<1>1. /\ c \in ClientType
      /\ c.una \in Nat /\ c.nxt \in Nat /\ c.rcv \in Nat /\ c.edge \in Nat
      /\ c.mss \in Nat
      /\ ClientIss <= c.una /\ c.una <= c.nxt /\ c.nxt <= FinSeq + 1
      /\ c.rcv <= Limit
      /\ c.state = "OPEN" => FirstByte <= c.una /\ ServerIss < c.rcv
  BY DEF ClientOk, ClientType
<1>2. /\ FirstByte \in Nat /\ FinSeq \in Nat /\ Limit \in Nat
      /\ FinSeq = FirstByte + ToSend /\ FirstByte = ClientIss + 1
  BY Sizes DEF FirstByte, Limit
<1>3. c.state = "OPEN" => FirstByte <= c.nxt
  BY <1>1, <1>2
<1> QED
  BY <1>1, <1>2, <1>3 DEF Asks, SentUpTo

\* What a step of the client or of the link has to show; M are the segments
\* that the client sends.
LEMMA ClientStep ==
    ASSUME LinkInv, ClientSide,
           NEW c, c = client', ClientOk(c),
           client.rcv <= c.rcv, SentUpTo(client) <= SentUpTo(c),
           Asks(c) => Asks(client),
           Conns.state = "FREE" /\ Asks(client) => Asks(c),
           c.mss = client.mss \/ client.state = "CLOSED",
           c.state = "CLOSED" => client.state = "CLOSED",
           Receives(Conns) => c.edge <= Edge(Conns),
           Conns.state \in Connected => min(c.una, FinSeq) <= FirstByte + Held,
           up' \in Seq(UpMsg), SynsFirst(up'),
           NEW M, Elems(up') \subseteq Elems(up) \cup M, \A m \in M : UpOk(m, c, Conns),
           down' \in Seq(Departing), Elems(down') \subseteq Elems(down)
    PROVE  LinkInv'
<1>1. /\ tcp_socket' = tcp_socket /\ written' = written /\ read' = read
      /\ out' = {} /\ event' = {}
  BY DEF ClientSide
<1>2. Conns' = Conns /\ Held' = Held
  BY <1>1 DEF Conns, Held
<1>3. IInv'
  BY <1>1 DEF LinkInv, IInv
<1>4. /\ SentUpTo(client) \in Nat /\ Held \in Nat /\ FirstByte \in Nat
      /\ Conns \in Tcb /\ client.rcv \in Nat /\ Conns.unacked_seq \in Nat
  <2>1. ClientOk(client)
    BY DEF LinkInv
  <2>2. FirstByte \in Nat /\ client.rcv \in Nat
    BY <2>1, ClientFacts
  <2>3. SentUpTo(client) \in Nat /\ Held \in Nat /\ Conns \in Tcb
    BY InvFacts
  <2>4. Conns.unacked_seq \in Nat
    BY <2>3, Sizes DEF Tcb, SeqNum
  <2> QED
    BY <2>2, <2>3, <2>4
<1>5. SentUpTo(c) \in Nat /\ c.rcv \in Nat
  <2>1. c.nxt \in Nat /\ c.rcv \in Nat
    BY DEF ClientOk, ClientType
  <2> QED
    BY <2>1, Sizes DEF SentUpTo, FirstByte, min
<1>6. client.state = "CLOSED" => Conns.state = "FREE" /\ down = <<>>
  BY DEF LinkInv, AskingOk, BlockOk, Asks, Connected
<1>7. ASSUME NEW m \in Elems(up') PROVE UpOk(m, c, Conns)
  <2>1. CASE m \in M
    BY <2>1
  <2>2. CASE m \in Elems(up)
    <3>1. UpOk(m, client, Conns) /\ m \in UpMsg
      <4>1. PICK i \in 1 .. Len(up) : m = up[i]
        BY <2>2 DEF Elems
      <4>2. up \in Seq(UpMsg)
        BY DEF LinkInv, Queues
      <4> QED
        BY <2>2, <4>1, <4>2, ElementOfSeq DEF LinkInv, Queues
    <3>2. m.ack \in Nat /\ m.seq \in Nat /\ m.len \in Nat
      BY <3>1, Sizes DEF UpMsg
    <3>3. m.ack <= c.rcv
      BY <1>4, <1>5, <3>1, <3>2 DEF UpOk
    <3>4. CASE IsSyn(m)
      BY <3>1, <3>3, <3>4 DEF UpOk
    <3>5. CASE ~ IsSyn(m)
      <4>1. m.len > 0 => m.seq + m.len <= SentUpTo(c)
        BY <1>4, <1>5, <3>1, <3>2, <3>5 DEF UpOk
      <4>2. ServerIss < c.rcv
        BY <1>4, <1>5, <3>1, <3>5, Sizes DEF UpOk
      <4> QED
        BY <3>1, <3>3, <3>5, <4>1, <4>2 DEF UpOk
    <3> QED
      BY <3>4, <3>5
  <2> QED
    BY <2>1, <2>2
<1>8. ASSUME NEW m \in Elems(down') PROVE DownOk(m, c, Conns, Held)
  <2>1. m \in Elems(down) /\ DownOk(m, client, Conns, Held)
    BY DEF LinkInv, Queues
  <2>2. client.state # "CLOSED"
    <3>1. ASSUME client.state = "CLOSED" PROVE FALSE
      <4>1. Len(down) = 0
        BY <1>6, <3>1
      <4> QED
        BY <2>1, <4>1 DEF Elems
    <3> QED
      BY <3>1
  <2> QED
    BY <2>1, <2>2 DEF DownOk
<1>9. AskingOk(c, Conns, down')
  <2>1. ASSUME Asks(c), Conns.state = "FREE" PROVE down' = <<>>
    <3>1. down = <<>>
      BY <2>1 DEF LinkInv, AskingOk
    <3>2. Elems(down) = {}
      BY <3>1 DEF Elems
    <3>3. Len(down') \in Nat /\ Elems(down') = {}
      BY <3>2
    <3>4. 1 \notin 1 .. Len(down')
      BY <3>3 DEF Elems
    <3>5. Len(down') = 0
      BY <3>3, <3>4
    <3> QED
      BY <3>5, EmptySeq
  <2> QED
    BY <2>1 DEF LinkInv, AskingOk
<1>11. BlockOk(Conns, c, written[Conn], Held)
  <2>1. BlockOk(Conns, client, written[Conn], Held)
    BY DEF LinkInv
  <2>2. Conns.state \in Connected => c.mss = client.mss
    BY <1>6 DEF Connected
  <2>3. Conns.state = "SYN_RECVD" => c.state # "CLOSED"
    BY <2>1 DEF BlockOk, Connected
  <2>4. Conns.state = "ESTABLISHED" => Conns.unacked_seq <= c.rcv
    BY <1>4, <1>5, <2>1 DEF BlockOk, Connected
  <2> QED
    BY <2>1, <2>2, <2>3, <2>4 DEF BlockOk
<1>12. ReadOk(c, read, Held)
  BY <1>4, <1>5 DEF LinkInv, ReadOk
<1>13. Queues'
  BY <1>1, <1>2, <1>7, <1>8 DEF Queues
<1>14. Blocks(tcp_socket'[Listener], Conns)
  BY <1>1 DEF LinkInv
<1> QED
  BY <1>1, <1>2, <1>3, <1>9, <1>11, <1>12, <1>13, <1>14 DEF LinkInv

\* An ACK without data is in order whenever the client is open.
LEMMA AckOk ==
    ASSUME NEW c, ClientOk(c), c.state = "OPEN", NEW t
    PROVE  /\ Ack(c) \in UpMsg /\ ~ IsSyn(Ack(c))
           /\ UpOk(Ack(c), c, t)
<1> DEFINE m == Ack(c)
<1>1. /\ m.seq = c.nxt /\ m.ack = c.rcv /\ m.flags = {"ACK"} /\ m.len = 0 /\ m.options = <<>>
      /\ m = [seq |-> m.seq, ack |-> m.ack, flags |-> m.flags, len |-> m.len, options |-> m.options]
  BY DEF Ack, Message
<1> HIDE DEF m
<1>2. ~ IsSyn(m) /\ ~ IsFin(m)
  BY <1>1 DEF IsSyn, IsFin
<1>3. c.nxt \in Nat /\ c.rcv \in Nat /\ c.nxt <= FinSeq + 1 /\ FirstByte <= c.nxt /\ ~ Asks(c)
      /\ ServerIss < c.rcv
  BY ClientFacts
<1>4. m \in UpMsg
  <2>1. 0 \in 0 .. ToSend
    BY Sizes
  <2> QED
    BY <1>1, <1>3, <2>1 DEF UpMsg
<1>5. UpOk(m, c, t)
  BY <1>1, <1>2, <1>3 DEF UpOk
<1> QED
  BY <1>2, <1>4, <1>5 DEF m

\* The client sends the segment m.
LEMMA PutStep ==
    ASSUME LinkInv, NEW c, NEW m, Put(c, m), ClientOk(c),
           c.una = client.una, c.rcv = client.rcv, c.edge = client.edge,
           SentUpTo(client) <= SentUpTo(c), Asks(c) <=> Asks(client),
           c.mss = client.mss \/ client.state = "CLOSED",
           c.state = "CLOSED" => client.state = "CLOSED",
           m \in UpMsg, UpOk(m, c, Conns), IsSyn(m) => Asks(client)
    PROVE  LinkInv'
<1>1. up' = Append(up, m) /\ client' = c /\ down' = down /\ ClientSide
  BY DEF Put
<1>2. /\ up \in Seq(UpMsg) /\ SynsFirst(up) /\ down \in Seq(Departing)
      /\ \A e \in Elems(up) : UpOk(e, client, Conns)
  BY DEF LinkInv, Queues
<1>3. IsSyn(m) => \A e \in Elems(up) : IsSyn(e)
  BY <1>2 DEF UpOk
<1>4. /\ up' \in Seq(UpMsg) /\ Elems(up') = Elems(up) \cup {m} /\ SynsFirst(up')
  BY <1>1, <1>2, <1>3, AppendElems
<1>5. client.rcv <= c.rcv
  BY ClientFacts
<1>6. Receives(Conns) => c.edge <= Edge(Conns)
  BY DEF LinkInv, BlockOk, Receives, Connected
<1>7. Conns.state \in Connected => min(c.una, FinSeq) <= FirstByte + Held
  BY DEF LinkInv, BlockOk
<1> DEFINE M == {m}
<1>8. Elems(up') \subseteq Elems(up) \cup M /\ \A e \in M : UpOk(e, c, Conns)
  BY <1>4
<1> HIDE DEF M
<1> QED
  BY <1>1, <1>2, <1>4, <1>5, <1>6, <1>7, <1>8, ClientStep

\* The SYN of the client.
LEMMA ConnectStep ==
    ASSUME LinkInv, Connect
    PROVE  LinkInv'
<1>1. PICK options \in SynOptions :
        Put([client EXCEPT !.state = "SYN_SENT", !.nxt = ClientIss + 1,
               !.mss = Options!Announced(options, MssDefault)],
            Message(client, {"SYN"}, ClientIss, 0, options))
  BY DEF Connect
<1> DEFINE a == Options!Announced(options, MssDefault)
           c == [client EXCEPT !.state = "SYN_SENT", !.nxt = ClientIss + 1, !.mss = a]
           m == Message(client, {"SYN"}, ClientIss, 0, options)
<1>2. ClientOk(client) /\ client.state = "CLOSED" /\ Asks(client)
      /\ Conns.state = "FREE"
  BY DEF Connect, LinkInv, Asks, AskingOk, BlockOk, Connected
<1>3. /\ client \in ClientType /\ client.una = ClientIss /\ client.rcv = 0 /\ client.edge = 0
  BY <1>2 DEF ClientOk
<1>4. a \in Nat
  BY ArrivingAssumption, SizeAssumption DEF Win
<1> HIDE DEF a
<1>5. /\ c.state = "SYN_SENT" /\ c.nxt = ClientIss + 1 /\ c.mss = a
      /\ c.una = client.una /\ c.rcv = client.rcv /\ c.edge = client.edge
      /\ c \in ClientType
  <2>1. ClientIss + 1 \in Nat
    BY Sizes
  <2> DEFINE c1 == [client EXCEPT !.state = "SYN_SENT"]
             c2 == [c1 EXCEPT !.nxt = ClientIss + 1]
  <2>2. /\ c1 \in ClientType /\ c1.state = "SYN_SENT"
        /\ c1.una = client.una /\ c1.rcv = client.rcv /\ c1.edge = client.edge
    BY <1>3 DEF ClientType
  <2> HIDE DEF c1
  <2>3. /\ c2 \in ClientType /\ c2.state = "SYN_SENT" /\ c2.nxt = ClientIss + 1
        /\ c2.una = client.una /\ c2.rcv = client.rcv /\ c2.edge = client.edge
    BY <2>1, <2>2 DEF ClientType
  <2>4. c = [c2 EXCEPT !.mss = a]
    BY DEF c1
  <2> HIDE DEF c, c2
  <2> QED
    BY <1>4, <2>3, <2>4 DEF ClientType
<1>6. /\ m.seq = ClientIss /\ m.ack = client.rcv /\ m.flags = {"SYN"} /\ m.len = 0
      /\ m.options = options /\ m \in UpMsg /\ IsSyn(m)
  <2>1. 0 \in 0 .. ToSend /\ ClientIss \in Nat /\ client.rcv \in Nat
    BY <1>3, Sizes
  <2> QED
    BY <2>1 DEF Message, UpMsg, IsSyn
<1>7. Put(c, m)
  BY <1>1 DEF a
<1> HIDE DEF c, m
<1>8. Asks(c)
  BY <1>5 DEF Asks
<1>9. FirstByte = ClientIss + 1 /\ FinSeq = FirstByte + ToSend
      /\ FirstByte \in Nat /\ Limit \in Nat
  BY Sizes DEF FirstByte, Limit
<1>10. ClientOk(c)
  BY <1>3, <1>5, <1>9, Sizes DEF ClientOk
<1>11. SentUpTo(client) <= SentUpTo(c)
  BY <1>2, <1>5, <1>9, Sizes DEF SentUpTo, min
<1>12. UpOk(m, c, Conns)
  BY <1>2, <1>3, <1>5, <1>6, <1>8, Sizes DEF UpOk, a
<1> QED
  BY <1>2, <1>5, <1>6, <1>7, <1>8, <1>10, <1>11, <1>12, PutStep

\* The bytes that the client may send, or send again, and its FIN.
LEMMA SegmentOk ==
    ASSUME LinkInv, NEW c, ClientOk(c), c.state = "OPEN",
           NEW flags \in {{"ACK"}, {"FIN", "ACK"}}, NEW seq \in Nat, NEW n \in Nat,
           FirstByte <= seq, seq <= FinSeq,
           n > 0 => seq + n <= SentUpTo(c),
           "FIN" \in flags => seq + n = FinSeq /\ (n > 0 => FinSeq <= client.edge)
    PROVE  LET m == Message(c, flags, seq, n, <<>>)
           IN  m \in UpMsg /\ UpOk(m, c, Conns) /\ ~ IsSyn(m)
<1> DEFINE m == Message(c, flags, seq, n, <<>>)
<1>1. /\ m.seq = seq /\ m.ack = c.rcv /\ m.flags = flags /\ m.len = n /\ m.options = <<>>
      /\ m = [seq |-> m.seq, ack |-> m.ack, flags |-> m.flags, len |-> m.len, options |-> m.options]
  BY DEF Message
<1> HIDE DEF m
<1>2. /\ c.rcv \in Nat /\ c.nxt \in Nat /\ FirstByte \in Nat /\ FinSeq \in Nat
      /\ FinSeq = FirstByte + ToSend
      /\ ~ Asks(c) /\ ServerIss < c.rcv /\ SentUpTo(c) = min(c.nxt, FinSeq)
  BY ClientFacts
<1>3. ~ IsSyn(m) /\ (IsFin(m) <=> "FIN" \in flags)
  BY <1>1 DEF IsSyn, IsFin
<1>4. n \in 0 .. ToSend
  <2>1. n > 0 => seq + n <= FinSeq
    BY <1>2 DEF min
  <2> QED
    BY <1>2, <2>1, Sizes
<1>5. m \in UpMsg
  BY <1>1, <1>2, <1>4 DEF UpMsg
<1>6. ASSUME IsFin(m), m.len > 0, Receives(Conns) PROVE FinSeq <= Edge(Conns)
  <2>1. client.edge <= Edge(Conns)
    BY <1>6 DEF LinkInv, BlockOk, Receives, Connected
  <2>2. client.edge \in Nat /\ Edge(Conns) \in Nat
    BY InvFacts, ClientFacts DEF LinkInv
  <2>3. FinSeq <= client.edge
    BY <1>1, <1>3, <1>6
  <2> QED
    BY <1>2, <2>1, <2>2, <2>3
<1>7. UpOk(m, c, Conns)
  BY <1>1, <1>2, <1>3, <1>6 DEF UpOk
<1> QED
  BY <1>3, <1>5, <1>7 DEF m

\* New data of the client.
LEMMA SendDataStep ==
    ASSUME LinkInv, SendData
    PROVE  LinkInv'
<1>1. PICK n \in SegLens \ {0} :
        /\ client.nxt + n <= FinSeq
        /\ Put([client EXCEPT !.nxt = @ + n], Message(client, {"ACK"}, client.nxt, n, <<>>))
  BY DEF SendData
<1> DEFINE c == [client EXCEPT !.nxt = @ + n]
           m == Message(client, {"ACK"}, client.nxt, n, <<>>)
<1>2. ClientOk(client) /\ client.state = "OPEN" /\ client \in ClientType
  BY DEF SendData, LinkInv, ClientOk
<1>3. /\ client.una \in Nat /\ client.nxt \in Nat /\ client.una <= client.nxt
      /\ FirstByte \in Nat /\ FinSeq \in Nat /\ FirstByte <= client.nxt
      /\ ~ Asks(client) /\ SentUpTo(client) = min(client.nxt, FinSeq)
  BY <1>2, ClientFacts
<1>4. n \in Nat /\ n > 0
  <2>1. SegLens \subseteq Nat
    BY InputAssumption, Sizes
  <2> QED
    BY <2>1
<1>5. /\ c.state = "OPEN" /\ c.nxt = client.nxt + n /\ c.nxt \in Nat
      /\ c.una = client.una /\ c.rcv = client.rcv /\ c.edge = client.edge
      /\ c.mss = client.mss /\ c \in ClientType
  BY <1>2, <1>3, <1>4 DEF ClientType
<1>6. m = Message(c, {"ACK"}, client.nxt, n, <<>>)
  BY <1>5 DEF Message
<1> HIDE DEF c, m
<1>7. client.nxt <= c.nxt /\ c.nxt <= FinSeq /\ client.una <= c.nxt
  BY <1>1, <1>3, <1>4, <1>5
<1>8. c.nxt <= FinSeq + 1
  BY <1>3, <1>5, <1>7
<1>9. ClientOk(c) /\ ~ Asks(c)
  BY <1>2, <1>5, <1>7, <1>8 DEF ClientOk, Asks
<1>10. SentUpTo(client) <= SentUpTo(c) /\ SentUpTo(c) = c.nxt
  <2>1. SentUpTo(c) = min(c.nxt, FinSeq)
    BY <1>5, <1>9, ClientFacts
  <2> QED
    BY <1>3, <1>5, <1>7, <2>1 DEF min
<1>11. client.nxt <= FinSeq
  BY <1>3, <1>5, <1>7
<1>12. m \in UpMsg /\ UpOk(m, c, Conns) /\ ~ IsSyn(m)
  <2>1. "FIN" \notin {"ACK"} /\ client.nxt + n <= SentUpTo(c)
    BY <1>3, <1>4, <1>5, <1>10
  <2> QED
    BY <1>3, <1>4, <1>5, <1>6, <1>9, <1>11, <2>1, SegmentOk
<1>13. Put(c, m)
  BY <1>1 DEF c, m
<1> QED
  BY <1>2, <1>3, <1>5, <1>9, <1>10, <1>12, <1>13, PutStep

\* The FIN of the client, with the last data or alone.
LEMMA SendFinStep ==
    ASSUME LinkInv, SendFin
    PROVE  LinkInv'
<1>1. PICK n \in SegLens \cup {0} :
        /\ client.nxt + n = FinSeq /\ (n > 0 => WithData)
        /\ Put([client EXCEPT !.nxt = FinSeq + 1],
               Message(client, {"FIN", "ACK"}, client.nxt, n, <<>>))
  BY DEF SendFin
<1> DEFINE c == [client EXCEPT !.nxt = FinSeq + 1]
           m == Message(client, {"FIN", "ACK"}, client.nxt, n, <<>>)
<1>2. ClientOk(client) /\ client.state = "OPEN" /\ client \in ClientType
  BY DEF SendFin, LinkInv, ClientOk
<1>3. /\ client.una \in Nat /\ client.nxt \in Nat /\ client.una <= client.nxt
      /\ FirstByte \in Nat /\ FinSeq \in Nat /\ FirstByte <= client.nxt
      /\ ~ Asks(client) /\ SentUpTo(client) = min(client.nxt, FinSeq)
  BY <1>2, ClientFacts
<1>4. n \in Nat
  <2>1. SegLens \subseteq Nat
    BY InputAssumption, Sizes
  <2> QED
    BY <2>1
<1>5. /\ c.state = "OPEN" /\ c.nxt = FinSeq + 1 /\ c.nxt \in Nat
      /\ c.una = client.una /\ c.rcv = client.rcv /\ c.edge = client.edge
      /\ c.mss = client.mss /\ c \in ClientType
  BY <1>2, <1>3 DEF ClientType
<1>6. m = Message(c, {"FIN", "ACK"}, client.nxt, n, <<>>)
  BY <1>5 DEF Message
<1> HIDE DEF c, m
<1>7. client.nxt <= FinSeq /\ client.una <= c.nxt /\ c.nxt <= FinSeq + 1
  BY <1>1, <1>3, <1>4, <1>5
<1>8. ClientOk(c) /\ ~ Asks(c)
  BY <1>2, <1>5, <1>7 DEF ClientOk, Asks
<1>9. SentUpTo(client) <= SentUpTo(c) /\ SentUpTo(c) = FinSeq
  <2>1. SentUpTo(c) = min(c.nxt, FinSeq)
    BY <1>5, <1>8, ClientFacts
  <2> QED
    BY <1>3, <1>5, <1>7, <2>1 DEF min
<1>10. m \in UpMsg /\ UpOk(m, c, Conns) /\ ~ IsSyn(m)
  <2>1. /\ n > 0 => client.nxt + n <= SentUpTo(c)
        /\ client.nxt + n = FinSeq /\ (n > 0 => FinSeq <= client.edge)
    BY <1>1, <1>3, <1>9 DEF WithData
  <2> QED
    BY <1>3, <1>4, <1>5, <1>6, <1>7, <1>8, <2>1, SegmentOk
<1>11. Put(c, m)
  BY <1>1 DEF c, m
<1> QED
  BY <1>2, <1>3, <1>5, <1>8, <1>9, <1>10, <1>11, PutStep

\* The retransmission timer of the client.
LEMMA ResendStep ==
    ASSUME LinkInv, Resend
    PROVE  LinkInv'
<1>1. ClientOk(client) /\ client \in ClientType /\ client.una < client.nxt
      /\ client.state \in {"SYN_SENT", "OPEN"} /\ Unacknowledged
  BY DEF Resend, LinkInv, ClientOk
<1>2. /\ client.una \in Nat /\ client.nxt \in Nat /\ client.rcv \in Nat
      /\ FirstByte \in Nat /\ FinSeq \in Nat /\ SentUpTo(client) \in Nat
  BY <1>1, ClientFacts, InvFacts
<1>3. CASE client.state = "SYN_SENT"
  <2>1. PICK options \in SynOptions :
          /\ client.mss = Options!Announced(options, MssDefault)
          /\ Put(client, Message(client, {"SYN"}, ClientIss, 0, options))
    BY <1>1, <1>3 DEF Unacknowledged
  <2> DEFINE m == Message(client, {"SYN"}, ClientIss, 0, options)
  <2>2. /\ m.seq = ClientIss /\ m.ack = client.rcv /\ m.flags = {"SYN"} /\ m.len = 0
        /\ m.options = options /\ m \in UpMsg /\ IsSyn(m)
    <3>1. 0 \in 0 .. ToSend /\ ClientIss \in Nat
      BY Sizes
    <3> QED
      BY <1>2, <3>1 DEF Message, UpMsg, IsSyn
  <2>3. Put(client, m)
    BY <2>1
  <2> HIDE DEF m
  <2>4. Asks(client) /\ Conns.state \in {"FREE", "SYN_RECVD"}
    BY <1>3 DEF LinkInv, AskingOk, Asks
  <2>5. UpOk(m, client, Conns)
    BY <1>2, <1>3, <2>1, <2>2, <2>4 DEF UpOk
  <2>6. SentUpTo(client) <= SentUpTo(client)
    BY <1>2
  <2> QED
    BY <1>1, <2>2, <2>3, <2>4, <2>5, <2>6, PutStep
<1>4. CASE client.state = "OPEN" /\ client.una < FinSeq
  <2> DEFINE n == min(client.nxt, FinSeq) - client.una
  <2>1. PICK flags \in {{"ACK"}, {"FIN", "ACK"}} :
          /\ "FIN" \in flags => client.nxt > FinSeq /\ WithData
          /\ Put(client, Message(client, flags, client.una, n, <<>>))
    BY <1>1, <1>4 DEF Unacknowledged
  <2>2. SentUpTo(client) = min(client.nxt, FinSeq) /\ FirstByte <= client.una
    BY <1>1, <1>4, ClientFacts
  <2>3. /\ n \in Nat /\ n > 0 /\ client.una + n = SentUpTo(client)
        /\ client.nxt > FinSeq => client.una + n = FinSeq
    BY <1>1, <1>2, <1>4, <2>2 DEF min
  <2> DEFINE m == Message(client, flags, client.una, n, <<>>)
  <2> HIDE DEF n
  <2>4. m \in UpMsg /\ UpOk(m, client, Conns) /\ ~ IsSyn(m)
    <3>1. /\ client.una <= FinSeq /\ client.una + n <= SentUpTo(client)
          /\ "FIN" \in flags => client.una + n = FinSeq /\ FinSeq <= client.edge
      BY <1>2, <1>4, <2>1, <2>3 DEF WithData
    <3> QED
      BY <1>1, <1>2, <1>4, <2>2, <2>3, <3>1, SegmentOk
  <2>5. Put(client, m)
    BY <2>1
  <2> HIDE DEF m
  <2> QED
    BY <1>1, <1>2, <2>4, <2>5, PutStep
<1>5. CASE client.state = "OPEN" /\ ~ (client.una < FinSeq)
  <2> DEFINE m == Message(client, {"FIN", "ACK"}, FinSeq, 0, <<>>)
  <2>1. Put(client, m)
    BY <1>1, <1>5 DEF Unacknowledged
  <2>2. m \in UpMsg /\ UpOk(m, client, Conns) /\ ~ IsSyn(m)
    <3>1. FinSeq + 0 = FinSeq /\ ~ (0 > 0) /\ 0 \in Nat /\ FirstByte <= FinSeq /\ FinSeq <= FinSeq
      BY <1>1, <1>2, ClientFacts, Sizes
    <3> QED
      BY <1>1, <1>2, <1>5, <3>1, SegmentOk
  <2> HIDE DEF m
  <2> QED
    BY <1>1, <1>2, <2>1, <2>2, PutStep
<1> QED
  BY <1>1, <1>3, <1>4, <1>5

\* A step that leaves the client as it is.
LEMMA StaysStep ==
    ASSUME LinkInv, ClientSide, client' = client,
           up' \in Seq(UpMsg), SynsFirst(up'),
           NEW M, Elems(up') \subseteq Elems(up) \cup M, \A m \in M : UpOk(m, client, Conns),
           down' \in Seq(Departing), Elems(down') \subseteq Elems(down)
    PROVE  LinkInv'
<1>1. ClientOk(client) /\ client.rcv \in Nat /\ SentUpTo(client) \in Nat
  BY InvFacts, ClientFacts DEF LinkInv
<1>2. client.rcv <= client.rcv /\ SentUpTo(client) <= SentUpTo(client)
  BY <1>1
<1>3. Receives(Conns) => client.edge <= Edge(Conns)
  BY DEF LinkInv, BlockOk, Receives, Connected
<1>4. Conns.state \in Connected => min(client.una, FinSeq) <= FirstByte + Held
  BY DEF LinkInv, BlockOk
<1> QED
  BY <1>1, <1>2, <1>3, <1>4, ClientStep

\* The link loses or repeats the next segment: no promise is about how often
\* one arrives.
LEMMA LoseStep ==
    ASSUME LinkInv, Lose \/ Repeat
    PROVE  LinkInv'
<1>1. ClientSide /\ client' = client
  BY DEF Lose, Repeat, LinkSide
<1>2. /\ up \in Seq(UpMsg) /\ SynsFirst(up) /\ down \in Seq(Departing)
  BY DEF LinkInv, Queues
<1>3. /\ up' \in Seq(UpMsg) /\ SynsFirst(up') /\ Elems(up') \subseteq Elems(up)
      /\ down' \in Seq(Departing) /\ Elems(down') \subseteq Elems(down)
  <2>1. /\ \/ up' = up
           \/ up # <<>> /\ up' = Tail(up)
           \/ up # <<>> /\ up' = <<Head(up)>> \o up
        /\ \/ down' = down
           \/ down # <<>> /\ down' = Tail(down)
           \/ down # <<>> /\ down' = <<Head(down)>> \o down
    BY DEF Lose, Repeat
  <2>2. up' \in Seq(UpMsg) /\ SynsFirst(up') /\ Elems(up') \subseteq Elems(up)
    <3>1. CASE up' = up
      BY <1>2, <3>1
    <3>2. CASE up # <<>> /\ up' = Tail(up)
      BY <1>2, <3>2, HeadElems
    <3>3. CASE up # <<>> /\ up' = <<Head(up)>> \o up
      <4>1. /\ <<Head(up)>> \o up \in Seq(UpMsg) /\ Elems(<<Head(up)>> \o up) = Elems(up)
            /\ SynsFirst(<<Head(up)>> \o up)
        BY <1>2, <3>3, RepeatElems
      <4> QED
        BY <3>3, <4>1
    <3> QED
      BY <2>1, <3>1, <3>2, <3>3
  <2>3. down' \in Seq(Departing) /\ Elems(down') \subseteq Elems(down)
    <3>1. CASE down' = down
      BY <1>2, <3>1
    <3>2. CASE down # <<>> /\ down' = Tail(down)
      BY <1>2, <3>2, HeadElems
    <3>3. CASE down # <<>> /\ down' = <<Head(down)>> \o down
      <4>1. /\ <<Head(down)>> \o down \in Seq(Departing)
            /\ Elems(<<Head(down)>> \o down) = Elems(down)
        BY <1>2, <3>3, RepeatElems
      <4> QED
        BY <3>3, <4>1
    <3> QED
      BY <2>1, <3>1, <3>2, <3>3
  <2> QED
    BY <2>2, <2>3
<1> DEFINE M == {}
<1>4. Elems(up') \subseteq Elems(up) \cup M /\ \A m \in M : UpOk(m, client, Conns)
  BY <1>3
<1> HIDE DEF M
<1> QED
  BY <1>1, <1>3, <1>4, StaysStep

\* What arrives at the client: a segment that is as good as DownOk says.
LEMMA DownHead ==
    ASSUME LinkInv, down # <<>>
    PROVE  LET m == Head(down)
           IN  /\ DownOk(m, client, Conns, Held)
               /\ m.ack \in Nat /\ m.seq \in Nat /\ m.window \in Nat /\ Len(m.data) \in Nat
               /\ Tail(down) \in Seq(Departing) /\ Elems(Tail(down)) \subseteq Elems(down)
               /\ Asks(client) => Conns.state = "SYN_RECVD"
<1> DEFINE m == Head(down)
<1>1. down \in Seq(Departing) /\ \A e \in Elems(down) : DownOk(e, client, Conns, Held)
  BY DEF LinkInv, Queues
<1>2. /\ m \in Elems(down) /\ m \in Departing
      /\ Tail(down) \in Seq(Departing) /\ Elems(Tail(down)) \subseteq Elems(down)
  BY <1>1, HeadElems
<1> HIDE DEF m
<1>3. m.ack \in Nat /\ m.seq \in Nat /\ m.window \in Nat /\ Len(m.data) \in Nat
  BY <1>2, Sizes DEF Departing, SeqNum
<1>4. Asks(client) => Conns.state = "SYN_RECVD"
  BY DEF LinkInv, AskingOk
<1> QED
  BY <1>1, <1>2, <1>3, <1>4 DEF m

\* The client changes on a segment m, and may answer with an ACK.
LEMMA HeardStep ==
    ASSUME LinkInv, down # <<>>, ClientSide, down' = Tail(down),
           NEW c, c = client', ClientOk(c),
           client.rcv <= c.rcv, SentUpTo(client) <= SentUpTo(c),
           Asks(c) => Asks(client), c.state # "CLOSED", c.mss = client.mss,
           Receives(Conns) => c.edge <= Edge(Conns),
           Conns.state \in Connected => min(c.una, FinSeq) <= FirstByte + Held,
           \/ up' = up
           \/ c.state = "OPEN" /\ up' = Append(up, Ack(c))
    PROVE  LinkInv'
<1>1. up \in Seq(UpMsg) /\ SynsFirst(up)
  BY DEF LinkInv, Queues
<1>2. down' \in Seq(Departing) /\ Elems(down') \subseteq Elems(down)
      /\ (Asks(client) => Conns.state = "SYN_RECVD")
  BY DownHead
<1> DEFINE M == IF c.state = "OPEN" THEN {Ack(c)} ELSE {}
<1>3. \A m \in M : UpOk(m, c, Conns)
  BY AckOk
<1>4. up' \in Seq(UpMsg) /\ SynsFirst(up') /\ Elems(up') \subseteq Elems(up) \cup M
  <2>1. CASE up' = up
    BY <1>1, <2>1
  <2>2. CASE c.state = "OPEN" /\ up' = Append(up, Ack(c))
    <3>1. Ack(c) \in UpMsg /\ ~ IsSyn(Ack(c))
      BY <2>2, AckOk
    <3> QED
      BY <1>1, <2>2, <3>1, AppendElems
  <2> QED
    BY <2>1, <2>2
<1> HIDE DEF M
<1> QED
  BY <1>2, <1>3, <1>4, ClientStep

\* The client takes the SYN+ACK.
LEMMA OpensStep ==
    ASSUME LinkInv, ClientReceives, Opens(Head(down))
    PROVE  LinkInv'
<1> DEFINE m == Head(down)
<1>1. /\ down # <<>> /\ down' = Tail(down) /\ ClientSide
      /\ client.state = "SYN_SENT" /\ m.ack = client.nxt
  BY DEF ClientReceives, Opens
<1>2. /\ DownOk(m, client, Conns, Held) /\ Conns.state = "SYN_RECVD"
      /\ m.ack \in Nat /\ m.seq \in Nat /\ m.window \in Nat
  BY <1>1, DownHead DEF Asks
<1>3. ClientOk(client) /\ client \in ClientType /\ Asks(client)
      /\ client.nxt = FirstByte /\ client.una = ClientIss /\ client.rcv = 0
      /\ client.edge = 0 /\ client.state # "CLOSED"
  BY <1>1 DEF LinkInv, ClientOk, Asks
<1>4. /\ FirstByte \in Nat /\ FinSeq \in Nat /\ FinSeq = FirstByte + ToSend
      /\ FirstByte = ClientIss + 1 /\ ClientIss \in Nat /\ ToSend \in Nat
      /\ ServerIss \in Nat /\ Limit = ServerIss + ToWrite + 2 /\ ToWrite \in Nat
      /\ SentUpTo(client) = FirstByte /\ Held \in Nat
  <2>1. FinSeq = FirstByte + ToSend /\ FirstByte \in Nat /\ FinSeq \in Nat
    BY Sizes DEF FirstByte
  <2>2. SentUpTo(client) = FirstByte
    BY <1>3, <2>1, Sizes DEF SentUpTo, min
  <2> QED
    BY <2>1, <2>2, Sizes, InvFacts DEF FirstByte, Limit
<1>5. CASE m.flags = {"SYN", "ACK"}
  <2> DEFINE c == [client EXCEPT !.state = "OPEN", !.una = m.ack,
                                 !.rcv = m.seq + 1, !.edge = m.ack + m.window]
  <2>1. client' = c /\ up' = Append(up, Ack(c))
    BY <1>5 DEF Opens
  <2> HIDE DEF m
  <2>2. /\ c.state = "OPEN" /\ c.una = m.ack /\ c.rcv = m.seq + 1
        /\ c.edge = m.ack + m.window /\ c.nxt = client.nxt /\ c.mss = client.mss
        /\ c \in ClientType
    <3> DEFINE r == m.seq + 1
               e == m.ack + m.window
               c1 == [client EXCEPT !.state = "OPEN", !.una = m.ack]
    <3>1. r \in Nat /\ e \in Nat
      BY <1>2
    <3>2. /\ c1 \in ClientType /\ c1.state = "OPEN" /\ c1.una = m.ack
          /\ c1.nxt = client.nxt /\ c1.mss = client.mss
      BY <1>2, <1>3 DEF ClientType
    <3>3. c = [c1 EXCEPT !.rcv = r, !.edge = e]
      OBVIOUS
    <3> HIDE DEF c, c1, r, e
    <3>4. /\ c.state = "OPEN" /\ c.una = m.ack /\ c.rcv = r /\ c.edge = e
          /\ c.nxt = client.nxt /\ c.mss = client.mss /\ c \in ClientType
      BY <3>1, <3>2, <3>3 DEF ClientType
    <3> QED
      BY <3>4 DEF r, e
  <2> HIDE DEF c
  <2>3. ~ IsRst(m) /\ IsSyn(m) /\ "SYN" \in m.flags
    BY <1>5 DEF IsRst, IsSyn
  <2>4. m.seq = ServerIss /\ m.ack + m.window <= Edge(Conns)
    BY <1>2, <2>3 DEF DownOk, Receives
  <2>5. ClientOk(c) /\ ~ Asks(c)
    BY <1>1, <1>3, <1>4, <2>2, <2>4 DEF ClientOk, Asks
  <2>6. SentUpTo(client) <= SentUpTo(c)
    BY <1>3, <1>4, <2>2 DEF SentUpTo, min
  <2>7. min(c.una, FinSeq) <= FirstByte + Held
    BY <1>1, <1>3, <1>4, <2>2 DEF min
  <2>8. client.rcv <= c.rcv /\ c.state # "CLOSED"
    BY <1>2, <1>3, <2>2
  <2> QED
    BY <1>1, <2>1, <2>2, <2>4, <2>5, <2>6, <2>7, <2>8, HeardStep
<1>6. CASE "RST" \in m.flags /\ client' = [client EXCEPT !.state = "REFUSED"] /\ up' = up
  <2> DEFINE c == [client EXCEPT !.state = "REFUSED"]
  <2>1. /\ c.state = "REFUSED" /\ c.una = client.una /\ c.nxt = client.nxt
        /\ c.rcv = client.rcv /\ c.edge = client.edge /\ c.mss = client.mss
        /\ c \in ClientType
    BY <1>3 DEF ClientType
  <2>2. client' = c
    BY <1>6
  <2> HIDE DEF c, m
  <2>3. ClientOk(c) /\ ~ Asks(c)
    BY <1>3, <2>1 DEF ClientOk, Asks
  <2>4. SentUpTo(client) <= SentUpTo(c)
    BY <1>3, <1>4, <2>1 DEF SentUpTo, min
  <2>5. client.rcv <= c.rcv /\ c.state # "CLOSED"
    BY <1>3, <2>1
  <2>6. Receives(Conns) => c.edge <= Edge(Conns)
    BY <2>1 DEF LinkInv, BlockOk, Receives, Connected
  <2>7. min(c.una, FinSeq) <= FirstByte + Held
    BY <1>3, <1>4, <2>1 DEF min
  <2> QED
    BY <1>1, <1>6, <2>1, <2>2, <2>3, <2>4, <2>5, <2>6, <2>7, HeardStep
<1> QED
  BY <1>5, <1>6 DEF Opens

\* The client takes data, an ACK, a window, or the FIN.
LEMMA TakesStep ==
    ASSUME LinkInv, ClientReceives, Takes(Head(down))
    PROVE  LinkInv'
<1> DEFINE m    == Head(down)
           next == m.seq = client.rcv
           open == next /\ ~client.eof
           size == IF open THEN min(Len(m.data), ClientWin) ELSE 0
           eof  == open /\ "FIN" \in m.flags /\ size = Len(m.data)
           una  == IF client.una < m.ack /\ m.ack <= client.nxt THEN m.ack ELSE client.una
           edge == IF client.edge < m.ack + m.window THEN m.ack + m.window ELSE client.edge
           rcv  == client.rcv + size + (IF eof THEN 1 ELSE 0)
           c    == [client EXCEPT !.una = una, !.edge = edge, !.rcv = rcv,
                                  !.eof = client.eof \/ eof]
<1>1. /\ down # <<>> /\ down' = Tail(down) /\ ClientSide
      /\ client.state = "OPEN" /\ "RST" \notin m.flags
      /\ client' = c
      /\ up' = IF next /\ m.data = <<>> /\ ~eof THEN up ELSE Append(up, Ack(c))
  BY DEF ClientReceives, Takes
<1>2. /\ DownOk(m, client, Conns, Held) /\ ~ IsRst(m)
      /\ m.ack \in Nat /\ m.seq \in Nat /\ m.window \in Nat /\ Len(m.data) \in Nat
  BY <1>1, DownHead DEF IsRst
<1> HIDE DEF m
<1>3. /\ ClientOk(client) /\ client \in ClientType /\ ~ Asks(client)
      /\ client.una \in Nat /\ client.nxt \in Nat /\ client.rcv \in Nat /\ client.edge \in Nat
      /\ ClientIss <= client.una /\ client.una <= client.nxt /\ client.nxt <= FinSeq + 1
      /\ client.rcv <= Limit /\ FirstByte <= client.una /\ ServerIss < client.rcv
      /\ FirstByte \in Nat /\ FinSeq \in Nat /\ Limit \in Nat /\ SentUpTo(client) \in Nat
      /\ Held \in Nat /\ ServerIss \in Nat /\ ClientIss \in Nat /\ ClientWin \in Nat
  BY <1>1, InvFacts, ClientFacts, Sizes DEF LinkInv
<1>4. /\ una \in Nat /\ client.una <= una /\ una <= client.nxt
      /\ una = client.una \/ una = m.ack
  <2>1. /\ m.ack \in Nat /\ client.una \in Nat /\ client.nxt \in Nat
        /\ client.una <= client.nxt
    BY ONLY <1>2, <1>3
  <2>2. CASE client.una < m.ack /\ m.ack <= client.nxt
    BY ONLY <2>1, <2>2
  <2>3. CASE ~ (client.una < m.ack /\ m.ack <= client.nxt)
    BY ONLY <2>1, <2>3
  <2> QED
    BY ONLY <2>2, <2>3
<1>5. edge \in Nat /\ (edge = client.edge \/ edge = m.ack + m.window)
  <2>1. /\ m.ack \in Nat /\ m.window \in Nat /\ client.edge \in Nat
        /\ m.ack + m.window \in Nat
    <3>1. m.ack \in Nat /\ m.window \in Nat
      BY ONLY <1>2
    <3>2. client.edge \in Nat
      BY ONLY <1>3
    <3> QED
      BY ONLY <3>1, <3>2
  <2>2. edge = client.edge \/ edge = m.ack + m.window
    OBVIOUS
  <2> QED
    BY ONLY <2>1, <2>2
<1>6. rcv \in Nat /\ client.rcv <= rcv /\ rcv <= Limit
  <2>1. Control(m.flags) \in Nat /\ ("FIN" \in m.flags => Control(m.flags) = 1)
    BY DEF Control
  <2>2. m.seq + Len(m.data) + Control(m.flags) <= Limit
    BY <1>2 DEF DownOk
  <2>3. size \in Nat /\ (open => size <= Len(m.data))
    BY <1>2, <1>3 DEF min
  <2>4. eof => open /\ Control(m.flags) = 1
    BY <2>1
  <2>5. ~ open => size = 0
    OBVIOUS
  <2> DEFINE e == IF eof THEN 1 ELSE 0
             l == Len(m.data)
             f == Control(m.flags)
  <2>6. e \in {0, 1} /\ (eof <=> e = 1) /\ l \in Nat /\ f \in Nat
        /\ rcv = client.rcv + size + e /\ m.seq + l + f <= Limit
    BY <1>2, <2>1, <2>2
  <2>7. open => m.seq = client.rcv
    OBVIOUS
  <2>8. /\ open => size <= l
        /\ e = 1 => open /\ f = 1
    BY <2>3, <2>4, <2>6
  <2> HIDE DEF size, eof, next, open, e, l, f, rcv
  <2>9. CASE open
    <3>1. e <= f
      BY <2>6, <2>8
    <3>2. client.rcv + l + f <= Limit /\ size <= l
      BY <2>6, <2>7, <2>8, <2>9
    <3>3. client.rcv \in Nat /\ size \in Nat /\ e \in Nat /\ Limit \in Nat
      BY <1>3, <2>3, <2>6
    <3> QED
      BY <2>6, <3>1, <3>2, <3>3
  <2>10. CASE ~ open
    BY <1>3, <2>5, <2>6, <2>8, <2>10
  <2> QED
    BY <2>9, <2>10
<1>7. (client.eof \/ eof) \in BOOLEAN
  OBVIOUS
<1> DEFINE fin == client.eof \/ eof
<1>8. c = [client EXCEPT !.una = una, !.edge = edge, !.rcv = rcv, !.eof = fin]
  OBVIOUS
<1>9. up' = up \/ up' = Append(up, Ack(c))
  BY <1>1
<1>10. fin \in BOOLEAN /\ client' = c
  BY <1>1, <1>7
<1> HIDE DEF c, una, edge, rcv, fin, eof, size, open, next
<1>11. /\ c.state = "OPEN" /\ c.una = una /\ c.nxt = client.nxt /\ c.rcv = rcv
       /\ c.edge = edge /\ c.mss = client.mss /\ c \in ClientType
  <2> DEFINE c1 == [client EXCEPT !.una = una, !.edge = edge]
  <2>1. /\ c1 \in ClientType /\ c1.state = "OPEN" /\ c1.una = una /\ c1.nxt = client.nxt
        /\ c1.edge = edge /\ c1.mss = client.mss
    BY <1>1, <1>3, <1>4, <1>5 DEF ClientType
  <2>2. c = [c1 EXCEPT !.rcv = rcv, !.eof = fin]
    BY <1>8
  <2> HIDE DEF c1
  <2> QED
    BY <1>6, <1>10, <2>1, <2>2 DEF ClientType
<1>12. ClientOk(c) /\ ~ Asks(c)
  <2>1. ClientIss <= c.una /\ FirstByte <= c.una /\ ServerIss < c.rcv
    BY <1>3, <1>4, <1>6, <1>11
  <2> QED
    BY <1>3, <1>4, <1>6, <1>11, <2>1 DEF ClientOk, Asks
<1>13. SentUpTo(client) <= SentUpTo(c)
  <2>1. SentUpTo(client) = SentUpTo(c)
    BY <1>1, <1>11 DEF SentUpTo
  <2> QED
    BY <1>3, <2>1
<1>14. Receives(Conns) => c.edge <= Edge(Conns)
  <2>1. Receives(Conns) => client.edge <= Edge(Conns)
    BY DEF LinkInv, BlockOk, Receives, Connected
  <2>2. Receives(Conns) => m.ack + m.window <= Edge(Conns)
    BY <1>2 DEF DownOk
  <2> QED
    BY <1>5, <1>11, <2>1, <2>2
<1>15. Conns.state \in Connected => min(c.una, FinSeq) <= FirstByte + Held
  <2>1. Conns.state \in Connected => min(client.una, FinSeq) <= FirstByte + Held
    BY DEF LinkInv, BlockOk
  <2>2. Conns.state \in Connected => min(m.ack, FinSeq) <= FirstByte + Held
    BY <1>2 DEF DownOk
  <2> QED
    BY <1>4, <1>11, <2>1, <2>2
<1>16. c.state # "CLOSED"
  BY <1>11
<1> QED
  BY <1>1, <1>6, <1>9, <1>10, <1>11, <1>12, <1>13, <1>14, <1>15, <1>16, HeardStep

\* The client answers what it does not expect, or gives up on a reset.
LEMMA RejectsStep ==
    ASSUME LinkInv, ClientReceives, Rejects(Head(down))
    PROVE  LinkInv'
<1>1. /\ down # <<>> /\ down' = Tail(down) /\ ClientSide /\ client.state = "OPEN"
      /\ \/ client' = client /\ (up' = up \/ up' = Append(up, Ack(client)))
         \/ client' = [client EXCEPT !.state = "REFUSED"] /\ up' = up
  BY DEF ClientReceives, Rejects
<1>2. ClientOk(client) /\ client \in ClientType /\ client.rcv \in Nat /\ SentUpTo(client) \in Nat
  BY InvFacts, ClientFacts DEF LinkInv
<1>3. /\ Receives(Conns) => client.edge <= Edge(Conns)
      /\ Conns.state \in Connected => min(client.una, FinSeq) <= FirstByte + Held
  BY DEF LinkInv, BlockOk, Receives, Connected
<1> DEFINE c == client'
<1>4. /\ c.una = client.una /\ c.nxt = client.nxt /\ c.rcv = client.rcv
      /\ c.edge = client.edge /\ c.mss = client.mss /\ c \in ClientType
      /\ c.state \in {"OPEN", "REFUSED"}
  BY <1>1, <1>2 DEF ClientType
<1>5. \/ up' = up
      \/ c.state = "OPEN" /\ up' = Append(up, Ack(c))
  BY <1>1
<1>6. /\ c.state # "CLOSED" /\ ~ Asks(c)
      /\ SentUpTo(c) = SentUpTo(client)
  BY <1>1, <1>4 DEF Asks, SentUpTo
<1>7. ClientOk(c)
  BY <1>1, <1>2, <1>4, <1>6 DEF ClientOk, Asks
<1>8. client.rcv <= c.rcv /\ SentUpTo(client) <= SentUpTo(c)
  BY <1>2, <1>4, <1>6
<1>9. /\ Receives(Conns) => c.edge <= Edge(Conns)
      /\ Conns.state \in Connected => min(c.una, FinSeq) <= FirstByte + Held
  BY <1>3, <1>4
<1> QED
  BY <1>1, <1>4, <1>5, <1>6, <1>7, <1>8, <1>9, HeardStep

\* Whatever the client does with the next segment.
LEMMA ClientReceivesStep ==
    ASSUME LinkInv, ClientReceives
    PROVE  LinkInv'
<1>1. CASE Ignores(Head(down))
  <2>1. client' = client /\ up' = up /\ down # <<>> /\ down' = Tail(down) /\ ClientSide
    BY <1>1 DEF ClientReceives, Ignores
  <2> DEFINE M == {}
  <2>2. /\ up' \in Seq(UpMsg) /\ SynsFirst(up') /\ Elems(up') \subseteq Elems(up) \cup M
        /\ \A m \in M : UpOk(m, client, Conns)
        /\ down' \in Seq(Departing) /\ Elems(down') \subseteq Elems(down)
    BY <2>1, DownHead DEF LinkInv, Queues
  <2> HIDE DEF M
  <2> QED
    BY <2>1, <2>2, StaysStep
<1> QED
  BY <1>1, OpensStep, TakesStep, RejectsStep DEF ClientReceives
-----------------------------------------------------------------------------
(***************************************************************************)
(* The invariant holds from the start, and whatever happens.               *)
(***************************************************************************)
LEMMA LinkInitInv == LinkInit => LinkInv
<1> SUFFICES ASSUME LinkInit PROVE LinkInv
  OBVIOUS
<1>1. 0 \in SeqNum /\ 0 \in Index /\ 0 \in 0 .. BufSize /\ 0 \in Win
  BY Sizes, SizeAssumption DEF SeqNum, Index, Win
<1>2. ZeroBuf \in Buf
  BY <1>1 DEF ZeroBuf, Buf, Byte
<1>3. /\ ZeroTcb \in Tcb /\ ZeroTcb.state = "FREE" /\ ZeroTcb.rx_buf.data_count = 0
  BY <1>1, <1>2 DEF ZeroTcb, Tcb, TcpState, ZeroBuf
<1> DEFINE a == Allocated(ZeroTcb, ServerIss)
           l == [a EXCEPT !.state = "LISTEN", !.handler = Server, !.local_port = ServerPort]
<1>4. a \in Tcb /\ a.remote = NoPeer
  BY <1>3, AllocatedType, LinkAssumption
<1> HIDE DEF a
<1>5. l \in Tcb /\ l.state = "LISTEN" /\ l.remote = NoPeer /\ l.local_port = ServerPort
  <2> DEFINE l1 == [a EXCEPT !.state = "LISTEN", !.handler = Server]
  <2>1. l1 \in Tcb /\ l1.state = "LISTEN" /\ l1.remote = NoPeer
    BY <1>4, LinkAssumption DEF Tcb, TcpState
  <2>2. l = [l1 EXCEPT !.local_port = ServerPort]
    OBVIOUS
  <2> HIDE DEF l1, l
  <2> QED
    BY <2>1, <2>2, LinkAssumption DEF Tcb
<1>6. /\ tcp_socket = [s \in Slot |-> IF s = Conn THEN ZeroTcb ELSE l]
      /\ out = {} /\ event = {} /\ written = [s \in Slot |-> 0]
      /\ up = <<>> /\ down = <<>> /\ read = <<>>
      /\ client = [ state |-> "CLOSED", una |-> ClientIss, nxt |-> ClientIss,
                    rcv |-> 0, edge |-> 0, mss |-> MssDefault, eof |-> FALSE ]
  BY DEF LinkInit, a
<1> HIDE DEF l
<1>7. Conns = ZeroTcb /\ tcp_socket[Listener] = l
  BY <1>6, TwoSlots DEF Conns
<1>8. BlockInv(ZeroTcb) /\ BlockInv(l)
  BY <1>3, <1>5 DEF BlockInv, Connected
<1>9. IInv
  BY <1>1, <1>3, <1>5, <1>6, <1>8 DEF IInv
<1>10. Held = 0 /\ Len(read) = 0 /\ read \in Seq(Byte)
  BY <1>3, <1>6, <1>7 DEF Held
<1>11. Blocks(l, ZeroTcb)
  BY <1>3, <1>5 DEF Blocks, Connected
<1>12. ClientOk(client)
  BY <1>6, Sizes, SizeAssumption DEF ClientOk, ClientType, Asks, Limit, Win
<1>13. BlockOk(ZeroTcb, client, written[Conn], Held)
  BY <1>3 DEF BlockOk, Connected
<1>14. ReadOk(client, read, Held)
  <2>1. FirstByte \in Nat /\ FirstByte + 0 = FirstByte
    BY Sizes DEF FirstByte
  <2>2. Numbers(FirstByte, FirstByte) = <<>>
    BY <2>1 DEF Numbers
  <2>3. SentUpTo(client) = FirstByte
    BY <1>6 DEF SentUpTo
  <2> QED
    BY <1>6, <1>10, <2>1, <2>2, <2>3 DEF ReadOk
<1>15. AskingOk(client, ZeroTcb, down)
  BY <1>3, <1>6 DEF AskingOk
<1>16. Queues
  BY <1>6 DEF Queues, Elems, SynsFirst
<1> QED
  BY <1>7, <1>9, <1>11, <1>12, <1>13, <1>14, <1>15, <1>16 DEF LinkInv

\* Every step keeps the invariant.
LEMMA LinkNextKeeps == LinkInv /\ [LinkNext]_linkVars => LinkInv'
<1> SUFFICES ASSUME LinkInv, [LinkNext]_linkVars PROVE LinkInv'
  OBVIOUS
<1>1. CASE ServerReceives \/ AppWrites \/ AppReads \/ AppCloses
  BY <1>1, ReceivesKeeps, WriteStep, ReadStep, CloseStep
<1>2. CASE Connect \/ SendData \/ SendFin \/ Resend
  BY <1>2, ConnectStep, SendDataStep, SendFinStep, ResendStep
<1>3. CASE ClientReceives \/ Lose \/ Repeat
  BY <1>3, ClientReceivesStep, LoseStep
<1>4. CASE UNCHANGED linkVars
  <2>1. /\ tcp_socket' = tcp_socket /\ out' = out /\ event' = event /\ written' = written
        /\ client' = client /\ up' = up /\ down' = down /\ read' = read
    BY <1>4 DEF linkVars, vars
  <2>2. Conns' = Conns /\ Held' = Held
    BY <2>1 DEF Conns, Held
  <2>3. IInv' /\ Queues'
    BY <2>1, <2>2 DEF LinkInv, IInv, Queues
  <2> QED
    BY <2>1, <2>2, <2>3 DEF LinkInv
<1> QED
  BY <1>1, <1>2, <1>3, <1>4 DEF LinkNext

\* Hence it always holds.
LEMMA LinkInvariance == LinkSpec => []LinkInv
BY LinkInitInv, LinkNextKeeps, PTL DEF LinkSpec

\* Whatever the link loses or repeats, and whenever an end closes: the client
\* is told of no byte that the server has not stored (tcp_recv), and tx_buf
\* gives up no byte that has not arrived (xtcp_in, ESTABLISHED).
THEOREM NothingForgotten == LinkSpec => []AckedMeansReceived
<1>1. LinkInv => AckedMeansReceived
  <2> SUFFICES ASSUME LinkInv PROVE AckedMeansReceived
    OBVIOUS
  <2>1. BlockOk(Conns, client, written[Conn], Held)
    BY DEF LinkInv
  <2>2. ASSUME Live(Conn, Connected)
        PROVE  min(client.una, FinSeq) - (ClientIss + 1)
                  <= Len(read) + tcp_socket[Conn].rx_buf.data_count
    <3>1. min(client.una, FinSeq) <= FirstByte + Held
      BY <2>1, <2>2 DEF BlockOk, Live, Conns
    <3>2. /\ Held = Len(read) + tcp_socket[Conn].rx_buf.data_count /\ Held \in Nat
          /\ FirstByte = ClientIss + 1 /\ FirstByte \in Nat
      <4>1. FirstByte = ClientIss + 1 /\ FirstByte \in Nat
        BY Sizes DEF FirstByte
      <4>2. Held = Len(read) + Conns.rx_buf.data_count /\ Held \in Nat
        BY InvFacts
      <4> QED
        BY <4>1, <4>2 DEF Conns
    <3>3. min(client.una, FinSeq) \in Nat
      BY ClientFacts DEF LinkInv, min
    <3> QED
      BY <3>1, <3>2, <3>3
  <2>3. ASSUME Live(Conn, {"ESTABLISHED"})
        PROVE  tcp_socket[Conn].unacked_seq <= client.rcv
    BY <2>1, <2>3 DEF BlockOk, Live, Conns, Connected
  <2> QED
    BY <2>2, <2>3 DEF AckedMeansReceived
<1> QED
  BY <1>1, LinkInvariance, PTL

\* When tcp_read_mss finds the MSS in the options that the client sends, no
\* segment to the client is larger than the MSS allows (tcp_send).
LEMMA SegmentsFitIfRead == ParserReads => (LinkSpec => []MssRespected)
<1> SUFFICES ASSUME ParserReads PROVE LinkSpec => []MssRespected
  OBVIOUS
<1>1. LinkInv => MssRespected
  <2> SUFFICES ASSUME LinkInv, NEW i \in DOMAIN down
               PROVE  Len(down[i].data) <= client.mss
    BY DEF MssRespected
  <2>1. down[i] \in Elems(down)
    BY DEF Elems, LinkInv, Queues
  <2> QED
    BY <2>1 DEF LinkInv, Queues, DownOk
<1> QED
  BY <1>1, LinkInvariance, PTL
-----------------------------------------------------------------------------
(***************************************************************************)
(* The options of a SYN.                                                   *)
(***************************************************************************)
\* Induction: what fails for some number fails for a least one.
LEMMA NatMin ==
    ASSUME NEW T \in SUBSET Nat, T # {}
    PROVE  \E n \in T : \A m \in T : n <= m
<1> DEFINE R == OpToRel(<,Nat)
<1>1. IsWellFoundedOn(R, Nat)
  BY NatLessThanWellFounded
<1>2. PICK n \in T : \A m \in T : ~ (<<m, n>> \in R)
  <2> HIDE DEF R
  <2> QED
    BY <1>1, WFMin
<1>3. \A m \in T : m < n => <<m, n>> \in R
  BY DEF OpToRel
<1> HIDE DEF R
<1>4. \A m \in T : ~ (m < n)
  BY <1>2, <1>3
<1> QED
  BY <1>4

\* The bytes of a list, option by option.
LEMMA JoinedRound ==
    ASSUME NEW options \in Seq(Seq(Nat))
    PROVE  \A n \in 0 .. Len(options) :
             Options!Joined(options)[n]
               = IF n = 0 THEN <<>> ELSE Options!Joined(options)[n - 1] \o options[n]
<1> DEFINE Is(f, k) == f = [n \in 0 .. k |-> IF n = 0 THEN <<>> ELSE f[n - 1] \o options[n]]
           T == {k \in Nat : ~ \E f : Is(f, k)}
<1>1. ASSUME T # {} PROVE FALSE
  <2>1. PICK k \in T : \A m \in T : k <= m
    BY <1>1, NatMin
  <2>2. CASE k = 0
    <3>1. Is([n \in 0 .. 0 |-> <<>>], 0)
      OBVIOUS
    <3> QED
      BY <2>1, <2>2, <3>1
  <2>3. CASE k > 0
    <3>1. k - 1 \in Nat /\ k - 1 \notin T
      <4> HIDE DEF Is
      <4>1. k \in Nat
        OBVIOUS
      <4> HIDE DEF T
      <4> QED
        BY <2>1, <2>3, <4>1
    <3>2. PICK f : Is(f, k - 1)
      BY <3>1
    <3> DEFINE g == [n \in 0 .. k |-> IF n = k THEN f[k - 1] \o options[k] ELSE f[n]]
    <3>3. Is(g, k)
      <4>1. ASSUME NEW n \in 0 .. k
            PROVE  g[n] = IF n = 0 THEN <<>> ELSE g[n - 1] \o options[n]
        <5>1. CASE n = k
          <6>1. g[n] = f[k - 1] \o options[k]
            BY <5>1
          <6>2. n # 0 /\ n - 1 \in 0 .. k /\ n - 1 # k /\ n - 1 = k - 1
            BY <5>1, <2>3
          <6>3. g[n - 1] = f[k - 1]
            BY <6>2
          <6> HIDE DEF g
          <6> QED
            BY <5>1, <6>1, <6>2, <6>3
        <5>2. CASE n < k
          <6>1. n \in 0 .. k - 1
            BY <5>2
          <6>2. f[n] = IF n = 0 THEN <<>> ELSE f[n - 1] \o options[n]
            BY <6>1, <3>2
          <6>3. n # 0 => n - 1 \in 0 .. k /\ n - 1 # k
            BY <5>2
          <6> QED
            BY <6>2, <6>3, <5>2
        <5> QED
          BY <5>1, <5>2
      <4> QED
        BY <4>1
    <3> HIDE DEF g, Is
    <3> QED
      BY <2>1, <3>3
  <2> QED
    BY <2>1, <2>2, <2>3
<1>2. Len(options) \in Nat
  BY LenProperties
<1>3. \E f : Is(f, Len(options))
  BY <1>1, <1>2
<1>4. Is(Options!Joined(options), Len(options))
  BY <1>3 DEF Options!Joined
<1> HIDE DEF T
<1> QED
  BY <1>4

LEMMA JoinedType ==
    ASSUME NEW options \in Seq(Seq(Nat)), NEW k \in 0 .. Len(options)
    PROVE  Options!Joined(options)[k] \in Seq(Nat)
<1> DEFINE J == Options!Joined(options)
           T == {n \in Nat : n <= Len(options) /\ J[n] \notin Seq(Nat)}
<1>0. Len(options) \in Nat
  BY LenProperties
<1>1. ASSUME T # {} PROVE FALSE
  <2>1. PICK n \in T : \A m \in T : n <= m
    BY <1>1, NatMin
  <2>2. J[n] = IF n = 0 THEN <<>> ELSE J[n - 1] \o options[n]
    BY <1>0, <2>1, JoinedRound
  <2>a. n \in Nat /\ J[n] \notin Seq(Nat)
    OBVIOUS
  <2> HIDE DEF J
  <2>3. n > 0
    <3>1. <<>> \in Seq(Nat)
      OBVIOUS
    <3>2. ASSUME n = 0 PROVE FALSE
      BY <2>2, <2>a, <3>1, <3>2
    <3> QED
      BY <2>a, <3>2
  <2>4. n - 1 \in Nat /\ n - 1 <= Len(options) /\ n - 1 \notin T /\ n \in 1 .. Len(options)
    BY <1>0, <2>1, <2>3
  <2>5. options[n] \in Seq(Nat) /\ J[n - 1] \in Seq(Nat)
    BY <2>4, ElementOfSeq
  <2>6. J[n - 1] \o options[n] \in Seq(Nat)
    BY <2>5, ConcatProperties
  <2> HIDE DEF T
  <2> QED
    BY <2>a, <2>2, <2>3, <2>6
<1> QED
  BY <1>0, <1>1

\* What is joined stays at its place, whatever follows.
LEMMA JoinedKeeps ==
    ASSUME NEW options \in Seq(Seq(Nat)), NEW k \in 0 .. Len(options),
           NEW l \in 0 .. Len(options), k <= l
    PROVE  LET start == Options!Joined(options)[k]
               all   == Options!Joined(options)[l]
           IN  /\ Len(start) <= Len(all)
               /\ \A i \in 1 .. Len(start) : all[i] = start[i]
<1> DEFINE J == Options!Joined(options)
           Keeps(n) == Len(J[k]) <= Len(J[n]) /\ \A i \in 1 .. Len(J[k]) : J[n][i] = J[k][i]
           T == {n \in Nat : k <= n /\ n <= Len(options) /\ ~ Keeps(n)}
<1>0. Len(options) \in Nat /\ J[k] \in Seq(Nat) /\ Len(J[k]) \in Nat
  BY JoinedType, LenProperties
<1>1. ASSUME T # {} PROVE FALSE
  <2>1. PICK n \in T : \A m \in T : n <= m
    BY <1>1, NatMin
  <2>2. n # k
    BY <1>0, <2>1
  <2>3. n - 1 \in Nat /\ k <= n - 1 /\ n - 1 <= Len(options) /\ n \in 1 .. Len(options)
    BY <1>0, <2>1, <2>2
  <2>4. Keeps(n - 1)
    <3> HIDE DEF Keeps
    <3>1. n - 1 \notin T
      BY <2>1
    <3> QED
      BY <2>3, <3>1
  <2>5. J[n] = J[n - 1] \o options[n]
    <3>1. n \in 0 .. Len(options) /\ n # 0
      BY <1>0, <2>3
    <3>2. J[n] = IF n = 0 THEN <<>> ELSE J[n - 1] \o options[n]
      BY <3>1, JoinedRound
    <3> QED
      BY <3>1, <3>2
  <2>6. options[n] \in Seq(Nat) /\ J[n - 1] \in Seq(Nat)
    BY <1>0, <2>3, ElementOfSeq, JoinedType
  <2> HIDE DEF J
  <2>7. /\ Len(J[n]) = Len(J[n - 1]) + Len(options[n])
        /\ \A i \in 1 .. Len(J[n - 1]) : J[n][i] = J[n - 1][i]
        /\ Len(options[n]) \in Nat /\ Len(J[n - 1]) \in Nat
    <3> DEFINE a == J[n - 1]
               b == options[n]
    <3>1. a \in Seq(Nat) /\ b \in Seq(Nat) /\ J[n] = a \o b
      BY <2>5, <2>6
    <3> HIDE DEF a, b
    <3>2. /\ Len(J[n]) = Len(a) + Len(b) /\ Len(a) \in Nat /\ Len(b) \in Nat
          /\ \A i \in 1 .. Len(a) : J[n][i] = a[i]
      BY <3>1, LenProperties
    <3> QED
      BY <3>2 DEF a, b
  <2>8. Keeps(n)
    <3> DEFINE a == J[k]
               b == J[n - 1]
               c == J[n]
    <3>1. Len(a) \in Nat /\ Len(a) <= Len(b) /\ \A i \in 1 .. Len(a) : b[i] = a[i]
      BY <1>0, <2>4 DEF J
    <3>2. Len(b) \in Nat /\ Len(b) <= Len(c) /\ Len(c) \in Nat
          /\ \A i \in 1 .. Len(b) : c[i] = b[i]
      <4> DEFINE d == options[n]
      <4>1. /\ Len(c) = Len(b) + Len(d) /\ Len(d) \in Nat /\ Len(b) \in Nat
            /\ \A i \in 1 .. Len(b) : c[i] = b[i]
        BY <2>7
      <4> HIDE DEF b, c, d
      <4> QED
        BY <4>1
    <3> HIDE DEF a, b, c
    <3>3. Len(a) <= Len(c) /\ \A i \in 1 .. Len(a) : c[i] = a[i]
      BY <3>1, <3>2
    <3> QED
      BY <3>3 DEF a, c
  <2>9. ~ Keeps(n)
    BY <2>1
  <2> QED
    BY <2>8, <2>9
<1>2. l \in Nat /\ k <= l /\ l <= Len(options) /\ l \notin T
  <2> HIDE DEF T
  <2> QED
    BY <1>0, <1>1
<1>3. Keeps(l)
  <2> HIDE DEF Keeps
  <2> QED
    BY <1>2
<1> QED
  BY <1>3

\* The bytes of plain options are neither the end nor the kind of an MSS.
LEMMA JoinedPlain ==
    ASSUME NEW options \in Seq(Seq(Nat)), NEW k \in 0 .. Len(options),
           \A i \in 1 .. k : Options!Plain(options[i])
    PROVE  Options!Plain(Options!Joined(options)[k])
<1> DEFINE J == Options!Joined(options)
           T == {n \in Nat : n <= k /\ ~ Options!Plain(J[n])}
<1>0. Len(options) \in Nat
  BY LenProperties
<1>1. ASSUME T # {} PROVE FALSE
  <2>1. PICK n \in T : \A m \in T : n <= m
    BY <1>1, NatMin
  <2>2. n \in 0 .. Len(options)
    BY <1>0, <2>1
  <2>3. J[n] = IF n = 0 THEN <<>> ELSE J[n - 1] \o options[n]
    BY <2>2, JoinedRound
  <2>4. n # 0
    BY <2>1, <2>3 DEF Options!Plain
  <2>5. n - 1 \in Nat /\ n - 1 <= k /\ n - 1 \notin T /\ n \in 1 .. Len(options)
        /\ n - 1 \in 0 .. Len(options) /\ n \in 1 .. k
    BY <1>0, <2>1, <2>2, <2>4
  <2>6. /\ options[n] \in Seq(Nat) /\ J[n - 1] \in Seq(Nat)
        /\ Options!Plain(options[n]) /\ Options!Plain(J[n - 1])
    BY <2>5, ElementOfSeq, JoinedType
  <2> DEFINE a == J[n - 1]
             b == options[n]
  <2>7. J[n] = a \o b
    BY <2>3, <2>4
  <2> HIDE DEF J
  <2>8. a \in Seq(Nat) /\ b \in Seq(Nat) /\ Options!Plain(a) /\ Options!Plain(b)
    BY <2>6
  <2> HIDE DEF a, b
  <2>9. Options!Plain(a \o b)
    BY <2>8, LenProperties DEF Options!Plain
  <2> QED
    BY <2>1, <2>7, <2>9
<1> QED
  BY <1>0, <1>1

\* The loop: each byte, and what it goes on with.
LEMMA ReadRound ==
    ASSUME NEW bytes, Len(bytes) \in Nat, NEW default, NEW i \in 1 .. Len(bytes) + 2
    PROVE  Options!ReadFrom(bytes, default)[i]
             = IF i > Len(bytes) \/ bytes[i] = 0 THEN default
               ELSE IF bytes[i] # 2 THEN Options!ReadFrom(bytes, default)[i + 1]
               ELSE IF bytes[i + 1] # 4 THEN Options!ReadFrom(bytes, default)[i + 2]
               ELSE Options!Word(bytes[i + 2], bytes[i + 3])
<1> DEFINE L == Len(bytes)
           Value(f, j) == IF j > L \/ bytes[j] = 0 THEN default
                          ELSE IF bytes[j] # 2 THEN f[j + 1]
                          ELSE IF bytes[j + 1] # 4 THEN f[j + 2]
                          ELSE Options!Word(bytes[j + 2], bytes[j + 3])
           Is(f, k) == f = [j \in L + 3 - k .. L + 2 |-> Value(f, j)]
           T == {k \in Nat : k <= L + 2 /\ ~ \E f : Is(f, k)}
<1>1. ASSUME T # {} PROVE FALSE
  <2>1. PICK k \in T : \A m \in T : k <= m
    BY <1>1, NatMin
  <2>0. k \in Nat /\ k <= L + 2 /\ L \in Nat
    OBVIOUS
  <2>2. CASE k = 0
    <3>1. L + 3 - k .. L + 2 = {}
      BY <2>0, <2>2
    <3>2. Is([j \in {} |-> 0], k)
      BY <3>1
    <3> QED
      BY <2>1, <3>2
  <2>3. CASE k > 0
    <3>1. k - 1 \in Nat /\ k - 1 <= L + 2 /\ k - 1 \notin T
      <4> HIDE DEF T
      <4> QED
        BY <2>0, <2>1, <2>3
    <3>2. PICK f : Is(f, k - 1)
      <4> HIDE DEF Is
      <4> QED
        BY <3>1
    <3> DEFINE new == L + 3 - k
               g == [j \in new .. L + 2 |-> IF j = new THEN Value(f, j) ELSE f[j]]
    <3>3. new \in Nat /\ new \in new .. L + 2 /\ L + 3 - (k - 1) = new + 1
      BY <2>0, <2>3
    <3>4. f = [j \in new + 1 .. L + 2 |-> Value(f, j)]
      BY <3>2, <3>3
    <3> HIDE DEF new
    <3>5. \A j \in new + 1 .. L + 2 : g[j] = f[j]
      BY <3>3
    <3>6. ASSUME NEW j \in new .. L + 2 PROVE Value(g, j) = Value(f, j)
      <4>1. CASE j > L
        BY <4>1
      <4>2. CASE j <= L
        <5>1. j + 1 \in new + 1 .. L + 2 /\ j + 2 \in new + 1 .. L + 2
          BY <2>0, <3>3, <4>2
        <5>2. g[j + 1] = f[j + 1] /\ g[j + 2] = f[j + 2]
          BY <3>5, <5>1
        <5> HIDE DEF g
        <5> QED
          BY <5>2
      <4> QED
        BY <2>0, <3>3, <4>1, <4>2
    <3>7. ASSUME NEW j \in new .. L + 2 PROVE g[j] = Value(g, j)
      <4>1. CASE j = new
        <5> HIDE DEF Value
        <5>1. g[j] = Value(f, j)
          BY <4>1, <3>3
        <5> QED
          BY <5>1, <3>6
      <4>2. CASE j # new
        <5>1. j \in new + 1 .. L + 2
          BY <2>0, <3>3, <4>2
        <5> HIDE DEF Value
        <5>2. f[j] = Value(f, j)
          BY <3>4, <5>1
        <5> HIDE DEF g
        <5> QED
          BY <3>5, <3>6, <5>1, <5>2
      <4> QED
        BY <4>1, <4>2
    <3>8. g = [j \in new .. L + 2 |-> Value(g, j)]
      <4>1. g = [j \in new .. L + 2 |-> g[j]]
        OBVIOUS
      <4> HIDE DEF g, Value
      <4> QED
        BY <3>7, <4>1
    <3>9. Is(g, k)
      <4> HIDE DEF g, Value
      <4> QED
        BY <3>8 DEF new
    <3> HIDE DEF Is, g
    <3> QED
      BY <2>1, <3>9
  <2> QED
    BY <2>0, <2>2, <2>3
<1>2. \E f : Is(f, L + 2)
  <2> HIDE DEF Is
  <2>1. L + 2 \in Nat
    OBVIOUS
  <2> QED
    BY <1>1, <2>1
<1>3. PICK f : f = [j \in 1 .. L + 2 |-> Value(f, j)]
  <2>1. L + 3 - (L + 2) = 1
    OBVIOUS
  <2> QED
    BY <1>2, <2>1
<1>4. Options!ReadFrom(bytes, default)
        = [j \in 1 .. L + 2 |-> Value(Options!ReadFrom(bytes, default), j)]
  BY <1>3 DEF Options!ReadFrom, Options!KindEnd, Options!KindMss
<1> HIDE DEF Is, T
<1>5. Options!ReadFrom(bytes, default)[i] = Value(Options!ReadFrom(bytes, default), i)
  <2> HIDE DEF Value
  <2> QED
    BY <1>4
<1> QED
  BY <1>5

\* The loop passes plain bytes one by one.
LEMMA ReadSkips ==
    ASSUME NEW bytes, Len(bytes) \in Nat, NEW default, NEW p \in 0 .. Len(bytes),
           \A i \in 1 .. p : bytes[i] \notin {0, 2}
    PROVE  Options!tcp_read_mss(bytes, default)
             = Options!ReadFrom(bytes, default)[p + 1]
<1> DEFINE R == Options!ReadFrom(bytes, default)
           T == {n \in Nat : n <= p /\ R[n + 1] # R[1]}
<1>1. ASSUME T # {} PROVE FALSE
  <2>1. PICK n \in T : \A m \in T : n <= m
    BY <1>1, NatMin
  <2>2. n \in Nat /\ n <= p /\ R[n + 1] # R[1]
    OBVIOUS
  <2>3. n # 0
    BY <2>2
  <2>4. n - 1 \in Nat /\ n - 1 <= p /\ n - 1 \notin T /\ (n - 1) + 1 = n
    <3> HIDE DEF T
    <3> QED
      BY <2>1, <2>2, <2>3
  <2>5. R[n] = R[1]
    BY <2>4
  <2>6. n \in 1 .. Len(bytes) + 2 /\ ~ n > Len(bytes) /\ bytes[n] # 0 /\ bytes[n] # 2
    BY <2>2, <2>3
  <2>7. R[n] = R[n + 1]
    BY <2>6, ReadRound
  <2> QED
    BY <2>2, <2>5, <2>7
<1>2. p \in Nat /\ p \notin T
  <2> HIDE DEF T
  <2> QED
    BY <1>1
<1> QED
  BY <1>2 DEF Options!tcp_read_mss

\* tcp_read_mss finds the MSS of a readable list, or that there is none.
LEMMA ReadRight ==
    ASSUME NEW options, Options!Readable(options), NEW default
    PROVE  Options!tcp_read_mss(Options!Bytes(options), default)
             = Options!Announced(options, default)
<1> DEFINE J     == Options!Joined(options)
           n     == Len(options)
           bytes == J[n]
<1>1. /\ options \in Seq(Seq(Nat) \ {<<>>}) /\ options \in Seq(Seq(Nat))
      /\ n \in Nat /\ DOMAIN options = 1 .. n
      /\ \A i \in 1 .. n : options[i] \in Seq(Nat) /\ options[i] # <<>>
  <2>1. options \in Seq(Seq(Nat) \ {<<>>})
    BY DEF Options!Readable
  <2>2. n \in Nat /\ DOMAIN options = 1 .. n
        /\ \A i \in 1 .. n : options[i] \in Seq(Nat) \ {<<>>}
    BY <2>1, LenProperties, ElementOfSeq
  <2> QED
    BY <2>1, <2>2
<1>2. \A i \in 1 .. n : 1 \in DOMAIN options[i]
  BY <1>1
<1>3. bytes \in Seq(Nat) /\ Len(bytes) \in Nat
  BY <1>1, JoinedType, LenProperties
<1>4. CASE \A i \in DOMAIN options : Options!Plain(options[i])
  <2>1. Options!Plain(bytes)
    <3>1. \A i \in 1 .. n : Options!Plain(options[i])
      <4>1. DOMAIN options = 1 .. n
        BY <1>1
      <4> QED
        BY <1>4, <4>1
    <3>2. n \in 0 .. n
      <4>1. n \in Nat
        BY <1>1
      <4> HIDE DEF n
      <4> QED
        BY <4>1
    <3> QED
      BY <1>1, <3>1, <3>2, JoinedPlain
  <2>2. \A i \in 1 .. Len(bytes) : bytes[i] \notin {0, 2}
    BY <1>3, <2>1 DEF Options!Plain, Options!KindEnd, Options!KindMss
  <2>3. ~ \E i \in DOMAIN options : options[i][1] = 2
    BY <1>1, <1>2, <1>4 DEF Options!Plain, Options!KindMss
  <2> HIDE DEF bytes
  <2>4. Options!tcp_read_mss(bytes, default)
          = Options!ReadFrom(bytes, default)[Len(bytes) + 1]
    BY <1>3, <2>2, ReadSkips
  <2>5. Options!ReadFrom(bytes, default)[Len(bytes) + 1] = default
    BY <1>3, ReadRound
  <2> QED
    BY <2>3, <2>4, <2>5 DEF bytes, Options!Bytes, Options!Announced, Options!KindMss
<1>5. ASSUME NEW k \in DOMAIN options, Options!IsMss(options[k]),
             \A i \in 1 .. k - 1 : Options!Plain(options[i]),
             \A i \in DOMAIN options : options[i][1] = 2 => i = k
      PROVE  Options!tcp_read_mss(bytes, default) = Options!Announced(options, default)
  <2> DEFINE before == J[k - 1]
             mss    == options[k]
             p      == Len(before)
  <2>1. k \in 1 .. n /\ k - 1 \in 0 .. n /\ k \in 0 .. n /\ n \in 0 .. n /\ k <= n /\ k # 0
    BY <1>1
  <2>2. before \in Seq(Nat) /\ p \in Nat /\ mss \in Seq(Nat) /\ Len(mss) = 4
        /\ mss[1] = 2 /\ mss[2] = 4
    BY <1>1, <1>5, <2>1, JoinedType, LenProperties DEF Options!IsMss, Options!KindMss
  <2>3. J[k] = before \o mss
    <3>1. J[k] = IF k = 0 THEN <<>> ELSE J[k - 1] \o options[k]
      BY <1>1, <2>1, JoinedRound
    <3> QED
      BY <2>1, <3>1
  <2>4. Options!Plain(before)
    BY <1>1, <1>5, <2>1, JoinedPlain
  <2>5. Len(J[k]) <= Len(bytes) /\ \A i \in 1 .. Len(J[k]) : bytes[i] = J[k][i]
    BY <1>1, <2>1, JoinedKeeps
  <2>a. p = Len(before)
    OBVIOUS
  <2> HIDE DEF before, mss, bytes, p
  <2>6. /\ Len(J[k]) = p + 4
        /\ \A i \in 1 .. p : J[k][i] = before[i]
        /\ J[k][p + 1] = 2 /\ J[k][p + 2] = 4
        /\ J[k][p + 3] = mss[3] /\ J[k][p + 4] = mss[4]
    <3> DEFINE all == J[k]
    <3>1. all = before \o mss
      BY <2>3
    <3> HIDE DEF all
    <3>2. /\ Len(all) = p + 4
          /\ \A i \in 1 .. p + 4 : all[i] = IF i <= p THEN before[i] ELSE mss[i - p]
      <4>1. /\ Len(before \o mss) = Len(before) + Len(mss)
            /\ \A i \in 1 .. Len(before) + Len(mss) :
                 (before \o mss)[i] = IF i <= Len(before) THEN before[i]
                                      ELSE mss[i - Len(before)]
        BY <2>2, ConcatProperties
      <4>2. Len(before) = p /\ Len(mss) = 4
        BY <2>2, <2>a
      <4> QED
        BY <3>1, <4>1, <4>2
    <3>3. /\ \A i \in 1 .. p : all[i] = before[i]
          /\ all[p + 1] = mss[1] /\ all[p + 2] = mss[2]
          /\ all[p + 3] = mss[3] /\ all[p + 4] = mss[4]
      BY <2>2, <3>2
    <3> QED
      BY <2>2, <3>2, <3>3 DEF all
  <2> HIDE DEF J
  <2>7. /\ p + 4 <= Len(bytes)
        /\ \A i \in 1 .. p : bytes[i] \notin {0, 2}
        /\ bytes[p + 1] = 2 /\ bytes[p + 2] = 4
        /\ bytes[p + 3] = mss[3] /\ bytes[p + 4] = mss[4]
    <3>1. \A i \in 1 .. p : before[i] \notin {0, 2}
      BY <2>2, <2>4, <2>a DEF Options!Plain, Options!KindEnd, Options!KindMss
    <3>2. \A i \in 1 .. p + 4 : bytes[i] = J[k][i]
      BY <2>5, <2>6
    <3>3. p + 1 \in 1 .. p + 4 /\ p + 2 \in 1 .. p + 4 /\ p + 3 \in 1 .. p + 4
          /\ p + 4 \in 1 .. p + 4 /\ \A i \in 1 .. p : i \in 1 .. p + 4
      BY <2>2
    <3> QED
      BY <2>5, <2>6, <3>1, <3>2, <3>3
  <2>8. Options!tcp_read_mss(bytes, default) = Options!ReadFrom(bytes, default)[p + 1]
    <3>1. bytes \in Seq(Nat) /\ Len(bytes) \in Nat
      BY <1>3 DEF bytes
    <3>2. p \in 0 .. Len(bytes)
      BY <2>2, <2>7, <3>1
    <3> QED
      BY <2>7, <3>1, <3>2, ReadSkips
  <2>9. Options!ReadFrom(bytes, default)[p + 1] = Options!Word(mss[3], mss[4])
    <3>0. bytes \in Seq(Nat) /\ Len(bytes) \in Nat
      BY <1>3 DEF bytes
    <3>1. p + 1 \in 1 .. Len(bytes) + 2 /\ ~ (p + 1 > Len(bytes))
          /\ (p + 1) + 1 = p + 2 /\ (p + 1) + 2 = p + 3 /\ (p + 1) + 3 = p + 4
      <4> DEFINE size == Len(bytes)
      <4>1. p \in Nat /\ size \in Nat /\ p + 4 <= size
        BY <2>2, <2>7, <3>0
      <4> HIDE DEF size
      <4>2. p + 1 \in 1 .. size + 2 /\ ~ (p + 1 > size)
            /\ (p + 1) + 1 = p + 2 /\ (p + 1) + 2 = p + 3 /\ (p + 1) + 3 = p + 4
        BY <4>1
      <4> QED
        BY <4>2 DEF size
    <3> DEFINE next == p + 1
    <3>2. /\ next \in 1 .. Len(bytes) + 2 /\ ~ (next > Len(bytes))
          /\ bytes[next] = 2 /\ bytes[next + 1] = 4
          /\ bytes[next + 2] = mss[3] /\ bytes[next + 3] = mss[4]
      BY <2>7, <3>1
    <3> HIDE DEF next
    <3>3. Options!ReadFrom(bytes, default)[next] = Options!Word(mss[3], mss[4])
      <4> DEFINE R == Options!ReadFrom(bytes, default)
      <4>0. next \in 1 .. Len(bytes) + 2 /\ Len(bytes) \in Nat
        BY <3>0, <3>2
      <4>1. R[next] = IF next > Len(bytes) \/ bytes[next] = 0 THEN default
                      ELSE IF bytes[next] # 2 THEN R[next + 1]
                      ELSE IF bytes[next + 1] # 4 THEN R[next + 2]
                      ELSE Options!Word(bytes[next + 2], bytes[next + 3])
        BY <4>0, ReadRound, Zenon
      <4> HIDE DEF R
      <4>2. R[next] = Options!Word(bytes[next + 2], bytes[next + 3])
        BY <3>2, <4>1
      <4> QED
        BY <3>2, <4>2 DEF R
    <3> QED
      BY <3>3 DEF next
  <2>10. Options!Announced(options, default) = Options!Word(mss[3], mss[4])
    <3>1. options[k][1] = 2 /\ k \in DOMAIN options
      BY <2>2 DEF mss
    <3>2. (CHOOSE i \in DOMAIN options : options[i][1] = 2) = k
      BY <1>5, <3>1
    <3> QED
      BY <3>1, <3>2 DEF mss, Options!Announced, Options!KindMss
  <2> QED
    BY <2>8, <2>9, <2>10
<1> QED
  BY <1>4, <1>5 DEF Options!Readable, Options!Bytes, Options!KindMss

\* If the lists of the client are readable, no segment to it is larger than
\* the MSS it has announced: tcp_read_mss finds the MSS whatever its value and
\* whatever options stand behind it, and tcp_send keeps to it.
THEOREM SegmentsFit ==
    (\A options \in SynOptions : Options!Readable(options)) => (LinkSpec => []MssRespected)
<1> SUFFICES ASSUME \A options \in SynOptions : Options!Readable(options)
             PROVE  ParserReads
  BY SegmentsFitIfRead
<1> SUFFICES ASSUME NEW options \in SynOptions \cup {<<>>}
             PROVE  Options!Readable(options)
  BY ReadRight DEF ParserReads
<1>1. Options!Readable(<<>>)
  <2>1. <<>> \in Seq(Seq(Nat) \ {<<>>}) /\ DOMAIN <<>> = {}
    OBVIOUS
  <2> QED
    BY <2>1 DEF Options!Readable
<1> QED
  BY <1>1
-----------------------------------------------------------------------------
(***************************************************************************)
(* The application reads the stream that the client sends.                 *)
(***************************************************************************)
\* The numbers up to a are the beginning of those up to b.
LEMMA NumbersPrefix ==
    ASSUME NEW f \in Nat, NEW a \in Nat, NEW b \in Nat, a <= b
    PROVE  LET s == Numbers(f, a)
               t == Numbers(f, b)
           IN  /\ Len(s) <= Len(t)
               /\ SubSeq(s, 1, Len(s)) = SubSeq(t, 1, Len(s))
<1> DEFINE m == IF a < f THEN 0 ELSE a - f
           n == IF b < f THEN 0 ELSE b - f
           s == [i \in 1 .. m |-> f + i - 1]
           t == [i \in 1 .. n |-> f + i - 1]
<1>1. m \in Nat /\ n \in Nat /\ m <= n
  OBVIOUS
<1>2. Numbers(f, a) = s /\ Numbers(f, b) = t
  <2>1. 1 .. a - f = 1 .. m /\ 1 .. b - f = 1 .. n
    OBVIOUS
  <2> QED
    BY <2>1 DEF Numbers
<1> HIDE DEF m, n
<1>3. s \in Seq(Int) /\ t \in Seq(Int) /\ Len(s) = m /\ Len(t) = n
  BY <1>1
<1>4. /\ \A i \in 1 .. m : s[i] = t[i]
  BY <1>1
<1> HIDE DEF s, t
<1>5. SubSeq(s, 1, m) = [i \in 1 .. m |-> s[i]] /\ SubSeq(t, 1, m) = [i \in 1 .. m |-> t[i]]
  BY <1>1, <1>3
<1>6. SubSeq(s, 1, m) = SubSeq(t, 1, m)
  BY <1>4, <1>5
<1> QED
  BY <1>1, <1>2, <1>3, <1>6

\* What is read is the beginning of what the client has sent.
ReadFacts ==
    /\ FirstByte \in Nat /\ Len(read) \in Nat /\ SentUpTo(client) \in Nat
    /\ FirstByte + Len(read) \in Nat /\ FirstByte + Len(read) <= SentUpTo(client)
    /\ read = Numbers(FirstByte, FirstByte + Len(read))

\* The invariant says so.
LEMMA SentFacts == LinkInv => ReadFacts
<1> SUFFICES ASSUME LinkInv PROVE ReadFacts
  OBVIOUS
<1>1. /\ Len(read) \in Nat /\ Held \in Nat /\ SentUpTo(client) \in Nat
      /\ Held = Len(read) + Conns.rx_buf.data_count
      /\ Conns.rx_buf.data_count \in 0 .. BufSize
  BY InvFacts
<1>2. FirstByte \in Nat
  BY Sizes DEF FirstByte
<1>3. FirstByte + Held <= SentUpTo(client) /\ read = Numbers(FirstByte, FirstByte + Len(read))
  BY DEF LinkInv, ReadOk
<1>4. Len(read) <= Held
  BY <1>1, Sizes
<1> QED
  BY <1>1, <1>2, <1>3, <1>4 DEF ReadFacts

\* A step adds to what the client has sent, or to what is read, or to neither.
LEMMA StreamStep ==
    ASSUME LinkInv, LinkInv', LinkNext
    PROVE  \/ read' = read /\ SentUpTo(client) <= SentUpTo(client')
           \/ client' = client /\ Len(read) <= Len(read')
<1>1. /\ client.nxt \in Nat /\ client.una \in Nat /\ client.nxt <= FinSeq + 1
      /\ client'.nxt \in Nat /\ FirstByte \in Nat /\ FinSeq \in Nat
      /\ client \in ClientType
      /\ SentUpTo(client) \in Nat
      /\ client.state = "SYN_SENT" => client.nxt = FirstByte
      /\ FirstByte <= FinSeq
  <2>1. ClientOk(client)
    BY DEF LinkInv
  <2>2. client' \in ClientType
    BY DEF LinkInv, ClientOk
  <2>3. client'.nxt \in Nat
    BY <2>2 DEF ClientType
  <2>4. FirstByte <= FinSeq
    BY Sizes DEF FirstByte
  <2> QED
    BY <2>1, <2>3, <2>4, InvFacts, ClientFacts DEF ClientOk
<1>2. CASE ServerReceives \/ AppWrites \/ AppCloses
  BY <1>1, <1>2 DEF ServerReceives, AppWrites, AppCloses, ServerSide
<1>3. CASE AppReads
  <2>1. PICK size \in ReadSizes :
          /\ xtcp_read(Conn, size)
          /\ read' = read \o [i \in 1 .. ReadSize(Conns.rx_buf, size) |-> Unread(Conns.rx_buf, i - 1)]
    BY <1>3 DEF AppReads, Conns
  <2> DEFINE n == ReadSize(Conns.rx_buf, size)
             s == [i \in 1 .. n |-> Unread(Conns.rx_buf, i - 1)]
  <2>2. n \in Nat
    <3>1. \A x \in 0 .. BufSize : x \in Nat
      BY Sizes
    <3>2. size \in Nat /\ Conns.rx_buf.data_count \in Nat
      BY <3>1, InvFacts, InputAssumption
    <3> QED
      BY <3>2, MinBound DEF ReadSize
  <2>3. client' = client /\ read' = read \o s /\ read \in Seq(Byte)
    BY <1>3, <2>1 DEF AppReads, ServerSide, LinkInv, ReadOk
  <2>4. \A i \in 1 .. n : Unread(Conns.rx_buf, i - 1) \in Byte
    <3> SUFFICES ASSUME NEW i \in 1 .. n PROVE Unread(Conns.rx_buf, i - 1) \in Byte
      OBVIOUS
    <3>1. n <= Conns.rx_buf.data_count /\ Conns.rx_buf.data_count \in Nat
      <4>1. \A x \in 0 .. BufSize : x \in Nat
        BY Sizes
      <4>2. size \in Nat /\ Conns.rx_buf.data_count \in Nat
        BY <4>1, InvFacts, InputAssumption
      <4> QED
        BY <4>2, MinBound DEF ReadSize
    <3> HIDE DEF n
    <3>2. i - 1 \in 0 .. Conns.rx_buf.data_count - 1 /\ Conns.state \in Connected
      BY <2>1, <2>2, <3>1 DEF xtcp_read, Conns
    <3> QED
      BY <3>2, UnreadBytes
  <2> HIDE DEF n
  <2>5. s \in Seq(Byte) /\ Len(s) = n
    BY <2>2, <2>4
  <2> HIDE DEF s
  <2>6. Len(read \o s) = Len(read) + Len(s)
    <3>1. read \in Seq(Byte) /\ s \in Seq(Byte)
      BY <2>3, <2>5
    <3> QED
      BY ONLY <3>1, ConcatProperties
  <2>7. Len(read) \in Nat
    BY <2>3
  <2> QED
    BY <2>2, <2>3, <2>5, <2>6, <2>7
<1>4. CASE /\ read' = read
           /\ client.nxt <= client'.nxt
           /\ client'.state = "CLOSED" => client.state = "CLOSED"
           /\ client.state = "CLOSED" /\ client'.state # "CLOSED" => client'.nxt = FirstByte
  BY <1>1, <1>4, Sizes DEF SentUpTo, min
<1>5. CASE Connect
  <2>1. client'.nxt = FirstByte /\ client'.state = "SYN_SENT" /\ read' = read
        /\ client.state = "CLOSED"
    BY <1>1, <1>5 DEF Connect, Put, ClientSide, FirstByte, ClientType
  <2> QED
    BY <1>1, <2>1, Sizes DEF SentUpTo, min
<1>6. CASE SendData
  <2>1. PICK n \in SegLens : client' = [client EXCEPT !.nxt = @ + n] /\ read' = read
    BY <1>6 DEF SendData, Put, ClientSide
  <2>2. n \in Nat
    BY InputAssumption, Sizes
  <2>3. client'.nxt = client.nxt + n /\ client'.state = client.state
    BY <1>1, <2>1 DEF ClientType
  <2> QED
    BY <1>1, <1>4, <2>1, <2>2, <2>3
<1>7. CASE SendFin
  <2>1. client' = [client EXCEPT !.nxt = FinSeq + 1] /\ read' = read
    BY <1>7 DEF SendFin, Put, ClientSide
  <2>2. client'.nxt = FinSeq + 1 /\ client'.state = client.state
    BY <1>1, <2>1 DEF ClientType
  <2> QED
    BY <1>1, <1>4, <2>1, <2>2
<1>8. CASE Resend
  <2>1. client' = client /\ read' = read
    BY <1>8 DEF Resend, Unacknowledged, Put, ClientSide
  <2> QED
    BY <1>1, <2>1
<1>9. CASE ClientReceives
  <2>1. /\ read' = read /\ client'.nxt = client.nxt
        /\ client'.state = "CLOSED" => client.state = "CLOSED"
        /\ client.state = "CLOSED" => client'.state = "CLOSED"
    <3>1. CASE Opens(Head(down))
      BY <1>1, <1>9, <3>1 DEF ClientReceives, ClientSide, Opens, ClientType
    <3>2. CASE Takes(Head(down))
      BY <1>1, <1>9, <3>2 DEF ClientReceives, ClientSide, Takes, ClientType
    <3>3. CASE Rejects(Head(down))
      BY <1>1, <1>9, <3>3 DEF ClientReceives, ClientSide, Rejects, ClientType
    <3>4. CASE Ignores(Head(down))
      BY <1>9, <3>4 DEF ClientReceives, ClientSide, Ignores
    <3> QED
      BY <1>9, <3>1, <3>2, <3>3, <3>4 DEF ClientReceives
  <2> QED
    BY <1>1, <1>4, <2>1
<1>10. CASE Lose \/ Repeat
  BY <1>1, <1>10 DEF Lose, Repeat, LinkSide, ClientSide
<1> QED
  BY <1>2, <1>3, <1>5, <1>6, <1>7, <1>8, <1>9, <1>10 DEF LinkNext

\* The application reads the stream of the client as it was sent, in order
\* and without a gap, whatever is lost, repeated or sent again (xtcp_in,
\* tcp_recv, xtcp_read): TcpLink implements ByteStream.
THEOREM ReadAsSent == LinkSpec => InStream
<1>1. LinkInv => InSent = Numbers(FirstByte, SentUpTo(client))
  BY DEF InSent, SentUpTo, FirstByte
<1>2. LinkInit => Inward!Init
  <2> SUFFICES ASSUME LinkInit PROVE InSent = <<>> /\ read = <<>>
    BY DEF Inward!Init
  <2>1. (ClientIss + 1) - (ClientIss + 1) = 0
    BY Sizes
  <2>2. Numbers(ClientIss + 1, ClientIss + 1) = <<>>
    BY <2>1 DEF Numbers
  <2> QED
    BY <2>2 DEF LinkInit, InSent
<1>3. /\ LinkInv /\ LinkInv' /\ ReadFacts /\ ReadFacts' /\ [LinkNext]_linkVars
        => [Inward!Send \/ Inward!Receive]_<<InSent, read>>
  <2> SUFFICES ASSUME LinkInv, LinkInv', ReadFacts, ReadFacts', LinkNext
               PROVE  [Inward!Send \/ Inward!Receive]_<<InSent, read>>
    BY DEF linkVars, InSent
  <2>1. /\ InSent = Numbers(FirstByte, SentUpTo(client))
        /\ InSent' = Numbers(FirstByte, SentUpTo(client'))
    BY DEF InSent, SentUpTo, FirstByte
  <2>2. CASE read' = read /\ SentUpTo(client) <= SentUpTo(client')
    <3>1. FirstByte \in Nat /\ SentUpTo(client) \in Nat
      BY DEF ReadFacts
    <3>2. SentUpTo(client') \in Nat
      BY DEF ReadFacts
    <3> QED
      BY <2>1, <2>2, <3>1, <3>2, NumbersPrefix DEF Inward!Send, Inward!IsPrefix
  <2>3. CASE client' = client /\ Len(read) <= Len(read')
    <3> DEFINE a == FirstByte + Len(read)
               b == FirstByte + Len(read')
               e == SentUpTo(client')
    <3>1. read = Numbers(FirstByte, a) /\ a \in Nat /\ FirstByte \in Nat
      BY DEF ReadFacts
    <3>2. read' = Numbers(FirstByte, b) /\ b \in Nat /\ e \in Nat /\ b <= e
      BY DEF ReadFacts
    <3>3. a <= b
      BY <2>3 DEF ReadFacts
    <3>4. InSent = Numbers(FirstByte, e) /\ InSent' = InSent
      BY <2>1, <2>3
    <3> HIDE DEF a, b, e
    <3>5. Inward!IsPrefix(read, read')
      BY <3>1, <3>2, <3>3, NumbersPrefix DEF Inward!IsPrefix
    <3>6. Inward!IsPrefix(read', InSent)
      BY <3>1, <3>2, <3>4, NumbersPrefix DEF Inward!IsPrefix
    <3> QED
      BY <3>4, <3>5, <3>6 DEF Inward!Receive
  <2> QED
    BY <2>2, <2>3, StreamStep
<1> QED
  BY <1>2, <1>3, LinkInvariance, SentFacts, PTL DEF LinkSpec, InStream, Inward!Spec
-----------------------------------------------------------------------------
(***************************************************************************)
(* The client receives the stream that the application writes.  Behind x,  *)
(* the number of the next byte that tcp_send will send, nothing has been   *)
(* sent but the FIN; whatever is under way to the client lies before x,    *)
(* and so does what the client has taken.                                  *)
(***************************************************************************)
Base == ServerIss + 1

\* Behind the last byte that the client has taken.
Position(c) == c.rcv - (IF c.eof THEN 1 ELSE 0)

\* A segment to the client carries its piece of the stream and, once the
\* server has sent its FIN, the FIN behind the last one.  (In FIN_WAIT_2 the
\* code may send an ACK with bytes behind its FIN, which no client takes.)
OutMsg(m, x, t) == ~ IsRst(m) =>
    \/ /\ m.data = Numbers(m.seq, m.seq + Len(m.data))
       /\ m.seq + Len(m.data) <= x
       /\ IsSyn(m) => m.seq = ServerIss /\ Base <= x
       /\ IsFin(m) => ~ Receives(t) /\ m.seq + Len(m.data) = x
    \/ m.seq = x + 1 /\ ~ IsSyn(m) /\ ~ IsFin(m) /\ ~ Receives(t)

\* What the client has, of what was sent up to x.
OutGot(x, t, c, w, g) ==
    /\ Asks(c) => c.rcv = 0 /\ ~ c.eof /\ (t.state = "FREE" => w = 0)
    /\ IF c.eof THEN c.rcv = x + 1 /\ ~ Receives(t) ELSE c.rcv <= x
    /\ g = Numbers(Base, Position(c))

\* The stream between the block t, which goes on behind w, and the client c;
\* d is under way.
OutAt(x, t, c, w, d, g) ==
    /\ x \in Nat /\ x <= w
    /\ t.state \in Connected => t.next_seq = x + FinSent(t)
    /\ OutGot(x, t, c, w, g)
    /\ \A m \in Elems(d) : OutMsg(m, x, t)

OutInv == \E x : OutAt(x, Conns, client, written[Conn], down, got)

\* The application writes, or the client takes bytes, or neither.
OutMoves == \/ got' = got /\ written[Conn] <= written'[Conn]
            \/ written' = written /\ Position(client) <= Position(client')

\* A step of the server or of the application keeps the streams of its blocks.
LEMMA LinkStreams == LinkInv /\ StreamInv /\ [LinkNext]_linkVars => StreamInv'
<1> SUFFICES ASSUME LinkInv, StreamInv, [LinkNext]_linkVars PROVE StreamInv'
  OBVIOUS
<1>1. IInv /\ Conn \in Slot
  BY TwoSlots DEF LinkInv
<1>2. CASE ServerReceives
  BY <1>1, <1>2, HeadArrives, SegmentStreams DEF ServerReceives
<1>3. CASE AppWrites
  BY <1>1, <1>3, WriteStreams DEF AppWrites
<1>4. CASE AppReads
  BY <1>1, <1>4, ReadStreams DEF AppReads
<1>5. CASE AppCloses
  BY <1>1, <1>5, CloseStreams, HandleStreams DEF AppCloses, xtcp_close
<1>6. CASE tcp_socket' = tcp_socket /\ written' = written
  BY <1>6 DEF StreamInv
<1>7. CASE Connect \/ SendData \/ SendFin \/ Resend \/ ClientReceives \/ Lose \/ Repeat
  BY <1>6, <1>7 DEF Connect, SendData, SendFin, Resend, Unacknowledged, Put,
                    ClientReceives, Lose, Repeat, LinkSide, ClientSide
<1>8. CASE UNCHANGED linkVars
  BY <1>6, <1>8 DEF linkVars, vars
<1> QED
  BY <1>2, <1>3, <1>4, <1>5, <1>7, <1>8 DEF LinkNext

\* At first no block carries one.
LEMMA LinkInitStreams == LinkInit => StreamInv
<1> SUFFICES ASSUME LinkInit, NEW s \in Slot PROVE BlockStreams(tcp_socket[s], written[s])
  BY DEF StreamInv
<1>1. tcp_socket[Listener].state = "LISTEN" /\ tcp_socket[Conn].state = "FREE"
  BY LinkInitInv, TwoSlots DEF LinkInv, Blocks, LinkInit, ZeroTcb
<1>2. tcp_socket[s].state \notin Streaming
  BY <1>1, TwoSlots DEF Streaming
<1> QED
  BY <1>2, NoStream

\* What a step of the server has to show: y is the number behind the last byte
\* that is sent after the step.
LEMMA OutServer ==
    ASSUME LinkInv, ServerSide,
           NEW x, OutAt(x, Conns, client, written[Conn], down, got),
           NEW v, v = Conns', NEW y \in Nat, NEW w, w = written'[Conn], y <= w,
           written[Conn] <= w,
           \/ y = x /\ (Receives(v) => Receives(Conns))
           \/ Receives(Conns) /\ x <= y
           \/ down = <<>> /\ Asks(client),
           v.state \in Connected => v.next_seq = y + FinSent(v),
           Asks(client) /\ v.state = "FREE" => w = 0,
           out' = {} \/ \E m : out' = {m},
           \A m \in out' : OutMsg(m, y, v)
    PROVE  OutInv' /\ OutMoves
<1>1. client' = client /\ got' = got /\ down' = down \o Answer'
  BY DEF ServerSide
<1>2. /\ x \in Nat /\ OutGot(x, Conns, client, written[Conn], got)
      /\ \A m \in Elems(down) : OutMsg(m, x, Conns)
  BY DEF OutAt
<1>3. /\ client.rcv \in Nat /\ down \in Seq(Departing)
      /\ \A m \in Elems(down) : Len(m.data) \in Nat /\ m.seq \in Nat
  <2>1. ClientOk(client) /\ down \in Seq(Departing)
    BY DEF LinkInv, Queues
  <2>2. ASSUME NEW m \in Elems(down) PROVE Len(m.data) \in Nat /\ m.seq \in Nat
    <3>1. PICK i \in 1 .. Len(down) : m = down[i]
      BY DEF Elems
    <3>2. m \in Departing
      BY <2>1, <3>1, ElementOfSeq
    <3> QED
      BY <3>2, Sizes DEF Departing, SeqNum
  <2> QED
    BY <2>1, <2>2, ClientFacts
<1>4. OutGot(y, v, client, w, got)
  <2>1. Asks(client) => client.rcv = 0 /\ ~ client.eof
    BY <1>2 DEF OutGot
  <2>2. IF client.eof THEN client.rcv = y + 1 /\ ~ Receives(v) ELSE client.rcv <= y
    BY <1>2, <1>3, <2>1 DEF OutGot
  <2> QED
    BY <1>2, <2>1, <2>2 DEF OutGot
<1>5. ASSUME NEW m \in Elems(down) PROVE OutMsg(m, y, v)
  <2>1. down # <<>> /\ OutMsg(m, x, Conns) /\ Len(m.data) \in Nat /\ m.seq \in Nat
    BY <1>2, <1>3 DEF Elems
  <2>2. CASE y = x /\ (Receives(v) => Receives(Conns))
    BY <2>1, <2>2 DEF OutMsg
  <2>3. CASE Receives(Conns) /\ x <= y
    <3> SUFFICES ASSUME ~ IsRst(m) PROVE OutMsg(m, y, v)
      BY DEF OutMsg
    <3>1. /\ m.data = Numbers(m.seq, m.seq + Len(m.data)) /\ m.seq + Len(m.data) <= x
          /\ IsSyn(m) => m.seq = ServerIss /\ Base <= x
          /\ ~ IsFin(m)
      BY <2>1, <2>3 DEF OutMsg
    <3>2. Base \in Nat /\ x \in Nat /\ m.seq + Len(m.data) \in Nat
      BY <1>2, <2>1, Sizes DEF Base
    <3>3. m.seq + Len(m.data) <= y /\ (IsSyn(m) => Base <= y)
      BY <2>3, <3>1, <3>2
    <3> QED
      BY <3>1, <3>3 DEF OutMsg
  <2> QED
    BY <2>1, <2>2, <2>3
<1>6. \A m \in Elems(down') : OutMsg(m, y, v)
  <2>1. CASE out' = {}
    <3>1. down' = down
      BY <1>1, <1>3, <2>1 DEF Answer
    <3> QED
      BY <1>5, <3>1
  <2>2. CASE out' # {}
    <3>1. PICK m : out' = {m}
      BY <2>2
    <3>2. down' = down \o <<m>>
      BY <1>1, <3>1 DEF Answer
    <3>3. ASSUME NEW e \in Elems(down') PROVE e \in Elems(down) \/ e = m
      <4>1. PICK i \in 1 .. Len(down') : e = down'[i]
        BY DEF Elems
      <4> QED
        BY <1>3, <3>2, <4>1 DEF Elems
    <3> QED
      BY <1>5, <3>1, <3>3
  <2> QED
    BY <2>1, <2>2
<1>7. OutAt(y, v, client, w, down', got)
  BY <1>4, <1>6 DEF OutAt
<1> QED
  BY <1>1, <1>7 DEF OutInv, OutMoves

\* A step that sends no data: the block goes on where it was, opens, goes from
\* FIN_WAIT_1 to FIN_WAIT_2, or is freed.
LEMMA OutQuiet ==
    ASSUME LinkInv, ServerSide,
           NEW x, OutAt(x, Conns, client, written[Conn], down, got),
           written' = written,
           NEW v, v = Conns', v.next_seq = Conns.next_seq,
           \/ v.state = Conns.state
           \/ Conns.state = "SYN_RECVD" /\ v.state = "ESTABLISHED"
           \/ Conns.state = "FIN_WAIT_1" /\ v.state = "FIN_WAIT_2"
           \/ Conns.state \in Connected \ {"SYN_RECVD"} /\ v.state = "FREE",
           out' = {} \/ \E m : out' = {m},
           \A m \in out' : IsReset(m)
    PROVE  OutInv' /\ OutMoves
<1>1. x \in Nat /\ x <= written[Conn] /\ written[Conn] \in Nat
  BY TwoSlots, Sizes DEF OutAt, LinkInv, IInv, SeqNum
<1>2. Receives(v) => Receives(Conns)
  BY DEF Receives
<1>3. v.state \in Connected => v.next_seq = x + FinSent(v)
  BY DEF OutAt, Connected, FinSent, Receives
<1>4. Asks(client) /\ v.state = "FREE" => written[Conn] = 0
  BY DEF LinkInv, AskingOk, OutAt, OutGot, Connected
<1>5. \A m \in out' : OutMsg(m, x, v)
  BY DEF IsReset, OutMsg
<1>6. written[Conn] <= written[Conn]
  BY <1>1
<1> QED
  BY <1>1, <1>2, <1>3, <1>4, <1>5, <1>6, OutServer

\* tcp_send: the bytes that go out are the next ones of the stream, and only a
\* FIN goes behind them.
LEMMA OutSend ==
    ASSUME LinkInv, ServerSide,
           NEW x, OutAt(x, Conns, client, written[Conn], down, got),
           Receives(Conns),
           NEW w, w = written'[Conn], w \in Nat, written[Conn] <= w,
           NEW t, Countable(t), t.next_seq = Conns.next_seq,
           TxAt(t.tx_buf, t.next_seq, w), Ahead(t) + 1 < SeqSpace,
           NEW flags \in {{"ACK"}, {"FIN", "ACK"}}, Emit(t, flags, "OK"),
           NEW v, v = Conns', v.state \in Connected,
           v.next_seq = Sent(t, flags).next_seq,
           Receives(v) <=> "FIN" \notin flags
    PROVE  OutInv' /\ OutMoves
<1> DEFINE n == SendSize(t, flags)
           m == SegmentOf(t, flags)
           wait == WaitSendCount(t.tx_buf)
<1>1. /\ t \in Tcb /\ t.next_seq \in Nat /\ t.tx_buf \in Buf /\ wait \in 0 .. BufSize
      /\ t.remote_mss \in Nat /\ t.remote_win \in Nat
  BY TcbFields, Sizes DEF SeqNum
<1>2. /\ x \in Nat /\ t.next_seq = x
      /\ x + wait + 1 < SeqSpace
  BY DEF OutAt, FinSent, Receives, Connected, Ahead
<1>3. Control(flags) = (IF "FIN" \in flags THEN 1 ELSE 0) /\ flags \in SUBSET Flag
  BY DEF Control, Flag
<1>4. n \in Nat /\ n <= wait /\ wait \in Nat
  <2>1. /\ n \in 0 .. BufSize /\ t.tx_buf.unacked_count + n <= t.tx_buf.data_count
        /\ t.tx_buf.unacked_count \in 0 .. BufSize /\ t.tx_buf.data_count \in 0 .. BufSize
    BY <1>1, <1>3, SendSizeType DEF Buf
  <2> HIDE DEF n
  <2> QED
    BY <1>1, <2>1, Sizes DEF WaitSendCount
<1>5. v.next_seq = x + n + Control(flags)
  <2>1. v.next_seq = SeqAdd(t.next_seq, n + Control(flags))
    BY <1>1 DEF Sent, Tcb
  <2> HIDE DEF n, wait
  <2> QED
    BY <1>2, <1>3, <1>4, <2>1, Sizes DEF SeqAdd
<1>6. v.next_seq = x + n + FinSent(v)
  BY <1>3, <1>5 DEF FinSent
<1>7. w = x + wait
  <2>1. w = SeqAdd(x, wait)
    BY <1>2 DEF TxAt
  <2> HIDE DEF wait
  <2> QED
    BY <1>2, <1>4, <2>1, Sizes DEF SeqAdd
<1>8. /\ m.seq = x /\ m.flags = flags /\ m.data = Numbers(x, x + n) /\ Len(m.data) = n
  <2>1. m.seq = x /\ m.flags = flags /\ m.data = SendBytes(t.tx_buf, n)
    BY <1>2 DEF SegmentOf
  <2> HIDE DEF m, n
  <2>2. ASSUME NEW i \in 1 .. n PROVE Unsent(t.tx_buf, i - 1) = x + i - 1
    <3>1. i - 1 \in 0 .. wait - 1 /\ i - 1 \in Nat /\ i - 1 < wait
      BY <1>4
    <3>2. Unsent(t.tx_buf, i - 1) = SeqAdd(x, i - 1)
      BY <1>2, <3>1 DEF TxAt
    <3> HIDE DEF wait
    <3> QED
      BY <1>2, <1>4, <3>1, <3>2, Sizes DEF SeqAdd
  <2>3. m.data = [i \in 1 .. n |-> x + i - 1]
    BY <2>1, <2>2 DEF SendBytes, Unsent
  <2>4. (x + n) - x = n
    BY <1>2, <1>4
  <2>5. Len(m.data) = n
    BY <1>4, <2>3
  <2> QED
    BY <2>1, <2>3, <2>4, <2>5 DEF Numbers
<1> HIDE DEF n, m, wait
<1>9. PICK y \in Nat : y = x + n
  BY <1>2, <1>4
<1>10. OutMsg(m, y, v)
  <2>1. m.seq + Len(m.data) = y /\ m.data = Numbers(m.seq, m.seq + Len(m.data)) /\ y <= y
    BY <1>2, <1>8, <1>9
  <2>2. ~ IsSyn(m) /\ (IsFin(m) => ~ Receives(v))
    BY <1>8 DEF IsSyn, IsFin
  <2> QED
    BY <2>1, <2>2 DEF OutMsg
<1>11. out' = {m}
  BY DEF Emit, m
<1>12. y <= w /\ x <= y
  BY <1>2, <1>4, <1>7, <1>9
<1>13. v.next_seq = y + FinSent(v) /\ v.state # "FREE"
  BY <1>6, <1>9 DEF Connected
<1> QED
  BY <1>10, <1>11, <1>12, <1>13, OutServer

\* The block of the connection after a step that updates it.
LEMMA Updated ==
    ASSUME LinkInv, NEW v, Update(Conn, v)
    PROVE  Conns' = v
BY TwoSlots DEF Update, LinkInv, IInv, Conns

\* What waits in tx_buf is the end of what the application has written.
LEMMA WaitsAt ==
    ASSUME StreamInv, NoMiss, Receives(Conns)
    PROVE  TxAt(Conns.tx_buf, Conns.next_seq, written[Conn])
BY TwoSlots DEF StreamInv, BlockStreams, Streaming, Receives, Conns

\* The segments that are answered with a reset, ignored, or that end what is
\* left of the connection.
LEMMA QuietSegmentOut ==
    ASSUME LinkInv, ServerSide, up # <<>>, Conns.state \in Connected,
           NEW x, OutAt(x, Conns, client, written[Conn], down, got),
           NEW seg, seg = Arrived(Head(up)),
           \/ WrongSeqIn(Conn, seg) \/ IgnoredIn(Conn, seg)
           \/ FinWait1In(Conn, seg) \/ LastAckIn(Conn, seg)
    PROVE  OutInv' /\ OutMoves
<1> DEFINE t == Heard(Conn, seg)
<1>1. t \in Tcb /\ t.state = Conns.state /\ t.next_seq = Conns.next_seq
  BY HeardFields DEF BlockInv
<1> HIDE DEF t
<1>2. CASE WrongSeqIn(Conn, seg)
  <2>1. PICK r \in XipOut : SendReset(SeqAdd(seg.seq, 1), seg.dest_port, seg.from, r)
    BY <1>2 DEF WrongSeqIn
  <2>2. (out' = {} \/ \E m : out' = {m}) /\ \A m \in out' : IsReset(m)
    BY <2>1, SendResetOk
  <2>3. Update(Conn, t) /\ written' = written
    BY <1>2 DEF WrongSeqIn, t
  <2> QED
    BY <1>1, <2>2, <2>3, Updated, OutQuiet
<1>3. CASE IgnoredIn(Conn, seg)
  <2>1. Update(Conn, t) /\ written' = written /\ out' = {}
    BY <1>3 DEF IgnoredIn, InSequence, Silent, t
  <2> QED
    BY <1>1, <2>1, Updated, OutQuiet
<1>4. CASE FinWait1In(Conn, seg) \/ LastAckIn(Conn, seg)
  <2>1. PICK state \in {"FREE", "FIN_WAIT_2"} :
          /\ Update(Conn, [t EXCEPT !.state = state])
          /\ state = "FIN_WAIT_2" => Conns.state = "FIN_WAIT_1"
    BY <1>4 DEF FinWait1In, LastAckIn, InSequence, Freed, Conns, t
  <2>2. Conns.state # "SYN_RECVD" /\ written' = written /\ out' = {}
    BY <1>4 DEF FinWait1In, LastAckIn, InSequence, Silent, Conns
  <2>3. /\ [t EXCEPT !.state = state].state = state
        /\ [t EXCEPT !.state = state].next_seq = Conns.next_seq
    BY <1>1 DEF Tcb
  <2> QED
    BY <2>1, <2>2, <2>3, Updated, OutQuiet
<1> QED
  BY <1>2, <1>3, <1>4

\* The end of the handshake.
LEMMA SynRecvdOut ==
    ASSUME LinkInv, ServerSide, up # <<>>,
           NEW x, OutAt(x, Conns, client, written[Conn], down, got),
           NEW seg, seg = Arrived(Head(up)), SynRecvdIn(Conn, seg)
    PROVE  OutInv' /\ OutMoves
<1> DEFINE t == Heard(Conn, seg)
           v == [t EXCEPT !.unacked_seq = SeqAdd(@, 1), !.state = "ESTABLISHED"]
<1>1. Conns.state = "SYN_RECVD" /\ written' = written /\ out' = {} /\ Update(Conn, v)
  BY DEF SynRecvdIn, InSequence, Conns
<1>2. t \in Tcb /\ t.next_seq = Conns.next_seq
  BY HeardFields DEF BlockInv
<1> HIDE DEF t
<1>3. v.state = "ESTABLISHED" /\ v.next_seq = Conns.next_seq
  BY <1>2 DEF Tcb
<1> HIDE DEF v
<1> QED
  BY <1>1, <1>3, Updated, OutQuiet

\* A segment for a connection that is gone.
LEMMA NotSynOut ==
    ASSUME LinkInv, ServerSide,
           NEW x, OutAt(x, Conns, client, written[Conn], down, got),
           NEW seg, NotSynIn(Listener, seg)
    PROVE  OutInv' /\ OutMoves
<1>1. Update(Listener, Heard(Listener, seg)) /\ written' = written
  BY DEF NotSynIn
<1>2. Conns' = Conns
  BY <1>1, TwoSlots DEF Update, LinkInv, IInv, Conns
<1>3. PICK r \in XipOut :
        SendReset(seg.seq, tcp_socket[Listener].local_port, seg.from, r)
  BY DEF NotSynIn
<1>4. (out' = {} \/ \E m : out' = {m}) /\ \A m \in out' : IsReset(m)
  BY <1>3, SendResetOk
<1> QED
  BY <1>1, <1>2, <1>4, OutQuiet

\* In FIN_WAIT_2 the answer to the FIN of the client has a number behind the
\* FIN of the server.
LEMMA FinWait2Out ==
    ASSUME LinkInv, ServerSide, up # <<>>,
           NEW x, OutAt(x, Conns, client, written[Conn], down, got),
           NEW seg, seg = Arrived(Head(up)), FinWait2In(Conn, seg)
    PROVE  OutInv' /\ OutMoves
<1> DEFINE h == Heard(Conn, seg)
           t == [h EXCEPT !.ack = SeqAdd(seg.seq, 1)]
<1>1. Conns.state = "FIN_WAIT_2" /\ Conns.state \in Connected /\ written' = written
  BY DEF FinWait2In, InSequence, Conns, Connected
<1>2. PICK r \in XipOut : /\ Update(Conn, Freed(AfterSend(t, {"ACK"}, r)))
                          /\ Emit(t, {"ACK"}, r)
  BY DEF FinWait2In
<1>3. h \in Tcb /\ h.next_seq = Conns.next_seq
  BY HeardFields DEF BlockInv
<1>4. SeqAdd(seg.seq, 1) \in SeqNum
  <2>1. seg.seq \in SeqNum
    BY HeadArrives, ArrivingType
  <2> QED
    BY <2>1, SeqAddType, Sizes
<1> HIDE DEF h
<1>5. t \in Tcb /\ t.next_seq = Conns.next_seq
  BY <1>3, <1>4 DEF Tcb
<1> HIDE DEF t
<1> DEFINE v == Freed(AfterSend(t, {"ACK"}, r))
<1>6. v.state = "FREE"
  BY <1>5 DEF Freed, AfterSend, Sent, Refused, Tcb
<1>7. Conns' = v
  BY <1>2, Updated
<1> HIDE DEF v
<1>8. /\ x \in Nat /\ x <= written[Conn] /\ written[Conn] <= written[Conn]
      /\ Conns.next_seq = x + 1
  BY <1>1, TwoSlots, Sizes DEF OutAt, FinSent, Receives, LinkInv, IInv, SeqNum
<1>9. ~ Asks(client) /\ ~ Receives(v) /\ v.state \notin Connected
  BY <1>1, <1>6 DEF LinkInv, AskingOk, Receives, Connected
<1>10. (out' = {} \/ \E m : out' = {m}) /\ \A m \in out' : OutMsg(m, x, v)
  <2> DEFINE m == SegmentOf(t, {"ACK"})
  <2>1. m.seq = x + 1 /\ m.flags = {"ACK"}
    BY <1>5, <1>8 DEF SegmentOf
  <2> HIDE DEF m
  <2>2. OutMsg(m, x, v)
    BY <1>9, <2>1 DEF OutMsg, IsSyn, IsFin
  <2> QED
    BY <1>2, <2>2 DEF Emit, m
<1> QED
  BY <1>1, <1>7, <1>8, <1>9, <1>10, OutServer


\* What AfterData leaves to send: nothing is sent or written in between.
LEMMA OpenOut ==
    ASSUME LinkInv, StreamInv, NoMiss, up # <<>>,
           NEW seg, seg = Arrived(Head(up)),
           Conns.state = "ESTABLISHED", seg.seq = Conns.ack
    PROVE  LET t == AfterData(Conn, seg)
           IN  /\ Countable(t) /\ t.state = "ESTABLISHED"
               /\ t.next_seq = Conns.next_seq /\ Ahead(t) + 1 < SeqSpace
               /\ TxAt(t.tx_buf, t.next_seq, written[Conn])
               /\ Receives(Conns) /\ written[Conn] \in Nat
<1> DEFINE t == AfterData(Conn, seg)
<1>1. Receives(Conns) /\ Conns.state \in Connected
  BY DEF Receives, Connected
<1>2. Countable(t) /\ t.state = "ESTABLISHED" /\ Ahead(t) = Ahead(Conns)
  BY OpenFacts
<1>3. t.next_seq = Conns.next_seq /\ TxAt(t.tx_buf, t.next_seq, written[Conn])
  <2>1. TxAt(Conns.tx_buf, Conns.next_seq, written[Conn])
    BY <1>1, WaitsAt
  <2>2. seg \in Arriving /\ Conn \in Slot /\ BlockInv(tcp_socket[Conn]) /\ Conns = tcp_socket[Conn]
    BY HeadArrives, InvFacts, TwoSlots
  <2> HIDE DEF t
  <2> QED
    BY <2>1, <2>2, DataTx DEF t
<1> HIDE DEF t
<1>4. Ahead(t) + 1 < SeqSpace /\ written[Conn] \in Nat
  BY <1>1, <1>2, AheadBound
<1> QED
  BY <1>1, <1>2, <1>3, <1>4 DEF t

\* ESTABLISHED, without a FIN: what waits is sent with the ACK.
LEMMA DataOut ==
    ASSUME LinkInv, StreamInv, NoMiss, ServerSide, up # <<>>,
           NEW x, OutAt(x, Conns, client, written[Conn], down, got),
           NEW seg, seg = Arrived(Head(up)),
           EstablishedDataIn(Conn, seg) \/ EstablishedAckIn(Conn, seg)
    PROVE  OutInv' /\ OutMoves
<1> DEFINE t == AfterData(Conn, seg)
<1>1. Conns.state = "ESTABLISHED" /\ seg.seq = Conns.ack /\ written' = written
  BY DEF EstablishedDataIn, EstablishedAckIn, InSequence, Conns
<1>2. /\ Countable(t) /\ t.state = "ESTABLISHED"
      /\ t.next_seq = Conns.next_seq /\ Ahead(t) + 1 < SeqSpace
      /\ TxAt(t.tx_buf, t.next_seq, written[Conn])
      /\ Receives(Conns) /\ written[Conn] \in Nat
  BY <1>1, OpenOut
<1>3. \/ \E r \in XipOut : Update(Conn, AfterSend(t, {"ACK"}, r)) /\ Emit(t, {"ACK"}, r)
      \/ Update(Conn, t) /\ out' = {}
  BY DEF EstablishedDataIn, EstablishedAckIn
<1> HIDE DEF t
<1>4. CASE Update(Conn, t) /\ out' = {}
  BY <1>1, <1>2, <1>4, Updated, OutQuiet
<1>5. ASSUME NEW r \in XipOut, Update(Conn, AfterSend(t, {"ACK"}, r)), Emit(t, {"ACK"}, r)
      PROVE  OutInv' /\ OutMoves
  <2>1. r = "OK"
    BY DEF NoMiss
  <2> DEFINE v == Sent(t, {"ACK"})
  <2>2. Conns' = v
    BY <1>5, <2>1, Updated DEF AfterSend
  <2>3. v.state = "ESTABLISHED"
    BY <1>2, SentType DEF Flag
  <2> HIDE DEF v
  <2>4. v.state \in Connected /\ (Receives(v) <=> "FIN" \notin {"ACK"})
    BY <2>3 DEF Connected, Receives
  <2>5. written[Conn] <= written[Conn] /\ v.next_seq = Sent(t, {"ACK"}).next_seq
    BY <1>2 DEF v
  <2> QED
    BY <1>1, <1>2, <1>5, <2>1, <2>2, <2>4, <2>5, OutSend
<1> QED
  BY <1>3, <1>4, <1>5

\* The answer to the FIN of the client: the FIN of the server goes out behind
\* what the window allows, and nothing goes behind it.
LEMMA FinOut ==
    ASSUME LinkInv, StreamInv, NoMiss, ServerSide, up # <<>>,
           NEW x, OutAt(x, Conns, client, written[Conn], down, got),
           NEW seg, seg = Arrived(Head(up)), EstablishedFinIn(Conn, seg)
    PROVE  OutInv' /\ OutMoves
<1> DEFINE d == AfterData(Conn, seg)
           t == [d EXCEPT !.state = "LAST_ACK", !.ack = SeqAdd(seg.seq, 1)]
           flags == {"FIN", "ACK"}
<1>1. Conns.state = "ESTABLISHED" /\ seg.seq = Conns.ack /\ written' = written
  BY DEF EstablishedFinIn, InSequence, Conns
<1>2. /\ Countable(d) /\ d.next_seq = Conns.next_seq /\ Ahead(d) + 1 < SeqSpace
      /\ TxAt(d.tx_buf, d.next_seq, written[Conn])
      /\ Receives(Conns) /\ written[Conn] \in Nat
  BY <1>1, OpenOut
<1>3. PICK r \in XipOut : Update(Conn, AfterSend(t, flags, r)) /\ Emit(t, flags, r)
  BY DEF EstablishedFinIn
<1>4. SeqAdd(seg.seq, 1) \in SeqNum
  <2>1. seg.seq \in SeqNum
    BY HeadArrives, ArrivingType
  <2> QED
    BY <2>1, SeqAddType, Sizes
<1> HIDE DEF d
<1>5. /\ Countable(t) /\ t.state = "LAST_ACK" /\ t.tx_buf = d.tx_buf
      /\ t.next_seq = d.next_seq /\ Ahead(t) = Ahead(d)
  BY <1>2, <1>4 DEF Countable, Tcb, TcpState, Ahead
<1>6. r = "OK"
  BY DEF NoMiss
<1> HIDE DEF t
<1> DEFINE v == Sent(t, flags)
<1>7. Conns' = v
  BY <1>3, <1>6, Updated DEF AfterSend
<1>8. v.state = "LAST_ACK"
  BY <1>5, SentType DEF Flag
<1> HIDE DEF v
<1>9. v.state \in Connected /\ (Receives(v) <=> "FIN" \notin flags)
  BY <1>8 DEF Connected, Receives
<1>10. written[Conn] <= written[Conn] /\ v.next_seq = Sent(t, flags).next_seq
  BY <1>2 DEF v
<1>11. flags \in {{"ACK"}, {"FIN", "ACK"}} /\ Emit(t, flags, "OK")
  BY <1>3, <1>6
<1>12. TxAt(t.tx_buf, t.next_seq, written[Conn]) /\ Ahead(t) + 1 < SeqSpace
       /\ t.next_seq = Conns.next_seq
  BY <1>2, <1>5
<1> HIDE DEF flags
<1> QED
  BY <1>1, <1>2, <1>5, <1>7, <1>9, <1>10, <1>11, <1>12, OutSend


\* tcp_process_accept: the stream begins behind the SYN.
LEMMA AcceptOut ==
    ASSUME LinkInv, NoMiss, ServerSide, up # <<>>, Conns.state = "FREE",
           NEW x, OutAt(x, Conns, client, written[Conn], down, got),
           NEW seg, seg = Arrived(Head(up)), AcceptIn(Listener, seg)
    PROVE  OutInv' /\ OutMoves
<1>1. PICK r \in XipOut : Accepts(seg, r)
  BY AcceptFacts
<1> DEFINE child == Child(Conns, tcp_socket[Listener], seg, ServerIss)
           flags == {"SYN", "ACK"}
           v == Sent(child, flags)
           m == SegmentOf(child, flags)
<1>2. r = "OK"
  BY DEF NoMiss
<1>3. /\ tcp_socket'[Conn] = v
      /\ out' = {m} /\ written'[Conn] = SeqAdd(ServerIss, 1)
      /\ Countable(child) /\ child.state = "SYN_RECVD"
      /\ child.next_seq = ServerIss /\ WaitSendCount(child.tx_buf) = 0
  BY <1>1, <1>2, TwoSlots DEF Accepts, AfterSend, Emit, LinkInv, IInv
<1> HIDE DEF child
<1>4. Conns' = v
  BY <1>3 DEF Conns
<1>5. /\ ServerIss \in Nat /\ Base \in Nat /\ Base = ServerIss + 1
      /\ SeqAdd(ServerIss, 1) = Base /\ Control(flags) = 1 /\ flags \in SUBSET Flag
  BY Sizes DEF Base, SeqAdd, Control, Flag
<1>6. SendSize(child, flags) = 0
  <2>1. /\ SendSize(child, flags) \in 0 .. BufSize
        /\ child.tx_buf.unacked_count + SendSize(child, flags) <= child.tx_buf.data_count
        /\ child.tx_buf \in Buf
    BY <1>3, <1>5, SendSizeType, TcbFields
  <2>2. /\ child.tx_buf.data_count \in Nat /\ child.tx_buf.unacked_count \in Nat
        /\ SendSize(child, flags) \in Nat
    BY <2>1, Sizes DEF Buf
  <2>3. child.tx_buf.data_count - child.tx_buf.unacked_count = 0
    BY <1>3 DEF WaitSendCount
  <2> QED
    BY <2>1, <2>2, <2>3
<1>7. v.state = "SYN_RECVD" /\ v.next_seq = Base
  BY <1>3, <1>5, <1>6, SentType
<1>8. m.seq = ServerIss /\ m.flags = flags /\ m.data = <<>>
  BY <1>3, <1>6 DEF SegmentOf, SendBytes
<1> HIDE DEF v, m
<1>9. OutMsg(m, Base, v)
  <2>1. m.data = Numbers(m.seq, m.seq + Len(m.data)) /\ Len(m.data) = 0
    BY <1>5, <1>8 DEF Numbers
  <2> QED
    BY <1>5, <1>8, <2>1 DEF OutMsg, IsSyn, IsFin
<1>10. down = <<>> /\ Asks(client)
  BY AcceptFacts
<1>11. written[Conn] = 0
  BY <1>10 DEF OutAt, OutGot
<1>12. v.next_seq = Base + FinSent(v) /\ v.state # "FREE"
  BY <1>5, <1>7 DEF FinSent, Receives
<1>13. Base <= written'[Conn] /\ written[Conn] <= written'[Conn]
  BY <1>3, <1>5, <1>11
<1> QED
  BY <1>3, <1>4, <1>5, <1>9, <1>10, <1>12, <1>13, OutServer

\* xtcp_in.
LEMMA ReceivesOut ==
    ASSUME LinkInv, StreamInv, NoMiss, ServerReceives,
           NEW x, OutAt(x, Conns, client, written[Conn], down, got)
    PROVE  OutInv' /\ OutMoves
<1> DEFINE seg == Arrived(Head(up))
<1>1. up # <<>> /\ ServerSide /\ xtcp_in(seg)
  BY DEF ServerReceives
<1>2. seg.from = Client /\ seg.dest_port = ServerPort
  BY <1>1, HeadArrives
<1> HIDE DEF seg
<1>3. ~ FindsNone(seg)
  BY <1>2, FindsFacts
<1>4. PICK s \in Slot :
        /\ Finds(s, seg)
        /\ \/ AcceptIn(s, seg)   \/ AcceptFullIn(s, seg) \/ NotSynIn(s, seg)
           \/ WrongSeqIn(s, seg) \/ SynRecvdIn(s, seg)
           \/ FinWait1In(s, seg) \/ FinWait2In(s, seg)
           \/ LastAckIn(s, seg)  \/ IgnoredIn(s, seg)
           \/ EstablishedFinIn(s, seg) \/ EstablishedDataIn(s, seg)
           \/ EstablishedAckIn(s, seg)
  BY <1>1, <1>3 DEF xtcp_in, NoBlockIn
<1>5. CASE Conns.state \in Connected
  <2>1. s = Conn /\ tcp_socket[s].state # "LISTEN"
    BY <1>2, <1>4, <1>5, FindsFacts DEF Connected, Conns
  <2>2. ~ AcceptIn(s, seg) /\ ~ AcceptFullIn(s, seg) /\ ~ NotSynIn(s, seg)
    BY <2>1 DEF AcceptIn, AcceptFullIn, NotSynIn
  <2> QED
    BY <1>1, <1>4, <1>5, <2>1, <2>2, QuietSegmentOut, SynRecvdOut, FinWait2Out,
       FinOut, DataOut DEF seg
<1>6. CASE Conns.state \notin Connected
  <2>1. s = Listener /\ Conns.state = "FREE" /\ tcp_socket[s].state = "LISTEN"
    BY <1>2, <1>4, <1>6, FindsFacts DEF LinkInv, Blocks
  <2>2. /\ ~ WrongSeqIn(s, seg) /\ ~ SynRecvdIn(s, seg) /\ ~ FinWait1In(s, seg)
        /\ ~ FinWait2In(s, seg) /\ ~ LastAckIn(s, seg) /\ ~ IgnoredIn(s, seg)
        /\ ~ EstablishedFinIn(s, seg) /\ ~ EstablishedDataIn(s, seg)
        /\ ~ EstablishedAckIn(s, seg)
    BY <2>1 DEF WrongSeqIn, SynRecvdIn, FinWait1In, FinWait2In, LastAckIn, IgnoredIn,
                EstablishedFinIn, EstablishedDataIn, EstablishedAckIn, InSequence
  <2>3. Conn \in FreeSlots
    BY <2>1, TwoSlots DEF FreeSlots, Conns
  <2>4. ~ AcceptFullIn(s, seg)
    BY <2>3 DEF AcceptFullIn
  <2> QED
    BY <1>1, <1>4, <2>1, <2>2, <2>4, AcceptOut, NotSynOut DEF seg
<1> QED
  BY <1>5, <1>6

\* xtcp_close: the FIN goes out behind what the window allows.
LEMMA CloseOut ==
    ASSUME LinkInv, StreamInv, NoMiss, AppCloses,
           NEW x, OutAt(x, Conns, client, written[Conn], down, got)
    PROVE  OutInv' /\ OutMoves
<1>1. /\ xtcp_close(Conn) /\ ServerSide
      /\ Conn \in Slot /\ Conns = tcp_socket[Conn] /\ Conns \in Tcb
  BY TwoSlots, InvFacts DEF AppCloses
<1>2. CASE CloseOther(Conn)
  <2>1. /\ Conns.state \in Connected \ {"SYN_RECVD"} /\ written' = written /\ out' = {}
        /\ Update(Conn, Freed(Conns))
    BY <1>1, <1>2 DEF CloseOther, Silent, LinkInv, Blocks
  <2> DEFINE v == Freed(Conns)
  <2>2. v.state = "FREE" /\ v.next_seq = Conns.next_seq
    BY <1>1 DEF Freed, Tcb
  <2>3. Conns' = v
    BY <2>1, Updated
  <2> HIDE DEF v
  <2> QED
    BY <1>1, <2>1, <2>2, <2>3, OutQuiet
<1>3. CASE CloseEstablished(Conn)
  <2> DEFINE flags == {"FIN", "ACK"}
             u == Sent(Conns, flags)
             v == [u EXCEPT !.state = "FIN_WAIT_1"]
  <2>1. /\ Conns.state = "ESTABLISHED" /\ Conns.state \in Connected /\ Receives(Conns)
        /\ written' = written
    BY <1>1, <1>3 DEF CloseEstablished, Connected, Receives
  <2>2. Update(Conn, v) /\ Emit(Conns, flags, "OK")
    BY <1>1, <1>3 DEF CloseEstablished, NoMiss, AfterSend
  <2>3. Countable(Conns)
    BY <2>1, InvFacts, ConnectedCountable
  <2>4. written[Conn] \in Nat /\ Ahead(Conns) + 1 < SeqSpace
    BY <2>1, <2>3, AheadBound
  <2>5. TxAt(Conns.tx_buf, Conns.next_seq, written[Conn])
    BY <2>1, WaitsAt
  <2>6. u \in Tcb
    BY <2>3, SentType DEF Flag
  <2> HIDE DEF u
  <2>7. v.state = "FIN_WAIT_1" /\ v.next_seq = u.next_seq
    BY <2>6 DEF Tcb
  <2>8. Conns' = v
    BY <2>2, Updated
  <2> HIDE DEF v
  <2>9. v.state \in Connected /\ (Receives(v) <=> "FIN" \notin flags)
    BY <2>7 DEF Connected, Receives
  <2>10. written[Conn] <= written[Conn] /\ v.next_seq = Sent(Conns, flags).next_seq
    BY <2>4, <2>7 DEF u
  <2>11. flags \in {{"ACK"}, {"FIN", "ACK"}}
    OBVIOUS
  <2> HIDE DEF flags
  <2> QED
    BY <1>1, <2>1, <2>2, <2>3, <2>4, <2>5, <2>8, <2>9, <2>10, <2>11, OutSend
<1> QED
  BY <1>1, <1>2, <1>3 DEF xtcp_close

\* xtcp_write: the bytes taken join the stream, and some of them are sent.
LEMMA WriteOut ==
    ASSUME LinkInv, StreamInv, NoMiss, AppWrites,
           NEW x, OutAt(x, Conns, client, written[Conn], down, got)
    PROVE  OutInv' /\ OutMoves
<1>1. PICK size \in WriteSizes : Wrote + size <= ToWrite /\ xtcp_write(Conn, size)
  BY DEF AppWrites
<1> DEFINE w == written[Conn]
           taken == WriteSize(Conns.tx_buf, WriteFrom(size))
           t == WithWritten(size)
<1>2. ServerSide
  BY DEF AppWrites
<1>3. /\ \E r \in XipOut : Update(Conn, AfterSend(t, {"ACK"}, r)) /\ Emit(t, {"ACK"}, r)
      /\ Receives(Conns) /\ Countable(Conns) /\ Countable(t) /\ t.state = "ESTABLISHED"
      /\ t.next_seq = Conns.next_seq
      /\ t.tx_buf = Written(Conns.tx_buf, WriteFrom(size))
      /\ WriteFrom(size) \in Seq(Byte) /\ size \in 0 .. SeqSpace
      /\ w \in Nat /\ taken \in Nat /\ w + taken <= ServerIss + 1 + ToWrite
      /\ written'[Conn] = w + taken /\ written' = [written EXCEPT ![Conn] = SeqAdd(w, taken)]
      /\ Ahead(t) + 1 < SeqSpace
  BY <1>1, WriteFacts
<1>4. Update(Conn, Sent(t, {"ACK"})) /\ Emit(t, {"ACK"}, "OK")
  BY <1>3 DEF NoMiss, AfterSend
<1>5. TxAt(t.tx_buf, t.next_seq, w + taken)
  <2>1. TxAt(Conns.tx_buf, Conns.next_seq, w)
    BY <1>3, WaitsAt
  <2>2. w \in SeqNum /\ Conns.next_seq \in SeqNum /\ Consistent(Conns.tx_buf)
    BY <1>3, TwoSlots, TcbFields DEF LinkInv, IInv, Countable, Consistent
  <2>3. WriteFrom(size) = [i \in 1 .. size |-> SeqAdd(w, i - 1)]
    BY DEF WriteFrom
  <2>4. SeqAdd(w, taken) = w + taken
    BY <1>3, TwoSlots DEF LinkInv, IInv
  <2> HIDE DEF w
  <2>5. TxAt(Written(Conns.tx_buf, WriteFrom(size)), Conns.next_seq, SeqAdd(w, taken))
    BY <1>3, <2>1, <2>2, <2>3, WrittenTxAt
  <2> QED
    BY <1>3, <2>4, <2>5
<1> HIDE DEF t, taken
<1> DEFINE v == Sent(t, {"ACK"})
<1>6. Conns' = v
  BY <1>4, Updated
<1>7. v.state = "ESTABLISHED"
  BY <1>3, SentType DEF Flag
<1> HIDE DEF v
<1>8. v.state \in Connected /\ (Receives(v) <=> "FIN" \notin {"ACK"})
  BY <1>7 DEF Connected, Receives
<1>9. v.next_seq = Sent(t, {"ACK"}).next_seq
  BY DEF v
<1>10. w + taken \in Nat /\ w <= w + taken
  BY <1>3
<1> QED
  BY <1>2, <1>3, <1>4, <1>5, <1>6, <1>8, <1>9, <1>10, OutSend

\* xtcp_read sends nothing.
LEMMA ReadOut ==
    ASSUME LinkInv, AppReads,
           NEW x, OutAt(x, Conns, client, written[Conn], down, got)
    PROVE  OutInv' /\ OutMoves
<1>1. PICK size \in ReadSizes : xtcp_read(Conn, size)
  BY DEF AppReads
<1> DEFINE v == [Conns EXCEPT !.rx_buf = Taken(@, size)]
<1>2. Update(Conn, v) /\ ServerSide /\ written' = written /\ out' = {}
  BY <1>1 DEF AppReads, xtcp_read, Silent, Conns
<1>3. v.state = Conns.state /\ v.next_seq = Conns.next_seq
  BY InvFacts DEF Tcb
<1>4. Conns' = v
  BY <1>2, Updated
<1> HIDE DEF v
<1> QED
  BY <1>2, <1>3, <1>4, OutQuiet


\* What the client does without taking anything moves no stream.
LEMMA OutClient ==
    ASSUME LinkInv, ClientSide,
           NEW x, OutAt(x, Conns, client, written[Conn], down, got),
           client'.rcv = client.rcv, client'.eof = client.eof, got' = got,
           Asks(client') => Asks(client), Elems(down') \subseteq Elems(down)
    PROVE  OutInv' /\ OutMoves
<1>1. Conns' = Conns /\ written' = written
  BY DEF ClientSide, Conns
<1>2. written[Conn] <= written[Conn]
  BY TwoSlots, Sizes DEF LinkInv, IInv, SeqNum
<1>3. OutAt(x, Conns, client', written[Conn], down', got)
  BY DEF OutAt, OutGot, Position
<1> QED
  BY <1>1, <1>2, <1>3 DEF OutInv, OutMoves

\* The client connects, or sends something.
LEMMA ClientSendsOut ==
    ASSUME LinkInv, Connect \/ SendData \/ SendFin \/ Resend,
           NEW x, OutAt(x, Conns, client, written[Conn], down, got)
    PROVE  OutInv' /\ OutMoves
<1>1. client \in ClientType
  BY DEF LinkInv, ClientOk
<1>2. ASSUME NEW c, NEW m, Put(c, m), c.rcv = client.rcv, c.eof = client.eof,
             Asks(c) => Asks(client)
      PROVE  OutInv' /\ OutMoves
  <2>1. client' = c /\ down' = down /\ got' = got /\ ClientSide
    BY <1>2 DEF Put
  <2> QED
    BY <1>2, <2>1, OutClient
<1>3. CASE Connect
  <2>1. PICK options \in SynOptions :
          Put([client EXCEPT !.state = "SYN_SENT", !.nxt = ClientIss + 1,
                 !.mss = Options!Announced(options, MssDefault)],
              Message(client, {"SYN"}, ClientIss, 0, options))
    BY <1>3 DEF Connect
  <2> DEFINE c == [client EXCEPT !.state = "SYN_SENT", !.nxt = ClientIss + 1,
                     !.mss = Options!Announced(options, MssDefault)]
  <2>2. c.rcv = client.rcv /\ c.eof = client.eof /\ Asks(client)
    BY <1>1, <1>3 DEF ClientType, Connect, Asks
  <2> HIDE DEF c
  <2> QED
    BY <1>2, <2>1, <2>2 DEF c
<1>4. CASE SendData
  <2>1. PICK n \in SegLens :
          Put([client EXCEPT !.nxt = @ + n], Message(client, {"ACK"}, client.nxt, n, <<>>))
    BY <1>4 DEF SendData
  <2> DEFINE c == [client EXCEPT !.nxt = @ + n]
  <2>2. c.rcv = client.rcv /\ c.eof = client.eof /\ c.state = client.state
    BY <1>1 DEF ClientType
  <2> HIDE DEF c
  <2> QED
    BY <1>2, <2>1, <2>2 DEF c, Asks
<1>5. CASE SendFin
  <2>1. PICK n \in SegLens \cup {0} :
          Put([client EXCEPT !.nxt = FinSeq + 1],
              Message(client, {"FIN", "ACK"}, client.nxt, n, <<>>))
    BY <1>5 DEF SendFin
  <2> DEFINE c == [client EXCEPT !.nxt = FinSeq + 1]
  <2>2. c.rcv = client.rcv /\ c.eof = client.eof /\ c.state = client.state
    BY <1>1 DEF ClientType
  <2> HIDE DEF c
  <2> QED
    BY <1>2, <2>1, <2>2 DEF c, Asks
<1>6. CASE Resend
  <2>1. \E m : Put(client, m)
    BY <1>6 DEF Resend, Unacknowledged
  <2> QED
    BY <1>2, <2>1
<1> QED
  BY <1>3, <1>4, <1>5, <1>6

\* A segment is lost, or arrives twice.
LEMMA LoseOut ==
    ASSUME LinkInv, Lose \/ Repeat,
           NEW x, OutAt(x, Conns, client, written[Conn], down, got)
    PROVE  OutInv' /\ OutMoves
<1>1. client' = client /\ got' = got /\ ClientSide /\ down \in Seq(Departing)
  BY DEF Lose, Repeat, LinkSide, LinkInv, Queues
<1>2. \/ down' = down
      \/ down # <<>> /\ down' = Tail(down)
      \/ down # <<>> /\ down' = <<Head(down)>> \o down
  BY DEF Lose, Repeat
<1>3. Elems(down') \subseteq Elems(down)
  <2>1. CASE down' = down
    BY <2>1
  <2>2. CASE down # <<>> /\ down' = Tail(down)
    BY <1>1, <2>2, DownHead
  <2>3. CASE down # <<>> /\ down' = <<Head(down)>> \o down
    <3>1. Elems(<<Head(down)>> \o down) = Elems(down)
      BY <1>1, <2>3, RepeatElems
    <3> QED
      BY <2>3, <3>1
  <2> QED
    BY <1>2, <2>1, <2>2, <2>3
<1> QED
  BY <1>1, <1>3, OutClient

\* The segment that the client receives, and what is still under way behind it.
LEMMA OutHead ==
    ASSUME LinkInv, ClientReceives,
           NEW x, OutAt(x, Conns, client, written[Conn], down, got)
    PROVE  /\ x \in Nat /\ OutGot(x, Conns, client, written[Conn], got)
           /\ OutMsg(Head(down), x, Conns)
           /\ ClientSide /\ Elems(down') \subseteq Elems(down)
<1>1. down # <<>> /\ down' = Tail(down) /\ ClientSide /\ down \in Seq(Departing)
  BY DEF ClientReceives, LinkInv, Queues
<1>2. Head(down) \in Elems(down) /\ Elems(down') \subseteq Elems(down)
  BY <1>1, HeadElems
<1> QED
  BY <1>1, <1>2 DEF OutAt

\* What the client has to show when it takes something.
LEMMA OutTaken ==
    ASSUME LinkInv, ClientReceives,
           NEW x, OutAt(x, Conns, client, written[Conn], down, got),
           NEW c, c = client', ~ Asks(c),
           IF c.eof THEN c.rcv = x + 1 /\ ~ Receives(Conns) ELSE c.rcv <= x,
           got' = Numbers(Base, Position(c)), Position(client) <= Position(c)
    PROVE  OutInv' /\ OutMoves
<1>1. Conns' = Conns /\ written' = written /\ Elems(down') \subseteq Elems(down)
  BY OutHead DEF ClientSide, Conns
<1>2. OutAt(x, Conns, c, written[Conn], down', got')
  BY <1>1 DEF OutAt, OutGot
<1> QED
  BY <1>1, <1>2 DEF OutInv, OutMoves

\* The SYN+ACK tells the client where the stream begins.
LEMMA OpensOut ==
    ASSUME LinkInv, ClientReceives, Opens(Head(down)),
           NEW x, OutAt(x, Conns, client, written[Conn], down, got)
    PROVE  OutInv' /\ OutMoves
<1> DEFINE m == Head(down)
<1>1. /\ x \in Nat /\ OutGot(x, Conns, client, written[Conn], got) /\ OutMsg(m, x, Conns)
      /\ ClientSide /\ Elems(down') \subseteq Elems(down)
      /\ client \in ClientType /\ client.state = "SYN_SENT" /\ got' = got
  BY OutHead DEF Opens, LinkInv, ClientOk
<1>2. client.rcv = 0 /\ ~ client.eof /\ got = Numbers(Base, Position(client))
  BY <1>1 DEF OutGot, Asks
<1>3. CASE m.flags = {"SYN", "ACK"}
  <2> DEFINE c == [client EXCEPT !.state = "OPEN", !.una = m.ack,
                                 !.rcv = m.seq + 1, !.edge = m.ack + m.window]
  <2>1. client' = c
    BY <1>3 DEF Opens
  <2>2. m.seq = ServerIss /\ Base <= x
    BY <1>1, <1>3 DEF OutMsg, IsRst, IsSyn, IsFin
  <2> HIDE DEF m
  <2>3. c.state = "OPEN" /\ c.rcv = Base /\ c.eof = client.eof
    <3> DEFINE e == m.ack + m.window
               r == m.seq + 1
               c1 == [client EXCEPT !.state = "OPEN", !.una = m.ack]
    <3>1. c = [c1 EXCEPT !.rcv = r, !.edge = e]
      OBVIOUS
    <3>2. r = Base
      BY <2>2 DEF Base
    <3> HIDE DEF r, e, c
    <3> QED
      BY <1>1, <3>1, <3>2 DEF ClientType
  <2> HIDE DEF c
  <2>4. Base \in Nat
    BY Sizes DEF Base
  <2>5. Position(client) = 0 /\ Position(c) = Base
    <3>1. (IF client.eof THEN 1 ELSE 0) = 0 /\ (IF c.eof THEN 1 ELSE 0) = 0
      BY <1>2, <2>3
    <3>2. Position(client) = client.rcv - 0 /\ Position(c) = c.rcv - 0
      BY <3>1 DEF Position
    <3> QED
      BY <1>2, <2>3, <2>4, <3>2
  <2>6. Numbers(Base, 0) = Numbers(Base, Base)
    <3>1. 1 .. 0 - Base = {} /\ 1 .. Base - Base = {}
      BY <2>4
    <3> QED
      BY <3>1 DEF Numbers
  <2>7. ~ Asks(c) /\ c.rcv <= x /\ ~ c.eof
    BY <1>2, <2>2, <2>3 DEF Asks
  <2> QED
    BY <1>1, <1>2, <2>1, <2>4, <2>5, <2>6, <2>7, OutTaken
<1>4. CASE client' = [client EXCEPT !.state = "REFUSED"]
  <2> DEFINE c == [client EXCEPT !.state = "REFUSED"]
  <2>1. c.rcv = client.rcv /\ c.eof = client.eof /\ c.state = "REFUSED"
    BY <1>1 DEF ClientType
  <2>2. client' = c
    BY <1>4
  <2> HIDE DEF c
  <2> QED
    BY <1>1, <2>1, <2>2, OutClient DEF Asks
<1> QED
  BY <1>3, <1>4 DEF Opens


\* The client takes the next bytes of the stream, or the FIN behind the last.
LEMMA TakesOut ==
    ASSUME LinkInv, ClientReceives, Takes(Head(down)),
           NEW x, OutAt(x, Conns, client, written[Conn], down, got)
    PROVE  OutInv' /\ OutMoves
<1> DEFINE m    == Head(down)
           open == m.seq = client.rcv /\ ~client.eof
           size == IF open THEN min(Len(m.data), ClientWin) ELSE 0
           eof  == open /\ "FIN" \in m.flags /\ size = Len(m.data)
           c    == client'
<1>1. /\ x \in Nat /\ OutGot(x, Conns, client, written[Conn], got) /\ OutMsg(m, x, Conns)
      /\ ClientSide /\ Elems(down') \subseteq Elems(down) /\ ~ IsRst(m)
      /\ client \in ClientType /\ client.state = "OPEN" /\ ServerIss < client.rcv
  BY OutHead DEF Takes, IsRst, LinkInv, ClientOk
<1>2. /\ c.rcv = client.rcv + size + (IF eof THEN 1 ELSE 0)
      /\ c.eof = (client.eof \/ eof) /\ c.state = "OPEN"
      /\ got' = got \o SubSeq(m.data, 1, size)
  <2>1. PICK una, edge :
          client' = [client EXCEPT !.una = una, !.edge = edge,
                       !.rcv = @ + size + (IF eof THEN 1 ELSE 0), !.eof = @ \/ eof]
    BY DEF Takes
  <2>2. got' = got \o SubSeq(m.data, 1, size)
    BY DEF Takes
  <2> DEFINE r == client.rcv + size + (IF eof THEN 1 ELSE 0)
             fin == client.eof \/ eof
             c1 == [client EXCEPT !.una = una, !.edge = edge]
  <2>3. client' = [c1 EXCEPT !.rcv = r, !.eof = fin]
    BY <2>1
  <2> HIDE DEF r, fin, size, eof
  <2>4. c.rcv = r /\ c.eof = fin /\ c.state = "OPEN"
    BY <1>1, <2>3 DEF ClientType
  <2> QED
    BY <2>2, <2>4 DEF r, fin
<1>3. /\ ~ Asks(client) /\ ~ Asks(c)
      /\ client.eof \in BOOLEAN /\ client.rcv \in Nat
      /\ Base \in Nat /\ Base <= client.rcv /\ ClientWin \in Nat
  BY <1>1, <1>2, Sizes DEF Asks, ClientType, Base
<1>4. m \in Departing /\ Len(m.data) \in Nat /\ m.data \in Seq(Byte) /\ m.seq \in Nat
  <2>1. down # <<>> /\ down \in Seq(Departing)
    BY DEF ClientReceives, LinkInv, Queues
  <2>2. m \in Departing
    BY <2>1, HeadElems
  <2> HIDE DEF m
  <2> QED
    BY <2>2, Sizes DEF Departing, SeqNum
<1> HIDE DEF m, c
<1>5. CASE ~ open
  <2>1. size = 0 /\ ~ eof
    BY <1>5
  <2> HIDE DEF size, eof, open
  <2>2. c.rcv = client.rcv /\ c.eof = client.eof
    <3>1. (client.eof \/ eof) = client.eof
      BY <1>3, <2>1
    <3>2. client.rcv + 0 + 0 = client.rcv
      BY <1>3
    <3> QED
      BY <1>2, <2>1, <3>1, <3>2
  <2>3. got' = got
    <3>1. SubSeq(m.data, 1, 0) = <<>>
      BY <1>4
    <3>2. got = Numbers(Base, Position(client))
      BY <1>1 DEF OutGot
    <3>3. got \in Seq(Int)
      <4> DEFINE p == Position(client)
      <4>1. p \in Int
        BY <1>3 DEF Position
      <4> HIDE DEF p
      <4>2. Numbers(Base, p) \in Seq(Int)
        <5> DEFINE n == IF p < Base THEN 0 ELSE p - Base
        <5>1. n \in Nat /\ 1 .. p - Base = 1 .. n
          BY <1>3, <4>1
        <5> HIDE DEF n
        <5>2. Numbers(Base, p) = [i \in 1 .. n |-> Base + i - 1]
          BY <5>1 DEF Numbers
        <5> QED
          BY <1>3, <5>1, <5>2
      <4> QED
        BY <3>2, <4>2 DEF p
    <3> QED
      BY <1>2, <2>1, <3>1, <3>3
  <2> QED
    BY <1>1, <1>3, <2>2, <2>3, OutClient DEF c
<1>6. CASE open
  <2>1. /\ m.seq = client.rcv /\ ~ client.eof /\ client.rcv <= x
        /\ got = Numbers(Base, client.rcv) /\ Position(client) = client.rcv
    <3>1. m.seq = client.rcv /\ ~ client.eof
      BY <1>6
    <3>2. Position(client) = client.rcv - 0
      BY <3>1 DEF Position
    <3> QED
      BY <1>1, <1>3, <3>1, <3>2 DEF OutGot
  <2>2. /\ m.data = Numbers(m.seq, m.seq + Len(m.data)) /\ m.seq + Len(m.data) <= x
        /\ IsFin(m) => ~ Receives(Conns) /\ m.seq + Len(m.data) = x
    BY <1>1, <1>3, <2>1 DEF OutMsg
  <2>3. size \in Nat /\ size <= Len(m.data)
    BY <1>3, <1>4, <1>6 DEF min
  <2>4. eof => IsFin(m) /\ size = Len(m.data)
    BY DEF IsFin
  <2>5. /\ c.rcv = client.rcv + size + (IF eof THEN 1 ELSE 0)
        /\ c.eof <=> eof
    BY <1>2, <2>1
  <2> HIDE DEF size, eof, open
  <2>6. Position(c) = client.rcv + size
    <3>1. CASE eof
      BY <1>3, <2>3, <2>5, <3>1 DEF Position
    <3>2. CASE ~ eof
      BY <1>3, <2>3, <2>5, <3>2 DEF Position
    <3> QED
      BY <3>1, <3>2
  <2>7. IF c.eof THEN c.rcv = x + 1 /\ ~ Receives(Conns) ELSE c.rcv <= x
    <3>1. CASE eof
      BY <1>1, <1>3, <2>1, <2>2, <2>3, <2>4, <2>5, <3>1
    <3>2. CASE ~ eof
      BY <1>1, <1>3, <1>4, <2>1, <2>2, <2>3, <2>5, <3>2
    <3> QED
      BY <3>1, <3>2
  <2>8. got' = Numbers(Base, client.rcv + size)
    <3> DEFINE a == client.rcv
               l == Len(m.data)
    <3>1. /\ a \in Nat /\ l \in Nat /\ a + l \in Nat /\ a <= a + l /\ (a + l) - a = l
          /\ a + size \in Nat /\ a <= a + size /\ (a + size) - a = size /\ Base <= a
      BY <1>3, <1>4, <2>3
    <3>2. m.data = [i \in 1 .. l |-> a + i - 1]
      BY <2>1, <2>2, <3>1 DEF Numbers
    <3> HIDE DEF a, l
    <3>3. SubSeq(m.data, 1, size) = [i \in 1 .. size |-> m.data[i]]
      BY <1>4, <2>3 DEF l
    <3>4. \A i \in 1 .. size : i \in 1 .. l
      BY <2>3, <3>1 DEF l
    <3>5. SubSeq(m.data, 1, size) = Numbers(a, a + size)
      BY <3>1, <3>2, <3>3, <3>4 DEF Numbers
    <3>6. Numbers(Base, a) \o Numbers(a, a + size) = Numbers(Base, a + size)
      BY <1>3, <3>1, NumbersGrow
    <3> QED
      BY <1>2, <2>1, <3>5, <3>6 DEF a
  <2>9. Position(client) <= Position(c)
    BY <1>3, <2>1, <2>3, <2>6
  <2> QED
    BY <1>3, <2>6, <2>7, <2>8, <2>9, OutTaken DEF c
<1> QED
  BY <1>5, <1>6

\* Whatever the client does with the next segment.
LEMMA ClientReceivesOut ==
    ASSUME LinkInv, ClientReceives,
           NEW x, OutAt(x, Conns, client, written[Conn], down, got)
    PROVE  OutInv' /\ OutMoves
<1>1. ClientSide /\ Elems(down') \subseteq Elems(down) /\ client \in ClientType
  BY OutHead DEF LinkInv, ClientOk
<1>2. CASE Rejects(Head(down)) \/ Ignores(Head(down))
  <2>1. got' = got /\ \/ client' = client
                      \/ client' = [client EXCEPT !.state = "REFUSED"]
    BY <1>2 DEF Rejects, Ignores
  <2>2. /\ client'.rcv = client.rcv /\ client'.eof = client.eof
        /\ client'.state = client.state \/ client'.state = "REFUSED"
    BY <1>1, <2>1 DEF ClientType
  <2> QED
    BY <1>1, <2>1, <2>2, OutClient DEF Asks
<1> QED
  BY <1>2, OpensOut, TakesOut DEF ClientReceives

\* At first nothing is sent and nothing has arrived.
LEMMA OutInit == LinkInit => OutInv
<1> SUFFICES ASSUME LinkInit PROVE OutInv
  OBVIOUS
<1>1. /\ client.rcv = 0 /\ ~ client.eof /\ got = <<>> /\ down = <<>>
      /\ Conns.state = "FREE" /\ written[Conn] = 0
  BY TwoSlots DEF LinkInit, Conns, ZeroTcb
<1>2. Base \in Nat /\ Base > 0
  BY Sizes DEF Base
<1>3. Position(client) = 0
  <2>1. Position(client) = client.rcv - 0
    BY <1>1 DEF Position
  <2> QED
    BY <1>1, <2>1
<1>4. Numbers(Base, 0) = <<>>
  <2>1. 1 .. 0 - Base = {}
    BY <1>2
  <2> QED
    BY <2>1 DEF Numbers
<1>5. OutAt(0, Conns, client, written[Conn], down, got)
  BY <1>1, <1>3, <1>4 DEF OutAt, OutGot, Elems, Connected
<1> QED
  BY <1>5 DEF OutInv

\* Every step keeps it.
LEMMA OutNext ==
    ASSUME LinkInv, StreamInv, NoMiss, OutInv, LinkNext
    PROVE  OutInv' /\ OutMoves
<1>1. PICK x : OutAt(x, Conns, client, written[Conn], down, got)
  BY DEF OutInv
<1>2. CASE ServerReceives \/ AppWrites \/ AppReads \/ AppCloses
  BY <1>1, <1>2, ReceivesOut, WriteOut, ReadOut, CloseOut
<1>3. CASE Connect \/ SendData \/ SendFin \/ Resend
  BY <1>1, <1>3, ClientSendsOut
<1>4. CASE ClientReceives \/ Lose \/ Repeat
  BY <1>1, <1>4, ClientReceivesOut, LoseOut
<1> QED
  BY <1>2, <1>3, <1>4 DEF LinkNext

\* What the application has written, and what of it the client has taken.
OutFacts ==
    /\ Base \in Nat /\ written[Conn] \in Nat /\ Position(client) \in Nat
    /\ Position(client) <= written[Conn]
    /\ OutSent = Numbers(Base, written[Conn])
    /\ got = Numbers(Base, Position(client))

\* The invariants say so.
LEMMA TakenFacts == LinkInv /\ OutInv => OutFacts
<1> SUFFICES ASSUME LinkInv, OutInv PROVE OutFacts
  OBVIOUS
<1>1. PICK x : OutAt(x, Conns, client, written[Conn], down, got)
  BY DEF OutInv
<1>2. /\ x \in Nat /\ x <= written[Conn] /\ got = Numbers(Base, Position(client))
      /\ IF client.eof THEN client.rcv = x + 1 ELSE client.rcv <= x
  BY <1>1 DEF OutAt, OutGot
<1>3. /\ Base \in Nat /\ Base = ServerIss + 1 /\ written[Conn] \in Nat
      /\ client.rcv \in Nat
  <2>1. written[Conn] \in Nat
    BY TwoSlots, Sizes DEF LinkInv, IInv, SeqNum
  <2> QED
    BY <2>1, Sizes DEF Base, LinkInv, ClientOk, ClientType
<1>4. Position(client) \in Nat /\ Position(client) <= written[Conn]
  <2>1. CASE client.eof
    BY <1>2, <1>3, <2>1 DEF Position
  <2>2. CASE ~ client.eof
    BY <1>2, <1>3, <2>2 DEF Position
  <2> QED
    BY <2>1, <2>2
<1>5. OutSent = Numbers(Base, written[Conn])
  <2>1. OutSent = Numbers(Base, Base + Wrote)
    BY DEF OutSent, Base
  <2>2. CASE written[Conn] = 0
    <3>1. Wrote = 0 /\ 1 .. (Base + 0) - Base = {} /\ 1 .. 0 - Base = {}
      BY <1>3, <2>2 DEF Wrote
    <3> QED
      BY <2>1, <2>2, <3>1 DEF Numbers
  <2>3. CASE written[Conn] # 0
    <3>1. Base + Wrote = written[Conn]
      BY <1>3, <2>3 DEF Wrote
    <3> QED
      BY <2>1, <3>1
  <2> QED
    BY <2>2, <2>3
<1> QED
  BY <1>2, <1>3, <1>4, <1>5 DEF OutFacts

\* The client receives the stream of the application as it was written, in
\* order and without a gap, whatever is lost, repeated or sent again and
\* whenever an end closes (xtcp_write, tcp_send, xtcp_in, xtcp_close), as long
\* as xip_out takes what tcp_send hands it: TcpLink implements ByteStream.
THEOREM ReceivedAsWritten == NoMiss => (LinkSpec => OutStream)
<1> SUFFICES ASSUME NoMiss PROVE LinkSpec => OutStream
  OBVIOUS
<1>1. LinkInit => Outward!Init
  <2> SUFFICES ASSUME LinkInit PROVE OutSent = <<>> /\ got = <<>>
    BY DEF Outward!Init
  <2>1. Wrote = 0 /\ got = <<>>
    BY TwoSlots DEF LinkInit, Wrote
  <2>2. 1 .. (ServerIss + 1 + 0) - (ServerIss + 1) = {}
    BY Sizes
  <2> QED
    BY <2>1, <2>2 DEF OutSent, Numbers
<1>2. LinkInv /\ StreamInv /\ OutInv /\ [LinkNext]_linkVars => OutInv'
  <2> SUFFICES ASSUME LinkInv, StreamInv, OutInv, UNCHANGED linkVars PROVE OutInv'
    BY OutNext
  <2>1. /\ tcp_socket' = tcp_socket /\ written' = written /\ client' = client
        /\ down' = down /\ got' = got
    BY DEF linkVars, vars
  <2> QED
    BY <2>1 DEF OutInv, Conns
<1>3. LinkInv /\ StreamInv /\ OutInv /\ OutFacts /\ OutFacts' /\ [LinkNext]_linkVars
        => [Outward!Send \/ Outward!Receive]_<<OutSent, got>>
  <2>1. CASE UNCHANGED linkVars
    BY <2>1 DEF linkVars, vars, OutSent, Wrote
  <2> SUFFICES ASSUME LinkInv, StreamInv, OutInv, OutFacts, OutFacts', LinkNext
               PROVE  [Outward!Send \/ Outward!Receive]_<<OutSent, got>>
    BY <2>1
  <2> DEFINE w == written[Conn]
             v == written'[Conn]
             p == Position(client)
             q == Position(client')
  <2>2. /\ Base \in Nat /\ w \in Nat /\ p \in Nat
        /\ OutSent = Numbers(Base, w) /\ got = Numbers(Base, p)
    BY DEF OutFacts
  <2>3. /\ v \in Nat /\ q \in Nat /\ q <= v
        /\ OutSent' = Numbers(Base, v) /\ got' = Numbers(Base, q)
    BY DEF OutFacts, Base
  <2>4. (got' = got /\ w <= v) \/ (written' = written /\ v = w /\ p <= q)
    BY OutNext DEF OutMoves
  <2> HIDE DEF w, v, p, q
  <2>5. CASE got' = got /\ w <= v
    <3>1. Outward!IsPrefix(OutSent, OutSent')
      BY <2>2, <2>3, <2>5, NumbersPrefix DEF Outward!IsPrefix
    <3> QED
      BY <2>5, <3>1 DEF Outward!Send
  <2>6. CASE written' = written /\ v = w /\ p <= q
    <3>1. OutSent' = OutSent
      BY <2>2, <2>3, <2>6
    <3>2. Outward!IsPrefix(got, got')
      BY <2>2, <2>3, <2>6, NumbersPrefix DEF Outward!IsPrefix
    <3>3. Outward!IsPrefix(got', OutSent)
      BY <2>2, <2>3, <2>6, NumbersPrefix DEF Outward!IsPrefix
    <3> QED
      BY <3>1, <3>2, <3>3 DEF Outward!Receive
  <2> QED
    BY <2>4, <2>5, <2>6
<1> QED
  BY <1>1, <1>2, <1>3, LinkInvariance, LinkInitStreams, LinkStreams, OutInit, TakenFacts, PTL
     DEF LinkSpec, OutStream, Outward!Spec
=============================================================================
