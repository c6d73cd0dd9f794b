------------------------- MODULE XnetTcpTableProofs -------------------------
(***************************************************************************)
(* Theorems about the table of XnetTcp: a connection has one block, a port *)
(* has one listener, a block stays with its connection, and the table      *)
(* implements the abstract service TcpService.                             *)
(***************************************************************************)
EXTENDS XnetTcpProofs

Handle == {"CLOSED", "LISTEN"}

SameOwner(t, u) == /\ u.local_port = t.local_port
                   /\ u.remote = t.remote
                   /\ u.handler = t.handler

(***************************************************************************)
(* What a step does to the table, as far as ports and peers go: a block is *)
(* left alone, freed, or changes within its class and keeps its owner; or  *)
(* one block is bound, opened, or taken by a new connection.               *)
(***************************************************************************)
Evolves(t, u) ==
    \/ u = t
    \/ u.state = "FREE"
    \/ t.state \in Connected /\ u.state \in Connected /\ SameOwner(t, u)
    \/ t.state \in Handle    /\ u.state \in Handle    /\ SameOwner(t, u)

OnlyEvolves == \A q \in Slot : Evolves(tcp_socket[q], tcp_socket'[q])

Others(S) == \A q \in Slot \ S : Evolves(tcp_socket[q], tcp_socket'[q])

Binds == \E s \in Slot :
    /\ tcp_socket[s].state = "CLOSED" /\ tcp_socket'[s].state = "CLOSED"
    /\ Bindable(s, tcp_socket'[s].local_port)
    /\ \A q \in Slot \ {s} : tcp_socket'[q] = tcp_socket[q]

Opens == \E s \in Slot :
    /\ tcp_socket[s].state = "FREE" /\ tcp_socket'[s].state = "CLOSED"
    /\ tcp_socket'[s].local_port = 0
    /\ \A q \in Slot \ {s} : tcp_socket'[q] = tcp_socket[q]

Connects == \E n \in Slot :
    /\ tcp_socket[n].state = "FREE" /\ tcp_socket'[n].state = "SYN_RECVD"
    /\ \A q \in Slot : tcp_socket[q].state \in Connected =>
         \/ tcp_socket[q].local_port # tcp_socket'[n].local_port
         \/ tcp_socket[q].remote # tcp_socket'[n].remote
    /\ Others({n})

Shape == OnlyEvolves \/ Binds \/ Opens \/ Connects
-----------------------------------------------------------------------------
LEMMA HeardOwner ==
    ASSUME IInv, NEW s \in Slot, NEW seg \in Arriving
    PROVE  /\ Heard(s, seg) \in Tcb
           /\ Heard(s, seg).state = tcp_socket[s].state
           /\ SameOwner(tcp_socket[s], Heard(s, seg))
BY HeardInv DEF IInv, BlockInv, SameOwner

LEMMA AfterSendOwner ==
    ASSUME NEW t \in Tcb, NEW flags, NEW r
    PROVE  /\ AfterSend(t, flags, r).state = t.state
           /\ SameOwner(t, AfterSend(t, flags, r))
BY DEF AfterSend, Sent, Refused, SameOwner, Tcb

LEMMA AfterDataOwner ==
    ASSUME IInv, NEW s \in Slot, NEW seg \in Arriving,
           tcp_socket[s].state = "ESTABLISHED"
    PROVE  /\ AfterData(s, seg) \in Tcb
           /\ AfterData(s, seg).state = "ESTABLISHED"
           /\ SameOwner(tcp_socket[s], AfterData(s, seg))
<1> DEFINE h == Heard(s, seg)
<1>1. h \in Tcb /\ SameOwner(tcp_socket[s], h)
  BY HeardOwner
<1>2. AfterData(s, seg) \in Tcb /\ AfterData(s, seg).state = "ESTABLISHED"
  BY AfterDataType DEF IInv, Countable
<1>3. AfterData(s, seg) = Received(Acknowledged(h, seg), seg)
  BY DEF AfterData
<1> HIDE DEF h
<1>4. SameOwner(h, Received(Acknowledged(h, seg), seg))
  BY <1>1 DEF Received, Acknowledged, SameOwner, Tcb
<1> QED
  BY <1>1, <1>2, <1>3, <1>4 DEF SameOwner

LEMMA UpdateShape ==
    ASSUME IInv, NEW s \in Slot, NEW t, Update(s, t), Evolves(tcp_socket[s], t)
    PROVE  Shape
BY DEF IInv, Update, Evolves, Shape, OnlyEvolves

LEMMA UnchangedShape ==
    ASSUME IInv, tcp_socket' = tcp_socket
    PROVE  Shape
BY DEF Shape, OnlyEvolves, Evolves

\* The SYN of a connection that has a block already reaches that block and
\* not the listening one, so the new block's connection is a new one.
LEMMA AcceptShape ==
    ASSUME IInv, NEW s \in Slot, NEW seg \in Arriving,
           Finds(s, seg), AcceptIn(s, seg)
    PROVE  Shape
<1> PICK n \in Slot, iss \in InitSeq, r \in XipOut :
      LET child == Child(tcp_socket[n], tcp_socket[s], seg, iss)
          after == AfterSend(child, {"SYN", "ACK"}, r)
      IN  /\ First(n, FreeSlots)
          /\ tcp_socket' = [tcp_socket EXCEPT
                              ![s] = Heard(s, seg),
                              ![n] = IF r = "OK" THEN after ELSE Freed(after)]
  BY DEF AcceptIn
<1> DEFINE child == Child(tcp_socket[n], tcp_socket[s], seg, iss)
           after == AfterSend(child, {"SYN", "ACK"}, r)
           new == IF r = "OK" THEN after ELSE Freed(after)
           h == Heard(s, seg)
<1>1. /\ tcp_socket[s].state = "LISTEN" /\ tcp_socket[n].state = "FREE"
      /\ tcp_socket \in [Slot -> Tcb] /\ s # n
      /\ tcp_socket' = [tcp_socket EXCEPT ![s] = h, ![n] = new]
      /\ tcp_socket[s].remote = NoPeer
      /\ {"SYN", "ACK"} \in SUBSET Flag
  BY DEF AcceptIn, First, FreeSlots, IInv, BlockInv, Flag
<1>2. h.state = "LISTEN" /\ SameOwner(tcp_socket[s], h)
  BY <1>1, HeardOwner
<1>3. /\ child.state = "SYN_RECVD"
      /\ child.local_port = tcp_socket[s].local_port /\ child.remote = seg.from
  <2>1. Allocated(tcp_socket[n], iss) \in Tcb
    BY <1>1, AllocatedType
  <2> QED
    BY <2>1 DEF Child, Tcb
<1>4. child \in Tcb
  BY <1>1, ChildType DEF Countable
<1> HIDE DEF child, h
<1>5. after.state = "SYN_RECVD" /\ SameOwner(child, after)
  BY <1>3, <1>4, AfterSendOwner
<1>6. after \in Tcb
  <2>1. Countable(child) /\ AheadBy(child, 0)
    BY <1>1, ChildType DEF child
  <2> QED
    BY <1>1, <2>1, AfterSendAccounts DEF Countable
<1>7. seg.from # NoPeer
  BY ArrivingType, TableAssumption
<1>8. /\ Exact(seg.from, seg.dest_port) = {}
      /\ tcp_socket[s].local_port = seg.dest_port
  BY <1>1, <1>7 DEF Finds, First, Last, Exact, Listening
<1> HIDE DEF after
<1>9. CASE r = "OK"
  <2>1. tcp_socket'[n] = after /\ tcp_socket'[s] = h
        /\ \A q \in Slot \ {s, n} : tcp_socket'[q] = tcp_socket[q]
    BY <1>1, <1>9
  <2>2. Others({n})
    BY <1>1, <1>2, <2>1 DEF Others, Evolves, Handle
  <2>3. /\ after.local_port = seg.dest_port /\ after.remote = seg.from
        /\ after.state = "SYN_RECVD"
    BY <1>3, <1>5, <1>8 DEF SameOwner
  <2>4. \A q \in Slot : tcp_socket[q].state \in Connected =>
          \/ tcp_socket[q].local_port # after.local_port
          \/ tcp_socket[q].remote # after.remote
    BY <1>8, <2>3 DEF Exact, Connected
  <2> QED
    BY <1>1, <2>1, <2>2, <2>3, <2>4 DEF Shape, Connects
<1>10. CASE r # "OK"
  <2>1. tcp_socket'[n] = Freed(after) /\ tcp_socket'[s] = h
        /\ \A q \in Slot \ {s, n} : tcp_socket'[q] = tcp_socket[q]
    BY <1>1, <1>10
  <2>2. Freed(after).state = "FREE"
    BY <1>6 DEF Freed, Tcb
  <2> QED
    BY <1>1, <1>2, <2>1, <2>2 DEF Shape, OnlyEvolves, Evolves, Handle
<1> QED
  BY <1>9, <1>10

\* xtcp_in.
LEMMA SegmentShape ==
    ASSUME IInv, NEW seg \in Arriving, xtcp_in(seg)
    PROVE  Shape
<1>1. CASE NoBlockIn(seg)
  BY <1>1, UnchangedShape DEF NoBlockIn
<1>2. ASSUME NEW s \in Slot, Finds(s, seg), AcceptIn(s, seg)
      PROVE  Shape
  BY <1>2, AcceptShape
<1>3. ASSUME NEW s \in Slot, Update(s, Heard(s, seg))
      PROVE  Shape
  <2>1. /\ tcp_socket[s] \in Tcb /\ Heard(s, seg) \in Tcb
        /\ Heard(s, seg).state = tcp_socket[s].state
        /\ SameOwner(tcp_socket[s], Heard(s, seg))
    BY HeardOwner DEF IInv
  <2>2. \/ tcp_socket[s].state = "FREE" \/ tcp_socket[s].state \in Handle
        \/ tcp_socket[s].state \in Connected
    BY <2>1 DEF Tcb, TcpState, Handle, Connected
  <2> QED
    BY <1>3, <2>1, <2>2, UpdateShape DEF Evolves
<1>4. ASSUME NEW s \in Slot, NEW t \in Tcb, Update(s, Freed(t))
      PROVE  Shape
  <2>1. Freed(t).state = "FREE"
    BY DEF Freed, Tcb
  <2> QED
    BY <1>4, <2>1, UpdateShape DEF Evolves
<1>5. ASSUME NEW s \in Slot, NEW t, Update(s, t),
             tcp_socket[s].state \in Connected, t.state \in Connected,
             SameOwner(tcp_socket[s], t)
      PROVE  Shape
  BY <1>5, UpdateShape DEF Evolves
<1>6. ASSUME NEW s \in Slot, SynRecvdIn(s, seg)
      PROVE  Shape
  <2> DEFINE h == Heard(s, seg)
             u == [h EXCEPT !.unacked_seq = SeqAdd(@, 1), !.state = "ESTABLISHED"]
  <2>1. h \in Tcb /\ SameOwner(tcp_socket[s], h)
    BY HeardOwner
  <2>2. tcp_socket[s].state = "SYN_RECVD" /\ Update(s, u)
    BY <1>6 DEF SynRecvdIn, InSequence
  <2> HIDE DEF h
  <2>3. u.state = "ESTABLISHED" /\ SameOwner(h, u)
    BY <2>1 DEF Tcb, SameOwner
  <2> HIDE DEF u
  <2> QED
    BY <1>5, <2>1, <2>2, <2>3 DEF SameOwner, Connected
<1>7. ASSUME NEW s \in Slot, FinWait1In(s, seg)
      PROVE  Shape
  <2> DEFINE h == Heard(s, seg)
             u == [h EXCEPT !.state = "FIN_WAIT_2"]
  <2>1. h \in Tcb /\ SameOwner(tcp_socket[s], h)
    BY HeardOwner
  <2>2. tcp_socket[s].state = "FIN_WAIT_1" /\ (Update(s, u) \/ Update(s, Freed(h)))
    BY <1>7 DEF FinWait1In, InSequence
  <2> HIDE DEF h
  <2>3. u.state = "FIN_WAIT_2" /\ SameOwner(h, u)
    BY <2>1 DEF Tcb, SameOwner
  <2> HIDE DEF u
  <2> QED
    BY <1>4, <1>5, <2>1, <2>2, <2>3 DEF SameOwner, Connected
<1>8. ASSUME NEW s \in Slot, FinWait2In(s, seg)
      PROVE  Shape
  <2> DEFINE h == Heard(s, seg)
             t == [h EXCEPT !.ack = SeqAdd(seg.seq, 1)]
  <2>1. PICK r \in XipOut : Update(s, Freed(AfterSend(t, {"ACK"}, r)))
    BY <1>8 DEF FinWait2In
  <2>2. h \in Tcb /\ BlockInv(h) /\ h.state = "FIN_WAIT_2" /\ {"ACK"} \in SUBSET Flag
    BY <1>8, HeardOwner, HeardInv DEF FinWait2In, InSequence, IInv, Flag
  <2>3. SeqAdd(seg.seq, 1) \in SeqNum
    BY ArrivingType, SeqAddType, SeqSpaceAssumption
  <2> HIDE DEF h
  <2>4. Countable(t)
    BY <2>2, <2>3, ConnectedCountable DEF Countable, Tcb, Connected
  <2>5. AfterSend(t, {"ACK"}, r) \in Tcb
    BY <2>2, <2>4, SentType, RefusedType DEF AfterSend
  <2> QED
    BY <1>4, <2>1, <2>5
<1>9. ASSUME NEW s \in Slot, LastAckIn(s, seg)
      PROVE  Shape
  BY <1>4, <1>9, HeardOwner DEF LastAckIn
<1>10. ASSUME NEW s \in Slot,
              EstablishedFinIn(s, seg) \/ EstablishedDataIn(s, seg)
                \/ EstablishedAckIn(s, seg)
       PROVE  Shape
  <2> DEFINE d == AfterData(s, seg)
             f == [d EXCEPT !.state = "LAST_ACK", !.ack = SeqAdd(seg.seq, 1)]
  <2>1. tcp_socket[s].state = "ESTABLISHED"
    BY <1>10 DEF EstablishedFinIn, EstablishedDataIn, EstablishedAckIn, InSequence
  <2>2. d \in Tcb /\ d.state = "ESTABLISHED" /\ SameOwner(tcp_socket[s], d)
    BY <2>1, AfterDataOwner
  <2>3. \/ Update(s, d)
        \/ \E r \in XipOut : Update(s, AfterSend(d, {"ACK"}, r))
        \/ \E r \in XipOut : Update(s, AfterSend(f, {"FIN", "ACK"}, r))
    BY <1>10 DEF EstablishedFinIn, EstablishedDataIn, EstablishedAckIn
  <2>4. SeqAdd(seg.seq, 1) \in SeqNum
    BY ArrivingType, SeqAddType, SeqSpaceAssumption
  <2> HIDE DEF d
  <2>5. f \in Tcb /\ f.state = "LAST_ACK" /\ SameOwner(d, f)
    BY <2>2, <2>4 DEF Tcb, TcpState, SameOwner
  <2> HIDE DEF f
  <2>6. ASSUME NEW r PROVE
          /\ AfterSend(d, {"ACK"}, r).state = "ESTABLISHED"
          /\ SameOwner(tcp_socket[s], AfterSend(d, {"ACK"}, r))
          /\ AfterSend(f, {"FIN", "ACK"}, r).state = "LAST_ACK"
          /\ SameOwner(tcp_socket[s], AfterSend(f, {"FIN", "ACK"}, r))
    BY <2>2, <2>5, AfterSendOwner DEF SameOwner
  <2> QED
    BY <1>5, <2>1, <2>2, <2>3, <2>6 DEF Connected
<1>11. ASSUME NEW s \in Slot,
              AcceptFullIn(s, seg) \/ NotSynIn(s, seg) \/ WrongSeqIn(s, seg)
                \/ IgnoredIn(s, seg)
       PROVE  Shape
  BY <1>3, <1>11 DEF AcceptFullIn, NotSynIn, WrongSeqIn, IgnoredIn
<1> QED
  BY <1>1, <1>2, <1>6, <1>7, <1>8, <1>9, <1>10, <1>11 DEF xtcp_in

\* The calls of an application.
LEMMA CallShape ==
    ASSUME IInv,
           \/ \E app \in App : xtcp_open(app)
           \/ \E s \in Slot : \/ \E port \in Port : xtcp_bind(s, port)
                              \/ xtcp_listen(s)
                              \/ xtcp_close(s)
                              \/ \E size \in WriteSizes : xtcp_write(s, size)
                              \/ \E size \in ReadSizes : xtcp_read(s, size)
    PROVE  Shape
<1>1. ASSUME NEW app \in App, xtcp_open(app)
      PROVE  Shape
  <2>1. PICK s \in Slot, iss \in InitSeq :
          /\ First(s, FreeSlots)
          /\ Update(s, [Allocated(tcp_socket[s], iss) EXCEPT !.state = "CLOSED",
                                                             !.handler = app])
    BY <1>1 DEF xtcp_open
  <2> DEFINE a == Allocated(tcp_socket[s], iss)
             u == [a EXCEPT !.state = "CLOSED", !.handler = app]
  <2>2. tcp_socket \in [Slot -> Tcb] /\ tcp_socket[s].state = "FREE"
    BY <2>1 DEF First, FreeSlots, IInv
  <2>3. a \in Tcb /\ a.local_port = 0
    <3>1. a \in Tcb
      BY <2>2, AllocatedType
    <3> QED
      BY <2>2, <3>1 DEF Allocated, Tcb
  <2>4. tcp_socket' = [tcp_socket EXCEPT ![s] = u]
    BY <2>1 DEF Update
  <2> HIDE DEF a
  <2>5. u.state = "CLOSED" /\ u.local_port = 0
    BY <2>3 DEF Tcb
  <2> HIDE DEF u
  <2> QED
    BY <2>2, <2>4, <2>5 DEF Shape, Opens
<1>2. ASSUME NEW s \in Slot, NEW port \in Port, xtcp_bind(s, port)
      PROVE  Shape
  <2> DEFINE u == [tcp_socket[s] EXCEPT !.local_port = port]
  <2>1. /\ tcp_socket \in [Slot -> Tcb] /\ tcp_socket[s].state = "CLOSED"
        /\ Bindable(s, port) /\ tcp_socket' = [tcp_socket EXCEPT ![s] = u]
    BY <1>2 DEF xtcp_bind, Update, IInv
  <2>2. u.state = "CLOSED" /\ u.local_port = port
    BY <2>1 DEF Tcb
  <2> HIDE DEF u
  <2> QED
    BY <2>1, <2>2 DEF Shape, Binds
<1>3. ASSUME NEW s \in Slot, NEW u, Update(s, u), SameOwner(tcp_socket[s], u),
             \/ tcp_socket[s].state \in Connected /\ u.state \in Connected
             \/ tcp_socket[s].state \in Handle /\ u.state \in Handle
      PROVE  Shape
  BY <1>3, UpdateShape DEF Evolves
<1>4. ASSUME NEW s \in Slot, xtcp_listen(s)
      PROVE  Shape
  <2> DEFINE u == [tcp_socket[s] EXCEPT !.state = "LISTEN"]
  <2>1. tcp_socket[s] \in Tcb /\ tcp_socket[s].state = "CLOSED" /\ Update(s, u)
    BY <1>4 DEF xtcp_listen, IInv
  <2>2. u.state = "LISTEN" /\ SameOwner(tcp_socket[s], u)
    BY <2>1 DEF Tcb, SameOwner
  <2> HIDE DEF u
  <2> QED
    BY <1>3, <2>1, <2>2 DEF Handle
<1>5. ASSUME NEW s \in Slot, CloseOther(s)
      PROVE  Shape
  <2>1. Freed(tcp_socket[s]).state = "FREE" /\ Update(s, Freed(tcp_socket[s]))
    BY <1>5 DEF CloseOther, IInv, Freed, Tcb
  <2> QED
    BY <2>1, UpdateShape DEF Evolves
<1>6. ASSUME NEW s \in Slot, CloseEstablished(s)
      PROVE  Shape
  <2>1. PICK r \in XipOut :
          LET after == AfterSend(tcp_socket[s], {"FIN", "ACK"}, r)
          IN  Update(s, IF r = "OK" THEN [after EXCEPT !.state = "FIN_WAIT_1"]
                                    ELSE after)
    BY <1>6 DEF CloseEstablished
  <2> DEFINE after == AfterSend(tcp_socket[s], {"FIN", "ACK"}, r)
             u == [after EXCEPT !.state = "FIN_WAIT_1"]
  <2>2. /\ tcp_socket[s].state = "ESTABLISHED" /\ BlockInv(tcp_socket[s])
        /\ tcp_socket[s] \in Tcb /\ {"FIN", "ACK"} \in SUBSET Flag
    BY <1>6 DEF CloseEstablished, IInv, Flag
  <2>3. Countable(tcp_socket[s])
    BY <2>2, ConnectedCountable DEF Connected
  <2>4. /\ after \in Tcb /\ after.state = "ESTABLISHED"
        /\ SameOwner(tcp_socket[s], after)
    <3>1. after \in Tcb
      BY <2>2, <2>3, SentType, RefusedType DEF AfterSend
    <3> QED
      BY <2>2, <3>1, AfterSendOwner
  <2>5. Update(s, u) \/ Update(s, after)
    BY <2>1
  <2> HIDE DEF after
  <2>6. u.state = "FIN_WAIT_1" /\ SameOwner(tcp_socket[s], u)
    BY <2>4 DEF Tcb, SameOwner
  <2> HIDE DEF u
  <2> QED
    BY <1>3, <2>2, <2>4, <2>5, <2>6 DEF Connected
<1>7. ASSUME NEW s \in Slot, NEW size \in WriteSizes, xtcp_write(s, size)
      PROVE  Shape
  <2> DEFINE from == [i \in 1 .. size |-> SeqAdd(written[s], i - 1)]
             t == [tcp_socket[s] EXCEPT !.tx_buf = Written(@, from)]
  <2>1. PICK r \in XipOut : Update(s, AfterSend(t, {"ACK"}, r))
    BY <1>7 DEF xtcp_write
  <2>2. /\ tcp_socket[s] \in Tcb /\ tcp_socket[s].state = "ESTABLISHED"
        /\ tcp_socket[s].tx_buf \in Buf /\ written[s] \in SeqNum
        /\ size \in 0 .. SeqSpace
    BY <1>7, InputAssumption DEF xtcp_write, IInv, Tcb
  <2>3. from \in Seq(Byte)
    <3>1. \A i \in 1 .. size : SeqAdd(written[s], i - 1) \in Byte
      BY <2>2, SeqSpaceAssumption DEF SeqAdd, SeqNum, Byte
    <3> QED
      BY <2>2, <3>1
  <2>4. Written(tcp_socket[s].tx_buf, from) \in Buf
    BY <2>2, <2>3, WrittenType
  <2> HIDE DEF from
  <2>5. t \in Tcb /\ t.state = "ESTABLISHED" /\ SameOwner(tcp_socket[s], t)
    BY <2>2, <2>4 DEF Tcb, SameOwner
  <2> HIDE DEF t
  <2>6. /\ AfterSend(t, {"ACK"}, r).state = "ESTABLISHED"
        /\ SameOwner(tcp_socket[s], AfterSend(t, {"ACK"}, r))
    BY <2>5, AfterSendOwner DEF SameOwner
  <2> QED
    BY <1>3, <2>1, <2>2, <2>6 DEF Connected
<1>8. ASSUME NEW s \in Slot, NEW size \in ReadSizes, xtcp_read(s, size)
      PROVE  Shape
  <2> DEFINE u == [tcp_socket[s] EXCEPT !.rx_buf = Taken(@, size)]
  <2>1. /\ tcp_socket[s] \in Tcb /\ tcp_socket[s].state \in Connected
        /\ Update(s, u)
    BY <1>8 DEF xtcp_read, IInv
  <2>2. u.state = tcp_socket[s].state /\ SameOwner(tcp_socket[s], u)
    BY <2>1 DEF Tcb, SameOwner
  <2> HIDE DEF u
  <2> QED
    BY <1>3, <2>1, <2>2
<1> QED
  BY <1>1, <1>2, <1>4, <1>5, <1>6, <1>7, <1>8 DEF xtcp_close

LEMMA StepShape == IInv /\ [Next]_vars => Shape
BY SegmentShape, CallShape, UnchangedShape DEF Next, vars
-----------------------------------------------------------------------------
(***************************************************************************)
(* The theorems.                                                           *)
(***************************************************************************)
TableInv == IInv /\ TupleUnique /\ ListenerUnique

LEMMA TupleStep == IInv /\ TupleUnique /\ Shape => TupleUnique'
<1> SUFFICES ASSUME IInv, TupleUnique, Shape,
                    NEW p \in Slot, NEW q \in Slot, p # q,
                    tcp_socket'[p].state \in Connected,
                    tcp_socket'[q].state \in Connected,
                    tcp_socket'[p].local_port = tcp_socket'[q].local_port,
                    tcp_socket'[p].remote = tcp_socket'[q].remote
             PROVE  FALSE
  BY DEF TupleUnique, Live
<1>1. ASSUME NEW s \in Slot, Evolves(tcp_socket[s], tcp_socket'[s]),
             tcp_socket'[s].state \in Connected
      PROVE  /\ tcp_socket[s].state \in Connected
             /\ tcp_socket'[s].local_port = tcp_socket[s].local_port
             /\ tcp_socket'[s].remote = tcp_socket[s].remote
  BY <1>1 DEF Evolves, SameOwner, Handle, Connected
<1>2. CASE OnlyEvolves
  BY <1>1, <1>2 DEF OnlyEvolves, TupleUnique, Live
<1>3. CASE Binds
  BY <1>3 DEF Binds, TupleUnique, Live, Connected
<1>4. CASE Opens
  BY <1>4 DEF Opens, TupleUnique, Live, Connected
<1>5. CASE Connects
  <2>1. PICK n \in Slot :
          /\ \A r \in Slot : tcp_socket[r].state \in Connected =>
               \/ tcp_socket[r].local_port # tcp_socket'[n].local_port
               \/ tcp_socket[r].remote # tcp_socket'[n].remote
          /\ Others({n})
    BY <1>5 DEF Connects
  <2> QED
    BY <1>1, <2>1 DEF Others, TupleUnique, Live
<1> QED
  BY <1>2, <1>3, <1>4, <1>5 DEF Shape

LEMMA ListenerStep == IInv /\ ListenerUnique /\ Shape => ListenerUnique'
<1> SUFFICES ASSUME IInv, ListenerUnique, Shape,
                    NEW p \in Slot, NEW q \in Slot, p # q,
                    tcp_socket'[p].state \in Handle,
                    tcp_socket'[q].state \in Handle,
                    tcp_socket'[p].local_port = tcp_socket'[q].local_port,
                    tcp_socket'[q].local_port # 0
             PROVE  FALSE
  BY DEF ListenerUnique, Live, Handle
<1>1. ASSUME NEW s \in Slot, Evolves(tcp_socket[s], tcp_socket'[s]),
             tcp_socket'[s].state \in Handle
      PROVE  /\ tcp_socket[s].state \in Handle
             /\ tcp_socket'[s].local_port = tcp_socket[s].local_port
  BY <1>1 DEF Evolves, SameOwner, Handle, Connected
<1>2. CASE OnlyEvolves
  BY <1>1, <1>2 DEF OnlyEvolves, ListenerUnique, Live, Handle
<1>3. CASE Binds
  <2>1. PICK s \in Slot : /\ Bindable(s, tcp_socket'[s].local_port)
                          /\ \A r \in Slot \ {s} : tcp_socket'[r] = tcp_socket[r]
    BY <1>3 DEF Binds
  <2>2. CASE s = p \/ s = q
    BY <2>1, <2>2 DEF Bindable
  <2>3. CASE s # p /\ s # q
    BY <2>1, <2>3 DEF ListenerUnique, Live, Handle
  <2> QED
    BY <2>2, <2>3
<1>4. CASE Opens
  BY <1>4 DEF Opens, ListenerUnique, Live, Handle
<1>5. CASE Connects
  <2>1. PICK n \in Slot : tcp_socket'[n].state = "SYN_RECVD" /\ Others({n})
    BY <1>5 DEF Connects
  <2> QED
    BY <1>1, <2>1 DEF Others, ListenerUnique, Live, Handle
<1> QED
  BY <1>2, <1>3, <1>4, <1>5 DEF Shape

LEMMA TableInvariance == Spec => []TableInv
<1>1. Init => TableInv
  <2>1. Init => TupleUnique /\ ListenerUnique
    BY DEF Init, ZeroTcb, TupleUnique, ListenerUnique, Live, Connected
  <2> QED
    BY <2>1, InitInv DEF TableInv
<1>2. TableInv /\ [Next]_vars => TableInv'
  BY NextKeeps, StepShape, TupleStep, ListenerStep DEF TableInv
<1> QED
  BY <1>1, <1>2, PTL DEF Spec

\* For every table and every set of peers and ports: a connection has one
\* block, so xtcp_find finds the right one.
THEOREM OneBlockPerConnection == Spec => []TupleUnique
<1>1. TableInv => TupleUnique
  BY DEF TableInv
<1> QED
  BY <1>1, TableInvariance, PTL

\* For every table and every set of ports: a port has one listener.
THEOREM OneListenerPerPort == Spec => []ListenerUnique
<1>1. TableInv => ListenerUnique
  BY DEF TableInv
<1> QED
  BY <1>1, TableInvariance, PTL

\* For every table: no step gives the block of a live connection to another
\* peer, port or application.
THEOREM BlocksStay == Spec => NoSteal
<1> DEFINE Stay == \A s \in Slot :
      Live(s, Connected) /\ tcp_socket'[s].state # "FREE" =>
        /\ tcp_socket'[s].state \in Connected
        /\ tcp_socket'[s].remote = tcp_socket[s].remote
        /\ tcp_socket'[s].local_port = tcp_socket[s].local_port
        /\ tcp_socket'[s].handler = tcp_socket[s].handler
<1>1. IInv /\ [Next]_vars => [Stay]_vars
  <2> SUFFICES ASSUME IInv, [Next]_vars PROVE Stay
    OBVIOUS
  <2>1. Shape
    BY StepShape
  <2> QED
    BY <2>1 DEF Shape, OnlyEvolves, Binds, Opens, Connects, Others, Evolves,
                SameOwner, Handle, Connected, Live
<1>2. Spec => [][Stay]_vars
  BY <1>1, Invariance, PTL DEF Spec
<1> QED
  BY <1>2 DEF NoSteal
-----------------------------------------------------------------------------
(***************************************************************************)
(* The refinement of TcpService: what an application sees of the table are *)
(* the phases and the owners of its blocks.                                *)
(***************************************************************************)
Phases == [s \in Slot |-> PhaseOf(tcp_socket[s].state)]
Owners == [s \in Slot |-> tcp_socket[s].handler]

Tells(s, e) == event' = {[handler |-> tcp_socket[s].handler, tcp |-> s, event |-> e]}

\* What a step may make of one block whose owner stays: the phases before and
\* after, and what it reports.
Moves(s, p, q) ==
    \/ q = p /\ event' = {}
    \/ p = "open" /\ q = "open" /\ Tells(s, "DATA_RECV")
    \/ p = "pending" /\ q = "open" /\ Tells(s, "CONNECTED")
    \/ p = "open" /\ q \in {"peerClosed", "userClosed"} /\ event' = {}
    \/ p = "peerClosed" /\ q = "unused" /\ Tells(s, "CLOSED")
    \/ p \in {"handle", "userClosed", "peerClosed"} /\ q = "unused" /\ event' = {}

LEMMA MoveImplements ==
    ASSUME IInv, NEW s \in Slot, NEW t, Update(s, t),
           t.handler = tcp_socket[s].handler,
           Moves(s, PhaseOf(tcp_socket[s].state), PhaseOf(t.state))
    PROVE  Service!Next
<1> DEFINE p == PhaseOf(tcp_socket[s].state)
           q == PhaseOf(t.state)
<1>1. tcp_socket' = [tcp_socket EXCEPT ![s] = t] /\ tcp_socket \in [Slot -> Tcb]
  BY DEF Update, IInv
<1>2. Owners' = Owners /\ Owners[s] = tcp_socket[s].handler
  BY <1>1 DEF Owners
<1>3. Phases' = [Phases EXCEPT ![s] = q] /\ Phases[s] = p
  BY <1>1 DEF Phases
<1>4. Moves(s, p, q)
  OBVIOUS
<1> HIDE DEF p, q
<1>5. CASE q = p /\ event' = {}
  <2>1. Phases' = Phases
    BY <1>3, <1>5 DEF Phases
  <2> QED
    BY <1>2, <1>5, <2>1 DEF Service!Next, Service!Quiet, Phases, Owners
<1>6. CASE p = "open" /\ q = "open" /\ Tells(s, "DATA_RECV")
  <2>1. Phases' = Phases
    BY <1>3, <1>6 DEF Phases
  <2>2. Service!Deliver(s)
    BY <1>2, <1>3, <1>6, <2>1 DEF Service!Deliver, Service!Tell, Tells, Phases, Owners
  <2> QED
    BY <2>2 DEF Service!Next
<1>7. CASE p = "pending" /\ q = "open" /\ Tells(s, "CONNECTED")
  <2>1. Service!Connect(s)
    BY <1>2, <1>3, <1>7
       DEF Service!Connect, Service!Become, Service!Tell, Tells, Phases, Owners
  <2> QED
    BY <2>1 DEF Service!Next
<1>8. CASE p = "open" /\ q \in {"peerClosed", "userClosed"} /\ event' = {}
  <2>1. Service!PeerCloses(s) \/ Service!UserCloses(s)
    BY <1>2, <1>3, <1>8
       DEF Service!PeerCloses, Service!UserCloses, Service!Become, Phases, Owners
  <2> QED
    BY <2>1 DEF Service!Next
<1>9. CASE p = "peerClosed" /\ q = "unused" /\ Tells(s, "CLOSED")
  <2>1. Service!Finish(s)
    BY <1>2, <1>3, <1>9
       DEF Service!Finish, Service!Become, Service!Tell, Tells, Phases, Owners
  <2> QED
    BY <2>1 DEF Service!Next
<1>10. CASE p \in {"handle", "userClosed", "peerClosed"} /\ q = "unused" /\ event' = {}
  <2>1. Service!Release(s)
    BY <1>2, <1>3, <1>10 DEF Service!Release, Service!Become, Phases, Owners
  <2> QED
    BY <2>1 DEF Service!Next
<1> QED
  BY <1>4, <1>5, <1>6, <1>7, <1>8, <1>9, <1>10 DEF Moves

\* tcp_process_accept: the new block belongs to the application of the
\* listening one; when its SYN+ACK is not sent it is unused again.
LEMMA AcceptImplements ==
    ASSUME IInv, NEW s \in Slot, NEW seg \in Arriving, AcceptIn(s, seg)
    PROVE  Service!Next
<1> PICK n \in Slot, iss \in InitSeq, r \in XipOut :
      LET child == Child(tcp_socket[n], tcp_socket[s], seg, iss)
          after == AfterSend(child, {"SYN", "ACK"}, r)
      IN  /\ First(n, FreeSlots)
          /\ tcp_socket' = [tcp_socket EXCEPT
                              ![s] = Heard(s, seg),
                              ![n] = IF r = "OK" THEN after ELSE Freed(after)]
  BY DEF AcceptIn
<1> DEFINE child == Child(tcp_socket[n], tcp_socket[s], seg, iss)
           after == AfterSend(child, {"SYN", "ACK"}, r)
           new == IF r = "OK" THEN after ELSE Freed(after)
           h == Heard(s, seg)
<1>1. /\ tcp_socket[s].state = "LISTEN" /\ tcp_socket[n].state = "FREE"
      /\ tcp_socket \in [Slot -> Tcb] /\ s # n /\ event' = {}
      /\ tcp_socket' = [tcp_socket EXCEPT ![s] = h, ![n] = new]
      /\ {"SYN", "ACK"} \in SUBSET Flag
  BY DEF AcceptIn, First, FreeSlots, IInv, Flag
<1>2. h.state = "LISTEN" /\ h.handler = tcp_socket[s].handler
  BY <1>1, HeardOwner DEF SameOwner
<1>3. Countable(child) /\ child \in Tcb /\ child.state = "SYN_RECVD" /\ AheadBy(child, 0)
  BY <1>1, ChildType DEF Countable
<1>4. child.handler = tcp_socket[s].handler
  <2>1. Allocated(tcp_socket[n], iss) \in Tcb
    BY <1>1, AllocatedType
  <2> QED
    BY <2>1 DEF Child, Tcb
<1> HIDE DEF child, h
<1>5. /\ after \in Tcb /\ after.state = "SYN_RECVD"
      /\ after.handler = tcp_socket[s].handler
  <2>1. after \in Tcb
    BY <1>1, <1>3, AfterSendAccounts DEF Countable
  <2> QED
    BY <1>3, <1>4, <2>1, AfterSendOwner DEF SameOwner
<1> HIDE DEF after
<1>6. new.state \in {"SYN_RECVD", "FREE"} /\ new.handler = tcp_socket[s].handler
  BY <1>5 DEF Freed, Tcb
<1> HIDE DEF new
<1>7. /\ Phases[s] = "handle" /\ Phases[n] = "unused"
      /\ Owners[s] = tcp_socket[s].handler
  BY <1>1 DEF Phases, Owners, PhaseOf
<1>8. Owners' = [Owners EXCEPT ![n] = Owners[s]]
  BY <1>1, <1>2, <1>6, <1>7 DEF Owners
<1>9. PhaseOf(h.state) = "handle" /\ PhaseOf(new.state) \in {"pending", "unused"}
  BY <1>2, <1>6 DEF PhaseOf
<1>10. Phases' \in {Phases, [Phases EXCEPT ![n] = "pending"]}
  <2>1. /\ tcp_socket'[s] = h /\ tcp_socket'[n] = new
        /\ \A q \in Slot \ {s, n} : tcp_socket'[q] = tcp_socket[q]
    BY <1>1
  <2>2. /\ \A q \in Slot : Phases[q] = PhaseOf(tcp_socket[q].state)
        /\ \A q \in Slot : Phases'[q] = PhaseOf(tcp_socket'[q].state)
        /\ Phases' = [q \in Slot |-> Phases'[q]]
        /\ Phases = [q \in Slot |-> Phases[q]]
    BY DEF Phases
  <2> HIDE DEF Phases, PhaseOf
  <2>3. ASSUME NEW q \in Slot
        PROVE  Phases'[q] = IF q = n THEN PhaseOf(new.state) ELSE Phases[q]
    <3>1. CASE q = s
      BY <1>1, <1>7, <1>9, <2>1, <2>2, <3>1
    <3>2. CASE q # s
      BY <2>1, <2>2, <3>2
    <3> QED
      BY <3>1, <3>2
  <2>4. CASE PhaseOf(new.state) = "pending"
    <3>1. Phases' = [Phases EXCEPT ![n] = "pending"]
      BY <2>2, <2>3, <2>4
    <3> QED
      BY <3>1
  <2>5. CASE PhaseOf(new.state) = "unused"
    <3>1. Phases' = Phases
      BY <1>7, <2>2, <2>3, <2>5
    <3> QED
      BY <3>1
  <2> QED
    BY <1>9, <2>4, <2>5
<1>11. Service!Offer(n)
  BY <1>1, <1>7, <1>8, <1>10 DEF Service!Offer, Phases, Owners
<1> QED
  BY <1>11 DEF Service!Next

\* xtcp_in: for each branch, the block after it and the report.
LEMMA SegmentImplements ==
    ASSUME IInv, NEW seg \in Arriving, xtcp_in(seg)
    PROVE  Service!Next
<1>1. CASE NoBlockIn(seg)
  BY <1>1 DEF NoBlockIn, Service!Next, Service!Quiet
<1>2. ASSUME NEW s \in Slot, Update(s, Heard(s, seg)), event' = {}
      PROVE  Service!Next
  <2>1. /\ Heard(s, seg).state = tcp_socket[s].state
        /\ Heard(s, seg).handler = tcp_socket[s].handler
    BY HeardOwner DEF SameOwner
  <2>2. Moves(s, PhaseOf(tcp_socket[s].state), PhaseOf(Heard(s, seg).state))
    BY <1>2, <2>1 DEF Moves
  <2> QED
    BY <1>2, <2>1, <2>2, MoveImplements
<1>3. ASSUME NEW s \in Slot,
             AcceptFullIn(s, seg) \/ NotSynIn(s, seg) \/ WrongSeqIn(s, seg)
               \/ IgnoredIn(s, seg)
      PROVE  Service!Next
  BY <1>2, <1>3 DEF AcceptFullIn, NotSynIn, WrongSeqIn, IgnoredIn, Silent
<1>4. ASSUME NEW s \in Slot, SynRecvdIn(s, seg)
      PROVE  Service!Next
  <2> DEFINE h == Heard(s, seg)
             u == [h EXCEPT !.unacked_seq = SeqAdd(@, 1), !.state = "ESTABLISHED"]
  <2>1. h \in Tcb /\ h.handler = tcp_socket[s].handler
    BY HeardOwner DEF SameOwner
  <2>2. tcp_socket[s].state = "SYN_RECVD" /\ Update(s, u) /\ Tells(s, "CONNECTED")
    BY <1>4 DEF SynRecvdIn, InSequence, Notify, Tells
  <2> HIDE DEF h
  <2>3. u.state = "ESTABLISHED" /\ u.handler = h.handler
    BY <2>1 DEF Tcb
  <2> HIDE DEF u
  <2>4. Moves(s, PhaseOf(tcp_socket[s].state), PhaseOf(u.state))
    BY <2>2, <2>3 DEF Moves, PhaseOf
  <2> QED
    BY <2>1, <2>2, <2>3, <2>4, MoveImplements
<1>5. ASSUME NEW s \in Slot, FinWait1In(s, seg)
      PROVE  Service!Next
  <2> DEFINE h == Heard(s, seg)
             u == [h EXCEPT !.state = "FIN_WAIT_2"]
             v == IF "FIN" \in seg.flags THEN Freed(h) ELSE u
  <2>1. h \in Tcb /\ h.handler = tcp_socket[s].handler
    BY HeardOwner DEF SameOwner
  <2>2. tcp_socket[s].state = "FIN_WAIT_1" /\ Update(s, v) /\ event' = {}
    BY <1>5 DEF FinWait1In, InSequence, Silent
  <2> HIDE DEF h
  <2>3. v.state \in {"FREE", "FIN_WAIT_2"} /\ v.handler = h.handler
    BY <2>1 DEF Tcb, Freed
  <2> HIDE DEF v
  <2>4. Moves(s, PhaseOf(tcp_socket[s].state), PhaseOf(v.state))
    BY <2>2, <2>3 DEF Moves, PhaseOf
  <2> QED
    BY <2>1, <2>2, <2>3, <2>4, MoveImplements
<1>6. ASSUME NEW s \in Slot, FinWait2In(s, seg)
      PROVE  Service!Next
  <2> DEFINE h == Heard(s, seg)
             t == [h EXCEPT !.ack = SeqAdd(seg.seq, 1)]
  <2>1. PICK r \in XipOut : Update(s, Freed(AfterSend(t, {"ACK"}, r)))
    BY <1>6 DEF FinWait2In
  <2> DEFINE v == Freed(AfterSend(t, {"ACK"}, r))
  <2>2. tcp_socket[s].state = "FIN_WAIT_2" /\ event' = {}
    BY <1>6 DEF FinWait2In, InSequence
  <2>3. h \in Tcb /\ h.handler = tcp_socket[s].handler
    BY HeardOwner DEF SameOwner
  <2> HIDE DEF h
  <2>4. v.state = "FREE" /\ v.handler = h.handler
    BY <2>3 DEF Freed, AfterSend, Sent, Refused, Tcb
  <2>5. Update(s, v)
    BY <2>1
  <2> HIDE DEF v
  <2>6. Moves(s, PhaseOf(tcp_socket[s].state), PhaseOf(v.state))
    BY <2>2, <2>4 DEF Moves, PhaseOf
  <2> QED
    BY <2>3, <2>4, <2>5, <2>6, MoveImplements
<1>7. ASSUME NEW s \in Slot, LastAckIn(s, seg)
      PROVE  Service!Next
  <2> DEFINE h == Heard(s, seg)
             v == Freed(h)
  <2>1. h \in Tcb /\ h.handler = tcp_socket[s].handler
    BY HeardOwner DEF SameOwner
  <2>2. tcp_socket[s].state = "LAST_ACK" /\ Update(s, v) /\ Tells(s, "CLOSED")
    BY <1>7 DEF LastAckIn, InSequence, Notify, Tells
  <2> HIDE DEF h
  <2>3. v.state = "FREE" /\ v.handler = h.handler
    BY <2>1 DEF Tcb, Freed
  <2> HIDE DEF v
  <2>4. Moves(s, PhaseOf(tcp_socket[s].state), PhaseOf(v.state))
    BY <2>2, <2>3 DEF Moves, PhaseOf
  <2> QED
    BY <2>1, <2>2, <2>3, <2>4, MoveImplements
<1>8. ASSUME NEW s \in Slot,
             EstablishedFinIn(s, seg) \/ EstablishedDataIn(s, seg)
               \/ EstablishedAckIn(s, seg)
      PROVE  Service!Next
  <2> DEFINE d == AfterData(s, seg)
             f == [d EXCEPT !.state = "LAST_ACK", !.ack = SeqAdd(seg.seq, 1)]
  <2>1. tcp_socket[s].state = "ESTABLISHED" /\ (event' = {} \/ Tells(s, "DATA_RECV"))
    BY <1>8 DEF EstablishedFinIn, EstablishedDataIn, EstablishedAckIn, InSequence,
                Notify, Tells
  <2>2. d \in Tcb /\ d.state = "ESTABLISHED" /\ d.handler = tcp_socket[s].handler
    BY <2>1, AfterDataOwner DEF SameOwner
  <2>3. SeqAdd(seg.seq, 1) \in SeqNum
    BY ArrivingType, SeqAddType, SeqSpaceAssumption
  <2>4. \/ Update(s, d)
        \/ \E r \in XipOut : Update(s, AfterSend(d, {"ACK"}, r))
        \/ /\ \E r \in XipOut : Update(s, AfterSend(f, {"FIN", "ACK"}, r))
           /\ event' = {}
    BY <1>8 DEF EstablishedFinIn, EstablishedDataIn, EstablishedAckIn
  <2> HIDE DEF d
  <2>5. f \in Tcb /\ f.state = "LAST_ACK" /\ f.handler = d.handler
    BY <2>2, <2>3 DEF Tcb, TcpState
  <2> HIDE DEF f
  <2>6. ASSUME NEW u, Update(s, u), u.handler = tcp_socket[s].handler,
               u.state = "ESTABLISHED"
        PROVE  Service!Next
    <3>1. Moves(s, PhaseOf(tcp_socket[s].state), PhaseOf(u.state))
      BY <2>1, <2>6 DEF Moves, PhaseOf
    <3> QED
      BY <2>6, <3>1, MoveImplements
  <2>7. ASSUME NEW r \in XipOut, Update(s, AfterSend(d, {"ACK"}, r))
        PROVE  Service!Next
    <3>1. /\ AfterSend(d, {"ACK"}, r).state = "ESTABLISHED"
          /\ AfterSend(d, {"ACK"}, r).handler = tcp_socket[s].handler
      BY <2>2, AfterSendOwner DEF SameOwner
    <3> QED
      BY <2>6, <2>7, <3>1
  <2>8. ASSUME NEW r \in XipOut, Update(s, AfterSend(f, {"FIN", "ACK"}, r)), event' = {}
        PROVE  Service!Next
    <3> DEFINE u == AfterSend(f, {"FIN", "ACK"}, r)
    <3>1. u.state = "LAST_ACK" /\ u.handler = tcp_socket[s].handler
      BY <2>2, <2>5, AfterSendOwner DEF SameOwner
    <3> HIDE DEF u
    <3>2. Moves(s, PhaseOf(tcp_socket[s].state), PhaseOf(u.state))
      BY <2>1, <2>8, <3>1 DEF Moves, PhaseOf
    <3> QED
      BY <2>8, <3>1, <3>2, MoveImplements DEF u
  <2> QED
    BY <2>2, <2>4, <2>6, <2>7, <2>8
<1> QED
  BY <1>1, <1>3, <1>4, <1>5, <1>6, <1>7, <1>8, AcceptImplements DEF xtcp_in

\* The calls of an application: nothing is reported of them.
LEMMA OpenImplements ==
    ASSUME IInv, NEW app \in App, xtcp_open(app)
    PROVE  Service!Next
<1>1. PICK s \in Slot, iss \in InitSeq :
        /\ First(s, FreeSlots)
        /\ Update(s, [Allocated(tcp_socket[s], iss) EXCEPT !.state = "CLOSED",
                                                           !.handler = app])
  BY DEF xtcp_open
<1> DEFINE a == Allocated(tcp_socket[s], iss)
           u == [a EXCEPT !.state = "CLOSED", !.handler = app]
<1>2. /\ tcp_socket \in [Slot -> Tcb] /\ tcp_socket[s].state = "FREE" /\ event' = {}
      /\ tcp_socket' = [tcp_socket EXCEPT ![s] = u]
  BY <1>1 DEF First, FreeSlots, IInv, xtcp_open, Silent, Update
<1>3. a \in Tcb
  BY <1>2, AllocatedType
<1> HIDE DEF a
<1>4. u.state = "CLOSED" /\ u.handler = app
  BY <1>3 DEF Tcb
<1> HIDE DEF u
<1>5. /\ Phases[s] = "unused" /\ Phases' = [Phases EXCEPT ![s] = "handle"]
      /\ Owners' = [Owners EXCEPT ![s] = app]
  <2>1. PhaseOf(tcp_socket[s].state) = "unused" /\ PhaseOf(u.state) = "handle"
    BY <1>2, <1>4 DEF PhaseOf
  <2> QED
    BY <1>2, <1>4, <2>1 DEF Phases, Owners
<1>6. Service!Open(s)
  BY <1>2, <1>5 DEF Service!Open, Service!Become, Phases, Owners
<1> QED
  BY <1>6 DEF Service!Next

LEMMA CallImplements ==
    ASSUME IInv, NEW s \in Slot,
           \/ \E port \in Port : xtcp_bind(s, port)
           \/ xtcp_listen(s)
           \/ xtcp_close(s)
           \/ \E size \in WriteSizes : xtcp_write(s, size)
           \/ \E size \in ReadSizes : xtcp_read(s, size)
    PROVE  Service!Next
<1> DEFINE t == tcp_socket[s]
<1>1. t \in Tcb
  BY DEF IInv
<1>2. event' = {}
  BY DEF xtcp_bind, xtcp_listen, xtcp_close, CloseEstablished, CloseOther, xtcp_write,
         xtcp_read, Silent
<1>3. ASSUME NEW u, Update(s, u), u.handler = t.handler,
             \/ PhaseOf(u.state) = PhaseOf(t.state)
             \/ t.state = "ESTABLISHED" /\ u.state = "FIN_WAIT_1"
             \/ /\ t.state \in TcpState \ {"FREE", "SYN_RECVD", "ESTABLISHED"}
                /\ u.state = "FREE"
      PROVE  Service!Next
  <2>1. Moves(s, PhaseOf(t.state), PhaseOf(u.state))
    BY <1>2, <1>3 DEF Moves, PhaseOf, TcpState
  <2> QED
    BY <1>3, <2>1, MoveImplements
<1>4. ASSUME NEW port \in Port, xtcp_bind(s, port)
      PROVE  Service!Next
  <2> DEFINE u == [t EXCEPT !.local_port = port]
  <2>1. Update(s, u)
    BY <1>4 DEF xtcp_bind
  <2>2. u.state = t.state /\ u.handler = t.handler
    BY <1>1 DEF Tcb
  <2> HIDE DEF u
  <2> QED
    BY <1>3, <2>1, <2>2
<1>5. CASE xtcp_listen(s)
  <2> DEFINE u == [t EXCEPT !.state = "LISTEN"]
  <2>1. t.state = "CLOSED" /\ Update(s, u)
    BY <1>5 DEF xtcp_listen
  <2>2. u.state = "LISTEN" /\ u.handler = t.handler
    BY <1>1 DEF Tcb
  <2> HIDE DEF u, t
  <2>3. PhaseOf(u.state) = PhaseOf(t.state)
    BY <2>1, <2>2 DEF PhaseOf
  <2> QED
    BY <1>3, <2>1, <2>2, <2>3
<1>6. CASE CloseOther(s)
  <2> DEFINE u == Freed(t)
  <2>1. t.state \in TcpState \ {"FREE", "SYN_RECVD", "ESTABLISHED"} /\ Update(s, u)
    BY <1>6 DEF CloseOther
  <2>2. u.state = "FREE" /\ u.handler = t.handler
    BY <1>1 DEF Freed, Tcb
  <2> HIDE DEF u, t
  <2> QED
    BY <1>3, <2>1, <2>2
<1>7. CASE CloseEstablished(s)
  <2>1. PICK r \in XipOut :
          LET after == AfterSend(t, {"FIN", "ACK"}, r)
          IN  Update(s, IF r = "OK" THEN [after EXCEPT !.state = "FIN_WAIT_1"]
                                    ELSE after)
    BY <1>7 DEF CloseEstablished
  <2> DEFINE after == AfterSend(t, {"FIN", "ACK"}, r)
             u == [after EXCEPT !.state = "FIN_WAIT_1"]
  <2>2. t.state = "ESTABLISHED"
    BY <1>7 DEF CloseEstablished
  <2>3. after.state = t.state /\ after.handler = t.handler
    BY <1>1, AfterSendOwner DEF SameOwner
  <2>4. u.state = "FIN_WAIT_1" /\ u.handler = t.handler
    BY <1>1 DEF AfterSend, Sent, Refused, Tcb
  <2>5. Update(s, u) \/ Update(s, after)
    BY <2>1
  <2> HIDE DEF u, after, t
  <2> QED
    BY <1>3, <2>2, <2>3, <2>4, <2>5
<1>8. ASSUME NEW size \in WriteSizes, xtcp_write(s, size)
      PROVE  Service!Next
  <2> DEFINE b == Written(t.tx_buf, [i \in 1 .. size |-> SeqAdd(written[s], i - 1)])
             w == [t EXCEPT !.tx_buf = b]
  <2>1. PICK r \in XipOut : Update(s, AfterSend(w, {"ACK"}, r))
    BY <1>8 DEF xtcp_write
  <2> DEFINE u == AfterSend(w, {"ACK"}, r)
  <2> HIDE DEF b
  <2>2. u.state = t.state /\ u.handler = t.handler
    BY <1>1 DEF AfterSend, Sent, Refused, Tcb
  <2>3. Update(s, u)
    BY <2>1 DEF b
  <2> HIDE DEF u, t
  <2> QED
    BY <1>3, <2>2, <2>3
<1>9. ASSUME NEW size \in ReadSizes, xtcp_read(s, size)
      PROVE  Service!Next
  <2> DEFINE u == [t EXCEPT !.rx_buf = Taken(@, size)]
  <2>1. Update(s, u)
    BY <1>9 DEF xtcp_read
  <2>2. u.state = t.state /\ u.handler = t.handler
    BY <1>1 DEF Tcb
  <2> HIDE DEF u, t
  <2> QED
    BY <1>3, <2>1, <2>2
<1> QED
  BY <1>4, <1>5, <1>6, <1>7, <1>8, <1>9 DEF xtcp_close

LEMMA StepImplements == IInv /\ [Next]_vars => [Service!Next]_(Service!svcVars)
<1> SUFFICES ASSUME IInv, [Next]_vars PROVE [Service!Next]_(Service!svcVars)
  OBVIOUS
<1>1. CASE Next
  <2>1. Service!Next
    BY <1>1, SegmentImplements, OpenImplements, CallImplements DEF Next
  <2> QED
    BY <2>1
<1>2. CASE UNCHANGED vars
  BY <1>2 DEF vars, Service!svcVars
<1> QED
  BY <1>1, <1>2

\* For every table and every sequence of segments, calls and failing sends:
\* the TCP layer implements the service, so a report goes to the application
\* that owns the connection, CONNECTED before DATA_RECV before CLOSED and
\* each of the two ends once (xtcp_in, xtcp_open, xtcp_close).
THEOREM TcpImplementsService == Spec => ServiceSpec
<1>1. Init => Service!Init
  BY DEF Init, ZeroTcb, Service!Init, PhaseOf
<1> QED
  BY <1>1, StepImplements, Invariance, PTL DEF Spec, ServiceSpec, Service!Spec
=============================================================================
