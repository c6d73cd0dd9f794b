------------------------------- MODULE XnetTcp -------------------------------
(***************************************************************************)
(* The TCP layer of the stack (xnet_tcp.c): the table tcp_socket of        *)
(* control blocks, the handler xtcp_in of an incoming segment, and the     *)
(* calls an application makes.  The stack is single-threaded: xtcp_in runs *)
(* to its end inside xnet_poll, and so does each call of the application,  *)
(* so a handler is one step.  What interleaves is which segment arrives    *)
(* next, from which peer, and which call the application makes next.       *)
(*                                                                         *)
(* Segments arrive in any order and with any header the constants allow    *)
(* (a lost segment is one that does not arrive, a duplicate one that       *)
(* arrives twice), so the invariants hold against every peer, not only     *)
(* against one that follows the protocol.                                  *)
(***************************************************************************)
EXTENDS XtcpBuf

CONSTANTS
    MaxTcp,       \* XTCP_CFG_MAX_TCP, the size of the table
    Peer,         \* remote endpoints: (address, port) pairs
    NoPeer,       \* address 0, port 0: a block that has no peer
    Port,         \* local ports, all different from 0
    App,          \* xtcp_handler_t values: the applications
    NoApp,        \* the null handler
    MaxWin,       \* bound on a window and on an MSS (uint16_t)
    MssDefault,   \* XTCP_MSS_DEFAULT
    DataMax,      \* XTCP_DATA_MAX_SIZE
    OptSize,      \* bytes of the MSS option in a SYN
    InitSeq,      \* values tcp_get_init_seq may return
    XipOut,       \* what xip_out may return: "OK", or "NONE" on an ARP miss
    SegAcks, SegFlags, SegWindows, SegMss, SegLens,
                  \* ack numbers, flags, windows, MSS options and payload
                  \* sizes that arrive
    WriteSizes, ReadSizes
                  \* sizes the application passes to xtcp_write and xtcp_read

Flag == {"FIN", "SYN", "RST", "ACK"}
Win  == 0 .. MaxWin

ASSUME TableAssumption == /\ MaxTcp \in Nat
                          /\ NoPeer \notin Peer
                          /\ Port \subseteq Nat \ {0}
                          /\ NoApp \notin App

ASSUME SizeAssumption == /\ MaxWin \in Nat
                         /\ MssDefault \in Win
                         /\ OptSize \in Nat
                         /\ DataMax \in Nat /\ OptSize <= DataMax

ASSUME InputAssumption == /\ InitSeq \subseteq SeqNum
                          /\ XipOut \subseteq {"OK", "NONE"}
                          /\ SegAcks \subseteq SeqNum
                          /\ SegFlags \subseteq SUBSET Flag
                          /\ SegWindows \subseteq Win
                          /\ SegMss \subseteq Win
                          /\ SegLens \subseteq 0 .. SeqSpace
                          /\ WriteSizes \subseteq 0 .. SeqSpace
                          /\ ReadSizes \subseteq Nat

Slot == 1 .. MaxTcp

\* The states the code assigns; CLOSING, TIMED_WAIT and CLOSE_WAIT are
\* declared in xtcp_state_t and never used.
TcpState == {"FREE", "CLOSED", "LISTEN", "SYN_RECVD", "ESTABLISHED",
             "FIN_WAIT_1", "FIN_WAIT_2", "LAST_ACK"}

\* The states of a block that belongs to a peer.
Connected == {"SYN_RECVD", "ESTABLISHED", "FIN_WAIT_1", "FIN_WAIT_2", "LAST_ACK"}

Tcb == [ state : TcpState, local_port : Port \cup {0},
         remote : Peer \cup {NoPeer}, handler : App \cup {NoApp},
         next_seq : SeqNum, unacked_seq : SeqNum, ack : SeqNum,
         remote_mss : Win, remote_win : Win,
         tx_buf : Buf, rx_buf : Buf,
         syn : BOOLEAN ]    \* history: tcp_recv has counted a SYN in ack

\* An incoming segment after the checks of xtcp_in: payload byte i carries
\* the sequence number seq + i - 1, which is also its name.
Arriving == [ from : Peer, dest_port : Port, seq : SeqNum, ack : SegAcks,
              flags : SegFlags, window : SegWindows, mss : SegMss, len : SegLens ]

\* A segment this stack hands to xip_out.
Departing == [ to : Peer, src_port : Port \cup {0}, seq : SeqNum, ack : SeqNum,
               flags : SUBSET Flag, window : 0 .. BufSize, data : Seq(Byte) ]

Event == [ handler : App \cup {NoApp}, tcp : Slot,
           event : {"CONNECTED", "DATA_RECV", "CLOSED"} ]

VARIABLES
    tcp_socket,   \* the table of control blocks
    out,          \* the segment the last step sent, if any
    event,        \* the handler call the last step made, if any
    written       \* history: the sequence number the next byte written by
                  \* the application has to carry

vars == <<tcp_socket, out, event, written>>

ZeroTcb == [ state |-> "FREE", local_port |-> 0, remote |-> NoPeer,
             handler |-> NoApp, next_seq |-> 0, unacked_seq |-> 0, ack |-> 0,
             remote_mss |-> 0, remote_win |-> 0,
             tx_buf |-> ZeroBuf, rx_buf |-> ZeroBuf, syn |-> FALSE ]

\* xtcp_init.
Init == /\ tcp_socket = [s \in Slot |-> ZeroTcb]
        /\ out = {}
        /\ event = {}
        /\ written = [s \in Slot |-> 0]

Silent == out' = {} /\ event' = {}

Update(s, t) == tcp_socket' = [tcp_socket EXCEPT ![s] = t]

Notify(s, t, e) == event' = {[handler |-> t.handler, tcp |-> s, event |-> e]}
-----------------------------------------------------------------------------
(***************************************************************************)
(* tcp_send: one segment with as much unsent data as the peer's window,    *)
(* its MSS and the packet buffer allow.  The bytes are copied out of       *)
(* tx_buf, which moves tx_buf.next, before xip_out is called; when xip_out *)
(* fails tcp_send returns at once and everything else is left as it was.   *)
(***************************************************************************)
SynOption(flags) == IF "SYN" \in flags THEN OptSize ELSE 0

SendSize(t, flags) ==
    IF t.remote_win = 0
      THEN 0
      ELSE min(min(min(WaitSendCount(t.tx_buf), t.remote_win), t.remote_mss),
               DataMax - SynOption(flags))

\* The control bits SYN and FIN take one sequence number.
Control(flags) == IF flags \cap {"SYN", "FIN"} # {} THEN 1 ELSE 0

SegmentOf(t, flags) ==
    [ to |-> t.remote, src_port |-> t.local_port, seq |-> t.next_seq,
      ack |-> t.ack, flags |-> flags, window |-> FreeCount(t.rx_buf),
      data |-> SendBytes(t.tx_buf, SendSize(t, flags)) ]

\* Wrong: the FIN and the SYN are not counted.
Sent_ControlFree(t, flags) ==
    LET size == SendSize(t, flags)
    IN  [t EXCEPT !.tx_buf = AddUnacked(ReadForSend(@, size), size),
                  !.remote_win = @ - size,
                  !.next_seq = SeqAdd(@, size)]

\* Wrong: tx_buf.next does not move on, as if the bytes had been peeked at.
Sent_NextStays(t, flags) ==
    LET size == SendSize(t, flags)
    IN  [t EXCEPT !.tx_buf = AddUnacked(@, size),
                  !.remote_win = @ - size,
                  !.next_seq = SeqAdd(@, size + Control(flags))]

\* The block after xip_out has taken the packet, and after it has not.
Sent(t, flags) ==
    LET size == SendSize(t, flags)
    IN  [t EXCEPT !.tx_buf = AddUnacked(ReadForSend(@, size), size),
                  !.remote_win = @ - size,
                  !.next_seq = SeqAdd(@, size + Control(flags))]

\* Wrong: the bytes copied into the packet are counted before xip_out is asked.
Refused_Counts(t, flags) ==
    LET size == SendSize(t, flags)
    IN  [t EXCEPT !.tx_buf = AddUnacked(ReadForSend(@, size), size)]

Refused(t, flags) ==
    [t EXCEPT !.tx_buf = ReadForSend(@, SendSize(t, flags))]

AfterSend(t, flags, result) ==
    IF result = "OK" THEN Sent(t, flags) ELSE Refused(t, flags)

Emit(t, flags, result) ==
    out' = IF result = "OK" THEN {SegmentOf(t, flags)} ELSE {}

\* tcp_send_reset; its result is ignored by every caller.
SendReset(ack, port, peer, result) ==
    out' = IF result = "OK"
             THEN {[ to |-> peer, src_port |-> port, seq |-> 0, ack |-> ack,
                     flags |-> {"RST", "ACK"}, window |-> 0, data |-> <<>> ]}
             ELSE {}

\* xtcp_free: only the state changes.
Freed(t) == [t EXCEPT !.state = "FREE"]
-----------------------------------------------------------------------------
(***************************************************************************)
(* xtcp_alloc: the first free block of the table, cleared.                 *)
(***************************************************************************)
First(s, S) == s \in S /\ \A r \in S : s <= r
Last(s, S)  == s \in S /\ \A r \in S : r <= s

\* Wrong: a block that waits for the last ACK is taken for a free one.
FreeSlots_LastAckToo == {s \in Slot : tcp_socket[s].state \in {"FREE", "LAST_ACK"}}

FreeSlots == {s \in Slot : tcp_socket[s].state = "FREE"}

Allocated(t, iss) ==
    [t EXCEPT !.local_port = 0, !.remote = NoPeer, !.handler = NoApp,
              !.remote_win = MssDefault, !.remote_mss = MssDefault,
              !.next_seq = iss, !.unacked_seq = iss, !.ack = 0,
              !.tx_buf = Emptied(@), !.rx_buf = Emptied(@), !.syn = FALSE]

(***************************************************************************)
(* xtcp_find: the block of this peer and local port, or else the last      *)
(* listening block of the table with that local port.                      *)
(***************************************************************************)
Exact(peer, port) ==
    {s \in Slot : /\ tcp_socket[s].state # "FREE"
                  /\ tcp_socket[s].local_port = port
                  /\ tcp_socket[s].remote = peer}

Listening(port) ==
    {s \in Slot : /\ tcp_socket[s].state = "LISTEN"
                  /\ tcp_socket[s].local_port = port}

\* Wrong: a listening block is preferred to the block of the connection.
Finds_ListenFirst(s, seg) ==
    \/ Last(s, Listening(seg.dest_port))
    \/ /\ Listening(seg.dest_port) = {}
       /\ First(s, Exact(seg.from, seg.dest_port))

Finds(s, seg) ==
    \/ First(s, Exact(seg.from, seg.dest_port))
    \/ /\ Exact(seg.from, seg.dest_port) = {}
       /\ Last(s, Listening(seg.dest_port))

FindsNone(seg) == Exact(seg.from, seg.dest_port) \cup Listening(seg.dest_port) = {}
-----------------------------------------------------------------------------
(***************************************************************************)
(* xtcp_in: an incoming segment.  The first lines run for every block that *)
(* is found: the window is taken over before the segment is looked at any  *)
(* further, and a segment that does not carry the expected sequence number *)
(* is answered with a reset and dropped.                                   *)
(***************************************************************************)
Heard(s, seg) == [tcp_socket[s] EXCEPT !.remote_win = seg.window]

NoBlockIn(seg) ==
    /\ FindsNone(seg)
    /\ \E r \in XipOut : SendReset(SeqAdd(seg.seq, 1), seg.dest_port, seg.from, r)
    /\ event' = {}
    /\ UNCHANGED <<tcp_socket, written>>

(***************************************************************************)
(* tcp_process_accept.                                                     *)
(***************************************************************************)
\* Wrong: the handler of the listening block is not passed on.
Child_NoHandler(t, listen, seg, iss) ==
    [Allocated(t, iss) EXCEPT
        !.state = "SYN_RECVD", !.local_port = listen.local_port,
        !.remote = seg.from,
        !.ack = SeqAdd(seg.seq, 1), !.remote_win = seg.window,
        !.remote_mss = seg.mss]

\* The block of a new connection, before its SYN+ACK is sent.
Child(t, listen, seg, iss) ==
    [Allocated(t, iss) EXCEPT
        !.state = "SYN_RECVD", !.local_port = listen.local_port,
        !.handler = listen.handler, !.remote = seg.from,
        !.ack = SeqAdd(seg.seq, 1), !.remote_win = seg.window,
        !.remote_mss = seg.mss]

\* A SYN, and a free block for it; without the ARP entry of the peer the
\* block is freed again.
AcceptIn(s, seg) ==
    /\ tcp_socket[s].state = "LISTEN"
    /\ "SYN" \in seg.flags
    /\ \E n \in Slot, iss \in InitSeq, r \in XipOut :
         LET child == Child(tcp_socket[n], tcp_socket[s], seg, iss)
             after == AfterSend(child, {"SYN", "ACK"}, r)
         IN  /\ First(n, FreeSlots)
             /\ tcp_socket' = [tcp_socket EXCEPT
                                 ![s] = Heard(s, seg),
                                 ![n] = IF r = "OK" THEN after ELSE Freed(after)]
             /\ Emit(child, {"SYN", "ACK"}, r)
             /\ written' = [written EXCEPT ![n] = SeqAdd(iss, 1)]
    /\ event' = {}

\* A SYN, and the table is full: it is dropped without an answer.
AcceptFullIn(s, seg) ==
    /\ tcp_socket[s].state = "LISTEN"
    /\ "SYN" \in seg.flags
    /\ FreeSlots = {}
    /\ Update(s, Heard(s, seg))
    /\ Silent
    /\ UNCHANGED written

NotSynIn(s, seg) ==
    /\ tcp_socket[s].state = "LISTEN"
    /\ "SYN" \notin seg.flags
    /\ Update(s, Heard(s, seg))
    /\ \E r \in XipOut :
         SendReset(seg.seq, tcp_socket[s].local_port, seg.from, r)
    /\ event' = {}
    /\ UNCHANGED written

(***************************************************************************)
(* The blocks of a connection.                                             *)
(***************************************************************************)
WrongSeqIn(s, seg) ==
    /\ tcp_socket[s].state # "LISTEN"
    /\ seg.seq # tcp_socket[s].ack
    /\ Update(s, Heard(s, seg))
    /\ \E r \in XipOut : SendReset(SeqAdd(seg.seq, 1), seg.dest_port, seg.from, r)
    /\ event' = {}
    /\ UNCHANGED written

\* Wrong: the sequence number is not compared.
InSequence_AnySeq(s, seg, state) ==
    /\ tcp_socket[s].state = state
    /\ UNCHANGED written

InSequence(s, seg, state) ==
    /\ tcp_socket[s].state = state
    /\ seg.seq = tcp_socket[s].ack
    /\ UNCHANGED written

\* The ACK that ends the handshake; its ack number and payload are ignored.
SynRecvdIn(s, seg) ==
    /\ InSequence(s, seg, "SYN_RECVD")
    /\ "ACK" \in seg.flags
    /\ Update(s, [Heard(s, seg) EXCEPT !.unacked_seq = SeqAdd(@, 1),
                                       !.state = "ESTABLISHED"])
    /\ Notify(s, tcp_socket[s], "CONNECTED")
    /\ out' = {}

FinWait1In(s, seg) ==
    /\ InSequence(s, seg, "FIN_WAIT_1")
    /\ "ACK" \in seg.flags
    /\ Update(s, IF "FIN" \in seg.flags
                   THEN Freed(Heard(s, seg))
                   ELSE [Heard(s, seg) EXCEPT !.state = "FIN_WAIT_2"])
    /\ Silent

\* Wrong: the block is not freed when the FIN of the peer has come.
FinWait2In_NotFreed(s, seg) ==
    /\ InSequence(s, seg, "FIN_WAIT_2")
    /\ "FIN" \in seg.flags
    /\ LET t == [Heard(s, seg) EXCEPT !.ack = SeqAdd(seg.seq, 1)]
       IN  \E r \in XipOut : /\ Update(s, AfterSend(t, {"ACK"}, r))
                             /\ Emit(t, {"ACK"}, r)
    /\ event' = {}

FinWait2In(s, seg) ==
    /\ InSequence(s, seg, "FIN_WAIT_2")
    /\ "FIN" \in seg.flags
    /\ LET t == [Heard(s, seg) EXCEPT !.ack = SeqAdd(seg.seq, 1)]
       IN  \E r \in XipOut : /\ Update(s, Freed(AfterSend(t, {"ACK"}, r)))
                             /\ Emit(t, {"ACK"}, r)
    /\ event' = {}

LastAckIn(s, seg) ==
    /\ InSequence(s, seg, "LAST_ACK")
    /\ "ACK" \in seg.flags
    /\ Update(s, Freed(Heard(s, seg)))
    /\ Notify(s, tcp_socket[s], "CLOSED")
    /\ out' = {}

\* The switch has no branch for these flags in this state.
IgnoredIn(s, seg) ==
    /\ \/ /\ \E st \in {"SYN_RECVD", "FIN_WAIT_1", "LAST_ACK"} : InSequence(s, seg, st)
          /\ "ACK" \notin seg.flags
       \/ InSequence(s, seg, "FIN_WAIT_2") /\ "FIN" \notin seg.flags
    /\ Update(s, Heard(s, seg))
    /\ Silent

(***************************************************************************)
(* ESTABLISHED, in the order of the code: the acknowledged bytes leave     *)
(* tx_buf, the payload enters rx_buf (tcp_recv), and then one of three     *)
(* answers is sent, or none.                                               *)
(***************************************************************************)
\* Wrong: an ack number beyond what was sent is believed.
AckInRange_NoUpperBound(t, seg) == "ACK" \in seg.flags /\ t.unacked_seq <= seg.ack

\* Wrong: an ACK for everything that was sent is not taken.
AckInRange_NotAll(t, seg) == /\ "ACK" \in seg.flags
                             /\ t.unacked_seq <= seg.ack
                             /\ seg.ack < t.next_seq

AckInRange(t, seg) == /\ "ACK" \in seg.flags
                      /\ t.unacked_seq <= seg.ack
                      /\ seg.ack <= t.next_seq

Acknowledged(t, seg) ==
    IF AckInRange(t, seg)
      THEN [t EXCEPT !.tx_buf = AddAcked(@, seg.ack - t.unacked_seq),
                     !.unacked_seq = seg.ack]
      ELSE t

Payload(seg) == [i \in 1 .. seg.len |-> SeqAdd(seg.seq, i - 1)]

\* Wrong: the whole payload is acknowledged, also what did not fit.
Received_AcksAll(t, seg) ==
    [t EXCEPT !.rx_buf = Written(@, Payload(seg)),
              !.ack = SeqAdd(@, seg.len + Control(seg.flags)),
              !.syn = @ \/ "SYN" \in seg.flags]

\* tcp_recv.  A SYN takes a number here too, although the connection is open.
Received(t, seg) ==
    [t EXCEPT !.rx_buf = Written(@, Payload(seg)),
              !.ack = SeqAdd(@, WriteSize(t.rx_buf, Payload(seg))
                                + Control(seg.flags)),
              !.syn = @ \/ "SYN" \in seg.flags]

AfterData(s, seg) == Received(Acknowledged(Heard(s, seg), seg), seg)

Stored(s, seg) == WriteSize(tcp_socket[s].rx_buf, Payload(seg))

\* The FIN of the peer is answered with the FIN of this side, at once.
EstablishedFinIn(s, seg) ==
    /\ InSequence(s, seg, "ESTABLISHED")
    /\ "FIN" \in seg.flags
    /\ LET t == [AfterData(s, seg) EXCEPT !.state = "LAST_ACK",
                                          !.ack = SeqAdd(seg.seq, 1)]
       IN  \E r \in XipOut : /\ Update(s, AfterSend(t, {"FIN", "ACK"}, r))
                             /\ Emit(t, {"FIN", "ACK"}, r)
    /\ event' = {}

EstablishedDataIn(s, seg) ==
    /\ InSequence(s, seg, "ESTABLISHED")
    /\ "FIN" \notin seg.flags
    /\ Stored(s, seg) > 0
    /\ LET t == AfterData(s, seg)
       IN  \E r \in XipOut : /\ Update(s, AfterSend(t, {"ACK"}, r))
                             /\ Emit(t, {"ACK"}, r)
    /\ Notify(s, tcp_socket[s], "DATA_RECV")

\* Wrong: the data that waits in tx_buf is not sent when an ACK comes.
EstablishedAckIn_SendsNothing(s, seg) ==
    /\ InSequence(s, seg, "ESTABLISHED")
    /\ "FIN" \notin seg.flags
    /\ Stored(s, seg) = 0
    /\ Update(s, AfterData(s, seg))
    /\ Silent

EstablishedAckIn(s, seg) ==
    /\ InSequence(s, seg, "ESTABLISHED")
    /\ "FIN" \notin seg.flags
    /\ Stored(s, seg) = 0
    /\ LET t == AfterData(s, seg)
       IN  \/ /\ WaitSendCount(t.tx_buf) > 0
              /\ \E r \in XipOut : /\ Update(s, AfterSend(t, {"ACK"}, r))
                                   /\ Emit(t, {"ACK"}, r)
           \/ /\ WaitSendCount(t.tx_buf) = 0
              /\ Update(s, t)
              /\ out' = {}
    /\ event' = {}

xtcp_in(seg) ==
    \/ NoBlockIn(seg)
    \/ \E s \in Slot :
         /\ Finds(s, seg)
         /\ \/ AcceptIn(s, seg)   \/ AcceptFullIn(s, seg) \/ NotSynIn(s, seg)
            \/ WrongSeqIn(s, seg) \/ SynRecvdIn(s, seg)
            \/ FinWait1In(s, seg) \/ FinWait2In(s, seg)
            \/ LastAckIn(s, seg)  \/ IgnoredIn(s, seg)
            \/ EstablishedFinIn(s, seg) \/ EstablishedDataIn(s, seg)
            \/ EstablishedAckIn(s, seg)
-----------------------------------------------------------------------------
(***************************************************************************)
(* The calls of an application, on a block it holds: one it has opened, or *)
(* one whose connection was reported to it.                                *)
(***************************************************************************)
xtcp_open(app) ==
    /\ \E s \in Slot, iss \in InitSeq :
         /\ First(s, FreeSlots)
         /\ Update(s, [Allocated(tcp_socket[s], iss) EXCEPT !.state = "CLOSED",
                                                            !.handler = app])
    /\ Silent
    /\ UNCHANGED written

\* Wrong: only the blocks that listen are compared.
Bindable_ListenOnly(s, port) == \A r \in Slot \ {s} :
    tcp_socket[r].state = "LISTEN" => tcp_socket[r].local_port # port

\* A free block keeps the port it had, and counts.
Bindable(s, port) == \A r \in Slot \ {s} : tcp_socket[r].local_port # port

xtcp_bind(s, port) ==
    /\ tcp_socket[s].state = "CLOSED"
    /\ Bindable(s, port)
    /\ Update(s, [tcp_socket[s] EXCEPT !.local_port = port])
    /\ Silent
    /\ UNCHANGED written

xtcp_listen(s) ==
    /\ tcp_socket[s].state = "CLOSED"
    /\ Update(s, [tcp_socket[s] EXCEPT !.state = "LISTEN"])
    /\ Silent
    /\ UNCHANGED written

\* The FIN goes out behind what the window allows of the unsent data.
CloseEstablished(s) ==
    /\ tcp_socket[s].state = "ESTABLISHED"
    /\ \E r \in XipOut :
         LET after == AfterSend(tcp_socket[s], {"FIN", "ACK"}, r)
         IN  /\ Update(s, IF r = "OK" THEN [after EXCEPT !.state = "FIN_WAIT_1"]
                                      ELSE after)
             /\ Emit(tcp_socket[s], {"FIN", "ACK"}, r)
    /\ event' = {}
    /\ UNCHANGED written

CloseOther(s) ==
    /\ tcp_socket[s].state \in TcpState \ {"FREE", "SYN_RECVD", "ESTABLISHED"}
    /\ Update(s, Freed(tcp_socket[s]))
    /\ Silent
    /\ UNCHANGED written

xtcp_close(s) == CloseEstablished(s) \/ CloseOther(s)

\* The application writes the next bytes of its stream; what does not fit
\* is not taken.
xtcp_write(s, size) ==
    /\ tcp_socket[s].state = "ESTABLISHED"
    /\ LET from  == [i \in 1 .. size |-> SeqAdd(written[s], i - 1)]
           taken == WriteSize(tcp_socket[s].tx_buf, from)
           t     == [tcp_socket[s] EXCEPT !.tx_buf = Written(@, from)]
       IN  /\ taken > 0
           /\ \E r \in XipOut : /\ Update(s, AfterSend(t, {"ACK"}, r))
                                /\ Emit(t, {"ACK"}, r)
           /\ written' = [written EXCEPT ![s] = SeqAdd(@, taken)]
    /\ event' = {}

\* No segment is sent: the peer is not told of the larger window.
xtcp_read(s, size) ==
    /\ tcp_socket[s].state \in Connected \ {"SYN_RECVD"}
    /\ Update(s, [tcp_socket[s] EXCEPT !.rx_buf = Taken(@, size)])
    /\ Silent
    /\ UNCHANGED written

Next == \/ \E seg \in Arriving : xtcp_in(seg)
        \/ \E app \in App : xtcp_open(app)
        \/ \E s \in Slot : \/ \E port \in Port : xtcp_bind(s, port)
                           \/ xtcp_listen(s)
                           \/ xtcp_close(s)
                           \/ \E size \in WriteSizes : xtcp_write(s, size)
                           \/ \E size \in ReadSizes : xtcp_read(s, size)

Spec == Init /\ [][Next]_vars
-----------------------------------------------------------------------------
(***************************************************************************)
(* Properties.                                                             *)
(***************************************************************************)
Live(s, states) == tcp_socket[s].state \in states

\* Every variable has its type.  For the counters of the two buffers, which
\* are uint16_t, this says that data_count and unacked_count never pass the
\* size of the buffer and that none of the subtractions goes below 0.
TypeOK == /\ tcp_socket \in [Slot -> Tcb]
          /\ out \in SUBSET Departing
          /\ event \in SUBSET Event
          /\ written \in [Slot -> SeqNum]

\* How many SYNs and FINs this side has sent and not seen acknowledged.
ControlInFlight(t) ==
    CASE t.state = "ESTABLISHED" -> {0}
      [] t.state = "LAST_ACK"    -> {0, 1}
      [] OTHER                   -> {1}

Accounted(t) ==
    /\ t.tx_buf.unacked_count <= t.tx_buf.data_count
    /\ \E c \in ControlInFlight(t) :
         t.next_seq = SeqAdd(t.unacked_seq, t.tx_buf.unacked_count + c)

\* The two sequence numbers of a connection and the counters of tx_buf tell
\* the same story: next_seq is ahead of unacked_seq by exactly the bytes
\* counted as unacknowledged (and the SYN or FIN under way), which are
\* bytes tx_buf still holds.  Were it false, an ACK (xtcp_in, ESTABLISHED)
\* would take a wrong number of bytes from tx_buf.
SeqAccounting ==
    \A s \in Slot : Live(s, Connected) => Accounted(tcp_socket[s])

\* On an open connection an ACK for n of the unacknowledged bytes takes exactly
\* n bytes from tx_buf, whatever n is (xtcp_in, ESTABLISHED), or tx_buf would
\* fill up for ever.  The exception is the time when next_seq has wrapped and
\* unacked_seq has not: the code compares them as they are, and then no ack
\* number passes.
AckRecognised == \A s \in Slot : Live(s, {"ESTABLISHED"}) =>
    LET t == tcp_socket[s]
        After(n) == Acknowledged(t, [ack |-> t.unacked_seq + n, flags |-> {"ACK"}])
    IN  t.unacked_seq <= t.next_seq =>
          \A n \in 0 .. t.tx_buf.unacked_count :
            /\ After(n).tx_buf.unacked_count = t.tx_buf.unacked_count - n
            /\ After(n).tx_buf.data_count = t.tx_buf.data_count - n

\* The unsent bytes of tx_buf of an open connection are the next bytes of
\* the application's stream, in order and without a gap, and the first of
\* them is the one the next segment's sequence number names.
TxStreamOrder == \A s \in Slot : Live(s, {"ESTABLISHED"}) =>
    LET t == tcp_socket[s]
    IN  /\ \A i \in 0 .. WaitSendCount(t.tx_buf) - 1 :
             Unsent(t.tx_buf, i) = SeqAdd(t.next_seq, i)
        /\ written[s] = SeqAdd(t.next_seq, WaitSendCount(t.tx_buf))

\* What the application can still read from rx_buf of an open connection is
\* the end of what was acknowledged to the peer, in order: nothing is
\* acknowledged that is not stored, stored twice or overwritten.  The one
\* exception is a peer that repeats its SYN under the number expected next:
\* tcp_recv counts it like a byte, and ack is then one ahead of the data.
RxStreamOrder == \A s \in Slot : Live(s, {"ESTABLISHED"}) /\ ~tcp_socket[s].syn =>
    LET t == tcp_socket[s]
    IN  \A i \in 0 .. t.rx_buf.data_count - 1 :
          SeqAdd(Unread(t.rx_buf, i), t.rx_buf.data_count - i) = t.ack

\* No two blocks belong to the same connection, so that the segments of a
\* connection always reach the same block (xtcp_find stops at the first).
TupleUnique == \A r, s \in Slot :
    Live(r, Connected) /\ Live(s, Connected)
      /\ tcp_socket[r].local_port = tcp_socket[s].local_port
      /\ tcp_socket[r].remote = tcp_socket[s].remote => r = s

\* No two applications listen on the same port: xtcp_find would give the
\* connections of both to the one whose block comes last.
ListenerUnique == \A r, s \in Slot :
    Live(r, {"CLOSED", "LISTEN"}) /\ Live(s, {"CLOSED", "LISTEN"})
      /\ tcp_socket[r].local_port = tcp_socket[s].local_port
      /\ tcp_socket[s].local_port # 0 => r = s

\* A block is not taken from a connection: while the connection lives, its
\* peer, its port and its handler stay what they are.
NoSteal == [][ \A s \in Slot :
    Live(s, Connected) /\ tcp_socket'[s].state # "FREE" =>
      /\ tcp_socket'[s].state \in Connected
      /\ tcp_socket'[s].remote = tcp_socket[s].remote
      /\ tcp_socket'[s].local_port = tcp_socket[s].local_port
      /\ tcp_socket'[s].handler = tcp_socket[s].handler ]_vars

PhaseOf(state) ==
    CASE state = "FREE"                       -> "unused"
      [] state \in {"CLOSED", "LISTEN"}        -> "handle"
      [] state = "SYN_RECVD"                  -> "pending"
      [] state = "ESTABLISHED"                -> "open"
      [] state \in {"FIN_WAIT_1", "FIN_WAIT_2"} -> "userClosed"
      [] state = "LAST_ACK"                   -> "peerClosed"

Service == INSTANCE TcpService
             WITH phase  <- [s \in Slot |-> PhaseOf(tcp_socket[s].state)],
                  owner  <- [s \in Slot |-> tcp_socket[s].handler],
                  report <- event

\* The TCP layer implements the service: reports to an application come in
\* the order CONNECTED, DATA_RECV, CLOSED, from one connection to the one
\* application that owns it, for every sequence of segments and calls.
ServiceSpec == Service!Spec

=============================================================================
