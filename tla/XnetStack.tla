------------------------------ MODULE XnetStack ------------------------------
(***************************************************************************)
(* The layers below and beside TCP, put together: the driver gives a frame *)
(* to ethernet_in, which hands it to ARP or to IP, IP hands a datagram to  *)
(* UDP and its date and time server, to ICMP or to TCP, and what these     *)
(* answer goes down again through xip_out and ethernet_out, which asks ARP *)
(* for the hardware address.  One frame is handled to its end before the   *)
(* next, so that the whole chain is one step; between two frames the       *)
(* clock runs, xarp_poll ages the one ARP entry, and TCP sends segments of *)
(* its own accord.                                                         *)
(*                                                                         *)
(* All of these build their packets in the same buffer, tx_packet.  When   *)
(* the hardware address is not known, the ARP request is built in it too,  *)
(* on top of the packet that was to be sent, which is lost.                *)
(*                                                                         *)
(* A datagram may have any size that a frame has room for, be damaged on   *)
(* the way, be for somebody else, or state a length that is not its own.   *)
(* What is in a segment is the business of XnetTcp: here TCP takes any     *)
(* segment that passes its checksum, and answers with any or with none.    *)
(***************************************************************************)
EXTENDS XnetArp, XnetPacket, Checksum

CONSTANTS
    Us,            \* the address of this host
    Broadcast,     \* ether_broadcast
    Datagrams,     \* the IP datagrams that arrive
    SegmentSizes,  \* sizes of what TCP may want to send in a segment
    TimeSizes      \* lengths of the text strftime may produce

\* The largest datagram that fits behind the headers when xicmp_dest_unreach
\* quotes all of it.
QuoteMax == MaxSize - Room - Size.ICMP

\* A datagram: who sends it, whether it is for this host and its header has
\* arrived undamaged, what it is for, the length its header states, the sizes
\* of its header and of what follows, and how many zeroes the link has added
\* to fill its frame.  Of a segment, too: its checksum, and what all else that
\* the checksum covers adds up to, but for the length.
Datagram == [ from : Ip, for : {"us", "other"}, intact : BOOLEAN,
              kind : {"datetime", "closed port", "echo", "icmp", "tcp", "protocol"},
              total : Word, header : {20, 24, 60}, data : Nat, pad : Nat,
              sum : Word, rest : Word ]

Quoted(d) == d.kind \in {"closed port", "protocol"}

ASSUME StackAssumption ==
    /\ Us \notin Ip \cup {NoIp} /\ Broadcast \notin Mac \cup {NoMac}
    /\ MaxSize < Base - 1
    /\ Datagrams \subseteq Datagram
    /\ \A d \in Datagrams :
         /\ Size.ETH + d.header + d.data + d.pad <= MaxSize - 2
         /\ d.kind # "protocol" => d.data >= Size.UDP
         /\ d.kind = "tcp" =>
              /\ d.data >= Size.TCP
              /\ d.sum # 0 => (d.rest + d.data + d.sum) % (Base - 1) = 0
    /\ SegmentSizes \subseteq Nat /\ TimeSizes \subseteq 0 .. 128

VARIABLES
    tx_packet,   \* the buffer all layers send from
    frames,      \* the frames the last step has handed to the driver
    upcall,      \* what TCP has been given in the last step
    reply        \* history: who is owed an answer by the last step

stackVars == <<vars, tx_packet, frames, upcall, reply>>

NoUpcall == [kind |-> "none"]

ArpPacket == alloc_for_send("ARP", Size.ARP)

Framed(packet) == add_header(packet, "ETH")

\* ethernet_init, which asks for the host's own address; then xarp_init.
StackInit == /\ Init
             /\ tx_packet = Framed(ArpPacket)
             /\ frames = <<[to |-> Broadcast, packet |-> Framed(ArpPacket)]>>
             /\ upcall = NoUpcall
             /\ reply = NoIp

Silent == frames' = <<>> /\ UNCHANGED tx_packet

ArpRests == UNCHANGED vars

Dropped == Silent /\ ArpRests /\ upcall' = NoUpcall /\ reply' = NoIp
-----------------------------------------------------------------------------
(***************************************************************************)
(* Down: to the driver.                                                    *)
(***************************************************************************)
\* A header that begins before the array has overwritten the pointer to the
\* packet: nothing can be said of the frame, nor of the program from then on.
Overrun == tx_packet.offset < 0

ethernet_out_to(mac, packet) ==
    /\ tx_packet' = Framed(packet)
    /\ frames' = IF Overrun' THEN <<>> ELSE <<[to |-> mac, packet |-> Framed(packet)]>>

\* Wrong: the result of xarp_resolve is not looked at.  The packet points to
\* the buffer, in which the request is by now.
ethernet_out_SendsAnyway(ip, packet) ==
    /\ xarp_resolve(ip)
    /\ IF Usable(ip)
         THEN ethernet_out_to(arp_entry.macaddr, packet)
         ELSE /\ tx_packet' = Framed(Framed(ArpPacket))
              /\ frames' = << [to |-> Broadcast, packet |-> Framed(ArpPacket)],
                              [to |-> NoMac, packet |-> Framed(Framed(ArpPacket))] >>

\* Without the hardware address a request goes out instead.
ethernet_out(ip, packet) ==
    /\ xarp_resolve(ip)
    /\ IF Usable(ip) THEN ethernet_out_to(arp_entry.macaddr, packet)
                     ELSE ethernet_out_to(Broadcast, ArpPacket)

xip_out(ip, packet) == ethernet_out(ip, add_header(packet, "IP"))

\* tcp_send and tcp_send_reset, as far as the buffer is concerned.
TcpOut(ip, size) ==
    xip_out(ip, add_header(alloc_for_send("segment",
                  IF size < XTCP_DATA_MAX_SIZE THEN size ELSE XTCP_DATA_MAX_SIZE), "TCP"))
-----------------------------------------------------------------------------
(***************************************************************************)
(* Up: from the driver.                                                    *)
(***************************************************************************)
\* A frame that was read, without the Ethernet header: what xip_in is given.
Read(d) == remove_header(alloc_for_read(Size.ETH + d.header + d.data + d.pad), Size.ETH)

\* What the protocols are given.
Body(d) == remove_header(Read(d), d.header)

Answers(d) == upcall' = NoUpcall /\ reply' = d.from

\* datetime_handler: the text is shorter than the buffer it is written to,
\* which truncate_packet leaves as it is.
datetime_handler(d) ==
    /\ d.kind = "datetime"
    /\ \E size \in TimeSizes :
         xip_out(d.from, add_header(truncate_packet(alloc_for_send("time", 128), size), "UDP"))
    /\ Answers(d)

\* The header and all that the datagram is said to enclose, or 8 bytes if that
\* is more.  The copy itself overruns the array if that is more than there can
\* be in a frame.
xicmp_dest_unreach(d) ==
    /\ Quoted(d)
    /\ LET packet == alloc_for_send("unreachable",
                         Size.ICMP + d.header + min(d.total - d.header, 8))
       IN  \/ packet.offset >= 0 /\ xip_out(d.from, packet)
           \/ packet.offset < 0 /\ tx_packet' = packet /\ frames' = <<>> /\ ArpRests
    /\ Answers(d)

xicmp_in(d) ==
    \/ /\ d.kind = "echo"
       /\ xip_out(d.from, alloc_for_send("echo reply", Body(d).size))
       /\ Answers(d)
    \/ d.kind = "icmp" /\ Dropped

\* The checksum test of xtcp_in over a segment of that length.
SumHolds(d, length) ==
    d.sum # 0 => d.sum = NonZero(checksum16(<<d.rest>>,
                                            checksum16(<<length>>, 0, FALSE), TRUE))

\* Wrong: the length is taken from the header of IP, the segment is not cut off.
Verifies_StatedLength(d) == SumHolds(d, d.total - d.header)

\* For the length xtcp_in takes the size of the packet, with what the link has
\* added.
Verifies(d) == SumHolds(d, Body(d).size)

xtcp_in(d) ==
    /\ d.kind = "tcp"
    /\ \/ /\ ~Verifies(d)
          /\ Dropped
       \/ /\ Verifies(d)
          /\ upcall' = [kind |-> "tcp", payload |-> Body(d).size - Size.TCP, datagram |-> d]
          /\ \/ /\ \E size \in SegmentSizes : TcpOut(d.from, size)
                /\ reply' = d.from
             \/ Silent /\ ArpRests /\ reply' = NoIp

xip_in(d) ==
    \/ /\ ~(d.intact /\ d.for = "us" /\ d.total >= d.header)
       /\ Dropped
    \/ /\ d.intact /\ d.for = "us" /\ d.total >= d.header
       /\ datetime_handler(d) \/ xicmp_dest_unreach(d) \/ xicmp_in(d) \/ xtcp_in(d)

\* An ARP packet; a request is answered in the same buffer.
ArpIn(packet) ==
    /\ xarp_in(packet)
    /\ IF packet.opcode = "REQUEST" THEN ethernet_out_to(packet.mac, ArpPacket)
                                    ELSE Silent
    /\ upcall' = NoUpcall /\ reply' = NoIp
-----------------------------------------------------------------------------
(***************************************************************************)
(* Between frames.                                                         *)
(***************************************************************************)
StackTick == Tick /\ Silent /\ upcall' = NoUpcall /\ reply' = NoIp

\* xarp_poll, and the frame of its request if it makes one.
StackPoll == /\ xarp_poll
             /\ IF sent' = {} THEN Silent ELSE ethernet_out_to(Broadcast, ArpPacket)
             /\ upcall' = NoUpcall /\ reply' = NoIp

\* An application writes to a connection, or closes it.
TcpSends(ip) == /\ \E size \in SegmentSizes : TcpOut(ip, size)
                /\ upcall' = NoUpcall /\ reply' = ip

\* ethernet_in drops frames of other protocols, and xarp_in what is not ARP
\* for this host.
OtherFrame == Dropped

StackNext ==
    /\ ~Overrun
    /\ \/ StackTick \/ StackPoll \/ OtherFrame
       \/ \E packet \in Packet : ArpIn(packet)
       \/ \E d \in Datagrams : xip_in(d)
       \/ \E ip \in Ip : TcpSends(ip)

StackSpec == StackInit /\ [][StackNext]_stackVars

\* The main loop polls for ever and the clock goes on, while the program runs.
StackFairSpec == /\ StackSpec
                 /\ WF_stackVars(~Overrun /\ StackTick)
                 /\ WF_stackVars(~Overrun /\ StackPoll)
-----------------------------------------------------------------------------
(***************************************************************************)
(* Properties; those of XnetArp hold here too.                             *)
(***************************************************************************)
Fits == tx_packet.offset >= 0 /\ tx_packet.offset + tx_packet.size <= MaxSize

BigQuote == \E d \in Datagrams : d.total > QuoteMax /\ xicmp_dest_unreach(d)

\* What is sent lies in the buffer from its first to its last byte: there is
\* room for every header (xnet_alloc_for_send, add_header), whichever layer
\* has made the packet, also the echo of what it was sent and the segment
\* whose size an application chooses.  The one exception is the unreachable
\* message for a datagram of more than QuoteMax (1474) bytes.
SendFits == Fits /\ [][Fits' \/ BigQuote]_stackVars

\* What each header may enclose.
Content == {<<"ARP">>, <<"IP", "UDP", "time">>, <<"IP", "echo reply">>,
            <<"IP", "unreachable">>, <<"IP", "TCP", "segment">>}

\* Each frame has its headers once and in order, although an ARP request may
\* have taken the buffer while the frame was on its way down; and to all
\* neighbours at once only ARP requests are sent (ethernet_out, xarp_resolve).
FrameWhole == \A i \in DOMAIN frames :
    LET f == frames[i]
    IN  /\ Head(f.packet.holds) = "ETH" /\ Tail(f.packet.holds) \in Content
        /\ \/ f.to \in Mac
           \/ f.to = Broadcast /\ Tail(f.packet.holds) = <<"ARP">>

\* Everything that is to be sent to a neighbour either goes out at once, to
\* the hardware address this neighbour has claimed last, or a request for
\* exactly this neighbour goes out; the first if and only if the last ARP
\* packet was this neighbour's and fewer than OkTmo periods have passed since
\* (xip_out, ethernet_out, xarp_resolve against xarp_in and xarp_poll).
\* Nothing is said of a message that has overrun the buffer (SendFits).
AnswerOrAsk == reply # NoIp /\ ~Overrun =>
    IF arp_entry.ipaddr = reply /\ age < OkTmo
      THEN Len(frames) = 1 /\ frames[1].to = claimed[reply]
                           /\ Head(Tail(frames[1].packet.holds)) = "IP"
      ELSE Len(frames) = 1 /\ frames[1].to = Broadcast /\ sent = {Request(reply)}

\* TCP is given the bytes that were sent to it and no more: options in the IP
\* header are no data, and what the link adds to a short frame never enters
\* the stream, because the sum over the longer segment is another one.  The
\* exception is a segment with checksum zero (xip_in, xtcp_in).
PayloadExact == upcall # NoUpcall /\ upcall.datagram.sum # 0 =>
    upcall.payload = upcall.datagram.data - Size.TCP

\* EntrySettles of XnetArp, with all the traffic: again and again the entry is
\* refreshed or free, unless the program overruns its buffer.
StackSettles == <>Overrun \/ EntrySettles
=============================================================================
