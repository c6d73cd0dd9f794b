----------------------------- MODULE XnetPacket -----------------------------
(***************************************************************************)
(* The packet buffer (xnet_packet.c).  A packet is the part of a payload   *)
(* array from offset on.  A packet to send is laid at the end of the       *)
(* array, so that each layer has room in front of it for its header; one   *)
(* that was read starts at the first byte.  Of the content only the names  *)
(* of the headers and of what they enclose are kept, from the outside in.  *)
(***************************************************************************)
EXTENDS Integers, Sequences

\* XNET_CFG_PACKET_MAX_SIZE.
MaxSize == 1516

\* sizeof of the headers, and of an ARP packet.
Size == [ETH |-> 14, IP |-> 20, UDP |-> 8, TCP |-> 20, ICMP |-> 8, ARP |-> 28]

\* The room that IP and Ethernet need in front of a packet.
Room == Size.IP + Size.ETH

\* Wrong: the room for the Ethernet header is forgotten.
XTCP_DATA_MAX_SIZE_NoEther == MaxSize - Size.IP - Size.TCP

XTCP_DATA_MAX_SIZE == MaxSize - Room - Size.TCP

\* The macro min of xnet_packet.c and xnet_icmp.c, which is the maximum.
min(a, b) == IF a < b THEN b ELSE a

alloc_for_send(content, size) ==
    [offset |-> MaxSize - size, size |-> size, holds |-> <<content>>]

alloc_for_read(size) == [offset |-> 0, size |-> size, holds |-> <<>>]

add_header(packet, header) ==
    [ offset |-> packet.offset - Size[header], size |-> packet.size + Size[header],
      holds |-> <<header>> \o packet.holds ]

remove_header(packet, size) ==
    [packet EXCEPT !.offset = @ + size, !.size = @ - size]

truncate_packet(packet, size) == [packet EXCEPT !.size = min(@, size)]
=============================================================================
