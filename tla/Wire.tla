-------------------------------- MODULE Wire --------------------------------
(***************************************************************************)
(* How packets are protected on their way between this host and a peer.    *)
(* This host computes and tests the checksums as xip_out, xip_in,          *)
(* reply_icmp_request, xicmp_dest_unreach, xudp_out, xudp_in, tcp_send and *)
(* xtcp_in do; the peer as the standard says.  The link may change a few   *)
(* words of a packet and may add zeroes behind it, to fill its frame.      *)
(*                                                                         *)
(* A packet is a sequence of words, of which the first is the checksum, in *)
(* UDP the second is the length, and the others stand for the rest of the  *)
(* header and for the data.  An odd last byte is a word like any other.    *)
(***************************************************************************)
EXTENDS Checksum

CONSTANTS
    Here, There,   \* the words of the two addresses
    Tcp, Udp,      \* the protocol numbers
    MaxWords,      \* the most words besides checksum and length
    MaxChanges,    \* how many words the link changes
    MaxPad         \* how many zeroes the link adds

ASSUME WireAssumption ==
    /\ {Here, There} \subseteq Seq(Word)
    /\ {Tcp, Udp} \subseteq Word \ {0} /\ Tcp # Udp
    /\ {MaxWords, MaxChanges, MaxPad} \subseteq Nat
    /\ MaxWords + MaxPad + 2 < Base

VARIABLES
    sender,    \* "us" or "peer"
    kind,      \* what the packet is
    sent,      \* the packet as it was sent, <<>> when there is none
    packet,    \* the packet as it is now
    changes,   \* how many words the link has changed
    verdict    \* what the receiver makes of it

wireVars == <<sender, kind, sent, packet, changes, verdict>>

\* What is in a packet.  A header of IP is never all zero, it has a version,
\* nor is the unreachable message, it has a type.
Data(k) == { data \in UNION {[1 .. n -> Word] : n \in 1 .. MaxWords} :
                 k \in {"ip", "unreachable"} => data[1] # 0 }

\* Of ICMP the echo reply and the unreachable message.
Kind == {"ip", "echo reply", "unreachable", "udp", "tcp"}

\* Only words are sent: each checksum fits into its field.
TypeOK == /\ sender \in {"us", "peer"} /\ kind \in Kind
          /\ sent \in Seq(Word) /\ packet \in Seq(Word)
          /\ changes \in 0 .. MaxChanges
          /\ verdict \in {"travelling", "accepted", "dropped"}

WireInit == /\ sender = "us" /\ kind = "ip" /\ sent = <<>> /\ packet = <<>>
            /\ changes = 0 /\ verdict = "dropped"

\* A packet whose checksum is still zero.
Blank(k, data) == IF k = "udp" THEN <<0, 2 + Len(data)>> \o data ELSE <<0>> \o data

Sealed(words, sum) == [words EXCEPT ![1] = sum]

Source == IF sender = "us" THEN Here ELSE There
Target == IF sender = "us" THEN There ELSE Here
-----------------------------------------------------------------------------
(***************************************************************************)
(* This host.                                                              *)
(***************************************************************************)
\* The checksum that goes out: xicmp_dest_unreach does not complement it;
\* xudp_out does not map zero, tcp_send does.
OurSum(k, words) ==
    CASE k \in {"ip", "echo reply"} -> checksum16(words, 0, TRUE)
      [] k = "unreachable" -> checksum16(words, 0, FALSE)
      [] k = "udp" -> checksum_peso(Here, There, Udp, words, Len(words))
      [] k = "tcp" -> NonZero(checksum_peso(Here, There, Tcp, words, Len(words)))

\* xip_in compares; xudp_in and xtcp_in take zero for a packet without
\* checksum; xudp_in believes the length in the packet unless the packet is
\* shorter, xtcp_in takes the size of the packet.
WeAccept ==
    LET sum == packet[1]
        words == Sealed(packet, 0)
    IN  \/ kind = "ip" /\ sum = checksum16(words, 0, TRUE)
        \/ /\ kind = "udp" /\ packet[2] <= Len(packet)
           /\ sum # 0 => sum = NonZero(checksum_peso(There, Here, Udp, words, packet[2]))
        \/ /\ kind = "tcp"
           /\ sum # 0 => sum = NonZero(checksum_peso(There, Here, Tcp, words, Len(words)))
-----------------------------------------------------------------------------
(***************************************************************************)
(* The peer, which is not part of this code: it adds up all there is, the  *)
(* checksum too, and wants a multiple of Base - 1.                         *)
(***************************************************************************)
Pseudo(k, length) ==
    IF k \notin {"udp", "tcp"} THEN 0
    ELSE Total(Here) + Total(There) + length + (IF k = "udp" THEN Udp ELSE Tcp)

Consistent(k, words) == (Pseudo(k, Len(words)) + Total(words)) % (Base - 1) = 0

\* The checksums a peer may send.  Zero and Base - 1 are the same number: a
\* header has the first, a datagram of UDP the second, unless it has none at
\* all, a segment either.
PeerSums(k, words) ==
    LET good == {sum \in Word : Consistent(k, Sealed(words, sum))}
    IN  CASE k = "ip"  -> good \ {Base - 1}
          [] k = "udp" -> good \cup {0}
          [] k = "tcp" -> good

PeerAccepts == \/ kind = "udp" /\ packet[1] = 0
               \/ Consistent(kind, packet)
-----------------------------------------------------------------------------
Send(who, k, words, sum) ==
    /\ sent = <<>>
    /\ sender' = who /\ kind' = k
    /\ sent' = Sealed(words, sum) /\ packet' = sent'
    /\ changes' = 0 /\ verdict' = "travelling"

WeSend == \E k \in Kind : \E data \in Data(k) :
    LET words == Blank(k, data) IN Send("us", k, words, OurSum(k, words))

PeerSends == \E k \in {"ip", "udp", "tcp"} : \E data \in Data(k) :
    LET words == Blank(k, data)
    IN  \E sum \in PeerSums(k, words) : Send("peer", k, words, sum)

Padded == Len(packet) > Len(sent)

\* The link changes a word.
Damage ==
    /\ verdict = "travelling" /\ changes < MaxChanges /\ ~Padded
    /\ \E i \in DOMAIN packet, w \in Word :
         w # packet[i] /\ packet' = [packet EXCEPT ![i] = w]
    /\ changes' = changes + 1
    /\ UNCHANGED <<sender, kind, sent, verdict>>

\* Or the link fills the frame.  The peer goes by the length that IP tells, so
\* that this matters for this host alone, and not for the header of IP.
Pad ==
    /\ verdict = "travelling" /\ ~Padded /\ changes = 0
    /\ sender = "peer" /\ kind \in {"udp", "tcp"}
    /\ \E n \in 1 .. MaxPad : packet' = packet \o [i \in 1 .. n |-> 0]
    /\ UNCHANGED <<sender, kind, sent, changes, verdict>>

Arrive ==
    /\ verdict = "travelling"
    /\ verdict' = IF (IF sender = "us" THEN PeerAccepts ELSE WeAccept)
                    THEN "accepted" ELSE "dropped"
    /\ UNCHANGED <<sender, kind, sent, packet, changes>>

\* Nothing of one packet is kept for the next.
Done == /\ sent # <<>> /\ verdict # "travelling"
        /\ sent' = <<>> /\ packet' = <<>> /\ changes' = 0
        /\ UNCHANGED <<sender, kind, verdict>>

WireNext == WeSend \/ PeerSends \/ Damage \/ Pad \/ Arrive \/ Done

WireSpec == WireInit /\ [][WireNext]_wireVars
-----------------------------------------------------------------------------
(***************************************************************************)
(* Properties                                                              *)
(***************************************************************************)
\* The two agree: what reaches its receiver as it was sent is accepted, in
\* both directions and for every checksum, the two zeroes among them; and
\* a datagram of UDP also when the link has filled its frame (checksum16,
\* checksum_peso, and the tests of xip_in, xudp_in and xtcp_in).  The one
\* exception is the unreachable message of this host: its checksum is the sum
\* itself, which a peer may refuse whenever it is not one of the two zeroes
\* (xicmp_dest_unreach).
IntactAccepted ==
    sent # <<>> /\ changes = 0 /\ (Padded => kind = "udp") =>
        \/ verdict # "dropped"
        \/ kind = "unreachable" /\ sent[1] \notin {0, Base - 1}

\* The words of the content that are not what they were.
Changed == {i \in DOMAIN sent \ {1} : packet[i] # sent[i]}

\* Nobody tests a datagram with checksum zero, and this host no segment.
Unchecked == packet[1] = 0 /\ kind \in (IF sender = "us" THEN {"udp"} ELSE {"udp", "tcp"})

\* What is accepted is what was sent, with nothing behind it that TCP would
\* take for data.  The exceptions: the packet has no checksum, or has lost
\* it; zero has become Base - 1 or the other way round; the length that
\* xudp_in believes, and counts twice, was changed; and the unreachable
\* message, whose checksum a change may first make a good one.
NothingForeign ==
    verdict = "accepted" /\ sent # <<>> =>
        \/ Unchecked \/ kind = "unreachable"
        \/ /\ (Padded => kind = "udp")
           /\ \A i \in Changed : \/ {packet[i], sent[i]} = {0, Base - 1}
                                 \/ kind = "udp" /\ i = 2 /\ sender = "peer"
=============================================================================
