-------------------------- MODULE XnetStackProofs --------------------------
(***************************************************************************)
(* Theorems about XnetStack. First those of its ARP layer alone, for every *)
(* timeout, every number of retries and every set of neighbours. Then: the *)
(* steps of the stack are steps of that layer, so that they hold with all  *)
(* traffic above it; and every packet that is sent fits into the buffer,   *)
(* has its headers in order and goes where it should; and TCP is given the *)
(* data of its segments.                                                   *)
(***************************************************************************)
EXTENDS XnetStack, ChecksumProofs

\* What ties the entry to its history: the timeout and the age of an entry
\* that is in use add up, and its address is the last one claimed.
Fresh ==
    /\ arp_entry.state = "OK" =>
         /\ age + arp_entry.tmo = OkTmo
         /\ arp_entry.ipaddr \in Ip /\ arp_entry.macaddr \in Mac
         /\ arp_entry.macaddr = claimed[arp_entry.ipaddr]
    /\ answer # NoAnswer => /\ age < OkTmo
                            /\ answer.mac = claimed[answer.ip]

IInv == TypeOK /\ RetryBudget /\ Fresh

LEMMA InitInv == Init => IInv
BY ArpAssumption DEF Init, IInv, TypeOK, RetryBudget, Fresh, Entry, State, NoAnswer

\* What xarp_poll does to an entry that is in use keeps the invariant, given
\* how timeout, retries and history moved.
LEMMA PollKeeps ==
    ASSUME IInv, arp_entry.state # "FREE",
           NEW e \in Entry, arp_entry' = e,
           e.ipaddr = arp_entry.ipaddr, e.macaddr = arp_entry.macaddr,
           behind' = 0, answer' = NoAnswer, claimed' = claimed,
           asked' \in Nat, age' \in Nat,
           sent' \subseteq {Request(arp_entry.ipaddr)},
           e.state # "FREE" => e.tmo > 0,
           e.state = "OK" => /\ arp_entry.state = "OK"
                             /\ asked' = 0 /\ e.retry_cnt = MaxRetries
                             /\ age' + e.tmo = OkTmo,
           e.state = "PENDING" => asked' + e.retry_cnt = MaxRetries + 1,
           e.state = "FREE" => asked' = MaxRetries + 1
    PROVE  IInv'
<1>1. arp_entry \in Entry /\ arp_entry.ipaddr \in Ip
  BY DEF IInv, TypeOK, Entry
<1>2. TypeOK'
  <2>1. sent' \subseteq [kind : {"request"}, ip : Ip]
    BY <1>1 DEF Request
  <2> QED
    BY <1>1, <2>1, ArpAssumption DEF IInv, TypeOK
<1>3. RetryBudget'
  BY <1>1 DEF RetryBudget
<1>4. Fresh'
  BY <1>1 DEF IInv, Fresh
<1> QED
  BY <1>2, <1>3, <1>4 DEF IInv

LEMMA NextKeeps == IInv /\ [Next]_vars => IInv'
<1> SUFFICES ASSUME IInv, [Next]_vars PROVE IInv'
  OBVIOUS
<1> USE ArpAssumption
<1>1. CASE Tick
  BY <1>1 DEF Tick, IInv, TypeOK, RetryBudget, Fresh, NoAnswer
<1>2. CASE xarp_poll
  <2>1. answer' = NoAnswer /\ behind' = 0 /\ claimed' = claimed
    BY <1>2 DEF xarp_poll
  <2> DEFINE n == arp_entry.tmo - 1
  <2>2. /\ arp_entry \in Entry /\ asked \in Nat /\ age \in Nat
        /\ arp_entry.retry_cnt \in 0 .. CounterMax
    BY DEF IInv, TypeOK, Entry
  <2>3. arp_entry.state # "FREE" => n \in 0 .. OkTmo + PendingTmo /\ n >= 0
    BY <2>2 DEF IInv, TypeOK, Entry
  <2>8. /\ OkTmo \in Nat /\ PendingTmo \in Nat /\ PendingTmo > 0
        /\ PendingTmo \in 0 .. OkTmo + PendingTmo
    OBVIOUS
  <2>9. /\ Counted = [arp_entry EXCEPT !.tmo = n] /\ Counted.tmo = n
        /\ Counted.ipaddr = arp_entry.ipaddr /\ Counted.macaddr = arp_entry.macaddr
        /\ Counted.state = arp_entry.state /\ Counted.retry_cnt = arp_entry.retry_cnt
    BY <2>2 DEF Counted, Entry
  <2>4. CASE PollOk
    <3>1. /\ arp_entry.state = "OK" /\ asked = 0
          /\ arp_entry.retry_cnt = MaxRetries /\ age + arp_entry.tmo = OkTmo
      BY <2>4 DEF PollOk, IInv, RetryBudget, Fresh
    <3>2. CASE n # 0 /\ Age
      <4> DEFINE e == [arp_entry EXCEPT !.tmo = n]
      <4>1. arp_entry' = e /\ sent' = {} /\ age' = OneMore(age, OkTmo) /\ asked' = asked
        BY <3>2 DEF Age, Counted
      <4>2. /\ e \in Entry /\ e.tmo = n /\ e.state = "OK"
            /\ e.ipaddr = arp_entry.ipaddr /\ e.macaddr = arp_entry.macaddr
            /\ e.retry_cnt = arp_entry.retry_cnt
        BY <2>2, <2>3, <3>1 DEF Entry
      <4> HIDE DEF e
      <4>3. /\ e.tmo > 0 /\ age' + e.tmo = OkTmo
            /\ age' \in Nat /\ asked' \in Nat /\ asked' = 0
        BY <2>2, <2>3, <2>8, <3>1, <3>2, <4>1, <4>2 DEF Entry, OneMore
      <4>4. e.retry_cnt = MaxRetries /\ e.state = "OK" /\ arp_entry.state # "FREE"
        BY <3>1, <4>2
      <4> HIDE DEF n
      <4> QED
        BY <2>1, <3>1, <4>1, <4>2, <4>3, <4>4, PollKeeps
    <3>3. CASE n = 0 /\ Ask([Counted EXCEPT !.state = "PENDING", !.tmo = PendingTmo])
      <4> DEFINE e == [Counted EXCEPT !.state = "PENDING", !.tmo = PendingTmo]
      <4>1. /\ e \in Entry /\ e.tmo = PendingTmo /\ e.state = "PENDING"
            /\ e.ipaddr = arp_entry.ipaddr /\ e.macaddr = arp_entry.macaddr
            /\ e.retry_cnt = arp_entry.retry_cnt
        BY <2>2, <2>8, <2>9 DEF Entry, Counted, State
      <4>2. /\ arp_entry' = e /\ sent' = {Request(e.ipaddr)}
            /\ age' = OneMore(age, OkTmo) /\ asked' = OneMore(asked, MaxRetries + 2)
        BY <3>3 DEF Ask
      <4> HIDE DEF e
      <4>3. asked' + e.retry_cnt = MaxRetries + 1 /\ asked' \in Nat /\ age' \in Nat
        BY <2>2, <2>8, <3>1, <4>1, <4>2 DEF OneMore
      <4> QED
        BY <2>1, <2>2, <3>1, <4>1, <4>2, <4>3, PollKeeps
    <3> QED
      BY <2>2, <2>4, <3>2, <3>3 DEF PollOk, Counted, Entry
  <2>5. CASE PollPending
    <3>1. /\ arp_entry.state = "PENDING"
          /\ asked + arp_entry.retry_cnt = MaxRetries + 1
      BY <2>5 DEF PollPending, IInv, RetryBudget
    <3>2. CASE n # 0 /\ Age
      <4> DEFINE e == [arp_entry EXCEPT !.tmo = n]
      <4>1. arp_entry' = e /\ sent' = {} /\ age' = OneMore(age, OkTmo) /\ asked' = asked
        BY <3>2 DEF Age, Counted
      <4>2. /\ e \in Entry /\ e.tmo = n /\ e.state = "PENDING"
            /\ e.ipaddr = arp_entry.ipaddr /\ e.macaddr = arp_entry.macaddr
            /\ e.retry_cnt = arp_entry.retry_cnt
        BY <2>2, <2>3, <3>1 DEF Entry
      <4> HIDE DEF e
      <4>3. e.tmo > 0
        <5> HIDE DEF n
        <5> QED
          BY <2>3, <2>8, <3>1, <3>2, <4>2
      <4>4. /\ age' \in Nat /\ asked' \in Nat
            /\ asked' + e.retry_cnt = MaxRetries + 1
        BY <2>2, <2>8, <3>1, <4>1, <4>2 DEF OneMore
      <4> HIDE DEF n
      <4> QED
        BY <2>1, <3>1, <4>1, <4>2, <4>3, <4>4, PollKeeps
    <3> DEFINE d == [Counted EXCEPT !.retry_cnt = Decremented(@)]
    <3>3. Decremented(arp_entry.retry_cnt) \in 0 .. CounterMax
      BY <2>2 DEF Decremented
    <3>4. /\ d \in Entry /\ d.state = "PENDING" /\ d.ipaddr = arp_entry.ipaddr
          /\ d.macaddr = arp_entry.macaddr
          /\ d.retry_cnt = Decremented(arp_entry.retry_cnt)
      <4>1. Counted \in Entry /\ Counted.state = "PENDING"
            /\ Counted.ipaddr = arp_entry.ipaddr /\ Counted.macaddr = arp_entry.macaddr
            /\ Counted.retry_cnt = arp_entry.retry_cnt
        BY <2>2, <2>3, <3>1 DEF Counted, Entry
      <4> QED
        BY <3>3, <4>1 DEF Entry
    <3>5. CASE n = 0 /\ arp_entry.retry_cnt = 0 /\ sent' = {} /\ age' = OneMore(age, OkTmo)
                /\ asked' = asked /\ arp_entry' = [d EXCEPT !.state = "FREE"]
      <4> HIDE DEF d
      <4> DEFINE e == [d EXCEPT !.state = "FREE"]
      <4>1. /\ e \in Entry /\ e.state = "FREE"
            /\ e.ipaddr = arp_entry.ipaddr /\ e.macaddr = arp_entry.macaddr
        BY <3>4 DEF Entry, State
      <4>2. /\ arp_entry' = e /\ asked' = MaxRetries + 1
            /\ asked' \in Nat /\ age' \in Nat
        BY <2>2, <2>8, <3>1, <3>5 DEF OneMore
      <4> HIDE DEF e
      <4> QED
        BY <2>1, <2>2, <3>1, <3>5, <4>1, <4>2, PollKeeps
    <3>6. CASE n = 0 /\ arp_entry.retry_cnt # 0 /\ Ask([d EXCEPT !.tmo = PendingTmo])
      <4> HIDE DEF d
      <4> DEFINE e == [d EXCEPT !.tmo = PendingTmo]
      <4>1. /\ e \in Entry /\ e.state = "PENDING" /\ e.tmo = PendingTmo
            /\ e.ipaddr = arp_entry.ipaddr /\ e.macaddr = arp_entry.macaddr
            /\ e.retry_cnt = Decremented(arp_entry.retry_cnt)
        BY <3>4 DEF Entry
      <4>2. /\ arp_entry' = e /\ sent' = {Request(e.ipaddr)}
            /\ age' = OneMore(age, OkTmo) /\ asked' = OneMore(asked, MaxRetries + 2)
        BY <3>6 DEF Ask
      <4> HIDE DEF e
      <4>3. asked' + e.retry_cnt = MaxRetries + 1 /\ asked' \in Nat /\ age' \in Nat
        BY <2>2, <2>8, <3>1, <3>6, <4>1, <4>2 DEF Decremented, OneMore
      <4> QED
        BY <2>1, <2>2, <3>1, <4>1, <4>2, <4>3, PollKeeps
    <3>7. Counted.tmo = n
      BY <2>2 DEF Counted, Entry
    <3> QED
      BY <2>5, <3>2, <3>5, <3>6, <3>7 DEF PollPending
  <2>6. CASE PollFree
    BY <2>1, <2>6
       DEF PollFree, IInv, TypeOK, RetryBudget, Fresh, NoAnswer
  <2> QED
    BY <1>2, <2>4, <2>5, <2>6 DEF xarp_poll
<1>3. ASSUME NEW ip \in Ip, xarp_resolve(ip) PROVE IInv'
  BY <1>3 DEF xarp_resolve, Usable, Request, IInv, TypeOK, RetryBudget, Fresh,
              Entry, NoAnswer
<1>4. ASSUME NEW packet \in Packet, xarp_in(packet) PROVE IInv'
  BY <1>4 DEF xarp_in, Updated, Response, Packet, IInv, TypeOK, RetryBudget, Fresh,
              Entry, State, NoAnswer
<1>5. CASE UNCHANGED vars
  BY <1>5 DEF vars, IInv, TypeOK, RetryBudget, Fresh
<1> QED
  BY <1>1, <1>2, <1>3, <1>4, <1>5 DEF Next

LEMMA Invariance == Spec => []IInv
BY InitInv, NextKeeps, PTL DEF Spec

\* tmo and retry_cnt never wrap while the entry is in use.
THEOREM TypeCorrect == Spec => []TypeOK
<1>1. IInv => TypeOK
  BY DEF IInv
<1> QED
  BY <1>1, Invariance, PTL

\* An entry is given up only after all its retries, whatever ARP traffic
\* came before.
THEOREM RetriesExact == Spec => []RetryBudget
<1>1. IInv => RetryBudget
  BY DEF IInv
<1> QED
  BY <1>1, Invariance, PTL

\* IP is never given an address that has expired or has been superseded.
THEOREM AnswersFresh == Spec => []AnswerFresh
<1>1. IInv => AnswerFresh
  BY DEF IInv, Fresh, AnswerFresh
<1> QED
  BY <1>1, Invariance, PTL
-----------------------------------------------------------------------------
(***************************************************************************)
(* The converse of Fresh: an entry that is not usable is an old one.       *)
(***************************************************************************)
Aged == arp_entry.state # "OK" /\ arp_entry.ipaddr # NoIp => age >= OkTmo

\* A poll leaves the address alone, and takes an entry out of use only when
\* its last period is over.
LEMMA PollAges == IInv /\ Aged /\ xarp_poll => Aged'
<1> SUFFICES ASSUME IInv, Aged, xarp_poll PROVE Aged'
  OBVIOUS
<1>1. /\ arp_entry \in Entry /\ age \in Nat /\ OkTmo \in Nat
      /\ arp_entry.tmo \in Nat
  BY ArpAssumption DEF IInv, TypeOK, Entry
<1>2. /\ Counted \in [ state : State, ipaddr : Ip \cup {NoIp}, macaddr : Mac \cup {NoMac},
                       tmo : Int, retry_cnt : 0 .. CounterMax ]
      /\ Counted.tmo = arp_entry.tmo - 1
      /\ Counted.ipaddr = arp_entry.ipaddr /\ Counted.state = arp_entry.state
  BY <1>1 DEF Counted, Entry
<1>3. age >= OkTmo => age' >= OkTmo
  BY <1>1 DEF xarp_poll, PollOk, PollPending, PollFree, Ask, Age, OneMore
<1>4. CASE PollOk
  <2>1. arp_entry.state = "OK" /\ age + arp_entry.tmo = OkTmo
    BY <1>4 DEF PollOk, IInv, Fresh
  <2>2. CASE Counted.tmo # 0 /\ Age
    BY <1>2, <2>1, <2>2 DEF Age, Aged
  <2>3. CASE Counted.tmo = 0 /\ Ask([Counted EXCEPT !.state = "PENDING", !.tmo = PendingTmo])
    BY <1>1, <1>2, <2>1, <2>3 DEF Ask, Aged, OneMore
  <2> QED
    BY <1>4, <2>2, <2>3 DEF PollOk
<1>5. CASE arp_entry.state # "OK"
  <2>1. arp_entry'.ipaddr = arp_entry.ipaddr
    BY <1>2, <1>5 DEF xarp_poll, PollOk, PollPending, PollFree, Ask, Age
  <2> QED
    BY <1>1, <1>3, <1>5, <2>1 DEF Aged
<1> QED
  BY <1>4, <1>5 DEF xarp_poll, PollPending, PollFree

LEMMA AgedKeeps == IInv /\ Aged /\ [Next]_vars => Aged'
<1> SUFFICES ASSUME IInv, Aged, [Next]_vars PROVE Aged'
  OBVIOUS
<1>1. CASE Tick
  BY <1>1 DEF Tick, Aged
<1>2. CASE xarp_poll
  BY <1>2, PollAges
<1>3. ASSUME NEW ip \in Ip, xarp_resolve(ip) PROVE Aged'
  BY <1>3 DEF xarp_resolve, Aged
<1>4. ASSUME NEW packet \in Packet, xarp_in(packet) PROVE Aged'
  BY <1>4 DEF xarp_in, Updated, Aged
<1>5. CASE UNCHANGED vars
  BY <1>5 DEF vars, Aged
<1> QED
  BY <1>1, <1>2, <1>3, <1>4, <1>5 DEF Next

LEMMA AgedInvariance == Spec => [](IInv /\ Aged)
<1>1. Init => Aged
  BY DEF Init, Aged
<1> QED
  BY <1>1, InitInv, NextKeeps, AgedKeeps, PTL DEF Spec

\* What the state of the entry says to xarp_resolve: the address of a
\* neighbour is usable if and only if the neighbour was the last one heard
\* of, within the last OkTmo periods.
LEMMA UsableExactly ==
    ASSUME IInv, Aged, NEW ip \in Ip
    PROVE  /\ Usable(ip) <=> arp_entry.ipaddr = ip /\ age < OkTmo
           /\ Usable(ip) => arp_entry.macaddr \in Mac /\ arp_entry.macaddr = claimed[ip]
<1>1. /\ age \in Nat /\ arp_entry.tmo \in Nat
      /\ arp_entry.state # "FREE" => arp_entry.tmo > 0
  BY ArpAssumption DEF IInv, TypeOK, Entry
<1>2. OkTmo \in Nat /\ ip # NoIp
  BY ArpAssumption
<1> QED
  BY <1>1, <1>2 DEF Usable, IInv, Fresh, Aged

----------------------------------------------------------------------------

\* What is assumed of the datagrams, in pieces.
LEMMA DatagramIs ==
    ASSUME NEW d \in Datagrams
    PROVE  /\ d.from \in Ip /\ d.total \in Nat /\ d.header \in {20, 24, 60}
           /\ d.data \in Nat /\ d.pad \in Nat /\ d.sum \in Word /\ d.rest \in Word
           /\ Size.ETH + d.header + d.data + d.pad <= MaxSize - 2
           /\ d.kind = "tcp" /\ d.sum # 0 => (d.rest + d.data + d.sum) % M = 0
<1>1. d \in Datagram
  BY StackAssumption, Zenon
<1>2. Size.ETH + d.header + d.data + d.pad <= MaxSize - 2
  BY StackAssumption, Zenon
<1>3. d.kind = "tcp" /\ d.sum # 0 => (d.rest + d.data + d.sum) % M = 0
  BY StackAssumption, Zenon DEF M
<1>4. /\ d.from \in Ip /\ d.header \in {20, 24, 60} /\ d.total \in Word
      /\ d.data \in Nat /\ d.pad \in Nat /\ d.sum \in Word /\ d.rest \in Word
  BY <1>1 DEF Datagram
<1>5. d.total \in Nat
  BY <1>4, MType DEF Word
<1> QED
  BY <1>2, <1>3, <1>4, <1>5

LEMMA SizesAre ==
    /\ MaxSize < M /\ SegmentSizes \subseteq Nat /\ TimeSizes \subseteq 0 .. 128
BY StackAssumption, Zenon DEF M

\* Sending to a neighbour is a resolution, as far as ARP is concerned.
LEMMA OutResolves ==
    ASSUME NEW ip \in Ip, NEW packet, ethernet_out(ip, packet)
    PROVE  Next
BY DEF ethernet_out, Next

LEMMA TcpOutResolves ==
    ASSUME NEW ip \in Ip, NEW size, TcpOut(ip, size)
    PROVE  Next
BY OutResolves DEF TcpOut, xip_out

LEMMA DroppedRests == Dropped => UNCHANGED vars
BY DEF Dropped, ArpRests

\* Each datagram is dropped, taken silently, or answered through xip_out.
LEMMA DatagramStep ==
    ASSUME NEW d \in Datagrams, xip_in(d)
    PROVE  [Next]_vars
<1>0. d.from \in Ip
  BY DatagramIs
<1>1. CASE datetime_handler(d)
  BY <1>0, <1>1, OutResolves DEF datetime_handler, xip_out
<1>2. CASE xicmp_dest_unreach(d)
  BY <1>0, <1>2, OutResolves DEF xicmp_dest_unreach, xip_out, ArpRests
<1>3. CASE xicmp_in(d)
  BY <1>0, <1>3, OutResolves, DroppedRests DEF xicmp_in, xip_out
<1>4. CASE xtcp_in(d)
  BY <1>0, <1>4, TcpOutResolves, DroppedRests DEF xtcp_in, ArpRests
<1> QED
  BY <1>1, <1>2, <1>3, <1>4, DroppedRests DEF xip_in

LEMMA StackStep == [StackNext]_stackVars => [Next]_vars
<1> SUFFICES ASSUME [StackNext]_stackVars PROVE [Next]_vars
  OBVIOUS
<1>1. CASE StackTick
  BY <1>1 DEF StackTick, Next
<1>2. CASE StackPoll
  BY <1>2 DEF StackPoll, Next
<1>3. CASE OtherFrame
  BY <1>3, DroppedRests DEF OtherFrame
<1>4. ASSUME NEW packet \in Packet, ArpIn(packet) PROVE Next
  BY <1>4 DEF ArpIn, Next
<1>5. ASSUME NEW ip \in Ip, TcpSends(ip) PROVE Next
  BY <1>5, TcpOutResolves DEF TcpSends
<1>6. CASE UNCHANGED stackVars
  BY <1>6 DEF stackVars
<1> QED
  BY <1>1, <1>2, <1>3, <1>4, <1>5, <1>6, DatagramStep DEF StackNext

\* The stack implements the ARP layer: nothing the other layers do with the
\* resolutions and with the shared buffer is more than xarp_resolve, xarp_in
\* and xarp_poll allow.
THEOREM StackImplementsArp == StackSpec => Spec
<1>1. StackInit => Init
  BY DEF StackInit
<1> QED
  BY <1>1, StackStep, PTL DEF StackSpec, Spec

\* Hence what is proved of ARP alone holds with the traffic of all layers.
THEOREM ArpInStack == StackSpec => [](TypeOK /\ RetryBudget /\ AnswerFresh)
BY StackImplementsArp, TypeCorrect, RetriesExact, AnswersFresh, PTL
-----------------------------------------------------------------------------
(***************************************************************************)
(* The room in the buffer.                                                 *)
(***************************************************************************)
\* A packet that lies at the end of the buffer.
Placed(packet) == /\ packet.offset \in Int /\ packet.size \in Int
                  /\ packet.offset + packet.size = MaxSize

LEMMA AllocPlaced ==
    ASSUME NEW content, NEW size \in Int
    PROVE  /\ Placed(alloc_for_send(content, size))
           /\ alloc_for_send(content, size).offset = MaxSize - size
BY DEF Placed, alloc_for_send, MaxSize

LEMMA HeaderPlaced ==
    ASSUME NEW packet, Placed(packet), NEW h \in {"ETH", "IP", "UDP", "TCP", "ICMP", "ARP"}
    PROVE  /\ Placed(add_header(packet, h))
           /\ add_header(packet, h).offset = packet.offset - Size[h]
BY DEF Placed, add_header, Size, MaxSize

LEMMA ArpFits == Placed(Framed(ArpPacket)) /\ Framed(ArpPacket).offset >= 0
<1> DEFINE p == ArpPacket
<1>1. Placed(p) /\ p.offset = MaxSize - 28
  BY AllocPlaced DEF ArpPacket, Size
<1>2. Placed(Framed(p)) /\ Framed(p).offset = p.offset - 14
  BY <1>1, HeaderPlaced DEF Framed, Size
<1> QED
  BY <1>1, <1>2 DEF MaxSize

\* The packet in the buffer, when there is room for it.
InBuffer == Placed(tx_packet) /\ Fits

LEMMA SentFits ==
    ASSUME NEW mac, NEW packet, Placed(packet), packet.offset >= Size.ETH,
           ethernet_out_to(mac, packet)
    PROVE  InBuffer'
<1>1. Placed(Framed(packet)) /\ Framed(packet).offset = packet.offset - Size.ETH
  BY HeaderPlaced DEF Framed
<1> QED
  BY <1>1 DEF ethernet_out_to, InBuffer, Fits, Placed, Size, MaxSize

LEMMA ArpSentFits == ASSUME NEW mac, ethernet_out_to(mac, ArpPacket) PROVE InBuffer'
BY ArpFits DEF ethernet_out_to, InBuffer, Fits, Placed, MaxSize

LEMMA OutFits ==
    ASSUME NEW ip, NEW packet, Placed(packet), packet.offset >= Room, xip_out(ip, packet)
    PROVE  InBuffer'
<1> DEFINE q == add_header(packet, "IP")
<1>1. Placed(q) /\ q.offset = packet.offset - Size.IP
  BY HeaderPlaced
<1>2. q.offset >= Size.ETH
  BY <1>1 DEF Placed, Room, Size
<1>3. ethernet_out(ip, q)
  BY DEF xip_out
<1> HIDE DEF q
<1> QED
  BY <1>1, <1>2, <1>3, SentFits, ArpSentFits DEF ethernet_out

\* Too long or not, what goes out ends where the buffer ends.
LEMMA DatagramOutPlaced ==
    ASSUME NEW ip, NEW content, NEW n \in Int, xip_out(ip, alloc_for_send(content, n))
    PROVE  Placed(tx_packet')
<1> DEFINE p == alloc_for_send(content, n)
           q == add_header(p, "IP")
<1>1. Placed(p)
  BY AllocPlaced
<1>2. ethernet_out(ip, q)
  BY DEF xip_out
<1> HIDE DEF p
<1>3. Placed(q)
  BY <1>1, HeaderPlaced
<1> HIDE DEF q
<1>4. Placed(Framed(q))
  BY <1>3, HeaderPlaced DEF Framed
<1> QED
  BY <1>2, <1>4, ArpFits DEF ethernet_out, ethernet_out_to

LEMMA TcpFits ==
    ASSUME NEW ip, NEW size \in Nat, TcpOut(ip, size)
    PROVE  InBuffer'
<1> DEFINE n == IF size < XTCP_DATA_MAX_SIZE THEN size ELSE XTCP_DATA_MAX_SIZE
           p == alloc_for_send("segment", n)
           q == add_header(p, "TCP")
<1>1. n \in Int /\ n <= XTCP_DATA_MAX_SIZE
  BY DEF XTCP_DATA_MAX_SIZE, MaxSize, Room, Size
<1>2. xip_out(ip, q)
  BY DEF TcpOut
<1> HIDE DEF n
<1>3. Placed(p) /\ p.offset = MaxSize - n
  BY <1>1, AllocPlaced
<1> HIDE DEF p
<1>4. Placed(q) /\ q.offset = p.offset - Size.TCP
  BY <1>3, HeaderPlaced
<1> HIDE DEF q
<1>5. q.offset >= Room
  BY <1>1, <1>3, <1>4 DEF XTCP_DATA_MAX_SIZE, MaxSize, Room, Size
<1> QED
  BY <1>2, <1>4, <1>5, OutFits

LEMMA TimeFits == ASSUME NEW d \in Datagrams, datetime_handler(d) PROVE InBuffer'
<1>1. PICK size \in TimeSizes :
        xip_out(d.from, add_header(truncate_packet(alloc_for_send("time", 128), size), "UDP"))
  BY DEF datetime_handler
<1> DEFINE p == alloc_for_send("time", 128)
           q == add_header(p, "UDP")
<1>2. size \in 0 .. 128
  BY SizesAre
<1>3. truncate_packet(p, size) = p
  BY <1>2 DEF truncate_packet, alloc_for_send, min
<1>4. Placed(p) /\ p.offset = MaxSize - 128
  BY AllocPlaced
<1>5. xip_out(d.from, q)
  BY <1>1, <1>3
<1> HIDE DEF p
<1>6. Placed(q) /\ q.offset = p.offset - Size.UDP
  BY <1>4, HeaderPlaced
<1> HIDE DEF q
<1>7. q.offset >= Room
  BY <1>4, <1>6 DEF MaxSize, Room, Size
<1> QED
  BY <1>5, <1>6, <1>7, OutFits

\* A packet that IP is given and that is not too long.
LEMMA DatagramOutFits ==
    ASSUME NEW ip, NEW content, NEW n \in Int, n <= MaxSize - Room,
           xip_out(ip, alloc_for_send(content, n))
    PROVE  InBuffer'
<1> DEFINE p == alloc_for_send(content, n)
<1>1. Placed(p) /\ p.offset = MaxSize - n
  BY AllocPlaced
<1> HIDE DEF p
<1>2. p.offset >= Room
  BY <1>1 DEF MaxSize, Room, Size
<1> QED
  BY <1>1, <1>2, OutFits DEF p

\* Of a datagram that is not too long all can be quoted; of any, the message
\* ends where the buffer ends.
LEMMA UnreachFits ==
    ASSUME NEW d \in Datagrams, xicmp_dest_unreach(d), d.total >= d.header
    PROVE  /\ Placed(tx_packet')
           /\ d.total <= QuoteMax => InBuffer'
<1> DEFINE n == Size.ICMP + d.header + min(d.total - d.header, 8)
           p == alloc_for_send("unreachable", n)
<1>1. d.header \in {20, 24, 60} /\ d.total \in Nat
  BY DatagramIs
<1>2. n \in Int
  BY <1>1 DEF min, Size
<1>3. d.total <= QuoteMax => n <= MaxSize - Room
  BY <1>1 DEF min, QuoteMax, MaxSize, Room, Size
<1>4. \/ p.offset >= 0 /\ xip_out(d.from, p)
      \/ p.offset < 0 /\ tx_packet' = p
  BY DEF xicmp_dest_unreach
<1>5. xip_out(d.from, p) => Placed(tx_packet') /\ (d.total <= QuoteMax => InBuffer')
  BY <1>2, <1>3, DatagramOutFits, DatagramOutPlaced
<1> HIDE DEF n
<1>6. Placed(p) /\ p.offset = MaxSize - n
  BY <1>2, AllocPlaced
<1> HIDE DEF p
<1>7. p.offset < 0 => ~ (d.total <= QuoteMax)
  BY <1>2, <1>3, <1>6 DEF MaxSize, Room, Size
<1> QED
  BY <1>4, <1>5, <1>6, <1>7

LEMMA BodySize ==
    ASSUME NEW d \in Datagrams
    PROVE  /\ Body(d).size = d.data + d.pad /\ d.data \in Nat /\ d.pad \in Nat
           /\ Body(d).size \in Int /\ Body(d).size <= MaxSize - Room
<1> DEFINE n == Size.ETH + d.header + d.data + d.pad
           r == alloc_for_read(n)
<1>1. d.header \in {20, 24, 60} /\ d.data \in Nat /\ d.pad \in Nat
  BY DatagramIs
<1>2. n <= MaxSize - 2
  BY DatagramIs
<1>3. n = 14 + d.header + d.data + d.pad
  BY DEF Size
<1>4. r.size = n /\ DOMAIN r = {"offset", "size", "holds"}
  BY DEF alloc_for_read
<1>5. Read(d) = [r EXCEPT !.offset = @ + Size.ETH, !.size = @ - Size.ETH]
  BY DEF Read, remove_header
<1> HIDE DEF n, r
<1>6. /\ Read(d).size = d.header + d.data + d.pad
      /\ DOMAIN Read(d) = {"offset", "size", "holds"}
  BY <1>1, <1>3, <1>4, <1>5 DEF Size
<1>7. Body(d).size = Read(d).size - d.header
  BY <1>6 DEF Body, remove_header
<1>8. Body(d).size = d.data + d.pad
  BY <1>1, <1>6, <1>7
<1> QED
  BY <1>1, <1>2, <1>3, <1>8 DEF MaxSize, Room, Size

LEMMA EchoFits ==
    ASSUME NEW d \in Datagrams,
           xip_out(d.from, alloc_for_send("echo reply", Body(d).size))
    PROVE  InBuffer'
<1> DEFINE n == Body(d).size
<1>1. n \in Int /\ n <= MaxSize - Room
  BY BodySize, Zenon
<1> HIDE DEF n
<1> QED
  BY <1>1, DatagramOutFits DEF n

LEMMA SilentFits == InBuffer /\ Silent => InBuffer'
BY DEF InBuffer, Fits, Silent

LEMMA SegmentFits ==
    ASSUME NEW ip, NEW size \in SegmentSizes, TcpOut(ip, size) PROVE InBuffer'
BY SizesAre, TcpFits

\* The packet stays in the buffer, or is a quote that is too long.
Kept == Placed(tx_packet') /\ (Fits' \/ BigQuote)

LEMMA InBufferKept == InBuffer' => Kept
BY DEF InBuffer, Kept

LEMMA DatagramFits ==
    ASSUME InBuffer, NEW d \in Datagrams, xip_in(d)
    PROVE  Kept
<1>1. CASE Dropped
  BY <1>1, SilentFits, InBufferKept DEF Dropped
<1>2. CASE xtcp_in(d)
  BY <1>2, SilentFits, SegmentFits, InBufferKept DEF xtcp_in, Dropped
<1>3. CASE xicmp_in(d)
  BY <1>1, <1>3, EchoFits, InBufferKept DEF xicmp_in
<1>4. CASE xicmp_dest_unreach(d) /\ d.total >= d.header
  <2>1. d.total \in Nat /\ QuoteMax \in Nat
    BY DatagramIs DEF QuoteMax, MaxSize, Room, Size
  <2>2. CASE d.total <= QuoteMax
    BY <1>4, <2>2, UnreachFits, InBufferKept
  <2>3. CASE d.total > QuoteMax
    BY <1>4, <2>3, UnreachFits DEF Kept, BigQuote
  <2> QED
    BY <2>1, <2>2, <2>3
<1>5. CASE datetime_handler(d)
  BY <1>5, TimeFits, InBufferKept
<1> QED
  BY <1>1, <1>2, <1>3, <1>4, <1>5 DEF xip_in

\* A step is taken only while nothing has overrun the buffer.
LEMMA BufferStep ==
    ASSUME Placed(tx_packet), StackNext
    PROVE  Kept
<1>0. InBuffer
  BY DEF StackNext, Overrun, InBuffer, Fits, Placed, MaxSize
<1>1. CASE StackTick
  BY <1>0, <1>1, SilentFits, InBufferKept DEF StackTick
<1>2. CASE StackPoll
  BY <1>0, <1>2, SilentFits, ArpSentFits, InBufferKept DEF StackPoll
<1>3. CASE OtherFrame
  BY <1>0, <1>3, SilentFits, InBufferKept DEF OtherFrame, Dropped
<1>4. ASSUME NEW packet \in Packet, ArpIn(packet) PROVE Kept
  BY <1>0, <1>4, SilentFits, ArpSentFits, InBufferKept DEF ArpIn
<1>5. ASSUME NEW ip \in Ip, TcpSends(ip) PROVE Kept
  BY <1>5, SegmentFits, InBufferKept DEF TcpSends
<1> QED
  BY <1>0, <1>1, <1>2, <1>3, <1>4, <1>5, DatagramFits DEF StackNext

\* Whatever arrives and whatever the applications send, the packet that goes
\* out lies within the buffer: no layer runs out of room for its header.  The
\* one exception is the message that quotes a datagram of more than QuoteMax
\* bytes, and no step before it has left the buffer.
THEOREM BufferFits == StackSpec => SendFits
<1>1. StackInit => Placed(tx_packet) /\ Fits
  BY ArpFits DEF StackInit, Fits, Placed
<1>2. Placed(tx_packet) /\ [StackNext]_stackVars
        => Placed(tx_packet)' /\ [Fits' \/ BigQuote]_stackVars
  <2> SUFFICES ASSUME Placed(tx_packet), [StackNext]_stackVars
               PROVE  Placed(tx_packet)' /\ [Fits' \/ BigQuote]_stackVars
    OBVIOUS
  <2>1. CASE StackNext
    BY <2>1, BufferStep DEF Kept
  <2>2. CASE UNCHANGED stackVars
    BY <2>2 DEF stackVars
  <2> QED
    BY <2>1, <2>2
<1> QED
  BY <1>1, <1>2, PTL DEF StackSpec, SendFits
-----------------------------------------------------------------------------
(***************************************************************************)
(* What goes out, and to whom.  A packet holds the names of its headers;   *)
(* each layer puts one in front.                                           *)
(***************************************************************************)
\* Tuples, taken apart.
LEMMA Singleton == ASSUME NEW S, NEW a \in S PROVE <<a>> \in Seq(S) /\ Len(<<a>>) = 1
OBVIOUS

LEMMA SameElements ==
    ASSUME NEW S, NEW s \in Seq(S), NEW t \in Seq(S), Len(s) = Len(t),
           \A i \in 1 .. Len(s) : s[i] = t[i]
    PROVE  s = t
OBVIOUS

LEMMA BeforeOne ==
    ASSUME NEW a, NEW b
    PROVE  <<a>> \o <<b>> = <<a, b>>
<1> DEFINE S == {a, b}
           s == <<a>> \o <<b>>
           t == <<a, b>>
<1>1. s \in Seq(S) /\ Len(s) = 2 /\ s[1] = a /\ s[2] = b
  BY Singleton
<1>2. t \in Seq(S) /\ Len(t) = 2 /\ t[1] = a /\ t[2] = b
  OBVIOUS
<1> HIDE DEF s, t
<1>3. \A i \in 1 .. Len(s) : i = 1 \/ i = 2
  BY <1>1
<1>4. s = t
  BY <1>1, <1>2, <1>3, SameElements
<1> QED
  BY <1>4 DEF s, t

LEMMA BeforeTwo ==
    ASSUME NEW a, NEW b, NEW c
    PROVE  <<a>> \o <<b, c>> = <<a, b, c>>
<1> DEFINE S == {a, b, c}
           v == <<a>>
           u == <<b, c>>
           t == <<a, b, c>>
<1>1. u \in Seq(S) /\ Len(u) = 2 /\ u[1] = b /\ u[2] = c
  OBVIOUS
<1>2. t \in Seq(S) /\ Len(t) = 3 /\ t[1] = a /\ t[2] = b /\ t[3] = c
  OBVIOUS
<1>3. v \in Seq(S) /\ Len(v) = 1 /\ v[1] = a
  BY Singleton
<1> HIDE DEF u, v, t
<1>4. /\ v \o u \in Seq(S) /\ Len(v \o u) = 3
      /\ \A i \in 1 .. 3 : (v \o u)[i] = IF i <= 1 THEN v[i] ELSE u[i - 1]
  BY <1>1, <1>3, ConcatProperties, SMTT(30)
<1>5. (v \o u)[1] = v[1] /\ (v \o u)[2] = u[1] /\ (v \o u)[3] = u[2]
  <2>1. 1 \in 1 .. 3 /\ 2 \in 1 .. 3 /\ 3 \in 1 .. 3 /\ 2 - 1 = 1 /\ 3 - 1 = 2
    OBVIOUS
  <2> QED
    BY <1>4, <2>1
<1>6. \A i \in 1 .. Len(t) : i = 1 \/ i = 2 \/ i = 3
  BY <1>2
<1>7. v \o u = t
  BY <1>1, <1>2, <1>3, <1>4, <1>5, <1>6, SameElements
<1> QED
  BY <1>7 DEF u, v, t

\* What a packet may hold.
Name == {"ETH", "IP", "UDP", "TCP", "ARP",
         "time", "segment", "echo reply", "unreachable"}

LEMMA HeaderHolds ==
    ASSUME NEW packet, NEW h
    PROVE  add_header(packet, h).holds = <<h>> \o packet.holds
BY DEF add_header

LEMMA AllocHolds ==
    ASSUME NEW content, NEW size
    PROVE  alloc_for_send(content, size).holds = <<content>>
BY DEF alloc_for_send

LEMMA FramedHolds ==
    ASSUME NEW packet, NEW rest \in Seq(Name), packet.holds = rest
    PROVE  /\ Head(Framed(packet).holds) = "ETH"
           /\ Tail(Framed(packet).holds) = rest
<1>1. Framed(packet).holds = <<"ETH">> \o rest
  BY HeaderHolds DEF Framed
<1> QED
  BY <1>1, Singleton

\* The frames of a step that sends one packet.
LEMMA OneFrame ==
    ASSUME NEW mac, NEW packet, NEW rest \in Seq(Name), packet.holds = rest,
           ethernet_out_to(mac, packet), ~ Overrun'
    PROVE  /\ Len(frames') = 1 /\ DOMAIN frames' = {1}
           /\ frames'[1].to = mac
           /\ Head(frames'[1].packet.holds) = "ETH"
           /\ Tail(frames'[1].packet.holds) = rest
BY FramedHolds DEF ethernet_out_to

LEMMA ArpWhole ==
    ASSUME NEW mac \in Mac \cup {Broadcast}, ethernet_out_to(mac, ArpPacket)
    PROVE  FrameWhole' /\ Len(frames') = 1 /\ frames'[1].to = mac
<1>1. ArpPacket.holds = <<"ARP">> /\ <<"ARP">> \in Seq(Name)
  BY AllocHolds, Singleton DEF ArpPacket, Name
<1>2. ~ Overrun'
  <2>1. tx_packet' = Framed(ArpPacket) /\ Framed(ArpPacket).offset \in Int
    BY ArpFits DEF ethernet_out_to, Placed
  <2> QED
    BY <2>1, ArpFits DEF Overrun
<1>3. /\ Len(frames') = 1 /\ DOMAIN frames' = {1} /\ frames'[1].to = mac
      /\ Head(frames'[1].packet.holds) = "ETH"
      /\ Tail(frames'[1].packet.holds) = <<"ARP">>
  BY <1>1, <1>2, OneFrame
<1> QED
  BY <1>3 DEF FrameWhole, Content

\* What IP is given to enclose.
Enclosed == {<<"UDP", "time">>, <<"echo reply">>, <<"unreachable">>, <<"TCP", "segment">>}

LEMMA EnclosedInIp ==
    ASSUME NEW c \in Enclosed
    PROVE  /\ <<"IP">> \o c \in Seq(Name) /\ <<"IP">> \o c \in Content
           /\ Head(<<"IP">> \o c) = "IP"
<1>1. /\ <<"IP">> \o <<"UDP", "time">> = <<"IP", "UDP", "time">>
      /\ <<"IP">> \o <<"TCP", "segment">> = <<"IP", "TCP", "segment">>
  BY BeforeTwo, Zenon
<1>2. /\ <<"IP">> \o <<"echo reply">> = <<"IP", "echo reply">>
      /\ <<"IP">> \o <<"unreachable">> = <<"IP", "unreachable">>
  BY BeforeOne, Zenon
<1>3. <<"IP">> \o c \in Content
  BY <1>1, <1>2 DEF Enclosed, Content
<1>4. c \in Seq(Name)
  <2>1. <<"UDP", "time">> \in Seq(Name) /\ <<"TCP", "segment">> \in Seq(Name)
    BY DEF Name
  <2>2. <<"echo reply">> \in Seq(Name) /\ <<"unreachable">> \in Seq(Name)
    BY Singleton DEF Name
  <2> QED
    BY <2>1, <2>2, Zenon DEF Enclosed
<1>5. <<"IP">> \in Seq(Name) /\ Len(<<"IP">>) = 1
  BY Singleton DEF Name
<1> QED
  BY <1>3, <1>4, <1>5

\* That the answer or the request goes out, as a statement of the step.
Served(ip) == /\ FrameWhole'
              /\ reply' = ip => AnswerOrAsk'

\* Of a packet that has overrun the buffer nothing is said.
LEMMA OverrunServes ==
    ASSUME NEW ip, Overrun', frames' = <<>>
    PROVE  Served(ip)
BY DEF Served, FrameWhole, AnswerOrAsk

\* A packet for a neighbour goes out to it, or a request for it to all.
LEMMA OutServes ==
    ASSUME IInv, Aged, NEW ip \in Ip, NEW packet, packet.holds \in Enclosed,
           xip_out(ip, packet)
    PROVE  Served(ip)
<1> DEFINE q == add_header(packet, "IP")
           rest == <<"IP">> \o packet.holds
<1>1. q.holds = rest
  BY HeaderHolds
<1>2. rest \in Seq(Name) /\ rest \in Content /\ Head(rest) = "IP"
  BY EnclosedInIp
<1>3. /\ xarp_resolve(ip)
      /\ IF Usable(ip) THEN ethernet_out_to(arp_entry.macaddr, q)
                       ELSE ethernet_out_to(Broadcast, ArpPacket)
  BY DEF xip_out, ethernet_out
<1> HIDE DEF q, rest
<1>4. UNCHANGED <<arp_entry, age, claimed>>
  BY <1>3 DEF xarp_resolve
<1>5. CASE Usable(ip) /\ Overrun'
  BY <1>3, <1>5, OverrunServes DEF ethernet_out_to
<1>6. CASE Usable(ip) /\ ~ Overrun'
  <2>1. /\ arp_entry.ipaddr = ip /\ age < OkTmo
        /\ arp_entry.macaddr \in Mac /\ arp_entry.macaddr = claimed[ip]
    BY <1>6, UsableExactly
  <2>2. /\ Len(frames') = 1 /\ DOMAIN frames' = {1}
        /\ frames'[1].to = arp_entry.macaddr
        /\ Head(frames'[1].packet.holds) = "ETH"
        /\ Tail(frames'[1].packet.holds) = rest
    BY <1>1, <1>2, <1>3, <1>6, OneFrame
  <2> QED
    BY <1>2, <1>4, <2>1, <2>2 DEF Served, FrameWhole, AnswerOrAsk
<1>7. CASE ~ Usable(ip)
  <2>1. ~ (arp_entry.ipaddr = ip /\ age < OkTmo)
    BY <1>7, UsableExactly
  <2>2. FrameWhole' /\ Len(frames') = 1 /\ frames'[1].to = Broadcast
    BY <1>3, <1>7, ArpWhole
  <2>3. sent' = {Request(ip)}
    BY <1>3, <1>7 DEF xarp_resolve
  <2> QED
    BY <1>4, <2>1, <2>2, <2>3 DEF Served, AnswerOrAsk, Request
<1> QED
  BY <1>5, <1>6, <1>7

LEMMA SegmentServes ==
    ASSUME IInv, Aged, NEW ip \in Ip, NEW size, TcpOut(ip, size)
    PROVE  Served(ip)
<1> DEFINE n == IF size < XTCP_DATA_MAX_SIZE THEN size ELSE XTCP_DATA_MAX_SIZE
           p == add_header(alloc_for_send("segment", n), "TCP")
<1>1. p.holds = <<"TCP">> \o <<"segment">>
  BY HeaderHolds, AllocHolds
<1>2. p.holds \in Enclosed
  <2>1. <<"TCP">> \o <<"segment">> = <<"TCP", "segment">>
    BY BeforeOne, Zenon
  <2> QED
    BY <1>1, <2>1, Zenon DEF Enclosed
<1>3. xip_out(ip, p)
  BY DEF TcpOut
<1> HIDE DEF p
<1> QED
  BY <1>2, <1>3, OutServes

LEMMA AllocServes ==
    ASSUME IInv, Aged, NEW ip \in Ip, NEW content \in {"echo reply", "unreachable"},
           NEW size, xip_out(ip, alloc_for_send(content, size))
    PROVE  Served(ip)
<1>1. alloc_for_send(content, size).holds \in Enclosed
  BY AllocHolds DEF Enclosed
<1> QED
  BY <1>1, OutServes

LEMMA TimeServes ==
    ASSUME IInv, Aged, NEW d \in Datagrams, d.from \in Ip, datetime_handler(d)
    PROVE  Served(d.from)
<1>1. PICK size \in TimeSizes :
        xip_out(d.from, add_header(truncate_packet(alloc_for_send("time", 128), size), "UDP"))
  BY DEF datetime_handler
<1> DEFINE t == truncate_packet(alloc_for_send("time", 128), size)
           p == add_header(t, "UDP")
<1>2. t.holds = <<"time">>
  BY DEF truncate_packet, alloc_for_send
<1> HIDE DEF t
<1>3. p.holds = <<"UDP">> \o <<"time">>
  BY <1>2, HeaderHolds
<1>4. p.holds \in Enclosed
  <2>1. <<"UDP">> \o <<"time">> = <<"UDP", "time">>
    BY BeforeOne, Zenon
  <2> QED
    BY <1>3, <2>1, Zenon DEF Enclosed
<1> QED
  BY <1>1, <1>4, OutServes DEF t

\* A step that sends nothing owes nothing.
Quiet == Silent /\ reply' = NoIp

LEMMA QuietServes == Quiet => FrameWhole' /\ AnswerOrAsk'
BY DEF Quiet, Silent, FrameWhole, AnswerOrAsk

LEMMA DatagramServes ==
    ASSUME IInv, Aged, NEW d \in Datagrams, xip_in(d)
    PROVE  FrameWhole' /\ AnswerOrAsk'
<1>0. d.from \in Ip
  BY DatagramIs
<1>1. CASE Dropped
  BY <1>1, QuietServes DEF Dropped, Quiet
<1>2. CASE datetime_handler(d)
  BY <1>0, <1>2, TimeServes DEF datetime_handler, Answers, Served
<1>3. CASE xicmp_dest_unreach(d)
  BY <1>0, <1>3, AllocServes, OverrunServes
     DEF xicmp_dest_unreach, Answers, Served, Overrun
<1>4. CASE xicmp_in(d)
  BY <1>0, <1>1, <1>4, AllocServes DEF xicmp_in, Answers, Served
<1>5. CASE xtcp_in(d)
  <2>1. CASE \E size \in SegmentSizes : TcpOut(d.from, size) /\ reply' = d.from
    BY <1>0, <2>1, SegmentServes DEF Served
  <2>2. CASE Silent /\ reply' = NoIp
    BY <2>2, QuietServes DEF Quiet
  <2> QED
    BY <1>1, <1>5, <2>1, <2>2 DEF xtcp_in
<1> QED
  BY <1>1, <1>2, <1>3, <1>4, <1>5 DEF xip_in

LEMMA ServedStep ==
    ASSUME IInv, Aged, FrameWhole, AnswerOrAsk, [StackNext]_stackVars
    PROVE  FrameWhole' /\ AnswerOrAsk'
<1>1. CASE StackTick
  BY <1>1, QuietServes DEF StackTick, Quiet
<1>2. CASE StackPoll
  BY <1>2, QuietServes, ArpWhole DEF StackPoll, Quiet, AnswerOrAsk
<1>3. CASE OtherFrame
  BY <1>3, QuietServes DEF OtherFrame, Dropped, Quiet
<1>4. ASSUME NEW packet \in Packet, ArpIn(packet) PROVE FrameWhole' /\ AnswerOrAsk'
  <2>1. packet.mac \in Mac
    BY DEF Packet
  <2> QED
    BY <1>4, <2>1, QuietServes, ArpWhole DEF ArpIn, Quiet, AnswerOrAsk
<1>5. ASSUME NEW ip \in Ip, TcpSends(ip) PROVE FrameWhole' /\ AnswerOrAsk'
  BY <1>5, SegmentServes DEF TcpSends, Served
<1>6. CASE UNCHANGED stackVars
  BY <1>6 DEF stackVars, vars, FrameWhole, AnswerOrAsk, Overrun
<1> QED
  BY <1>1, <1>2, <1>3, <1>4, <1>5, <1>6, DatagramServes DEF StackNext

LEMMA ServedInvariance == StackSpec => [](IInv /\ Aged /\ FrameWhole /\ AnswerOrAsk)
<1>1. StackInit => FrameWhole /\ AnswerOrAsk
  <2> SUFFICES ASSUME StackInit PROVE FrameWhole /\ AnswerOrAsk
    OBVIOUS
  <2>1. ArpPacket.holds = <<"ARP">> /\ <<"ARP">> \in Seq(Name)
    BY AllocHolds, Singleton DEF ArpPacket, Name
  <2>2. Head(Framed(ArpPacket).holds) = "ETH" /\ Tail(Framed(ArpPacket).holds) = <<"ARP">>
    BY <2>1, FramedHolds
  <2>3. DOMAIN frames = {1} /\ frames[1].to = Broadcast
        /\ frames[1].packet = Framed(ArpPacket)
    BY DEF StackInit
  <2> QED
    BY <2>2, <2>3 DEF StackInit, FrameWhole, AnswerOrAsk, Content
<1>2. IInv /\ Aged /\ FrameWhole /\ AnswerOrAsk /\ [StackNext]_stackVars
        => FrameWhole' /\ AnswerOrAsk'
  BY ServedStep
<1> QED
  BY <1>1, <1>2, StackImplementsArp, AgedInvariance, PTL DEF StackSpec

\* Every frame has its headers once and in order, although the ARP request
\* is built in the buffer of the packet that made it necessary; and only ARP
\* requests are sent to all.
THEOREM FramesWhole == StackSpec => []FrameWhole
BY ServedInvariance, PTL

\* Nothing that is to be sent to a neighbour is lost in silence or goes to
\* an address that is out of date.
THEOREM AnsweredOrAsked == StackSpec => []AnswerOrAsk
BY ServedInvariance, PTL
-----------------------------------------------------------------------------
(***************************************************************************)
(* What TCP is given.                                                      *)
(***************************************************************************)
\* Zeroes behind a segment make it longer, and the sum another one: a change
\* of the length is undone only by a multiple of Base - 1, and a frame has no
\* room for so many.
LEMMA PaddingFails ==
    ASSUME NEW d \in Datagrams, d.kind = "tcp", d.sum # 0, Verifies(d)
    PROVE  d.pad = 0
<1> DEFINE length == Body(d).size
           one    == <<length>>
           two    == <<d.rest>>
           a      == checksum16(one, 0, FALSE)
           b      == checksum16(two, a, FALSE)
           e      == NonZero(M - b)
<1>1. /\ d.sum \in Word /\ d.rest \in Word /\ d.data \in Nat /\ d.pad \in Nat
      /\ d.sum \in Nat /\ d.rest \in Nat
      /\ (d.rest + d.data + d.sum) % M = 0
  BY DatagramIs, MType DEF Word
<1>2. length = d.data + d.pad /\ length \in Nat /\ length < M
  BY BodySize, SizesAre, MType DEF MaxSize, Room, Size
<1>3. length \in Word /\ 0 \in Word /\ d.pad \in Word /\ d.pad < M
  BY <1>1, <1>2, MType DEF Word
<1>4. d.sum = NonZero(checksum16(two, a, TRUE))
  BY DEF Verifies, SumHolds
<1>5. one \in Seq(Word) /\ Total(one) = length /\ two \in Seq(Word) /\ Total(two) = d.rest
  BY <1>1, <1>3, TotalOne
<1> HIDE DEF one, two, length
<1>6. a \in Word /\ Same(a, 0 + length)
  BY <1>3, <1>5, Sum16
<1> HIDE DEF a
<1>7. b \in Word /\ Same(b, a + d.rest) /\ checksum16(two, a, TRUE) = M - b
  BY <1>5, <1>6, Sum16
<1> HIDE DEF b
<1>8. a \in Int /\ b \in Int /\ length \in Int /\ b \in 0 .. M
  BY <1>2, <1>6, <1>7, MType DEF Word
<1>9. Same(b, length + d.rest)
  <2>1. Same(a, length) /\ d.rest \in Int
    BY <1>1, <1>6, <1>8
  <2> HIDE DEF Same
  <2> QED
    BY <1>7, <1>8, <2>1, SameStep
<1>10. length + d.rest \in Int
  BY <1>1, <1>8
<1>11. Same((M - b) + (length + d.rest), 0)
  BY <1>8, <1>9, <1>10, SameNot
<1>12. e \in Int /\ Same(e + (length + d.rest), 0)
  <2>1. CASE M - b # 0
    BY <1>8, <1>11, <2>1, MType DEF NonZero
  <2>2. CASE M - b = 0
    <3>1. e = M
      BY <2>2 DEF NonZero, M
    <3>2. Same(M + (0 + (length + d.rest)), 0 + 0)
      <4>1. 0 + (length + d.rest) \in Int /\ M \in Int /\ 0 \in Int
        BY <1>10, MType
      <4>2. Same(M, 0) /\ Same(0 + (length + d.rest), 0)
        BY <1>11, <2>2, SameSelf
      <4> QED
        BY <4>1, <4>2, SameSum
    <3>3. 0 + (length + d.rest) = length + d.rest
      BY <1>10
    <3> QED
      BY <3>1, <3>2, <3>3, MType
  <2> QED
    BY <2>1, <2>2
<1>13. d.sum = e
  BY <1>4, <1>7
<1>14. Same(d.rest + d.data + d.sum, 0)
  <2>1. d.rest + d.data + d.sum \in Nat
    BY <1>1
  <2> QED
    BY <1>1, <2>1, SameMod
<1> HIDE DEF e
<1> DEFINE c == d.rest + d.data + d.sum
<1>15. e + (length + d.rest) = d.pad + c /\ c = 0 + c /\ c \in Int
  BY <1>1, <1>2, <1>13
<1>16. Same(d.pad + c, 0) /\ Same(0 + c, 0)
  BY <1>12, <1>14, <1>15
<1> HIDE DEF c
<1>17. Same(d.pad, 0)
  <2>1. d.pad \in Int /\ 0 \in Int
    BY <1>1
  <2> QED
    BY <1>15, <1>16, <2>1, SameDiff
<1> QED
  BY <1>3, <1>17, SameWords, MType

LEMMA PayloadStep ==
    ASSUME PayloadExact, [StackNext]_stackVars
    PROVE  PayloadExact'
<1>1. CASE upcall' = NoUpcall
  BY <1>1 DEF PayloadExact
<1>2. ASSUME NEW d \in Datagrams, xtcp_in(d) PROVE PayloadExact'
  <2>1. CASE Dropped
    BY <1>1, <2>1 DEF Dropped
  <2>2. CASE /\ Verifies(d)
             /\ upcall' = [kind |-> "tcp", payload |-> Body(d).size - Size.TCP, datagram |-> d]
    <3>1. /\ upcall'.datagram = d
          /\ upcall'.payload = Body(d).size - Size.TCP
      BY <2>2
    <3>2. d.sum # 0 => Body(d).size = d.data
      <4>1. d.kind = "tcp"
        BY <1>2 DEF xtcp_in
      <4> QED
        BY <2>2, <4>1, PaddingFails, BodySize
    <3> QED
      BY <3>1, <3>2 DEF PayloadExact
  <2> QED
    BY <1>2, <2>1, <2>2 DEF xtcp_in
<1>3. ASSUME NEW d \in Datagrams, xip_in(d) PROVE PayloadExact'
  BY <1>1, <1>2, <1>3 DEF xip_in, xicmp_in, datetime_handler, xicmp_dest_unreach,
                          Answers, Dropped
<1>4. CASE UNCHANGED stackVars
  BY <1>4 DEF stackVars, PayloadExact
<1> QED
  BY <1>1, <1>3, <1>4 DEF StackNext, StackTick, StackPoll, OtherFrame, Dropped, ArpIn,
                          TcpSends

\* What options in the IP header and the padding of short frames never do:
\* enter the byte stream, or take something from it.
THEOREM PayloadsExact == StackSpec => []PayloadExact
<1>1. StackInit => PayloadExact
  BY DEF StackInit, PayloadExact
<1> QED
  BY <1>1, PayloadStep, PTL DEF StackSpec
=============================================================================
