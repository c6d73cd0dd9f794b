# A TLA+ model of the tiny network protocol stack

The repository is a small TCP/IP stack in C: Ethernet, ARP, IPv4, ICMP, UDP and
TCP over an npcap driver, with three applications on top (an HTTP server on port
80, a timer service on TCP port 9527, a date and time server on UDP port 13).
This directory holds specifications of its stateful parts, the TLC runs that
check them and the proofs of their main invariants. Paths below are relative to
`src/src/` of the repository.

Contents: 1 the system, 2 the modules, 3 the runs, 4 the proofs, 5 where code
and comments part, 6 what is not modelled, 7 the plan.

## 1. The system

Everything runs in one thread. `main` (`app.c`) calls `xnet_init`, creates the
three servers, and then repeats `xserver_http_run(); xnet_poll();`. A call of
`xnet_poll` (`xnet_tiny/xnet_driver.c:23-29`) reads at most one frame and hands
it up through the layers, then runs the ARP timer and the timer service. Two
functions of the HTTP server call `xnet_poll` themselves while they wait.

There is no preemption. What interleaves is the order of the segments and
datagrams that arrive, of the calls the applications make between them, and of
the passing of time. A handler called inside `xtcp_in` is the last thing that
`xtcp_in` does (in LAST_ACK only `xtcp_free` follows), so that whatever the
handler calls is the same as an application call in the next step.

| component | state | operations | talks to | what is hard | what makes it correct |
|---|---|---|---|---|---|
| TCP buffers (`xnet_tcp.c:24-100`) | a ring of bytes with three indices and two counters, twice per block | write, read, read for send, count acknowledged, count unacknowledged | TCP | indices wrap on their own; counters are `uint16_t` | bytes come out in the order they went in; counters stay in range |
| TCP (`xnet_tcp.c`) | `tcp_socket`, 40 control blocks | `xtcp_in`, `xtcp_open`, `xtcp_bind`, `xtcp_listen`, `xtcp_close`, `xtcp_write`, `xtcp_read` | IP below, handlers above | lost, repeated and reordered segments; a send that fails half-way; blocks used again; sequence numbers that wrap | streams in order both ways; sequence numbers agree with counters; one block per connection; reports in order, to the owner |
| UDP (`xnet_udp.c`) | `udp_socket`, 10 sockets | `xudp_open`, `xudp_bind`, `xudp_close`, `xudp_in`, `xudp_out` | IP, handlers | a closed socket keeps its port; first match wins | a datagram reaches the holder of its port and nobody else |
| ARP (`xnet_arp.c`) | one `arp_entry`, `arp_timer` | `xarp_resolve`, `xarp_in`, `xarp_poll` | Ethernet | late polls, answers that race with the timeout, neighbours that share the entry | addresses given out are fresh; retries exact; an entry does not stay unconfirmed |
| IP (`xnet_ip.c`) | a packet id | `xip_in`, `xip_out` | Ethernet, UDP, TCP, ICMP | size fields that disagree; link padding | each packet reaches the right layer |
| Ethernet (`xnet_ether.c`) | none | `ethernet_in`, `ethernet_out`, `ethernet_out_to` | driver, ARP, IP | an ARP miss drops the packet and reports it | failure is reported to the sender |
| ICMP (`xnet_icmp.c`) | none | echo reply, destination unreachable | IP | sizes of the copied part | replies fit the buffer |
| packet buffer (`xnet_packet.c`) | `tx_packet`, `rx_packet` | alloc, add and remove header, truncate | all | one send buffer for all layers | headers never run out of the buffer |
| checksum, clock (`xnet_sys.c`) | none | `checksum16`, `checksum_peso`, `xsys_get_time` | all | carries, odd lengths | equals the one's complement sum |
| HTTP server (`xnet_app/xserver_http.c`) | a queue of block pointers, static buffers | `http_handler`, `xserver_http_run` | TCP, nested `xnet_poll` | pointers to blocks that change owner in the queue; loops that wait for the peer | every connection served once; the loop goes on |
| timer service (`xnet_app/xtimer.c`) | `timer_enabled`, `timer_tcp`, `timer_time` | `timer_handler`, `timer_poll` | TCP | one remembered connection for all clients | every client is served while it is connected |
| date and time server (`xnet_app/xserver_datetime.c`) | none | `datetime_handler` | UDP | size of the answer | one answer per datagram |
| driver (`xnet_app/port_pcap.c`), loop (`app.c`) | `pcap` | open, send, read | npcap | | |

`xnet_tiny/xnet_tiny.c` and `xnet_tiny.h` are an older version of the whole
stack, commented out from the first line to the last.

## 2. The modules

| module | what it is |
|---|---|
| `SeqArith` | sequence numbers modulo `SeqSpace`, the addition that wraps, `min` |
| `XtcpBuf` | `xtcp_buf_t` and its operations |
| `XnetTcp` | the table, `xtcp_in`, the calls of the applications; its properties |
| `TcpService` | abstract: the life of a block and the reports an application gets |
| `TcpOptions` | the option parser `tcp_read_mss`, and what the sender of the options meant |
| `TcpLink` | one connection from end to end: `XnetTcp`, a client that follows TCP, and the link between them |
| `ByteStream` | abstract: what a connection promises in one direction |
| `XnetUdp`, `UdpService` | the sockets and the lookup in `xip_in`; abstract: who holds a port |
| `XnetArp` | the entry, its timer, resolution and packets |
| `XnetPacket` | the packet buffer: where the headers go, and how much room there is |
| `XnetStack` | the layers put together: driver, Ethernet, `XnetArp`, IP, ICMP, the date and time server, and TCP as far as it sends and receives packets |
| `Checksum`, `Wire` | `checksum16` and `checksum_peso`; this host and a peer that check each other's packets |
| `Servers` | the HTTP server, the timer service, the loop of `main` with the nested `xnet_poll` |
| `MCXnetTcp`, `MCTcpLink`, `MCXnetUdp`, `MCXnetStack`, `MCWire`, `MCServers` | instances for TLC |
| `XnetTcpProofs` | what each operation of the ring does to its counters and to the bytes in it; theorems about the counters, the numbers and the order of the bytes in `XnetTcp` |
| `XnetTcpTableProofs` | theorems about the table of `XnetTcp`, and about `TcpService` |
| `TcpLinkProofs` | theorems about a connection from end to end, resting on those of `XnetTcp`, and about `tcp_read_mss` |
| `ChecksumProofs` | what the loops of `checksum16` and `checksum_peso` compute |
| `WireProofs` | theorems about `Wire` |
| `XnetStackProofs` | theorems about `XnetArp`, and that they hold under the traffic of `XnetStack`; theorems about the packets |
| `XnetUdpProofs`, `ServersProofs` | theorems about the module each is named after |

`TcpLink` extends `XnetTcp`, which extends `XtcpBuf` and `SeqArith`; `XnetStack`
extends `XnetArp`, `XnetPacket` and `Checksum`; `Wire` extends `Checksum`. `TcpService`,
`ByteStream` and `UdpService` are instantiated with a refinement mapping.

Definitions carry the names of the C functions where they stand for one
(`xtcp_in`, `xarp_poll`, ...). The operators whose name ends in `_Something` and
whose comment begins with "Wrong:" are mistakes somebody could make in the code;
nothing uses them. They are kept to show that each property notices a mistake.

**TCP.** `tcp_socket` is a function from slots to records with the fields of
`struct _xtcp_t`. A peer is a model value that stands for an address and a port.
`xtcp_in(seg)` first selects the block (`Finds`), and then one action per branch
of the code: `AcceptIn`, `AcceptFullIn` and `NotSynIn` for `tcp_process_accept`,
`WrongSeqIn` for the test of line 335, and one or more actions per case of the
switch. Every action contains the whole branch: the window that line 326 takes
over before any test (`Heard`), the change of the buffers, the segment that is
sent and the handler call. `tcp_send` is the operator `AfterSend(t, flags, r)`
with r the result of `xip_out`: on success `Sent`, on failure `Refused`, which
still has moved `tx_buf.next` as line 163 does. Whether `xip_out` may fail is
decided by the constant `XipOut`. `out` and `event` hold what the last step sent
and reported. `written[s]` is history: the number that the next byte the
application writes has to carry.

A payload byte is represented by the sequence number its sender means for it.
For received data that is `seq + i`; for data an application writes, the number
`written[s]` says. So a lost, repeated or displaced byte is visible as a number
in the wrong place, and no separate stream is needed. Bytes are never compared
with anything else.

Segments come from an environment without any memory: in every state any segment
of `Arriving` may arrive, with any sequence number. This contains loss,
duplication and reordering, and peers that do not follow the protocol. One of
these is a peer that sends a SYN under the expected number on an established
connection: `tcp_recv` counts it in `ack` (line 111) although it stands for no
byte of the stream. The field `syn` of a block is history and records that this
has happened; `RxStreamOrder` excepts such a block. The
value of an MSS option is an input (`SegMss`); segments that fail the size or
checksum tests change nothing and are left out.

Applications call the functions only on blocks they hold (no `xtcp_bind` on a
block that listens, no `xtcp_read` on a free block). The HTTP server does not
keep to this when a block in its queue has been used again; that is what the
module `Servers` is about.

**A connection from end to end.** `XnetTcp` lets any segment arrive at any time. In
`TcpLink` the segments come from a client, so that one can ask whether the two
ends understand each other. The server side is the code: every step of it is an
action of `XnetTcp`, with `Arrived` handing over what `tcp_read_mss` makes of the
options. The client (`Connect` ... `ClientReceives`) is the environment, a TCP as
RFC 793 describes it: it sends within the window it is offered and probes a
closed one with one byte, sends again what is not acknowledged, accepts what is
in its window and answers what is not, and closes when its user has everything.
A FIN of it may carry the last data if that is within the window. `up` and `down`
hold the segments under way; the link keeps their order. What goes wrong is an
*upset*: a segment lost or repeated, a timer of the client that runs out too
early, an end that closes before it has everything. `got` and `read` are what the
two users have received; a byte is its number, so that a stream is in order when
it is an interval. Numbers do not wrap in `TcpLink` (`XnetTcp` has that).

**UDP.** `DatagramIn` is the UDP case of `xip_in` together with `xudp_in`; the
size and checksum tests of `xudp_in` are the choice `valid`. `given` is what
became of the datagram. Sockets are bound and closed by whoever opened them.

**ARP.** Time is the distance `behind` between the clock and `arp_timer`. `Tick`
advances it, `xarp_poll` is possible when it has reached the period and sets it
to 0, as `xnet_check_tmo` does, so that a poll that is several seconds late
counts as one period. `asked`, `age` and `claimed` are history variables: the
requests sent and the periods passed since the last update, and what each
neighbour last said. ARP packets that fail the tests of `xarp_in` change nothing
and are left out. The retry counter has its width (`CounterMax`, 255): the last
retry wraps it.

**The stack.** The code handles a frame to its end before the next, and a handler
that answers does so before it returns. One frame is therefore one step of
`XnetStack`, which contains the whole chain: `xip_in(d)` with its tests, the
protocol's handler, `xip_out`, `ethernet_out` with `xarp_resolve`, and either the
frame or the ARP request in place of it. `tx_packet` is the buffer that all of
them share, `frames` what the driver was given, `reply` the neighbour the step
wanted to reach, `upcall` what TCP was handed. A packet (`XnetPacket`) has its
place and size in the payload array and the names of its headers, so that a
missing or a second header, or one that lies in front of the array, is visible.
Datagrams are inputs: where from, for whom, header damaged or not, what for, the length
that the header states (`total`, any word, also one that is not the datagram's), the sizes
of header and data, and the zeroes the link has added to a short frame. Any size that a
frame holds may occur. A segment also has its checksum (`sum`) and what all else adds up
to (`rest`); it is one that arrives as it was sent, so that with the length of its data they
add up as they should, and damaged ones are the business of `Wire`. `Verifies` is then the
test of `xtcp_in` with `checksum16` itself, over the size of the packet, padding included.
An unreachable message quotes as much as the header states, since `min` is the maximum
(section 5). When that leaves no room for the headers of IP and Ethernet, or none for the
quote, the code writes in front of the payload array, where the pointer to the packet is
kept. `Overrun` is that state; nothing that could be said of the program behind it would be
true, so that no frame is sent in it and no step leaves it. Every step of
`XnetStack` is also a step of `XnetArp` or leaves ARP alone (a theorem, section
4); TCP's own state is left to `XnetTcp`, and its segments are any of
`SegmentSizes`. The driver's result is taken for success: `ethernet_out_to` passes
on what npcap says, and a lost frame is the business of `TcpLink`. The packet id of
IP, which nothing reads, is left out.

**The wire.** In `Wire` a packet is a few words: the checksum, for UDP the length,
and the rest. This host computes the checksum as `xip_out`, `reply_icmp_request`,
`xicmp_dest_unreach`, `xudp_out` and `tcp_send` do (`OurSum`; the second of the two ICMP
messages without the complement) and tests it as `xip_in`, `xudp_in` and `xtcp_in` do;
`xicmp_in` tests none. The peer tests and computes by arithmetic modulo `Base - 1`. The link may change
one word, or add zeroes. `Base` is 8 instead of 65536: the sums of the run need two
rounds of carries, as those of a full packet do.

**The servers.** `Servers` looks at TCP from the applications' side. Of a block it
keeps the state, the handler, the unread characters and how full `tx_buf` is
(`table`); what a frame can do to these is one action each (`SynIn`, `DataIn`,
`AckIn`, `FinIn`, ...), named after the branch of `xtcp_in` it stands for. The
code is sequential, so the steps are cut where it calls `xnet_poll`: `stage` says
whether an application, `ethernet_poll` or `timer_poll` runs, and `pc` where
`xserver_http_run` will go on. `Dequeue`, `get_line`, `http_send` and
`http_close` are the steps of the HTTP server; whenever one polls, one frame of
any connection is handled before the next. `http_fifo` has the fields of
`xhttp_fifo_t`. `Slot` are the blocks that the two listeners leave. Of a line only
its first word and its end matter (`Char`), of an answer the sizes that
`send_file` passes to `http_send`. `stale`, `gone` and `forgotten` are history:
which waiting pointers, and whether the present one, point to a block that has
been given to another connection since, and which connections the server let go
of. A FIN that carries data is `DataIn` and then `FinIn`. Peers, numbers and
segments out of sequence, which `XnetTcp` has, are left out: they change nothing
an application sees.

## 3. The runs

`tlc -config X.cfg M`, with M one of the six MC modules. "States" are distinct
states.

| run | states | what it checks |
|---|---|---|
| `tcp_data` | 25,973 | `TypeOK`, `SeqAccounting`, `AckRecognised`, `TxStreamOrder`, `RxStreamOrder`, sends that succeed |
| `tcp_table` | 132,711 | `SeqAccounting`, `TupleUnique`, `ListenerUnique`, `NoSteal`, `ServiceSpec`, three blocks, two peers, two applications, any send may fail |
| `tcp_link` | 125,019 | `OutStream`, `InStream`, `AckedMeansReceived`, `MssRespected`, `AllArrives`, `BlockReturns`, three bytes each way, one upset |
| `udp_ports` | 2,871 | `TypeOK`, `PortUnique`, `ServiceSpec` |
| `stack` | 16,885 | `TypeOK`, `RetryBudget`, `AnswerFresh` of ARP; `SendFits`, `FrameWhole`, `AnswerOrAsk`, `PayloadExact`, `StackSettles` |
| `wire` | 30,728 | `TypeOK`, `IntactAccepted`, `NothingForeign` |
| `servers_patient` | 137,133 | `TimerTarget`, `ServesOwn`, `EachServed`, HTTP clients wait for their answer |
| `servers_leaving` | 2,175,090 | `TypeOK`, `NoneForgotten`, `FirstComeFirstServed`, clients close at any time, sends may fail |
| four more | | one claim of a comment each, which the code does not keep (section 5) |

What the properties say is stated above each of them in the modules. In short:

- `SeqAccounting`: `next_seq` is ahead of `unacked_seq` by exactly the bytes that
  `tx_buf` counts as unacknowledged and the SYN or FIN under way. The range test
  of an ACK and the counters are two views of the same thing; the code keeps them
  in different places (`tcp_send`, `xtcp_in`, the buffer).
- `AckRecognised`: each ACK for unacknowledged bytes frees these and no others, while
  `unacked_seq <= next_seq`. `TypeOK` and `SeqAccounting` say that an ACK never takes too
  much, this one that it does not take too little.
- `TxStreamOrder`, `RxStreamOrder`: the unsent bytes are the next bytes of the
  application's stream, under the right numbers; the unread bytes are the end of
  what was acknowledged. Both hold through wraps of the ring and of the numbers.
  The first needs sends that succeed; the second says nothing of a connection on
  which a SYN has been counted (line 111), whose `ack` is one ahead of the data.
- `ServiceSpec`: the table implements `TcpService`. Reports are CONNECTED, then
  DATA_RECV, then CLOSED, to the one application that owns the block.
- `NoSteal`, `TupleUnique`, `ListenerUnique`: connections and listeners keep out
  of each other's way in a table whose blocks are used again.
- `OutStream`, `InStream`: in both directions the connection implements
  `ByteStream`: what is received is a prefix of what was sent, whatever is lost,
  repeated, sent again or closed early.
- `AckedMeansReceived`: neither end gives up a byte the other does not have.
- `MssRespected`: the parser, which looks at single bytes, ends up with a size the
  client has allowed.
- `AllArrives`, `BlockReturns` (liveness): when there is no upset everything
  arrives, also what waited for the window, and the block is free in the end,
  whichever side closes first. With an upset neither holds: the code sends nothing
  twice.
- `SendFits`: each step leaves the packet within the payload array, no layer has put
  its header in front of it; but for the step that quotes a datagram whose stated length is
  more than `QuoteMax` (1474).
- `FrameWhole`, `AnswerOrAsk`: a frame has its headers once and in order, although
  all layers write into one buffer; what is meant for a neighbour goes to the
  address it claimed last, or a request for exactly this neighbour goes out
  instead, the latter from `OkTmo` periods after its last packet on.
- `PayloadExact`: IP options and link padding are not taken for data, except in a
  segment with checksum 0. The code does not cut the padding off; what keeps it out is
  that the length enters the sum, so that a padded segment fails the test.
- `IntactAccepted`, `NothingForeign`: the two hosts agree about checksums, the two
  representations of zero included, but for the message of `xicmp_dest_unreach`: it goes out
  without the complement, and a peer drops it unless its sum is zero. What is changed is
  noticed but for the exceptions the property names.
- `ServesOwn`, `TimerTarget`: as long as HTTP clients wait for their answer, no
  pointer is used after its block has changed hands, neither the server's nor
  that of the timer service. When clients leave early both fail; see section 5.
- `NoneForgotten`, `FirstComeFirstServed`: even then the queue keeps the order of
  arrival and loses nobody, apart from the two errors that the code ignores (a
  full queue, a close that fails).
- `EachServed` (liveness): every HTTP connection is answered and closed, although
  the server waits for one client at a time.
- `StackSettles` (liveness): again and again the ARP entry is fresh or free, unless the
  buffer is overrun (`EntrySettles` is what `XnetArp` says).

*Bounds.* TCP runs: a space of four sequence numbers (three in `tcp_table`),
rings of two cells (one), two blocks (three). A ring of two cells is the least in
which an index wraps in the middle of a transfer, a write can be accepted in
part, and sent, unsent and free cells occur together; four numbers are the least
that hold such a ring and a FIN without ambiguity (`BufSizeAssumption`:
`BufSize + 1 < SeqSpace`). What the peer sends wraps around these
numbers freely. What this side sends starts at `InitSeq = 3`: the SYN is the last
number before the wrap, and three bytes can be sent and acknowledged, one and a
half rounds of the ring, before the numbers wrap again. There the code no longer
recognises ACKs (section 5), which is why a start just before the wrap would
show less. One listener and one connection need two
blocks; two listeners or a listener with two connections need three. `tcp_table`
has no payload: its properties are about blocks, and data changes none of the
fields they read but the two counters of `SeqAccounting`, which is there about SYN+ACK and
FIN that could not be sent; `tcp_data` has it with data and sends that succeed, and for
data that could not be sent it rests on the proof, as `RxStreamOrder` does.
Windows of 0 and of the whole ring are the ones that stop and
do not stop a sender; `tcp_table` has one window only, because a
failing send is already the stronger obstacle. `tcp_data`
has one more bound, the constraint `ListenerStays`: the server keeps its
listening block while there are connections. Deadlock is not checked in the TCP
and UDP runs: the environment may stop.

*Bounds of the link.* Three bytes each way through windows and rings of two: the
ring wraps, a window closes and has to be reopened by a probe, and the last bytes
may share a segment with the FIN. Two segments under way in each direction that
the ends send of their own accord (`Capacity`; answers come on top), so that
segments of both ends cross. One upset: two of
them only add what either does alone to streams that are prefixes already. An MSS
of 1 or the default of 2, first among the options, behind fillers, or not there.
`link_close` has one byte of window, so that data waits when the FIN goes.

*Bounds of the stack.* Two neighbours that share the entry, timeouts of 3 and 2
periods, two retries. The sizes are those of the code, so `SendFits` is about
1516 bytes and headers of 14, 20 and 8; `SomeDatagrams` has for each purpose the
smallest and the largest datagram, one with IP options and one that was padded; for the
unreachable message the largest quote that fits and the least that does not, and stated
lengths below the header and beyond the array. Segments have sums at both zeroes and the
words of the code (`Base` 65536).

*Bounds of the wire.* Words of three bits, two of them besides the checksum and
the length, one changed word, at most two words of padding.

*Bounds of the servers.* Two blocks, which is two connections of any application
and a block that passes from one to the other; a queue of two cells, the least
`FifoSize >= Blocks` allows, so that pointers of ended connections fill it and
its indices wrap all the time; one character and one unit of data in a block's
buffers, a line of two characters (one in `servers_leaving`), and an answer of a
header and a file that does not fit into the buffer at once. `http_hang` needs one
block only.

*View.* `tcp_data` and `tcp_table` use `VIEW Significant`: two states are taken for
the same when they differ only in `out` and `event`, which no action reads, or in
fields of a block without a peer that `xtcp_alloc` resets before anyone reads
them. No invariant of these runs but the type of `out` and `event` in `TypeOK`
reads more; those two are covered by the theorem `TypeCorrect`. Step properties
(`NoSteal`, `ServiceSpec`) are evaluated on every step that TLC generates.
`servers_leaving` has a view of the same kind (`MCServers`), which leaves out the
cells of the queue in which nobody waits, the old contents of free blocks, and
`timer_tcp` while it is not in use.

*Fairness.* `FairSpec` of `XnetArp` assumes that the clock goes on and that the
main loop calls `xarp_poll` again and again (`app.c:17-20`); it does not assume
that anybody answers or resolves. The loops of the HTTP server poll as well, so
that also a server that waits keeps this assumption. `FairSpec` of `Servers`
assumes that the loop runs, and of the clients of open connections that each
ends its line and acknowledges what it is sent; strong fairness, because a frame
gets its turn only when the server polls. A client that does neither stops the
server, and the code has no timeout. That acknowledgements come presupposes that
sends do not fail, so `XipOut` is `{"OK"}` there. `StackFairSpec` is the fairness of
ARP, for the same loop, as long as there is no `Overrun`.

`LinkFairSpec` assumes the loop (it reads every frame that arrives, `Delivered`),
an application that reads what there is, writes what it has to and closes when it
has everything, and a client that does the same and repeats what is not
acknowledged. All of it is weak fairness of the steps that happen without an
upset: nothing is assumed about what the link loses. Progress is claimed of the
behaviours without an upset only. The code has no timers and sends nothing twice:
when its own segment is lost, nothing makes it send that segment again.

## 4. The proofs

All theorems hold for every value of the constants that meets the assumptions
named in the modules (`SeqSpaceAssumption`, `BufSizeAssumption`,
`TableAssumption`, `SizeAssumption`, `InputAssumption`, `UdpAssumption`,
`ArpAssumption`, `StackAssumption`, `ServersAssumption`, `BaseAssumption`,
`WireAssumption`); the values of the code (2^32, 4096, 40, 10, 20, 2, 40, 255, 1,
2^16) meet them. `LinkAssumption` and
`ArrivingAssumption` of `TcpLink` are about the size of what is modelled rather
than about the code: one listener and one connection, whose numbers stay below
`SeqSpace`, and an `XnetTcp` whose environment lets through all that the client may
send. Four hypotheses are not assumed but stated in the theorems that need them:

- `NoMiss` (two theorems) and `Patient` (two). Runs `tcp_unsent_skipped` and
  `http_stale_entry` show what happens without them.
- `Readable` (`TcpOptions`), of the lists of options a client sends: one MSS option
  at most, and before it no byte 0 or 2. The MSS comes first in the SYNs of the
  systems in use, or behind fillers only. Without it `tcp_read_mss`, which does not
  know where an option ends, may stop in another option or jump over the kind:
  with "SACK permitted" (4, 2) in front it reads 2, 2 and misses the MSS.
- `MaxChanges <= 1`, for what the checksums notice. Two words that change in
  opposite directions leave the sum as it was.

| module | theorem | property |
|---|---|---|
| `XnetTcpProofs` | `TypeCorrect` | `TypeOK` |
| `XnetTcpProofs` | `SequenceAccounting` | `SeqAccounting` |
| `XnetTcpProofs` | `AcksFreeBytes` | `AckRecognised` |
| `XnetTcpProofs` | `ReceivedInOrder` | `RxStreamOrder` |
| `XnetTcpProofs` | `SentInOrder` | `TxStreamOrder`, if no send fails (`NoMiss`) |
| `XnetTcpTableProofs` | `OneBlockPerConnection` | `TupleUnique` |
| `XnetTcpTableProofs` | `OneListenerPerPort` | `ListenerUnique` |
| `XnetTcpTableProofs` | `BlocksStay` | `NoSteal` |
| `XnetTcpTableProofs` | `TcpImplementsService` | `ServiceSpec`: `XnetTcp` implements `TcpService` |
| `XnetUdpProofs` | `TypeCorrect`, `OneSocketPerPort` | `TypeOK`, `PortUnique` |
| `XnetUdpProofs` | `UdpImplementsService` | `ServiceSpec`: `XnetUdp` implements `UdpService` |
| `TcpLinkProofs` | `NothingForgotten` | `AckedMeansReceived` |
| `TcpLinkProofs` | `SegmentsFit` | `MssRespected`, if the lists of options are `Readable` |
| `TcpLinkProofs` | `ReadAsSent` | `InStream`: `TcpLink` implements `ByteStream` towards the application |
| `TcpLinkProofs` | `ReceivedAsWritten` | `OutStream`: the same towards the client, if no send fails (`NoMiss`) |
| `XnetStackProofs` | `TypeCorrect`, `RetriesExact`, `AnswersFresh` | `TypeOK`, `RetryBudget`, `AnswerFresh` of `XnetArp` |
| `XnetStackProofs` | `StackImplementsArp`, `ArpInStack` | `AnswerFresh` and the other two of ARP, for the stack |
| `XnetStackProofs` | `BufferFits` | `SendFits` |
| `XnetStackProofs` | `FramesWhole`, `AnsweredOrAsked` | `FrameWhole`, `AnswerOrAsk` |
| `XnetStackProofs` | `PayloadsExact` | `PayloadExact` |
| `WireProofs` | `TypeCorrect`, `IntactNeverDropped` | `TypeOK`, `IntactAccepted` |
| `WireProofs` | `OneChangeNoticed` | `NothingForeign`, if the link changes one word at most |
| `ServersProofs` | `TypeCorrect`, `NoneLost`, `ServedInOrder` | `TypeOK`, `NoneForgotten`, `FirstComeFirstServed` |
| `ServersProofs` | `OwnServed`, `TimerKeepsItsBlock` | `ServesOwn`, `TimerTarget`, if HTTP clients wait (`Patient`) |

*TCP.* Neither `TypeOK` nor `SeqAccounting` is inductive alone. An ACK subtracts
`seg.ack - unacked_seq` from two counters; that this does not go below 0 needs
`SeqAccounting`, which in turn needs the types of the counters and that the
buffer and the control bit fit into the sequence space. `IInv` of `XnetTcpProofs`
is the conjunction, block by block (`BlockInv`), so that a step that updates one
block has to be looked at in that block alone. The lemmas before it say what each
buffer operation does to the counters; the interesting case is `AckInRange`,
where the plain <= of the code never accepts too much in spite of the wrap
(it may accept too little, `AcksFreeBytes` and section 5).

*The order of the bytes.* `RxStreamOrder` and `TxStreamOrder` speak of the bytes
in a ring, but not of where the next one goes. `RxAt` and `TxAt` (`XnetTcpProofs`)
add the writing index: it is `data_count` cells from the reading index in
`rx_buf`, and as many cells from `next` as bytes are unsent in `tx_buf`. Each buffer
operation has a lemma that says what it does to them (`WrittenRxAt`, `TakenRxAt`,
`SentTxAt`, `AckedTxAt`, `WrittenTxAt`). `StreamInv` holds them in SYN_RECVD as well, because there
the buffers of an established connection begin. Behind a FIN the application
writes no more, and the properties say nothing. The receiving half holds whatever
`xip_out` returns and whatever arrives, as long as no SYN is counted on the open
connection (`syn`; a block loses that mark when `xtcp_alloc` takes it again); the sending
half only under `NoMiss`, `XipOut \subseteq {"OK"}`:
after a miss the bytes that were copied are skipped (run `tcp_unsent_skipped`).

*The table.* `TupleUnique` needs that a connected block has a peer and a
port other than 0, and that a handle has no peer; `ListenerUnique` needs that a
bind looks at all blocks. Both follow from the fact that a new block is made only
when `xtcp_find` has found no block for the same peer and port.

*The link.* What an end knows of the other it knows from segments that may have been
under way for long, so the invariant has to say of each of them what it still
promises. `LinkInv` of `TcpLinkProofs` does that with `UpOk` and `DownOk`: a segment to
the server carries bytes the client has sent, and acknowledges none it has not
got; a segment to the client acknowledges no byte that the application does not
hold (`Held`: what it has read, and what is in `rx_buf`), and with ack and window together
it opens no more than `rx_buf` has room for (`Edge`). These promises only grow
weaker with time, because `Held` and `Edge` never go back while a connection lasts;
this is why a segment may be lost or arrive twice without a lemma of its own about
either. `BlockOk` ties the block to them: `ack` is the number behind `Held`, and
`RxAt` (above) says where the next byte goes. A SYN is the exception, since one that came
twice could open a second connection: the invariant keeps the SYNs at the head
of the queue (`SynsFirst`), so that none is left behind other segments when the
block is freed. `Edge` is also what a FIN with data needs: the code sets `ack`
behind the FIN whatever it stores (section 5), and `AckedMeansReceived` holds because the client
sends data with a FIN only when all of it fits. The proof goes action by action;
the branches of `xtcp_in` reuse the lemmas about counters and rings of the
other three TCP modules. `ReadAsSent` then needs only that `read` and the
sent bytes are intervals from the same number (`ReadOk`).

*The stream to the client.* `ReceivedAsWritten` adds `OutInv` to `LinkInv` and
`StreamInv`. It speaks of one number, x, the one behind the last byte that was sent:
`next_seq` is x until a FIN is sent and x + 1 afterwards. Each segment under way
carries the bytes that its sequence number names (`OutMsg`), its FIN if it has one
sits at x, and what the client has is the stream up to `rcv` (`OutGot`). For the
segment that `tcp_send` makes now, `TxAt` of `StreamInv` says which bytes these are,
and that is where `NoMiss` comes in. After `xtcp_close` with bytes still in `tx_buf`
(run `link_close`) this is no longer so: in FIN_WAIT_2 an ACK takes some of them
along, under numbers one higher than the stream gives them. The second half of `OutMsg` lets
these segments be, since they begin behind the FIN, and `OutGot` says that a client
at x waits for the FIN and one behind it takes nothing more. x moves only while no
FIN is sent, so that what is under way stays true when it is lost, repeated or late.

*The two services.* That `XnetTcp` implements `TcpService` follows action by action:
`MoveImplements` says which change of one block is which step of the service, and
the lemmas after it say which change each branch of `xtcp_in` and each call makes, with the
report that goes with it. The owner that the service names in a report is the handler in the
block, which no step of a live block changes. For UDP the mapping is the harder half:
`UdpService` has one holder per port, the module a table with old ports in
closed sockets. `OneHolder` and `NoHolder` compute the mapping from `PortsApart`, the
strengthening of `PortUnique` to sockets that are not in use.

*ARP.* `AnswerFresh` follows from `age + tmo = OkTmo` and from the address in the
entry being the last one its neighbour claimed. Its converse is `Aged`: an entry that
cannot be used is an old one. Both together are `UsableExactly`: a neighbour's
address can be used if and only if it was the last one heard of, within the last
`OkTmo` periods.

*The stack.* `StackStep` shows that each step of `XnetStack` is a step of `XnetArp` or
leaves its variables alone: every datagram that is answered is one `xarp_resolve`,
whatever the layers did before it. So the stack implements the specification of
ARP, and its theorems carry over. `BufferFits` follows a packet down: it is
`Placed` at the end of the buffer when it is made, each header keeps it there, and
`OutFits` needs `Room` in front of it. That there is that much is the definition of
`XTCP_DATA_MAX_SIZE` for TCP, the size of the frame that was read for an echo, and for
a quote a stated length of up to `QuoteMax` (`UnreachFits`): that is where the exception of
`SendFits` comes from, and no assumption limits what arrives but the size of a frame.
`BufferStep` puts the steps together; the invariant is only that the packet ends where the
array ends. `FrameWhole` follows the
names of the headers the same way, and needs that the request of `xarp_resolve`
starts the buffer anew. `AnswerOrAsk` is `OutServes`: `ethernet_out` gives the driver the
packet or the request, according to `UsableExactly`, which is why it needs the
invariants of ARP. `PayloadExact` is about the one step that calls TCP: IP options
are cut off with the header, and a segment that was padded passes the test
of its checksum only if it has none (`PaddingFails`). By `ChecksumProofs` the test means that
the sum of everything, the length included, is a multiple of `Base - 1`; it was one with the
length of the data, so it can be one with the padded length only if the padding is a multiple
of `Base - 1`, and there is less than that in a frame.

*The servers.* The state of the queue is three counters and a ring; `FifoInv` says
that they agree, and `FifoInQueue` and `FifoOutQueue` that the two operations are
those of a sequence. Everything else is about that sequence. `StepKinds` sorts the
steps by what they do to queue and table: the server works on its connection, it
takes the next one, a connection opens, a frame or the timer does something else.
`NoneForgotten` is inductive by these kinds (an open connection is `Known`: served,
queued or forgotten); so is the order. Under `Patient` (`"http" \notin Leavers`), that is
when only the server closes HTTP connections, the invariant `Owned` says that what is
queued is open, is queued once and is not the one being served, so that no pointer
is ever stale. `TimerTarget` follows from the same: the server then closes nothing but
its own connection, and the block of the timer's client ends only with a report to
`timer_handler`, which stops the timer. Run `http_stale_entry` shows why the
hypothesis is needed.

*The checksums.* `ChecksumProofs` says what the code computes, `WireProofs` what follows
for the two hosts. What a loop computes is a matter of induction, which `NatMin` gives:
a set of numbers that is not empty has a least one, so that if a statement failed for
some number of rounds it would fail for a first one. With it, the two loops of
`checksum16` are recursive functions (`Sums`, `AddCarry`) about which the proofs say
that they exist (`SumsRound`, `AddCarryRound`) and what they return. The loop over the
carries ends, and returns a word that is the sum modulo `Base - 1`, and 0 only for
the sum 0 (`CarriedIs`); two packets that differ in one word have sums that differ by as
much (`SumsDiffer`), zeroes behind a packet do not change it (`TotalPadded`). So
`checksum_peso`, part by part, is the complement of all it adds up (`PesoIs`), and the
tests of `xip_in`, `xudp_in` and `xtcp_in` are what a peer tests: the sum of everything
is a multiple of `Base - 1` (`HeaderTest`, `DatagramTest`). The comparison of `xip_in` also
needs that the sum in the header is not `Base - 1`, that of the other two that the
pseudo header is not 0. `WireInv` says that what was sent is consistent in this sense
(`SentOk`; of the unreachable message that its checksum is the sum of its words, which makes
the total twice that sum and a multiple only for a zero), how the packet under way differs from it
(`PacketOk`), and what was made of
it (`VerdictOk`). `IntactNeverDropped` is then arithmetic, and so is `OneChangeNoticed`:
two words that are the same modulo `Base - 1` are equal or the two zeroes.

*The options.* `ReadRight`, by the same induction: the loop of `tcp_read_mss` passes over the
bytes of the options before the MSS one by one (`ReadSkips`), for these have neither of
the two kinds it knows (`JoinedPlain`), and what follows the MSS does not move it
(`JoinedKeeps`). With `SegmentsFitIfRead` this is `SegmentsFit`.

*Only model-checked.* Every invariant, step property and refinement of the runs
that pass is stated by a theorem. What is left is liveness under fairness, which is not
within reach of the prover: `StackSettles`, `EachServed`, `AllArrives` and
`BlockReturns`; and that the claims of section 5 are violated.

## 5. Where code and comments part

Each of these runs ends with a counterexample.

| run | claim | what the code does |
|---|---|---|
| `tcp_unsent_skipped` | "sends the size bytes of data" (`xnet_tcp.c:524`) | a send that fails on an ARP miss has moved `tx_buf.next` (line 163): those bytes are skipped |
| `link_close` | the same; `http_send` counts on it before `http_close` | `xtcp_close` sends its FIN at once (line 510), ahead of the data that waits for the window: the client sees the end of the stream and lacks the rest |
| `http_stale_entry` | "first reads the GET request line" (`xserver_http.c:212`) | a client that has closed stays in the queue; its block may be another connection's when it is read |
| `http_hang` | `get_line` "returns the total written" (`xserver_http.c:123`) | it polls for ever when the client closes before the end of the line |

More such places are in the models and have no run of their own:

- The range test of an ACK (`xnet_tcp.c:373`, `AckInRange`) compares wrapping
  numbers with `<=`: once `next_seq` has wrapped and `unacked_seq` has not, no ACK
  is recognised, and the bytes stay in `tx_buf` for good (`AckRecognised` excepts it).
- A SYN with the expected number on an established connection is counted by
  `tcp_recv` (`xnet_tcp.c:111`), although it stands for no byte: `ack` is then one ahead of
  the data (`RxStreamOrder` excepts it).
- A FIN that carries data (`xnet_tcp.c:387`, `EstablishedFinIn`) sets `ack` to `seq + 1`,
  whatever was stored: bytes that are stored are asked for again, and if `rx_buf`
  had no room for the first one, a byte is acknowledged that nobody has. The
  client of `TcpLink` puts a FIN behind data only within the window, so that the
  latter does not happen there; with a FIN on a repeated probe it does, and
  `AckedMeansReceived` fails.
- The window of the peer is compared with the unsent data alone (line 130), not
  with what is under way, so that more may be sent than it allows. The client of
  `TcpLink` takes what fits; the rest is lost, as the code does not repeat it.
- When the SYN+ACK is lost, the client's second SYN finds the block in SYN_RECVD
  and has the wrong number: it is answered with a reset, and the block stays.
- When both ends close at once, or the client's FIN comes with the ACK of the
  server's (lines 351-358), the block is freed without an ACK for that FIN; the
  client repeats it into a block that is gone.
- A block that is free, and a socket that is closed, keep their port and make a
  bind of that port fail (`Bindable` of `XnetTcp` and of `XnetUdp`).
- `min` is the maximum in `xnet_packet.c` and `xnet_icmp.c`. `truncate_packet`
  never shortens, so that the date and time answer is always 128 bytes; the
  unreachable message quotes the whole datagram, and one of more than `QuoteMax` (1474)
  bytes, or that states such a length, leaves no room for the headers of IP and Ethernet,
  which are then written in front of the array (`SendFits` excepts it). In the same
  message the code field is not
  written, and the checksum is not complemented (`xnet_icmp.c:71`): a peer that
  follows the standard drops it, unless the sum is zero (`IntactAccepted`).
- The line of `xip_in` that would cut off link padding is commented out
  (`xnet_ip.c:77`): a short segment that was padded fails the checksum and is
  dropped, which is what keeps the padding out of the stream; with checksum 0,
  which TCP does not mean as "none", it is taken in.
- `xudp_in` believes a total length that is smaller than the packet: a damaged
  one can pass (`NothingForeign` names it).
- `tcp_read_mss` (line 224) does not jump over options: a byte 0 in an option ends
  its search, and a byte 2 hides the kind that follows it, as in "SACK permitted"
  before the MSS. The block then keeps the default of 1460, which may be more than
  the client takes (`Readable` in `TcpOptions` says which lists are read right).
- A header of IP whose checksum is written as 0xffff instead of 0, as a router may
  that updates it in steps, is dropped: `xip_in` compares, it does not add.

## 6. What is not modelled

Every part of the code that keeps state or handles packets has a module. Left out
of them: the packet id of IP; printing and formatting; the parsing of the GET
line beyond its first word; the content of files and of the time text. Of the
driver (`port_pcap.c`) only the size of what it reads is modelled: the rest is
calls of a library that is not in the repository, and `exit` when it cannot be
opened. Whether the time of `timer_poll` has come is a choice in `Servers`: a clock
there would add states and no order of events. Out of the question: the
commented-out old stack, the web pages. In `XnetTcp` segments are taken as
`xtcp_in` has them after its tests of size and checksum, which `XnetStack` and `Wire`
have; of frames shorter than their headers, which are dropped at once,
`OtherFrame` is all that remains.

## 7. The plan

What is left is `Servers` on top of `XnetTcp`: that every step of its `table` is one
that the control blocks of `XnetTcp` can take.
