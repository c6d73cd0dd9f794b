------------------------------- MODULE TcpLink -------------------------------
(***************************************************************************)
(* One connection from end to end: the TCP layer of the stack (XnetTcp,    *)
(* with one application that listens), a client at the other end that      *)
(* follows TCP (RFC 793), and the link between them.  The server side is   *)
(* the code: each of its steps is an action of XnetTcp.  The client and    *)
(* the link are the environment the code is written for.                   *)
(*                                                                         *)
(* The link keeps the order of frames.  What else may go wrong is chosen   *)
(* by Upsets, and happens at most MaxUpsets times:                         *)
(*   "lose", "repeat"  a segment is lost, or arrives twice                 *)
(*   "early"           the client's retransmission timer runs out although *)
(*                     a segment or its answer is still under way          *)
(*   "hasty"           an end closes before it has sent and received all   *)
(* The properties about progress are about the runs without an upset: the  *)
(* code sends nothing twice, so that one lost segment may stop it.         *)
(*                                                                         *)
(* Numbers do not wrap here (XnetTcp has that); a byte is represented by   *)
(* its sequence number, and a stream by the sequence of its numbers.       *)
(***************************************************************************)
EXTENDS XnetTcp

Options == INSTANCE TcpOptions

CONSTANTS
    Client,       \* the remote endpoint
    ServerPort,   \* the port the application listens on
    Server,       \* the application
    ClientIss,    \* initial sequence number of the client
    ServerIss,    \* initial sequence number of the server
    ClientWin,    \* the client's window; its user reads at once
    SynOptions,   \* the lists of options a SYN may carry
    ToSend,       \* how many bytes the client sends
    ToWrite,      \* how many bytes the application writes
    Capacity,     \* bound on the segments under way in one direction
    Upsets, MaxUpsets

ASSUME LinkAssumption ==
    /\ Client \in Peer /\ ServerPort \in Port /\ Server \in App
    /\ MaxTcp = 2 /\ InitSeq = {ServerIss}
    /\ {ClientIss, ServerIss, ClientWin} \subseteq Nat \ {0}
    /\ {ToSend, ToWrite, Capacity, MaxUpsets} \subseteq Nat
    /\ ClientIss + ToSend + BufSize + 2 < SeqSpace
    /\ ServerIss + ToWrite + ClientWin + 2 < SeqSpace

\* What limits the environment of XnetTcp does not limit the client, and the
\* value of an MSS option is a uint16_t.
ASSUME ArrivingAssumption ==
    /\ SeqNum \subseteq SegAcks
    /\ {{"SYN"}, {"ACK"}, {"FIN", "ACK"}} \subseteq SegFlags
    /\ ClientWin \in SegWindows
    /\ 0 .. ToSend \subseteq SegLens
    /\ \A options \in SynOptions \cup {<<>>} :
         /\ Options!tcp_read_mss(Options!Bytes(options), MssDefault) \in SegMss
         /\ Options!Announced(options, MssDefault) \in Win

VARIABLES
    client,   \* the client's end of the connection
    up, down, \* segments under way to the server, and to the client
    got,      \* history: what the user of the client has received
    read,     \* history: what the application has read
    upsets    \* how many upsets have happened

linkVars == <<vars, client, up, down, got, read, upsets>>

Listener == 1
Conn     == 2

\* After xserver_http_create: one block listens.
LinkInit ==
    /\ tcp_socket = [s \in Slot |->
          IF s = Conn THEN ZeroTcb
          ELSE [Allocated(ZeroTcb, ServerIss) EXCEPT
                  !.state = "LISTEN", !.handler = Server, !.local_port = ServerPort]]
    /\ out = {} /\ event = {}
    /\ written = [s \in Slot |-> 0]
    /\ client = [ state |-> "CLOSED", una |-> ClientIss, nxt |-> ClientIss,
                  rcv |-> 0, edge |-> 0, mss |-> MssDefault, eof |-> FALSE ]
    /\ up = <<>> /\ down = <<>>
    /\ got = <<>> /\ read = <<>>
    /\ upsets = 0

Upset(kind) == /\ kind \in Upsets
               /\ upsets < MaxUpsets
               /\ upsets' = upsets + 1
-----------------------------------------------------------------------------
(***************************************************************************)
(* The server: xtcp_in, and the calls of the application.                  *)
(***************************************************************************)
\* What xtcp_in makes of a segment of the client.
Arrived(m) ==
    [ from |-> Client, dest_port |-> ServerPort, seq |-> m.seq, ack |-> m.ack,
      flags |-> m.flags, window |-> ClientWin, len |-> m.len,
      mss |-> Options!tcp_read_mss(Options!Bytes(m.options), MssDefault) ]

\* The segment that the server has sent in this step.
Answer == IF out = {} THEN <<>> ELSE <<CHOOSE m \in out : TRUE>>

ServerSide == /\ down' = down \o Answer'
              /\ UNCHANGED <<client, got>>

ServerReceives == /\ up # <<>>
                  /\ xtcp_in(Arrived(Head(up)))
                  /\ up' = Tail(up)
                  /\ ServerSide
                  /\ UNCHANGED <<read, upsets>>

\* How much the application has written.
Wrote == IF written[Conn] = 0 THEN 0 ELSE written[Conn] - (ServerIss + 1)

AppWrites == /\ Len(down) < Capacity
             /\ \E size \in WriteSizes : /\ Wrote + size <= ToWrite
                                         /\ xtcp_write(Conn, size)
             /\ ServerSide
             /\ UNCHANGED <<up, read, upsets>>

AppReads == /\ tcp_socket[Conn].rx_buf.data_count > 0
            /\ \E size \in ReadSizes :
                 LET rx == tcp_socket[Conn].rx_buf
                 IN  /\ xtcp_read(Conn, size)
                     /\ read' = read \o [i \in 1 .. ReadSize(rx, size) |-> Unread(rx, i - 1)]
            /\ ServerSide
            /\ UNCHANGED <<up, upsets>>

\* The application has read and written everything, and nothing of it waits.
AppDone == /\ Len(read) = ToSend /\ Wrote = ToWrite
           /\ tcp_socket[Conn].tx_buf.data_count = 0

AppCloses == /\ Live(Conn, {"ESTABLISHED", "LAST_ACK"})
             /\ xtcp_close(Conn)
             /\ \/ AppDone /\ UNCHANGED upsets
                \/ ~AppDone /\ Upset("hasty")
             /\ ServerSide
             /\ UNCHANGED <<up, read>>
-----------------------------------------------------------------------------
(***************************************************************************)
(* The client.  Its stream has the numbers from ClientIss + 1 on, and then *)
(* FinSeq for its FIN.  una and nxt are its oldest number that is not      *)
(* acknowledged and its next one, rcv the number it expects, edge the end  *)
(* of the window that the server has offered.                              *)
(***************************************************************************)
FinSeq == ClientIss + 1 + ToSend

Message(c, flags, seq, len, options) ==
    [seq |-> seq, ack |-> c.rcv, flags |-> flags, len |-> len, options |-> options]

Ack(c) == Message(c, {"ACK"}, c.nxt, 0, <<>>)

ClientSide == /\ out' = {} /\ event' = {}
              /\ UNCHANGED <<tcp_socket, written, read>>

Put(c, m) == /\ up' = Append(up, m)
             /\ client' = c
             /\ ClientSide
             /\ UNCHANGED <<down, got>>

Connect == /\ client.state = "CLOSED"
           /\ \E options \in SynOptions :
                Put([client EXCEPT !.state = "SYN_SENT", !.nxt = ClientIss + 1,
                       !.mss = Options!Announced(options, MssDefault)],
                    Message(client, {"SYN"}, ClientIss, 0, options))
           /\ UNCHANGED upsets

\* Data within the window, or one byte to probe a window that is closed.
SendData == /\ client.state = "OPEN" /\ Len(up) < Capacity
            /\ \E n \in SegLens \ {0} :
                 /\ client.nxt + n <= FinSeq
                 /\ \/ client.nxt + n <= client.edge
                    \/ n = 1 /\ client.una = client.nxt
                 /\ Put([client EXCEPT !.nxt = @ + n],
                        Message(client, {"ACK"}, client.nxt, n, <<>>))
            /\ UNCHANGED upsets

\* The user of the client closes once it has all, or hastily.
Closes == \/ Len(got) = ToWrite /\ UNCHANGED upsets
          \/ Len(got) # ToWrite /\ Upset("hasty")

\* A FIN may carry the last of the data, if that is within the window.
WithData == FinSeq <= client.edge

SendFin == /\ client.state = "OPEN" /\ Len(up) < Capacity
           /\ \E n \in SegLens \cup {0} :
                /\ client.nxt + n = FinSeq /\ (n > 0 => WithData)
                /\ Put([client EXCEPT !.nxt = FinSeq + 1],
                       Message(client, {"FIN", "ACK"}, client.nxt, n, <<>>))
           /\ Closes

\* The retransmission timer: the SYN, or what of the data is not
\* acknowledged, or else the FIN.
Unacknowledged ==
    IF client.state = "SYN_SENT"
      THEN \E options \in SynOptions :
             /\ client.mss = Options!Announced(options, MssDefault)
             /\ Put(client, Message(client, {"SYN"}, ClientIss, 0, options))
    ELSE IF client.una < FinSeq
      THEN \E flags \in {{"ACK"}, {"FIN", "ACK"}} :
             /\ "FIN" \in flags => client.nxt > FinSeq /\ WithData
             /\ Put(client, Message(client, flags, client.una,
                                    min(client.nxt, FinSeq) - client.una, <<>>))
    ELSE Put(client, Message(client, {"FIN", "ACK"}, FinSeq, 0, <<>>))

Resend == /\ client.state \in {"SYN_SENT", "OPEN"}
          /\ client.una < client.nxt
          /\ Len(up) < Capacity
          /\ \/ up = <<>> /\ down = <<>> /\ UNCHANGED upsets
             \/ up \o down # <<>> /\ Upset("early")
          /\ Unacknowledged

\* The SYN+ACK, or a reset, of a client that waits for it.
Opens(m) ==
    /\ client.state = "SYN_SENT"
    /\ m.ack = client.nxt
    /\ \/ /\ m.flags = {"SYN", "ACK"}
          /\ LET c == [client EXCEPT !.state = "OPEN", !.una = m.ack,
                                     !.rcv = m.seq + 1, !.edge = m.ack + m.window]
             IN  client' = c /\ up' = Append(up, Ack(c))
       \/ /\ "RST" \in m.flags
          /\ client' = [client EXCEPT !.state = "REFUSED"]
          /\ UNCHANGED up
    /\ UNCHANGED got

InWindow(m) == m.seq \in client.rcv .. client.rcv + ClientWin - 1

\* A segment in the window: its ACK counts, and its data if it is the next
\* and no FIN has come before.
Takes(m) ==
    /\ client.state = "OPEN" /\ InWindow(m) /\ "RST" \notin m.flags
    /\ LET next == m.seq = client.rcv
           open == next /\ ~client.eof
           size == IF open THEN min(Len(m.data), ClientWin) ELSE 0
           eof  == open /\ "FIN" \in m.flags /\ size = Len(m.data)
           c    == [client EXCEPT
                      !.una = IF @ < m.ack /\ m.ack <= client.nxt THEN m.ack ELSE @,
                      !.edge = IF @ < m.ack + m.window THEN m.ack + m.window ELSE @,
                      !.rcv = @ + size + (IF eof THEN 1 ELSE 0),
                      !.eof = @ \/ eof]
       IN  /\ client' = c
           /\ got' = got \o SubSeq(m.data, 1, size)
           /\ up' = IF next /\ m.data = <<>> /\ ~eof THEN up ELSE Append(up, Ack(c))

\* A segment outside of the window is answered with an ACK; a reset there is
\* ignored, and in the window it ends the connection.
Rejects(m) ==
    /\ client.state = "OPEN"
    /\ \/ /\ ~InWindow(m)
          /\ up' = IF "RST" \in m.flags THEN up ELSE Append(up, Ack(client))
          /\ UNCHANGED client
       \/ /\ InWindow(m) /\ "RST" \in m.flags
          /\ client' = [client EXCEPT !.state = "REFUSED"]
          /\ UNCHANGED up
    /\ UNCHANGED got

Ignores(m) == /\ client.state # "OPEN"
              /\ client.state = "SYN_SENT" => m.ack # client.nxt
              /\ UNCHANGED <<client, up, got>>

ClientReceives == /\ down # <<>>
                  /\ LET m == Head(down)
                     IN  Opens(m) \/ Takes(m) \/ Rejects(m) \/ Ignores(m)
                  /\ down' = Tail(down)
                  /\ ClientSide
                  /\ UNCHANGED upsets
-----------------------------------------------------------------------------
(***************************************************************************)
(* The link.                                                               *)
(***************************************************************************)
LinkSide == /\ ClientSide
            /\ UNCHANGED <<client, got>>

Lose == /\ Upset("lose")
        /\ \/ up # <<>> /\ up' = Tail(up) /\ UNCHANGED down
           \/ down # <<>> /\ down' = Tail(down) /\ UNCHANGED up
        /\ LinkSide

Repeat == /\ Upset("repeat")
          /\ \/ up # <<>> /\ up' = <<Head(up)>> \o up /\ UNCHANGED down
             \/ down # <<>> /\ down' = <<Head(down)>> \o down /\ UNCHANGED up
          /\ LinkSide

LinkNext == \/ ServerReceives \/ AppWrites \/ AppReads \/ AppCloses
            \/ Connect \/ SendData \/ SendFin \/ Resend \/ ClientReceives
            \/ Lose \/ Repeat

LinkSpec == LinkInit /\ [][LinkNext]_linkVars

\* What two of the steps below do, without how: only ServerReceives takes a
\* segment from up without an upset, and it can do so whenever there is one;
\* only AppWrites makes the stream of an open connection longer.  (TLC
\* evaluates ENABLED of these far faster than of the handlers.)
Delivered == up # <<>> /\ up' = Tail(up) /\ UNCHANGED upsets

StreamGrows ==
    /\ Live(Conn, {"ESTABLISHED"}) /\ Wrote < ToWrite
    /\ FreeCount(tcp_socket[Conn].tx_buf) > 0 /\ Len(down) < Capacity
    /\ \E n \in 1 .. BufSize : written' = [written EXCEPT ![Conn] = SeqAdd(@, n)]

\* The main loop polls and runs its applications, the link delivers what it
\* does not lose, the client is a working TCP, and each end closes when it
\* has sent and received everything.  No upset is ever forced to happen.
LinkFairSpec ==
    /\ LinkSpec
    /\ WF_<<up, upsets>>(Delivered) /\ WF_written(StreamGrows)
    /\ WF_linkVars(AppReads) /\ WF_linkVars(AppCloses /\ UNCHANGED upsets)
    /\ WF_linkVars(Connect) /\ WF_linkVars(ClientReceives)
    /\ WF_linkVars(SendData) /\ WF_linkVars(SendFin /\ UNCHANGED upsets)
    /\ WF_linkVars(Resend /\ UNCHANGED upsets)
-----------------------------------------------------------------------------
(***************************************************************************)
(* Properties.                                                             *)
(***************************************************************************)
Numbers(from, to) == [i \in 1 .. to - from |-> from + i - 1]

\* What the application has written, and what the client has sent so far.
OutSent == Numbers(ServerIss + 1, ServerIss + 1 + Wrote)
InSent  == Numbers(ClientIss + 1, IF client.state = "CLOSED" THEN ClientIss + 1
                                  ELSE min(client.nxt, FinSeq))

Outward == INSTANCE ByteStream WITH sent <- OutSent, rcvd <- got
Inward  == INSTANCE ByteStream WITH sent <- InSent, rcvd <- read

\* The stream of the application reaches the client as it was written
\* (xtcp_write, tcp_send), and that of the client reaches the application as
\* it was sent (xtcp_in, tcp_recv, xtcp_read), whatever is lost, repeated or
\* sent again and whenever either side closes.
OutStream == Outward!Spec
InStream  == Inward!Spec

\* What one end forgets because it is acknowledged, the other end has: the
\* client is told of no byte that is not read or in rx_buf (tcp_recv), and
\* tx_buf gives up no byte that has not arrived (xtcp_in, ESTABLISHED).
AckedMeansReceived ==
    /\ Live(Conn, Connected) =>
         min(client.una, FinSeq) - (ClientIss + 1)
            <= Len(read) + tcp_socket[Conn].rx_buf.data_count
    /\ Live(Conn, {"ESTABLISHED"}) => tcp_socket[Conn].unacked_seq <= client.rcv

\* No segment to the client carries more data than the MSS option of its SYN
\* allows (tcp_read_mss, tcp_send).
MssRespected == \A i \in DOMAIN down : Len(down[i].data) <= client.mss

\* Everything has arrived: with the client's user, and with the application
\* or in rx_buf, which keeps what was not read when the block is freed.
Complete == /\ Len(got) = ToWrite
            /\ Len(read) + tcp_socket[Conn].rx_buf.data_count = ToSend

\* Without an upset everything arrives, in both directions: also what waited
\* in tx_buf until an ACK came, and what the client sent into a full rx_buf,
\* whose window nobody reopens but the client's own probes.
AllArrives == [](upsets = 0) => <>Complete

\* Without an upset the block of the connection is free again in the end,
\* whichever end closes first, or both at once (xtcp_in from ESTABLISHED on).
BlockReturns == [](upsets = 0) => <>[]Live(Conn, {"FREE"})

(***************************************************************************)
(* A claim of a comment that the code does not keep.                       *)
(***************************************************************************)
\* "sends out the size bytes of data" (xtcp_write): when the client is told
\* that the stream has ended, it has received all of it.
EndIsEnd == client.eof => Len(got) = Wrote
=============================================================================
