------------------------------ MODULE Servers ------------------------------
(***************************************************************************)
(* The two TCP applications and the loop that drives them: the HTTP server *)
(* (xserver_http.c), the timer service (xtimer.c), main (app.c) and        *)
(* xnet_poll (xnet_driver.c).                                              *)
(*                                                                         *)
(* The HTTP server takes connections from a queue of pointers to control   *)
(* blocks, and serves one at a time.  While it waits for the rest of a     *)
(* line or for room in the send buffer it calls xnet_poll itself, so every *)
(* frame, also of other connections and also one that ends or replaces the *)
(* connection being served, may be handled in the middle of get_line and   *)
(* http_send.  That nesting is what this module is about; of TCP it keeps  *)
(* only what the applications see of a block (XnetTcp has the rest).       *)
(***************************************************************************)
EXTENDS Naturals, Sequences, FiniteSets

CONSTANTS
    Blocks,    \* control blocks the two listeners leave for connections
    FifoSize,  \* XTCP_FIFO_SIZE
    RxSize,    \* characters rx_buf of a block holds
    TxSize,    \* units tx_buf of a block holds
    LineSize,  \* sizeof(rx_buffer) of the HTTP server
    Chars,     \* characters the clients send
    Replies,   \* answers of send_file: the sizes it passes to http_send
    TimerSize, \* units the timer service writes
    XipOut,    \* what xip_out may return: "OK", or "NONE" on an ARP miss
    Leavers,   \* applications whose clients may close the connection first
    NoBlock    \* the null pointer

App  == {"http", "timer"}

\* "G" stands for the word GET at the start of a line, "other" for any other
\* text, "cr" and "nl" for the two characters that end a line.
Char == {"G", "other", "cr", "nl"}

\* A queue has a cell for every control block, those of the listeners too.
ASSUME ServersAssumption == /\ Blocks \in Nat /\ FifoSize \in Nat \ {0}
                            /\ FifoSize >= Blocks
                            /\ RxSize \in Nat /\ TxSize \in Nat
                            /\ LineSize \in Nat /\ TimerSize \in Nat
                            /\ Chars \subseteq Char
                            /\ Replies \subseteq Seq(Nat \ {0})
                            /\ XipOut \subseteq {"OK", "NONE"}
                            /\ Leavers \subseteq App
                            /\ NoBlock \notin 1 .. Blocks

Slot  == 1 .. Blocks
Index == 0 .. FifoSize - 1

\* FIN_WAIT stands for FIN_WAIT_1 and FIN_WAIT_2.
Block == [ state : {"FREE", "SYN_RECVD", "ESTABLISHED", "FIN_WAIT", "LAST_ACK"},
           app : App \cup {"none"}, rx : Seq(Chars), tx : 0 .. TxSize ]

VARIABLES
    table,          \* the control blocks of connections
    http_fifo,      \* the queue of the HTTP server
    stage,          \* who runs: an application, or the two halves of xnet_poll
    pc,             \* where xserver_http_run is
    current,        \* its variable tcp
    line,           \* what get_line has put into rx_buffer so far
    reply,          \* the sizes that send_file still has to send
    timer_enabled, timer_tcp,
    stale,          \* history: cells of the queue whose block has been given
                    \* to another connection since it was queued
    gone,           \* history: the same for current
    forgotten       \* history: connections refused by a full queue, or whose
                    \* http_close failed

http  == <<pc, current, line, reply>>
timer == <<timer_enabled, timer_tcp>>
hist  == <<stale, gone, forgotten>>
vars  == <<table, http_fifo, stage, http, timer, hist>>

\* What xserver_http_create leaves behind, besides its listening block.
EmptyFifo == [buffer |-> [i \in Index |-> NoBlock],
              front |-> 0, tail |-> 0, count |-> 0]

\* main has initialised the stack and created the servers.
Init == /\ table = [s \in Slot |-> [state |-> "FREE", app |-> "none",
                                    rx |-> <<>>, tx |-> 0]]
        /\ http_fifo = EmptyFifo
        /\ stage = "app" /\ pc = "run" /\ current = NoBlock
        /\ line = <<>> /\ reply = <<>>
        /\ timer_enabled = FALSE /\ timer_tcp = NoBlock
        /\ stale = {} /\ gone = FALSE /\ forgotten = {}

Is(s, state) == table[s].state = state
-----------------------------------------------------------------------------
(***************************************************************************)
(* The queue.                                                              *)
(***************************************************************************)
\* Wrong: one entry more than there are cells.
FifoFull_OneMore(f) == f.count > FifoSize

FifoFull(f) == f.count >= FifoSize

FifoIn(f, s) == [f EXCEPT !.buffer[f.front] = s,
                          !.front = (@ + 1) % FifoSize, !.count = @ + 1]

\* Wrong: tail does not move on.
FifoOut_TailStays(f) == [f EXCEPT !.count = @ - 1]

FifoOut(f) == [f EXCEPT !.tail = (@ + 1) % FifoSize, !.count = @ - 1]

\* The connections that wait, first come first, and the cells they wait in.
Queue(f) == [i \in 1 .. f.count |-> f.buffer[(f.tail + i - 1) % FifoSize]]

Waiting(f) == {(f.tail + i - 1) % FifoSize : i \in 1 .. f.count}
-----------------------------------------------------------------------------
(***************************************************************************)
(* What an application does with a block.                                  *)
(***************************************************************************)
\* xtcp_write: as much as fits, or -1 when the connection is not open.
Accepted(s, size) == IF size <= TxSize - table[s].tx THEN size
                                                     ELSE TxSize - table[s].tx

Write(s, size) ==
    IF Is(s, "ESTABLISHED")
      THEN table' = [table EXCEPT ![s].tx = @ + Accepted(s, size)]
      ELSE UNCHANGED table

\* A call of xnet_poll.
Poll    == stage' = "frame"
GoesOn  == stage' = "app"
-----------------------------------------------------------------------------
(***************************************************************************)
(* xserver_http_run.  Between two polls it runs alone, so the steps below  *)
(* are cut where it polls or starts another of its functions.              *)
(***************************************************************************)
Dequeue == /\ pc = "run" /\ http_fifo.count > 0
           /\ current' = http_fifo.buffer[http_fifo.tail]
           /\ gone' = (http_fifo.tail \in stale)
           /\ http_fifo' = FifoOut(http_fifo)
           /\ stale' = stale \ {http_fifo.tail}
           /\ pc' = "line" /\ GoesOn
           /\ UNCHANGED <<table, line, reply, timer, forgotten>>

\* The queue is empty: xserver_http_run returns and main polls.
MainPolls == /\ pc = "run" /\ http_fifo.count = 0 /\ Poll
             /\ UNCHANGED <<table, http_fifo, http, timer, hist>>

IsGet(l) == l # <<>> /\ Head(l) = "G"

\* The answer: an error in one piece, or a header and a file in pieces.
send_file == pc' = "send" /\ reply' \in Replies

\* Wrong: an empty line is passed over without closing the connection.
LineDone_NotClosed(l) ==
    /\ GoesOn /\ line' = <<>>
    /\ \/ IsGet(l) /\ pc' = "send" /\ reply' \in Replies
       \/ l # <<>> /\ ~ IsGet(l) /\ pc' = "close" /\ UNCHANGED reply
       \/ l = <<>> /\ pc' = "run" /\ UNCHANGED reply

\* get_line has returned: a GET is answered, anything else closed.  The line
\* is not used again.
LineDone(l) == /\ GoesOn /\ line' = <<>>
               /\ \/ IsGet(l) /\ pc' = "send" /\ reply' \in Replies
                  \/ ~ IsGet(l) /\ pc' = "close" /\ UNCHANGED reply

LineFull == Len(line) = LineSize /\ LineDone(line) /\ UNCHANGED table

\* Wrong: no poll while the buffer is empty.
NoChar_NoPoll == /\ Len(line) < LineSize /\ table[current].rx = <<>>
                 /\ GoesOn /\ UNCHANGED <<table, pc, line, reply>>

NoChar == /\ Len(line) < LineSize /\ table[current].rx = <<>>
          /\ Poll /\ UNCHANGED <<table, pc, line, reply>>

ReadChar == /\ Len(line) < LineSize /\ table[current].rx # <<>>
            /\ table' = [table EXCEPT ![current].rx = Tail(@)]
            /\ LET c == Head(table[current].rx)
               IN  IF c = "nl"
                     THEN LineDone(line)
                     ELSE /\ line' = IF c = "cr" THEN line ELSE Append(line, c)
                          /\ Poll /\ UNCHANGED <<pc, reply>>

get_line == /\ pc = "line" /\ (LineFull \/ NoChar \/ ReadChar)
            /\ UNCHANGED <<current, http_fifo, timer, hist>>

\* http_send of the pieces that send_file passes to it, one after the other;
\* each write is followed by a poll.
SendPiece == /\ reply # <<>> /\ Is(current, "ESTABLISHED")
             /\ LET n == Accepted(current, Head(reply))
                IN  reply' = IF n = Head(reply) THEN Tail(reply)
                             ELSE <<Head(reply) - n>> \o Tail(reply)
             /\ Write(current, Head(reply))
             /\ Poll /\ UNCHANGED pc

SendEnds == /\ reply = <<>> \/ ~ Is(current, "ESTABLISHED")
            /\ reply' = <<>> /\ pc' = "close"
            /\ GoesOn /\ UNCHANGED table

http_send == /\ pc = "send" /\ (SendPiece \/ SendEnds)
             /\ UNCHANGED <<current, line, http_fifo, timer, hist>>

\* xtcp_close: a FIN on an open connection, which stays open if that cannot
\* be sent; any other block is freed, whoever has it.
CloseSends == /\ Is(current, "ESTABLISHED") /\ "OK" \in XipOut
              /\ table' = [table EXCEPT ![current].state = "FIN_WAIT"]
              /\ UNCHANGED forgotten

CloseFails == /\ Is(current, "ESTABLISHED") /\ "NONE" \in XipOut
              /\ forgotten' = forgotten \cup {current}
              /\ UNCHANGED table

CloseFrees == /\ ~ Is(current, "ESTABLISHED")
              /\ table' = [table EXCEPT ![current].state = "FREE"]
              /\ UNCHANGED forgotten

http_close == /\ pc = "close" /\ (CloseSends \/ CloseFails \/ CloseFrees)
              /\ pc' = "run" /\ current' = NoBlock /\ gone' = FALSE
              /\ GoesOn
              /\ UNCHANGED <<line, reply, http_fifo, timer, stale>>

xserver_http_run == /\ stage = "app"
                    /\ \/ Dequeue \/ MainPolls \/ get_line
                       \/ http_send \/ http_close
-----------------------------------------------------------------------------
(***************************************************************************)
(* ethernet_poll: at most one frame, as far as the applications see it.    *)
(***************************************************************************)
FreeSlots == {s \in Slot : Is(s, "FREE")}

First(s, S) == s \in S /\ \A t \in S : s <= t

\* A SYN for the port of app: the first free block, with empty buffers.  It
\* is given back at once when the SYN+ACK cannot be sent.
SynIn(app) ==
    /\ \E s \in Slot :
         /\ First(s, FreeSlots)
         /\ \E r \in XipOut :
              table' = [table EXCEPT ![s] =
                          [state |-> IF r = "OK" THEN "SYN_RECVD" ELSE "FREE",
                           app |-> app, rx |-> <<>>, tx |-> 0]]
         /\ stale' = stale \cup {i \in Waiting(http_fifo) : http_fifo.buffer[i] = s}
         /\ gone' = (gone \/ s = current)
         /\ forgotten' = forgotten \ {s}
    /\ UNCHANGED <<http_fifo, timer>>

Opened(s) == [table EXCEPT ![s].state = "ESTABLISHED"]

\* http_handler on CONNECTED; the result of xhttp_fifo_in is not looked at.
HttpConnected(s) ==
    /\ Is(s, "SYN_RECVD") /\ table[s].app = "http"
    /\ table' = Opened(s)
    /\ IF FifoFull(http_fifo)
         THEN forgotten' = forgotten \cup {s} /\ UNCHANGED http_fifo
         ELSE /\ http_fifo' = FifoIn(http_fifo, s)
              /\ UNCHANGED forgotten
    /\ UNCHANGED <<stale, gone, timer>>

\* timer_handler on CONNECTED.
TimerConnected(s) == /\ Is(s, "SYN_RECVD") /\ table[s].app = "timer"
                     /\ table' = Opened(s)
                     /\ timer_enabled' = TRUE /\ timer_tcp' = s
                     /\ UNCHANGED <<http_fifo, hist>>

\* Wrong: http_handler queues the connection on DATA_RECV as well.
DataIn_QueuesAgain(s, c) ==
    /\ Is(s, "ESTABLISHED") /\ Len(table[s].rx) < RxSize
    /\ table' = [table EXCEPT ![s].rx = Append(@, c)]
    /\ IF table[s].app = "http" /\ ~ FifoFull(http_fifo)
         THEN http_fifo' = FifoIn(http_fifo, s)
         ELSE UNCHANGED http_fifo
    /\ UNCHANGED <<timer, hist>>

\* Data for an open connection; neither handler does anything on DATA_RECV.
DataIn(s, c) == /\ Is(s, "ESTABLISHED") /\ Len(table[s].rx) < RxSize
                /\ table' = [table EXCEPT ![s].rx = Append(@, c)]
                /\ UNCHANGED <<http_fifo, timer, hist>>

\* Something sent is acknowledged and leaves tx_buf.
AckIn(s) == /\ Is(s, "ESTABLISHED")
            /\ \E n \in 0 .. TxSize :
                 n < table[s].tx /\ table' = [table EXCEPT ![s].tx = n]
            /\ UNCHANGED <<http_fifo, timer, hist>>

\* The client closes first.
FinIn(s) == /\ Is(s, "ESTABLISHED") /\ table[s].app \in Leavers
            /\ table' = [table EXCEPT ![s].state = "LAST_ACK"]
            /\ UNCHANGED <<http_fifo, timer, hist>>

\* Wrong: timer_handler ignores CLOSED.
TimerOn_AfterClose(app) == timer_enabled

\* The handlers on CLOSED: the timer service stops, for whichever client.
TimerOn(app) == timer_enabled /\ app # "timer"

LastAckIn(s) == /\ Is(s, "LAST_ACK")
                /\ table' = [table EXCEPT ![s].state = "FREE"]
                /\ timer_enabled' = TimerOn(table[s].app)
                /\ UNCHANGED <<http_fifo, timer_tcp, hist>>

\* The client's FIN after ours.
FinWaitIn(s) == /\ Is(s, "FIN_WAIT")
                /\ table' = [table EXCEPT ![s].state = "FREE"]
                /\ UNCHANGED <<http_fifo, timer, hist>>

\* No frame, or one that changes nothing here.
NoFrame == UNCHANGED <<table, http_fifo, timer, hist>>

\* ethernet_poll is the first part of xnet_poll, timer_poll the last.
Handles(frame) == stage = "frame" /\ stage' = "timer" /\ frame /\ UNCHANGED http

ethernet_poll == \/ Handles(NoFrame)
                 \/ \E app \in App : Handles(SynIn(app))
                 \/ \E s \in Slot :
                      \/ Handles(HttpConnected(s)) \/ Handles(TimerConnected(s))
                      \/ \E c \in Chars : Handles(DataIn(s, c))
                      \/ Handles(AckIn(s))         \/ Handles(FinIn(s))
                      \/ Handles(LastAckIn(s))     \/ Handles(FinWaitIn(s))

timer_send == Write(timer_tcp, TimerSize)

\* The time has come, or it has not; timer_tcp is not looked at.
timer_poll == /\ stage = "timer" /\ stage' = "app"
              /\ \/ UNCHANGED table
                 \/ timer_enabled /\ timer_send
              /\ UNCHANGED <<http_fifo, http, timer, hist>>

Next == xserver_http_run \/ ethernet_poll \/ timer_poll

Spec == Init /\ [][Next]_vars

\* main never stops, and a client ends its line and acknowledges what it gets.
Fairness ==
    /\ WF_vars(Next)
    /\ \A s \in Slot : /\ SF_vars(Handles(DataIn(s, "nl")))
                       /\ SF_vars(Handles(AckIn(s)))

FairSpec == Spec /\ Fairness
-----------------------------------------------------------------------------
HttpOpen(s) == Is(s, "ESTABLISHED") /\ table[s].app = "http"

\* The ring of the queue is consistent: count is the distance from tail to
\* front, every waiting cell holds a block, and so does tcp while it is used.
TypeOK ==
    /\ table \in [Slot -> Block]
    /\ http_fifo.buffer \in [Index -> Slot \cup {NoBlock}]
    /\ http_fifo.count \in 0 .. FifoSize
    /\ http_fifo.front \in Index /\ http_fifo.tail \in Index
    /\ (http_fifo.tail + http_fifo.count) % FifoSize = http_fifo.front
    /\ \A i \in 1 .. http_fifo.count : Queue(http_fifo)[i] \in Slot
    /\ stage \in {"app", "frame", "timer"}
    /\ pc \in {"run", "line", "send", "close"}
    /\ current \in (IF pc = "run" THEN {NoBlock} ELSE Slot)
    /\ Len(line) <= LineSize
    /\ reply # <<>> => pc = "send"
    /\ timer_enabled => timer_tcp \in Slot

\* An open HTTP connection waits in the queue or is being served, unless
\* the queue was full when it came or its FIN could not be sent: nothing that
\* happens in a nested poll, and no stale entry, loses one (xhttp_fifo_in,
\* xserver_http_run).
NoneForgotten == \A s \in Slot :
    HttpOpen(s) => \/ s = current \/ s \in forgotten
                   \/ \E i \in 1 .. http_fifo.count : Queue(http_fifo)[i] = s

\* Connections are taken in the order in which they were established: an
\* entry joins at the end when its connection opens, and leaves from the
\* front to be served, through every wrap of the ring (xhttp_fifo_in,
\* xhttp_fifo_out).
FirstComeFirstServed ==
    [][LET before == Queue(http_fifo)
           after  == Queue(http_fifo)'
       IN  \/ after = before
           \/ /\ before # <<>> /\ after = Tail(before)
              /\ current' = Head(before)
           \/ \E s \in Slot : /\ after = Append(before, s)
                              /\ ~ HttpOpen(s) /\ HttpOpen(s)']_vars

\* While the timer service is enabled, the block it writes to belongs to a
\* client of the timer service and not to a connection of the HTTP server
\* (timer_handler, timer_poll, xtcp_alloc).
TimerTarget == timer_enabled =>
    /\ table[timer_tcp].app = "timer"
    /\ Is(timer_tcp, "ESTABLISHED") \/ Is(timer_tcp, "LAST_ACK")

\* The HTTP server reads, writes and closes only the connection it took from
\* the queue, never one that has been given the same block since
\* (xserver_http_run, with xnet_poll in get_line and http_send).
ServesOwn == [][stage = "app" /\ table' # table => ~ gone]_vars

\* get_line reads the request line of the connection that was queued
\* (xserver_http.c:212).
ReadsOwn == [][pc = "line" /\ stage = "app" /\ table' # table => ~ gone]_vars

\* get_line returns: it "returns the number of characters written"
\* (xserver_http.c:123).
LineReturns == (pc = "line") ~> (pc # "line")

\* Every HTTP connection is answered and closed, or closed by its client:
\* neither the connections before it in the queue nor the frames and the
\* timer of the nested polls hold it up for ever (main, xserver_http_run).
EachServed == \A s \in Slot : HttpOpen(s) ~> ~ HttpOpen(s)
=============================================================================
