--------------------------- MODULE ServersProofs ---------------------------
(***************************************************************************)
(* Theorems about Servers: the queue of the HTTP server is a queue, no     *)
(* connection that enters it is lost, and, as long as the clients of the   *)
(* HTTP server leave the closing to the server, each of the two            *)
(* applications keeps to its own connections.                              *)
(***************************************************************************)
EXTENDS Servers, SequenceTheorems, TLAPS

\* The part of the assumption that most of the steps need.
LEMMA Sizes == /\ Blocks \in Nat /\ FifoSize \in Nat /\ FifoSize > 0
               /\ RxSize \in Nat /\ TxSize \in Nat /\ LineSize \in Nat
               /\ TimerSize \in Nat /\ NoBlock \notin Slot
BY ServersAssumption DEF Slot

USE Sizes

(***************************************************************************)
(* The queue.                                                              *)
(***************************************************************************)
Fifo == [ buffer : [Index -> Slot \cup {NoBlock}],
          front : Index, tail : Index, count : 0 .. FifoSize ]

\* The indices of the ring.
LEMMA Wrap ==
    ASSUME NEW a \in Nat, a < 2 * FifoSize
    PROVE  a % FifoSize = (IF a >= FifoSize THEN a - FifoSize ELSE a)
OBVIOUS

LEMMA WrapSum ==
    ASSUME NEW t \in Index, NEW m \in 0 .. FifoSize, NEW n \in 0 .. FifoSize,
           m + n <= FifoSize
    PROVE  /\ (t + m) % FifoSize \in Index
           /\ (((t + m) % FifoSize) + n) % FifoSize = (t + m + n) % FifoSize
<1> DEFINE a == t + m
           b == t + m + n
           c == a % FifoSize
           d == c + n
<1>1. a \in Nat /\ a < 2 * FifoSize /\ b = a + n /\ b \in Nat /\ b < 2 * FifoSize
  BY DEF Index
<1> HIDE DEF a, b
<1>2. c = (IF a >= FifoSize THEN a - FifoSize ELSE a)
  BY <1>1, Wrap
<1>3. b % FifoSize = (IF b >= FifoSize THEN b - FifoSize ELSE b)
  BY <1>1, Wrap
<1> HIDE DEF c
<1>4. c \in Index
  BY <1>1, <1>2 DEF Index
<1>5. d \in Nat /\ d < 2 * FifoSize /\ d = c + n
  BY <1>4 DEF Index
<1> HIDE DEF d
<1>6. d % FifoSize = (IF d >= FifoSize THEN d - FifoSize ELSE d)
  BY <1>5, Wrap
<1>7. d % FifoSize = b % FifoSize
  BY <1>1, <1>2, <1>3, <1>5, <1>6
<1> QED
  BY <1>4, <1>7 DEF a, b, c, d

LEMMA WrapDiffers ==
    ASSUME NEW t \in Index, NEW m \in 0 .. FifoSize - 1, NEW n \in 0 .. FifoSize - 1, m # n
    PROVE  (t + m) % FifoSize # (t + n) % FifoSize
<1> DEFINE a == t + m
           b == t + n
<1>1. /\ a \in Nat /\ a < 2 * FifoSize /\ b \in Nat /\ b < 2 * FifoSize
      /\ a # b /\ a < b + FifoSize /\ b < a + FifoSize
  BY DEF Index
<1> HIDE DEF a, b
<1>2. a % FifoSize = (IF a >= FifoSize THEN a - FifoSize ELSE a)
  BY <1>1, Wrap
<1>3. b % FifoSize = (IF b >= FifoSize THEN b - FifoSize ELSE b)
  BY <1>1, Wrap
<1>4. a % FifoSize # b % FifoSize
  BY <1>1, <1>2, <1>3
<1> QED
  BY <1>4 DEF a, b

\* The cell of the i-th connection that waits.
CellOf(t, i) == (t + i - 1) % FifoSize

FifoInv(f) == /\ f \in Fifo
              /\ (f.tail + f.count) % FifoSize = f.front
              /\ \A i \in 1 .. f.count : f.buffer[CellOf(f.tail, i)] \in Slot

LEMMA QueueType ==
    ASSUME NEW f, FifoInv(f)
    PROVE  /\ Queue(f) \in Seq(Slot) /\ Len(Queue(f)) = f.count
           /\ f.count \in 0 .. FifoSize
           /\ \A i \in 1 .. f.count : Queue(f)[i] = f.buffer[CellOf(f.tail, i)]
<1>1. f.count \in Nat
  BY DEF FifoInv, Fifo
<1>2. Queue(f) = [i \in 1 .. f.count |-> f.buffer[CellOf(f.tail, i)]]
  BY DEF Queue, CellOf
<1>3. \A i \in 1 .. f.count : f.buffer[CellOf(f.tail, i)] \in Slot
  BY DEF FifoInv
<1> QED
  BY <1>1, <1>2, <1>3 DEF FifoInv, Fifo

\* The cells of at most FifoSize connections are different ones.
LEMMA CellsDiffer ==
    ASSUME NEW t \in Index, NEW i \in 1 .. FifoSize, NEW j \in 1 .. FifoSize
    PROVE  CellOf(t, i) \in Index /\ (i # j => CellOf(t, i) # CellOf(t, j))
<1>1. /\ i - 1 \in 0 .. FifoSize - 1 /\ j - 1 \in 0 .. FifoSize - 1
      /\ t + i - 1 = t + (i - 1) /\ t + j - 1 = t + (j - 1)
      /\ t + (i - 1) = t + (i - 1) + 0 /\ i - 1 + 0 <= FifoSize
      /\ 0 \in 0 .. FifoSize /\ i - 1 \in 0 .. FifoSize
  BY DEF Index
<1>2. (t + (i - 1)) % FifoSize \in Index
  BY <1>1, WrapSum
<1>3. i # j => i - 1 # j - 1
  OBVIOUS
<1> QED
  BY <1>1, <1>2, <1>3, WrapDiffers DEF CellOf

\* xhttp_fifo_in: the newcomer is the last, whatever is left in the cells
\* behind, and those that wait stay.
LEMMA FifoInQueue ==
    ASSUME NEW f, FifoInv(f), ~ FifoFull(f), NEW s \in Slot
    PROVE  /\ FifoInv(FifoIn(f, s))
           /\ FifoIn(f, s).count = f.count + 1
           /\ Queue(FifoIn(f, s)) = Append(Queue(f), s)
<1> DEFINE g == FifoIn(f, s)
           n == f.count
<1>1. /\ n \in 0 .. FifoSize - 1 /\ f.tail \in Index /\ f.front \in Index
      /\ f.buffer \in [Index -> Slot \cup {NoBlock}]
      /\ f.front = CellOf(f.tail, n + 1)
  <2>1. /\ n \in 0 .. FifoSize - 1 /\ f.tail \in Index /\ f.front \in Index
        /\ f.buffer \in [Index -> Slot \cup {NoBlock}]
        /\ (f.tail + n) % FifoSize = f.front
    BY DEF FifoInv, Fifo, FifoFull
  <2>2. f.tail + (n + 1) - 1 = f.tail + n
    BY <2>1 DEF Index
  <2> QED
    BY <2>1, <2>2 DEF CellOf
<1>2. /\ g.buffer = [f.buffer EXCEPT ![f.front] = s]
      /\ g.front = (f.front + 1) % FifoSize /\ g.count = n + 1 /\ g.tail = f.tail
  BY DEF FifoIn, FifoInv, Fifo
<1>7. g \in [ buffer : {g.buffer}, front : {g.front}, tail : {g.tail}, count : {g.count} ]
  BY DEF FifoIn, FifoInv, Fifo
<1> HIDE DEF g
<1>3. \A i : CellOf(g.tail, i) = CellOf(f.tail, i)
  BY <1>2
<1>4. ASSUME NEW i \in 1 .. n + 1
      PROVE  g.buffer[CellOf(g.tail, i)] = IF i = n + 1 THEN s ELSE f.buffer[CellOf(f.tail, i)]
  <2>0. i \in 1 .. FifoSize /\ n + 1 \in 1 .. FifoSize
    BY <1>1
  <2>1. CellOf(f.tail, i) \in Index
    BY <1>1, <2>0, CellsDiffer
  <2>2. i # n + 1 => CellOf(f.tail, i) # CellOf(f.tail, n + 1)
    BY <1>1, <2>0, CellsDiffer
  <2> QED
    BY <1>1, <1>2, <1>3, <2>1, <2>2
<1>5. FifoInv(g)
  <2>1. g.front \in Index /\ (g.tail + g.count) % FifoSize = g.front
    <3> DEFINE t == f.tail
    <3>1. /\ t \in Index /\ n \in 0 .. FifoSize /\ 1 \in 0 .. FifoSize
          /\ n + 1 <= FifoSize /\ n + 1 \in 0 .. FifoSize /\ 0 \in 0 .. FifoSize
          /\ t + (n + 1) = t + n + 1 /\ t + (n + 1) - 1 = t + n /\ n + 1 + 0 <= FifoSize
      BY <1>1 DEF Index
    <3> HIDE DEF t
    <3>2. (((t + n) % FifoSize) + 1) % FifoSize = (t + (n + 1)) % FifoSize
      BY <3>1, WrapSum
    <3>3. (t + (n + 1)) % FifoSize \in Index
      BY <3>1, WrapSum
    <3> QED
      BY <1>1, <1>2, <3>1, <3>2, <3>3 DEF t, CellOf
  <2>2. g \in Fifo
    BY <1>1, <1>2, <1>7, <2>1 DEF Fifo
  <2>3. \A i \in 1 .. g.count : g.buffer[CellOf(g.tail, i)] \in Slot
    BY <1>1, <1>2, <1>4 DEF FifoInv
  <2> QED
    BY <2>1, <2>2, <2>3 DEF FifoInv
<1>6. Queue(g) = Append(Queue(f), s)
  <2> DEFINE q == Queue(f)
             r == Queue(g)
  <2>1. /\ q \in Seq(Slot) /\ Len(q) = n
        /\ \A i \in 1 .. n : q[i] = f.buffer[CellOf(f.tail, i)]
    BY QueueType
  <2>2. /\ r \in Seq(Slot) /\ Len(r) = n + 1
        /\ \A i \in 1 .. n + 1 : r[i] = g.buffer[CellOf(g.tail, i)]
    BY <1>2, <1>5, QueueType
  <2> HIDE DEF q, r
  <2>3. /\ Append(q, s) \in Seq(Slot) /\ Len(Append(q, s)) = n + 1
        /\ \A i \in 1 .. n + 1 : Append(q, s)[i] = IF i = n + 1 THEN s ELSE q[i]
    BY <1>1, <2>1
  <2>4. \A i \in 1 .. n + 1 : r[i] = Append(q, s)[i]
    BY <1>1, <1>4, <2>1, <2>2, <2>3
  <2> QED
    BY <2>2, <2>3, <2>4 DEF q, r
<1> QED
  BY <1>2, <1>5, <1>6 DEF g

\* xhttp_fifo_out: the first leaves, the others keep their order.
LEMMA FifoOutQueue ==
    ASSUME NEW f, FifoInv(f), f.count > 0
    PROVE  /\ FifoInv(FifoOut(f))
           /\ FifoOut(f).count = f.count - 1
           /\ Queue(f) # <<>> /\ Head(Queue(f)) = f.buffer[f.tail]
           /\ f.buffer[f.tail] \in Slot
           /\ Queue(FifoOut(f)) = Tail(Queue(f))
<1> DEFINE g == FifoOut(f)
           n == f.count
<1>1. /\ n \in 1 .. FifoSize /\ f.tail \in Index /\ f.front \in Index
      /\ f.buffer \in [Index -> Slot \cup {NoBlock}]
      /\ (f.tail + n) % FifoSize = f.front
  BY DEF FifoInv, Fifo
<1>2. /\ g.buffer = f.buffer /\ g.front = f.front /\ g.count = n - 1
      /\ g.tail = (f.tail + 1) % FifoSize
  BY DEF FifoOut, FifoInv, Fifo
<1>9. g \in [ buffer : {g.buffer}, front : {g.front}, tail : {g.tail}, count : {g.count} ]
  BY DEF FifoOut, FifoInv, Fifo
<1> HIDE DEF g
<1>3. ASSUME NEW i \in 1 .. n - 1
      PROVE  CellOf(g.tail, i) = CellOf(f.tail, i + 1)
  <2> DEFINE t == f.tail
             u == g.tail
  <2>1. /\ t \in Index /\ u = (t + 1) % FifoSize /\ 1 \in 0 .. FifoSize
        /\ i - 1 \in 0 .. FifoSize /\ 1 + (i - 1) <= FifoSize
    BY <1>1, <1>2
  <2> HIDE DEF t, u
  <2>2. u \in Index /\ (u + (i - 1)) % FifoSize = (t + 1 + (i - 1)) % FifoSize
    BY <2>1, WrapSum
  <2>3. u + i - 1 = u + (i - 1) /\ t + (i + 1) - 1 = t + 1 + (i - 1)
    BY <2>1, <2>2 DEF Index
  <2> QED
    BY <2>2, <2>3 DEF CellOf, t, u
<1>4. FifoInv(g)
  <2>1. g.tail \in Index /\ (g.tail + g.count) % FifoSize = g.front
    <3> DEFINE t == f.tail
    <3>1. /\ t \in Index /\ 1 \in 0 .. FifoSize /\ n - 1 \in 0 .. FifoSize
          /\ 1 + (n - 1) <= FifoSize /\ t + 1 + (n - 1) = t + n
      <4>1. t \in Index /\ n \in 1 .. FifoSize
        BY <1>1
      <4> HIDE DEF t, n
      <4> QED
        BY <4>1 DEF Index
    <3> HIDE DEF t
    <3>2. /\ (t + 1) % FifoSize \in Index
          /\ (((t + 1) % FifoSize) + (n - 1)) % FifoSize = (t + n) % FifoSize
      BY <3>1, WrapSum
    <3> QED
      BY <1>1, <1>2, <3>2 DEF t
  <2>2. g \in Fifo
    BY <1>1, <1>2, <1>9, <2>1 DEF Fifo
  <2>3. \A i \in 1 .. g.count : g.buffer[CellOf(g.tail, i)] \in Slot
    <3> SUFFICES ASSUME NEW i \in 1 .. n - 1 PROVE g.buffer[CellOf(g.tail, i)] \in Slot
      BY <1>2
    <3>1. i + 1 \in 1 .. n
      BY <1>1
    <3> QED
      BY <1>2, <1>3, <3>1 DEF FifoInv
  <2> QED
    BY <2>1, <2>2, <2>3 DEF FifoInv
<1> DEFINE q == Queue(f)
           r == Queue(g)
<1>5. /\ q \in Seq(Slot) /\ Len(q) = n
      /\ \A i \in 1 .. n : q[i] = f.buffer[CellOf(f.tail, i)]
  BY QueueType
<1>6. /\ r \in Seq(Slot) /\ Len(r) = n - 1
      /\ \A i \in 1 .. n - 1 : r[i] = g.buffer[CellOf(g.tail, i)]
  BY <1>2, <1>4, QueueType
<1> HIDE DEF q, r
<1>7. q # <<>> /\ Head(q) = f.buffer[f.tail] /\ f.buffer[f.tail] \in Slot
  <2>1. CellOf(f.tail, 1) = f.tail
    BY <1>1, Wrap DEF CellOf, Index
  <2>2. 1 \in 1 .. n /\ q # <<>> /\ Head(q) = q[1] /\ q[1] \in Slot
    BY <1>1, <1>5
  <2> QED
    BY <1>5, <2>1, <2>2
<1>8. r = Tail(q)
  <2>1. /\ Tail(q) \in Seq(Slot) /\ Len(Tail(q)) = n - 1
        /\ \A i \in 1 .. n - 1 : Tail(q)[i] = q[i + 1]
    BY <1>1, <1>5, <1>7, HeadTailProperties
  <2>2. ASSUME NEW i \in 1 .. n - 1 PROVE r[i] = Tail(q)[i]
    <3>1. i + 1 \in 1 .. n
      BY <1>1
    <3> QED
      BY <1>2, <1>3, <1>5, <1>6, <2>1, <3>1
  <2> QED
    BY <1>6, <2>1, <2>2
<1> QED
  BY <1>2, <1>4, <1>7, <1>8 DEF g, q, r
-----------------------------------------------------------------------------
(***************************************************************************)
(* Types.  Beyond TypeOK: what the line and the answer are made of.        *)
(***************************************************************************)
Pieces == Seq(Nat \ {0})

TableInv == table \in [Slot -> Block]

HttpInv == /\ pc \in {"run", "line", "send", "close"}
           /\ current \in (IF pc = "run" THEN {NoBlock} ELSE Slot)
           /\ line \in Seq(Chars) /\ Len(line) <= LineSize
           /\ reply \in Pieces
           /\ reply # <<>> => pc = "send"

TimerInv == timer_enabled \in BOOLEAN /\ (timer_enabled => timer_tcp \in Slot)

TypeInv == /\ TableInv /\ FifoInv(http_fifo) /\ HttpInv /\ TimerInv
           /\ stage \in {"app", "frame", "timer"}

LEMMA TypeInvTypes == TypeInv => TypeOK
<1> SUFFICES ASSUME TypeInv PROVE TypeOK
  OBVIOUS
<1>1. http_fifo \in Fifo /\ (http_fifo.tail + http_fifo.count) % FifoSize = http_fifo.front
  BY DEF TypeInv, FifoInv
<1>2. \A i \in 1 .. http_fifo.count : Queue(http_fifo)[i] \in Slot
  BY QueueType DEF TypeInv, FifoInv
<1> QED
  BY <1>1, <1>2 DEF TypeInv, TableInv, HttpInv, TimerInv, TypeOK, Fifo

LEMMA InitTypes == Init => TypeInv
<1> SUFFICES ASSUME Init PROVE TypeInv
  OBVIOUS
<1>1. TableInv
  <2>1. [state |-> "FREE", app |-> "none", rx |-> <<>>, tx |-> 0] \in Block
    BY DEF Block
  <2> QED
    BY <2>1 DEF Init, TableInv
<1>2. FifoInv(http_fifo)
  <2>1. EmptyFifo \in Fifo
    BY DEF EmptyFifo, Fifo, Index
  <2>2. EmptyFifo.tail = 0 /\ EmptyFifo.count = 0 /\ EmptyFifo.front = 0
    BY DEF EmptyFifo
  <2>3. (0 + 0) % FifoSize = 0
    BY Wrap
  <2> QED
    BY <2>1, <2>2, <2>3 DEF Init, FifoInv
<1>4. 0 <= LineSize
  OBVIOUS
<1>3. HttpInv
  <2>1. <<>> \in Seq(Chars) /\ Len(<<>>) = 0 /\ <<>> \in Pieces
    BY DEF Pieces
  <2> QED
    BY <2>1, Zenon, <1>4 DEF Init, HttpInv
<1> QED
  BY <1>1, <1>2, <1>3 DEF Init, TypeInv, TimerInv

\* A block of the table.
LEMMA BlockType ==
    ASSUME TableInv, NEW s \in Slot
    PROVE  /\ table[s] \in Block /\ table[s].rx \in Seq(Chars)
           /\ table[s].tx \in 0 .. TxSize /\ table[s].app \in App \cup {"none"}
BY DEF TableInv, Block

\* Changes of one block.
LEMMA BlockPut ==
    ASSUME TableInv, NEW s \in Slot, NEW b \in Block, table' = [table EXCEPT ![s] = b]
    PROVE  TableInv'
BY DEF TableInv

LEMMA StatePut ==
    ASSUME TableInv, NEW s \in Slot,
           NEW state \in {"FREE", "SYN_RECVD", "ESTABLISHED", "FIN_WAIT", "LAST_ACK"},
           table' = [table EXCEPT ![s].state = state]
    PROVE  TableInv'
<1>1. [table[s] EXCEPT !.state = state] \in Block
  BY BlockType DEF Block
<1> QED
  BY <1>1, BlockPut

LEMMA RxPut ==
    ASSUME TableInv, NEW s \in Slot, NEW rx \in Seq(Chars),
           table' = [table EXCEPT ![s].rx = rx]
    PROVE  TableInv'
<1>1. [table[s] EXCEPT !.rx = rx] \in Block
  BY BlockType DEF Block
<1> QED
  BY <1>1, BlockPut

LEMMA TxPut ==
    ASSUME TableInv, NEW s \in Slot, NEW tx \in 0 .. TxSize,
           table' = [table EXCEPT ![s].tx = tx]
    PROVE  TableInv'
<1>1. [table[s] EXCEPT !.tx = tx] \in Block
  BY BlockType DEF Block
<1> QED
  BY <1>1, BlockPut

\* xtcp_write.
LEMMA AcceptedType ==
    ASSUME TableInv, NEW s \in Slot, NEW size \in Nat
    PROVE  /\ Accepted(s, size) \in Nat /\ Accepted(s, size) <= size
           /\ table[s].tx + Accepted(s, size) \in 0 .. TxSize
BY BlockType DEF Accepted

LEMMA WriteType ==
    ASSUME TableInv, NEW s \in Slot, NEW size \in Nat, Write(s, size)
    PROVE  TableInv'
<1>1. CASE table' = table
  BY <1>1 DEF TableInv
<1>2. CASE table' = [table EXCEPT ![s].tx = @ + Accepted(s, size)]
  BY <1>2, AcceptedType, TxPut
<1> QED
  BY <1>1, <1>2 DEF Write

\* LineDone ends the line, and takes its answer from those there are.
LEMMA LineDoneTypes ==
    ASSUME NEW l, LineDone(l), HttpInv, pc = "line", current' = current
    PROVE  HttpInv' /\ stage' = "app"
<1>1. /\ <<>> \in Seq(Chars) /\ Len(<<>>) = 0 /\ 0 <= LineSize /\ Replies \subseteq Pieces
  BY ServersAssumption DEF Pieces
<1> QED
  BY <1>1, Zenon DEF LineDone, HttpInv, GoesOn

LEMMA GetLineTypes ==
    ASSUME TypeInv, get_line
    PROVE  TypeInv'
<1>1. /\ pc = "line" /\ current \in Slot /\ TableInv /\ HttpInv
      /\ UNCHANGED <<current, http_fifo, timer_enabled, timer_tcp>>
  BY DEF get_line, TypeInv, HttpInv, timer
<1>2. FifoInv(http_fifo)' /\ TimerInv'
  BY <1>1 DEF TypeInv, TimerInv
<1>3. CASE LineFull
  BY <1>1, <1>2, <1>3, LineDoneTypes DEF LineFull, TypeInv, TableInv
<1>4. CASE NoChar
  BY <1>1, <1>2, <1>4 DEF NoChar, Poll, TypeInv, TableInv, HttpInv
<1>5. CASE ReadChar
  <2>1. /\ table[current].rx \in Seq(Chars) /\ table[current].rx # <<>>
        /\ Len(line) < LineSize
        /\ table' = [table EXCEPT ![current].rx = Tail(@)]
    BY <1>1, <1>5, BlockType DEF ReadChar
  <2>2. Head(table[current].rx) \in Chars /\ Tail(table[current].rx) \in Seq(Chars)
    BY <2>1
  <2>3. TableInv'
    BY <1>1, <2>1, <2>2, RxPut
  <2>4. CASE LineDone(line)
    BY <1>1, <1>2, <2>3, <2>4, LineDoneTypes DEF TypeInv
  <2>5. CASE /\ line' = IF Head(table[current].rx) = "cr" THEN line
                         ELSE Append(line, Head(table[current].rx))
             /\ Poll /\ UNCHANGED <<pc, reply>>
    <3>1. line \in Seq(Chars) /\ Len(line) \in Nat
      BY <1>1 DEF HttpInv
    <3>2. line' \in Seq(Chars) /\ Len(line') <= LineSize
      BY <2>1, <2>2, <2>5, <3>1
    <3> QED
      BY <1>1, <1>2, <2>3, <2>5, <3>2 DEF TypeInv, HttpInv, Poll
  <2> QED
    BY <1>5, <2>4, <2>5 DEF ReadChar
<1> QED
  BY <1>3, <1>4, <1>5 DEF get_line

LEMMA SendTypes ==
    ASSUME TypeInv, http_send
    PROVE  TypeInv'
<1>1. /\ pc = "send" /\ current \in Slot /\ TableInv /\ HttpInv
      /\ UNCHANGED <<current, line, http_fifo, timer_enabled, timer_tcp>>
  BY DEF http_send, TypeInv, HttpInv, timer
<1>2. FifoInv(http_fifo)' /\ TimerInv'
  BY <1>1 DEF TypeInv, TimerInv
<1>3. CASE SendPiece
  <2> DEFINE n == Accepted(current, Head(reply))
             m == Head(reply)
  <2>1. reply \in Seq(Nat \ {0}) /\ reply # <<>>
    BY <1>1, <1>3 DEF SendPiece, HttpInv, Pieces
  <2>2. m \in Nat \ {0} /\ Tail(reply) \in Seq(Nat \ {0})
    BY <2>1
  <2>3. n \in Nat /\ n <= m
    BY <1>1, <2>2, AcceptedType
  <2>4. reply' = IF n = m THEN Tail(reply) ELSE <<m - n>> \o Tail(reply)
    BY <1>3 DEF SendPiece
  <2>5. Write(current, m) /\ stage' = "frame" /\ pc' = "send"
    BY <1>1, <1>3 DEF SendPiece, Poll
  <2>6. TableInv'
    BY <1>1, <2>2, <2>5, WriteType
  <2> HIDE DEF n, m
  <2>7. reply' \in Seq(Nat \ {0})
    <3>1. n # m => m - n \in Nat \ {0}
      BY <2>2, <2>3
    <3>2. n # m => <<m - n>> \in Seq(Nat \ {0})
      BY <3>1
    <3>3. n # m => <<m - n>> \o Tail(reply) \in Seq(Nat \ {0})
      BY <2>2, <3>2, ConcatProperties, Zenon
    <3> QED
      BY <2>2, <2>4, <3>3, Zenon
  <2> QED
    BY <1>1, <1>2, <2>5, <2>6, <2>7 DEF TypeInv, HttpInv, Pieces
<1>4. CASE SendEnds
  <2>1. <<>> \in Pieces
    BY DEF Pieces
  <2> QED
    BY <1>1, <1>2, <1>4, <2>1 DEF SendEnds, GoesOn, TypeInv, TableInv, HttpInv
<1> QED
  BY <1>3, <1>4 DEF http_send

LEMMA CloseTypes ==
    ASSUME TypeInv, http_close
    PROVE  TypeInv'
<1>1. /\ pc = "close" /\ current \in Slot /\ TableInv /\ HttpInv
      /\ pc' = "run" /\ current' = NoBlock /\ stage' = "app"
      /\ UNCHANGED <<line, reply, http_fifo, timer_enabled, timer_tcp>>
  BY DEF http_close, TypeInv, HttpInv, GoesOn, timer
<1>2. TableInv'
  BY <1>1, StatePut DEF http_close, CloseSends, CloseFails, CloseFrees, TableInv
<1> QED
  BY <1>1, <1>2 DEF TypeInv, HttpInv, TimerInv

LEMMA RunTypes ==
    ASSUME TypeInv, xserver_http_run
    PROVE  TypeInv'
<1>1. CASE Dequeue
  <2>1. /\ FifoInv(FifoOut(http_fifo)) /\ http_fifo.buffer[http_fifo.tail] \in Slot
    BY <1>1, FifoOutQueue DEF Dequeue, TypeInv
  <2> QED
    BY <1>1, <2>1 DEF Dequeue, GoesOn, TypeInv, TableInv, HttpInv, TimerInv, timer
<1>2. CASE MainPolls
  BY <1>2 DEF MainPolls, Poll, TypeInv, TableInv, HttpInv, TimerInv, http, timer
<1> QED
  BY <1>1, <1>2, GetLineTypes, SendTypes, CloseTypes DEF xserver_http_run
-----------------------------------------------------------------------------
\* The frames, one after the other.
Frame == \/ NoFrame
         \/ \E app \in App : SynIn(app)
         \/ \E s \in Slot : \/ HttpConnected(s) \/ TimerConnected(s)
                            \/ \E c \in Chars : DataIn(s, c)
                            \/ AckIn(s) \/ FinIn(s) \/ LastAckIn(s) \/ FinWaitIn(s)

LEMMA PollFrame == ethernet_poll => /\ stage' = "timer" /\ Frame
                                    /\ UNCHANGED <<pc, current, line, reply>>
BY DEF ethernet_poll, Handles, Frame, http

LEMMA FrameTypes ==
    ASSUME TypeInv, Frame
    PROVE  TableInv' /\ FifoInv(http_fifo)' /\ TimerInv'
<1> USE DEF TypeInv
<1>1. CASE NoFrame
  BY <1>1 DEF NoFrame, TableInv, TimerInv, timer
<1>2. ASSUME NEW app \in App, SynIn(app) PROVE TableInv' /\ FifoInv(http_fifo)' /\ TimerInv'
  <2>1. PICK s \in Slot, r \in XipOut :
          table' = [table EXCEPT ![s] =
                      [state |-> IF r = "OK" THEN "SYN_RECVD" ELSE "FREE",
                       app |-> app, rx |-> <<>>, tx |-> 0]]
    BY <1>2 DEF SynIn
  <2>2. [state |-> IF r = "OK" THEN "SYN_RECVD" ELSE "FREE",
         app |-> app, rx |-> <<>>, tx |-> 0] \in Block
    BY DEF Block
  <2>3. TableInv'
    BY <2>1, <2>2, BlockPut
  <2> QED
    BY <1>2, <2>3 DEF SynIn, TimerInv, timer
<1>3. ASSUME NEW s \in Slot, HttpConnected(s)
      PROVE  TableInv' /\ FifoInv(http_fifo)' /\ TimerInv'
  <2>1. TableInv'
    BY <1>3, StatePut DEF HttpConnected, Opened
  <2>2. FifoInv(http_fifo)'
    BY <1>3, FifoInQueue DEF HttpConnected
  <2> QED
    BY <1>3, <2>1, <2>2 DEF HttpConnected, TimerInv, timer
<1>4. ASSUME NEW s \in Slot, TimerConnected(s)
      PROVE  TableInv' /\ FifoInv(http_fifo)' /\ TimerInv'
  BY <1>4, StatePut DEF TimerConnected, Opened, TimerInv
<1>5. ASSUME NEW s \in Slot, NEW c \in Chars, DataIn(s, c)
      PROVE  TableInv' /\ FifoInv(http_fifo)' /\ TimerInv'
  <2>1. Append(table[s].rx, c) \in Seq(Chars)
    BY BlockType
  <2> QED
    BY <1>5, <2>1, RxPut DEF DataIn, TimerInv, timer
<1>6. ASSUME NEW s \in Slot, AckIn(s)
      PROVE  TableInv' /\ FifoInv(http_fifo)' /\ TimerInv'
  BY <1>6, TxPut DEF AckIn, TimerInv, timer
<1>7. ASSUME NEW s \in Slot, FinIn(s) \/ LastAckIn(s) \/ FinWaitIn(s)
      PROVE  TableInv' /\ FifoInv(http_fifo)' /\ TimerInv'
  <2>1. TableInv'
    BY <1>7, StatePut DEF FinIn, LastAckIn, FinWaitIn
  <2>2. FifoInv(http_fifo)'
    BY <1>7 DEF FinIn, LastAckIn, FinWaitIn
  <2>3. timer_tcp' = timer_tcp
    BY <1>7 DEF FinIn, LastAckIn, FinWaitIn, timer
  <2>4. timer_enabled' = timer_enabled \/ timer_enabled' = (timer_enabled /\ table[s].app # "timer")
    BY <1>7 DEF FinIn, LastAckIn, FinWaitIn, timer, TimerOn
  <2>5. timer_enabled' = timer_enabled \/ timer_enabled' = FALSE
    BY <2>4 DEF TimerInv
  <2>6. timer_enabled' \in BOOLEAN /\ (timer_enabled' => timer_tcp' \in Slot)
    <3>1. CASE timer_enabled' = timer_enabled
      BY <2>3, <3>1, Zenon DEF TimerInv
    <3>2. CASE timer_enabled' = FALSE
      BY <3>2, Zenon
    <3> QED
      BY <2>5, <3>1, <3>2, Zenon
  <2>7. TimerInv'
    BY <2>6 DEF TimerInv
  <2> QED
    BY <2>1, <2>2, <2>7
<1> QED
  BY <1>1, <1>2, <1>3, <1>4, <1>5, <1>6, <1>7 DEF Frame

LEMMA TimerPollTypes ==
    ASSUME TypeInv, timer_poll
    PROVE  TypeInv'
<1>1. TableInv'
  <2>1. CASE timer_enabled /\ timer_send
    BY <2>1, WriteType DEF timer_send, TypeInv, TimerInv
  <2> QED
    BY <2>1 DEF timer_poll, TypeInv, TableInv
<1> QED
  BY <1>1 DEF timer_poll, TypeInv, HttpInv, TimerInv, http, timer

LEMMA NextTypes == TypeInv /\ [Next]_vars => TypeInv'
<1> SUFFICES ASSUME TypeInv, [Next]_vars PROVE TypeInv'
  OBVIOUS
<1>1. CASE ethernet_poll
  BY <1>1, PollFrame, FrameTypes DEF TypeInv, HttpInv
<1>2. CASE UNCHANGED vars
  BY <1>2 DEF vars, http, timer, TypeInv, TableInv, HttpInv, TimerInv
<1> QED
  BY <1>1, <1>2, RunTypes, TimerPollTypes DEF Next

\* The ring of the queue stays consistent, and no null pointer is followed:
\* what waits in the queue, what is served and what the timer writes to are
\* control blocks.
THEOREM TypeCorrect == Spec => []TypeOK
<1>1. Spec => []TypeInv
  BY InitTypes, NextTypes, PTL DEF Spec
<1> QED
  BY <1>1, TypeInvTypes, PTL
-----------------------------------------------------------------------------
(***************************************************************************)
(* Which connections a step opens and closes.                              *)
(***************************************************************************)
OpensNone  == \A q \in Slot : HttpOpen(q)' => HttpOpen(q)
ClosesNone == \A q \in Slot : HttpOpen(q) => HttpOpen(q)'

\* A block the timer service may write to.
TimerBlock(s) == table[s].app = "timer" /\ (Is(s, "ESTABLISHED") \/ Is(s, "LAST_ACK"))

KeepsTimer == \A q \in Slot : TimerBlock(q) => TimerBlock(q)'

SetsState(s, state) == table' = [table EXCEPT ![s].state = state]

Moved(s, state) == \A q \in Slot :
    /\ table'[q].app = table[q].app
    /\ table'[q].state = IF q = s THEN state ELSE table[q].state

LEMMA StateMoves ==
    ASSUME TableInv, NEW s \in Slot, NEW state, SetsState(s, state)
    PROVE  Moved(s, state)
BY DEF TableInv, Block, SetsState, Moved

LEMMA RxMoves ==
    ASSUME TableInv, NEW s \in Slot, NEW rx, table' = [table EXCEPT ![s].rx = rx]
    PROVE  OpensNone /\ ClosesNone /\ KeepsTimer
<1>1. \A q \in Slot : table'[q].app = table[q].app /\ table'[q].state = table[q].state
  BY DEF TableInv, Block
<1> QED
  BY <1>1 DEF OpensNone, ClosesNone, KeepsTimer, TimerBlock, HttpOpen, Is

LEMMA TxMoves ==
    ASSUME TableInv, NEW s \in Slot, NEW tx, table' = [table EXCEPT ![s].tx = tx]
    PROVE  OpensNone /\ ClosesNone /\ KeepsTimer
<1>1. \A q \in Slot : table'[q].app = table[q].app /\ table'[q].state = table[q].state
  BY DEF TableInv, Block
<1> QED
  BY <1>1 DEF OpensNone, ClosesNone, KeepsTimer, TimerBlock, HttpOpen, Is

LEMMA NothingMoves == UNCHANGED table => OpensNone /\ ClosesNone /\ KeepsTimer
BY DEF OpensNone, ClosesNone, KeepsTimer, TimerBlock, HttpOpen, Is

LEMMA WriteMoves ==
    ASSUME TableInv, NEW s \in Slot, NEW size, Write(s, size)
    PROVE  OpensNone /\ ClosesNone /\ KeepsTimer
BY TxMoves, NothingMoves DEF Write

\* The steps that only wait, read and write.
Works == MainPolls \/ get_line \/ http_send \/ timer_poll \/ UNCHANGED vars

LEMMA WorkMoves ==
    ASSUME TypeInv, Works
    PROVE  /\ OpensNone /\ ClosesNone /\ KeepsTimer
           /\ UNCHANGED <<http_fifo, current, stale, gone, forgotten, timer_enabled, timer_tcp>>
<1>0. TableInv /\ (pc # "run" => current \in Slot)
  BY DEF TypeInv, HttpInv
<1>1. CASE MainPolls
  BY <1>1, NothingMoves DEF MainPolls, http, timer, hist
<1>2. CASE get_line
  <2>1. current \in Slot
    BY <1>0, <1>2 DEF get_line
  <2>2. OpensNone /\ ClosesNone /\ KeepsTimer
    BY <1>0, <1>2, <2>1, NothingMoves, RxMoves DEF get_line, LineFull, NoChar, ReadChar
  <2> QED
    BY <1>2, <2>2 DEF get_line, timer, hist
<1>3. CASE http_send
  <2>1. current \in Slot
    BY <1>0, <1>3 DEF http_send
  <2>2. OpensNone /\ ClosesNone /\ KeepsTimer
    BY <1>0, <1>3, <2>1, NothingMoves, WriteMoves DEF http_send, SendPiece, SendEnds
  <2> QED
    BY <1>3, <2>2 DEF http_send, timer, hist
<1>4. CASE timer_poll
  <2>1. OpensNone /\ ClosesNone /\ KeepsTimer
    BY <1>0, <1>4, NothingMoves, WriteMoves
       DEF timer_poll, timer_send, TypeInv, TimerInv
  <2> QED
    BY <1>4, <2>1 DEF timer_poll, http, timer, hist
<1>5. CASE UNCHANGED vars
  BY <1>5, NothingMoves DEF vars, http, timer, hist
<1> QED
  BY <1>1, <1>2, <1>3, <1>4, <1>5 DEF Works

\* The frames that leave the queue alone and open no HTTP connection.
Passes(s) == \/ TimerConnected(s) \/ FinIn(s) \/ LastAckIn(s) \/ FinWaitIn(s)
             \/ AckIn(s) \/ \E c \in Chars : DataIn(s, c)

LEMMA PassMoves ==
    ASSUME TypeInv, NEW s \in Slot, Passes(s)
    PROVE  /\ OpensNone /\ ("http" \notin Leavers => ClosesNone)
           /\ UNCHANGED <<http_fifo, stale, gone, forgotten>>
<1>0. TableInv
  BY DEF TypeInv
<1>1. CASE TimerConnected(s)
  <2>1. SetsState(s, "ESTABLISHED")
    BY <1>1 DEF TimerConnected, Opened, SetsState
  <2>2. Moved(s, "ESTABLISHED")
    BY <1>0, <2>1, StateMoves
  <2> QED
    BY <1>1, <2>2 DEF Moved, TimerConnected, OpensNone, ClosesNone, HttpOpen, Is, hist
<1>2. CASE FinIn(s)
  <2>1. SetsState(s, "LAST_ACK")
    BY <1>2 DEF FinIn, SetsState
  <2>2. Moved(s, "LAST_ACK")
    BY <1>0, <2>1, StateMoves
  <2> QED
    BY <1>2, <2>2 DEF Moved, FinIn, OpensNone, ClosesNone, HttpOpen, Is, hist
<1>3. CASE LastAckIn(s) \/ FinWaitIn(s)
  <2>1. SetsState(s, "FREE")
    BY <1>3 DEF LastAckIn, FinWaitIn, SetsState
  <2>4. Moved(s, "FREE")
    BY <1>0, <2>1, StateMoves
  <2>2. table[s].state # "ESTABLISHED"
    BY <1>3 DEF LastAckIn, FinWaitIn, Is
  <2>3. OpensNone /\ ClosesNone
    BY <2>2, <2>4 DEF Moved, OpensNone, ClosesNone, HttpOpen, Is
  <2> QED
    BY <1>3, <2>3 DEF LastAckIn, FinWaitIn, hist
<1>4. CASE AckIn(s)
  BY <1>0, <1>4, TxMoves DEF AckIn, hist
<1>5. ASSUME NEW c \in Chars, DataIn(s, c)
      PROVE  OpensNone /\ ClosesNone /\ UNCHANGED <<http_fifo, stale, gone, forgotten>>
  BY <1>0, <1>5, RxMoves DEF DataIn, hist
<1> QED
  BY <1>1, <1>2, <1>3, <1>4, <1>5 DEF Passes

\* xtcp_alloc takes a block that nobody has.
LEMMA SynMoves ==
    ASSUME TypeInv, NEW app \in App, SynIn(app)
    PROVE  /\ OpensNone /\ ClosesNone /\ UNCHANGED http_fifo
           /\ \E s \in Slot :
                /\ Is(s, "FREE") /\ ~ HttpOpen(s)' /\ forgotten' = forgotten \ {s}
                /\ stale' = stale \cup {i \in Waiting(http_fifo) : http_fifo.buffer[i] = s}
                /\ gone' = (gone \/ s = current)
<1>1. PICK s \in Slot, r \in XipOut :
        /\ Is(s, "FREE") /\ forgotten' = forgotten \ {s}
        /\ table' = [table EXCEPT ![s] =
                       [state |-> IF r = "OK" THEN "SYN_RECVD" ELSE "FREE",
                        app |-> app, rx |-> <<>>, tx |-> 0]]
        /\ stale' = stale \cup {i \in Waiting(http_fifo) : http_fifo.buffer[i] = s}
        /\ gone' = (gone \/ s = current)
  BY DEF SynIn, First, FreeSlots
<1>2. \A q \in Slot : IF q = s THEN table'[q].state # "ESTABLISHED"
                                ELSE table'[q] = table[q]
  BY <1>1 DEF TypeInv, TableInv
<1>3. OpensNone /\ ClosesNone /\ ~ HttpOpen(s)'
  BY <1>1, <1>2 DEF OpensNone, ClosesNone, HttpOpen, Is
<1> QED
  BY <1>1, <1>3 DEF SynIn

\* A connection that opens was not open before, and is the only one.
LEMMA OpenMoves ==
    ASSUME TypeInv, NEW s \in Slot, HttpConnected(s)
    PROVE  /\ ~ HttpOpen(s) /\ HttpOpen(s)'
           /\ \A q \in Slot \ {s} : HttpOpen(q)' <=> HttpOpen(q)
<1>1. SetsState(s, "ESTABLISHED") /\ TableInv
  BY DEF HttpConnected, Opened, TypeInv, SetsState
<1>2. Moved(s, "ESTABLISHED")
  BY <1>1, StateMoves
<1> QED
  BY <1>2 DEF Moved, HttpConnected, HttpOpen, Is

\* A close ends at most the connection that is being served.
LEMMA CloseMoves ==
    ASSUME TypeInv, http_close
    PROVE  /\ OpensNone
           /\ \A q \in Slot \ {current} : HttpOpen(q) => HttpOpen(q)'
           /\ \A q \in Slot : q = current /\ HttpOpen(q)' => q \in forgotten'
           /\ forgotten \subseteq forgotten'
           /\ current \in Slot /\ current' = NoBlock
           /\ pc' = "run" /\ UNCHANGED <<http_fifo, stale>> /\ gone' = FALSE
<1>1. /\ current \in Slot /\ TableInv /\ current' = NoBlock
      /\ pc' = "run" /\ UNCHANGED <<http_fifo, stale>> /\ gone' = FALSE
  BY DEF TypeInv, HttpInv, http_close
<1>2. CASE CloseFails
  BY <1>1, <1>2, NothingMoves DEF CloseFails, OpensNone, ClosesNone
<1>3. CASE CloseSends \/ CloseFrees
  <2>1. PICK state \in {"FIN_WAIT", "FREE"} : SetsState(current, state)
    BY <1>3 DEF CloseSends, CloseFrees, SetsState
  <2>2. Moved(current, state)
    BY <1>1, <2>1, StateMoves
  <2>3. /\ OpensNone
        /\ \A q \in Slot \ {current} : HttpOpen(q) => HttpOpen(q)'
    BY <1>1, <2>2 DEF Moved, OpensNone, HttpOpen, Is
  <2>5. \A q \in Slot : q = current => ~ HttpOpen(q)'
    BY <1>1, <2>1, <2>2 DEF Moved, HttpOpen, Is
  <2> QED
    BY <1>1, <1>3, <2>3, <2>5 DEF CloseSends, CloseFrees
<1> QED
  BY <1>2, <1>3 DEF http_close

\* All steps but these four only work or pass a frame.
LEMMA StepKinds ==
    ASSUME [Next]_vars
    PROVE  \/ Works \/ Dequeue \/ http_close
           \/ /\ UNCHANGED <<pc, current>>
              /\ \/ UNCHANGED <<table, http_fifo, timer, hist>>
                 \/ \E app \in App : SynIn(app)
                 \/ \E s \in Slot : HttpConnected(s) \/ Passes(s)
BY PollFrame DEF Next, xserver_http_run, Works, Frame, Passes, NoFrame
-----------------------------------------------------------------------------
(***************************************************************************)
(* No connection is forgotten.                                             *)
(***************************************************************************)
Waits(f, s) == \E i \in 1 .. f.count : Queue(f)[i] = s

LEMMA WaitsAfterIn ==
    ASSUME NEW f, FifoInv(f), ~ FifoFull(f), NEW s \in Slot
    PROVE  /\ Waits(FifoIn(f, s), s)
           /\ \A t : Waits(f, t) => Waits(FifoIn(f, s), t)
<1> DEFINE g == FifoIn(f, s)
           n == f.count
           q == Queue(f)
<1>1. q \in Seq(Slot) /\ Len(q) = n /\ n \in Nat
  BY QueueType
<1>2. g.count = n + 1 /\ Queue(g) = Append(q, s)
  BY FifoInQueue
<1> HIDE DEF g, q, n
<1>3. \A i \in 1 .. n : Queue(g)[i] = q[i] /\ i \in 1 .. g.count
  BY <1>1, <1>2
<1>4. Queue(g)[n + 1] = s /\ n + 1 \in 1 .. g.count
  BY <1>1, <1>2
<1> QED
  BY <1>3, <1>4 DEF Waits, g, q, n

LEMMA WaitsAfterOut ==
    ASSUME NEW f, FifoInv(f), f.count > 0
    PROVE  \A t : Waits(f, t) => t = f.buffer[f.tail] \/ Waits(FifoOut(f), t)
<1> DEFINE g == FifoOut(f)
           n == f.count
           q == Queue(f)
<1>1. q \in Seq(Slot) /\ Len(q) = n /\ n \in Nat /\ n > 0
  BY QueueType
<1>2. g.count = n - 1 /\ Queue(g) = Tail(q) /\ Head(q) = f.buffer[f.tail] /\ q # <<>>
  BY FifoOutQueue
<1> HIDE DEF g, q, n
<1>3. \A i \in 1 .. n - 1 : Tail(q)[i] = q[i + 1]
  BY <1>1, <1>2, HeadTailProperties
<1>4. ASSUME NEW i \in 1 .. n PROVE q[i] = f.buffer[f.tail] \/ Waits(g, q[i])
  <2>1. CASE i = 1
    BY <1>1, <1>2, <2>1
  <2>2. CASE i # 1
    <3>1. i - 1 \in 1 .. n - 1 /\ (i - 1) + 1 = i
      BY <1>1, <2>2
    <3>2. Queue(g)[i - 1] = q[i] /\ i - 1 \in 1 .. g.count
      BY <1>2, <1>3, <3>1
    <3> QED
      BY <3>2 DEF Waits
  <2> QED
    BY <2>1, <2>2
<1> QED
  BY <1>4 DEF Waits, g, q, n

Known(s) == s = current \/ s \in forgotten \/ Waits(http_fifo, s)

LEMMA NoneForgottenMeans == NoneForgotten <=> \A s \in Slot : HttpOpen(s) => Known(s)
BY DEF NoneForgotten, Known, Waits

LEMMA KnownStep ==
    ASSUME TypeInv, \A s \in Slot : HttpOpen(s) => Known(s), [Next]_vars,
           NEW s \in Slot, HttpOpen(s)'
    PROVE  Known(s)'
<1>1. CASE Works
  BY <1>1, WorkMoves DEF OpensNone, Known
<1>2. CASE Dequeue
  <2>1. /\ FifoInv(http_fifo) /\ http_fifo.count > 0
        /\ http_fifo' = FifoOut(http_fifo)
        /\ current = NoBlock /\ current' = http_fifo.buffer[http_fifo.tail]
        /\ forgotten' = forgotten /\ table' = table
    BY <1>2 DEF Dequeue, TypeInv, HttpInv
  <2>2. HttpOpen(s) /\ s # NoBlock
    BY <2>1, NothingMoves DEF OpensNone
  <2>3. s \in forgotten \/ Waits(http_fifo, s)
    BY <2>1, <2>2 DEF Known
  <2>4. Waits(http_fifo, s) => s = http_fifo.buffer[http_fifo.tail] \/ Waits(FifoOut(http_fifo), s)
    BY <2>1, WaitsAfterOut
  <2> QED
    BY <2>1, <2>3, <2>4 DEF Known
<1>3. CASE http_close
  BY <1>3, CloseMoves DEF OpensNone, Known
<1>4. CASE UNCHANGED <<pc, current, table, http_fifo, timer, hist>>
  BY <1>4, NothingMoves DEF OpensNone, Known, hist
<1>5. ASSUME current' = current, NEW app \in App, SynIn(app) PROVE Known(s)'
  BY <1>5, SynMoves DEF OpensNone, Known
<1>6. ASSUME current' = current, NEW t \in Slot, HttpConnected(t) PROVE Known(s)'
  <2>1. HttpOpen(s) \/ s = t
    BY <1>6, OpenMoves
  <2>2. CASE FifoFull(http_fifo)
    BY <1>6, <2>1, <2>2 DEF HttpConnected, Known
  <2>3. CASE ~ FifoFull(http_fifo)
    <3>1. http_fifo' = FifoIn(http_fifo, t) /\ forgotten' = forgotten /\ FifoInv(http_fifo)
      BY <1>6, <2>3 DEF HttpConnected, TypeInv
    <3>2. /\ Waits(FifoIn(http_fifo, t), t)
          /\ Waits(http_fifo, s) => Waits(FifoIn(http_fifo, t), s)
      BY <2>3, <3>1, WaitsAfterIn
    <3> QED
      BY <1>6, <2>1, <3>1, <3>2 DEF Known
  <2> QED
    BY <2>2, <2>3
<1>7. ASSUME current' = current, NEW t \in Slot, Passes(t) PROVE Known(s)'
  BY <1>7, PassMoves DEF OpensNone, Known
<1> QED
  BY <1>1, <1>2, <1>3, <1>4, <1>5, <1>6, <1>7, StepKinds

\* An open HTTP connection always waits in the queue or is being served,
\* unless the queue was full or its FIN could not be sent, for any number of
\* blocks and any size of the queue.
THEOREM NoneLost == Spec => []NoneForgotten
<1>1. Init => NoneForgotten
  BY DEF Init, NoneForgotten, HttpOpen, Is
<1>2. TypeInv /\ NoneForgotten /\ [Next]_vars => NoneForgotten'
  <2> SUFFICES ASSUME TypeInv, \A s \in Slot : HttpOpen(s) => Known(s), [Next]_vars
               PROVE  \A s \in Slot : HttpOpen(s)' => Known(s)'
    BY DEF NoneForgotten, Known, Waits
  <2> QED
    BY KnownStep
<1> QED
  BY <1>1, <1>2, InitTypes, NextTypes, PTL DEF Spec

\* Connections are served in the order in which they were established.
THEOREM ServedInOrder == Spec => FirstComeFirstServed
<1> DEFINE before == Queue(http_fifo)
           after  == before'
           Ordered == \/ after = before
                      \/ before # <<>> /\ after = Tail(before) /\ current' = Head(before)
                      \/ \E s \in Slot : /\ after = Append(before, s)
                                         /\ ~ HttpOpen(s) /\ HttpOpen(s)'
<1>1. TypeInv /\ [Next]_vars => Ordered
  <2> SUFFICES ASSUME TypeInv, [Next]_vars PROVE Ordered
    OBVIOUS
  <2>1. CASE http_fifo' = http_fifo
    BY <2>1 DEF Queue
  <2>2. CASE Dequeue
    BY <2>2, FifoOutQueue DEF Dequeue, TypeInv
  <2>3. ASSUME NEW s \in Slot, HttpConnected(s) PROVE Ordered
    <3>1. CASE ~ FifoFull(http_fifo)
      <4>1. after = Append(before, s)
        BY <2>3, <3>1, FifoInQueue DEF HttpConnected, TypeInv
      <4> QED
        BY <2>3, <4>1, OpenMoves
    <3> QED
      BY <2>1, <2>3, <3>1 DEF HttpConnected
  <2> QED
    BY <2>1, <2>2, <2>3, StepKinds, WorkMoves, CloseMoves, SynMoves, PassMoves
<1>2. Spec => []TypeInv
  BY InitTypes, NextTypes, PTL DEF Spec
<1>3. TypeInv /\ [Next]_vars =>
        [LET b == Queue(http_fifo)
             a == Queue(http_fifo)'
         IN  \/ a = b
             \/ /\ b # <<>> /\ a = Tail(b)
                /\ current' = Head(b)
             \/ \E s \in Slot : /\ a = Append(b, s)
                                /\ ~ HttpOpen(s) /\ HttpOpen(s)']_vars
  BY <1>1
<1> QED
  BY <1>2, <1>3, PTL DEF Spec, FirstComeFirstServed
-----------------------------------------------------------------------------
(***************************************************************************)
(* To each its own.  If the clients of the HTTP server never close first,  *)
(* an entry of the queue is good until it is served: what waits is open,   *)
(* waits once, and is not what is being served.                            *)
(***************************************************************************)
Patient == "http" \notin Leavers

Once(f) == \A i, j \in 1 .. f.count : Queue(f)[i] = Queue(f)[j] => i = j

Owned == /\ \A s \in Slot : Waits(http_fifo, s) => HttpOpen(s)
         /\ Once(http_fifo)
         /\ \A s \in Slot : s = current => HttpOpen(s) /\ ~ Waits(http_fifo, s)
         /\ stale = {} /\ ~ gone

LEMMA OnceAfterIn ==
    ASSUME NEW f, FifoInv(f), ~ FifoFull(f), NEW s \in Slot, Once(f), ~ Waits(f, s)
    PROVE  /\ Once(FifoIn(f, s))
           /\ \A t : Waits(FifoIn(f, s), t) => t = s \/ Waits(f, t)
<1> DEFINE g == FifoIn(f, s)
           n == f.count
           q == Queue(f)
           r == Queue(g)
<1>1. q \in Seq(Slot) /\ Len(q) = n /\ n \in Nat
  BY QueueType
<1>2. g.count = n + 1 /\ r = Append(q, s)
  BY FifoInQueue
<1>3. /\ \A i, j \in 1 .. n : q[i] = q[j] => i = j
      /\ \A i \in 1 .. n : q[i] # s /\ Waits(f, q[i])
  BY DEF Once, Waits
<1> HIDE DEF g, q, n, r
<1>4. \A i \in 1 .. n + 1 : r[i] = IF i = n + 1 THEN s ELSE q[i]
  BY <1>1, <1>2
<1>5. ASSUME NEW i \in 1 .. n + 1, NEW j \in 1 .. n + 1, r[i] = r[j] PROVE i = j
  <2>1. (i # n + 1 => i \in 1 .. n) /\ (j # n + 1 => j \in 1 .. n)
    BY <1>1
  <2> QED
    BY <1>3, <1>4, <1>5, <2>1
<1>6. ASSUME NEW i \in 1 .. n + 1 PROVE r[i] = s \/ Waits(f, r[i])
  <2>1. i # n + 1 => i \in 1 .. n
    BY <1>1
  <2> QED
    BY <1>3, <1>4, <2>1
<1> QED
  BY <1>2, <1>5, <1>6 DEF Once, Waits, g, r

LEMMA OnceAfterOut ==
    ASSUME NEW f, FifoInv(f), f.count > 0, Once(f)
    PROVE  /\ Once(FifoOut(f))
           /\ Waits(f, f.buffer[f.tail]) /\ ~ Waits(FifoOut(f), f.buffer[f.tail])
           /\ \A t : Waits(FifoOut(f), t) => Waits(f, t)
<1> DEFINE g == FifoOut(f)
           n == f.count
           q == Queue(f)
           r == Queue(g)
           h == f.buffer[f.tail]
<1>1. q \in Seq(Slot) /\ Len(q) = n /\ n \in Nat /\ n > 0
  BY QueueType
<1>2. g.count = n - 1 /\ r = Tail(q) /\ Head(q) = h /\ q # <<>>
  BY FifoOutQueue
<1>3. \A i, j \in 1 .. n : q[i] = q[j] => i = j
  BY DEF Once
<1>4. \A i \in 1 .. n : Waits(f, q[i])
  BY DEF Waits
<1> HIDE DEF g, q, n, r, h
<1>5. \A i \in 1 .. n - 1 : r[i] = q[i + 1] /\ i + 1 \in 1 .. n
  BY <1>1, <1>2, HeadTailProperties
<1>6. h = q[1] /\ 1 \in 1 .. n
  BY <1>1, <1>2
<1>7. \A i, j \in 1 .. n - 1 : r[i] = r[j] => i = j
  <2> SUFFICES ASSUME NEW i \in 1 .. n - 1, NEW j \in 1 .. n - 1, r[i] = r[j] PROVE i = j
    OBVIOUS
  <2>1. i + 1 = j + 1
    BY <1>3, <1>5
  <2> QED
    BY <2>1
<1>8. \A i \in 1 .. n - 1 : r[i] # h /\ Waits(f, r[i])
  <2> SUFFICES ASSUME NEW i \in 1 .. n - 1 PROVE r[i] # h /\ Waits(f, r[i])
    OBVIOUS
  <2>1. i + 1 # 1
    OBVIOUS
  <2> QED
    BY <1>3, <1>4, <1>5, <1>6, <2>1
<1>9. Waits(f, h)
  BY <1>4, <1>6
<1>10. Once(g)
  BY <1>2, <1>7 DEF Once, r
<1>11. ASSUME NEW t, Waits(g, t) PROVE t # h /\ Waits(f, t)
  <2>1. PICK i \in 1 .. n - 1 : r[i] = t
    BY <1>2, <1>11 DEF Waits, r
  <2> QED
    BY <1>8, <2>1
<1> QED
  BY <1>9, <1>10, <1>11 DEF g, h

\* What leaves the queue alone and closes nothing that waits or is served.
LEMMA OwnedKept ==
    ASSUME Owned, http_fifo' = http_fifo, current' = current, ClosesNone,
           stale' = stale, gone' => gone
    PROVE  Owned'
BY DEF Owned, ClosesNone, Waits, Once

LEMMA OwnedStep ==
    ASSUME Patient, TypeInv, Owned, [Next]_vars
    PROVE  Owned'
<1>0. FifoInv(http_fifo)
  BY DEF TypeInv
<1>1. CASE Works
  BY <1>1, WorkMoves, OwnedKept
<1>2. CASE Dequeue
  <2> DEFINE h == http_fifo.buffer[http_fifo.tail]
  <2>1. /\ http_fifo.count > 0 /\ http_fifo' = FifoOut(http_fifo) /\ current' = h
        /\ gone' = (http_fifo.tail \in stale) /\ stale' = stale \ {http_fifo.tail}
        /\ table' = table
    BY <1>2 DEF Dequeue
  <2>2. stale' = {} /\ ~ gone'
    <3>1. stale = {}
      BY DEF Owned
    <3>2. stale' = {} /\ http_fifo.tail \notin stale
      BY <2>1, <3>1
    <3>3. ~ gone'
      BY <2>1, <3>2
    <3> QED
      BY <3>2, <3>3
  <2>3. /\ Once(FifoOut(http_fifo)) /\ h \in Slot
        /\ Waits(http_fifo, h) /\ ~ Waits(FifoOut(http_fifo), h)
        /\ \A t : Waits(FifoOut(http_fifo), t) => Waits(http_fifo, t)
    BY <1>0, <2>1, OnceAfterOut, FifoOutQueue DEF Owned
  <2>4. Once(http_fifo)' /\ \A s : Waits(http_fifo, s)' <=> Waits(FifoOut(http_fifo), s)
    BY <2>1, <2>3 DEF Once, Waits
  <2>5. \A s \in Slot : HttpOpen(s) => HttpOpen(s)'
    BY <2>1, NothingMoves DEF ClosesNone
  <2> HIDE DEF h
  <2> QED
    BY <2>1, <2>2, <2>3, <2>4, <2>5 DEF Owned
<1>3. CASE http_close
  <2>1. /\ \A q \in Slot \ {current} : HttpOpen(q) => HttpOpen(q)'
        /\ current \in Slot /\ current' = NoBlock /\ http_fifo' = http_fifo
        /\ stale' = stale /\ ~ gone'
    BY <1>3, CloseMoves
  <2>2. \A s : Waits(http_fifo, s)' <=> Waits(http_fifo, s)
    BY <2>1 DEF Waits
  <2>3. Once(http_fifo)'
    BY <2>1 DEF Owned, Once
  <2> QED
    BY <2>1, <2>2, <2>3 DEF Owned
<1>4. CASE UNCHANGED <<pc, current, table, http_fifo, timer, hist>>
  BY <1>4, NothingMoves, OwnedKept DEF hist
<1>5. ASSUME current' = current, NEW app \in App, SynIn(app) PROVE Owned'
  <2>1. PICK s \in Slot :
          /\ Is(s, "FREE") /\ gone' = (gone \/ s = current)
          /\ stale' = stale \cup {i \in Waiting(http_fifo) : http_fifo.buffer[i] = s}
    BY <1>5, SynMoves
  <2>2. ~ HttpOpen(s)
    BY <2>1 DEF HttpOpen, Is
  <2>3. ~ Waits(http_fifo, s) /\ s # current
    BY <2>2 DEF Owned
  <2>4. \A i \in Waiting(http_fifo) : http_fifo.buffer[i] # s
    BY <1>0, <2>3, QueueType DEF Waiting, Waits, CellOf
  <2>5. stale' = stale /\ (gone' => gone)
    BY <2>1, <2>3, <2>4 DEF Owned
  <2> QED
    BY <1>5, <2>5, SynMoves, OwnedKept
<1>6. ASSUME current' = current, NEW s \in Slot, HttpConnected(s) PROVE Owned'
  <2>1. /\ ~ HttpOpen(s) /\ HttpOpen(s)'
        /\ \A q \in Slot \ {s} : HttpOpen(q)' <=> HttpOpen(q)
        /\ stale' = stale /\ gone' = gone
    BY <1>6, OpenMoves DEF HttpConnected
  <2>2. ~ Waits(http_fifo, s) /\ s # current
    BY <2>1 DEF Owned
  <2>3. CASE FifoFull(http_fifo)
    <3>1. http_fifo' = http_fifo /\ ClosesNone
      BY <1>6, <2>1, <2>3 DEF HttpConnected, ClosesNone
    <3> QED
      BY <1>6, <2>1, <3>1, OwnedKept
  <2>4. CASE ~ FifoFull(http_fifo)
    <3>1. http_fifo' = FifoIn(http_fifo, s)
      BY <1>6, <2>4 DEF HttpConnected
    <3>2. /\ Once(FifoIn(http_fifo, s))
          /\ \A t : Waits(FifoIn(http_fifo, s), t) => t = s \/ Waits(http_fifo, t)
      BY <1>0, <2>2, <2>4, OnceAfterIn DEF Owned
    <3>3. Once(http_fifo)' /\ \A t : Waits(http_fifo, t)' => t = s \/ Waits(http_fifo, t)
      BY <3>1, <3>2 DEF Once, Waits
    <3> QED
      BY <1>6, <2>1, <2>2, <3>3 DEF Owned
  <2> QED
    BY <2>3, <2>4
<1>7. ASSUME current' = current, NEW s \in Slot, Passes(s) PROVE Owned'
  BY <1>7, PassMoves, OwnedKept DEF Patient
<1> QED
  BY <1>1, <1>2, <1>3, <1>4, <1>5, <1>6, <1>7, StepKinds

LEMMA OwnedInvariance == Patient => (Spec => [](TypeInv /\ Owned))
<1>1. Init => Owned
  <2> SUFFICES ASSUME Init PROVE Owned
    OBVIOUS
  <2>1. http_fifo.count = 0 /\ current \notin Slot
    BY DEF Init, EmptyFifo
  <2> QED
    BY <2>1 DEF Init, Owned, Waits, Once
<1>2. Patient /\ TypeInv /\ Owned /\ [Next]_vars => Owned'
  BY OwnedStep
<1>3. ASSUME Patient PROVE Spec => [](TypeInv /\ Owned)
  <2>1. TypeInv /\ Owned /\ [Next]_vars => Owned'
    BY <1>2, <1>3
  <2> QED
    BY <1>1, <2>1, InitTypes, NextTypes, PTL DEF Spec
<1> QED
  BY <1>3

\* The HTTP server reads, writes and closes only the connection it took from
\* the queue, whatever happens in the polls nested in get_line and http_send.
\* A client that closes first breaks it (run http_stale_entry), hence the
\* hypothesis.
THEOREM OwnServed == Patient => (Spec => ServesOwn)
<1> SUFFICES ASSUME Patient PROVE Spec => ServesOwn
  OBVIOUS
<1>1. Spec => [](TypeInv /\ Owned)
  BY OwnedInvariance
<1>2. TypeInv /\ Owned => (stage = "app" /\ table' # table => ~ gone)
  BY DEF Owned
<1> QED
  BY <1>1, <1>2, PTL DEF ServesOwn
-----------------------------------------------------------------------------
\* Only the end of a client of the timer service takes a block from it, and
\* that ends the service.
LEMMA TimerStep ==
    ASSUME Patient, TypeInv, Owned, TimerTarget, [Next]_vars
    PROVE  TimerTarget'
<1>0. /\ TableInv /\ (timer_enabled => timer_tcp \in Slot /\ TimerBlock(timer_tcp))
  BY DEF TypeInv, TimerInv, TimerTarget, TimerBlock
<1>1. ASSUME KeepsTimer, timer_tcp' = timer_tcp, timer_enabled' => timer_enabled
      PROVE  TimerTarget'
  BY <1>0, <1>1 DEF KeepsTimer, TimerTarget, TimerBlock, Is
<1>2. CASE Works
  BY <1>1, <1>2, WorkMoves
<1>3. CASE Dequeue \/ UNCHANGED <<table, http_fifo, timer, hist>>
  BY <1>1, <1>3, NothingMoves DEF Dequeue, timer
<1>4. CASE http_close
  <2>1. current \in Slot /\ HttpOpen(current)
    BY <1>4, CloseMoves DEF Owned
  <2>2. KeepsTimer
    <3>1. CASE CloseFails
      BY <3>1, NothingMoves DEF CloseFails
    <3>2. CASE CloseSends \/ CloseFrees
      <4>1. PICK state : SetsState(current, state)
        BY <3>2 DEF CloseSends, CloseFrees, SetsState
      <4>2. Moved(current, state)
        BY <1>0, <2>1, <4>1, StateMoves
      <4> QED
        BY <2>1, <4>2 DEF Moved, HttpOpen, KeepsTimer, TimerBlock, Is
    <3> QED
      BY <1>4, <3>1, <3>2 DEF http_close
  <2> QED
    BY <1>1, <1>4, <2>2 DEF http_close, timer
<1>5. ASSUME NEW app \in App, SynIn(app) PROVE TimerTarget'
  <2>1. PICK s \in Slot, b \in Block : Is(s, "FREE") /\ table' = [table EXCEPT ![s] = b]
    <3>1. \A r : [state |-> IF r = "OK" THEN "SYN_RECVD" ELSE "FREE",
                  app |-> app, rx |-> <<>>, tx |-> 0] \in Block
      BY DEF Block
    <3> QED
      BY <1>5, <3>1 DEF SynIn, First, FreeSlots
  <2>2. KeepsTimer
    BY <1>0, <2>1 DEF TableInv, KeepsTimer, TimerBlock, Is
  <2> QED
    BY <1>1, <1>5, <2>2 DEF SynIn, timer
<1>6. ASSUME NEW s \in Slot, HttpConnected(s) PROVE TimerTarget'
  <2>1. SetsState(s, "ESTABLISHED") /\ table[s].app = "http"
    BY <1>6 DEF HttpConnected, Opened, SetsState
  <2>2. Moved(s, "ESTABLISHED")
    BY <1>0, <2>1, StateMoves
  <2>3. KeepsTimer
    BY <2>1, <2>2 DEF Moved, KeepsTimer, TimerBlock, Is
  <2> QED
    BY <1>1, <1>6, <2>3 DEF HttpConnected, timer
<1>7. ASSUME NEW s \in Slot, TimerConnected(s) PROVE TimerTarget'
  <2>1. SetsState(s, "ESTABLISHED") /\ table[s].app = "timer" /\ timer_tcp' = s
    BY <1>7 DEF TimerConnected, Opened, SetsState
  <2>2. Moved(s, "ESTABLISHED")
    BY <1>0, <2>1, StateMoves
  <2> QED
    BY <2>1, <2>2 DEF Moved, TimerTarget, Is
<1>8. ASSUME NEW s \in Slot, FinIn(s) PROVE TimerTarget'
  <2>1. SetsState(s, "LAST_ACK")
    BY <1>8 DEF FinIn, SetsState
  <2>2. Moved(s, "LAST_ACK")
    BY <1>0, <2>1, StateMoves
  <2>3. KeepsTimer
    BY <2>2 DEF Moved, KeepsTimer, TimerBlock, Is
  <2> QED
    BY <1>1, <1>8, <2>3 DEF FinIn, timer
<1>9. ASSUME NEW s \in Slot, LastAckIn(s) \/ FinWaitIn(s) PROVE TimerTarget'
  <2>1. SetsState(s, "FREE")
    BY <1>9 DEF LastAckIn, FinWaitIn, SetsState
  <2>2. Moved(s, "FREE")
    BY <1>0, <2>1, StateMoves
  <2>3. CASE FinWaitIn(s) \/ table[s].app # "timer"
    <3>1. KeepsTimer
      BY <2>2, <2>3 DEF Moved, FinWaitIn, KeepsTimer, TimerBlock, Is
    <3> QED
      BY <1>1, <1>9, <3>1 DEF LastAckIn, FinWaitIn, TimerOn, timer
  <2>4. CASE LastAckIn(s) /\ table[s].app = "timer"
    BY <2>4 DEF LastAckIn, TimerOn, TimerTarget
  <2> QED
    BY <1>9, <2>3, <2>4
<1>10. ASSUME NEW s \in Slot, AckIn(s) \/ \E c \in Chars : DataIn(s, c) PROVE TimerTarget'
  BY <1>0, <1>1, <1>10, RxMoves, TxMoves DEF AckIn, DataIn, timer
<1> QED
  BY <1>2, <1>3, <1>4, <1>5, <1>6, <1>7, <1>8, <1>9, <1>10, StepKinds DEF Passes

\* The timer service writes to a client of its own, and never into a block
\* that was given to an HTTP connection, although timer_poll does not look
\* at the block before it writes.
THEOREM TimerKeepsItsBlock == Patient => (Spec => []TimerTarget)
<1> SUFFICES ASSUME Patient PROVE Spec => []TimerTarget
  OBVIOUS
<1>1. Init => TimerTarget
  BY DEF Init, TimerTarget
<1>2. TypeInv /\ Owned /\ TimerTarget /\ [Next]_vars => TimerTarget'
  BY TimerStep
<1>3. Spec => [](TypeInv /\ Owned)
  BY OwnedInvariance
<1> QED
  BY <1>1, <1>2, <1>3, PTL DEF Spec
=============================================================================
