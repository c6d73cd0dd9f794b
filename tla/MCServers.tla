----------------------------- MODULE MCServers -----------------------------
(***************************************************************************)
(* The answer of the HTTP server in the instances: a header, and a file    *)
(* that does not fit into the send buffer at once.                         *)
(***************************************************************************)
EXTENDS Servers

HeaderAndFile == {<<1, 2>>}

\* For the safety run: what is left out is not read before it is written.
\* That is the cells of the queue nobody waits in, what xtcp_alloc overwrites
\* in a free block the HTTP server has no pointer to, timer_tcp while the
\* timer service is off, and history that no property of the run reads.
Pointed == {current} \cup {Queue(http_fifo)[i] : i \in 1 .. http_fifo.count}

Contents(s) == IF Is(s, "FREE") /\ s \notin Pointed
                 THEN <<>>
                 ELSE <<table[s].app, table[s].rx, table[s].tx>>

Significant == <<[s \in Slot |-> <<table[s].state, Contents(s)>>],
                 http_fifo.front, http_fifo.tail, Queue(http_fifo),
                 stage, http, timer_enabled,
                 IF timer_enabled THEN timer_tcp ELSE NoBlock,
                 {s \in forgotten : HttpOpen(s)}>>
=============================================================================
