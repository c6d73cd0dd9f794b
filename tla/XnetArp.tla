------------------------------ MODULE XnetArp ------------------------------
(***************************************************************************)
(* The ARP layer (xnet_arp.c): a table of one entry, which IP asks for the *)
(* hardware address of a neighbour (xarp_resolve), which ARP packets fill  *)
(* (xarp_in), and which a timer ages (xarp_poll).  An entry in use is      *)
(* dropped unless somebody refreshes it: it is good for OkTmo periods of   *)
(* the timer, then it is asked for again, every PendingTmo periods, until  *)
(* an answer comes or the retries are used up.                             *)
(*                                                                         *)
(* Time passes between the calls of xarp_poll, and the main loop may be    *)
(* late: behind is how many seconds the clock is ahead of arp_timer.  A    *)
(* poll that is several seconds late counts as one period.                 *)
(***************************************************************************)
EXTENDS Integers, FiniteSets

CONSTANTS
    Ip, Mac,       \* neighbours, and the hardware addresses they may have
    NoIp, NoMac,   \* the cleared fields of arp_entry
    OkTmo,         \* XARP_CFG_ENTRY_OK_TMO
    PendingTmo,    \* XARP_CFG_ENTRY_PENDING_TMO
    MaxRetries,    \* XARP_CFG_MAX_RETRIES
    CounterMax,    \* the largest retry_cnt, which is a uint8_t
    Period,        \* XARP_TIMER_PERIOD
    MaxBehind      \* bound on how late a poll is

ASSUME ArpAssumption == /\ NoIp \notin Ip /\ NoMac \notin Mac
                        /\ {OkTmo, PendingTmo, Period} \subseteq Nat \ {0}
                        /\ MaxRetries \in Nat
                        /\ CounterMax \in Nat /\ MaxRetries <= CounterMax
                        /\ MaxBehind \in Nat /\ Period <= MaxBehind

VARIABLES
    arp_entry,   \* the table
    behind,      \* the clock minus arp_timer
    sent,        \* the ARP packets of the last step
    answer,      \* what the last call of xarp_resolve returned
    asked,       \* history: requests xarp_poll has sent since the last update,
                 \* up to MaxRetries + 2
    age,         \* history: periods since the last update, up to OkTmo
    claimed      \* history: the hardware address each neighbour last told us

vars == <<arp_entry, behind, sent, answer, asked, age, claimed>>

State == {"FREE", "OK", "PENDING"}

Entry == [ state : State, ipaddr : Ip \cup {NoIp}, macaddr : Mac \cup {NoMac},
           tmo : 0 .. OkTmo + PendingTmo, retry_cnt : 0 .. CounterMax ]

Packet == [opcode : {"REQUEST", "REPLY"}, ip : Ip, mac : Mac]

Request(ip)      == [kind |-> "request", ip |-> ip]
Response(packet) == [kind |-> "response", ip |-> packet.ip, mac |-> packet.mac]

NoAnswer == [kind |-> "none"]

\* xarp_init, on a variable that C has cleared.
Init == /\ arp_entry = [ state |-> "FREE", ipaddr |-> NoIp, macaddr |-> NoMac,
                         tmo |-> 0, retry_cnt |-> 0 ]
        /\ behind = 0
        /\ sent = {}
        /\ answer = NoAnswer
        /\ asked = 0
        /\ age = 0
        /\ claimed = [ip \in Ip |-> NoMac]

\* One second passes.
Tick == /\ behind < MaxBehind
        /\ behind' = behind + 1
        /\ sent' = {} /\ answer' = NoAnswer
        /\ UNCHANGED <<arp_entry, asked, age, claimed>>
-----------------------------------------------------------------------------
\* Wrong: an entry that waits for its answer is used as well.
Usable_Pending(ip) == arp_entry.state # "FREE" /\ arp_entry.ipaddr = ip

Usable(ip) == arp_entry.state = "OK" /\ arp_entry.ipaddr = ip

xarp_resolve(ip) ==
    /\ IF Usable(ip)
         THEN /\ answer' = [kind |-> "ok", ip |-> ip, mac |-> arp_entry.macaddr]
              /\ sent' = {}
         ELSE /\ answer' = NoAnswer
              /\ sent' = {Request(ip)}
    /\ UNCHANGED <<arp_entry, behind, asked, age, claimed>>

\* Wrong: the retries of the last round are not given back.
Updated_KeepsCount(e, packet) ==
    [e EXCEPT !.state = "OK", !.ipaddr = packet.ip, !.macaddr = packet.mac,
              !.tmo = OkTmo]

\* Wrong: the hardware address is taken over only into a free entry.
Updated_KeepsMac(e, packet) ==
    [state |-> "OK", ipaddr |-> packet.ip,
     macaddr |-> IF e.state = "FREE" THEN packet.mac ELSE e.macaddr,
     tmo |-> OkTmo, retry_cnt |-> MaxRetries]

\* update_arp_entry: the one entry changes to the sender, whoever it was for.
Updated(e, packet) == [state |-> "OK", ipaddr |-> packet.ip, macaddr |-> packet.mac,
                       tmo |-> OkTmo, retry_cnt |-> MaxRetries]

\* A valid request or reply for the address of this host; any other packet
\* is dropped and changes nothing.
xarp_in(packet) ==
    /\ arp_entry' = Updated(arp_entry, packet)
    /\ sent' = IF packet.opcode = "REQUEST" THEN {Response(packet)} ELSE {}
    /\ asked' = 0
    /\ age' = 0
    /\ claimed' = [claimed EXCEPT ![packet.ip] = packet.mac]
    /\ answer' = NoAnswer
    /\ UNCHANGED behind
-----------------------------------------------------------------------------
(***************************************************************************)
(* xarp_poll.  xnet_check_tmo restarts the timer at the present time.      *)
(***************************************************************************)
Due == behind >= Period

Counted == [arp_entry EXCEPT !.tmo = @ - 1]

\* The history counters stop at the first value that no property tells
\* apart from the ones above it.
OneMore(n, bound) == IF n < bound THEN n + 1 ELSE n

\* The entry is used up, and asked for again; or only aged.
Ask(e) == /\ arp_entry' = e
          /\ sent' = {Request(e.ipaddr)}
          /\ asked' = OneMore(asked, MaxRetries + 2)
          /\ age' = OneMore(age, OkTmo)

Age == /\ arp_entry' = Counted
       /\ sent' = {}
       /\ age' = OneMore(age, OkTmo)
       /\ UNCHANGED asked

\* Wrong: the timeout of the entry is not started again.
PollOk_KeepsTmo ==
    /\ arp_entry.state = "OK"
    /\ \/ Counted.tmo # 0 /\ Age
       \/ /\ Counted.tmo = 0
          /\ Ask([Counted EXCEPT !.state = "PENDING"])

PollOk ==
    /\ arp_entry.state = "OK"
    /\ \/ Counted.tmo # 0 /\ Age
       \/ /\ Counted.tmo = 0
          /\ Ask([Counted EXCEPT !.state = "PENDING", !.tmo = PendingTmo])

\* retry_cnt-- == 0 tests the old value and stores the new one.
Decremented(n) == IF n = 0 THEN CounterMax ELSE n - 1

\* Wrong: the retries are not counted.
PollPending_NoCount ==
    /\ arp_entry.state = "PENDING"
    /\ \/ Counted.tmo # 0 /\ Age
       \/ /\ Counted.tmo = 0
          /\ IF arp_entry.retry_cnt = 0
               THEN /\ arp_entry' = [Counted EXCEPT !.state = "FREE"]
                    /\ sent' = {} /\ age' = OneMore(age, OkTmo) /\ UNCHANGED asked
               ELSE Ask([Counted EXCEPT !.tmo = PendingTmo])

PollPending ==
    /\ arp_entry.state = "PENDING"
    /\ \/ Counted.tmo # 0 /\ Age
       \/ /\ Counted.tmo = 0
          /\ LET e == [Counted EXCEPT !.retry_cnt = Decremented(@)]
             IN  IF arp_entry.retry_cnt = 0
                   THEN /\ arp_entry' = [e EXCEPT !.state = "FREE"]
                        /\ sent' = {} /\ age' = OneMore(age, OkTmo) /\ UNCHANGED asked
                   ELSE Ask([e EXCEPT !.tmo = PendingTmo])

PollFree == /\ arp_entry.state = "FREE"
            /\ sent' = {}
            /\ UNCHANGED <<arp_entry, asked, age>>

xarp_poll == /\ Due
             /\ behind' = 0
             /\ PollOk \/ PollPending \/ PollFree
             /\ answer' = NoAnswer
             /\ UNCHANGED claimed

Next == \/ Tick
        \/ xarp_poll
        \/ \E ip \in Ip : xarp_resolve(ip)
        \/ \E packet \in Packet : xarp_in(packet)

Spec == Init /\ [][Next]_vars

\* The main loop polls for ever and the clock goes on; nobody has to call
\* xarp_resolve and no neighbour has to answer.
FairSpec == Spec /\ WF_vars(Tick) /\ WF_vars(xarp_poll)
-----------------------------------------------------------------------------
(***************************************************************************)
(* Properties.                                                             *)
(***************************************************************************)
\* Every variable has its type; an entry in use has a timeout that is not 0,
\* so that tmo-- (a uint16_t) does not wrap.
TypeOK == /\ arp_entry \in Entry
          /\ arp_entry.state # "FREE" => arp_entry.tmo > 0 /\ arp_entry.ipaddr # NoIp
          /\ behind \in 0 .. MaxBehind
          /\ sent \subseteq [kind : {"request"}, ip : Ip]
                      \cup [kind : {"response"}, ip : Ip, mac : Mac]
          /\ answer \in {NoAnswer} \cup [kind : {"ok"}, ip : Ip, mac : Mac]
          /\ asked \in Nat /\ age \in Nat
          /\ claimed \in [Ip -> Mac \cup {NoMac}]

\* The retries are neither lost nor repeated: an entry that expires is asked
\* for once, then MaxRetries times more, and is given up only after the
\* last of these requests, whatever ARP traffic came before (xarp_poll).
RetryBudget ==
    /\ arp_entry.state = "OK" => asked = 0 /\ arp_entry.retry_cnt = MaxRetries
    /\ arp_entry.state = "PENDING" => asked + arp_entry.retry_cnt = MaxRetries + 1
    /\ arp_entry.state = "FREE" /\ arp_entry.ipaddr # NoIp => asked = MaxRetries + 1

\* An address is given to IP only while it is fresh: its neighbour has
\* confirmed it within the last OkTmo periods, and has not told us another
\* one since (xarp_resolve against xarp_in and xarp_poll).
AnswerFresh == answer # NoAnswer => /\ age < OkTmo
                                    /\ answer.mac = claimed[answer.ip]

\* No entry stays for ever without a sign of its neighbour: again and again
\* the entry is refreshed, or it is free.
EntrySettles == []<>(arp_entry.state = "FREE" \/ age = 0)
=============================================================================
