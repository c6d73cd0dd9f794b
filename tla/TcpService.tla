----------------------------- MODULE TcpService -----------------------------
(***************************************************************************)
(* What the TCP layer promises an application about the life of a control  *)
(* block, whatever the network does: a handle is the application's own, a  *)
(* connection is reported to the application that listens for it, once,    *)
(* before anything else is reported of it; data is reported only while the *)
(* connection is open on both sides; its end is reported only after the    *)
(* peer has closed, and is the last report of it.                          *)
(*                                                                         *)
(* Segments, sequence numbers, buffers and ports are not visible here.     *)
(***************************************************************************)
CONSTANTS Slot, App, NoApp

VARIABLES
    phase,    \* what a block is to the application
    owner,    \* the application its reports go to
    report    \* the reports of the last step

Phase == {"unused", "handle", "pending", "open", "userClosed", "peerClosed"}

svcVars == <<phase, owner, report>>

Init == /\ phase = [s \in Slot |-> "unused"]
        /\ owner = [s \in Slot |-> NoApp]
        /\ report = {}

Become(s, p) == phase' = [phase EXCEPT ![s] = p]

Tell(s, e) == report' = {[handler |-> owner[s], tcp |-> s, event |-> e]}

\* A block changes hands only while nobody uses it.
Open(s) == /\ phase[s] = "unused"
           /\ \E app \in App : owner' = [owner EXCEPT ![s] = app]
           /\ Become(s, "handle")
           /\ report' = {}

\* A connection attempt belongs to an application that holds a handle.
Offer(s) == /\ phase[s] = "unused"
            /\ \E h \in Slot : /\ phase[h] = "handle"
                               /\ owner' = [owner EXCEPT ![s] = owner[h]]
            /\ phase' \in {phase, [phase EXCEPT ![s] = "pending"]}
            /\ report' = {}

Connect(s) == /\ phase[s] = "pending" /\ Become(s, "open")
              /\ Tell(s, "CONNECTED") /\ UNCHANGED owner

Deliver(s) == /\ phase[s] = "open" /\ UNCHANGED <<phase, owner>>
              /\ Tell(s, "DATA_RECV")

PeerCloses(s) == /\ phase[s] = "open" /\ Become(s, "peerClosed")
                 /\ report' = {} /\ UNCHANGED owner

UserCloses(s) == /\ phase[s] = "open" /\ Become(s, "userClosed")
                 /\ report' = {} /\ UNCHANGED owner

Finish(s) == /\ phase[s] = "peerClosed" /\ Become(s, "unused")
             /\ Tell(s, "CLOSED") /\ UNCHANGED owner

\* The application gives a block back, or its own close is complete.
Release(s) == /\ phase[s] \in {"handle", "userClosed", "peerClosed"}
              /\ Become(s, "unused")
              /\ report' = {} /\ UNCHANGED owner

Quiet == report' = {} /\ UNCHANGED <<phase, owner>>

Next == \/ Quiet
        \/ \E s \in Slot : \/ Open(s)       \/ Offer(s)      \/ Connect(s)
                           \/ Deliver(s)    \/ PeerCloses(s) \/ UserCloses(s)
                           \/ Finish(s)     \/ Release(s)

Spec == Init /\ [][Next]_svcVars
=============================================================================
