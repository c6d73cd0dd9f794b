------------------------------ MODULE XnetUdp ------------------------------
(***************************************************************************)
(* The UDP socket table (xnet_udp.c) and the way an IP packet finds its    *)
(* socket (the UDP case of xip_in).  Sockets are opened, bound and closed  *)
(* by applications; datagrams arrive between any two of these calls.  A    *)
(* datagram that passes the size and checksum tests is either handed to    *)
(* one handler or answered with ICMP "port unreachable".                   *)
(***************************************************************************)
EXTENDS Integers

CONSTANTS
    MaxUdp,       \* XUDP_CFG_MAX_UDP, the size of the table
    Port,         \* ports, all different from 0
    Handler,      \* xudp_handler_t values
    NoHandler     \* the null handler

ASSUME UdpAssumption == /\ MaxUdp \in Nat
                        /\ Port \subseteq Nat \ {0}
                        /\ NoHandler \notin Handler

Slot == 1 .. MaxUdp

Socket == [ state : {"FREE", "USED"}, local_port : Port \cup {0},
            handler : Handler \cup {NoHandler} ]

NoPort == 0

VARIABLES
    udp_socket,   \* the table of sockets
    given         \* what became of the last datagram that arrived

vars == <<udp_socket, given>>

Nothing == [kind |-> "nothing"]

\* xudp_init clears the table.
Init == /\ udp_socket = [s \in Slot |-> [ state |-> "FREE", local_port |-> 0,
                                          handler |-> NoHandler ]]
        /\ given = Nothing

First(s, S) == s \in S /\ \A r \in S : s <= r

FreeSlots == {s \in Slot : udp_socket[s].state = "FREE"}

\* Wrong: a closed socket is found as well.
Found_FreeToo(port) == {s \in Slot : udp_socket[s].local_port = port}

\* xudp_find takes the first of these.
Found(port) == {s \in Slot : /\ udp_socket[s].state = "USED"
                             /\ udp_socket[s].local_port = port}

\* Wrong: only the sockets before this one are compared.
Bindable_EarlierOnly(s, port) ==
    \A r \in Slot : r < s => udp_socket[r].local_port # port

\* A socket that is free keeps the port it had, and counts.
Bindable(s, port) == \A r \in Slot \ {s} : udp_socket[r].local_port # port

\* Wrong: the handler of the previous user stays.
xudp_open_KeepsHandler(h) ==
    \E s \in Slot :
      /\ First(s, FreeSlots)
      /\ udp_socket' = [udp_socket EXCEPT ![s].state = "USED", ![s].local_port = 0]
      /\ given' = Nothing

xudp_open(h) ==
    \E s \in Slot :
      /\ First(s, FreeSlots)
      /\ udp_socket' = [udp_socket EXCEPT ![s] =
                          [state |-> "USED", local_port |-> 0, handler |-> h]]
      /\ given' = Nothing

\* Only the application that has opened a socket binds and closes it.
xudp_close(s) ==
    /\ udp_socket[s].state = "USED"
    /\ udp_socket' = [udp_socket EXCEPT ![s].state = "FREE"]
    /\ given' = Nothing

xudp_bind(s, port) ==
    /\ udp_socket[s].state = "USED"
    /\ Bindable(s, port)
    /\ udp_socket' = [udp_socket EXCEPT ![s].local_port = port]
    /\ given' = Nothing

\* xip_in and xudp_in: a datagram for port; one that xudp_in drops (its size
\* or its checksum is wrong) reaches no handler.
Deliver(port, valid) ==
    \E s \in Slot :
      /\ First(s, Found(port))
      /\ given' = IF valid /\ udp_socket[s].handler # NoHandler
                    THEN [ kind |-> "handler", port |-> port,
                           handler |-> udp_socket[s].handler ]
                    ELSE Nothing
      /\ UNCHANGED udp_socket

Unreachable(port) ==
    /\ Found(port) = {}
    /\ given' = [kind |-> "unreachable", port |-> port]
    /\ UNCHANGED udp_socket

DatagramIn(port) == (\E valid \in BOOLEAN : Deliver(port, valid)) \/ Unreachable(port)

Next == \/ \E h \in Handler : xudp_open(h)
        \/ \E s \in Slot : xudp_close(s)
        \/ \E s \in Slot, port \in Port : xudp_bind(s, port)
        \/ \E port \in Port : DatagramIn(port)

Spec == Init /\ [][Next]_vars
-----------------------------------------------------------------------------
(***************************************************************************)
(* Properties.                                                             *)
(***************************************************************************)
\* Every variable has its type; a socket in use has a handler, so that the
\* null test of xudp_in never loses a datagram.
TypeOK ==
    /\ udp_socket \in [Slot -> Socket]
    /\ \A s \in Slot : udp_socket[s].state = "USED" => udp_socket[s].handler # NoHandler
    /\ given \in {Nothing} \cup [kind : {"unreachable"}, port : Port]
                  \cup [kind : {"handler"}, port : Port, handler : Handler]

\* xudp_bind keeps the ports apart: no two sockets in use have the same one,
\* so that xudp_find, which stops at the first, hides no socket.
PortUnique == \A r, s \in Slot :
    /\ udp_socket[r].state = "USED" /\ udp_socket[s].state = "USED"
    /\ udp_socket[r].local_port = udp_socket[s].local_port
    /\ udp_socket[s].local_port # NoPort
    => r = s

\* Who holds a port: the socket in use that is bound to it.
Bound(p) == {s \in Slot : udp_socket[s].state = "USED" /\ udp_socket[s].local_port = p}

HolderOf(p) == IF Bound(p) = {} THEN NoHandler
                                ELSE udp_socket[CHOOSE s \in Bound(p) : TRUE].handler

Service == INSTANCE UdpService WITH holder <- [p \in Port |-> HolderOf(p)]

\* The UDP layer implements the service: a datagram goes to the handler that
\* holds its port now, never to one that has closed its socket or to the next
\* user of the same table entry, and is called unreachable only when no
\* socket holds the port.
ServiceSpec == Service!Spec
=============================================================================
