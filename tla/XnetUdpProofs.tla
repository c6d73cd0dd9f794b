--------------------------- MODULE XnetUdpProofs ---------------------------
(***************************************************************************)
(* Theorems about XnetUdp, for every table size and every set of ports;    *)
(* the last one is that it implements the abstract service UdpService.     *)
(*                                                                         *)
(* PortUnique follows from a stronger fact that is inductive: xudp_bind    *)
(* compares the port with that of every other table entry, in use or not,  *)
(* so that no two entries at all ever have the same port.                  *)
(***************************************************************************)
EXTENDS XnetUdp, TLAPS

PortsApart == \A r, s \in Slot :
    udp_socket[r].local_port = udp_socket[s].local_port
      /\ udp_socket[s].local_port # 0 => r = s

IInv == TypeOK /\ PortsApart

LEMMA InitInv == Init => IInv
BY DEF Init, IInv, TypeOK, PortsApart, Socket

LEMMA NextKeeps == IInv /\ [Next]_vars => IInv'
<1> SUFFICES ASSUME IInv, [Next]_vars PROVE IInv'
  OBVIOUS
<1> USE DEF IInv, TypeOK, PortsApart
<1>1. ASSUME NEW h \in Handler, xudp_open(h) PROVE IInv'
  <2>1. h # NoHandler
    BY UdpAssumption
  <2> QED
    BY <1>1, <2>1 DEF xudp_open, First, FreeSlots, Socket
<1>2. ASSUME NEW s \in Slot, xudp_close(s) PROVE IInv'
  BY <1>2 DEF xudp_close, Socket
<1>3. ASSUME NEW s \in Slot, NEW port \in Port, xudp_bind(s, port) PROVE IInv'
  BY <1>3, UdpAssumption DEF xudp_bind, Bindable, Socket
<1>4. ASSUME NEW port \in Port, DatagramIn(port) PROVE IInv'
  BY <1>4 DEF DatagramIn, Deliver, Unreachable, Socket
<1>5. CASE UNCHANGED vars
  BY <1>5 DEF vars
<1> QED
  BY <1>1, <1>2, <1>3, <1>4, <1>5 DEF Next

LEMMA Invariance == Spec => []IInv
BY InitInv, NextKeeps, PTL DEF Spec

\* A socket in use has a handler, and every variable has its type.
THEOREM TypeCorrect == Spec => []TypeOK
<1>1. IInv => TypeOK
  BY DEF IInv
<1> QED
  BY <1>1, Invariance, PTL

\* Two sockets in use never share a port, whatever the order of xudp_open,
\* xudp_bind and xudp_close.
THEOREM OneSocketPerPort == Spec => []PortUnique
<1>1. IInv => PortUnique
  BY DEF IInv, PortsApart, PortUnique, NoPort
<1> QED
  BY <1>1, Invariance, PTL
-----------------------------------------------------------------------------
(***************************************************************************)
(* The refinement of UdpService.  HolderOf chooses among the sockets bound *)
(* to a port; that there is at most one makes the choice the right one.    *)
(* The lemmas speak of any table, so as to serve for the one after a step. *)
(***************************************************************************)
HolderIn(table, p) ==
    LET bound == {s \in Slot : table[s].state = "USED" /\ table[s].local_port = p}
    IN  IF bound = {} THEN NoHandler ELSE table[CHOOSE s \in bound : TRUE].handler

Apart(table) == \A r, s \in Slot :
    table[r].local_port = table[s].local_port /\ table[s].local_port # 0 => r = s

Holders == [p \in Port |-> HolderOf(p)]

LEMMA HoldersIn ==
    /\ Holders = [p \in Port |-> HolderIn(udp_socket, p)]
    /\ Holders' = [p \in Port |-> HolderIn(udp_socket', p)]
BY DEF Holders, HolderOf, Bound, HolderIn

LEMMA OneHolder ==
    ASSUME NEW table, Apart(table), NEW p \in Port, NEW s \in Slot,
           table[s].state = "USED", table[s].local_port = p
    PROVE  HolderIn(table, p) = table[s].handler
<1> DEFINE bound == {q \in Slot : table[q].state = "USED" /\ table[q].local_port = p}
<1>1. p # 0
  BY UdpAssumption
<1>2. bound = {s}
  BY <1>1 DEF Apart
<1>3. (CHOOSE q \in bound : TRUE) = s
  BY <1>2
<1> QED
  BY <1>2, <1>3 DEF HolderIn

LEMMA NoHolder ==
    ASSUME NEW table, NEW p,
           \A s \in Slot : table[s].state = "USED" => table[s].local_port # p
    PROVE  HolderIn(table, p) = NoHandler
BY DEF HolderIn

\* What holds a port depends only on the sockets in use that are bound to it.
LEMMA SameHolder ==
    ASSUME NEW t, NEW u, Apart(t), Apart(u), NEW p \in Port,
           \A s \in Slot :
             \/ u[s] = t[s]
             \/ /\ ~(u[s].state = "USED" /\ u[s].local_port = p)
                /\ ~(t[s].state = "USED" /\ t[s].local_port = p)
    PROVE  HolderIn(u, p) = HolderIn(t, p)
<1>1. CASE \E s \in Slot : t[s].state = "USED" /\ t[s].local_port = p
  <2>1. PICK s \in Slot : t[s].state = "USED" /\ t[s].local_port = p
    BY <1>1
  <2> QED
    BY <2>1, OneHolder
<1>2. CASE ~\E s \in Slot : t[s].state = "USED" /\ t[s].local_port = p
  BY <1>2, NoHolder
<1> QED
  BY <1>1, <1>2

LEMMA OpenImplements ==
    ASSUME IInv, IInv', NEW h \in Handler, xudp_open(h)
    PROVE  Service!Next
<1>1. PICK s \in Slot :
        /\ udp_socket[s].state = "FREE"
        /\ udp_socket' = [udp_socket EXCEPT ![s] =
                            [state |-> "USED", local_port |-> 0, handler |-> h]]
        /\ given' = Nothing
  BY DEF xudp_open, First, FreeSlots
<1>2. Apart(udp_socket) /\ Apart(udp_socket') /\ udp_socket \in [Slot -> Socket]
  BY DEF IInv, PortsApart, Apart, TypeOK
<1>3. \A p \in Port : HolderIn(udp_socket', p) = HolderIn(udp_socket, p)
  <2> SUFFICES ASSUME NEW p \in Port
               PROVE  HolderIn(udp_socket', p) = HolderIn(udp_socket, p)
    OBVIOUS
  <2>1. p # 0
    BY UdpAssumption
  <2>2. \A q \in Slot : \/ udp_socket'[q] = udp_socket[q]
                        \/ /\ udp_socket'[q].local_port = 0
                           /\ udp_socket[q].state = "FREE"
    BY <1>1, <1>2
  <2> QED
    BY <1>2, <2>1, <2>2, SameHolder
<1>4. Holders' = Holders
  BY <1>3, HoldersIn
<1> QED
  BY <1>1, <1>4 DEF Service!Next, Service!Quiet, Service!Nothing, Nothing, Holders

LEMMA CloseImplements ==
    ASSUME IInv, IInv', NEW s \in Slot, xudp_close(s)
    PROVE  Service!Next
<1>1. /\ udp_socket[s].state = "USED" /\ given' = Nothing
      /\ udp_socket' = [udp_socket EXCEPT ![s].state = "FREE"]
  BY DEF xudp_close
<1>2. Apart(udp_socket) /\ Apart(udp_socket') /\ udp_socket \in [Slot -> Socket]
  BY DEF IInv, PortsApart, Apart, TypeOK
<1>3. /\ udp_socket'[s].state = "FREE"
      /\ \A q \in Slot \ {s} : udp_socket'[q] = udp_socket[q]
  BY <1>1, <1>2 DEF Socket
<1> DEFINE p == udp_socket[s].local_port
<1>4. ASSUME NEW q \in Port, q # p
      PROVE  HolderIn(udp_socket', q) = HolderIn(udp_socket, q)
  <2>1. \A r \in Slot : \/ udp_socket'[r] = udp_socket[r]
                        \/ udp_socket'[r].state = "FREE" /\ udp_socket[r].local_port # q
    BY <1>3, <1>4
  <2> QED
    BY <1>2, <2>1, SameHolder
<1>5. CASE p = 0
  <2>1. \A q \in Port : q # p
    BY <1>5, UdpAssumption
  <2>2. Holders' = Holders
    BY <1>4, <2>1, HoldersIn
  <2> QED
    BY <1>1, <2>2 DEF Service!Next, Service!Quiet, Service!Nothing, Nothing, Holders
<1>6. CASE p # 0
  <2>1. p \in Port
    BY <1>2, <1>6 DEF Socket
  <2>2. HolderIn(udp_socket', p) = NoHandler
    BY <1>2, <1>3, <1>6, NoHolder DEF Apart
  <2> HIDE DEF p
  <2>3. Holders' = [Holders EXCEPT ![p] = NoHandler]
    BY <1>4, <2>1, <2>2, HoldersIn
  <2>4. Service!Release(p)
    BY <1>1, <2>3 DEF Service!Release, Service!Nothing, Nothing, Holders
  <2> QED
    BY <2>1, <2>4 DEF Service!Next
<1> QED
  BY <1>5, <1>6

LEMMA BindImplements ==
    ASSUME IInv, IInv', NEW s \in Slot, NEW port \in Port, xudp_bind(s, port)
    PROVE  Service!Next
<1> DEFINE p == udp_socket[s].local_port
           h == udp_socket[s].handler
<1>1. /\ udp_socket[s].state = "USED" /\ given' = Nothing /\ Bindable(s, port)
      /\ udp_socket' = [udp_socket EXCEPT ![s].local_port = port]
  BY DEF xudp_bind
<1>2. /\ Apart(udp_socket) /\ Apart(udp_socket') /\ udp_socket \in [Slot -> Socket]
      /\ h \in Handler
  BY <1>1 DEF IInv, PortsApart, Apart, TypeOK, Socket
<1>3. /\ udp_socket'[s].state = "USED" /\ udp_socket'[s].local_port = port
      /\ udp_socket'[s].handler = h
      /\ \A q \in Slot \ {s} : udp_socket'[q] = udp_socket[q]
  BY <1>1, <1>2 DEF Socket
<1>4. ASSUME NEW q \in Port, q # p, q # port
      PROVE  HolderIn(udp_socket', q) = HolderIn(udp_socket, q)
  <2>1. \A r \in Slot : \/ udp_socket'[r] = udp_socket[r]
                        \/ udp_socket'[r].local_port # q /\ udp_socket[r].local_port # q
    BY <1>3, <1>4
  <2> QED
    BY <1>2, <2>1, SameHolder
<1>5. HolderIn(udp_socket', port) = h
  BY <1>2, <1>3, OneHolder
<1>6. CASE p = port
  <2>1. HolderIn(udp_socket, port) = h
    BY <1>1, <1>2, <1>6, OneHolder
  <2>2. Holders' = Holders
    BY <1>4, <1>5, <1>6, <2>1, HoldersIn
  <2> QED
    BY <1>1, <2>2 DEF Service!Next, Service!Quiet, Service!Nothing, Nothing, Holders
<1>7. CASE p # port
  <2>1. HolderIn(udp_socket, port) = NoHandler
    BY <1>1, <1>7, NoHolder DEF Bindable
  <2>2. CASE p = 0
    <3>1. \A q \in Port : q # p
      BY <2>2, UdpAssumption
    <3>2. Holders' = [Holders EXCEPT ![port] = h]
      BY <1>4, <1>5, <3>1, HoldersIn
    <3>3. Holders[port] = NoHandler
      BY <2>1, HoldersIn
    <3>4. Service!Bind(port, h)
      BY <1>1, <3>2, <3>3 DEF Service!Bind, Service!Free, Service!Nothing, Nothing, Holders
    <3> QED
      BY <1>2, <3>4 DEF Service!Next
  <2>3. CASE p # 0
    <3>1. p \in Port
      BY <1>2, <2>3 DEF Socket
    <3>2. HolderIn(udp_socket, p) = h
      BY <1>1, <1>2, <3>1, OneHolder
    <3>3. HolderIn(udp_socket', p) = NoHandler
      BY <1>2, <1>3, <1>7, <2>3, NoHolder DEF Apart
    <3> HIDE DEF p, h
    <3>4. Holders' = [Holders EXCEPT ![port] = h, ![p] = NoHandler]
      BY <1>4, <1>5, <1>7, <3>1, <3>3, HoldersIn
    <3>5. Holders[port] = NoHandler /\ Holders[p] = h
      BY <2>1, <3>1, <3>2, HoldersIn
    <3>6. Service!Bind(port, h)
      BY <1>1, <3>1, <3>4, <3>5
         DEF Service!Bind, Service!Free, Service!Nothing, Nothing, Holders
    <3> QED
      BY <1>2, <3>6 DEF Service!Next
  <2> QED
    BY <2>2, <2>3
<1> QED
  BY <1>6, <1>7

LEMMA DatagramImplements ==
    ASSUME IInv, NEW port \in Port, DatagramIn(port)
    PROVE  Service!Next
<1>1. udp_socket' = udp_socket /\ Apart(udp_socket)
  BY DEF DatagramIn, Deliver, Unreachable, IInv, PortsApart, Apart
<1>2. Holders' = Holders
  BY <1>1, HoldersIn
<1>3. ASSUME NEW valid \in BOOLEAN, Deliver(port, valid)
      PROVE  Service!Arrive(port)
  <2>1. PICK s \in Slot :
          /\ udp_socket[s].state = "USED" /\ udp_socket[s].local_port = port
          /\ given' \in {Nothing, [ kind |-> "handler", port |-> port,
                                    handler |-> udp_socket[s].handler ]}
    BY <1>3 DEF Deliver, First, Found
  <2>2. Holders[port] = udp_socket[s].handler
    BY <1>1, <2>1, OneHolder, HoldersIn
  <2>3. udp_socket[s].handler # NoHandler
    BY <2>1 DEF IInv, TypeOK
  <2> QED
    BY <1>2, <2>1, <2>2, <2>3
       DEF Service!Arrive, Service!Free, Service!Nothing, Nothing, Holders
<1>4. CASE Unreachable(port)
  <2>1. Holders[port] = NoHandler
    BY <1>4, NoHolder, HoldersIn DEF Unreachable, Found
  <2> QED
    BY <1>2, <1>4, <2>1
       DEF Unreachable, Service!Next, Service!Arrive, Service!Free, Holders
<1> QED
  BY <1>3, <1>4 DEF DatagramIn, Service!Next

LEMMA StepImplements == IInv /\ IInv' /\ [Next]_vars => [Service!Next]_(Service!svcVars)
<1> SUFFICES ASSUME IInv, IInv', [Next]_vars PROVE [Service!Next]_(Service!svcVars)
  OBVIOUS
<1>1. CASE Next
  BY <1>1, OpenImplements, CloseImplements, BindImplements, DatagramImplements DEF Next
<1>2. CASE UNCHANGED vars
  <2>1. Holders' = Holders /\ given' = given
    BY <1>2, HoldersIn DEF vars
  <2> QED
    BY <2>1 DEF Service!svcVars, Holders
<1> QED
  BY <1>1, <1>2

\* For every table size and set of ports: the table of sockets implements the
\* service (xudp_find, xudp_open, xudp_bind, xudp_close and the UDP case of
\* xip_in), so no datagram goes to the former user of a table entry.
THEOREM UdpImplementsService == Spec => ServiceSpec
<1>1. Init => Service!Init
  <2> SUFFICES ASSUME Init PROVE Service!Init
    OBVIOUS
  <2>1. \A s \in Slot : udp_socket[s].state = "FREE"
    BY DEF Init
  <2>2. \A p \in Port : HolderIn(udp_socket, p) = NoHandler
    BY <2>1, NoHolder
  <2>3. Holders = [p \in Port |-> NoHandler]
    BY <2>2, HoldersIn
  <2> QED
    BY <2>3 DEF Init, Service!Init, Service!Nothing, Nothing, Holders
<1> QED
  BY <1>1, StepImplements, Invariance, PTL DEF Spec, ServiceSpec, Service!Spec
=============================================================================
