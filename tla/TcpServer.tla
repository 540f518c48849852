------------------------------ MODULE TcpServer ------------------------------
(***************************************************************************)
(* src/src/TcpServer.cpp for every port, with the accept thread and the    *)
(* receiver of src/src/IMachine.cpp that use it.  They share isOpen and    *)
(* newfd without a lock, and the ports share the descriptors of the        *)
(* process: a number that was closed may be the next connection of any     *)
(* port.                                                                   *)
(*                                                                         *)
(* A connection is the number under which it was accepted; 0 is none.      *)
(***************************************************************************)
EXTENDS Integers

CONSTANTS
    Ports,        \* the servers: Tcp1 and Tcp2 in the code
    Fds,          \* descriptors the process can get for connections
    NoFd,         \* newfd before the first connection
    MaxConns      \* bound: connections made in all

ASSUME FdsAssumption == NoFd \notin Fds
ASSUME ConnsAssumption == MaxConns \in Nat

Conns == 1..MaxConns

VARIABLES
    conn,       \* the connection behind each descriptor, 0 if it is free
    made,       \* connections accepted so far
    port,       \* the port of each connection
    ended,      \* connections whose recv returns 0: closed by the peer or shut down
    isOpen, newfd,
    fresh,      \* new_fd of Accept
    accept, receive,   \* where each thread is
    source,     \* the connection each receiver receives from
    writing,    \* ports some thread is about to send to
    confused    \* the ports that have had to do with a number of another, or whose Close
                \* met a new connection, and that have had no connection of their own since

vars == <<conn, made, port, ended, isOpen, newfd, fresh, accept, receive, source, writing, confused>>

Current(p) == conn[newfd[p]]       \* the connection newfd stands for at this moment

ClosePoints == {"flag", "shutdown", "close"}
AcceptPoints == {"start", "off", "idle", "test", "assign", "open"} \cup ClosePoints
ReceivePoints == {"idle", "test", "recv"} \cup ClosePoints

TypeOK ==
    /\ conn \in [Fds \cup {NoFd} -> 0..MaxConns] /\ conn[NoFd] = 0
    /\ made \in 0..MaxConns
    /\ port \in [1..made -> Ports]
    /\ ended \subseteq 1..made
    /\ isOpen \in [Ports -> BOOLEAN]
    /\ newfd \in [Ports -> Fds \cup {NoFd}]
    /\ fresh \in [Ports -> Fds \cup {NoFd}]
    /\ accept \in [Ports -> AcceptPoints]
    /\ receive \in [Ports -> ReceivePoints]
    /\ \A p \in Ports : fresh[p] = NoFd <=> accept[p] \in {"start", "off", "idle"}
    /\ source \in [Ports -> 0..made]
    /\ writing \subseteq Ports
    /\ confused \subseteq Ports
    /\ \A f \in Fds : conn[f] <= made

Init ==
    /\ conn = [f \in Fds \cup {NoFd} |-> 0]
    /\ made = 0 /\ port = [c \in 1..0 |-> 0] /\ ended = {}
    /\ isOpen = [p \in Ports |-> FALSE]
    /\ newfd = [p \in Ports |-> NoFd]
    /\ fresh = [p \in Ports |-> NoFd]
    /\ accept = [p \in Ports |-> "start"]
    /\ receive = [p \in Ports |-> "idle"]
    /\ source = [p \in Ports |-> 0]
    /\ writing = {}
    /\ confused = {}

AcceptGoes(p, from, to) ==
    accept[p] = from /\ accept' = [accept EXCEPT ![p] = to] /\ UNCHANGED receive
ReceiveGoes(p, from, to) ==
    receive[p] = from /\ receive' = [receive EXCEPT ![p] = to] /\ UNCHANGED accept

(***************************************************************************)
(* Open, called once by Start, which ignores what it returns.              *)
(***************************************************************************)
Listen(p) ==
    /\ \E to \in {"idle", "off"} : AcceptGoes(p, "start", to)
    /\ UNCHANGED <<conn, made, port, ended, isOpen, newfd, fresh, source, writing, confused>>

(***************************************************************************)
(* Close, called by either thread t of a port.  It reads newfd twice.      *)
(***************************************************************************)
CloseGoes(t, p, from, to) ==
    \/ t = "accept" /\ AcceptGoes(p, from, to)
    \/ t = "receive" /\ ReceiveGoes(p, from, to)

\* Mutant: Close leaves the flag to the receiver.
CloseKeepsFlag(t, p) ==
    /\ CloseGoes(t, p, "flag", "shutdown")
    /\ UNCHANGED <<conn, made, port, ended, isOpen, newfd, fresh, source, writing, confused>>

ClearFlag(t, p) ==
    /\ CloseGoes(t, p, "flag", "shutdown")
    /\ isOpen' = [isOpen EXCEPT ![p] = FALSE]
    /\ confused' = IF accept[p] = "open" THEN confused \cup {p} ELSE confused
    /\ UNCHANGED <<conn, made, port, ended, newfd, fresh, source, writing>>

Shutdown(t, p) ==
    /\ CloseGoes(t, p, "shutdown", "close")
    /\ ended' = ended \cup ({Current(p)} \ {0})
    /\ UNCHANGED <<conn, made, port, isOpen, newfd, fresh, source, writing, confused>>

\* The receiver returns from ReceiveCmd; Accept sleeps a second and goes on.
CloseFd(t, p) ==
    /\ CloseGoes(t, p, "close", IF t = "accept" THEN "assign" ELSE "idle")
    /\ conn' = [conn EXCEPT ![newfd[p]] = 0]
    /\ source' = IF t = "accept" THEN source ELSE [source EXCEPT ![p] = 0]
    /\ UNCHANGED <<made, port, ended, isOpen, newfd, fresh, writing, confused>>

Close(t, p) == ClearFlag(t, p) \/ Shutdown(t, p) \/ CloseFd(t, p)

(***************************************************************************)
(* Accept, in the loop of AcceptThread.  A failing accept() returns -1,    *)
(* which is true, and is called again at once.                             *)
(***************************************************************************)
\* A thread of q has the number f or may still take it from newfd.
Holds(q, f) ==
    \/ fresh[q] = f
    \/ /\ newfd[q] = f
       /\ isOpen[q] \/ receive[q] # "idle" \/ accept[q] \in ClosePoints \/ q \in writing

Holders(p, f) == {q \in Ports \ {p} : Holds(q, f)}

Accepted(p) ==
    /\ AcceptGoes(p, "idle", "test")
    /\ made < MaxConns
    /\ made' = made + 1
    /\ port' = [c \in 1..made + 1 |-> IF c = made + 1 THEN p ELSE port[c]]
    /\ \E f \in Fds :
          /\ conn[f] = 0
          /\ conn' = [conn EXCEPT ![f] = made + 1]
          /\ fresh' = [fresh EXCEPT ![p] = f]
          /\ confused' = IF Holders(p, f) = {} THEN confused
                         ELSE confused \cup {p} \cup Holders(p, f)
    /\ UNCHANGED <<ended, isOpen, newfd, source, writing>>

\* Mutants: a computer that is connected already keeps the port.
FirstIsServed(p) ==
    /\ AcceptGoes(p, "test", IF isOpen[p] THEN "idle" ELSE "assign")
    /\ fresh' = IF isOpen[p] THEN [fresh EXCEPT ![p] = NoFd] ELSE fresh
    /\ UNCHANGED <<conn, made, port, ended, isOpen, newfd, source, writing, confused>>

NewIsForgotten(p) ==
    /\ AcceptGoes(p, "test", IF isOpen[p] THEN "idle" ELSE "assign")
    /\ UNCHANGED <<conn, made, port, ended, isOpen, newfd, fresh, source, writing, confused>>

TestOpen(p) ==
    /\ AcceptGoes(p, "test", IF isOpen[p] THEN "flag" ELSE "assign")
    /\ UNCHANGED <<conn, made, port, ended, isOpen, newfd, fresh, source, writing, confused>>

\* The new connection is all that the threads of p have to do with.
Settled(p) ==
    /\ receive[p] \in {"idle", "test"}
    /\ conn[fresh[p]] # 0 /\ port[conn[fresh[p]]] = p
    /\ Holders(p, fresh[p]) = {}

AssignFd(p) ==
    /\ AcceptGoes(p, "assign", "open")
    /\ newfd' = [newfd EXCEPT ![p] = fresh[p]]
    /\ confused' = IF receive[p] \in {"shutdown", "close"} THEN confused \cup {p}
                   ELSE IF Settled(p) THEN confused \ {p} ELSE confused
    /\ UNCHANGED <<conn, made, port, ended, isOpen, fresh, source, writing>>

SetFlag(p) ==
    /\ AcceptGoes(p, "open", "idle")
    /\ isOpen' = [isOpen EXCEPT ![p] = TRUE]
    /\ fresh' = [fresh EXCEPT ![p] = NoFd]
    /\ UNCHANGED <<conn, made, port, ended, newfd, source, writing, confused>>

(***************************************************************************)
(* TcpserverFunc1 and 2, and the receiving part of ReceiveCmd1 and 2.  A   *)
(* recv that has begun stays with its connection, whatever happens to the  *)
(* descriptor.                                                             *)
(***************************************************************************)
Poll(p) ==
    /\ isOpen[p]
    /\ ReceiveGoes(p, "idle", "test")
    /\ UNCHANGED <<conn, made, port, ended, isOpen, newfd, fresh, source, writing, confused>>

\* Mutant: a recv that fails at once is tried again.
RecvAgain(p) ==
    /\ ReceiveGoes(p, "test", IF Current(p) = 0 THEN "test" ELSE "recv")
    /\ source' = [source EXCEPT ![p] = Current(p)]
    /\ UNCHANGED <<conn, made, port, ended, isOpen, newfd, fresh, writing, confused>>

BeginRecv(p) ==
    /\ ReceiveGoes(p, "test", IF Current(p) = 0 THEN "flag" ELSE "recv")
    /\ source' = [source EXCEPT ![p] = Current(p)]
    /\ UNCHANGED <<conn, made, port, ended, isOpen, newfd, fresh, writing, confused>>

\* Data: it is executed, and the loop goes on without a look at isOpen.
Received(p) ==
    /\ source[p] \notin ended
    /\ ReceiveGoes(p, "recv", "test")
    /\ source' = [source EXCEPT ![p] = 0]
    /\ UNCHANGED <<conn, made, port, ended, isOpen, newfd, fresh, writing, confused>>

RecvEnds(p) ==
    /\ source[p] \in ended
    /\ ReceiveGoes(p, "recv", "flag")
    /\ UNCHANGED <<conn, made, port, ended, isOpen, newfd, fresh, source, writing, confused>>

(***************************************************************************)
(* WriteByte, called by HeartThread, VehicleThread and the receivers: it   *)
(* tests isOpen and then reads newfd.  The writers do not touch each other *)
(* and one of them per port stands for all.                                *)
(***************************************************************************)
BeginWrite(p) ==
    /\ isOpen[p] /\ p \notin writing
    /\ writing' = writing \cup {p}
    /\ UNCHANGED <<conn, made, port, ended, isOpen, newfd, fresh, accept, receive, source, confused>>

Send(p) ==
    /\ p \in writing
    /\ writing' = writing \ {p}
    /\ UNCHANGED <<conn, made, port, ended, isOpen, newfd, fresh, accept, receive, source, confused>>

(***************************************************************************)
(* The computers.                                                          *)
(***************************************************************************)
PeerCloses(c) ==
    /\ ended' = ended \cup {c}
    /\ UNCHANGED <<conn, made, port, isOpen, newfd, fresh, accept, receive, source, writing, confused>>

AcceptStep(p) == TestOpen(p) \/ Close("accept", p) \/ AssignFd(p) \/ SetFlag(p)
ReceiveStep(p) ==
    Poll(p) \/ BeginRecv(p) \/ Received(p) \/ RecvEnds(p) \/ Close("receive", p)

Next ==
    \/ \E p \in Ports : Listen(p) \/ Accepted(p) \/ AcceptStep(p) \/ ReceiveStep(p)
    \/ \E p \in Ports : BeginWrite(p) \/ Send(p)
    \/ \E c \in (1..made) \ ended : PeerCloses(c)

Spec == Init /\ [][Next]_vars

(* The threads run.  Data comes on every connection that lasts: the        *)
(* computers send heartbeats.                                              *)
FairSpec ==
    /\ Spec
    /\ \A p \in Ports : WF_vars(AcceptStep(p)) /\ WF_vars(ReceiveStep(p))

(***************************************************************************)
(* Properties.                                                             *)
(***************************************************************************)
Latest(p) == LET own == {c \in 1..made : port[c] = p}
             IN  IF own = {} THEN 0 ELSE CHOOSE c \in own : \A d \in own : d <= c

Own(p) == Current(p) # 0 /\ port[Current(p)] = p

(* A port gets confused when another port accepts a connection under a     *)
(* number that a thread of it still holds (both do), when its receiver's   *)
(* Close clears the flag between the two assignments of Accept, or when    *)
(* Accept puts a connection in newfd while this Close is not done with it. *)
(* It stays so at most until Accept has put in newfd a connection of its   *)
(* own that no other port holds, with the receiver not in a Close or a     *)
(* recv.  No other port is wrong about whose connection it has: when it    *)
(* says it is open it has an open connection of its own in newfd, its      *)
(* receiver executes what its own computer sends, and what is written is   *)
(* sent to it or to nobody, however the other ports are confused.          *)
OwnOnly == \A p \in Ports \ confused :
    /\ isOpen[p] => Own(p)
    /\ source[p] # 0 => port[source[p]] = p
    /\ p \in writing /\ Current(p) # 0 => port[Current(p)] = p

(* On such a port, once connections are no longer made, the computer that  *)
(* connected last is the one that is served, unless it has left or a Close *)
(* of the port has shut its connection down.                               *)
LastIsServed == <>[](\A p \in Ports \ confused :
                        Latest(p) \in (1..made) \ ended => isOpen[p] /\ Current(p) = Latest(p))

(* However the threads meet: once connections are no longer made, a port   *)
(* does not go on saying that it is open over a descriptor that is closed. *)
NoDeadPort == <>[](\A p \in Ports : isOpen[p] => Current(p) # 0)
=============================================================================
