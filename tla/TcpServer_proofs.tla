--------------------------- MODULE TcpServer_proofs ---------------------------
(***************************************************************************)
(* Proofs about TcpServer, for any ports, descriptors and connections.     *)
(***************************************************************************)
EXTENDS TcpServer, TLAPS

(* What newfd stands for is a connection that was made, or none. *)
LEMMA CurrentTyped ==
    ASSUME TypeOK, NEW p \in Ports
    PROVE  Current(p) \in 0..made
<1>1. newfd[p] \in Fds \/ newfd[p] = NoFd
  BY DEF TypeOK
<1>2. CASE newfd[p] \in Fds
  <2>1. conn[newfd[p]] \in 0..MaxConns /\ conn[newfd[p]] <= made /\ made \in Nat
    BY <1>2, ConnsAssumption DEF TypeOK
  <2> QED
    BY <2>1, ConnsAssumption DEF Current
<1>3. CASE newfd[p] = NoFd
  <2>1. conn[newfd[p]] = 0 /\ made \in Nat
    BY <1>3, ConnsAssumption DEF TypeOK
  <2> QED
    BY <2>1 DEF Current
<1> QED
  BY <1>1, <1>2, <1>3

(* No variable leaves its type, and Accept keeps a descriptor from the     *)
(* accept() that returned it until the port is open again, and only then.  *)
THEOREM TypeCorrect == Spec => []TypeOK
<1> USE ConnsAssumption, FdsAssumption
         DEF TypeOK, ClosePoints, AcceptPoints, ReceivePoints
<1>1. Init => TypeOK
  <2> SUFFICES ASSUME Init
               PROVE  TypeOK
    OBVIOUS
  <2>1. port \in [1..made -> Ports]
    <3>1. 1..0 = {}
      OBVIOUS
    <3> QED
      BY <3>1 DEF Init
  <2> QED
    <3>1. conn \in [Fds \cup {NoFd} -> 0..MaxConns]
      BY DEF Init
    <3>2. ended \subseteq 1..made /\ source \in [Ports -> 0..made] /\ made \in 0..MaxConns
      BY DEF Init
    <3>3. conn[NoFd] = 0 /\ \A f \in Fds : conn[f] <= made
      BY DEF Init
    <3> QED
      BY <2>1, <3>1, <3>2, <3>3 DEF Init
<1>2. TypeOK /\ [Next]_vars => TypeOK'
  <2> SUFFICES ASSUME TypeOK, [Next]_vars
               PROVE  TypeOK'
    OBVIOUS
  <2>1. ASSUME NEW p \in Ports, Listen(p)
        PROVE  TypeOK'
    BY <2>1 DEF Listen, AcceptGoes, ReceiveGoes
  <2>2. ASSUME NEW p \in Ports, Accepted(p)
        PROVE  TypeOK'
    <3>1. PICK f \in Fds : /\ conn' = [conn EXCEPT ![f] = made + 1]
                          /\ fresh' = [fresh EXCEPT ![p] = f]
                          /\ confused' = IF Holders(p, f) = {} THEN confused
                                         ELSE confused \cup {p} \cup Holders(p, f)
      BY <2>2 DEF Accepted
    <3>2. confused' \subseteq Ports
      BY <3>1 DEF Holders
    <3> QED
      BY <2>2, <3>1, <3>2 DEF Accepted, AcceptGoes, ReceiveGoes
  <2>3. ASSUME NEW p \in Ports, TestOpen(p)
        PROVE  TypeOK'
    BY <2>3 DEF TestOpen, AcceptGoes, ReceiveGoes
  <2>4. ASSUME NEW p \in Ports, AssignFd(p)
        PROVE  TypeOK'
    BY <2>4 DEF AssignFd, AcceptGoes, ReceiveGoes
  <2>5. ASSUME NEW p \in Ports, SetFlag(p)
        PROVE  TypeOK'
    BY <2>5 DEF SetFlag, AcceptGoes, ReceiveGoes
  <2>6. ASSUME NEW p \in Ports, NEW t, ClearFlag(t, p)
        PROVE  TypeOK'
    <3>0. /\ isOpen' = [isOpen EXCEPT ![p] = FALSE] /\ confused' \subseteq Ports
          /\ UNCHANGED <<conn, made, port, ended, newfd, fresh, source, writing>>
      BY <2>6 DEF ClearFlag
    <3>1. CASE t = "accept"
      <4>1. /\ accept[p] = "flag" /\ accept' = [accept EXCEPT ![p] = "shutdown"]
            /\ UNCHANGED receive
        BY <2>6, <3>1 DEF ClearFlag, CloseGoes, AcceptGoes
      <4> QED
        BY <3>0, <4>1
    <3>2. CASE t = "receive"
      <4>1. receive' = [receive EXCEPT ![p] = "shutdown"] /\ UNCHANGED accept
        BY <2>6, <3>2 DEF ClearFlag, CloseGoes, ReceiveGoes
      <4> QED
        BY <3>0, <4>1
    <3> QED
      BY <3>1, <3>2, <2>6 DEF ClearFlag, CloseGoes
  <2>7. ASSUME NEW p \in Ports, NEW t, Shutdown(t, p)
        PROVE  TypeOK'
    <3>0. Current(p) \in 0..made
      BY CurrentTyped
    <3> ended' \subseteq 1..made
      <4>1. ended' = ended \cup ({Current(p)} \ {0}) /\ made \in Nat
        BY <2>7 DEF Shutdown
      <4>2. Current(p) = 0 \/ Current(p) \in 1..made
        BY <3>0, <4>1
      <4> QED
        BY <4>1, <4>2
    <3>1. CASE t = "accept"
      BY <2>7, <3>1 DEF Shutdown, CloseGoes, AcceptGoes
    <3>2. CASE t = "receive"
      BY <2>7, <3>2 DEF Shutdown, CloseGoes, ReceiveGoes
    <3> QED
      BY <3>1, <3>2, <2>7 DEF Shutdown, CloseGoes
  <2>8. ASSUME NEW p \in Ports, NEW t, CloseFd(t, p)
        PROVE  TypeOK'
    <3>0. /\ conn' \in [Fds \cup {NoFd} -> 0..MaxConns] /\ conn'[NoFd] = 0
          /\ \A f \in Fds : conn'[f] <= made
          /\ source' \in [Ports -> 0..made]
          /\ UNCHANGED <<made, port, ended, isOpen, newfd, fresh, writing, confused>>
      BY <2>8 DEF CloseFd
    <3>1. CASE t = "accept"
      <4>1. /\ accept[p] = "close" /\ accept' = [accept EXCEPT ![p] = "assign"]
            /\ UNCHANGED receive
        BY <2>8, <3>1 DEF CloseFd, CloseGoes, AcceptGoes
      <4> QED
        BY <3>0, <4>1
    <3>2. CASE t = "receive"
      <4>1. receive' = [receive EXCEPT ![p] = "idle"] /\ UNCHANGED accept
        BY <2>8, <3>2 DEF CloseFd, CloseGoes, ReceiveGoes
      <4> QED
        BY <3>0, <4>1
    <3> QED
      BY <3>1, <3>2, <2>8 DEF CloseFd, CloseGoes
  <2>9. ASSUME NEW p \in Ports, Poll(p)
        PROVE  TypeOK'
    BY <2>9 DEF Poll, AcceptGoes, ReceiveGoes
  <2>10. ASSUME NEW p \in Ports, BeginRecv(p)
        PROVE  TypeOK'
    BY <2>10 DEF BeginRecv, Current, AcceptGoes, ReceiveGoes
  <2>11. ASSUME NEW p \in Ports, Received(p)
        PROVE  TypeOK'
    BY <2>11 DEF Received, AcceptGoes, ReceiveGoes
  <2>12. ASSUME NEW p \in Ports, RecvEnds(p)
        PROVE  TypeOK'
    BY <2>12 DEF RecvEnds, AcceptGoes, ReceiveGoes
  <2>13. ASSUME NEW c \in (1..made) \ ended, PeerCloses(c)
         PROVE  TypeOK'
    BY <2>13 DEF PeerCloses
  <2>14. ASSUME NEW p \in Ports, BeginWrite(p) \/ Send(p)
         PROVE  TypeOK'
    BY <2>14 DEF BeginWrite, Send
  <2>15. CASE UNCHANGED vars
    BY <2>15 DEF vars
  <2> QED
    BY <2>1, <2>2, <2>3, <2>4, <2>5, <2>6, <2>7, <2>8, <2>9, <2>10, <2>11, <2>12, <2>13, <2>14, <2>15
       DEF Next, AcceptStep, ReceiveStep, Close
<1> QED
  BY <1>1, <1>2, PTL DEF Spec

(* Of every port: while Accept puts a connection in place the flag is off, *)
(* and a receiver between two recv calls has no connection.                *)
GlobalOf(p) ==
    /\ accept[p] \in {"shutdown", "close", "assign", "open"} => ~isOpen[p]
    /\ accept[p] = "open" => newfd[p] = fresh[p]
    /\ receive[p] \in {"idle", "test"} => source[p] = 0

Global == \A p \in Ports : GlobalOf(p)

(* No number is held by the threads of two ports, unless both are confused. *)
Apart == \A p \in Ports \ confused : \A q \in Ports \ {p}, f \in Fds :
    ~(Holds(p, f) /\ Holds(q, f))

(* Where the threads of a port are, what newfd may stand for.              *)
PortInv(p) ==
    LET A == accept[p]
        R == receive[p]
    IN  /\ isOpen[p] => Own(p)
        /\ A \in {"start", "off", "idle", "test", "flag"} /\ R # "idle" =>
               Own(p) /\ (R \in {"test", "recv", "flag"} => isOpen[p])
        /\ A \in ClosePoints \/ (A = "assign" /\ R # "idle") =>
               Current(p) = 0 \/ port[Current(p)] = p
        /\ R \in {"shutdown", "close"} => ~isOpen[p]
        /\ A = "open" => R \in {"idle", "test", "recv", "flag"}
        /\ fresh[p] # NoFd => conn[fresh[p]] # 0 /\ port[conn[fresh[p]]] = p
        /\ (A \in {"test", "assign"} /\ (isOpen[p] \/ R # "idle")) \/ A \in ClosePoints =>
               fresh[p] # newfd[p]
        /\ source[p] # 0 => port[source[p]] = p
        /\ p \in writing => Current(p) = 0 \/ port[Current(p)] = p

Inv == Global /\ Apart /\ \A p \in Ports \ confused : PortInv(p)

LEMMA GlobalKept == ASSUME TypeOK, Global, [Next]_vars PROVE Global'
<1> SUFFICES ASSUME NEW q \in Ports
             PROVE  GlobalOf(q)'
  BY DEF Global
<1> USE DEF TypeOK, Global, ClosePoints, AcceptPoints, ReceivePoints
<1>1. ASSUME NEW p \in Ports, Listen(p) PROVE GlobalOf(q)'
  BY <1>1 DEF GlobalOf, Listen, AcceptGoes, ReceiveGoes
<1>2. ASSUME NEW p \in Ports, Accepted(p) PROVE GlobalOf(q)'
  BY <1>2 DEF GlobalOf, Accepted, AcceptGoes, ReceiveGoes
<1>3. ASSUME NEW p \in Ports, TestOpen(p) PROVE GlobalOf(q)'
  BY <1>3 DEF GlobalOf, TestOpen, AcceptGoes, ReceiveGoes
<1>4. ASSUME NEW p \in Ports, AssignFd(p) PROVE GlobalOf(q)'
  BY <1>4 DEF GlobalOf, AssignFd, AcceptGoes, ReceiveGoes
<1>5. ASSUME NEW p \in Ports, SetFlag(p) PROVE GlobalOf(q)'
  BY <1>5 DEF GlobalOf, SetFlag, AcceptGoes, ReceiveGoes
<1>6. ASSUME NEW p \in Ports, NEW t \in {"accept", "receive"}, ClearFlag(t, p) PROVE GlobalOf(q)'
  BY <1>6 DEF GlobalOf, ClearFlag, CloseGoes, AcceptGoes, ReceiveGoes
<1>7. ASSUME NEW p \in Ports, NEW t \in {"accept", "receive"}, Shutdown(t, p) PROVE GlobalOf(q)'
  BY <1>7 DEF GlobalOf, Shutdown, CloseGoes, AcceptGoes, ReceiveGoes
<1>8. ASSUME NEW p \in Ports, NEW t \in {"accept", "receive"}, CloseFd(t, p) PROVE GlobalOf(q)'
  BY <1>8 DEF GlobalOf, CloseFd, CloseGoes, AcceptGoes, ReceiveGoes
<1>9. ASSUME NEW p \in Ports, Poll(p) PROVE GlobalOf(q)'
  BY <1>9 DEF GlobalOf, Poll, AcceptGoes, ReceiveGoes
<1>10. ASSUME NEW p \in Ports, BeginRecv(p) PROVE GlobalOf(q)'
  BY <1>10 DEF GlobalOf, BeginRecv, AcceptGoes, ReceiveGoes
<1>11. ASSUME NEW p \in Ports, Received(p) PROVE GlobalOf(q)'
  BY <1>11 DEF GlobalOf, Received, AcceptGoes, ReceiveGoes
<1>12. ASSUME NEW p \in Ports, RecvEnds(p) PROVE GlobalOf(q)'
  BY <1>12 DEF GlobalOf, RecvEnds, AcceptGoes, ReceiveGoes
<1>13. ASSUME NEW c \in (1..made) \ ended, PeerCloses(c) PROVE GlobalOf(q)'
  BY <1>13 DEF GlobalOf, PeerCloses
<1>14. ASSUME NEW p \in Ports, BeginWrite(p) \/ Send(p) PROVE GlobalOf(q)'
  BY <1>14 DEF GlobalOf, BeginWrite, Send
<1>15. CASE UNCHANGED vars
  BY <1>15 DEF GlobalOf, vars
<1> QED
  BY <1>1, <1>2, <1>3, <1>4, <1>5, <1>6, <1>7, <1>8, <1>9, <1>10, <1>11, <1>12, <1>13, <1>14, <1>15
     DEF Next, AcceptStep, ReceiveStep, Close

(* Only Accept gives a port a number it did not hold.                       *)
LEMMA HoldsKept ==
    ASSUME TypeOK, Global, [Next]_vars, NEW r \in Ports, NEW f \in Fds, Holds(r, f)'
    PROVE  Holds(r, f) \/ (Accepted(r) /\ fresh'[r] = f)
<1> USE DEF TypeOK, Global, GlobalOf, Holds, ClosePoints, AcceptPoints, ReceivePoints
<1>1. ASSUME NEW p \in Ports, Listen(p) PROVE Holds(r, f)
  BY <1>1 DEF Listen, AcceptGoes, ReceiveGoes
<1>2. ASSUME NEW p \in Ports, Accepted(p) PROVE Holds(r, f) \/ (Accepted(r) /\ fresh'[r] = f)
  <2>1. CASE p = r
    BY <1>2, <2>1 DEF Accepted, AcceptGoes, ReceiveGoes
  <2>2. CASE p # r
    BY <1>2, <2>2 DEF Accepted, AcceptGoes, ReceiveGoes
  <2> QED  BY <2>1, <2>2
<1>3. ASSUME NEW p \in Ports, TestOpen(p) PROVE Holds(r, f)
  BY <1>3 DEF TestOpen, AcceptGoes, ReceiveGoes
<1>4. ASSUME NEW p \in Ports, AssignFd(p) PROVE Holds(r, f)
  BY <1>4 DEF AssignFd, AcceptGoes, ReceiveGoes
<1>5. ASSUME NEW p \in Ports, SetFlag(p) PROVE Holds(r, f)
  <2>1. CASE p = r
    <3>1. fresh'[r] = NoFd /\ newfd'[r] = fresh[r]
      BY <1>5, <2>1 DEF SetFlag, AcceptGoes
    <3> QED
      BY <3>1, FdsAssumption
  <2>2. CASE p # r
    BY <1>5, <2>2 DEF SetFlag, AcceptGoes
  <2> QED  BY <2>1, <2>2
<1>6. ASSUME NEW p \in Ports, NEW t \in {"accept", "receive"}, ClearFlag(t, p) PROVE Holds(r, f)
  BY <1>6 DEF ClearFlag, CloseGoes, AcceptGoes, ReceiveGoes
<1>7. ASSUME NEW p \in Ports, NEW t \in {"accept", "receive"}, Shutdown(t, p) PROVE Holds(r, f)
  BY <1>7 DEF Shutdown, CloseGoes, AcceptGoes, ReceiveGoes
<1>8. ASSUME NEW p \in Ports, NEW t \in {"accept", "receive"}, CloseFd(t, p) PROVE Holds(r, f)
  BY <1>8 DEF CloseFd, CloseGoes, AcceptGoes, ReceiveGoes
<1>9. ASSUME NEW p \in Ports, Poll(p) PROVE Holds(r, f)
  BY <1>9 DEF Poll, AcceptGoes, ReceiveGoes
<1>10. ASSUME NEW p \in Ports, BeginRecv(p) PROVE Holds(r, f)
  BY <1>10 DEF BeginRecv, AcceptGoes, ReceiveGoes
<1>11. ASSUME NEW p \in Ports, Received(p) PROVE Holds(r, f)
  BY <1>11 DEF Received, AcceptGoes, ReceiveGoes
<1>12. ASSUME NEW p \in Ports, RecvEnds(p) PROVE Holds(r, f)
  BY <1>12 DEF RecvEnds, AcceptGoes, ReceiveGoes
<1>13. ASSUME NEW c \in (1..made) \ ended, PeerCloses(c) PROVE Holds(r, f)
  BY <1>13 DEF PeerCloses
<1>14. ASSUME NEW p \in Ports, BeginWrite(p) \/ Send(p) PROVE Holds(r, f)
  BY <1>14 DEF BeginWrite, Send
<1>15. CASE UNCHANGED vars
  BY <1>15 DEF vars
<1> QED
  BY <1>1, <1>2, <1>3, <1>4, <1>5, <1>6, <1>7, <1>8, <1>9, <1>10, <1>11, <1>12, <1>13, <1>14, <1>15
     DEF Next, AcceptStep, ReceiveStep, Close

(* A port stays confused, but for the AssignFd that settles it.            *)
LEMMA ConfusedKept ==
    ASSUME TypeOK, [Next]_vars, NEW r \in confused, r \notin confused'
    PROVE  AssignFd(r) /\ Settled(r)
<1> USE DEF TypeOK
<1>1. ASSUME NEW p \in Ports, Listen(p) PROVE FALSE
  BY <1>1 DEF Listen
<1>2. ASSUME NEW p \in Ports, Accepted(p) PROVE FALSE
  BY <1>2 DEF Accepted
<1>3. ASSUME NEW p \in Ports, TestOpen(p) PROVE FALSE
  BY <1>3 DEF TestOpen
<1>4. ASSUME NEW p \in Ports, AssignFd(p) PROVE p = r /\ Settled(p)
  BY <1>4 DEF AssignFd
<1>5. ASSUME NEW p \in Ports, SetFlag(p) PROVE FALSE
  BY <1>5 DEF SetFlag
<1>6. ASSUME NEW p \in Ports, NEW t \in {"accept", "receive"}, ClearFlag(t, p) PROVE FALSE
  BY <1>6 DEF ClearFlag
<1>7. ASSUME NEW p \in Ports, NEW t \in {"accept", "receive"}, Shutdown(t, p) PROVE FALSE
  BY <1>7 DEF Shutdown
<1>8. ASSUME NEW p \in Ports, NEW t \in {"accept", "receive"}, CloseFd(t, p) PROVE FALSE
  BY <1>8 DEF CloseFd
<1>9. ASSUME NEW p \in Ports, Poll(p) PROVE FALSE
  BY <1>9 DEF Poll
<1>10. ASSUME NEW p \in Ports, BeginRecv(p) PROVE FALSE
  BY <1>10 DEF BeginRecv
<1>11. ASSUME NEW p \in Ports, Received(p) PROVE FALSE
  BY <1>11 DEF Received
<1>12. ASSUME NEW p \in Ports, RecvEnds(p) PROVE FALSE
  BY <1>12 DEF RecvEnds
<1>13. ASSUME NEW c \in (1..made) \ ended, PeerCloses(c) PROVE FALSE
  BY <1>13 DEF PeerCloses
<1>14. ASSUME NEW p \in Ports, BeginWrite(p) \/ Send(p) PROVE FALSE
  BY <1>14 DEF BeginWrite, Send
<1>15. CASE UNCHANGED vars
  BY <1>15 DEF vars
<1> QED
  BY <1>1, <1>2, <1>3, <1>4, <1>5, <1>6, <1>7, <1>8, <1>9, <1>10, <1>11, <1>12, <1>13, <1>14, <1>15
     DEF Next, AcceptStep, ReceiveStep, Close

LEMMA ApartKept == ASSUME TypeOK, Global, Apart, [Next]_vars PROVE Apart'
<1> SUFFICES ASSUME NEW p \in Ports, p \notin confused', NEW q \in Ports \ {p}, NEW f \in Fds,
                    Holds(p, f)', Holds(q, f)'
             PROVE  FALSE
  BY DEF Apart
<1>1. CASE p \in confused
  <2>1. AssignFd(p) /\ Settled(p)
    BY <1>1, ConfusedKept
  <2>2. receive'[p] \in {"idle", "test"} /\ newfd'[p] = fresh[p] /\ fresh'[p] = fresh[p]
    BY <2>1 DEF AssignFd, AcceptGoes, Settled, TypeOK
  <2>3. fresh[p] = f
    BY <2>2 DEF Holds
  <2>4. Holds(q, f)
    BY <2>1 DEF AssignFd, AcceptGoes, Holds, TypeOK, ClosePoints, AcceptPoints
  <2> QED
    BY <2>1, <2>3, <2>4 DEF Settled, Holders
<1>2. CASE p \notin confused
  <2>1. ~(Holds(p, f) /\ Holds(q, f))
    BY <1>2 DEF Apart
  <2>2. CASE Accepted(p) /\ fresh'[p] = f
    <3>1. Holds(q, f)
      BY <2>2 DEF Accepted, AcceptGoes, Holds, TypeOK, ClosePoints, AcceptPoints
    <3>2. q \in Holders(p, f)
      BY <3>1 DEF Holders
    <3>3. PICK g \in Fds : /\ fresh' = [fresh EXCEPT ![p] = g]
                           /\ confused' = IF Holders(p, g) = {} THEN confused
                                          ELSE confused \cup {p} \cup Holders(p, g)
      BY <2>2 DEF Accepted
    <3>4. g = f
      BY <2>2, <3>3 DEF TypeOK
    <3> QED
      BY <3>2, <3>3, <3>4
  <2>3. CASE Accepted(q) /\ fresh'[q] = f
    <3>1. Holds(p, f)
      BY <2>3 DEF Accepted, AcceptGoes, Holds, TypeOK, ClosePoints, AcceptPoints
    <3>2. p \in Holders(q, f)
      BY <3>1 DEF Holders
    <3>3. PICK g \in Fds : /\ fresh' = [fresh EXCEPT ![q] = g]
                           /\ confused' = IF Holders(q, g) = {} THEN confused
                                          ELSE confused \cup {q} \cup Holders(q, g)
      BY <2>3 DEF Accepted
    <3>4. g = f
      BY <2>3, <3>3 DEF TypeOK
    <3> QED
      BY <3>2, <3>3, <3>4
  <2> QED
    BY <2>1, <2>2, <2>3, HoldsKept
<1> QED
  BY <1>1, <1>2

(* On every port that is not confused, isOpen is set only over an open     *)
(* connection of its own, its receiver executes what its own computer      *)
(* sends, and what is written to it is sent to its own computer or to      *)
(* nobody, however the other ports are confused (OwnOnly).                 *)
THEOREM OwnOnlyHolds == Spec => []OwnOnly
<1> USE ConnsAssumption, FdsAssumption
<1>1. Init => Inv
  <2> SUFFICES ASSUME Init
               PROVE  Inv
    OBVIOUS
  <2>1. ASSUME NEW p \in Ports
        PROVE  /\ isOpen[p] = FALSE /\ accept[p] = "start" /\ receive[p] = "idle"
               /\ fresh[p] = NoFd /\ newfd[p] = NoFd /\ source[p] = 0 /\ p \notin writing
    BY DEF Init
  <2>2. Global
    BY <2>1 DEF Global, GlobalOf
  <2>3. Apart
    BY <2>1 DEF Apart, Holds
  <2>4. ASSUME NEW p \in Ports PROVE PortInv(p)
    BY <2>1 DEF PortInv, ClosePoints
  <2> QED
    BY <2>2, <2>3, <2>4 DEF Inv
<1>2. TypeOK /\ Inv /\ [Next]_vars => Inv'
  <2> SUFFICES ASSUME TypeOK, Inv, [Next]_vars, NEW q \in Ports, q \notin confused'
               PROVE  PortInv(q)'
    BY GlobalKept, ApartKept DEF Inv
  <2>0. Global /\ Apart /\ (q \notin confused => PortInv(q))
    BY DEF Inv
  <2> USE DEF TypeOK, Own, Current, ClosePoints, AcceptPoints, ReceivePoints
  <2>1. ASSUME NEW p \in Ports, Listen(p)
        PROVE  PortInv(q)'
    <3>1. PortInv(q)
      BY <2>0, <2>1 DEF Listen
    <3>2. CASE p = q
      BY <2>0, <2>1, <3>1, <3>2 DEF Listen, AcceptGoes, ReceiveGoes, PortInv
    <3>3. CASE p # q
      BY <2>1, <3>1, <3>3 DEF Listen, AcceptGoes, ReceiveGoes, PortInv
    <3> QED
      BY <3>2, <3>3
  <2>2. ASSUME NEW p \in Ports, Accepted(p)
        PROVE  PortInv(q)'
    <3>1. PortInv(q)
      BY <2>0, <2>2 DEF Accepted
    <3>2. CASE p = q
      BY <2>2, <3>1, <3>2 DEF Accepted, AcceptGoes, ReceiveGoes, PortInv
    <3>3. CASE p # q
      <4>1. PICK f \in Fds : /\ conn[f] = 0
                            /\ conn' = [conn EXCEPT ![f] = made + 1]
                            /\ confused' = IF Holders(p, f) = {} THEN confused
                                           ELSE confused \cup {p} \cup Holders(p, f)
        BY <2>2 DEF Accepted
      <4>2. UNCHANGED <<isOpen, newfd, receive, source, writing>> /\ fresh'[q] = fresh[q]
            /\ accept'[q] = accept[q] /\ \A c \in 1..made : port'[c] = port[c]
        BY <2>2, <3>3 DEF Accepted, AcceptGoes
      <4>3. ~Holds(q, f)
        BY <3>3, <4>1 DEF Holders
      <4>4. conn[newfd[q]] \in 0..made /\ (fresh[q] # NoFd => conn[fresh[q]] \in 0..made)
        BY CurrentTyped
      <4>5. CASE newfd[q] = f
        BY <3>1, <4>1, <4>2, <4>3, <4>4, <4>5 DEF Holds, PortInv
      <4>6. CASE newfd[q] # f
        BY <3>1, <4>1, <4>2, <4>3, <4>4, <4>6 DEF Holds, PortInv
      <4> QED
        BY <4>5, <4>6
    <3> QED
      BY <3>2, <3>3
  <2>3. ASSUME NEW p \in Ports, TestOpen(p)
        PROVE  PortInv(q)'
    <3>1. PortInv(q)
      BY <2>0, <2>3 DEF TestOpen
    <3>2. CASE p = q
      BY <2>0, <2>3, <3>1, <3>2 DEF TestOpen, AcceptGoes, ReceiveGoes, PortInv
    <3>3. CASE p # q
      BY <2>3, <3>1, <3>3 DEF TestOpen, AcceptGoes, ReceiveGoes, PortInv
    <3> QED
      BY <3>2, <3>3
  <2>4. ASSUME NEW p \in Ports, AssignFd(p)
        PROVE  PortInv(q)'
    <3>1. CASE q \in confused
      <4>1. p = q /\ Settled(q)
        BY <2>4, <3>1 DEF AssignFd
      <4>2. /\ accept[q] = "assign" /\ accept'[q] = "open" /\ newfd'[q] = fresh[q]
            /\ UNCHANGED <<conn, made, port, ended, isOpen, fresh, source, writing, receive>>
        BY <2>4, <4>1 DEF AssignFd, AcceptGoes
      <4>3. /\ ~isOpen[q] /\ source[q] = 0 /\ receive[q] \in {"idle", "test"}
            /\ conn[fresh[q]] # 0 /\ port[conn[fresh[q]]] = q
        BY <2>0, <4>1, <4>2 DEF Settled, Global, GlobalOf
      <4> QED
        BY <4>2, <4>3 DEF PortInv
    <3>2. CASE q \notin confused /\ p = q
      <4>1. /\ accept[q] = "assign" /\ accept'[q] = "open" /\ newfd'[q] = fresh[q]
            /\ receive[q] \notin {"shutdown", "close"}
            /\ UNCHANGED <<conn, made, port, ended, isOpen, fresh, source, writing, receive>>
        BY <2>4, <3>2 DEF AssignFd, AcceptGoes
      <4>2. PortInv(q) /\ ~isOpen[q] /\ fresh[q] # NoFd
        BY <2>0, <3>2, <4>1 DEF Global, GlobalOf
      <4> QED
        BY <4>1, <4>2 DEF PortInv
    <3>3. CASE q \notin confused /\ p # q
      BY <2>0, <2>4, <3>3 DEF AssignFd, AcceptGoes, PortInv
    <3> QED
      BY <3>1, <3>2, <3>3
  <2>5. ASSUME NEW p \in Ports, SetFlag(p)
        PROVE  PortInv(q)'
    <3>1. PortInv(q)
      BY <2>0, <2>5 DEF SetFlag
    <3>2. CASE p = q
      BY <2>0, <2>5, <3>1, <3>2 DEF SetFlag, AcceptGoes, ReceiveGoes, PortInv, Global, GlobalOf
    <3>3. CASE p # q
      BY <2>5, <3>1, <3>3 DEF SetFlag, AcceptGoes, ReceiveGoes, PortInv
    <3> QED
      BY <3>2, <3>3
  <2>6. ASSUME NEW p \in Ports, NEW t \in {"accept", "receive"}, ClearFlag(t, p)
        PROVE  PortInv(q)'
    <3>1. PortInv(q)
      BY <2>0, <2>6 DEF ClearFlag
    <3>2. CASE p = q
      <4>1. CASE t = "accept"
        BY <2>6, <3>1, <3>2, <4>1 DEF ClearFlag, CloseGoes, AcceptGoes, ReceiveGoes, PortInv
      <4>2. CASE t = "receive"
        <5>1. /\ receive[q] = "flag" /\ receive'[q] = "shutdown"
              /\ accept[q] # "open" /\ isOpen'[q] = FALSE
              /\ UNCHANGED <<conn, port, newfd, fresh, accept, source, writing>>
          BY <2>6, <3>2, <4>2 DEF ClearFlag, CloseGoes, ReceiveGoes
        <5> QED
          BY <3>1, <5>1 DEF PortInv
      <4> QED
        BY <4>1, <4>2
    <3>3. CASE p # q
      BY <2>6, <3>1, <3>3 DEF ClearFlag, CloseGoes, AcceptGoes, ReceiveGoes, PortInv
    <3> QED
      BY <3>2, <3>3
  <2>7. ASSUME NEW p \in Ports, NEW t \in {"accept", "receive"}, Shutdown(t, p)
        PROVE  PortInv(q)'
    <3>1. PortInv(q)
      BY <2>0, <2>7 DEF Shutdown
    <3>2. CASE p = q
      BY <2>0, <2>7, <3>1, <3>2 DEF Shutdown, CloseGoes, AcceptGoes, ReceiveGoes, PortInv
    <3>3. CASE p # q
      BY <2>7, <3>1, <3>3 DEF Shutdown, CloseGoes, AcceptGoes, ReceiveGoes, PortInv
    <3> QED
      BY <3>2, <3>3
  <2>8. ASSUME NEW p \in Ports, NEW t \in {"accept", "receive"}, CloseFd(t, p)
        PROVE  PortInv(q)'
    <3>1. PortInv(q)
      BY <2>0, <2>8 DEF CloseFd
    <3>2. CASE p = q
      BY <2>0, <2>8, <3>1, <3>2 DEF CloseFd, CloseGoes, AcceptGoes, ReceiveGoes, PortInv, Global, GlobalOf
    <3>3. CASE p # q
      <4>1. /\ conn' = [conn EXCEPT ![newfd[p]] = 0] /\ source'[q] = source[q]
            /\ accept'[q] = accept[q] /\ receive'[q] = receive[q]
            /\ accept[p] = "close" \/ receive[p] = "close"
            /\ UNCHANGED <<made, port, ended, isOpen, newfd, fresh, writing>>
        BY <2>8, <3>3 DEF CloseFd, CloseGoes, AcceptGoes, ReceiveGoes
      <4>2. newfd[p] \in Fds => ~Holds(q, newfd[p])
        <5>1. newfd[p] \in Fds => Holds(p, newfd[p])
          BY <4>1 DEF Holds
        <5>2. q \notin confused
          BY <2>8 DEF CloseFd
        <5> QED
          BY <2>0, <3>3, <5>1, <5>2 DEF Apart
      <4>3. CASE newfd[p] = newfd[q]
        <5>1. CASE newfd[p] \in Fds
          BY <3>1, <4>1, <4>2, <4>3, <5>1 DEF Holds, PortInv
        <5>2. CASE newfd[p] = NoFd
          BY <3>1, <4>1, <4>3, <5>2 DEF PortInv
        <5> QED
          BY <5>1, <5>2
      <4>4. CASE newfd[p] # newfd[q]
        <5>1. conn'[newfd[q]] = conn[newfd[q]]
          BY <4>1, <4>4
        <5>2. fresh[q] # NoFd => conn'[fresh[q]] = conn[fresh[q]]
          BY <4>1, <4>2 DEF Holds
        <5> QED
          BY <3>1, <4>1, <5>1, <5>2 DEF PortInv
      <4> QED
        BY <4>3, <4>4
    <3> QED
      BY <3>2, <3>3
  <2>9. ASSUME NEW p \in Ports, Poll(p)
        PROVE  PortInv(q)'
    <3>1. PortInv(q)
      BY <2>0, <2>9 DEF Poll
    <3>2. CASE p = q
      BY <2>0, <2>9, <3>1, <3>2 DEF Poll, AcceptGoes, ReceiveGoes, PortInv
    <3>3. CASE p # q
      BY <2>9, <3>1, <3>3 DEF Poll, AcceptGoes, ReceiveGoes, PortInv
    <3> QED
      BY <3>2, <3>3
  <2>10. ASSUME NEW p \in Ports, BeginRecv(p)
        PROVE  PortInv(q)'
    <3>1. PortInv(q)
      BY <2>0, <2>10 DEF BeginRecv
    <3>2. CASE p = q
      <4>1. /\ receive[q] = "test" /\ receive'[q] = IF Current(q) = 0 THEN "flag" ELSE "recv"
            /\ source'[q] = Current(q)
            /\ UNCHANGED <<conn, port, isOpen, newfd, fresh, accept, writing>>
        BY <2>10, <3>2 DEF BeginRecv, ReceiveGoes
      <4>2. receive'[q] \in {"flag", "recv"}
        BY <4>1
      <4>3. Current(q) # 0 => port[Current(q)] = q
        <5>1. CASE accept[q] = "open"
          BY <2>0, <3>1, <4>1, <5>1 DEF PortInv, Global, GlobalOf
        <5>2. CASE accept[q] # "open"
          BY <3>1, <4>1, <5>2 DEF PortInv
        <5> QED
          BY <5>1, <5>2
      <4> QED
        BY <3>1, <4>1, <4>2, <4>3 DEF PortInv
    <3>3. CASE p # q
      BY <2>10, <3>1, <3>3 DEF BeginRecv, AcceptGoes, ReceiveGoes, PortInv
    <3> QED
      BY <3>2, <3>3
  <2>11. ASSUME NEW p \in Ports, Received(p)
        PROVE  PortInv(q)'
    <3>1. PortInv(q)
      BY <2>0, <2>11 DEF Received
    <3>2. CASE p = q
      BY <2>0, <2>11, <3>1, <3>2 DEF Received, AcceptGoes, ReceiveGoes, PortInv
    <3>3. CASE p # q
      BY <2>11, <3>1, <3>3 DEF Received, AcceptGoes, ReceiveGoes, PortInv
    <3> QED
      BY <3>2, <3>3
  <2>12. ASSUME NEW p \in Ports, RecvEnds(p)
        PROVE  PortInv(q)'
    <3>1. PortInv(q)
      BY <2>0, <2>12 DEF RecvEnds
    <3>2. CASE p = q
      BY <2>0, <2>12, <3>1, <3>2 DEF RecvEnds, AcceptGoes, ReceiveGoes, PortInv
    <3>3. CASE p # q
      BY <2>12, <3>1, <3>3 DEF RecvEnds, AcceptGoes, ReceiveGoes, PortInv
    <3> QED
      BY <3>2, <3>3
  <2>13. ASSUME NEW c \in (1..made) \ ended, PeerCloses(c)
         PROVE  PortInv(q)'
    BY <2>0, <2>13 DEF PeerCloses, PortInv
  <2>14. ASSUME NEW p \in Ports, BeginWrite(p) \/ Send(p)
         PROVE  PortInv(q)'
    BY <2>0, <2>14 DEF BeginWrite, Send, PortInv
  <2>15. CASE UNCHANGED vars
    BY <2>0, <2>15 DEF vars, PortInv
  <2> QED
    BY <2>1, <2>2, <2>3, <2>4, <2>5, <2>6, <2>7, <2>8, <2>9, <2>10, <2>11, <2>12, <2>13, <2>14, <2>15
       DEF Next, AcceptStep, ReceiveStep, Close
<1>3. Inv => OwnOnly
  BY DEF Inv, PortInv, OwnOnly
<1> QED
  BY <1>1, <1>2, <1>3, TypeCorrect, PTL DEF Spec
=============================================================================
