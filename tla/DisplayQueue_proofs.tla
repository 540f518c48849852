------------------------ MODULE DisplayQueue_proofs ------------------------
(***************************************************************************)
(* Proofs about DisplayQueue, for any lines, bounds and circumstances.     *)
(***************************************************************************)
EXTENDS DisplayQueue, WellFoundedInduction, TLAPS

(* A loop over the list that stops at the first place finds one.           *)
LEMMA FirstIsThere ==
    ASSUME NEW places \in SUBSET Nat, places # {}
    PROVE  FirstOf(places) \in places /\ \A j \in places : FirstOf(places) <= j
<1> DEFINE R == {ss \in Nat \X Nat : ss[1] < ss[2]}
<1>1. IsWellFoundedOn(R, Nat)
  BY NatLessThanWellFounded DEF OpToRel
<1>2. \E i \in places : \A j \in places : <<j, i>> \notin R
  <2> HIDE DEF R
  <2> QED  BY <1>1, WFMin
<1>3. \A i, j \in places : <<j, i>> \notin R => i <= j
  <2> TAKE i, j \in places
  <2>1. i \in Nat /\ j \in Nat
    OBVIOUS
  <2> QED  BY <2>1
<1>4. \E i \in places : \A j \in places : i <= j
  <2> HIDE DEF R
  <2> QED  BY <1>2, <1>3
<1> QED  BY <1>4 DEF FirstOf

Nodes == [line : Lines, status : BOOLEAN, content : 0..MaxPuts]

(* The types, those of the list apart from the others'.                    *)
LEMMA ListTypes ==
    ASSUME TypeOK
    PROVE  /\ list \in Seq(Nodes) /\ Len(list) \in Nat /\ DOMAIN list = 1..Len(list)
           /\ \A i \in DOMAIN list : list[i] \in Nodes
<1>1. list \in Seq(Nodes)
  BY DEF TypeOK, Nodes
<1> QED  BY <1>1

LEMMA OtherTypes ==
    ASSUME TypeOK
    PROVE  /\ wanted \in [Lines -> 0..MaxPuts] /\ wanted \in [Lines -> Nat]
           /\ panel \in [Lines -> 0..MaxPuts] /\ panel \in [Lines -> Nat]
           /\ buff \in 0..MaxPuts /\ buff \in Nat /\ node \in 0..Len(list)
           /\ (pc # "find" => node > 0) /\ booted \in 0..Len(Boot) /\ booted \in Nat
<1>1. /\ wanted \in [Lines -> 0..MaxPuts] /\ panel \in [Lines -> 0..MaxPuts]
      /\ buff \in 0..MaxPuts /\ node \in 0..Len(list) /\ (pc # "find" => node > 0)
      /\ booted \in 0..Len(Boot)
  BY DEF TypeOK
<1>2. 0..MaxPuts \subseteq Nat /\ 0..Len(Boot) \subseteq Nat
  BY BoundAssumption, BootAssumption
<1> QED  BY <1>1, <1>2

(* A node is written in place.                                             *)
LEMMA NodeIsPut ==
    ASSUME TypeOK, NEW p \in DOMAIN list, NEW n \in Nodes, n.line = list[p].line,
           list' = [list EXCEPT ![p] = n]
    PROVE  /\ list' \in Seq(Nodes) /\ Len(list') = Len(list)
           /\ list'[p] = n /\ \A i \in DOMAIN list \ {p} : list'[i] = list[i]
           /\ \A m \in Lines : PlacesOf(m)' = PlacesOf(m) /\ Doubled(m)' = Doubled(m)
<1>1. /\ list' \in Seq(Nodes) /\ Len(list') = Len(list) /\ DOMAIN list' = DOMAIN list
      /\ list'[p] = n /\ \A i \in DOMAIN list \ {p} : list'[i] = list[i]
  <2> HIDE DEF Nodes
  <2>1. list \in Seq(Nodes) /\ DOMAIN list = 1..Len(list)
    BY ListTypes
  <2>2. list' \in Seq(Nodes) /\ Len(list') = Len(list)
    BY <2>1
  <2> QED  BY <2>1, <2>2
<1>2. \A m \in Lines : PlacesOf(m)' = PlacesOf(m)
  BY <1>1 DEF PlacesOf
<1> QED  BY <1>1, <1>2 DEF Doubled

(* A node is added at the end.                                             *)
LEMMA NodeIsAdded ==
    ASSUME TypeOK, NEW n \in Nodes, HeadTail(n)
    PROVE  /\ list' \in Seq(Nodes) /\ Len(list') = Len(list) + 1
           /\ list'[Len(list) + 1] = n /\ \A i \in DOMAIN list : list'[i] = list[i]
           /\ PlacesOf(n.line)' = PlacesOf(n.line) \cup {Len(list) + 1}
           /\ \A m \in Lines \ {n.line} : PlacesOf(m)' = PlacesOf(m) /\ Doubled(m)' = Doubled(m)
           /\ PlacesOf(n.line) # {} => Doubled(n.line)'
           /\ Len(list) + 1 \notin DOMAIN list
<1>1. /\ list' \in Seq(Nodes) /\ Len(list') = Len(list) + 1
      /\ DOMAIN list = 1..Len(list) /\ DOMAIN list' = 1..(Len(list) + 1) /\ Len(list) \in Nat
      /\ list'[Len(list) + 1] = n /\ \A i \in DOMAIN list : list'[i] = list[i]
  <2>1. list \in Seq(Nodes) /\ list' = Append(list, n)
    BY DEF TypeOK, HeadTail, Nodes
  <2> QED  BY <2>1
<1>2. /\ \A m \in Lines \ {n.line} : PlacesOf(m)' = PlacesOf(m)
      /\ PlacesOf(n.line)' = PlacesOf(n.line) \cup {Len(list) + 1}
  BY <1>1 DEF PlacesOf
<1>3. Len(list) + 1 \notin PlacesOf(n.line)
  BY <1>1 DEF PlacesOf
<1> QED  BY <1>1, <1>2, <1>3 DEF Doubled

LEMMA TypeStep == TypeOK /\ [Next]_vars => TypeOK'
<1> SUFFICES ASSUME TypeOK, [Next]_vars PROVE TypeOK'
  OBVIOUS
<1>0. /\ Len(list) \in Nat /\ DOMAIN list = 1..Len(list)
      /\ \A i \in DOMAIN list : list[i] \in Nodes
  <2>1. list \in Seq(Nodes)
    BY DEF TypeOK, Nodes
  <2> QED  BY <2>1
<1>1. CASE UNCHANGED vars
  BY <1>1 DEF TypeOK, vars
<1>2. ASSUME NEW l \in Lines, ShowAdd(l) PROVE TypeOK'
  <2>1. wanted' \in [Lines -> 0..MaxPuts] /\ wanted[l] + 1 \in 0..MaxPuts
    <3>1. wanted \in [Lines -> 0..MaxPuts] /\ wanted[l] \in Nat
      BY OtherTypes
    <3>2. wanted[l] + 1 \in 0..MaxPuts /\ wanted' = [wanted EXCEPT ![l] = wanted[l] + 1]
      BY <1>2, <3>1, BoundAssumption DEF ShowAdd
    <3> QED  BY <3>1, <3>2
  <2>2. CASE PlacesOf(l) # {}
    <3> DEFINE p == FirstOf(PlacesOf(l))
               n == [list[p] EXCEPT !.status = TRUE, !.content = wanted[l] + 1]
    <3>1. p \in DOMAIN list
      <4>1. PlacesOf(l) \in SUBSET Nat
        BY <1>0 DEF PlacesOf
      <4>2. p \in PlacesOf(l)
        BY <2>2, <4>1, FirstIsThere
      <4> QED  BY <4>2 DEF PlacesOf
    <3>2. list[p] \in Nodes
      BY <1>0, <3>1
    <3>3. n \in Nodes /\ n.line = list[p].line
      BY <2>1, <3>2 DEF Nodes
    <3>4. list' = [list EXCEPT ![p] = n]
      BY <1>2, <2>2 DEF ShowAdd
    <3> HIDE DEF n, p
    <3>5. list' \in Seq(Nodes) /\ Len(list') = Len(list)
      BY <3>1, <3>3, <3>4, NodeIsPut
    <3> QED  BY <1>2, <2>1, <2>2, <3>5 DEF ShowAdd, TypeOK, Nodes
  <2>3. CASE PlacesOf(l) = {}
    BY <1>2, <2>1, <2>3 DEF ShowAdd, TypeOK
  <2> QED  BY <2>2, <2>3
<1>3. CASE AppendNode
  <2> DEFINE n == [CreateNode(adding) EXCEPT !.status = TRUE, !.content = wanted[adding]]
  <2>1. adding \in Lines /\ n \in Nodes
    BY <1>3, BoundAssumption DEF AppendNode, CreateNode, TypeOK, Nodes
  <2>2. HeadTail(n)
    BY <1>3 DEF AppendNode
  <2> HIDE DEF n
  <2>3. list' \in Seq(Nodes) /\ Len(list') = Len(list) + 1 /\ Len(list) \in Nat
    BY <1>0, <2>1, <2>2, NodeIsAdded
  <2> QED  BY <1>3, <2>3 DEF AppendNode, TypeOK, Nodes
<1>4. CASE ListTaskInit
  <2> DEFINE n == CreateNode(Boot[booted + 1])
  <2>1. booted + 1 \in 1..Len(Boot)
    BY <1>4, BootAssumption DEF ListTaskInit, Up, TypeOK
  <2>n. n \in Nodes
    BY <2>1, BootAssumption, BoundAssumption DEF CreateNode, Nodes
  <2>2. HeadTail(n)
    BY <1>4 DEF ListTaskInit
  <2> HIDE DEF n
  <2>3. list' \in Seq(Nodes) /\ Len(list') = Len(list) + 1 /\ Len(list) \in Nat
    BY <1>0, <2>n, <2>2, NodeIsAdded
  <2>4. booted' \in 0..Len(Boot) /\ node' \in 0..Len(list') /\ (pc' # "find" => node' > 0)
    BY <1>4, <2>1, <2>3, BootAssumption DEF ListTaskInit, TypeOK
  <2> QED  BY <1>4, <2>3, <2>4 DEF ListTaskInit, TypeOK, Nodes
<1>5. CASE FindNode
  <2>1. FirstOf(SetPlaces) \in SetPlaces
    <3>1. SetPlaces \in SUBSET Nat /\ SetPlaces # {}
      BY <1>0, <1>5 DEF FindNode, SetPlaces
    <3> QED  BY <3>1, FirstIsThere
  <2>2. node' \in 1..Len(list)
    BY <1>0, <1>5, <2>1 DEF FindNode, SetPlaces
  <2>3. node' \in 0..Len(list) /\ node' > 0
    BY <1>0, <2>2
  <2>4. pc' = "take" /\ UNCHANGED <<list, booted, adding, wanted, buff, open, panel, missed>>
    BY <1>5 DEF FindNode
  <2> QED  BY <2>3, <2>4 DEF TypeOK
<1>6. CASE TakeNode
  <2> DEFINE n == [list[node] EXCEPT !.status = FALSE]
  <2>1. node \in DOMAIN list
    BY <1>0, <1>6 DEF TakeNode, TypeOK
  <2>2. list[node] \in Nodes
    BY <1>0, <2>1
  <2>3. n \in Nodes /\ n.line = list[node].line
    BY <2>2 DEF Nodes
  <2>4. list' = [list EXCEPT ![node] = n]
    BY <1>6 DEF TakeNode
  <2> HIDE DEF n
  <2>5. list' \in Seq(Nodes) /\ Len(list') = Len(list)
    BY <2>1, <2>3, <2>4, NodeIsPut
  <2> QED  BY <1>6, <2>2, <2>5 DEF TakeNode, TypeOK, Nodes
<1>7. CASE Send
  <2>1. node \in DOMAIN list
    BY <1>0, <1>7, OtherTypes DEF Send
  <2>2. list[node].line \in Lines
    BY <1>0, <2>1 DEF Nodes
  <2>3. /\ panel' = panel \/ panel' = [panel EXCEPT ![list[node].line] = buff]
        /\ missed' \subseteq missed /\ open' \in {open, FALSE}
    BY <1>7 DEF Send, Deliver, SendFails, TcpSendFails, SerialSendFails
  <2>4. panel' \in [Lines -> 0..MaxPuts] /\ missed' \subseteq Lines /\ open' \in BOOLEAN
    <3>1. missed \subseteq Lines /\ open \in BOOLEAN
      BY DEF TypeOK
    <3>2. panel' \in [Lines -> 0..MaxPuts]
      BY <2>2, <2>3, OtherTypes
    <3> QED  BY <2>3, <3>1, <3>2
  <2>5. /\ pc' \in {"find", "take", "send", "resend"} /\ (pc' # "find" => pc # "find")
        /\ UNCHANGED <<list, booted, adding, wanted, node, buff>>
    BY <1>7 DEF Send
  <2> QED  BY <2>4, <2>5 DEF TypeOK
<1>8. CASE Reconnect
  BY <1>8 DEF Reconnect, Open, TypeOK
<1> QED
  BY <1>1, <1>2, <1>3, <1>4, <1>5, <1>6, <1>7, <1>8 DEF Next, DisplayThread

LEMMA TypeStart == Init => TypeOK
BY BoundAssumption, BootAssumption DEF Init, TypeOK

(* Nodes stay well-formed, and the thread's node is one of the list.       *)
THEOREM TypeCorrect == Spec => []TypeOK
BY TypeStart, TypeStep, PTL DEF Spec

(***************************************************************************)
(* A line that has one node at most: its node holds what was put last; the *)
(* panel is not ahead of what is being sent, which is what the node holds  *)
(* unless it was overwritten meanwhile; and a line that nothing is taken   *)
(* from or missed by shows what its node holds.                            *)
(***************************************************************************)
NodeInv(l, i) ==
    /\ list[i].content = IF adding = l THEN 0 ELSE wanted[l]
    /\ adding = l => ~ list[i].status
    /\ ~ list[i].status /\ l \notin missed => panel[l] = list[i].content
    /\ pc = "take" /\ node = i => list[i].status
    /\ pc \in {"send", "resend"} /\ node = i =>
          /\ adding # l /\ panel[l] <= buff /\ buff <= wanted[l]
          /\ ~ list[i].status => buff = list[i].content

LineInv(l) ==
    /\ panel[l] <= wanted[l]
    /\ adding = l => panel[l] = 0
    /\ adding # l /\ PlacesOf(l) = {} => wanted[l] = 0
    /\ \A i \in PlacesOf(l) : NodeInv(l, i)

QueueInv == TypeOK /\ \A l \in Lines : Doubled(l) \/ LineInv(l)

(* What a step does not touch of a line keeps its LineInv.                 *)
LEMMA LineIsKept ==
    ASSUME NEW m \in Lines, LineInv(m), PlacesOf(m)' = PlacesOf(m),
           \A i \in PlacesOf(m) : list'[i] = list[i],
           wanted'[m] = wanted[m], panel'[m] = panel[m], m \in missed => m \in missed',
           adding' = m <=> adding = m,
           \/ UNCHANGED <<pc, node, buff>>
           \/ pc' = "find"
           \/ \A i \in PlacesOf(m) : node' # i
    PROVE  LineInv(m)'
BY DEF LineInv, NodeInv

LEMMA QueueStep == QueueInv /\ [Next]_vars => QueueInv'
<1> SUFFICES ASSUME QueueInv, [Next]_vars PROVE \A m \in Lines : Doubled(m)' \/ LineInv(m)'
  BY TypeStep DEF QueueInv
<1>0. /\ TypeOK /\ TypeOK'
      /\ Len(list) \in Nat /\ DOMAIN list = 1..Len(list)
      /\ \A i \in DOMAIN list : list[i] \in Nodes
      /\ \A m \in Lines : wanted[m] \in Nat /\ panel[m] \in Nat
  <2>1. TypeOK /\ TypeOK'
    BY TypeStep DEF QueueInv
  <2>2. list \in Seq(Nodes)
    BY <2>1 DEF TypeOK, Nodes
  <2>3. \A m \in Lines : wanted[m] \in Nat /\ panel[m] \in Nat
    BY <2>1, BoundAssumption DEF TypeOK
  <2> QED  BY <2>1, <2>2, <2>3
<1>1. CASE UNCHANGED vars
  BY <1>1 DEF vars, QueueInv, Doubled, PlacesOf, LineInv, NodeInv
<1>2. ASSUME NEW l \in Lines, ShowAdd(l), NEW m \in Lines PROVE Doubled(m)' \/ LineInv(m)'
  <2>1. adding = NoLine /\ adding # l /\ adding # m /\ wanted'[l] = wanted[l] + 1
    BY <1>0, <1>2, LinesAssumption DEF ShowAdd, TypeOK
  <2>2. /\ UNCHANGED <<pc, node, buff, panel, missed>>
        /\ \A k \in Lines \ {l} : wanted'[k] = wanted[k]
    BY <1>0, <1>2 DEF ShowAdd, TypeOK
  <2>3. CASE PlacesOf(l) # {}
    <3>1. PICK p \in PlacesOf(l) : p = FirstOf(PlacesOf(l))
      <4>1. PlacesOf(l) \in SUBSET Nat
        BY <1>0 DEF PlacesOf
      <4> QED  BY <2>3, <4>1, FirstIsThere
    <3>2. p \in DOMAIN list /\ list[p] \in Nodes /\ list[p].line = l
      BY <1>0, <3>1 DEF PlacesOf
    <3>3. PICK n \in Nodes : /\ n.line = list[p].line /\ n.status = TRUE
                             /\ n.content = wanted[l] + 1
                             /\ n = [list[p] EXCEPT !.status = TRUE, !.content = wanted[l] + 1]
      BY <1>0, <1>2, <3>2, BoundAssumption DEF Nodes, ShowAdd, TypeOK
    <3>4. list' = [list EXCEPT ![p] = n] /\ adding' = adding
      BY <1>2, <2>3, <3>1, <3>3 DEF ShowAdd
    <3>5. /\ list'[p] = n /\ \A i \in DOMAIN list \ {p} : list'[i] = list[i]
          /\ \A k \in Lines : PlacesOf(k)' = PlacesOf(k) /\ Doubled(k)' = Doubled(k)
      BY <1>0, <3>2, <3>3, <3>4, NodeIsPut
    <3>6. CASE m # l
      <4>1. \A i \in PlacesOf(m) : list'[i] = list[i]
        BY <3>2, <3>5, <3>6 DEF PlacesOf
      <4> QED  BY <2>2, <3>4, <3>5, <3>6, <4>1, LineIsKept DEF QueueInv
    <3>7. CASE m = l /\ ~ Doubled(l)
      <4>1. LineInv(l)
        BY <3>7 DEF QueueInv
      <4>2. PlacesOf(l) = {p}
        BY <3>1, <3>7 DEF Doubled
      <4>3. NodeInv(l, p)'
        BY <1>0, <2>1, <2>2, <3>3, <3>4, <3>5, <4>1, <4>2 DEF LineInv, NodeInv, TypeOK
      <4>4. panel'[l] <= wanted'[l] /\ adding' # l
        BY <1>0, <2>1, <2>2, <3>4, <4>1 DEF LineInv
      <4> QED  BY <3>5, <3>7, <4>2, <4>3, <4>4 DEF LineInv
    <3> QED  BY <3>5, <3>6, <3>7
  <2>4. CASE PlacesOf(l) = {}
    <3>1. adding' = l /\ list' = list
      BY <1>2, <2>4 DEF ShowAdd
    <3>2. PlacesOf(m)' = PlacesOf(m) /\ Doubled(m)' = Doubled(m)
      BY <3>1 DEF PlacesOf, Doubled
    <3>3. CASE m # l
      BY <2>1, <2>2, <3>1, <3>2, <3>3, LineIsKept DEF QueueInv
    <3>4. CASE m = l
      <4>1. LineInv(l)
        BY <2>4 DEF QueueInv, Doubled
      <4> QED  BY <1>0, <2>1, <2>2, <2>4, <3>1, <3>2, <3>4, <4>1 DEF LineInv
    <3> QED  BY <3>3, <3>4
  <2> QED  BY <2>3, <2>4
<1>3. ASSUME AppendNode, NEW m \in Lines PROVE Doubled(m)' \/ LineInv(m)'
  <2>l. PICK l \in Lines : adding = l
    BY <1>0, <1>3 DEF AppendNode, TypeOK
  <2>k. PICK k : k = Len(list) + 1
    OBVIOUS
  <2>1. PICK n \in Nodes : /\ n.line = l /\ n.status = TRUE /\ n.content = wanted[l]
                           /\ n = [CreateNode(l) EXCEPT !.status = TRUE, !.content = wanted[l]]
    BY <1>0, <2>l, BoundAssumption DEF CreateNode, TypeOK, Nodes
  <2>2. HeadTail(n) /\ adding' = NoLine /\ UNCHANGED <<wanted, pc, node, buff, panel, missed>>
    BY <1>3, <2>l, <2>1 DEF AppendNode
  <2>3. /\ list'[k] = n /\ \A i \in DOMAIN list : list'[i] = list[i]
        /\ PlacesOf(l)' = PlacesOf(l) \cup {k}
        /\ \A j \in Lines \ {l} : PlacesOf(j)' = PlacesOf(j) /\ Doubled(j)' = Doubled(j)
        /\ PlacesOf(l) # {} => Doubled(l)'
    BY <1>0, <2>1, <2>2, <2>k, NodeIsAdded
  <2>4. CASE m # l
    <3>1. \A i \in PlacesOf(m) : list'[i] = list[i]
      BY <2>3 DEF PlacesOf
    <3> QED  BY <2>l, <2>2, <2>3, <2>4, <3>1, LineIsKept, LinesAssumption DEF QueueInv
  <2>5. CASE m = l /\ PlacesOf(l) = {}
    <3>1. LineInv(m)
      BY <2>5 DEF QueueInv, Doubled
    <3>2. node # k
      BY <1>0, <2>k DEF TypeOK
    <3>3. NodeInv(m, k)'
      BY <2>1, <2>2, <2>3, <2>5, <3>2, LinesAssumption DEF NodeInv
    <3> QED
      BY <2>2, <2>3, <2>5, <3>1, <3>3, LinesAssumption DEF LineInv
  <2> QED  BY <2>3, <2>4, <2>5
<1>4. ASSUME ListTaskInit, NEW m \in Lines PROVE Doubled(m)' \/ LineInv(m)'
  <2>k. PICK k : k = Len(list) + 1
    OBVIOUS
  <2>1. booted + 1 \in 1..Len(Boot)
    BY <1>0, <1>4, BootAssumption DEF ListTaskInit, Up, TypeOK
  <2>l. PICK l \in Lines : l = Boot[booted + 1]
    BY <2>1, BootAssumption
  <2>2. PICK n \in Nodes : /\ n.line = l /\ n.status = FALSE /\ n.content = 0
                           /\ n = CreateNode(l)
    <3>1. CreateNode(l) \in Nodes
      BY BoundAssumption DEF CreateNode, Nodes
    <3> QED  BY <3>1 DEF CreateNode
  <2>3. HeadTail(n) /\ UNCHANGED <<adding, wanted, pc, node, buff, panel, missed>>
    BY <1>4, <2>l, <2>2 DEF ListTaskInit
  <2>4. /\ list'[k] = n /\ \A i \in DOMAIN list : list'[i] = list[i]
        /\ PlacesOf(l)' = PlacesOf(l) \cup {k}
        /\ \A j \in Lines \ {l} : PlacesOf(j)' = PlacesOf(j) /\ Doubled(j)' = Doubled(j)
        /\ PlacesOf(l) # {} => Doubled(l)'
    BY <1>0, <2>2, <2>3, <2>k, NodeIsAdded
  <2>5. CASE m # l
    <3>1. \A i \in PlacesOf(m) : list'[i] = list[i]
      BY <2>4 DEF PlacesOf
    <3> QED  BY <2>3, <2>4, <2>5, <3>1, LineIsKept DEF QueueInv
  <2>6. CASE m = l /\ PlacesOf(l) = {}
    <3>1. LineInv(m)
      BY <2>6 DEF QueueInv, Doubled
    <3>2. node # k
      BY <1>0, <2>k DEF TypeOK
    <3>3. panel[m] = 0 /\ (adding # m => wanted[m] = 0)
      BY <1>0, <2>6, <3>1 DEF LineInv
    <3>4. NodeInv(m, k)'
      BY <2>2, <2>3, <2>4, <2>6, <3>2, <3>3 DEF NodeInv
    <3> QED  BY <2>3, <2>4, <2>6, <3>1, <3>4 DEF LineInv
  <2> QED  BY <2>4, <2>5, <2>6
<1>5. ASSUME FindNode, NEW m \in Lines PROVE Doubled(m)' \/ LineInv(m)'
  <2>1. /\ UNCHANGED <<list, adding, wanted, panel, missed>>
        /\ PlacesOf(m)' = PlacesOf(m) /\ Doubled(m)' = Doubled(m)
    BY <1>5 DEF FindNode, PlacesOf, Doubled
  <2>2. SetPlaces \in SUBSET Nat /\ SetPlaces # {}
    BY <1>0, <1>5 DEF FindNode, SetPlaces
  <2>3. pc' = "take" /\ node' \in SetPlaces
    BY <1>5, <2>2, FirstIsThere DEF FindNode
  <2>4. list[node'].status
    BY <2>3 DEF SetPlaces
  <2> QED  BY <2>1, <2>3, <2>4 DEF QueueInv, LineInv, NodeInv
<1>6. ASSUME TakeNode, NEW m \in Lines PROVE Doubled(m)' \/ LineInv(m)'
  <2>1. PICK q \in DOMAIN list, l \in Lines : q = node /\ list[q] \in Nodes /\ l = list[q].line
    BY <1>0, <1>6 DEF TakeNode, TypeOK, Nodes
  <2>2. PICK n \in Nodes : /\ n.line = l /\ n.status = FALSE /\ n.content = list[q].content
                           /\ n = [list[q] EXCEPT !.status = FALSE]
    BY <2>1 DEF Nodes
  <2>3. /\ list' = [list EXCEPT ![q] = n] /\ pc' = "send" /\ buff' = list[q].content
        /\ missed' = missed \cup {l} /\ UNCHANGED <<adding, wanted, node, panel>>
    BY <1>6, <2>1, <2>2 DEF TakeNode
  <2>4. /\ list'[q] = n /\ \A i \in DOMAIN list \ {q} : list'[i] = list[i]
        /\ \A k \in Lines : PlacesOf(k)' = PlacesOf(k) /\ Doubled(k)' = Doubled(k)
    BY <1>0, <2>1, <2>2, <2>3, NodeIsPut
  <2>5. q \in PlacesOf(l)
    BY <2>1 DEF PlacesOf
  <2>6. CASE m # l
    <3>1. q \notin PlacesOf(m) /\ PlacesOf(m) \subseteq DOMAIN list
      BY <2>1, <2>6 DEF PlacesOf
    <3>2. \A i \in PlacesOf(m) : list'[i] = list[i] /\ node' # i
      BY <2>1, <2>3, <2>4, <3>1
    <3> QED  BY <2>3, <2>4, <2>6, <3>2, LineIsKept DEF QueueInv
  <2>7. CASE m = l /\ ~ Doubled(l)
    <3>1. LineInv(l)
      BY <2>7 DEF QueueInv
    <3>2. PlacesOf(l) = {q}
      BY <2>5, <2>7 DEF Doubled
    <3>3. list[q].status /\ adding # l /\ list[q].content = wanted[l]
      BY <1>6, <2>1, <3>1, <3>2 DEF TakeNode, LineInv, NodeInv
    <3>4. NodeInv(l, q)'
      BY <1>0, <2>1, <2>2, <2>3, <2>4, <3>1, <3>3 DEF LineInv, NodeInv
    <3> QED  BY <2>3, <2>4, <2>7, <3>1, <3>2, <3>4 DEF LineInv
  <2> QED  BY <2>1, <2>4, <2>6, <2>7
<1>7. ASSUME Send, NEW m \in Lines PROVE Doubled(m)' \/ LineInv(m)'
  <2>1. PICK q \in DOMAIN list, l \in Lines : q = node /\ l = list[q].line /\ q \in PlacesOf(l)
    <3>1. node \in DOMAIN list
      BY <1>0, <1>7 DEF Send, TypeOK
    <3>2. list[node].line \in Lines
      BY <1>0, <3>1 DEF Nodes
    <3> QED  BY <3>1, <3>2 DEF PlacesOf
  <2>2. /\ UNCHANGED <<list, adding, wanted, node, buff>>
        /\ pc \in {"send", "resend"} /\ pc' \in {"resend", "find"}
        /\ PlacesOf(m)' = PlacesOf(m) /\ Doubled(m)' = Doubled(m)
    BY <1>7 DEF Send, PlacesOf, Doubled
  <2>3. \/ panel' = panel /\ missed' = missed
        \/ panel' = [panel EXCEPT ![l] = buff] /\ missed' = missed \ {l}
    BY <1>7, <2>1 DEF Send, Deliver, SendFails, TcpSendFails, SerialSendFails
  <2>4. \A i \in PlacesOf(m) : i = q => m = l
    BY <2>1 DEF PlacesOf
  <2>5. CASE m # l
    <3>1. panel'[m] = panel[m] /\ (m \in missed => m \in missed')
      BY <1>0, <2>3, <2>5 DEF TypeOK
    <3>2. \A i \in PlacesOf(m) : node' # i
      BY <2>1, <2>2, <2>4, <2>5
    <3> QED  BY <2>2, <3>1, <3>2, LineIsKept DEF QueueInv
  <2>6. CASE m = l /\ ~ Doubled(l)
    <3>1. LineInv(l) /\ PlacesOf(l) = {q}
      BY <2>1, <2>6 DEF QueueInv, Doubled
    <3>2. /\ NodeInv(l, q) /\ adding # l /\ panel[l] <= buff /\ buff <= wanted[l]
          /\ ~ list[q].status => buff = list[q].content
      BY <2>1, <2>2, <3>1 DEF LineInv, NodeInv
    <3>3. buff \in Nat
      BY <1>0, BoundAssumption DEF TypeOK
    <3>4. CASE panel' = panel /\ missed' = missed
      BY <2>2, <2>6, <3>1, <3>2, <3>4 DEF LineInv, NodeInv
    <3>5. CASE panel' = [panel EXCEPT ![l] = buff] /\ missed' = missed \ {l}
      <4>1. panel'[l] = buff
        BY <1>0, <2>1, <3>5 DEF TypeOK
      <4>2. NodeInv(l, q)'
        BY <2>2, <3>2, <3>3, <3>5, <4>1 DEF NodeInv
      <4> QED  BY <2>2, <2>6, <3>1, <3>2, <4>1, <4>2 DEF LineInv
    <3> QED  BY <2>3, <3>4, <3>5
  <2> QED  BY <2>1, <2>2, <2>5, <2>6
<1>8. ASSUME Reconnect, NEW m \in Lines PROVE Doubled(m)' \/ LineInv(m)'
  BY <1>8 DEF Reconnect, QueueInv, Doubled, PlacesOf, LineInv, NodeInv
<1> QED
  BY <1>1, <1>2, <1>3, <1>4, <1>5, <1>6, <1>7, <1>8 DEF Next, DisplayThread

LEMMA QueueStart == Init => QueueInv
<1> SUFFICES ASSUME Init, NEW l \in Lines PROVE LineInv(l)
  BY TypeStart DEF QueueInv
<1>1. PlacesOf(l) = {}
  BY DEF Init, PlacesOf
<1> QED  BY <1>1, LinesAssumption DEF Init, LineInv

LEMMA QueueHolds == Spec => []QueueInv
BY QueueStart, QueueStep, PTL DEF Spec

(* No put is lost between FindNode, the copy under the lock and the two    *)
(* sends, however many lines and contents there are and whatever fails.    *)
THEOREM QuietLinesAreShown == Spec => []QuietMeansShown
<1>1. QueueInv => QuietMeansShown
  <2> SUFFICES ASSUME QueueInv, NEW l \in Lines, Quiet(l), l \notin missed, ~ Doubled(l)
               PROVE  panel[l] = wanted[l]
    BY DEF QuietMeansShown
  <2>1. LineInv(l) /\ adding # l
    BY DEF QueueInv, Quiet
  <2>2. CASE PlacesOf(l) = {}
    BY <2>1, <2>2, BoundAssumption DEF LineInv, QueueInv, TypeOK
  <2>3. ASSUME NEW i \in PlacesOf(l) PROVE panel[l] = wanted[l]
    BY <2>1, <2>3 DEF LineInv, NodeInv, Quiet
  <2> QED  BY <2>2, <2>3
<1> QED  BY <1>1, QueueHolds, PTL

(* What a send brings to the panel, for a line with one node.              *)
LEMMA SendGoesForward ==
    ASSUME QueueInv, [Next]_vars, NEW l \in Lines, ~ Doubled(l)
    PROVE  /\ panel'[l] >= panel[l]
           /\ panel'[l] # panel[l] =>
                 /\ panel' = [panel EXCEPT ![l] = panel'[l]] /\ wanted' = wanted
                 /\ panel'[l] <= wanted[l]
<1>0. panel \in [Lines -> Nat] /\ TypeOK
  <2>1. TypeOK
    BY DEF QueueInv
  <2> QED  BY <2>1, OtherTypes
<1>1. CASE panel' = panel
  BY <1>0, <1>1
<1>2. CASE panel' # panel
  <2>1. Send /\ Deliver
    BY <1>2 DEF Next, DisplayThread, ShowAdd, AppendNode, ListTaskInit, FindNode, TakeNode, Send,
                SendFails, TcpSendFails, SerialSendFails, Reconnect, vars
  <2>2. /\ panel' = [panel EXCEPT ![list[node].line] = buff] /\ wanted' = wanted
        /\ pc \in {"send", "resend"}
    BY <2>1 DEF Send, Deliver
  <2>3. CASE list[node].line = l
    <3>1. node \in PlacesOf(l)
      <4>1. node \in 0..Len(list) /\ node > 0 /\ DOMAIN list = 1..Len(list) /\ Len(list) \in Nat
        BY <1>0, <2>2, ListTypes, OtherTypes
      <4>2. node \in DOMAIN list
        BY <4>1
      <4> QED  BY <2>3, <4>2 DEF PlacesOf
    <3>2. panel[l] <= buff /\ buff <= wanted[l] /\ buff \in Nat
      BY <1>0, <2>2, <3>1, BoundAssumption DEF QueueInv, LineInv, NodeInv, TypeOK
    <3> QED  BY <1>0, <2>2, <2>3, <3>2
  <2>4. CASE list[node].line # l
    BY <1>0, <2>2, <2>4
  <2> QED  BY <2>3, <2>4
<1> QED  BY <1>1, <1>2

(* A line never goes back to an older content, unless it has two nodes.    *)
THEOREM LinesGoForward == Spec => NeverGoesBack
<1>1. QueueInv /\ [Next]_vars => [\A l \in Lines : Doubled(l) \/ panel'[l] >= panel[l]]_vars
  BY SendGoesForward
<1> QED  BY <1>1, QueueHolds, PTL DEF Spec, NeverGoesBack

(* Without writers that come early a line has exactly the node that        *)
(* ListTaskInit gave it.                                                   *)
CalmInv ==
    ~ world.earlyWriter =>
        adding = NoLine /\ Len(list) = booted /\ \A i \in 1..booted : list[i].line = Boot[i]

LEMMA CalmStep == TypeOK /\ CalmInv /\ [Next]_vars => CalmInv'
<1> SUFFICES ASSUME TypeOK, CalmInv, [Next]_vars, world' = world, ~ world.earlyWriter
             PROVE  CalmInv'
  BY DEF CalmInv, Next, DisplayThread, ShowAdd, AppendNode, ListTaskInit, FindNode, TakeNode, Send,
         Reconnect, vars
<1>0. /\ adding = NoLine /\ Len(list) = booted /\ booted \in Nat
      /\ \A i \in 1..booted : list[i].line = Boot[i]
      /\ DOMAIN list = 1..Len(list) /\ \A i \in DOMAIN list : list[i] \in Nodes
  <2>1. list \in Seq(Nodes) /\ booted \in Nat
    BY BootAssumption DEF TypeOK, Nodes
  <2> QED  BY <2>1 DEF CalmInv
<1>1. ASSUME NEW l \in Lines, ShowAdd(l) PROVE CalmInv'
  <2>1. booted = Len(Boot)
    BY <1>1 DEF ShowAdd, Up
  <2>2. PICK i \in DOMAIN Boot : Boot[i] = l
    BY BootAssumption
  <2>3. i \in PlacesOf(l)
    BY <1>0, <2>1, <2>2, BootAssumption DEF PlacesOf
  <2>4. PICK p \in PlacesOf(l) : p = FirstOf(PlacesOf(l))
    <3>1. PlacesOf(l) \in SUBSET Nat
      BY <1>0 DEF PlacesOf
    <3> QED  BY <2>3, <3>1, FirstIsThere
  <2>5. p \in DOMAIN list /\ list[p] \in Nodes
    BY <1>0, <2>4 DEF PlacesOf
  <2>6. PICK n \in Nodes : /\ n.line = list[p].line
                           /\ n = [list[p] EXCEPT !.status = TRUE, !.content = wanted[l] + 1]
    <3>1. wanted[l] \in Nat /\ wanted[l] < MaxPuts
      BY <1>1, OtherTypes DEF ShowAdd
    <3>2. wanted[l] + 1 \in 0..MaxPuts
      BY <3>1, BoundAssumption
    <3> QED  BY <2>5, <3>2 DEF Nodes
  <2>7. list' = [list EXCEPT ![p] = n] /\ UNCHANGED <<adding, booted>>
    BY <1>1, <2>3, <2>4, <2>6 DEF ShowAdd
  <2>8. Len(list') = Len(list) /\ list'[p] = n /\ \A j \in DOMAIN list \ {p} : list'[j] = list[j]
    BY <2>5, <2>6, <2>7, NodeIsPut
  <2> QED  BY <1>0, <2>5, <2>6, <2>7, <2>8 DEF CalmInv
<1>2. CASE AppendNode
  BY <1>0, <1>2 DEF AppendNode
<1>3. CASE ListTaskInit
  <2>1. booted + 1 \in 1..Len(Boot)
    BY <1>0, <1>3, BootAssumption DEF ListTaskInit, Up, TypeOK
  <2>2. PICK n \in Nodes : n.line = Boot[booted + 1] /\ n = CreateNode(Boot[booted + 1])
    <3>1. CreateNode(Boot[booted + 1]) \in Nodes
      BY <2>1, BootAssumption, BoundAssumption DEF CreateNode, Nodes
    <3> QED  BY <3>1 DEF CreateNode
  <2>3. HeadTail(n) /\ booted' = booted + 1 /\ adding' = adding
    BY <1>3, <2>2 DEF ListTaskInit
  <2>4. /\ Len(list') = Len(list) + 1 /\ list'[Len(list) + 1] = n
        /\ \A i \in DOMAIN list : list'[i] = list[i]
    BY <2>2, <2>3, NodeIsAdded
  <2> QED  BY <1>0, <2>2, <2>3, <2>4 DEF CalmInv
<1>4. CASE TakeNode
  <2>1. PICK q \in DOMAIN list : q = node /\ list[q] \in Nodes
    BY <1>0, <1>4 DEF TakeNode, TypeOK
  <2>2. PICK n \in Nodes : n.line = list[q].line /\ n = [list[q] EXCEPT !.status = FALSE]
    BY <2>1 DEF Nodes
  <2>3. list' = [list EXCEPT ![q] = n] /\ UNCHANGED <<adding, booted>>
    BY <1>4, <2>1, <2>2 DEF TakeNode
  <2>4. Len(list') = Len(list) /\ list'[q] = n /\ \A j \in DOMAIN list \ {q} : list'[j] = list[j]
    BY <2>1, <2>2, <2>3, NodeIsPut
  <2> QED  BY <1>0, <2>1, <2>2, <2>3, <2>4 DEF CalmInv
<1>5. CASE FindNode \/ Send \/ Reconnect \/ UNCHANGED vars
  BY <1>0, <1>5 DEF FindNode, Send, Reconnect, vars, CalmInv
<1> QED  BY <1>1, <1>2, <1>3, <1>4, <1>5 DEF Next, DisplayThread

LEMMA CalmIsSingle ==
    ASSUME TypeOK, CalmInv, Calm, NEW l \in Lines PROVE ~ Doubled(l)
<1>1. DOMAIN list = 1..booted /\ \A i \in 1..booted : list[i].line = Boot[i]
  BY DEF CalmInv, Calm, TypeOK
<1>2. 1..booted \subseteq DOMAIN Boot
  BY BootAssumption DEF TypeOK
<1> QED  BY <1>1, <1>2, BootAssumption DEF Doubled, PlacesOf

(* In calm weather every step of the writers, the list and the thread is a *)
(* step of a DisplayBoard, or none: the safety half of BoardSpec.          *)
THEOREM QueueIsBoard == Spec => Board!Init /\ [][Calm => Board!Next]_<<wanted, panel>>
<1>1. Init => Board!Init /\ CalmInv
  BY DEF Init, Board!Init, CalmInv
<1>2. QueueInv /\ CalmInv /\ [Next]_vars => [Calm => Board!Next]_<<wanted, panel>>
  <2> SUFFICES ASSUME QueueInv, CalmInv, [Next]_vars, Calm, <<wanted, panel>>' # <<wanted, panel>>
               PROVE  Board!Next
    OBVIOUS
  <2>0. /\ TypeOK /\ panel \in [Lines -> Nat] /\ panel' \in [Lines -> Nat]
        /\ wanted \in [Lines -> Nat]
    <3>1. TypeOK /\ TypeOK'
      BY TypeStep DEF QueueInv
    <3>2. /\ panel \in [Lines -> 0..MaxPuts] /\ panel' \in [Lines -> 0..MaxPuts]
          /\ wanted \in [Lines -> 0..MaxPuts]
      BY <3>1 DEF TypeOK
    <3>3. \A f \in [Lines -> 0..MaxPuts] : f \in [Lines -> Nat]
      BY BoundAssumption
    <3> QED  BY <3>1, <3>2, <3>3
  <2>1. CASE panel' # panel
    <3>1. PICK l \in Lines : panel'[l] # panel[l]
      BY <2>0, <2>1
    <3>2. /\ panel'[l] >= panel[l] /\ panel'[l] <= wanted[l]
          /\ panel' = [panel EXCEPT ![l] = panel'[l]] /\ wanted' = wanted
      BY <2>0, <3>1, CalmIsSingle, SendGoesForward
    <3>3. panel'[l] \in (panel[l] + 1)..wanted[l]
      BY <2>0, <3>1, <3>2
    <3> QED  BY <3>2, <3>3 DEF Board!Next, Board!Show
  <2>2. CASE panel' = panel /\ wanted' # wanted
    <3>1. PICK l \in Lines : ShowAdd(l)
      BY <2>2 DEF Next, DisplayThread, AppendNode, ListTaskInit, FindNode, TakeNode, Send,
                  Reconnect, vars
    <3> QED  BY <2>2, <3>1 DEF ShowAdd, Board!Next, Board!Put
  <2> QED  BY <2>1, <2>2
<1>3. QueueInv /\ CalmInv /\ [Next]_vars => CalmInv'
  BY CalmStep DEF QueueInv
<1> QED  BY <1>1, <1>2, <1>3, QueueHolds, PTL DEF Spec
============================================================================
