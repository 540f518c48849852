---------------------------- MODULE DisplayQueue ----------------------------
(***************************************************************************)
(* The task list between the threads that write the fee display and the    *)
(* thread that sends to it: Klist (src/src/kernel_list.cpp), DisplayThread *)
(* (src/src/QYLED.cpp) and the link it sends over (src/src/Tcp.cpp,        *)
(* src/src/Uart.cpp).                                                      *)
(*                                                                         *)
(* The list has a node per display line, in the order they were added.  A  *)
(* writer overwrites the node of its line; the thread takes the first node *)
(* whose status is set and sends its content twice.  One action is one     *)
(* critical section of Klist::Mutex, or one Send.  Writers call ShowAdd    *)
(* under displayMutex, so at most one of them is inside it.                *)
(*                                                                         *)
(* A content is known by its number: the n-th put on a line is content n.  *)
(***************************************************************************)
EXTENDS Naturals, Sequences

CONSTANTS
    Lines,        \* the lines of the task list
    Boot,         \* the order in which ListTaskInit adds them
    NoLine,
    MaxPuts,      \* bound: contents put on one line
    Worlds        \* the circumstances: is the link a TcpClient, rather than a
                  \* SerialPort, may Send fail, and may a writer come before
                  \* ListTaskInit has ended?

ASSUME LinesAssumption == NoLine \notin Lines
ASSUME BootAssumption ==
    /\ Boot \in Seq(Lines)
    /\ \A l \in Lines : \E i \in DOMAIN Boot : Boot[i] = l
    /\ \A i, j \in DOMAIN Boot : Boot[i] = Boot[j] => i = j
ASSUME BoundAssumption == MaxPuts \in Nat
ASSUME WorldsAssumption ==
    Worlds \subseteq [tcp : BOOLEAN, linkFails : BOOLEAN, earlyWriter : BOOLEAN]

VARIABLES
    world,     \* the circumstances of this behaviour
    list,      \* the nodes: [line, status, content]
    booted,    \* the number of nodes ListTaskInit has added
    adding,    \* the line whose node a writer is about to append, or NoLine
    wanted,    \* the last content put on each line
    pc,        \* DisplayThread: "find", "take", "send" or "resend"
    node,      \* the node FindNode returned, by its place in the list
    buff,      \* the content taken from it
    open,      \* Communication::isOpen of the link
    panel,     \* the content each line of the panel shows
    missed     \* the lines whose last taken content has not got through

vars == <<world, list, booted, adding, wanted, pc, node, buff, open, panel, missed>>

TypeOK ==
    /\ list \in Seq([line : Lines, status : BOOLEAN, content : 0..MaxPuts])
    /\ booted \in 0..Len(Boot)
    /\ adding \in Lines \cup {NoLine}
    /\ wanted \in [Lines -> 0..MaxPuts]
    /\ pc \in {"find", "take", "send", "resend"}
    /\ node \in 0..Len(list) /\ (pc # "find" => node > 0)
    /\ buff \in 0..MaxPuts
    /\ open \in BOOLEAN
    /\ panel \in [Lines -> 0..MaxPuts]
    /\ missed \subseteq Lines

(* The link is open: CreatComm fails otherwise and no thread is started.   *)
Init ==
    /\ world \in Worlds
    /\ list = <<>>
    /\ booted = 0
    /\ adding = NoLine
    /\ wanted = [l \in Lines |-> 0]
    /\ pc = "find" /\ node = 0 /\ buff = 0
    /\ open = TRUE
    /\ panel = [l \in Lines |-> 0]
    /\ missed = {}

Up == booted = Len(Boot)

(* A node with nothing to send; HeadTail puts it at the end of the list. *)
CreateNode(l) == [line |-> l, status |-> FALSE, content |-> 0]

HeadTail(n) == list' = Append(list, n)

(***************************************************************************)
(* The writers: TimerThread and DisplayControl, through QLED::DisplyShow.  *)
(***************************************************************************)
PlacesOf(l) == {i \in DOMAIN list : list[i].line = l}

FirstOf(places) == CHOOSE i \in places : \A j \in places : i <= j

(* ShowAdd and the locked search of Node_Change.  DisplayInit gives        *)
(* ListTaskInit 10 ms before any writer is started.                        *)
ShowAdd(l) ==
    /\ adding = NoLine
    /\ Up \/ world.earlyWriter
    /\ wanted[l] < MaxPuts
    /\ wanted' = [wanted EXCEPT ![l] = @ + 1]
    /\ IF PlacesOf(l) # {}
         THEN /\ list' = [list EXCEPT ![FirstOf(PlacesOf(l))] =
                            [@ EXCEPT !.status = TRUE, !.content = wanted[l] + 1]]
              /\ UNCHANGED adding
         ELSE adding' = l /\ UNCHANGED list
    /\ UNCHANGED <<world, booted, pc, node, buff, open, panel, missed>>

(* No node had the line: CreateNode and HeadTail, after the unlock.        *)
AppendNode ==
    /\ adding # NoLine
    /\ HeadTail([CreateNode(adding) EXCEPT !.status = TRUE, !.content = wanted[adding]])
    /\ adding' = NoLine
    /\ UNCHANGED <<world, booted, wanted, pc, node, buff, open, panel, missed>>

(***************************************************************************)
(* DisplayThread.                                                          *)
(***************************************************************************)
ListTaskInit ==
    /\ ~ Up
    /\ HeadTail(CreateNode(Boot[booted + 1]))
    /\ booted' = booted + 1
    /\ UNCHANGED <<world, adding, wanted, pc, node, buff, open, panel, missed>>

(* Mutant: the search stops before the last node. *)
SetPlacesButLast == {i \in DOMAIN list : i < Len(list) /\ list[i].status}

SetPlaces == {i \in DOMAIN list : list[i].status}

(* Mutant: a place that counts from 0. *)
FindNodeFromZero ==
    /\ Up /\ pc = "find"
    /\ SetPlaces # {} /\ open
    /\ node' = FirstOf(SetPlaces) - 1
    /\ pc' = "take"
    /\ UNCHANGED <<world, list, booted, adding, wanted, buff, open, panel, missed>>

(* FindNode returns the first node whose status is set; while there is     *)
(* none, or the link is down, the thread sleeps and looks again.           *)
FindNode ==
    /\ Up /\ pc = "find"
    /\ SetPlaces # {} /\ open
    /\ node' = FirstOf(SetPlaces)
    /\ pc' = "take"
    /\ UNCHANGED <<world, list, booted, adding, wanted, buff, open, panel, missed>>

(* Under the lock the thread resets the status and copies the content.     *)
TakeNode ==
    /\ pc = "take"
    /\ list' = [list EXCEPT ![node].status = FALSE]
    /\ buff' = list[node].content
    /\ missed' = missed \cup {list[node].line}
    /\ pc' = "send"
    /\ UNCHANGED <<world, booted, adding, wanted, node, open, panel>>

(* Mutant: the first send takes the content the node has by then. *)
DeliverFromNode ==
    /\ open
    /\ panel' = [panel EXCEPT ![list[node].line] =
                   IF pc = "send" THEN list[node].content ELSE buff]
    /\ missed' = missed \ {list[node].line}
    /\ UNCHANGED open

(* Communication::Send, whose result the thread ignores.                   *)
Deliver ==
    /\ open
    /\ panel' = [panel EXCEPT ![list[node].line] = buff]
    /\ missed' = missed \ {list[node].line}
    /\ UNCHANGED open

(* Nothing is sent when the link is not open; when sending fails TcpClient *)
(* closes the link ...                                                     *)
TcpSendFails ==
    /\ world.tcp
    /\ open => world.linkFails
    /\ open' = FALSE
    /\ UNCHANGED <<panel, missed>>

(* ... and SerialPort does not.                                            *)
SerialSendFails ==
    /\ ~ world.tcp
    /\ open => world.linkFails
    /\ UNCHANGED <<open, panel, missed>>

SendFails == TcpSendFails \/ SerialSendFails

(* Mutant: the status is reset after the sends, too. *)
SendAndReset ==
    /\ pc \in {"send", "resend"}
    /\ Deliver \/ SendFails
    /\ pc' = IF pc = "send" THEN "resend" ELSE "find"
    /\ list' = IF pc = "send" THEN list ELSE [list EXCEPT ![node].status = FALSE]
    /\ UNCHANGED <<world, booted, adding, wanted, node, buff>>

Send ==
    /\ pc \in {"send", "resend"}
    /\ Deliver \/ SendFails
    /\ pc' = IF pc = "send" THEN "resend" ELSE "find"
    /\ UNCHANGED <<world, list, booted, adding, wanted, node, buff>>

(* TcpClient::Open when the panel can be reached. *)
Open == ~ open /\ open' = TRUE

(* ConnectThread of TcpClient opens a closed link again. *)
Reconnect ==
    /\ world.tcp /\ Open
    /\ UNCHANGED <<world, list, booted, adding, wanted, pc, node, buff, panel, missed>>

(***************************************************************************)
(* The specification.                                                      *)
(***************************************************************************)
DisplayThread == ListTaskInit \/ FindNode \/ TakeNode \/ Send

Next ==
    \/ \E l \in Lines : ShowAdd(l)
    \/ AppendNode
    \/ DisplayThread
    \/ Reconnect

Spec == Init /\ [][Next]_vars

(* Every thread that can run does; nobody has to write the display. *)
FairSpec ==
    /\ Spec
    /\ WF_vars(AppendNode)
    /\ WF_vars(DisplayThread)
    /\ WF_vars(Reconnect)

(***************************************************************************)
(* Properties.                                                             *)
(***************************************************************************)

Quiet(l) == adding # l /\ \A i \in PlacesOf(l) : ~ list[i].status

(* An early writer has given the line a second node. *)
Doubled(l) == \E i, j \in PlacesOf(l) : i # j

(* A line with nothing left to take shows what was put on it last, unless  *)
(* neither of the two sends of that got through: no put is lost between    *)
(* FindNode, the copy under the lock and the two sends, and one of them is *)
(* enough.                                                                 *)
QuietMeansShown ==
    \A l \in Lines : Quiet(l) /\ l \notin missed /\ ~ Doubled(l) => panel[l] = wanted[l]

(* A line never goes back to an older content, not even when sends fail    *)
(* and the link is opened again in the middle of a content, unless it has  *)
(* two nodes.                                                              *)
NeverGoesBack ==
    [][\A l \in Lines : Doubled(l) \/ panel'[l] >= panel[l]]_vars

(* While sends succeed and writers come in time, the list and the thread   *)
(* are a DisplayBoard.                                                     *)
Board == INSTANCE DisplayBoard

Calm == ~ world.linkFails /\ ~ world.earlyWriter

BoardSpec ==
    /\ Board!Init
    /\ [][Calm => Board!Next]_<<wanted, panel>>
    /\ \A l \in Lines : WF_<<wanted, panel>>(Calm /\ Board!Show(l))

(* A set status never stays: the content is taken and sent even if links   *)
(* fail, as long as they are opened again.                                 *)
EveryStatusIsTaken ==
    \A l \in Lines : (\E i \in PlacesOf(l) : list[i].status)
                       ~> (\A i \in PlacesOf(l) : ~ list[i].status)
=============================================================================
