---------------------------- MODULE Logger_proofs ----------------------------
(* Proofs about Logger: its types, the order of the lines from the buffer  *)
(* to the files, and the numbers of the files.                             *)
EXTENDS Logger, FiniteSetTheorems, TLAPS

(***************************************************************************)
(* Types.                                                                  *)
(***************************************************************************)

LEMMA DatesAreDates ==
    /\ Days \subseteq Nat /\ 1 \in Days
    /\ NoDate \in AnyDate /\ \A d \in Days : Dates[d] \in AnyDate
  BY DatesAssumption DEF Days, AnyDate, NoDate

(* What is read while a date is being written is made of parts of dates. *)
LEMMA SeenAreDates == ASSUME TypeOK, NEW d \in SeenDates PROVE d \in AnyDate
<1>1. CASE d = today
  BY <1>1 DEF TypeOK
<1>2. ASSUME NEW t \in Threads, step[t] = "dating", d \in Mixed(today, Dates[took[t]])
      PROVE  d \in AnyDate
  <2>1. took[t] \in Days
    BY <1>2 DEF TypeOK
  <2>2. today \in AnyDate /\ Dates[took[t]] \in AnyDate
    BY <2>1, DatesAreDates DEF TypeOK
  <2> QED  BY <1>2, <2>2 DEF Mixed, AnyDate
<1> QED  BY <1>1, <1>2 DEF SeenDates

(* What a change of file does to the file pointer. *)
LEMMA TargetIsAFile ==
    ASSUME TypeOK, NEW old, NEW f \in Target(old)
    PROVE  f \in Files
<1>1. ASSUME NEW c \in Nat \ {0}, NEW g \in RoomFrom(File(asked, c), old)
      PROVE  g \in Files
  <2>1. PICK k \in c..(c + written) : g = File(asked, k)
    BY <1>1 DEF RoomFrom, File
  <2>2. k \in Nat \ {0} /\ asked \in AnyDate
    BY <2>1 DEF TypeOK
  <2> QED  BY <2>1, <2>2 DEF File, Files
<1>2. CASE fp = NoFile \/ DayChanges
  BY <1>1, <1>2 DEF Target, TypeOK
<1>3. CASE ~ (fp = NoFile \/ DayChanges)
  <2>1. fp \in Files /\ fp.count + 1 \in Nat \ {0}
    BY <1>3 DEF Files, TypeOK
  <2> QED  BY <1>1, <1>3, <2>1 DEF Target
<1> QED  BY <1>2, <1>3

(* The messages of a removal enter the buffer as lines. *)
LEMMA MessagesAreLines ==
    ASSUME TypeOK, NEW old, RemoveFiles(old)
    PROVE  buffer' \in Seq(Line) /\ lines' \in 0..MaxLines /\ today' \in AnyDate
<1>1. PICK k \in 0..MaxLines :
         /\ lines + k <= MaxLines /\ lines' = lines + k
         /\ buffer' = buffer \o [i \in 1..k |-> lines + i]
  BY DEF RemoveFiles, Messages, MayAppend
<1>2. k \in Nat /\ lines \in Nat /\ MaxLines \in Nat
  BY BoundsAssumption DEF TypeOK
<1>3. \A i \in 1..k : lines + i \in Line
  BY <1>1, <1>2 DEF Line, TypeOK
<1>4. [i \in 1..k |-> lines + i] \in Seq(Line)
  BY <1>2, <1>3
<1>5. buffer' \in Seq(Line)
  <2>1. buffer \in Seq(Line)
    BY DEF TypeOK
  <2> QED  BY <1>1, <1>4, <2>1
<1>6. today' \in AnyDate
  BY DatesAreDates DEF RemoveFiles, TypeOK
<1> QED  BY <1>1, <1>2, <1>5, <1>6

(* The dates that a change of file spoils are dates. *)
LEMMA SpoiltAreDates ==
    ASSUME TypeOK, NEW old \in Removals
    PROVE  Thinned(old) \subseteq AnyDate /\ \A f : Taken(f) \subseteq AnyDate
<1>1. \A f \in Written : f.date \in AnyDate
  BY DEF Written, TypeOK, Files
<1>2. old \subseteq Written
  BY DEF Removals, Older
<1> QED  BY <1>1, <1>2 DEF Thinned, Taken, TypeOK

LEMMA TypeStep == TypeOK /\ [Next]_vars => TypeOK'
<1> SUFFICES ASSUME TypeOK, [Next]_vars PROVE TypeOK'
  OBVIOUS
<1> USE BoundsAssumption
<1>1. ASSUME NEW t \in Threads, TakeTime(t) \/ BeginDate(t) PROVE TypeOK'
  <2>1. CASE TakeTime(t)
    <3>1. clock \in Days /\ clock # 0
      BY DatesAssumption DEF TypeOK, Days
    <3>2. /\ step' \in [Threads -> {"none", "timed", "dating", "stamped"}]
          /\ took' \in [Threads -> Days \cup {0}]
          /\ \A u \in Threads : took'[u] # 0 <=> step'[u] \in {"timed", "dating"}
          /\ \A u, v \in Threads : step'[u] = "dating" /\ step'[v] = "dating" => u = v
      BY <2>1, <3>1 DEF TakeTime, TypeOK
    <3> QED  BY <2>1, <3>2 DEF TakeTime, TypeOK
  <2>2. CASE BeginDate(t)
    BY <2>2 DEF BeginDate, utcFree, TypeOK
  <2> QED  BY <1>1, <2>1, <2>2
<1>s. ASSUME NEW t \in Threads, Stamped(t) PROVE TypeOK'
  <2>1. took[t] \in Days
    BY <1>s DEF Stamped, TypeOK
  <2>2. today' \in AnyDate
    BY <1>s, <2>1, DatesAreDates DEF Stamped
  <2> QED  BY <1>s, <2>2 DEF Stamped, TypeOK
<1>2. ASSUME NEW t \in Threads, Enter(t) PROVE TypeOK'
  <2>1. lines + 1 \in 1..MaxLines
    BY <1>2 DEF Enter, TypeOK
  <2>2. lines + 1 \in Line
    BY <2>1 DEF Line
  <2>3. buffer' \in Seq(Line)
    BY <1>2, <2>2 DEF Enter, TypeOK
  <2> QED  BY <1>2, <2>1, <2>3 DEF Enter, TypeOK
<1>3. ASSUME NEW t \in Threads, DropLine(t) PROVE TypeOK'
  BY <1>3 DEF DropLine, TypeOK
<1>4. CASE TimeOut \/ SleepAgain
  BY <1>4 DEF TimeOut, SleepAgain, stamps, TypeOK
<1>5. CASE TakeBatch
  BY <1>5 DEF TakeBatch, stamps, TypeOK
<1>6. \A seq \in Seq(Line) : Numbers(seq) \subseteq 1..MaxLines
  <2>1. SUFFICES ASSUME NEW seq \in Seq(Line), NEW i \in DOMAIN seq
                 PROVE  seq[i] \in 1..MaxLines
    BY DEF Numbers
  <2>2. seq[i] \in Line
    BY <2>1
  <2> QED  BY <2>2 DEF Line
<1>7. CASE Discard
  <2>1. Numbers(batch) \subseteq 1..MaxLines /\ <<>> \in Seq(Line)
    BY <1>6 DEF TypeOK
  <2> QED  BY <1>7, <2>1 DEF Discard, GiveUp, stamps, TypeOK
<1>8. CASE ChangeFile
  <2>1. PICK old \in Removals : /\ RemoveFiles(old) /\ fp' \in Target(old)
                               /\ spoilt' = spoilt \cup Thinned(old) \cup Taken(fp')
    BY <1>8 DEF ChangeFile
  <2>2. fp' \in Files
    BY <2>1, TargetIsAFile
  <2>3. /\ buffer' \in Seq(Line) /\ lines' \in 0..MaxLines /\ today' \in AnyDate
        /\ asked' \in AnyDate /\ spoilt' \subseteq AnyDate
    BY <1>8, <2>1, MessagesAreLines, SpoiltAreDates, DatesAreDates DEF ChangeFile, TypeOK
  <2>4. disk' \subseteq disk /\ isNew' \in BOOLEAN
    BY <1>8, <2>1 DEF RemoveFiles, ChangeFile
  <2>5. fp' # NoFile
    BY <2>2 DEF Files, NoFile, File
  <2>6. isNew' \in BOOLEAN /\ disk' \subseteq [file : Files, seq : Nat, n : 0..MaxLines, at : Days]
    BY <2>4 DEF TypeOK
  <2> QED  BY <1>8, <2>2, <2>3, <2>5, <2>6 DEF ChangeFile, stamps, TypeOK
<1>9. CASE OpenFails
  <2>1. PICK old \in Removals : RemoveFiles(old) /\ spoilt' = spoilt \cup Thinned(old)
    BY <1>9 DEF OpenFails, OpenMisses
  <2>2. /\ buffer' \in Seq(Line) /\ lines' \in 0..MaxLines /\ today' \in AnyDate
        /\ asked' \in AnyDate /\ spoilt' \subseteq AnyDate
    BY <1>9, <2>1, MessagesAreLines, SpoiltAreDates, DatesAreDates DEF OpenFails, OpenMisses, TypeOK
  <2>3. disk' \subseteq disk /\ isNew' \in BOOLEAN
    BY <1>9, <2>1 DEF RemoveFiles, OpenFails, DayChanges, TypeOK
  <2>4. lost' \subseteq 1..MaxLines
    BY <1>6, <1>9 DEF OpenFails, GiveUp, TypeOK
  <2>5. fp' = NoFile /\ batch' = <<>> /\ pc' = "awake"
    BY <1>9 DEF OpenFails, OpenMisses, GiveUp
  <2>6. disk' \subseteq [file : Files, seq : Nat, n : 0..MaxLines, at : Days]
    BY <2>3 DEF TypeOK
  <2> QED  BY <1>9, <2>2, <2>3, <2>4, <2>5, <2>6 DEF OpenFails, stamps, TypeOK
<1>r. CASE ReadDate
  <2>1. asked' \in AnyDate
    BY <1>r, SeenAreDates DEF ReadDate
  <2> QED  BY <1>r, <2>1 DEF ReadDate, stamps, TypeOK
<1>10. ASSUME pc = "put", NEW k \in Nat, NEW n \in 0..MaxLines
       PROVE  Entry(k, n) \in [file : Files, seq : Nat, n : 0..MaxLines, at : Days]
  BY <1>10 DEF Entry, TypeOK
<1>11. Head1 \in {0, 1}
  BY DEF Head1
<1>12. pc = "put" => HeadEntry \subseteq [file : Files, seq : Nat, n : 0..MaxLines, at : Days]
  BY <1>10 DEF HeadEntry, TypeOK
<1>13. CASE Put
  <2>1. PICK k \in 0..Len(batch) : PutLines(k)
    BY <1>13 DEF Put
  <2>2. Len(batch) \in Nat /\ k \in Nat /\ \A i \in 1..Len(batch) : batch[i] \in Line
    BY DEF TypeOK
  <2>3. \A i \in 1..k : Entry(Head1 + i, batch[i])
                          \in [file : Files, seq : Nat, n : 0..MaxLines, at : Days]
    <3>1. TAKE i \in 1..k
    <3>2. batch[i] \in Line /\ Head1 + i \in Nat
      BY <1>11, <2>1, <2>2
    <3>3. batch[i] \in 0..MaxLines
      BY <3>2 DEF Line
    <3> QED  BY <1>10, <1>13, <3>2, <3>3 DEF Put
  <2>4. disk' \subseteq [file : Files, seq : Nat, n : 0..MaxLines, at : Days]
    <3>1. disk' = disk \cup HeadEntry
                      \cup {Entry(Head1 + i, batch[i]) : i \in 1..k}
      BY <2>1 DEF PutLines
    <3>2. pc = "put" /\ disk \subseteq [file : Files, seq : Nat, n : 0..MaxLines, at : Days]
      BY <1>13 DEF Put, TypeOK
    <3> QED  BY <1>12, <2>3, <3>1, <3>2
  <2>5. {batch[i] : i \in (k + 1)..Len(batch)} \subseteq 1..MaxLines
    BY <2>2 DEF Line
  <2>6. lost' \subseteq 1..MaxLines /\ written' \in Nat
    <3>1. written \in Nat /\ lost \subseteq 1..MaxLines
      BY DEF TypeOK
    <3>2. written' = written + Head1 + k
      BY <2>1 DEF PutLines
    <3>3. written' \in Nat
      BY <1>11, <2>2, <3>1, <3>2
    <3> QED  BY <2>1, <2>5, <3>1, <3>3 DEF PutLines
  <2>7. <<>> \in Seq(Line)
    OBVIOUS
  <2> QED  BY <1>13, <2>4, <2>6, <2>7 DEF Put, stamps, TypeOK
<1>14. CASE SwitchOff
  <2>1. Entry(Head1 + 1, 0) \in [file : Files, seq : Nat, n : 0..MaxLines, at : Days]
    <3>1. Head1 + 1 \in Nat /\ 0 \in 0..MaxLines /\ pc = "put"
      BY <1>11, <1>14 DEF SwitchOff
    <3> QED  BY <1>10, <3>1
  <2>2. disk' \subseteq [file : Files, seq : Nat, n : 0..MaxLines, at : Days]
    BY <1>12, <1>14, <2>1 DEF SwitchOff, TypeOK
  <2>3. lost' \subseteq 1..MaxLines /\ written' \in Nat
    <3>1. Numbers(batch) \subseteq 1..MaxLines /\ written \in Nat
      BY <1>6 DEF TypeOK
    <3>2. written' = written + Head1 + 1 /\ lost' = lost \cup Numbers(batch)
      BY <1>14 DEF SwitchOff, GiveUp
    <3>3. written' \in Nat
      BY <1>11, <3>1, <3>2
    <3> QED  BY <3>1, <3>2, <3>3 DEF TypeOK
  <2>4. <<>> \in Seq(Line)
    OBVIOUS
  <2> QED  BY <1>14, <2>2, <2>3, <2>4 DEF SwitchOff, GiveUp, stamps, TypeOK
<1>15. CASE Midnight
  BY <1>15 DEF Midnight, stamps, TypeOK
<1>16. CASE DiskFills
  BY <1>16 DEF DiskFills, stamps, TypeOK
<1>17. CASE Restart
  <2>1. /\ Numbers(batch) \subseteq 1..MaxLines
        /\ Numbers(buffer) \subseteq 1..MaxLines
    BY <1>6 DEF TypeOK
  <2>2. /\ lost' \subseteq 1..MaxLines /\ restarts' \in 0..MaxRestarts
        /\ <<>> \in Seq(Line)
    <3>1. restarts' \in 0..MaxRestarts
      BY <1>17 DEF Restart, TypeOK
    <3>2. lost' = lost \cup Numbers(batch) \cup Numbers(buffer)
      BY <1>17 DEF Restart
    <3>3. lost' \subseteq 1..MaxLines
      BY <2>1, <3>2 DEF TypeOK
    <3> QED  BY <3>1, <3>3
  <2>3. today' \in AnyDate /\ asked' \in AnyDate
    BY <1>17, DatesAreDates DEF Restart, TypeOK
  <2> QED  BY <1>17, <2>2, <2>3 DEF Restart, TypeOK
<1>18. CASE UNCHANGED vars
  BY <1>18 DEF vars, stamps, TypeOK
<1> QED
  BY <1>1, <1>s, <1>2, <1>3, <1>4, <1>5, <1>7, <1>8, <1>9, <1>r, <1>13, <1>14, <1>15, <1>16, <1>17, <1>18
  DEF Next, Writer

LEMMA TypeInit == Init => TypeOK
<1>1. <<>> \in Seq(Line) /\ 0 \in 0..MaxLines /\ 0 \in 0..MaxRestarts
  BY BoundsAssumption
<1>2. Init => /\ step \in [Threads -> {"none", "timed", "dating", "stamped"}]
              /\ took \in [Threads -> Days \cup {0}]
              /\ \A t \in Threads : took[t] = 0 /\ step[t] = "none"
  BY DEF Init
<1>3. Init => disk = {} /\ lost = {} /\ written \in Nat
  BY DEF Init
<1>4. Init => pc = "awake" /\ logWrite \in BOOLEAN /\ isNew \in BOOLEAN /\ short \in BOOLEAN
  BY DEF Init
<1> QED  BY <1>1, <1>2, <1>3, <1>4, DatesAreDates DEF Init, TypeOK

(* The logger's variables keep their types: in particular a batch is only  *)
(* ever written through a file that is open.       *)
THEOREM TypeCorrect == Spec => []TypeOK
BY TypeInit, TypeStep, PTL DEF Spec

(***************************************************************************)
(* Order.  InOrder speaks of the lines that are under way and on the disk; *)
(* that it stays true needs that they all have entered before any line to  *)
(* come, and that no entry has a place in the order of writing that is     *)
(* still to be given.                                                      *)
(***************************************************************************)
Entered ==
    /\ \A i \in DOMAIN buffer : buffer[i] <= lines
    /\ \A i \in DOMAIN batch : batch[i] <= lines
    /\ \A e \in disk : e.n <= lines /\ e.seq <= written

OrderInv == TypeOK /\ InOrder /\ Entered

(* A line, or several, that enter behind all others. *)
LEMMA OrderOfEntering ==
    ASSUME OrderInv, NEW k \in Nat,
           lines' = lines + k,
           buffer' = buffer \o [i \in 1..k |-> lines + i],
           batch' \in {batch, <<>>}, disk' \subseteq disk, written' = written
    PROVE  InOrder' /\ Entered'
<1>1. buffer \in Seq(Line) /\ batch \in Seq(Line) /\ lines \in Nat
  BY BoundsAssumption DEF OrderInv, TypeOK
<1>2. \A i \in DOMAIN buffer : buffer[i] \in Nat
  <2>1. \A i \in DOMAIN buffer : buffer[i] \in Line
    BY <1>1
  <2> QED  BY <2>1 DEF Line
<1>3. \A i \in DOMAIN batch : batch[i] \in Nat
  <2>1. \A i \in DOMAIN batch : batch[i] \in Line
    BY <1>1
  <2> QED  BY <2>1 DEF Line
<1>4. \A e \in disk : e.n \in Nat /\ e.seq \in Nat
  BY DEF OrderInv, TypeOK
<1> DEFINE new == [i \in 1..k |-> lines + i]
<1>5. Len(new) = k /\ \A i \in 1..k : new[i] = lines + i
  OBVIOUS
<1>6. \A i \in DOMAIN buffer' :
         \/ i \in DOMAIN buffer /\ buffer'[i] = buffer[i]
         \/ /\ i \in Nat /\ i > Len(buffer) /\ i - Len(buffer) \in 1..k
            /\ buffer'[i] = lines + (i - Len(buffer))
  <2>1. buffer' = buffer \o new /\ DOMAIN new = 1..k
    OBVIOUS
  <2> HIDE DEF new
  <2> QED  BY <1>1, <1>5, <2>1
<1>7. Rising(buffer)'
  <2> SUFFICES ASSUME NEW i \in DOMAIN buffer', NEW j \in DOMAIN buffer', i < j
               PROVE  buffer'[i] < buffer'[j]
    BY DEF Rising
  <2>1. Rising(buffer) /\ \A m \in DOMAIN buffer : buffer[m] <= lines /\ m <= Len(buffer)
    BY <1>1 DEF OrderInv, InOrder, Entered
  <2>2. CASE j \in DOMAIN buffer
    <3>1. i \in DOMAIN buffer /\ buffer'[i] = buffer[i] /\ buffer'[j] = buffer[j]
      BY <1>1, <1>6, <2>1, <2>2
    <3> QED  BY <2>1, <2>2, <3>1 DEF Rising
  <2>3. CASE j \notin DOMAIN buffer
    <3>1. /\ j \in Nat /\ j - Len(buffer) \in 1..k
          /\ buffer'[j] = lines + (j - Len(buffer))
      BY <1>6, <2>3
    <3>2. CASE i \in DOMAIN buffer
      BY <1>1, <1>2, <1>6, <2>1, <3>1, <3>2
    <3>3. CASE i \notin DOMAIN buffer
      <4>1. i \in Nat /\ buffer'[i] = lines + (i - Len(buffer))
        BY <1>6, <3>3
      <4> QED  BY <1>1, <3>1, <4>1
    <3> QED  BY <3>2, <3>3
  <2> QED  BY <2>2, <2>3
<1>8. \A i \in DOMAIN buffer' : \/ i \in DOMAIN buffer /\ buffer'[i] = buffer[i]
                              \/ buffer'[i] > lines
  BY <1>1, <1>6
<1>9. Rising(batch)' /\ Ahead(batch, buffer)'
  <2>1. Rising(batch) /\ Ahead(batch, buffer) /\ \A i \in DOMAIN batch : batch[i] <= lines
    BY DEF OrderInv, InOrder, Entered
  <2>2. batch' = batch \/ DOMAIN batch' = {}
    OBVIOUS
  <2>3. ASSUME NEW i \in DOMAIN batch, NEW j \in DOMAIN buffer'
        PROVE  batch[i] < buffer'[j]
    <3>1. CASE j \in DOMAIN buffer /\ buffer'[j] = buffer[j]
      BY <2>1, <3>1 DEF Ahead
    <3>2. CASE buffer'[j] > lines
      <4>1. buffer'[j] \in Nat
        BY <1>1, <1>2, <1>6
      <4> QED  BY <1>1, <1>3, <2>1, <3>2, <4>1
    <3> QED  BY <1>8, <3>1, <3>2
  <2> QED  BY <2>1, <2>2, <2>3 DEF Ahead, Rising
<1>10. \A e \in disk : e.n <= lines
  BY DEF OrderInv, Entered
<1>11. Text' \subseteq Text
  BY DEF Text
<1>12. \A e \in Text', i \in DOMAIN buffer' : e.n < buffer'[i]
  BY <1>1, <1>4, <1>8, <1>10, <1>11 DEF OrderInv, InOrder, Text
<1>13. InOrder'
  <2>1. \A e \in Text', i \in DOMAIN batch' : e.n < batch'[i]
    BY <1>11 DEF OrderInv, InOrder
  <2>2. \A e, f \in Text' : e.seq < f.seq => e.n < f.n
    BY <1>11 DEF OrderInv, InOrder
  <2> QED  BY <1>7, <1>9, <1>12, <2>1, <2>2 DEF InOrder
<1>14. \A i \in DOMAIN buffer' : buffer'[i] <= lines'
  BY <1>1, <1>2, <1>6 DEF OrderInv, Entered
<1>15. Entered'
  <2>1. \A i \in DOMAIN batch' : batch'[i] <= lines'
    BY <1>1, <1>3 DEF OrderInv, Entered
  <2>2. \A e \in disk' : e.n <= lines' /\ e.seq <= written'
    BY <1>1, <1>4 DEF OrderInv, Entered
  <2> QED  BY <1>14, <2>1, <2>2 DEF Entered
<1> QED  BY <1>13, <1>15

(* The messages of a removal are such lines. *)
LEMMA OrderOfRemovals ==
    ASSUME OrderInv, NEW old, RemoveFiles(old), batch' \in {batch, <<>>}, written' = written
    PROVE  InOrder' /\ Entered'
<1>1. PICK k \in 0..MaxLines :
         lines' = lines + k /\ buffer' = buffer \o [i \in 1..k |-> lines + i]
  BY DEF RemoveFiles, Messages
<1>2. k \in Nat
  BY BoundsAssumption
<1>3. disk' \subseteq disk
  BY DEF RemoveFiles
<1> QED  BY <1>1, <1>2, <1>3, OrderOfEntering

(* The batch gets to the disk, or a part of it, perhaps with entries that  *)
(* are no lines (n = 0), and is gone.                                      *)
LEMMA OrderOfWriting ==
    ASSUME OrderInv, UNCHANGED <<lines, buffer>>, batch' = <<>>,
           disk \subseteq disk', written' \in Nat, written' >= written,
           \A e \in disk' \ disk :
              /\ e.seq \in Nat /\ e.seq > written /\ e.seq <= written'
              /\ e.n = 0 \/ \E i \in DOMAIN batch : e.n = batch[i],
           \A e, f \in Text' \ disk : e.seq < f.seq => e.n < f.n
    PROVE  InOrder' /\ Entered'
<1>1. buffer \in Seq(Line) /\ batch \in Seq(Line) /\ lines \in Nat /\ written \in Nat
  BY BoundsAssumption DEF OrderInv, TypeOK
<1>2. \A e \in disk : e.n \in Nat /\ e.seq \in Nat /\ e.seq <= written /\ e.n <= lines
  BY DEF OrderInv, TypeOK, Entered
<1>3. \A i \in DOMAIN batch : batch[i] \in Nat /\ batch[i] <= lines
  <2>1. \A i \in DOMAIN batch : batch[i] \in Line
    BY <1>1
  <2> QED  BY <2>1 DEF Line, OrderInv, Entered
<1>4. DOMAIN batch' = {}
  OBVIOUS
<1>5. ASSUME NEW e \in Text', e \notin disk
      PROVE  e \in disk' \ disk /\ \E i \in DOMAIN batch : e.n = batch[i]
  BY <1>5 DEF Text
<1>6. ASSUME NEW e \in Text', e \in disk PROVE e \in Text
  BY <1>6 DEF Text
<1>7. \A e \in Text', i \in DOMAIN buffer' : e.n < buffer'[i]
  BY <1>5, <1>6 DEF OrderInv, InOrder, Ahead
<1>8. \A e, f \in Text' : e.seq < f.seq => e.n < f.n
  <2> SUFFICES ASSUME NEW e \in Text', NEW f \in Text', e.seq < f.seq PROVE e.n < f.n
    OBVIOUS
  <2>1. CASE e \in disk /\ f \in disk
    BY <1>6, <2>1 DEF OrderInv, InOrder
  <2>2. CASE e \in disk /\ f \notin disk
    BY <1>5, <1>6, <2>2 DEF OrderInv, InOrder
  <2>3. CASE e \notin disk /\ f \in disk
    <3>1. e.seq \in Nat /\ e.seq > written /\ f.seq \in Nat /\ f.seq <= written
      BY <1>2, <1>5, <2>3
    <3> QED  BY <1>1, <3>1
  <2>4. CASE e \notin disk /\ f \notin disk
    BY <2>4
  <2> QED  BY <2>1, <2>2, <2>3, <2>4
<1>9. Rising(buffer)' /\ Rising(batch)' /\ Ahead(batch, buffer)'
  BY <1>4 DEF OrderInv, InOrder, Rising, Ahead
<1>10. InOrder'
  BY <1>4, <1>7, <1>8, <1>9 DEF InOrder
<1>11. \A e \in disk' : e.n <= lines' /\ e.seq <= written'
  <2> SUFFICES ASSUME NEW e \in disk' PROVE e.n <= lines /\ e.seq <= written'
    OBVIOUS
  <2>1. CASE e \in disk
    BY <1>1, <1>2, <2>1
  <2>2. CASE e \notin disk
    BY <1>1, <1>3, <2>2
  <2> QED  BY <2>1, <2>2
<1>12. Entered'
  BY <1>4, <1>11 DEF OrderInv, Entered
<1> QED  BY <1>10, <1>12

LEMMA OrderStep == OrderInv /\ [Next]_vars => OrderInv'
<1> SUFFICES ASSUME OrderInv, [Next]_vars PROVE InOrder' /\ Entered'
  BY TypeStep DEF OrderInv
<1>0. /\ buffer \in Seq(Line) /\ batch \in Seq(Line)
      /\ lines \in Nat /\ written \in Nat
  BY BoundsAssumption DEF OrderInv, TypeOK
<1>e. DOMAIN <<>> = {} /\ Len(<<>>) = 0
  OBVIOUS
<1>1. ASSUME UNCHANGED <<lines, buffer, batch, disk, written>> PROVE InOrder' /\ Entered'
  BY <1>1 DEF OrderInv, InOrder, Entered, Rising, Ahead, Text
<1>2. ASSUME NEW t \in Threads, TakeTime(t) \/ BeginDate(t) \/ Stamped(t) \/ DropLine(t)
      PROVE  InOrder' /\ Entered'
  BY <1>1, <1>2 DEF TakeTime, BeginDate, Stamped, DropLine
<1>3. ASSUME NEW t \in Threads, Enter(t) PROVE InOrder' /\ Entered'
  <2>2. <<lines + 1>> = [i \in 1..1 |-> lines + i]
    OBVIOUS
  <2>3. buffer' = buffer \o <<lines + 1>>
    BY <1>0, <1>3 DEF Enter
  <2>4. lines' = lines + 1 /\ batch' = batch /\ disk' = disk /\ written' = written
    BY <1>3 DEF Enter
  <2> QED  BY <2>2, <2>3, <2>4, OrderOfEntering
<1>4. CASE TimeOut \/ SleepAgain \/ ReadDate \/ Midnight \/ DiskFills \/ UNCHANGED vars
  BY <1>1, <1>4 DEF TimeOut, SleepAgain, ReadDate, Midnight, DiskFills, vars
<1>5. ASSUME buffer' = <<>>, batch' = buffer \/ batch' = <<>>,
             UNCHANGED <<lines, disk, written>>
      PROVE  InOrder' /\ Entered'
  <2>1. DOMAIN buffer' = {}
    BY <1>5, <1>e
  <2>2. DOMAIN batch' = {} \/ batch' = buffer
    BY <1>5, <1>e
  <2> QED  BY <1>5, <2>1, <2>2 DEF OrderInv, InOrder, Entered, Rising, Ahead, Text
<1>6. CASE TakeBatch \/ Restart
  BY <1>5, <1>6 DEF TakeBatch, Restart
<1>7. CASE Discard
  BY <1>0, <1>7, OrderOfWriting DEF Discard, GiveUp, OrderInv, InOrder, Text
<1>8. CASE ChangeFile
  BY <1>8, OrderOfRemovals DEF ChangeFile
<1>9. CASE OpenFails
  BY <1>9, OrderOfRemovals DEF OpenFails, OpenMisses, GiveUp
<1>10. Head1 \in {0, 1} /\ \A e \in HeadEntry : e.n = 0 /\ e.seq = written + 1 /\ Head1 = 1
  BY DEF Head1, HeadEntry, Entry
<1>11. CASE Put
  <2>1. PICK k \in 0..Len(batch) : PutLines(k)
    BY <1>11 DEF Put
  <2>2. k \in Nat /\ 1..k \subseteq DOMAIN batch
    BY <1>0
  <2>3. ASSUME NEW e \in disk' \ disk
        PROVE  \/ e \in HeadEntry
               \/ \E i \in 1..k : e.n = batch[i] /\ e.seq = written + (Head1 + i)
    BY <2>1, <2>3 DEF PutLines, Entry
  <2>4. written' = written + Head1 + k /\ disk \subseteq disk'
    BY <2>1 DEF PutLines
  <2>5. ASSUME NEW e \in disk' \ disk
        PROVE  /\ e.seq \in Nat /\ e.seq > written /\ e.seq <= written'
               /\ e.n = 0 \/ \E i \in DOMAIN batch : e.n = batch[i]
    <3>1. CASE e \in HeadEntry
      BY <1>0, <1>10, <2>2, <2>4, <3>1
    <3>2. ASSUME NEW i \in 1..k, e.n = batch[i], e.seq = written + (Head1 + i)
          PROVE  /\ e.seq \in Nat /\ e.seq > written /\ e.seq <= written'
                 /\ \E j \in DOMAIN batch : e.n = batch[j]
      BY <1>0, <1>10, <2>2, <2>4, <3>2
    <3> QED  BY <2>3, <3>1, <3>2
  <2>6. ASSUME NEW e \in Text' \ disk, NEW f \in Text' \ disk, e.seq < f.seq
        PROVE  e.n < f.n
    <3>1. e.n # 0 /\ f.n # 0 /\ e \in disk' \ disk /\ f \in disk' \ disk
      BY DEF Text
    <3>2. PICK i \in 1..k : e.n = batch[i] /\ e.seq = written + (Head1 + i)
      BY <1>10, <2>3, <3>1
    <3>3. PICK j \in 1..k : f.n = batch[j] /\ f.seq = written + (Head1 + j)
      BY <1>10, <2>3, <3>1
    <3>4. i < j
      BY <1>0, <1>10, <2>2, <2>6, <3>2, <3>3
    <3> QED  BY <2>2, <3>2, <3>3, <3>4 DEF OrderInv, InOrder, Rising
  <2>7. written' \in Nat /\ written' >= written
    BY <1>0, <1>10, <2>2, <2>4
  <2>8. UNCHANGED <<lines, buffer>> /\ batch' = <<>>
    BY <1>11 DEF Put
  <2> QED  BY <2>4, <2>5, <2>6, <2>7, <2>8, OrderOfWriting
<1>12. CASE SwitchOff
  <2>1. ASSUME NEW e \in disk' \ disk
        PROVE  e.n = 0 /\ (e.seq = written + 1 \/ e.seq = written + (Head1 + 1))
    BY <1>10, <1>12, <2>1 DEF SwitchOff, Entry
  <2>2. written' = written + Head1 + 1 /\ disk \subseteq disk'
    BY <1>12 DEF SwitchOff
  <2>3. ASSUME NEW e \in disk' \ disk
        PROVE  e.seq \in Nat /\ e.seq > written /\ e.seq <= written' /\ e.n = 0
    BY <1>0, <1>10, <2>1, <2>2
  <2>4. Text' \ disk = {}
    BY <2>3 DEF Text
  <2>5. written' \in Nat /\ written' >= written
    BY <1>0, <1>10, <2>2
  <2>6. UNCHANGED <<lines, buffer>> /\ batch' = <<>>
    BY <1>12 DEF SwitchOff, GiveUp
  <2> QED  BY <2>2, <2>3, <2>4, <2>5, <2>6, OrderOfWriting
<1> QED
  BY <1>2, <1>3, <1>4, <1>6, <1>7, <1>8, <1>9, <1>11, <1>12 DEF Next, Writer

(* Whatever is lost, removed or restarted in between, no line is written   *)
(* twice or overtakes another between the buffer and the files.            *)
THEOREM LinesKeepTheirOrder == Spec => []InOrder
<1>1. Init => OrderInv
  <2>1. Init => TypeOK
    BY TypeInit
  <2>2. DOMAIN <<>> = {}
    OBVIOUS
  <2> QED  BY <2>1, <2>2 DEF Init, OrderInv, InOrder, Entered, Rising, Ahead, Text
<1>2. OrderInv => InOrder
  BY DEF OrderInv
<1> QED  BY <1>1, <1>2, OrderStep, PTL DEF Spec

(***************************************************************************)
(* Files.  Whoever opens a file of a date looks for the first that has     *)
(* room, so all before it must be full: the numbers of the files of a date *)
(* have no gap, and none is looked at again once a later one is in use.    *)
(***************************************************************************)
FullBefore(f) ==
    \A j \in 1..(f.count - 1) : Cardinality(Entries(File(f.date, j))) >= FileLimit

(* The open file is the last of its date.                                  *)
FilesInv ==
    /\ OrderInv /\ IsFiniteSet(disk) /\ FilesInOrder
    /\ \A e \in disk : e.file.date \notin spoilt => FullBefore(e.file)
    /\ fp # NoFile /\ fp.date \notin spoilt =>
           /\ FullBefore(fp)
           /\ \A e \in disk : e.file.date = fp.date => e.file.count <= fp.count

LEMMA FilesTypes ==
    ASSUME TypeOK
    PROVE  /\ fp # NoFile => fp \in Files /\ fp.count \in Nat \ {0}
           /\ \A e \in disk : e.file \in Files /\ e.file.count \in Nat \ {0} /\ e.seq \in Nat
<1>1. fp \in Files \cup {NoFile} /\ \A e \in disk : e.file \in Files /\ e.seq \in Nat
  BY DEF TypeOK
<1> QED  BY <1>1 DEF Files

(* The file may be left, as long as the files do not change.               *)
LEMMA FilesUntouched ==
    ASSUME FilesInv, OrderInv', UNCHANGED <<disk, spoilt>>, fp' = fp \/ fp' = NoFile
    PROVE  FilesInv'
<1>1. \A f : FullBefore(f)' <=> FullBefore(f)
  BY DEF FullBefore, Entries
<1>2. FilesInOrder' /\ IsFiniteSet(disk')
  BY DEF FilesInv, FilesInOrder
<1>3. \A e \in disk' : e.file.date \notin spoilt' => FullBefore(e.file)'
  BY <1>1 DEF FilesInv
<1>4. ASSUME fp' # NoFile, fp'.date \notin spoilt'
      PROVE  /\ FullBefore(fp)'
             /\ \A e \in disk' : e.file.date = fp'.date => e.file.count <= fp'.count
  <2>1. fp' = fp
    BY <1>4
  <2>2. FullBefore(fp) /\ \A e \in disk : e.file.date = fp.date => e.file.count <= fp.count
    BY <1>4, <2>1 DEF FilesInv
  <2>3. FullBefore(fp)'
    BY <2>1, <2>2 DEF FullBefore, Entries
  <2> QED  BY <2>1, <2>2, <2>3
<1> QED  BY <1>2, <1>3, <1>4 DEF FilesInv

(* Entries are written at the end of the open file. *)
LEMMA FilesWritten ==
    ASSUME FilesInv, OrderInv', fp # NoFile, UNCHANGED <<fp, spoilt>>,
           disk \subseteq disk', IsFiniteSet(disk'),
           \A e \in disk' \ disk : e.file = fp /\ e.seq > written
    PROVE  FilesInv'
<1>1. /\ fp.count \in Nat \ {0}
      /\ \A e \in disk' : e.file.count \in Nat \ {0} /\ e.seq \in Nat
  <2>1. TypeOK /\ TypeOK'
    BY DEF FilesInv, OrderInv
  <2>2. \A e \in disk' : e.file.count \in Nat \ {0} /\ e.seq \in Nat
    BY <2>1 DEF TypeOK, Files
  <2> QED  BY <2>1, <2>2, FilesTypes
<1>2. \A f : FullBefore(f) => FullBefore(f)'
  <2>1. ASSUME NEW f, FullBefore(f) PROVE FullBefore(f)'
    <3>1. SUFFICES ASSUME NEW j \in 1..(f.count - 1)
                   PROVE  Cardinality(Entries(File(f.date, j)))' >= FileLimit
      BY DEF FullBefore
    <3>2. PICK g : g = File(f.date, j)
      OBVIOUS
    <3>3. PICK new : new = Entries(g)'
      OBVIOUS
    <3>4. Entries(g) \subseteq new /\ new \subseteq disk'
      BY <3>3 DEF Entries
    <3>5. IsFiniteSet(new)
      BY <3>4, FS_Subset
    <3>6. /\ Cardinality(Entries(g)) <= Cardinality(new)
          /\ Cardinality(new) \in Nat /\ Cardinality(Entries(g)) \in Nat
      BY <3>4, <3>5, FS_Subset, FS_CardinalityType
    <3>7. Cardinality(Entries(g)) >= FileLimit
      BY <2>1, <3>1, <3>2 DEF FullBefore
    <3>8. FileLimit \in Nat
      BY BoundsAssumption
    <3>9. Cardinality(new) >= FileLimit
      BY <3>6, <3>7, <3>8
    <3>10. Entries(File(f.date, j))' = new
      BY <3>2, <3>3 DEF Entries, File
    <3> QED  BY <3>9, <3>10
  <2> QED  BY <2>1
<1>3. ASSUME fp.date \notin spoilt, NEW e \in disk', e.file.date = fp.date
      PROVE  e.file.count <= fp.count
  BY <1>1, <1>3 DEF FilesInv
<1>4. ASSUME fp.date \notin spoilt PROVE FullBefore(fp)'
  <2>1. PICK f : f = fp
    OBVIOUS
  <2>2. FullBefore(f)'
    BY <1>2, <1>4, <2>1 DEF FilesInv
  <2> QED  BY <2>1, <2>2 DEF FullBefore, Entries
<1>5. ASSUME NEW e \in disk', e.file.date \notin spoilt PROVE FullBefore(e.file)'
  <2>1. CASE e \in disk
    BY <1>2, <1>5, <2>1 DEF FilesInv
  <2>2. CASE e \notin disk
    <3>1. e.file = fp /\ FullBefore(fp)
      BY <1>5, <2>2 DEF FilesInv
    <3> QED  BY <1>2, <3>1
  <2> QED  BY <2>1, <2>2
<1>6. FilesInOrder'
  <2> SUFFICES ASSUME NEW e \in disk', NEW f \in disk', e.file.date = f.file.date,
                      e.file.date \notin spoilt, e.seq < f.seq
               PROVE  e.file.count <= f.file.count
    BY DEF FilesInOrder
  <2>1. CASE f \in disk
    <3>1. f.seq <= written /\ written \in Nat
      BY <2>1 DEF FilesInv, OrderInv, Entered, TypeOK
    <3>2. e \in disk
      BY <1>1, <3>1
    <3> QED  BY <2>1, <3>2 DEF FilesInv, FilesInOrder
  <2>2. CASE f \notin disk
    BY <1>3, <2>2
  <2> QED  BY <2>1, <2>2
<1> QED  BY <1>3, <1>4, <1>5, <1>6 DEF FilesInv

(* The files of a date that a removal does not spoil are all there, or     *)
(* none is.                                                                *)
LEMMA FilesRemoved ==
    ASSUME FilesInv, NEW old \in Removals, RemoveFiles(old),
           NEW d, d \notin Thinned(old), NEW e \in disk', e.file.date = d
    PROVE  \A f : f.date = d => Entries(f)' = Entries(f) /\ f \notin old
<1>1. disk' = {g \in disk : g.file \notin old}
  BY DEF RemoveFiles
<1>2. e.file \in Written \ old
  BY <1>1 DEF Written
<1>3. \A f \in old : f.date # d
  BY <1>2 DEF Thinned
<1> QED  BY <1>1, <1>3 DEF Entries

(* The file a batch is about to go to is the last of its date, and all of  *)
(* that date before it are full, unless the date is spoilt.                *)
LEMMA FilesChosen ==
    ASSUME FilesInv, NEW old \in Removals, RemoveFiles(old), NEW f \in Target(old),
           spoilt' = spoilt \cup Thinned(old) \cup Taken(f), f.date \notin spoilt'
    PROVE  /\ FullBefore(f)'
           /\ \A e \in disk' : e.file.date = f.date => e.file.count <= f.count
<1>t. TypeOK
  BY DEF FilesInv, OrderInv
<1>1. /\ FileLimit \in Nat \ {0} /\ written \in Nat
      /\ fp # NoFile => fp \in Files /\ fp.count \in Nat \ {0}
      /\ \A e \in disk : e.file \in Files /\ e.file.count \in Nat \ {0}
  BY <1>t, FilesTypes, BoundsAssumption DEF TypeOK
<1>2. disk' = {e \in disk : e.file \notin old}
  BY DEF RemoveFiles
<1>3. ~ DayChanges => old = {}
  BY DEF Removals
<1>4. ASSUME NEW d, NEW j, Size(File(d, j), old) >= FileLimit
      PROVE  Cardinality(Entries(File(d, j))') >= FileLimit
  <2>1. PICK g : g = File(d, j)
    OBVIOUS
  <2>2. g \notin old /\ Cardinality(Entries(g)) >= FileLimit
    BY <1>1, <1>4, <2>1 DEF Size
  <2>3. {e \in disk' : e.file = g} = {e \in disk : e.file = g}
    BY <1>2, <2>2
  <2> QED  BY <2>1, <2>2, <2>3 DEF Entries, File
<1>5. ASSUME NEW c \in Nat \ {0}, NEW g \in RoomFrom(File(asked, c), old)
      PROVE  /\ g.count \in Nat /\ g.count >= c
             /\ Size(g, old) < FileLimit /\ g = File(asked, g.count) /\ g.date = asked
             /\ \A j \in c..(g.count - 1) : Size(File(asked, j), old) >= FileLimit
  <2>1. PICK k \in c..(c + written) : g = File(asked, k)
    BY <1>5 DEF RoomFrom, File
  <2>2. /\ File(asked, c).date = asked /\ File(asked, c).count = c
        /\ g.count = k /\ g.date = asked
    BY <2>1 DEF File
  <2> QED  BY <1>1, <1>5, <2>1, <2>2 DEF RoomFrom
<1>6. CASE f = fp
  <2>1. fp # NoFile /\ ~ DayChanges
    <3>1. fp # NoFile
      <4>1. \A c \in Nat \ {0} : NoFile \notin RoomFrom(File(asked, c), old)
        <5>1. NoFile.count = 0
          BY DEF NoFile, File
        <5> QED  BY <1>5, <5>1
      <4> QED  BY <1>6, <4>1 DEF Target
    <3>2. DayChanges => fp.date # asked
      BY DEF DayChanges
    <3>3. \A g \in RoomFrom(File(asked, 1), old) : g.date = asked
      BY <1>5
    <3> QED  BY <1>6, <3>1, <3>2, <3>3 DEF Target
  <2>2. disk' = disk
    BY <1>2, <1>3, <2>1
  <2>3. FullBefore(f) /\ \A e \in disk : e.file.date = f.date => e.file.count <= f.count
    BY <1>6, <2>1 DEF FilesInv
  <2> QED  BY <2>2, <2>3 DEF FullBefore, Entries
<1>7. CASE f # fp
  <2>1. f.date = asked /\ \A j \in 1..(f.count - 1) : Size(File(asked, j), old) >= FileLimit
    <3>1. CASE fp = NoFile \/ DayChanges
      BY <1>5, <3>1 DEF Target
    <3>2. CASE fp # NoFile /\ ~ DayChanges
      <4>1. ~ (Size(fp, old) < FileLimit) /\ f \in RoomFrom(File(asked, fp.count + 1), old)
        BY <1>7, <3>2 DEF Target
      <4>2. /\ f.date = asked /\ f.count \in Nat /\ f.count >= fp.count + 1
            /\ \A j \in (fp.count + 1)..(f.count - 1) : Size(File(asked, j), old) >= FileLimit
        BY <1>1, <1>5, <3>2, <4>1
      <4>3. fp.date = asked
        BY <1>7, <3>2, <4>2 DEF Taken
      <4>4. fp = File(asked, fp.count)
        BY <1>1, <3>2, <4>3 DEF Files, File
      <4>5. \A j \in 1..(fp.count - 1) : Size(File(asked, j), old) >= FileLimit
        <5>1. FullBefore(fp)
          BY <3>2, <4>2, <4>3 DEF FilesInv
        <5>2. old = {}
          BY <1>3, <3>2
        <5> QED  BY <4>3, <5>1, <5>2 DEF FullBefore, Size
      <4>6. Size(File(asked, fp.count), old) >= FileLimit
        <5>1. Size(fp, old) \in Nat
          BY FS_Subset, FS_CardinalityType DEF Size, FilesInv, Entries
        <5> QED  BY <1>1, <4>1, <4>4, <5>1
      <4> QED  BY <1>1, <3>2, <4>2, <4>5, <4>6
    <3> QED  BY <3>1, <3>2
  <2>2. f.count \in Nat /\ Size(f, old) < FileLimit /\ f = File(asked, f.count)
    BY <1>1, <1>5, <1>7 DEF Target
  <2>3. FullBefore(f)'
    BY <1>4, <2>1 DEF FullBefore
  <2>4. ASSUME NEW e \in disk', e.file.date = asked, e.file.count > f.count PROVE FALSE
    <3>1. asked \notin spoilt /\ asked \notin Thinned(old)
      BY <2>1
    <3>2. e \in disk /\ FullBefore(e.file)
      BY <1>2, <2>4, <3>1 DEF FilesInv
    <3>3. f \notin old
      BY <2>1, <2>4, <3>1, FilesRemoved
    <3>4. f.count \in 1..(e.file.count - 1)
      <4>1. f.count >= 1
        BY <1>1, <1>5, <1>7 DEF Target
      <4> QED  BY <1>1, <2>2, <2>4, <3>2, <4>1
    <3>5. Cardinality(Entries(f)) >= FileLimit
      BY <2>2, <2>4, <3>2, <3>4 DEF FullBefore
    <3>6. Cardinality(Entries(f)) \in Nat
      BY FS_Subset, FS_CardinalityType DEF FilesInv, Entries
    <3> QED  BY <1>1, <2>2, <3>3, <3>5, <3>6 DEF Size
  <2>5. \A e \in disk' : e.file.count \in Nat
    BY <1>1, <1>2
  <2> QED  BY <2>1, <2>2, <2>3, <2>4, <2>5
<1> QED  BY <1>6, <1>7

LEMMA FilesStep == FilesInv /\ [Next]_vars => FilesInv'
<1> SUFFICES ASSUME FilesInv, [Next]_vars PROVE FilesInv'
  OBVIOUS
<1>o. OrderInv /\ OrderInv'
  BY OrderStep DEF FilesInv
<1>t. TypeOK /\ TypeOK'
  BY <1>o DEF OrderInv
<1>0. written \in Nat
  BY <1>t DEF TypeOK
<1>1. ASSUME NEW t \in Threads,
             TakeTime(t) \/ BeginDate(t) \/ Stamped(t) \/ Enter(t) \/ DropLine(t)
      PROVE  FilesInv'
  BY <1>1, <1>o, FilesUntouched DEF TakeTime, BeginDate, Stamped, Enter, DropLine
<1>2. CASE TimeOut \/ SleepAgain \/ DiskFills \/ UNCHANGED vars
  BY <1>2, <1>o, FilesUntouched DEF TimeOut, SleepAgain, DiskFills, vars
<1>3. CASE TakeBatch \/ Discard \/ ReadDate
  BY <1>3, <1>o, FilesUntouched DEF TakeBatch, Discard, ReadDate
<1>4. CASE Midnight \/ Restart
  BY <1>4, <1>o, FilesUntouched DEF Midnight, Restart
<1>6. ASSUME NEW old \in Removals, RemoveFiles(old), spoilt \cup Thinned(old) \subseteq spoilt',
             fp' # NoFile => fp' \in Target(old)
                             /\ spoilt' = spoilt \cup Thinned(old) \cup Taken(fp')
      PROVE  FilesInv'
  <2>2. disk' = {e \in disk : e.file \notin old} /\ disk' \subseteq disk
    BY <1>6 DEF RemoveFiles
  <2>4. FilesInOrder' /\ IsFiniteSet(disk')
    BY <1>6, <2>2, FS_Subset DEF FilesInv, FilesInOrder
  <2>6. ASSUME NEW e \in disk', e.file.date \notin spoilt' PROVE FullBefore(e.file)'
    <3>1. FullBefore(e.file) /\ e.file.date \notin Thinned(old)
      BY <1>6, <2>2, <2>6 DEF FilesInv
    <3>2. \A f : f.date = e.file.date => Entries(f)' = Entries(f)
      BY <1>6, <2>6, <3>1, FilesRemoved
    <3>3. \A j : File(e.file.date, j).date = e.file.date
      BY DEF File
    <3>4. \A j : Entries(File(e.file.date, j))' = Entries(File(e.file.date, j))
      BY <3>2, <3>3
    <3> QED  BY <3>1, <3>4 DEF FullBefore
  <2>7. ASSUME fp' # NoFile, fp'.date \notin spoilt'
        PROVE  /\ FullBefore(fp)'
               /\ \A e \in disk' : e.file.date = fp'.date => e.file.count <= fp'.count
    <3>1. PICK f : f = fp'
      OBVIOUS
    <3>2. /\ FullBefore(f)'
          /\ \A e \in disk' : e.file.date = f.date => e.file.count <= f.count
      BY <1>6, <2>7, <3>1, FilesChosen
    <3>3. FullBefore(fp)'
      BY <3>1, <3>2 DEF FullBefore, Entries
    <3> QED  BY <3>1, <3>2, <3>3
  <2> QED  BY <1>o, <2>4, <2>6, <2>7 DEF FilesInv
<1>7. CASE ChangeFile
  BY <1>6, <1>7 DEF ChangeFile
<1>8. CASE OpenFails
  <2>1. PICK old \in Removals : RemoveFiles(old) /\ spoilt' = spoilt \cup Thinned(old)
    BY <1>8 DEF OpenFails, OpenMisses
  <2>2. fp' = NoFile
    BY <1>8 DEF OpenFails, OpenMisses
  <2> QED  BY <1>6, <2>1, <2>2
<1>9. ASSUME NEW e \in HeadEntry PROVE e.file = fp /\ e.seq = written + 1 /\ Head1 = 1
  BY <1>9 DEF HeadEntry, Head1, Entry
<1>10. IsFiniteSet(HeadEntry) /\ Head1 \in {0, 1} /\ IsFiniteSet(disk)
  BY FS_EmptySet, FS_Singleton DEF HeadEntry, Head1, FilesInv
<1>11. CASE Put
  <2>1. PICK k \in 0..Len(batch) : PutLines(k)
    BY <1>11 DEF Put
  <2>2. batch \in Seq(Line) /\ k \in Nat
    BY <1>t DEF TypeOK
  <2> DEFINE new == {Entry(Head1 + i, batch[i]) : i \in 1..k}
  <2>3. disk' = disk \cup HeadEntry \cup new
    BY <2>1 DEF PutLines
  <2>4. IsFiniteSet(new)
    <3> DEFINE number == [i \in 1..k |-> Entry(Head1 + i, batch[i])]
    <3>1. number \in Surjection(1..k, new)
      BY DEF Surjection
    <3>2. IsFiniteSet(1..k)
      BY <2>2, FS_Interval
    <3> HIDE DEF number, new
    <3> QED  BY <3>1, <3>2, FS_Surjection
  <2>5. \A e \in new : e.file = fp /\ e.seq > written
    BY <1>0, <1>10, <2>2 DEF Entry
  <2> HIDE DEF new
  <2>6. IsFiniteSet(disk')
    BY <1>10, <2>3, <2>4, FS_Union
  <2>7. fp # NoFile /\ UNCHANGED <<fp, spoilt>>
    BY <1>11, <1>t DEF Put, TypeOK
  <2> QED  BY <1>0, <1>9, <1>o, <2>3, <2>5, <2>6, <2>7, FilesWritten
<1>12. CASE SwitchOff
  <2>1. disk' = disk \cup HeadEntry \cup {Entry(Head1 + 1, 0)}
    BY <1>12 DEF SwitchOff
  <2>2. IsFiniteSet(disk')
    BY <1>10, <2>1, FS_Singleton, FS_Union
  <2>3. Entry(Head1 + 1, 0).file = fp /\ Entry(Head1 + 1, 0).seq > written
    BY <1>0, <1>10 DEF Entry
  <2>4. fp # NoFile /\ UNCHANGED <<fp, spoilt>>
    BY <1>12, <1>t DEF SwitchOff, TypeOK
  <2> QED  BY <1>0, <1>9, <1>o, <2>1, <2>2, <2>3, <2>4, FilesWritten
<1> QED
  BY <1>1, <1>2, <1>3, <1>4, <1>7, <1>8, <1>11, <1>12 DEF Next, Writer

(* For all dates, consecutive or not and of whatever sums: the numbers of  *)
(* the files of a date follow the order in which they were written,        *)
(* whatever fails, is restarted or is dated wrongly, but for the dates     *)
(* that FilesInOrder excepts.                                              *)
THEOREM FilesKeepTheirOrder == Spec => []FilesInOrder
<1>1. Init => FilesInv
  <2>1. Init => OrderInv
    <3>1. Init => TypeOK
      BY TypeInit
    <3>2. DOMAIN <<>> = {}
      OBVIOUS
    <3> QED  BY <3>1, <3>2 DEF Init, OrderInv, InOrder, Entered, Rising, Ahead, Text
  <2> QED  BY <2>1, FS_EmptySet DEF Init, FilesInv, FilesInOrder
<1>2. FilesInv => FilesInOrder
  BY DEF FilesInv
<1> QED  BY <1>1, <1>2, FilesStep, PTL DEF Spec
=============================================================================
