------------------------------- MODULE Logger -------------------------------
(***************************************************************************)
(* src/src/Log_Message.cpp: every thread of the program appends its lines  *)
(* to one buffer, and a thread of its own takes the whole buffer at least  *)
(* once a second and writes it to the files of the day.  The process may   *)
(* end at any moment and start again over the files it left.               *)
(*                                                                         *)
(* Every time stamp writes the date into _time under a lock; the thread    *)
(* that writes the files reads it there without.                           *)
(*                                                                         *)
(* A line is the number under which it entered the buffer; all lines are   *)
(* of length 1.  An entry of the disk has its place in the order of        *)
(* writing (seq).                                                          *)
(***************************************************************************)
EXTENDS Integers, Sequences, FiniteSets

CONSTANTS
    Threads,      \* the threads that log
    Capacity,     \* LOG_BUF_USE_LIMIT
    FileLimit,    \* LOG_USE_LIMIT
    LogDays,      \* log_days, for which files are kept
    Dates,        \* year, mon and day of each day on which something is logged
    MaxLines,     \* bound: lines that enter the buffer
    MaxRestarts   \* bound: times the process ends and starts again

ASSUME BoundsAssumption ==
    /\ {Capacity, FileLimit} \subseteq Nat \ {0}
    /\ {LogDays, MaxLines, MaxRestarts} \subseteq Nat
ASSUME DatesAssumption == Dates \in Seq(Nat \X Nat \X Nat) /\ Dates # <<>>

Days == DOMAIN Dates
AnyDate == Nat \X Nat \X Nat
NoDate  == <<0, 0, 0>>

File(d, k) == [date |-> d, count |-> k]
NoFile == File(NoDate, 0)      \* log_fp is NULL

VARIABLES
    clock,      \* the day it is
    today,      \* year, mon and day of _time
    step,       \* of each thread's line: "none", "timed", "dating" (it has utc_mtx) or "stamped"
    took,       \* the day that gettimeofday gave to each thread, or 0
    lines,      \* lines that have entered the buffer so far
    buffer,     \* log_buffer
    batch,      \* log_data
    pc,         \* the writing thread: "wait", "awake", "write", "open" or "put"
    asked,      \* _year, _mon and _day of write_to_file, or NoDate
    logWrite,   \* log_write
    fp,         \* the file behind log_fp
    isNew,
    disk,       \* the entries of all files: [file, seq, n, at]
    written,    \* entries written so far
    short,      \* is less than LOG_MINIMUMSPACE left on the disk?
    lost,       \* lines taken from the buffer that an error kept from the disk
    restarts,
    spoilt      \* dates of whose files some were removed and others kept, or that were
                \* begun with a number behind those of a date with the same sum

stamps == <<step, took>>
vars == <<clock, today, stamps, lines, buffer, batch, pc, asked, logWrite, fp, isNew,
          disk, written, short, lost, restarts, spoilt>>

Line  == 1..MaxLines
Files == [date : AnyDate, count : Nat \ {0}]

(* n = 0 is one of the lines log_head_line and log_head_end. *)
TypeOK ==
    /\ clock \in Days /\ today \in AnyDate
    /\ step \in [Threads -> {"none", "timed", "dating", "stamped"}]
    /\ took \in [Threads -> Days \cup {0}]
    /\ \A t \in Threads : took[t] # 0 <=> step[t] \in {"timed", "dating"}
    /\ \A t, u \in Threads : step[t] = "dating" /\ step[u] = "dating" => t = u
    /\ lines \in 0..MaxLines
    /\ buffer \in Seq(Line) /\ batch \in Seq(Line)
    /\ pc \in {"wait", "awake", "write", "open", "put"}
    /\ asked \in AnyDate
    /\ logWrite \in BOOLEAN /\ isNew \in BOOLEAN /\ short \in BOOLEAN
    /\ fp \in Files \cup {NoFile} /\ (pc = "put" => fp # NoFile)
    /\ disk \subseteq [file : Files, seq : Nat, n : 0..MaxLines, at : Days]
    /\ written \in Nat
    /\ lost \subseteq 1..MaxLines
    /\ restarts \in 0..MaxRestarts
    /\ spoilt \subseteq AnyDate

Init ==
    /\ clock = 1 /\ today = Dates[1]
    /\ step = [t \in Threads |-> "none"] /\ took = [t \in Threads |-> 0]
    /\ lines = 0 /\ buffer = <<>> /\ batch = <<>>
    /\ pc = "awake" /\ asked = NoDate
    /\ logWrite = TRUE /\ fp = NoFile /\ isNew = FALSE
    /\ disk = {} /\ written = 0 /\ lost = {}
    /\ short \in BOOLEAN
    /\ restarts = 0 /\ spoilt = {}

(***************************************************************************)
(* log_message and hex_message.                                            *)
(***************************************************************************)

(* get_utc_timer: gettimeofday before the lock, the date under it.  A      *)
(* thread that was overtaken between the two sets the date back.           *)
TakeTime(t) ==
    /\ step[t] = "none"
    /\ step' = [step EXCEPT ![t] = "timed"]
    /\ took' = [took EXCEPT ![t] = clock]
    /\ UNCHANGED <<clock, today, lines, buffer, batch, pc, asked, logWrite, fp, isNew, disk,
                   written, short, lost, restarts, spoilt>>

utcFree == \A t \in Threads : step[t] # "dating"

BeginDate(t) ==
    /\ step[t] = "timed" /\ utcFree
    /\ step' = [step EXCEPT ![t] = "dating"]
    /\ UNCHANGED <<clock, today, took, lines, buffer, batch, pc, asked, logWrite, fp, isNew,
                   disk, written, short, lost, restarts, spoilt>>

Stamped(t) ==
    /\ step[t] = "dating"
    /\ today' = Dates[took[t]]
    /\ step' = [step EXCEPT ![t] = "stamped"]
    /\ took' = [took EXCEPT ![t] = 0]
    /\ UNCHANGED <<clock, lines, buffer, batch, pc, asked, logWrite, fp, isNew, disk,
                   written, short, lost, restarts, spoilt>>

HasRoom == Len(buffer) + 1 < Capacity

(* try_append of a line that fits: the writing thread is not told. *)
Enter(t) ==
    /\ step[t] = "stamped" /\ HasRoom /\ lines < MaxLines
    /\ buffer' = Append(buffer, lines + 1)
    /\ lines' = lines + 1
    /\ step' = [step EXCEPT ![t] = "none"]
    /\ UNCHANGED <<clock, today, took, batch, pc, asked, logWrite, fp, isNew, disk, written,
                   short, lost, restarts, spoilt>>

(* One that does not is dropped, and the writing thread is woken. *)
DropLine(t) ==
    /\ step[t] = "stamped" /\ ~ HasRoom
    /\ step' = [step EXCEPT ![t] = "none"]
    /\ pc' = IF pc = "wait" THEN "awake" ELSE pc
    /\ UNCHANGED <<clock, today, took, lines, buffer, batch, asked, logWrite, fp, isNew,
                   disk, written, short, lost, restarts, spoilt>>

(***************************************************************************)
(* log_thread_to_show.                                                     *)
(***************************************************************************)

(* Mutant: the thread waits until it is told. *)
NoTimeOut == pc = "wait" /\ ~ HasRoom /\ pc' = "awake"
             /\ UNCHANGED <<clock, today, stamps, lines, buffer, batch, asked, logWrite,
                            fp, isNew, disk, written, short, lost, restarts, spoilt>>

(* pthread_cond_timedwait returns after a second. *)
TimeOut == pc = "wait" /\ pc' = "awake"
           /\ UNCHANGED <<clock, today, stamps, lines, buffer, batch, asked, logWrite, fp,
                          isNew, disk, written, short, lost, restarts, spoilt>>

SleepAgain == pc = "awake" /\ buffer = <<>> /\ pc' = "wait"
              /\ UNCHANGED <<clock, today, stamps, lines, buffer, batch, asked, logWrite,
                             fp, isNew, disk, written, short, lost, restarts, spoilt>>

(* Mutant: log_buffer_len is not reset. *)
CopyBuffer ==
    /\ pc = "awake" /\ buffer # <<>>
    /\ batch' = buffer
    /\ pc' = "write"
    /\ UNCHANGED <<clock, today, stamps, lines, buffer, asked, logWrite, fp, isNew, disk,
                   written, short, lost, restarts, spoilt>>

TakeBatch ==
    /\ pc = "awake" /\ buffer # <<>>
    /\ batch' = buffer /\ buffer' = <<>>
    /\ pc' = "write"
    /\ UNCHANGED <<clock, today, stamps, lines, asked, logWrite, fp, isNew, disk, written,
                   short, lost, restarts, spoilt>>

Numbers(seq) == {seq[i] : i \in DOMAIN seq}

(* The batch is given up. *)
GiveUp == batch' = <<>> /\ lost' = lost \cup Numbers(batch) /\ pc' = "awake"

(* Writing has been switched off: memset. *)
Discard ==
    /\ pc = "write" /\ ~ logWrite
    /\ GiveUp
    /\ UNCHANGED <<clock, today, stamps, lines, buffer, asked, logWrite, fp, isNew, disk,
                   written, short, restarts, spoilt>>

(***************************************************************************)
(* write_to_file.                                                          *)
(***************************************************************************)
Entries(f) == {e \in disk : e.file = f}

(* The parameters are read without the lock: a thread that is writing      *)
(* another date may have written any part of it.                           *)
Mixed(d, e) == {d[1], e[1]} \X {d[2], e[2]} \X {d[3], e[3]}

SeenDates ==
    {today} \cup UNION {Mixed(today, Dates[took[t]]) : t \in {u \in Threads : step[u] = "dating"}}

ReadDate ==
    /\ pc = "write" /\ logWrite
    /\ asked' \in SeenDates
    /\ pc' = "open"
    /\ UNCHANGED <<clock, today, stamps, lines, buffer, batch, logWrite, fp, isNew, disk,
                   written, short, lost, restarts, spoilt>>

(* The date has changed, as far as the sum of its parts tells. *)
DayChanges == fp # NoFile /\ LET d == fp.date IN d[1] + d[2] + d[3] # asked[1] + asked[2] + asked[3]

(* find_directory_to_del_old_files, when the day changes: a file that was  *)
(* not written to for log_days is removed.  A file that is log_days old by *)
(* the calendar may be a little younger or older than that.                *)
Written    == {e.file : e \in disk}
Older(age) == {f \in Written : \A e \in Entries(f) : clock - e.at >= age}
Removals ==
    IF DayChanges THEN {old \in SUBSET Older(LogDays) : Older(LogDays + 1) \subseteq old}
    ELSE {{}}

(* ftell of a file that is opened, when the files old have been removed. *)
Size(f, old) == IF f \in old THEN 0 ELSE Cardinality(Entries(f))

(* The first file from f on that is shorter than the limit. *)
RoomFrom(f, old) ==
    {g \in {File(f.date, k) : k \in f.count..(f.count + written)} :
        /\ Size(g, old) < FileLimit
        /\ \A j \in f.count..(g.count - 1) : Size(File(f.date, j), old) >= FileLimit}

(* Mutant: only a file that is open already is looked at for its size.     *)
TargetUnlessOpened(old) ==
    IF fp = NoFile \/ DayChanges THEN {File(asked, 1)}
    ELSE RoomFrom(File(asked, fp.count), old)

(* The open file, or the next one if it is full, or that of the new day.   *)
Target(old) ==
    IF fp = NoFile \/ DayChanges THEN RoomFrom(File(asked, 1), old)
    ELSE IF Size(fp, old) < FileLimit THEN {fp}
    ELSE RoomFrom(File(asked, fp.count + 1), old)

(* Each removal is logged, while there is room. *)
MayAppend(k) == Len(buffer) + k < Capacity /\ lines + k <= MaxLines
Messages(old) ==
    {k \in 0..MaxLines : /\ MayAppend(k) /\ k <= Cardinality(old)
                         /\ k < Cardinality(old) => ~ MayAppend(k + 1)}

RemoveFiles(old) ==
    /\ old # {} => utcFree
    /\ disk' = {e \in disk : e.file \notin old}
    /\ \E k \in Messages(old) :
          /\ buffer' = buffer \o [i \in 1..k |-> lines + i]
          /\ lines' = lines + k
    /\ today' = IF old = {} THEN today ELSE Dates[clock]

(* Dates that lose some of their files and keep others. *)
Thinned(old) ==
    {f.date : f \in {g \in old : \E h \in Written \ old : h.date = g.date}}

(* A date that is begun behind the number of the open file: its sum is     *)
(* that of the date of this file.                                          *)
Taken(f) == IF fp # NoFile /\ ~ DayChanges /\ fp.date # asked /\ f # fp THEN {asked} ELSE {}

ChangeFile ==
    /\ pc = "open"
    /\ \E old \in Removals :
          /\ RemoveFiles(old)
          /\ fp' \in Target(old)
          /\ spoilt' = spoilt \cup Thinned(old) \cup Taken(fp')
    /\ isNew' = (isNew \/ DayChanges \/ fp' # fp)
    /\ pc' = "put" /\ asked' = NoDate
    /\ UNCHANGED <<clock, stamps, batch, logWrite, written, short, lost, restarts>>

OpenMisses ==
    /\ pc = "open"
    /\ \E old \in Removals :
          /\ fp \notin Target(old)
          /\ RemoveFiles(old)
          /\ spoilt' = spoilt \cup Thinned(old)
    /\ fp' = NoFile /\ asked' = NoDate

(* Mutant: log_fp is used whether or not it could be opened. *)
OpenUnchecked ==
    /\ OpenMisses
    /\ isNew' = TRUE
    /\ pc' = "put"
    /\ UNCHANGED <<clock, stamps, batch, logWrite, written, short, lost, restarts>>

(* fopen, or the making of its directory, fails. *)
OpenFails ==
    /\ OpenMisses
    /\ isNew' = (isNew \/ DayChanges)
    /\ GiveUp
    /\ UNCHANGED <<clock, stamps, logWrite, written, short, restarts>>

Entry(k, n) == [file |-> fp, seq |-> written + k, n |-> n, at |-> clock]

(* log_head_line, if the file has just been opened. *)
Head1 == IF isNew THEN 1 ELSE 0
HeadEntry == IF isNew THEN {Entry(1, 0)} ELSE {}

(* There is space: the first k lines of the batch get to the file, all of  *)
(* them unless fwrite fails.                                               *)
PutLines(k) ==
    /\ disk' = disk \cup HeadEntry
                    \cup {Entry(Head1 + i, batch[i]) : i \in 1..k}
    /\ written' = written + Head1 + k
    /\ lost' = lost \cup {batch[i] : i \in (k + 1)..Len(batch)}

Put ==
    /\ pc = "put" /\ ~ short
    /\ \E k \in 0..Len(batch) : PutLines(k)
    /\ isNew' = FALSE
    /\ batch' = <<>> /\ pc' = "awake"
    /\ UNCHANGED <<clock, today, stamps, lines, buffer, asked, logWrite, fp, short,
                   restarts, spoilt>>

(* There is not: log_head_end is written and then nothing ever again. *)
SwitchOff ==
    /\ pc = "put" /\ short
    /\ disk' = disk \cup HeadEntry \cup {Entry(Head1 + 1, 0)}
    /\ written' = written + Head1 + 1
    /\ isNew' = FALSE
    /\ logWrite' = FALSE
    /\ GiveUp
    /\ UNCHANGED <<clock, today, stamps, lines, buffer, fp, short, restarts, asked, spoilt>>

(***************************************************************************)
(* The world.                                                              *)
(***************************************************************************)
Midnight ==
    /\ clock + 1 \in Days
    /\ clock' = clock + 1
    /\ UNCHANGED <<today, stamps, lines, buffer, batch, pc, asked, logWrite, fp, isNew,
                   disk, written, short, lost, restarts, spoilt>>

DiskFills ==
    /\ short' = ~ short
    /\ UNCHANGED <<clock, today, stamps, lines, buffer, batch, pc, asked, logWrite, fp,
                   isNew, disk, written, lost, restarts, spoilt>>

(* The process ends, however, and is started again. *)
Restart ==
    /\ restarts < MaxRestarts
    /\ restarts' = restarts + 1
    /\ lost' = lost \cup Numbers(batch) \cup Numbers(buffer)
    /\ step' = [t \in Threads |-> "none"] /\ took' = [t \in Threads |-> 0]
    /\ buffer' = <<>> /\ batch' = <<>> /\ pc' = "awake"
    /\ logWrite' = TRUE /\ fp' = NoFile /\ isNew' = FALSE
    /\ today' = Dates[clock] /\ asked' = NoDate
    /\ UNCHANGED <<clock, lines, disk, written, short, spoilt>>

Writer == TimeOut \/ SleepAgain \/ TakeBatch \/ Discard \/ ReadDate \/ ChangeFile \/ OpenFails
          \/ Put \/ SwitchOff

Next ==
    \/ \E t \in Threads : TakeTime(t) \/ BeginDate(t) \/ Stamped(t) \/ Enter(t) \/ DropLine(t)
    \/ Writer
    \/ Midnight \/ DiskFills \/ Restart

Spec == Init /\ [][Next]_vars

(* A thread with utc_mtx goes on, and the writing thread gets it when it   *)
(* is free again and again.                                                *)
FairSpec ==
    /\ Spec
    /\ WF_vars(Writer) /\ SF_vars(ChangeFile \/ OpenFails)
    /\ \A t \in Threads : WF_vars(Stamped(t))

(***************************************************************************)
(* Properties.                                                             *)
(***************************************************************************)
Rising(seq) == \A i, j \in DOMAIN seq : i < j => seq[i] < seq[j]

Ahead(front, back) == \A i \in DOMAIN front, j \in DOMAIN back : front[i] < back[j]

Text == {e \in disk : e.n # 0}

(* No line is written twice or overtakes another on its way through the    *)
(* buffer, the batch and the files, whatever is lost, removed or restarted *)
(* in between.                                                             *)
InOrder ==
    /\ Rising(buffer) /\ Rising(batch) /\ Ahead(batch, buffer)
    /\ \A e \in Text, i \in DOMAIN batch : e.n < batch[i]
    /\ \A e \in Text, i \in DOMAIN buffer : e.n < buffer[i]
    /\ \A e, f \in Text : e.seq < f.seq => e.n < f.n

(* Who reads the files of a date by their numbers reads its entries in the *)
(* order in which they were written, whatever fails, is restarted or is    *)
(* dated wrongly.  That is not so of a date of whose files a removal left  *)
(* some, nor of one whose first file got its number from a date with the   *)
(* same sum.                                                               *)
FilesInOrder ==
    \A e, f \in disk :
        e.file.date = f.file.date /\ e.file.date \notin spoilt /\ e.seq < f.seq
            => e.file.count <= f.file.count

(* A line that entered the buffer gets to the disk, unless an error, a     *)
(* restart or a full disk keeps it from there: nobody has to wake the      *)
(* writing thread.                                                         *)
EnteredIsWritten ==
    \A n \in 1..MaxLines :
        n \in Numbers(buffer) ~> (n \in {e.n : e \in Text} \/ n \in lost)
=============================================================================
