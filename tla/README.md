# A verification project for IMachine_HB_F_1

IMachine is the program of a toll-lane controller.  It listens on two TCP
ports, one for the robot and one for the manned booth, executes the frames
these computers send (raise or lower the barrier arm, show a fee, play a voice,
switch the traffic light and the alarm lamp), reports the state of the induction
coils, and sends heartbeats.  A switch in the lane decides which of the two
computers is obeyed.  This directory holds TLA+ models of the program, the TLC
runs that check them on small instances, and TLAPS proofs.  Paths below are
relative to the repository, which is `src/` here.

## 1. Inventory

### Threads

| thread | started at | what it does |
| --- | --- | --- |
| main | `src/main.cpp` | reads the configuration, starts everything, then spins in `Start` |
| receiver 1, receiver 2 | `TcpserverFunc1/2`, `src/IMachine.cpp:180` | `ReceiveCmd1/2`: cut the stream of one computer into frames and execute them |
| accept thread, one per port | `src/TcpServer.cpp:142` | puts a new connection in the place of the old one |
| vehicle thread | `src/IMachine.cpp:258` | reads coils and switch, reports changes |
| timer thread | `src/IMachine.cpp:222` | puts the default lines back on the fee display |
| heart thread | `src/IMachine.cpp:357` | one heartbeat to each computer every three seconds |
| pulse thread | `Balustrade_Thread`, `src/IMachine.cpp:207` | releases both relays of the arm after one second |
| display thread | `src/QYLED.cpp:745` | sends the contents of the task list to the panel |
| connect thread | `src/Tcp.cpp:134` | opens the link to the panel again |
| speech thread, log thread | `src/tts.cpp:184`, `src/Log_Message.cpp` | synthesise speech, write the log |

### Components

| component | state | operations | interacts with | hard part | what makes it correct |
| --- | --- | --- | --- | --- | --- |
| Barrier control | relays `Balustrade_up/down`, `balustradeThread`, `IO4_manualSwitchStatus` | `BalusTrade`, `Balustrade_Thread`, the mode gate in `CommunicationAnalysis` | both receivers, vehicle thread (writes the mode) | two receivers share an unlocked `std::thread`; only `join` orders two moves | never both relays, every relay released, no `std::terminate` |
| Frame receiver | `Recv_Data`, `pos`, `Index1`, `Index2`, `Command_Len` | receive, search, measure, check, execute, shift | TCP server below, dispatch above | TCP joins and cuts frames; wrong frames; leftovers in the buffer | right frames are executed once, in order, and none is lost |
| Display task list | list of nodes with a status, the thread's copy, the link | `ShowAdd`, `Node_Change`, `FindNode`, `ListTaskInit`, `DisplayThread`, `Send` | writers through `QLED`, the panel through a `Communication` | overwriting a node while it is being sent; a link that fails | a line shows the last content put on it and never goes back |
| Display content timer | `displayMutex`, `displayingDefaultContent`, `lastPlayTime` | `DisplayControl`, `TimerThread` | task list | ten-second timeout against a late fee | the flag tells what is shown; defaults come back, and only then |
| Coil reporter | `oldIOStatus`, `Oput`, `TxSEQ`, the last mode | `VehicleThread` | GPIO, both TCP servers | computers that come and go, a switch that is turned | the computer that has the lane knows the coils |
| TCP server | `sockfd`, `newfd`, `isOpen` | `Open`, `Accept`, `Close`, `WriteByte`, `RecvByte` | accept thread, receiver, three writers | `newfd` is shared by all of them without a lock | nobody reads, writes or closes a connection that is not the one meant |
| Dispatch and replies | `Result`, `Type` | `CommunicationAnalysis`, `Analysis`, `TrafficControl`, `FlashLightControl`, `CommunicationSend` | everything above | replies in the wrong mode, replies that do not depend on success | a command is obeyed exactly in its mode and answered once |
| Panel protocol | none | `DisplyShow`, `DisplaySpecially`, ... | task list | length fields | declared lengths match |
| Voice playback | `m_Instance`, `m_mutex`, `m_thread`, `m_text`, one sound file | `getInstance`, `speech_playback`, `tts_thread` | speech library, `aplay` | a new text while one is synthesised or plays; an unlocked singleton; a thread that cannot be made | every text is spoken as it was given, one at a time |
| Logger | `log_buffer`, `log_data`, `log_write`, the open file | `try_append`, the writing thread | every thread | buffer at its limit, disk full, change of day, restart | lines in order, in the buffer and over the files of a date, none lost that was entered |
| GPIO | `isOpen`, `fd` | `SetOpen`, `SetOn`, `SetOff`, `GetIOValue` | barrier, coils, lamps | pins that do not open | a closed pin is neither driven nor believed |
| Configuration file | `sections_vt` | `Load`, `GetIntValue`, `GetStringValue` | start, logger | a bad line ends the loading silently | what the file says is what is used |
| Start, shutdown | the members of `IMachine` | `main`, `ReadCfg`, `Init`, `Start`, the destructor | starts the rest | failure half-way, members that were never assigned | serves as configured, or ends |

The vendored parts (`include/list.h`, `include/iconv.h`, `include/tts/`, `msc/`,
`ArtcLib/`), the character conversion and the unused `src/Udp.cpp` are not part
of the project.  `PROJECT.json` lists every component with its status and every
hazard with the line where it bites.

## 2. Plan

| step | module | state |
| --- | --- | --- |
| 1 | `Barrier`, with proofs | done |
| 2 | `FrameChannel` (abstract), `FrameReceiver`, with proofs | done |
| 3 | `DisplayBoard` (abstract), `DisplayQueue`, with proofs | done |
| 4 | `DisplayTimer`, with proofs | done |
| 5 | `CoilReporter`, with proofs (in one module with those of `DisplayTimer`) | done |
| 6 | `TcpServer`, with proofs: descriptors and their reuse under the accept threads, the receivers and the writers | done |
| 7 | `Logger`, with proofs | done |
| 8 | `Speech`, and `Dispatch`, which extends it with the receivers that call it; with proofs | done |
| 9 | `IniFile` (operators), and `Start`, which uses them, with proofs | done |

Every module keeps its parameters as CONSTANTS with named assumptions and uses
no RECURSIVE operator, so that it can be proved about.

## 3. Modules and runs

A module `X` is instantiated for TLC by `MCX`, with one configuration per
question.  Actions are named for the step of the code they stand for;
`PROJECT.json` maps each definition to its lines.  Operators under a comment
"Mutant" are plausible mistakes in the definition that follows them; no
specification uses them.

### Barrier

`pc[r]` is where receiver `r` stands in `BalusTrade`; each action is one access
to state that another thread reaches too: the test `joinable()`, the call and
the return of `join()`, each relay, the assignment of the new thread, the reply.
`pulse` is the thread behind `balustradeThread`.  `join()` on a thread that has
been joined meanwhile, or that another receiver is joining, throws; nobody
catches; `alive` becomes FALSE.  So it does when a thread is assigned over a
joinable one, or when no thread can be made (`SpawnThrows`): nobody catches that
either, and the relay stays on.  `opened` are the pins that could be opened; a closed one is never
driven.  `mode` starts as anything, because no constructor initialises
`IO4_manualSwitchStatus`.

The gate reads `mode` once and `VehicleThread` may write it at any time, so two
receivers can be inside `BalusTrade` when the switch is turned during a move.
`turned` remembers whether that has happened.  Before it has, `Interlock` (never
both relays) and `NeverTerminates` (but for a thread that cannot be made) hold;
after it, both can fail: the race on `balustradeThread` is in the model, and no
property speaks of it, as the repository has no statement about the case.
`EnergisedIsOwed` (a relay that is on is owed a release by a pulse that has not
reached it or by a receiver that has not yet started its pulse), `EveryPulseEnds`
and `ReceiverReturns` hold whatever the switch does, as long as the process lives;
one that ends leaves its relays as they are.

Run `barrier`: two receivers, every mode and every set of open pins.  Two is all
the code has.  The process may end, so deadlock is not checked.  Fairness: weak
fairness for the steps of each receiver inside `BalusTrade` and for the pulse
thread: threads that can run do.  No fairness for arriving frames or the switch.

Left out: one second is not measured; two receivers that collide inside `join`
are taken to throw, which is what the standard library does or is allowed to do.

### FrameReceiver and FrameChannel

`ReceiveCmd1` and `ReceiveCmd2` are the same loop.  A byte is a pair (frame,
offset); `Byte` gives a value to the bytes the loop looks at.  `data` is
`Recv_Data` as far as it was written, including what lies past `pos`, because
the loop reads `Recv_Data[i + 13]` when it only knows that 7 bytes are there;
`past` is what the rest of the array holds: what was on the stack until the
first `memset`, 0 afterwards.  `Command_Len` starts as any of `StackLens`, which
may be any integers, and keeps its value when no branch matches.  The actions are
the parts of the loop: `Recv`, `FindNothing`, `FindHeader`, `Deliver`, `Resync`,
`Shift`; `ConnectionLost` restarts the function, `ConnectionReplaced` is the accept
thread putting a new connection under a running receiver.

Over four bytes and more a checksum is right on exactly the whole frames that were
sent with a right one; chance matches of the one-byte XOR are left out, and so is
the end of the 2048-byte buffer.  Over fewer bytes `BCCDataCheck` compares one byte
with the XOR of none, and so does the model (`ChecksumAnswers`).  Only the stack
can give `Command_Len` such a value, until the first length has been measured: 7 to
13 bytes of a frame are there, no branch matches, and with 3 or less on the stack
the piece may pass the check and be executed.  With 0, `Index2` is where the piece starts, and it is looked at again.
With a negative value `Index2` may be negative, in which case neither branch of lines
1583 to 1599 is taken, the bytes stay where they are, and the same piece may be
executed again and again; the byte that is compared may then lie below the array,
where it is anything (reading there is taken to do no harm).  What is executed in
this way is not among `delivered`, and the properties say that it is executed in
this way only.

A frame has its length in byte 7, as the look ahead reads it.  The voice frame is
measured by byte 6 (`VoiceHigh`), the high byte of the same length in the frames that
`CommunicationSend` composes.  In the convention of the look ahead and of
`CommunicationSend`, `VoiceHigh` is 0 and a voice frame is measured with 19 bytes,
fails the checksum and is never executed: `frame_wild` has it so.  The voice frames
of `frame_tame` have the byte for which both lengths agree; with the other the
channel would lose them all.

`FrameChannel` is what the program above relies on: frames arrive one by one, in
order, and each that was sent with a right checksum does arrive.  What is still to
arrive is a set of frame numbers, of which the least arrives next; in
`FrameReceiver` it is the right frames that were not delivered yet.

* Run `frame_tame`: streams of up to three frames (all seven kinds in streams of
  two), cut at offsets 2, 3, 6, 14 or 20 and joined freely, short wrong frames in
  between: the loop implements `FrameChannel`, liveness included, and never falls
  back on a header of an earlier buffer (`NoLeftoverHeader`).  The offsets are
  those where a guard of the loop changes its outcome and the command byte is
  either not looked at or there.
* Run `frame_wild`: cuts at every offset that changes what is read, wrong frames
  of 58 bytes, lost and replaced connections, and -1, 0, 3, 9 or 58 on the stack:
  what is executed after a checksum over four bytes or more is right, in order and
  executed once, and a checksum over fewer is taken only of a length that the
  stack held (`DeliveredSoundly`); frames may be lost.
* Run `frame_cut` (expected violation): a heartbeat and then a display frame
  that is cut at byte 10.  The command byte is not there, `Command_Len` is still
  9, the 9 bytes fail the checksum and the right frame is dropped, which is the
  branch whose comment says "this data frame is wrong, look for a second header".

Fairness: the loop runs (weak fairness of its steps); bytes on the wire arrive.

### DisplayQueue and DisplayBoard

`DisplayBoard` is the promise of the display to its users: a line moves forward
through the contents put on it, may skip some, never goes back and ends with the
last.  `DisplayQueue` is the code: `ShowAdd` with the locked search of
`Node_Change`, `AppendNode` for its unlocked tail, `ListTaskInit` node by node,
and `DisplayThread` as `FindNode`, `TakeNode` and two `Send`s.  A content is its
number.  The link is a `TcpClient` (closed by a failed send, opened again by
`ConnectThread`) or a `SerialPort` (which goes on after a failed write); `world`
says which, whether sends may fail, and whether writers may come before
`ListTaskInit` has ended, so that a line can have two nodes.

Run `display_queue`: two lines, three contents each, in all eight worlds.

* While sends succeed and writers come in time the module implements
  `DisplayBoard` with the identity mapping (`BoardSpec`).
* A line with nothing on its way shows its last content, unless neither of the
  two sends of it got through (`QuietMeansShown`; `missed` are those lines): the
  status is reset before the sends and their results are ignored, so such a
  content is lost.
* No line with one node goes back (`NeverGoesBack`), and no content waits for
  ever (`EveryStatusIsTaken`), whatever fails.

Two lines show the scan past another line, three contents an overwrite of an
overwrite.  Fairness: the writer that has left the lock goes on, the thread and
`ConnectThread` run.

### DisplayTimer

`DisplayControl` of two receivers and `TimerThread` under `displayMutex`, a row
per step.  `age` counts up to `Delay`, which stands for ten seconds.  A frame of
mode 0x44 writes three rows, one of mode 0x64 four.

* Run `display_timer`: `FlagTellsScreen`: when nobody holds the lock the flag
  says whether all rows show the default; otherwise the first three rows show one
  fee together (the fourth may be older: a three-line fee does not clear it).
  `DefaultComesBack` and `EveryFeeIsShown` are its liveness.  Two ticks of delay
  and three fees let a fee come before, at and after the timeout, twice.
* Run `display_stale` (expected violation): the ten seconds are measured before
  the lock is taken and not looked at again.

Fairness: threads run and time passes.  Weak fairness of a receiver that waits
for the mutex is justified because the others leave it alone between frames and
for 100 ms in every round of the timer.

### CoilReporter

The round of `VehicleThread`: coils are read one after the other, then the
switch, then each coil is compared and reported, while the lane, the switch and
the connections change between any two steps.  `view[c]` is what computer `c` was
told last since it connected.  Its definitions are prefixed with `Coil`, so that
the proofs about the two periodic threads can share a module.

* Run `coil_reporter`: two coils, both computers, eight changes of the
  environment: once these stop, the computer that has the lane has no wrong
  picture (`NeverLeftWrong`); one that connects after all were away is told the
  state (`FreshClientLearns`); reports are numbered from 1 to 8
  (`ChangesAreNumbered`); eight changes are just enough for the number to wrap.
With a coil that cannot be read (`Broken`, `GetIOValue`) the state byte is never
encoded again, and what is sent after the switch is turned is not the newest
state, although the comment of `src/IMachine.cpp:332` says so; the properties are
checked with coils that can be read.

`NeverLeftWrong` allows a computer that was told nothing: one that reconnects
while the other stays is sent nothing until something changes, because
`oldIOStatus` is forgotten only when nobody is connected.  The switch is turned
only after the last turn was seen by a round (10 ms); a turn away and back within
one round in which every coil changes is forgotten by the code.  A switch that
itself cannot be read is left out.  Fairness: the thread runs.

### TcpServer

The accept thread and the receiver of each port, and one writer per port that
stands for all, step by step: `Close` is three steps (flag, `shutdown`, `close`),
`Accept` puts the new descriptor in place in two (`newfd`, `isOpen`), and
`newfd` is read anew at each use, as in the code.  `conn` is the descriptor table
of the process, which the two ports share: a number that was closed is given to
any later connection.  A `recv` that has begun stays with its connection.  A
failing `accept()` changes nothing.  `sleep(1)` in `Accept` is not measured.

The code has no lock here and three things do go wrong in it: a receiver that
closes late closes the connection that has just been put in place; `Close`
called a second time for a replaced connection (the accept thread and the
receiver it wakes both call it) may hit a number that the other port has got
meanwhile, after which both ports may hold one connection; and a writer that has
tested `isOpen`, or a receiver that is about to call `recv`, may find that its number
is the other port's by then.  `confused` are the ports to which this may have
happened:

* a port accepts a connection under a number that a thread of another port still
  holds (`Holds`: it has it in `new_fd`, or it may take it from `newfd`, being open,
  about to write, in `recv` or in a `Close`): both ports are confused (`Accepted`);
* the flag is cleared by the receiver between the two assignments of `Accept`
  (`ClearFlag`), or `newfd` is assigned while the receiver's `Close` is not done with it
  (`AssignFd`): the port is.

A port is no longer confused once `Accept` has put a connection of its own in `newfd`
whose number no other port holds, while its receiver is neither in a `Close` nor in a
`recv` (`Settled`).

* Run `tcp_server`: two ports, three descriptors, three connections in all.  A port
  that is not confused reads, writes and shows as open only connections of its own,
  however confused the other is (`OwnOnly`), and the computer that connected last is
  served as long as it stays (`LastIsServed`).  Confused or not, a port does not stay
  open over a closed descriptor (`NoDeadPort`): the next `recv` fails and closes it.
  Three connections are one that is replaced on one port while the other port gets
  the number, and one with which the first recovers.

`OwnOnly` therefore does not say that no write reaches the wrong computer; it says
that this needs one of the two meetings above, and that it ends with the next
connection that is accepted undisturbed.

Fairness: threads run.  `Received` is among the fair steps of a receiver: both
computers send heartbeats, so a connection that lasts carries data.

### Logger

A thread that logs takes the time (`TakeTime`), puts its date in `_time` under
`utc_mtx` (`BeginDate`, `Stamped`; a thread that was overtaken between the two puts an
older date back) and appends a line to `log_buffer` (`Enter`) or, when it does not
fit, drops it (`DropLine`).  The writer takes the whole buffer when it is woken or a
second has passed (`TakeBatch`, `TimeOut`), reads the date without the lock
(`ReadDate`: year, month and day may each be the old or the new one while a thread
is writing them), chooses the file by that date and by what the last one holds
(`Target`, `ChangeFile`), removes files that are too old, and writes (`Put`), or
switches writing off for good when the disk is short of space (`SwitchOff`).  A
file has the date of its name.  A new date is told by the sum of its parts
(`DayChanges`), as in the code.  `Restart` starts the program again: the buffers are
lost, the files stay.

Run `logger`: lines stay in their order (`InOrder`); the numbers of the files of a
date follow the order in which their entries were written, whatever failed or was
restarted (`FilesInOrder`); and a line that was entered is written unless an error,
a restart or a full disk keeps it from the file (`EnteredIsWritten`).  `FilesInOrder`
excepts the dates in `spoilt`: those of whose files a removal left some, and those
whose first file got its number from the file of a date with the same sum.

The run has two days, 29 January and 28 February 2024, which have the same sum; the
dates that can be read while one is replaced by the other, 28 January and
29 February, have others.  So the files of a second date may be begun in the middle,
and lines may be put in a file of a date that never was.  Nothing says that a line is
in the file of its day: with equal sums or a torn date it is not, and the date that
the writer sees is that of the last stamp, not that of the line.  Ages of files are
counted in the days of `Dates`, and a removal may also take a file that is a little
younger, so that nothing depends on the distance between two of them.

Fairness: the writer runs and a thread that has `utc_mtx` goes on (weak), and the
writer gets that mutex if it is free again and again (strong, for the messages about
removed files): threads that log hold it for the time of one `localtime_r`.

Left out: the level filter, the directories and the message about an empty one that
is removed, lines longer than their buffer, and the head and end lines that are not
flushed after `SwitchOff`.

### Speech and Dispatch

`Speech` is `speech_playback` with `getInstance` step by step, the thread that
synthesises, and the players.  A text is the number of its call.  The mutex and
the thread belong to an instance; `getInstance` is not locked, so each of the two
receivers may make one (`instance`).  The sound file is one for all, emptied when
the next synthesis opens it.  A player is `forked` until it is `aplay`; `Kill`
finds only those that are.  When no thread can be made (`SpawnThrows`) the mutex
stays locked.

`Dispatch` extends it with both receivers in `CommunicationAnalysis`: the gate
that reads the switch once, the handler of each code, and the answer.  `type` and
`result` are the locals `Type` and `Result`; an unassigned `Type` is any of
`StackTypes`.  `CommunicationSend` sends the two bytes of `Result`; `Type` is not sent, it
only selects the heartbeat (`Message`).  `did` says whether a handler has run for the
frame, `late` counts the frames that a computer had obeyed after it lost the lane.

Run `dispatch`: three frames, two voices, one turn of the switch, every handler,
an unknown device, wrong inner checksums and a preamble that looks like another
command.

* `AnswersAreEarned`: two zeros, or a heartbeat, are answered exactly when no handler
  ran for this very frame, whatever earlier frames left in `Result`, and the
  heartbeat only to a device frame refused at the gate, whose `Type` was never
  assigned.
* `OneLateCommand`: at most one frame is obeyed after the lane was taken away.
* `SpeaksItsText`: the text does not change under the thread that speaks it, not
  even with two instances.  `HeardWhole`: with one, what is heard is one text,
  whole, apart from players that slipped through `Kill`.
* `EveryFrameEnds`: a receiver comes back from every frame, unless a thread could
  not be made.

Three frames let both receivers speak while one of them is at its gate.
Fairness: receivers and speech threads run; the library returns.  A player may
play for ever, since nobody waits for it.  Left out: the table of phrases and the
256 bytes it fills, and the rows of a fee.

What the bytes of an answer say of the device is in the model as the code has it, and
no property is about it, because comments of the code and the code disagree:

* A fee is always answered with 3, which the comment of `src/IMachine.cpp:853` calls
  an abnormal display (2 is normal): `success` is never set.
* A move of the arm is answered with `A3`: the copy at line 403 overwrites the `D3` of
  line 396, which is the code that the switch of line 1199 logs.
* The alarm lamp is never switched on: `FlashLightControl` is given the device code
  `07` first and looks for a 1 there (line 885).
* `SetOn` and `SetOff` are not asked whether they did anything.

### IniFile and Start

`IniFile` has the parser and the lookup of `Get_Inifiles.cpp` as operators on
lines of tokens: `Trim`, `Split`, `UpdateSection`, `AddKeyValuePair`, `ReadLine`,
`Load`.  `Load`, a recursive function over the number of lines read, stops at the
first line it cannot take and keeps what it has; nobody looks at what it returns.

`Start` is `main` with all it calls, in order: the file in the working directory
is loaded, then the first line that is logged loads the file again from where the
program was called (`GetModuleFileName`: the same directory, if it was called
without a "/"), and everything is read from that one.  Pins are opened through
sysfs (`SetOpen`, `SetClose`; `fault` is one pin that cannot be exported, or not
be given its direction), the light twice.  Members that were not assigned are
null or hold anything (`fresh`); their use, or their deletion when they hold
anything, ends the process or not (`DeleteCrashes`).  So does the deletion of a server
that was made and never opened: `~TcpServer` cancels and closes what `sockID`, `newfd`
and `sockfd` happen to hold (`MayCrash`).  A deletion that crashes has given back the
pins of the members before it, in the order of the destructor (`Deleted`).

Run `start`: every file of up to four lines out of six, and a complete file with
one odd line in every place or with other pins; a second file in the place that
should not matter; faults, and a panel that does not open.  `StartsAsConfigured`
compares the outcome, every number and every pin with what the file says, and says
what stays exported when the program leaves without a crash.  That is stated without a
parser, by places: what counts of a line lies between its first
and last token that is no blank, before any `#` (`Solid`), its key before the first
`=` there, its section is named by the last header before it.  The run shows
that a file without `communication=2` or without a panel that has a port never
serves: the documented serial mode (`communication=0`) starts five threads on
servers that were never made, the default panel `/dev/ttyS5` has no comma and
`substr` throws, and a panel that does not open ends the program.  What the file does
not name has the default of the code, which is not always that of the
documentation: `src/Config.ini:16` says that a loop detector without an entry is set
to 0, that is, to none, while `ReadCfg` gives it pin 1, 2 or 3.  Deadlock is
checked: before it serves or ends, main always has a next step.

Left out: signals, what `Open` of a server returns (nobody looks; a port that
cannot be bound stays deaf), blanks within a value, and whose signal a pin
carries that two settings share (the default pins of the lamps are those of the
relays).

## 4. Proofs

`Barrier_proofs` proves for any set of receivers:

* `TypeCorrect`: the type invariant, including that only open pins are driven.
* `OwedHolds`: `EnergisedIsOwed`, while the process lives.  It is inductive together with
  `MoveHasDirection` (a receiver past its first relay has a command that names a
  direction), without which the second relay could be left on by a command that
  moves nothing.  Holds whatever the switch does.
* `InterlockHolds` and `NeverTerminatesHolds`.  The invariant `OneAtATime` says
  that until the switch is turned during a move whoever is in `BalusTrade` holds
  the lane, so there is at most one, and that it has joined the previous pulse
  before it touches a relay; with `EnergisedIsOwed` the relay of the opposite
  direction is then off.

They assume nothing about the receivers; the code has two.

`TcpServer_proofs` proves for any ports, descriptors and number of connections:

* `TypeCorrect`, with the lemma `CurrentTyped`.
* `OwnOnlyHolds`: `OwnOnly`.  Its invariant says for each position of the two threads of
  a port that is not confused what `newfd` and `new_fd` may stand for (`PortInv`) and
  that no other port holds a number that it holds (`Apart`), and of every port that the
  flag is off while `Accept` puts a connection in place (`Global`).
  A step of another port cannot change what such a port holds (`HoldsKept`), and
  only the steps named above make it confused or end that (`ConfusedKept`).

`PeriodicThreads_proofs` proves for any receivers, delay and number of fees of
`DisplayTimer`:

* `TypeCorrect`, with the lemma `NextIsLeft` about the row that is next.
* `FlagTellsScreenHolds`: `FlagTellsScreen`.  The invariant says that a thread
  writes exactly while it holds the lock (`LockInv`), and that what the holder
  has written so far is its own content, with the flag down (`WriteInv`).  It
  assumes that the name for a free lock is not a thread (`FreeAssumption`).

It also proves of `CoilReporter`, for any number of coils, broken or not:

* `CoilTypeCorrect`.
* `SequenceBytesDiffer`: `ChangesAreNumbered`.

`DisplayQueue_proofs` proves for any lines, contents, kind and state of the link,
and writers that come early or not:

* `TypeCorrect`, with `FirstIsThere`: a search that stops at the first place finds
  one.
* `QuietLinesAreShown`: `QuietMeansShown`, and `LinesGoForward`: `NeverGoesBack`.
  Both follow from `QueueInv`.  It says of a line with one node that the node holds
  what was put last (`NodeInv`), that the panel is not ahead of the copy that is
  being sent, that the copy is what the node holds unless it was overwritten
  meanwhile, and that a line that missed nothing shows what its node holds.
* `QueueIsBoard`: in calm circumstances the queue implements `DisplayBoard`, as far
  as safety goes (its initial states and steps).  `CalmInv` adds that each line has
  the one node that `ListTaskInit` gave it.

They assume that `Boot` names every line once, as `ListTaskInit` does
(`BootAssumption`).

`Logger_proofs` proves for any threads, dates, sizes and number of restarts:

* `TypeCorrect`.
* `LinesKeepTheirOrder`: `InOrder`, which orders what is in the files before what
  is in the batch, and that before what is in the buffer.  Its invariant
  `OrderInv` adds that every number in use has been given out (`Entered`).
* `FilesKeepTheirOrder`: `FilesInOrder`.  `FilesInv` says of the dates that are not
  `spoilt` that their files are filled without a gap (`FullBefore`) and that none lies
  behind the one that is open, so that the first file with room, which a restart or
  a return to the date looks for, is the last.

They assume nothing about the dates: sums may be equal, and what is read while a
date is written may be any mixture of two.

`FrameReceiver_proofs` proves for streams of any number of frames:

* `TypeCorrect`, for any cuts, stack and failures: `Index1` and `pos` keep to the part
  of the buffer that was filled, and `Index2` is below 0 only by a negative value from
  the stack.
* `OnlyWholeFramesInOrder`: `DeliveredSoundly`, for any cuts, wrong frames, and
  connections lost or replaced.  The invariant `SoundInv` is about `Left`, the valid
  bytes of `Recv_Data` followed by those on the wire: they are in the order they
  were sent (`SentInOrder`) and later than what was delivered (`OnlyLater`).  Every
  action keeps `Left`, gives up its first bytes (`GivesUp`) or, when a connection is
  lost, some in the middle (`Thins`).  It assumes nothing about the stack; that a
  length of 3 or less comes from there is part of what it says.
* `StepsOfChannel`: the receiver implements `FrameChannel` as far as safety goes;
  `HeaderAlwaysFound`: `NoLeftoverHeader`; and `OnlyWrongFramesLost`:
  `OnlyWrongFramesGivenUp`, the comment that run `frame_cut` refutes.  All three
  follow from `TameInv`, which adds to `SoundInv` that from each first byte on `Left`
  holds a whole frame, that the loop looks at such a byte (`AtFrame`), and that every
  right frame was delivered or is still ahead (`NoneLost`).

The last three assume `Tame`: the connection stays up, since a lost one takes its
bytes along; no bytes belong to no frame (`noise`); the two lengths of a voice frame
agree; and no frame is cut after its first byte, where no header of two bytes can be found, nor at 7 to 13, where the
loop measures it without its command byte, which is what happens in `frame_cut`.
TLC finds a counterexample to one of the three when any of this is dropped.
Frames of any kind may be wrong and the stack may hold anything.  The loop does
read the 14th byte of an 11-byte frame, and what lies there may be taken for a
command (`LengthIsRight`), but it then only waits for more.  If nothing more is
sent it waits for good, so that the liveness half of `ChannelSpec` needs what
`frame_tame` adds: short wrong frames and a stack of zeros.

That the bytes of a stream are its frames one after the other, and that a set of
positions has a least one (the header that is found), is proved without an
induction theorem: the least number for which it fails would have a predecessor
for which it holds (`LeastOf`, `UpTo`).

`Dispatch_proofs` proves for any finite set of receivers, any frames and bounds:

* `SpeechIsSpoken`: a step of `Dispatch` is a step of `Speech` or leaves its state
  alone, so what is proved of `SpeechSpec` holds of the receivers.
* `EveryCallSpeaksItsText`: `SpeaksItsText`.  `SpeechInv` says that no thread runs
  on an instance while somebody is past its `join`, and counts the instances: the
  receivers that found none, together with those made, are no more than there are
  receivers.
* `OneTextIsHeard`: `HeardWhole`.  `HeardInv` says that while there is one instance
  only the last job may be heard, that the file then holds its sound and nothing
  else, and that nothing is heard while the next one is synthesised.
* `OneMoreAtMost`: `OneLateCommand`.  A receiver that was obeyed late is not before
  a handler and does not have the lane (`LateInv`), so the gate refuses the next.
* `AnswersFollowHandlers`: `AnswersAreEarned`.  `AnswerInv` says that `Result` is zero until
  a handler has run for this frame and begins with the byte of the handler
  afterwards, that `Type` is then that of the frame, and that only a device frame can
  have a `Type` that was never assigned (`Marked`).
* `TypeCorrect`.

It assumes that there is a receiver, that the receivers are finitely many and that
the name for nobody is not one of them (`CallersAssumption`), and that `StackTypes`
are bytes (`FramesAssumption`).

`Start_proofs` proves for any files, whatever and however many their lines, any
numbers, pins and faults:

* `TextIsRead` and `NumberIsRead`: for every file the parser and the lookup return
  what the file says by places.  One line is taken as the definition by places
  takes it (`ReadLineIs`, from `TrimOfPart`, `CleanIs`, `HeaderIs`, `ItemIs`: trimming,
  cutting at `#`, at `]` and at `=` in the order of the code keeps the places).
  After `n` lines the document holds exactly what the first `n` lines say, up to the
  first bad one (`Read`); each line extends both alike (`ReadStep`), hence the whole
  file does (`LoadRead`).
* `TypeCorrect` and `StartsAsConfiguredHolds`, from one invariant, `Inv`.
  `StartsAsConfigured` speaks of the end only; `Inv` says for each place of `main`
  what it rests on: which file the document and the settings come from
  (`SettingsInv`), which members have been assigned, of which a thread may use one
  (`MadeInv`), what was decided on the way (`WayInv`), and whose pins are exported
  (`BoardInv`: what a Gpio has open is the pin of its own setting, although two
  settings may share a pin).  TLC checked `Inv` on all states of run `start` first.

They assume that files are sequences of sequences of strings (`FilesAssumption`),
that the defaults of numbers are numbers (`DefaultsAssumption`, a fact about the
table), and that what is wrong with the board is one pin (`FaultsAssumption`).

That the parser's recursive function has a value after every line, and that `Read`
holds after every line, is proved without an induction theorem, too: the least
number of lines for which it fails is not 0, and the line before it carries it over.

Every safety property of a passing run is a theorem.  Only model-checked:

* Liveness and ENABLED, which are out of the prover's reach: `EveryPulseEnds`,
  `ReceiverReturns`, `EveryStatusIsTaken`, `DefaultComesBack`, `EveryFeeIsShown`,
  `NeverLeftWrong`, `FreshClientLearns`, `LastIsServed`, `NoDeadPort`,
  `EnteredIsWritten`, `EveryFrameEnds`, and the liveness half of the abstract
  specifications `FrameChannel` and `DisplayBoard`.
* `DefaultOnlyAfterDelay`, which the code violates.

## 5. Not modelled

* The frames of the panel protocol (`DisplaySpecially` and the others in
  `src/QYLED.cpp`): one fixed sequence of bytes around a text, without state.
  Most of these functions are not called by the program.
* What edits, prints and saves a configuration: not called by the program.
* The signal handler of `main`, which logs and sleeps and may be interrupted in
  the logger it calls.
* The serial variant of the receiver, which cannot be reached with its threads
  alive (see `Start`).
* `src/Udp.cpp` (never instantiated), the vendored and generated code, the speech
  library, and the formatting of log lines and dates.

## 6. Running

    tlc -workers 2 -config MCBarrier.cfg MCBarrier
    tlapm Barrier_proofs.tla
    tlapm TcpServer_proofs.tla
    tlapm PeriodicThreads_proofs.tla
    tlapm Logger_proofs.tla
    tlapm Dispatch_proofs.tla
    tlapm DisplayQueue_proofs.tla
    tlapm Start_proofs.tla
    tlapm FrameReceiver_proofs.tla

`PROJECT.json` lists the runs with their modules, configurations and expected
results.
