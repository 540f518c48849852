------------------------------- MODULE Speech -------------------------------
(***************************************************************************)
(* src/src/tts.cpp: speech_playback is called by both receivers.  It waits *)
(* for the thread of the call before, stops what is playing, and starts a  *)
(* thread that lets the library synthesise the text into one file and then *)
(* starts aplay in the background.                                         *)
(*                                                                         *)
(* A text is the number of its call.  getInstance is not locked: two       *)
(* receivers that both find no instance make one each, and an instance has *)
(* a mutex, a text and a thread of its own.                                *)
(***************************************************************************)
EXTENDS Integers, FiniteSets

CONSTANTS
    Callers,      \* the receivers
    None,         \* no caller
    MaxCalls      \* bound: calls that are made

ASSUME CallersAssumption ==
    /\ IsFiniteSet(Callers) /\ Callers # {} /\ None \notin Callers
    /\ MaxCalls \in Nat

Instances == 1..Cardinality(Callers)
Calls == 1..MaxCalls

VARIABLES
    calls,      \* calls made so far
    call,       \* the call each caller is making, or 0
    step,       \* where it stands in it
    using,      \* the instance it got
    instance,   \* how many instances were made; m_Instance is the last
    mutex,      \* m_mutex of each instance: who has locked it
    text,       \* m_text
    thread,     \* m_thread: "none" is not joinable, "ended" not yet joined
    job,        \* the call that started it
    source,     \* the text that its library session got
    file,       \* tts_sample.wav: the texts whose sound is in it
    sound,      \* the aplay that each call has started
    slipped     \* calls whose aplay had not begun to run when all were stopped

callVars  == <<calls, call, step, using>>
lockVars  == <<instance, mutex>>
workVars  == <<text, thread, job, source, file>>
soundVars == <<sound, slipped>>
speechVars == <<callVars, lockVars, workVars, soundVars>>

Steps   == {"out", "test", "new", "lock", "join", "kill", "spawn"}
Phases  == {"none", "open", "put", "write", "play", "ended"}
Working == Phases \ {"none", "ended"}

(* The thread of the call before is waited for and nothing else writes     *)
(* m_text: only whoever has the mutex is past its lock.                    *)
SpeechTypeOK ==
    /\ calls \in 0..MaxCalls
    /\ call \in [Callers -> 0..MaxCalls]
    /\ step \in [Callers -> Steps]
    /\ using \in [Callers -> Instances \cup {0}]
    /\ instance \in Instances \cup {0}
    /\ mutex \in [Instances -> Callers \cup {None}]
    /\ text \in [Instances -> 0..MaxCalls]
    /\ thread \in [Instances -> Phases]
    /\ job \in [Instances -> 0..MaxCalls]
    /\ source \in [Instances -> 0..MaxCalls]
    /\ file \subseteq 0..MaxCalls
    /\ sound \in [Calls -> {"none", "forked", "right", "wrong"}]
    /\ slipped \subseteq Calls
    /\ \A c \in Callers : step[c] \in {"join", "kill", "spawn"} => mutex[using[c]] = c

SpeechInit ==
    /\ calls = 0
    /\ call = [c \in Callers |-> 0]
    /\ step = [c \in Callers |-> "out"]
    /\ using = [c \in Callers |-> 0]
    /\ instance = 0
    /\ mutex = [i \in Instances |-> None]
    /\ text = [i \in Instances |-> 0]
    /\ thread = [i \in Instances |-> "none"]
    /\ job = [i \in Instances |-> 0]
    /\ source = [i \in Instances |-> 0]
    /\ file = {}
    /\ sound = [n \in Calls |-> "none"]
    /\ slipped = {}

(***************************************************************************)
(* speech_playback of caller c.                                            *)
(***************************************************************************)
Move(c, from, to) ==
    /\ step[c] = from
    /\ step' = [step EXCEPT ![c] = to]

BeginSpeech(c) ==
    /\ calls < MaxCalls
    /\ Move(c, "out", "test")
    /\ calls' = calls + 1
    /\ call' = [call EXCEPT ![c] = calls + 1]
    /\ UNCHANGED <<using, lockVars, workVars, soundVars>>

(* getInstance: the test, and the making of an instance if there is none. *)
GetInstance(c) ==
    /\ Move(c, "test", IF instance = 0 THEN "new" ELSE "lock")
    /\ using' = [using EXCEPT ![c] = instance]
    /\ UNCHANGED <<calls, call, lockVars, workVars, soundVars>>

NewInstance(c) ==
    /\ Move(c, "new", "lock")
    /\ instance' = instance + 1
    /\ using' = [using EXCEPT ![c] = instance + 1]
    /\ UNCHANGED <<calls, call, mutex, workVars, soundVars>>

(* Mutant: the mutex is not taken. *)
PassLock(c) ==
    /\ Move(c, "lock", "join")
    /\ mutex' = [mutex EXCEPT ![using[c]] = c]
    /\ UNCHANGED <<calls, call, using, instance, workVars, soundVars>>

(* Mutant: the text is put in place before the thread is waited for. *)
LockAndPut(c) ==
    /\ Move(c, "lock", "join")
    /\ mutex[using[c]] = None
    /\ mutex' = [mutex EXCEPT ![using[c]] = c]
    /\ text' = [text EXCEPT ![using[c]] = call[c]]
    /\ UNCHANGED <<calls, call, using, instance, thread, job, source, file, soundVars>>

Lock(c) ==
    /\ Move(c, "lock", "join")
    /\ mutex[using[c]] = None
    /\ mutex' = [mutex EXCEPT ![using[c]] = c]
    /\ UNCHANGED <<calls, call, using, instance, workVars, soundVars>>

(* The thread of the call before is joined, if there was one. *)
Join(c) ==
    /\ Move(c, "join", IF thread[using[c]] = "none" THEN "spawn" ELSE "kill")
    /\ thread[using[c]] \in {"none", "ended"}
    /\ thread' = [thread EXCEPT ![using[c]] = "none"]
    /\ UNCHANGED <<calls, call, using, lockVars, text, job, source, file, soundVars>>

(* Mutant: what plays is left to play. *)
LeavePlaying(c) ==
    /\ Move(c, "kill", "spawn")
    /\ UNCHANGED <<calls, call, using, lockVars, workVars, soundVars>>

(* pidof and killall know a process by its name: one that the shell has    *)
(* forked and that is not aplay yet is not found.                          *)
Kill(c) ==
    /\ Move(c, "kill", "spawn")
    /\ sound' = [n \in Calls |-> IF sound[n] = "forked" THEN "forked" ELSE "none"]
    /\ slipped' = slipped \cup {n \in Calls : sound[n] = "forked"}
    /\ UNCHANGED <<calls, call, using, lockVars, workVars>>

(* Mutant: the mutex is not released. *)
SpawnLocked(c) ==
    /\ Move(c, "spawn", "out")
    /\ call' = [call EXCEPT ![c] = 0]
    /\ text' = [text EXCEPT ![using[c]] = call[c]]
    /\ thread' = [thread EXCEPT ![using[c]] = "open"]
    /\ job' = [job EXCEPT ![using[c]] = call[c]]
    /\ UNCHANGED <<calls, using, lockVars, source, file, soundVars>>

(* The text is put in place and its thread started; the call returns. *)
Spawn(c) ==
    /\ Move(c, "spawn", "out")
    /\ call' = [call EXCEPT ![c] = 0]
    /\ text' = [text EXCEPT ![using[c]] = call[c]]
    /\ thread' = [thread EXCEPT ![using[c]] = "open"]
    /\ job' = [job EXCEPT ![using[c]] = call[c]]
    /\ mutex' = [mutex EXCEPT ![using[c]] = None]
    /\ UNCHANGED <<calls, using, instance, source, file, soundVars>>

(* No thread can be made: std::thread throws past m_mutex.unlock(). *)
SpawnThrows(c) ==
    /\ Move(c, "spawn", "out")
    /\ call' = [call EXCEPT ![c] = 0]
    /\ text' = [text EXCEPT ![using[c]] = call[c]]
    /\ UNCHANGED <<calls, using, lockVars, thread, job, source, file, soundVars>>

(***************************************************************************)
(* tts_thread, compound and text_to_speech in the thread of instance i.    *)
(***************************************************************************)
Phase(i, from, to) == thread[i] = from /\ thread' = [thread EXCEPT ![i] = to]

(* fopen "wb" empties the file under whoever plays it. *)
OpenFile(i) ==
    /\ Phase(i, "open", "put")
    /\ file' = {}
    /\ sound' = [n \in Calls |-> IF sound[n] = "right" THEN "wrong" ELSE sound[n]]
    /\ UNCHANGED <<callVars, lockVars, text, job, source, slipped>>

(* QTTSSessionBegin and QTTSTextPut: the library copies m_text. *)
TextPut(i) ==
    /\ Phase(i, "put", "write")
    /\ source' = [source EXCEPT ![i] = text[i]]
    /\ UNCHANGED <<callVars, lockVars, text, job, file, soundVars>>

WriteSound(i) ==
    /\ Phase(i, "write", "play")
    /\ file' = file \cup {source[i]}
    /\ UNCHANGED <<callVars, lockVars, text, job, source, soundVars>>

(* system("aplay ... &") returns when the shell has forked. *)
Play(i) ==
    /\ Phase(i, "play", "ended")
    /\ sound' = [sound EXCEPT ![job[i]] = "forked"]
    /\ UNCHANGED <<callVars, lockVars, text, job, source, file, slipped>>

(* MSPLogin, fopen or the library fails and the thread ends without playing. *)
SynthesisFails(i) ==
    /\ thread[i] \in {"open", "put", "write"}
    /\ thread' = [thread EXCEPT ![i] = "ended"]
    /\ UNCHANGED <<callVars, lockVars, text, job, source, file, soundVars>>

SpeechThread(i) ==
    \/ OpenFile(i) \/ TextPut(i) \/ WriteSound(i) \/ Play(i)
    \/ SynthesisFails(i)

(***************************************************************************)
(* aplay of call n.                                                        *)
(***************************************************************************)
StartSound(n) ==
    /\ sound[n] = "forked"
    /\ sound' = [sound EXCEPT ![n] = IF file = {n} THEN "right" ELSE "wrong"]
    /\ UNCHANGED <<callVars, lockVars, workVars, slipped>>

EndSound(n) ==
    /\ sound[n] \in {"right", "wrong"}
    /\ sound' = [sound EXCEPT ![n] = "none"]
    /\ UNCHANGED <<callVars, lockVars, workVars, slipped>>

Playback(c) ==
    \/ GetInstance(c) \/ NewInstance(c) \/ Lock(c) \/ Join(c) \/ Kill(c)
    \/ Spawn(c) \/ SpawnThrows(c)

SpeechNext ==
    \/ \E c \in Callers : BeginSpeech(c) \/ Playback(c)
    \/ \E i \in Instances : SpeechThread(i)
    \/ \E n \in Calls : StartSound(n) \/ EndSound(n)

SpeechSpec == SpeechInit /\ [][SpeechNext]_speechVars

(***************************************************************************)
(* Properties.                                                             *)
(***************************************************************************)

(* The text is not changed under the thread that is to speak it. *)
SpeaksItsText ==
    \A i \in Instances :
        /\ thread[i] \in Working => text[i] = job[i]
        /\ thread[i] \in {"write", "play"} => source[i] = job[i]

Audible == {n \in Calls : sound[n] \in {"right", "wrong"}}

(* While there is one instance, what is heard is one text, whole, except   *)
(* for an aplay that had not begun to run when it was to be stopped.       *)
HeardWhole ==
    instance < 2 =>
        /\ \A n \in Audible \ slipped : sound[n] = "right"
        /\ Cardinality(Audible \ slipped) <= 1

(* A thread could not be made: the mutex is never released again. *)
Stuck(i) == thread[i] = "none" /\ mutex[i] # None /\ step[mutex[i]] \notin {"join", "kill", "spawn"}
=============================================================================
