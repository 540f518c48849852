--------------------------- MODULE Dispatch_proofs ---------------------------
(***************************************************************************)
(* Proofs about Speech and Dispatch, for any receivers, frames and bounds. *)
(***************************************************************************)
EXTENDS Dispatch, FiniteSetTheorems, TLAPS

New == {c \in Callers : step[c] = "new"}

Within == {"lock", "join", "kill", "spawn"}   \* with an instance

(* There are never more instances than receivers; a thread that has been   *)
(* waited for is not started again by another; and what is heard comes     *)
(* from the last job of the one instance.                                  *)
SpeechInv ==
    /\ SpeechTypeOK
    /\ instance + Cardinality(New) <= Cardinality(Callers)
    /\ \A c \in Callers : step[c] \in Within => using[c] \in 1..instance
    /\ \A c \in Callers : step[c] \in {"kill", "spawn"} => thread[using[c]] = "none"
    /\ \A i \in Instances : i > instance => thread[i] = "none"
    /\ SpeaksItsText

HeardInv ==
    instance < 2 =>
        /\ \A n \in Calls \ slipped :
              sound[n] # "none" =>
                  /\ n = job[1] /\ file = {n} /\ sound[n] # "wrong"
                  /\ thread[1] = "ended" \/ \E c \in Callers : step[c] = "kill"
        /\ thread[1] \in {"put", "write"} => file = {}
        /\ thread[1] = "play" => file = {job[1]}

LEMMA CallersFinite == Cardinality(Callers) \in Nat /\ Cardinality(Callers) >= 1
<1>1. Cardinality(Callers) \in Nat /\ Cardinality(Callers) # 0
  BY CallersAssumption, FS_CardinalityType, FS_EmptySet
<1> QED  BY <1>1

(* The steps that make no instance: who is about to make one is as before. *)
LEMMA SameNew ==
    ASSUME SpeechTypeOK, NEW c \in Callers, NEW to, step' = [step EXCEPT ![c] = to],
           step[c] # "new", to # "new"
    PROVE  New' = New
BY DEF New, SpeechTypeOK

LEMMA SpeechStepInv == SpeechInv /\ [SpeechNext]_speechVars => SpeechInv'
<1> USE CallersAssumption, CallersFinite
<1> SUFFICES ASSUME SpeechInv, [SpeechNext]_speechVars PROVE SpeechInv'
  OBVIOUS
<1>0. SpeechTypeOK
  BY DEF SpeechInv
<1>1. CASE UNCHANGED speechVars
  BY <1>1 DEF SpeechInv, SpeechTypeOK, SpeaksItsText, New, speechVars, callVars, lockVars,
              workVars, soundVars
<1>2. ASSUME NEW c \in Callers, BeginSpeech(c) PROVE SpeechInv'
  <2>1. New' = New
    BY <1>0, <1>2, SameNew DEF BeginSpeech, Move
  <2>2. calls' \in 0..MaxCalls
    BY <1>0, <1>2 DEF BeginSpeech, SpeechTypeOK
  <2>3. SpeechTypeOK'
    BY <1>0, <1>2, <2>2 DEF BeginSpeech, Move, SpeechTypeOK, Steps, lockVars, workVars, soundVars
  <2> QED
    BY <1>0, <1>2, <2>1, <2>3 DEF BeginSpeech, Move, SpeechInv, SpeechTypeOK, SpeaksItsText, Within,
                              lockVars, workVars, soundVars
<1>3. ASSUME NEW c \in Callers, GetInstance(c) PROVE SpeechInv'
  <2>1. SpeechTypeOK'
    BY <1>0, <1>3 DEF GetInstance, Move, SpeechTypeOK, Steps, lockVars, workVars, soundVars
  <2>2. instance' + Cardinality(New') <= Cardinality(Callers)
    <3>1. CASE instance = 0
      <4>1. New' \subseteq Callers
        BY DEF New
      <4>2. Cardinality(New') <= Cardinality(Callers) /\ Cardinality(New') \in Nat
        BY <4>1, FS_Subset, FS_CardinalityType
      <4> QED  BY <1>3, <3>1, <4>2 DEF GetInstance, lockVars
    <3>2. CASE instance # 0
      <4>1. New' = New
        BY <1>0, <1>3, <3>2, SameNew DEF GetInstance, Move
      <4> QED  BY <1>3, <4>1 DEF GetInstance, lockVars, SpeechInv
    <3> QED  BY <3>1, <3>2
  <2>3. \A d \in Callers : step'[d] \in Within => using'[d] \in 1..instance'
    BY <1>0, <1>3 DEF GetInstance, Move, SpeechInv, SpeechTypeOK, Within, Instances, lockVars
  <2> QED
    BY <1>0, <1>3, <2>1, <2>2, <2>3 DEF GetInstance, Move, SpeechInv, SpeechTypeOK, SpeaksItsText,
       lockVars, workVars, soundVars
<1>4. ASSUME NEW c \in Callers, NewInstance(c) PROVE SpeechInv'
  <2>1. New' = New \ {c} /\ c \in New /\ New \subseteq Callers
    BY <1>0, <1>4 DEF NewInstance, Move, New, SpeechTypeOK
  <2>2. /\ Cardinality(New) \in Nat /\ Cardinality(New') = Cardinality(New) - 1
        /\ Cardinality(New') \in Nat
    BY <2>1, FS_Subset, FS_CardinalityType, FS_RemoveElement
  <2>3. instance \in Nat /\ instance' = instance + 1
    BY <1>0, <1>4 DEF NewInstance, SpeechTypeOK, Instances
  <2>4. instance' + Cardinality(New') <= Cardinality(Callers)
    BY <2>2, <2>3 DEF SpeechInv
  <2>5. instance' \in Instances
    BY <2>2, <2>3, <2>4 DEF Instances
  <2>6. SpeechTypeOK'
    BY <1>0, <1>4, <2>3, <2>5 DEF NewInstance, Move, SpeechTypeOK, Steps, workVars, soundVars
  <2>7. \A d \in Callers : step'[d] \in Within => using'[d] \in 1..instance'
    BY <1>0, <1>4, <2>3 DEF NewInstance, Move, SpeechInv, SpeechTypeOK, Within, Instances
  <2>8. \A i \in Instances : i > instance' => thread'[i] = "none"
    BY <1>4, <2>3 DEF NewInstance, SpeechInv, workVars, Instances
  <2> QED
    BY <1>0, <1>4, <2>4, <2>6, <2>7, <2>8 DEF NewInstance, Move, SpeechInv, SpeechTypeOK,
       SpeaksItsText, workVars, soundVars
<1>5. ASSUME NEW c \in Callers, Lock(c) \/ Join(c) \/ Kill(c) \/ Spawn(c) \/ SpawnThrows(c)
      PROVE  SpeechInv'
  <2>1. step[c] \in Within /\ using[c] \in Instances /\ using[c] \in 1..instance
    <3>1. step[c] \in Within
      BY <1>5 DEF Lock, Join, Kill, Spawn, SpawnThrows, Move, Within
    <3> QED  BY <1>0, <3>1 DEF SpeechInv, SpeechTypeOK, Instances
  <2>2. New' = New /\ UNCHANGED <<instance, using, calls, source, file>>
    BY <1>0, <1>5, SameNew DEF Lock, Join, Kill, Spawn, SpawnThrows, Move, lockVars, workVars,
                                soundVars
  <2>3. instance' + Cardinality(New') <= Cardinality(Callers)
    BY <2>2 DEF SpeechInv
  <2>4. \A d \in Callers : step'[d] \in Within => using'[d] \in 1..instance'
    BY <1>0, <1>5, <2>1, <2>2 DEF Lock, Join, Kill, Spawn, SpawnThrows, Move, SpeechInv, SpeechTypeOK
  <2>5. CASE Lock(c)
    <3>1. SpeechTypeOK'
      BY <1>0, <2>1, <2>5 DEF Lock, Move, SpeechTypeOK, Steps, workVars, soundVars
    <3> QED
      BY <1>0, <2>3, <2>4, <2>5, <3>1 DEF Lock, Move, SpeechInv, SpeechTypeOK, SpeaksItsText,
         workVars, soundVars
  <2>6. CASE Join(c)
    <3>1. SpeechTypeOK'
      BY <1>0, <2>1, <2>6 DEF Join, Move, SpeechTypeOK, Steps, Phases, lockVars, soundVars
    <3>2. \A d \in Callers : step'[d] \in {"kill", "spawn"} => thread'[using'[d]] = "none"
      BY <1>0, <2>1, <2>2, <2>6 DEF Join, Move, SpeechInv, SpeechTypeOK, Within
    <3>3. \A i \in Instances : thread'[i] = thread[i] \/ thread'[i] = "none"
      BY <1>0, <2>6 DEF Join, SpeechTypeOK
    <3> QED
      BY <1>0, <2>2, <2>3, <2>4, <2>6, <3>1, <3>2, <3>3 DEF Join, SpeechInv, SpeaksItsText,
         Working
  <2>7. CASE Kill(c)
    <3>1. SpeechTypeOK'
      BY <1>0, <2>1, <2>7 DEF Kill, Move, SpeechTypeOK, Steps, lockVars, workVars
    <3> QED
      BY <1>0, <2>2, <2>3, <2>4, <2>7, <3>1 DEF Kill, Move, SpeechInv, SpeechTypeOK, SpeaksItsText,
         lockVars, workVars
  <2>8. CASE Spawn(c)
    <3>1. thread[using[c]] = "none" /\ mutex[using[c]] = c
      BY <1>0, <2>8 DEF Spawn, Move, SpeechInv, SpeechTypeOK
    <3>2. \A d \in Callers \ {c} :
             step'[d] \in {"join", "kill", "spawn"} => using[d] # using[c] /\ using[d] \in Instances
      BY <1>0, <2>8, <3>1 DEF Spawn, Move, SpeechInv, SpeechTypeOK, Within, Instances
    <3>3. step' = [step EXCEPT ![c] = "out"]
      BY <2>8 DEF Spawn, Move
    <3>4. SpeechTypeOK'
      BY <1>0, <2>1, <2>8, <3>2 DEF Spawn, Move, SpeechTypeOK, Steps, Phases, soundVars
    <3>5. \A d \in Callers : step'[d] \in {"kill", "spawn"} => thread'[using'[d]] = "none"
      BY <1>0, <2>1, <2>2, <2>8, <3>2, <3>3 DEF Spawn, SpeechInv, SpeechTypeOK
    <3>6. \A i \in Instances : i > instance' => thread'[i] = "none"
      BY <1>0, <2>1, <2>2, <2>8 DEF Spawn, SpeechInv, SpeechTypeOK, Instances
    <3>7. SpeaksItsText'
      BY <1>0, <2>1, <2>2, <2>8 DEF Spawn, SpeechInv, SpeechTypeOK, SpeaksItsText, Working
    <3> QED  BY <2>3, <2>4, <3>4, <3>5, <3>6, <3>7 DEF SpeechInv
  <2>9. CASE SpawnThrows(c)
    <3>1. SpeechTypeOK'
      BY <1>0, <2>1, <2>9 DEF SpawnThrows, Move, SpeechTypeOK, Steps, lockVars, soundVars
    <3>2. thread[using[c]] = "none"
      BY <2>9 DEF SpawnThrows, Move, SpeechInv
    <3>3. SpeaksItsText'
      BY <1>0, <2>9, <3>2 DEF SpawnThrows, SpeechInv, SpeechTypeOK, SpeaksItsText, Working
    <3> QED
      BY <1>0, <2>2, <2>3, <2>4, <2>9, <3>1, <3>3 DEF SpawnThrows, Move, SpeechInv, SpeechTypeOK
  <2> QED  BY <1>5, <2>5, <2>6, <2>7, <2>8, <2>9
<1>6. ASSUME NEW i \in Instances, SpeechThread(i) PROVE SpeechInv'
  <2>1. thread[i] \in Working /\ New' = New
    BY <1>6 DEF SpeechThread, OpenFile, TextPut, WriteSound, Play, SynthesisFails, Phase, Working,
                Phases, New, callVars
  <2>2. UNCHANGED <<calls, call, step, using, instance, mutex, text, job, slipped>>
    BY <1>6 DEF SpeechThread, OpenFile, TextPut, WriteSound, Play, SynthesisFails, callVars,
                lockVars, soundVars
  <2>3. \E to \in Phases \ {"none"} :
            /\ thread' = [thread EXCEPT ![i] = to]
            /\ to \in Working => text[i] = job[i]
            /\ to \in {"write", "play"} => source'[i] = job[i]
    BY <1>0, <1>6, <2>1 DEF SpeechThread, OpenFile, TextPut, WriteSound, Play, SynthesisFails,
       Phase, Working, Phases, SpeechInv, SpeechTypeOK, SpeaksItsText
  <2>4. source' \in [Instances -> 0..MaxCalls] /\ \A j \in Instances \ {i} : source'[j] = source[j]
    BY <1>0, <1>6 DEF SpeechThread, OpenFile, TextPut, WriteSound, Play, SynthesisFails,
                      SpeechTypeOK
  <2>5. file' \subseteq 0..MaxCalls
    <3>1. file \subseteq 0..MaxCalls /\ source[i] \in 0..MaxCalls
      BY <1>0 DEF SpeechTypeOK
    <3>2. file' \in {file, {}, file \cup {source[i]}}
      BY <1>6 DEF SpeechThread, OpenFile, TextPut, WriteSound, Play, SynthesisFails
    <3> QED  BY <3>1, <3>2
  <2>6. sound' \in [Calls -> {"none", "forked", "right", "wrong"}]
    BY <1>0, <1>6 DEF SpeechThread, OpenFile, TextPut, WriteSound, Play, SynthesisFails,
                      SpeechTypeOK, soundVars
  <2>7. thread' \in [Instances -> Phases] /\ \A j \in Instances \ {i} : thread'[j] = thread[j]
    BY <1>0, <2>3 DEF SpeechTypeOK
  <2>8. SpeechTypeOK'
    BY <1>0, <2>2, <2>4, <2>5, <2>6, <2>7 DEF SpeechTypeOK
  <2>9. SpeaksItsText'
    BY <1>0, <2>2, <2>3, <2>4, <2>7 DEF SpeechInv, SpeechTypeOK, SpeaksItsText
  <2>10. \A c \in Callers : step'[c] \in {"kill", "spawn"} => thread'[using'[c]] = "none"
    <3> SUFFICES ASSUME NEW c \in Callers, step[c] \in {"kill", "spawn"}
                 PROVE  thread'[using[c]] = "none"
      BY <2>2
    <3>1. thread[using[c]] = "none" /\ using[c] \in Instances
      BY <1>0 DEF SpeechInv, SpeechTypeOK, Within, Instances
    <3>2. using[c] # i
      BY <2>1, <3>1 DEF Working
    <3> QED  BY <2>7, <3>1, <3>2
  <2>11. \A j \in Instances : j > instance' => thread'[j] = "none"
    BY <2>1, <2>2, <2>7 DEF SpeechInv, Working
  <2> QED  BY <2>1, <2>2, <2>8, <2>9, <2>10, <2>11 DEF SpeechInv
<1>7. ASSUME NEW n \in Calls, StartSound(n) \/ EndSound(n) PROVE SpeechInv'
  <2>1. sound' \in [Calls -> {"none", "forked", "right", "wrong"}]
    BY <1>0, <1>7 DEF StartSound, EndSound, SpeechTypeOK
  <2>2. UNCHANGED <<callVars, lockVars, workVars, slipped>>
    BY <1>7 DEF StartSound, EndSound
  <2>3. SpeechTypeOK'
    BY <1>0, <2>1, <2>2 DEF SpeechTypeOK, callVars, lockVars, workVars
  <2> QED
    BY <2>2, <2>3 DEF SpeechInv, SpeaksItsText, New, callVars, lockVars, workVars
<1> QED
  BY <1>1, <1>2, <1>3, <1>4, <1>5, <1>6, <1>7 DEF SpeechNext, Playback

LEMMA HeardStepInv == SpeechInv /\ HeardInv /\ [SpeechNext]_speechVars => HeardInv'
<1> USE CallersAssumption, CallersFinite
<1> SUFFICES ASSUME SpeechInv, HeardInv, [SpeechNext]_speechVars, instance' < 2 PROVE HeardInv'
  BY DEF HeardInv
<1>0. SpeechTypeOK /\ SpeaksItsText /\ 1 \in Instances
  BY DEF SpeechInv, Instances
<1>1. instance \in Nat /\ instance < 2
  BY <1>0 DEF SpeechTypeOK, Instances, SpeechNext, Playback, BeginSpeech, GetInstance, NewInstance,
     Lock, Join, Kill, Spawn, SpawnThrows, SpeechThread, OpenFile, TextPut, WriteSound, Play,
     SynthesisFails, StartSound, EndSound, speechVars, callVars, lockVars
<1>2. \A c \in Callers : step[c] \in Within => using[c] = 1
  BY <1>0, <1>1 DEF SpeechInv, SpeechTypeOK, Instances
<1>3. \A i \in Instances : i # 1 => thread[i] = "none"
  BY <1>1 DEF SpeechInv, Instances
<1>4. CASE UNCHANGED speechVars
  BY <1>4 DEF HeardInv, speechVars, callVars, lockVars, workVars, soundVars
<1>5. ASSUME NEW c \in Callers, BeginSpeech(c) \/ GetInstance(c) \/ NewInstance(c) \/ Lock(c)
      PROVE  HeardInv'
  <2>1. \A d \in Callers : step[d] = "kill" => step'[d] = "kill"
    BY <1>0, <1>5 DEF BeginSpeech, GetInstance, NewInstance, Lock, Move, SpeechTypeOK
  <2>2. UNCHANGED <<thread, job, file, soundVars>>
    BY <1>5 DEF BeginSpeech, GetInstance, NewInstance, Lock, workVars
  <2> QED  BY <1>1, <2>1, <2>2 DEF HeardInv, soundVars
<1>6. ASSUME NEW c \in Callers, Join(c) PROVE HeardInv'
  <2>1. using[c] = 1
    BY <1>2, <1>6 DEF Join, Move, Within
  <2>2. \A d \in Callers : step[d] = "kill" => step'[d] = "kill"
    BY <1>0, <1>6 DEF Join, Move, SpeechTypeOK
  <2>3. thread[1] = "ended" => step'[c] = "kill"
    BY <1>0, <1>6, <2>1 DEF Join, Move, SpeechTypeOK
  <2>4. thread'[1] = "none"
    BY <1>0, <1>6, <2>1 DEF Join, SpeechTypeOK
  <2> QED  BY <1>1, <1>6, <2>2, <2>3, <2>4 DEF Join, HeardInv, soundVars
<1>7. ASSUME NEW c \in Callers, Kill(c) PROVE HeardInv'
  <2>1. thread[1] = "none"
    BY <1>2, <1>7 DEF Kill, Move, Within, SpeechInv
  <2>2. \A n \in Calls \ slipped' : sound'[n] = "none"
    BY <1>0, <1>7 DEF Kill, SpeechTypeOK
  <2> QED  BY <1>7, <2>1, <2>2 DEF Kill, HeardInv, workVars
<1>8. ASSUME NEW c \in Callers, Spawn(c) \/ SpawnThrows(c) PROVE HeardInv'
  <2>1. using[c] = 1 /\ thread[1] = "none" /\ mutex[1] = c
    BY <1>0, <1>2, <1>8 DEF Spawn, SpawnThrows, Move, Within, SpeechInv, SpeechTypeOK
  <2>2. \A d \in Callers : step[d] # "kill"
    BY <1>0, <1>2, <1>8, <2>1 DEF Spawn, SpawnThrows, Move, Within, SpeechTypeOK
  <2>3. \A n \in Calls \ slipped : sound[n] = "none"
    BY <1>1, <2>1, <2>2 DEF HeardInv
  <2>4. thread'[1] \in {"none", "open"}
    BY <1>0, <1>8, <2>1 DEF Spawn, SpawnThrows, SpeechTypeOK
  <2> QED  BY <1>8, <2>3, <2>4 DEF Spawn, SpawnThrows, HeardInv, soundVars
<1>9. ASSUME NEW i \in Instances, SpeechThread(i) PROVE HeardInv'
  <2>1. i = 1 /\ thread[1] \in Working
    BY <1>3, <1>9 DEF SpeechThread, OpenFile, TextPut, WriteSound, Play, SynthesisFails, Phase,
                      Working, Phases
  <2>2. \A d \in Callers : step[d] # "kill"
    BY <1>2, <2>1 DEF SpeechInv, Within, Working
  <2>3. \A n \in Calls \ slipped : sound[n] = "none"
    BY <1>1, <2>1, <2>2 DEF HeardInv, Working
  <2>4. slipped' = slipped /\ job' = job
    BY <1>9 DEF SpeechThread, OpenFile, TextPut, WriteSound, Play, SynthesisFails, soundVars
  <2>5. CASE Play(1)
    <3>1. thread'[1] = "ended" /\ file' = {job[1]}
      BY <1>0, <1>1, <2>5 DEF Play, Phase, HeardInv, SpeechTypeOK
    <3>2. \A n \in Calls \ slipped : sound'[n] # "none" => n = job[1] /\ sound'[n] = "forked"
      BY <1>0, <2>3, <2>5 DEF Play, SpeechTypeOK
    <3> QED  BY <2>4, <3>1, <3>2 DEF HeardInv
  <2>6. ASSUME ~ Play(1) PROVE \A n \in Calls \ slipped : sound'[n] = "none"
    BY <1>0, <1>9, <2>1, <2>3, <2>6 DEF SpeechThread, OpenFile, TextPut, WriteSound,
       SynthesisFails, SpeechTypeOK, soundVars
  <2>7. ASSUME ~ Play(1)
        PROVE  /\ thread'[1] \in {"put", "write"} => file' = {}
               /\ thread'[1] = "play" => file' = {job[1]}
    <3>0. thread \in [Instances -> Phases]
      BY <1>0 DEF SpeechTypeOK
    <3>3. CASE OpenFile(1)
      BY <2>1, <3>0, <3>3 DEF OpenFile, Phase
    <3>4. CASE TextPut(1)
      <4>1. thread'[1] = "write" /\ file' = file /\ thread[1] = "put"
        BY <2>1, <3>0, <3>4 DEF TextPut, Phase
      <4> QED  BY <1>1, <4>1 DEF HeardInv
    <3>5. CASE SynthesisFails(1)
      BY <2>1, <3>0, <3>5 DEF SynthesisFails
    <3>2. CASE WriteSound(1)
      <4>1. file = {} /\ source[1] = job[1]
        BY <1>0, <1>1, <3>2 DEF WriteSound, Phase, HeardInv, SpeaksItsText
      <4> QED  BY <1>0, <3>2, <4>1 DEF WriteSound, Phase, SpeechTypeOK
    <3> QED  BY <1>9, <2>1, <2>7, <3>2, <3>3, <3>4, <3>5 DEF SpeechThread
  <2> QED  BY <2>4, <2>5, <2>6, <2>7 DEF HeardInv
<1>10. ASSUME NEW n \in Calls, StartSound(n) \/ EndSound(n) PROVE HeardInv'
  <2>1. UNCHANGED <<thread, job, file, step, slipped>>
    BY <1>10 DEF StartSound, EndSound, callVars, workVars
  <2>2. \A m \in Calls \ slipped : sound'[m] # "none" => sound[m] # "none"
    BY <1>0, <1>10 DEF StartSound, EndSound, SpeechTypeOK
  <2>3. \A m \in Calls \ slipped : sound'[m] # "none" => sound'[m] # "wrong"
    BY <1>0, <1>1, <1>10 DEF StartSound, EndSound, SpeechTypeOK, HeardInv
  <2> QED  BY <1>1, <2>1, <2>2, <2>3 DEF HeardInv
<1> QED
  BY <1>4, <1>5, <1>6, <1>7, <1>8, <1>9, <1>10 DEF SpeechNext, Playback

LEMMA SpeechStart == SpeechInit => SpeechInv /\ HeardInv
<1> USE CallersAssumption, CallersFinite
<1> SUFFICES ASSUME SpeechInit PROVE SpeechInv /\ HeardInv
  OBVIOUS
<1>1. New = {}
  BY DEF SpeechInit, New
<1>2. Cardinality(New) = 0
  BY <1>1, FS_EmptySet
<1>3. SpeechTypeOK
  BY DEF SpeechInit, SpeechTypeOK, Steps, Phases
<1>4. SpeechInv
  BY <1>2, <1>3 DEF SpeechInit, SpeechInv, SpeaksItsText, Within, Working
<1>5. 1 \in Instances
  BY DEF Instances
<1>6. HeardInv
  BY <1>5 DEF SpeechInit, HeardInv
<1> QED  BY <1>4, <1>6

LEMMA HeardFollows == SpeechInv /\ HeardInv => HeardWhole
<1> SUFFICES ASSUME SpeechInv, HeardInv, instance < 2
             PROVE  /\ \A n \in Audible \ slipped : sound[n] = "right"
                    /\ Cardinality(Audible \ slipped) <= 1
  BY DEF HeardWhole
<1>1. \A n \in Audible \ slipped : n = job[1] /\ sound[n] = "right"
  BY DEF HeardInv, Audible
<1>2. Audible \ slipped \subseteq {job[1]}
  BY <1>1
<1>3. Cardinality({job[1]}) = 1 /\ IsFiniteSet({job[1]})
  BY FS_Singleton
<1>4. Cardinality(Audible \ slipped) <= 1
  BY <1>2, <1>3, FS_Subset
<1> QED  BY <1>1, <1>4

LEMMA SpeechHolds == SpeechSpec => [](SpeechInv /\ HeardInv)
BY SpeechStart, SpeechStepInv, HeardStepInv, PTL DEF SpeechSpec

(* What the receivers do, whatever else they do, is what Speech allows.    *)
THEOREM SpeechIsSpoken == Spec => SpeechSpec
<1>1. Init => SpeechInit
  BY DEF Init
<1>2. [Next]_vars => [SpeechNext]_speechVars
  <2> SUFFICES ASSUME Next PROVE SpeechNext \/ UNCHANGED speechVars
    BY DEF vars
  <2>1. ASSUME NEW c \in Callers, Receive(c) PROVE UNCHANGED speechVars
    BY <2>1 DEF Receive
  <2>2. ASSUME NEW c \in Callers, CommunicationAnalysis(c)
        PROVE  SpeechNext \/ UNCHANGED speechVars
    <3>1. CASE DisplayVoice(c)
      BY <3>1 DEF DisplayVoice, SpeechNext
    <3>2. CASE SpeechStep(c)
      BY <3>2 DEF SpeechStep, SpeechNext, Playback
    <3>3. CASE VoiceStarted(c) \/ VoiceFailed(c)
      BY <3>3 DEF VoiceStarted, VoiceFailed, SpeechNext, Playback
    <3>4. CASE LogOnly(c) \/ Pass(c) \/ Unsupported(c) \/ Refuse(c) \/ CommunicationSend(c)
      BY <3>4 DEF LogOnly, Pass, Unsupported, Refuse, CommunicationSend, Return
    <3>5. CASE NotHandled(c) \/ BalusTrade(c) \/ TrafficControl(c) \/ FlashLightControl(c)
               \/ DisplayControl(c)
      BY <3>5 DEF NotHandled, BalusTrade, TrafficControl, FlashLightControl, DisplayControl
    <3> QED  BY <2>2, <3>1, <3>2, <3>3, <3>4, <3>5 DEF CommunicationAnalysis
  <2>3. CASE TurnSwitch
    BY <2>3 DEF TurnSwitch
  <2>4. CASE Background
    BY <2>4 DEF Background, SpeechNext
  <2> QED  BY <2>1, <2>2, <2>3, <2>4 DEF Next
<1> QED  BY <1>1, <1>2, PTL DEF Spec, SpeechSpec

(* The text of a call is not changed under the thread that speaks it,      *)
(* however the two receivers interleave in speech_playback and whatever    *)
(* they do besides: m_text is written by who holds the mutex, after the    *)
(* thread of the call before was waited for.                               *)
THEOREM EveryCallSpeaksItsText == Spec => []SpeaksItsText
<1>1. SpeechInv => SpeaksItsText
  BY DEF SpeechInv
<1> QED  BY <1>1, SpeechIsSpoken, SpeechHolds, PTL

(* While getInstance has made one instance, one whole text is heard at a   *)
(* time, but for an aplay that had not begun to run when all were stopped. *)
THEOREM OneTextIsHeard == Spec => []HeardWhole
BY HeardFollows, SpeechIsSpoken, SpeechHolds, PTL

(* A command that was obeyed late leaves its receiver without the lane and *)
(* before the gate.                                                        *)
LateInv ==
    /\ point \in [Callers -> {"idle", "gate", "analyse", "voice", "answer"}]
    /\ late \in [Callers -> {0, 1}]
    /\ \A c \in Callers : late[c] = 1 => lane # c /\ point[c] # "analyse"

LEMMA LateStep == LateInv /\ [Next]_vars => LateInv'
<1> SUFFICES ASSUME LateInv, [Next]_vars PROVE LateInv'
  OBVIOUS
<1>1. CASE UNCHANGED vars
  BY <1>1 DEF LateInv, vars, dispatchVars
<1>2. ASSUME NEW c \in Callers, Receive(c) PROVE LateInv'
  BY <1>2 DEF Receive, Goto, LateInv
<1>3. ASSUME NEW c \in Callers, LogOnly(c) \/ Unsupported(c) \/ CommunicationSend(c) PROVE LateInv'
  BY <1>3 DEF LogOnly, Unsupported, CommunicationSend, Return, Goto, LateInv
<1>4. ASSUME NEW c \in Callers, Pass(c) PROVE LateInv'
  BY <1>4 DEF Pass, Goto, LateInv
<1>5. ASSUME NEW c \in Callers, Refuse(c) \/ NotHandled(c) PROVE LateInv'
  BY <1>5 DEF Refuse, NotHandled, Goto, LateInv
<1>6. ASSUME NEW c \in Callers,
             \/ BalusTrade(c) \/ TrafficControl(c) \/ FlashLightControl(c)
             \/ DisplayControl(c) \/ DisplayVoice(c)
      PROVE  LateInv'
  <2>1. point[c] = "analyse" /\ lane' = lane
    BY <1>6 DEF BalusTrade, TrafficControl, FlashLightControl, DisplayControl, DisplayVoice, At
  <2>2. \E to \in {"answer", "voice"} : point' = [point EXCEPT ![c] = to]
    BY <1>6 DEF BalusTrade, TrafficControl, FlashLightControl, DisplayControl, DisplayVoice, Goto
  <2>3. late' = IF lane = c THEN late ELSE [late EXCEPT ![c] = @ + 1]
    BY <1>6 DEF BalusTrade, TrafficControl, FlashLightControl, DisplayControl, DisplayVoice, Done
  <2> QED  BY <2>1, <2>2, <2>3 DEF LateInv
<1>7. ASSUME NEW c \in Callers, SpeechStep(c) PROVE LateInv'
  BY <1>7 DEF SpeechStep, dispatchVars, LateInv
<1>8. ASSUME NEW c \in Callers, VoiceStarted(c) \/ VoiceFailed(c) PROVE LateInv'
  BY <1>8 DEF VoiceStarted, VoiceFailed, Goto, LateInv
<1>9. CASE TurnSwitch
  BY <1>9 DEF TurnSwitch, LateInv
<1>10. CASE Background
  BY <1>10 DEF Background, dispatchVars, LateInv
<1> QED
  BY <1>1, <1>2, <1>3, <1>4, <1>5, <1>6, <1>7, <1>8, <1>9, <1>10 DEF Next, CommunicationAnalysis

(* When the lane is taken from a computer, at most one more of its frames  *)
(* is obeyed: CommunicationAnalysis reads the switch before each frame.    *)
THEOREM OneMoreAtMost == Spec => []OneLateCommand
<1>1. Init => LateInv
  BY DEF Init, LateInv
<1>2. LateInv => OneLateCommand
  BY DEF LateInv, OneLateCommand
<1> QED  BY <1>1, <1>2, LateStep, PTL DEF Spec

Bytes == (0..255) \X (0..255)

LEMMA TwoBytes ==
    ASSUME TypeOK, NEW c \in Callers, NEW bytes \in Bytes,
           result' = [result EXCEPT ![c] = bytes]
    PROVE  result' \in [Callers -> Bytes]
BY DEF TypeOK, Bytes

LEMMA TypeStep == TypeOK /\ SpeechInv' /\ [Next]_vars => TypeOK'
<1> SUFFICES ASSUME TypeOK, SpeechInv', [Next]_vars PROVE TypeOK'
  OBVIOUS
<1>0. SpeechTypeOK'
  BY DEF SpeechInv
<1>1. CASE UNCHANGED vars
  BY <1>1, <1>0 DEF TypeOK, vars, dispatchVars, speechVars, callVars
<1>2. ASSUME NEW c \in Callers, Receive(c) PROVE TypeOK'
  BY <1>2, <1>0, FramesAssumption DEF Receive, Goto, TypeOK, speechVars, callVars
<1>3. ASSUME NEW c \in Callers, LogOnly(c) \/ Unsupported(c) \/ CommunicationSend(c) PROVE TypeOK'
  <2>1. Return(c) /\ point[c] # "voice"
    BY <1>3 DEF LogOnly, Unsupported, CommunicationSend
  <2> QED  BY <2>1, <1>0 DEF Return, Goto, TypeOK, speechVars, callVars
<1>4. ASSUME NEW c \in Callers, Pass(c) \/ Refuse(c) PROVE TypeOK'
  <2>1. type' \in [Callers -> 0..255]
    <3>1. \E t \in 0..255 : type' = [type EXCEPT ![c] = t]
      BY <1>4, FramesAssumption DEF Pass, Refuse, TypeOf, TypeOfDevice, Commands
    <3> QED  BY <3>1 DEF TypeOK
  <2>2. \E to \in {"analyse", "answer"} : point' = [point EXCEPT ![c] = to]
    BY <1>4 DEF Pass, Refuse, Goto
  <2>3. point[c] = "gate"
    BY <1>4 DEF Pass, Refuse
  <2>4. UNCHANGED <<speechVars, lane, frames, turns, frame, result, light, lamp, did, late>>
    BY <1>4 DEF Pass, Refuse
  <2> QED  BY <1>0, <2>1, <2>2, <2>3, <2>4 DEF TypeOK, speechVars, callVars
<1>5. ASSUME NEW c \in Callers, NotHandled(c) PROVE TypeOK'
  BY <1>5, <1>0 DEF NotHandled, At, Goto, TypeOK, speechVars, callVars
<1>6. ASSUME NEW c \in Callers,
             BalusTrade(c) \/ TrafficControl(c) \/ FlashLightControl(c) \/ DisplayControl(c)
      PROVE  TypeOK'
  <2>1. result' \in [Callers -> Bytes]
    <3>1. CASE BalusTrade(c)
      <4> DEFINE bytes == <<\hA3, CASE frame[c].arg = 0 -> 3 [] frame[c].arg = 1 -> 2 [] OTHER -> 0>>
      <4>1. bytes \in Bytes
        BY DEF Bytes
      <4>2. result' = [result EXCEPT ![c] = bytes]
        BY <3>1 DEF BalusTrade, Done
      <4> HIDE DEF bytes
      <4> QED  BY <4>1, <4>2, TwoBytes
    <3>2. CASE TrafficControl(c)
      <4> DEFINE bytes == <<\hDE, IF frame[c].arg = 1 THEN 1 ELSE 0>>
      <4>1. bytes \in Bytes
        BY DEF Bytes
      <4>2. result' = [result EXCEPT ![c] = bytes]
        BY <3>2 DEF TrafficControl, Done
      <4> HIDE DEF bytes
      <4> QED  BY <4>1, <4>2, TwoBytes
    <3>3. CASE FlashLightControl(c)
      <4> DEFINE bytes == <<\hDF, IF frame[c].dev = 1 THEN 3 ELSE 4>>
      <4>1. bytes \in Bytes
        BY DEF Bytes
      <4>2. result' = [result EXCEPT ![c] = bytes]
        BY <3>3 DEF FlashLightControl, Done
      <4> HIDE DEF bytes
      <4> QED  BY <4>1, <4>2, TwoBytes
    <3>4. CASE DisplayControl(c)
      <4> DEFINE bytes == <<\hD4, 3>>
      <4>1. bytes \in Bytes
        BY DEF Bytes
      <4>2. result' = [result EXCEPT ![c] = bytes]
        BY <3>4 DEF DisplayControl, Done
      <4> HIDE DEF bytes
      <4> QED  BY <4>1, <4>2, TwoBytes
    <3> QED  BY <1>6, <3>1, <3>2, <3>3, <3>4
  <2>2. point[c] = "analyse" /\ point' = [point EXCEPT ![c] = "answer"]
    BY <1>6 DEF BalusTrade, TrafficControl, FlashLightControl, DisplayControl, At, Goto
  <2>3. late' = IF lane = c THEN late ELSE [late EXCEPT ![c] = @ + 1]
    BY <1>6 DEF BalusTrade, TrafficControl, FlashLightControl, DisplayControl, Done
  <2>4. light' \in {"red", "green"} /\ lamp' \in {"off", "on"}
    <3>1. CASE TrafficControl(c)
      BY <3>1 DEF TrafficControl, TypeOK
    <3>2. CASE ~ TrafficControl(c)
      BY <1>6, <3>2 DEF BalusTrade, FlashLightControl, DisplayControl, TypeOK
    <3> QED  BY <3>1, <3>2
  <2>5. UNCHANGED <<speechVars, lane, frames, turns, frame, type>>
        /\ did' = [did EXCEPT ![c] = TRUE]
    BY <1>6 DEF BalusTrade, TrafficControl, FlashLightControl, DisplayControl, Done
  <2> QED  BY <1>0, <2>1, <2>2, <2>3, <2>4, <2>5 DEF TypeOK, Bytes, speechVars, callVars
<1>7. ASSUME NEW c \in Callers, DisplayVoice(c) PROVE TypeOK'
  BY <1>7, <1>0 DEF DisplayVoice, BeginSpeech, Move, At, Goto, TypeOK, SpeechTypeOK
<1>8. ASSUME NEW c \in Callers, SpeechStep(c) PROVE TypeOK'
  <2>1. \E to \in Steps \ {"out"} : step' = [step EXCEPT ![c] = to]
    BY <1>8 DEF SpeechStep, GetInstance, NewInstance, Lock, Join, Kill, Move, Steps
  <2>2. UNCHANGED dispatchVars /\ point[c] = "voice"
    BY <1>8 DEF SpeechStep
  <2> QED  BY <1>0, <2>1, <2>2 DEF TypeOK, SpeechTypeOK, dispatchVars
<1>9. ASSUME NEW c \in Callers, VoiceStarted(c) \/ VoiceFailed(c) PROVE TypeOK'
  <2>1. step' = [step EXCEPT ![c] = "out"] /\ point' = [point EXCEPT ![c] = "answer"]
    BY <1>9 DEF VoiceStarted, VoiceFailed, Spawn, SpawnThrows, Move, Goto
  <2>2. result' \in [Callers -> Bytes]
    <3>1. PICK bytes \in {<<\hD4, 4>>, <<\hD4, 5>>} : result' = [result EXCEPT ![c] = bytes]
      BY <1>9 DEF VoiceStarted, VoiceFailed
    <3>2. bytes \in Bytes
      BY <3>1 DEF Bytes
    <3> QED  BY <3>1, <3>2, TwoBytes
  <2>3. UNCHANGED <<lane, frames, turns, frame, type, light, lamp, late>>
        /\ did' = [did EXCEPT ![c] = TRUE]
    BY <1>9 DEF VoiceStarted, VoiceFailed
  <2>4. point \in [Callers -> {"idle", "gate", "analyse", "voice", "answer"}]
        /\ step \in [Callers -> Steps] /\ \A d \in Callers : step[d] # "out" <=> point[d] = "voice"
    BY DEF TypeOK, SpeechTypeOK
  <2>5. point' \in [Callers -> {"idle", "gate", "analyse", "voice", "answer"}]
    BY <2>1, <2>4
  <2>6. \A d \in Callers : step'[d] # "out" <=> point'[d] = "voice"
    BY <2>1, <2>4
  <2>7. /\ lane' \in Callers \cup {None} /\ frames' \in 0..MaxFrames /\ turns' \in 0..MaxTurns
        /\ frame' \in [Callers -> Frames \cup {Nothing}] /\ type' \in [Callers -> 0..255]
        /\ light' \in {"red", "green"} /\ lamp' \in {"off", "on"} /\ late' \in [Callers -> Nat]
        /\ did' \in [Callers -> BOOLEAN]
    BY <2>3 DEF TypeOK
  <2> QED  BY <1>0, <2>2, <2>5, <2>6, <2>7 DEF TypeOK, Bytes
<1>10. CASE TurnSwitch
  BY <1>10, <1>0, FramesAssumption DEF TurnSwitch, TypeOK, speechVars, callVars
<1>11. CASE Background
  <2>1. step' = step /\ UNCHANGED dispatchVars
    BY <1>11 DEF Background, SpeechThread, OpenFile, TextPut, WriteSound, Play, SynthesisFails,
       StartSound, EndSound, callVars
  <2> QED  BY <1>0, <2>1 DEF TypeOK, dispatchVars
<1> QED
  BY <1>1, <1>2, <1>3, <1>4, <1>5, <1>6, <1>7, <1>8, <1>9, <1>10, <1>11
     DEF Next, CommunicationAnalysis

(* TypeOK, with who is past the lock of an instance holding it.            *)
THEOREM TypeCorrect == Spec => []TypeOK
<1>1. Init /\ SpeechInv => TypeOK
  BY FramesAssumption DEF Init, SpeechInit, SpeechInv, TypeOK
<1>2. Init => SpeechInit
  BY DEF Init
<1> QED  BY <1>1, <1>2, TypeStep, SpeechStart, SpeechIsSpoken, SpeechHolds, PTL DEF Spec

DeviceTypes == {\hD3, \hD4, \hDE, \hDF}

DeviceBytes == {\hA3, \hD4, \hDE, \hDF}

(* Only a device frame may be given the Type of a heartbeat.               *)
Marked(t, f) == t = \hB0 => f.code = \hA4

(* Result is zero until a handler has run; then it begins with the         *)
(* handler's byte, and Type is the frame's.                                *)
AnswerInv ==
    /\ TypeOK
    /\ \A c \in Callers :
          /\ did[c] = FALSE => result[c] = <<0, 0>>
          /\ did[c] = TRUE => result[c][1] \in DeviceBytes /\ type[c] \in DeviceTypes
          /\ point[c] # "answer" => did[c] = FALSE
          /\ point[c] \in {"analyse", "voice"} => type[c] \in DeviceTypes
          /\ point[c] = "answer" => Marked(type[c], frame[c])

(* A step of receiver c leaves what the others are about to answer.        *)
LEMMA AnswerOfOne ==
    ASSUME AnswerInv, TypeOK', NEW c \in Callers, NEW t, NEW bytes, NEW ran \in BOOLEAN, NEW to,
           NEW f,
           type' = [type EXCEPT ![c] = t], result' = [result EXCEPT ![c] = bytes],
           did' = [did EXCEPT ![c] = ran], point' = [point EXCEPT ![c] = to],
           frame' = [frame EXCEPT ![c] = f],
           ran = FALSE => bytes = <<0, 0>>,
           ran = TRUE => bytes[1] \in DeviceBytes /\ t \in DeviceTypes,
           to # "answer" => ran = FALSE,
           to \in {"analyse", "voice"} => t \in DeviceTypes,
           to = "answer" => Marked(t, f)
    PROVE  AnswerInv'
<1>1. /\ did'[c] = ran /\ result'[c] = bytes /\ type'[c] = t /\ point'[c] = to
      /\ frame'[c] = f
  BY DEF AnswerInv, TypeOK
<1>2. \A d \in Callers \ {c} :
         /\ did'[d] = did[d] /\ result'[d] = result[d] /\ type'[d] = type[d]
         /\ point'[d] = point[d] /\ frame'[d] = frame[d]
  BY DEF AnswerInv, TypeOK
<1> QED  BY <1>1, <1>2 DEF AnswerInv

(* A step of a receiver for which no handler has run yet.                  *)
LEMMA AnswerOfNone ==
    ASSUME AnswerInv, TypeOK', NEW c \in Callers, NEW t, NEW to, NEW f, UNCHANGED <<result, did>>,
           type' = [type EXCEPT ![c] = t], point' = [point EXCEPT ![c] = to],
           frame' = [frame EXCEPT ![c] = f], point[c] # "answer",
           to \in {"analyse", "voice"} => t \in DeviceTypes,
           to = "answer" => Marked(t, f)
    PROVE  AnswerInv'
<1>1. did[c] = FALSE
  BY DEF AnswerInv
<1>2. point'[c] = to /\ type'[c] = t /\ frame'[c] = f
  BY DEF AnswerInv, TypeOK
<1>3. \A d \in Callers \ {c} :
         type'[d] = type[d] /\ point'[d] = point[d] /\ frame'[d] = frame[d]
  BY DEF AnswerInv, TypeOK
<1> QED  BY <1>1, <1>2, <1>3 DEF AnswerInv

LEMMA AnswerStep == AnswerInv /\ TypeOK' /\ [Next]_vars => AnswerInv'
<1> SUFFICES ASSUME AnswerInv, TypeOK', [Next]_vars PROVE AnswerInv'
  OBVIOUS
<1>s. \A c \in Callers : /\ type = [type EXCEPT ![c] = type[c]]
                         /\ frame = [frame EXCEPT ![c] = frame[c]]
  BY DEF AnswerInv, TypeOK
<1>t. \hB0 \notin DeviceTypes
  BY DEF DeviceTypes
<1>1. CASE UNCHANGED <<type, result, did, point, frame>>
  BY <1>1 DEF AnswerInv
<1>2. ASSUME NEW c \in Callers, Receive(c) PROVE AnswerInv'
  <2>1. /\ point[c] = "idle" /\ point' = [point EXCEPT ![c] = "gate"]
        /\ UNCHANGED <<result, did, type>>
    BY <1>2 DEF Receive, Goto
  <2>2. PICK f : frame' = [frame EXCEPT ![c] = f]
    BY <1>2 DEF Receive
  <2> QED  BY <1>s, <2>1, <2>2, AnswerOfNone
<1>3. ASSUME NEW c \in Callers, LogOnly(c) \/ Unsupported(c) \/ CommunicationSend(c)
      PROVE  AnswerInv'
  <2>1. Return(c)
    BY <1>3 DEF LogOnly, Unsupported, CommunicationSend
  <2> QED  BY <2>1, AnswerOfOne DEF Return, Goto
<1>4. ASSUME NEW c \in Callers, Pass(c) PROVE AnswerInv'
  <2>1. /\ point[c] = "gate" /\ point' = [point EXCEPT ![c] = "analyse"]
        /\ type' = [type EXCEPT ![c] = TypeOf(frame[c])] /\ UNCHANGED <<result, did, frame>>
    BY <1>4 DEF Pass, Goto
  <2>2. TypeOf(frame[c]) \in DeviceTypes
    BY <1>4 DEF Pass, TypeOf, TypeOfDevice, Commands, DeviceTypes
  <2> QED  BY <1>s, <2>1, <2>2, AnswerOfNone
<1>5. ASSUME NEW c \in Callers, Refuse(c) PROVE AnswerInv'
  <2>1. /\ point[c] = "gate" /\ point' = [point EXCEPT ![c] = "answer"]
        /\ UNCHANGED <<result, did, frame>> /\ frame[c].code \in Commands
    BY <1>5 DEF Refuse, Goto
  <2>2. PICK t : type' = [type EXCEPT ![c] = t] /\ (frame[c].code # \hA4 => t = TypeOf(frame[c]))
    BY <1>5 DEF Refuse
  <2>3. Marked(t, frame[c]) /\ frame' = [frame EXCEPT ![c] = frame[c]]
    BY <1>s, <2>1, <2>2 DEF TypeOf, Commands, Marked
  <2> QED  BY <2>1, <2>2, <2>3, AnswerOfNone
<1>6. ASSUME NEW c \in Callers, NotHandled(c) PROVE AnswerInv'
  <2>1. /\ point[c] = "analyse" /\ point' = [point EXCEPT ![c] = "answer"]
        /\ UNCHANGED <<result, did, type, frame>>
    BY <1>6 DEF NotHandled, At, Goto
  <2>2. /\ type' = [type EXCEPT ![c] = type[c]] /\ frame' = [frame EXCEPT ![c] = frame[c]]
        /\ Marked(type[c], frame[c])
    BY <1>s, <1>t, <2>1 DEF AnswerInv, Marked
  <2> QED  BY <2>1, <2>2, AnswerOfNone
<1>7. ASSUME NEW c \in Callers, NEW bytes, bytes[1] \in DeviceBytes,
             point[c] \in {"analyse", "voice"}, Goto(c, "answer"), UNCHANGED <<type, frame>>,
             result' = [result EXCEPT ![c] = bytes], did' = [did EXCEPT ![c] = TRUE]
      PROVE  AnswerInv'
  <2>1. /\ type' = [type EXCEPT ![c] = type[c]] /\ frame' = [frame EXCEPT ![c] = frame[c]]
        /\ point' = [point EXCEPT ![c] = "answer"]
    BY <1>s, <1>7 DEF Goto
  <2>2. type[c] \in DeviceTypes /\ Marked(type[c], frame[c])
    BY <1>t, <1>7 DEF AnswerInv, Marked
  <2> QED  BY <1>7, <2>1, <2>2, AnswerOfOne
<1>8. ASSUME NEW c \in Callers,
             BalusTrade(c) \/ TrafficControl(c) \/ FlashLightControl(c) \/ DisplayControl(c)
      PROVE  AnswerInv'
  <2>1. /\ point[c] = "analyse" /\ Goto(c, "answer") /\ UNCHANGED <<type, frame>>
        /\ did' = [did EXCEPT ![c] = TRUE]
    BY <1>8 DEF BalusTrade, TrafficControl, FlashLightControl, DisplayControl, At, Done
  <2>2. \E first \in DeviceBytes : \E second : result' = [result EXCEPT ![c] = <<first, second>>]
    BY <1>8 DEF BalusTrade, TrafficControl, FlashLightControl, DisplayControl, Done, DeviceBytes
  <2>3. PICK first \in DeviceBytes : \E second : result' = [result EXCEPT ![c] = <<first, second>>]
    BY <2>2
  <2>4. PICK second : result' = [result EXCEPT ![c] = <<first, second>>]
    BY <2>3
  <2>5. <<first, second>>[1] \in DeviceBytes
    BY <2>3
  <2> QED  BY <1>7, <2>1, <2>4, <2>5
<1>9. ASSUME NEW c \in Callers, VoiceStarted(c) \/ VoiceFailed(c) PROVE AnswerInv'
  <2>1. /\ point[c] = "voice" /\ Goto(c, "answer") /\ UNCHANGED <<type, frame>>
        /\ did' = [did EXCEPT ![c] = TRUE]
    BY <1>9 DEF VoiceStarted, VoiceFailed, Spawn, SpawnThrows, Move, AnswerInv, TypeOK
  <2>2. PICK second \in {4, 5} : result' = [result EXCEPT ![c] = <<\hD4, second>>]
    BY <1>9 DEF VoiceStarted, VoiceFailed
  <2>3. <<\hD4, second>>[1] \in DeviceBytes
    BY DEF DeviceBytes
  <2> QED  BY <1>7, <2>1, <2>2, <2>3
<1>10. ASSUME NEW c \in Callers, DisplayVoice(c) PROVE AnswerInv'
  <2>1. /\ point[c] = "analyse" /\ point' = [point EXCEPT ![c] = "voice"]
        /\ UNCHANGED <<result, did, type, frame>>
    BY <1>10 DEF DisplayVoice, At, Goto
  <2>2. type[c] \in DeviceTypes
    BY <2>1 DEF AnswerInv
  <2> QED  BY <1>s, <2>1, <2>2, AnswerOfNone
<1>11. ASSUME NEW c \in Callers, SpeechStep(c) PROVE AnswerInv'
  BY <1>1, <1>11 DEF SpeechStep, dispatchVars
<1>12. CASE TurnSwitch \/ Background
  BY <1>1, <1>12 DEF TurnSwitch, Background, dispatchVars
<1>13. CASE UNCHANGED vars
  BY <1>1, <1>13 DEF vars, dispatchVars
<1> QED
  BY <1>2, <1>3, <1>4, <1>5, <1>6, <1>8, <1>9, <1>10, <1>11, <1>12, <1>13
     DEF Next, CommunicationAnalysis

(* Two zeros or a heartbeat are answered exactly when no handler has run   *)
(* for this very frame: Type and Result are the frame's own.               *)
THEOREM AnswersFollowHandlers == Spec => AnswersAreEarned
<1>1. Init /\ TypeOK => AnswerInv
  BY DEF Init, AnswerInv
<1>2. AnswerInv /\ [Next]_vars =>
         [\A c \in Callers : Answers(c) =>
             /\ did[c] <=> Answer(c) \notin {<<0, 0>>, <<\hB0>>}
             /\ Answer(c) = <<\hB0>> => frame[c].code = \hA4]_vars
  <2> SUFFICES ASSUME AnswerInv, NEW c \in Callers, point[c] = "answer"
               PROVE  /\ did[c] <=> Answer(c) \notin {<<0, 0>>, <<\hB0>>}
                      /\ Answer(c) = <<\hB0>> => frame[c].code = \hA4
    BY DEF Answers
  <2>1. did[c] \in BOOLEAN /\ result[c] \in (0..255) \X (0..255)
    BY DEF AnswerInv, TypeOK
  <2>2. PICK x \in 0..255, y \in 0..255 : result[c] = <<x, y>>
    BY <2>1, result[c] = <<result[c][1], result[c][2]>>
  <2>3. Answer(c) = <<\hB0>> <=> type[c] = \hB0
    BY <2>2 DEF Answer, Message
  <2>4. type[c] # \hB0 => Answer(c) = <<x, y>>
    BY <2>2 DEF Answer, Message
  <2>5. CASE did[c] = TRUE
    <3>1. type[c] # \hB0 /\ x # 0
      BY <2>2, <2>5 DEF AnswerInv, DeviceTypes, DeviceBytes
    <3> QED  BY <2>3, <2>4, <2>5, <3>1
  <2>6. CASE did[c] = FALSE
    <3>1. result[c] = <<0, 0>> /\ (type[c] = \hB0 => frame[c].code = \hA4)
      BY <2>6 DEF AnswerInv, Marked
    <3>2. Answer(c) \in {<<0, 0>>, <<\hB0>>}
      BY <3>1 DEF Answer, Message
    <3> QED  BY <2>3, <2>6, <3>1, <3>2
  <2> QED  BY <2>1, <2>5, <2>6
<1> QED  BY <1>1, <1>2, AnswerStep, TypeCorrect, PTL DEF Spec, AnswersAreEarned
=============================================================================
