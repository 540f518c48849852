---------------------------- MODULE Start_proofs ----------------------------
(***************************************************************************)
(* Proofs about Start, and about the parser of IniFile, for any files.     *)
(***************************************************************************)
EXTENDS Start, WellFoundedInduction, TLAPS

Lines == Seq(STRING)

(***************************************************************************)
(* The least and the greatest of a set, and parts of a sequence.           *)
(***************************************************************************)
LEMMA LeastOf ==
    ASSUME NEW S \in SUBSET Nat, S # {}
    PROVE  /\ Min(S) \in S /\ Min(S) \in Nat /\ \A j \in S : Min(S) <= j
           /\ \A i \in S : (\A j \in S : i <= j) => Min(S) = i
<1> DEFINE R == {ss \in Nat \X Nat : ss[1] < ss[2]}
<1>1. IsWellFoundedOn(R, Nat)
  BY NatLessThanWellFounded DEF OpToRel
<1>2. \E i \in S : \A j \in S : <<j, i>> \notin R
  <2> HIDE DEF R
  <2> QED  BY <1>1, WFMin
<1>3. \E i \in S : \A j \in S : i <= j
  <2>1. \A i, j \in S : <<j, i>> \notin R => i <= j
    <3> TAKE i, j \in S
    <3>1. i \in Nat /\ j \in Nat
      OBVIOUS
    <3> QED  BY <3>1
  <2> HIDE DEF R
  <2> QED  BY <1>2, <2>1
<1>4. Min(S) \in S /\ \A j \in S : Min(S) <= j
  BY <1>3 DEF Min
<1>5. Min(S) \in Nat
  BY <1>4
<1>6. ASSUME NEW i \in S, \A j \in S : i <= j PROVE Min(S) = i
  <2>1. i \in Nat /\ i <= Min(S) /\ Min(S) <= i
    BY <1>4, <1>6
  <2> QED  BY <1>5, <2>1
<1> QED  BY <1>4, <1>5, <1>6

LEMMA GreatestOf ==
    ASSUME NEW n \in Nat, NEW S \in SUBSET 0..n, S # {}
    PROVE  /\ Max(S) \in S /\ Max(S) \in Nat /\ \A j \in S : j <= Max(S)
           /\ \A i \in S : (\A j \in S : j <= i) => Max(S) = i
<1> DEFINE T == {n - i : i \in S}
<1>1. T \in SUBSET Nat /\ T # {}
  OBVIOUS
<1>2. Min(T) \in T /\ \A j \in T : Min(T) <= j
  <2> HIDE DEF T
  <2> QED  BY <1>1, LeastOf
<1>3. PICK i \in S : Min(T) = n - i
  BY <1>2
<1>4. \A j \in S : j <= i
  <2> TAKE j \in S
  <2>1. n - j \in T /\ i \in Nat /\ j \in Nat
    OBVIOUS
  <2>2. n - i <= n - j
    BY <1>2, <1>3, <2>1
  <2> QED  BY <2>1, <2>2
<1> HIDE DEF T
<1>5. Max(S) \in S /\ \A j \in S : Max(S) >= j
  BY <1>4 DEF Max
<1>6. Max(S) \in Nat /\ S \subseteq Nat
  <2>1. 0..n \subseteq Nat
    OBVIOUS
  <2> QED  BY <1>5, <2>1
<1>7. ASSUME NEW k \in S, \A j \in S : j <= k PROVE Max(S) = k
  <2>1. k \in Nat /\ k <= Max(S) /\ Max(S) <= k
    BY <1>5, <1>6, <1>7
  <2> QED  BY <1>6, <2>1
<1> QED  BY <1>5, <1>6, <1>7

LEMMA FindIs ==
    ASSUME NEW T, NEW s \in Seq(T), NEW t
    PROVE  /\ Find(s, t) \in 0..Len(s)
           /\ Find(s, t) = 0 <=> \A i \in 1..Len(s) : s[i] # t
           /\ Find(s, t) # 0 => s[Find(s, t)] = t /\ \A i \in 1..(Find(s, t) - 1) : s[i] # t
<1> DEFINE I == {i \in 1..Len(s) : s[i] = t}
<1>1. Find(s, t) = IF I # {} THEN Min(I) ELSE 0
  BY DEF Find, SelectInSeq
<1>2. Len(s) \in Nat /\ I \in SUBSET Nat
  OBVIOUS
<1>3. CASE I = {}
  BY <1>1, <1>2, <1>3
<1>4. CASE I # {}
  <2>1. PICK m \in I : m = Find(s, t) /\ \A j \in I : m <= j
    <3> HIDE DEF I
    <3> QED  BY <1>1, <1>2, <1>4, LeastOf
  <2>2. \A i \in 1..(m - 1) : s[i] # t
    <3> TAKE i \in 1..(m - 1)
    <3>1. i \in 1..Len(s) /\ ~ (m <= i)
      BY <1>2
    <3> QED  BY <2>1, <3>1
  <2> QED  BY <1>2, <2>1, <2>2
<1> QED  BY <1>3, <1>4

LEMMA PartIs ==
    ASSUME NEW T, NEW s \in Seq(T), NEW a \in Nat \ {0}, NEW b \in 0..Len(s)
    PROVE  /\ SubSeq(s, a, b) \in Seq(T)
           /\ Len(SubSeq(s, a, b)) = IF a <= b THEN (b - a) + 1 ELSE 0
           /\ \A i \in 1..((b - a) + 1) : SubSeq(s, a, b)[i] = s[(a + i) - 1]
OBVIOUS

(***************************************************************************)
(* Words: the tokens between the first and the last place of a set.        *)
(***************************************************************************)
LEMMA WordsIs ==
    ASSUME NEW T, NEW s \in Seq(T), NEW S \in SUBSET 1..Len(s), S # {}
    PROVE  /\ Min(S) \in S /\ Max(S) \in S /\ Min(S) \in 1..Len(s) /\ Max(S) \in 1..Len(s)
           /\ \A i \in S : Min(S) <= i /\ i <= Max(S)
           /\ Words(s, S) \in Seq(T) /\ Len(Words(s, S)) = (Max(S) - Min(S)) + 1
           /\ \A i \in 1..((Max(S) - Min(S)) + 1) : Words(s, S)[i] = s[(Min(S) + i) - 1]
<1>1. S \in SUBSET Nat /\ Len(s) \in Nat /\ S \in SUBSET 0..Len(s)
  <2>1. 1..Len(s) \subseteq Nat /\ 1..Len(s) \subseteq 0..Len(s)
    OBVIOUS
  <2> QED  BY <2>1
<1>2. Min(S) \in S /\ \A i \in S : Min(S) <= i
  BY <1>1, LeastOf
<1>3. Max(S) \in S /\ \A i \in S : i <= Max(S)
  BY <1>1, GreatestOf
<1>4. PICK a, b \in 1..Len(s) : a = Min(S) /\ b = Max(S) /\ a <= b
  BY <1>2, <1>3
<1>5. Words(s, S) = SubSeq(s, a, b)
  BY <1>4 DEF Words
<1>6. a \in Nat \ {0} /\ b \in 0..Len(s)
  BY <1>1
<1>7. /\ SubSeq(s, a, b) \in Seq(T) /\ Len(SubSeq(s, a, b)) = (b - a) + 1
      /\ \A i \in 1..((b - a) + 1) : SubSeq(s, a, b)[i] = s[(a + i) - 1]
  BY <1>4, <1>6, PartIs
<1> QED  BY <1>2, <1>3, <1>4, <1>5, <1>7

(* Two sequences with the same tokens are the same.                        *)
LEMMA SameTokens ==
    ASSUME NEW T, NEW s \in Seq(T), NEW t \in Seq(T), Len(s) = Len(t),
           \A i \in 1..Len(s) : s[i] = t[i]
    PROVE  s = t
OBVIOUS

(* The first and the last places of a set that is shifted.                 *)
LEMMA ShiftedEnds ==
    ASSUME NEW n \in Nat, NEW S \in SUBSET 1..n, S # {}, NEW d \in Nat, NEW S2 \in SUBSET Nat,
           S2 = {i + d : i \in S}
    PROVE  Min(S2) = Min(S) + d /\ Max(S2) = Max(S) + d
<1>1. S \in SUBSET Nat /\ S \in SUBSET 0..n
  <2>1. 1..n \subseteq Nat /\ 1..n \subseteq 0..n
    OBVIOUS
  <2> QED  BY <2>1
<1>2. PICK a \in S : a = Min(S) /\ \A i \in S : a <= i
  BY <1>1, LeastOf
<1>3. PICK b \in S : b = Max(S) /\ \A i \in S : i <= b
  BY <1>1, GreatestOf
<1>4. a \in Nat /\ b \in Nat /\ a + d \in S2 /\ b + d \in S2
  BY <1>1
<1>5. \A j \in S2 : a + d <= j /\ j <= b + d
  <2> TAKE j \in S2
  <2>1. PICK i \in S : j = i + d
    OBVIOUS
  <2>2. i \in Nat /\ a <= i /\ i <= b
    BY <1>1, <1>2, <1>3
  <2> QED  BY <1>4, <2>1, <2>2
<1>6. S2 \in SUBSET 0..(n + d) /\ n + d \in Nat
  <2> SUFFICES ASSUME NEW j \in S2 PROVE j \in 0..(n + d)
    OBVIOUS
  <2>1. PICK i \in 1..n : j = i + d
    OBVIOUS
  <2> QED  BY <2>1
<1>7. Min(S2) = a + d
  BY <1>4, <1>5, LeastOf
<1>8. Max(S2) = b + d
  BY <1>4, <1>5, <1>6, GreatestOf
<1> QED  BY <1>2, <1>3, <1>7, <1>8

(* Trimming a part of a line gives the words of it.                        *)
LEMMA TrimOfPart ==
    ASSUME NEW s \in Lines, NEW a \in Nat \ {0}, NEW b \in 0..Len(s)
    PROVE  Trim(SubSeq(s, a, b)) = Words(s, {i \in a..b : s[i] # " "})
<1> DEFINE t == SubSeq(s, a, b)
           S == {i \in DOMAIN t : t[i] # " "}
           S2 == {i \in a..b : s[i] # " "}
<1> SUFFICES Trim(t) = Words(s, S2)
  OBVIOUS
<1>1. /\ t \in Lines /\ Len(t) = IF a <= b THEN (b - a) + 1 ELSE 0
      /\ \A i \in 1..((b - a) + 1) : t[i] = s[(a + i) - 1]
  BY PartIs DEF Lines
<1>2. Trim(t) = Words(t, S)
  BY DEF Trim, Words
<1>n. Len(s) \in Nat /\ Len(t) \in Nat /\ DOMAIN t = 1..Len(t)
  BY <1>1 DEF Lines
<1>m. b \in Nat /\ a \in Nat
  <2> HIDE DEF t, S, S2
  <2> QED  BY <1>n
<1>3. CASE a > b
  <2>1. S = {} /\ S2 = {}
    <3>1. Len(t) = 0
      BY <1>1, <1>3
    <3>2. a..b = {} /\ DOMAIN t = {}
      BY <1>n, <1>3, <3>1
    <3> QED  BY <3>2
  <2> HIDE DEF S, S2, t
  <2> QED  BY <1>2, <2>1 DEF Words
<1>4. CASE a <= b
  <2> HIDE DEF t
  <2>1. Len(t) = (b - a) + 1 /\ DOMAIN t = 1..((b - a) + 1)
    BY <1>1, <1>n, <1>4
  <2>2. PICK d \in Nat : d = a - 1
    OBVIOUS
  <2>3. \A i \in 1..Len(t) : t[i] = s[i + d] /\ i + d \in a..b
    <3> TAKE i \in 1..Len(t)
    <3>1. (a + i) - 1 = i + d /\ i + d \in a..b
      BY <2>1, <2>2, <1>4
    <3> QED  BY <1>1, <2>1, <3>1
  <2>4. S2 = {i + d : i \in S}
    <3>1. ASSUME NEW j \in S2 PROVE \E i \in S : j = i + d
      <4>j. j \in a..b
        OBVIOUS
      <4> HIDE DEF S, S2
      <4>0. j \in Nat /\ a <= j /\ j <= b /\ b \in Nat
        BY <1>m, <4>j
      <4>1. j - d \in 1..((b - a) + 1) /\ j = (j - d) + d
        BY <2>2, <4>0
      <4>2. t[j - d] = s[j]
        BY <2>1, <2>3, <4>1
      <4> QED  BY <2>1, <4>1, <4>2 DEF S, S2
    <3>2. ASSUME NEW i \in S PROVE i + d \in S2
      BY <1>n, <2>3
    <3> QED  BY <3>1, <3>2
  <2>5. S \in SUBSET 1..Len(t)
    BY <1>n
  <2>6. S2 \in SUBSET 1..Len(s)
    <3>1. a..b \subseteq 1..Len(s)
      BY <1>n
    <3> QED  BY <3>1
  <2>7. S2 \in SUBSET Nat
    <3>1. 1..Len(s) \subseteq Nat
      OBVIOUS
    <3> QED  BY <2>6, <3>1
  <2> HIDE DEF S, S2
  <2>8. CASE S = {}
    <3>1. S2 = {}
      BY <2>4, <2>8
    <3> QED  BY <1>2, <2>8, <3>1 DEF Words
  <2>9. CASE S # {}
    <3>1. Min(S2) = Min(S) + d /\ Max(S2) = Max(S) + d
      BY <1>n, <2>4, <2>5, <2>7, <2>9, ShiftedEnds
    <3>2. S2 # {}
      BY <2>4, <2>9
    <3>3. /\ Min(S) \in 1..Len(t) /\ Max(S) \in 1..Len(t)
          /\ Words(t, S) \in Seq(STRING) /\ Len(Words(t, S)) = (Max(S) - Min(S)) + 1
          /\ \A i \in 1..((Max(S) - Min(S)) + 1) : Words(t, S)[i] = t[(Min(S) + i) - 1]
      <4>1. t \in Seq(STRING)
        BY <1>1 DEF Lines
      <4> QED  BY ONLY <2>5, <2>9, <4>1, WordsIs
    <3>4. /\ Words(s, S2) \in Seq(STRING) /\ Len(Words(s, S2)) = (Max(S2) - Min(S2)) + 1
          /\ \A i \in 1..((Max(S2) - Min(S2)) + 1) : Words(s, S2)[i] = s[(Min(S2) + i) - 1]
      BY <2>6, <3>2, WordsIs DEF Lines
    <3>5. PICK lo, hi \in 1..Len(t) : lo = Min(S) /\ hi = Max(S)
      BY <3>3
    <3>6. Len(Words(s, S2)) = (hi - lo) + 1 /\ (Max(S2) - Min(S2)) + 1 = (hi - lo) + 1
      BY <1>n, <3>1, <3>4, <3>5
    <3>7. \A i \in 1..((hi - lo) + 1) : Words(t, S)[i] = Words(s, S2)[i]
      <4> TAKE i \in 1..((hi - lo) + 1)
      <4>1. (lo + i) - 1 \in 1..Len(t) /\ ((lo + i) - 1) + d = ((lo + d) + i) - 1
        BY <1>n
      <4>2. Words(s, S2)[i] = s[((lo + d) + i) - 1]
        BY <3>1, <3>4, <3>5, <3>6
      <4>3. Words(t, S)[i] = t[(lo + i) - 1]
        BY <3>3, <3>5
      <4> QED  BY <2>3, <4>1, <4>2, <4>3
    <3>8. Words(t, S) = Words(s, S2)
      <4>1. Len(Words(t, S)) = (hi - lo) + 1
        BY <3>3, <3>5
      <4> QED  BY <3>3, <3>4, <3>6, <3>7, <4>1, SameTokens
    <3> QED  BY <1>2, <3>8
  <2> QED  BY <2>8, <2>9
<1> HIDE DEF t, S2
<1> QED  BY <1>m, <1>3, <1>4

(***************************************************************************)
(* Lines: what the parser makes of a line is what the line says.           *)
(***************************************************************************)
LEMMA SolidIs ==
    ASSUME NEW line \in Lines
    PROVE  Solid(line) \in SUBSET 1..Len(line) /\ Len(line) \in Nat /\ DOMAIN line = 1..Len(line)
<1>1. Len(line) \in Nat /\ DOMAIN line = 1..Len(line)
  BY DEF Lines
<1> QED  BY <1>1 DEF Solid

(* From the first solid place to the last only blanks are not solid, and   *)
(* no "#" comes before that.                                               *)
LEMMA SolidSpan ==
    ASSUME NEW line \in Lines, Solid(line) # {}
    PROVE  /\ Min(Solid(line)) \in 1..Len(line) /\ Max(Solid(line)) \in 1..Len(line)
           /\ Min(Solid(line)) \in Solid(line) /\ Max(Solid(line)) \in Solid(line)
           /\ Min(Solid(line)) <= Max(Solid(line))
           /\ Solid(line) = {i \in Min(Solid(line))..Max(Solid(line)) : line[i] # " "}
           /\ \A i \in 1..Max(Solid(line)) : line[i] # "#"
           /\ \A i \in 1..(Min(Solid(line)) - 1) : line[i] = " "
<1>0. Solid(line) \in SUBSET 1..Len(line) /\ Len(line) \in Nat /\ DOMAIN line = 1..Len(line)
  BY SolidIs
<1>1. /\ Min(Solid(line)) \in Solid(line) /\ Max(Solid(line)) \in Solid(line)
      /\ \A i \in Solid(line) : Min(Solid(line)) <= i /\ i <= Max(Solid(line))
  BY <1>0, WordsIs DEF Lines
<1>2. PICK a, b \in 1..Len(line) :
          /\ a = Min(Solid(line)) /\ b = Max(Solid(line)) /\ a \in Solid(line) /\ b \in Solid(line)
          /\ \A i \in Solid(line) : a <= i /\ i <= b
  BY <1>0, <1>1
<1>3. \A i \in 1..b : line[i] # "#"
  BY <1>2 DEF Solid
<1>4. ASSUME NEW i \in 1..b, line[i] # " " PROVE i \in Solid(line)
  <2>1. i \in DOMAIN line /\ 1..i \subseteq 1..b
    BY <1>0
  <2> QED  BY <1>3, <1>4, <2>1 DEF Solid
<1>5. Solid(line) = {i \in a..b : line[i] # " "}
  <2>1. a..b \subseteq 1..b
    OBVIOUS
  <2>2. \A i \in Solid(line) : i \in a..b /\ line[i] # " "
    <3> TAKE i \in Solid(line)
    <3>1. i \in 1..Len(line) /\ a <= i /\ i <= b
      BY <1>0, <1>2
    <3>2. i \in a..b
      BY <3>1
    <3> QED  BY <3>2 DEF Solid
  <2> QED  BY <1>4, <2>1, <2>2
<1>6. \A i \in 1..(a - 1) : line[i] = " "
  <2> TAKE i \in 1..(a - 1)
  <2>1. i \in 1..b /\ ~ (a <= i)
    BY <1>2
  <2> QED  BY <1>2, <1>4, <2>1
<1> QED  BY <1>2, <1>3, <1>5, <1>6

(* A line that is blank or a comment has nothing solid, and only that one. *)
LEMMA BlankIs ==
    ASSUME NEW line \in Lines
    PROVE  Solid(line) = {} <=> Trim(line) = <<>> \/ IsCommentLine(Trim(line))
<1>0. Len(line) \in Nat /\ DOMAIN line = 1..Len(line)
  BY SolidIs
<1> DEFINE S == {i \in DOMAIN line : line[i] # " "}
<1>1. Trim(line) = Words(line, S)
  BY DEF Trim, Words
<1>2. S \in SUBSET 1..Len(line)
  BY <1>0
<1>3. CASE S = {}
  <2>1. Solid(line) = {}
    BY <1>3 DEF Solid
  <2> HIDE DEF S
  <2> QED  BY <1>1, <1>3, <2>1 DEF Words
<1>4. CASE S # {}
  <2>0. \A i \in S : line[i] # " "
    OBVIOUS
  <2>5. \A i \in 1..Len(line) : i \notin S => line[i] = " "
    BY <1>0
  <2> HIDE DEF S
  <2>1. /\ Min(S) \in S /\ \A i \in S : Min(S) <= i /\ i <= Max(S)
        /\ Min(S) \in 1..Len(line) /\ Max(S) \in 1..Len(line)
        /\ Words(line, S) \in Seq(STRING) /\ Len(Words(line, S)) = (Max(S) - Min(S)) + 1
        /\ \A i \in 1..((Max(S) - Min(S)) + 1) : Words(line, S)[i] = line[(Min(S) + i) - 1]
    BY <1>2, <1>4, WordsIs DEF Lines
  <2>2. PICK a, b \in 1..Len(line) : a = Min(S) /\ b = Max(S) /\ a <= b
    BY <2>1
  <2>3. Len(Words(line, S)) >= 1 /\ Words(line, S)[1] = line[a]
    <3>1. (b - a) + 1 >= 1 /\ 1 \in 1..((b - a) + 1) /\ (a + 1) - 1 = a
      BY <2>2
    <3> QED  BY <2>1, <2>2, <3>1
  <2>4. Trim(line) # <<>> /\ (IsCommentLine(Trim(line)) <=> line[a] = "#")
    <3>1. PICK w \in Seq(STRING) : w = Trim(line) /\ Len(w) >= 1 /\ w[1] = line[a]
      BY <1>1, <2>1, <2>3
    <3> QED  BY <3>1 DEF IsCommentLine, IsPrefix
  <2>6. CASE line[a] = "#"
    <3>1. \A i \in Solid(line) : i \in S /\ a <= i /\ a \in 1..i /\ i \in 1..Len(line)
      <4> TAKE i \in Solid(line)
      <4>1. i \in 1..Len(line) /\ line[i] # " "
        BY <1>0 DEF Solid
      <4>2. i \in S /\ a <= i
        BY <2>1, <2>2, <2>5, <4>1
      <4>3. i \in Nat /\ a \in Nat /\ 1 <= a
        <5>1. Len(line) \in Nat
          BY <1>0
        <5>2. i \in 1..Len(line)
          BY <4>1
        <5> QED  BY <5>1, <5>2
      <4>4. a \in 1..i
        BY <4>2, <4>3
      <4> QED  BY <4>1, <4>2, <4>4
    <3>2. Solid(line) = {}
      BY <2>6, <3>1 DEF Solid
    <3> QED  BY <2>4, <2>6, <3>2
  <2>7. CASE line[a] # "#"
    <3>1. \A j \in 1..a : line[j] # "#"
      <4> TAKE j \in 1..a
      <4>1. j = a \/ (j \in 1..Len(line) /\ ~ (a <= j))
        OBVIOUS
      <4> QED  BY <2>1, <2>2, <2>5, <2>7, <4>1
    <3>2. a \in Solid(line)
      BY <1>0, <2>0, <2>1, <2>2, <3>1 DEF Solid
    <3> QED  BY <2>4, <2>7, <3>2
  <2> QED  BY <2>6, <2>7
<1> QED  BY <1>3, <1>4

(* What Split leaves of a line that is not blank: its solid tokens, with   *)
(* the blanks between them.                                                *)
LEMMA CleanIs ==
    ASSUME NEW line \in Lines, Solid(line) # {}
    PROVE  Split(Trim(line), "#").left = Words(line, Solid(line))
<1> DEFINE S == {i \in 1..Len(line) : line[i] # " "}
<1>0. Len(line) \in Nat /\ DOMAIN line = 1..Len(line) /\ Solid(line) \in SUBSET 1..Len(line)
  BY SolidIs
<1>1. PICK m, e \in 1..Len(line) :
          /\ m = Min(Solid(line)) /\ e = Max(Solid(line)) /\ m \in Solid(line) /\ e \in Solid(line)
          /\ m <= e
          /\ Solid(line) = {i \in m..e : line[i] # " "}
          /\ \A i \in 1..e : line[i] # "#"
          /\ \A i \in 1..(m - 1) : line[i] = " "
  BY SolidSpan
<1>2. S \in SUBSET 1..Len(line) /\ m \in S /\ e \in S
  BY <1>0, <1>1
<1>m. Len(line) \in Nat /\ m \in Nat /\ e \in Nat /\ 1 <= m /\ m <= e /\ e <= Len(line)
  <2>1. Len(line) \in Nat
    BY <1>0
  <2>2. m <= e
    BY <1>1
  <2> QED  BY <2>1, <2>2
<1>3. \A i \in S : m <= i
  <2>1. ASSUME NEW i \in 1..Len(line), line[i] # " " PROVE m <= i
    <3>1. i \notin 1..(m - 1)
      BY <1>1, <2>1
    <3>2. i \in Nat /\ 1 <= i
      BY <1>m
    <3> QED  BY <1>m, <3>1, <3>2
  <2> QED  BY <2>1
<1>s. \A i \in 1..Len(line) : i \in S <=> line[i] # " "
  OBVIOUS
<1>t. Trim(line) = Words(line, S)
  BY <1>0 DEF Trim, Words
<1> HIDE DEF S
<1>4. Min(S) = m
  <2>1. S \in SUBSET Nat
    BY <1>0, <1>2
  <2> QED  BY <1>2, <1>3, <2>1, LeastOf
<1>5. PICK b \in 1..Len(line) : b = Max(S) /\ b \in S /\ \A i \in S : i <= b
  BY <1>2, WordsIs DEF Lines
<1>6. e <= b /\ b \in Nat /\ b <= Len(line) /\ m <= b
  <2>1. e <= b
    BY <1>2, <1>5
  <2> QED  BY <1>m, <2>1
<1>7. Trim(line) = SubSeq(line, m, b)
  BY <1>2, <1>4, <1>5, <1>t DEF Words
<1> DEFINE l == SubSeq(line, m, b)
<1>8. /\ l \in Lines /\ Len(l) = (b - m) + 1
      /\ \A i \in 1..((b - m) + 1) : l[i] = line[(m + i) - 1]
  <2>1. m \in Nat \ {0} /\ b \in 0..Len(line) /\ m <= b
    BY <1>m, <1>6
  <2> QED  BY <2>1, PartIs DEF Lines
<1> HIDE DEF l
<1>n. Len(l) \in Nat /\ Len(l) = (b - m) + 1
  BY <1>8 DEF Lines
<1>9. PICK at \in Nat : at = Find(l, "#") /\ at <= Len(l)
  <2>1. Find(l, "#") \in 0..Len(l)
    BY <1>8, FindIs DEF Lines
  <2> QED  BY <2>1
<1> DEFINE last == IF at = 0 THEN b ELSE (m + at) - 2
<1>10. Split(l, "#").left = Trim(SubSeq(line, m, last))
  <2>1. CASE at = 0
    BY <1>9, <2>1 DEF Split, l
  <2>2. CASE at # 0
    <3>1. Split(l, "#").left = Trim(SubSeq(l, 1, at - 1))
      BY <1>9, <2>2 DEF Split
    <3>2. SubSeq(l, 1, at - 1) = SubSeq(line, m, (m + at) - 2)
      <4>1. /\ at - 1 \in 0..Len(l) /\ (m + at) - 2 \in 0..Len(line) /\ m \in Nat \ {0}
            /\ ((at - 1) - 1) + 1 = at - 1 /\ (((m + at) - 2) - m) + 1 = at - 1
            /\ (1 <= at - 1 <=> m <= (m + at) - 2)
        BY <1>m, <1>6, <1>n, <1>9, <2>2
      <4>2. /\ SubSeq(l, 1, at - 1) \in Seq(STRING)
            /\ Len(SubSeq(l, 1, at - 1)) = at - 1
            /\ \A i \in 1..(at - 1) : SubSeq(l, 1, at - 1)[i] = l[(1 + i) - 1]
        <5>1. 1 \in Nat \ {0} /\ l \in Seq(STRING)
          BY <1>8 DEF Lines
        <5>2. 1 <= at - 1 \/ at - 1 = 0
          BY <1>9, <2>2
        <5>3. /\ SubSeq(l, 1, at - 1) \in Seq(STRING)
              /\ Len(SubSeq(l, 1, at - 1)) = IF 1 <= at - 1 THEN ((at - 1) - 1) + 1 ELSE 0
              /\ \A i \in 1..(((at - 1) - 1) + 1) : SubSeq(l, 1, at - 1)[i] = l[(1 + i) - 1]
          <6>1. PICK x : x = at - 1 /\ x \in 0..Len(l)
            BY <4>1
          <6>2. /\ SubSeq(l, 1, x) \in Seq(STRING)
                /\ Len(SubSeq(l, 1, x)) = IF 1 <= x THEN (x - 1) + 1 ELSE 0
                /\ \A i \in 1..((x - 1) + 1) : SubSeq(l, 1, x)[i] = l[(1 + i) - 1]
            <7>1. PICK o : o = 1
              OBVIOUS
            <7>2. o \in Nat \ {0} /\ x \in 0..Len(l)
              BY ONLY <6>1, <7>1
            <7>3. /\ SubSeq(l, o, x) \in Seq(STRING)
                  /\ Len(SubSeq(l, o, x)) = IF o <= x THEN (x - o) + 1 ELSE 0
                  /\ \A i \in 1..((x - o) + 1) : SubSeq(l, o, x)[i] = l[(o + i) - 1]
              BY ONLY <5>1, <7>2, PartIs
            <7> QED  BY ONLY <7>1, <7>3
          <6> QED  BY ONLY <6>1, <6>2
        <5> QED  BY <4>1, <5>2, <5>3
      <4>3. /\ SubSeq(line, m, (m + at) - 2) \in Seq(STRING)
            /\ Len(SubSeq(line, m, (m + at) - 2)) = at - 1
            /\ \A i \in 1..(at - 1) : SubSeq(line, m, (m + at) - 2)[i] = line[(m + i) - 1]
        <5>1. PICK x : x = (m + at) - 2
          OBVIOUS
        <5>2. /\ m \in Nat \ {0} /\ line \in Seq(STRING) /\ x \in 0..Len(line)
              /\ (x - m) + 1 = at - 1 /\ (m <= x \/ (at - 1 = 0 /\ ~ m <= x))
          BY <1>9, <2>2, <4>1, <5>1 DEF Lines
        <5>3. /\ SubSeq(line, m, x) \in Seq(STRING)
              /\ Len(SubSeq(line, m, x)) = IF m <= x THEN (x - m) + 1 ELSE 0
              /\ \A i \in 1..((x - m) + 1) : SubSeq(line, m, x)[i] = line[(m + i) - 1]
          BY ONLY <5>2, PartIs
        <5>4. Len(SubSeq(line, m, x)) = at - 1
          BY ONLY <5>2, <5>3
        <5> QED  BY ONLY <5>1, <5>2, <5>3, <5>4
      <4>4. \A i \in 1..(at - 1) : l[(1 + i) - 1] = line[(m + i) - 1]
        <5> TAKE i \in 1..(at - 1)
        <5>1. i \in 1..((b - m) + 1) /\ (1 + i) - 1 = i
          BY <1>8, <1>9
        <5> QED  BY <1>8, <5>1
      <4> QED  BY <4>2, <4>3, <4>4, SameTokens
    <3> QED  BY <2>2, <3>1, <3>2
  <2> QED  BY <2>1, <2>2
<1>11. last \in 0..Len(line) /\ e <= last
  <2>1. CASE at = 0
    BY <1>m, <1>6, <2>1
  <2>2. CASE at # 0
    <3>1. at \in 1..((b - m) + 1) /\ l[at] = "#"
      BY <1>8, <1>9, <2>2, FindIs DEF Lines
    <3>2. line[(m + at) - 1] = "#"
      BY <1>8, <3>1
    <3>3. ~ ((m + at) - 1 \in 1..e)
      BY <1>1, <3>2
    <3>4. (m + at) - 1 > e /\ (m + at) - 2 <= Len(line)
      <4>1. at \in Nat /\ 1 <= at /\ at <= (b - m) + 1
        BY <1>m, <1>6, <3>1
      <4>2. (m + at) - 1 \in Nat /\ 1 <= (m + at) - 1
        BY <1>m, <4>1
      <4> QED  BY <1>m, <1>6, <3>3, <4>1, <4>2
    <3> QED  BY <1>m, <1>9, <2>2, <3>4
  <2> QED  BY <2>1, <2>2
<1>12. {i \in m..last : line[i] # " "} = Solid(line)
  <2>1. ASSUME NEW i \in Solid(line) PROVE i \in m..last /\ line[i] # " "
    <3>1. i \in m..e /\ line[i] # " "
      BY <1>1
    <3>2. i \in m..e /\ last \in 0..Len(line) /\ e <= last
      BY <1>11, <3>1
    <3> HIDE DEF last
    <3>3. i \in m..last
      BY <1>m, <3>2
    <3> QED  BY <3>1, <3>3
  <2>2. ASSUME NEW i \in m..last, line[i] # " " PROVE i \in Solid(line)
    <3>1. i \in 1..Len(line) /\ i \in Nat /\ m <= i /\ i <= last
      <4> HIDE DEF last
      <4>1. last \in Nat /\ last <= Len(line)
        BY <1>m, <1>11
      <4> QED  BY <1>m, <4>1
    <3>2. \A j \in 1..i : line[j] # "#"
      <4> TAKE j \in 1..i
      <4>1. CASE j < m
        <5>1. j \in 1..(m - 1)
          <6> HIDE DEF last
          <6> QED  BY <1>m, <3>1, <4>1
        <5> QED  BY <1>1, <5>1
      <4>2. CASE j >= m
        <5>1. PICK k \in 1..((b - m) + 1) : j = (m + k) - 1 /\ (at # 0 => k <= at - 1)
          <6>1. (j - m) + 1 \in 1..((b - m) + 1) /\ j = (m + ((j - m) + 1)) - 1
            BY <1>m, <1>6, <1>n, <1>9, <3>1, <4>2
          <6>2. at # 0 => (j - m) + 1 <= at - 1
            BY <1>m, <1>9, <3>1, <4>2
          <6> QED  BY <6>1, <6>2
        <5>2. l[k] # "#"
          <6>1. at = 0 => \A n \in 1..Len(l) : l[n] # "#"
            BY <1>8, <1>9, FindIs DEF Lines
          <6>2. at # 0 => \A n \in 1..(at - 1) : l[n] # "#"
            BY <1>8, <1>9, FindIs DEF Lines
          <6>3. at # 0 => k \in 1..(at - 1)
            BY <1>9, <5>1
          <6> QED  BY <1>8, <6>1, <6>2, <6>3
        <5> QED  BY <1>8, <5>1, <5>2
      <4>3. j < m \/ j >= m
        BY <1>m, <3>1
      <4> QED  BY <4>1, <4>2, <4>3
    <3> QED  BY <1>0, <2>2, <3>1, <3>2 DEF Solid
  <2> HIDE DEF last
  <2> QED  BY <2>1, <2>2
<1> HIDE DEF last
<1>13. Trim(SubSeq(line, m, last)) = Words(line, Solid(line))
  <2>1. m \in Nat \ {0}
    BY <1>m
  <2> QED  BY <2>1, <1>11, <1>12, TrimOfPart
<1> QED  BY <1>7, <1>10, <1>13 DEF l

(* A part of that, trimmed: the words at the solid places of that part.    *)
LEMMA TrimOfClean ==
    ASSUME NEW line \in Lines, Solid(line) # {},
           NEW c, c = Words(line, Solid(line)),
           NEW a \in Nat \ {0}, NEW b \in 0..Len(c)
    PROVE  Trim(SubSeq(c, a, b)) =
             Words(line, {i \in Solid(line) : /\ (Min(Solid(line)) + a) - 1 <= i
                                              /\ i <= (Min(Solid(line)) + b) - 1})
<1>1. PICK m, e \in 1..Len(line) :
          /\ m = Min(Solid(line)) /\ e = Max(Solid(line)) /\ m <= e
          /\ Solid(line) = {i \in m..e : line[i] # " "}
  BY SolidSpan
<1>m. Len(line) \in Nat /\ m \in Nat /\ e \in Nat /\ 1 <= m /\ m <= e /\ e <= Len(line)
  <2>1. Len(line) \in Nat /\ m <= e
    BY <1>1, SolidIs
  <2> QED  BY <2>1
<1>2. c \in Seq(STRING) /\ Len(c) = (e - m) + 1 /\ \A i \in 1..Len(c) : c[i] = line[(m + i) - 1]
  <2>1. /\ Words(line, Solid(line)) \in Seq(STRING)
        /\ Len(Words(line, Solid(line))) = (Max(Solid(line)) - Min(Solid(line))) + 1
        /\ \A i \in 1..((Max(Solid(line)) - Min(Solid(line))) + 1) :
              Words(line, Solid(line))[i] = line[(Min(Solid(line)) + i) - 1]
    BY SolidIs, WordsIs DEF Lines
  <2> QED  BY <1>1, <2>1
<1>b. b \in Nat /\ b <= (e - m) + 1 /\ a \in Nat /\ 1 <= a
  BY <1>m, <1>2
<1>3. PICK a2, b2 \in Nat :
          a2 = (m + a) - 1 /\ b2 = (m + b) - 1 /\ a2 >= 1 /\ b2 <= Len(line) /\ b2 <= e /\ m <= a2
  <2>1. (m + a) - 1 \in Nat /\ (m + b) - 1 \in Nat /\ (m + a) - 1 >= 1 /\ (m + b) - 1 <= e
        /\ m <= (m + a) - 1
    BY <1>m, <1>b
  <2> QED  BY <1>m, <2>1
<1>4. SubSeq(c, a, b) = SubSeq(line, a2, b2)
  <2>1. /\ SubSeq(c, a, b) \in Seq(STRING)
        /\ Len(SubSeq(c, a, b)) = IF a <= b THEN (b - a) + 1 ELSE 0
        /\ \A i \in 1..((b - a) + 1) : SubSeq(c, a, b)[i] = c[(a + i) - 1]
    BY <1>2, PartIs
  <2>2. a2 \in Nat \ {0} /\ b2 \in 0..Len(line) /\ (a <= b <=> a2 <= b2) /\ b2 - a2 = b - a
    BY <1>m, <1>b, <1>3
  <2>3. /\ SubSeq(line, a2, b2) \in Seq(STRING)
        /\ Len(SubSeq(line, a2, b2)) = IF a2 <= b2 THEN (b2 - a2) + 1 ELSE 0
        /\ \A i \in 1..((b2 - a2) + 1) : SubSeq(line, a2, b2)[i] = line[(a2 + i) - 1]
    BY <2>2, PartIs DEF Lines
  <2>4. \A i \in 1..((b - a) + 1) : c[(a + i) - 1] = line[(a2 + i) - 1]
    <3> TAKE i \in 1..((b - a) + 1)
    <3>1. (a + i) - 1 \in 1..Len(c) /\ (m + ((a + i) - 1)) - 1 = (a2 + i) - 1
      BY <1>m, <1>b, <1>2, <1>3
    <3> QED  BY <1>2, <3>1
  <2>5. Len(SubSeq(c, a, b)) = Len(SubSeq(line, a2, b2))
    BY <2>1, <2>2, <2>3
  <2>6. \A i \in 1..Len(SubSeq(c, a, b)) : i \in 1..((b - a) + 1)
    BY <1>b, <2>1
  <2>7. \A i \in 1..Len(SubSeq(c, a, b)) : SubSeq(c, a, b)[i] = SubSeq(line, a2, b2)[i]
    BY <2>1, <2>2, <2>3, <2>4, <2>6
  <2> QED  BY <2>1, <2>3, <2>5, <2>7, SameTokens
<1>5. Trim(SubSeq(line, a2, b2)) = Words(line, {i \in a2..b2 : line[i] # " "})
  <2>1. a2 \in Nat \ {0} /\ b2 \in 0..Len(line)
    BY <1>m, <1>3
  <2> QED  BY <2>1, TrimOfPart
<1>6. {i \in a2..b2 : line[i] # " "} = {i \in Solid(line) : a2 <= i /\ i <= b2}
  <2>1. \A i \in a2..b2 : i \in m..e
    BY <1>m, <1>3
  <2>2. \A i \in m..e : a2 <= i /\ i <= b2 <=> i \in a2..b2
    BY <1>m, <1>3
  <2> QED  BY <1>1, <2>1, <2>2
<1> QED  BY <1>1, <1>3, <1>4, <1>5, <1>6

Separators == {"]", "=", "#"}

(* A separator in the solid tokens is one that the line has.               *)
LEMMA SeparatorIs ==
    ASSUME NEW line \in Lines, Solid(line) # {},
           NEW c, c = Words(line, Solid(line)), NEW token \in Separators
    PROVE  /\ c \in Seq(STRING) /\ Len(c) >= 1 /\ c[1] = line[Min(Solid(line))]
           /\ Len(c) = (Max(Solid(line)) - Min(Solid(line))) + 1
           /\ Find(c, token) \in 0..Len(c)
           /\ Find(c, token) = 0 <=> ~ Has(line, token)
           /\ Find(c, token) = 0 => First(line, token) = Len(line) + 1
           /\ Find(c, token) # 0 =>
                First(line, token) = (Min(Solid(line)) + Find(c, token)) - 1
<1>0. Len(line) \in Nat /\ DOMAIN line = 1..Len(line) /\ Solid(line) \in SUBSET 1..Len(line)
  BY SolidIs
<1>1. PICK m, e \in 1..Len(line) :
          /\ m = Min(Solid(line)) /\ e = Max(Solid(line)) /\ m <= e
          /\ Solid(line) = {i \in m..e : line[i] # " "}
  BY SolidSpan
<1>m. Len(line) \in Nat /\ m \in Nat /\ e \in Nat /\ 1 <= m /\ m <= e /\ e <= Len(line)
  <2>1. Len(line) \in Nat /\ m <= e
    BY <1>1, SolidIs
  <2> QED  BY <2>1
<1>2. c \in Seq(STRING) /\ Len(c) = (e - m) + 1 /\ \A i \in 1..Len(c) : c[i] = line[(m + i) - 1]
  <2>1. /\ Words(line, Solid(line)) \in Seq(STRING)
        /\ Len(Words(line, Solid(line))) = (Max(Solid(line)) - Min(Solid(line))) + 1
        /\ \A i \in 1..((Max(Solid(line)) - Min(Solid(line))) + 1) :
              Words(line, Solid(line))[i] = line[(Min(Solid(line)) + i) - 1]
    BY SolidIs, WordsIs DEF Lines
  <2> QED  BY <1>1, <2>1
<1>3. Len(c) >= 1 /\ c[1] = line[m]
  <2>1. Len(c) \in Nat /\ 1 <= Len(c) /\ (m + 1) - 1 = m
    BY <1>m, <1>2
  <2> QED  BY <1>2, <2>1
<1>f. Find(c, token) \in 0..Len(c) /\ Find(c, token) \in Nat /\ Find(c, token) <= Len(c)
  BY <1>2, FindIs
<1>g. PICK at \in Nat : at = Find(c, token)
  BY <1>f
<1>4. /\ at = Find(c, token) /\ at <= Len(c)
      /\ at = 0 <=> \A i \in 1..Len(c) : c[i] # token
      /\ at # 0 => c[at] = token /\ \A i \in 1..(at - 1) : c[i] # token
  <2>1. c \in Seq(STRING)
    BY <1>2
  <2>2. /\ Find(c, token) = 0 <=> \A i \in 1..Len(c) : c[i] # token
        /\ Find(c, token) # 0 =>
             c[Find(c, token)] = token /\ \A i \in 1..(Find(c, token) - 1) : c[i] # token
    BY ONLY <2>1, FindIs
  <2> QED  BY ONLY <1>f, <1>g, <2>2
<1>k. /\ c \in Seq(STRING) /\ Len(c) >= 1 /\ c[1] = line[Min(Solid(line))]
      /\ Len(c) = (Max(Solid(line)) - Min(Solid(line))) + 1
  BY <1>1, <1>2, <1>3
<1> DEFINE P == {i \in Solid(line) : line[i] = token}
<1>5. \A i \in 1..Len(c) : c[i] = token <=> (m + i) - 1 \in P
  <2> TAKE i \in 1..Len(c)
  <2>1. (m + i) - 1 \in m..e
    BY <1>m, <1>2
  <2>2. c[i] = line[(m + i) - 1]
    BY <1>2
  <2> QED  BY <1>1, <2>1, <2>2 DEF Separators
<1>6. \A j \in P : \E i \in 1..Len(c) : j = (m + i) - 1 /\ c[i] = token
  <2>1. ASSUME NEW j \in Solid(line), line[j] = token
        PROVE  \E i \in 1..Len(c) : j = (m + i) - 1 /\ c[i] = token
    <3>1. j \in m..e
      BY <1>1
    <3>2. (j - m) + 1 \in 1..Len(c) /\ j = (m + ((j - m) + 1)) - 1
      BY <1>m, <1>2, <3>1
    <3>3. c[(j - m) + 1] = line[j]
      BY <1>2, <3>2
    <3> QED  BY <2>1, <3>2, <3>3
  <2> QED  BY <2>1
<1>7. Has(line, token) <=> P # {}
  BY DEF Has
<1>8. First(line, token) = Min(P \cup {Len(line) + 1})
  BY DEF First
<1>9. P \in SUBSET 1..Len(line)
  BY <1>0
<1> HIDE DEF P
<1>10. CASE at = 0
  <2>1. P = {}
    BY <1>4, <1>6, <1>10
  <2>2. First(line, token) = Len(line) + 1
    <3>1. {Len(line) + 1} \in SUBSET Nat
      BY <1>m
    <3>2. Min({Len(line) + 1}) = Len(line) + 1
      BY <3>1, LeastOf
    <3>3. P \cup {Len(line) + 1} = {Len(line) + 1}
      BY <2>1
    <3> QED  BY <1>8, <3>2, <3>3
  <2> QED  BY <1>f, <1>g, <1>k, <1>7, <1>10, <2>1, <2>2
<1>11. CASE at # 0
  <2>1. at \in 1..Len(c)
    BY <1>4, <1>11
  <2>2. PICK x \in Nat : x = (m + at) - 1 /\ x \in P
    <3>1. (m + at) - 1 \in Nat
      BY <1>m, <1>4
    <3> QED  BY <1>4, <1>5, <1>11, <2>1, <3>1
  <2>3. \A j \in P \cup {Len(line) + 1} : x <= j
    <3>1. ASSUME NEW j \in P PROVE x <= j
      <4>1. PICK i \in 1..Len(c) : j = (m + i) - 1 /\ c[i] = token
        BY <1>6
      <4>2. i \notin 1..(at - 1)
        BY <1>4, <1>11, <4>1
      <4>3. i \in Nat /\ 1 <= i
        BY <1>2
      <4>4. at <= i
        BY <1>4, <4>2, <4>3
      <4> QED  BY <1>m, <1>4, <2>2, <4>1, <4>3, <4>4
    <3>2. x <= Len(line) + 1
      <4>1. x \in 1..Len(line)
        BY <1>9, <2>2
      <4> QED  BY <1>m, <4>1
    <3> QED  BY <3>1, <3>2
  <2>4. P \cup {Len(line) + 1} \in SUBSET Nat
    <3>1. 1..Len(line) \subseteq Nat /\ Len(line) + 1 \in Nat
      BY <1>m
    <3> QED  BY <1>9, <3>1
  <2>5. First(line, token) = x
    BY <1>8, <2>2, <2>3, <2>4, LeastOf
  <2>6. P # {} /\ First(line, token) = (Min(Solid(line)) + Find(c, token)) - 1
    BY <1>1, <1>g, <2>2, <2>5
  <2> QED  BY <1>f, <1>g, <1>k, <1>7, <1>11, <2>6
<1> QED  BY <1>10, <1>11

Clean(line) == Split(Trim(line), "#").left

(* A header, and the name in it.                                           *)
LEMMA HeaderIs ==
    ASSUME NEW line \in Lines, Solid(line) # {}
    PROVE  /\ Clean(line)[1] = "[" <=> IsHeader(line)
           /\ Find(Clean(line), "]") <= 2 => ~ Has(line, "]") \/ Name(line) = <<>>
           /\ ~ Find(Clean(line), "]") <= 2 =>
                /\ Has(line, "]")
                /\ Trim(SubSeq(Clean(line), 2, Find(Clean(line), "]") - 1)) = Name(line)
<1>1. PICK c : c = Clean(line) /\ c = Words(line, Solid(line))
  BY CleanIs DEF Clean
<1>2. PICK m \in Nat : m = Min(Solid(line))
  <2>1. Min(Solid(line)) \in 1..Len(line)
    BY SolidSpan
  <2>2. 1..Len(line) \subseteq Nat
    OBVIOUS
  <2> QED  BY <2>1, <2>2
<1>3. /\ c \in Seq(STRING) /\ Len(c) >= 1 /\ c[1] = line[m]
      /\ Find(c, "]") \in 0..Len(c)
      /\ Find(c, "]") = 0 <=> ~ Has(line, "]")
      /\ Find(c, "]") # 0 => First(line, "]") = (m + Find(c, "]")) - 1
  BY <1>1, <1>2, SeparatorIs DEF Separators
<1>4. PICK close \in Nat : close = Find(c, "]") /\ close <= Len(c)
  BY <1>3
<1>5. c[1] = "[" <=> IsHeader(line)
  BY <1>2, <1>3 DEF IsHeader
<1>6. Solid(line) \in SUBSET Nat
  <2>1. Solid(line) \in SUBSET 1..Len(line) /\ 1..Len(line) \subseteq Nat
    BY SolidIs
  <2> QED  BY <2>1
<1>7. PICK f : f = First(line, "]")
  OBVIOUS
<1>8. Name(line) = Words(line, {i \in Solid(line) : m < i /\ i < f})
  BY <1>2, <1>7 DEF Name
<1>9. CASE close = 0
  BY <1>1, <1>3, <1>4, <1>5, <1>9
<1>10. CASE close # 0 /\ close <= 2
  <2>1. f = (m + close) - 1
    BY <1>3, <1>4, <1>7, <1>10
  <2>2. {i \in Solid(line) : m < i /\ i < f} = {}
    <3>1. ASSUME NEW i \in Nat PROVE ~ (m < i /\ i < f)
      BY <1>10, <2>1
    <3> QED  BY <1>6, <3>1
  <2>3. Name(line) = <<>>
    BY <1>8, <2>2 DEF Words
  <2> QED  BY <1>1, <1>4, <1>5, <1>10, <2>3
<1>11. CASE ~ close <= 2
  <2>1. f = (m + close) - 1 /\ Has(line, "]")
    BY <1>3, <1>4, <1>7, <1>11
  <2>2. Trim(SubSeq(c, 2, close - 1)) =
          Words(line, {i \in Solid(line) : (m + 2) - 1 <= i /\ i <= (m + (close - 1)) - 1})
    <3>1. 2 \in Nat \ {0} /\ close - 1 \in 0..Len(c)
      BY <1>3, <1>4, <1>11
    <3> QED  BY <1>1, <1>2, <3>1, TrimOfClean
  <2>3. {i \in Solid(line) : (m + 2) - 1 <= i /\ i <= (m + (close - 1)) - 1}
          = {i \in Solid(line) : m < i /\ i < f}
    <3>1. ASSUME NEW i \in Nat
          PROVE  (m + 2) - 1 <= i /\ i <= (m + (close - 1)) - 1 <=> m < i /\ i < f
      BY <2>1
    <3> QED  BY <1>6, <3>1
  <2> QED  BY <1>1, <1>4, <1>5, <1>8, <1>11, <2>1, <2>2, <2>3
<1> QED  BY <1>9, <1>10, <1>11

(* An item, its key and its value.                                         *)
LEMMA ItemIs ==
    ASSUME NEW line \in Lines, Solid(line) # {}
    PROVE  /\ Split(Clean(line), "=").found <=> Has(line, "=")
           /\ Has(line, "=") => /\ Split(Clean(line), "=").left = Key(line)
                                /\ Split(Clean(line), "=").right = Value(line)
<1>1. PICK c : c = Clean(line) /\ c = Words(line, Solid(line))
  BY CleanIs DEF Clean
<1>2. PICK m, e \in Nat : /\ m = Min(Solid(line)) /\ e = Max(Solid(line))
                          /\ \A i \in Solid(line) : i \in m..e
  <2>1. Min(Solid(line)) \in 1..Len(line) /\ Max(Solid(line)) \in 1..Len(line)
    BY SolidSpan
  <2>4. 1..Len(line) \subseteq Nat
    OBVIOUS
  <2>2. Solid(line) = {i \in Min(Solid(line))..Max(Solid(line)) : line[i] # " "}
    BY SolidSpan
  <2>3. \A i \in Solid(line) : i \in Min(Solid(line))..Max(Solid(line))
    BY <2>2
  <2> QED  BY <2>1, <2>3, <2>4
<1>3. /\ c \in Seq(STRING) /\ Len(c) >= 1 /\ Len(c) = (e - m) + 1
      /\ Find(c, "=") \in 0..Len(c)
      /\ Find(c, "=") = 0 <=> ~ Has(line, "=")
      /\ Find(c, "=") # 0 => First(line, "=") = (m + Find(c, "=")) - 1
  BY <1>1, <1>2, SeparatorIs DEF Separators
<1>n. Len(c) \in Nat
  BY <1>3
<1>4. PICK at \in Nat : at = Find(c, "=") /\ at <= Len(c)
  BY <1>3
<1>7. PICK f : f = First(line, "=")
  OBVIOUS
<1>8. /\ Key(line) = Words(line, {i \in Solid(line) : i < f})
      /\ Value(line) = Words(line, {i \in Solid(line) : f < i})
  BY <1>7 DEF Key, Value
<1>9. CASE at = 0
  BY <1>1, <1>3, <1>4, <1>9 DEF Split
<1>10. CASE at # 0
  <2>1. f = (m + at) - 1 /\ Has(line, "=")
    BY <1>3, <1>4, <1>7, <1>10
  <2>2. /\ Split(c, "=").found
        /\ Split(c, "=").left = Trim(SubSeq(c, 1, at - 1))
        /\ Split(c, "=").right = Trim(SubSeq(c, at + 1, Len(c)))
    BY <1>4, <1>10 DEF Split
  <2>3. /\ 1 \in Nat \ {0} /\ at - 1 \in 0..Len(c) /\ at + 1 \in Nat \ {0} /\ Len(c) \in 0..Len(c)
    BY <1>n, <1>4, <1>10
  <2>4. Trim(SubSeq(c, 1, at - 1)) =
          Words(line, {i \in Solid(line) : (m + 1) - 1 <= i /\ i <= (m + (at - 1)) - 1})
    <3>1. PICK a, b : a = 1 /\ b = at - 1 /\ a \in Nat \ {0} /\ b \in 0..Len(c)
      BY <2>3
    <3>2. Trim(SubSeq(c, a, b)) =
            Words(line, {i \in Solid(line) : (m + a) - 1 <= i /\ i <= (m + b) - 1})
      BY <1>1, <1>2, <3>1, TrimOfClean
    <3> QED  BY <3>1, <3>2
  <2>5. Trim(SubSeq(c, at + 1, Len(c))) =
          Words(line, {i \in Solid(line) : (m + (at + 1)) - 1 <= i /\ i <= (m + Len(c)) - 1})
    <3>1. PICK a, b : a = at + 1 /\ b = Len(c) /\ a \in Nat \ {0} /\ b \in 0..Len(c)
      BY <2>3
    <3>2. Trim(SubSeq(c, a, b)) =
            Words(line, {i \in Solid(line) : (m + a) - 1 <= i /\ i <= (m + b) - 1})
      BY <1>1, <1>2, <3>1, TrimOfClean
    <3> QED  BY <3>1, <3>2
  <2>6. {i \in Solid(line) : (m + 1) - 1 <= i /\ i <= (m + (at - 1)) - 1}
          = {i \in Solid(line) : i < f}
    <3>1. ASSUME NEW i \in m..e
          PROVE  (m + 1) - 1 <= i /\ i <= (m + (at - 1)) - 1 <=> i < f
      BY <2>1
    <3> QED  BY <1>2, <3>1
  <2>7. {i \in Solid(line) : (m + (at + 1)) - 1 <= i /\ i <= (m + Len(c)) - 1}
          = {i \in Solid(line) : f < i}
    <3>1. ASSUME NEW i \in m..e
          PROVE  (m + (at + 1)) - 1 <= i /\ i <= (m + Len(c)) - 1 <=> f < i
      BY <1>n, <1>3, <2>1
    <3> QED  BY <1>2, <3>1
  <2> QED  BY <1>1, <1>8, <2>1, <2>2, <2>4, <2>5, <2>6, <2>7
<1> QED  BY <1>9, <1>10

(***************************************************************************)
(* One line, read on top of what is there.                                 *)
(***************************************************************************)
WithItem(document, item) ==
    [document EXCEPT ![Len(document)].items = Append(@, item)]

LEMMA ReadLineIs ==
    ASSUME NEW line \in Lines, NEW got, HasSection(got.doc, <<>>)
    PROVE  ReadLine(got, line) =
             IF ~ got.ok \/ Solid(line) = {} THEN got
             ELSE IF IsHeader(line)
             THEN IF ~ Has(line, "]") \/ Name(line) = <<>> \/ HasSection(got.doc, Name(line))
                  THEN Loaded(got.doc, FALSE)
                  ELSE Loaded(Append(got.doc, NewSection(Name(line))), TRUE)
             ELSE IF ~ Has(line, "=") THEN Loaded(got.doc, FALSE)
                  ELSE Loaded(WithItem(got.doc, <<Key(line), Value(line)>>), TRUE)
<1>1. CASE ~ got.ok \/ Solid(line) = {}
  BY <1>1, BlankIs DEF ReadLine
<1>2. CASE got.ok /\ Solid(line) # {}
  <2>1. ReadLine(got, line) = IF Clean(line)[1] = "[" THEN UpdateSection(got, Clean(line))
                                                       ELSE AddKeyValuePair(got, Clean(line))
    BY <1>2, BlankIs DEF ReadLine, Clean
  <2>2. CASE IsHeader(line)
    <3>1. ReadLine(got, line) = UpdateSection(got, Clean(line))
      BY <1>2, <2>1, <2>2, HeaderIs
    <3>2. CASE Find(Clean(line), "]") <= 2
      BY <1>2, <2>2, <3>1, <3>2, HeaderIs DEF UpdateSection
    <3>3. CASE ~ Find(Clean(line), "]") <= 2
      <4>1. /\ Has(line, "]")
            /\ Trim(SubSeq(Clean(line), 2, Find(Clean(line), "]") - 1)) = Name(line)
        BY <1>2, <3>3, HeaderIs
      <4>2. UpdateSection(got, Clean(line)) =
              IF HasSection(got.doc, Name(line)) THEN Loaded(got.doc, FALSE)
              ELSE Loaded(Append(got.doc, NewSection(Name(line))), TRUE)
        BY <3>3, <4>1 DEF UpdateSection
      <4>3. Name(line) = <<>> => HasSection(got.doc, Name(line))
        OBVIOUS
      <4> QED  BY <1>2, <2>2, <3>1, <4>1, <4>2, <4>3
    <3> QED  BY <3>2, <3>3
  <2>3. CASE ~ IsHeader(line)
    <3>1. ReadLine(got, line) = AddKeyValuePair(got, Clean(line))
      BY <1>2, <2>1, <2>3, HeaderIs
    <3>2. /\ Split(Clean(line), "=").found <=> Has(line, "=")
          /\ Has(line, "=") => /\ Split(Clean(line), "=").left = Key(line)
                               /\ Split(Clean(line), "=").right = Value(line)
      BY <1>2, ItemIs
    <3>3. CASE Has(line, "=")
      <4>1. AddKeyValuePair(got, Clean(line)) =
              Loaded(WithItem(got.doc, <<Key(line), Value(line)>>), TRUE)
        BY <3>2, <3>3 DEF AddKeyValuePair, WithItem
      <4> QED  BY <1>2, <2>3, <3>1, <3>3, <4>1
    <3>4. CASE ~ Has(line, "=")
      <4>1. AddKeyValuePair(got, Clean(line)) = Loaded(got.doc, FALSE)
        BY <3>2, <3>4 DEF AddKeyValuePair
      <4> QED  BY <1>2, <2>3, <3>1, <3>4, <4>1
    <3> QED  BY <3>3, <3>4
  <2> QED  BY <2>2, <2>3
<1> QED  BY <1>1, <1>2

(***************************************************************************)
(* Load: what there is of the document after each line.                    *)
(***************************************************************************)
LEMMA OnceReadIs ==
    ASSUME NEW got, NEW line
    PROVE  Once(ReadLine, got, line) = ReadLine(got, line)
<1>1. {ReadLine(w, line) : w \in {got}} = {ReadLine(got, line)}
  OBVIOUS
<1> QED  BY <1>1 DEF Once

Begun == Loaded(<<NewSection(<<>>)>>, TRUE)

(* The equation that got satisfies in Load, up to line n.                  *)
Reads(got, f, n) ==
    got = [k \in 0..n |-> IF k = 0 THEN Begun ELSE Once(ReadLine, got[k - 1], f[k])]

LEMMA ReadsOneMore ==
    ASSUME NEW f, NEW n \in Nat, NEW got, Reads(got, f, n)
    PROVE  \E more : Reads(more, f, n + 1)
<1> DEFINE next == Once(ReadLine, got[n], f[n + 1])
           more == [k \in 0..(n + 1) |-> IF k = n + 1 THEN next ELSE got[k]]
<1>1. \A k \in 0..n : got[k] = IF k = 0 THEN Begun ELSE Once(ReadLine, got[k - 1], f[k])
  BY DEF Reads
<1> HIDE DEF next
<1>2. more[n + 1] = next /\ \A k \in 0..n : more[k] = got[k]
  OBVIOUS
<1>3. \A k \in 0..(n + 1) :
         more[k] = IF k = 0 THEN Begun ELSE Once(ReadLine, more[k - 1], f[k])
  <2> SUFFICES ASSUME NEW k \in 0..(n + 1)
               PROVE  more[k] = IF k = 0 THEN Begun ELSE Once(ReadLine, more[k - 1], f[k])
    OBVIOUS
  <2> HIDE DEF more
  <2>1. CASE k = 0
    BY <1>1, <1>2, <2>1
  <2>2. CASE k = n + 1
    <3>1. k # 0 /\ k - 1 = n
      BY <2>2
    <3>2. more[k - 1] = got[n]
      BY <1>2, <3>1
    <3> QED  BY <1>2, <2>2, <3>1, <3>2 DEF next
  <2>3. CASE k # 0 /\ k # n + 1
    <3>1. k \in 0..n /\ k - 1 \in 0..n
      BY <2>3
    <3>2. more[k - 1] = got[k - 1] /\ more[k] = got[k]
      BY <1>2, <3>1
    <3> QED  BY <1>1, <2>3, <3>1, <3>2
  <2> QED  BY <2>1, <2>2, <2>3
<1>4. more = [k \in 0..(n + 1) |-> more[k]]
  OBVIOUS
<1> HIDE DEF more
<1>5. Reads(more, f, n + 1)
  BY <1>3, <1>4 DEF Reads
<1> QED  BY <1>5

LEMMA ReadsExists ==
    ASSUME NEW f
    PROVE  \A n \in Nat : \E got : Reads(got, f, n)
<1> DEFINE Bad == {n \in Nat : ~ \E got : Reads(got, f, n)}
<1>1. SUFFICES ASSUME Bad # {} PROVE FALSE
  OBVIOUS
<1>2. Min(Bad) \in Bad /\ Min(Bad) \in Nat /\ \A n \in Bad : Min(Bad) <= n
  BY <1>1, LeastOf
<1>3. PICK n \in Nat : n = Min(Bad)
  BY <1>2
<1>4. n \in Bad
  BY <1>2, <1>3
<1>5. CASE n = 0
  <2>1. Reads([k \in 0..0 |-> Begun], f, 0)
    BY DEF Reads
  <2> QED  BY <1>4, <1>5, <2>1
<1>6. CASE n # 0
  <2>1. n - 1 \in Nat /\ ~ n <= n - 1
    BY <1>6
  <2>2. n - 1 \notin Bad
    <3> HIDE DEF Bad
    <3> QED  BY <1>2, <1>3, <2>1
  <2>3. PICK got : Reads(got, f, n - 1)
    BY <2>1, <2>2
  <2>4. \E more : Reads(more, f, (n - 1) + 1)
    BY <2>1, <2>3, ReadsOneMore
  <2>5. (n - 1) + 1 = n
    BY <2>1
  <2> QED  BY <1>4, <2>4, <2>5
<1> QED  BY <1>5, <1>6

LEMMA LoadReads ==
    ASSUME NEW f \in Seq(Lines), f # NoFile
    PROVE  \E got : /\ got[0] = Begun /\ Load(f) = got[Len(f)]
                    /\ \A n \in 1..Len(f) : got[n] = ReadLine(got[n - 1], f[n])
<1>1. Len(f) \in Nat
  OBVIOUS
<1>2. \E got : Reads(got, f, Len(f))
  BY <1>1, ReadsExists
<1> DEFINE got == CHOOSE g : Reads(g, f, Len(f))
<1>3. Reads(got, f, Len(f))
  BY <1>2
<1>4. Load(f) = got[Len(f)]
  BY DEF Load, Reads, Begun
<1> HIDE DEF got
<1>5. \A n \in 0..Len(f) : got[n] = IF n = 0 THEN Begun ELSE Once(ReadLine, got[n - 1], f[n])
  BY <1>3 DEF Reads
<1>6. got[0] = Begun
  BY <1>1, <1>5
<1>7. ASSUME NEW n \in 1..Len(f) PROVE got[n] = ReadLine(got[n - 1], f[n])
  <2>1. n \in 0..Len(f) /\ n # 0
    BY <1>1
  <2> QED  BY <1>5, <2>1, OnceReadIs
<1> QED  BY <1>4, <1>6, <1>7

(***************************************************************************)
(* Documents: what is found in one.                                        *)
(***************************************************************************)
Section == [name : Lines, items : Seq(Lines \X Lines)]

(* The sections of a document have different names, and there is one       *)
(* without a name.                                                         *)
Document(d) ==
    /\ d \in Seq(Section) /\ HasSection(d, <<>>)
    /\ \A a, b \in 1..Len(d) : d[a].name = d[b].name => a = b

(* The items of section s with key k, and the first of them.               *)
ItemAt(d, s, k, a, c) ==
    /\ a \in 1..Len(d) /\ c \in 1..Len(d[a].items)
    /\ d[a].name = s /\ d[a].items[c][1] = k

FirstItemAt(d, s, k, a, c) ==
    /\ ItemAt(d, s, k, a, c)
    /\ \A x \in 1..(c - 1) : d[a].items[x][1] # k

LEMMA SectionIs ==
    ASSUME NEW d, Document(d), NEW s
    PROVE  /\ \A a \in 1..Len(d) : d[a].name = s => GetSection(d, s) = a
           /\ GetSection(d, s) # 0 => GetSection(d, s) \in 1..Len(d) /\ d[GetSection(d, s)].name = s
<1> DEFINE I == {i \in 1..Len(d) : d[i].name = s}
<1>1. GetSection(d, s) = IF I # {} THEN Min(I) ELSE 0
  BY DEF GetSection, SelectInSeq
<1>2. I \in SUBSET Nat
  OBVIOUS
<1>3. I # {} => Min(I) \in I
  BY <1>2, LeastOf
<1>4. ASSUME NEW a \in 1..Len(d), d[a].name = s PROVE GetSection(d, s) = a
  <2>1. a \in I
    BY <1>4
  <2>2. Min(I) \in 1..Len(d) /\ d[Min(I)].name = s
    BY <1>3, <2>1
  <2> QED  BY <1>1, <1>4, <2>1, <2>2 DEF Document
<1> QED  BY <1>1, <1>3, <1>4

LEMMA ItemIsFound ==
    ASSUME NEW d, Document(d), NEW s, NEW k, NEW a, NEW c, FirstItemAt(d, s, k, a, c)
    PROVE  GetItem(d, s, k) # 0 /\ \A x : GetStringValue(d, s, k, x) = d[a].items[c][2]
<1>1. a \in 1..Len(d) /\ d[a].name = s /\ GetSection(d, s) = a
  BY SectionIs DEF FirstItemAt, ItemAt
<1>2. a # 0 /\ c # 0 /\ c \in Nat
  BY <1>1 DEF FirstItemAt, ItemAt
<1> DEFINE I == {i \in 1..Len(d[a].items) : d[a].items[i][1] = k}
<1>3. GetItem(d, s, k) = IF I # {} THEN Min(I) ELSE 0
  BY <1>1, <1>2 DEF GetItem, SelectInSeq
<1>4. I \in SUBSET Nat
  OBVIOUS
<1>5. c \in I
  BY DEF FirstItemAt, ItemAt
<1>6. ASSUME NEW i \in I PROVE c <= i
  <2>1. i \in Nat /\ i >= 1 /\ i \notin 1..(c - 1)
    BY DEF FirstItemAt
  <2> QED  BY <1>2, <2>1
<1>7. Min(I) = c
  <2> HIDE DEF I
  <2> QED  BY <1>4, <1>5, <1>6, LeastOf
<1>8. GetItem(d, s, k) = c
  BY <1>3, <1>5, <1>7
<1> QED  BY <1>1, <1>2, <1>8 DEF GetStringValue

LEMMA ItemIsMissing ==
    ASSUME NEW d, Document(d), NEW s, NEW k, \A a, c : ~ ItemAt(d, s, k, a, c)
    PROVE  GetItem(d, s, k) = 0
<1>1. CASE GetSection(d, s) = 0
  BY <1>1 DEF GetItem
<1>2. CASE GetSection(d, s) # 0
  <2>1. GetSection(d, s) \in 1..Len(d) /\ d[GetSection(d, s)].name = s
    BY <1>2, SectionIs
  <2>2. {i \in 1..Len(d[GetSection(d, s)].items) : d[GetSection(d, s)].items[i][1] = k} = {}
    BY <2>1 DEF ItemAt
  <2> QED  BY <1>2, <2>2 DEF GetItem, SelectInSeq
<1> QED  BY <1>1, <1>2

(* A new section has no items.                                             *)
LEMMA WithSection ==
    ASSUME NEW d, Document(d), NEW s \in Lines, ~ HasSection(d, s)
    PROVE  LET e == Append(d, NewSection(s))
           IN  /\ Document(e) /\ e[Len(e)].name = s
               /\ \A x : HasSection(e, x) <=> HasSection(d, x) \/ x = s
               /\ \A x, k, a, c : ItemAt(e, x, k, a, c) <=> ItemAt(d, x, k, a, c)
               /\ \A a \in 1..Len(d) : e[a] = d[a]
<1> DEFINE e == Append(d, NewSection(s))
<1>1. NewSection(s) \in Section /\ NewSection(s).name = s /\ NewSection(s).items = <<>>
  BY DEF NewSection, Section, Lines
<1>2. Len(d) \in Nat
  BY DEF Document
<1>3. /\ e \in Seq(Section) /\ Len(e) = Len(d) + 1 /\ DOMAIN e = 1..(Len(d) + 1)
      /\ e[Len(d) + 1] = NewSection(s) /\ \A a \in 1..Len(d) : e[a] = d[a]
  BY <1>1 DEF Document
<1>4. DOMAIN d = 1..Len(d)
  BY DEF Document
<1>5. \A a : a \in 1..(Len(d) + 1) <=> a \in 1..Len(d) \/ a = Len(d) + 1
  BY <1>2
<1> HIDE DEF e
<1>6. \A a \in 1..Len(d) : d[a].name # s
  BY <1>4 DEF HasSection
<1>7. \A x : HasSection(e, x) <=> HasSection(d, x) \/ x = s
  BY <1>1, <1>3, <1>4, <1>5 DEF HasSection
<1>8. \A a, b \in 1..Len(e) : e[a].name = e[b].name => a = b
  BY <1>1, <1>3, <1>5, <1>6 DEF Document
<1>9. ASSUME NEW x, NEW k, NEW a, NEW c
      PROVE  ItemAt(e, x, k, a, c) <=> ItemAt(d, x, k, a, c)
  <2>1. CASE a \in 1..Len(d)
    BY <1>3, <1>5, <2>1 DEF ItemAt
  <2>2. CASE a = Len(d) + 1
    <3>1. Len(e[a].items) = 0
      BY <1>1, <1>3, <2>2
    <3>2. c \notin 1..Len(e[a].items)
      BY <3>1
    <3>3. a \notin 1..Len(d)
      BY <1>2, <2>2
    <3> QED  BY <3>2, <3>3 DEF ItemAt
  <2>3. CASE a \notin 1..(Len(d) + 1)
    BY <1>3, <1>5, <2>3 DEF ItemAt
  <2> QED  BY <1>5, <2>1, <2>2, <2>3
<1>10. Document(e) /\ e[Len(e)].name = s
  BY <1>1, <1>3, <1>7, <1>8 DEF Document
<1> QED  BY <1>3, <1>7, <1>9, <1>10 DEF e

(* A new item is the last of the last section.                             *)
LEMMA WithItemIs ==
    ASSUME NEW d, Document(d), NEW item \in Lines \X Lines, NEW n, n = Len(d),
           NEW e, e = WithItem(d, item)
    PROVE  /\ Document(e) /\ Len(e) = n /\ n \in 1..n
           /\ \A a \in 1..n : e[a].name = d[a].name
           /\ \A x : HasSection(e, x) <=> HasSection(d, x)
           /\ \A x, k, a, c : ItemAt(e, x, k, a, c) <=>
                 \/ ItemAt(d, x, k, a, c)
                 \/ a = n /\ c = Len(d[n].items) + 1 /\ x = d[n].name /\ k = item[1]
           /\ e[n].items[Len(d[n].items) + 1] = item
           /\ \A a \in 1..n : \A c \in 1..Len(d[a].items) : e[a].items[c] = d[a].items[c]
<1> DEFINE more == [d[n] EXCEPT !.items = Append(@, item)]
<1>1. n \in 1..n /\ n \in Nat /\ DOMAIN d = 1..n
  <2>1. n \in Nat /\ DOMAIN d = 1..n
    BY DEF Document
  <2>2. n # 0
    BY <2>1 DEF Document, HasSection
  <2> QED  BY <2>1, <2>2
<1>2. d[n] \in Section
  BY <1>1 DEF Document
<1>3. d[n].items \in Seq(Lines \X Lines) /\ d[n].name \in Lines
  BY <1>2 DEF Section
<1>4. /\ more \in Section /\ more.name = d[n].name
      /\ more.items = Append(d[n].items, item)
  <2>1. Append(d[n].items, item) \in Seq(Lines \X Lines)
    BY <1>3
  <2>2. ASSUME NEW t \in Section, NEW its \in Seq(Lines \X Lines)
        PROVE  /\ [t EXCEPT !.items = its] \in Section
               /\ [t EXCEPT !.items = its].name = t.name /\ [t EXCEPT !.items = its].items = its
    BY DEF Section
  <2> QED  BY <1>2, <2>1, <2>2
<1>5. /\ Len(more.items) = Len(d[n].items) + 1 /\ more.items[Len(d[n].items) + 1] = item
      /\ \A c \in 1..Len(d[n].items) : more.items[c] = d[n].items[c]
      /\ Len(d[n].items) \in Nat
  <2> HIDE DEF more
  <2> QED  BY <1>3, <1>4
<1>6. e = [d EXCEPT ![n] = more]
  BY DEF WithItem
<1> HIDE DEF more
<1>7. /\ e \in Seq(Section) /\ Len(e) = n /\ DOMAIN e = 1..n
      /\ e[n] = more /\ \A a \in 1..n : a # n => e[a] = d[a]
  BY <1>1, <1>4, <1>6 DEF Document
<1>8. \A a \in 1..n : e[a].name = d[a].name
  BY <1>4, <1>7
<1>9. \A x : HasSection(e, x) <=> HasSection(d, x)
  BY <1>1, <1>7, <1>8 DEF HasSection
<1>10. Document(e)
  BY <1>7, <1>8, <1>9 DEF Document
<1>11. \A c : c \in 1..Len(more.items) <=> c \in 1..Len(d[n].items) \/ c = Len(d[n].items) + 1
  <2>1. PICK m \in Nat : m = Len(d[n].items)
    BY <1>5
  <2>2. \A c : c \in 1..(m + 1) <=> c \in 1..m \/ c = m + 1
    OBVIOUS
  <2> QED  BY <1>5, <2>1, <2>2
<1>12. ASSUME NEW x, NEW k, NEW a, NEW c
       PROVE  ItemAt(e, x, k, a, c) <=>
                 \/ ItemAt(d, x, k, a, c)
                 \/ a = n /\ c = Len(d[n].items) + 1 /\ x = d[n].name /\ k = item[1]
  <2>1. CASE a = n
    <3>1. ItemAt(e, x, k, a, c) <=> c \in 1..Len(more.items) /\ d[n].name = x /\ more.items[c][1] = k
      BY <1>1, <1>4, <1>7, <2>1 DEF ItemAt
    <3>2. ItemAt(d, x, k, a, c) <=> c \in 1..Len(d[n].items) /\ d[n].name = x /\ d[n].items[c][1] = k
      BY <1>1, <2>1 DEF ItemAt
    <3>3. Len(d[n].items) + 1 \notin 1..Len(d[n].items)
      BY <1>5
    <3> QED  BY <1>5, <1>11, <2>1, <3>1, <3>2, <3>3
  <2>2. CASE a \in 1..n /\ a # n
    BY <1>7, <2>2 DEF ItemAt
  <2>3. CASE a \notin 1..n
    BY <1>1, <1>7, <2>3 DEF ItemAt
  <2> QED  BY <2>1, <2>2, <2>3
<1>13. ASSUME NEW a \in 1..n, NEW c \in 1..Len(d[a].items)
       PROVE  e[a].items[c] = d[a].items[c]
  BY <1>5, <1>7
<1> QED  BY <1>1, <1>5, <1>7, <1>8, <1>9, <1>10, <1>12, <1>13

(***************************************************************************)
(* What a file says, line by line.                                         *)
(***************************************************************************)

(* No line up to this one is spoilt. *)
Sound(f, n) == \A j \in 1..n : ~ Spoilt(f, j)

(* What the first n lines say of a key. *)
SaysUpTo(f, s, k, n) == Says(f, s, k) \cap 1..n

LEMMA NamesAreLines ==
    ASSUME NEW line \in Lines
    PROVE  Name(line) \in Lines /\ Key(line) \in Lines /\ Value(line) \in Lines
<1>1. Solid(line) \in SUBSET 1..Len(line)
  BY SolidIs
<1>2. ASSUME NEW S \in SUBSET 1..Len(line) PROVE Words(line, S) \in Lines
  <2>1. CASE S = {}
    BY <2>1 DEF Words, Lines
  <2>2. CASE S # {}
    BY <2>2, WordsIs DEF Lines
  <2> QED  BY <2>1, <2>2
<1> QED  BY <1>1, <1>2 DEF Name, Key, Value

LEMMA SoundStep ==
    ASSUME NEW f, NEW n \in Nat \ {0}
    PROVE  /\ Sound(f, n) <=> Sound(f, n - 1) /\ ~ Spoilt(f, n)
           /\ Sound(f, n) => \A j \in 1..n : Sound(f, j)
<1>1. \A j : j \in 1..n <=> j \in 1..(n - 1) \/ j = n
  OBVIOUS
<1>2. \A j \in 1..n : \A x \in 1..j : x \in 1..n
  OBVIOUS
<1> QED  BY <1>1, <1>2 DEF Sound

(* Only a header changes the section that the lines are under.             *)
LEMMA UnderStep ==
    ASSUME NEW f, NEW n \in Nat \ {0}
    PROVE  Under(f, n) = IF IsHeader(f[n]) THEN Name(f[n]) ELSE Under(f, n - 1)
<1> DEFINE H == {j \in 1..n : IsHeader(f[j])}
           H1 == {j \in 1..(n - 1) : IsHeader(f[j])}
<1>1. Under(f, n) = IF H = {} THEN <<>> ELSE Name(f[Max(H)])
  BY DEF Under
<1>2. Under(f, n - 1) = IF H1 = {} THEN <<>> ELSE Name(f[Max(H1)])
  BY DEF Under
<1>3. \A j : j \in 1..n <=> j \in 1..(n - 1) \/ j = n
  OBVIOUS
<1>4. CASE IsHeader(f[n])
  <2>1. n \in H /\ H \in SUBSET 0..n /\ \A j \in H : j <= n
    BY <1>4
  <2>2. Max(H) = n
    <3> HIDE DEF H
    <3> QED  BY <2>1, GreatestOf
  <2> QED  BY <1>1, <1>4, <2>1, <2>2
<1>5. CASE ~ IsHeader(f[n])
  <2>1. H = H1
    BY <1>3, <1>5
  <2> QED  BY <1>1, <1>2, <1>5, <2>1
<1> QED  BY <1>4, <1>5

(* Line n says something of it. *)
SaysIt(f, s, k, n) ==
    /\ ~ IsHeader(f[n]) /\ Has(f[n], "=") /\ Key(f[n]) = k
    /\ Under(f, n) = s /\ Sound(f, n)

LEMMA SaysStep ==
    ASSUME NEW f, NEW s, NEW k, NEW n \in 1..Len(f), DOMAIN f = 1..Len(f), Len(f) \in Nat
    PROVE  /\ SaysIt(f, s, k, n) => SaysUpTo(f, s, k, n) = SaysUpTo(f, s, k, n - 1) \cup {n}
           /\ ~ SaysIt(f, s, k, n) => SaysUpTo(f, s, k, n) = SaysUpTo(f, s, k, n - 1)
<1>1. \A j : j \in 1..n <=> j \in 1..(n - 1) \/ j = n
  OBVIOUS
<1>2. n \in Says(f, s, k) <=> SaysIt(f, s, k, n)
  BY DEF Says, Sound, SaysIt
<1>3. \A j : j \in SaysUpTo(f, s, k, n) <=>
                j \in SaysUpTo(f, s, k, n - 1) \/ (j = n /\ SaysIt(f, s, k, n))
  BY <1>1, <1>2 DEF SaysUpTo
<1> QED  BY <1>3

(***************************************************************************)
(* The document after n lines says what they say.                          *)
(***************************************************************************)
(* A document has of a key what the first n lines say: nothing, or the     *)
(* value of the first line that says something.                            *)
Agrees(d, f, s, k, n) ==
    /\ SaysUpTo(f, s, k, n) = {} => \A a, c : ~ ItemAt(d, s, k, a, c)
    /\ SaysUpTo(f, s, k, n) # {} =>
          \E a, c : /\ FirstItemAt(d, s, k, a, c)
                    /\ d[a].items[c][2] = Value(f[Min(SaysUpTo(f, s, k, n))])

Headed(f, s, n) == \E j \in 1..n : IsHeader(f[j]) /\ Sound(f, j) /\ Name(f[j]) = s

Read(got, f, n) ==
    /\ got = Loaded(got.doc, Sound(f, n))
    /\ Document(got.doc)
    /\ \A s : HasSection(got.doc, s) <=> s = <<>> \/ Headed(f, s, n)
    /\ got.ok => got.doc[Len(got.doc)].name = Under(f, n)
    /\ \A s, k : Agrees(got.doc, f, s, k, n)

LEMMA ReadStart ==
    ASSUME NEW f
    PROVE  Read(Begun, f, 0)
<1> DEFINE d == <<NewSection(<<>>)>>
<1>1. Begun.doc = d /\ Begun.ok = TRUE /\ Begun = Loaded(d, TRUE)
  BY DEF Begun, Loaded
<1>2. NewSection(<<>>) \in Section /\ NewSection(<<>>).name = <<>> /\ NewSection(<<>>).items = <<>>
  BY DEF NewSection, Section, Lines
<1>3. d \in Seq(Section) /\ Len(d) = 1 /\ DOMAIN d = {1} /\ 1..Len(d) = {1} /\ d[1] = NewSection(<<>>)
  BY <1>2
<1> HIDE DEF d
<1>4. \A j : j \notin 1..0
  OBVIOUS
<1>5. Sound(f, 0) /\ Under(f, 0) = <<>> /\ \A s : ~ Headed(f, s, 0)
  BY <1>4 DEF Sound, Under, Headed
<1>6. \A s : HasSection(d, s) <=> s = <<>>
  BY <1>2, <1>3 DEF HasSection
<1>7. Document(d)
  BY <1>3, <1>6 DEF Document
<1>8. \A s, k, a, c : ~ ItemAt(d, s, k, a, c)
  BY <1>2, <1>3, <1>4 DEF ItemAt
<1>9. \A s, k : SaysUpTo(f, s, k, 0) = {}
  BY <1>4 DEF SaysUpTo
<1> QED  BY <1>1, <1>2, <1>3, <1>5, <1>6, <1>7, <1>8, <1>9 DEF Read, Agrees

(* A line that adds no item, to no document or one with another section.   *)
LEMMA SaysNoMore ==
    ASSUME NEW f, NEW n \in 1..Len(f), DOMAIN f = 1..Len(f), Len(f) \in Nat,
           NEW d, NEW e, NEW s, NEW k,
           ~ Sound(f, n) \/ IsHeader(f[n]) \/ ~ Has(f[n], "="),
           \A a, c : ItemAt(e, s, k, a, c) <=> ItemAt(d, s, k, a, c),
           \A a \in 1..Len(d) : e[a] = d[a],
           Agrees(d, f, s, k, n - 1)
    PROVE  Agrees(e, f, s, k, n)
<1>1. SaysUpTo(f, s, k, n) = SaysUpTo(f, s, k, n - 1)
  <2>1. ~ SaysIt(f, s, k, n)
    BY DEF SaysIt
  <2> QED  BY <2>1, SaysStep
<1>2. ASSUME NEW a, NEW c, FirstItemAt(d, s, k, a, c)
      PROVE  FirstItemAt(e, s, k, a, c) /\ e[a] = d[a]
  <2>1. a \in 1..Len(d)
    BY <1>2 DEF FirstItemAt, ItemAt
  <2>2. e[a] = d[a] /\ ItemAt(e, s, k, a, c)
    BY <1>2, <2>1 DEF FirstItemAt
  <2> QED  BY <1>2, <2>2 DEF FirstItemAt
<1>3. CASE SaysUpTo(f, s, k, n) = {}
  BY <1>1, <1>3 DEF Agrees
<1>4. CASE SaysUpTo(f, s, k, n) # {}
  BY <1>1, <1>2, <1>4 DEF Agrees
<1> QED  BY <1>3, <1>4

(* An item is the first of its key, or comes after the one that is.        *)
LEMMA SaysMore ==
    ASSUME NEW f, NEW n \in 1..Len(f), DOMAIN f = 1..Len(f), Len(f) \in Nat,
           NEW d, Document(d), NEW e, NEW item \in Lines \X Lines, NEW s, NEW k,
           Sound(f, n), ~ IsHeader(f[n]), Has(f[n], "="),
           item = <<Key(f[n]), Value(f[n])>>, d[Len(d)].name = Under(f, n),
           e = WithItem(d, item),
           Agrees(d, f, s, k, n - 1)
    PROVE  Agrees(e, f, s, k, n)
<1> DEFINE last == Len(d)
           new == Len(d[last].items) + 1
<1>1. SaysUpTo(f, s, k, n) =
        IF Key(f[n]) = k /\ Under(f, n) = s THEN SaysUpTo(f, s, k, n - 1) \cup {n}
                                            ELSE SaysUpTo(f, s, k, n - 1)
  <2>1. SaysIt(f, s, k, n) <=> Key(f[n]) = k /\ Under(f, n) = s
    BY DEF SaysIt
  <2> QED  BY <2>1, SaysStep
<1>2. /\ last \in 1..last
      /\ \A a, c : ItemAt(e, s, k, a, c) <=>
            \/ ItemAt(d, s, k, a, c)
            \/ a = last /\ c = new /\ s = Under(f, n) /\ k = Key(f[n])
      /\ e[last].items[new] = item
      /\ \A a \in 1..last : \A c \in 1..Len(d[a].items) : e[a].items[c] = d[a].items[c]
  <2>1. /\ last \in 1..last
        /\ \A x, y, a, c : ItemAt(e, x, y, a, c) <=>
              \/ ItemAt(d, x, y, a, c)
              \/ a = last /\ c = new /\ x = d[last].name /\ y = item[1]
        /\ e[last].items[new] = item
        /\ \A a \in 1..last : \A c \in 1..Len(d[a].items) : e[a].items[c] = d[a].items[c]
    <3>1. Document(d) /\ item \in Lines \X Lines /\ e = WithItem(d, item) /\ last = Len(d)
      OBVIOUS
    <3> HIDE DEF last
    <3> QED  BY ONLY <3>1, WithItemIs DEF new
  <2>2. item[1] = Key(f[n]) /\ d[last].name = Under(f, n)
    OBVIOUS
  <2> HIDE DEF last, new
  <2> QED  BY <2>1, <2>2
<1>3. SaysUpTo(f, s, k, n - 1) \in SUBSET (1..(n - 1)) /\ n \in Nat
  BY DEF SaysUpTo
<1> HIDE DEF last, new
<1>4. ASSUME NEW a, NEW c, FirstItemAt(d, s, k, a, c)
      PROVE  FirstItemAt(e, s, k, a, c) /\ e[a].items[c] = d[a].items[c]
  <2>1. a \in 1..last /\ c \in 1..Len(d[a].items) /\ ItemAt(e, s, k, a, c)
    BY <1>2, <1>4 DEF FirstItemAt, ItemAt, last
  <2>2. \A x \in 1..(c - 1) : x \in 1..Len(d[a].items)
    <3>1. Len(d[a].items) \in Nat
      BY <2>1 DEF Document, Section, last
    <3> QED  BY <2>1, <3>1
  <2> QED  BY <1>2, <1>4, <2>1, <2>2 DEF FirstItemAt
<1>5. CASE SaysUpTo(f, s, k, n - 1) # {}
  <2>1. Min(SaysUpTo(f, s, k, n)) = Min(SaysUpTo(f, s, k, n - 1))
    <3> DEFINE L1 == SaysUpTo(f, s, k, n - 1)
               L == SaysUpTo(f, s, k, n)
    <3>1. L1 \in SUBSET Nat /\ L \in SUBSET Nat /\ L1 \subseteq L
      BY <1>1, <1>3
    <3>2. \A j \in L : j \in L1 \/ j = n
      BY <1>1
    <3>3. \A j \in L1 : j <= n
      BY <1>3
    <3>4. L1 # {}
      BY <1>5
    <3> HIDE DEF L1, L
    <3>5. Min(L1) \in L1 /\ \A j \in L1 : Min(L1) <= j
      BY <3>1, <3>4, LeastOf
    <3>6. Min(L1) \in L /\ \A j \in L : Min(L1) <= j
      BY <3>1, <3>2, <3>3, <3>5
    <3>7. Min(L) = Min(L1)
      BY <3>1, <3>6, LeastOf
    <3> QED  BY <3>7 DEF L, L1
  <2>2. SaysUpTo(f, s, k, n) # {}
    BY <1>1, <1>5
  <2> QED  BY <1>4, <1>5, <2>1, <2>2 DEF Agrees
<1>6. CASE SaysUpTo(f, s, k, n - 1) = {} /\ ~ (Key(f[n]) = k /\ Under(f, n) = s)
  <2>1. SaysUpTo(f, s, k, n) = {}
    BY <1>1, <1>6
  <2> QED  BY <1>2, <1>6, <2>1 DEF Agrees
<1>7. CASE SaysUpTo(f, s, k, n - 1) = {} /\ Key(f[n]) = k /\ Under(f, n) = s
  <2>1. SaysUpTo(f, s, k, n) = {n}
    BY <1>1, <1>7
  <2>2. Min({n}) = n
    <3>1. {n} \in SUBSET Nat /\ {n} # {}
      BY <1>3
    <3>2. Min({n}) \in {n}
      BY <3>1, LeastOf
    <3> QED  BY <3>2
  <2>3. ItemAt(e, s, k, last, new)
    BY <1>2, <1>7
  <2>4. \A x \in 1..(new - 1) : e[last].items[x][1] # k
    <3>1. Len(d[last].items) \in Nat
      BY <1>2 DEF Document, Section, last
    <3>2. \A x \in 1..(new - 1) : x \in 1..Len(d[last].items)
      BY <3>1 DEF new
    <3>3. \A x \in 1..Len(d[last].items) : d[last].items[x][1] # k
      <4>1. \A a, c : ~ ItemAt(d, s, k, a, c)
        BY <1>7 DEF Agrees
      <4>2. last \in 1..Len(d) /\ d[last].name = s
        BY <1>2, <1>7 DEF last
      <4> QED  BY ONLY <4>1, <4>2 DEF ItemAt
    <3> QED  BY <1>2, <3>2, <3>3
  <2>5. e[last].items[new][2] = Value(f[n])
    BY <1>2
  <2> QED  BY <2>1, <2>2, <2>3, <2>4, <2>5 DEF FirstItemAt, Agrees
<1> QED  BY <1>5, <1>6, <1>7

LEMMA HeadedStep ==
    ASSUME NEW f, NEW n \in Nat \ {0}, NEW s
    PROVE  Headed(f, s, n) <=>
             \/ Headed(f, s, n - 1)
             \/ IsHeader(f[n]) /\ Sound(f, n) /\ Name(f[n]) = s
<1>1. \A j : j \in 1..n <=> j \in 1..(n - 1) \/ j = n
  OBVIOUS
<1> QED  BY <1>1 DEF Headed

LEMMA HeadedIfSound ==
    ASSUME NEW f, NEW n \in Nat \ {0}, Sound(f, n - 1), NEW s
    PROVE  Headed(f, s, n - 1) <=> \E j \in 1..(n - 1) : IsHeader(f[j]) /\ Name(f[j]) = s
<1>1. \A j \in 1..(n - 1) : \A x \in 1..j : x \in 1..(n - 1)
  OBVIOUS
<1>2. \A j \in 1..(n - 1) : Sound(f, j)
  BY <1>1 DEF Sound
<1> QED  BY <1>2 DEF Headed

(* A line that is passed over, or ends the reading.                        *)
LEMMA NothingRead ==
    ASSUME NEW f \in Seq(Lines), NEW n \in 1..Len(f), NEW got, Read(got, f, n - 1), NEW next,
           next = Loaded(got.doc, Sound(f, n)), ~ Sound(f, n) \/ Solid(f[n]) = {}
    PROVE  Read(next, f, n)
<1>1. DOMAIN f = 1..Len(f) /\ Len(f) \in Nat /\ n \in Nat \ {0}
  OBVIOUS
<1>2. next.doc = got.doc /\ next.ok = Sound(f, n) /\ next = Loaded(next.doc, Sound(f, n))
  BY DEF Loaded
<1>3. Solid(f[n]) = {} => ~ IsHeader(f[n]) /\ ~ Has(f[n], "=")
  BY DEF IsHeader, Has
<1>4. \A s : HasSection(next.doc, s) <=> s = <<>> \/ Headed(f, s, n)
  <2> SUFFICES ASSUME NEW s
               PROVE  HasSection(next.doc, s) <=> s = <<>> \/ Headed(f, s, n)
    OBVIOUS
  <2>1. Headed(f, s, n) <=> Headed(f, s, n - 1)
    BY <1>1, <1>3, HeadedStep
  <2> QED  BY <1>2, <2>1 DEF Read
<1>5. next.ok => next.doc[Len(next.doc)].name = Under(f, n)
  <2> SUFFICES ASSUME Sound(f, n) PROVE next.doc[Len(next.doc)].name = Under(f, n)
    BY <1>2
  <2>1. Sound(f, n - 1) /\ ~ IsHeader(f[n])
    BY <1>1, <1>3, SoundStep
  <2>2. got.ok /\ Under(f, n) = Under(f, n - 1)
    BY <1>1, <2>1, UnderStep DEF Read, Loaded
  <2> QED  BY <1>2, <2>2 DEF Read
<1>6. ASSUME NEW s, NEW k
      PROVE  Agrees(next.doc, f, s, k, n)
  BY <1>1, <1>2, <1>3, SaysNoMore DEF Read
<1> QED  BY <1>2, <1>4, <1>5, <1>6 DEF Read

LEMMA HeaderRead ==
    ASSUME NEW f \in Seq(Lines), NEW n \in 1..Len(f), NEW got, Read(got, f, n - 1), NEW next,
           next = Loaded(Append(got.doc, NewSection(Name(f[n]))), TRUE),
           Sound(f, n), IsHeader(f[n])
    PROVE  Read(next, f, n)
<1>1. DOMAIN f = 1..Len(f) /\ Len(f) \in Nat /\ n \in Nat \ {0}
  OBVIOUS
<1> DEFINE d == got.doc
           e == next.doc
           name == Name(f[n])
<1>2. Sound(f, n - 1) /\ ~ Spoilt(f, n)
  BY <1>1, SoundStep
<1>3. name \in Lines /\ name # <<>>
  BY <1>2, NamesAreLines DEF Spoilt
<1>4. ~ HasSection(d, name)
  <2>1. ~ Headed(f, name, n - 1)
    <3>1. ~ \E j \in 1..(n - 1) : IsHeader(f[j]) /\ Name(f[j]) = name
      BY <1>2 DEF Spoilt, name
    <3>2. n \in Nat \ {0} /\ Sound(f, n - 1)
      BY <1>1, <1>2
    <3> QED  BY ONLY <3>1, <3>2, HeadedIfSound
  <2> QED  BY <1>3, <2>1 DEF Read
<1>5. e = Append(d, NewSection(name)) /\ next.ok = TRUE /\ next = Loaded(e, TRUE)
  BY DEF Loaded
<1>6. Document(d)
  BY DEF Read
<1> HIDE DEF d, e, name
<1>7. /\ Document(e) /\ e[Len(e)].name = name
      /\ \A x : HasSection(e, x) <=> HasSection(d, x) \/ x = name
      /\ \A x, k, a, c : ItemAt(e, x, k, a, c) <=> ItemAt(d, x, k, a, c)
      /\ \A a \in 1..Len(d) : e[a] = d[a]
  BY ONLY <1>3, <1>4, <1>5, <1>6, WithSection
<1>8. \A s : HasSection(e, s) <=> s = <<>> \/ Headed(f, s, n)
  <2> SUFFICES ASSUME NEW s PROVE HasSection(e, s) <=> s = <<>> \/ Headed(f, s, n)
    OBVIOUS
  <2>1. Headed(f, s, n) <=> Headed(f, s, n - 1) \/ s = name
    BY <1>1, HeadedStep DEF name
  <2>2. HasSection(d, s) <=> s = <<>> \/ Headed(f, s, n - 1)
    BY DEF Read, d
  <2> QED  BY <1>7, <2>1, <2>2
<1>9. Under(f, n) = name
  BY <1>1, UnderStep DEF name
<1>10. ASSUME NEW s, NEW k
       PROVE  Agrees(e, f, s, k, n)
  <2>1. Agrees(d, f, s, k, n - 1)
    BY DEF Read, d
  <2>2. IsHeader(f[n])
    OBVIOUS
  <2> QED  BY ONLY <1>1, <1>7, <2>1, <2>2, n \in 1..Len(f), SaysNoMore
<1> QED  BY <1>5, <1>7, <1>8, <1>9, <1>10 DEF Read, e

LEMMA ItemRead ==
    ASSUME NEW f \in Seq(Lines), NEW n \in 1..Len(f), NEW got, Read(got, f, n - 1), NEW next,
           next = Loaded(WithItem(got.doc, <<Key(f[n]), Value(f[n])>>), TRUE),
           Sound(f, n), ~ IsHeader(f[n]), Has(f[n], "=")
    PROVE  Read(next, f, n)
<1>1. DOMAIN f = 1..Len(f) /\ Len(f) \in Nat /\ n \in Nat \ {0}
  OBVIOUS
<1> DEFINE d == got.doc
           e == next.doc
           item == <<Key(f[n]), Value(f[n])>>
<1>2. Sound(f, n - 1) /\ Under(f, n) = Under(f, n - 1)
  BY <1>1, SoundStep, UnderStep
<1>3. item \in Lines \X Lines
  BY NamesAreLines
<1>4. e = WithItem(d, item) /\ next.ok = TRUE /\ next = Loaded(e, TRUE)
  BY DEF Loaded
<1>5. got.ok
  BY <1>2 DEF Read, Loaded
<1>6. Document(d) /\ d[Len(d)].name = Under(f, n)
  BY <1>2, <1>5 DEF Read
<1> HIDE DEF d, e
<1>7. /\ Document(e) /\ Len(e) = Len(d) /\ Len(d) \in 1..Len(d)
      /\ \A a \in 1..Len(d) : e[a].name = d[a].name
      /\ \A x : HasSection(e, x) <=> HasSection(d, x)
  <2>1. PICK m : m = Len(d)
    OBVIOUS
  <2> HIDE DEF item
  <2>2. /\ Document(e) /\ Len(e) = m /\ m \in 1..m
        /\ \A a \in 1..m : e[a].name = d[a].name
        /\ \A x : HasSection(e, x) <=> HasSection(d, x)
    BY ONLY <1>3, <1>4, <1>6, <2>1, WithItemIs
  <2> QED  BY ONLY <2>1, <2>2
<1>8. \A s : HasSection(e, s) <=> s = <<>> \/ Headed(f, s, n)
  <2> SUFFICES ASSUME NEW s PROVE HasSection(e, s) <=> s = <<>> \/ Headed(f, s, n)
    OBVIOUS
  <2>1. Headed(f, s, n) <=> Headed(f, s, n - 1)
    BY <1>1, HeadedStep
  <2>2. HasSection(d, s) <=> s = <<>> \/ Headed(f, s, n - 1)
    BY DEF Read, d
  <2> QED  BY <1>7, <2>1, <2>2
<1>9. e[Len(e)].name = Under(f, n)
  BY <1>6, <1>7
<1>10. ASSUME NEW s, NEW k
       PROVE  Agrees(e, f, s, k, n)
  <2>1. Agrees(d, f, s, k, n - 1)
    BY DEF Read, d
  <2>2. Sound(f, n) /\ ~ IsHeader(f[n]) /\ Has(f[n], "=") /\ n \in 1..Len(f)
    OBVIOUS
  <2>3. item = <<Key(f[n]), Value(f[n])>>
    OBVIOUS
  <2> HIDE DEF item
  <2> QED  BY ONLY <1>1, <1>3, <1>4, <1>6, <2>1, <2>2, <2>3, SaysMore
<1> QED  BY <1>2, <1>4, <1>7, <1>8, <1>9, <1>10 DEF Read, e

LEMMA ReadStep ==
    ASSUME NEW f \in Seq(Lines), NEW n \in 1..Len(f), NEW got, Read(got, f, n - 1)
    PROVE  Read(ReadLine(got, f[n]), f, n)
<1>1. f[n] \in Lines /\ n \in Nat \ {0}
  OBVIOUS
<1>2. /\ got = Loaded(got.doc, Sound(f, n - 1)) /\ got.ok = Sound(f, n - 1)
      /\ HasSection(got.doc, <<>>)
      /\ \A s : HasSection(got.doc, s) <=> s = <<>> \/ Headed(f, s, n - 1)
  BY DEF Read, Loaded, Document
<1> DEFINE line == f[n]
           next == ReadLine(got, line)
<1>3. next = IF ~ got.ok \/ Solid(line) = {} THEN got
             ELSE IF IsHeader(line)
             THEN IF ~ Has(line, "]") \/ Name(line) = <<>> \/ HasSection(got.doc, Name(line))
                  THEN Loaded(got.doc, FALSE)
                  ELSE Loaded(Append(got.doc, NewSection(Name(line))), TRUE)
             ELSE IF ~ Has(line, "=") THEN Loaded(got.doc, FALSE)
                  ELSE Loaded(WithItem(got.doc, <<Key(line), Value(line)>>), TRUE)
  BY <1>1, <1>2, ReadLineIs
<1>4. Sound(f, n) \in BOOLEAN /\ (Sound(f, n) <=> Sound(f, n - 1) /\ ~ Spoilt(f, n))
  BY <1>1, SoundStep DEF Sound
<1>5. Solid(line) = {} => ~ IsHeader(line) /\ ~ Spoilt(f, n)
  BY DEF IsHeader, Spoilt
<1> HIDE DEF next
<1>6. CASE ~ got.ok \/ Solid(line) = {}
  <2>1. next = Loaded(got.doc, Sound(f, n)) /\ (~ Sound(f, n) \/ Solid(line) = {})
    BY <1>2, <1>3, <1>4, <1>5, <1>6 DEF Sound
  <2> QED  BY <2>1, NothingRead DEF next
<1>7. CASE got.ok /\ Solid(line) # {} /\ IsHeader(line)
  <2>1. Spoilt(f, n) <=>
          ~ Has(line, "]") \/ Name(line) = <<>> \/ HasSection(got.doc, Name(line))
    <3>1. Spoilt(f, n) <=>
            \/ ~ Has(line, "]") \/ Name(line) = <<>>
            \/ \E j \in 1..(n - 1) : IsHeader(f[j]) /\ Name(f[j]) = Name(line)
      BY <1>7 DEF Spoilt
    <3>2. Headed(f, Name(line), n - 1) <=>
            \E j \in 1..(n - 1) : IsHeader(f[j]) /\ Name(f[j]) = Name(line)
      <4>1. n \in Nat \ {0} /\ Sound(f, n - 1)
        BY <1>1, <1>2, <1>7
      <4> QED  BY ONLY <4>1, HeadedIfSound
    <3> QED  BY <1>2, <3>1, <3>2
  <2>2. CASE Spoilt(f, n)
    <3>1. next = Loaded(got.doc, FALSE) /\ Sound(f, n) = FALSE
      BY <1>3, <1>4, <1>7, <2>1, <2>2
    <3>2. next = Loaded(got.doc, Sound(f, n))
      BY <3>1
    <3> QED  BY <3>1, <3>2, NothingRead DEF next
  <2>3. CASE ~ Spoilt(f, n)
    <3>1. next = Loaded(Append(got.doc, NewSection(Name(line))), TRUE) /\ Sound(f, n)
      BY <1>2, <1>3, <1>4, <1>7, <2>1, <2>3
    <3> QED  BY <1>7, <3>1, HeaderRead DEF next
  <2> QED  BY <2>2, <2>3
<1>8. CASE got.ok /\ Solid(line) # {} /\ ~ IsHeader(line)
  <2>1. Spoilt(f, n) <=> ~ Has(line, "=")
    BY <1>8 DEF Spoilt
  <2>2. CASE Spoilt(f, n)
    <3>1. next = Loaded(got.doc, FALSE) /\ Sound(f, n) = FALSE
      BY <1>3, <1>4, <1>8, <2>1, <2>2
    <3>2. next = Loaded(got.doc, Sound(f, n))
      BY <3>1
    <3> QED  BY <3>1, <3>2, NothingRead DEF next
  <2>3. CASE ~ Spoilt(f, n)
    <3>1. /\ next = Loaded(WithItem(got.doc, <<Key(line), Value(line)>>), TRUE)
          /\ Sound(f, n) /\ Has(line, "=")
      BY <1>2, <1>3, <1>4, <1>8, <2>1, <2>3
    <3> QED  BY <1>8, <3>1, ItemRead DEF next
  <2> QED  BY <2>2, <2>3
<1> QED  BY <1>6, <1>7, <1>8 DEF next

LEMMA LoadRead ==
    ASSUME NEW f \in Seq(Lines), f # NoFile
    PROVE  Read(Load(f), f, Len(f))
<1>1. PICK got : /\ got[0] = Begun /\ Load(f) = got[Len(f)]
                 /\ \A n \in 1..Len(f) : got[n] = ReadLine(got[n - 1], f[n])
  BY LoadReads
<1>2. Len(f) \in Nat
  OBVIOUS
<1> DEFINE Bad == {n \in 0..Len(f) : ~ Read(got[n], f, n)}
<1>3. SUFFICES ASSUME Bad # {} PROVE FALSE
  BY <1>1, <1>2
<1>4. Bad \in SUBSET Nat
  BY <1>2
<1>5. Min(Bad) \in Bad /\ Min(Bad) \in Nat /\ \A n \in Bad : Min(Bad) <= n
  <2> HIDE DEF Bad
  <2> QED  BY <1>3, <1>4, LeastOf
<1>6. PICK n \in Nat : n = Min(Bad)
  BY <1>5
<1>7. n \in 0..Len(f) /\ ~ Read(got[n], f, n)
  BY <1>5, <1>6
<1>8. CASE n = 0
  BY <1>1, <1>7, <1>8, ReadStart
<1>9. CASE n # 0
  <2>1. n - 1 \in 0..Len(f) /\ n \in 1..Len(f) /\ ~ n <= n - 1
    BY <1>2, <1>7, <1>9
  <2>2. n - 1 \notin Bad
    <3> HIDE DEF Bad
    <3> QED  BY <1>5, <1>6, <2>1
  <2>3. Read(got[n - 1], f, n - 1)
    BY <2>1, <2>2
  <2>4. got[n] = ReadLine(got[n - 1], f[n])
    BY <1>1, <2>1
  <2> QED  BY <1>7, <2>1, <2>3, <2>4, ReadStep
<1> QED  BY <1>8, <1>9

(***************************************************************************)
(* What is read out of a file is what it says.                             *)
(***************************************************************************)
LEMMA FileIs ==
    ASSUME NEW f \in Files
    PROVE  f \in Seq(Lines) /\ DOMAIN f = 1..Len(f) /\ Len(f) \in Nat
BY FilesAssumption DEF Lines

(* No two sections of what is read have the same name, whatever the file.  *)
LEMMA SectionsDiffer ==
    ASSUME NEW f \in Files
    PROVE  LET d == Load(f).doc
           IN  \A i, j \in DOMAIN d : d[i].name = d[j].name => i = j
<1>1. CASE f = NoFile
  BY <1>1 DEF Load, Loaded
<1>2. CASE f # NoFile
  <2>1. Document(Load(f).doc)
    BY <1>2, FileIs, LoadRead DEF Read
  <2>2. PICK d : d = Load(f).doc
    OBVIOUS
  <2>3. DOMAIN d = 1..Len(d)
    BY <2>1, <2>2 DEF Document
  <2> QED  BY <2>1, <2>2, <2>3 DEF Document
<1> QED  BY <1>1, <1>2

(* The item that is found for a key, if any, is what the file says.        *)
LEMMA FoundIsSaid ==
    ASSUME NEW f \in Files, NEW s, NEW k, NEW d, d = Load(f).doc
    PROVE  IF f = NoFile \/ Says(f, s, k) = {} THEN GetItem(d, s, k) = 0
           ELSE /\ GetItem(d, s, k) # 0
                /\ \A x : GetStringValue(d, s, k, x) = Value(f[Min(Says(f, s, k))])
<1>1. CASE f = NoFile
  <2>1. d = <<>>
    BY <1>1 DEF Load, Loaded
  <2>2. {i \in 1..Len(d) : d[i].name = s} = {}
    BY <2>1
  <2>3. GetSection(d, s) = 0
    BY <2>2 DEF GetSection, SelectInSeq
  <2> QED  BY <1>1, <2>3 DEF GetItem
<1>2. CASE f # NoFile
  <2>1. Document(d) /\ Agrees(d, f, s, k, Len(f))
    BY <1>2, FileIs, LoadRead DEF Read
  <2>2. SaysUpTo(f, s, k, Len(f)) = Says(f, s, k)
    BY FileIs DEF SaysUpTo, Says
  <2>3. CASE Says(f, s, k) = {}
    <3>1. \A a, c : ~ ItemAt(d, s, k, a, c)
      BY <2>1, <2>2, <2>3 DEF Agrees
    <3>2. GetItem(d, s, k) = 0
      BY ONLY <2>1, <3>1, ItemIsMissing
    <3> QED  BY <2>3, <3>2
  <2>4. CASE Says(f, s, k) # {}
    <3>1. PICK a, c : /\ FirstItemAt(d, s, k, a, c)
                      /\ d[a].items[c][2] = Value(f[Min(Says(f, s, k))])
      BY <2>1, <2>2, <2>4 DEF Agrees
    <3>2. GetItem(d, s, k) # 0 /\ \A x : GetStringValue(d, s, k, x) = d[a].items[c][2]
      BY ONLY <2>1, <3>1, ItemIsFound
    <3> QED  BY <1>2, <2>4, <3>1, <3>2
  <2> QED  BY <2>3, <2>4
<1> QED  BY <1>1, <1>2

(* A text that is asked for is the one the file says, or its default.      *)
THEOREM TextIsRead ==
    ASSUME NEW f \in Files, NEW asked
    PROVE  GetStringValue(Load(f).doc, <<asked[1]>>, <<asked[2]>>, <<asked[3]>>) = Setting(f, asked)
<1> DEFINE s == <<asked[1]>>
           k == <<asked[2]>>
<1>1. PICK d : d = Load(f).doc
  OBVIOUS
<1>2. Setting(f, asked) = IF f = NoFile \/ Says(f, s, k) = {} THEN <<asked[3]>>
                          ELSE Value(f[Min(Says(f, s, k))])
  BY DEF Setting
<1> HIDE DEF s, k
<1>3. IF f = NoFile \/ Says(f, s, k) = {} THEN GetItem(d, s, k) = 0
      ELSE /\ GetItem(d, s, k) # 0
           /\ \A x : GetStringValue(d, s, k, x) = Value(f[Min(Says(f, s, k))])
  <2>1. f \in Files
    OBVIOUS
  <2> QED  BY ONLY <1>1, <2>1, FoundIsSaid
<1>4. CASE f = NoFile \/ Says(f, s, k) = {}
  BY <1>1, <1>2, <1>3, <1>4 DEF s, k, GetStringValue
<1>5. CASE ~ (f = NoFile \/ Says(f, s, k) = {})
  BY <1>1, <1>2, <1>3, <1>5 DEF s, k
<1> QED  BY <1>4, <1>5

(* And so is a number.                                                     *)
THEOREM NumberIsRead ==
    ASSUME NEW f \in Files, NEW n \in DOMAIN Ints
    PROVE  GetIntValue(Load(f).doc, <<Ints[n][1]>>, <<Ints[n][2]>>, Ints[n][3], Numbers)
             = Number(f, n)
<1>f. f \in Files
  OBVIOUS
<1>0. Ints[n][3] \in Numbers
  BY DefaultsAssumption
<1>1. PICK asked : asked = Ints[n]
  OBVIOUS
<1>2. PICK d, s, k : d = Load(f).doc /\ s = <<asked[1]>> /\ k = <<asked[2]>>
  OBVIOUS
<1>3. Setting(f, asked) = IF f = NoFile \/ Says(f, s, k) = {} THEN <<asked[3]>>
                          ELSE Value(f[Min(Says(f, s, k))])
  BY <1>2 DEF Setting
<1>4. Number(f, n) = Atoi(Setting(f, asked), Numbers) /\ asked[3] \in Numbers
  BY <1>0, <1>1 DEF Number
<1>5. IF f = NoFile \/ Says(f, s, k) = {} THEN GetItem(d, s, k) = 0
      ELSE /\ GetItem(d, s, k) # 0
           /\ \A x : GetStringValue(d, s, k, x) = Value(f[Min(Says(f, s, k))])
  BY ONLY <1>f, <1>2, FoundIsSaid
<1>6. GetIntValue(d, s, k, asked[3], Numbers) = Number(f, n)
  <2>1. CASE f = NoFile \/ Says(f, s, k) = {}
    <3>1. Atoi(<<asked[3]>>, Numbers) = asked[3]
      BY <1>4 DEF Atoi
    <3>2. GetItem(d, s, k) = 0
      BY ONLY <1>5, <2>1
    <3> QED  BY <1>3, <1>4, <2>1, <3>1, <3>2 DEF GetIntValue
  <2>2. CASE ~ (f = NoFile \/ Says(f, s, k) = {})
    BY <1>3, <1>4, <1>5, <2>2 DEF GetIntValue
  <2> QED  BY <2>1, <2>2
<1> QED  BY <1>1, <1>2, <1>6

(***************************************************************************)
(* A text that names a device and a port.                                  *)
(***************************************************************************)
(* Device, Rest and Whole for any separator. *)
UpTo(v, t) == LET at == Find(v, t) IN IF at = 0 THEN v ELSE SubSeq(v, 1, at - 1)
After(v, t) == SubSeq(v, Len(UpTo(v, t)) + 2, Len(v))
Parts(v, t) == Find(v, t) > 0 /\ UpTo(v, t) # <<>> /\ UpTo(After(v, t), t) # <<>>

LEMMA UpToIs ==
    ASSUME NEW T, NEW v \in Seq(T), NEW t
    PROVE  /\ UpTo(v, t) # <<>> <=> Len(v) >= 1 /\ v[1] # t
           /\ Find(v, t) # 0 => Len(UpTo(v, t)) = Find(v, t) - 1
<1>1. PICK at : at = Find(v, t)
  OBVIOUS
<1>2. /\ at \in 0..Len(v) /\ Len(v) \in Nat
      /\ at = 0 <=> \A i \in 1..Len(v) : v[i] # t
      /\ at # 0 => v[at] = t /\ \A i \in 1..(at - 1) : v[i] # t
  BY <1>1, FindIs
<1>n. at \in Nat /\ at <= Len(v)
  BY <1>2
<1>3. CASE at = 0
  <2>1. UpTo(v, t) = v
    BY <1>1, <1>3 DEF UpTo
  <2>2. v # <<>> <=> Len(v) >= 1
    OBVIOUS
  <2>3. Len(v) >= 1 => 1 \in 1..Len(v)
    BY <1>2
  <2> QED  BY <1>1, <1>2, <1>3, <2>1, <2>2, <2>3
<1>4. CASE at # 0
  <2>1. UpTo(v, t) = SubSeq(v, 1, at - 1)
    BY <1>1, <1>4 DEF UpTo
  <2>2. at - 1 \in 0..Len(v) /\ 1 \in Nat \ {0} /\ at >= 1 /\ Len(v) >= 1
    BY <1>n, <1>2, <1>4
  <2>3. UpTo(v, t) \in Seq(T) /\ Len(UpTo(v, t)) = at - 1
    <3>1. /\ SubSeq(v, 1, at - 1) \in Seq(T)
          /\ Len(SubSeq(v, 1, at - 1)) = IF 1 <= at - 1 THEN ((at - 1) - 1) + 1 ELSE 0
      BY <2>2, PartIs
    <3>2. (IF 1 <= at - 1 THEN ((at - 1) - 1) + 1 ELSE 0) = at - 1
      BY <1>n, <2>2
    <3> QED  BY <2>1, <3>1, <3>2
  <2>4. UpTo(v, t) # <<>> <=> at # 1
    <3>1. UpTo(v, t) # <<>> <=> Len(UpTo(v, t)) # 0
      <4>1. \A u \in Seq(T) : u # <<>> <=> Len(u) # 0
        OBVIOUS
      <4> QED  BY <2>3, <4>1
    <3>2. at - 1 # 0 <=> at # 1
      BY <1>n
    <3> QED  BY <2>3, <3>1, <3>2
  <2>5. at # 1 => 1 \in 1..(at - 1)
    BY <1>n, <2>2
  <2> QED  BY <1>1, <1>2, <1>4, <2>2, <2>3, <2>4, <2>5
<1> QED  BY <1>3, <1>4

WholeAt(v, t) ==
    \E c \in 2..(Len(v) - 1) : v[c] = t /\ v[c + 1] # t /\ \A i \in 1..(c - 1) : v[i] # t

LEMMA PartsAre ==
    ASSUME NEW T, NEW v \in Seq(T), NEW t
    PROVE  Parts(v, t) <=> WholeAt(v, t)
<1>1. PICK at : at = Find(v, t)
  OBVIOUS
<1>2. /\ at \in 0..Len(v) /\ Len(v) \in Nat
      /\ at = 0 <=> \A i \in 1..Len(v) : v[i] # t
      /\ at # 0 => v[at] = t /\ \A i \in 1..(at - 1) : v[i] # t
  BY <1>1, FindIs
<1>n. at \in Nat /\ at <= Len(v)
  BY <1>2
<1> DEFINE C(i) == v[i] = t
<1>3. /\ at = 0 <=> \A i \in 1..Len(v) : ~ C(i)
      /\ at # 0 => C(at) /\ \A i \in 1..(at - 1) : ~ C(i)
  BY <1>2
<1>4. WholeAt(v, t) <=>
        \E c \in 2..(Len(v) - 1) : C(c) /\ ~ C(c + 1) /\ \A i \in 1..(c - 1) : ~ C(i)
  BY DEF WholeAt
<1>5. Parts(v, t) <=> at # 0 /\ UpTo(v, t) # <<>> /\ UpTo(After(v, t), t) # <<>>
  BY <1>1, <1>n DEF Parts
<1>6. UpTo(v, t) # <<>> <=> Len(v) >= 1 /\ ~ C(1)
  BY UpToIs
<1>7. CASE at = 0
  <2>1. ~ \E c \in 2..(Len(v) - 1) : C(c)
    <3>1. \A c \in 2..(Len(v) - 1) : c \in 1..Len(v)
      BY <1>2
    <3> HIDE DEF C
    <3> QED  BY <1>3, <1>7, <3>1
  <2> HIDE DEF C
  <2> QED  BY <1>4, <1>5, <1>7, <2>1
<1>8. CASE at # 0
  <2>1. After(v, t) = SubSeq(v, at + 1, Len(v))
    <3>1. Len(UpTo(v, t)) = at - 1
      BY <1>1, <1>8, UpToIs
    <3>2. (at - 1) + 2 = at + 1
      BY <1>n
    <3> QED  BY <3>1, <3>2 DEF After
  <2>2. at + 1 \in Nat \ {0} /\ Len(v) \in 0..Len(v)
    BY <1>n, <1>2
  <2>3. PICK r : r = After(v, t)
    OBVIOUS
  <2>4. /\ r \in Seq(T) /\ Len(r) = IF at + 1 <= Len(v) THEN (Len(v) - (at + 1)) + 1 ELSE 0
        /\ \A i \in 1..((Len(v) - (at + 1)) + 1) : r[i] = v[((at + 1) + i) - 1]
    BY <2>1, <2>2, <2>3, PartIs
  <2>5. UpTo(r, t) # <<>> <=> Len(r) >= 1 /\ r[1] # t
    BY <2>4, UpToIs
  <2>6. Len(r) >= 1 <=> at + 1 <= Len(v)
    BY <1>n, <1>2, <2>4
  <2>7. at + 1 <= Len(v) => r[1] = v[at + 1]
    <3>1. at + 1 <= Len(v) => 1 \in 1..((Len(v) - (at + 1)) + 1)
      BY <1>n, <1>2
    <3>2. ((at + 1) + 1) - 1 = at + 1
      BY <1>n
    <3> QED  BY <2>4, <3>1, <3>2
  <2>8. UpTo(After(v, t), t) # <<>> <=> at + 1 <= Len(v) /\ ~ C(at + 1)
    BY <2>3, <2>5, <2>6, <2>7
  <2> HIDE DEF C
  <2>9. C(1) <=> at = 1
    <3>1. at # 1 => 1 \in 1..(at - 1)
      BY <1>n, <1>8
    <3> QED  BY <1>3, <1>8, <3>1
  <2>10. Parts(v, t) <=> 2 <= at /\ at <= Len(v) - 1 /\ ~ C(at + 1)
    BY <1>n, <1>2, <1>5, <1>6, <1>8, <2>8, <2>9
  <2>11. ASSUME NEW c \in 2..(Len(v) - 1), C(c), \A i \in 1..(c - 1) : ~ C(i) PROVE c = at
    <3>1. c \in Nat
      BY <1>2
    <3>2. c \notin 1..(at - 1)
      BY <1>3, <1>8, <2>11
    <3>3. at \notin 1..(c - 1)
      BY <1>3, <1>8, <2>11
    <3> QED  BY <1>n, <1>8, <2>11, <3>1, <3>2, <3>3
  <2>12. at \in 2..(Len(v) - 1) <=> 2 <= at /\ at <= Len(v) - 1
    BY <1>n, <1>2
  <2> QED  BY <1>3, <1>4, <1>8, <2>10, <2>11, <2>12
<1> QED  BY <1>7, <1>8

LEMMA WholeIs ==
    ASSUME NEW T, NEW v \in Seq(T)
    PROVE  Whole(v) <=> WholeAt(v, ",")
<1>1. \A x : Device(x) = UpTo(x, ",")
  BY DEF Device, UpTo
<1>2. Rest(v) = After(v, ",")
  BY <1>1 DEF Rest, After
<1>3. Whole(v) <=> Parts(v, ",")
  BY <1>1, <1>2 DEF Whole, Parts
<1> QED  BY <1>3, PartsAre

(***************************************************************************)
(* The pins.                                                               *)
(***************************************************************************)

(* A pin that the board lets a Gpio open. *)
Openable(pin) == pin # NoPin /\ fault # <<pin, "export">> /\ fault # <<pin, "direction">>

(* The board when the Gpios of G have been made: those that could be       *)
(* opened have the pin that they are to have.                              *)
Pinned(b, config, G) ==
    /\ b = [exported |-> b.exported, open |-> b.open]
    /\ b.open = [g \in {h \in G : Openable(PinOf(config, h))} |-> PinOf(config, g)]
    /\ b.exported = {PinOf(config, g) : g \in {h \in G : Openable(PinOf(config, h))}}

LEMMA FaultIs ==
    ASSUME fault \in Faults
    PROVE  fault # <<NoPin, "export">> /\ fault # <<NoPin, "direction">>
<1>1. CASE fault = <<>>
  <2>1. \A x, y : <<>> # <<x, y>>
    OBVIOUS
  <2> QED  BY <1>1, <2>1
<1>2. CASE fault # <<>>
  <2>1. fault[1] \in {"in", "out"} \X PinNumbers
    BY <1>2, FaultsAssumption
  <2>2. PICK x, y : fault[1] = <<x, y>>
    BY <2>1
  <2>3. \A u, v : <<>> # <<u, v>>
    OBVIOUS
  <2>4. fault[1] # NoPin
    BY <2>2, <2>3 DEF NoPin
  <2> QED  BY <2>4
<1> QED  BY <1>1, <1>2

LEMMA OpenOne ==
    ASSUME fault \in Faults, NEW b, NEW config, NEW G, Pinned(b, config, G), NEW g
    PROVE  Pinned(SetOpen(b, [name |-> g, pin |-> PinOf(config, g)]), config, G \cup {g})
<1> DEFINE pin == PinOf(config, g)
           next == SetOpen(b, [name |-> g, pin |-> pin])
           R == {h \in G : Openable(PinOf(config, h))}
           R2 == {h \in G \cup {g} : Openable(PinOf(config, h))}
<1>1. next = CASE pin = NoPin \/ (fault = <<pin, "export">> /\ pin \notin b.exported) -> b
               [] fault = <<pin, "direction">> -> SetClose(b, pin)
               [] OTHER -> [exported |-> b.exported \cup {pin},
                            open |-> [h \in DOMAIN b.open \cup {g} |->
                                        IF h = g THEN pin ELSE b.open[h]]]
  BY DEF SetOpen
<1>2. /\ b = [exported |-> b.exported, open |-> b.open]
      /\ b.open = [h \in R |-> PinOf(config, h)]
      /\ b.exported = {PinOf(config, h) : h \in R}
  BY DEF Pinned
<1>3. \A x \in b.exported : Openable(x)
  BY <1>2
<1> HIDE DEF next, pin
<1>4. CASE ~ Openable(pin)
  <2>1. pin \notin b.exported
    BY <1>3, <1>4
  <2>2. SetClose(b, pin) = b
    <3>1. b.exported \ {pin} = b.exported
      BY <2>1
    <3>2. SetClose(b, pin) = [exported |-> b.exported \ {pin}, open |-> b.open]
      <4>1. PICK x, y : b = [exported |-> x, open |-> y]
        BY <1>2
      <4> QED  BY <4>1 DEF SetClose
    <3> QED  BY <1>2, <3>1, <3>2
  <2>3. next = b
    <3>1. CASE pin = NoPin
      BY <1>1, <3>1, FaultIs
    <3>2. CASE pin # NoPin /\ fault = <<pin, "export">>
      BY <1>1, <2>1, <3>2
    <3>3. CASE pin # NoPin /\ fault = <<pin, "direction">>
      <4>1. \A x : <<x, "export">> # <<x, "direction">>
        OBVIOUS
      <4> QED  BY <1>1, <2>2, <3>3, <4>1
    <3> QED  BY <1>4, <3>1, <3>2, <3>3 DEF Openable
  <2>4. R2 = R
    BY <1>4 DEF pin
  <2> QED  BY <1>2, <2>3, <2>4 DEF Pinned, next, pin
<1>5. CASE Openable(pin)
  <2>1. next = [exported |-> b.exported \cup {pin},
                open |-> [h \in DOMAIN b.open \cup {g} |-> IF h = g THEN pin ELSE b.open[h]]]
    BY <1>1, <1>5 DEF Openable
  <2>2. R2 = R \cup {g}
    BY <1>5 DEF pin
  <2>3. next.exported = {PinOf(config, h) : h \in R2}
    BY <1>2, <2>1, <2>2 DEF pin
  <2>4. next.open = [h \in R2 |-> PinOf(config, h)]
    <3>1. next.open = [h \in R \cup {g} |-> IF h = g THEN pin ELSE b.open[h]]
      BY <1>2, <2>1
    <3>2. \A h \in R : b.open[h] = PinOf(config, h)
      BY <1>2
    <3> QED  BY <2>2, <3>1, <3>2 DEF pin
  <2>5. next = [exported |-> next.exported, open |-> next.open]
    BY <2>1
  <2> QED  BY <2>3, <2>4, <2>5 DEF Pinned, next, pin
<1> QED  BY <1>4, <1>5

LEMMA OnceOpenIs ==
    ASSUME NEW b, NEW gpio
    PROVE  Once(SetOpen, b, gpio) = SetOpen(b, gpio)
<1>1. {SetOpen(w, gpio) : w \in {b}} = {SetOpen(b, gpio)}
  OBVIOUS
<1> QED  BY <1>1 DEF Once

(* The equation of after in NewGpios, up to the nth Gpio.                  *)
Opens(after, config, gs, n) ==
    after = [k \in 0..n |->
               IF k = 0 THEN board
               ELSE Once(SetOpen, after[k - 1], [name |-> gs[k], pin |-> PinOf(config, gs[k])])]

LEMMA OpensOneMore ==
    ASSUME NEW config, NEW gs, NEW n \in Nat, NEW after, Opens(after, config, gs, n)
    PROVE  \E more : Opens(more, config, gs, n + 1)
<1> DEFINE One(a, k) == Once(SetOpen, a, [name |-> gs[k], pin |-> PinOf(config, gs[k])])
           next == One(after[n], n + 1)
           more == [k \in 0..(n + 1) |-> IF k = n + 1 THEN next ELSE after[k]]
<1>1. \A k \in 0..n : after[k] = IF k = 0 THEN board ELSE One(after[k - 1], k)
  BY DEF Opens
<1>0. \A m, a : Opens(a, config, gs, m) <=>
                  a = [k \in 0..m |-> IF k = 0 THEN board ELSE One(a[k - 1], k)]
  BY DEF Opens
<1> HIDE DEF next, One
<1>2. more[n + 1] = next /\ \A k \in 0..n : more[k] = after[k]
  OBVIOUS
<1>3. \A k \in 0..(n + 1) : more[k] = IF k = 0 THEN board ELSE One(more[k - 1], k)
  <2> SUFFICES ASSUME NEW k \in 0..(n + 1)
               PROVE  more[k] = IF k = 0 THEN board ELSE One(more[k - 1], k)
    OBVIOUS
  <2> HIDE DEF more
  <2>1. CASE k = 0
    BY <1>1, <1>2, <2>1
  <2>2. CASE k = n + 1
    <3>1. k # 0 /\ k - 1 = n
      BY <2>2
    <3>2. more[k - 1] = after[n]
      BY <1>2, <3>1
    <3> QED  BY <1>2, <2>2, <3>1, <3>2 DEF next
  <2>3. CASE k # 0 /\ k # n + 1
    <3>1. k \in 0..n /\ k - 1 \in 0..n
      BY <2>3
    <3>2. more[k - 1] = after[k - 1] /\ more[k] = after[k]
      BY <1>2, <3>1
    <3> QED  BY <1>1, <2>3, <3>1, <3>2
  <2> QED  BY <2>1, <2>2, <2>3
<1>4. more = [k \in 0..(n + 1) |-> more[k]]
  OBVIOUS
<1> HIDE DEF more
<1>5. Opens(more, config, gs, n + 1)
  BY <1>0, <1>3, <1>4
<1> QED  BY <1>5

LEMMA OpensExists ==
    ASSUME NEW config, NEW gs
    PROVE  \A n \in Nat : \E after : Opens(after, config, gs, n)
<1> DEFINE Bad == {n \in Nat : ~ \E after : Opens(after, config, gs, n)}
<1>1. SUFFICES ASSUME Bad # {} PROVE FALSE
  OBVIOUS
<1>2. Min(Bad) \in Bad /\ Min(Bad) \in Nat /\ \A n \in Bad : Min(Bad) <= n
  BY <1>1, LeastOf
<1>3. PICK n \in Nat : n = Min(Bad)
  BY <1>2
<1>4. n \in Bad
  BY <1>2, <1>3
<1>5. CASE n = 0
  <2>1. Opens([k \in 0..0 |-> board], config, gs, 0)
    BY DEF Opens
  <2> QED  BY <1>4, <1>5, <2>1
<1>6. CASE n # 0
  <2>1. n - 1 \in Nat /\ ~ n <= n - 1
    BY <1>6
  <2>2. n - 1 \notin Bad
    <3> HIDE DEF Bad
    <3> QED  BY <1>2, <1>3, <2>1
  <2>3. PICK after : Opens(after, config, gs, n - 1)
    BY <2>1, <2>2
  <2>4. \E more : Opens(more, config, gs, (n - 1) + 1)
    BY <2>1, <2>3, OpensOneMore
  <2>5. (n - 1) + 1 = n
    BY <2>1
  <2> QED  BY <1>4, <2>4, <2>5
<1> QED  BY <1>5, <1>6

(* Making Gpios one after the other gives each its pin, if that is to be   *)
(* had, whatever others had been made before.                              *)
LEMMA NewGpiosIs ==
    ASSUME fault \in Faults, NEW config, NEW T, NEW gs \in Seq(T), NEW G,
           Pinned(board, config, G)
    PROVE  Pinned(NewGpios(config, gs), config, G \cup {gs[k] : k \in 1..Len(gs)})
<1>1. Len(gs) \in Nat
  OBVIOUS
<1>2. \E after : Opens(after, config, gs, Len(gs))
  BY <1>1, OpensExists
<1> DEFINE after == CHOOSE a : Opens(a, config, gs, Len(gs))
<1>3. Opens(after, config, gs, Len(gs))
  BY <1>2
<1>4. NewGpios(config, gs) = after[Len(gs)]
  BY DEF NewGpios, Opens
<1> HIDE DEF after
<1>5. \A n \in 0..Len(gs) :
         after[n] = IF n = 0 THEN board
                    ELSE SetOpen(after[n - 1], [name |-> gs[n], pin |-> PinOf(config, gs[n])])
  <2>1. \A n \in 0..Len(gs) :
           after[n] = IF n = 0 THEN board
                      ELSE Once(SetOpen, after[n - 1], [name |-> gs[n], pin |-> PinOf(config, gs[n])])
    BY <1>3 DEF Opens
  <2> QED  BY <2>1, OnceOpenIs
<1> DEFINE Made(n) == G \cup {gs[k] : k \in 1..n}
           Bad == {n \in 0..Len(gs) : ~ Pinned(after[n], config, Made(n))}
<1>6. SUFFICES ASSUME Bad # {} PROVE FALSE
  <2>1. SUFFICES Bad = {} => Pinned(NewGpios(config, gs), config, Made(Len(gs)))
    OBVIOUS
  <2>2. Len(gs) \in 0..Len(gs)
    BY <1>1
  <2> HIDE DEF Made
  <2> QED  BY <1>4, <2>2
<1>7. Min(Bad) \in Bad /\ Min(Bad) \in Nat /\ \A n \in Bad : Min(Bad) <= n
  <2>1. Bad \in SUBSET Nat
    BY <1>1
  <2> HIDE DEF Bad
  <2> QED  BY <1>6, <2>1, LeastOf
<1>8. PICK n \in Nat : n = Min(Bad)
  BY <1>7
<1>9. n \in 0..Len(gs) /\ ~ Pinned(after[n], config, Made(n))
  BY <1>7, <1>8
<1>10. CASE n = 0
  <2>1. {gs[k] : k \in 1..0} = {}
    OBVIOUS
  <2>2. Made(0) = G
    BY <2>1
  <2> QED  BY <1>5, <1>9, <1>10, <2>2
<1>11. CASE n # 0
  <2>1. n - 1 \in 0..Len(gs) /\ n \in 1..Len(gs) /\ ~ n <= n - 1
    BY <1>1, <1>9, <1>11
  <2>2. n - 1 \notin Bad
    <3> HIDE DEF Bad
    <3> QED  BY <1>7, <1>8, <2>1
  <2>3. Pinned(after[n - 1], config, Made(n - 1))
    BY <2>1, <2>2
  <2>4. after[n] = SetOpen(after[n - 1], [name |-> gs[n], pin |-> PinOf(config, gs[n])])
    BY <1>5, <2>1
  <2>5. Made(n) = Made(n - 1) \cup {gs[n]}
    <3>1. \A k : k \in 1..n <=> k \in 1..(n - 1) \/ k = n
      BY <2>1
    <3> QED  BY <3>1
  <2> HIDE DEF Made
  <2> QED  BY <1>9, <2>3, <2>4, <2>5, OpenOne
<1> QED  BY <1>10, <1>11

(***************************************************************************)
(* The invariant.                                                          *)
(***************************************************************************)

(* The Config.ini that counts, and what it says of all settings.           *)
Counts == files[GetModuleFileName]

Config(f) ==
    [n \in DOMAIN Ints \cup DOMAIN Texts |->
        IF n \in DOMAIN Ints THEN Number(f, n) ELSE Setting(f, Texts[n])]

(* What has been made by then, in ReadSettings and MakeServers.            *)
FirstMembers == {"VehicleDevice1", "VehicleDevice2", "VehicleDevice3",
                 "Balustrade_up", "Balustrade_down", "TrafficLed"}
FirstGpios == FirstMembers \cup {"ManualSwitch"}
Link == IF settings["communication"] = "0" THEN {"Serial1"} ELSE Servers

Early == {"load", "log", "settings"}
Late == {"threads", "start", "serve", "serial"}
Running == {"open", "link"} \cup Late

KindOK ==
    /\ files["cwd"] \in Files /\ files["home"] \in Files
    /\ called \in {"path", "name", "long"} /\ fault \in Faults
    /\ fresh \in {"null", "wild"} /\ panel \in BOOLEAN
    /\ main \in Places /\ ended \in {"no", "exit", "segv", "terminate"}

SettingsInv ==
    /\ main = "load" => doc = <<>>
    /\ main = "log" => \E f \in Files : doc = Load(f).doc
    /\ main \notin {"load", "log"} => doc = Load(Counts).doc
    /\ main \in {"load", "log"} => settings = <<>>
    /\ main = "settings" => settings = [n \in LogSettings |-> Number(Counts, n)]
    /\ main \notin Early => settings = Config(Counts)

MadeInv ==
    /\ main \in Early => made = {}
    /\ main = "servers" => made = FirstMembers
    /\ main = "lamps" => made = FirstMembers \cup Link
    /\ main \in Running => made = FirstMembers \cup {"Led", "FlashLight"} \cup Link
    /\ main \in {"lamps"} \cup Running => settings["communication"] \in {"0", "2"}
    /\ main = "delete" => made \subseteq Members

WayInv ==
    /\ main \in {"link"} \cup Late => settings["LedMode"] \in LedModes /\ Whole(settings["Uart1"])
    /\ main \in Late => panel
    /\ main = "serve" => settings["communication"] = "2"
    /\ main = "serial" => settings["communication"] # "2"
    /\ main = "delete" => ~ (Configured(Counts) /\ panel)
    /\ threads \in 0..Len(Threads) /\ (main = "threads" => threads # Len(Threads))
    /\ main \notin Late => threads = 0
    /\ ended = "terminate" => main = "open" /\ ~ Whole(settings["Uart1"])
    /\ ended = "exit" => main = "delete"
    /\ ended = "segv" => main = "delete" \/ (main \in Late /\ settings["communication"] # "2")

BoardInv ==
    /\ ended = "no" =>
          /\ main \in Early => board = [exported |-> {}, open |-> <<>>]
          /\ main \in {"servers", "lamps"} => Pinned(board, settings, FirstGpios)
          /\ main \in Running => Pinned(board, settings, DOMAIN Gpios)
          /\ main = "delete" =>
                \/ Pinned(board, settings, FirstGpios) /\ FirstMembers \subseteq made
                \/ Pinned(board, settings, DOMAIN Gpios) /\ FirstMembers \cup {"FlashLight"} \subseteq made
    /\ DOMAIN board.open \subseteq DOMAIN Gpios
    /\ ended = "exit" => board.exported \subseteq PinsOf(Counts, "ManualSwitch")

Inv == KindOK /\ SettingsInv /\ MadeInv /\ WayInv /\ BoardInv

LEMMA CountsIsFile ==
    ASSUME KindOK
    PROVE  Counts \in Files
BY DEF Counts, KindOK, GetModuleFileName

LEMMA CountsStays ==
    ASSUME UNCHANGED <<files, called>>
    PROVE  Counts' = Counts
BY DEF Counts, GetModuleFileName

(* The settings, read from a document of the file that counts.             *)
LEMMA AskIs ==
    ASSUME NEW f \in Files, NEW n \in DOMAIN Ints \cup DOMAIN Texts
    PROVE  Ask(Load(f).doc, n) = IF n \in DOMAIN Ints THEN Number(f, n) ELSE Setting(f, Texts[n])
<1>1. CASE n \in DOMAIN Ints
  BY <1>1, NumberIsRead DEF Ask
<1>2. CASE n \notin DOMAIN Ints
  BY <1>2, TextIsRead DEF Ask
<1> QED  BY <1>1, <1>2

LEMMA MembersAre ==
    Members = {"Tcp1", "Tcp2", "Serial1", "Balustrade_up", "Balustrade_down", "Led", "TrafficLed",
               "FlashLight", "VehicleDevice1", "VehicleDevice2", "VehicleDevice3"}
<1>1. DOMAIN Deleted = {1, 2, 3, 4, 5, 6, 7, 8, 9, 10, 11}
  BY DEF Deleted
<1> QED  BY <1>1 DEF Members, Deleted

LEMMA NamesOfSettings ==
    /\ LogSettings \subseteq DOMAIN Ints
    /\ {"communication", "LedMode"} \subseteq DOMAIN Ints
    /\ "Uart1" \in DOMAIN Texts /\ "Uart1" \notin DOMAIN Ints
    /\ \A g \in DOMAIN Gpios : Gpios[g][2] \in DOMAIN Ints
    /\ DOMAIN Gpios = FirstGpios \cup {"FlashLight"}
<1>1. DOMAIN Ints = LogSettings \cup DOMAIN DeviceInts
  BY DEF Ints
<1> QED  BY <1>1 DEF LogSettings, LogInts, DeviceInts, Texts, Gpios, FirstGpios, FirstMembers

LEMMA ConfigIs ==
    ASSUME NEW f
    PROVE  /\ DOMAIN Config(f) = DOMAIN Ints \cup DOMAIN Texts
           /\ \A n \in DOMAIN Ints : Config(f)[n] = Number(f, n)
           /\ Config(f)["Uart1"] = Setting(f, Texts["Uart1"])
BY NamesOfSettings DEF Config

LEMMA SettingIsWords ==
    ASSUME NEW f \in Files, NEW asked
    PROVE  \E T : Setting(f, asked) \in Seq(T)
<1> DEFINE says == Says(f, <<asked[1]>>, <<asked[2]>>)
<1>1. Setting(f, asked) = IF f = NoFile \/ says = {} THEN <<asked[3]>> ELSE Value(f[Min(says)])
  BY DEF Setting
<1>2. says \in SUBSET Nat /\ says \subseteq 1..Len(f)
  BY FileIs DEF Says
<1> HIDE DEF says
<1>3. CASE f = NoFile \/ says = {}
  <2>1. PICK x : x = asked[3]
    OBVIOUS
  <2>2. <<x>> \in Seq({x})
    OBVIOUS
  <2>3. Setting(f, asked) \in Seq({x})
    BY <1>1, <1>3, <2>1, <2>2
  <2> QED  BY <2>3
<1>4. CASE ~ (f = NoFile \/ says = {})
  <2>1. Min(says) \in 1..Len(f)
    BY <1>2, <1>4, LeastOf
  <2>2. f[Min(says)] \in Lines
    BY <2>1, FileIs
  <2>3. Setting(f, asked) \in Seq(STRING)
    BY <1>1, <1>4, <2>2, NamesAreLines DEF Lines
  <2> QED  BY <2>3
<1> QED  BY <1>3, <1>4

LEMMA ConfiguredIs ==
    ASSUME NEW f \in Files
    PROVE  Configured(f) <=>
             /\ Config(f)["communication"] = "2" /\ Config(f)["LedMode"] \in LedModes
             /\ Whole(Config(f)["Uart1"])
<1>1. PICK v : v = Setting(f, Texts["Uart1"])
  OBVIOUS
<1>2. Whole(v) <=> WholeAt(v, ",")
  <2>1. PICK T : v \in Seq(T)
    BY <1>1, SettingIsWords
  <2> QED  BY <2>1, WholeIs
<1>3. Configured(f) <=> /\ Number(f, "communication") = "2" /\ Number(f, "LedMode") \in LedModes
                        /\ WholeAt(v, ",")
  BY <1>1 DEF Configured, WholeAt
<1>4. /\ Config(f)["communication"] = Number(f, "communication")
      /\ Config(f)["LedMode"] = Number(f, "LedMode")
      /\ Config(f)["Uart1"] = v
  BY <1>1, ConfigIs, NamesOfSettings
<1> QED  BY <1>2, <1>3, <1>4

(* The pins that the file gives, as far as the board has them.             *)
LEMMA PinsOfIs ==
    ASSUME fault \in Faults, NEW f, NEW g \in DOMAIN Gpios
    PROVE  PinsOf(f, g) = IF Openable(PinOf(Config(f), g)) THEN {PinOf(Config(f), g)} ELSE {}
<1>1. PICK x : x = Number(f, Gpios[g][2])
  OBVIOUS
<1>2. PICK mode : mode = Gpios[g][1]
  OBVIOUS
<1>3. Config(f)[Gpios[g][2]] = x
  BY <1>1, ConfigIs, NamesOfSettings
<1>4. PinOf(Config(f), g) = IF x \in PinNumbers THEN <<mode, x>> ELSE NoPin
  BY <1>2, <1>3 DEF PinOf, SetPin
<1>5. PinsOf(f, g) = IF /\ x \in PinNumbers
                        /\ fault \notin {<<<<mode, x>>, "export">>, <<<<mode, x>>, "direction">>}
                     THEN {<<mode, x>>} ELSE {}
  BY <1>1, <1>2 DEF PinsOf
<1>6. <<mode, x>> # NoPin
  BY DEF NoPin
<1> QED  BY <1>4, <1>5, <1>6 DEF Openable

LEMMA PinnedStays ==
    ASSUME UNCHANGED <<fault, board, settings>>, NEW G
    PROVE  Pinned(board, settings, G)' <=> Pinned(board, settings, G)
BY DEF Pinned, Openable

LEMMA SettingsStart == Init => KindOK /\ SettingsInv /\ MadeInv /\ WayInv
<1> SUFFICES ASSUME Init PROVE KindOK /\ SettingsInv /\ MadeInv /\ WayInv
  OBVIOUS
<1>1. KindOK
  BY DEF Init, KindOK, Places
<1>2. Len(Threads) = 5
  BY DEF Threads
<1> QED
  BY <1>1, <1>2 DEF Init, SettingsInv, MadeInv, WayInv, Early, Running, Late

LEMMA KindStep == KindOK /\ [Next]_vars => KindOK'
<1> SUFFICES ASSUME KindOK, [Next]_vars PROVE KindOK'
  OBVIOUS
<1> USE DEF Go, Keep, Places
<1>1. CASE LoadConfig
  BY <1>1 DEF LoadConfig, KindOK
<1>2. CASE StartLog
  BY <1>2 DEF StartLog, KindOK
<1>3. CASE ReadSettings
  BY <1>3 DEF ReadSettings, KindOK
<1>4. CASE MakeServers
  BY <1>4 DEF MakeServers, KindOK
<1>5. CASE NoSuchCommunication
  BY <1>5 DEF NoSuchCommunication, KindOK
<1>6. CASE MakeLamps
  BY <1>6 DEF MakeLamps, KindOK
<1>7. CASE FB_OpenThrows
  BY <1>7 DEF FB_OpenThrows, KindOK
<1>8. CASE FB_Open
  BY <1>8 DEF FB_Open, KindOK
<1>9. CASE DisplayInit
  BY <1>9 DEF DisplayInit, KindOK
<1>10. CASE StartThread
  BY <1>10 DEF StartThread, KindOK
<1>11. CASE OpenServers
  BY <1>11 DEF OpenServers, KindOK
<1>12. CASE UseServer
  BY <1>12 DEF UseServer, Hits, KindOK
<1>13. CASE DeleteMachine
  BY <1>13 DEF DeleteMachine, KindOK
<1>14. CASE DeleteCrashes
  BY <1>14 DEF DeleteCrashes, KindOK
<1>15. CASE UNCHANGED vars
  BY <1>15 DEF vars, KindOK
<1> QED
  BY <1>1, <1>2, <1>3, <1>4, <1>5, <1>6, <1>7, <1>8, <1>9, <1>10, <1>11, <1>12, <1>13, <1>14, <1>15
     DEF Next, Main, Serve

(* What is in doc and settings comes from the file that counts.            *)
LEMMA SettingsStep == KindOK /\ SettingsInv /\ [Next]_vars => SettingsInv'
<1> SUFFICES ASSUME KindOK, SettingsInv, [Next]_vars PROVE SettingsInv'
  OBVIOUS
<1>0. Counts \in Files
  BY CountsIsFile
<1>n. KindOK'
  BY KindStep
<1>1. CASE LoadConfig
  <2>1. doc' = Load(files["cwd"]).doc /\ files["cwd"] \in Files
    BY <1>1 DEF LoadConfig, KindOK
  <2>2. main' = "log" /\ main = "load" /\ settings' = settings
    BY <1>1 DEF LoadConfig, Go
  <2> QED  BY <2>1, <2>2 DEF SettingsInv, Early
<1>2. CASE StartLog
  <2>1. main' = "settings" /\ doc' = Load(Counts).doc /\ Counts' = Counts
    BY <1>2, CountsStays DEF StartLog, Go, Keep, Counts
  <2>2. settings' = [n \in LogSettings |-> Ask(doc', n)]
    BY <1>2 DEF StartLog
  <2>3. \A n \in LogSettings : Ask(doc', n) = Number(Counts, n)
    <3>1. \A n \in LogSettings : Ask(Load(Counts).doc, n) = Number(Counts, n)
      BY <1>0, AskIs, NamesOfSettings
    <3> QED  BY <2>1, <3>1
  <2>4. settings' = [n \in LogSettings |-> Number(Counts, n)]
    BY <2>2, <2>3
  <2> QED  BY <2>1, <2>4 DEF SettingsInv, Early
<1>3. CASE ReadSettings
  <2>1. /\ main = "settings" /\ main' = "servers" /\ doc' = doc /\ Counts' = Counts
        /\ settings' = [n \in DOMAIN Ints \cup DOMAIN Texts |->
                          IF n \in LogSettings THEN settings[n] ELSE Ask(doc, n)]
    BY <1>3, CountsStays DEF ReadSettings, Go, Keep
  <2>2. doc = Load(Counts).doc /\ settings = [n \in LogSettings |-> Number(Counts, n)]
    BY <2>1 DEF SettingsInv
  <2>3. \A n \in LogSettings : settings[n] = Number(Counts, n) /\ n \in DOMAIN Ints
    BY <2>2, NamesOfSettings
  <2>4. \A n \in DOMAIN Ints \cup DOMAIN Texts :
           Ask(doc, n) = IF n \in DOMAIN Ints THEN Number(Counts, n) ELSE Setting(Counts, Texts[n])
    BY <1>0, <2>2, AskIs
  <2>5. settings' = Config(Counts)
    BY <2>1, <2>3, <2>4 DEF Config
  <2> QED  BY <2>1, <2>2, <2>5 DEF SettingsInv, Early
<1>4. ASSUME main \notin Early, main' \notin Early, UNCHANGED <<doc, settings>>, Keep PROVE SettingsInv'
  <2>1. Counts' = Counts
    BY <1>4, CountsStays DEF Keep
  <2> QED  BY <1>4, <2>1 DEF SettingsInv, Early
<1>5. CASE \/ MakeServers \/ NoSuchCommunication \/ MakeLamps \/ FB_OpenThrows \/ FB_Open
           \/ DisplayInit \/ StartThread \/ OpenServers
  <2>1. main \notin Early /\ main' \notin Early /\ UNCHANGED <<doc, settings>> /\ Keep
    BY <1>5 DEF MakeServers, NoSuchCommunication, MakeLamps, FB_OpenThrows, FB_Open, DisplayInit,
                StartThread, OpenServers, Go, Early
  <2> QED  BY <1>4, <2>1
<1>6. ASSUME UNCHANGED <<main, doc, settings>>, Keep PROVE SettingsInv'
  <2>1. Counts' = Counts
    BY <1>6, CountsStays DEF Keep
  <2> QED  BY <1>6, <2>1 DEF SettingsInv, Early
<1>7. CASE UseServer \/ DeleteMachine \/ DeleteCrashes \/ UNCHANGED vars
  <2>1. UNCHANGED <<main, doc, settings>> /\ Keep
    BY <1>7 DEF UseServer, DeleteMachine, DeleteCrashes, vars, Keep
  <2> QED  BY <1>6, <2>1
<1> QED
  BY <1>1, <1>2, <1>3, <1>5, <1>7 DEF Next, Main, Serve

(* Which members have been made, where main is.                            *)
LEMMA MadeStep == MadeInv /\ [Next]_vars => MadeInv'
<1> SUFFICES ASSUME MadeInv, [Next]_vars PROVE MadeInv'
  OBVIOUS
<1> USE DEF MadeInv, Go, Early, Running, Late
<1>1. CASE LoadConfig \/ StartLog
  BY <1>1 DEF LoadConfig, StartLog
<1>3. CASE ReadSettings
  BY <1>3 DEF ReadSettings, FirstMembers
<1>4. CASE MakeServers
  <2>1. "0" # "2" /\ Link' = Link
    BY <1>4 DEF MakeServers, Link
  <2> QED  BY <1>4, <2>1 DEF MakeServers, Link
<1>5. CASE NoSuchCommunication
  BY <1>5, MembersAre DEF NoSuchCommunication, FirstMembers
<1>6. CASE MakeLamps
  BY <1>6 DEF MakeLamps, Link, FirstMembers
<1>7. CASE FB_OpenThrows
  BY <1>7 DEF FB_OpenThrows, Link
<1>8. CASE FB_Open \/ DisplayInit
  <2>1. made \subseteq Members
    BY <1>8, MembersAre DEF FB_Open, DisplayInit, FirstMembers, Link, Servers
  <2> QED  BY <1>8, <2>1 DEF FB_Open, DisplayInit, Link
<1>9. CASE StartThread \/ OpenServers
  BY <1>9 DEF StartThread, OpenServers, Link
<1>10. CASE UseServer \/ DeleteMachine \/ DeleteCrashes \/ UNCHANGED vars
  BY <1>10 DEF UseServer, DeleteMachine, DeleteCrashes, vars, Link
<1> QED
  BY <1>1, <1>3, <1>4, <1>5, <1>6, <1>7, <1>8, <1>9, <1>10 DEF Next, Main, Serve

LEMMA ThreadsAre == Len(Threads) = 5 /\ \A t \in 1..5 : Uses[Threads[t]] \subseteq Servers \cup {"Led"}
BY DEF Threads, Uses, Servers

(* Which way main has gone, and how the process has ended.                 *)
LEMMA WayStep == KindOK /\ SettingsInv /\ MadeInv /\ WayInv /\ [Next]_vars => WayInv'
<1> SUFFICES ASSUME KindOK, SettingsInv, MadeInv, WayInv, [Next]_vars PROVE WayInv'
  OBVIOUS
<1>0. main \notin Early => (Configured(Counts) <=> /\ settings["communication"] = "2"
                                                   /\ settings["LedMode"] \in LedModes
                                                   /\ Whole(settings["Uart1"]))
  BY CountsIsFile, ConfiguredIs DEF SettingsInv
<1>t. threads \in Nat /\ Len(Threads) = 5 /\ threads <= 5
  BY ThreadsAre DEF WayInv
<1>1. CASE LoadConfig \/ StartLog \/ ReadSettings \/ MakeServers \/ MakeLamps
  <2>1. /\ main \notin Late \cup {"link", "delete"} /\ main' \notin Late \cup {"link", "delete"}
        /\ ended = "no" /\ ended' = "no" /\ threads' = threads /\ main' # "threads"
    BY <1>1 DEF LoadConfig, StartLog, ReadSettings, MakeServers, MakeLamps, Go, Late
  <2> QED  BY <2>1 DEF WayInv, Late
<1>2. CASE NoSuchCommunication
  <2>1. /\ main = "servers" /\ main' = "delete" /\ ended = "no" /\ ended' = "no" /\ threads' = threads
        /\ Counts' = Counts /\ settings["communication"] # "2"
    BY <1>2, CountsStays DEF NoSuchCommunication, Go, Keep
  <2> QED  BY <1>0, <2>1 DEF WayInv, Late, Early
<1>3. CASE FB_OpenThrows
  <2>1. /\ main = "open" /\ main' = "open" /\ ended' = "terminate" /\ threads' = threads
        /\ UNCHANGED settings /\ Find(settings["Uart1"], ",") = 0
    BY <1>3 DEF FB_OpenThrows, Go
  <2>2. ~ Whole(settings["Uart1"])
    <3>1. ~ Find(settings["Uart1"], ",") > 0
      <4>1. \A x : x = 0 => ~ x > 0
        OBVIOUS
      <4> QED  BY ONLY <2>1, <4>1
    <3> QED  BY <3>1 DEF Whole
  <2> QED  BY <2>1, <2>2 DEF WayInv, Late
<1>4. CASE FB_Open
  <2>1. /\ main = "open" /\ ended = "no" /\ ended' = "no" /\ threads' = threads
        /\ UNCHANGED settings /\ Counts' = Counts
        /\ main' = IF settings["LedMode"] \in LedModes /\ Whole(settings["Uart1"])
                   THEN "link" ELSE "delete"
    BY <1>4, CountsStays DEF FB_Open, Go, Keep
  <2>2. CASE settings["LedMode"] \in LedModes /\ Whole(settings["Uart1"])
    BY <2>1, <2>2 DEF WayInv, Late
  <2>3. CASE ~ (settings["LedMode"] \in LedModes /\ Whole(settings["Uart1"]))
    <3>1. ~ Configured(Counts)
      BY <1>0, <2>1, <2>3 DEF Early
    <3> QED  BY <2>1, <2>3, <3>1 DEF WayInv, Late
  <2> QED  BY <2>2, <2>3
<1>5. CASE DisplayInit
  <2>1. /\ main = "link" /\ ended = "no" /\ ended' = "no" /\ threads' = threads
        /\ UNCHANGED <<settings, panel>> /\ Counts' = Counts
        /\ main' = IF panel THEN "threads" ELSE "delete"
    BY <1>5, CountsStays DEF DisplayInit, Go, Keep
  <2> QED  BY <1>t, <2>1 DEF WayInv, Late
<1>6. CASE StartThread
  <2>1. /\ main = "threads" /\ ended = "no" /\ ended' = "no" /\ threads' = threads + 1
        /\ UNCHANGED <<settings, panel>>
        /\ main' = IF threads + 1 = Len(Threads) THEN "start" ELSE "threads"
    BY <1>6 DEF StartThread, Go, Keep
  <2>2. threads # 5 /\ threads + 1 \in 0..5
    BY <1>t, <2>1 DEF WayInv
  <2> QED  BY <1>t, <2>1, <2>2 DEF WayInv, Late
<1>7. CASE OpenServers
  <2>1. /\ main = "start" /\ ended = "no" /\ ended' = "no" /\ threads' = threads
        /\ UNCHANGED <<settings, panel>>
        /\ main' = IF settings["communication"] = "2" THEN "serve" ELSE "serial"
    BY <1>7 DEF OpenServers, Go, Keep
  <2> QED  BY <2>1 DEF WayInv, Late
<1>8. CASE UseServer
  <2>1. /\ ended = "no" /\ ended' \in {"no", "segv"} /\ UNCHANGED <<main, threads, settings, panel>>
        /\ Counts' = Counts
    BY <1>8, CountsStays DEF UseServer, Hits, Keep
  <2>2. main \in Late /\ settings["communication"] # "2"
    <3>1. CASE main = "serial"
      BY <3>1 DEF WayInv, Late
    <3>2. ASSUME NEW t \in 1..threads, ~ Uses[Threads[t]] \subseteq made
          PROVE  main \in Late /\ settings["communication"] # "2"
      <4>1. t \in 1..5 /\ threads # 0
        BY <1>t
      <4>2. main \in Late
        BY <4>1 DEF WayInv
      <4>3. settings["communication"] = "2" => Servers \cup {"Led"} \subseteq made
        <5>1. "2" # "0"
          OBVIOUS
        <5> QED  BY <4>2, <5>1 DEF MadeInv, Running, Link
      <4> QED  BY <3>2, <4>1, <4>2, <4>3, ThreadsAre
    <3> QED  BY <1>8, <3>1, <3>2 DEF UseServer
  <2> QED  BY <2>1, <2>2 DEF WayInv, Late
<1>9. CASE DeleteMachine \/ DeleteCrashes
  <2>1. /\ main = "delete" /\ ended' \in {"exit", "segv"} /\ UNCHANGED <<main, threads, settings, panel>>
        /\ Counts' = Counts
    BY <1>9, CountsStays DEF DeleteMachine, DeleteCrashes, Keep
  <2> QED  BY <2>1 DEF WayInv, Late
<1>10. CASE UNCHANGED vars
  <2>1. UNCHANGED <<main, threads, settings, panel, ended>> /\ Counts' = Counts
    BY <1>10, CountsStays DEF vars
  <2> QED  BY <2>1 DEF WayInv
<1> QED
  BY <1>1, <1>2, <1>3, <1>4, <1>5, <1>6, <1>7, <1>8, <1>9, <1>10 DEF Next, Main, Serve

LEMMA PinnedDomain ==
    ASSUME NEW b, NEW config, NEW G \in SUBSET DOMAIN Gpios, Pinned(b, config, G)
    PROVE  DOMAIN b.open \subseteq DOMAIN Gpios
BY DEF Pinned

LEMMA GpiosOfSettings ==
    /\ FirstGpios \subseteq DOMAIN Gpios
    /\ \A g \in DOMAIN Gpios : g # "ManualSwitch" => g \in FirstMembers \cup {"FlashLight"}
    /\ FirstMembers \cup {"FlashLight"} \subseteq DOMAIN Gpios
    /\ "ManualSwitch" \in DOMAIN Gpios
BY DEF Gpios, FirstGpios, FirstMembers

(* The board has the pins of the Gpios that have been made; nothing but    *)
(* the mode switch's is left when the program leaves.                      *)
LEMMA BoardStart == Init => BoardInv
<1> SUFFICES ASSUME Init PROVE BoardInv
  OBVIOUS
<1>1. board = [exported |-> {}, open |-> <<>>] /\ main = "load" /\ ended = "no"
  BY DEF Init
<1>2. DOMAIN board.open = {}
  BY <1>1
<1> QED  BY <1>1, <1>2 DEF BoardInv, Running, Late, Early

LEMMA ReadSettingsPins ==
    ASSUME KindOK, BoardInv, ReadSettings
    PROVE  Pinned(board', settings', FirstGpios)
<1> DEFINE gs == <<"VehicleDevice1", "VehicleDevice2", "VehicleDevice3", "ManualSwitch",
                   "Balustrade_up", "Balustrade_down", "TrafficLed">>
<1>1. board' = NewGpios(settings', gs)
  BY DEF ReadSettings
<1>2. board = [exported |-> {}, open |-> <<>>]
  BY DEF ReadSettings, Go, BoardInv, Early
<1>3. Pinned(board, settings', {})
  <2>1. board.exported = {} /\ board.open = <<>>
    BY <1>2
  <2>2. \A c : <<>> = [g \in {} |-> PinOf(c, g)]
    OBVIOUS
  <2>3. {h \in {} : Openable(PinOf(settings', h))} = {}
    OBVIOUS
  <2>4. {PinOf(settings', g) : g \in {}} = {}
    OBVIOUS
  <2> QED  BY <1>2, <2>1, <2>2, <2>3, <2>4 DEF Pinned
<1>4. gs \in Seq(FirstGpios) /\ Len(gs) = 7
  BY DEF FirstGpios, FirstMembers
<1>5. {} \cup {gs[k] : k \in 1..Len(gs)} = FirstGpios
  <2>1. 1..7 = {1, 2, 3, 4, 5, 6, 7}
    OBVIOUS
  <2>2. {gs[k] : k \in {1, 2, 3, 4, 5, 6, 7}} = FirstGpios
    BY DEF FirstGpios, FirstMembers
  <2> QED  BY <1>4, <2>1, <2>2
<1> HIDE DEF gs
<1>6. fault \in Faults
  BY DEF KindOK
<1> QED  BY ONLY <1>1, <1>3, <1>4, <1>5, <1>6, NewGpiosIs

LEMMA MakeLampsPins ==
    ASSUME KindOK, BoardInv, MakeLamps
    PROVE  Pinned(board', settings', DOMAIN Gpios)
<1> DEFINE gs == <<"TrafficLed", "FlashLight">>
<1>1. board' = NewGpios(settings', gs) /\ settings' = settings
  BY DEF MakeLamps
<1>2. Pinned(board, settings', FirstGpios)
  BY <1>1 DEF MakeLamps, Go, BoardInv
<1>4. gs \in Seq({"TrafficLed", "FlashLight"}) /\ Len(gs) = 2
  OBVIOUS
<1>5. FirstGpios \cup {gs[k] : k \in 1..Len(gs)} = DOMAIN Gpios
  <2>1. 1..2 = {1, 2}
    OBVIOUS
  <2>2. {gs[k] : k \in {1, 2}} = {"TrafficLed", "FlashLight"}
    OBVIOUS
  <2>3. "TrafficLed" \in FirstGpios
    BY DEF FirstGpios, FirstMembers
  <2> QED  BY <1>4, <2>1, <2>2, <2>3, NamesOfSettings
<1> HIDE DEF gs
<1>6. fault \in Faults
  BY DEF KindOK
<1> QED  BY ONLY <1>1, <1>2, <1>4, <1>5, <1>6, NewGpiosIs

LEMMA DeleteLeaves ==
    ASSUME KindOK, SettingsInv, MadeInv, BoardInv, DeleteMachine
    PROVE  /\ DOMAIN board'.open \subseteq DOMAIN Gpios
           /\ board'.exported \subseteq PinsOf(Counts, "ManualSwitch")
<1> DEFINE gs == DOMAIN Gpios \cap made
<1>1. board' = [exported |-> board.exported \ {PinOf(settings, g) : g \in gs},
                open     |-> [g \in DOMAIN board.open \ gs |-> board.open[g]]]
  BY DEF DeleteMachine, ExitGpios
<1>2. PICK G \in SUBSET DOMAIN Gpios :
         Pinned(board, settings, G) /\ G \ {"ManualSwitch"} \subseteq gs
  <2>1. main = "delete" /\ ended = "no"
    BY DEF DeleteMachine
  <2>2. CASE Pinned(board, settings, FirstGpios) /\ FirstMembers \subseteq made
    <3>1. FirstGpios \ {"ManualSwitch"} \subseteq gs
      BY <2>2, GpiosOfSettings DEF FirstGpios
    <3> QED  BY <2>2, <3>1, GpiosOfSettings
  <2>3. CASE /\ Pinned(board, settings, DOMAIN Gpios)
             /\ FirstMembers \cup {"FlashLight"} \subseteq made
    <3>1. DOMAIN Gpios \ {"ManualSwitch"} \subseteq gs
      BY <2>3, GpiosOfSettings
    <3> QED  BY <2>3, <3>1
  <2> QED  BY <2>1, <2>2, <2>3 DEF BoardInv
<1>3. settings = Config(Counts) /\ fault \in Faults
  BY DEF DeleteMachine, SettingsInv, KindOK, Early
<1>4. ASSUME NEW x \in board'.exported PROVE x \in PinsOf(Counts, "ManualSwitch")
  <2>1. x \in board.exported /\ \A g \in gs : x # PinOf(settings, g)
    BY <1>1, <1>4
  <2>2. PICK g \in G : Openable(PinOf(settings, g)) /\ x = PinOf(settings, g)
    BY <1>2, <2>1 DEF Pinned
  <2>3. g = "ManualSwitch"
    BY <1>2, <2>1, <2>2
  <2> QED  BY <1>3, <2>2, <2>3, PinsOfIs, GpiosOfSettings
<1>5. DOMAIN board'.open \subseteq DOMAIN Gpios
  BY <1>1 DEF BoardInv
<1> QED  BY <1>4, <1>5

LEMMA BoardStep ==
    KindOK /\ SettingsInv /\ MadeInv /\ WayInv /\ BoardInv /\ [Next]_vars => BoardInv'
<1> SUFFICES ASSUME KindOK, SettingsInv, MadeInv, WayInv, BoardInv, [Next]_vars PROVE BoardInv'
  OBVIOUS
<1>1. CASE LoadConfig \/ StartLog
  <2>1. /\ main \in Early /\ main' \in Early /\ ended = "no" /\ ended' = "no" /\ board' = board
    BY <1>1 DEF LoadConfig, StartLog, Go, Early
  <2> QED  BY <2>1 DEF BoardInv, Early, Running, Late
<1>2. CASE ReadSettings
  <2>1. main' = "servers" /\ ended' = "no" /\ fault' = fault
    BY <1>2 DEF ReadSettings, Go, Keep
  <2>2. Pinned(board', settings', FirstGpios)
    BY <1>2, ReadSettingsPins
  <2>3. DOMAIN board'.open \subseteq DOMAIN Gpios
    BY <2>2, PinnedDomain, GpiosOfSettings
  <2>4. Pinned(board, settings, FirstGpios)'
    BY <2>1, <2>2 DEF Pinned, Openable
  <2> QED  BY <2>1, <2>3, <2>4 DEF BoardInv, Early, Running, Late
<1>3. CASE MakeLamps
  <2>1. main' = "open" /\ ended' = "no" /\ fault' = fault
    BY <1>3 DEF MakeLamps, Go, Keep
  <2>2. Pinned(board', settings', DOMAIN Gpios)
    BY <1>3, MakeLampsPins
  <2>3. DOMAIN board'.open \subseteq DOMAIN Gpios
    BY <2>2, PinnedDomain
  <2>4. Pinned(board, settings, DOMAIN Gpios)'
    BY <2>1, <2>2 DEF Pinned, Openable
  <2> QED  BY <2>1, <2>3, <2>4 DEF BoardInv, Early, Running, Late
<1>4. ASSUME UNCHANGED <<board, settings, fault, made>>, ended = "no", ended' # "exit",
             main \notin Early, main' \notin Early,
             main' \in {"servers", "lamps"} => main \in {"servers", "lamps"},
             main' \in Running => main \in Running,
             main' = "delete" => main \in {"servers", "delete"} \cup Running
      PROVE  BoardInv'
  <2>1. /\ Pinned(board, settings, FirstGpios)' <=> Pinned(board, settings, FirstGpios)
        /\ Pinned(board, settings, DOMAIN Gpios)' <=> Pinned(board, settings, DOMAIN Gpios)
    BY <1>4, PinnedStays
  <2>2. main = "servers" => FirstMembers \subseteq made
    BY DEF MadeInv
  <2>3. main \in Running => FirstMembers \cup {"FlashLight"} \subseteq made
    BY DEF MadeInv
  <2> QED  BY <1>4, <2>1, <2>2, <2>3 DEF BoardInv
<1>5. CASE \/ MakeServers \/ NoSuchCommunication \/ FB_OpenThrows \/ FB_Open \/ DisplayInit
           \/ StartThread \/ OpenServers
  <2>1. /\ UNCHANGED <<board, settings, fault>> /\ ended = "no" /\ ended' # "exit"
        /\ main \notin Early /\ main' \notin Early
        /\ main' \in {"servers", "lamps"} => main \in {"servers", "lamps"}
        /\ main' \in Running => main \in Running
        /\ main' = "delete" => main \in {"servers", "delete"} \cup Running
    BY <1>5 DEF MakeServers, NoSuchCommunication, FB_OpenThrows, FB_Open, DisplayInit, StartThread,
                OpenServers, Go, Keep, Early, Running, Late
  <2>2. CASE MakeServers
    <3>1. main = "servers" /\ main' = "lamps"
      BY <2>2 DEF MakeServers, Go
    <3>2. Pinned(board, settings, FirstGpios)' <=> Pinned(board, settings, FirstGpios)
      BY <2>1, PinnedStays
    <3> QED  BY <2>1, <3>1, <3>2 DEF BoardInv, Early, Running, Late
  <2>3. CASE ~ MakeServers
    <3>1. UNCHANGED made
      BY <1>5, <2>3 DEF NoSuchCommunication, FB_OpenThrows, FB_Open, DisplayInit, StartThread,
                        OpenServers
    <3> QED  BY <1>4, <2>1, <3>1
  <2> QED  BY <2>2, <2>3
<1>6. CASE UseServer
  <2>1. UNCHANGED <<board, settings, fault, made, main>> /\ ended = "no" /\ ended' # "exit"
    BY <1>6 DEF UseServer, Hits, Keep
  <2>2. main \in Late
    <3>1. ASSUME NEW t \in 1..threads PROVE main \in Late
      <4>1. threads # 0
        BY ThreadsAre DEF WayInv
      <4> QED  BY <4>1 DEF WayInv
    <3>2. CASE main = "serial"
      BY <3>2 DEF Late
    <3> QED  BY <1>6, <3>1, <3>2 DEF UseServer
  <2>3. main \notin Early
    BY <2>2 DEF Late, Early
  <2> QED  BY <1>4, <2>1, <2>3
<1>7. CASE DeleteMachine
  <2>1. UNCHANGED <<main, fault, files, called>> /\ main = "delete" /\ ended' = "exit"
    BY <1>7 DEF DeleteMachine, Keep
  <2>2. Counts' = Counts
    BY <2>1, CountsStays
  <2>3. PinsOf(Counts, "ManualSwitch")' = PinsOf(Counts, "ManualSwitch")
    BY <2>1, <2>2 DEF PinsOf
  <2>4. /\ DOMAIN board'.open \subseteq DOMAIN Gpios
        /\ board'.exported \subseteq PinsOf(Counts, "ManualSwitch")
    BY <1>7, DeleteLeaves
  <2> QED  BY <2>1, <2>3, <2>4 DEF BoardInv
<1>8. CASE DeleteCrashes
  <2>1. PICK gs : board' = ExitGpios(gs)
    BY <1>8 DEF DeleteCrashes
  <2>2. DOMAIN board'.open \subseteq DOMAIN Gpios
    BY <2>1 DEF ExitGpios, BoardInv
  <2> QED  BY <1>8, <2>2 DEF DeleteCrashes, BoardInv
<1>9. CASE UNCHANGED vars
  <2>1. UNCHANGED <<main, fault, files, called, board, settings, made, ended>>
    BY <1>9 DEF vars
  <2>2. Counts' = Counts
    BY <2>1, CountsStays
  <2>3. PinsOf(Counts, "ManualSwitch")' = PinsOf(Counts, "ManualSwitch")
    BY <2>1, <2>2 DEF PinsOf
  <2>4. /\ Pinned(board, settings, FirstGpios)' <=> Pinned(board, settings, FirstGpios)
        /\ Pinned(board, settings, DOMAIN Gpios)' <=> Pinned(board, settings, DOMAIN Gpios)
    BY <2>1, PinnedStays
  <2> QED  BY <2>1, <2>3, <2>4 DEF BoardInv
<1> QED
  BY <1>1, <1>2, <1>3, <1>5, <1>6, <1>7, <1>8, <1>9 DEF Next, Main, Serve

LEMMA InvHolds == Spec => []Inv
<1>1. Init => Inv
  BY SettingsStart, BoardStart DEF Inv
<1>2. Inv /\ [Next]_vars => Inv'
  BY KindStep, SettingsStep, MadeStep, WayStep, BoardStep DEF Inv
<1> QED  BY <1>1, <1>2, PTL DEF Spec

(***************************************************************************)
(* What it implies.                                                        *)
(***************************************************************************)
LEMMA PinnedExports ==
    ASSUME NEW b, NEW config, NEW G, Pinned(b, config, G)
    PROVE  b.exported = {b.open[g] : g \in DOMAIN b.open}
<1> DEFINE R == {h \in G : Openable(PinOf(config, h))}
<1>1. /\ b.open = [g \in R |-> PinOf(config, g)]
      /\ b.exported = {PinOf(config, g) : g \in R}
  BY DEF Pinned
<1> HIDE DEF R
<1> QED  BY <1>1

LEMMA InvTypes == Inv => TypeOK
<1> SUFFICES ASSUME Inv PROVE TypeOK
  OBVIOUS
<1>1. \A a, b \in DOMAIN doc : doc[a].name = doc[b].name => a = b
  <2>1. CASE doc = <<>>
    BY <2>1
  <2>2. CASE doc # <<>>
    <3>1. PICK f \in Files : doc = Load(f).doc
      BY <2>2, CountsIsFile DEF Inv, SettingsInv
    <3> QED  BY <3>1, SectionsDiffer
  <2> QED  BY <2>1, <2>2
<1>2. DOMAIN settings \subseteq DOMAIN Ints \cup DOMAIN Texts
  <2>1. CASE settings = <<>>
    BY <2>1
  <2>2. CASE settings = [n \in LogSettings |-> Number(Counts, n)]
    BY <2>2, NamesOfSettings
  <2>3. CASE settings = Config(Counts)
    BY <2>3, ConfigIs
  <2> QED  BY <2>1, <2>2, <2>3 DEF Inv, SettingsInv, Early
<1>3. made \subseteq Members
  <2>1. FirstMembers \cup {"Led", "FlashLight"} \cup Link \subseteq Members
    BY MembersAre DEF FirstMembers, Link, Servers
  <2> QED  BY <2>1 DEF Inv, KindOK, MadeInv, Places, Early, Running, Late
<1>4. threads > 0 => Members \ made \in {{"Serial1"}, Servers}
  <2> SUFFICES ASSUME threads # 0 PROVE Members \ made \in {{"Serial1"}, Servers}
    BY ThreadsAre DEF Inv, WayInv
  <2>1. main \in Running
    BY DEF Inv, WayInv, Running
  <2>2. made = FirstMembers \cup {"Led", "FlashLight"} \cup Link
    BY <2>1 DEF Inv, MadeInv
  <2>3. CASE Link = Servers
    BY <2>2, <2>3, MembersAre DEF FirstMembers, Servers
  <2>4. CASE Link = {"Serial1"}
    BY <2>2, <2>4, MembersAre DEF FirstMembers, Servers
  <2> QED  BY <2>3, <2>4 DEF Link
<1>5. ended = "no" => board.exported = {board.open[g] : g \in DOMAIN board.open}
  <2> SUFFICES ASSUME ended = "no"
               PROVE  board.exported = {board.open[g] : g \in DOMAIN board.open}
    OBVIOUS
  <2>1. CASE board = [exported |-> {}, open |-> <<>>]
    <3>1. board.exported = {} /\ DOMAIN board.open = {}
      BY <2>1
    <3> QED  BY <3>1
  <2>2. CASE \E G : Pinned(board, settings, G)
    BY <2>2, PinnedExports
  <2> QED  BY <2>1, <2>2 DEF Inv, KindOK, BoardInv, Places, Early, Running, Late
<1> QED
  BY <1>1, <1>2, <1>3, <1>4, <1>5 DEF Inv, KindOK, WayInv, BoardInv, TypeOK

(* No variable of Start leaves its type; in particular no two sections of  *)
(* the document ever have the same name, a thread never runs with more     *)
(* members missing than the servers of the other kind of link, and as long *)
(* as the program runs the pins that are exported are those that its       *)
(* Gpios have open.                                                        *)
THEOREM TypeCorrect == Spec => []TypeOK
BY InvHolds, InvTypes, PTL

LEMMA InvServes == Inv => StartsAsConfigured
<1> SUFFICES ASSUME Inv, Settled
             PROVE  IF Configured(Counts) /\ panel
                    THEN /\ main = "serve" /\ ended = "no"
                         /\ \A n \in DOMAIN Ints : settings[n] = Number(Counts, n)
                         /\ \A g \in DOMAIN Gpios :
                               PinsOf(Counts, g) = {board.open[h] : h \in {g} \cap DOMAIN board.open}
                    ELSE /\ main # "serve"
                         /\ ended = "exit" => board.exported \subseteq PinsOf(Counts, "ManualSwitch")
  BY DEF StartsAsConfigured, Counts, GetModuleFileName
<1>1. main \notin Early => settings = Config(Counts)
  BY DEF Inv, SettingsInv
<1>2. main \notin Early => (Configured(Counts) <=> /\ settings["communication"] = "2"
                                                   /\ settings["LedMode"] \in LedModes
                                                   /\ Whole(settings["Uart1"]))
  BY <1>1, CountsIsFile, ConfiguredIs DEF Inv
<1>3. CASE Configured(Counts) /\ panel
  <2>1. main = "serve" /\ ended = "no"
    <3>1. ended # "terminate"
      BY <1>2, <1>3 DEF Inv, WayInv, Early
    <3>2. main # "delete"
      BY <1>3 DEF Inv, WayInv
    <3>3. ended # "exit"
      BY <3>2 DEF Inv, WayInv
    <3>4. ended # "segv"
      BY <1>2, <1>3, <3>2 DEF Inv, WayInv, Early, Late
    <3>5. main # "serial"
      BY <1>2, <1>3 DEF Inv, WayInv, Early
    <3> QED  BY <3>1, <3>3, <3>4, <3>5 DEF Settled, Inv, KindOK
  <2>2. settings = Config(Counts)
    BY <1>1, <2>1 DEF Early
  <2>3. Pinned(board, settings, DOMAIN Gpios)
    BY <2>1 DEF Inv, BoardInv, Running, Late
  <2>4. ASSUME NEW g \in DOMAIN Gpios
        PROVE  PinsOf(Counts, g) = {board.open[h] : h \in {g} \cap DOMAIN board.open}
    <3>1. PinsOf(Counts, g) = IF Openable(PinOf(settings, g)) THEN {PinOf(settings, g)} ELSE {}
      BY <2>2, PinsOfIs DEF Inv, KindOK
    <3>2. CASE Openable(PinOf(settings, g))
      <4>1. g \in DOMAIN board.open /\ board.open[g] = PinOf(settings, g)
        BY <2>3, <3>2 DEF Pinned
      <4>2. {g} \cap DOMAIN board.open = {g}
        BY <4>1
      <4> QED  BY <3>1, <3>2, <4>1, <4>2
    <3>3. CASE ~ Openable(PinOf(settings, g))
      <4>1. g \notin DOMAIN board.open
        BY <2>3, <3>3 DEF Pinned
      <4>2. {g} \cap DOMAIN board.open = {}
        BY <4>1
      <4> QED  BY <3>1, <3>3, <4>2
    <3> QED  BY <3>2, <3>3
  <2> QED  BY <1>3, <2>1, <2>2, <2>4, ConfigIs
<1>4. CASE ~ (Configured(Counts) /\ panel)
  <2>1. main # "serve"
    BY <1>2, <1>4 DEF Inv, WayInv, Early, Late
  <2> QED  BY <1>4, <2>1 DEF Inv, BoardInv
<1> QED  BY <1>3, <1>4

(* For any files, whatever their lines: the program ends up serving        *)
(* exactly if the file that counts says what is needed before its first    *)
(* bad line and the panel can be opened, it then has the numbers and pins  *)
(* that the file and the code's defaults give, and when it leaves again    *)
(* without a crash only the mode switch's pin stays behind.                *)
THEOREM StartsAsConfiguredHolds == Spec => []StartsAsConfigured
BY InvHolds, InvServes, PTL

=============================================================================
