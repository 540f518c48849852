------------------------ MODULE FrameReceiver_proofs ------------------------
(***************************************************************************)
(* Proofs about FrameReceiver: its types, that only whole right frames are *)
(* executed, and that none is lost where TCP cuts none in a bad place.     *)
(***************************************************************************)
EXTENDS FrameReceiver, WellFoundedInduction, TLAPS

(***************************************************************************)
(* Numbers.  A set of naturals has a least element, so that what holds of  *)
(* 0 and of n + 1 if it holds of n holds of all.                           *)
(***************************************************************************)
LEMMA LeastOf ==
    ASSUME NEW set \in SUBSET Nat, set # {}
    PROVE  Min(set) \in set /\ \A j \in set : Min(set) <= j
<1> DEFINE R == {ss \in Nat \X Nat : ss[1] < ss[2]}
<1>1. IsWellFoundedOn(R, Nat)
  BY NatLessThanWellFounded DEF OpToRel
<1>2. \E i \in set : \A j \in set : <<j, i>> \notin R
  <2> HIDE DEF R
  <2> QED  BY <1>1, WFMin
<1>3. \A i, j \in set : <<j, i>> \notin R => i <= j
  <2> TAKE i, j \in set
  <2>1. i \in Nat /\ j \in Nat
    OBVIOUS
  <2> QED  BY <2>1
<1>4. \E i \in set : \A j \in set : i <= j
  <2> HIDE DEF R
  <2> QED  BY <1>2, <1>3
<1> QED  BY <1>4 DEF Min

LEMMA UpTo ==
    ASSUME NEW N \in Nat, NEW holds, 0 \in holds,
           \A n \in 0..(N - 1) : n \in holds => n + 1 \in holds
    PROVE  0..N \subseteq holds
<1> DEFINE others == (0..N) \ holds
<1>1. SUFFICES ASSUME others # {} PROVE FALSE
  OBVIOUS
<1>2. others \in SUBSET Nat
  OBVIOUS
<1>3. PICK m \in others : \A j \in others : m <= j
  <2> HIDE DEF others
  <2> QED  BY <1>1, <1>2, LeastOf
<1>4. m # 0 /\ m - 1 \in 0..(N - 1) /\ m - 1 + 1 = m
  BY <1>3
<1>5. m - 1 \in holds
  BY <1>3, <1>4
<1> QED  BY <1>3, <1>4, <1>5

(***************************************************************************)
(* The bytes of a stream.                                                  *)
(***************************************************************************)
LEMMA LengthsOfFrames ==
    ASSUME NEW frame \in Frames
    PROVE  /\ FrameLen[frame.kind] \in 5..263
           /\ frame.kind # "noise" => FrameLen[frame.kind] >= 9
  BY VoiceAssumption DEF Frames, Kinds, FrameLen

(* FlattenSeq puts one sequence after the other. *)
LEMMA FlattenIsStepwise ==
    ASSUME NEW S, NEW seqs \in Seq(Seq(S)), Len(seqs) > 0
    PROVE  \E f \in [1..Len(seqs) -> Seq(S)] :
               /\ f[1] = seqs[1]
               /\ \A i \in 2..Len(seqs) : f[i] = f[i - 1] \o seqs[i]
               /\ FlattenSeq(seqs) = f[Len(seqs)]
<1> DEFINE N == Len(seqs)
           Puts(f, n) == f = [i \in 1..n |-> IF i = 1 THEN seqs[i] ELSE f[i - 1] \o seqs[i]]
           holds == {n \in 0..N : \E f \in [1..n -> Seq(S)] : Puts(f, n)}
<1>0. N \in Nat /\ N > 0 /\ \A i \in 1..N : seqs[i] \in Seq(S)
  OBVIOUS
<1>1. 0 \in holds
  <2> DEFINE f == [i \in 1..0 |-> <<>>]
  <2>1. f \in [1..0 -> Seq(S)]
    OBVIOUS
  <2>2. Puts(f, 0)
    OBVIOUS
  <2>3. 0 \in 0..N
    BY <1>0
  <2> HIDE DEF f, Puts
  <2> QED  BY <2>1, <2>2, <2>3
<1>2. ASSUME NEW n \in 0..(N - 1), n \in holds PROVE n + 1 \in holds
  <2>1. PICK f \in [1..n -> Seq(S)] : Puts(f, n)
    BY <1>2
  <2> DEFINE last == IF n = 0 THEN seqs[1] ELSE f[n] \o seqs[n + 1]
             g == [i \in 1..(n + 1) |-> IF i <= n THEN f[i] ELSE last]
  <2>2. last \in Seq(S)
    <3>1. n > 0 => f[n] \in Seq(S)
      BY <1>0
    <3> QED  BY <1>0, <3>1
  <2>3. g \in [1..(n + 1) -> Seq(S)]
    <3> HIDE DEF last
    <3> QED  BY <1>0, <2>2
  <2>4. ASSUME NEW i \in 1..(n + 1)
        PROVE  g[i] = IF i = 1 THEN seqs[i] ELSE g[i - 1] \o seqs[i]
    <3>1. CASE i <= n
      <4>1. i \in 1..n /\ g[i] = f[i]
        BY <3>1
      <4>2. i # 1 => g[i - 1] = f[i - 1]
        BY <1>0, <3>1
      <4>3. f[i] = IF i = 1 THEN seqs[i] ELSE f[i - 1] \o seqs[i]
        BY <2>1, <4>1
      <4> QED  BY <4>1, <4>2, <4>3
    <3>2. CASE i = n + 1
      <4>1. g[i] = last
        BY <1>0, <3>2
      <4>2. i # 1 => g[i - 1] = f[n]
        BY <1>0, <3>2
      <4> QED  BY <1>0, <3>2, <4>1, <4>2
    <3> QED  BY <1>0, <3>1, <3>2
  <2>5. Puts(g, n + 1)
    <3> DEFINE h == [i \in 1..(n + 1) |-> IF i = 1 THEN seqs[i] ELSE g[i - 1] \o seqs[i]]
    <3>1. \A i \in 1..(n + 1) : g[i] = h[i]
      <4> HIDE DEF g
      <4> QED  BY <2>4
    <3>2. DOMAIN g = 1..(n + 1) /\ DOMAIN h = 1..(n + 1)
      OBVIOUS
    <3>3. g = h
      <4>1. g = [i \in 1..(n + 1) |-> g[i]] /\ h = [i \in 1..(n + 1) |-> h[i]]
        OBVIOUS
      <4> HIDE DEF g, h
      <4> QED  BY <3>1, <4>1
    <3> QED  BY <3>3
  <2>6. n + 1 \in 0..N
    BY <1>0
  <2> HIDE DEF g, Puts
  <2> QED  BY <2>3, <2>5, <2>6
<1>3. N \in holds
  <2> HIDE DEF holds
  <2>1. 0..N \subseteq holds
    BY <1>0, <1>1, <1>2, UpTo
  <2>2. N \in 0..N
    BY <1>0
  <2> QED  BY <2>1, <2>2
<1>4. \E f : Puts(f, N)
  <2> HIDE DEF Puts
  <2> QED  BY <1>3
<1> DEFINE flatten == CHOOSE f : Puts(f, N)
<1>5. Puts(flatten, N)
  <2> HIDE DEF Puts
  <2> QED  BY <1>4
<1>6. FlattenSeq(seqs) = flatten[N]
  BY <1>0 DEF FlattenSeq
<1>7. flatten[1] = seqs[1] /\ \A i \in 2..N : flatten[i] = flatten[i - 1] \o seqs[i]
  <2> HIDE DEF flatten
  <2>1. ASSUME NEW i \in 1..N
        PROVE  flatten[i] = IF i = 1 THEN seqs[i] ELSE flatten[i - 1] \o seqs[i]
    BY <1>5
  <2>2. ASSUME NEW i \in 2..N PROVE flatten[i] = flatten[i - 1] \o seqs[i]
    <3>1. i \in 1..N /\ i # 1
      OBVIOUS
    <3> QED  BY <2>1, <3>1
  <2>3. 1 \in 1..N
    BY <1>0
  <2> QED  BY <2>1, <2>2, <2>3
<1>8. \A i \in 1..N : flatten[i] \in Seq(S)
  <2> DEFINE typed == {n \in 0..N : n > 0 => flatten[n] \in Seq(S)}
  <2>1. 0 \in typed
    BY <1>0
  <2>2. ASSUME NEW n \in 0..(N - 1), n \in typed PROVE n + 1 \in typed
    <3>1. CASE n = 0
      <4> HIDE DEF flatten
      <4> QED  BY <1>0, <1>7, <3>1
    <3>2. CASE n > 0
      <4> HIDE DEF flatten
      <4>1. flatten[n] \in Seq(S) /\ seqs[n + 1] \in Seq(S)
        BY <1>0, <2>2, <3>2
      <4>2. flatten[n + 1] = flatten[n] \o seqs[n + 1]
        <5>1. n + 1 \in 2..N /\ (n + 1) - 1 = n
          BY <1>0, <3>2
        <5>2. flatten[n + 1] = flatten[(n + 1) - 1] \o seqs[n + 1]
          BY <1>7, <5>1
        <5> QED  BY <5>1, <5>2
      <4>3. flatten[n + 1] \in Seq(S)
        BY <4>1, <4>2
      <4> QED  BY <1>0, <4>3
    <3> QED  BY <3>1, <3>2
  <2>3. 0..N \subseteq typed
    <3> HIDE DEF typed
    <3> QED  BY <1>0, <2>1, <2>2, UpTo
  <2>4. \A i \in 1..N : i \in typed
    <3> HIDE DEF typed, N
    <3>1. 1..N \subseteq 0..N
      BY <1>0
    <3> QED  BY <2>3, <3>1
  <2> HIDE DEF flatten
  <2> QED  BY <2>4
<1>9. DOMAIN flatten = 1..N
  <2> HIDE DEF flatten
  <2> QED  BY <1>5
<1>10. flatten \in [1..N -> Seq(S)]
  <2>1. flatten = [i \in 1..N |-> flatten[i]]
    <3> HIDE DEF flatten
    <3> QED  BY <1>5
  <2> HIDE DEF flatten
  <2> QED  BY <1>8, <2>1
<1> HIDE DEF flatten
<1> QED  BY <1>6, <1>7, <1>10

(***************************************************************************)
(* Shape says what the bytes of the first n frames of a stream are: whole  *)
(* frames, each once and in order, one behind the other.                   *)
(***************************************************************************)
LenOf(s, k) == FrameLen[s[k].kind]

BytesOf(s, n) == {b \in (1..n) \X Nat : b[2] < LenOf(s, b[1])}

Before(a, b) == a[1] < b[1] \/ (a[1] = b[1] /\ a[2] < b[2])

InOrder(w) == \A i, j \in DOMAIN w : i < j => Before(w[i], w[j])

(* Byte i of w stands in a frame that is there from its first byte to its  *)
(* last.                                                                   *)
InFrame(s, w, i) ==
    LET k == w[i][1]
        p == i - w[i][2] IN
    /\ p >= 1 /\ p + LenOf(s, k) - 1 <= Len(w)
    /\ \A o \in 0..(LenOf(s, k) - 1) : w[p + o] = <<k, o>>

NextFrame(s, w, i) ==
    w[i][2] + 1 = LenOf(s, w[i][1]) => w[i + 1] = <<w[i][1] + 1, 0>>

Shape(s, n, w) ==
    /\ w \in Seq(BytesOf(s, n))
    /\ InOrder(w)
    /\ \A i \in DOMAIN w : InFrame(s, w, i)
    /\ \A i \in 1..(Len(w) - 1) : NextFrame(s, w, i)
    /\ n > 0 => Len(w) > 0 /\ w[1] = <<1, 0>> /\ w[Len(w)] = <<n, LenOf(s, n) - 1>>
    /\ \A k \in 1..n : \E i \in DOMAIN w : w[i] = <<k, 0>>

LEMMA LengthsAreNat ==
    ASSUME NEW s \in Seq(Frames)
    PROVE  \A k \in DOMAIN s : /\ LenOf(s, k) \in 5..263
                               /\ s[k].kind # "noise" => LenOf(s, k) >= 9
<1> TAKE k \in DOMAIN s
<1>1. s[k] \in Frames
  OBVIOUS
<1> QED  BY <1>1, LengthsOfFrames DEF LenOf

LEMMA ShapeOfNone ==
    ASSUME NEW s PROVE Shape(s, 0, <<>>)
<1>1. <<>> \in Seq(BytesOf(s, 0)) /\ DOMAIN <<>> = {} /\ Len(<<>>) = 0
  OBVIOUS
<1> QED  BY <1>1 DEF Shape, InOrder

LEMMA ShapeOfOneMore ==
    ASSUME NEW s \in Seq(Frames), NEW n \in Nat, n + 1 <= Len(s), NEW w, Shape(s, n, w)
    PROVE  Shape(s, n + 1, w \o Bytes(s[n + 1], n + 1))
<1> DEFINE l == LenOf(s, n + 1)
           c == Bytes(s[n + 1], n + 1)
           v == w \o c
<1>1. /\ n + 1 \in DOMAIN s /\ l \in Nat /\ l > 0
      /\ \A k \in 1..n : LenOf(s, k) \in Nat /\ LenOf(s, k) > 0
  <2>1. \A k \in 1..(n + 1) : k \in DOMAIN s
    OBVIOUS
  <2>2. \A k \in 1..(n + 1) : LenOf(s, k) \in 5..263
    BY <2>1, LengthsAreNat
  <2>3. \A m \in 5..263 : m \in Nat /\ m > 0
    OBVIOUS
  <2>4. n + 1 \in 1..(n + 1) /\ \A k \in 1..n : k \in 1..(n + 1)
    OBVIOUS
  <2> QED  BY <2>1, <2>2, <2>3, <2>4
<1>2. w \in Seq(BytesOf(s, n)) /\ Len(w) \in Nat /\ DOMAIN w = 1..Len(w)
  BY DEF Shape
<1>3. c \in Seq(Nat \X Nat) /\ Len(c) = l /\ \A o \in 1..l : c[o] = <<n + 1, o - 1>>
  <2>1. c = [o \in 1..l |-> <<n + 1, o - 1>>]
    BY DEF Bytes, LenOf
  <2> HIDE DEF l, c
  <2>2. \A o \in 1..l : <<n + 1, o - 1>> \in Nat \X Nat
    BY <1>1
  <2> QED  BY <1>1, <2>1, <2>2
<1> HIDE DEF l, c
<1>4. \A i \in DOMAIN w : /\ w[i] \in (1..n) \X Nat /\ w[i][1] \in 1..n /\ w[i][2] \in Nat
                          /\ w[i][2] < LenOf(s, w[i][1])
  <2>1. \A i \in DOMAIN w : w[i] \in BytesOf(s, n)
    BY <1>2
  <2> QED  BY <2>1 DEF BytesOf
<1>w. w \in Seq(Nat \X Nat)
  BY <1>2, <1>4
<1>5. v \in Seq(Nat \X Nat)
  BY <1>3, <1>w
<1>6. /\ Len(v) = Len(w) + l /\ DOMAIN v = 1..(Len(w) + l)
      /\ \A i \in 1..Len(w) : v[i] = w[i]
      /\ \A i \in 1..l : v[Len(w) + i] = <<n + 1, i - 1>>
  <2>1. Len(v) = Len(w) + Len(c) /\ DOMAIN v = 1..(Len(w) + Len(c))
    <3>1. Len(v) = Len(w) + Len(c)
      <4>1. \A x, y \in Seq(Nat \X Nat) : Len(x \o y) = Len(x) + Len(y)
        OBVIOUS
      <4> QED  BY <1>3, <1>w, <4>1
    <3> HIDE DEF v
    <3> QED  BY <1>5, <3>1
  <2>2. \A i \in 1..Len(w) : v[i] = w[i]
    BY <1>1, <1>2, <1>3
  <2>3. \A i \in 1..Len(c) : v[Len(w) + i] = c[i]
    BY <1>1, <1>2, <1>3
  <2> QED  BY <1>1, <1>3, <2>1, <2>2, <2>3
<1> HIDE DEF v
<1>7. \A i \in DOMAIN v : \/ i \in 1..Len(w) /\ v[i] = w[i]
                          \/ /\ i \in (Len(w) + 1)..(Len(w) + l)
                             /\ v[i] = <<n + 1, i - Len(w) - 1>>
  <2> TAKE i \in DOMAIN v
  <2>1. CASE i \in 1..Len(w)
    BY <1>6, <2>1
  <2>2. CASE i \notin 1..Len(w)
    <3>1. i - Len(w) \in 1..l /\ Len(w) + (i - Len(w)) = i /\ i \in (Len(w) + 1)..(Len(w) + l)
      BY <1>1, <1>2, <1>6, <2>2
    <3> QED  BY <1>6, <3>1
  <2> QED  BY <2>1, <2>2
<1>8. v \in Seq(BytesOf(s, n + 1))
  <2>1. ASSUME NEW i \in DOMAIN v PROVE v[i] \in BytesOf(s, n + 1)
    <3>1. CASE i \in 1..Len(w) /\ v[i] = w[i]
      BY <1>2, <1>4, <3>1 DEF BytesOf
    <3>2. CASE i \in (Len(w) + 1)..(Len(w) + l) /\ v[i] = <<n + 1, i - Len(w) - 1>>
      <4>1. i - Len(w) - 1 \in Nat /\ i - Len(w) - 1 < l
        BY <1>1, <1>2, <3>2
      <4> QED  BY <3>2, <4>1 DEF BytesOf, l
    <3> QED  BY <1>7, <3>1, <3>2
  <2> QED  BY <1>5, <2>1
<1>9. InOrder(v)
  <2> SUFFICES ASSUME NEW i \in DOMAIN v, NEW j \in DOMAIN v, i < j
               PROVE  Before(v[i], v[j])
    BY DEF InOrder
  <2>1. CASE j \in 1..Len(w)
    <3>1. i \in 1..Len(w)
      BY <1>2, <1>6, <2>1
    <3> QED  BY <1>2, <1>6, <2>1, <3>1 DEF Shape, InOrder
  <2>2. CASE j \notin 1..Len(w) /\ i \in 1..Len(w)
    <3>1. v[i][1] < n + 1 /\ v[j][1] = n + 1
      BY <1>2, <1>4, <1>6, <1>7, <2>2
    <3> QED  BY <3>1 DEF Before
  <2>3. CASE j \notin 1..Len(w) /\ i \notin 1..Len(w)
    <3>1. v[i] = <<n + 1, i - Len(w) - 1>> /\ v[j] = <<n + 1, j - Len(w) - 1>>
      BY <1>7, <2>3
    <3>2. i - Len(w) - 1 < j - Len(w) - 1
      BY <1>1, <1>2, <1>6
    <3> QED  BY <3>1, <3>2 DEF Before
  <2> QED  BY <2>1, <2>2, <2>3
<1>10. ASSUME NEW i \in DOMAIN v PROVE InFrame(s, v, i)
  <2>1. CASE i \in 1..Len(w)
    <3> DEFINE k == w[i][1]
               p == i - w[i][2]
    <3>1. /\ p >= 1 /\ p + LenOf(s, k) - 1 <= Len(w)
          /\ \A o \in 0..(LenOf(s, k) - 1) : w[p + o] = <<k, o>>
      BY <1>2, <2>1 DEF Shape, InFrame
    <3>2. v[i] = w[i] /\ k \in 1..n /\ LenOf(s, k) \in Nat /\ w[i][2] \in Nat /\ p \in Int
      BY <1>1, <1>2, <1>4, <1>6, <2>1
    <3> HIDE DEF p, k
    <3>3. \A o \in 0..(LenOf(s, k) - 1) : p + o \in 1..Len(w)
      <4> TAKE o \in 0..(LenOf(s, k) - 1)
      <4>1. o \in Int /\ 0 <= o /\ o <= LenOf(s, k) - 1
        BY <3>2
      <4> QED  BY <1>2, <3>1, <3>2, <4>1
    <3>4. \A o \in 0..(LenOf(s, k) - 1) : v[p + o] = <<k, o>>
      BY <1>6, <3>1, <3>3
    <3>5. p + LenOf(s, k) - 1 <= Len(v)
      BY <1>1, <1>2, <1>6, <3>1, <3>2
    <3> QED  BY <3>1, <3>2, <3>4, <3>5 DEF InFrame, k, p
  <2>2. CASE i \notin 1..Len(w)
    <3>1. v[i] = <<n + 1, i - Len(w) - 1>> /\ i \in (Len(w) + 1)..(Len(w) + l)
      BY <1>7, <2>2
    <3>2. i - (i - Len(w) - 1) = Len(w) + 1
      BY <1>1, <1>2, <3>1
    <3>3. \A o \in 0..(l - 1) : v[Len(w) + 1 + o] = <<n + 1, o>>
      <4> TAKE o \in 0..(l - 1)
      <4>1. o + 1 \in 1..l /\ Len(w) + 1 + o = Len(w) + (o + 1) /\ (o + 1) - 1 = o
        BY <1>1, <1>2
      <4> QED  BY <1>6, <4>1
    <3>4. Len(w) + 1 >= 1 /\ Len(w) + 1 + l - 1 <= Len(v)
      BY <1>1, <1>2, <1>6
    <3>5. v[i][1] = n + 1 /\ i - v[i][2] = Len(w) + 1
      BY <3>1, <3>2
    <3> QED  BY <3>3, <3>4, <3>5 DEF InFrame, l
  <2> QED  BY <2>1, <2>2
<1>11. ASSUME NEW i \in 1..(Len(v) - 1) PROVE NextFrame(s, v, i)
  <2>0. i \in DOMAIN v
    BY <1>1, <1>2, <1>6
  <2>1. CASE i \in 1..(Len(w) - 1)
    <3>1. v[i] = w[i] /\ v[i + 1] = w[i + 1]
      BY <1>2, <1>6, <2>1
    <3> QED  BY <2>1, <3>1 DEF Shape, NextFrame
  <2>2. CASE i = Len(w)
    <3>1. v[i + 1] = <<n + 1, 0>>
      <4>1. 1 \in 1..l /\ i + 1 = Len(w) + 1
        BY <1>1, <2>2
      <4> QED  BY <1>6, <4>1
    <3>2. w[i][1] = n /\ v[i] = w[i]
      <4>1. n > 0
        BY <1>2, <1>4, <2>2
      <4> QED  BY <1>6, <2>2, <4>1 DEF Shape
    <3> QED  BY <3>1, <3>2 DEF NextFrame
  <2>3. CASE i > Len(w)
    <3>1. v[i] = <<n + 1, i - Len(w) - 1>>
      BY <1>2, <1>7, <2>0, <2>3
    <3>2. i - Len(w) - 1 + 1 # l
      BY <1>1, <1>2, <1>6, <2>3
    <3> QED  BY <3>1, <3>2 DEF NextFrame, l
  <2> QED  BY <1>1, <1>2, <1>6, <2>0, <2>1, <2>2, <2>3
<1>12. Len(v) > 0 /\ v[1] = <<1, 0>> /\ v[Len(v)] = <<n + 1, l - 1>>
  <2>1. v[Len(v)] = <<n + 1, l - 1>>
    <3>1. l \in 1..l
      BY <1>1
    <3> QED  BY <1>6, <3>1
  <2>2. CASE n > 0
    <3>1. Len(w) > 0 /\ w[1] = <<1, 0>>
      BY <2>2 DEF Shape
    <3>2. 1 \in 1..Len(w)
      BY <1>2, <3>1
    <3> QED  BY <1>1, <1>2, <1>6, <2>1, <3>1, <3>2
  <2>3. CASE n = 0
    <3>1. DOMAIN w = {}
      <4>1. \A i \in DOMAIN w : w[i][1] \in 1..0
        BY <1>4, <2>3
      <4>2. \A i : i \notin DOMAIN w
        BY <4>1
      <4> QED  BY <4>2
    <3>2. Len(w) = 0
      BY <1>2, <3>1
    <3>3. v[Len(w) + 1] = <<n + 1, 0>>
      <4>1. 1 \in 1..l
        BY <1>1
      <4> QED  BY <1>6, <4>1
    <3> QED  BY <1>1, <1>6, <2>1, <2>3, <3>2, <3>3
  <2> QED  BY <2>2, <2>3
<1>13. ASSUME NEW k \in 1..(n + 1) PROVE \E i \in DOMAIN v : v[i] = <<k, 0>>
  <2>1. CASE k \in 1..n
    <3>1. PICK i \in DOMAIN w : w[i] = <<k, 0>>
      BY <2>1 DEF Shape
    <3> QED  BY <1>1, <1>2, <1>6, <3>1
  <2>2. CASE k = n + 1
    <3>1. 1 \in 1..l /\ Len(w) + 1 \in DOMAIN v
      BY <1>1, <1>2, <1>6
    <3>2. v[Len(w) + 1] = <<n + 1, 0>>
      BY <1>6, <3>1
    <3> QED  BY <2>2, <3>1, <3>2
  <2> QED  BY <2>1, <2>2
<1> QED  BY <1>8, <1>9, <1>10, <1>11, <1>12, <1>13 DEF Shape, v, c, l

LEMMA WholeHasShape ==
    ASSUME stream \in Seq(Frames) PROVE Shape(stream, Len(stream), Whole)
<1> DEFINE N == Len(stream)
           seqs == [k \in DOMAIN stream |-> Bytes(stream[k], k)]
<1>0. N \in Nat /\ DOMAIN stream = 1..N
  OBVIOUS
<1>1. seqs \in Seq(Seq(Nat \X Nat)) /\ Len(seqs) = N
  <2>1. ASSUME NEW k \in DOMAIN stream PROVE Bytes(stream[k], k) \in Seq(Nat \X Nat)
    <3>1. PICK l : l = FrameLen[stream[k].kind]
      OBVIOUS
    <3>2. l \in 5..263 /\ k \in Nat
      <4>1. LenOf(stream, k) \in 5..263
        BY LengthsAreNat
      <4>2. l = LenOf(stream, k)
        BY <3>1 DEF LenOf
      <4> QED  BY <1>0, <4>1, <4>2
    <3>3. \A o \in 1..l : <<k, o - 1>> \in Nat \X Nat
      BY <3>2
    <3>4. Bytes(stream[k], k) = [o \in 1..l |-> <<k, o - 1>>]
      BY <3>1 DEF Bytes
    <3>5. l \in Nat
      BY <3>2
    <3> QED  BY <3>3, <3>4, <3>5
  <2> QED  BY <1>0, <2>1
<1>2. CASE N = 0
  <2>1. Whole = <<>>
    <3>1. Len(seqs) = 0 /\ Whole = FlattenSeq(seqs)
      BY <1>1, <1>2 DEF Whole
    <3> HIDE DEF seqs
    <3> QED  BY <1>1, <3>1 DEF FlattenSeq
  <2> QED  BY <1>2, <2>1, ShapeOfNone
<1>3. CASE N > 0
  <2>1. PICK f \in [1..N -> Seq(Nat \X Nat)] :
               /\ f[1] = seqs[1]
               /\ \A i \in 2..N : f[i] = f[i - 1] \o seqs[i]
               /\ FlattenSeq(seqs) = f[N]
    <3> HIDE DEF seqs, N
    <3>1. Len(seqs) > 0
      BY <1>1, <1>3
    <3> QED  BY <1>1, <3>1, FlattenIsStepwise
  <2> DEFINE holds == {n \in 0..N : n > 0 => Shape(stream, n, f[n])}
  <2>2. 0 \in holds
    BY <1>0
  <2>3. ASSUME NEW n \in 0..(N - 1), n \in holds PROVE n + 1 \in holds
    <3>0. n + 1 \in 1..N /\ n \in Nat /\ seqs[n + 1] = Bytes(stream[n + 1], n + 1)
      BY <1>0
    <3>1. CASE n = 0
      <4>1. Shape(stream, n + 1, <<>> \o Bytes(stream[n + 1], n + 1))
        <5>1. Shape(stream, 0, <<>>)
          BY ShapeOfNone
        <5>2. 0 \in Nat /\ 0 + 1 <= Len(stream)
          BY <1>0, <3>0, <3>1
        <5>3. Shape(stream, 0 + 1, <<>> \o Bytes(stream[0 + 1], 0 + 1))
          BY <5>1, <5>2, ShapeOfOneMore
        <5> QED  BY <3>1, <5>3
      <4>2. <<>> \o Bytes(stream[n + 1], n + 1) = Bytes(stream[n + 1], n + 1)
        <5>1. Bytes(stream[n + 1], n + 1) \in Seq(Nat \X Nat)
          <6>1. seqs[n + 1] \in Seq(Nat \X Nat)
            <7> HIDE DEF seqs
            <7> QED  BY <1>0, <1>1, <3>0
          <6> QED  BY <3>0, <6>1
        <5>2. \A seq \in Seq(Nat \X Nat) : <<>> \o seq = seq
          OBVIOUS
        <5> QED  BY <5>1, <5>2
      <4>3. f[n + 1] = Bytes(stream[n + 1], n + 1)
        BY <2>1, <3>0, <3>1
      <4> QED  BY <3>0, <4>1, <4>2, <4>3
    <3>2. CASE n > 0
      <4>1. Shape(stream, n, f[n])
        BY <2>3, <3>2
      <4>2. n + 1 \in 2..N /\ (n + 1) - 1 = n
        BY <1>0, <3>2
      <4>3. f[n + 1] = f[(n + 1) - 1] \o seqs[n + 1]
        BY <2>1, <4>2
      <4>4. f[n + 1] = f[n] \o Bytes(stream[n + 1], n + 1)
        BY <3>0, <4>2, <4>3
      <4> HIDE DEF seqs
      <4>5. Shape(stream, n + 1, f[n + 1])
        BY <3>0, <4>1, <4>4, ShapeOfOneMore
      <4> QED  BY <3>0, <4>5
    <3> QED  BY <3>1, <3>2
  <2>4. 0..N \subseteq holds
    <3> HIDE DEF holds
    <3> QED  BY <1>0, <2>2, <2>3, UpTo
  <2>5. N \in holds
    <3> HIDE DEF holds
    <3> QED  BY <1>0, <2>4
  <2>6. Whole = f[N]
    BY <2>1 DEF Whole
  <2> QED  BY <1>3, <2>5, <2>6
<1> QED  BY <1>0, <1>2, <1>3

(***************************************************************************)
(* Types.                                                                  *)
(***************************************************************************)
LEMMA PartOf ==
    ASSUME NEW S, NEW seq \in Seq(S), NEW a \in Nat \ {0}, NEW b \in 0..Len(seq)
    PROVE  /\ SubSeq(seq, a, b) \in Seq(S)
           /\ Len(SubSeq(seq, a, b)) = IF a <= b THEN b - a + 1 ELSE 0
           /\ \A i \in 1..(b - a + 1) : SubSeq(seq, a, b)[i] = seq[a + i - 1]
  OBVIOUS

LEMMA JoinOf ==
    ASSUME NEW S, NEW a \in Seq(S), NEW b \in Seq(S)
    PROVE  /\ a \o b \in Seq(S) /\ Len(a \o b) = Len(a) + Len(b)
           /\ \A i \in 1..Len(a) : (a \o b)[i] = a[i]
           /\ \A i \in 1..Len(b) : (a \o b)[Len(a) + i] = b[i]
  OBVIOUS

LEMMA LargerOf ==
    ASSUME NEW a \in Int, NEW b \in Int
    PROVE  Max({a, b}) \in {a, b} /\ Max({a, b}) >= a /\ Max({a, b}) >= b
<1>1. \E x \in {a, b} : \A y \in {a, b} : x >= y
  BY DEF Max
<1> QED  BY <1>1 DEF Max

LEMMA BytesAreBytes ==
    ASSUME NEW k, stream[k] \in Frames, NEW o \in Nat
    PROVE  Byte(k, o) \in 0..255
<1> DEFINE kind == stream[k].kind
<1>1. kind \in Kinds
  BY DEF Frames
<1>2. kind # "noise" => FrameLen[kind] - 9 \in 0..254
  BY <1>1, VoiceAssumption DEF Kinds, FrameLen
<1>3. kind \in Boxed => CodeByte[kind] \in 0..255
  BY DEF Boxed, CodeByte
<1>4. TypeByte(kind) \in 0..255
  BY DEF TypeByte
<1>5. o \in 9..12 => \hA0 + 16 * (o - 9) \in 0..255
  OBVIOUS
<1>6. kind \notin {"noise", "heartbeat"} => FrameLen[kind] - 9 \in 0..255
  BY <1>2
<1> DEFINE val == Byte(k, o)
<1>7. \/ val \in {0, \hFF, \h90, 2, VoiceHigh, TypeByte(kind)}
      \/ kind \notin {"noise", "heartbeat"} /\ val = FrameLen[kind] - 9
      \/ o \in 9..12 /\ val = \hA0 + 16 * (o - 9)
      \/ kind \in Boxed /\ val = CodeByte[kind]
  <2>1. val = IF kind = "noise" THEN 0
              ELSE CASE o \in {0, 1}                  -> \hFF
                     [] o = 3 /\ kind = "heartbeat"   -> \h90
                     [] o = 5 /\ kind = "heartbeat"   -> 2
                     [] o = 6 /\ kind = "voice"       -> VoiceHigh
                     [] o = 7 /\ kind # "heartbeat"   -> FrameLen[kind] - 9
                     [] o = 8                         -> TypeByte(kind)
                     [] o \in 9..12 /\ kind \in Boxed -> \hA0 + 16 * (o - 9)
                     [] o = 13 /\ kind \in Boxed      -> CodeByte[kind]
                     [] OTHER                         -> 0
    BY DEF Byte
  <2> HIDE DEF kind, val
  <2>2. CASE kind = "noise"
    BY <2>1, <2>2
  <2>3. CASE kind # "noise" /\ o \in 0..6
    BY <2>1, <2>3
  <2>4. CASE kind # "noise" /\ o \in 7..13
    BY <2>1, <2>4
  <2>5. CASE kind # "noise" /\ o > 13
    BY <2>1, <2>5
  <2>6. o \in 0..6 \/ o \in 7..13 \/ o > 13
    OBVIOUS
  <2> QED  BY <2>2, <2>3, <2>4, <2>5, <2>6
<1> HIDE DEF kind, val
<1>8. {0, \hFF, \h90, 2, VoiceHigh} \subseteq 0..255
  BY VoiceAssumption
<1>9. val \in 0..255
  BY <1>3, <1>4, <1>5, <1>6, <1>7, <1>8
<1> QED  BY <1>9 DEF val

LEMMA LengthIs ==
    ASSUME TypeOK, NEW i \in Nat
    PROVE  LengthAt(i) = commandLen \/ LengthAt(i) \in 9..(255 + 19)
<1>1. ASSUME NEW j \in Nat PROVE At(j) \in 0..255
  <2>1. past \in 0..255
    BY StackAssumption DEF TypeOK
  <2>2. CASE j < Len(data)
    <3>1. data \in Seq((DOMAIN stream) \X Nat) /\ stream \in Seq(Frames)
      BY StreamsAssumption DEF TypeOK
    <3>2. data[j + 1] \in (DOMAIN stream) \X Nat
      BY <2>2, <3>1
    <3>3. PICK k \in DOMAIN stream, o \in Nat : data[j + 1] = <<k, o>>
      BY <3>2
    <3>4. stream[k] \in Frames
      BY <3>1
    <3>5. Byte(data[j + 1][1], data[j + 1][2]) \in 0..255
      BY <3>3, <3>4, BytesAreBytes
    <3> QED  BY <2>2, <3>5 DEF At, ByteAt
  <2> QED  BY <2>1, <2>2 DEF At, ByteAt
<1>2. \A c \in DOMAIN LengthOfCode : LengthOfCode[c] \in 9..(255 + 19)
  BY DEF LengthOfCode
<1>3. At(i + 6) \in 0..255
  BY <1>1
<1> QED  BY <1>2, <1>3 DEF LengthAt

(* The bytes that recv returns come behind those that are valid.           *)
LEMMA RecvPuts ==
    ASSUME TypeOK, NEW n \in 1..Len(wire), Recv(n)
    PROVE  /\ {wire', data'} \subseteq Seq((DOMAIN stream) \X Nat)
           /\ Len(wire') = Len(wire) - n /\ \A i \in 1..(Len(wire) - n) : wire'[i] = wire[n + i]
           /\ pos' = pos + n /\ pos' \in 0..Len(data') /\ Len(data') >= Len(data)
           /\ \A i \in 1..pos : data'[i] = data[i]
           /\ \A i \in 1..n : data'[pos + i] = wire[i]
           /\ \A i \in (pos + n + 1)..Len(data') : i \in DOMAIN data /\ data'[i] = data[i]
<1> DEFINE S == (DOMAIN stream) \X Nat
           a == SubSeq(data, 1, pos)
           b == SubSeq(wire, 1, n)
           c == SubSeq(data, pos + n + 1, Len(data))
           w == SubSeq(wire, n + 1, Len(wire))
<1>0. /\ data \in Seq(S) /\ wire \in Seq(S) /\ pos \in 0..Len(data) /\ n \in Nat /\ n > 0
      /\ Len(data) \in Nat /\ Len(wire) \in Nat /\ pos \in Nat
  BY DEF TypeOK
<1>1. wire' = w /\ data' = (a \o b) \o c /\ pos' = pos + n
  BY DEF Recv
<1> HIDE DEF S
<1>2. w \in Seq(S) /\ Len(w) = Len(wire) - n /\ \A i \in 1..(Len(wire) - n) : w[i] = wire[n + i]
  <2>1. /\ w \in Seq(S)
        /\ Len(w) = IF n + 1 <= Len(wire) THEN Len(wire) - (n + 1) + 1 ELSE 0
        /\ \A i \in 1..(Len(wire) - (n + 1) + 1) : w[i] = wire[(n + 1) + i - 1]
    BY <1>0, PartOf
  <2> QED  BY <1>0, <2>1
<1>3. a \in Seq(S) /\ Len(a) = pos /\ \A i \in 1..pos : a[i] = data[i]
  <2>1. /\ a \in Seq(S)
        /\ Len(a) = IF 1 <= pos THEN pos - 1 + 1 ELSE 0
        /\ \A i \in 1..(pos - 1 + 1) : a[i] = data[1 + i - 1]
    BY <1>0, PartOf
  <2> QED  BY <1>0, <2>1
<1>4. b \in Seq(S) /\ Len(b) = n /\ \A i \in 1..n : b[i] = wire[i]
  <2>1. /\ b \in Seq(S)
        /\ Len(b) = IF 1 <= n THEN n - 1 + 1 ELSE 0
        /\ \A i \in 1..(n - 1 + 1) : b[i] = wire[1 + i - 1]
    BY <1>0, PartOf
  <2> QED  BY <1>0, <2>1
<1>5. /\ c \in Seq(S) /\ Len(c) = IF pos + n + 1 <= Len(data) THEN Len(data) - (pos + n) ELSE 0
      /\ \A i \in 1..Len(c) : c[i] = data[pos + n + i]
  <2>1. /\ c \in Seq(S)
        /\ Len(c) = IF pos + n + 1 <= Len(data) THEN Len(data) - (pos + n + 1) + 1 ELSE 0
        /\ \A i \in 1..(Len(data) - (pos + n + 1) + 1) : c[i] = data[(pos + n + 1) + i - 1]
    BY <1>0, PartOf
  <2> QED  BY <1>0, <2>1
<1> HIDE DEF a, b, c, w
<1>n. /\ pos \in Nat /\ n \in Nat /\ n > 0 /\ Len(data) \in Nat
      /\ Len(c) \in Nat /\ Len(c) = IF pos + n + 1 <= Len(data) THEN Len(data) - (pos + n) ELSE 0
  BY <1>0, <1>5
<1> DEFINE e == a \o b
           d == e \o c
<1>e. /\ e \in Seq(S) /\ Len(e) = pos + n
      /\ \A i \in 1..pos : e[i] = a[i]
      /\ \A i \in 1..n : e[pos + i] = b[i]
  <2>1. /\ e \in Seq(S) /\ Len(e) = Len(a) + Len(b)
        /\ \A i \in 1..Len(a) : e[i] = a[i]
        /\ \A i \in 1..Len(b) : e[Len(a) + i] = b[i]
    <3>1. a \in Seq(S) /\ b \in Seq(S)
      BY <1>3, <1>4
    <3> QED  BY <3>1, JoinOf
  <2> QED  BY <1>3, <1>4, <2>1
<1>7. d = data'
  BY <1>1
<1> HIDE DEF e
<1>6. /\ d \in Seq(S) /\ Len(d) = pos + n + Len(c)
      /\ \A i \in 1..(pos + n) : d[i] = e[i]
      /\ \A i \in 1..Len(c) : d[(pos + n) + i] = c[i]
  <2>1. /\ d \in Seq(S) /\ Len(d) = Len(e) + Len(c)
        /\ \A i \in 1..Len(e) : d[i] = e[i]
        /\ \A i \in 1..Len(c) : d[Len(e) + i] = c[i]
    <3>1. e \in Seq(S) /\ c \in Seq(S)
      BY <1>5, <1>e
    <3> QED  BY <3>1, JoinOf
  <2> QED  BY <1>e, <2>1
<1> HIDE DEF d
<1>m. PICK m \in Nat : m = pos + n
  BY <1>n
<1>l. Len(d) \in Nat /\ Len(c) \in Nat /\ Len(d) = m + Len(c)
  BY <1>n, <1>m, <1>6
<1>10. /\ \A i \in 1..pos : d[i] = a[i]
       /\ \A i \in 1..n : d[pos + i] = b[i]
  <2>1. \A i \in 1..pos : i \in 1..(pos + n)
    BY <1>n
  <2>2. \A i \in 1..n : pos + i \in 1..(pos + n)
    BY <1>n
  <2> QED  BY <1>e, <1>6, <2>1, <2>2
<1>8. \A i \in (pos + n + 1)..Len(d) : i \in DOMAIN data /\ d[i] = data[i]
  <2> TAKE i \in (pos + n + 1)..Len(d)
  <2>1. PICK j \in 1..Len(c) : i = m + j
    <3>1. i - m \in 1..Len(c) /\ i = m + (i - m)
      <4>1. i \in (m + 1)..Len(d)
        BY <1>m
      <4> QED  BY <1>l, <4>1
    <3> QED  BY <3>1
  <2>2. i \in 1..Len(data)
    BY <1>n, <1>m, <2>1
  <2>3. DOMAIN data = 1..Len(data)
    BY <1>0
  <2>4. d[i] = c[j] /\ c[j] = data[pos + n + j]
    BY <1>5, <1>6, <1>m, <2>1
  <2>5. pos + n + j = i
    BY <1>m, <2>1
  <2>6. d[i] = data[i]
    BY <2>4, <2>5
  <2> QED  BY <2>2, <2>3, <2>6
<1>9. Len(d) >= Len(data) /\ pos + n \in 0..Len(d)
  <2>1. m <= Len(d) /\ (m + 1 <= Len(data) => Len(d) = m + (Len(data) - m))
    <3>1. m + 1 <= Len(data) => Len(c) = Len(data) - m
      BY <1>n, <1>m
    <3> QED  BY <1>n, <1>l, <3>1
  <2>2. Len(d) >= Len(data)
    BY <1>n, <1>l, <2>1
  <2> QED  BY <1>l, <1>m, <2>1, <2>2
<1>11. \A i \in 1..pos : data'[i] = data[i]
  BY <1>3, <1>7, <1>10
<1>12. \A i \in 1..n : data'[pos + i] = wire[i]
  BY <1>4, <1>7, <1>10
<1>13. \A i \in (pos + n + 1)..Len(data') : i \in DOMAIN data /\ data'[i] = data[i]
  BY <1>7, <1>8
<1>14. /\ {wire', data'} \subseteq Seq(S)
       /\ Len(wire') = Len(wire) - n /\ \A i \in 1..(Len(wire) - n) : wire'[i] = wire[n + i]
  BY <1>1, <1>2, <1>6, <1>7
<1>15. pos' = pos + n /\ pos' \in 0..Len(data') /\ Len(data') >= Len(data)
  BY <1>1, <1>7, <1>9
<1> QED  BY <1>11, <1>12, <1>13, <1>14, <1>15 DEF S

LEMMA FollowingIs ==
    ASSUME TypeOK, index2 >= 0
    PROVE  /\ Following \in Seq((DOMAIN stream) \X Nat)
           /\ Len(Following) = IF index2 = 0 THEN 0 ELSE pos - index2
           /\ \A i \in 1..Len(Following) : Following[i] = data[index2 + i]
<1> DEFINE S == (DOMAIN stream) \X Nat
<1>0. /\ data \in Seq(S) /\ pos \in 0..Len(data) /\ index2 \in 0..pos /\ Len(data) \in Nat
  <2>1. data \in Seq(S) /\ pos \in 0..Len(data) /\ index2 \in Int /\ index2 <= pos
    BY DEF TypeOK
  <2>2. Len(data) \in Nat
    BY <2>1
  <2> QED  BY <2>1, <2>2
<1> HIDE DEF S
<1>1. CASE index2 = 0
  BY <1>1 DEF Following
<1>2. CASE index2 # 0
  <2> DEFINE f == SubSeq(data, index2 + 1, pos)
  <2>1. /\ f \in Seq(S)
        /\ Len(f) = IF index2 + 1 <= pos THEN pos - (index2 + 1) + 1 ELSE 0
        /\ \A i \in 1..(pos - (index2 + 1) + 1) : f[i] = data[(index2 + 1) + i - 1]
    BY <1>0, <1>2, PartOf
  <2>2. Following = f
    BY <1>2 DEF Following
  <2> HIDE DEF f
  <2>3. Len(f) = pos - index2
    BY <1>0, <2>1
  <2>4. \A i \in 1..Len(f) : f[i] = data[index2 + i]
    BY <1>0, <2>1, <2>3
  <2> QED  BY <1>2, <2>1, <2>2, <2>3, <2>4 DEF S
<1> QED  BY <1>1, <1>2

LEMMA HeadersIn ==
    ASSUME TypeOK, NEW from \in Nat, Headers(from) # {}
    PROVE  /\ Min(Headers(from)) \in Headers(from) /\ Min(Headers(from)) \in from..(pos - 2)
           /\ \A i \in Headers(from) : Min(Headers(from)) <= i
<1>1. Headers(from) \in SUBSET Nat
  BY DEF Headers, TypeOK
<1>2. /\ Min(Headers(from)) \in Headers(from)
      /\ \A i \in Headers(from) : Min(Headers(from)) <= i
  BY <1>1, LeastOf
<1> QED  BY <1>2 DEF Headers

(* A frame is only looked at once all of it is there.                      *)
Measured ==
    pc = "check" => /\ index1 >= 0 /\ index1 + commandLen <= pos
                    /\ index2 = IF commandLen < pos - index1 THEN index1 + commandLen ELSE 0

TypeInv == TypeOK /\ Measured

LEMMA TypesOfNumbers ==
    ASSUME TypeOK
    PROVE  /\ pos \in Nat /\ index1 \in Int /\ index1 >= -1 /\ index2 \in Int /\ index2 <= pos
           /\ Len(data) \in Nat /\ Len(wire) \in Nat /\ pos <= Len(data) /\ index1 <= Len(data)
           /\ commandLen \in Int
           /\ pc \in {"recv", "find"} => index2 \in Nat
<1>1. data \in Seq((DOMAIN stream) \X Nat) /\ wire \in Seq((DOMAIN stream) \X Nat)
  BY DEF TypeOK
<1>2. Len(data) \in Nat /\ Len(wire) \in Nat
  BY <1>1
<1>3. commandLen \in Int
  BY StackAssumption DEF TypeOK
<1>4. pc \in {"recv", "find"} => index2 \in Nat
  BY DEF TypeOK
<1> QED  BY <1>2, <1>3, <1>4 DEF TypeOK

LEMMA TypeStep == TypeInv /\ [Next]_vars => TypeInv'
<1> SUFFICES ASSUME TypeInv, [Next]_vars PROVE TypeInv'
  OBVIOUS
<1> DEFINE S == (DOMAIN stream) \X Nat
<1>t. TypeOK /\ Measured
  BY DEF TypeInv
<1>0. data \in Seq(S) /\ wire \in Seq(S) /\ delivered \in Seq(DOMAIN stream)
  BY <1>t DEF TypeOK
<1>n. /\ pos \in Nat /\ index1 \in Int /\ index1 >= -1 /\ index2 \in Int /\ index2 <= pos
      /\ Len(data) \in Nat /\ Len(wire) \in Nat /\ pos <= Len(data) /\ index1 <= Len(data)
      /\ commandLen \in Int
      /\ pc \in {"recv", "find"} => index2 \in Nat
  BY <1>t, TypesOfNumbers
<1>1. ASSUME NEW n \in CutPoints, Recv(n) PROVE TypeInv'
  <2>1. n \in 1..Len(wire)
    BY <1>1 DEF CutPoints
  <2>2. /\ {wire', data'} \subseteq Seq(S)
        /\ pos' = pos + n /\ pos' \in 0..Len(data') /\ Len(data') >= Len(data)
    BY <1>1, <1>t, <2>1, RecvPuts
  <2>3. Len(data') \in Nat
    BY <2>2
  <2>4. index1 \in -1..Len(data') /\ index2 \in 0..pos'
    <3>1. index2 \in Nat
      BY <1>n, <1>1 DEF Recv
    <3> QED  BY <1>n, <2>1, <2>2, <2>3, <3>1
  <2>5. index2 \in Int /\ index2 <= pos' /\ ~ (index2 < 0)
    BY <2>2, <2>3, <2>4
  <2> QED  BY <1>1, <1>t, <2>2, <2>4, <2>5 DEF Recv, TypeOK, Measured, TypeInv
<1>2. CASE FindNothing
  <2>1. pos' \in 0..Len(data) /\ index2' \in 0..pos'
    BY <1>n, <1>2 DEF FindNothing
  <2> QED  BY <1>2, <1>t, <2>1 DEF FindNothing, TypeOK, Measured, TypeInv
<1>3. CASE FindHeader
  <2>0. index2 \in Nat
    BY <1>n, <1>3 DEF FindHeader
  <2> DEFINE found == Headers(index2)
             i == IF found # {} THEN Min(found) ELSE Max({index2, pos - 1})
             start == IF found # {} THEN i ELSE index1
  <2>1. i \in Nat /\ (found # {} => i <= pos)
    <3>1. CASE found # {}
      <4>1. Min(found) \in index2..(pos - 2)
        BY <1>t, <2>0, <3>1, HeadersIn
      <4> QED  BY <1>n, <2>0, <3>1, <4>1
    <3>2. CASE found = {}
      <4>1. Max({index2, pos - 1}) \in {index2, pos - 1} /\ Max({index2, pos - 1}) >= index2
        <5>1. \A x, y \in Int : Max({x, y}) \in {x, y} /\ Max({x, y}) >= x
          BY LargerOf
        <5>2. index2 \in Int /\ pos - 1 \in Int
          BY <1>n
        <5> QED  BY <5>1, <5>2
      <4>2. Max({index2, pos - 1}) \in Nat
        BY <1>n, <2>0, <4>1
      <4> QED  BY <3>2, <4>2
    <3> QED  BY <3>1, <3>2
  <2>2. /\ start >= 0 /\ index1' = start
        /\ IF pos - start < 7
             THEN pc' = "recv" /\ UNCHANGED <<index2, commandLen>>
             ELSE /\ commandLen' = LengthAt(i)
                  /\ IF commandLen' > pos - start
                       THEN pc' = "recv" /\ UNCHANGED index2
                       ELSE /\ pc' = "check"
                            /\ index2' = IF commandLen' < pos - start
                                           THEN start + commandLen' ELSE 0
    BY <1>3 DEF FindHeader
  <2>3. UNCHANGED <<stream, wire, data, past, pos, delivered>>
    BY <1>3 DEF FindHeader
  <2>4. start \in Nat /\ start <= Len(data)
    BY <1>n, <2>1, <2>2
  <2>5. commandLen' \in StackLens \cup 9..(255 + 19)
    <3>1. commandLen' = commandLen \/ commandLen' = LengthAt(i)
      BY <2>2
    <3> HIDE DEF i
    <3>2. LengthAt(i) = commandLen \/ LengthAt(i) \in 9..(255 + 19)
      BY <1>t, <2>1, LengthIs
    <3> QED  BY <1>t, <3>1, <3>2 DEF TypeOK
  <2>6. commandLen' \in Int
    BY <2>5, StackAssumption
  <2> HIDE DEF start, i
  <2>7. /\ index2' \in Int /\ index2' <= pos /\ (index2' < 0 => pc' = "check" /\ commandLen' < 0)
        /\ index1' \in -1..Len(data) /\ pc' \in {"recv", "check"}
        /\ pc' = "check" =>
             /\ index1' >= 0 /\ index1' + commandLen' <= pos
             /\ index2' = IF commandLen' < pos - index1' THEN index1' + commandLen' ELSE 0
    <3>1. PICK c : c = commandLen'
      OBVIOUS
    <3>2. c \in Int /\ index1' = start /\ start \in Nat /\ start <= Len(data)
      BY <2>2, <2>4, <2>6, <3>1
    <3>3. CASE pc' = "check"
      <4>1. c <= pos - start /\ index2' = IF c < pos - start THEN start + c ELSE 0
        BY <1>n, <2>2, <3>1, <3>2, <3>3
      <4>2. index2' \in Int /\ index2' <= pos /\ (index2' < 0 => c < 0)
        BY <1>n, <3>2, <4>1
      <4>3. start + c <= pos
        BY <1>n, <3>2, <4>1
      <4>4. index1' \in -1..Len(data)
        BY <1>n, <3>2
      <4>5. index1' >= 0 /\ index1' + commandLen' <= pos
        BY <3>1, <3>2, <4>3
      <4>6. index2' = IF commandLen' < pos - index1' THEN index1' + commandLen' ELSE 0
        BY <3>1, <3>2, <4>1
      <4> QED  BY <3>1, <3>3, <4>2, <4>4, <4>5, <4>6
    <3>4. CASE pc' # "check"
      <4>1. index2' = index2 /\ pc' = "recv"
        BY <2>2, <3>4
      <4> QED  BY <1>n, <2>0, <3>2, <4>1
    <3> QED  BY <3>3, <3>4
  <2> QED  BY <1>t, <2>3, <2>5, <2>7 DEF TypeOK, Measured, TypeInv
<1>4. CASE Deliver
  <2>1. \/ delivered' = Append(delivered, data[index1 + 1][1]) /\ commandLen > 3
        \/ delivered' = delivered
    BY <1>4 DEF Deliver
  <2>2. ASSUME commandLen > 3 PROVE data[index1 + 1] \in S
    <3>1. index1 + 1 \in 1..Len(data)
      BY <1>n, <1>t, <1>4, <2>2 DEF Deliver, Measured
    <3> QED  BY <1>0, <3>1
  <2>3. delivered' \in Seq(DOMAIN stream)
    <3>1. ASSUME commandLen > 3 PROVE data[index1 + 1][1] \in DOMAIN stream
      BY <2>2, <3>1
    <3>2. CASE delivered' = delivered
      BY <1>0, <3>2
    <3>3. CASE delivered' = Append(delivered, data[index1 + 1][1]) /\ commandLen > 3
      <4>1. PICK k \in DOMAIN stream : k = data[index1 + 1][1]
        BY <3>1, <3>3
      <4>2. delivered' = Append(delivered, k)
        BY <3>3, <4>1
      <4> QED  BY <1>0, <4>2
    <3> QED  BY <2>1, <3>2, <3>3
  <2> QED  BY <1>t, <1>4, <2>3 DEF Deliver, TypeOK, Measured, TypeInv
<1>5. CASE Resync
  <2>1. CASE Headers(index1 + 1) # {}
    <3>1. Min(Headers(index1 + 1)) \in (index1 + 1)..(pos - 2)
      <4>1. index1 + 1 \in Nat
        BY <1>n
      <4> QED  BY <1>t, <2>1, <4>1, HeadersIn
    <3>2. index1' = -1 /\ index2' = Min(Headers(index1 + 1)) /\ pos' = pos /\ pc' = "find"
      BY <1>5, <2>1 DEF Resync
    <3>3. index2' \in 0..pos /\ index1' \in -1..Len(data)
      BY <1>n, <3>1, <3>2
    <3> QED  BY <1>t, <1>5, <3>2, <3>3 DEF Resync, TypeOK, Measured, TypeInv
  <2>2. CASE Headers(index1 + 1) = {}
    <3>1. pos' = 0 /\ index2' = 0 /\ pc' = "recv" /\ index1' = index1
      BY <1>5, <2>2 DEF Resync
    <3>2. pos' \in 0..Len(data) /\ index2' \in 0..pos'
      BY <1>n, <3>1
    <3> QED  BY <1>t, <1>5, <3>1, <3>2 DEF Resync, TypeOK, Measured, TypeInv
  <2> QED  BY <2>1, <2>2
<1>6. CASE Shift
  <2>1. /\ pc' \in {"recv", "find"} /\ index1' = -1 /\ index2' = 0
        /\ UNCHANGED <<stream, wire, commandLen, delivered>>
    BY <1>6 DEF Shift, MoveToFront
  <2>2. CASE index2 < 0
    <3>1. UNCHANGED <<data, past, pos>>
      BY <1>6, <2>2 DEF Shift, MoveToFront
    <3>2. index1' \in -1..Len(data') /\ index2' \in Int /\ index2' <= pos' /\ ~ (index2' < 0)
      BY <1>n, <2>1, <3>1
    <3> QED  BY <1>t, <2>1, <3>1, <3>2 DEF TypeOK, Measured, TypeInv
  <2>3. CASE index2 >= 0
    <3>1. Following \in Seq(S) /\ Len(Following) \in Nat
      BY <1>t, <2>3, FollowingIs
    <3>2. data' = Following /\ past' = 0 /\ pos' = Len(Following)
      BY <1>n, <1>6, <2>3 DEF Shift, MoveToFront
    <3>3. pos' \in 0..Len(data') /\ index1' \in -1..Len(data') /\ index2' \in 0..pos'
      BY <2>1, <3>1, <3>2
    <3> QED  BY <1>t, <2>1, <3>1, <3>2, <3>3 DEF TypeOK, Measured, TypeInv
  <2> QED  BY <1>n, <2>2, <2>3
<1>7. ASSUME NEW n \in ResumePoints PROVE SubSeq(wire, n + 1, Len(wire)) \in Seq(S)
  <2>1. n + 1 \in Nat \ {0} /\ Len(wire) \in 0..Len(wire)
    BY <1>n DEF ResumePoints
  <2> HIDE DEF S
  <2> QED  BY <1>0, <2>1, PartOf
<1>8. ASSUME NEW n \in ResumePoints, ConnectionLost(n) PROVE TypeInv'
  <2>1. data' \in Seq(S)
    <3>1. data' = data \/ data' = <<>>
      BY <1>8 DEF ConnectionLost
    <3>2. <<>> \in Seq(S)
      OBVIOUS
    <3> QED  BY <1>0, <3>1, <3>2
  <2>2. Len(data') \in Nat /\ pos' = 0 /\ index1' = -1 /\ index2' = 0
    BY <1>8, <2>1 DEF ConnectionLost
  <2>3. pos' \in 0..Len(data') /\ index1' \in -1..Len(data') /\ index2' \in 0..pos'
    BY <2>2
  <2>4. /\ stream' = stream /\ delivered' = delivered /\ pc' = "recv"
        /\ wire' = SubSeq(wire, n + 1, Len(wire))
        /\ commandLen' \in StackLens \cup {commandLen} /\ past' \in StackBytes \cup {past}
    BY <1>8 DEF ConnectionLost
  <2>5. wire' \in Seq(S)
    BY <1>7, <2>4
  <2>6. {wire', data'} \subseteq Seq(S)
    <3> HIDE DEF S
    <3> QED  BY <2>1, <2>5
  <2>7. /\ stream' \in Streams /\ past' \in StackBytes \cup {0}
        /\ commandLen' \in StackLens \cup 9..(255 + 19) /\ delivered' \in Seq(DOMAIN stream')
    BY <1>t, <2>4 DEF TypeOK
  <2>8. TypeOK'
    BY <2>2, <2>3, <2>4, <2>6, <2>7 DEF TypeOK
  <2> QED  BY <2>4, <2>8 DEF Measured, TypeInv
<1>9. ASSUME NEW n \in ResumePoints, ConnectionReplaced(n) PROVE TypeInv'
  BY <1>t, <1>7, <1>9 DEF ConnectionReplaced, TypeOK, Measured, TypeInv
<1>10. CASE UNCHANGED vars
  BY <1>t, <1>10 DEF vars, TypeOK, Measured, TypeInv
<1> QED
  BY <1>1, <1>2, <1>3, <1>4, <1>5, <1>6, <1>8, <1>9, <1>10 DEF Next, Step, Receive, Fail

LEMMA TypeInit == Init => TypeInv
<1> SUFFICES ASSUME Init PROVE TypeInv
  OBVIOUS
<1>1. stream \in Seq(Frames)
  BY StreamsAssumption DEF Init
<1>2. BytesOf(stream, Len(stream)) \subseteq (DOMAIN stream) \X Nat
  BY <1>1 DEF BytesOf
<1>3. Whole \in Seq((DOMAIN stream) \X Nat)
  BY <1>1, <1>2, WholeHasShape DEF Shape
<1> QED  BY <1>3 DEF Init, TypeOK, Measured, TypeInv

(* Whatever the connection brings, loses and replaces, the loop stays      *)
(* within its buffer: every position it keeps is one that it has filled.   *)
THEOREM TypeCorrect == Spec => []TypeOK
<1>1. TypeInv => TypeOK
  BY DEF TypeInv
<1> QED  BY <1>1, TypeInit, TypeStep, PTL DEF Spec

(***************************************************************************)
(* The bytes that the loop has not given up yet: the valid ones of         *)
(* Recv_Data, then those on the wire.                                      *)
(***************************************************************************)
Left == [i \in 1..(pos + Len(wire)) |-> IF i <= pos THEN data[i] ELSE wire[i - pos]]

(* A step gives up the first m of them and leaves the others as they are.  *)
GivesUp(m) ==
    /\ m \in Nat
    /\ DOMAIN Left' = 1..(pos + Len(wire) - m)
    /\ \A i \in DOMAIN Left' : i + m \in DOMAIN Left /\ Left'[i] = Left[i + m]

LEMMA ShiftedRange ==
    ASSUME NEW p \in Nat, NEW l \in Nat, NEW q \in Nat, NEW k \in Nat, NEW m \in Nat,
           q + k = p + l - m
    PROVE  \A i \in 1..(q + k) : /\ i + m \in 1..(p + l)
                                 /\ i > q => i - q \in 1..k /\ q + (i - q) + m = i + m
  OBVIOUS

LEMMA LeftMoves ==
    ASSUME NEW m \in Nat, {pos, pos', Len(wire), Len(wire')} \subseteq Nat,
           pos' + Len(wire') = pos + Len(wire) - m,
           \A i \in 1..pos' : data'[i] = Left[i + m],
           \A j \in 1..Len(wire') : wire'[j] = Left[pos' + j + m]
    PROVE  GivesUp(m)
<1>1. PICK p, l, q, k : p = pos /\ l = Len(wire) /\ q = pos' /\ k = Len(wire')
  OBVIOUS
<1>2. p \in Nat /\ l \in Nat /\ q \in Nat /\ k \in Nat /\ q + k = p + l - m
  BY <1>1
<1>3. Left' = [i \in 1..(q + k) |-> IF i <= q THEN data'[i] ELSE wire'[i - q]]
  BY <1>1 DEF Left
<1>4. DOMAIN Left = 1..(p + l) /\ DOMAIN Left' = 1..(q + k)
  BY <1>1 DEF Left
<1>5. ASSUME NEW i \in DOMAIN Left' PROVE i + m \in DOMAIN Left /\ Left'[i] = Left[i + m]
  <2>0. i \in 1..(q + k)
    BY <1>4
  <2>1. i \in 1..(q + k) /\ i + m \in 1..(p + l)
    BY <1>2, <2>0, ShiftedRange
  <2>2. CASE i <= q
    <3>1. i \in 1..q /\ Left'[i] = data'[i]
      BY <1>2, <1>3, <2>1, <2>2
    <3> QED  BY <1>1, <1>4, <2>1, <3>1
  <2>3. CASE i > q
    <3>1. i - q \in 1..k /\ q + (i - q) + m = i + m
      BY <1>2, <2>0, <2>3, ShiftedRange
    <3>2. Left'[i] = wire'[i - q]
      BY <1>2, <1>3, <2>1, <2>3
    <3>3. wire'[i - q] = Left[q + (i - q) + m]
      BY <1>1, <3>1
    <3> QED  BY <1>4, <2>1, <3>1, <3>2, <3>3
  <2> QED  BY <1>2, <2>1, <2>2, <2>3
<1>6. DOMAIN Left' = 1..(pos + Len(wire) - m)
  BY <1>1, <1>2, <1>4
<1> QED  BY <1>5, <1>6 DEF GivesUp

LEMMA LeftIs ==
    ASSUME TypeOK
    PROVE  /\ DOMAIN Left = 1..(pos + Len(wire))
           /\ \A i \in 1..pos : Left[i] = data[i]
           /\ \A j \in 1..Len(wire) : Left[pos + j] = wire[j]
<1>1. pos \in Nat /\ Len(wire) \in Nat
  BY TypesOfNumbers
<1>2. PICK l : l = Len(wire)
  OBVIOUS
<1>3. Left = [i \in 1..(pos + l) |-> IF i <= pos THEN data[i] ELSE wire[i - pos]]
  BY <1>2 DEF Left
<1>4. ASSUME NEW j \in 1..l PROVE Left[pos + j] = wire[j]
  <2>1. pos + j \in 1..(pos + l) /\ ~ (pos + j <= pos) /\ (pos + j) - pos = j
    BY <1>1, <1>2
  <2> QED  BY <1>3, <2>1
<1>5. ASSUME NEW i \in 1..pos PROVE Left[i] = data[i]
  <2>1. i \in 1..(pos + l) /\ i <= pos
    BY <1>1, <1>2
  <2> QED  BY <1>3, <2>1
<1> QED  BY <1>2, <1>3, <1>4, <1>5

LEMMA RecvGivesUpNothing ==
    ASSUME TypeOK, NEW n \in CutPoints, Recv(n) PROVE GivesUp(0)
<1>1. n \in 1..Len(wire)
  BY DEF CutPoints
<1>2. /\ {wire', data'} \subseteq Seq((DOMAIN stream) \X Nat)
      /\ Len(wire') = Len(wire) - n /\ \A i \in 1..(Len(wire) - n) : wire'[i] = wire[n + i]
      /\ pos' = pos + n
      /\ \A i \in 1..pos : data'[i] = data[i]
      /\ \A i \in 1..n : data'[pos + i] = wire[i]
  BY <1>1, RecvPuts
<1>3. PICK l, k : l = Len(wire) /\ k = Len(wire')
  OBVIOUS
<1>4. pos \in Nat /\ l \in Nat /\ n \in 1..l /\ k = l - n /\ pos' = pos + n
  BY <1>1, <1>2, <1>3, TypesOfNumbers
<1>5. ASSUME NEW i \in 1..pos' PROVE data'[i] = Left[i + 0]
  <2>0. i + 0 = i
    BY <1>4
  <2>1. CASE i <= pos
    <3>1. i \in 1..pos
      BY <1>4, <2>1
    <3> QED  BY <1>2, <2>0, <3>1, LeftIs
  <2>2. CASE i > pos
    <3>1. i - pos \in 1..n /\ i - pos \in 1..l /\ pos + (i - pos) = i
      BY <1>4, <2>2
    <3>2. data'[pos + (i - pos)] = wire[i - pos]
      BY <1>2, <3>1
    <3>3. Left[pos + (i - pos)] = wire[i - pos]
      BY <1>3, <3>1, LeftIs
    <3> QED  BY <2>0, <3>1, <3>2, <3>3
  <2> QED  BY <1>4, <2>1, <2>2
<1>6. ASSUME NEW j \in 1..k PROVE wire'[j] = Left[pos' + j + 0]
  <2>1. n + j \in 1..l /\ j \in 1..(l - n) /\ pos' + j + 0 = pos + (n + j)
    BY <1>4
  <2> QED  BY <1>2, <1>3, <2>1, LeftIs
<1>7. {pos, pos', Len(wire), Len(wire')} \subseteq Nat /\ pos' + Len(wire') = pos + Len(wire) - 0
  BY <1>3, <1>4
<1> QED  BY <1>3, <1>5, <1>6, <1>7, LeftMoves

(* Nothing is given up while neither the buffer nor the wire changes.      *)
LEMMA LeftAsItWas ==
    ASSUME TypeOK, UNCHANGED <<pos, data, wire>> PROVE GivesUp(0)
<1>1. pos \in Nat /\ Len(wire) \in Nat /\ Left' = Left
  BY TypesOfNumbers DEF Left
<1>2. \A i \in DOMAIN Left : i + 0 = i
  BY <1>1, LeftIs
<1>3. DOMAIN Left' = 1..(pos + Len(wire) - 0)
  BY <1>1, LeftIs
<1> QED  BY <1>1, <1>2, <1>3 DEF GivesUp

LEMMA LeftOnWire ==
    ASSUME TypeOK, pos' = 0, wire' = wire PROVE GivesUp(pos)
<1>1. PICK l : l = Len(wire)
  OBVIOUS
<1>2. pos \in Nat /\ l \in Nat
  BY <1>1, TypesOfNumbers
<1>3. {pos, pos', Len(wire), Len(wire')} \subseteq Nat /\ pos' + Len(wire') = pos + Len(wire) - pos
  BY <1>1, <1>2
<1>4. ASSUME NEW j \in 1..l PROVE wire'[j] = Left[pos' + j + pos]
  <2>1. pos' + j + pos = pos + j
    BY <1>2
  <2> QED  BY <1>1, <2>1, LeftIs
<1>5. \A i \in 1..pos' : data'[i] = Left[i + pos]
  OBVIOUS
<1> QED  BY <1>1, <1>2, <1>3, <1>4, <1>5, LeftMoves

(* The bytes up to the end of the frame just executed. *)
Consumed == IF index2 = 0 THEN pos ELSE IF index2 < 0 THEN 0 ELSE index2

LEMMA ShiftGivesUpTheFrame ==
    ASSUME TypeOK, Shift PROVE GivesUp(Consumed)
<1>0. CASE index2 < 0
  <2>1. UNCHANGED <<pos, data, wire>>
    BY <1>0 DEF Shift, MoveToFront
  <2>2. Consumed = 0
    BY <1>0 DEF Consumed
  <2> QED  BY <2>1, <2>2, LeftAsItWas
<1>h. SUFFICES ASSUME index2 >= 0 PROVE GivesUp(Consumed)
  BY <1>0, TypesOfNumbers
<1>1. PICK l, c : l = Len(wire) /\ c = Consumed
  OBVIOUS
<1>2. pos \in Nat /\ l \in Nat /\ c \in 0..pos /\ c \in Nat
  BY <1>1, TypesOfNumbers DEF Consumed
<1>3. /\ Following \in Seq((DOMAIN stream) \X Nat)
      /\ Len(Following) = pos - c
      /\ \A i \in 1..Len(Following) : Following[i] = data[c + i]
  <2>1. /\ Following \in Seq((DOMAIN stream) \X Nat)
        /\ Len(Following) = IF index2 = 0 THEN 0 ELSE pos - index2
        /\ \A i \in 1..Len(Following) : Following[i] = data[index2 + i]
    BY <1>h, FollowingIs
  <2>2. CASE index2 = 0
    BY <1>1, <1>2, <2>1, <2>2 DEF Consumed
  <2>3. CASE index2 # 0
    <3>1. c = index2
      BY <1>1, <1>h, <2>3, TypesOfNumbers DEF Consumed
    <3> QED  BY <1>2, <2>1, <2>3, <3>1
  <2> QED  BY <2>2, <2>3
<1>4. data' = Following /\ pos' = pos - c /\ wire' = wire
  BY <1>3, <1>h, TypesOfNumbers DEF Shift, MoveToFront
<1>5. ASSUME NEW i \in 1..pos' PROVE data'[i] = Left[i + c]
  <2>1. i \in 1..(pos - c) /\ c + i \in 1..pos /\ i + c = c + i
    BY <1>2, <1>4
  <2> QED  BY <1>3, <1>4, <2>1, LeftIs
<1>6. ASSUME NEW j \in 1..l PROVE wire'[j] = Left[pos' + j + c]
  <2>1. pos' + j + c = pos + j
    BY <1>2, <1>4
  <2> QED  BY <1>1, <1>4, <2>1, LeftIs
<1>7. {pos, pos', Len(wire), Len(wire')} \subseteq Nat /\ pos' + Len(wire') = pos + Len(wire) - c
  BY <1>1, <1>2, <1>4
<1> QED  BY <1>1, <1>2, <1>4, <1>5, <1>6, <1>7, LeftMoves

(***************************************************************************)
(* Soundness.  What a step leaves of the bytes is in the order they had,   *)
(* and it comes after the frames that were executed.                       *)
(***************************************************************************)
Thins(f) ==
    /\ f \in [DOMAIN Left' -> DOMAIN Left]
    /\ \A i, j \in DOMAIN Left' : i < j => f[i] < f[j]
    /\ \A i \in DOMAIN Left' : f[i] >= i /\ Left'[i] = Left[f[i]]

SentInOrder ==
    /\ \A i \in DOMAIN Left : Left[i] \in BytesOf(stream, Len(stream))
    /\ InOrder(Left)

OnlyLater ==
    \A d \in DOMAIN delivered, i \in DOMAIN Left :
        (pc = "next" => i > Consumed) => delivered[d] < Left[i][1]

SoundInv == TypeInv /\ SentInOrder /\ OnlyLater /\ ExecutedInOrder

LEMMA GivingUpThins ==
    ASSUME TypeOK, NEW m, GivesUp(m)
    PROVE  \E f : Thins(f) /\ \A i \in DOMAIN Left' : f[i] = i + m
<1> DEFINE f == [i \in DOMAIN Left' |-> i + m]
<1>1. /\ pos \in Nat /\ Len(wire) \in Nat /\ m \in Nat
      /\ DOMAIN Left' = 1..(pos + Len(wire) - m)
      /\ \A i \in DOMAIN Left' : i + m \in DOMAIN Left /\ Left'[i] = Left[i + m]
  BY TypesOfNumbers DEF GivesUp
<1>2. DOMAIN Left' \subseteq Nat
  BY <1>1
<1>3. f \in [DOMAIN Left' -> DOMAIN Left]
  BY <1>1
<1>4. \A i, j \in DOMAIN Left' : i < j => f[i] < f[j]
  BY <1>1, <1>2
<1>5. \A i \in DOMAIN Left' : f[i] >= i /\ Left'[i] = Left[f[i]]
  BY <1>1, <1>2
<1>6. \A i \in DOMAIN Left' : f[i] = i + m
  OBVIOUS
<1>7. Thins(f)
  <2> HIDE DEF f
  <2> QED  BY <1>3, <1>4, <1>5 DEF Thins
<1> HIDE DEF f
<1> QED  BY <1>6, <1>7

LEMMA ThinnedIsInOrder ==
    ASSUME SentInOrder, NEW f, Thins(f), stream' = stream PROVE SentInOrder'
<1>1. \A i \in DOMAIN Left' : f[i] \in DOMAIN Left /\ Left'[i] = Left[f[i]]
  BY DEF Thins
<1>2. \A i \in DOMAIN Left' : Left'[i] \in BytesOf(stream, Len(stream))
  BY <1>1 DEF SentInOrder
<1>3. ASSUME NEW i \in DOMAIN Left', NEW j \in DOMAIN Left', i < j
      PROVE  Before(Left'[i], Left'[j])
  <2>1. f[i] < f[j]
    BY <1>3 DEF Thins
  <2> QED  BY <1>1, <2>1 DEF SentInOrder, InOrder
<1>4. PICK l : l = Left'
  OBVIOUS
<1>5. InOrder(l)
  BY <1>3, <1>4 DEF InOrder
<1>6. \A i \in DOMAIN l : l[i] \in BytesOf(stream', Len(stream'))
  BY <1>2, <1>4
<1> QED  BY <1>4, <1>5, <1>6 DEF SentInOrder, InOrder

LEMMA ThinnedIsLater ==
    ASSUME TypeOK, TypeOK', OnlyLater, NEW f, Thins(f), delivered' = delivered,
           pc' = "next" => pc = "next" /\ Consumed' = Consumed,
           pc = "next" /\ pc' # "next" => \A i \in DOMAIN Left' : f[i] > Consumed
    PROVE  OnlyLater'
<1>1. \A i \in DOMAIN Left' : f[i] \in DOMAIN Left /\ f[i] >= i /\ Left'[i] = Left[f[i]]
  BY DEF Thins
<1>2. /\ DOMAIN Left \subseteq Nat /\ DOMAIN Left' \subseteq Nat /\ Consumed \in Nat
  <2>1. pos \in Nat /\ Len(wire) \in Nat /\ index2 \in Int
    BY TypesOfNumbers
  <2>2. DOMAIN Left \subseteq Nat
    BY <2>1, LeftIs
  <2>3. DOMAIN Left' \subseteq Nat
    <3>1. PICK q, k : q = pos' /\ k = Len(wire')
      OBVIOUS
    <3>2. DOMAIN Left' = 1..(q + k)
      BY <3>1 DEF Left
    <3>3. q \in Nat /\ k \in Nat
      <4>1. wire' \in Seq((DOMAIN stream') \X Nat) /\ data' \in Seq((DOMAIN stream') \X Nat)
            /\ pos' \in 0..Len(data')
        BY DEF TypeOK
      <4> QED  BY <3>1, <4>1
    <3> QED  BY <3>2, <3>3
  <2> QED  BY <2>1, <2>2, <2>3 DEF Consumed
<1>3. ASSUME NEW d \in DOMAIN delivered, NEW i \in DOMAIN Left', pc' = "next" => i > Consumed'
      PROVE  delivered[d] < Left'[i][1]
  <2>1. pc = "next" => f[i] > Consumed
    <3>1. f[i] \in Nat /\ i \in Nat /\ f[i] >= i
      BY <1>1, <1>2
    <3>2. CASE pc' = "next"
      BY <1>2, <1>3, <3>1, <3>2
    <3> QED  BY <3>2
  <2> QED  BY <1>1, <2>1 DEF OnlyLater
<1> QED  BY <1>3 DEF OnlyLater

(* A delivered frame is one that stands whole in the buffer.               *)
LEMMA DeliverIs ==
    ASSUME SoundInv, commandLen > 3, Deliver
    PROVE  LET k == data[index1 + 1][1] IN
           /\ k \in DOMAIN stream /\ stream[k].good /\ delivered' = Append(delivered, k)
           /\ index1 \in Nat /\ commandLen = LenOf(stream, k) /\ index1 + commandLen <= pos
           /\ Consumed = index1 + commandLen
           /\ \A o \in 0..(commandLen - 1) : Left[index1 + 1 + o] = <<k, o>>
<1> DEFINE k == data[index1 + 1][1]
           S == (DOMAIN stream) \X Nat
<1>1. /\ TypeOK /\ index1 \in Nat /\ index1 + commandLen <= pos /\ commandLen \in Nat \ {0}
      /\ pos \in Nat /\ Len(data) \in Nat /\ pos <= Len(data)
      /\ data \in Seq(S)
      /\ index2 = IF commandLen < pos - index1 THEN index1 + commandLen ELSE 0
  <2>1. TypeOK /\ Measured /\ pc = "check"
    BY DEF SoundInv, TypeInv, Deliver
  <2>2. data \in Seq(S) /\ pos \in 0..Len(data)
    BY <2>1 DEF TypeOK
  <2>3. Len(data) \in Nat
    <3> HIDE DEF S
    <3> QED  BY <2>2
  <2> HIDE DEF S
  <2>4. pos \in Nat /\ pos <= Len(data)
    BY <2>2, <2>3
  <2>5. /\ index1 \in Nat /\ index1 + commandLen <= pos /\ commandLen \in Nat \ {0}
        /\ index2 = IF commandLen < pos - index1 THEN index1 + commandLen ELSE 0
    BY <2>1, TypesOfNumbers DEF Measured
  <2> QED  BY <2>1, <2>2, <2>3, <2>4, <2>5
<1>3. stream[k].good /\ SubSeq(data, index1 + 1, index1 + commandLen) = Bytes(stream[k], k)
  BY DEF Deliver, ChecksumAnswers
<1>4. k \in DOMAIN stream
  <2>1. index1 + 1 \in 1..Len(data)
    BY <1>1
  <2>2. data[index1 + 1] \in S
    BY <1>1, <2>1
  <2> QED  BY <2>2
<1>5. LenOf(stream, k) \in 5..263
  <2>1. stream \in Seq(Frames)
    BY <1>1, StreamsAssumption DEF TypeOK
  <2> HIDE DEF k
  <2> QED  BY <1>4, <2>1, LengthsAreNat
<1>6. PICK l \in Nat : l = LenOf(stream, k)
  BY <1>5
<1>7. PICK b : b = Bytes(stream[k], k)
  OBVIOUS
<1> HIDE DEF k
<1>8. b = [o \in 1..l |-> <<k, o - 1>>]
  BY <1>6, <1>7 DEF Bytes, LenOf
<1>9. b = SubSeq(data, index1 + 1, index1 + commandLen)
  BY <1>3, <1>7
<1>10. /\ Len(b) = commandLen
       /\ \A i \in 1..commandLen : b[i] = data[index1 + i]
  <2> HIDE DEF S
  <2>1. index1 + 1 \in Nat \ {0} /\ index1 + commandLen \in 0..Len(data)
    BY <1>1
  <2>2. /\ Len(b) = IF index1 + 1 <= index1 + commandLen
                      THEN index1 + commandLen - (index1 + 1) + 1 ELSE 0
        /\ \A i \in 1..(index1 + commandLen - (index1 + 1) + 1) :
               b[i] = data[(index1 + 1) + i - 1]
    <3>1. b \in Seq(S)
      BY <1>1, <1>9, <2>1, PartOf
    <3> QED  BY <1>1, <1>9, <2>1, PartOf
  <2>3. index1 + commandLen - (index1 + 1) + 1 = commandLen
    BY <1>1
  <2>4. ASSUME NEW i \in 1..commandLen PROVE b[i] = data[index1 + i]
    <3>1. (index1 + 1) + i - 1 = index1 + i
      BY <1>1
    <3> QED  BY <2>2, <2>3, <3>1
  <2> QED  BY <1>1, <2>2, <2>3, <2>4
<1>11. Len(b) = l
  BY <1>8
<1>12. ASSUME NEW o \in 0..(commandLen - 1) PROVE Left[index1 + 1 + o] = <<k, o>>
  <2>1. /\ o + 1 \in 1..commandLen /\ (o + 1) - 1 = o /\ index1 + 1 + o = index1 + (o + 1)
        /\ index1 + (o + 1) \in 1..pos
    BY <1>1
  <2>2. b[o + 1] = <<k, o>>
    BY <1>8, <1>10, <1>11, <2>1
  <2>3. b[o + 1] = data[index1 + (o + 1)]
    BY <1>10, <2>1
  <2>4. Left[index1 + (o + 1)] = data[index1 + (o + 1)]
    BY <1>1, <2>1, LeftIs
  <2> QED  BY <2>1, <2>2, <2>3, <2>4
<1>13. Consumed = index1 + commandLen
  BY <1>1 DEF Consumed
<1>14. delivered' = Append(delivered, k)
  BY DEF Deliver, k
<1> QED  BY <1>1, <1>3, <1>4, <1>6, <1>10, <1>11, <1>12, <1>13, <1>14 DEF k

LEMMA DeliverIsSound ==
    ASSUME SoundInv, commandLen > 3, Deliver PROVE OnlyLater' /\ ExecutedInOrder'
<1> DEFINE k == data[index1 + 1][1]
<1>1. /\ k \in DOMAIN stream /\ stream[k].good /\ delivered' = Append(delivered, k)
      /\ index1 \in Nat /\ commandLen = LenOf(stream, k) /\ index1 + commandLen <= pos
      /\ Consumed = index1 + commandLen
      /\ \A o \in 0..(commandLen - 1) : Left[index1 + 1 + o] = <<k, o>>
  BY DeliverIs
<1> HIDE DEF k
<1>2. TypeOK /\ SentInOrder /\ OnlyLater /\ ExecutedInOrder /\ pc = "check" /\ pc' = "next"
  BY DEF SoundInv, TypeInv, Deliver
<1>3. /\ pos \in Nat /\ Len(wire) \in Nat /\ commandLen \in Nat \ {0}
      /\ DOMAIN Left = 1..(pos + Len(wire))
      /\ delivered \in Seq(DOMAIN stream) /\ DOMAIN stream \subseteq Nat
  <2>1. DOMAIN stream \subseteq Nat
    BY <1>2, StreamsAssumption DEF TypeOK
  <2> QED  BY <1>2, <2>1, TypesOfNumbers, LeftIs DEF TypeOK
<1>4. Left' = Left /\ Consumed' = Consumed /\ stream' = stream
  BY DEF Deliver, Left, Consumed
<1>5. PICK n \in Nat : n = Len(delivered)
  BY <1>3
<1>a. /\ index1 \in Nat /\ commandLen \in Nat /\ commandLen > 0 /\ pos \in Nat
      /\ index1 + commandLen <= pos
  BY <1>1, <1>3
<1>b. \A e \in 1..pos : e \in DOMAIN Left
  BY <1>3
<1>6. /\ DOMAIN delivered' = 1..(n + 1) /\ delivered'[n + 1] = k
      /\ \A d \in 1..n : d \in DOMAIN delivered /\ delivered'[d] = delivered[d]
  BY <1>1, <1>3, <1>5
<1>7. ASSUME NEW i \in DOMAIN Left, i > Consumed PROVE k < Left[i][1]
  <2>1. PICK e \in Nat : e = index1 + commandLen /\ e \in DOMAIN Left /\ e < i
    <3>1. index1 + commandLen \in Nat /\ index1 + commandLen \in 1..pos
      BY <1>a
    <3>2. index1 + commandLen \in DOMAIN Left
      BY <1>b, <3>1
    <3> QED  BY <1>1, <1>7, <3>1, <3>2
  <2>2. commandLen - 1 \in 0..(commandLen - 1) /\ index1 + 1 + (commandLen - 1) = e
    BY <1>a, <2>1
  <2>3. Left[e] = <<k, commandLen - 1>>
    BY <1>1, <2>2
  <2>4. Before(Left[e], Left[i])
    BY <1>2, <2>1 DEF SentInOrder, InOrder
  <2>5. k < Left[i][1] \/ (k = Left[i][1] /\ commandLen - 1 < Left[i][2])
    BY <2>3, <2>4 DEF Before
  <2>6. Left[i][2] \in Nat /\ Left[i][2] < LenOf(stream, Left[i][1])
    <3>1. Left[i] \in BytesOf(stream, Len(stream))
      BY <1>2 DEF SentInOrder
    <3> QED  BY <3>1 DEF BytesOf
  <2>7. CASE k = Left[i][1] /\ commandLen - 1 < Left[i][2]
    <3>1. Left[i][2] < commandLen
      BY <1>1, <2>6, <2>7
    <3> QED  BY <1>a, <2>6, <2>7, <3>1
  <2> QED  BY <2>5, <2>7
<1>8. ASSUME NEW d \in 1..n PROVE delivered[d] < k
  <2>1. index1 + 1 \in DOMAIN Left
    <3>1. index1 + 1 \in 1..pos
      BY <1>a
    <3> QED  BY <1>b, <3>1
  <2>2. Left[index1 + 1 + 0] = <<k, 0>>
    <3>1. 0 \in 0..(commandLen - 1)
      BY <1>3
    <3> QED  BY <1>1, <3>1
  <2>3. index1 + 1 + 0 = index1 + 1
    BY <1>1
  <2>4. delivered[d] < Left[index1 + 1][1]
    BY <1>2, <1>6, <2>1 DEF OnlyLater
  <2> QED  BY <2>2, <2>3, <2>4
<1>9. OnlyLater'
  <2>1. ASSUME NEW d \in 1..(n + 1), NEW i \in DOMAIN Left, i > Consumed
        PROVE  delivered'[d] < Left[i][1]
    <3>1. CASE d \in 1..n
      BY <1>2, <1>6, <3>1 DEF OnlyLater
    <3>2. CASE d = n + 1
      BY <1>6, <1>7, <2>1, <3>2
    <3> QED  BY <1>5, <3>1, <3>2
  <2> QED  BY <1>2, <1>4, <1>6, <2>1 DEF OnlyLater
<1>10. ExecutedInOrder'
  <2>1. ASSUME NEW d \in 1..(n + 1) PROVE stream[delivered'[d]].good
    <3>1. CASE d \in 1..n
      BY <1>2, <1>6, <3>1 DEF ExecutedInOrder
    <3>2. CASE d = n + 1
      BY <1>1, <1>6, <3>2
    <3> QED  BY <1>5, <3>1, <3>2
  <2>2. ASSUME NEW c \in 1..(n + 1), NEW d \in 1..(n + 1), c < d
        PROVE  delivered'[c] < delivered'[d]
    <3>1. c \in 1..n
      BY <1>5, <2>2
    <3>2. CASE d \in 1..n
      BY <1>2, <1>6, <2>2, <3>1, <3>2 DEF ExecutedInOrder
    <3>3. CASE d = n + 1
      BY <1>6, <1>8, <3>1, <3>3
    <3> QED  BY <1>5, <3>2, <3>3
  <2> QED  BY <1>4, <1>6, <2>1, <2>2 DEF ExecutedInOrder
<1> QED  BY <1>9, <1>10

LEMMA LostIs ==
    ASSUME TypeOK, NEW n \in ResumePoints, ConnectionLost(n) PROVE \E m : GivesUp(m)
<1> DEFINE w == SubSeq(wire, n + 1, Len(wire))
           S == (DOMAIN stream) \X Nat
<1>0. wire \in Seq(S)
  BY DEF TypeOK
<1>1. pos \in Nat /\ Len(wire) \in Nat /\ n \in 0..Len(wire) /\ pos' = 0 /\ wire' = w
  BY TypesOfNumbers DEF ResumePoints, ConnectionLost
<1> HIDE DEF S
<1>2. Len(w) = Len(wire) - n /\ \A j \in 1..(Len(wire) - n) : w[j] = wire[n + j]
  <2>1. n + 1 \in Nat \ {0} /\ Len(wire) \in 0..Len(wire)
    BY <1>1
  <2>2. /\ Len(w) = IF n + 1 <= Len(wire) THEN Len(wire) - (n + 1) + 1 ELSE 0
        /\ \A j \in 1..(Len(wire) - (n + 1) + 1) : w[j] = wire[(n + 1) + j - 1]
    BY <1>0, <2>1, PartOf
  <2> QED  BY <1>1, <2>2
<1> HIDE DEF w
<1>3. PICK l, k : l = Len(wire) /\ k = Len(wire')
  OBVIOUS
<1>4. l \in Nat /\ n \in Nat /\ n <= l /\ k = l - n /\ k \in Nat
  BY <1>1, <1>2, <1>3
<1>5. ASSUME NEW j \in 1..k PROVE wire'[j] = Left[pos' + j + (pos + n)]
  <2>1. j \in 1..(l - n) /\ n + j \in 1..l /\ pos' + j + (pos + n) = pos + (n + j)
    BY <1>1, <1>4
  <2>2. wire'[j] = wire[n + j]
    BY <1>1, <1>2, <1>3, <2>1
  <2> QED  BY <1>3, <2>1, <2>2, LeftIs
<1>6. \A i \in 1..pos' : data'[i] = Left[i + (pos + n)]
  BY <1>1
<1>7. {pos, pos', Len(wire), Len(wire')} \subseteq Nat
      /\ pos' + Len(wire') = pos + Len(wire) - (pos + n)
  BY <1>1, <1>3, <1>4
<1>8. pos + n \in Nat
  BY <1>1, <1>4
<1> QED  BY <1>3, <1>5, <1>6, <1>7, <1>8, LeftMoves

LEMMA ReplacedThins ==
    ASSUME TypeOK, NEW n \in ResumePoints, ConnectionReplaced(n) PROVE \E f : Thins(f)
<1> DEFINE w == SubSeq(wire, n + 1, Len(wire))
           S == (DOMAIN stream) \X Nat
<1>0. wire \in Seq(S)
  BY DEF TypeOK
<1>1. /\ pos \in Nat /\ Len(wire) \in Nat /\ n \in 0..Len(wire)
      /\ pos' = pos /\ data' = data /\ wire' = w
  BY TypesOfNumbers DEF ResumePoints, ConnectionReplaced
<1> HIDE DEF S
<1>2. Len(w) = Len(wire) - n /\ \A j \in 1..(Len(wire) - n) : w[j] = wire[n + j]
  <2>1. n + 1 \in Nat \ {0} /\ Len(wire) \in 0..Len(wire)
    BY <1>1
  <2>2. /\ Len(w) = IF n + 1 <= Len(wire) THEN Len(wire) - (n + 1) + 1 ELSE 0
        /\ \A j \in 1..(Len(wire) - (n + 1) + 1) : w[j] = wire[(n + 1) + j - 1]
    BY <1>0, <2>1, PartOf
  <2> QED  BY <1>1, <2>2
<1> HIDE DEF w
<1>3. PICK l, k : l = Len(wire) /\ k = Len(wire')
  OBVIOUS
<1>4. l \in Nat /\ n \in Nat /\ n <= l /\ k = l - n /\ k \in Nat
  BY <1>1, <1>2, <1>3
<1>5. /\ DOMAIN Left = 1..(pos + l)
      /\ Left' = [i \in 1..(pos + k) |-> IF i <= pos THEN data[i] ELSE wire'[i - pos]]
  BY <1>1, <1>3 DEF Left
<1> DEFINE f == [i \in 1..(pos + k) |-> IF i <= pos THEN i ELSE i + n]
<1>6. f \in [DOMAIN Left' -> DOMAIN Left]
  <2>1. \A i \in 1..(pos + k) : i \in 1..(pos + l) /\ i + n \in 1..(pos + l)
    BY <1>1, <1>4
  <2> QED  BY <1>5, <2>1
<1>7. \A i, j \in DOMAIN Left' : i < j => f[i] < f[j]
  <2>1. ASSUME NEW i \in 1..(pos + k), NEW j \in 1..(pos + k), i < j PROVE f[i] < f[j]
    BY <1>1, <1>4, <2>1
  <2> QED  BY <1>5, <2>1
<1>8. ASSUME NEW i \in DOMAIN Left' PROVE f[i] >= i /\ Left'[i] = Left[f[i]]
  <2>1. i \in 1..(pos + k)
    BY <1>5
  <2>2. CASE i <= pos
    <3>1. f[i] = i /\ Left'[i] = data[i] /\ i \in 1..pos
      BY <1>1, <1>5, <2>1, <2>2
    <3> QED  BY <1>1, <3>1, LeftIs
  <2>3. CASE i > pos
    <3>0. f[i] = i + n
      BY <1>1, <1>4, <2>1, <2>3
    <3>1. /\ i - pos \in 1..k /\ n + (i - pos) \in 1..l /\ i + n >= i
          /\ i + n = pos + (n + (i - pos))
      BY <1>1, <1>4, <2>1, <2>3
    <3>2. Left'[i] = wire'[i - pos]
      BY <1>1, <1>4, <1>5, <2>1, <2>3
    <3>3. wire'[i - pos] = wire[n + (i - pos)]
      BY <1>1, <1>2, <1>3, <1>4, <3>1
    <3>4. Left[pos + (n + (i - pos))] = wire[n + (i - pos)]
      BY <1>3, <3>1, LeftIs
    <3> HIDE DEF f
    <3> QED  BY <3>0, <3>1, <3>2, <3>3, <3>4
  <2> QED  BY <1>1, <1>4, <2>1, <2>2, <2>3
<1>9. Thins(f)
  <2> HIDE DEF f
  <2> QED  BY <1>6, <1>7, <1>8 DEF Thins
<1> HIDE DEF f
<1> QED  BY <1>9

LEMMA SoundStep ==
    ASSUME SoundInv, [Next]_vars PROVE SoundInv'
<1>1. TypeInv /\ TypeOK /\ SentInOrder /\ OnlyLater /\ ExecutedInOrder
  BY DEF SoundInv, TypeInv
<1>2. TypeInv' /\ TypeOK'
  BY <1>1, TypeStep DEF TypeInv
<1>3. ASSUME stream' = stream, delivered' = delivered, NEW f, Thins(f),
             pc' = "next" => pc = "next" /\ Consumed' = Consumed,
             pc = "next" /\ pc' # "next" => \A i \in DOMAIN Left' : f[i] > Consumed
      PROVE  SoundInv'
  <2>1. SentInOrder'
    BY <1>1, <1>3, ThinnedIsInOrder
  <2>2. OnlyLater'
    BY <1>1, <1>2, <1>3, ThinnedIsLater
  <2>3. ExecutedInOrder'
    BY <1>1, <1>3 DEF ExecutedInOrder
  <2> QED  BY <1>2, <2>1, <2>2, <2>3 DEF SoundInv
<1>4. ASSUME stream' = stream, delivered' = delivered, pc # "next", pc' # "next",
             NEW m, GivesUp(m)
      PROVE  SoundInv'
  <2>1. PICK f : Thins(f)
    BY <1>1, <1>4, GivingUpThins
  <2> QED  BY <1>3, <1>4, <2>1
<1>5. ASSUME NEW n \in CutPoints, Recv(n) PROVE SoundInv'
  <2>1. GivesUp(0)
    BY <1>1, <1>5, RecvGivesUpNothing
  <2> QED  BY <1>4, <1>5, <2>1 DEF Recv
<1>6. CASE FindNothing
  <2>1. GivesUp(pos)
    BY <1>1, <1>6, LeftOnWire DEF FindNothing
  <2> QED  BY <1>4, <1>6, <2>1 DEF FindNothing
<1>7. CASE FindHeader
  <2>1. pc' \in {"recv", "check"} /\ UNCHANGED <<stream, wire, data, pos, delivered>> /\ pc = "find"
    BY <1>7 DEF FindHeader
  <2>2. GivesUp(0)
    BY <1>1, <2>1, LeftAsItWas
  <2> QED  BY <1>4, <2>1, <2>2
<1>8. CASE Deliver
  <2>1. Left' = Left /\ stream' = stream
    BY <1>8 DEF Deliver, Left
  <2>2. SentInOrder'
    BY <1>1, <2>1 DEF SentInOrder
  <2>3. CASE commandLen > 3
    BY <1>2, <1>8, <2>2, <2>3, DeliverIsSound DEF SoundInv
  <2>4. CASE ~ (commandLen > 3)
    <3>1. delivered' = delivered /\ pc' = "next" /\ pc = "check" /\ Consumed' = Consumed
      BY <1>8, <2>4 DEF Deliver, Consumed
    <3>2. OnlyLater' /\ ExecutedInOrder'
      BY <1>1, <2>1, <3>1 DEF OnlyLater, ExecutedInOrder
    <3> QED  BY <1>2, <2>2, <3>2 DEF SoundInv
  <2> QED  BY <2>3, <2>4
<1>9. CASE Resync
  <2>1. UNCHANGED <<stream, wire, data, delivered>> /\ pc = "check" /\ pc' \in {"recv", "find"}
        /\ pos' \in {pos, 0}
    BY <1>9 DEF Resync
  <2>2. \E m : GivesUp(m)
    BY <1>1, <2>1, LeftAsItWas, LeftOnWire
  <2> QED  BY <1>4, <2>1, <2>2
<1>10. CASE Shift
  <2>1. GivesUp(Consumed)
    BY <1>1, <1>10, ShiftGivesUpTheFrame
  <2>2. PICK f : Thins(f) /\ \A i \in DOMAIN Left' : f[i] = i + Consumed
    BY <1>1, <2>1, GivingUpThins
  <2>3. ASSUME NEW i \in DOMAIN Left' PROVE f[i] > Consumed
    <3>1. i + Consumed > Consumed
      <4>1. Consumed \in Nat /\ pos \in Nat /\ Len(wire) \in Nat
        BY <1>1, TypesOfNumbers DEF Consumed
      <4>2. DOMAIN Left' = 1..(pos + Len(wire) - Consumed)
        BY <2>1 DEF GivesUp
      <4>3. PICK c, t : c = Consumed /\ t = pos + Len(wire) - Consumed
        OBVIOUS
      <4>4. c \in Nat /\ t \in Int /\ i \in 1..t
        BY <4>1, <4>2, <4>3
      <4>5. i + c > c
        BY <4>4
      <4> QED  BY <4>3, <4>5
    <3> QED  BY <2>2, <3>1
  <2>4. stream' = stream /\ delivered' = delivered /\ pc = "next" /\ pc' # "next"
    BY <1>10 DEF Shift, MoveToFront
  <2> QED  BY <1>3, <2>2, <2>3, <2>4
<1>11. ASSUME NEW n \in ResumePoints, ConnectionLost(n) PROVE SoundInv'
  <2>1. \E m : GivesUp(m)
    BY <1>1, <1>11, LostIs
  <2>2. UNCHANGED <<stream, pc, delivered>> /\ pc = "recv"
    BY <1>11 DEF ConnectionLost
  <2> QED  BY <1>4, <2>1, <2>2
<1>12. ASSUME NEW n \in ResumePoints, ConnectionReplaced(n) PROVE SoundInv'
  <2>1. PICK f : Thins(f)
    BY <1>1, <1>12, ReplacedThins
  <2>2. UNCHANGED <<stream, pc, delivered, pos, index2>> /\ pc = "next"
    BY <1>12 DEF ConnectionReplaced
  <2>3. Consumed' = Consumed
    BY <2>2 DEF Consumed
  <2> QED  BY <1>3, <2>1, <2>2, <2>3
<1>13. CASE UNCHANGED vars
  <2>1. UNCHANGED <<stream, wire, pc, data, pos, index2, delivered>>
    BY <1>13 DEF vars
  <2>2. GivesUp(0)
    BY <1>1, <2>1, LeftAsItWas
  <2>3. PICK f : Thins(f)
    BY <1>1, <2>2, GivingUpThins
  <2>4. Consumed' = Consumed
    BY <2>1 DEF Consumed
  <2> QED  BY <1>3, <2>1, <2>3, <2>4
<1> QED
  BY <1>5, <1>6, <1>7, <1>8, <1>9, <1>10, <1>11, <1>12, <1>13 DEF Next, Step, Receive, Fail

LEMMA SoundInit == Init => SoundInv
<1> SUFFICES ASSUME Init PROVE SoundInv
  OBVIOUS
<1>1. TypeInv /\ TypeOK
  BY TypeInit DEF TypeInv
<1>2. stream \in Seq(Frames) /\ wire = Whole /\ pos = 0 /\ delivered = <<>> /\ Len(wire) \in Nat
  BY <1>1, StreamsAssumption, TypesOfNumbers DEF Init
<1>3. Shape(stream, Len(stream), wire)
  BY <1>2, WholeHasShape
<1>4. DOMAIN Left = DOMAIN wire /\ \A i \in DOMAIN Left : Left[i] = wire[i]
  <2>1. DOMAIN wire = 1..Len(wire) /\ DOMAIN Left = 1..(pos + Len(wire))
    BY <1>1, LeftIs DEF TypeOK
  <2>2. pos + Len(wire) = Len(wire) /\ \A i \in 1..Len(wire) : pos + i = i
    BY <1>2
  <2> QED  BY <1>1, <2>1, <2>2, LeftIs
<1>5. SentInOrder
  BY <1>3, <1>4 DEF Shape, SentInOrder, InOrder
<1>6. DOMAIN delivered = {}
  BY <1>2
<1> QED  BY <1>1, <1>5, <1>6 DEF SoundInv, OnlyLater, ExecutedInOrder

(* Whatever TCP cuts, whatever frames are wrong, whatever connections are  *)
(* lost or replaced and whatever the stack holds, the frames that the loop *)
(* executes after a checksum are whole right frames, each at most once and *)
(* in the order they were sent.  It executes bytes without a checksum only *)
(* while Command_Len, which nothing initialises, is 3 or less.             *)
THEOREM OnlyWholeFramesInOrder == Spec => []DeliveredSoundly
<1>1. SoundInv => DeliveredSoundly
  <2>1. SoundInv => commandLen \in StackLens \cup 9..(255 + 19) /\ ExecutedInOrder
    BY DEF SoundInv, TypeInv, TypeOK
  <2> QED  BY <2>1 DEF DeliveredSoundly
<1>2. SoundInv /\ [Next]_vars => SoundInv'
  BY SoundStep
<1> QED  BY <1>1, <1>2, SoundInit, PTL DEF Spec

(***************************************************************************)
(* Connections on which the loop loses nothing, whatever checksums are     *)
(* wrong and whatever is on the stack.  They stay up, there are no bytes   *)
(* that belong to no frame, a voice frame has the length that the loop     *)
(* takes from its byte 6, and no frame is cut after its first byte or      *)
(* where the loop already measures it, from its 7th byte on, without       *)
(* having its command byte, the 14th.                                      *)
(***************************************************************************)
Tame ==
    /\ ~ ConnectionsFail /\ VoiceLen = VoiceHigh + 19
    /\ \A s \in Streams : \A k \in DOMAIN s : s[k].kind # "noise"
    /\ \A c \in Cuts : c \in 2..6 \/ c >= 14

(* The number of bytes before the frame that the loop is at. *)
Cursor == IF pc = "next" THEN Consumed ELSE IF pc = "check" THEN index1 ELSE index2

(* What is left consists of whole frames, from each first byte on. *)
WholeFrames ==
    \A i \in DOMAIN Left :
        LET k == Left[i][1] IN
        /\ Left[i][2] = 0 =>
             /\ i + LenOf(stream, k) - 1 \in DOMAIN Left
             /\ \A o \in 0..(LenOf(stream, k) - 1) : Left[i + o] = <<k, o>>
        /\ Left[i][2] + 1 = LenOf(stream, k) /\ i + 1 \in DOMAIN Left => Left[i + 1][2] = 0

AtFrame ==
    /\ Cursor + 1 \in DOMAIN Left => Left[Cursor + 1][2] = 0
    /\ pos + 1 \in DOMAIN Left => Left[pos + 1][2] \in Cuts \cup {0}
    /\ pc \in {"recv", "find"} /\ index2 > 0 => pos >= index2 + 2
    /\ pc = "find" => pos >= index2 + 2
    /\ pc = "check" => index1 < pos /\ commandLen = LenOf(stream, Left[index1 + 1][1])
    /\ index2 >= 0

OnlyWrongBefore ==
    pc # "next" => \A i \in 1..Cursor : i \in DOMAIN Left /\ ~ stream[Left[i][1]].good

NoneLost ==
    \A k \in GoodFrames : \/ k \in Range(delivered)
                          \/ \E i \in DOMAIN Left : i > Cursor /\ Left[i] = <<k, 0>>

NothingLost == WholeFrames /\ AtFrame /\ OnlyWrongBefore /\ NoneLost

TameInv == SoundInv /\ NothingLost

LEMMA FramesAreTame ==
    ASSUME Tame, TypeOK
    PROVE  \A k \in DOMAIN stream :
               /\ stream[k].kind \in Kinds \ {"noise"}
               /\ LenOf(stream, k) = FrameLen[stream[k].kind] /\ LenOf(stream, k) \in 9..263
<1> TAKE k \in DOMAIN stream
<1>1. stream \in Streams /\ stream \in Seq(Frames)
  BY StreamsAssumption DEF TypeOK
<1>2. stream[k] \in Frames
  BY <1>1
<1>3. stream[k].kind \in Kinds
  BY <1>2 DEF Frames
<1>4. stream[k].kind # "noise"
  BY <1>1 DEF Tame
<1>5. FrameLen[stream[k].kind] \in 9..263
  BY <1>3, <1>4, VoiceAssumption DEF Kinds, FrameLen
<1> QED  BY <1>3, <1>4, <1>5 DEF LenOf

(* The frames that end before the 14th byte. *)
Short == {"barrier", "traffic", "heartbeat"}

(* What the loop reads of the bytes of a frame. *)
LEMMA BytesOfFrame ==
    ASSUME NEW k, stream[k].kind \in Kinds \ {"noise"}, NEW o \in Nat
    PROVE  /\ Byte(k, o) = \hFF <=> o \in {0, 1}
           /\ o \in {2, 4} => Byte(k, o) = 0
           /\ o = 3 /\ stream[k].kind = "heartbeat" => Byte(k, o) = \h90
           /\ o = 6 /\ stream[k].kind = "voice" => Byte(k, o) = VoiceHigh
           /\ o = 8 => Byte(k, o) = TypeByte(stream[k].kind)
           /\ o = 13 /\ stream[k].kind \in Boxed => Byte(k, o) = CodeByte[stream[k].kind]
           /\ o = 6 /\ stream[k].kind \in Short => Byte(k, o) = 0
<1> DEFINE kind == stream[k].kind
           val == Byte(k, o)
<1>1. val = CASE o \in {0, 1}                  -> \hFF
              [] o = 3 /\ kind = "heartbeat"   -> \h90
              [] o = 5 /\ kind = "heartbeat"   -> 2
              [] o = 6 /\ kind = "voice"       -> VoiceHigh
              [] o = 7 /\ kind # "heartbeat"   -> FrameLen[kind] - 9
              [] o = 8                         -> TypeByte(kind)
              [] o \in 9..12 /\ kind \in Boxed -> \hA0 + 16 * (o - 9)
              [] o = 13 /\ kind \in Boxed      -> CodeByte[kind]
              [] OTHER                         -> 0
  BY DEF Byte
<1>2. FrameLen[kind] - 9 \in 0..254
  BY VoiceAssumption DEF Kinds, FrameLen
<1>3. /\ TypeByte(kind) \in {0, \hA3, \hA4, \hAE} /\ VoiceHigh \in 0..254
      /\ kind \in Boxed => CodeByte[kind] \in {\h44, \h64, \h07, \h53}
  BY VoiceAssumption DEF TypeByte, CodeByte, Boxed
<1> HIDE DEF kind, val
<1>4. o \in {0, 1} => val = \hFF
  BY <1>1
<1>5. o \in {2, 4} => val = 0
  BY <1>1
<1>6. o = 3 => val \in {0, \h90} /\ (kind = "heartbeat" => val = \h90)
  BY <1>1
<1>7. o = 5 => val \in {0, 2}
  BY <1>1
<1>8. o = 6 => val \in {0, VoiceHigh} /\ (kind = "voice" => val = VoiceHigh) /\ (kind \in Short => val = 0)
  BY <1>1 DEF Short
<1>9. o = 7 => val \in {0, FrameLen[kind] - 9}
  BY <1>1
<1>10. o = 8 => val = TypeByte(kind)
  BY <1>1
<1>11. o \in 9..12 => val \in {0, \hA0 + 16 * (o - 9)} /\ (kind \notin Boxed => val = 0)
  BY <1>1
<1>12. o = 13 => (kind \in Boxed => val = CodeByte[kind]) /\ (kind \notin Boxed => val = 0)
  BY <1>1
<1>13. o > 13 => val = 0
  BY <1>1
<1>14. o \in {0, 1} \/ o \in {2, 4} \/ o = 3 \/ o = 5 \/ o = 6 \/ o = 7 \/ o = 8 \/ o \in 9..12
       \/ o = 13 \/ o > 13
  OBVIOUS
<1>15. val = \hFF => o \in {0, 1}
  BY <1>2, <1>3, <1>5, <1>6, <1>7, <1>8, <1>9, <1>10, <1>11, <1>12, <1>13, <1>14
<1> QED  BY <1>4, <1>5, <1>6, <1>8, <1>10, <1>12, <1>15 DEF kind, val

LEMMA AtIsLeft ==
    ASSUME TypeOK, NEW i \in 0..(pos - 1)
    PROVE  At(i) = Byte(Left[i + 1][1], Left[i + 1][2])
<1>1. pos \in Nat /\ Len(data) \in Nat /\ pos <= Len(data)
  BY TypesOfNumbers
<1>2. i < Len(data) /\ i + 1 \in 1..pos
  BY <1>1
<1>3. Left[i + 1] = data[i + 1]
  BY <1>2, LeftIs
<1> QED  BY <1>2, <1>3 DEF At, ByteAt

LEMMA FrameAt ==
    ASSUME TypeOK, SentInOrder, WholeFrames, Tame, NEW s \in Nat, s + 1 \in DOMAIN Left,
           Left[s + 1][2] = 0
    PROVE  LET k == Left[s + 1][1]
               l == LenOf(stream, k) IN
           /\ k \in DOMAIN stream /\ l \in 9..263
           /\ s + l \in DOMAIN Left
           /\ \A o \in 0..(l - 1) : s + 1 + o \in DOMAIN Left /\ Left[s + 1 + o] = <<k, o>>
           /\ s + l + 1 \in DOMAIN Left => Left[s + l + 1][2] = 0
<1> DEFINE k == Left[s + 1][1]
<1>1. k \in DOMAIN stream
  <2>1. Left[s + 1] \in BytesOf(stream, Len(stream)) /\ DOMAIN stream = 1..Len(stream)
    BY StreamsAssumption DEF TypeOK, SentInOrder
  <2> QED  BY <2>1 DEF BytesOf
<1>2. PICK l \in 9..263 : l = LenOf(stream, k)
  BY <1>1, FramesAreTame
<1>3. /\ s + 1 + l - 1 \in DOMAIN Left
      /\ \A o \in 0..(l - 1) : Left[s + 1 + o] = <<k, o>>
  BY <1>2 DEF WholeFrames
<1> HIDE DEF k
<1>4. PICK t : t = pos + Len(wire) /\ t \in Nat /\ DOMAIN Left = 1..t
  BY TypesOfNumbers, LeftIs
<1>5. s + 1 + l - 1 = s + l /\ s + l \in 1..t
  BY <1>2, <1>3, <1>4
<1>6. \A o \in 0..(l - 1) : s + 1 + o \in 1..t
  BY <1>2, <1>4, <1>5
<1>7. ASSUME s + l + 1 \in DOMAIN Left PROVE Left[s + l + 1][2] = 0
  <2>1. l - 1 \in 0..(l - 1) /\ s + 1 + (l - 1) = s + l /\ (l - 1) + 1 = l
    BY <1>2
  <2>2. Left[s + l] = <<k, l - 1>>
    BY <1>3, <2>1
  <2>3. s + l \in DOMAIN Left /\ Left[s + l][2] + 1 = LenOf(stream, Left[s + l][1])
    BY <1>2, <1>4, <1>5, <2>1, <2>2
  <2> QED  BY <1>7, <2>3 DEF WholeFrames
<1> QED  BY <1>1, <1>2, <1>3, <1>4, <1>5, <1>6, <1>7 DEF k

LEMMA HeaderAtFrame ==
    ASSUME TypeOK, SentInOrder, WholeFrames, Tame, NEW s \in Nat, s + 2 <= pos,
           Left[s + 1][2] = 0
    PROVE  s \in Headers(s) /\ Min(Headers(s)) = s
<1>1. pos \in Nat /\ Len(wire) \in Nat /\ DOMAIN Left = 1..(pos + Len(wire))
  BY TypesOfNumbers, LeftIs
<1>2. s + 1 \in DOMAIN Left
  BY <1>1
<1> DEFINE k == Left[s + 1][1]
           l == LenOf(stream, k)
<1>3. /\ k \in DOMAIN stream /\ l \in 9..263
      /\ \A o \in 0..(l - 1) : Left[s + 1 + o] = <<k, o>>
  BY <1>2, FrameAt
<1> HIDE DEF k, l
<1>4. Left[s + 1 + 0] = <<k, 0>> /\ Left[s + 1 + 1] = <<k, 1>> /\ s + 1 + 0 = s + 1
  BY <1>3
<1>5. s \in 0..(pos - 1) /\ s + 1 \in 0..(pos - 1)
  BY <1>1
<1>6. Byte(k, 0) = \hFF /\ Byte(k, 1) = \hFF
  BY <1>3, FramesAreTame, BytesOfFrame
<1>7. At(s) = \hFF /\ At(s + 1) = \hFF
  BY <1>4, <1>5, <1>6, AtIsLeft
<1>8. s \in Headers(s)
  BY <1>1, <1>7 DEF Headers
<1>9. /\ Min(Headers(s)) \in s..(pos - 2) /\ \A i \in Headers(s) : Min(Headers(s)) <= i
  BY <1>8, HeadersIn
<1>10. Min(Headers(s)) = s
  BY <1>1, <1>8, <1>9
<1> QED  BY <1>8, <1>10

(* The length that the loop reads off a frame is the right one, unless the *)
(* frame is cut where it may not be.  Behind a short frame the loop may    *)
(* read a command byte where nothing has arrived; it then waits for more.  *)
LEMMA LengthIsRight ==
    ASSUME TameInv, Tame, NEW s \in Nat, s + 7 <= pos, Left[s + 1][2] = 0
    PROVE  \/ LengthAt(s) = LenOf(stream, Left[s + 1][1])
           \/ LengthAt(s) > pos - s
<1>1. TypeOK /\ SentInOrder /\ WholeFrames /\ AtFrame
  BY DEF TameInv, NothingLost, SoundInv, TypeInv
<1>2. /\ pos \in Nat /\ Len(wire) \in Nat /\ Len(data) \in Nat /\ pos <= Len(data)
      /\ DOMAIN Left = 1..(pos + Len(wire))
  BY <1>1, TypesOfNumbers, LeftIs
<1>3. s + 1 \in DOMAIN Left
  BY <1>2
<1> DEFINE k == Left[s + 1][1]
           kind == stream[k].kind
<1>4. PICK l \in 9..263 : l = LenOf(stream, k)
  BY <1>1, <1>3, FrameAt
<1>5. /\ k \in DOMAIN stream /\ s + l \in DOMAIN Left
      /\ \A o \in 0..(l - 1) : s + 1 + o \in DOMAIN Left /\ Left[s + 1 + o] = <<k, o>>
      /\ s + l + 1 \in DOMAIN Left => Left[s + l + 1][2] = 0
  BY <1>1, <1>3, <1>4, FrameAt
<1>6. kind \in Kinds \ {"noise"} /\ l = FrameLen[kind]
  BY <1>1, <1>4, <1>5, FramesAreTame
<1> HIDE DEF k, kind
<1>7. s + l <= pos \/ s + 14 <= pos
  <2> SUFFICES ASSUME s + l > pos PROVE s + 14 <= pos
    BY <1>2, <1>4
  <2>1. PICK o \in 0..(l - 1) : o = pos - s
    BY <1>2, <1>4
  <2>2. s + 1 + o = pos + 1
    BY <1>2, <2>1
  <2>3. Left[pos + 1] = <<k, o>> /\ pos + 1 \in DOMAIN Left
    BY <1>5, <2>2
  <2>4. o \in Cuts \cup {0}
    BY <1>1, <2>3 DEF AtFrame
  <2>5. o >= 7
    BY <1>2, <2>1
  <2>6. o >= 14
    BY <2>4, <2>5 DEF Tame
  <2> QED  BY <1>2, <2>1, <2>6
<1>8. ASSUME NEW o \in 0..(l - 1), s + o < pos PROVE At(s + o) = Byte(k, o)
  <2>1. s + o \in 0..(pos - 1) /\ (s + o) + 1 = s + 1 + o
    BY <1>2, <1>4, <1>8
  <2> QED  BY <1>1, <1>5, <2>1, AtIsLeft
<1>9. \A o \in Nat : \/ o \notin {3, 6, 8, 13}
                     \/ o = 3 /\ kind = "heartbeat" /\ Byte(k, o) = \h90
                     \/ o = 3 /\ kind # "heartbeat"
                     \/ o = 6 /\ kind = "voice" /\ Byte(k, o) = VoiceHigh
                     \/ o = 6 /\ kind # "voice" /\ (kind \in Short => Byte(k, o) = 0)
                     \/ o = 8 /\ Byte(k, o) = TypeByte(kind)
                     \/ o = 13 /\ kind \in Boxed /\ Byte(k, o) = CodeByte[kind]
                     \/ o = 13 /\ kind \notin Boxed
  BY <1>6, BytesOfFrame DEF kind
<1>10. CASE kind \in Boxed
  <2>1. l >= 14 /\ s + 13 < pos
    <3>1. l >= 14
      BY <1>6, <1>10, VoiceAssumption DEF Boxed, FrameLen
    <3> QED  BY <1>2, <1>4, <1>7, <3>1
  <2>2. At(s + 13) = CodeByte[kind]
    <3>1. 13 \in 0..(l - 1) /\ 13 \in Nat
      BY <2>1
    <3> QED  BY <1>8, <1>9, <1>10, <2>1, <3>1
  <2>3. At(s + 8) = \hA4
    <3>1. 8 \in 0..(l - 1) /\ 8 \in Nat /\ s + 8 < pos
      BY <1>2, <2>1
    <3>2. At(s + 8) = TypeByte(kind)
      BY <1>8, <1>9, <3>1
    <3> QED  BY <1>10, <3>2 DEF TypeByte, Boxed
  <2>4. kind = "voice" => At(s + 6) = VoiceHigh
    <3>1. 6 \in 0..(l - 1) /\ 6 \in Nat /\ s + 6 < pos
      BY <1>2, <2>1
    <3> QED  BY <1>8, <1>9, <3>1
  <2>5. CASE kind = "voice"
    <3>1. At(s + 13) = \h53 /\ At(s + 6) + 19 = VoiceLen
      BY <2>2, <2>4, <2>5 DEF CodeByte, Tame
    <3>2. LengthAt(s) = At(s + 6) + 19
      BY <2>3, <3>1 DEF LengthAt, LengthOfCode
    <3> QED  BY <1>4, <1>6, <2>5, <3>1, <3>2 DEF FrameLen, k
  <2>6. CASE kind \in {"display3", "display4", "flash"}
    <3>1. At(s + 13) \in DOMAIN LengthOfCode /\ LengthOfCode[At(s + 13)] = FrameLen[kind]
      BY <2>2, <2>6 DEF CodeByte, LengthOfCode, FrameLen
    <3>2. LengthAt(s) = LengthOfCode[At(s + 13)]
      BY <3>1 DEF LengthAt
    <3> QED  BY <1>4, <1>6, <3>1, <3>2 DEF k
  <2> QED  BY <1>10, <2>5, <2>6 DEF Boxed
<1>11. CASE kind \in Short
  <2>1. l \in {9, 11} /\ (kind = "heartbeat" <=> l = 9) /\ s + l <= pos
    <3>1. l \in {9, 11} /\ (kind = "heartbeat" <=> l = 9)
      BY <1>6, <1>11 DEF Short, FrameLen
    <3> QED  BY <1>2, <1>7, <3>1
  <2>2. s + 13 < pos => At(s + 13) = 0
    <3> SUFFICES ASSUME s + 13 < pos PROVE At(s + 13) = 0
      OBVIOUS
    <3>1. s + l + 1 \in DOMAIN Left /\ s + l \in Nat /\ (s + l) + 1 = s + l + 1
      BY <1>2, <2>1
    <3>2. Left[(s + l) + 1][2] = 0
      BY <1>5, <3>1
    <3> DEFINE j == Left[(s + l) + 1][1]
    <3>3. PICK n \in 9..263 : n = LenOf(stream, j)
      BY <1>1, <3>1, <3>2, FrameAt
    <3>4. /\ j \in DOMAIN stream
          /\ \A o \in 0..(n - 1) : Left[(s + l) + 1 + o] = <<j, o>>
      BY <1>1, <3>1, <3>2, <3>3, FrameAt
    <3> HIDE DEF j
    <3>5. PICK o \in {2, 4} : o = 13 - l
      BY <2>1
    <3>6. o \in 0..(n - 1) /\ s + 13 \in 0..(pos - 1)
      <4>1. o \in 0..(n - 1)
        BY <3>3
      <4>2. s + 13 \in 0..(pos - 1)
        BY <1>2
      <4> QED  BY <4>1, <4>2
    <3>7. (s + l) + 1 + o = (s + 13) + 1
      BY <1>4, <3>5
    <3>8. Left[(s + 13) + 1] = <<j, o>>
      BY <3>4, <3>6, <3>7
    <3>9. At(s + 13) = Byte(j, o)
      BY <1>1, <3>6, <3>8, AtIsLeft
    <3>10. Byte(j, o) = 0
      BY <1>1, <3>4, <3>5, FramesAreTame, BytesOfFrame
    <3> QED  BY <3>9, <3>10
  <2>3. At(s + 8) = TypeByte(kind) /\ At(s + 6) \in {0, VoiceHigh} /\ (kind = "heartbeat" => At(s + 3) = \h90)
    <3>1. \A o \in {3, 6, 8} : o \in 0..(l - 1) /\ o \in Nat /\ s + o < pos
      BY <1>2, <2>1
    <3>2. At(s + 8) = Byte(k, 8) /\ At(s + 6) = Byte(k, 6) /\ At(s + 3) = Byte(k, 3)
      BY <1>8, <3>1
    <3> QED  BY <1>9, <1>11, <3>1, <3>2
  <2>4. CASE At(s + 13) \in DOMAIN LengthOfCode
    <3>1. LengthAt(s) = LengthOfCode[At(s + 13)]
      BY <2>4 DEF LengthAt
    <3>2. LengthAt(s) \in {58, 87, 23} /\ At(s + 13) # 0
      BY <2>4, <3>1 DEF LengthOfCode
    <3>3. ~ (s + 13 < pos)
      BY <2>2, <3>2
    <3>4. LengthAt(s) > pos - s
      BY <1>2, <3>2, <3>3
    <3> QED  BY <3>4
  <2>5. CASE At(s + 13) \notin DOMAIN LengthOfCode /\ kind = "traffic"
    <3>1. At(s + 8) = \hAE
      BY <2>3, <2>5 DEF TypeByte, Boxed
    <3>2. LengthAt(s) = 11
      BY <2>5, <3>1 DEF LengthAt
    <3> QED  BY <1>4, <2>1, <2>5, <3>2 DEF k
  <2>6. CASE At(s + 13) = \h53 /\ kind # "traffic"
    <3>1. At(s + 8) # \hAE /\ At(s + 13) \notin DOMAIN LengthOfCode
      BY <1>11, <2>3, <2>6 DEF TypeByte, Boxed, Short, LengthOfCode
    <3>2. LengthAt(s) = At(s + 6) + 19
      BY <2>6, <3>1 DEF LengthAt
    <3>3. ~ (s + 13 < pos)
      BY <2>2, <2>6
    <3>4. LengthAt(s) \in 19..273
      BY <2>3, <3>2, VoiceAssumption
    <3>5. LengthAt(s) > pos - s
      <4>1. PICK n \in 19..273 : n = LengthAt(s)
        BY <3>4
      <4>2. n > pos - s
        BY <1>2, <3>3
      <4> QED  BY <4>1, <4>2
    <3> QED  BY <3>5
  <2>7. CASE /\ At(s + 13) \notin DOMAIN LengthOfCode /\ At(s + 13) # \h53
             /\ kind = "barrier"
    <3>1. At(s + 8) = \hA3
      BY <2>3, <2>7 DEF TypeByte, Boxed
    <3>2. LengthAt(s) = 11
      BY <2>7, <3>1 DEF LengthAt
    <3> QED  BY <1>4, <2>1, <2>7, <3>2 DEF k
  <2>8. CASE /\ At(s + 13) \notin DOMAIN LengthOfCode /\ At(s + 13) # \h53
             /\ kind = "heartbeat"
    <3>1. At(s + 8) = 0 /\ At(s + 3) = \h90
      BY <2>3, <2>8 DEF TypeByte, Boxed
    <3>2. LengthAt(s) = 9
      BY <2>8, <3>1 DEF LengthAt
    <3> QED  BY <1>4, <2>1, <2>8, <3>2 DEF k
  <2> QED  BY <1>11, <2>4, <2>5, <2>6, <2>7, <2>8 DEF Short
<1> QED  BY <1>6, <1>10, <1>11 DEF Kinds, Boxed, Short

(* At the checksum the buffer holds one whole frame from index1 on, and    *)
(* the checksum is right exactly if the frame was sent with a right one.   *)
LEMMA CheckIs ==
    ASSUME TameInv, Tame, pc = "check"
    PROVE  LET k == Left[index1 + 1][1] IN
           /\ k \in DOMAIN stream /\ data[index1 + 1][1] = k
           /\ index1 \in Nat /\ commandLen \in 9..263 /\ index1 + commandLen <= pos
           /\ Consumed = index1 + commandLen
           /\ \A i \in (index1 + 1)..(index1 + commandLen) :
                  i \in DOMAIN Left /\ Left[i] = <<k, i - index1 - 1>>
           /\ Consumed + 1 \in DOMAIN Left => Left[Consumed + 1][2] = 0
           /\ ChecksumAnswers(index1, commandLen) = {stream[k].good}
<1> DEFINE k == Left[index1 + 1][1]
<1>1. TypeOK /\ Measured /\ SentInOrder /\ WholeFrames /\ AtFrame
  BY DEF TameInv, NothingLost, SoundInv, TypeInv
<1>2. /\ pos \in Nat /\ Len(wire) \in Nat /\ Len(data) \in Nat /\ pos <= Len(data)
      /\ DOMAIN Left = 1..(pos + Len(wire)) /\ commandLen \in Int
  BY <1>1, TypesOfNumbers, LeftIs
<1>3. /\ index1 \in Nat /\ index1 + commandLen <= pos
      /\ index2 = IF commandLen < pos - index1 THEN index1 + commandLen ELSE 0
  BY <1>1, TypesOfNumbers DEF Measured
<1>c. commandLen = LenOf(stream, k)
  BY <1>1 DEF AtFrame
<1>4. index1 + 1 \in DOMAIN Left /\ index1 + 1 \in 1..pos
  BY <1>1, <1>2, <1>3 DEF AtFrame
<1>5. Left[index1 + 1][2] = 0 /\ commandLen = LenOf(stream, k)
  BY <1>1, <1>4, <1>c DEF AtFrame, Cursor
<1>6. /\ k \in DOMAIN stream /\ LenOf(stream, k) \in 9..263
      /\ \A o \in 0..(LenOf(stream, k) - 1) :
             index1 + 1 + o \in DOMAIN Left /\ Left[index1 + 1 + o] = <<k, o>>
      /\ index1 + LenOf(stream, k) + 1 \in DOMAIN Left => Left[index1 + LenOf(stream, k) + 1][2] = 0
  BY <1>1, <1>3, <1>4, <1>5, FrameAt
<1>7. data[index1 + 1][1] = k
  BY <1>1, <1>4, LeftIs
<1> HIDE DEF k
<1>8. PICK l \in 9..263 : l = commandLen
  BY <1>5, <1>6
<1>9. Consumed = index1 + l
  BY <1>2, <1>3, <1>8 DEF Consumed
<1>10. ASSUME NEW i \in (index1 + 1)..(index1 + l)
       PROVE  i \in DOMAIN Left /\ Left[i] = <<k, i - index1 - 1>>
  <2>1. PICK o \in 0..(l - 1) : o = i - index1 - 1
    BY <1>3, <1>8
  <2>2. index1 + 1 + o = i
    BY <1>3, <2>1
  <2>3. index1 + 1 + o \in DOMAIN Left /\ Left[index1 + 1 + o] = <<k, o>>
    BY <1>5, <1>6, <1>8, <2>1
  <2> QED  BY <2>1, <2>2, <2>3
<1>11. SubSeq(data, index1 + 1, index1 + l) = Bytes(stream[k], k)
  <2> DEFINE S == (DOMAIN stream) \X Nat
             b == SubSeq(data, index1 + 1, index1 + l)
             c == Bytes(stream[k], k)
  <2>1. data \in Seq(S) /\ index1 + 1 \in Nat \ {0} /\ index1 + l \in 0..Len(data)
    BY <1>1, <1>2, <1>3, <1>8 DEF TypeOK
  <2>2. c = [o \in 1..l |-> <<k, o - 1>>]
    BY <1>5, <1>8 DEF Bytes, LenOf
  <2> HIDE DEF S
  <2>3. /\ b \in Seq(S)
        /\ Len(b) = IF index1 + 1 <= index1 + l THEN (index1 + l) - (index1 + 1) + 1 ELSE 0
        /\ \A i \in 1..((index1 + l) - (index1 + 1) + 1) : b[i] = data[(index1 + 1) + i - 1]
    BY <2>1, PartOf
  <2> HIDE DEF b, c
  <2>4. (index1 + l) - (index1 + 1) + 1 = l /\ index1 + 1 <= index1 + l
    BY <1>3, <1>8
  <2>5. Len(b) = l /\ \A i \in 1..l : b[i] = data[(index1 + 1) + i - 1]
    BY <2>3, <2>4
  <2>6. ASSUME NEW i \in 1..l PROVE b[i] = c[i]
    <3>1. /\ (index1 + 1) + i - 1 = index1 + i /\ index1 + i \in 1..pos
          /\ index1 + i \in (index1 + 1)..(index1 + l)
      BY <1>2, <1>3, <1>8
    <3>2. (index1 + i) - index1 - 1 = i - 1
      BY <1>3
    <3>3. data[index1 + i] = Left[index1 + i]
      BY <1>1, <3>1, LeftIs
    <3>4. Left[index1 + i] = <<k, i - 1>>
      BY <1>10, <3>1, <3>2
    <3> QED  BY <2>2, <2>5, <3>1, <3>3, <3>4
  <2>7. b = [i \in 1..l |-> b[i]] /\ c = [i \in 1..l |-> c[i]]
    BY <2>2, <2>3, <2>5
  <2>8. b = c
    BY <2>6, <2>7
  <2> QED  BY <2>8 DEF b, c
<1>12. ChecksumAnswers(index1, commandLen) = {stream[k].good}
  <2>1. commandLen > 3
    BY <1>8
  <2>2. stream[k].good \in BOOLEAN
    <3>1. stream \in Seq(Frames)
      BY <1>1, StreamsAssumption DEF TypeOK
    <3>2. stream[k] \in Frames
      BY <1>6, <3>1
    <3> QED  BY <3>2 DEF Frames
  <2>3. ChecksumAnswers(index1, commandLen) =
            {stream[k].good /\ SubSeq(data, index1 + 1, index1 + commandLen) = Bytes(stream[k], k)}
    BY <1>7, <2>1 DEF ChecksumAnswers
  <2>4. (stream[k].good /\ SubSeq(data, index1 + 1, index1 + commandLen) = Bytes(stream[k], k))
            = stream[k].good
    BY <1>8, <1>11, <2>2
  <2> QED  BY <2>3, <2>4
<1>13. Consumed + 1 \in DOMAIN Left => Left[Consumed + 1][2] = 0
  BY <1>5, <1>6, <1>8, <1>9
<1> QED  BY <1>3, <1>6, <1>7, <1>8, <1>9, <1>10, <1>12, <1>13 DEF k

LEMMA WholeFramesStay ==
    ASSUME Tame, TypeOK, SentInOrder, WholeFrames, NEW m, GivesUp(m), stream' = stream
    PROVE  WholeFrames'
<1>1. PICK t \in Nat : t = pos + Len(wire)
  BY TypesOfNumbers
<1>2. /\ m \in Nat /\ DOMAIN Left = 1..t /\ DOMAIN Left' = 1..(t - m)
      /\ \A i \in DOMAIN Left' : i + m \in DOMAIN Left /\ Left'[i] = Left[i + m]
  <2>1. DOMAIN Left' = 1..(pos + Len(wire) - m)
    BY DEF GivesUp
  <2>2. DOMAIN Left = 1..(pos + Len(wire))
    BY LeftIs
  <2>3. m \in Nat /\ \A i \in DOMAIN Left' : i + m \in DOMAIN Left /\ Left'[i] = Left[i + m]
    BY DEF GivesUp
  <2>4. DOMAIN Left' = 1..(t - m)
    <3>1. pos \in Nat /\ Len(wire) \in Nat /\ m \in Nat
      BY <2>3, TypesOfNumbers
    <3>2. pos + Len(wire) - m = t - m
      BY <1>1, <3>1
    <3> QED  BY <2>1, <3>2
  <2>5. DOMAIN Left = 1..t
    BY <1>1, <2>2
  <2> QED  BY <2>3, <2>4, <2>5
<1>3. ASSUME NEW i \in DOMAIN Left' PROVE LenOf(stream, Left'[i][1]) \in 9..263
  <2>1. Left'[i] \in BytesOf(stream, Len(stream)) /\ DOMAIN stream = 1..Len(stream)
    BY <1>2, StreamsAssumption DEF TypeOK, SentInOrder
  <2>2. Left'[i][1] \in DOMAIN stream
    BY <2>1 DEF BytesOf
  <2> QED  BY <2>2, FramesAreTame
<1>4. ASSUME NEW i \in DOMAIN Left', Left'[i][2] = 0, NEW l, l = LenOf(stream, Left'[i][1])
      PROVE  /\ i + l - 1 \in DOMAIN Left'
             /\ \A o \in 0..(l - 1) : Left'[i + o] = <<Left'[i][1], o>>
  <2>1. /\ (i + m) + l - 1 \in DOMAIN Left
        /\ \A o \in 0..(l - 1) : Left[(i + m) + o] = <<Left'[i][1], o>>
    BY <1>2, <1>4 DEF WholeFrames
  <2>2. l \in 9..263
    BY <1>3, <1>4
  <2>3. i \in 1..(t - m) /\ (i + m) + l - 1 \in 1..t
    BY <1>2, <2>1
  <2>4. i + l - 1 \in 1..(t - m)
    BY <1>2, <2>2, <2>3
  <2>5. ASSUME NEW o \in 0..(l - 1) PROVE Left'[i + o] = <<Left'[i][1], o>>
    <3>1. i + o \in 1..(t - m) /\ (i + o) + m = (i + m) + o
      <4>1. o \in Nat /\ o <= l - 1
        BY <2>2
      <4>2. (i + o) + m = (i + m) + o
        BY <1>2, <2>3, <4>1
      <4>3. i + o >= 1 /\ i + o <= i + l - 1
        BY <2>2, <2>3, <4>1
      <4> QED  BY <1>2, <2>2, <2>3, <2>4, <4>1, <4>2, <4>3
    <3> QED  BY <1>2, <2>1, <3>1
  <2> QED  BY <1>2, <2>4, <2>5
<1>5. ASSUME NEW i \in DOMAIN Left', i + 1 \in DOMAIN Left',
             Left'[i][2] + 1 = LenOf(stream, Left'[i][1])
      PROVE  Left'[i + 1][2] = 0
  <2>1. i \in 1..(t - m) /\ (i + 1) + m = (i + m) + 1
    BY <1>2
  <2>2. i + m \in DOMAIN Left /\ (i + m) + 1 \in DOMAIN Left
    BY <1>2, <1>5, <2>1
  <2>3. Left[i + m] = Left'[i] /\ Left[(i + m) + 1] = Left'[i + 1]
    BY <1>2, <1>5, <2>1
  <2>4. Left[i + m][2] + 1 = LenOf(stream, Left[i + m][1])
    BY <1>5, <2>3
  <2>5. Left[(i + m) + 1][2] = 0
    BY <2>2, <2>4 DEF WholeFrames
  <2> QED  BY <2>3, <2>5
<1> QED  BY <1>4, <1>5 DEF WholeFrames

(* No frame is lost by a step that gives up only wrong frames and those    *)
(* that it executes.                                                       *)
LEMMA NoneLostStays ==
    ASSUME TypeOK, NoneLost, stream' = stream, NEW m, GivesUp(m), NEW c \in Nat, c = Cursor',
           Range(delivered) \subseteq Range(delivered'),
           \A i \in DOMAIN Left : i > Cursor => \/ i > c + m
                                                \/ ~ stream[Left[i][1]].good
                                                \/ Left[i][1] \in Range(delivered')
                                                \/ Left[i][2] # 0
    PROVE  NoneLost'
<1>1. PICK t \in Nat : t = pos + Len(wire)
  BY TypesOfNumbers
<1>2. /\ m \in Nat /\ DOMAIN Left = 1..t /\ DOMAIN Left' = 1..(t - m)
      /\ \A i \in DOMAIN Left' : i + m \in DOMAIN Left /\ Left'[i] = Left[i + m]
  <2>1. DOMAIN Left' = 1..(pos + Len(wire) - m)
    BY DEF GivesUp
  <2>2. DOMAIN Left = 1..(pos + Len(wire))
    BY LeftIs
  <2>3. m \in Nat /\ \A i \in DOMAIN Left' : i + m \in DOMAIN Left /\ Left'[i] = Left[i + m]
    BY DEF GivesUp
  <2>4. DOMAIN Left' = 1..(t - m)
    <3>1. pos \in Nat /\ Len(wire) \in Nat /\ m \in Nat
      BY <2>3, TypesOfNumbers
    <3>2. pos + Len(wire) - m = t - m
      BY <1>1, <3>1
    <3> QED  BY <2>1, <3>2
  <2>5. DOMAIN Left = 1..t
    BY <1>1, <2>2
  <2> QED  BY <2>3, <2>4, <2>5
<1>3. ASSUME NEW k \in GoodFrames, k \notin Range(delivered')
      PROVE  \E i \in DOMAIN Left' : i > c /\ Left'[i] = <<k, 0>>
  <2>1. PICK i \in DOMAIN Left : i > Cursor /\ Left[i] = <<k, 0>>
    BY <1>3 DEF NoneLost
  <2>2. i > c + m
    BY <1>3, <2>1 DEF GoodFrames
  <2>3. i - m \in 1..(t - m) /\ i - m > c /\ (i - m) + m = i
    BY <1>1, <1>2, <2>1, <2>2
  <2> QED  BY <1>2, <2>1, <2>3
<1>4. GoodFrames' = GoodFrames
  BY DEF GoodFrames
<1> QED  BY <1>3, <1>4 DEF NoneLost

LEMMA SameLeft ==
    ASSUME TypeOK, GivesUp(0) PROVE Left' = Left
<1>1. PICK t \in Nat : t = pos + Len(wire)
  BY TypesOfNumbers
<1>2. DOMAIN Left = 1..t /\ DOMAIN Left' = 1..t
  <2>1. pos \in Nat /\ Len(wire) \in Nat
    BY TypesOfNumbers
  <2>2. pos + Len(wire) - 0 = t
    BY <1>1, <2>1
  <2>3. DOMAIN Left' = 1..(pos + Len(wire) - 0)
    BY DEF GivesUp
  <2>4. DOMAIN Left = 1..(pos + Len(wire))
    BY LeftIs
  <2> QED  BY <1>1, <2>2, <2>3, <2>4
<1>3. ASSUME NEW i \in 1..t PROVE Left'[i] = Left[i]
  <2>1. Left'[i] = Left[i + 0]
    BY <1>2 DEF GivesUp
  <2>2. i + 0 = i
    BY <1>1
  <2> QED  BY <2>1, <2>2
<1>4. Left = [i \in DOMAIN Left |-> Left[i]] /\ Left' = [i \in DOMAIN Left' |-> Left'[i]]
  BY DEF Left
<1> QED  BY <1>2, <1>3, <1>4

LEMMA SameFrames ==
    ASSUME Left' = Left, UNCHANGED <<stream, delivered>>, Cursor' = Cursor,
           pc # "next" \/ pc' = "next",
           WholeFrames, OnlyWrongBefore, NoneLost
    PROVE  WholeFrames' /\ OnlyWrongBefore' /\ NoneLost'
<1>1. WholeFrames'
  BY DEF WholeFrames
<1>2. OnlyWrongBefore'
  BY DEF OnlyWrongBefore
<1>3. NoneLost'
  BY DEF NoneLost, GoodFrames
<1> QED  BY <1>1, <1>2, <1>3

LEMMA TameRecv ==
    ASSUME TameInv, Tame, NEW n \in CutPoints, Recv(n) PROVE NothingLost'
<1>1. TypeOK /\ WholeFrames /\ AtFrame /\ OnlyWrongBefore /\ NoneLost
  BY DEF TameInv, NothingLost, SoundInv, TypeInv
<1>2. /\ pos \in Nat /\ Len(wire) \in Nat /\ index2 \in Nat
      /\ DOMAIN Left = 1..(pos + Len(wire)) /\ n \in 1..Len(wire)
  BY <1>1, TypesOfNumbers, LeftIs DEF CutPoints, Recv
<1>3. Left' = Left
  BY <1>1, RecvGivesUpNothing, SameLeft
<1>4. /\ pc = "recv" /\ pc' \in {"recv", "find"} /\ pos' = pos + n
      /\ UNCHANGED <<stream, index2, delivered>> /\ (pc' = "find" => pos + n >= 4)
  BY <1>2 DEF Recv
<1>5. Cursor = index2 /\ Cursor' = index2
  BY <1>4 DEF Cursor
<1>6. WholeFrames' /\ OnlyWrongBefore' /\ NoneLost'
  BY <1>1, <1>3, <1>4, <1>5, SameFrames
<1>7. AtFrame'
  <2>1. Cursor' + 1 \in DOMAIN Left' => Left'[Cursor' + 1][2] = 0
    BY <1>1, <1>3, <1>5 DEF AtFrame
  <2>2. pos' + 1 \in DOMAIN Left' => Left'[pos' + 1][2] \in Cuts \cup {0}
    <3> SUFFICES ASSUME pos' + 1 \in DOMAIN Left PROVE Left[pos' + 1][2] \in Cuts \cup {0}
      BY <1>3
    <3>1. n + 1 \in 1..Len(wire) /\ pos' + 1 = pos + (n + 1)
      BY <1>2, <1>4
    <3>2. Left[pos + (n + 1)] = wire[n + 1]
      BY <1>1, <3>1, LeftIs
    <3>3. n < Len(wire)
      BY <1>2, <3>1
    <3>4. wire[n + 1][2] \in Cuts \cup {0}
      BY <3>3 DEF CutPoints
    <3> QED  BY <3>1, <3>2, <3>4
  <2>3. index2' > 0 => pos' >= index2' + 2
    BY <1>1, <1>2, <1>4 DEF AtFrame
  <2>4. pc' = "find" => pos' >= index2' + 2
    BY <1>2, <1>4, <2>3
  <2> QED  BY <1>2, <1>4, <2>1, <2>2, <2>3, <2>4 DEF AtFrame
<1> QED  BY <1>6, <1>7 DEF NothingLost

(* Where the loop searches, there is a header, and it is that of the next  *)
(* frame.                                                                  *)
LEMMA FindIs ==
    ASSUME TameInv, Tame, pc = "find"
    PROVE  /\ index2 \in Headers(index2) /\ Min(Headers(index2)) = index2
           /\ Left[index2 + 1][2] = 0 /\ index2 + 2 <= pos
<1>1. TypeOK /\ SentInOrder /\ WholeFrames /\ AtFrame
  BY DEF TameInv, NothingLost, SoundInv, TypeInv
<1>2. /\ pos \in Nat /\ Len(wire) \in Nat /\ index2 \in Nat
      /\ DOMAIN Left = 1..(pos + Len(wire))
  BY <1>1, TypesOfNumbers, LeftIs
<1>3. index2 + 2 <= pos
  BY <1>1, <1>2 DEF AtFrame
<1>4. index2 + 1 \in DOMAIN Left
  BY <1>2, <1>3
<1>5. Left[index2 + 1][2] = 0
  BY <1>1, <1>4 DEF AtFrame, Cursor
<1> QED  BY <1>1, <1>2, <1>3, <1>5, HeaderAtFrame

LEMMA TameFindHeader ==
    ASSUME TameInv, Tame, FindHeader PROVE NothingLost'
<1>1. TypeOK /\ WholeFrames /\ AtFrame /\ OnlyWrongBefore /\ NoneLost
  BY DEF TameInv, NothingLost, SoundInv, TypeInv
<1>2. /\ pc = "find" /\ UNCHANGED <<stream, wire, data, past, pos, delivered>>
      /\ Left' = Left
  BY DEF FindHeader, Left
<1>3. /\ index2 \in Headers(index2) /\ Min(Headers(index2)) = index2
      /\ Left[index2 + 1][2] = 0 /\ index2 + 2 <= pos
  BY <1>2, FindIs
<1>4. /\ index1' = index2
      /\ IF pos - index2 < 7
           THEN pc' = "recv" /\ UNCHANGED <<index2, commandLen>>
           ELSE /\ commandLen' = LengthAt(index2)
                /\ IF commandLen' > pos - index2
                     THEN pc' = "recv" /\ UNCHANGED index2
                     ELSE /\ pc' = "check"
                          /\ index2' = IF commandLen' < pos - index2
                                         THEN index2 + commandLen' ELSE 0
  BY <1>3 DEF FindHeader
<1>5. pos \in Nat /\ index2 \in Nat
  BY <1>1, <1>2, TypesOfNumbers
<1>6. Cursor = index2 /\ Cursor' = index2
  BY <1>2, <1>4 DEF Cursor
<1>7. pc' # "next" /\ (pc' = "recv" => index2' = index2) /\ pc' # "find"
  BY <1>4
<1>8. WholeFrames' /\ OnlyWrongBefore' /\ NoneLost'
  BY <1>1, <1>2, <1>6, <1>7, SameFrames
<1>9. pc' = "check" => commandLen' = LenOf(stream, Left[index2 + 1][1])
  <2> SUFFICES ASSUME pc' = "check" PROVE commandLen' = LenOf(stream, Left[index2 + 1][1])
    OBVIOUS
  <2>1. commandLen' = LengthAt(index2) /\ ~ (pos - index2 < 7)
    BY <1>4
  <2>2. index2 + 7 <= pos
    BY <1>5, <2>1
  <2>3. ~ (LengthAt(index2) > pos - index2)
    BY <1>4, <2>1
  <2> QED  BY <1>3, <1>5, <2>1, <2>2, <2>3, LengthIsRight
<1>10. index2' >= 0 /\ (pc' = "check" => index1' < pos)
  <2>1. CASE pc' = "check"
    <3>1. index2 + 1 \in DOMAIN Left
      BY <1>1, <1>3, <1>5, TypesOfNumbers, LeftIs
    <3>2. LenOf(stream, Left[index2 + 1][1]) \in 9..263
      BY <1>1, <1>3, <1>5, <3>1, FrameAt DEF TameInv, SoundInv
    <3>3. PICK c \in 9..263 : c = commandLen'
      BY <1>9, <2>1, <3>2
    <3>4. index2' = IF c < pos - index2 THEN index2 + c ELSE 0
      BY <1>4, <2>1, <3>3
    <3> QED  BY <1>3, <1>4, <1>5, <3>4
  <2>2. CASE pc' = "recv"
    BY <1>5, <1>7, <2>2
  <2> QED  BY <1>4, <2>1, <2>2
<1>11. AtFrame'
  BY <1>1, <1>2, <1>3, <1>4, <1>6, <1>7, <1>9, <1>10 DEF AtFrame
<1> QED  BY <1>8, <1>11 DEF NothingLost

LEMMA TameDeliver ==
    ASSUME TameInv, Tame, Deliver PROVE NothingLost'
<1>1. TypeOK /\ WholeFrames /\ AtFrame /\ OnlyWrongBefore /\ NoneLost
  BY DEF TameInv, NothingLost, SoundInv, TypeInv
<1> DEFINE k == Left[index1 + 1][1]
<1>2. /\ pc = "check" /\ pc' = "next" /\ Left' = Left
      /\ UNCHANGED <<stream, wire, data, pos, index1, index2, commandLen>>
  BY DEF Deliver, Left
<1>3. /\ k \in DOMAIN stream /\ data[index1 + 1][1] = k
      /\ index1 \in Nat /\ commandLen \in 9..263 /\ index1 + commandLen <= pos
      /\ Consumed = index1 + commandLen
      /\ \A i \in (index1 + 1)..(index1 + commandLen) :
             i \in DOMAIN Left /\ Left[i] = <<k, i - index1 - 1>>
      /\ Consumed + 1 \in DOMAIN Left => Left[Consumed + 1][2] = 0
  BY <1>2, CheckIs
<1>d. delivered' = Append(delivered, data[index1 + 1][1])
  BY <1>3 DEF Deliver
<1> HIDE DEF k
<1>4. Cursor = index1 /\ Cursor' = Consumed
  BY <1>2 DEF Cursor, Consumed
<1>5. k \in Range(delivered') /\ Range(delivered) \subseteq Range(delivered')
  <2>1. delivered \in Seq(DOMAIN stream)
    BY <1>1 DEF TypeOK
  <2>2. PICK n \in Nat : n = Len(delivered)
    BY <2>1
  <2>3. DOMAIN delivered = 1..n /\ DOMAIN delivered' = 1..(n + 1) /\ delivered'[n + 1] = k
        /\ \A d \in 1..n : delivered'[d] = delivered[d]
    BY <1>2, <1>3, <1>d, <2>1, <2>2
  <2>4. n + 1 \in 1..(n + 1) /\ \A d \in 1..n : d \in 1..(n + 1)
    BY <2>2
  <2> QED  BY <2>3, <2>4 DEF Range
<1>6. GivesUp(0)
  BY <1>1, <1>2, LeftAsItWas
<1>7. ASSUME NEW i \in DOMAIN Left, i > Cursor
      PROVE  i > Consumed + 0 \/ Left[i][1] \in Range(delivered')
  <2>1. i \in Nat
    <3>1. DOMAIN Left = 1..(pos + Len(wire)) /\ pos \in Nat /\ Len(wire) \in Nat
      BY <1>1, LeftIs, TypesOfNumbers
    <3> QED  BY <3>1
  <2>2. i > Consumed + 0 \/ i \in (index1 + 1)..(index1 + commandLen)
    BY <1>3, <1>4, <1>7, <2>1
  <2> QED  BY <1>3, <1>5, <2>2
<1>8. Consumed \in Nat
  BY <1>3
<1>9. NoneLost'
  BY <1>1, <1>2, <1>4, <1>5, <1>6, <1>7, <1>8, NoneLostStays
<1>10. AtFrame'
  BY <1>1, <1>2, <1>3, <1>4 DEF AtFrame
<1>11. WholeFrames'
  BY <1>1, <1>2 DEF WholeFrames
<1>12. OnlyWrongBefore'
  BY <1>1, <1>2 DEF OnlyWrongBefore
<1> QED  BY <1>9, <1>10, <1>11, <1>12 DEF NothingLost

(* A frame that is not executed was sent with a wrong checksum.  What      *)
(* follows it is kept: the next header is that of the next frame.          *)
LEMMA ResyncIs ==
    ASSUME TameInv, Tame, Resync
    PROVE  /\ ~ stream[Left[index1 + 1][1]].good
           /\ \/ /\ pos' = 0 /\ pos = Consumed /\ index2' = 0 /\ pc' = "recv"
              \/ /\ pos' = pos /\ pos >= Consumed + 2 /\ index2' = Consumed /\ pc' = "find"
<1>1. TypeOK /\ SentInOrder /\ WholeFrames /\ AtFrame
  BY DEF TameInv, NothingLost, SoundInv, TypeInv
<1> DEFINE k == Left[index1 + 1][1]
<1>2. pc = "check" /\ FALSE \in ChecksumAnswers(index1, commandLen)
  BY DEF Resync
<1>3. /\ k \in DOMAIN stream /\ index1 \in Nat /\ commandLen \in 9..263 /\ index1 + commandLen <= pos
      /\ Consumed = index1 + commandLen
      /\ \A i \in (index1 + 1)..(index1 + commandLen) :
             i \in DOMAIN Left /\ Left[i] = <<k, i - index1 - 1>>
      /\ Consumed + 1 \in DOMAIN Left => Left[Consumed + 1][2] = 0
      /\ ~ stream[k].good
  BY <1>2, CheckIs
<1> HIDE DEF k
<1>4. PICK e \in Nat : e = Consumed
  BY <1>3
<1>5. /\ pos \in Nat /\ Len(wire) \in Nat /\ DOMAIN Left = 1..(pos + Len(wire))
      /\ e = index1 + commandLen /\ e <= pos
  BY <1>1, <1>3, <1>4, TypesOfNumbers, LeftIs
<1>6. pos # e + 1
  <2> SUFFICES ASSUME pos = e + 1 PROVE FALSE
    OBVIOUS
  <2>1. e + 1 \in DOMAIN Left
    BY <1>5
  <2>2. Left[e + 1][2] = 0
    BY <1>3, <1>4, <2>1
  <2> DEFINE j == Left[e + 1][1]
  <2>3. PICK n \in 9..263 : n = LenOf(stream, j)
    BY <1>1, <2>1, <2>2, FrameAt
  <2>4. \A o \in 0..(n - 1) : e + 1 + o \in DOMAIN Left /\ Left[e + 1 + o] = <<j, o>>
    BY <1>1, <2>1, <2>2, <2>3, FrameAt
  <2> HIDE DEF j
  <2>5. 1 \in 0..(n - 1) /\ e + 1 + 1 = pos + 1
    BY <1>5
  <2>6. pos + 1 \in DOMAIN Left /\ Left[pos + 1] = <<j, 1>>
    BY <2>4, <2>5
  <2>7. 1 \in Cuts \cup {0}
    BY <1>1, <2>6 DEF AtFrame
  <2> QED  BY <2>7 DEF Tame
<1>7. ASSUME NEW i \in Headers(index1 + 1) PROVE i >= e
  <2> SUFFICES ASSUME i < e PROVE FALSE
    BY <1>5 DEF Headers
  <2>1. /\ i \in (index1 + 1)..(pos - 2) /\ At(i) = \hFF /\ At(i + 1) = \hFF
    BY DEF Headers
  <2>2. i \in 0..(pos - 1) /\ i + 1 \in 0..(pos - 1) /\ i + 1 \in (index1 + 1)..(index1 + commandLen)
    BY <1>3, <1>5, <2>1
  <2>3. Left[i + 1] = <<k, (i + 1) - index1 - 1>>
    BY <1>3, <2>2
  <2>4. PICK o \in Nat : o = i - index1 /\ o >= 1 /\ o = (i + 1) - index1 - 1
    BY <1>3, <2>1
  <2>5. At(i) = Byte(k, o)
    BY <1>1, <2>2, <2>3, <2>4, AtIsLeft
  <2>6. stream[k].kind \in Kinds \ {"noise"}
    BY <1>1, <1>3, FramesAreTame
  <2>7. o = 1
    BY <2>1, <2>4, <2>5, <2>6, BytesOfFrame
  <2>8. i + 2 \in (index1 + 1)..(index1 + commandLen) /\ (i + 2) - index1 - 1 = 2 /\ (i + 1) + 1 = i + 2
    BY <1>3, <2>1, <2>4, <2>7
  <2>9. Left[(i + 1) + 1] = <<k, 2>>
    BY <1>3, <2>8
  <2>10. At(i + 1) = Byte(k, 2)
    BY <1>1, <2>2, <2>9, AtIsLeft
  <2>11. Byte(k, 2) = 0
    BY <2>6, BytesOfFrame
  <2> QED  BY <2>1, <2>10, <2>11
<1>8. CASE pos = e
  <2>1. Headers(index1 + 1) = {}
    <3>1. \A i \in Headers(index1 + 1) : i \in (index1 + 1)..(pos - 2)
      BY DEF Headers
    <3>2. \A i \in Headers(index1 + 1) : FALSE
      BY <1>3, <1>5, <1>7, <1>8, <3>1
    <3> QED  BY <3>2
  <2> QED  BY <1>3, <1>4, <1>8, <2>1 DEF Resync, k
<1>9. CASE pos >= e + 2
  <2>1. e + 1 \in DOMAIN Left
    BY <1>5, <1>9
  <2>2. Left[e + 1][2] = 0
    BY <1>3, <1>4, <2>1
  <2>3. e \in Headers(e)
    BY <1>1, <1>5, <1>9, <2>2, HeaderAtFrame
  <2>4. e \in Headers(index1 + 1)
    <3>1. e >= index1 + 1
      BY <1>3, <1>5
    <3> QED  BY <1>3, <1>5, <2>3, <3>1 DEF Headers
  <2>5. index1 + 1 \in Nat
    BY <1>3
  <2>6. /\ Min(Headers(index1 + 1)) \in Headers(index1 + 1)
        /\ Min(Headers(index1 + 1)) \in (index1 + 1)..(pos - 2)
        /\ Min(Headers(index1 + 1)) <= e
    BY <1>1, <2>4, <2>5, HeadersIn
  <2>7. Min(Headers(index1 + 1)) = e
    BY <1>3, <1>5, <1>7, <2>6
  <2>8. index2' = e /\ pos' = pos /\ pc' = "find"
    BY <2>4, <2>7 DEF Resync
  <2> QED  BY <1>3, <1>4, <1>9, <2>8 DEF k
<1> QED  BY <1>5, <1>6, <1>8, <1>9

LEMMA TameResync ==
    ASSUME TameInv, Tame, Resync PROVE NothingLost'
<1>1. TypeOK /\ SentInOrder /\ WholeFrames /\ AtFrame /\ OnlyWrongBefore /\ NoneLost
  BY DEF TameInv, NothingLost, SoundInv, TypeInv
<1> DEFINE k == Left[index1 + 1][1]
<1>2. /\ pc = "check" /\ UNCHANGED <<stream, wire, data, delivered, commandLen>>
  BY DEF Resync
<1>3. /\ k \in DOMAIN stream /\ index1 \in Nat /\ commandLen \in 9..263 /\ index1 + commandLen <= pos
      /\ Consumed = index1 + commandLen
      /\ \A i \in (index1 + 1)..(index1 + commandLen) :
             i \in DOMAIN Left /\ Left[i] = <<k, i - index1 - 1>>
      /\ Consumed + 1 \in DOMAIN Left => Left[Consumed + 1][2] = 0
  BY <1>2, CheckIs
<1>4. /\ ~ stream[k].good
      /\ \/ /\ pos' = 0 /\ pos = Consumed /\ index2' = 0 /\ pc' = "recv"
         \/ /\ pos' = pos /\ pos >= Consumed + 2 /\ index2' = Consumed /\ pc' = "find"
  BY ResyncIs
<1> HIDE DEF k
<1>5. PICK e \in Nat : e = Consumed /\ e = index1 + commandLen /\ e <= pos
  BY <1>3
<1>6. PICK t \in Nat : t = pos + Len(wire) /\ pos <= t /\ DOMAIN Left = 1..t /\ pos \in Nat
  BY <1>1, TypesOfNumbers, LeftIs
<1>7. Cursor = index1 /\ Cursor' = index2'
  BY <1>2, <1>4 DEF Cursor
<1>8. \A i \in 1..e : i \in DOMAIN Left /\ ~ stream[Left[i][1]].good
  <2> TAKE i \in 1..e
  <2>1. CASE i \in 1..index1
    BY <1>1, <1>2, <1>7, <2>1 DEF OnlyWrongBefore
  <2>2. CASE i \in (index1 + 1)..(index1 + commandLen)
    BY <1>3, <1>4, <2>2
  <2>3. i \in 1..index1 \/ i \in (index1 + 1)..(index1 + commandLen)
    BY <1>3, <1>5
  <2> QED  BY <2>1, <2>2, <2>3
<1>9. CASE pos' = pos /\ pos >= Consumed + 2 /\ index2' = Consumed /\ pc' = "find"
  <2>1. Left' = Left
    BY <1>2, <1>9 DEF Left
  <2>2. GivesUp(0)
    BY <1>1, <1>2, <1>9, LeftAsItWas
  <2>3. \A i \in DOMAIN Left : i > Cursor => i > e + 0 \/ ~ stream[Left[i][1]].good
    <3> TAKE i \in DOMAIN Left
    <3>1. i > e + 0 \/ i \in 1..e
      BY <1>5, <1>6
    <3> QED  BY <1>8, <3>1
  <2>4. e = Cursor'
    BY <1>5, <1>7, <1>9
  <2>5. NoneLost'
    BY <1>1, <1>2, <2>2, <2>3, <2>4, NoneLostStays
  <2>6. AtFrame'
    BY <1>1, <1>3, <1>7, <1>9, <2>1 DEF AtFrame
  <2>7. WholeFrames'
    BY <1>1, <1>2, <1>9, <2>1 DEF WholeFrames
  <2>8. OnlyWrongBefore'
    BY <1>2, <1>8, <2>1, <2>4 DEF OnlyWrongBefore
  <2> QED  BY <2>5, <2>6, <2>7, <2>8 DEF NothingLost
<1>10. CASE pos' = 0 /\ pos = Consumed /\ index2' = 0 /\ pc' = "recv"
  <2>0. pos = e
    BY <1>5, <1>10
  <2>1. GivesUp(pos)
    BY <1>1, <1>2, <1>10, LeftOnWire
  <2>2. 0 \in Nat /\ 0 = Cursor'
    BY <1>7, <1>10
  <2>3. \A i \in DOMAIN Left : i > Cursor => i > 0 + pos \/ ~ stream[Left[i][1]].good
    <3> TAKE i \in DOMAIN Left
    <3>1. i > 0 + pos \/ i \in 1..e
      BY <1>6, <2>0
    <3> QED  BY <1>8, <3>1
  <2>4. NoneLost'
    BY <1>1, <1>2, <2>1, <2>2, <2>3, NoneLostStays
  <2>5. WholeFrames'
    BY <1>1, <1>2, <2>1, WholeFramesStay
  <2>6. OnlyWrongBefore'
    <3>1. \A i \in 1..Cursor' : FALSE
      BY <2>2
    <3> QED  BY <3>1 DEF OnlyWrongBefore
  <2>7. ASSUME 1 \in DOMAIN Left' PROVE Left'[1][2] = 0
    <3>1. 1 + pos \in DOMAIN Left /\ Left'[1] = Left[1 + pos] /\ 1 + pos = Consumed + 1
      BY <1>6, <1>10, <2>1, <2>7 DEF GivesUp
    <3> QED  BY <1>3, <3>1
  <2>8. AtFrame'
    <3>1. Cursor' + 1 = 1 /\ pos' + 1 = 1 /\ ~ (index2' > 0)
      BY <1>10, <2>2
    <3> QED  BY <1>10, <2>7, <3>1 DEF AtFrame
  <2> QED  BY <2>4, <2>5, <2>6, <2>8 DEF NothingLost
<1> QED  BY <1>4, <1>9, <1>10

LEMMA TameShift ==
    ASSUME TameInv, Tame, Shift PROVE NothingLost'
<1>1. TypeOK /\ SentInOrder /\ WholeFrames /\ AtFrame /\ OnlyWrongBefore /\ NoneLost
  BY DEF TameInv, NothingLost, SoundInv, TypeInv
<1>2. /\ pc = "next" /\ pc' \in {"recv", "find"} /\ index2' = 0
      /\ data' = Following /\ pos' = Len(Following) /\ (pc' = "find" => Len(Following) >= 4)
      /\ UNCHANGED <<stream, wire, delivered>>
  <2>1. index2 >= 0 /\ ~ (index2 < 0)
    BY <1>1, TypesOfNumbers DEF AtFrame
  <2>2. Len(Following) \in Nat
    BY <1>1, <2>1, FollowingIs
  <2> QED  BY <2>1, <2>2 DEF Shift, MoveToFront
<1>3. Cursor = Consumed /\ Cursor' = 0
  BY <1>2 DEF Cursor
<1>4. PICK t \in Nat : t = pos + Len(wire) /\ pos <= t /\ DOMAIN Left = 1..t /\ pos \in Nat
  BY <1>1, TypesOfNumbers, LeftIs
<1>5. PICK e \in Nat : e = Consumed /\ e <= pos
  BY <1>1, TypesOfNumbers DEF Consumed
<1>6. GivesUp(Consumed)
  BY <1>1, ShiftGivesUpTheFrame
<1>7. \A i \in DOMAIN Left' : i + e \in DOMAIN Left /\ Left'[i] = Left[i + e]
  BY <1>5, <1>6 DEF GivesUp
<1>8. pos' \in Nat /\ pos' = pos - e
  <2>1. Len(Following) = IF index2 = 0 THEN 0 ELSE pos - index2
    BY <1>1, FollowingIs DEF AtFrame
  <2>2. index2 \in Nat
    BY <1>1, TypesOfNumbers DEF AtFrame
  <2>3. Len(Following) = pos - e
    <3>1. CASE index2 = 0
      BY <1>4, <1>5, <2>1, <3>1 DEF Consumed
    <3>2. CASE index2 # 0
      <4>1. Consumed = index2
        BY <2>2, <3>2 DEF Consumed
      <4> QED  BY <1>5, <2>1, <3>2, <4>1
    <3> QED  BY <3>1, <3>2
  <2> QED  BY <1>2, <1>4, <1>5, <2>3
<1>9. NoneLost'
  <2>1. \A i \in DOMAIN Left : i > Cursor => i > 0 + Consumed
    BY <1>3, <1>5
  <2>2. 0 \in Nat /\ 0 = Cursor'
    BY <1>3
  <2> QED  BY <1>1, <1>2, <1>6, <2>1, <2>2, NoneLostStays
<1>10. WholeFrames'
  BY <1>1, <1>2, <1>6, WholeFramesStay
<1>11. OnlyWrongBefore'
  <2>1. \A i \in 1..Cursor' : FALSE
    BY <1>3
  <2> QED  BY <2>1 DEF OnlyWrongBefore
<1>12. AtFrame'
  <2>1. ASSUME Cursor' + 1 \in DOMAIN Left' PROVE Left'[Cursor' + 1][2] = 0
    <3>1. Cursor' + 1 = 1 /\ 1 + e = Cursor + 1
      BY <1>3, <1>5
    <3>2. Cursor + 1 \in DOMAIN Left /\ Left'[Cursor' + 1] = Left[Cursor + 1]
      BY <1>7, <2>1, <3>1
    <3> QED  BY <1>1, <3>2 DEF AtFrame
  <2>2. ASSUME pos' + 1 \in DOMAIN Left' PROVE Left'[pos' + 1][2] \in Cuts \cup {0}
    <3>1. (pos' + 1) + e = pos + 1
      BY <1>4, <1>5, <1>8
    <3>2. pos + 1 \in DOMAIN Left /\ Left'[pos' + 1] = Left[pos + 1]
      BY <1>7, <2>2, <3>1
    <3> QED  BY <1>1, <3>2 DEF AtFrame
  <2>3. ~ (index2' > 0) /\ (pc' = "find" => pos' >= index2' + 2)
    BY <1>2, <1>8
  <2> QED  BY <1>2, <2>1, <2>2, <2>3 DEF AtFrame
<1> QED  BY <1>9, <1>10, <1>11, <1>12 DEF NothingLost

LEMMA TameStep ==
    ASSUME TameInv, Tame, [Next]_vars PROVE TameInv'
<1>1. /\ TypeOK /\ SoundInv
      /\ WholeFrames /\ AtFrame /\ OnlyWrongBefore /\ NoneLost
  BY DEF TameInv, NothingLost, SoundInv, TypeInv
<1>2. SoundInv'
  BY <1>1, SoundStep
<1>3. ASSUME NEW n \in CutPoints, Recv(n) PROVE NothingLost'
  BY <1>3, TameRecv
<1>4. ~ FindNothing
  BY FindIs DEF FindNothing
<1>5. ASSUME FindHeader PROVE NothingLost'
  BY <1>5, TameFindHeader
<1>6. ASSUME Deliver PROVE NothingLost'
  BY <1>6, TameDeliver
<1>7. ASSUME Resync PROVE NothingLost'
  BY <1>7, TameResync
<1>8. ASSUME Shift PROVE NothingLost'
  BY <1>8, TameShift
<1>9. ~ Fail
  BY DEF Fail, ConnectionLost, ConnectionReplaced, Tame
<1>10. ASSUME UNCHANGED vars PROVE NothingLost'
  <2>1. UNCHANGED <<stream, wire, pc, data, pos, index1, index2, commandLen, delivered>>
    BY <1>10 DEF vars
  <2>2. Left' = Left /\ Consumed' = Consumed /\ Cursor' = Cursor
    BY <2>1 DEF Left, Consumed, Cursor
  <2>3. WholeFrames' /\ NoneLost' /\ OnlyWrongBefore'
    BY <1>1, <2>1, <2>2 DEF WholeFrames, NoneLost, OnlyWrongBefore, GoodFrames
  <2>4. AtFrame'
    BY <1>1, <2>1, <2>2 DEF AtFrame
  <2> QED  BY <2>3, <2>4 DEF NothingLost
<1>11. NothingLost'
  BY <1>3, <1>4, <1>5, <1>6, <1>7, <1>8, <1>9, <1>10 DEF Next, Step, Receive
<1> QED  BY <1>2, <1>11 DEF TameInv

LEMMA TameInit ==
    ASSUME Init, Tame PROVE TameInv
<1>1. SoundInv /\ TypeOK
  BY SoundInit DEF SoundInv, TypeInv
<1>2. /\ stream \in Seq(Frames) /\ wire = Whole /\ pos = 0 /\ delivered = <<>> /\ Len(wire) \in Nat
      /\ data = <<>> /\ pc = "recv" /\ index2 = 0
  BY <1>1, StreamsAssumption, TypesOfNumbers DEF Init
<1>3. Shape(stream, Len(stream), wire)
  BY <1>2, WholeHasShape
<1>4. DOMAIN Left = 1..Len(wire) /\ \A i \in 1..Len(wire) : Left[i] = wire[i]
  <2>1. DOMAIN Left = 1..(pos + Len(wire))
    BY <1>1, LeftIs
  <2>2. pos + Len(wire) = Len(wire) /\ \A i \in 1..Len(wire) : pos + i = i
    BY <1>2
  <2> QED  BY <1>1, <2>1, <2>2, LeftIs
<1>5. DOMAIN wire = 1..Len(wire) /\ Len(stream) \in Nat /\ DOMAIN stream = 1..Len(stream)
  BY <1>1, <1>2 DEF TypeOK
<1>6. ASSUME NEW i \in 1..Len(wire) PROVE wire[i][1] \in DOMAIN stream /\ wire[i][2] \in Nat
  <2>1. wire[i] \in BytesOf(stream, Len(stream))
    BY <1>3, <1>5 DEF Shape
  <2> QED  BY <1>5, <2>1 DEF BytesOf
<1>7. WholeFrames
  <2>1. ASSUME NEW i \in 1..Len(wire), wire[i][2] = 0
        PROVE  /\ i + LenOf(stream, wire[i][1]) - 1 \in 1..Len(wire)
               /\ \A o \in 0..(LenOf(stream, wire[i][1]) - 1) :
                      i + o \in 1..Len(wire) /\ wire[i + o] = <<wire[i][1], o>>
    <3>1. PICK l \in 9..263 : l = LenOf(stream, wire[i][1])
      BY <1>1, <1>6, FramesAreTame
    <3>2. InFrame(stream, wire, i)
      BY <1>3, <1>5 DEF Shape
    <3>3. i - wire[i][2] = i
      BY <2>1
    <3>4. /\ i + l - 1 <= Len(wire)
          /\ \A o \in 0..(l - 1) : wire[i + o] = <<wire[i][1], o>>
      BY <3>1, <3>2, <3>3 DEF InFrame
    <3>5. i + l - 1 \in 1..Len(wire) /\ \A o \in 0..(l - 1) : i + o \in 1..Len(wire)
      BY <1>2, <3>4
    <3> QED  BY <3>1, <3>4, <3>5
  <2>2. ASSUME NEW i \in 1..Len(wire), i + 1 \in 1..Len(wire),
               wire[i][2] + 1 = LenOf(stream, wire[i][1])
        PROVE  wire[i + 1][2] = 0
    <3>1. i \in 1..(Len(wire) - 1)
      BY <1>2, <2>2
    <3>2. NextFrame(stream, wire, i)
      BY <1>3, <3>1 DEF Shape
    <3> QED  BY <2>2, <3>2 DEF NextFrame
  <2>3. ASSUME NEW i \in DOMAIN Left, Left[i][2] = 0
        PROVE  /\ i + LenOf(stream, Left[i][1]) - 1 \in DOMAIN Left
               /\ \A o \in 0..(LenOf(stream, Left[i][1]) - 1) : Left[i + o] = <<Left[i][1], o>>
    <3>1. i \in 1..Len(wire) /\ Left[i] = wire[i]
      BY <1>4
    <3>2. /\ i + LenOf(stream, wire[i][1]) - 1 \in 1..Len(wire)
          /\ \A o \in 0..(LenOf(stream, wire[i][1]) - 1) :
                 i + o \in 1..Len(wire) /\ wire[i + o] = <<wire[i][1], o>>
      BY <2>1, <2>3, <3>1
    <3> QED  BY <1>4, <3>1, <3>2
  <2>4. ASSUME NEW i \in DOMAIN Left, i + 1 \in DOMAIN Left,
               Left[i][2] + 1 = LenOf(stream, Left[i][1])
        PROVE  Left[i + 1][2] = 0
    <3>1. i \in 1..Len(wire) /\ i + 1 \in 1..Len(wire)
      BY <1>4, <2>4
    <3>2. Left[i] = wire[i] /\ Left[i + 1] = wire[i + 1]
      BY <1>4, <3>1
    <3> QED  BY <2>2, <2>4, <3>1, <3>2
  <2> QED  BY <2>3, <2>4 DEF WholeFrames
<1>8. Cursor = 0 /\ Cursor + 1 = 1 /\ pos + 1 = 1
  BY <1>2 DEF Cursor
<1>9. AtFrame
  <2>1. ASSUME 1 \in DOMAIN Left PROVE Left[1][2] = 0
    <3>1. Len(stream) > 0
      <4>1. wire[1][1] \in 1..Len(stream)
        BY <1>4, <1>5, <1>6, <2>1
      <4> QED  BY <1>5, <4>1
    <3>2. wire[1] = <<1, 0>>
      BY <1>3, <3>1 DEF Shape
    <3> QED  BY <1>4, <2>1, <3>2
  <2> QED  BY <1>2, <1>8, <2>1 DEF AtFrame
<1>10. OnlyWrongBefore
  <2>1. \A i \in 1..Cursor : FALSE
    BY <1>8
  <2> QED  BY <2>1 DEF OnlyWrongBefore
<1>12. NoneLost
  <2>1. ASSUME NEW k \in GoodFrames
        PROVE  \E i \in DOMAIN Left : i > Cursor /\ Left[i] = <<k, 0>>
    <3>1. k \in 1..Len(stream)
      BY <1>5 DEF GoodFrames
    <3>2. PICK i \in DOMAIN wire : wire[i] = <<k, 0>>
      BY <1>3, <3>1 DEF Shape
    <3>3. i > Cursor
      BY <1>5, <1>8
    <3> QED  BY <1>4, <1>5, <3>2, <3>3
  <2> QED  BY <2>1 DEF NoneLost
<1> QED  BY <1>1, <1>7, <1>9, <1>10, <1>12 DEF TameInv, NothingLost

LEMMA TameAlways == ASSUME Tame PROVE Spec => []TameInv
<1>1. Init => TameInv
  BY TameInit
<1>2. TameInv /\ [Next]_vars => TameInv'
  BY TameStep
<1> QED  BY <1>1, <1>2, PTL DEF Spec

(* On such a connection every search finds a header in its own buffer.     *)
THEOREM HeaderAlwaysFound ==
    ASSUME Tame PROVE Spec => []NoLeftoverHeader
<1>1. TameInv => NoLeftoverHeader
  BY FindIs DEF NoLeftoverHeader
<1> QED  BY <1>1, TameAlways, PTL

(* On such a connection the comment at the search for a second header is   *)
(* true: bytes are given up there only for a frame that was sent with a    *)
(* wrong checksum.                                                         *)
THEOREM OnlyWrongFramesLost ==
    ASSUME Tame PROVE Spec => OnlyWrongFramesGivenUp
<1>1. ASSUME TameInv, Resync PROVE ~ stream[data[index1 + 1][1]].good
  BY <1>1, ResyncIs, CheckIs DEF Resync
<1>2. TameInv => [Resync => ~ stream[data[index1 + 1][1]].good]_vars
  BY <1>1
<1> QED  BY <1>2, TameAlways, PTL DEF OnlyWrongFramesGivenUp

(* On such a connection the loop is a channel of frames, step by step: it  *)
(* executes every frame with a right checksum before any later one.        *)
THEOREM StepsOfChannel ==
    ASSUME Tame PROVE Spec => Channel!Steps
<1>1. Init => Channel!Init
  BY DEF Init, Channel!Init
<1>2. ASSUME TameInv, [Next]_vars PROVE [Channel!Next]_(Channel!vars)
  <2>1. CASE Deliver
    <3> DEFINE k == Left[index1 + 1][1]
               todo == GoodFrames \ Range(delivered)
    <3>1. /\ TypeOK /\ SentInOrder /\ OnlyLater /\ NoneLost /\ pc = "check"
      BY <1>2, <2>1 DEF TameInv, NothingLost, SoundInv, TypeInv, Deliver
    <3>2. /\ k \in DOMAIN stream /\ data[index1 + 1][1] = k
          /\ index1 \in Nat /\ commandLen \in 9..263
          /\ \A i \in (index1 + 1)..(index1 + commandLen) :
                 i \in DOMAIN Left /\ Left[i] = <<k, i - index1 - 1>>
          /\ stream[k].good
      BY <1>2, <2>1, <3>1, CheckIs DEF Deliver
    <3>3. index1 + 1 \in DOMAIN Left /\ Left[index1 + 1] = <<k, 0>> /\ Cursor = index1
      <4>1. index1 + 1 \in (index1 + 1)..(index1 + commandLen) /\ (index1 + 1) - index1 - 1 = 0
        BY <3>2
      <4>2. Cursor = index1
        BY <3>1 DEF Cursor
      <4>3. index1 + 1 \in DOMAIN Left /\ Left[index1 + 1] = <<k, (index1 + 1) - index1 - 1>>
        BY <3>2, <4>1
      <4> QED  BY <4>1, <4>2, <4>3
    <3> HIDE DEF k
    <3>4. delivered \in Seq(DOMAIN stream) /\ DOMAIN stream \subseteq Nat
      BY <3>1, StreamsAssumption DEF TypeOK
    <3>5. k \in todo
      <4>1. \A d \in DOMAIN delivered : delivered[d] < k
        BY <3>1, <3>3 DEF OnlyLater
      <4>2. k \notin Range(delivered)
        BY <3>2, <3>4, <4>1 DEF Range
      <4> QED  BY <3>2, <4>2 DEF GoodFrames
    <3>6. ASSUME NEW j \in todo PROVE k <= j
      <4>1. PICK i \in DOMAIN Left : i > Cursor /\ Left[i] = <<j, 0>>
        BY <3>1 DEF NoneLost
      <4>2. k \in Nat /\ j \in Nat
        BY <3>2, <3>4 DEF GoodFrames
      <4>3. CASE i = index1 + 1
        BY <3>3, <4>1, <4>2, <4>3
      <4>4. CASE i > index1 + 1
        <5>1. Before(Left[index1 + 1], Left[i])
          BY <3>1, <3>3, <4>4 DEF SentInOrder, InOrder
        <5> QED  BY <3>3, <4>1, <4>2, <5>1 DEF Before
      <4>5. i \in Nat
        <5>1. DOMAIN Left = 1..(pos + Len(wire)) /\ pos \in Nat /\ Len(wire) \in Nat
          BY <3>1, LeftIs, TypesOfNumbers
        <5> QED  BY <5>1
      <4> QED  BY <3>2, <3>3, <4>1, <4>3, <4>4, <4>5
    <3>7. delivered' = Append(delivered, k) /\ stream' = stream
      BY <2>1, <3>2 DEF Deliver
    <3>8. Range(delivered') = Range(delivered) \cup {k}
      <4>1. PICK n \in Nat : n = Len(delivered)
        BY <3>4
      <4>2. DOMAIN delivered = 1..n /\ DOMAIN delivered' = 1..(n + 1) /\ delivered'[n + 1] = k
            /\ \A d \in 1..n : delivered'[d] = delivered[d]
        BY <3>2, <3>4, <3>7, <4>1
      <4>3. \A d \in 1..(n + 1) : d \in 1..n \/ d = n + 1
        BY <4>1
      <4>4. n + 1 \in 1..(n + 1) /\ \A d \in 1..n : d \in 1..(n + 1)
        BY <4>1
      <4> QED  BY <4>2, <4>3, <4>4 DEF Range
    <3>9. GoodFrames' \ Range(delivered') = todo \ {k}
      BY <3>7, <3>8 DEF GoodFrames
    <3>10. Channel!Arrive
      <4> HIDE DEF todo
      <4>1. \A j \in todo : k <= j
        BY <3>6
      <4>2. \E next \in todo : /\ \A other \in todo : next <= other
                               /\ delivered' = Append(delivered, next)
                               /\ GoodFrames' \ Range(delivered') = todo \ {next}
        BY <3>5, <3>7, <3>9, <4>1
      <4> QED  BY <4>2 DEF Channel!Arrive, todo
    <3> QED  BY <3>10 DEF Channel!Next
  <2>2. CASE ~ Deliver
    <3>1. UNCHANGED <<stream, delivered>>
      BY <1>2, <2>2 DEF Next, Step, Receive, Recv, FindNothing, FindHeader, Resync, Shift,
                        Fail, ConnectionLost, ConnectionReplaced, vars
    <3>2. GoodFrames' = GoodFrames /\ Range(delivered)' = Range(delivered)
      BY <3>1 DEF GoodFrames
    <3> QED  BY <3>1, <3>2 DEF Channel!vars
  <2> QED  BY <2>1, <2>2
<1> QED  BY <1>1, <1>2, TameAlways, PTL DEF Spec, Channel!Steps
=============================================================================
