--------------------------- MODULE FrameRootsProofs ---------------------------
(***************************************************************************)
(* Proofs about module FrameRoots, for methods of any size, made of any    *)
(* menu, with any number of stack map frames.                              *)
(*                                                                         *)
(* What makes the roots right is that the two interpreters agree on one    *)
(* instruction, InterpretAgrees, and that between two stack map frames     *)
(* there is only one way through the code.  The second is the invariant:   *)
(* the type of the frame before each instruction does not depend on how    *)
(* execution came there.                                                   *)
(***************************************************************************)
EXTENDS FrameRoots, NumberInduction, TLAPS

-----------------------------------------------------------------------------
(* Sequences. *)

LEMMA ListFacts ==
  ASSUME NEW S, NEW l \in Seq(S)
  PROVE  /\ Len(l) \in Nat /\ DOMAIN l = 1..Len(l) /\ \A i \in 1..Len(l) : l[i] \in S
         /\ l = [i \in 1..Len(l) |-> l[i]]
OBVIOUS

LEMMA FunctionIsList ==
  ASSUME NEW S, NEW n \in Nat, NEW l \in [1..n -> S]
  PROVE  l \in Seq(S) /\ Len(l) = n
OBVIOUS

LEMMA SameList ==
  ASSUME NEW S, NEW T, NEW a \in Seq(S), NEW b \in Seq(T), Len(a) = Len(b),
         \A i \in 1..Len(a) : a[i] = b[i]
  PROVE  a = b
OBVIOUS

LEMMA PartOfList ==
  ASSUME NEW S, NEW l \in Seq(S), NEW m \in 1..Len(l) + 1, NEW n \in 0..Len(l), m <= n + 1
  PROVE  /\ SubSeq(l, m, n) \in Seq(S) /\ Len(SubSeq(l, m, n)) = n - m + 1
         /\ \A i \in 1..n - m + 1 : SubSeq(l, m, n)[i] = l[m + i - 1]
<1>1. SubSeq(l, m, n) = [i \in 1..n - m + 1 |-> l[m + i - 1]]
  OBVIOUS
<1>2. \A i \in 1..n - m + 1 : l[m + i - 1] \in S
  OBVIOUS
<1> QED
  BY <1>1, <1>2

LEMMA FirstOfList ==
  ASSUME NEW S, NEW l \in Seq(S), NEW n \in 0..Len(l)
  PROVE  /\ SubSeq(l, 1, n) \in Seq(S) /\ Len(SubSeq(l, 1, n)) = n
         /\ \A i \in 1..n : SubSeq(l, 1, n)[i] = l[i]
<1>1. 1 \in 1..Len(l) + 1 /\ 1 <= n + 1 /\ Len(l) \in Nat
  OBVIOUS
<1>2. /\ SubSeq(l, 1, n) \in Seq(S) /\ Len(SubSeq(l, 1, n)) = n - 1 + 1
      /\ \A i \in 1..n - 1 + 1 : SubSeq(l, 1, n)[i] = l[1 + i - 1]
  BY <1>1, PartOfList
<1> QED
  BY <1>2

LEMMA OneMore ==
  ASSUME NEW S, NEW l \in Seq(S), NEW n \in 1..Len(l)
  PROVE  SubSeq(l, 1, n) = Append(SubSeq(l, 1, n - 1), l[n])
<1>1. n - 1 \in 0..Len(l) /\ n \in 0..Len(l) /\ l[n] \in S
  OBVIOUS
<1>2. /\ SubSeq(l, 1, n) \in Seq(S) /\ Len(SubSeq(l, 1, n)) = n
      /\ \A i \in 1..n : SubSeq(l, 1, n)[i] = l[i]
  BY <1>1, FirstOfList
<1>3. /\ SubSeq(l, 1, n - 1) \in Seq(S) /\ Len(SubSeq(l, 1, n - 1)) = n - 1
      /\ \A i \in 1..n - 1 : SubSeq(l, 1, n - 1)[i] = l[i]
  BY <1>1, FirstOfList
<1> QED
  BY <1>1, <1>2, <1>3

LEMMA WholeList ==
  ASSUME NEW S, NEW l \in Seq(S)
  PROVE  SubSeq(l, 1, Len(l)) = l
<1>1. /\ SubSeq(l, 1, Len(l)) \in Seq(S) /\ Len(SubSeq(l, 1, Len(l))) = Len(l)
      /\ \A i \in 1..Len(l) : SubSeq(l, 1, Len(l))[i] = l[i]
  BY FirstOfList
<1> QED
  BY <1>1

LEMMA JoinedList ==
  ASSUME NEW S, NEW a \in Seq(S), NEW b \in Seq(S)
  PROVE  /\ a \o b \in Seq(S) /\ Len(a \o b) = Len(a) + Len(b)
         /\ \A i \in 1..Len(a) : (a \o b)[i] = a[i]
         /\ \A i \in 1..Len(b) : (a \o b)[Len(a) + i] = b[i]
OBVIOUS

-----------------------------------------------------------------------------
(* Values and their slots. *)

Value == Kind \cup {"top"}

LEMMA SlotsOfValue ==
  ASSUME NEW k
  PROVE  /\ k = "long" => /\ Slots(k) = <<"long", "half">> /\ Len(Slots(k)) = 2
                          /\ Slots(k)[1] = "long" /\ Slots(k)[2] = "half"
         /\ k # "long" => Slots(k) = <<k>> /\ Len(Slots(k)) = 1 /\ Slots(k)[1] = k
         /\ k \in Value \cup Tag => Slots(k) \in Seq(Tag) /\ Len(Slots(k)) \in 1..2
<1>1. CASE k = "long"
  <2>1. Slots(k) = <<"long", "half">>
    BY <1>1 DEF Slots
  <2>2. "long" \in Tag /\ "half" \in Tag
    BY DEF Tag, Kind
  <2>3. ASSUME NEW a \in Tag, NEW b \in Tag
        PROVE  <<a, b>> \in Seq(Tag) /\ Len(<<a, b>>) = 2 /\ <<a, b>>[1] = a /\ <<a, b>>[2] = b
    OBVIOUS
  <2>4. Slots(k) \in Seq(Tag) /\ Len(Slots(k)) = 2 /\ Slots(k)[1] = "long" /\ Slots(k)[2] = "half"
    BY <2>1, <2>2, <2>3
  <2> QED BY <1>1, <2>1, <2>4
<1>2. CASE k # "long"
  <2>1. Slots(k) = <<k>>
    BY <1>2 DEF Slots
  <2>2. k \in Value \cup Tag => k \in Tag
    BY DEF Value, Tag, Kind
  <2> QED BY <1>2, <2>1, <2>2
<1> QED
  BY <1>1, <1>2

LEMMA SpreadSteps ==
  ASSUME NEW ks \in Seq(Value)
  PROVE  \E f : /\ f[0] = <<>> /\ \A n \in 0..Len(ks) : f[n] \in Seq(Tag)
                /\ \A n \in 1..Len(ks) : f[n] = f[n - 1] \o Slots(ks[n])
                /\ Spread(ks) = f[Len(ks)]
<1> DEFINE m == Len(ks)
           Body(n, v) == v \o Slots(ks[n])
           Def(g) == [n \in 0..m |-> IF n = 0 THEN <<>> ELSE Body(n, g[n - 1])]
           S == [n \in 0..m |-> Seq(Tag)]
           step == [n \in 1..m |-> [v \in S[n - 1] |-> Body(n, v)]]
           it == CHOOSE g : g = Def(g)
<1>1. m \in Nat /\ <<>> \in S[0]
  OBVIOUS
<1>2. ASSUME NEW n \in 1..m, NEW v \in S[n - 1] PROVE Body(n, v) \in S[n]
  <2>1. ks[n] \in Value /\ v \in Seq(Tag)
    OBVIOUS
  <2>2. Body(n, v) \in Seq(Tag) /\ n \in 0..m
    BY <2>1, SlotsOfValue
  <2> QED BY <2>2
<1>3. \A n \in 1..m : \A v \in S[n - 1] : step[n][v] = Body(n, v)
  <2> HIDE DEF S, Body
  <2> QED OBVIOUS
<1>4. \E g : g = Def(g)
  <2> HIDE DEF S, step, Body, m
  <2>1. \A n \in 1..m : \A v \in S[n - 1] : step[n][v] \in S[n]
    BY <1>2, <1>3
  <2>2. PICK g : ComputedWithin(g, m, S, <<>>, step)
    BY <1>1, <2>1, StepByStepWithin
  <2>3. /\ g = [i \in 0..m |-> g[i]] /\ g[0] = <<>>
        /\ \A i \in 0..m : g[i] \in S[i]
        /\ \A i \in 1..m : g[i] = step[i][g[i - 1]]
    BY <2>2 DEF ComputedWithin
  <2>4. \A n \in 1..m : n - 1 \in 0..m
    BY <1>1
  <2>5. \A n \in 1..m : g[n] = Body(n, g[n - 1])
    BY <1>3, <2>3, <2>4
  <2>6. \A n \in 0..m : g[n] = IF n = 0 THEN <<>> ELSE Body(n, g[n - 1])
    <3>1. ASSUME NEW n \in 0..m, n # 0 PROVE n \in 1..m
      BY <1>1, <3>1
    <3> QED BY <2>3, <2>5, <3>1
  <2>7. g = Def(g)
    BY <2>3, <2>6
  <2> QED BY <2>7
<1>5. it = Def(it)
  <2> HIDE DEF Def
  <2> QED BY <1>4
<1>6. it[0] = <<>> /\ \A n \in 1..m : it[n] = Body(n, it[n - 1])
  <2> HIDE DEF it, Body, m
  <2>1. it = [n \in 0..m |-> IF n = 0 THEN <<>> ELSE Body(n, it[n - 1])]
    BY <1>5
  <2>2. \A n \in 1..m : n \in 0..m /\ n # 0
    BY <1>1
  <2> QED BY <1>1, <2>1, <2>2
<1>7. \A n \in 0..m : it[n] \in S[n]
  <2> HIDE DEF it, S, Body, m
  <2> DEFINE T == {n \in 0..m : it[n] \in S[n]}
  <2>1. 0 \in T
    BY <1>1, <1>6
  <2>2. ASSUME NEW n \in 1..m, n - 1 \in T PROVE n \in T
    BY <1>1, <1>2, <1>6, <2>2
  <2>3. \A n \in 0..m : n \in T
    <3> HIDE DEF T
    <3> QED BY <1>1, <2>1, <2>2, UpTo
  <2> QED BY <2>3
<1>8. Spread(ks) = it[m]
  BY DEF Spread
<1> HIDE DEF it
<1> QED
  BY <1>6, <1>7, <1>8

LEMMA SpreadFacts ==
  ASSUME NEW ks \in Seq(Value)
  PROVE  /\ Spread(ks) \in Seq(Tag) /\ Width(ks) = Len(Spread(ks)) /\ Width(ks) \in Nat
         /\ DOMAIN Spread(ks) = 1..Width(ks)
         /\ ks = <<>> => Spread(ks) = <<>>
<1>1. PICK f : /\ f[0] = <<>> /\ \A n \in 0..Len(ks) : f[n] \in Seq(Tag)
               /\ \A n \in 1..Len(ks) : f[n] = f[n - 1] \o Slots(ks[n])
               /\ Spread(ks) = f[Len(ks)]
  BY SpreadSteps
<1>2. Len(ks) \in 0..Len(ks) /\ (ks = <<>> => Len(ks) = 0)
  OBVIOUS
<1>3. Spread(ks) \in Seq(Tag)
  BY <1>1, <1>2
<1>4. Len(Spread(ks)) \in Nat /\ DOMAIN Spread(ks) = 1..Len(Spread(ks))
  BY <1>3
<1> QED
  BY <1>1, <1>2, <1>3, <1>4 DEF Width

LEMMA SpreadOfMore ==
  ASSUME NEW ks \in Seq(Value), NEW k \in Value
  PROVE  Spread(Append(ks, k)) = Spread(ks) \o Slots(k)
<1> DEFINE more == Append(ks, k)
           L == Len(ks)
<1>1. /\ more \in Seq(Value) /\ Len(more) = L + 1 /\ L \in Nat /\ more[L + 1] = k
      /\ \A n \in 1..L : more[n] = ks[n]
  OBVIOUS
<1>2. PICK f : /\ f[0] = <<>> /\ \A n \in 0..Len(ks) : f[n] \in Seq(Tag)
               /\ \A n \in 1..Len(ks) : f[n] = f[n - 1] \o Slots(ks[n])
               /\ Spread(ks) = f[Len(ks)]
  BY SpreadSteps
<1> HIDE DEF more
<1>3. PICK g : /\ g[0] = <<>> /\ \A n \in 0..Len(more) : g[n] \in Seq(Tag)
               /\ \A n \in 1..Len(more) : g[n] = g[n - 1] \o Slots(more[n])
               /\ Spread(more) = g[Len(more)]
  BY <1>1, SpreadSteps
<1> HIDE DEF L
<1> DEFINE T == {n \in 0..L : g[n] = f[n]}
<1>4. 0 \in T
  BY <1>1, <1>2, <1>3
<1>5. ASSUME NEW n \in 1..L, n - 1 \in T PROVE n \in T
  <2>1. n \in 1..Len(more) /\ n \in 0..L /\ more[n] = ks[n]
    BY <1>1
  <2>2. g[n] = g[n - 1] \o Slots(ks[n]) /\ f[n] = f[n - 1] \o Slots(ks[n]) /\ g[n - 1] = f[n - 1]
    BY <1>2, <1>3, <1>5, <2>1 DEF L
  <2> QED BY <2>1, <2>2
<1>6. \A n \in 0..L : n \in T
  <2> HIDE DEF T
  <2> QED BY <1>1, <1>4, <1>5, UpTo
<1>7. g[L] = f[L]
  BY <1>1, <1>6
<1>8. L + 1 \in 1..Len(more) /\ (L + 1) - 1 = L
  BY <1>1
<1>9. g[L + 1] = g[L] \o Slots(k)
  BY <1>1, <1>3, <1>8
<1> QED
  BY <1>1, <1>2, <1>3, <1>7, <1>9 DEF L, more

LEMMA SpreadOfFew ==
  ASSUME NEW a \in Value, NEW b \in Value, NEW c \in Value
  PROVE  /\ <<a>> \in Seq(Value) /\ Spread(<<a>>) = Slots(a) /\ Width(<<a>>) = Len(Slots(a))
         /\ <<a, b>> \in Seq(Value) /\ Spread(<<a, b>>) = Slots(a) \o Slots(b)
         /\ <<a, b, c>> \in Seq(Value) /\ Spread(<<a, b, c>>) = (Slots(a) \o Slots(b)) \o Slots(c)
         /\ <<>> \in Seq(Value) /\ Spread(<<>>) = <<>> /\ Width(<<>>) = 0
<1>1. <<>> \in Seq(Value) /\ Spread(<<>>) = <<>> /\ Width(<<>>) = 0
  <2>1. <<>> \in Seq(Value) /\ Len(<<>>) = 0
    OBVIOUS
  <2> QED BY <2>1, SpreadFacts
<1>2. <<a>> \in Seq(Value) /\ <<a>> = Append(<<>>, a)
  OBVIOUS
<1>3. <<a, b>> \in Seq(Value) /\ <<a, b>> = Append(<<a>>, b)
  OBVIOUS
<1>4. <<a, b, c>> \in Seq(Value) /\ <<a, b, c>> = Append(<<a, b>>, c)
  OBVIOUS
<1>5. Slots(a) \in Seq(Tag)
  BY SlotsOfValue
<1>6. Spread(<<a>>) = <<>> \o Slots(a)
  BY <1>1, <1>2, SpreadOfMore
<1>7. <<>> \o Slots(a) = Slots(a)
  BY <1>5
<1>8. Spread(<<a, b>>) = Spread(<<a>>) \o Slots(b)
  BY <1>2, <1>3, SpreadOfMore
<1>9. Spread(<<a, b, c>>) = Spread(<<a, b>>) \o Slots(c)
  BY <1>3, <1>4, SpreadOfMore
<1> QED
  BY <1>1, <1>2, <1>3, <1>4, <1>6, <1>7, <1>8, <1>9 DEF Width

LEMMA JoinedWhole ==
  ASSUME NEW a \in Seq(Tag), NEW b \in Seq(Tag), WholeLongs(a), WholeLongs(b)
  PROVE  WholeLongs(a \o b)
<1> DEFINE s == a \o b
           A == Len(a)
           B == Len(b)
<1>1. /\ A \in Nat /\ B \in Nat /\ s \in Seq(Tag) /\ Len(s) = A + B /\ DOMAIN s = 1..A + B
      /\ DOMAIN a = 1..A /\ DOMAIN b = 1..B
      /\ \A i \in 1..A : s[i] = a[i]
      /\ \A i \in 1..B : s[A + i] = b[i]
  BY JoinedList
<1> HIDE DEF s, A, B
<1>2. ASSUME NEW i \in 1..A + B
      PROVE  /\ s[i] = "long" => i < A + B /\ s[i + 1] = "half"
             /\ s[i] = "half" => i > 1 /\ s[i - 1] = "long"
  <2>1. CASE i \in 1..A
    <3>1. s[i] = a[i]
      BY <1>1, <2>1
    <3>2. ASSUME s[i] = "long" PROVE i < A + B /\ s[i + 1] = "half"
      <4>1. i < A /\ a[i + 1] = "half"
        BY <1>1, <2>1, <3>1, <3>2 DEF WholeLongs, A
      <4> QED BY <1>1, <2>1, <4>1
    <3>3. ASSUME s[i] = "half" PROVE i > 1 /\ s[i - 1] = "long"
      <4>1. i > 1 /\ a[i - 1] = "long"
        BY <1>1, <2>1, <3>1, <3>3 DEF WholeLongs, A
      <4> QED BY <1>1, <2>1, <4>1
    <3> QED BY <3>2, <3>3
  <2>2. CASE i \notin 1..A
    <3> DEFINE j == i - A
    <3>1. j \in 1..B /\ i = A + j /\ s[i] = b[j]
      BY <1>1, <2>2
    <3> HIDE DEF j
    <3>2. ASSUME s[i] = "long" PROVE i < A + B /\ s[i + 1] = "half"
      <4>1. j < B /\ b[j + 1] = "half"
        BY <1>1, <3>1, <3>2 DEF WholeLongs, B
      <4>2. j + 1 \in 1..B /\ A + (j + 1) = i + 1
        BY <1>1, <3>1, <4>1
      <4> QED BY <1>1, <3>1, <4>1, <4>2
    <3>3. ASSUME s[i] = "half" PROVE i > 1 /\ s[i - 1] = "long"
      <4>1. j > 1 /\ b[j - 1] = "long"
        BY <1>1, <3>1, <3>3 DEF WholeLongs, B
      <4>2. j - 1 \in 1..B /\ A + (j - 1) = i - 1
        BY <1>1, <3>1, <4>1
      <4> QED BY <1>1, <3>1, <4>1, <4>2
    <3> QED BY <3>2, <3>3
  <2> QED BY <2>1, <2>2
<1>3. WholeLongs(s)
  BY <1>1, <1>2 DEF WholeLongs
<1> QED
  BY <1>3 DEF s

LEMMA SpreadWhole ==
  ASSUME NEW ks \in Seq(Value)
  PROVE  WholeLongs(Spread(ks))
<1>1. PICK f : /\ f[0] = <<>> /\ \A n \in 0..Len(ks) : f[n] \in Seq(Tag)
               /\ \A n \in 1..Len(ks) : f[n] = f[n - 1] \o Slots(ks[n])
               /\ Spread(ks) = f[Len(ks)]
  BY SpreadSteps
<1>2. Len(ks) \in Nat
  OBVIOUS
<1> DEFINE T == {n \in 0..Len(ks) : WholeLongs(f[n])}
<1>3. 0 \in T
  <2>1. WholeLongs(<<>>)
    BY DEF WholeLongs
  <2> QED BY <1>1, <1>2, <2>1
<1>4. ASSUME NEW n \in 1..Len(ks), n - 1 \in T PROVE n \in T
  <2>1. ks[n] \in Value /\ n - 1 \in 0..Len(ks) /\ n \in 0..Len(ks)
    OBVIOUS
  <2>2. Slots(ks[n]) \in Seq(Tag) /\ DOMAIN Slots(ks[n]) = 1..Len(Slots(ks[n]))
    BY <2>1, SlotsOfValue
  <2>3. WholeLongs(Slots(ks[n]))
    <3>1. CASE ks[n] = "long"
      <4> DEFINE w == Slots(ks[n])
      <4>1. Len(w) = 2 /\ w[1] = "long" /\ w[2] = "half" /\ DOMAIN w = 1..Len(w)
        BY <2>2, <3>1, SlotsOfValue
      <4> HIDE DEF w
      <4>2. WholeLongs(w)
        BY <4>1 DEF WholeLongs
      <4> QED BY <4>2 DEF w
    <3>2. CASE ks[n] # "long"
      <4>1. ks[n] # "half"
        BY <2>1 DEF Value, Kind
      <4> DEFINE w == Slots(ks[n])
      <4>2. Len(w) = 1 /\ w[1] = ks[n] /\ DOMAIN w = 1..Len(w)
        BY <2>2, <3>2, SlotsOfValue
      <4> HIDE DEF w
      <4>3. \A j \in DOMAIN w : w[j] # "long" /\ w[j] # "half"
        BY <3>2, <4>1, <4>2
      <4>4. WholeLongs(w)
        BY <4>3 DEF WholeLongs
      <4> QED BY <4>4 DEF w
    <3> QED BY <3>1, <3>2
  <2>4. f[n - 1] \in Seq(Tag) /\ WholeLongs(f[n - 1]) /\ f[n] = f[n - 1] \o Slots(ks[n])
    BY <1>1, <1>4, <2>1
  <2>5. WholeLongs(f[n])
    BY <2>2, <2>3, <2>4, JoinedWhole
  <2> QED BY <2>1, <2>5
<1>5. \A n \in 0..Len(ks) : n \in T
  <2> HIDE DEF T
  <2> QED BY <1>2, <1>3, <1>4, UpTo
<1> QED
  BY <1>1, <1>2, <1>5

-----------------------------------------------------------------------------
(* The kinds of the values that are in some slots. *)

LEMMA KindsSteps ==
  ASSUME NEW tags \in Seq(Tag)
  PROVE  \E f : /\ f[0] = <<>> /\ \A n \in 0..Len(tags) : f[n] \in Seq(Value)
                /\ \A n \in 1..Len(tags) :
                     f[n] = IF tags[n] = "half" THEN f[n - 1] ELSE Append(f[n - 1], tags[n])
                /\ Kinds(tags) = f[Len(tags)]
<1> DEFINE m == Len(tags)
           Body(n, v) == IF tags[n] = "half" THEN v ELSE Append(v, tags[n])
           Def(g) == [n \in 0..m |-> IF n = 0 THEN <<>> ELSE Body(n, g[n - 1])]
           S == [n \in 0..m |-> Seq(Value)]
           step == [n \in 1..m |-> [v \in S[n - 1] |-> Body(n, v)]]
           it == CHOOSE g : g = Def(g)
<1>1. m \in Nat /\ <<>> \in S[0]
  OBVIOUS
<1>2. ASSUME NEW n \in 1..m, NEW v \in S[n - 1] PROVE Body(n, v) \in S[n]
  <2>1. tags[n] \in Tag /\ v \in Seq(Value) /\ n \in 0..m
    OBVIOUS
  <2>2. tags[n] # "half" => tags[n] \in Value
    BY <2>1 DEF Tag, Value
  <2>3. Body(n, v) \in Seq(Value)
    BY <2>1, <2>2
  <2> QED BY <2>1, <2>3
<1>3. \A n \in 1..m : \A v \in S[n - 1] : step[n][v] = Body(n, v)
  <2> HIDE DEF S, Body
  <2> QED OBVIOUS
<1>4. \E g : g = Def(g)
  <2> HIDE DEF S, step, Body, m
  <2>1. \A n \in 1..m : \A v \in S[n - 1] : step[n][v] \in S[n]
    BY <1>2, <1>3
  <2>2. PICK g : ComputedWithin(g, m, S, <<>>, step)
    BY <1>1, <2>1, StepByStepWithin
  <2>3. /\ g = [i \in 0..m |-> g[i]] /\ g[0] = <<>>
        /\ \A i \in 0..m : g[i] \in S[i]
        /\ \A i \in 1..m : g[i] = step[i][g[i - 1]]
    BY <2>2 DEF ComputedWithin
  <2>4. \A n \in 1..m : n - 1 \in 0..m
    BY <1>1
  <2>5. \A n \in 1..m : g[n] = Body(n, g[n - 1])
    BY <1>3, <2>3, <2>4
  <2>6. \A n \in 0..m : g[n] = IF n = 0 THEN <<>> ELSE Body(n, g[n - 1])
    <3>1. ASSUME NEW n \in 0..m, n # 0 PROVE n \in 1..m
      BY <1>1, <3>1
    <3> QED BY <2>3, <2>5, <3>1
  <2>7. g = Def(g)
    BY <2>3, <2>6
  <2> QED BY <2>7
<1>5. it = Def(it)
  <2> HIDE DEF Def
  <2> QED BY <1>4
<1>6. it[0] = <<>> /\ \A n \in 1..m : it[n] = Body(n, it[n - 1])
  <2> HIDE DEF it, Body, m
  <2>1. it = [n \in 0..m |-> IF n = 0 THEN <<>> ELSE Body(n, it[n - 1])]
    BY <1>5
  <2>2. \A n \in 1..m : n \in 0..m /\ n # 0
    BY <1>1
  <2> QED BY <1>1, <2>1, <2>2
<1>7. \A n \in 0..m : it[n] \in S[n]
  <2> HIDE DEF it, S, Body, m
  <2> DEFINE T == {n \in 0..m : it[n] \in S[n]}
  <2>1. 0 \in T
    BY <1>1, <1>6
  <2>2. ASSUME NEW n \in 1..m, n - 1 \in T PROVE n \in T
    BY <1>1, <1>2, <1>6, <2>2
  <2>3. \A n \in 0..m : n \in T
    <3> HIDE DEF T
    <3> QED BY <1>1, <2>1, <2>2, UpTo
  <2> QED BY <2>3
<1>8. Kinds(tags) = it[m]
  BY DEF Kinds
<1> HIDE DEF it
<1> QED
  BY <1>6, <1>7, <1>8

LEMMA SpreadOfKinds ==
  ASSUME NEW tags \in Seq(Tag), WholeLongs(tags)
  PROVE  Kinds(tags) \in Seq(Value) /\ Spread(Kinds(tags)) = tags
<1> DEFINE L == Len(tags)
           P(n) == SubSeq(tags, 1, n)
<1>1. PICK f : /\ f[0] = <<>> /\ \A n \in 0..L : f[n] \in Seq(Value)
               /\ \A n \in 1..L :
                    f[n] = IF tags[n] = "half" THEN f[n - 1] ELSE Append(f[n - 1], tags[n])
               /\ Kinds(tags) = f[L]
  BY KindsSteps
<1>2. L \in Nat /\ DOMAIN tags = 1..L /\ \A n \in 1..L : tags[n] \in Tag
  OBVIOUS
<1>3. \A n \in 0..L : P(n) \in Seq(Tag)
  BY FirstOfList
<1>4. \A n \in 1..L : P(n) = Append(P(n - 1), tags[n])
  BY OneMore
<1>5. P(L) = tags
  BY WholeList
<1>6. P(0) = <<>>
  BY <1>2
<1> HIDE DEF L, P
<1> DEFINE T == {n \in 0..L : Spread(f[n]) = IF n > 0 /\ tags[n] = "long"
                                             THEN Append(P(n), "half") ELSE P(n)}
<1>7. 0 \in T
  <2>1. f[0] \in Seq(Value) /\ 0 \in 0..L
    BY <1>1, <1>2
  <2>2. Spread(f[0]) = <<>>
    BY <1>1, <2>1, SpreadFacts
  <2> QED BY <1>6, <2>1, <2>2
<1>8. ASSUME NEW n \in 1..L, n - 1 \in T PROVE n \in T
  <2>1. n \in 0..L /\ n > 0 /\ n - 1 \in 0..L /\ tags[n] \in Tag /\ P(n - 1) \in Seq(Tag)
    BY <1>2, <1>3
  <2>2. CASE tags[n] = "half"
    <3>1. n - 1 > 0 /\ tags[n - 1] = "long"
      <4>1. n \in DOMAIN tags
        BY <1>2
      <4>2. n > 1 /\ tags[n - 1] = "long"
        BY <2>2, <4>1 DEF WholeLongs
      <4> QED BY <1>2, <4>2
    <3>2. Spread(f[n - 1]) = Append(P(n - 1), "half")
      BY <1>8, <3>1
    <3>3. f[n] = f[n - 1] /\ tags[n] # "long"
      BY <1>1, <2>2
    <3> QED BY <1>4, <2>1, <2>2, <3>2, <3>3
  <2>3. CASE tags[n] # "half"
    <3>1. ~ (n - 1 > 0 /\ tags[n - 1] = "long")
      <4>1. SUFFICES ASSUME n - 1 > 0, tags[n - 1] = "long" PROVE FALSE
        OBVIOUS
      <4>2. n - 1 \in DOMAIN tags /\ (n - 1) + 1 = n
        BY <1>2, <2>1, <4>1
      <4> QED BY <2>3, <4>1, <4>2 DEF WholeLongs
    <3>2. Spread(f[n - 1]) = P(n - 1)
      BY <1>8, <3>1
    <3>3. tags[n] \in Value
      BY <2>1, <2>3 DEF Tag, Value
    <3>4. f[n] = Append(f[n - 1], tags[n]) /\ f[n - 1] \in Seq(Value)
      BY <1>1, <2>1, <2>3
    <3>5. Spread(f[n]) = P(n - 1) \o Slots(tags[n])
      BY <3>2, <3>3, <3>4, SpreadOfMore
    <3>6. CASE tags[n] = "long"
      <4>1. Slots(tags[n]) = <<"long", "half">>
        BY <3>6, SlotsOfValue
      <4>2. ASSUME NEW a \in Tag, NEW b \in Tag
            PROVE  P(n - 1) \o <<a, b>> = Append(Append(P(n - 1), a), b)
        BY <2>1
      <4>3. "long" \in Tag /\ "half" \in Tag
        BY DEF Tag, Kind
      <4>4. P(n - 1) \o <<"long", "half">> = Append(Append(P(n - 1), "long"), "half")
        BY <4>2, <4>3
      <4> QED BY <1>4, <2>1, <3>5, <3>6, <4>1, <4>4
    <3>7. CASE tags[n] # "long"
      <4>1. Slots(tags[n]) = <<tags[n]>>
        BY <3>7, SlotsOfValue
      <4>2. P(n - 1) \o <<tags[n]>> = Append(P(n - 1), tags[n])
        BY <2>1
      <4> QED BY <1>4, <2>1, <3>5, <3>7, <4>1, <4>2
    <3> QED BY <3>6, <3>7
  <2> QED BY <2>2, <2>3
<1>9. \A n \in 0..L : n \in T
  <2> HIDE DEF T
  <2> QED BY <1>2, <1>7, <1>8, UpTo
<1>10. ~ (L > 0 /\ tags[L] = "long")
  <2>1. SUFFICES ASSUME L > 0, tags[L] = "long" PROVE FALSE
    OBVIOUS
  <2>2. L \in DOMAIN tags /\ ~ (L < L)
    BY <1>2, <2>1
  <2> QED BY <2>1, <2>2 DEF WholeLongs, L
<1>11. L \in 0..L
  BY <1>2
<1>12. Spread(f[L]) = P(L)
  BY <1>9, <1>10, <1>11
<1> QED
  BY <1>1, <1>5, <1>11, <1>12

-----------------------------------------------------------------------------
(* The locals a stack map frame describes. *)

LEMMA TagsFacts ==
  ASSUME NEW ks \in Seq(Value), NEW n \in Nat, Width(ks) <= n
  PROVE  /\ TagsOf(ks, n) \in [1..n -> Tag] /\ WholeLongs(TagsOf(ks, n))
         /\ TagsOf(ks, n) \in Seq(Tag) /\ Len(TagsOf(ks, n)) = n
<1> DEFINE tags == TagsOf(ks, n)
           s == Spread(ks)
           w == Width(ks)
<1>1. s \in Seq(Tag) /\ w = Len(s) /\ w \in 0..n /\ DOMAIN s = 1..w /\ \A j \in 1..w : s[j] \in Tag
  <2>1. s \in Seq(Tag) /\ w = Len(s) /\ w \in Nat /\ DOMAIN s = 1..w
    BY SpreadFacts
  <2>2. \A j \in 1..w : s[j] \in Tag
    BY <2>1
  <2> QED BY <2>1, <2>2
<1>2. WholeLongs(s)
  BY SpreadWhole
<1>3. tags = [j \in 1..n |-> IF j <= w THEN s[j] ELSE "top"]
  BY DEF TagsOf
<1> HIDE DEF tags, s, w
<1>4. "top" \in Tag
  BY DEF Tag
<1>5. tags \in [1..n -> Tag]
  BY <1>1, <1>3, <1>4
<1>6. tags \in Seq(Tag) /\ Len(tags) = n
  BY <1>5, FunctionIsList
<1>7. ASSUME NEW i \in 1..n
      PROVE  /\ tags[i] = "long" => i < n /\ tags[i + 1] = "half"
             /\ tags[i] = "half" => i > 1 /\ tags[i - 1] = "long"
  <2>1. CASE i <= w
    <3>1. i \in 1..w /\ tags[i] = s[i]
      BY <1>1, <1>3, <2>1
    <3>2. ASSUME tags[i] = "long" PROVE i < n /\ tags[i + 1] = "half"
      <4>1. i < w /\ s[i + 1] = "half"
        BY <1>1, <1>2, <3>1, <3>2 DEF WholeLongs
      <4>2. i + 1 \in 1..n /\ i + 1 <= w
        BY <1>1, <4>1
      <4> QED BY <1>1, <1>3, <4>1, <4>2
    <3>3. ASSUME tags[i] = "half" PROVE i > 1 /\ tags[i - 1] = "long"
      <4>1. i > 1 /\ s[i - 1] = "long"
        BY <1>1, <1>2, <3>1, <3>3 DEF WholeLongs
      <4>2. i - 1 \in 1..n /\ i - 1 <= w
        BY <1>1, <2>1, <4>1
      <4> QED BY <1>3, <4>1, <4>2
    <3> QED BY <3>2, <3>3
  <2>2. CASE ~(i <= w)
    BY <1>3, <2>2
  <2> QED BY <2>1, <2>2
<1>8. WholeLongs(tags)
  <2>1. DOMAIN tags = 1..n
    BY <1>3
  <2> QED BY <1>6, <1>7, <2>1 DEF WholeLongs
<1> QED
  BY <1>5, <1>6, <1>8 DEF tags

LEMMA TrimFacts ==
  ASSUME NEW ks \in Seq(Value)
  PROVE  \E n \in 0..Len(ks) : /\ Trim(ks) = SubSeq(ks, 1, n)
                               /\ \A k \in n + 1..Len(ks) : ks[k] = "top"
<1> DEFINE L == Len(ks)
           Rest(n) == \A k \in n + 1..L : ks[k] = "top"
           T == {n \in 0..L : Rest(n)}
           Cut(n) == /\ n > 0 => ks[n] # "top"
                     /\ Rest(n)
<1>1. L \in T /\ T \subseteq Nat
  <2>1. L \in Nat
    OBVIOUS
  <2>2. L \in 0..L /\ Rest(L)
    BY <2>1
  <2> QED BY <2>2
<1>2. PICK x \in T : \A y \in T : x <= y
  <2> HIDE DEF T
  <2> QED BY <1>1, LeastNumber
<1>3. Cut(x)
  <2>1. x \in 0..L /\ Rest(x)
    OBVIOUS
  <2>2. ASSUME x > 0, ks[x] = "top" PROVE FALSE
    <3>1. Rest(x - 1)
      <4>1. ASSUME NEW k \in (x - 1) + 1..L PROVE ks[k] = "top"
        <5>1. k = x \/ k \in x + 1..L
          BY <2>1
        <5> QED BY <2>1, <2>2, <5>1
      <4> QED BY <4>1
    <3>2. x - 1 \in T
      BY <2>1, <2>2, <3>1
    <3>3. x <= x - 1
      BY <1>2, <3>2
    <3> QED BY <2>1, <3>3
  <2> QED BY <2>1, <2>2
<1> DEFINE n == CHOOSE n \in 0..L : Cut(n)
<1>4. n \in 0..L /\ Cut(n)
  <2> HIDE DEF Cut
  <2>1. x \in 0..L
    OBVIOUS
  <2> QED BY <1>3, <2>1
<1>5. Trim(ks) = SubSeq(ks, 1, n)
  BY DEF Trim
<1> HIDE DEF n
<1> QED
  BY <1>4, <1>5

LEMMA TrimmedTags ==
  ASSUME NEW ks \in Seq(Value), NEW N \in Nat
  PROVE  /\ Trim(ks) \in Seq(Value) /\ Width(Trim(ks)) <= Width(ks)
         /\ TagsOf(Trim(ks), N) = TagsOf(ks, N)
<1> DEFINE L == Len(ks)
           P(i) == SubSeq(ks, 1, i)
<1>1. PICK n \in 0..L : Trim(ks) = P(n) /\ \A k \in n + 1..L : ks[k] = "top"
  BY TrimFacts
<1>2. L \in Nat /\ n \in Nat /\ L - n \in Nat
  OBVIOUS
<1>3. \A i \in 0..L : P(i) \in Seq(Value)
  BY FirstOfList
<1>4. \A i \in 1..L : P(i) = Append(P(i - 1), ks[i])
  BY OneMore
<1>5. P(L) = ks
  BY WholeList
<1> HIDE DEF L, P
<1> DEFINE s == Spread(P(n))
           w == Len(s)
           Grown(t, i) == /\ t \in Seq(Tag) /\ Len(t) = w + i
                          /\ \A j \in 1..w + i : t[j] = IF j <= w THEN s[j] ELSE "top"
           T == {i \in 0..L - n : Grown(Spread(P(n + i)), i)}
<1>6. s \in Seq(Tag) /\ w \in Nat /\ w = Width(P(n))
  BY <1>2, <1>3, SpreadFacts
<1> HIDE DEF s, w
<1>7. 0 \in T
  <2>1. n + 0 = n /\ w + 0 = w
    BY <1>2, <1>6
  <2>2. Grown(s, 0)
    BY <1>6, <2>1 DEF w
  <2> QED BY <1>2, <2>1, <2>2 DEF s
<1>8. ASSUME NEW i \in 1..L - n, i - 1 \in T PROVE i \in T
  <2>1. n + i \in 1..L /\ (n + i) - 1 = n + (i - 1) /\ n + i \in n + 1..L /\ i \in 0..L - n
        /\ n + (i - 1) \in 0..L /\ "top" \in Value
    BY <1>2 DEF Value
  <2> DEFINE t == Spread(P(n + (i - 1)))
  <2>2. Grown(t, i - 1)
    BY <1>8
  <2>3. P(n + i) = Append(P(n + (i - 1)), "top")
    BY <1>1, <1>4, <2>1
  <2>4. Spread(P(n + i)) = t \o Slots("top")
    BY <1>3, <2>1, <2>3, SpreadOfMore
  <2>5. Slots("top") = <<"top">> /\ "top" \in Tag
    BY DEF Slots, Tag
  <2> HIDE DEF t
  <2>6. t \o <<"top">> = Append(t, "top")
    BY <2>2
  <2>7. Grown(Append(t, "top"), i)
    <3>1. i \in Nat
      BY <1>2
    <3>2. /\ Append(t, "top") \in Seq(Tag) /\ Len(Append(t, "top")) = w + i
          /\ Append(t, "top")[w + i] = "top"
          /\ \A j \in 1..w + (i - 1) : Append(t, "top")[j] = t[j]
      BY <1>6, <2>2, <2>5, <3>1
    <3>3. ASSUME NEW j \in 1..w + i
          PROVE  Append(t, "top")[j] = IF j <= w THEN s[j] ELSE "top"
      <4>1. j = w + i \/ j \in 1..w + (i - 1)
        BY <1>6, <3>1
      <4>2. j = w + i => ~(j <= w)
        BY <1>6, <3>1
      <4> QED BY <2>2, <3>2, <4>1, <4>2
    <3> QED BY <3>2, <3>3
  <2> HIDE DEF Grown
  <2> QED BY <2>1, <2>4, <2>5, <2>6, <2>7
<1>9. \A i \in 0..L - n : i \in T
  <2> HIDE DEF T
  <2> QED BY <1>2, <1>7, <1>8, UpTo
<1>10. L - n \in 0..L - n /\ n + (L - n) = L
  BY <1>2
<1>11. Grown(Spread(ks), L - n)
  BY <1>5, <1>9, <1>10
<1>12. Width(ks) = w + (L - n)
  BY <1>11 DEF Width
<1>13. w <= Width(ks)
  BY <1>2, <1>6, <1>12
<1>14. TagsOf(P(n), N) = TagsOf(ks, N)
  <2>1. ASSUME NEW j \in 1..N
        PROVE  (IF j <= w THEN s[j] ELSE "top") = IF j <= Width(ks) THEN Spread(ks)[j] ELSE "top"
    <3>1. CASE j <= Width(ks)
      <4>1. j \in 1..w + (L - n)
        BY <1>12, <3>1
      <4> QED BY <1>11, <3>1, <4>1
    <3>2. CASE ~(j <= Width(ks))
      <4>1. ~(j <= w)
        BY <1>2, <1>6, <1>12, <3>2
      <4> QED BY <3>2, <4>1
    <3> QED BY <3>1, <3>2
  <2>2. TagsOf(P(n), N) = [j \in 1..N |-> IF j <= w THEN s[j] ELSE "top"]
    BY <1>6 DEF TagsOf, s
  <2>3. TagsOf(ks, N) = [j \in 1..N |-> IF j <= Width(ks) THEN Spread(ks)[j] ELSE "top"]
    BY DEF TagsOf
  <2> QED BY <2>1, <2>2, <2>3
<1> QED
  BY <1>1, <1>2, <1>3, <1>6, <1>13, <1>14

LEMMA FrameOfTags ==
  ASSUME NEW N \in Nat, NEW tags \in [1..N -> Tag], WholeLongs(tags)
  PROVE  /\ Trim(Kinds(tags)) \in Seq(Value) /\ Width(Trim(Kinds(tags))) <= N
         /\ TagsOf(Trim(Kinds(tags)), N) = tags
<1>1. tags \in Seq(Tag) /\ Len(tags) = N
  BY FunctionIsList
<1>2. Kinds(tags) \in Seq(Value) /\ Spread(Kinds(tags)) = tags
  BY <1>1, SpreadOfKinds
<1>3. Width(Kinds(tags)) = N
  BY <1>1, <1>2 DEF Width
<1>4. Trim(Kinds(tags)) \in Seq(Value) /\ Width(Trim(Kinds(tags))) <= N
      /\ TagsOf(Trim(Kinds(tags)), N) = TagsOf(Kinds(tags), N)
  BY <1>2, <1>3, TrimmedTags
<1>5. TagsOf(Kinds(tags), N) = tags
  BY <1>2, <1>3 DEF TagsOf
<1> QED
  BY <1>4, <1>5

-----------------------------------------------------------------------------
(* Positions in the code. *)

Code ==
  {i \in [op : STRING, kind : Kind, to : Kind \cup {"void"}, slot : Nat \ {0},
           args : Seq(Kind), bytes : Nat, noise : Nat] : i.op = "convert" => i.to \in Kind}

LEMMA BytesFacts ==
  ASSUME NEW i \in Code
  PROVE  Bytes(i) \in Nat
<1>1. i.bytes \in Nat
  BY DEF Code
<1> QED
  BY <1>1 DEF Bytes

LEMMA EndsFacts ==
  ASSUME NEW is \in Seq(Code)
  PROVE  /\ Ends(is)[0] = 0 /\ \A n \in 0..Len(is) : Ends(is)[n] \in Nat
         /\ \A n \in 1..Len(is) : Ends(is)[n] = Ends(is)[n - 1] + 1 + Bytes(is[n])
<1> DEFINE m == Len(is)
           Body(n, v) == v + 1 + Bytes(is[n])
           Def(g) == [n \in 0..m |-> IF n = 0 THEN 0 ELSE Body(n, g[n - 1])]
           S == [n \in 0..m |-> Nat]
           step == [n \in 1..m |-> [v \in S[n - 1] |-> Body(n, v)]]
           it == CHOOSE g : g = Def(g)
<1>1. m \in Nat /\ 0 \in S[0]
  OBVIOUS
<1>2. ASSUME NEW n \in 1..m, NEW v \in S[n - 1] PROVE Body(n, v) \in S[n]
  <2>1. is[n] \in Code /\ v \in Nat /\ n \in 0..m
    OBVIOUS
  <2>2. Body(n, v) \in Nat
    BY <2>1, BytesFacts
  <2> QED BY <2>1, <2>2
<1>3. \A n \in 1..m : \A v \in S[n - 1] : step[n][v] = Body(n, v)
  <2> HIDE DEF S, Body
  <2> QED OBVIOUS
<1>4. \E g : g = Def(g)
  <2> HIDE DEF S, step, Body, m
  <2>1. \A n \in 1..m : \A v \in S[n - 1] : step[n][v] \in S[n]
    BY <1>2, <1>3
  <2>2. PICK g : ComputedWithin(g, m, S, 0, step)
    BY <1>1, <2>1, StepByStepWithin
  <2>3. /\ g = [i \in 0..m |-> g[i]] /\ g[0] = 0
        /\ \A i \in 0..m : g[i] \in S[i]
        /\ \A i \in 1..m : g[i] = step[i][g[i - 1]]
    BY <2>2 DEF ComputedWithin
  <2>4. \A n \in 1..m : n - 1 \in 0..m
    BY <1>1
  <2>5. \A n \in 1..m : g[n] = Body(n, g[n - 1])
    BY <1>3, <2>3, <2>4
  <2>6. \A n \in 0..m : g[n] = IF n = 0 THEN 0 ELSE Body(n, g[n - 1])
    <3>1. ASSUME NEW n \in 0..m, n # 0 PROVE n \in 1..m
      BY <1>1, <3>1
    <3> QED BY <2>3, <2>5, <3>1
  <2>7. g = Def(g)
    BY <2>3, <2>6
  <2> QED BY <2>7
<1>5. it = Def(it)
  <2> HIDE DEF Def
  <2> QED BY <1>4
<1>6. it[0] = 0 /\ \A n \in 1..m : it[n] = Body(n, it[n - 1])
  <2> HIDE DEF it, Body, m
  <2>1. it = [n \in 0..m |-> IF n = 0 THEN 0 ELSE Body(n, it[n - 1])]
    BY <1>5
  <2>2. \A n \in 1..m : n \in 0..m /\ n # 0
    BY <1>1
  <2> QED BY <1>1, <2>1, <2>2
<1>7. \A n \in 0..m : it[n] \in S[n]
  <2> HIDE DEF it, S, Body, m
  <2> DEFINE T == {n \in 0..m : it[n] \in S[n]}
  <2>1. 0 \in T
    BY <1>1, <1>6
  <2>2. ASSUME NEW n \in 1..m, n - 1 \in T PROVE n \in T
    BY <1>1, <1>2, <1>6, <2>2
  <2>3. \A n \in 0..m : n \in T
    <3> HIDE DEF T
    <3> QED BY <1>1, <2>1, <2>2, UpTo
  <2> QED BY <2>3
<1>8. Ends(is) = it
  BY DEF Ends
<1> HIDE DEF it
<1> QED
  <2>1. \A n \in 0..m : it[n] \in Nat
    BY <1>7
  <2> QED BY <1>6, <1>8, <2>1

LEMMA EndsIncrease ==
  ASSUME NEW is \in Seq(Code), NEW m \in 0..Len(is), NEW n \in 0..Len(is)
  PROVE  (m < n <=> Ends(is)[m] < Ends(is)[n]) /\ (Ends(is)[m] = Ends(is)[n] => m = n)
<1> DEFINE L == Len(is)
           e == Ends(is)
<1>1. /\ e[0] = 0 /\ \A k \in 0..L : e[k] \in Nat
      /\ \A k \in 1..L : e[k] = e[k - 1] + 1 + Bytes(is[k])
  BY EndsFacts
<1>2. L \in Nat /\ \A k \in 1..L : is[k] \in Code
  OBVIOUS
<1> HIDE DEF L, e
<1>3. ASSUME NEW k \in 1..L PROVE e[k - 1] < e[k]
  <2>1. Bytes(is[k]) \in Nat /\ k - 1 \in 0..L /\ k \in 0..L
    BY <1>2, BytesFacts
  <2> QED BY <1>1, <2>1
<1> DEFINE T == {k \in 0..L : \A j \in 0..L : j < k => e[j] < e[k]}
<1>4. 0 \in T
  BY <1>2
<1>5. ASSUME NEW k \in 1..L, k - 1 \in T PROVE k \in T
  <2>1. e[k - 1] < e[k] /\ k \in 0..L /\ k - 1 \in 0..L
    BY <1>2, <1>3
  <2>2. ASSUME NEW j \in 0..L, j < k PROVE e[j] < e[k]
    <3>1. j = k - 1 \/ j < k - 1
      BY <2>2
    <3>2. e[j] \in Nat /\ e[k] \in Nat /\ e[k - 1] \in Nat
      BY <1>1, <2>1
    <3> QED BY <1>5, <2>1, <3>1, <3>2
  <2> QED BY <2>1, <2>2
<1>6. \A k \in 0..L : k \in T
  <2> HIDE DEF T
  <2> QED BY <1>2, <1>4, <1>5, UpTo
<1>7. m \in 0..L /\ n \in 0..L
  BY DEF L
<1>8. (m < n => e[m] < e[n]) /\ (n < m => e[n] < e[m]) /\ e[m] \in Nat /\ e[n] \in Nat
  BY <1>1, <1>6, <1>7
<1> QED
  BY <1>2, <1>7, <1>8 DEF e

LEMMA EndsOfMore ==
  ASSUME NEW is \in Seq(Code), NEW i \in Code, NEW n \in 0..Len(is)
  PROVE  Ends(Append(is, i))[n] = Ends(is)[n]
<1> DEFINE L == Len(is)
           more == Append(is, i)
           e == Ends(is)
           f == Ends(more)
<1>1. /\ more \in Seq(Code) /\ Len(more) = L + 1 /\ L \in Nat
      /\ \A k \in 1..L : more[k] = is[k]
  OBVIOUS
<1>2. e[0] = 0 /\ \A k \in 1..L : e[k] = e[k - 1] + 1 + Bytes(is[k])
  BY EndsFacts
<1> HIDE DEF more
<1>3. f[0] = 0 /\ \A k \in 1..Len(more) : f[k] = f[k - 1] + 1 + Bytes(more[k])
  BY <1>1, EndsFacts
<1> HIDE DEF e, f, L
<1> DEFINE T == {k \in 0..L : f[k] = e[k]}
<1>4. 0 \in T
  BY <1>1, <1>2, <1>3
<1>5. ASSUME NEW k \in 1..L, k - 1 \in T PROVE k \in T
  <2>1. k \in 1..Len(more) /\ more[k] = is[k] /\ k \in 0..L
    BY <1>1
  <2>2. f[k] = f[k - 1] + 1 + Bytes(is[k]) /\ e[k] = e[k - 1] + 1 + Bytes(is[k]) /\ f[k - 1] = e[k - 1]
    BY <1>2, <1>3, <1>5, <2>1
  <2> QED BY <2>1, <2>2
<1>6. \A k \in 0..L : k \in T
  <2> HIDE DEF T
  <2> QED BY <1>1, <1>4, <1>5, UpTo
<1> QED
  BY <1>6 DEF e, f, more, L

-----------------------------------------------------------------------------
(* The stack map. *)

Form == {"same", "same1", "chop", "append", "full"}
EntryRecord == [form : Form, chopped : Nat, locals : Seq(Value), stack : Seq(Value), delta : Int]
FrameRecord == [start : Int, locals : Seq(Value), stack : Seq(Value)]

LEMMA DropFacts ==
  ASSUME NEW S, NEW l \in Seq(S), NEW n \in Nat
  PROVE  /\ Drop(n, l) \in Seq(S)
         /\ n <= Len(l) => /\ Len(Drop(n, l)) = Len(l) - n
                           /\ \A i \in 1..Len(l) - n : Drop(n, l)[i] = l[i]
<1>1. Len(l) \in Nat
  OBVIOUS
<1>2. CASE n <= Len(l)
  <2>1. Len(l) - n \in 0..Len(l)
    BY <1>1, <1>2
  <2> QED BY <2>1, FirstOfList DEF Drop
<1>3. CASE ~(n <= Len(l))
  <2>1. Drop(n, l) = <<>>
    BY <1>1, <1>3 DEF Drop
  <2> QED BY <1>3, <2>1
<1> QED
  BY <1>2, <1>3

LEMMA TopFacts ==
  ASSUME NEW S, NEW l \in Seq(S), NEW n \in 0..Len(l)
  PROVE  /\ Top(n, l) \in Seq(S) /\ Len(Top(n, l)) = n
         /\ \A i \in 1..n : Top(n, l)[i] = l[Len(l) - n + i]
<1>1. Len(l) \in Nat
  OBVIOUS
<1>2. Len(l) - n + 1 \in 1..Len(l) + 1 /\ Len(l) \in 0..Len(l) /\ Len(l) - n + 1 <= Len(l) + 1
      /\ Len(l) - (Len(l) - n + 1) + 1 = n
  BY <1>1
<1>3. \A i \in 1..n : (Len(l) - n + 1) + i - 1 = Len(l) - n + i
  BY <1>1
<1> QED
  BY <1>2, <1>3, PartOfList DEF Top

LEMMA FrameParsed ==
  ASSUME NEW entry \in EntryRecord, NEW previous \in FrameRecord, NEW offset \in Int
  PROVE  ParseFrame(entry, previous, offset) \in FrameRecord
<1>1. /\ entry.form \in Form /\ entry.chopped \in Nat /\ entry.locals \in Seq(Value)
      /\ entry.stack \in Seq(Value) /\ entry.delta \in Int /\ previous.locals \in Seq(Value)
  BY DEF EntryRecord, FrameRecord
<1>2. Drop(entry.chopped, previous.locals) \in Seq(Value)
  BY <1>1, DropFacts
<1>3. previous.locals \o entry.locals \in Seq(Value) /\ <<>> \in Seq(Value)
  BY <1>1
<1>4. offset + entry.delta + 1 \in Int
  BY <1>1
<1>5. CASE entry.form \in {"same", "same1"}
  BY <1>1, <1>3, <1>4, <1>5 DEF ParseFrame, FrameRecord
<1>6. CASE entry.form = "chop"
  BY <1>1, <1>2, <1>3, <1>4, <1>6 DEF ParseFrame, FrameRecord
<1>7. CASE entry.form = "append"
  BY <1>1, <1>3, <1>4, <1>7 DEF ParseFrame, FrameRecord
<1>8. CASE entry.form = "full"
  BY <1>1, <1>3, <1>4, <1>8 DEF ParseFrame, FrameRecord
<1> QED
  BY <1>1, <1>5, <1>6, <1>7, <1>8 DEF Form

StartBefore(n, previous) == IF n = 1 THEN -1 ELSE previous.start

LEMMA ParsedFacts ==
  ASSUME NEW es \in Seq(EntryRecord), NEW ps \in Seq(Value)
  PROVE  /\ Parsed(es, ps)[0] = ParseMethodDescriptor(ps)
         /\ \A n \in 0..Len(es) : Parsed(es, ps)[n] \in FrameRecord
         /\ \A n \in 1..Len(es) :
              Parsed(es, ps)[n] = ParseFrame(es[n], Parsed(es, ps)[n - 1],
                                             StartBefore(n, Parsed(es, ps)[n - 1]))
<1> DEFINE m == Len(es)
           Body(n, v) == ParseFrame(es[n], v, IF n = 1 THEN -1 ELSE v.start)
           Def(g) == [n \in 0..m |-> IF n = 0 THEN ParseMethodDescriptor(ps) ELSE Body(n, g[n - 1])]
           S == [n \in 0..m |-> FrameRecord]
           step == [n \in 1..m |-> [v \in S[n - 1] |-> Body(n, v)]]
           it == CHOOSE g : g = Def(g)
<1>1. m \in Nat /\ ParseMethodDescriptor(ps) \in S[0]
  <2>1. ParseMethodDescriptor(ps) \in FrameRecord
    BY DEF ParseMethodDescriptor, FrameRecord
  <2>2. m \in Nat /\ 0 \in 0..m
    OBVIOUS
  <2> QED BY <2>1, <2>2
<1>2. ASSUME NEW n \in 1..m, NEW v \in S[n - 1] PROVE Body(n, v) \in S[n]
  <2>1. es[n] \in EntryRecord /\ v \in FrameRecord /\ n \in 0..m
    OBVIOUS
  <2>2. (IF n = 1 THEN -1 ELSE v.start) \in Int
    BY <2>1 DEF FrameRecord
  <2>3. Body(n, v) \in FrameRecord
    BY <2>1, <2>2, FrameParsed
  <2> QED BY <2>1, <2>3
<1>3. \A n \in 1..m : \A v \in S[n - 1] : step[n][v] = Body(n, v)
  <2> HIDE DEF S, Body
  <2> QED OBVIOUS
<1>4. \E g : g = Def(g)
  <2> HIDE DEF S, step, Body, m
  <2>1. \A n \in 1..m : \A v \in S[n - 1] : step[n][v] \in S[n]
    BY <1>2, <1>3
  <2>2. PICK g : ComputedWithin(g, m, S, ParseMethodDescriptor(ps), step)
    BY <1>1, <2>1, StepByStepWithin
  <2>3. /\ g = [i \in 0..m |-> g[i]] /\ g[0] = ParseMethodDescriptor(ps)
        /\ \A i \in 0..m : g[i] \in S[i]
        /\ \A i \in 1..m : g[i] = step[i][g[i - 1]]
    BY <2>2 DEF ComputedWithin
  <2>4. \A n \in 1..m : n - 1 \in 0..m
    BY <1>1
  <2>5. \A n \in 1..m : g[n] = Body(n, g[n - 1])
    BY <1>3, <2>3, <2>4
  <2>6. \A n \in 0..m : g[n] = IF n = 0 THEN ParseMethodDescriptor(ps) ELSE Body(n, g[n - 1])
    <3>1. ASSUME NEW n \in 0..m, n # 0 PROVE n \in 1..m
      BY <1>1, <3>1
    <3> QED BY <2>3, <2>5, <3>1
  <2>7. g = Def(g)
    BY <2>3, <2>6
  <2> QED BY <2>7
<1>5. it = Def(it)
  <2> HIDE DEF Def
  <2> QED BY <1>4
<1>6. it[0] = ParseMethodDescriptor(ps) /\ \A n \in 1..m : it[n] = Body(n, it[n - 1])
  <2> HIDE DEF it, Body, m
  <2>1. it = [n \in 0..m |-> IF n = 0 THEN ParseMethodDescriptor(ps) ELSE Body(n, it[n - 1])]
    BY <1>5
  <2>2. \A n \in 1..m : n \in 0..m /\ n # 0
    BY <1>1
  <2> QED BY <1>1, <2>1, <2>2
<1>7. \A n \in 0..m : it[n] \in S[n]
  <2> HIDE DEF it, S, Body, m
  <2> DEFINE T == {n \in 0..m : it[n] \in S[n]}
  <2>1. 0 \in T
    BY <1>1, <1>6
  <2>2. ASSUME NEW n \in 1..m, n - 1 \in T PROVE n \in T
    BY <1>1, <1>2, <1>6, <2>2
  <2>3. \A n \in 0..m : n \in T
    <3> HIDE DEF T
    <3> QED BY <1>1, <2>1, <2>2, UpTo
  <2> QED BY <2>3
<1>8. Parsed(es, ps) = it
  BY DEF Parsed
<1> HIDE DEF it
<1> QED
  <2>1. \A n \in 0..m : it[n] \in FrameRecord
    BY <1>7
  <2> QED BY <1>6, <1>8, <2>1 DEF StartBefore

LEMMA ParsedOfMore ==
  ASSUME NEW es \in Seq(EntryRecord), NEW e \in EntryRecord, NEW ps \in Seq(Value)
  PROVE  /\ \A n \in 0..Len(es) : Parsed(Append(es, e), ps)[n] = Parsed(es, ps)[n]
         /\ Parsed(Append(es, e), ps)[Len(es) + 1]
              = ParseFrame(e, Parsed(es, ps)[Len(es)],
                           IF Len(es) = 0 THEN -1 ELSE Parsed(es, ps)[Len(es)].start)
<1> DEFINE L == Len(es)
           more == Append(es, e)
           f == Parsed(es, ps)
           g == Parsed(more, ps)
<1>1. /\ more \in Seq(EntryRecord) /\ Len(more) = L + 1 /\ L \in Nat
      /\ more[L + 1] = e /\ \A k \in 1..L : more[k] = es[k]
  OBVIOUS
<1>2. /\ f[0] = ParseMethodDescriptor(ps)
      /\ \A k \in 1..L : f[k] = ParseFrame(es[k], f[k - 1], StartBefore(k, f[k - 1]))
  BY ParsedFacts
<1> HIDE DEF more
<1>3. /\ g[0] = ParseMethodDescriptor(ps)
      /\ \A k \in 1..Len(more) : g[k] = ParseFrame(more[k], g[k - 1], StartBefore(k, g[k - 1]))
  BY <1>1, ParsedFacts
<1> HIDE DEF f, g, L
<1> DEFINE T == {k \in 0..L : g[k] = f[k]}
<1>4. 0 \in T
  BY <1>1, <1>2, <1>3
<1>5. ASSUME NEW k \in 1..L, k - 1 \in T PROVE k \in T
  <2>1. k \in 1..Len(more) /\ more[k] = es[k] /\ k \in 0..L
    BY <1>1
  <2>2. /\ g[k] = ParseFrame(es[k], g[k - 1], StartBefore(k, g[k - 1]))
        /\ f[k] = ParseFrame(es[k], f[k - 1], StartBefore(k, f[k - 1]))
        /\ g[k - 1] = f[k - 1]
    BY <1>2, <1>3, <1>5, <2>1
  <2> QED BY <2>1, <2>2
<1>6. \A k \in 0..L : k \in T
  <2> HIDE DEF T
  <2> QED BY <1>1, <1>4, <1>5, UpTo
<1>7. g[L + 1] = ParseFrame(e, f[L], IF L = 0 THEN -1 ELSE f[L].start)
  <2>1. L + 1 \in 1..Len(more) /\ (L + 1) - 1 = L /\ L \in 0..L /\ (L + 1 = 1 <=> L = 0)
    BY <1>1
  <2>2. g[L] = f[L]
    BY <1>6, <2>1
  <2> QED BY <1>1, <1>3, <2>1, <2>2 DEF StartBefore
<1> QED
  BY <1>6, <1>7 DEF f, g, more, L

LEMMA EntryRead ==
  ASSUME NEW previous \in FrameRecord, NEW frame \in FrameRecord, NEW first \in BOOLEAN
  PROVE  /\ Entry(previous, frame, first) \in EntryRecord
         /\ ParseFrame(Entry(previous, frame, first), previous,
                       IF first THEN -1 ELSE previous.start) = frame
<1> DEFINE change == Len(frame.locals) - Len(previous.locals)
           delta == frame.start - (IF first THEN 0 ELSE previous.start + 1)
           offset == IF first THEN -1 ELSE previous.start
           Write(form, chopped, ls) ==
             [form |-> form, chopped |-> chopped, locals |-> ls, stack |-> frame.stack,
              delta |-> delta]
           entry == Entry(previous, frame, first)
<1>1. /\ previous.locals \in Seq(Value) /\ frame.locals \in Seq(Value) /\ frame.stack \in Seq(Value)
      /\ previous.start \in Int /\ frame.start \in Int
      /\ frame = [start |-> frame.start, locals |-> frame.locals, stack |-> frame.stack]
  BY DEF FrameRecord
<1>2. delta \in Int /\ offset + delta + 1 = frame.start
  BY <1>1
<1>3. /\ Len(previous.locals) \in Nat /\ Len(frame.locals) \in Nat /\ change \in Int
      /\ Len(frame.stack) = 0 => frame.stack = <<>>
  BY <1>1
<1>4. <<>> \in Seq(Value)
  OBVIOUS
<1>5. entry = CASE Len(frame.stack) = 0 /\ change = 0 /\ frame.locals = previous.locals ->
                     Write("same", 0, <<>>)
                [] Len(frame.stack) = 1 /\ frame.locals = previous.locals ->
                     Write("same1", 0, <<>>)
                [] /\ Len(frame.stack) = 0 /\ change \in -3..-1
                   /\ IsPrefix(frame.locals, previous.locals) -> Write("chop", -change, <<>>)
                [] /\ Len(frame.stack) = 0 /\ change \in 1..3
                   /\ IsPrefix(previous.locals, frame.locals) ->
                     Write("append", 0, Top(change, frame.locals))
                [] OTHER -> Write("full", 0, frame.locals)
  BY DEF Entry
<1> HIDE DEF change, delta, offset, entry
<1> DEFINE Right(e) == e \in EntryRecord /\ ParseFrame(e, previous, offset) = frame
<1>6. ASSUME Len(frame.stack) = 0, frame.locals = previous.locals
      PROVE  Right(Write("same", 0, <<>>))
  <2> DEFINE e == Write("same", 0, <<>>)
  <2>1. e.form = "same" /\ e.delta = delta /\ e.chopped = 0
    OBVIOUS
  <2>2. e \in EntryRecord
    BY <1>1, <1>2, <1>4 DEF EntryRecord, Form
  <2> HIDE DEF e
  <2>3. ParseFrame(e, previous, offset) = [start |-> frame.start, locals |-> previous.locals, stack |-> <<>>]
    BY <1>2, <2>1 DEF ParseFrame
  <2> QED BY <1>1, <1>3, <1>6, <2>2, <2>3 DEF e
<1>7. ASSUME frame.locals = previous.locals
      PROVE  Right(Write("same1", 0, <<>>))
  <2> DEFINE e == Write("same1", 0, <<>>)
  <2>1. e.form = "same1" /\ e.delta = delta /\ e.stack = frame.stack
    OBVIOUS
  <2>2. e \in EntryRecord
    BY <1>1, <1>2, <1>4 DEF EntryRecord, Form
  <2> HIDE DEF e
  <2>3. ParseFrame(e, previous, offset)
          = [start |-> frame.start, locals |-> previous.locals, stack |-> frame.stack]
    BY <1>2, <2>1 DEF ParseFrame
  <2> QED BY <1>1, <1>7, <2>2, <2>3 DEF e
<1>8. ASSUME Len(frame.stack) = 0, change \in -3..-1, IsPrefix(frame.locals, previous.locals)
      PROVE  Right(Write("chop", -change, <<>>))
  <2> DEFINE e == Write("chop", -change, <<>>)
  <2>1. e.form = "chop" /\ e.delta = delta /\ e.chopped = -change /\ -change \in Nat
    BY <1>8
  <2>2. e \in EntryRecord
    BY <1>1, <1>2, <1>4, <2>1 DEF EntryRecord, Form
  <2> HIDE DEF e
  <2>3. Drop(-change, previous.locals) = frame.locals
    <3>1. Len(previous.locals) - (-change) = Len(frame.locals)
      <4>1. ASSUME NEW a \in Nat, NEW b \in Nat PROVE b - (-(a - b)) = a
        OBVIOUS
      <4> QED BY <1>3, <4>1 DEF change
    <3>2. Len(frame.locals) <= Len(previous.locals)
          /\ SubSeq(previous.locals, 1, Len(frame.locals)) = SubSeq(frame.locals, 1, Len(frame.locals))
      BY <1>8 DEF IsPrefix
    <3>3. SubSeq(frame.locals, 1, Len(frame.locals)) = frame.locals
      BY <1>1, WholeList
    <3> QED BY <3>1, <3>2, <3>3 DEF Drop
  <2>4. ParseFrame(e, previous, offset)
          = [start |-> frame.start, locals |-> frame.locals, stack |-> <<>>]
    BY <1>2, <2>1, <2>3 DEF ParseFrame
  <2> QED BY <1>1, <1>3, <1>8, <2>2, <2>4 DEF e
<1>9. ASSUME Len(frame.stack) = 0, change \in 1..3, IsPrefix(previous.locals, frame.locals)
      PROVE  Right(Write("append", 0, Top(change, frame.locals)))
  <2> DEFINE e == Write("append", 0, Top(change, frame.locals))
             top == Top(change, frame.locals)
  <2>1. e.form = "append" /\ e.delta = delta /\ e.locals = top
    OBVIOUS
  <2>2. change \in 0..Len(frame.locals)
    <3>1. ASSUME NEW a \in Nat, NEW b \in Nat, a - b \in 1..3 PROVE a - b \in 0..a
      BY <3>1
    <3>2. Len(frame.locals) - Len(previous.locals) \in 1..3
      BY <1>9 DEF change
    <3> QED BY <1>3, <3>1, <3>2 DEF change
  <2>3. /\ top \in Seq(Value) /\ Len(top) = change
        /\ \A i \in 1..change : top[i] = frame.locals[Len(frame.locals) - change + i]
    BY <1>1, <2>2, TopFacts
  <2>4. e \in EntryRecord
    <3>1. Top(change, frame.locals) \in Seq(Value)
      BY <2>3
    <3> QED BY <1>1, <1>2, <3>1 DEF EntryRecord, Form
  <2> HIDE DEF e, top
  <2>5. previous.locals \o top = frame.locals
    <3>1. Len(previous.locals) = Len(frame.locals) - change /\ Len(previous.locals) <= Len(frame.locals)
      BY <1>3, <1>9 DEF change
    <3>2. SubSeq(frame.locals, 1, Len(previous.locals)) = SubSeq(previous.locals, 1, Len(previous.locals))
      BY <1>9 DEF IsPrefix
    <3>3. SubSeq(previous.locals, 1, Len(previous.locals)) = previous.locals
      BY <1>1, WholeList
    <3>4. Len(previous.locals) \in 0..Len(frame.locals)
      BY <1>3, <3>1
    <3>5. \A i \in 1..Len(previous.locals) : previous.locals[i] = frame.locals[i]
      BY <1>1, <3>2, <3>3, <3>4, FirstOfList
    <3> DEFINE joined == previous.locals \o top
    <3>6. /\ joined \in Seq(Value) /\ Len(joined) = Len(previous.locals) + Len(top)
          /\ \A i \in 1..Len(previous.locals) : joined[i] = previous.locals[i]
          /\ \A i \in 1..Len(top) : joined[Len(previous.locals) + i] = top[i]
      <4>1. ASSUME NEW a \in Seq(Value), NEW b \in Seq(Value)
            PROVE  /\ a \o b \in Seq(Value) /\ Len(a \o b) = Len(a) + Len(b)
                   /\ \A i \in 1..Len(a) : (a \o b)[i] = a[i]
                   /\ \A i \in 1..Len(b) : (a \o b)[Len(a) + i] = b[i]
        BY JoinedList
      <4> QED BY <1>1, <2>3, <4>1
    <3> HIDE DEF joined
    <3>7. Len(joined) = Len(frame.locals)
      BY <1>3, <2>3, <3>1, <3>6
    <3>8. ASSUME NEW i \in 1..Len(joined) PROVE joined[i] = frame.locals[i]
      <4>1. CASE i \in 1..Len(previous.locals)
        BY <3>5, <3>6, <4>1
      <4>2. CASE i \notin 1..Len(previous.locals)
        <5> DEFINE j == i - Len(previous.locals)
        <5>1. j \in 1..change /\ i = Len(previous.locals) + j /\ i = Len(frame.locals) - change + j
          <6>1. \A A, B \in Nat : \A n \in 1..B :
                  B - A = change /\ n \notin 1..A =>
                    n - A \in 1..change /\ n = A + (n - A) /\ n = B - change + (n - A)
            OBVIOUS
          <6>2. Len(previous.locals) \in Nat /\ Len(frame.locals) \in Nat /\ i \in 1..Len(frame.locals)
            BY <1>1, <3>7
          <6>3. Len(frame.locals) - Len(previous.locals) = change
            BY DEF change
          <6> QED BY <4>2, <6>1, <6>2, <6>3
        <5> QED BY <2>3, <3>6, <5>1
      <4> QED BY <4>1, <4>2
    <3>9. joined = frame.locals
      BY <1>1, <3>6, <3>7, <3>8, SameList
    <3> QED BY <3>9 DEF joined
  <2>6. ParseFrame(e, previous, offset)
          = [start |-> frame.start, locals |-> frame.locals, stack |-> <<>>]
    BY <1>2, <2>1, <2>5 DEF ParseFrame
  <2> QED BY <1>1, <1>3, <1>9, <2>4, <2>6 DEF e, top
<1>10. Right(Write("full", 0, frame.locals))
  <2> DEFINE e == Write("full", 0, frame.locals)
  <2>1. e.form = "full" /\ e.delta = delta /\ e.stack = frame.stack /\ e.locals = frame.locals
    OBVIOUS
  <2>2. e \in EntryRecord
    BY <1>1, <1>2 DEF EntryRecord, Form
  <2> HIDE DEF e
  <2>3. ParseFrame(e, previous, offset)
          = [start |-> frame.start, locals |-> frame.locals, stack |-> frame.stack]
    BY <1>2, <2>1 DEF ParseFrame
  <2> QED BY <1>1, <2>2, <2>3 DEF e
<1>11. Right(entry)
  <2> HIDE DEF Right, Write
  <2> QED BY <1>5, <1>6, <1>7, <1>8, <1>9, <1>10
<1> QED
  BY <1>11 DEF entry, offset

-----------------------------------------------------------------------------
(* The abstract interpreter's flags and the types of the slots. *)

FlagsRight(flags, tags) == \A j \in DOMAIN tags : flags[j] <=> tags[j] = "ref"

IsMachine(m) == m = [locals |-> m.locals, stack |-> m.stack, sp |-> m.sp]

Agrees(m, ls, s) ==
  /\ IsMachine(m)
  /\ DOMAIN m.locals = DOMAIN ls /\ m.sp = Len(s)
  /\ FlagsRight(m.locals, ls) /\ FlagsRight(m.stack, s)

LEMMA Sizes ==
  ASSUME method \in Methods
  PROVE  MaxLocals \in Nat /\ MaxStack \in Nat
BY BoundAssumption DEF MaxLocals, MaxStack

LEMMA PartsChanged ==
  ASSUME NEW m, IsMachine(m), NEW f, NEW q
  PROVE  /\ [m EXCEPT !.stack = f, !.sp = q] = [locals |-> m.locals, stack |-> f, sp |-> q]
         /\ [m EXCEPT !.sp = q] = [locals |-> m.locals, stack |-> m.stack, sp |-> q]
         /\ [m EXCEPT !.locals = f] = [locals |-> f, stack |-> m.stack, sp |-> m.sp]
<1> DEFINE ls == m.locals
           s == m.stack
           p == m.sp
           r == [locals |-> ls, stack |-> s, sp |-> p]
<1>1. m = r
  BY DEF IsMachine
<1> HIDE DEF ls, s, p
<1>2. [r EXCEPT !.stack = f, !.sp = q] = [locals |-> ls, stack |-> f, sp |-> q]
  <2>1. [r EXCEPT !.stack = f] = [locals |-> ls, stack |-> f, sp |-> p]
    OBVIOUS
  <2>2. [[locals |-> ls, stack |-> f, sp |-> p] EXCEPT !.sp = q] = [locals |-> ls, stack |-> f, sp |-> q]
    OBVIOUS
  <2> QED BY <2>1, <2>2
<1>3. [r EXCEPT !.sp = q] = [locals |-> ls, stack |-> s, sp |-> q]
  OBVIOUS
<1>4. [r EXCEPT !.locals = f] = [locals |-> f, stack |-> s, sp |-> p]
  OBVIOUS
<1> HIDE DEF r
<1>5. /\ [m EXCEPT !.stack = f, !.sp = q] = [locals |-> ls, stack |-> f, sp |-> q]
      /\ [m EXCEPT !.sp = q] = [locals |-> ls, stack |-> s, sp |-> q]
      /\ [m EXCEPT !.locals = f] = [locals |-> f, stack |-> s, sp |-> p]
  BY <1>1, <1>2, <1>3, <1>4
<1> QED
  BY <1>5 DEF ls, s, p

LEMMA PushAgrees ==
  ASSUME method \in Methods, NEW m, NEW ls, NEW s \in Seq(Tag), NEW k \in Value,
         Agrees(m, ls, s), Len(s \o Slots(k)) <= MaxStack
  PROVE  Agrees(Push(m, k), ls, s \o Slots(k))
<1> DEFINE w == Slots(k)
           t == s \o w
           L == Len(s)
           flags == [j \in 1..MaxStack |->
                       IF j = m.sp + 1 THEN IsReference(k)
                       ELSE ~(k = "long" /\ j = m.sp + 2) /\ m.stack[j]]
<1>1. w \in Seq(Tag) /\ Len(w) \in 1..2 /\ Width(<<k>>) = Len(w)
  BY SlotsOfValue, SpreadOfFew
<1>2. /\ t \in Seq(Tag) /\ Len(t) = L + Len(w) /\ L \in Nat /\ DOMAIN t = 1..L + Len(w)
      /\ \A i \in 1..L : t[i] = s[i]
      /\ \A i \in 1..Len(w) : t[L + i] = w[i]
      /\ DOMAIN s = 1..L
  BY <1>1
<1>3. m.sp = L /\ FlagsRight(m.stack, s) /\ IsMachine(m)
  BY DEF Agrees
<1>4. MaxStack \in Nat /\ L + Len(w) <= MaxStack
  BY <1>2, Sizes
<1>5. \A j \in 1..MaxStack :
        flags[j] = (IF j = L + 1 THEN IsReference(k)
                    ELSE ~(k = "long" /\ j = L + 2) /\ m.stack[j])
  <2>1. \A p : p = L => \A j \in 1..MaxStack :
          [i \in 1..MaxStack |-> IF i = p + 1 THEN IsReference(k)
                                 ELSE ~(k = "long" /\ i = p + 2) /\ m.stack[i]][j]
          = (IF j = L + 1 THEN IsReference(k) ELSE ~(k = "long" /\ j = L + 2) /\ m.stack[j])
    <3> HIDE DEF L
    <3> QED OBVIOUS
  <2> QED BY <1>3, <2>1
<1>10. Push(m, k) = [locals |-> m.locals, stack |-> flags, sp |-> L + Len(w)]
  <2>1. Push(m, k) = [m EXCEPT !.stack = flags, !.sp = m.sp + Width(<<k>>)]
    BY DEF Push
  <2> HIDE DEF flags
  <2>2. m.sp + Width(<<k>>) = L + Len(w)
    BY <1>1, <1>3
  <2> QED BY <1>3, <2>1, <2>2, PartsChanged
<1> HIDE DEF flags, t, L, w
<1>6. ASSUME NEW j \in DOMAIN t PROVE flags[j] <=> t[j] = "ref"
  <2>1. j \in 1..L + Len(w) /\ j \in 1..MaxStack
    BY <1>1, <1>2, <1>4
  <2>2. CASE j \in 1..L
    <3>1. j # L + 1 /\ j # L + 2 /\ t[j] = s[j]
      BY <1>2, <2>2
    <3>2. flags[j] <=> m.stack[j]
      BY <1>5, <2>1, <3>1
    <3> QED BY <1>2, <1>3, <2>2, <3>1, <3>2 DEF FlagsRight
  <2>3. CASE j = L + 1
    <3>1. t[j] = w[1]
      <4>1. 1 \in 1..Len(w)
        BY <1>1
      <4> QED BY <1>2, <2>3, <4>1
    <3>2. w[1] = k
      BY SlotsOfValue DEF w
    <3> QED BY <1>5, <2>1, <2>3, <3>1, <3>2 DEF IsReference
  <2>4. CASE j = L + 2
    <3>1. Len(w) = 2 /\ t[j] = w[2] /\ j # L + 1
      BY <1>1, <1>2, <2>1, <2>4
    <3>2. k = "long" /\ w[2] = "half"
      BY <3>1, SlotsOfValue DEF w
    <3>3. ~flags[j]
      BY <1>5, <2>1, <2>4, <3>1, <3>2
    <3> QED BY <3>1, <3>2, <3>3
  <2>5. j \in 1..L \/ j = L + 1 \/ j = L + 2
    <3> DEFINE n == Len(w)
    <3>1. j \in 1..L + n /\ n \in 1..2 /\ L \in Nat
      BY <1>1, <1>2, <2>1
    <3> HIDE DEF n
    <3> QED BY <3>1
  <2> QED BY <2>2, <2>3, <2>4, <2>5
<1>7. FlagsRight(flags, t)
  BY <1>6 DEF FlagsRight
<1>8. DOMAIN m.locals = DOMAIN ls /\ FlagsRight(m.locals, ls)
  BY DEF Agrees
<1>9. Agrees(Push(m, k), ls, t)
  <2> DEFINE r == Push(m, k)
  <2>1. /\ r.locals = m.locals /\ r.stack = flags /\ r.sp = Len(t)
        /\ IsMachine(r)
    BY <1>2, <1>10 DEF IsMachine
  <2> HIDE DEF r
  <2>2. Agrees(r, ls, t)
    BY <1>7, <1>8, <2>1 DEF Agrees
  <2> QED BY <2>2 DEF r
<1> QED
  BY <1>9 DEF t, w

LEMMA Dropped ==
  ASSUME NEW m, NEW ls, NEW s \in Seq(Tag), NEW n \in 0..Len(s), Agrees(m, ls, s),
         NEW flags, \A j \in 1..Len(s) - n : flags[j] <=> m.stack[j]
  PROVE  Agrees([locals |-> m.locals, stack |-> flags, sp |-> Len(s) - n], ls, Drop(n, s))
<1>1. /\ Drop(n, s) \in Seq(Tag) /\ Len(Drop(n, s)) = Len(s) - n /\ Len(s) \in Nat
      /\ \A i \in 1..Len(s) - n : Drop(n, s)[i] = s[i]
  <2>1. Len(s) \in Nat
    BY ListFacts
  <2>2. n \in Nat /\ n <= Len(s)
    BY <2>1
  <2> QED BY <2>1, <2>2, DropFacts
<1>2. DOMAIN Drop(n, s) = 1..Len(s) - n /\ DOMAIN s = 1..Len(s)
  BY <1>1
<1>3. ASSUME NEW j \in 1..Len(s) - n PROVE flags[j] <=> Drop(n, s)[j] = "ref"
  <2>1. j \in 1..Len(s)
    BY <1>1
  <2> QED BY <1>1, <1>2, <2>1 DEF Agrees, FlagsRight
<1>4. FlagsRight(flags, Drop(n, s))
  BY <1>2, <1>3 DEF FlagsRight
<1>5. DOMAIN m.locals = DOMAIN ls /\ FlagsRight(m.locals, ls)
  BY DEF Agrees
<1> QED
  BY <1>1, <1>4, <1>5 DEF Agrees, IsMachine

LEMMA PopAgrees ==
  ASSUME method \in Methods, NEW m, NEW ls, NEW s \in Seq(Tag), NEW ks \in Seq(Value),
         Agrees(m, ls, s), Width(ks) <= Len(s), Len(s) <= MaxStack
  PROVE  /\ Agrees(Pop(m, ks), ls, Drop(Width(ks), s))
         /\ Agrees([m EXCEPT !.sp = @ - Width(ks)], ls, Drop(Width(ks), s))
<1> DEFINE n == Width(ks)
           L == Len(s)
           flags == [j \in 1..MaxStack |-> j \notin m.sp - n + 1..m.sp /\ m.stack[j]]
<1>1. n \in 0..L /\ L \in Nat
  BY SpreadFacts
<1>2. m.sp = L /\ IsMachine(m)
  BY DEF Agrees
<1>3. Pop(m, ks) = [locals |-> m.locals, stack |-> flags, sp |-> L - n]
  <2>1. Pop(m, ks) = [m EXCEPT !.stack = flags, !.sp = m.sp - n]
    BY DEF Pop
  <2> HIDE DEF flags, n
  <2> QED BY <1>2, <2>1, PartsChanged
<1>4. [m EXCEPT !.sp = @ - n] = [locals |-> m.locals, stack |-> m.stack, sp |-> L - n]
  <2> DEFINE p == m.sp - n
  <2>1. p = L - n
    <3> HIDE DEF n, L
    <3>1. m.sp = L
      BY <1>2
    <3> QED BY <3>1
  <2> HIDE DEF n, p, L
  <2>2. [m EXCEPT !.sp = p] = [locals |-> m.locals, stack |-> m.stack, sp |-> p]
    BY <1>2, PartsChanged
  <2> QED BY <2>1, <2>2 DEF p
<1>5. \A j \in 1..L - n : flags[j] <=> m.stack[j]
  <2>1. MaxStack \in Nat
    BY Sizes
  <2>2. \A j \in 1..L - n : j \in 1..MaxStack /\ j \notin m.sp - n + 1..m.sp
    BY <1>1, <1>2, <2>1
  <2> QED BY <2>2
<1> HIDE DEF flags, n
<1>6. Agrees([locals |-> m.locals, stack |-> flags, sp |-> L - n], ls, Drop(n, s))
  BY <1>1, <1>5, Dropped
<1>7. Agrees([locals |-> m.locals, stack |-> m.stack, sp |-> L - n], ls, Drop(n, s))
  BY <1>1, Dropped
<1> QED
  BY <1>3, <1>4, <1>6, <1>7 DEF n

-----------------------------------------------------------------------------
(* What an instruction does to the flags it does to the types. *)

LEMMA DropAndTop ==
  ASSUME NEW s \in Seq(Tag), NEW n \in 0..Len(s)
  PROVE  Drop(n, s) \o Top(n, s) = s
<1> DEFINE a == Drop(n, s)
           b == Top(n, s)
           c == a \o b
           L == Len(s)
<1>1. L \in Nat /\ n \in Nat /\ n <= L
  BY ListFacts
<1>2. a \in Seq(Tag) /\ Len(a) = L - n /\ \A i \in 1..L - n : a[i] = s[i]
  BY <1>1, DropFacts
<1>3. b \in Seq(Tag) /\ Len(b) = n /\ \A i \in 1..n : b[i] = s[L - n + i]
  BY TopFacts
<1>4. /\ c \in Seq(Tag) /\ Len(c) = Len(a) + Len(b)
      /\ \A i \in 1..Len(a) : c[i] = a[i]
      /\ \A i \in 1..Len(b) : c[Len(a) + i] = b[i]
  <2> HIDE DEF a, b
  <2>1. a \in Seq(Tag) /\ b \in Seq(Tag)
    BY <1>2, <1>3
  <2>2. a \o b \in Seq(Tag) /\ Len(a \o b) = Len(a) + Len(b)
    BY <2>1
  <2>3. \A i \in 1..Len(a) : (a \o b)[i] = a[i]
    BY <2>1
  <2>4. \A i \in 1..Len(b) : (a \o b)[Len(a) + i] = b[i]
    BY <2>1
  <2> QED BY <2>2, <2>3, <2>4
<1> HIDE DEF a, b, c, L
<1>5. ASSUME NEW i \in 1..L PROVE c[i] = s[i]
  <2>1. CASE i <= L - n
    <3>1. i \in 1..L - n /\ i \in 1..Len(a)
      BY <1>1, <1>2, <2>1
    <3> QED BY <1>2, <1>4, <3>1
  <2>2. CASE i > L - n
    <3> DEFINE k == i - (L - n)
    <3>1. k \in 1..n /\ L - n + k = i /\ Len(a) + k = i /\ k \in 1..Len(b)
      BY <1>1, <1>2, <1>3, <2>2
    <3> HIDE DEF k
    <3>2. c[Len(a) + k] = b[k]
      BY <1>4, <3>1
    <3> QED BY <1>3, <3>1, <3>2
  <2> QED BY <1>1, <2>1, <2>2
<1>6. Len(c) = L /\ c \in Seq(Tag)
  BY <1>1, <1>2, <1>3, <1>4
<1>7. \A i \in 1..Len(c) : c[i] = s[i]
  BY <1>5, <1>6
<1>8. c = s
  <2>1. Len(c) = Len(s)
    BY <1>6 DEF L
  <2> QED BY <1>6, <1>7, <2>1, SameList, Zenon
<1> QED
  BY <1>8 DEF a, b, c

LEMMA DropNone ==
  ASSUME NEW s \in Seq(Tag)
  PROVE  Drop(0, s) = s
<1>1. Len(s) \in Nat /\ Len(s) - 0 = Len(s)
  BY ListFacts
<1> QED
  BY <1>1, WholeList DEF Drop

After(ks, rs, s) == Drop(Width(ks), s) \o Spread(rs)

LEMMA Consumed ==
  ASSUME method \in Methods, NEW m, NEW ls, NEW s \in Seq(Tag), NEW ks \in Seq(Value),
         Agrees(m, ls, s), Width(ks) <= Len(s), Len(s) <= MaxStack
  PROVE  /\ Agrees(Pop(m, ks), ls, After(ks, <<>>, s))
         /\ Agrees([m EXCEPT !.sp = @ - Width(ks)], ls, After(ks, <<>>, s))
<1>1. Drop(Width(ks), s) \in Seq(Tag) /\ Spread(<<>>) = <<>>
  BY SpreadFacts, SpreadOfFew, DropFacts DEF Value, Kind
<1>2. \A l \in Seq(Tag) : l \o <<>> = l
  OBVIOUS
<1>3. After(ks, <<>>, s) = Drop(Width(ks), s)
  BY <1>1, <1>2 DEF After
<1> QED
  BY <1>3, PopAgrees

LEMMA Produced ==
  ASSUME method \in Methods, NEW m, NEW ls, NEW s \in Seq(Tag), NEW k \in Value,
         Agrees(m, ls, s), Len(After(<<>>, <<k>>, s)) <= MaxStack
  PROVE  Agrees(Push(m, k), ls, After(<<>>, <<k>>, s))
<1>1. Width(<<>>) = 0 /\ Spread(<<k>>) = Slots(k)
  BY SpreadOfFew
<1>2. After(<<>>, <<k>>, s) = s \o Slots(k)
  BY <1>1, DropNone DEF After
<1> QED
  BY <1>2, PushAgrees

LEMMA Replaced ==
  ASSUME method \in Methods, NEW m, NEW ls, NEW s \in Seq(Tag), NEW ks \in Seq(Value),
         NEW k \in Value, Agrees(m, ls, s), Width(ks) <= Len(s), Len(s) <= MaxStack,
         Len(After(ks, <<k>>, s)) <= MaxStack
  PROVE  /\ Agrees(Push(Pop(m, ks), k), ls, After(ks, <<k>>, s))
         /\ Agrees(Push([m EXCEPT !.sp = @ - Width(ks)], k), ls, After(ks, <<k>>, s))
<1> DEFINE t == Drop(Width(ks), s)
           called == [m EXCEPT !.sp = @ - Width(ks)]
<1>1. Agrees(Pop(m, ks), ls, t) /\ Agrees(called, ls, t)
  BY PopAgrees
<1>2. t \in Seq(Tag)
  BY SpreadFacts, DropFacts
<1>3. After(ks, <<k>>, s) = t \o Slots(k)
  BY SpreadOfFew DEF After
<1> HIDE DEF t, called
<1>4. Agrees(Push(Pop(m, ks), k), ls, t \o Slots(k)) /\ Agrees(Push(called, k), ls, t \o Slots(k))
  BY <1>1, <1>2, <1>3, PushAgrees
<1> QED
  BY <1>3, <1>4 DEF called

LEMMA LeftAlone ==
  ASSUME NEW m, NEW ls, NEW s \in Seq(Tag), NEW ks \in Seq(Value),
         Agrees(m, ls, s), Width(ks) <= Len(s), Top(Width(ks), s) = Spread(ks)
  PROVE  After(ks, ks, s) = s
<1>1. Width(ks) \in 0..Len(s)
  BY SpreadFacts, ListFacts
<1> QED
  BY <1>1, DropAndTop DEF After

LEMMA OperandsFacts ==
  ASSUME NEW i \in Code
  PROVE  Operands(i) \in Seq(Value) /\ Results(i) \in Seq(Value)
<1>1. i.kind \in Kind /\ i.to \in Kind \cup {"void"} /\ i.args \in Seq(Kind)
  BY DEF Code
<1>2. \A a \in Value, b \in Value, c \in Value :
        <<>> \in Seq(Value) /\ <<a>> \in Seq(Value) /\ <<a, b>> \in Seq(Value) /\ <<a, b, c>> \in Seq(Value)
  OBVIOUS
<1>3. i.kind \in Value /\ "int" \in Value /\ "ref" \in Value /\ (i.to # "void" => i.to \in Value)
  BY <1>1 DEF Value, Kind
<1>4. i.args \in Seq(Value)
  BY <1>1 DEF Value
<1>5. <<>> \in Seq(Value) /\ <<i.kind>> \in Seq(Value) /\ <<"int">> \in Seq(Value) /\ <<"ref">> \in Seq(Value)
      /\ <<"ref", "int">> \in Seq(Value) /\ <<"ref", "int", i.kind>> \in Seq(Value)
      /\ <<i.kind, i.kind>> \in Seq(Value) /\ <<i.kind, "int">> \in Seq(Value)
      /\ <<"ref", i.kind>> \in Seq(Value) /\ (i.to # "void" => <<i.to>> \in Seq(Value))
  BY <1>2, <1>3
<1>6. Operands(i) \in Seq(Value)
  BY <1>4, <1>5 DEF Operands
<1>7. Results(i) \in Seq(Value)
  <2>1. i.op = "convert" => i.to # "void"
    BY DEF Code, Kind
  <2> QED BY <1>5, <2>1 DEF Results
<1> QED
  BY <1>6, <1>7
LEMMA IncrementAgrees ==
  ASSUME NEW m, NEW ls, NEW s, NEW n, Agrees(m, ls, s), ls[n] = "int"
  PROVE  Agrees([m EXCEPT !.locals[n] = FALSE], ls, s)
<1> DEFINE flags == [m.locals EXCEPT ![n] = FALSE]
           r == [locals |-> flags, stack |-> m.stack, sp |-> m.sp]
<1>1. /\ IsMachine(m) /\ DOMAIN m.locals = DOMAIN ls /\ m.sp = Len(s)
      /\ FlagsRight(m.locals, ls) /\ FlagsRight(m.stack, s)
  BY DEF Agrees
<1>2. [m EXCEPT !.locals[n] = FALSE] = r
  <2>1. [m EXCEPT !.locals[n] = FALSE] = [m EXCEPT !.locals = flags]
    OBVIOUS
  <2> HIDE DEF flags
  <2> QED BY <1>1, <2>1, PartsChanged
<1>3. FlagsRight(flags, ls)
  BY <1>1 DEF FlagsRight
<1>4. DOMAIN flags = DOMAIN ls
  BY <1>1
<1> HIDE DEF flags
<1>5. r.locals = flags /\ r.stack = m.stack /\ r.sp = m.sp
  OBVIOUS
<1> QED
  BY <1>1, <1>2, <1>3, <1>4, <1>5 DEF Agrees, IsMachine

StoredAs(to, ls, N, n, k, W) ==
  /\ (k = "long" <=> W = 2) /\ DOMAIN to = 1..N /\ to = [j \in 1..N |-> to[j]]
  /\ \A j \in 1..N :
       /\ j = n => to[j] = k
       /\ W = 2 /\ j = n + 1 => to[j] = "half"
       /\ j < n \/ j >= n + W =>
            IF (j = n - 1 /\ ls[j] = "long") \/ (j = n + W /\ ls[j] = "half")
            THEN to[j] = "top" ELSE to[j] = ls[j]

LEMMA StoredSlots ==
  ASSUME NEW N \in Nat, NEW ls, DOMAIN ls = 1..N, NEW i \in Code
  PROVE  /\ Width(<<i.kind>>) \in 1..2
         /\ StoredAs(Stored(i, ls), ls, N, i.slot, i.kind, Width(<<i.kind>>))
<1> DEFINE k == i.kind
           n == i.slot
           w == Slots(k)
           W == Width(<<k>>)
           l == n + W - 1
           t == Stored(i, ls)
           At(j) == CASE j \in n..l -> w[j - n + 1]
                      [] j = n - 1 /\ ls[j] = "long" -> "top"
                      [] j = l + 1 /\ ls[j] = "half" -> "top"
                      [] OTHER -> ls[j]
<1>1. k \in Kind /\ k \in Value /\ n \in Nat \ {0}
  BY DEF Code, Value
<1>2. /\ W \in 1..2 /\ w[1] = k
      /\ k = "long" => W = 2 /\ w[2] = "half"
      /\ k # "long" => W = 1
  <2>1. W = Len(w)
    BY <1>1, SpreadOfFew
  <2>2. /\ Len(w) \in 1..2 /\ w[1] = k
        /\ k = "long" => Len(w) = 2 /\ w[2] = "half"
        /\ k # "long" => Len(w) = 1
    BY <1>1, SlotsOfValue
  <2> HIDE DEF W, w
  <2> QED BY <2>1, <2>2
<1>3. t = [j \in 1..N |-> At(j)]
  BY DEF Stored
<1> HIDE DEF t, W, w, n, k
<1>4. DOMAIN t = 1..N /\ t = [j \in 1..N |-> t[j]] /\ \A j \in 1..N : t[j] = At(j)
  <2> HIDE DEF At
  <2> QED BY <1>3
<1>5. l = n + W - 1 /\ l \in Nat
  BY <1>1, <1>2
<1> HIDE DEF l
<1>6. ASSUME NEW j \in 1..N
      PROVE  /\ j = n => t[j] = k
             /\ W = 2 /\ j = n + 1 => t[j] = "half"
             /\ j < n \/ j >= n + W =>
                  IF (j = n - 1 /\ ls[j] = "long") \/ (j = n + W /\ ls[j] = "half")
                  THEN t[j] = "top" ELSE t[j] = ls[j]
  <2>1. ASSUME j = n PROVE t[j] = k
    <3>1. j \in n..l /\ j - n + 1 = 1 /\ j # n - 1 /\ j # l + 1
      BY <1>1, <1>2, <1>5, <2>1
    <3>2. At(j) = w[j - n + 1]
      BY <3>1
    <3> HIDE DEF At
    <3> QED BY <1>2, <1>4, <3>1, <3>2
  <2>2. ASSUME W = 2, j = n + 1 PROVE t[j] = "half"
    <3>1. j \in n..l /\ j - n + 1 = 2 /\ j # n - 1 /\ j # l + 1
      BY <1>1, <1>2, <1>5, <2>2
    <3>2. At(j) = w[j - n + 1]
      BY <3>1
    <3>3. w[2] = "half"
      BY <1>2, <2>2
    <3> HIDE DEF At
    <3> QED BY <1>4, <3>1, <3>2, <3>3
  <2>3. ASSUME j < n \/ j >= n + W
        PROVE  IF (j = n - 1 /\ ls[j] = "long") \/ (j = n + W /\ ls[j] = "half")
               THEN t[j] = "top" ELSE t[j] = ls[j]
    <3>1. j \notin n..l /\ l + 1 = n + W /\ ~(j = n - 1 /\ j = l + 1)
      BY <1>1, <1>2, <1>5, <2>3
    <3>2. IF (j = n - 1 /\ ls[j] = "long") \/ (j = l + 1 /\ ls[j] = "half")
          THEN At(j) = "top" ELSE At(j) = ls[j]
      BY <3>1
    <3> HIDE DEF At
    <3> QED BY <1>4, <3>1, <3>2
  <2> QED BY <2>1, <2>2, <2>3
<1>7. k = "long" <=> W = 2
  BY <1>2
<1>8. W \in 1..2 /\ StoredAs(t, ls, N, n, k, W)
  BY <1>2, <1>4, <1>6, <1>7 DEF StoredAs
<1> QED
  BY <1>8 DEF t, W, k, n

LEMMA StoreAgrees ==
  ASSUME method \in Methods, NEW m, NEW ls \in [1..MaxLocals -> Tag], NEW s \in Seq(Tag),
         NEW i \in Code, Agrees(m, ls, s), Width(<<i.kind>>) <= Len(s), Len(s) <= MaxStack
  PROVE  Agrees(Store(m, i.slot, i.kind), Stored(i, ls), After(<<i.kind>>, <<>>, s))
<1> DEFINE k == i.kind
           n == i.slot
           N == MaxLocals
           popped == Pop(m, <<k>>)
           t == After(<<k>>, <<>>, s)
           to == Stored(i, ls)
           flags == [j \in 1..N |-> IF j = n THEN IsReference(k)
                                    ELSE ~(k = "long" /\ j = n + 1) /\ m.locals[j]]
           r == [locals |-> flags, stack |-> popped.stack, sp |-> popped.sp]
<1>1. k \in Kind /\ k \in Value /\ n \in Nat
  BY DEF Code, Value
<1>2. <<k>> \in Seq(Value)
  BY <1>1, SpreadOfFew
<1>3. Agrees(popped, ls, t)
  BY <1>2, Consumed
<1>4. /\ IsMachine(popped) /\ popped.sp = Len(t) /\ FlagsRight(popped.stack, t)
      /\ FlagsRight(m.locals, ls)
  BY <1>3 DEF Agrees
<1>5. Store(m, n, k) = r
  <2>1. Store(m, n, k) = [popped EXCEPT !.locals = flags]
    BY DEF Store
  <2> HIDE DEF flags, popped
  <2> QED BY <1>4, <2>1, PartsChanged
<1>6. N \in Nat /\ DOMAIN ls = 1..N
  BY Sizes
<1>7. \A j \in 1..N : m.locals[j] <=> ls[j] = "ref"
  BY <1>4, <1>6 DEF FlagsRight
<1> HIDE DEF N
<1> DEFINE W == Width(<<k>>)
<1>8. W \in 1..2 /\ StoredAs(to, ls, N, n, k, W)
  BY <1>6, StoredSlots
<1> HIDE DEF W
<1> HIDE DEF k, n, to
<1>9. \A j \in 1..N : flags[j] <=> to[j] = "ref"
  <2> SUFFICES ASSUME NEW j \in 1..N PROVE flags[j] <=> to[j] = "ref"
    OBVIOUS
  <2>1. flags[j] = (IF j = n THEN k = "ref" ELSE ~(k = "long" /\ j = n + 1) /\ m.locals[j])
    BY DEF IsReference
  <2> HIDE DEF flags
  <2>2. CASE j = n
    BY <1>8, <2>1, <2>2 DEF StoredAs
  <2>3. CASE j = n + 1 /\ k = "long"
    <3>1. j # n /\ to[j] = "half"
      BY <1>1, <1>8, <2>3 DEF StoredAs
    <3> QED BY <2>1, <2>3, <3>1
  <2>4. CASE j # n /\ ~(k = "long" /\ j = n + 1)
    <3>1. j < n \/ j >= n + W
      BY <1>1, <1>8, <2>4 DEF StoredAs
    <3>2. to[j] = ls[j] \/ (ls[j] \in {"long", "half"} /\ to[j] = "top")
      BY <1>8, <3>1 DEF StoredAs
    <3>3. flags[j] <=> m.locals[j]
      BY <2>1, <2>4
    <3> QED BY <1>7, <3>2, <3>3
  <2> QED BY <2>2, <2>3, <2>4
<1>10. DOMAIN flags = 1..N
  OBVIOUS
<1> HIDE DEF flags
<1>11. FlagsRight(flags, to) /\ DOMAIN flags = DOMAIN to
  BY <1>8, <1>9, <1>10 DEF FlagsRight, StoredAs
<1>12. Agrees(r, to, t)
  <2>1. r.locals = flags /\ r.stack = popped.stack /\ r.sp = popped.sp
    OBVIOUS
  <2> QED BY <1>4, <1>11, <2>1 DEF Agrees, IsMachine
<1> QED
  BY <1>5, <1>12 DEF k, n, to

LEMMA StoredTypes ==
  ASSUME NEW N \in Nat, NEW ls \in [1..N -> Tag], NEW i \in Code, WholeLongs(ls),
         i.slot + Width(<<i.kind>>) - 1 <= N
  PROVE  Stored(i, ls) \in [1..N -> Tag] /\ WholeLongs(Stored(i, ls))
<1> DEFINE k == i.kind
           n == i.slot
           t == Stored(i, ls)
<1>1. k \in Kind /\ n \in Nat \ {0}
  BY DEF Code
<1>2. ls \in Seq(Tag) /\ Len(ls) = N /\ DOMAIN ls = 1..N /\ \A j \in 1..N : ls[j] \in Tag
  BY FunctionIsList
<1>3. \A j \in 1..N : /\ ls[j] = "long" => j < N /\ ls[j + 1] = "half"
                      /\ ls[j] = "half" => j > 1 /\ ls[j - 1] = "long"
  BY <1>2 DEF WholeLongs
<1> DEFINE W == Width(<<k>>)
<1>4. W \in 1..2 /\ n + W - 1 <= N /\ StoredAs(t, ls, N, n, k, W)
  BY <1>2, StoredSlots
<1> HIDE DEF W
<1> HIDE DEF k, n, t
<1>5. t[n] = k /\ (W = 2 => t[n + 1] = "half" /\ n + 1 <= N)
  BY <1>1, <1>4 DEF StoredAs
<1>6. ASSUME NEW j \in 1..N
      PROVE  /\ t[j] \in Tag
             /\ t[j] = "long" => j < N /\ t[j + 1] = "half"
             /\ t[j] = "half" => j > 1 /\ t[j - 1] = "long"
  <2>1. CASE j = n
    <3>1. t[j] = k /\ k # "half" /\ k \in Tag
      BY <1>1, <1>4, <2>1 DEF Tag, Kind, StoredAs
    <3> QED BY <1>1, <1>4, <1>5, <2>1, <3>1 DEF StoredAs
  <2>2. CASE j = n + 1 /\ W = 2
    <3>1. t[j] = "half" /\ j > 1 /\ j - 1 = n /\ k = "long"
      BY <1>1, <1>4, <2>2 DEF StoredAs
    <3> QED BY <1>5, <2>2, <3>1 DEF Tag
  <2>3. CASE j < n \/ j >= n + W
    <3>1. t[j] \in {ls[j], "top"} /\ ls[j] \in Tag /\ "top" \in Tag
      BY <1>2, <1>4, <2>3 DEF Tag, StoredAs
    <3>2. ASSUME t[j] = "long" PROVE j < N /\ t[j + 1] = "half"
      <4>1. ls[j] = "long" /\ j # n - 1 /\ j < N /\ ls[j + 1] = "half"
        BY <1>1, <1>3, <1>4, <2>3, <3>1, <3>2 DEF StoredAs
      <4>2. j + 1 \in 1..N /\ (j + 1 < n \/ j + 1 >= n + W) /\ j + 1 # n + W
        BY <1>1, <1>4, <2>3, <4>1 DEF StoredAs
      <4> QED BY <1>4, <4>1, <4>2 DEF StoredAs
    <3>3. ASSUME t[j] = "half" PROVE j > 1 /\ t[j - 1] = "long"
      <4>1. ls[j] = "half" /\ j # n + W /\ j > 1 /\ ls[j - 1] = "long"
        BY <1>1, <1>3, <1>4, <2>3, <3>1, <3>3 DEF StoredAs
      <4>2. j - 1 \in 1..N /\ (j - 1 < n \/ j - 1 >= n + W) /\ j - 1 # n - 1
        BY <1>1, <1>4, <2>3, <4>1 DEF StoredAs
      <4> QED BY <1>4, <4>1, <4>2 DEF StoredAs
    <3> QED BY <3>1, <3>2, <3>3
  <2>4. j = n \/ (j = n + 1 /\ W = 2) \/ j < n \/ j >= n + W
    BY <1>1, <1>4 DEF StoredAs
  <2> QED BY <2>1, <2>2, <2>3, <2>4
<1>7. t \in [1..N -> Tag]
  BY <1>4, <1>6 DEF StoredAs
<1>8. t \in Seq(Tag) /\ Len(t) = N
  BY <1>7, FunctionIsList
<1>9. WholeLongs(t)
  BY <1>4, <1>6, <1>8 DEF WholeLongs, StoredAs
<1> QED
  BY <1>7, <1>9 DEF t

LEMMA LeftFacts ==
  ASSUME NEW op \in Shuffles
  PROVE  /\ Taken(op) \in 1..4 /\ Left(op) \in Seq(1..Taken(op))
         /\ FlagsLeft(op) = Left(op)
<1>1. \A n \in 1..4 : \A a, b, c, d, e, f \in 1..n :
        /\ <<>> \in Seq(1..n) /\ <<a, b>> \in Seq(1..n) /\ <<a, b, c>> \in Seq(1..n)
        /\ <<a, b, c, d>> \in Seq(1..n) /\ <<a, b, c, d, e>> \in Seq(1..n)
        /\ <<a, b, c, d, e, f>> \in Seq(1..n)
  OBVIOUS
<1>2. CASE op = "pop"
  BY <1>1, <1>2 DEF Taken, Left, FlagsLeft
<1>3. CASE op = "pop2"
  BY <1>1, <1>3 DEF Taken, Left, FlagsLeft
<1>4. CASE op = "dup"
  BY <1>1, <1>4 DEF Taken, Left, FlagsLeft
<1>5. CASE op = "dup_x1"
  BY <1>1, <1>5 DEF Taken, Left, FlagsLeft
<1>6. CASE op = "dup_x2"
  BY <1>1, <1>6 DEF Taken, Left, FlagsLeft
<1>7. CASE op = "dup2"
  BY <1>1, <1>7 DEF Taken, Left, FlagsLeft
<1>8. CASE op = "dup2_x1"
  BY <1>1, <1>8 DEF Taken, Left, FlagsLeft
<1>9. CASE op = "dup2_x2"
  BY <1>1, <1>9 DEF Taken, Left, FlagsLeft
<1>10. CASE op = "swap"
  BY <1>1, <1>10 DEF Taken, Left, FlagsLeft
<1> QED
  BY <1>2, <1>3, <1>4, <1>5, <1>6, <1>7, <1>8, <1>9, <1>10 DEF Shuffles

(* The slots a shuffle leaves: those below are untouched, and the rest are *)
(* slots it took.                                                          *)
LEMMA ShuffledFacts ==
  ASSUME NEW op \in Shuffles, NEW s \in Seq(Tag), Taken(op) <= Len(s)
  PROVE  \E base \in Nat :
           /\ base = Len(s) - Taken(op)
           /\ Shuffled(op, s) \in Seq(Tag)
           /\ Len(Shuffled(op, s)) = base + Len(Left(op))
           /\ \A j \in 1..base : Shuffled(op, s)[j] = s[j]
           /\ \A j \in 1..Len(Left(op)) :
                /\ Left(op)[j] \in 1..Taken(op)
                /\ Shuffled(op, s)[base + j] = s[base + Left(op)[j]]
<1> DEFINE n == Taken(op)
           L == Len(s)
           base == L - n
           order == Left(op)
           a == Drop(n, s)
           u == Top(n, s)
           b == [j \in DOMAIN order |-> u[order[j]]]
           c == a \o b
<1>1. n \in 1..4 /\ order \in Seq(1..n)
  BY LeftFacts
<1>2. L \in Nat /\ n \in 0..L /\ n \in Nat /\ base \in Nat /\ base = L - n
  <2>1. n <= L /\ L \in Nat
    BY ListFacts
  <2> HIDE DEF n, L
  <2> QED BY <1>1, <2>1
<1>3. a \in Seq(Tag) /\ Len(a) = base /\ \A i \in 1..base : a[i] = s[i]
  BY <1>2, DropFacts
<1>4. u \in Seq(Tag) /\ Len(u) = n /\ \A i \in 1..n : u[i] = s[base + i]
  BY <1>2, TopFacts
<1> HIDE DEF n, order, a, u, base, L
<1>5. /\ Len(order) \in Nat /\ DOMAIN order = 1..Len(order)
      /\ \A j \in 1..Len(order) : order[j] \in 1..n
  BY <1>1, ListFacts
<1>6. \A i \in 1..n : u[i] \in Tag
  BY <1>4
<1>7. b \in [1..Len(order) -> Tag]
  BY <1>5, <1>6
<1>8. b \in Seq(Tag) /\ Len(b) = Len(order) /\ \A j \in 1..Len(order) : b[j] = u[order[j]]
  BY <1>5, <1>7, FunctionIsList
<1> HIDE DEF b
<1>9. c \in Seq(Tag) /\ Len(c) = Len(a) + Len(b)
  BY <1>3, <1>8
<1>10. \A i \in 1..Len(a) : c[i] = a[i]
  BY <1>3, <1>8
<1>11. \A i \in 1..Len(b) : c[Len(a) + i] = b[i]
  BY <1>3, <1>8
<1>12. Shuffled(op, s) = c
  BY DEF Shuffled, n, order, a, u, b
<1> HIDE DEF c
<1>13. \A j \in 1..base : c[j] = s[j]
  BY <1>3, <1>10
<1>14. \A j \in 1..Len(order) : order[j] \in 1..n /\ c[base + j] = s[base + order[j]]
  BY <1>3, <1>4, <1>5, <1>8, <1>11
<1>15. Len(c) = base + Len(order)
  BY <1>3, <1>8, <1>9
<1>16. base \in Nat /\ base = Len(s) - n
  BY <1>2 DEF L
<1> QED
  BY <1>9, <1>12, <1>13, <1>14, <1>15, <1>16 DEF n, order

LEMMA ShuffleAgrees ==
  ASSUME method \in Methods, NEW m, NEW ls, NEW s \in Seq(Tag), NEW op \in Shuffles,
         Agrees(m, ls, s), Taken(op) <= Len(s), Len(s) <= MaxStack,
         Len(Shuffled(op, s)) <= MaxStack
  PROVE  Agrees(ShuffleFlags(m, op), ls, Shuffled(op, s))
<1> DEFINE n == Taken(op)
           order == Left(op)
           t == Shuffled(op, s)
           M == MaxStack
<1>1. PICK base \in Nat :
        /\ base = Len(s) - n /\ t \in Seq(Tag) /\ Len(t) = base + Len(order)
        /\ \A j \in 1..base : t[j] = s[j]
        /\ \A j \in 1..Len(order) : order[j] \in 1..n /\ t[base + j] = s[base + order[j]]
  BY ShuffledFacts
<1>2. /\ IsMachine(m) /\ DOMAIN m.locals = DOMAIN ls /\ m.sp = Len(s)
      /\ FlagsRight(m.locals, ls) /\ FlagsRight(m.stack, s)
  BY DEF Agrees
<1>3. n \in 1..4 /\ order \in Seq(1..n) /\ FlagsLeft(op) = order
  BY LeftFacts
<1>4. M \in Nat
  BY Sizes
<1> DEFINE flags == [j \in 1..M |-> IF j - base \in DOMAIN order
                                    THEN m.stack[base + order[j - base]] ELSE m.stack[j]]
           r == [locals |-> m.locals, stack |-> flags, sp |-> base + Len(order)]
<1>5. ShuffleFlags(m, op) = r
  <2>1. m.sp - Taken(op) = base
    BY <1>1, <1>2
  <2>2. ShuffleFlags(m, op) = [m EXCEPT !.stack = flags, !.sp = base + Len(order)]
    BY <1>3, <2>1 DEF ShuffleFlags
  <2> HIDE DEF flags
  <2> QED BY <1>2, <2>2, PartsChanged
<1>6. Len(order) \in Nat /\ DOMAIN order = 1..Len(order) /\ Len(s) \in Nat /\ DOMAIN s = 1..Len(s)
  BY <1>3, ListFacts
<1>7. DOMAIN t = 1..Len(t) /\ Len(t) = base + Len(order) /\ Len(t) <= M
  BY <1>1
<1> HIDE DEF n, order, t, M
<1>8. \A j \in 1..Len(t) : flags[j] <=> t[j] = "ref"
  <2> SUFFICES ASSUME NEW j \in 1..Len(t) PROVE flags[j] <=> t[j] = "ref"
    OBVIOUS
  <2>1. j \in 1..M /\ j <= base + Len(order)
    BY <1>4, <1>6, <1>7
  <2>2. flags[j] = (IF j - base \in 1..Len(order) THEN m.stack[base + order[j - base]] ELSE m.stack[j])
    BY <1>6, <2>1
  <2> HIDE DEF flags
  <2>3. CASE j <= base
    <3>1. j - base \notin 1..Len(order) /\ j \in 1..base /\ j \in 1..Len(s)
      BY <1>1, <1>3, <1>6, <2>3
    <3> QED BY <1>1, <1>2, <1>6, <2>2, <3>1 DEF FlagsRight
  <2>4. CASE j > base
    <3> DEFINE k == j - base
    <3>1. k \in 1..Len(order) /\ base + k = j
      BY <1>6, <2>1, <2>4
    <3> HIDE DEF k
    <3>2. order[k] \in 1..n /\ t[j] = s[base + order[k]]
      BY <1>1, <3>1
    <3>3. base + order[k] \in 1..Len(s)
      <4>1. base + n = Len(s) /\ base \in Nat
        BY <1>1, <1>3, <1>6
      <4>2. order[k] \in 1..n /\ n \in Nat
        BY <1>3, <3>2
      <4>3. \A o \in 1..n : base + o \in 1..base + n
        BY <4>1, <4>2
      <4> QED BY <4>1, <4>2, <4>3
    <3>4. flags[j] = m.stack[base + order[k]]
      BY <2>2, <3>1 DEF k
    <3> QED BY <1>2, <1>6, <3>2, <3>3, <3>4 DEF FlagsRight
  <2> QED BY <2>3, <2>4
<1> HIDE DEF flags
<1>9. r.locals = m.locals /\ r.stack = flags /\ r.sp = Len(t)
  BY <1>7
<1>10. Agrees(r, ls, t)
  BY <1>2, <1>7, <1>8, <1>9 DEF Agrees, FlagsRight, IsMachine
<1> QED
  BY <1>5, <1>10 DEF t
LEMMA InterpretAgrees ==
  ASSUME method \in Methods, NEW m, NEW ls \in [1..MaxLocals -> Tag], NEW s \in Seq(Tag),
         NEW i \in Code, Agrees(m, ls, s), Len(s) <= MaxStack,
         Verified(i, ls, s), Len(StackAfter(i, s)) <= MaxStack,
         i.op \notin Jumps \cup Exits \cup {"multianewarray", "wideiinc"}
  PROVE  Agrees(Interpret(m, i), LocalsAfter(i, ls), StackAfter(i, s))
<1> DEFINE k == i.kind
           op == i.op
<1>1. k \in Value /\ "int" \in Value /\ "ref" \in Value
  BY DEF Code, Value, Kind
<1>2. Operands(i) \in Seq(Value) /\ Results(i) \in Seq(Value)
  BY OperandsFacts
<1>3. ASSUME op \notin Shuffles
      PROVE  /\ Width(Operands(i)) <= Len(s)
             /\ Top(Width(Operands(i)), s) = Spread(Operands(i))
             /\ StackAfter(i, s) = After(Operands(i), Results(i), s)
             /\ Len(After(Operands(i), Results(i), s)) <= MaxStack
  <2>1. HasOperands(i, s) /\ StackAfter(i, s) = After(Operands(i), Results(i), s)
    BY <1>3 DEF Verified, StackAfter, After
  <2>2. Len(Spread(Operands(i))) = Width(Operands(i)) /\ Width(Operands(i)) \in Nat /\ Len(s) \in Nat
    BY <1>2, SpreadFacts, ListFacts
  <2> QED BY <2>1, <2>2 DEF HasOperands
<1>4. op # "store" => LocalsAfter(i, ls) = ls
  BY DEF LocalsAfter
<1>5. CASE op \in Shuffles
  <2>1. op # "store" /\ StackAfter(i, s) = Shuffled(op, s) /\ Taken(op) <= Len(s)
    <3>1. Taken(op) \in 1..4 /\ Len(s) \in Nat
      BY <1>5, LeftFacts, ListFacts
    <3> QED BY <1>5, <3>1 DEF Verified, StackAfter, Shuffles
  <2>2. Interpret(m, i) = ShuffleFlags(m, op)
    BY <1>5 DEF Interpret, Shuffles
  <2> QED BY <1>4, <1>5, <2>1, <2>2, ShuffleAgrees
<1>6. CASE op = "iinc"
  <2>1. Operands(i) = <<>> /\ Results(i) = <<>> /\ op \notin Shuffles /\ op # "store"
    BY <1>6 DEF Operands, Results, Shuffles
  <2>2. Interpret(m, i) = [m EXCEPT !.locals[i.slot] = FALSE]
    BY <1>6 DEF Interpret, Shuffles
  <2>3. ls[i.slot] = "int"
    BY <1>6 DEF Verified
  <2>4. After(<<>>, <<>>, s) = s
    <3>1. Width(<<>>) = 0 /\ Spread(<<>>) = <<>>
      BY <1>1, SpreadOfFew
    <3>2. \A l \in Seq(Tag) : l \o <<>> = l
      OBVIOUS
    <3>3. Drop(0, s) = s /\ s \o <<>> = s
      BY <3>2, DropNone
    <3>4. After(<<>>, <<>>, s) = Drop(0, s) \o <<>>
      BY <3>1 DEF After
    <3> QED BY <3>3, <3>4
  <2> DEFINE r == [m EXCEPT !.locals[i.slot] = FALSE]
  <2>5. Agrees(r, ls, s)
    BY <2>3, IncrementAgrees
  <2>6. Interpret(m, i) = r
    BY <2>2
  <2> HIDE DEF r
  <2>7. StackAfter(i, s) = s /\ LocalsAfter(i, ls) = ls
    BY <1>3, <1>4, <2>1, <2>4
  <2> QED BY <2>5, <2>6, <2>7
<1>7. CASE op = "store"
  <2>1. Operands(i) = <<k>> /\ Results(i) = <<>> /\ op \notin Shuffles
    BY <1>7 DEF Operands, Results, Shuffles
  <2>2. Interpret(m, i) = Store(m, i.slot, k) /\ LocalsAfter(i, ls) = Stored(i, ls)
    BY <1>7 DEF Interpret, Shuffles, LocalsAfter
  <2>3. Width(<<k>>) <= Len(s) /\ StackAfter(i, s) = After(<<k>>, <<>>, s)
    BY <1>3, <2>1
  <2> QED BY <2>2, <2>3, StoreAgrees
<1>8. CASE op \in {"const", "ldc", "load"}
  <2>1. Operands(i) = <<>> /\ Results(i) = <<k>> /\ op \notin Shuffles /\ op # "store"
    BY <1>8 DEF Operands, Results, Shuffles
  <2>2. Interpret(m, i) = Push(m, k)
    BY <1>8 DEF Interpret, Shuffles
  <2>4. <<>> \in Seq(Value) /\ Width(<<>>) <= Len(s)
        /\ Len(After(<<>>, <<k>>, s)) <= MaxStack /\ Top(Width(<<>>), s) = Spread(<<>>)
        /\ StackAfter(i, s) = After(<<>>, <<k>>, s) /\ LocalsAfter(i, ls) = ls
    BY <1>2, <1>3, <1>4, <2>1
  <2>5. Agrees(Push(m, k), ls, After(<<>>, <<k>>, s))
    BY <1>1, <2>4, Produced
  <2> QED BY <2>2, <2>4, <2>5
<1>9. CASE op = "arrayload"
  <2>1. Operands(i) = <<"ref", "int">> /\ Results(i) = <<k>> /\ op \notin Shuffles /\ op # "store"
    BY <1>9 DEF Operands, Results, Shuffles
  <2>2. Interpret(m, i) = Push(Pop(m, <<"ref", "int">>), k)
    BY <1>9 DEF Interpret, Shuffles, ArrayLoad
  <2>4. <<"ref", "int">> \in Seq(Value) /\ Width(<<"ref", "int">>) <= Len(s)
        /\ Len(After(<<"ref", "int">>, <<k>>, s)) <= MaxStack /\ Top(Width(<<"ref", "int">>), s) = Spread(<<"ref", "int">>)
        /\ StackAfter(i, s) = After(<<"ref", "int">>, <<k>>, s) /\ LocalsAfter(i, ls) = ls
    BY <1>2, <1>3, <1>4, <2>1
  <2>5. Agrees(Push(Pop(m, <<"ref", "int">>), k), ls, After(<<"ref", "int">>, <<k>>, s))
    BY <1>1, <2>4, Replaced
  <2> QED BY <2>2, <2>4, <2>5
<1>10. CASE op = "arraystore"
  <2>1. Operands(i) = <<"ref", "int", k>> /\ Results(i) = <<>> /\ op \notin Shuffles /\ op # "store"
    BY <1>10 DEF Operands, Results, Shuffles
  <2>2. Interpret(m, i) = Pop(m, <<"ref", "int", k>>)
    BY <1>10 DEF Interpret, Shuffles, ArrayStore
  <2>4. <<"ref", "int", k>> \in Seq(Value) /\ Width(<<"ref", "int", k>>) <= Len(s)
        /\ Len(After(<<"ref", "int", k>>, <<>>, s)) <= MaxStack /\ Top(Width(<<"ref", "int", k>>), s) = Spread(<<"ref", "int", k>>)
        /\ StackAfter(i, s) = After(<<"ref", "int", k>>, <<>>, s) /\ LocalsAfter(i, ls) = ls
    BY <1>2, <1>3, <1>4, <2>1
  <2>5. Agrees(Pop(m, <<"ref", "int", k>>), ls, After(<<"ref", "int", k>>, <<>>, s))
    BY <1>1, <2>4, Consumed
  <2> QED BY <2>2, <2>4, <2>5
<1>11. CASE op = "binary"
  <2>1. Operands(i) = <<k, k>> /\ Results(i) = <<k>> /\ op \notin Shuffles /\ op # "store"
    BY <1>11 DEF Operands, Results, Shuffles
  <2>2. Interpret(m, i) = Push(Pop(m, <<k, k>>), k)
    BY <1>11 DEF Interpret, Shuffles, BinaryOp
  <2>4. <<k, k>> \in Seq(Value) /\ Width(<<k, k>>) <= Len(s)
        /\ Len(After(<<k, k>>, <<k>>, s)) <= MaxStack /\ Top(Width(<<k, k>>), s) = Spread(<<k, k>>)
        /\ StackAfter(i, s) = After(<<k, k>>, <<k>>, s) /\ LocalsAfter(i, ls) = ls
    BY <1>2, <1>3, <1>4, <2>1
  <2>5. Agrees(Push(Pop(m, <<k, k>>), k), ls, After(<<k, k>>, <<k>>, s))
    BY <1>1, <2>4, Replaced
  <2> QED BY <2>2, <2>4, <2>5
<1>12. CASE op = "shift"
  <2>1. Operands(i) = <<k, "int">> /\ Results(i) = <<k>> /\ op \notin Shuffles /\ op # "store"
    BY <1>12 DEF Operands, Results, Shuffles
  <2>2. Interpret(m, i) = Push(Pop(m, <<k, "int">>), k)
    BY <1>12 DEF Interpret, Shuffles, Shift
  <2>4. <<k, "int">> \in Seq(Value) /\ Width(<<k, "int">>) <= Len(s)
        /\ Len(After(<<k, "int">>, <<k>>, s)) <= MaxStack /\ Top(Width(<<k, "int">>), s) = Spread(<<k, "int">>)
        /\ StackAfter(i, s) = After(<<k, "int">>, <<k>>, s) /\ LocalsAfter(i, ls) = ls
    BY <1>2, <1>3, <1>4, <2>1
  <2>5. Agrees(Push(Pop(m, <<k, "int">>), k), ls, After(<<k, "int">>, <<k>>, s))
    BY <1>1, <2>4, Replaced
  <2> QED BY <2>2, <2>4, <2>5
<1>13. CASE op = "convert"
  <2>1. Operands(i) = <<k>> /\ Results(i) = <<i.to>> /\ op \notin Shuffles /\ op # "store"
    BY <1>13 DEF Operands, Results, Shuffles
  <2>2. Interpret(m, i) = Push(Pop(m, <<k>>), i.to)
    BY <1>13 DEF Interpret, Shuffles, Convert
  <2>3. i.to \in Value
    BY <1>13 DEF Code, Value, Kind
  <2>4. <<k>> \in Seq(Value) /\ Width(<<k>>) <= Len(s)
        /\ Len(After(<<k>>, <<i.to>>, s)) <= MaxStack /\ Top(Width(<<k>>), s) = Spread(<<k>>)
        /\ StackAfter(i, s) = After(<<k>>, <<i.to>>, s) /\ LocalsAfter(i, ls) = ls
    BY <1>2, <1>3, <1>4, <2>1
  <2>5. Agrees(Push(Pop(m, <<k>>), i.to), ls, After(<<k>>, <<i.to>>, s))
    BY <1>1, <2>3, <2>4, Replaced
  <2> QED BY <2>2, <2>4, <2>5
<1>14. CASE op = "compare"
  <2>1. Operands(i) = <<k, k>> /\ Results(i) = <<"int">> /\ op \notin Shuffles /\ op # "store"
    BY <1>14 DEF Operands, Results, Shuffles
  <2>2. Interpret(m, i) = Push(Pop(m, <<k, k>>), "int")
    BY <1>14 DEF Interpret, Shuffles, Convert
  <2>4. <<k, k>> \in Seq(Value) /\ Width(<<k, k>>) <= Len(s)
        /\ Len(After(<<k, k>>, <<"int">>, s)) <= MaxStack /\ Top(Width(<<k, k>>), s) = Spread(<<k, k>>)
        /\ StackAfter(i, s) = After(<<k, k>>, <<"int">>, s) /\ LocalsAfter(i, ls) = ls
    BY <1>2, <1>3, <1>4, <2>1
  <2>5. Agrees(Push(Pop(m, <<k, k>>), "int"), ls, After(<<k, k>>, <<"int">>, s))
    BY <1>1, <2>4, Replaced
  <2> QED BY <2>2, <2>4, <2>5
<1>15. CASE op = "if"
  <2>1. Operands(i) = i.args /\ Results(i) = <<>> /\ op \notin Shuffles /\ op # "store"
    BY <1>15 DEF Operands, Results, Shuffles
  <2>2. Interpret(m, i) = Pop(m, i.args)
    BY <1>15 DEF Interpret, Shuffles
  <2>4. i.args \in Seq(Value) /\ Width(i.args) <= Len(s)
        /\ Len(After(i.args, <<>>, s)) <= MaxStack /\ Top(Width(i.args), s) = Spread(i.args)
        /\ StackAfter(i, s) = After(i.args, <<>>, s) /\ LocalsAfter(i, ls) = ls
    BY <1>2, <1>3, <1>4, <2>1
  <2>5. Agrees(Pop(m, i.args), ls, After(i.args, <<>>, s))
    BY <1>1, <2>4, Consumed
  <2> QED BY <2>2, <2>4, <2>5
<1>16. CASE op = "getstatic"
  <2>1. Operands(i) = <<>> /\ Results(i) = <<k>> /\ op \notin Shuffles /\ op # "store"
    BY <1>16 DEF Operands, Results, Shuffles
  <2>2. Interpret(m, i) = Push(m, k)
    BY <1>16 DEF Interpret, Shuffles, Field
  <2>4. <<>> \in Seq(Value) /\ Width(<<>>) <= Len(s)
        /\ Len(After(<<>>, <<k>>, s)) <= MaxStack /\ Top(Width(<<>>), s) = Spread(<<>>)
        /\ StackAfter(i, s) = After(<<>>, <<k>>, s) /\ LocalsAfter(i, ls) = ls
    BY <1>2, <1>3, <1>4, <2>1
  <2>5. Agrees(Push(m, k), ls, After(<<>>, <<k>>, s))
    BY <1>1, <2>4, Produced
  <2> QED BY <2>2, <2>4, <2>5
<1>17. CASE op = "putstatic"
  <2>1. Operands(i) = <<k>> /\ Results(i) = <<>> /\ op \notin Shuffles /\ op # "store"
    BY <1>17 DEF Operands, Results, Shuffles
  <2>2. Interpret(m, i) = Pop(m, <<k>>)
    BY <1>17 DEF Interpret, Shuffles, Field
  <2>4. <<k>> \in Seq(Value) /\ Width(<<k>>) <= Len(s)
        /\ Len(After(<<k>>, <<>>, s)) <= MaxStack /\ Top(Width(<<k>>), s) = Spread(<<k>>)
        /\ StackAfter(i, s) = After(<<k>>, <<>>, s) /\ LocalsAfter(i, ls) = ls
    BY <1>2, <1>3, <1>4, <2>1
  <2>5. Agrees(Pop(m, <<k>>), ls, After(<<k>>, <<>>, s))
    BY <1>1, <2>4, Consumed
  <2> QED BY <2>2, <2>4, <2>5
<1>18. CASE op = "getfield"
  <2>1. Operands(i) = <<"ref">> /\ Results(i) = <<k>> /\ op \notin Shuffles /\ op # "store"
    BY <1>18 DEF Operands, Results, Shuffles
  <2>2. Interpret(m, i) = Push(Pop(m, <<"ref">>), k)
    BY <1>18 DEF Interpret, Shuffles, Field
  <2>4. <<"ref">> \in Seq(Value) /\ Width(<<"ref">>) <= Len(s)
        /\ Len(After(<<"ref">>, <<k>>, s)) <= MaxStack /\ Top(Width(<<"ref">>), s) = Spread(<<"ref">>)
        /\ StackAfter(i, s) = After(<<"ref">>, <<k>>, s) /\ LocalsAfter(i, ls) = ls
    BY <1>2, <1>3, <1>4, <2>1
  <2>5. Agrees(Push(Pop(m, <<"ref">>), k), ls, After(<<"ref">>, <<k>>, s))
    BY <1>1, <2>4, Replaced
  <2> QED BY <2>2, <2>4, <2>5
<1>19. CASE op = "putfield"
  <2>1. Operands(i) = <<"ref", k>> /\ Results(i) = <<>> /\ op \notin Shuffles /\ op # "store"
    BY <1>19 DEF Operands, Results, Shuffles
  <2>2. Interpret(m, i) = Pop(m, <<"ref", k>>)
    BY <1>19 DEF Interpret, Shuffles, Field
  <2>4. <<"ref", k>> \in Seq(Value) /\ Width(<<"ref", k>>) <= Len(s)
        /\ Len(After(<<"ref", k>>, <<>>, s)) <= MaxStack /\ Top(Width(<<"ref", k>>), s) = Spread(<<"ref", k>>)
        /\ StackAfter(i, s) = After(<<"ref", k>>, <<>>, s) /\ LocalsAfter(i, ls) = ls
    BY <1>2, <1>3, <1>4, <2>1
  <2>5. Agrees(Pop(m, <<"ref", k>>), ls, After(<<"ref", k>>, <<>>, s))
    BY <1>1, <2>4, Consumed
  <2> QED BY <2>2, <2>4, <2>5
<1>20. CASE op \in {"invoke", "invokeinterface"} /\ i.to = "void"
  <2>1. Operands(i) = i.args /\ Results(i) = <<>> /\ op \notin Shuffles /\ op # "store"
    BY <1>20 DEF Operands, Results, Shuffles
  <2>2. Interpret(m, i) = [m EXCEPT !.sp = @ - Width(i.args)]
    BY <1>20 DEF Interpret, Shuffles, Invoke
  <2>4. i.args \in Seq(Value) /\ Width(i.args) <= Len(s)
        /\ Len(After(i.args, <<>>, s)) <= MaxStack /\ Top(Width(i.args), s) = Spread(i.args)
        /\ StackAfter(i, s) = After(i.args, <<>>, s) /\ LocalsAfter(i, ls) = ls
    BY <1>2, <1>3, <1>4, <2>1
  <2>5. Agrees([m EXCEPT !.sp = @ - Width(i.args)], ls, After(i.args, <<>>, s))
    BY <1>1, <2>4, Consumed
  <2> QED BY <2>2, <2>4, <2>5
<1>21. CASE op \in {"invoke", "invokeinterface"} /\ i.to # "void"
  <2>1. Operands(i) = i.args /\ Results(i) = <<i.to>> /\ op \notin Shuffles /\ op # "store"
    BY <1>21 DEF Operands, Results, Shuffles
  <2>2. Interpret(m, i) = Push([m EXCEPT !.sp = @ - Width(i.args)], i.to)
    BY <1>21 DEF Interpret, Shuffles, Invoke
  <2>3. i.to \in Value
    BY <1>21 DEF Code, Value, Kind
  <2>4. i.args \in Seq(Value) /\ Width(i.args) <= Len(s)
        /\ Len(After(i.args, <<i.to>>, s)) <= MaxStack /\ Top(Width(i.args), s) = Spread(i.args)
        /\ StackAfter(i, s) = After(i.args, <<i.to>>, s) /\ LocalsAfter(i, ls) = ls
    BY <1>2, <1>3, <1>4, <2>1
  <2>5. Agrees(Push([m EXCEPT !.sp = @ - Width(i.args)], i.to), ls, After(i.args, <<i.to>>, s))
    BY <1>1, <2>3, <2>4, Replaced
  <2> QED BY <2>2, <2>4, <2>5
<1>22. CASE op = "new"
  <2>1. Operands(i) = <<>> /\ Results(i) = <<"ref">> /\ op \notin Shuffles /\ op # "store"
    BY <1>22 DEF Operands, Results, Shuffles
  <2>2. Interpret(m, i) = Push(m, "ref")
    BY <1>22 DEF Interpret, Shuffles, Allocate
  <2>4. <<>> \in Seq(Value) /\ Width(<<>>) <= Len(s)
        /\ Len(After(<<>>, <<"ref">>, s)) <= MaxStack /\ Top(Width(<<>>), s) = Spread(<<>>)
        /\ StackAfter(i, s) = After(<<>>, <<"ref">>, s) /\ LocalsAfter(i, ls) = ls
    BY <1>2, <1>3, <1>4, <2>1
  <2>5. Agrees(Push(m, "ref"), ls, After(<<>>, <<"ref">>, s))
    BY <1>1, <2>4, Produced
  <2> QED BY <2>2, <2>4, <2>5
<1>23. CASE op = "newarray"
  <2>1. Operands(i) = <<"int">> /\ Results(i) = <<"ref">> /\ op \notin Shuffles /\ op # "store"
    BY <1>23 DEF Operands, Results, Shuffles
  <2>2. Interpret(m, i) = Push(Pop(m, <<"int">>), "ref")
    BY <1>23 DEF Interpret, Shuffles, Allocate
  <2>4. <<"int">> \in Seq(Value) /\ Width(<<"int">>) <= Len(s)
        /\ Len(After(<<"int">>, <<"ref">>, s)) <= MaxStack /\ Top(Width(<<"int">>), s) = Spread(<<"int">>)
        /\ StackAfter(i, s) = After(<<"int">>, <<"ref">>, s) /\ LocalsAfter(i, ls) = ls
    BY <1>2, <1>3, <1>4, <2>1
  <2>5. Agrees(Push(Pop(m, <<"int">>), "ref"), ls, After(<<"int">>, <<"ref">>, s))
    BY <1>1, <2>4, Replaced
  <2> QED BY <2>2, <2>4, <2>5
<1>24. CASE op = "checkcast"
  <2>1. Operands(i) = <<"ref">> /\ Results(i) = <<"ref">> /\ op \notin Shuffles /\ op # "store"
    BY <1>24 DEF Operands, Results, Shuffles
  <2>2. Interpret(m, i) = Push(Pop(m, <<"ref">>), "ref")
    BY <1>24 DEF Interpret, Shuffles, Inspect
  <2>4. <<"ref">> \in Seq(Value) /\ Width(<<"ref">>) <= Len(s)
        /\ Len(After(<<"ref">>, <<"ref">>, s)) <= MaxStack /\ Top(Width(<<"ref">>), s) = Spread(<<"ref">>)
        /\ StackAfter(i, s) = After(<<"ref">>, <<"ref">>, s) /\ LocalsAfter(i, ls) = ls
    BY <1>2, <1>3, <1>4, <2>1
  <2>5. Agrees(Push(Pop(m, <<"ref">>), "ref"), ls, After(<<"ref">>, <<"ref">>, s))
    BY <1>1, <2>4, Replaced
  <2> QED BY <2>2, <2>4, <2>5
<1>25. CASE op \in {"arraylength", "instanceof"}
  <2>1. Operands(i) = <<"ref">> /\ Results(i) = <<"int">> /\ op \notin Shuffles /\ op # "store"
    BY <1>25 DEF Operands, Results, Shuffles
  <2>2. Interpret(m, i) = Push(Pop(m, <<"ref">>), "int")
    BY <1>25 DEF Interpret, Shuffles, Inspect
  <2>4. <<"ref">> \in Seq(Value) /\ Width(<<"ref">>) <= Len(s)
        /\ Len(After(<<"ref">>, <<"int">>, s)) <= MaxStack /\ Top(Width(<<"ref">>), s) = Spread(<<"ref">>)
        /\ StackAfter(i, s) = After(<<"ref">>, <<"int">>, s) /\ LocalsAfter(i, ls) = ls
    BY <1>2, <1>3, <1>4, <2>1
  <2>5. Agrees(Push(Pop(m, <<"ref">>), "int"), ls, After(<<"ref">>, <<"int">>, s))
    BY <1>1, <2>4, Replaced
  <2> QED BY <2>2, <2>4, <2>5
<1>26. CASE op = "monitor"
  <2>1. Operands(i) = <<"ref">> /\ Results(i) = <<>> /\ op \notin Shuffles /\ op # "store"
    BY <1>26 DEF Operands, Results, Shuffles
  <2>2. Interpret(m, i) = Pop(m, <<"ref">>)
    BY <1>26 DEF Interpret, Shuffles, Inspect
  <2>4. <<"ref">> \in Seq(Value) /\ Width(<<"ref">>) <= Len(s)
        /\ Len(After(<<"ref">>, <<>>, s)) <= MaxStack /\ Top(Width(<<"ref">>), s) = Spread(<<"ref">>)
        /\ StackAfter(i, s) = After(<<"ref">>, <<>>, s) /\ LocalsAfter(i, ls) = ls
    BY <1>2, <1>3, <1>4, <2>1
  <2>5. Agrees(Pop(m, <<"ref">>), ls, After(<<"ref">>, <<>>, s))
    BY <1>1, <2>4, Consumed
  <2> QED BY <2>2, <2>4, <2>5
<1>27. CASE op = "neg"
  <2>1. Operands(i) = <<k>> /\ Results(i) = <<k>> /\ op \notin Shuffles /\ op # "store"
    BY <1>27 DEF Operands, Results, Shuffles
  <2>2. Interpret(m, i) = m
    BY <1>27 DEF Interpret, Shuffles
  <2>4. <<k>> \in Seq(Value) /\ Width(<<k>>) <= Len(s)
        /\ Len(After(<<k>>, <<k>>, s)) <= MaxStack /\ Top(Width(<<k>>), s) = Spread(<<k>>)
        /\ StackAfter(i, s) = After(<<k>>, <<k>>, s) /\ LocalsAfter(i, ls) = ls
    BY <1>2, <1>3, <1>4, <2>1
  <2>5. After(<<k>>, <<k>>, s) = s
    BY <2>4, LeftAlone
  <2> QED BY <2>2, <2>4, <2>5
<1>28. CASE op \notin Shuffles \cup {"iinc", "store", "const", "ldc", "load", "arrayload", "arraystore",
                                "binary", "shift", "convert", "compare", "if", "getstatic",
                                "putstatic", "getfield", "putfield", "invoke", "invokeinterface",
                                "new", "newarray", "checkcast", "arraylength", "instanceof",
                                "monitor", "neg"}
  <2>1. Operands(i) = <<>> /\ Results(i) = <<>> /\ op \notin Shuffles /\ op # "store"
    BY <1>28 DEF Operands, Results, Shuffles, Jumps, Exits
  <2>2. Interpret(m, i) = m
    BY <1>28 DEF Interpret, Shuffles, Jumps, Exits
  <2>4. <<>> \in Seq(Value) /\ Width(<<>>) <= Len(s)
        /\ Len(After(<<>>, <<>>, s)) <= MaxStack /\ Top(Width(<<>>), s) = Spread(<<>>)
        /\ StackAfter(i, s) = After(<<>>, <<>>, s) /\ LocalsAfter(i, ls) = ls
    BY <1>2, <1>3, <1>4, <2>1
  <2>5. After(<<>>, <<>>, s) = s
    BY <2>4, LeftAlone
  <2> QED BY <2>2, <2>4, <2>5
<1> QED
  BY <1>5, <1>6, <1>7, <1>8, <1>9, <1>10, <1>11, <1>12, <1>13, <1>14, <1>15, <1>16, <1>17, <1>18, <1>19, <1>20, <1>21, <1>22, <1>23, <1>24, <1>25, <1>26, <1>27, <1>28

-----------------------------------------------------------------------------
(* What the verifier knows.  Before each instruction of the code there is  *)
(* one type of the frame, whatever path leads there: that of the stack map *)
(* frame at its position, or else the one the instruction before it leaves.*)
(* T is that type behind each of the first m instructions; the frames of   *)
(* the table are at their ends, in order.                                  *)

Frames(es, mt) == Parsed(es, mt.parameters)

Typed(t, mt) ==
  /\ t.locals \in [1..mt.locals -> Tag] /\ WholeLongs(t.locals)
  /\ t.stack \in Seq(Tag) /\ WholeLongs(t.stack) /\ Len(t.stack) <= mt.stack

Types(ls, s) == [locals |-> ls, stack |-> s]

TypesAt(frame, mt) == Types(TagsOf(frame.locals, mt.locals), Spread(frame.stack))

NextTypes(i, t) == Types(LocalsAfter(i, t.locals), StackAfter(i, t.stack))

Goes(i, t, mt) ==
  /\ Verified(i, t.locals, t.stack) /\ Len(StackAfter(i, t.stack)) <= mt.stack
  /\ i.op \notin Jumps \cup Exits

FramesAt(es, mt, cs, n) == {f \in 1..Len(es) : Frames(es, mt)[f].start = Ends(cs)[n]}

TableRight(es, mt, cs, m) ==
  /\ es \in Seq(EntryRecord)
  /\ \A f \in 1..Len(es) : /\ es[f].delta \in Nat
                           /\ \E b \in 0..m : Frames(es, mt)[f].start = Ends(cs)[b]
  /\ \A f, g \in 1..Len(es) : f < g => Frames(es, mt)[f].start < Frames(es, mt)[g].start

History(T, es, mt, cs, m) ==
  /\ \A n \in 0..m : Typed(T[n], mt)
  /\ \A n \in 0..m : \A f \in FramesAt(es, mt, cs, n) : T[n] = TypesAt(Frames(es, mt)[f], mt)
  /\ FramesAt(es, mt, cs, 0) = {} => T[0] = TypesAt(Frames(es, mt)[0], mt)
  /\ \A n \in 1..m : FramesAt(es, mt, cs, n) = {} =>
                       Goes(cs[n], T[n - 1], mt) /\ T[n] = NextTypes(cs[n], T[n - 1])

(* Where execution is.                                                     *)
Current(T, m, cs, ph, a, ls, s, mt) ==
  /\ a \in 0..Len(cs) /\ Typed(Types(ls, s), mt)
  /\ ph = "next" => a <= m /\ T[a] = Types(ls, s)
  /\ ph \in {"operands", "popped", "thrown"} => a >= 1 /\ a - 1 <= m
  /\ ph \in {"operands", "popped"} =>
       /\ CollectsBefore(cs[a]) \/ CollectsAfter(cs[a])
       /\ Goes(cs[a], T[a - 1], mt) /\ T[a - 1].locals = ls
  /\ ph = "operands" => s = T[a - 1].stack
  /\ ph = "popped" => s = Drop(Width(PoppedFirst(cs[a])), T[a - 1].stack)

Behind(T, m, es, cs, ph, a, ls, s, mt) ==
  /\ m \in Nat /\ m \in {Len(cs) - 1, Len(cs)}
  /\ TableRight(es, mt, cs, m) /\ History(T, es, mt, cs, m)
  /\ Current(T, m, cs, ph, a, ls, s, mt)

Phase == {"next", "operands", "popped", "jump", "thrown", "left"}

(* The last instruction of the code may not have been completed: its type  *)
(* is known only when execution has gone on behind it.                     *)
IInv ==
  /\ method \in Methods /\ code \in Seq(method.menu) /\ phase \in Phase
  /\ \E m \in Nat : \E T : Behind(T, m, table, code, phase, at, locals, stack, method)

LEMMA TypesParts ==
  ASSUME NEW ls, NEW s
  PROVE  Types(ls, s).locals = ls /\ Types(ls, s).stack = s
BY DEF Types

LEMMA MethodFacts ==
  ASSUME NEW mt \in Methods
  PROVE  /\ mt.locals \in Nat /\ mt.stack \in Nat \ {0} /\ mt.parameters \in Seq(Value)
         /\ Width(mt.parameters) <= mt.locals /\ mt.menu \subseteq Code
         /\ \A cs \in Seq(mt.menu) : cs \in Seq(Code)
<1>1. mt.parameters \in Seq(Kind) /\ mt.locals \in Nat /\ mt.stack \in Nat \ {0}
      /\ Width(mt.parameters) <= mt.locals
  BY BoundAssumption
<1>2. mt.parameters \in Seq(Value)
  BY <1>1 DEF Value
<1>3. mt.menu \subseteq Code
  BY MenuAssumption DEF Code
<1>4. \A S, R : S \subseteq R => \A l \in Seq(S) : l \in Seq(R)
  OBVIOUS
<1> QED
  BY <1>1, <1>2, <1>3, <1>4

LEMMA AfterFacts ==
  ASSUME NEW i \in Code, NEW s \in Seq(Tag), NEW ls, Verified(i, ls, s)
  PROVE  /\ StackAfter(i, s) \in Seq(Tag) /\ WholeLongs(StackAfter(i, s))
         /\ i.op \notin Shuffles =>
              /\ Operands(i) \in Seq(Value) /\ Width(Operands(i)) \in 0..Len(s)
              /\ Top(Width(Operands(i)), s) = Spread(Operands(i))
              /\ StackAfter(i, s) = Drop(Width(Operands(i)), s) \o Spread(Results(i))
<1>1. Operands(i) \in Seq(Value) /\ Results(i) \in Seq(Value) /\ Len(s) \in Nat
  BY OperandsFacts, ListFacts
<1>2. Width(Operands(i)) = Len(Spread(Operands(i))) /\ Width(Operands(i)) \in Nat
  BY <1>1, SpreadFacts
<1>3. WholeLongs(StackAfter(i, s))
  BY DEF Verified
<1>4. CASE i.op \in Shuffles
  <2>1. Taken(i.op) \in 1..4
    BY <1>4, LeftFacts
  <2>2. Taken(i.op) <= Len(s)
    BY <1>1, <1>4, <2>1 DEF Verified
  <2>3. Shuffled(i.op, s) \in Seq(Tag)
    BY <1>4, <2>2, ShuffledFacts
  <2> QED BY <1>3, <1>4, <2>3 DEF StackAfter
<1>5. CASE i.op \notin Shuffles
  <2>1. HasOperands(i, s) /\ StackAfter(i, s) = Drop(Width(Operands(i)), s) \o Spread(Results(i))
    BY <1>5 DEF Verified, StackAfter
  <2>2. Width(Operands(i)) \in 0..Len(s) /\ Top(Width(Operands(i)), s) = Spread(Operands(i))
    BY <1>1, <1>2, <2>1 DEF HasOperands
  <2>3. Drop(Width(Operands(i)), s) \in Seq(Tag) /\ Spread(Results(i)) \in Seq(Tag)
    BY <1>1, <1>2, DropFacts, SpreadFacts
  <2>4. \A a, b \in Seq(Tag) : a \o b \in Seq(Tag)
    OBVIOUS
  <2> QED BY <1>1, <1>3, <2>1, <2>2, <2>3, <2>4
<1> QED
  BY <1>4, <1>5

LEMMA NextTyped ==
  ASSUME NEW mt \in Methods, NEW i \in Code, NEW t, Typed(t, mt),
         Verified(i, t.locals, t.stack), Len(StackAfter(i, t.stack)) <= mt.stack
  PROVE  Typed(NextTypes(i, t), mt)
<1>1. /\ t.locals \in [1..mt.locals -> Tag] /\ WholeLongs(t.locals)
      /\ t.stack \in Seq(Tag) /\ mt.locals \in Nat
  BY MethodFacts DEF Typed
<1>2. StackAfter(i, t.stack) \in Seq(Tag) /\ WholeLongs(StackAfter(i, t.stack))
  BY <1>1, AfterFacts
<1>3. LocalsAfter(i, t.locals) \in [1..mt.locals -> Tag] /\ WholeLongs(LocalsAfter(i, t.locals))
  <2>1. CASE i.op = "store"
    <3>1. i.slot + Width(<<i.kind>>) - 1 <= mt.locals
      <4>1. Len(t.locals) = mt.locals
        BY <1>1, FunctionIsList
      <4> QED BY <2>1, <4>1 DEF Verified
    <3>2. Stored(i, t.locals) \in [1..mt.locals -> Tag] /\ WholeLongs(Stored(i, t.locals))
      BY <1>1, <3>1, StoredTypes
    <3> QED BY <2>1, <3>2 DEF LocalsAfter
  <2>2. CASE i.op # "store"
    BY <1>1, <2>2 DEF LocalsAfter
  <2> QED BY <2>1, <2>2
<1> QED
  BY <1>2, <1>3, TypesParts DEF Typed, NextTypes

LEMMA DropWhole ==
  ASSUME NEW s \in Seq(Tag), NEW n \in 0..Len(s), WholeLongs(s),
         n > 0 => s[Len(s) - n + 1] # "half"
  PROVE  Drop(n, s) \in Seq(Tag) /\ WholeLongs(Drop(n, s)) /\ Len(Drop(n, s)) <= Len(s)
<1> DEFINE L == Len(s)
           k == L - n
           d == Drop(n, s)
<1>1. L \in Nat /\ n \in 0..L /\ k \in 0..L /\ k = L - n /\ DOMAIN s = 1..L
  <2>1. L \in Nat /\ DOMAIN s = 1..L /\ n \in 0..L
    BY ListFacts
  <2> HIDE DEF L
  <2> QED BY <2>1
<1>2. d \in Seq(Tag) /\ Len(d) = k /\ \A i \in 1..k : d[i] = s[i]
  <2>1. n \in Nat /\ n <= Len(s)
    BY <1>1
  <2> QED BY <2>1, DropFacts
<1>3. n > 0 => s[k + 1] # "half"
  OBVIOUS
<1>4. \A i \in 1..L : /\ s[i] = "long" => i < L /\ s[i + 1] = "half"
                      /\ s[i] = "half" => i > 1 /\ s[i - 1] = "long"
  BY <1>1 DEF WholeLongs
<1> HIDE DEF L, k, d
<1>5. DOMAIN d = 1..k
  BY <1>2
<1>6. ASSUME NEW i \in 1..k
      PROVE  /\ d[i] = "long" => i < k /\ d[i + 1] = "half"
             /\ d[i] = "half" => i > 1 /\ d[i - 1] = "long"
  <2>1. i \in 1..L /\ d[i] = s[i]
    BY <1>1, <1>2
  <2>2. ASSUME d[i] = "long" PROVE i < k /\ d[i + 1] = "half"
    <3>1. i < L /\ s[i + 1] = "half"
      BY <1>4, <2>1, <2>2
    <3>2. i # k
      BY <1>1, <1>3, <3>1
    <3>3. i < k /\ i + 1 \in 1..k
      BY <1>1, <3>2
    <3> QED BY <1>2, <3>1, <3>3
  <2>3. ASSUME d[i] = "half" PROVE i > 1 /\ d[i - 1] = "long"
    <3>1. i > 1 /\ s[i - 1] = "long"
      BY <1>4, <2>1, <2>3
    <3>2. i - 1 \in 1..k
      BY <1>1, <3>1
    <3> QED BY <1>2, <3>1, <3>2
  <2> QED BY <2>2, <2>3
<1>7. WholeLongs(d)
  BY <1>2, <1>5, <1>6 DEF WholeLongs
<1>8. Len(d) <= L
  BY <1>1, <1>2
<1> QED
  BY <1>2, <1>7, <1>8 DEF d, L
LEMMA NoFrameAhead ==
  ASSUME NEW mt, NEW cs \in Seq(Code), NEW m \in Nat, NEW n \in 0..Len(cs), m < n,
         NEW es, TableRight(es, mt, cs, m)
  PROVE  FramesAt(es, mt, cs, n) = {}
<1> SUFFICES ASSUME NEW f \in 1..Len(es), Frames(es, mt)[f].start = Ends(cs)[n] PROVE FALSE
  BY DEF FramesAt
<1>1. PICK b \in 0..m : Frames(es, mt)[f].start = Ends(cs)[b]
  BY DEF TableRight
<1>2. b \in 0..Len(cs) /\ b < n
  BY ListFacts
<1>3. b < n => Ends(cs)[b] < Ends(cs)[n]
  BY <1>2, EndsIncrease
<1>4. Ends(cs)[n] \in Nat
  BY EndsFacts
<1> QED
  BY <1>1, <1>2, <1>3, <1>4

LEMMA HistoryOfMore ==
  ASSUME NEW mt, NEW cs \in Seq(Code), NEW i \in Code, NEW m \in Nat, m <= Len(cs),
         NEW es, NEW T, TableRight(es, mt, cs, m), History(T, es, mt, cs, m)
  PROVE  TableRight(es, mt, Append(cs, i), m) /\ History(T, es, mt, Append(cs, i), m)
<1> DEFINE more == Append(cs, i)
<1>1. \A n \in 0..m : Ends(more)[n] = Ends(cs)[n]
  <2>1. \A n \in 0..m : n \in 0..Len(cs)
    BY ListFacts
  <2> QED BY <2>1, EndsOfMore
<1>2. \A n \in 1..m : more[n] = cs[n]
  <2>1. \A n \in 1..m : n \in 1..Len(cs)
    BY ListFacts
  <2> QED BY <2>1
<1> HIDE DEF more
<1>3. \A n \in 0..m : FramesAt(es, mt, more, n) = FramesAt(es, mt, cs, n)
  BY <1>1 DEF FramesAt
<1>4. TableRight(es, mt, more, m)
  BY <1>1 DEF TableRight
<1>5. History(T, es, mt, more, m)
  <2>1. \A n \in 0..m : Typed(T[n], mt)
    BY DEF History
  <2>2. \A n \in 0..m : \A f \in FramesAt(es, mt, more, n) : T[n] = TypesAt(Frames(es, mt)[f], mt)
    BY <1>3 DEF History
  <2>3. FramesAt(es, mt, more, 0) = {} => T[0] = TypesAt(Frames(es, mt)[0], mt)
    BY <1>3 DEF History
  <2>4. \A n \in 1..m : FramesAt(es, mt, more, n) = {} =>
                          Goes(more[n], T[n - 1], mt) /\ T[n] = NextTypes(more[n], T[n - 1])
    <3>1. \A n \in 1..m : n \in 0..m
      OBVIOUS
    <3> QED BY <1>2, <1>3, <3>1 DEF History
  <2> QED BY <2>1, <2>2, <2>3, <2>4 DEF History
<1> QED
  BY <1>4, <1>5 DEF more

Arrived(es, mt, cs, n, tags, ls, s) ==
  /\ \A f \in FramesAt(es, mt, cs, n) : s = Spread(Frames(es, mt)[f].stack)
  /\ ls = IF FramesAt(es, mt, cs, n) = {} THEN tags
          ELSE TagsOf(Frames(es, mt)[CHOOSE f \in FramesAt(es, mt, cs, n) : TRUE].locals, mt.locals)

Continues(U, k, es, mt, cs, n, ls, s) ==
  /\ k \in {Len(cs) - 1, Len(cs)} /\ n <= k
  /\ TableRight(es, mt, cs, k) /\ History(U, es, mt, cs, k)
  /\ U[n] = Types(ls, s) /\ Typed(Types(ls, s), mt)

(* The types found behind instruction n are those of every path to it.     *)
LEMMA Arrival ==
  ASSUME NEW mt \in Methods, NEW cs \in Seq(Code), NEW m \in Nat, m \in {Len(cs) - 1, Len(cs)},
         NEW es, NEW T, TableRight(es, mt, cs, m), History(T, es, mt, cs, m),
         NEW n \in 1..Len(cs), n <= m + 1, Goes(cs[n], T[n - 1], mt),
         NEW ls, NEW s, s = StackAfter(cs[n], T[n - 1].stack),
         Arrived(es, mt, cs, n, LocalsAfter(cs[n], T[n - 1].locals), ls, s)
  PROVE  \E k \in Nat : \E U : Continues(U, k, es, mt, cs, n, ls, s)
<1>0. /\ \A f \in FramesAt(es, mt, cs, n) : s = Spread(Frames(es, mt)[f].stack)
      /\ ls = IF FramesAt(es, mt, cs, n) = {} THEN LocalsAfter(cs[n], T[n - 1].locals)
              ELSE TagsOf(Frames(es, mt)[CHOOSE f \in FramesAt(es, mt, cs, n) : TRUE].locals, mt.locals)
  BY DEF Arrived
<1> DEFINE here == FramesAt(es, mt, cs, n)
<1>1. Len(cs) \in Nat /\ cs[n] \in Code /\ n - 1 \in 0..m
  BY ListFacts
<1>2. Typed(T[n - 1], mt)
  BY <1>1 DEF History
<1>3. Typed(NextTypes(cs[n], T[n - 1]), mt)
  BY <1>1, <1>2, NextTyped DEF Goes
<1>4. CASE n <= m
  <2>1. n \in 0..m /\ n \in 1..m
    BY <1>4
  <2>2. CASE here = {}
    <3>1. T[n] = NextTypes(cs[n], T[n - 1])
      BY <2>1, <2>2 DEF History
    <3>2. T[n] = Types(ls, s)
      BY <1>0, <2>2, <3>1 DEF NextTypes
    <3> QED BY <1>4, <2>1, <3>2 DEF History, Continues
  <2>3. CASE here # {}
    <3> DEFINE f == CHOOSE f \in here : TRUE
    <3>1. f \in here
      BY <2>3
    <3>2. T[n] = TypesAt(Frames(es, mt)[f], mt) /\ s = Spread(Frames(es, mt)[f].stack)
      BY <1>0, <2>1, <3>1 DEF History
    <3>3. T[n] = Types(ls, s)
      BY <1>0, <2>3, <3>2 DEF TypesAt
    <3> QED BY <1>4, <2>1, <3>3 DEF History, Continues
  <2> QED BY <2>2, <2>3
<1>5. CASE n = m + 1
  <2> DEFINE U == [j \in 0..n |-> IF j = n THEN NextTypes(cs[n], T[n - 1]) ELSE T[j]]
  <2>1. here = {}
    <3>1. n \in 0..Len(cs) /\ m < n
      BY <1>1, <1>5
    <3> QED BY <3>1, NoFrameAhead
  <2>2. n \in Nat /\ n \in {Len(cs) - 1, Len(cs)} /\ n <= n
    BY <1>1, <1>5
  <2>3. TableRight(es, mt, cs, n)
    <3>1. \A b \in 0..m : b \in 0..n
      BY <1>5
    <3> QED BY <3>1 DEF TableRight
  <2>4. \A j \in 0..n : j \in 0..m \/ j = n
    BY <1>5
  <2>5. U[n] = NextTypes(cs[n], T[n - 1]) /\ \A j \in 0..m : U[j] = T[j]
    <3>1. \A j \in 0..m : j \in 0..n /\ j # n
      BY <1>5
    <3> QED BY <2>2, <3>1
  <2>6. U[n] = Types(ls, s)
    BY <1>0, <2>1, <2>5 DEF NextTypes
  <2> HIDE DEF U
  <2>7. History(U, es, mt, cs, n)
    <3>1. \A j \in 0..n : Typed(U[j], mt)
      BY <1>3, <2>4, <2>5 DEF History
    <3>2. \A j \in 0..n : \A f \in FramesAt(es, mt, cs, j) : U[j] = TypesAt(Frames(es, mt)[f], mt)
      BY <2>1, <2>4, <2>5 DEF History
    <3>3. FramesAt(es, mt, cs, 0) = {} => U[0] = TypesAt(Frames(es, mt)[0], mt)
      <4>1. 0 \in 0..m
        OBVIOUS
      <4> QED BY <2>5, <4>1 DEF History
    <3>4. ASSUME NEW j \in 1..n, FramesAt(es, mt, cs, j) = {}
          PROVE  Goes(cs[j], U[j - 1], mt) /\ U[j] = NextTypes(cs[j], U[j - 1])
      <4>1. j - 1 \in 0..m /\ U[j - 1] = T[j - 1]
        <5>1. j - 1 \in 0..m
          BY <1>5
        <5> QED BY <2>5, <5>1
      <4>2. CASE j = n
        BY <2>5, <4>1, <4>2
      <4>3. CASE j # n
        <5>1. j \in 1..m /\ j \in 0..m
          BY <1>5, <4>3
        <5> QED BY <2>5, <3>4, <4>1, <5>1 DEF History
      <4> QED BY <4>2, <4>3
    <3> QED BY <3>1, <3>2, <3>3, <3>4 DEF History
  <2>8. Typed(Types(ls, s), mt)
    BY <1>3, <2>5, <2>6
  <2> QED BY <2>2, <2>3, <2>6, <2>7, <2>8 DEF Continues
<1> QED
  BY <1>4, <1>5
-----------------------------------------------------------------------------
(* The steps. *)

LEMMA InvParts ==
  ASSUME IInv
  PROVE  /\ method \in Methods /\ code \in Seq(method.menu) /\ code \in Seq(Code)
         /\ phase \in Phase /\ at \in 0..Len(code) /\ Len(code) \in Nat
         /\ Typed(Types(locals, stack), method)
         /\ table \in Seq(EntryRecord) /\ DOMAIN table = 1..Len(table)
<1>1. method \in Methods /\ code \in Seq(method.menu) /\ phase \in Phase
  BY DEF IInv
<1>2. code \in Seq(Code)
  BY <1>1, MethodFacts
<1>3. PICK m \in Nat : \E T : Behind(T, m, table, code, phase, at, locals, stack, method)
  BY DEF IInv
<1>4. /\ at \in 0..Len(code) /\ Typed(Types(locals, stack), method)
      /\ table \in Seq(EntryRecord)
  BY <1>3 DEF Behind, Current, TableRight
<1> QED
  BY <1>1, <1>2, <1>4, ListFacts

Fetched(T, m, cs, i) ==
  /\ at' = at + 1 /\ cs \in Seq(method.menu) /\ cs \in Seq(Code) /\ Len(cs) \in Nat
  /\ at + 1 \in 1..Len(cs) /\ cs[at + 1] = i /\ i \in Code
  /\ m \in {Len(cs) - 1, Len(cs)} /\ at \in 0..m /\ T[at] = Types(locals, stack)
  /\ TableRight(table, method, cs, m) /\ History(T, table, method, cs, m)
  /\ Verified(i, locals, stack) /\ Len(StackAfter(i, stack)) <= method.stack
  /\ {f \in DOMAIN table : at + 1 <= Len(code) /\ StackMap[f].start = End(at + 1)}
       = FramesAt(table, method, cs, at + 1)

LEMMA FetchFacts ==
  ASSUME IInv, NEW i \in method.menu, Fetch(i)
  PROVE  \E m \in Nat : \E T : Fetched(T, m, code', i)
<1>1. /\ method \in Methods /\ code \in Seq(method.menu) /\ code \in Seq(Code)
      /\ at \in 0..Len(code) /\ Len(code) \in Nat /\ DOMAIN table = 1..Len(table)
  BY InvParts
<1>2. i \in Code
  BY <1>1, MethodFacts
<1>3. PICK m \in Nat : \E T : Behind(T, m, table, code, phase, at, locals, stack, method)
  BY DEF IInv
<1>4. PICK T : Behind(T, m, table, code, phase, at, locals, stack, method)
  BY <1>3
<1>5. /\ m \in {Len(code) - 1, Len(code)} /\ TableRight(table, method, code, m)
      /\ History(T, table, method, code, m) /\ at <= m /\ T[at] = Types(locals, stack)
  BY <1>4 DEF Behind, Current, Fetch
<1>6. at \in 0..m
  BY <1>1, <1>5
<1>7. /\ at' = at + 1 /\ Verified(i, locals, stack) /\ Len(StackAfter(i, stack)) <= method.stack
  BY DEF Fetch, MaxStack
<1>8. StackMap = Frames(table, method) /\ End(at + 1) = Ends(code)[at + 1]
  BY DEF StackMap, Frames, End
<1>9. CASE at < Len(code)
  <2>1. code' = code /\ i = code[at + 1]
    BY <1>9 DEF Fetch
  <2>2. at + 1 \in 1..Len(code)
    BY <1>1, <1>9
  <2>3. {f \in DOMAIN table : at + 1 <= Len(code) /\ StackMap[f].start = End(at + 1)}
          = FramesAt(table, method, code, at + 1)
    BY <1>1, <1>8, <2>2 DEF FramesAt
  <2> QED BY <1>1, <1>2, <1>5, <1>6, <1>7, <2>1, <2>2, <2>3 DEF Fetched
<1>10. CASE ~(at < Len(code))
  <2> DEFINE more == Append(code, i)
  <2>1. code' = more /\ at = Len(code) /\ m = Len(code)
    BY <1>1, <1>5, <1>10 DEF Fetch
  <2>2. /\ more \in Seq(method.menu) /\ more \in Seq(Code) /\ Len(more) = Len(code) + 1
        /\ more[Len(code) + 1] = i
    BY <1>1, <1>2
  <2>3. TableRight(table, method, more, m) /\ History(T, table, method, more, m)
    BY <1>1, <1>2, <1>5, <2>1, HistoryOfMore
  <2> HIDE DEF more
  <2>4. at + 1 \in 1..Len(more) /\ m = Len(more) - 1 /\ Len(more) \in Nat /\ at + 1 \in 0..Len(more)
        /\ m < at + 1
    BY <1>1, <2>1, <2>2
  <2>5. FramesAt(table, method, more, at + 1) = {}
    BY <2>2, <2>3, <2>4, NoFrameAhead
  <2>6. ~(at + 1 <= Len(code))
    BY <1>1, <2>1
  <2> QED BY <1>2, <1>5, <1>6, <1>7, <2>1, <2>2, <2>3, <2>4, <2>5, <2>6 DEF Fetched
<1> QED
  BY <1>9, <1>10

LEMMA ArriveFacts ==
  ASSUME NEW cs, NEW n, NEW tags, NEW s, Arrive(n, tags, s),
         {f \in DOMAIN table : n <= Len(code) /\ StackMap[f].start = End(n)}
           = FramesAt(table, method, cs, n)
  PROVE  stack' = s /\ Arrived(table, method, cs, n, tags, locals', s)
<1> DEFINE here == {f \in DOMAIN table : n <= Len(code) /\ StackMap[f].start = End(n)}
<1>1. StackMap = Frames(table, method)
  BY DEF StackMap, Frames
<1>2. /\ \A f \in here : s = Spread(StackMap[f].stack)
      /\ stack' = s
      /\ locals' = IF here = {} THEN tags
                   ELSE TagsOf(StackMap[CHOOSE f \in here : TRUE].locals, method.locals)
  BY DEF Arrive, Fits, MaxLocals
<1>3. here = FramesAt(table, method, cs, n)
  OBVIOUS
<1> HIDE DEF here
<1> QED
  BY <1>1, <1>2, <1>3 DEF Arrived

LEMMA SimpleStep ==
  ASSUME IInv, Simple
  PROVE  IInv'
<1>1. PICK i \in method.menu :
        /\ Fetch(i) /\ i.op \notin Jumps \cup Exits
        /\ Arrive(at + 1, LocalsAfter(i, locals), StackAfter(i, stack))
        /\ UNCHANGED <<table, method, phase>>
  BY DEF Simple
<1>2. PICK m \in Nat : \E T : Fetched(T, m, code', i)
  BY <1>1, FetchFacts
<1>3. PICK T : Fetched(T, m, code', i)
  BY <1>2
<1> DEFINE cs == code'
           n == at + 1
<1>4. method \in Methods /\ phase = "next"
  BY <1>1, InvParts DEF Fetch
<1>5. /\ n - 1 = at /\ n \in 1..Len(cs) /\ n <= m + 1 /\ cs[n] = i
      /\ T[n - 1] = Types(locals, stack) /\ cs \in Seq(Code)
  BY <1>3 DEF Fetched
<1>6. Goes(cs[n], T[n - 1], method)
  BY <1>1, <1>3, <1>5, TypesParts DEF Goes, Fetched
<1>7. /\ stack' = StackAfter(i, stack)
      /\ Arrived(table, method, cs, n, LocalsAfter(i, locals), locals', StackAfter(i, stack))
  BY <1>1, <1>3, ArriveFacts DEF Fetched
<1> DEFINE lsa == locals'
           sa == stack'
<1>8. /\ sa = StackAfter(cs[n], T[n - 1].stack)
      /\ Arrived(table, method, cs, n, LocalsAfter(cs[n], T[n - 1].locals), lsa, sa)
  BY <1>5, <1>7, TypesParts
<1>9. /\ m \in {Len(cs) - 1, Len(cs)} /\ TableRight(table, method, cs, m)
      /\ History(T, table, method, cs, m)
  BY <1>3 DEF Fetched
<1> HIDE DEF cs, n, lsa, sa
<1>10. \E k \in Nat : \E U : Continues(U, k, table, method, cs, n, lsa, sa)
  BY <1>4, <1>5, <1>6, <1>8, <1>9, Arrival
<1>11. PICK k \in Nat : \E U : Continues(U, k, table, method, cs, n, lsa, sa)
  BY <1>10
<1>12. PICK U : Continues(U, k, table, method, cs, n, lsa, sa)
  BY <1>11
<1>13. n \in 0..Len(cs)
  BY <1>5
<1>14. Behind(U, k, table, cs, "next", n, lsa, sa, method)
  BY <1>12, <1>13 DEF Behind, Current, Continues
<1>15. /\ table' = table /\ method' = method /\ phase' = "next" /\ at' = n /\ cs \in Seq(method.menu)
  BY <1>1, <1>3, <1>4 DEF Fetched, n, cs
<1>16. \E j \in Nat : \E V : Behind(V, j, table', code', phase', at', locals', stack', method')
  BY <1>14, <1>15 DEF cs, lsa, sa
<1> QED
  BY <1>4, <1>15, <1>16 DEF IInv, Phase, cs

LEMMA CollectsFacts ==
  ASSUME NEW i, CollectsBefore(i) \/ CollectsAfter(i)
  PROVE  i.op \notin Jumps \cup Exits \cup Shuffles \cup {"store"}
BY DEF CollectsBefore, CollectsAfter, Jumps, Exits, Shuffles

LEMMA TwoJoined ==
  ASSUME NEW S, NEW a \in S, NEW b \in S
  PROVE  <<a>> \o <<b>> = <<a, b>>
<1> DEFINE c == <<a>> \o <<b>>
           d == <<a, b>>
<1>1. c \in Seq(S) /\ Len(c) = 2 /\ c[1] = a /\ c[2] = b
  OBVIOUS
<1>2. d \in Seq(S) /\ Len(d) = 2 /\ d[1] = a /\ d[2] = b
  OBVIOUS
<1> HIDE DEF c, d
<1>3. \A i \in 1..Len(c) : c[i] = d[i]
  BY <1>1, <1>2
<1>4. c = d
  BY <1>1, <1>2, <1>3, SameList
<1> QED
  BY <1>4 DEF c, d

LEMMA WidthOfFew ==
  /\ Width(<<"int">>) = 1 /\ Width(<<"ref", "int">>) = 2
  /\ Spread(<<"ref", "int">>) = <<"ref", "int">>
<1>1. "ref" \in Value /\ "int" \in Value
  BY DEF Value, Kind
<1>2. Slots("ref") = <<"ref">> /\ Slots("int") = <<"int">>
  BY DEF Slots
<1>3. Spread(<<"int">>) = <<"int">>
  BY <1>1, <1>2, SpreadOfFew
<1>4. Spread(<<"ref", "int">>) = <<"ref">> \o <<"int">>
  <2>1. Spread(<<"ref", "int">>) = Slots("ref") \o Slots("int")
    BY <1>1, SpreadOfFew
  <2> QED BY <1>2, <2>1
<1>5. <<"ref">> \o <<"int">> = <<"ref", "int">>
  BY <1>1, TwoJoined
<1>6. Len(<<"int">>) = 1 /\ Len(<<"ref", "int">>) = 2
  OBVIOUS
<1> QED
  BY <1>3, <1>4, <1>5, <1>6 DEF Width

LEMMA DroppedTwice ==
  ASSUME NEW s \in Seq(Tag), NEW w \in Nat, NEW n \in 0..Len(s), w <= n
  PROVE  Drop(n - w, Drop(w, s)) = Drop(n, s)
<1> DEFINE L == Len(s)
           a == Drop(w, s)
           b == Drop(n - w, a)
           c == Drop(n, s)
<1>1. L \in Nat /\ n \in Nat /\ n <= L /\ w \in Nat /\ w <= n /\ w <= L /\ n - w \in Nat
  <2>1. L \in Nat /\ n \in 0..L
    BY ListFacts
  <2> HIDE DEF L
  <2> QED BY <2>1
<1>2. a \in Seq(Tag) /\ Len(a) = L - w /\ \A i \in 1..L - w : a[i] = s[i]
  BY <1>1, DropFacts
<1>3. c \in Seq(Tag) /\ Len(c) = L - n /\ \A i \in 1..L - n : c[i] = s[i]
  BY <1>1, DropFacts
<1> HIDE DEF a, c, L
<1>4. n - w <= Len(a) /\ Len(a) - (n - w) = L - n
  BY <1>1, <1>2
<1>5. b \in Seq(Tag) /\ Len(b) = Len(a) - (n - w) /\ \A i \in 1..Len(a) - (n - w) : b[i] = a[i]
  BY <1>1, <1>2, <1>4, DropFacts
<1> HIDE DEF b
<1>6. Len(b) = L - n /\ \A i \in 1..L - n : b[i] = a[i]
  BY <1>4, <1>5
<1>7. \A i \in 1..L - n : i \in 1..L - w
  BY <1>1
<1>8. \A i \in 1..Len(b) : b[i] = c[i]
  BY <1>2, <1>3, <1>6, <1>7
<1>9. b = c
  <2>1. Len(b) = Len(c)
    BY <1>3, <1>6
  <2> QED BY <1>3, <1>5, <1>8, <2>1, SameList, Zenon
<1> QED
  BY <1>9 DEF a, b, c

LEMMA DroppedOperands ==
  ASSUME NEW s \in Seq(Tag), NEW ks \in Seq(Value), WholeLongs(s), Width(ks) \in 0..Len(s),
         Top(Width(ks), s) = Spread(ks)
  PROVE  WholeLongs(Drop(Width(ks), s))
<1> DEFINE n == Width(ks)
           need == Spread(ks)
<1>1. n \in 0..Len(s) /\ Len(s) \in Nat /\ n \in Nat /\ DOMAIN need = 1..n /\ WholeLongs(need)
  BY SpreadFacts, SpreadWhole, ListFacts
<1>2. Top(n, s) = need
  OBVIOUS
<1>3. \A i \in 1..n : Top(n, s)[i] = s[Len(s) - n + i]
  BY <1>1, TopFacts
<1> HIDE DEF n, need
<1>4. ASSUME n > 0 PROVE s[Len(s) - n + 1] # "half"
  <2>1. 1 \in DOMAIN need
    BY <1>1, <1>4
  <2>2. need[1] # "half"
    <3>1. WholeLongs(need)
      BY <1>1
    <3>2. need[1] = "half" => 1 > 1
      BY <2>1, <3>1 DEF WholeLongs
    <3> QED BY <3>2
  <2>3. 1 \in 1..n
    BY <1>1, <1>4
  <2> QED BY <1>2, <1>3, <2>2, <2>3
<1>5. WholeLongs(Drop(n, s))
  BY <1>1, <1>4, DropWhole
<1> QED
  BY <1>5 DEF n

LEMMA PoppedFacts ==
  ASSUME NEW i \in Code, NEW s \in Seq(Tag), NEW ls, Verified(i, ls, s), WholeLongs(s),
         CollectsBefore(i) \/ CollectsAfter(i)
  PROVE  /\ Width(PoppedFirst(i)) \in 0..Len(s)
         /\ Drop(Width(PoppedFirst(i)), s) \in Seq(Tag)
         /\ WholeLongs(Drop(Width(PoppedFirst(i)), s))
         /\ Len(Drop(Width(PoppedFirst(i)), s)) <= Len(s)
         /\ Drop(Width(Operands(i)) - Width(PoppedFirst(i)), Drop(Width(PoppedFirst(i)), s))
              \o Spread(Results(i)) = StackAfter(i, s)
<1> DEFINE o == Width(Operands(i))
           w == Width(PoppedFirst(i))
<1>1. /\ Operands(i) \in Seq(Value) /\ o \in 0..Len(s) /\ Top(o, s) = Spread(Operands(i))
      /\ StackAfter(i, s) = Drop(o, s) \o Spread(Results(i)) /\ Len(s) \in Nat
  BY CollectsFacts, AfterFacts, ListFacts
<1>2. CASE i.op = "arrayload"
  <2>1. Operands(i) = <<"ref", "int">> /\ PoppedFirst(i) = <<"int">>
    BY <1>2 DEF Operands, PoppedFirst
  <2>2. o = 2 /\ w = 1 /\ Top(2, s) = <<"ref", "int">>
    BY <1>1, <2>1, WidthOfFew
  <2> HIDE DEF o, w
  <2>3. w \in 0..Len(s) /\ w <= o /\ 2 \in 0..Len(s) /\ 2 \in 1..2 /\ Len(s) - 2 + 2 = Len(s)
        /\ Len(s) - 1 + 1 = Len(s) /\ 1 \in 0..Len(s) /\ w \in Nat
    BY <1>1, <2>2
  <2>4. s[Len(s)] = "int"
    <3>1. Top(2, s)[2] = s[Len(s) - 2 + 2]
      BY <2>3, TopFacts
    <3> QED BY <2>2, <2>3, <3>1
  <2>5. Drop(1, s) \in Seq(Tag) /\ WholeLongs(Drop(1, s)) /\ Len(Drop(1, s)) <= Len(s)
    BY <2>3, <2>4, DropWhole
  <2>6. Drop(o - w, Drop(w, s)) = Drop(o, s)
    BY <1>1, <2>3, DroppedTwice
  <2> QED BY <1>1, <2>2, <2>3, <2>5, <2>6 DEF o, w
<1>3. CASE i.op # "arrayload"
  <2>1. w = o
    BY <1>3 DEF PoppedFirst
  <2>2. w \in 0..Len(s) /\ w \in Nat /\ w <= o
    <3> HIDE DEF o, w
    <3> QED BY <1>1, <2>1
  <2>3. WholeLongs(Drop(o, s))
    BY <1>1, DroppedOperands
  <2> HIDE DEF o, w
  <2>4. Drop(o, s) \in Seq(Tag) /\ Len(Drop(o, s)) = Len(s) - o
    <3>1. o \in Nat /\ o <= Len(s)
      BY <1>1
    <3> QED BY <3>1, DropFacts
  <2>5. Len(Drop(o, s)) <= Len(s)
    BY <1>1, <2>4
  <2>6. Drop(o - w, Drop(w, s)) = Drop(o, s)
    BY <1>1, <2>2, DroppedTwice
  <2> QED BY <1>1, <2>1, <2>2, <2>3, <2>4, <2>5, <2>6 DEF o, w
<1> QED
  BY <1>2, <1>3

LEMMA BeginStep ==
  ASSUME IInv, Begin
  PROVE  IInv'
<1>1. PICK i \in method.menu :
        /\ Fetch(i) /\ (CollectsBefore(i) \/ CollectsAfter(i))
        /\ phase' = "operands" /\ UNCHANGED <<table, method, locals, stack>>
  BY DEF Begin
<1>2. PICK m \in Nat : \E T : Fetched(T, m, code', i)
  BY <1>1, FetchFacts
<1>3. PICK T : Fetched(T, m, code', i)
  BY <1>2
<1>4. method \in Methods /\ Typed(Types(locals, stack), method)
  BY InvParts
<1> DEFINE cs == code'
           n == at + 1
<1>5. /\ n - 1 = at /\ n \in 1..Len(cs) /\ n \in 0..Len(cs) /\ n >= 1 /\ n - 1 <= m /\ cs[n] = i
      /\ T[n - 1] = Types(locals, stack) /\ cs \in Seq(method.menu) /\ at' = n
      /\ m \in {Len(cs) - 1, Len(cs)} /\ TableRight(table, method, cs, m)
      /\ History(T, table, method, cs, m)
  BY <1>3 DEF Fetched
<1>6. Goes(cs[n], T[n - 1], method) /\ T[n - 1].locals = locals /\ T[n - 1].stack = stack
  BY <1>1, <1>3, <1>5, CollectsFacts, TypesParts DEF Goes, Fetched
<1> HIDE DEF cs, n
<1>7. Behind(T, m, table, cs, "operands", n, locals, stack, method)
  BY <1>1, <1>4, <1>5, <1>6 DEF Behind, Current
<1>8. /\ table' = table /\ method' = method /\ locals' = locals /\ stack' = stack
  BY <1>1
<1>9. \E j \in Nat : \E V : Behind(V, j, table', code', phase', at', locals', stack', method')
  BY <1>1, <1>5, <1>7, <1>8 DEF cs
<1> QED
  BY <1>1, <1>4, <1>5, <1>8, <1>9 DEF IInv, Phase, cs

LEMMA PopOperandsStep ==
  ASSUME IInv, PopOperands
  PROVE  IInv'
<1>1. /\ method \in Methods /\ code \in Seq(method.menu) /\ code \in Seq(Code)
      /\ at \in 0..Len(code) /\ Typed(Types(locals, stack), method)
  BY InvParts
<1>2. PICK m \in Nat : \E T : Behind(T, m, table, code, phase, at, locals, stack, method)
  BY DEF IInv
<1>3. PICK T : Behind(T, m, table, code, phase, at, locals, stack, method)
  BY <1>2
<1>4. /\ phase = "operands" /\ phase' = "popped"
      /\ stack' = Drop(Width(PoppedFirst(code[at])), stack)
      /\ UNCHANGED <<code, table, method, at, locals>>
  BY DEF PopOperands
<1> DEFINE i == code[at]
<1>5. /\ at >= 1 /\ at - 1 <= m /\ Goes(i, T[at - 1], method) /\ T[at - 1].locals = locals
      /\ stack = T[at - 1].stack /\ (CollectsBefore(i) \/ CollectsAfter(i))
      /\ m \in {Len(code) - 1, Len(code)} /\ TableRight(table, method, code, m)
      /\ History(T, table, method, code, m)
  BY <1>3, <1>4 DEF Behind, Current
<1>6. i \in Code
  BY <1>1, <1>5
<1>7. /\ stack \in Seq(Tag) /\ WholeLongs(stack) /\ Len(stack) <= method.stack
      /\ locals \in [1..method.locals -> Tag] /\ WholeLongs(locals)
  BY <1>1, TypesParts DEF Typed
<1>8. Verified(i, locals, stack)
  BY <1>5 DEF Goes
<1> HIDE DEF i
<1>9. stack' \in Seq(Tag) /\ WholeLongs(stack') /\ Len(stack') <= Len(stack)
  <2>1. stack' = Drop(Width(PoppedFirst(i)), stack)
    BY <1>4 DEF i
  <2> QED BY <1>5, <1>6, <1>7, <1>8, <2>1, PoppedFacts
<1>10. Len(stack') <= method.stack
  <2>1. Len(stack') \in Nat /\ Len(stack) \in Nat /\ method.stack \in Nat
    BY <1>1, <1>7, <1>9, ListFacts, MethodFacts
  <2> QED BY <1>7, <1>9, <2>1
<1>11. Typed(Types(locals, stack'), method)
  BY <1>7, <1>9, <1>10, TypesParts DEF Typed
<1>12. Behind(T, m, table, code, "popped", at, locals, stack', method)
  BY <1>1, <1>4, <1>5, <1>11 DEF Behind, Current, i
<1> QED
  BY <1>1, <1>4, <1>12 DEF IInv, Phase

LEMMA CompleteStep ==
  ASSUME IInv, Complete
  PROVE  IInv'
<1> DEFINE i == code[at]
           rest == Width(Operands(i)) - Width(PoppedFirst(i))
           s == Drop(rest, stack) \o Spread(Results(i))
<1>1. /\ method \in Methods /\ code \in Seq(method.menu) /\ code \in Seq(Code)
      /\ at \in 0..Len(code) /\ Len(code) \in Nat /\ DOMAIN table = 1..Len(table)
  BY InvParts
<1>2. PICK m \in Nat : \E T : Behind(T, m, table, code, phase, at, locals, stack, method)
  BY DEF IInv
<1>3. PICK T : Behind(T, m, table, code, phase, at, locals, stack, method)
  BY <1>2
<1>4. /\ phase = "popped" /\ phase' = "next" /\ Arrive(at, locals, s)
      /\ UNCHANGED <<code, table, method, at>>
  BY DEF Complete
<1>5. /\ at >= 1 /\ at - 1 <= m /\ Goes(i, T[at - 1], method) /\ T[at - 1].locals = locals
      /\ stack = Drop(Width(PoppedFirst(i)), T[at - 1].stack)
      /\ (CollectsBefore(i) \/ CollectsAfter(i))
      /\ m \in {Len(code) - 1, Len(code)} /\ TableRight(table, method, code, m)
      /\ History(T, table, method, code, m)
  BY <1>3, <1>4 DEF Behind, Current
<1>6. at \in 1..Len(code) /\ at - 1 \in 0..m /\ at <= m + 1 /\ i \in Code
  BY <1>1, <1>5
<1>7. T[at - 1].stack \in Seq(Tag) /\ WholeLongs(T[at - 1].stack)
  BY <1>5, <1>6 DEF History, Typed
<1>8. s = StackAfter(i, T[at - 1].stack)
  <2>1. Verified(i, locals, T[at - 1].stack)
    BY <1>5 DEF Goes
  <2> QED BY <1>5, <1>6, <1>7, <2>1, PoppedFacts
<1>9. LocalsAfter(i, T[at - 1].locals) = locals
  BY <1>5, CollectsFacts DEF LocalsAfter
<1> HIDE DEF s, rest
<1>10. {f \in DOMAIN table : at <= Len(code) /\ StackMap[f].start = End(at)}
         = FramesAt(table, method, code, at)
  <2>1. StackMap = Frames(table, method) /\ End(at) = Ends(code)[at]
    BY DEF StackMap, Frames, End
  <2> QED BY <1>1, <2>1 DEF FramesAt
<1>11. stack' = s /\ Arrived(table, method, code, at, locals, locals', s)
  BY <1>4, <1>10, ArriveFacts
<1> DEFINE lsa == locals'
           sa == stack'
<1>12. /\ sa = StackAfter(code[at], T[at - 1].stack)
       /\ Arrived(table, method, code, at, LocalsAfter(code[at], T[at - 1].locals), lsa, sa)
  BY <1>8, <1>9, <1>11
<1>13. Goes(code[at], T[at - 1], method)
  BY <1>5
<1> HIDE DEF lsa, sa, i
<1>14. \E k \in Nat : \E U : Continues(U, k, table, method, code, at, lsa, sa)
  BY <1>1, <1>5, <1>6, <1>12, <1>13, Arrival
<1>15. PICK k \in Nat : \E U : Continues(U, k, table, method, code, at, lsa, sa)
  BY <1>14
<1>16. PICK U : Continues(U, k, table, method, code, at, lsa, sa)
  BY <1>15
<1>17. Behind(U, k, table, code, "next", at, lsa, sa, method)
  BY <1>1, <1>16 DEF Behind, Current, Continues
<1>18. Behind(U, k, table', code', phase', at', locals', stack', method')
  BY <1>4, <1>17 DEF lsa, sa
<1> QED
  BY <1>1, <1>4, <1>18 DEF IInv, Phase

LEMMA ThrownTyped ==
  ASSUME NEW mt \in Methods, NEW ls, NEW s, Typed(Types(ls, s), mt)
  PROVE  Typed(Types(ls, <<"ref">>), mt)
<1>1. ls \in [1..mt.locals -> Tag] /\ WholeLongs(ls)
  BY TypesParts DEF Typed
<1>2. \A a \in Tag : <<a>> \in Seq(Tag) /\ Len(<<a>>) = 1 /\ <<a>>[1] = a /\ DOMAIN <<a>> = 1..1
  OBVIOUS
<1>3. "ref" \in Tag
  BY DEF Tag, Kind
<1> DEFINE r == <<"ref">>
<1>4. r \in Seq(Tag) /\ Len(r) = 1 /\ r[1] = "ref" /\ DOMAIN r = 1..1
  BY <1>2, <1>3
<1> HIDE DEF r
<1>5. WholeLongs(r)
  <2>1. \A i \in DOMAIN r : r[i] = "ref"
    BY <1>4
  <2> QED BY <2>1 DEF WholeLongs
<1>6. Len(r) <= mt.stack
  BY <1>4, MethodFacts
<1>7. Typed(Types(ls, r), mt)
  <2>1. Types(ls, r).locals = ls /\ Types(ls, r).stack = r
    BY TypesParts
  <2> QED BY <1>1, <1>4, <1>5, <1>6, <2>1 DEF Typed
<1> QED
  BY <1>7 DEF r

LEMMA ThrowStep ==
  ASSUME IInv, Throw
  PROVE  IInv'
<1>1. /\ method \in Methods /\ code \in Seq(method.menu)
      /\ Typed(Types(locals, stack), method)
  BY InvParts
<1>2. PICK m \in Nat : \E T : Behind(T, m, table, code, phase, at, locals, stack, method)
  BY DEF IInv
<1>3. PICK T : Behind(T, m, table, code, phase, at, locals, stack, method)
  BY <1>2
<1>4. /\ phase \in {"operands", "popped"} /\ phase' = "thrown" /\ stack' = <<"ref">>
      /\ UNCHANGED <<code, table, method, at, locals>>
  BY DEF Throw, Thrown
<1>5. Typed(Types(locals, stack'), method)
  BY <1>1, <1>4, ThrownTyped
<1>6. /\ at \in 0..Len(code) /\ at >= 1 /\ at - 1 <= m
      /\ m \in {Len(code) - 1, Len(code)} /\ TableRight(table, method, code, m)
      /\ History(T, table, method, code, m)
  BY <1>3, <1>4 DEF Behind, Current
<1>7. Behind(T, m, table, code, "thrown", at, locals, stack', method)
  BY <1>5, <1>6 DEF Behind, Current
<1> QED
  BY <1>1, <1>4, <1>7 DEF IInv, Phase

LEMMA AthrowStep ==
  ASSUME IInv, Athrow
  PROVE  IInv'
<1>1. PICK i \in method.menu :
        /\ Fetch(i) /\ phase' = "thrown" /\ stack' = <<"ref">>
        /\ UNCHANGED <<table, method, locals>>
  BY DEF Athrow, Thrown
<1>2. PICK m \in Nat : \E T : Fetched(T, m, code', i)
  BY <1>1, FetchFacts
<1>3. PICK T : Fetched(T, m, code', i)
  BY <1>2
<1>4. method \in Methods /\ Typed(Types(locals, stack), method)
  BY InvParts
<1>5. Typed(Types(locals, stack'), method)
  BY <1>1, <1>4, ThrownTyped
<1> DEFINE cs == code'
           n == at + 1
<1>6. /\ n \in 0..Len(cs) /\ n >= 1 /\ n - 1 <= m
      /\ cs \in Seq(method.menu) /\ at' = n
      /\ m \in {Len(cs) - 1, Len(cs)} /\ TableRight(table, method, cs, m)
      /\ History(T, table, method, cs, m)
  BY <1>3 DEF Fetched
<1> HIDE DEF cs, n
<1>7. Behind(T, m, table, cs, "thrown", n, locals, stack', method)
  BY <1>5, <1>6 DEF Behind, Current
<1>8. \E j \in Nat : \E V : Behind(V, j, table', code', phase', at', locals', stack', method')
  BY <1>1, <1>6, <1>7 DEF cs
<1> QED
  BY <1>1, <1>4, <1>6, <1>8 DEF IInv, Phase, cs

(* A return, and a jump before it is taken.                                *)
LEMMA LeaveStep ==
  ASSUME IInv, NEW i \in method.menu, Fetch(i), phase' \in {"left", "jump"},
         stack' = StackAfter(i, stack), UNCHANGED <<table, method, locals>>
  PROVE  IInv'
<1>1. PICK m \in Nat : \E T : Fetched(T, m, code', i)
  BY FetchFacts
<1>2. PICK T : Fetched(T, m, code', i)
  BY <1>1
<1>3. method \in Methods /\ Typed(Types(locals, stack), method)
  BY InvParts
<1>4. /\ i \in Code /\ Verified(i, locals, stack) /\ Len(StackAfter(i, stack)) <= method.stack
  BY <1>2 DEF Fetched
<1>5. Typed(Types(locals, stack'), method)
  <2>1. /\ stack \in Seq(Tag) /\ locals \in [1..method.locals -> Tag] /\ WholeLongs(locals)
    BY <1>3, TypesParts DEF Typed
  <2>2. StackAfter(i, stack) \in Seq(Tag) /\ WholeLongs(StackAfter(i, stack))
    BY <1>4, <2>1, AfterFacts
  <2> QED BY <1>4, <2>1, <2>2, TypesParts DEF Typed
<1> DEFINE cs == code'
           n == at + 1
<1>6. /\ n \in 0..Len(cs) /\ cs \in Seq(method.menu) /\ at' = n
      /\ m \in {Len(cs) - 1, Len(cs)} /\ TableRight(table, method, cs, m)
      /\ History(T, table, method, cs, m)
  BY <1>2 DEF Fetched
<1> HIDE DEF cs, n
<1>7. Behind(T, m, table, cs, phase', n, locals, stack', method)
  BY <1>5, <1>6 DEF Behind, Current
<1>8. \E j \in Nat : \E V : Behind(V, j, table', code', phase', at', locals', stack', method')
  BY <1>6, <1>7 DEF cs
<1> QED
  BY <1>3, <1>6, <1>8 DEF IInv, Phase, cs

LEMMA NotHandledStep ==
  ASSUME IInv, NotHandled
  PROVE  IInv'
<1>1. /\ method \in Methods /\ code \in Seq(method.menu)
      /\ Typed(Types(locals, stack), method)
  BY InvParts
<1>2. PICK m \in Nat : \E T : Behind(T, m, table, code, phase, at, locals, stack, method)
  BY DEF IInv
<1>3. PICK T : Behind(T, m, table, code, phase, at, locals, stack, method)
  BY <1>2
<1>4. phase' = "left" /\ UNCHANGED <<code, table, method, at, locals, stack>>
  BY DEF NotHandled
<1>5. Behind(T, m, table, code, "left", at, locals, stack, method)
  BY <1>1, <1>3 DEF Behind, Current
<1> QED
  BY <1>1, <1>4, <1>5 DEF IInv, Phase

LEMMA GoToStep ==
  ASSUME IInv, GoTo
  PROVE  IInv'
<1>1. PICK f \in DOMAIN table :
        /\ Fits(StackMap[f], locals, stack)
        /\ at' = CHOOSE n \in 0..Len(code) : End(n) = StackMap[f].start
        /\ locals' = TagsOf(StackMap[f].locals, MaxLocals) /\ phase' = "next"
        /\ UNCHANGED <<code, table, method, stack>>
  BY DEF GoTo
<1>2. /\ method \in Methods /\ code \in Seq(method.menu) /\ code \in Seq(Code)
      /\ Len(code) \in Nat /\ DOMAIN table = 1..Len(table)
  BY InvParts
<1>3. PICK m \in Nat : \E T : Behind(T, m, table, code, phase, at, locals, stack, method)
  BY DEF IInv
<1>4. PICK T : Behind(T, m, table, code, phase, at, locals, stack, method)
  BY <1>3
<1> DEFINE frame == Frames(table, method)[f]
<1>5. /\ StackMap[f] = frame /\ stack = Spread(frame.stack)
      /\ locals' = TagsOf(frame.locals, method.locals)
      /\ at' = CHOOSE n \in 0..Len(code) : Ends(code)[n] = frame.start
  BY <1>1 DEF StackMap, Frames, Fits, End, MaxLocals
<1>6. /\ m \in {Len(code) - 1, Len(code)} /\ TableRight(table, method, code, m)
      /\ History(T, table, method, code, m)
  BY <1>4 DEF Behind
<1> HIDE DEF frame
<1>7. PICK b \in 0..m : frame.start = Ends(code)[b]
  BY <1>2, <1>6 DEF TableRight, frame
<1>8. b \in 0..Len(code)
  BY <1>2, <1>6
<1>9. at' = b
  <2> DEFINE n == CHOOSE n \in 0..Len(code) : Ends(code)[n] = frame.start
  <2>1. n \in 0..Len(code) /\ Ends(code)[n] = Ends(code)[b]
    BY <1>7, <1>8
  <2> HIDE DEF n
  <2>2. n = b
    BY <1>2, <1>8, <2>1, EndsIncrease
  <2> QED BY <1>5, <2>2 DEF n
<1>10. T[b] = Types(locals', stack)
  <2>1. f \in FramesAt(table, method, code, b)
    BY <1>2, <1>7 DEF FramesAt, frame
  <2>2. T[b] = TypesAt(frame, method)
    BY <1>6, <2>1 DEF History, frame
  <2> QED BY <1>5, <2>2 DEF TypesAt
<1>11. Typed(Types(locals', stack), method)
  BY <1>6, <1>10 DEF History
<1>12. Behind(T, m, table, code, "next", b, locals', stack, method)
  BY <1>6, <1>8, <1>10, <1>11 DEF Behind, Current
<1> QED
  BY <1>1, <1>2, <1>9, <1>12 DEF IInv, Phase

KeptTags(ls, N, kept) ==
  [j \in 1..N |-> IF j \in kept \/ (ls[j] = "half" /\ j - 1 \in kept) THEN ls[j] ELSE "top"]

LEMMA KeptTypes ==
  ASSUME NEW N \in Nat, NEW ls \in [1..N -> Tag], WholeLongs(ls),
         NEW kept \in SUBSET {j \in 1..N : ls[j] \in Kind}
  PROVE  KeptTags(ls, N, kept) \in [1..N -> Tag] /\ WholeLongs(KeptTags(ls, N, kept))
<1> DEFINE tags == KeptTags(ls, N, kept)
<1>0. tags = [j \in 1..N |-> IF j \in kept \/ (ls[j] = "half" /\ j - 1 \in kept)
                             THEN ls[j] ELSE "top"]
  BY DEF KeptTags
<1> HIDE DEF tags
<1>1. "top" \in Tag /\ "half" \notin Kind
  BY DEF Tag, Kind
<1>2. tags \in [1..N -> Tag]
  BY <1>0, <1>1
<1>3. /\ ls \in Seq(Tag) /\ Len(ls) = N /\ DOMAIN ls = 1..N
      /\ tags \in Seq(Tag) /\ Len(tags) = N /\ DOMAIN tags = 1..N
  BY <1>2, FunctionIsList
<1>4. \A j \in 1..N : /\ ls[j] = "long" => j < N /\ ls[j + 1] = "half"
                      /\ ls[j] = "half" => j > 1 /\ ls[j - 1] = "long"
  BY <1>3 DEF WholeLongs
<1>5. \A j \in 1..N : tags[j] = IF j \in kept \/ (ls[j] = "half" /\ j - 1 \in kept)
                                THEN ls[j] ELSE "top"
  BY <1>0
<1>6. ASSUME NEW j \in 1..N
      PROVE  /\ tags[j] = "long" => j < N /\ tags[j + 1] = "half"
             /\ tags[j] = "half" => j > 1 /\ tags[j - 1] = "long"
  <2>1. ASSUME tags[j] = "long" PROVE j < N /\ tags[j + 1] = "half"
    <3>1. ls[j] = "long" /\ j \in kept
      BY <1>5, <2>1
    <3>2. j < N /\ ls[j + 1] = "half"
      BY <1>4, <3>1
    <3>3. j + 1 \in 1..N /\ (j + 1) - 1 = j
      BY <3>2
    <3> QED BY <1>5, <3>1, <3>2, <3>3
  <2>2. ASSUME tags[j] = "half" PROVE j > 1 /\ tags[j - 1] = "long"
    <3>1. ls[j] = "half" /\ j \notin kept
      BY <1>1, <1>5, <2>2
    <3>2. j - 1 \in kept /\ j > 1 /\ ls[j - 1] = "long"
      BY <1>4, <1>5, <2>2, <3>1
    <3>3. j - 1 \in 1..N
      BY <3>2
    <3> QED BY <1>5, <3>2, <3>3
  <2> QED BY <2>1, <2>2
<1>7. WholeLongs(tags)
  BY <1>3, <1>6 DEF WholeLongs
<1> QED
  BY <1>2, <1>7 DEF tags

(* A frame at the end of the code, behind all others, is the type there.   *)
LEMMA FrameAdded ==
  ASSUME NEW mt \in Methods, NEW cs \in Seq(Code), NEW m \in Nat, m \in {Len(cs) - 1, Len(cs)},
         NEW es, NEW T, TableRight(es, mt, cs, m), History(T, es, mt, cs, m),
         NEW first \in BOOLEAN, first <=> Len(es) = 0,
         NEW last, last = Frames(es, mt)[Len(es)],
         ~first => last.start < Ends(cs)[Len(cs)],
         NEW frame \in FrameRecord, frame.start = Ends(cs)[Len(cs)],
         Typed(TypesAt(frame, mt), mt)
  PROVE  \E U : LET more == Append(es, Entry(last, frame, first))
                IN  /\ TableRight(more, mt, cs, Len(cs)) /\ History(U, more, mt, cs, Len(cs))
                    /\ U[Len(cs)] = TypesAt(frame, mt)
<1> DEFINE e == Entry(last, frame, first)
           more == Append(es, e)
           L == Len(es)
           N == Len(cs)
           P == Frames(es, mt)
           Q == Frames(more, mt)
<1>1. es \in Seq(EntryRecord) /\ L \in Nat /\ N \in Nat /\ mt.parameters \in Seq(Value)
      /\ N \in 0..N /\ m <= N /\ (m = N \/ m = N - 1)
  BY ListFacts, MethodFacts DEF TableRight
<1>2. last \in FrameRecord /\ \A f \in 0..L : P[f] \in FrameRecord
  <2>1. L \in 0..L
    BY <1>1
  <2> QED BY <1>1, <2>1, ParsedFacts DEF Frames
<1>3. e \in EntryRecord /\ ParseFrame(e, last, IF first THEN -1 ELSE last.start) = frame
  BY <1>2, EntryRead
<1>4. /\ \A f \in 0..L : Q[f] = P[f]
      /\ Q[L + 1] = frame
  <2> HIDE DEF e
  <2>1. /\ \A f \in 0..L : Q[f] = P[f]
        /\ Q[L + 1] = ParseFrame(e, P[L], IF L = 0 THEN -1 ELSE P[L].start)
    BY <1>1, <1>3, ParsedOfMore DEF Frames
  <2> QED BY <1>3, <2>1
<1>5. more \in Seq(EntryRecord) /\ Len(more) = L + 1 /\ more[L + 1] = e
      /\ \A f \in 1..L : more[f] = es[f]
  <2> HIDE DEF e
  <2> QED BY <1>1, <1>3
<1> HIDE DEF more, Q
<1>6. \A f \in 1..L + 1 : f \in 1..L \/ f = L + 1
  BY <1>1
<1>7. \A n \in 0..N : Ends(cs)[n] \in Nat
  BY EndsFacts
<1>8. \A f \in 1..L : P[f].start < Ends(cs)[N]
  <2> SUFFICES ASSUME NEW f \in 1..L PROVE P[f].start < Ends(cs)[N]
    OBVIOUS
  <2>1. ~first /\ last = P[L] /\ L \in 1..L
    BY <1>1
  <2>2. P[L].start < Ends(cs)[N]
    BY <2>1
  <2>3. f = L \/ P[f].start < P[L].start
    <3>1. f = L \/ f < L
      BY <1>1
    <3> QED BY <2>1, <3>1 DEF TableRight
  <2>4. P[f].start \in Int /\ P[L].start \in Int
    <3>1. f \in 0..L /\ L \in 0..L
      BY <1>1
    <3> QED BY <1>2, <3>1 DEF FrameRecord
  <2>5. Ends(cs)[N] \in Nat
    BY <1>1, <1>7
  <2> HIDE DEF P
  <2> QED BY <2>2, <2>3, <2>4, <2>5
<1>9. e.delta \in Nat
  <2>1. e.delta = frame.start - (IF first THEN 0 ELSE last.start + 1)
    <3> DEFINE ls == frame.locals
               change == Len(frame.locals) - Len(last.locals)
    <3> QED BY DEF Entry
  <2>2. frame.start \in Nat /\ last.start \in Int
    BY <1>1, <1>2, <1>7 DEF FrameRecord
  <2>3. ~first => last.start < frame.start
    OBVIOUS
  <2> HIDE DEF e
  <2> QED BY <2>1, <2>2, <2>3
<1> HIDE DEF e, P, N, L
<1>10. TableRight(more, mt, cs, N)
  <2>1. ASSUME NEW f \in 1..L + 1
        PROVE  more[f].delta \in Nat /\ \E b \in 0..N : Q[f].start = Ends(cs)[b]
    <3>1. CASE f \in 1..L
      <4>1. f \in 0..L /\ Q[f] = P[f] /\ more[f] = es[f]
        BY <1>1, <1>4, <1>5, <3>1
      <4>2. es[f].delta \in Nat /\ \E b \in 0..m : P[f].start = Ends(cs)[b]
        BY <3>1 DEF TableRight, P, L
      <4>3. \A b \in 0..m : b \in 0..N
        BY <1>1
      <4> QED BY <4>1, <4>2, <4>3
    <3>2. CASE f = L + 1
      BY <1>1, <1>4, <1>5, <1>9, <3>2 DEF N
    <3> QED BY <1>6, <3>1, <3>2
  <2>2. ASSUME NEW f \in 1..L + 1, NEW g \in 1..L + 1, f < g
        PROVE  Q[f].start < Q[g].start
    <3>1. f \in 1..L /\ f \in 0..L /\ Q[f] = P[f]
      <4>1. f \in 1..L /\ f \in 0..L
        BY <1>1, <2>2
      <4> QED BY <1>4, <4>1
    <3>2. CASE g \in 1..L
      <4>1. Q[g] = P[g]
        <5>1. g \in 0..L
          BY <1>1, <3>2
        <5> QED BY <1>4, <5>1
      <4>2. P[f].start < P[g].start
        BY <2>2, <3>1, <3>2 DEF TableRight, P, L
      <4> QED BY <3>1, <4>1, <4>2
    <3>3. CASE g = L + 1
      BY <1>4, <1>8, <3>1, <3>3 DEF N
    <3> QED BY <1>6, <3>2, <3>3
  <2> QED BY <1>5, <2>1, <2>2 DEF TableRight, Q
<1> DEFINE U == [n \in 0..N |-> IF n = N THEN TypesAt(frame, mt) ELSE T[n]]
<1>11. U[N] = TypesAt(frame, mt) /\ \A n \in 0..N : n # N => U[n] = T[n]
  BY <1>1
<1> HIDE DEF U
<1>12. \A n \in 0..N : n # N => n \in 0..m
  BY <1>1
<1>13. ASSUME NEW n \in 0..N, n # N PROVE FramesAt(more, mt, cs, n) = FramesAt(es, mt, cs, n)
  <2>1. Ends(cs)[n] # Ends(cs)[N]
    <3>1. Len(cs) \in 0..Len(cs) /\ n \in 0..Len(cs) /\ n # Len(cs)
      BY <1>1, <1>13 DEF N
    <3> QED BY <3>1, EndsIncrease DEF N
  <2>2. Q[L + 1].start # Ends(cs)[n]
    BY <1>4, <2>1 DEF N
  <2>3. \A f \in 1..L : f \in 1..L + 1 /\ Q[f] = P[f]
    <3>1. \A f \in 1..L : f \in 0..L /\ f \in 1..L + 1
      BY <1>1
    <3> QED BY <1>4, <3>1
  <2>4. FramesAt(more, mt, cs, n) = {f \in 1..L + 1 : Q[f].start = Ends(cs)[n]}
    BY <1>5 DEF FramesAt, Q
  <2>5. FramesAt(es, mt, cs, n) = {f \in 1..L : P[f].start = Ends(cs)[n]}
    BY DEF FramesAt, P, L
  <2> QED BY <1>6, <2>2, <2>3, <2>4, <2>5
<1>14. FramesAt(more, mt, cs, N) = {L + 1}
  <2>1. FramesAt(more, mt, cs, N) = {f \in 1..L + 1 : Q[f].start = Ends(cs)[N]}
    BY <1>5 DEF FramesAt, Q
  <2>2. \A f \in 1..L : Q[f].start # Ends(cs)[N]
    <3> SUFFICES ASSUME NEW f \in 1..L PROVE Q[f].start # Ends(cs)[N]
      OBVIOUS
    <3>1. f \in 0..L /\ Q[f] = P[f]
      <4>1. f \in 0..L
        BY <1>1
      <4> QED BY <1>4, <4>1
    <3>2. P[f].start < Ends(cs)[N] /\ P[f].start \in Int /\ Ends(cs)[N] \in Nat
      BY <1>1, <1>2, <1>7, <1>8, <3>1 DEF FrameRecord
    <3> QED BY <3>1, <3>2
  <2>3. L + 1 \in 1..L + 1 /\ Q[L + 1].start = Ends(cs)[N]
    BY <1>1, <1>4 DEF N
  <2> QED BY <1>6, <2>1, <2>2, <2>3
<1>15. History(U, more, mt, cs, N)
  <2>1. \A n \in 0..N : Typed(U[n], mt)
    BY <1>11, <1>12 DEF History
  <2>2. ASSUME NEW n \in 0..N, NEW f \in FramesAt(more, mt, cs, n)
        PROVE  U[n] = TypesAt(Q[f], mt)
    <3>1. CASE n = N
      BY <1>4, <1>11, <1>14, <2>2, <3>1
    <3>2. CASE n # N
      <4>1. f \in FramesAt(es, mt, cs, n) /\ f \in 1..L
        BY <1>13, <3>2 DEF FramesAt, L
      <4>2. f \in 0..L
        BY <1>1, <4>1
      <4>3. T[n] = TypesAt(P[f], mt)
        BY <1>12, <3>2, <4>1 DEF History, P
      <4> QED BY <1>4, <1>11, <3>2, <4>2, <4>3
    <3> QED BY <3>1, <3>2
  <2>3. FramesAt(more, mt, cs, 0) = {} => U[0] = TypesAt(Q[0], mt)
    <3>1. 0 \in 0..N /\ 0 \in 0..L
      BY <1>1
    <3>2. CASE N = 0
      BY <1>14, <3>2
    <3>3. CASE N # 0
      BY <1>4, <1>11, <1>13, <3>1, <3>3 DEF History, P
    <3> QED BY <3>2, <3>3
  <2>4. ASSUME NEW n \in 1..N, FramesAt(more, mt, cs, n) = {}
        PROVE  Goes(cs[n], U[n - 1], mt) /\ U[n] = NextTypes(cs[n], U[n - 1])
    <3>1. n # N
      BY <1>14, <2>4
    <3>2. n \in 0..N /\ n - 1 \in 0..N /\ n - 1 # N /\ n \in 1..m
      BY <1>1, <3>1
    <3>3. U[n] = T[n] /\ U[n - 1] = T[n - 1]
      BY <1>11, <3>1, <3>2
    <3>4. FramesAt(es, mt, cs, n) = {}
      BY <1>13, <2>4, <3>1, <3>2
    <3> QED BY <3>2, <3>3, <3>4 DEF History
  <2> QED BY <2>1, <2>2, <2>3, <2>4 DEF History, Q
<1> QED
  BY <1>10, <1>11, <1>15 DEF more, e, N

LEMMA MergePointStep ==
  ASSUME IInv, MergePoint
  PROVE  IInv'
<1> DEFINE TagsKept(kept) == [j \in 1..MaxLocals |->
                                IF \/ j \in kept
                                   \/ locals[j] = "half" /\ j - 1 \in kept
                                THEN locals[j] ELSE "top"]
           FrameOf(tags) == [start |-> Pos, locals |-> Trim(Kinds(tags)), stack |-> Kinds(stack)]
<1>1. PICK kept \in SUBSET {j \in 1..MaxLocals : locals[j] \in Kind} :
        /\ at = Len(code)
        /\ table # <<>> => LastFrame.start < Pos
        /\ table' = Append(table, Entry(LastFrame, FrameOf(TagsKept(kept)), table = <<>>))
        /\ locals' = TagsKept(kept) /\ phase' = "next"
        /\ UNCHANGED <<code, method, at, stack>>
  BY DEF MergePoint
<1> DEFINE tags == TagsKept(kept)
           frame == FrameOf(tags)
           first == table = <<>>
           last == LastFrame
           end == Len(code)
<1>2. /\ method \in Methods /\ code \in Seq(method.menu) /\ code \in Seq(Code)
      /\ Len(code) \in Nat /\ Typed(Types(locals, stack), method)
      /\ table \in Seq(EntryRecord)
  BY InvParts
<1>3. PICK m \in Nat : \E T : Behind(T, m, table, code, phase, at, locals, stack, method)
  BY DEF IInv
<1>4. PICK T : Behind(T, m, table, code, phase, at, locals, stack, method)
  BY <1>3
<1>5. /\ m \in {end - 1, end} /\ TableRight(table, method, code, m)
      /\ History(T, table, method, code, m)
  BY <1>4 DEF Behind
<1>6. /\ locals \in [1..method.locals -> Tag] /\ WholeLongs(locals)
      /\ stack \in Seq(Tag) /\ WholeLongs(stack) /\ Len(stack) <= method.stack
      /\ method.locals \in Nat
  BY <1>2, TypesParts, MethodFacts DEF Typed
<1>7. tags \in [1..method.locals -> Tag] /\ WholeLongs(tags)
  <2>1. kept \in SUBSET {j \in 1..method.locals : locals[j] \in Kind}
    BY DEF MaxLocals
  <2>2. tags = KeptTags(locals, method.locals, kept)
    BY DEF MaxLocals, KeptTags
  <2> HIDE DEF tags
  <2> QED BY <1>6, <2>1, <2>2, KeptTypes
<1>8. table' = Append(table, Entry(last, frame, first)) /\ locals' = tags
  BY <1>1
<1> HIDE DEF tags
<1>9. Pos = Ends(code)[end] /\ Pos \in Nat
  <2>1. Pos = Ends(code)[end]
    BY <1>1 DEF Pos, End
  <2>2. end \in 0..end
    BY <1>2
  <2> QED BY <1>2, <2>1, <2>2, EndsFacts
<1>10. /\ Trim(Kinds(tags)) \in Seq(Value) /\ TagsOf(Trim(Kinds(tags)), method.locals) = tags
       /\ Kinds(stack) \in Seq(Value) /\ Spread(Kinds(stack)) = stack
  BY <1>6, <1>7, FrameOfTags, SpreadOfKinds
<1>11. /\ frame \in FrameRecord /\ frame.start = Ends(code)[end]
       /\ TypesAt(frame, method) = Types(tags, stack)
  BY <1>9, <1>10 DEF FrameRecord, TypesAt
<1>12. Typed(Types(tags, stack), method)
  <2>1. Types(tags, stack).locals = tags /\ Types(tags, stack).stack = stack
    BY TypesParts
  <2> QED BY <1>6, <1>7, <2>1 DEF Typed
<1>13. /\ first \in BOOLEAN /\ (first <=> Len(table) = 0)
       /\ last = Frames(table, method)[Len(table)]
       /\ ~first => last.start < Ends(code)[end]
  <2>1. first <=> Len(table) = 0
    BY <1>2
  <2>2. last = Frames(table, method)[Len(table)]
    BY DEF LastFrame, StackMap, Frames
  <2> QED BY <1>1, <1>9, <2>1, <2>2
<1> HIDE DEF frame, first, last, end
<1>14. \E U : LET more == Append(table, Entry(last, frame, first))
              IN  /\ TableRight(more, method, code, Len(code))
                  /\ History(U, more, method, code, Len(code))
                  /\ U[Len(code)] = TypesAt(frame, method)
  <2>1. /\ m \in {Len(code) - 1, Len(code)} /\ frame.start = Ends(code)[Len(code)]
        /\ (~first => last.start < Ends(code)[Len(code)])
    BY <1>5, <1>11, <1>13 DEF end
  <2>2. Typed(TypesAt(frame, method), method)
    BY <1>11, <1>12
  <2> QED BY <1>2, <1>5, <1>11, <1>13, <2>1, <2>2, FrameAdded
<1>15. PICK U : /\ TableRight(table', method, code, Len(code))
                /\ History(U, table', method, code, Len(code))
                /\ U[Len(code)] = Types(tags, stack)
  BY <1>8, <1>11, <1>14
<1>16. Behind(U, Len(code), table', code, "next", Len(code), tags, stack, method)
  BY <1>2, <1>12, <1>15 DEF Behind, Current
<1>17. /\ code' = code /\ method' = method /\ at' = Len(code) /\ stack' = stack /\ phase' = "next"
  BY <1>1
<1>18. Behind(U, Len(code), table', code', phase', at', locals', stack', method')
  BY <1>8, <1>16, <1>17
<1> QED
  BY <1>2, <1>17, <1>18 DEF IInv, Phase

LEMMA InitHolds ==
  ASSUME Init
  PROVE  IInv
<1>1. /\ method \in Methods /\ locals = TagsOf(method.parameters, method.locals) /\ stack = <<>>
      /\ code = <<>> /\ table = <<>> /\ at = 0 /\ phase = "next"
  BY DEF Init, MaxLocals
<1> DEFINE mt == method
           none == <<>>
           first == Frames(none, mt)[0]
           T == [n \in 0..0 |-> Types(locals, stack)]
<1>2. /\ none \in Seq(EntryRecord) /\ none \in Seq(Value) /\ none \in Seq(Tag)
      /\ none \in Seq(method.menu) /\ none \in Seq(Code) /\ Len(none) = 0 /\ DOMAIN none = 1..0
  OBVIOUS
<1>3. /\ mt.parameters \in Seq(Value) /\ mt.locals \in Nat /\ mt.stack \in Nat
      /\ Width(mt.parameters) <= mt.locals
  BY <1>1, MethodFacts
<1>4. first = ParseMethodDescriptor(mt.parameters)
  <2> HIDE DEF none
  <2> QED BY <1>2, <1>3, ParsedFacts DEF Frames
<1>5. Spread(none) = none
  BY <1>2, SpreadFacts
<1> HIDE DEF none, first
<1>6. TypesAt(first, mt) = Types(locals, stack)
  BY <1>1, <1>4, <1>5 DEF TypesAt, ParseMethodDescriptor, none
<1>7. Typed(Types(locals, stack), mt)
  <2>1. locals \in [1..mt.locals -> Tag] /\ WholeLongs(locals)
    BY <1>1, <1>3, TagsFacts
  <2>2. stack = none
    BY <1>1 DEF none
  <2>3. WholeLongs(none) /\ Len(none) <= mt.stack
    BY <1>2, <1>3 DEF WholeLongs
  <2>4. Types(locals, stack).locals = locals /\ Types(locals, stack).stack = stack
    BY TypesParts
  <2> QED BY <1>2, <2>1, <2>2, <2>3, <2>4 DEF Typed
<1>8. T[0] = Types(locals, stack)
  OBVIOUS
<1> HIDE DEF T
<1>9. TableRight(none, mt, none, 0)
  BY <1>2 DEF TableRight
<1>10. History(T, none, mt, none, 0)
  <2>1. \A n \in 0..0 : n = 0
    OBVIOUS
  <2>2. \A n \in 0..0 : FramesAt(none, mt, none, n) = {}
    BY <1>2 DEF FramesAt
  <2> QED BY <1>6, <1>7, <1>8, <2>1, <2>2 DEF History, first
<1>11. Behind(T, 0, none, none, "next", 0, locals, stack, mt)
  BY <1>2, <1>7, <1>8, <1>9, <1>10 DEF Behind, Current
<1>12. code = none /\ table = none
  BY <1>1 DEF none
<1>13. \E m \in Nat : \E U : Behind(U, m, table, code, phase, at, locals, stack, method)
  <2>1. 0 \in Nat
    OBVIOUS
  <2> QED BY <1>1, <1>11, <1>12, <2>1
<1> QED
  BY <1>1, <1>2, <1>12, <1>13 DEF IInv, Phase

LEMMA StepKeeps ==
  ASSUME IInv, [Next]_vars
  PROVE  IInv'
<1>1. CASE Simple
  BY <1>1, SimpleStep
<1>2. CASE Begin
  BY <1>2, BeginStep
<1>3. CASE PopOperands
  BY <1>3, PopOperandsStep
<1>4. CASE Complete
  BY <1>4, CompleteStep
<1>5. CASE Throw
  BY <1>5, ThrowStep
<1>6. CASE Athrow
  BY <1>6, AthrowStep
<1>7. CASE Return
  <2>1. PICK i \in method.menu :
          /\ Fetch(i) /\ phase' = "left" /\ stack' = StackAfter(i, stack)
          /\ UNCHANGED <<table, method, locals>>
    BY <1>7 DEF Return
  <2> QED BY <2>1, LeaveStep
<1>8. CASE NotHandled
  BY <1>8, NotHandledStep
<1>9. CASE Jump
  <2>1. PICK i \in method.menu :
          /\ Fetch(i) /\ phase' = "jump" /\ stack' = StackAfter(i, stack)
          /\ UNCHANGED <<table, method, locals>>
    BY <1>9 DEF Jump
  <2> QED BY <2>1, LeaveStep
<1>10. CASE MergePoint
  BY <1>10, MergePointStep
<1>11. CASE GoTo
  BY <1>11, GoToStep
<1>12. CASE UNCHANGED vars
  BY <1>12 DEF IInv, vars
<1> QED
  BY <1>1, <1>2, <1>3, <1>4, <1>5, <1>6, <1>7, <1>8, <1>9, <1>10, <1>11, <1>12 DEF Next

(* In every reachable state each place of the code has one type of the     *)
(* frame, which follows from the stack map frame there or, where there is  *)
(* none, from the instruction before it; and the frame has the type of the *)
(* place where execution is.                                               *)
THEOREM Invariance == Spec => []IInv
<1>1. Init => IInv
  BY InitHolds
<1>2. IInv /\ [Next]_vars => IInv'
  BY StepKeeps
<1> QED
  BY <1>1, <1>2, PTL DEF Spec
-----------------------------------------------------------------------------
(* The walk to the current instruction. *)

(* No method holds an instruction whose operand bytes the walk miscounts.  *)
NarrowMenus ==
  \A mt \in Methods : \A i \in mt.menu : i.op \notin {"switch", "goto_w", "wideiinc"}

(* Nor one whose operands stay on the abstract interpreter's stack.        *)
PlainMenus ==
  NarrowMenus /\ \A mt \in Methods : \A i \in mt.menu : i.op # "multianewarray"

LEMMA BytesConsumed ==
  ASSUME NEW mt \in Methods, NEW i \in mt.menu, NarrowMenus
  PROVE  BytesConsumedByOpcode(i) = Bytes(i)
<1>1. /\ i.op \notin {"switch", "goto_w", "wideiinc"} /\ i.bytes \in Nat
      /\ i.bytes > 0 => i.op \in {"const", "ldc", "load", "store", "newarray", "switch"}
  BY MenuAssumption DEF NarrowMenus
<1>2. i.bytes = 0 \/ i.op \in {"const", "ldc", "load", "store", "newarray"}
  BY <1>1
<1> QED
  BY <1>1, <1>2 DEF BytesConsumedByOpcode, Bytes

LEMMA SkipFacts ==
  ASSUME IInv, NarrowMenus, NEW k \in 0..Len(code) - 1
  PROVE  End(k) + Skip(End(k)) = End(k + 1) /\ End(k) \in Nat /\ End(k + 1) \in Nat
<1> DEFINE p == End(k)
           In(j) == End(j - 1) <= p /\ p < End(j)
           n == CHOOSE j \in DOMAIN code : In(j)
<1>1. /\ method \in Methods /\ code \in Seq(method.menu) /\ code \in Seq(Code)
      /\ Len(code) \in Nat /\ DOMAIN code = 1..Len(code)
  BY InvParts, ListFacts
<1>2. k \in 0..Len(code) /\ k + 1 \in 0..Len(code) /\ k + 1 \in 1..Len(code) /\ (k + 1) - 1 = k
      /\ k \in Nat
  BY <1>1
<1>3. /\ \A j \in 0..Len(code) : End(j) \in Nat
      /\ \A j \in 1..Len(code) : End(j) = End(j - 1) + 1 + Bytes(code[j])
      /\ \A i, j \in 0..Len(code) : i < j <=> End(i) < End(j)
  BY <1>1, EndsFacts, EndsIncrease DEF End
<1>4. In(k + 1)
  <2>1. k < k + 1
    BY <1>2
  <2> QED BY <1>2, <1>3, <2>1
<1>5. ASSUME NEW j \in DOMAIN code, In(j) PROVE j = k + 1
  <2>1. j \in 0..Len(code) /\ j - 1 \in 0..Len(code) /\ j \in Nat
    BY <1>1
  <2>2. k < j
    BY <1>2, <1>3, <1>5, <2>1
  <2>3. ~(k < j - 1)
    <3>1. End(k) \in Nat /\ End(j - 1) \in Nat /\ End(j - 1) <= End(k)
      BY <1>2, <1>3, <1>5, <2>1
    <3>2. ~(End(k) < End(j - 1))
      BY <3>1
    <3> QED BY <1>2, <1>3, <2>1, <3>2
  <2> QED BY <1>2, <2>1, <2>2, <2>3
<1> HIDE DEF In
<1>6. n = k + 1
  BY <1>1, <1>2, <1>4, <1>5
<1>7. Skip(p) = 1 + IF p = End(n - 1) THEN BytesConsumedByOpcode(code[n]) ELSE code[n].noise
  BY DEF Skip, In
<1> HIDE DEF n
<1>8. Skip(p) = 1 + BytesConsumedByOpcode(code[k + 1])
  BY <1>2, <1>6, <1>7
<1>9. code[k + 1] \in method.menu /\ code[k + 1] \in Code
  BY <1>1, <1>2
<1>10. Skip(p) = 1 + Bytes(code[k + 1]) /\ Bytes(code[k + 1]) \in Nat
  BY <1>1, <1>8, <1>9, BytesConsumed, BytesFacts
<1>11. End(k + 1) = End(k) + 1 + Bytes(code[k + 1]) /\ End(k) \in Nat /\ End(k + 1) \in Nat
  BY <1>2, <1>3
<1> HIDE DEF p
<1> QED
  BY <1>10, <1>11 DEF p

LEMMA OpcodeFound ==
  ASSUME IInv, NarrowMenus, at >= 1
  PROVE  OpcodePos(Pos) = End(at - 1)
<1> DEFINE a == at - 1
           reached(n) == IF n <= a THEN n ELSE a
<1>0. /\ at \in 1..Len(code) /\ a \in Nat /\ at = a + 1 /\ a \in 0..Len(code) - 1
      /\ code \in Seq(Code) /\ Len(code) \in Nat
  <2>1. at \in 0..Len(code) /\ code \in Seq(Code) /\ Len(code) \in Nat
    BY InvParts
  <2> QED BY <2>1
<1>00. /\ Pos = End(at) /\ Pos \in Nat
       /\ \A j \in 0..Len(code) : End(j) \in Nat
       /\ \A i, j \in 0..Len(code) : i < j <=> End(i) < End(j)
  <2>1. /\ \A j \in 0..Len(code) : End(j) \in Nat
        /\ \A i, j \in 0..Len(code) : i < j <=> End(i) < End(j)
    BY <1>0, EndsFacts, EndsIncrease DEF End
  <2>2. at \in 0..Len(code)
    BY <1>0
  <2> QED BY <2>1, <2>2 DEF Pos
<1>000. End(0) = 0
  BY <1>0, EndsFacts DEF End
<1> DEFINE m == Pos
           Body(n, v) == IF v + Skip(v) < Pos THEN v + Skip(v) ELSE v
           Def(g) == [n \in 0..m |-> IF n = 0 THEN 0 ELSE Body(n, g[n - 1])]
           S == [n \in 0..m |-> {End(reached(n))}]
           step == [n \in 1..m |-> [v \in S[n - 1] |-> Body(n, v)]]
           it == CHOOSE g : g = Def(g)
<1>1. m \in Nat /\ 0 \in S[0]
  BY <1>0, <1>00, <1>000
<1>2. ASSUME NEW n \in 1..m, NEW v \in S[n - 1] PROVE Body(n, v) \in S[n]
  <2>1. n \in 0..m /\ n - 1 \in 0..m /\ n \in Nat /\ v = End(reached(n - 1))
    BY <1>00
  <2>2. CASE n <= a
    <3>1. reached(n - 1) = n - 1 /\ reached(n) = n /\ n - 1 \in 0..Len(code) - 1 /\ (n - 1) + 1 = n
      BY <1>0, <2>1, <2>2
    <3>2. v + Skip(v) = End(n)
      BY <2>1, <3>1, SkipFacts
    <3>3. End(n) < Pos
      <4>1. n \in 0..Len(code) /\ at \in 0..Len(code) /\ n < at
        BY <1>0, <2>1, <2>2
      <4> QED BY <1>00, <4>1
    <3> HIDE DEF reached
    <3> QED BY <2>1, <3>1, <3>2, <3>3
  <2>3. CASE ~(n <= a)
    <3>1. reached(n - 1) = a /\ reached(n) = a
      BY <1>0, <2>1, <2>3
    <3>2. v + Skip(v) = Pos
      BY <1>0, <1>00, <2>1, <3>1, SkipFacts
    <3>3. ~(v + Skip(v) < Pos)
      BY <1>00, <3>2
    <3> HIDE DEF reached
    <3> QED BY <2>1, <3>1, <3>3
  <2> QED BY <2>2, <2>3
<1>3. \A n \in 1..m : \A v \in S[n - 1] : step[n][v] = Body(n, v)
  <2> HIDE DEF S, Body
  <2> QED OBVIOUS
<1>4. \E g : g = Def(g)
  <2> HIDE DEF S, step, Body, m
  <2>1. \A n \in 1..m : \A v \in S[n - 1] : step[n][v] \in S[n]
    BY <1>2, <1>3
  <2>2. PICK g : ComputedWithin(g, m, S, 0, step)
    BY <1>1, <2>1, StepByStepWithin
  <2>3. /\ g = [i \in 0..m |-> g[i]] /\ g[0] = 0
        /\ \A i \in 0..m : g[i] \in S[i]
        /\ \A i \in 1..m : g[i] = step[i][g[i - 1]]
    BY <2>2 DEF ComputedWithin
  <2>4. \A n \in 1..m : n - 1 \in 0..m
    BY <1>1
  <2>5. \A n \in 1..m : g[n] = Body(n, g[n - 1])
    BY <1>3, <2>3, <2>4
  <2>6. \A n \in 0..m : g[n] = IF n = 0 THEN 0 ELSE Body(n, g[n - 1])
    <3>1. ASSUME NEW n \in 0..m, n # 0 PROVE n \in 1..m
      BY <1>1, <3>1
    <3> QED BY <2>3, <2>5, <3>1
  <2>7. g = Def(g)
    BY <2>3, <2>6
  <2> QED BY <2>7
<1>5. it = Def(it)
  <2> HIDE DEF Def
  <2> QED BY <1>4
<1>6. it[0] = 0 /\ \A n \in 1..m : it[n] = Body(n, it[n - 1])
  <2> HIDE DEF it, Body, m
  <2>1. it = [n \in 0..m |-> IF n = 0 THEN 0 ELSE Body(n, it[n - 1])]
    BY <1>5
  <2>2. \A n \in 1..m : n \in 0..m /\ n # 0
    BY <1>1
  <2> QED BY <1>1, <2>1, <2>2
<1>7. \A n \in 0..m : it[n] \in S[n]
  <2> HIDE DEF it, S, Body, m
  <2> DEFINE T == {n \in 0..m : it[n] \in S[n]}
  <2>1. 0 \in T
    BY <1>1, <1>6
  <2>2. ASSUME NEW n \in 1..m, n - 1 \in T PROVE n \in T
    BY <1>1, <1>2, <1>6, <2>2
  <2>3. \A n \in 0..m : n \in T
    <3> HIDE DEF T
    <3> QED BY <1>1, <2>1, <2>2, UpTo
  <2> QED BY <2>3
<1>8. OpcodePos(Pos) = it[m]
  BY DEF OpcodePos
<1> HIDE DEF it
<1> QED
  <2>1. m \in 0..m /\ it[m] = End(reached(m))
    BY <1>1, <1>7
  <2>2. ASSUME NEW j \in Nat, j <= Len(code) PROVE j <= End(j)
    <3> DEFINE U == {i \in 0..Len(code) : i <= End(i)}
    <3>1. 0 \in U
      BY <1>0, <1>000
    <3>2. ASSUME NEW i \in 1..Len(code), i - 1 \in U PROVE i \in U
      <4>1. i - 1 \in 0..Len(code) /\ i \in 0..Len(code) /\ i - 1 < i
        BY <1>0
      <4>2. End(i - 1) < End(i) /\ End(i - 1) \in Nat /\ End(i) \in Nat /\ i - 1 <= End(i - 1)
        BY <1>00, <3>2, <4>1
      <4> QED BY <4>1, <4>2
    <3>3. \A i \in 0..Len(code) : i \in U
      <4> HIDE DEF U
      <4> QED BY <1>0, <3>1, <3>2, UpTo
    <3>4. j \in 0..Len(code)
      BY <1>0, <2>2
    <3> QED BY <3>3, <3>4
  <2>3. at <= Pos
    BY <1>0, <1>00, <2>2
  <2>4. reached(m) = a
    BY <1>0, <1>00, <2>3
  <2> QED BY <1>8, <2>1, <2>4

-----------------------------------------------------------------------------
(* The frame the roots are computed from. *)

ForceAt(n, L, frames, pos) ==
  n = L \/ (frames[n].start <= pos /\ pos < frames[n + 1].start)

FirstInForce(L, frames, pos) ==
  CHOOSE n \in 0..L : ForceAt(n, L, frames, pos) /\ \A k \in 0..n-1 : ~ForceAt(k, L, frames, pos)

LEMMA FirstFound ==
  ASSUME NEW L \in Nat, NEW F, NEW pos \in Int, \A n \in 0..L : F[n].start \in Int,
         F[0].start <= pos, \A f, g \in 1..L : f < g => F[f].start < F[g].start
  PROVE  /\ FirstInForce(L, F, pos) \in 0..L
         /\ F[FirstInForce(L, F, pos)].start <= pos
         /\ \A f \in FirstInForce(L, F, pos) + 1..L : pos < F[f].start
<1> DEFINE All == {n \in 0..L : ForceAt(n, L, F, pos)}
           Right(n) == ForceAt(n, L, F, pos) /\ \A k \in 0..n-1 : ~ForceAt(k, L, F, pos)
           x == CHOOSE n \in 0..L : Right(n)
<1>1. All \in SUBSET Nat /\ All # {}
  <2>1. L \in 0..L /\ ForceAt(L, L, F, pos)
    BY DEF ForceAt
  <2> QED BY <2>1
<1>2. PICK least \in All : \A y \in All : least <= y
  <2> HIDE DEF All
  <2> QED BY <1>1, LeastNumber
<1>3. least \in 0..L /\ Right(least)
  <2>1. ASSUME NEW k \in 0..least-1, ForceAt(k, L, F, pos) PROVE FALSE
    <3>1. k \in All /\ k < least
      BY <2>1
    <3> QED BY <1>2, <3>1
  <2> QED BY <1>2, <2>1
<1>4. x \in 0..L /\ Right(x)
  <2> HIDE DEF Right
  <2> QED BY <1>3
<1>5. FirstInForce(L, F, pos) = x
  BY DEF FirstInForce
<1> HIDE DEF x
<1>6. ASSUME NEW k \in 1..x, F[k - 1].start <= pos PROVE F[k].start <= pos
  <2>1. k - 1 \in 0..x-1 /\ k - 1 # L /\ (k - 1) + 1 = k /\ k \in 0..L
    BY <1>4
  <2>2. ~ForceAt(k - 1, L, F, pos)
    BY <1>4, <2>1
  <2>3. ~(pos < F[k].start)
    BY <1>6, <2>1, <2>2 DEF ForceAt
  <2> QED BY <2>1, <2>3
<1>7. F[x].start <= pos
  <2> DEFINE U == {k \in 0..x : F[k].start <= pos}
  <2>1. x \in Nat /\ 0 \in U
    BY <1>4
  <2>2. \A k \in 1..x : k - 1 \in U => k \in U
    BY <1>6
  <2>3. \A k \in 0..x : k \in U
    <3> HIDE DEF U
    <3> QED BY <2>1, <2>2, UpTo
  <2> QED BY <2>1, <2>3
<1>8. ASSUME NEW f \in x + 1..L PROVE pos < F[f].start
  <2>1. x # L /\ x + 1 \in 1..L /\ f \in 1..L /\ x + 1 \in 0..L /\ f \in 0..L
    BY <1>4
  <2>2. pos < F[x + 1].start
    BY <1>4, <2>1 DEF ForceAt
  <2>3. f = x + 1 \/ x + 1 < f
    BY <1>4
  <2>4. f = x + 1 \/ F[x + 1].start < F[f].start
    BY <2>1, <2>3
  <2>5. F[x + 1].start \in Int /\ F[f].start \in Int
    BY <2>1
  <2> QED BY <2>2, <2>4, <2>5
<1> QED
  BY <1>4, <1>5, <1>7, <1>8

(* The frame's position is behind instruction b; from there to a the types *)
(* are those the instructions leave.                                       *)
Located(T, frame, b, a) ==
  /\ frame \in FrameRecord /\ b \in 0..a /\ frame.start = End(b)
  /\ T[b] = TypesAt(frame, method)
  /\ \A n \in b + 1..a : FramesAt(table, method, code, n) = {}

LEMMA FrameFound ==
  ASSUME IInv, NEW m \in Nat, m <= Len(code), NEW T, TableRight(table, method, code, m),
         History(T, table, method, code, m), NEW a \in 0..m
  PROVE  \E b \in 0..a : Located(T, FrameAt(End(a)), b, a)
<1> DEFINE L == Len(table)
           F == Frames(table, method)
           pos == End(a)
           x == FirstInForce(L, F, pos)
<1>1. /\ method \in Methods /\ code \in Seq(Code) /\ Len(code) \in Nat
      /\ table \in Seq(EntryRecord) /\ L \in Nat
  BY InvParts, ListFacts
<1>2. /\ \A j \in 0..m : End(j) \in Nat
      /\ \A i, j \in 0..m : (i < j <=> End(i) < End(j)) /\ (End(i) = End(j) => i = j)
      /\ End(0) = 0
  <2>1. \A j \in 0..m : j \in 0..Len(code)
    BY <1>1
  <2> QED BY <1>1, <2>1, EndsFacts, EndsIncrease DEF End
<1>3. \A n \in 0..L : F[n] \in FrameRecord
  <2>1. method.parameters \in Seq(Value)
    BY <1>1, MethodFacts
  <2> QED BY <1>1, <2>1, ParsedFacts DEF Frames
<1>4. F[0].start = 0
  <2>1. method.parameters \in Seq(Value)
    BY <1>1, MethodFacts
  <2>2. F[0] = ParseMethodDescriptor(method.parameters)
    BY <1>1, <2>1, ParsedFacts DEF Frames
  <2> QED BY <2>2 DEF ParseMethodDescriptor
<1>5. FrameAt(pos) = F[x]
  <2>1. StackMap = F
    BY DEF StackMap, Frames
  <2> QED BY <2>1 DEF FrameAt, FirstInForce, ForceAt
<1>6. /\ \A f \in 1..L : \E b \in 0..m : F[f].start = End(b)
      /\ \A f, g \in 1..L : f < g => F[f].start < F[g].start
  BY DEF TableRight, End
<1>7. \A n : FramesAt(table, method, code, n) = {f \in 1..L : F[f].start = End(n)}
  BY DEF FramesAt, End
<1>8. /\ \A n \in 0..m : \A f \in FramesAt(table, method, code, n) : T[n] = TypesAt(F[f], method)
      /\ FramesAt(table, method, code, 0) = {} => T[0] = TypesAt(F[0], method)
  BY DEF History
<1> HIDE DEF F, L
<1>9. \A n \in 0..L : F[n].start \in Int
  BY <1>3 DEF FrameRecord
<1>10. pos \in Int /\ F[0].start <= pos
  BY <1>2, <1>4
<1>11. /\ x \in 0..L /\ F[x].start <= pos
       /\ \A f \in x + 1..L : pos < F[f].start
  <2> HIDE DEF pos
  <2> QED BY <1>1, <1>6, <1>9, <1>10, FirstFound DEF L
<1> HIDE DEF x
<1>12. CASE x = 0
  <2>1. \A f \in 1..L : pos < F[f].start
    BY <1>11, <1>12
  <2>2. ASSUME NEW n \in 0..a PROVE FramesAt(table, method, code, n) = {}
    <3>1. n \in 0..m /\ ~(a < n)
      BY <1>1
    <3>2. ~(pos < End(n))
      BY <1>2, <3>1
    <3> QED BY <1>7, <2>1, <3>2
  <2>3. T[0] = TypesAt(F[0], method) /\ 0 \in 0..a
    BY <1>8, <2>2
  <2>4. \A n \in 0 + 1..a : n \in 0..a
    OBVIOUS
  <2>5. Located(T, F[x], 0, a)
    BY <1>2, <1>3, <1>4, <1>11, <1>12, <2>2, <2>3, <2>4 DEF Located
  <2> QED BY <1>5, <2>3, <2>5
<1>13. CASE x # 0
  <2>1. x \in 1..L /\ x \in 0..L
    BY <1>11, <1>13
  <2>2. PICK b \in 0..m : F[x].start = End(b)
    BY <1>6, <2>1
  <2>3. b \in 0..a
    <3>1. End(b) <= End(a) /\ End(b) \in Nat /\ End(a) \in Nat
      BY <1>2, <1>11, <2>2
    <3>2. ~(a < b)
      BY <1>2, <3>1
    <3> QED BY <3>2
  <2>4. T[b] = TypesAt(F[x], method)
    <3>1. x \in FramesAt(table, method, code, b)
      BY <1>7, <2>1, <2>2
    <3> QED BY <1>8, <3>1
  <2>5. ASSUME NEW n \in b + 1..a, NEW f \in 1..L, F[f].start = End(n) PROVE FALSE
    <3>1. n \in 0..m /\ b < n /\ ~(a < n) /\ b # n
      BY <2>3
    <3>2. End(b) < End(n) /\ ~(End(a) < End(n)) /\ End(n) \in Nat /\ End(b) \in Nat
      BY <1>2, <3>1
    <3>3. f \notin x + 1..L
      BY <1>11, <2>5, <3>2
    <3>4. f = x \/ f < x
      BY <1>11, <3>3
    <3>5. f # x
      BY <2>2, <2>5, <3>2
    <3>6. F[f].start < F[x].start
      BY <1>6, <2>1, <3>4, <3>5
    <3> QED BY <2>2, <2>5, <3>2, <3>6
  <2>6. \A n \in b + 1..a : FramesAt(table, method, code, n) = {}
    BY <1>7, <2>5
  <2>7. Located(T, F[x], b, a)
    BY <1>3, <2>1, <2>2, <2>3, <2>4, <2>6 DEF Located
  <2> QED BY <1>5, <2>3, <2>7
<1> QED
  BY <1>12, <1>13

LEMMA MachineAgrees ==
  ASSUME method \in Methods, NEW frame \in FrameRecord, Typed(TypesAt(frame, method), method)
  PROVE  Agrees(Machine(frame), TypesAt(frame, method).locals, TypesAt(frame, method).stack)
<1> DEFINE ls == frame.locals
           s == Spread(frame.stack)
           tags == TagsOf(ls, MaxLocals)
<1>1. ls \in Seq(Value) /\ frame.stack \in Seq(Value) /\ MaxLocals \in Nat /\ MaxStack \in Nat
  BY Sizes DEF FrameRecord
<1>2. TypesAt(frame, method).locals = tags /\ TypesAt(frame, method).stack = s
  BY TypesParts DEF TypesAt, MaxLocals
<1>3. s \in Seq(Tag) /\ Len(s) <= MaxStack /\ Width(frame.stack) = Len(s) /\ DOMAIN s = 1..Len(s)
      /\ Len(s) \in Nat
  BY <1>1, <1>2, SpreadFacts DEF Typed, MaxStack
<1>4. Machine(frame) = [locals |-> FlagsOf(ls, MaxLocals), stack |-> FlagsOf(frame.stack, MaxStack),
                        sp |-> Width(frame.stack)]
  BY DEF Machine
<1>5. FlagsRight(FlagsOf(ls, MaxLocals), tags)
  BY DEF FlagsRight, FlagsOf, TagsOf, IsReference
<1>6. FlagsRight(FlagsOf(frame.stack, MaxStack), s)
  <2>1. \A j \in 1..Len(s) : j \in 1..MaxStack /\ j <= Width(frame.stack)
    BY <1>1, <1>3
  <2> QED BY <1>3, <2>1 DEF FlagsRight, FlagsOf, IsReference
<1>7. DOMAIN FlagsOf(ls, MaxLocals) = DOMAIN tags
  BY DEF FlagsOf, TagsOf
<1>8. IsMachine(Machine(frame))
  BY <1>4 DEF IsMachine
<1> QED
  BY <1>2, <1>3, <1>4, <1>5, <1>6, <1>7, <1>8 DEF Agrees

LEMMA InterpretedFacts ==
  ASSUME IInv, NarrowMenus, at >= 1, NEW b \in 0..at - 1, FrameAt(End(at - 1)).start = End(b)
  PROVE  Interpreted = b + 1..at - 1
<1> DEFINE a == at - 1
<1>1. /\ at \in 1..Len(code) /\ a \in 0..Len(code) /\ code \in Seq(Code) /\ Len(code) \in Nat
      /\ DOMAIN code = 1..Len(code)
  <2>1. at \in 0..Len(code) /\ code \in Seq(Code) /\ Len(code) \in Nat
    BY InvParts
  <2> QED BY <2>1, ListFacts
<1>2. /\ \A j \in 0..Len(code) : End(j) \in Nat
      /\ \A i, j \in 0..Len(code) : i < j <=> End(i) < End(j)
  BY <1>1, EndsFacts, EndsIncrease DEF End
<1>3. Interpreted = {n \in DOMAIN code : End(b) <= End(n - 1) /\ End(n - 1) < End(a)}
  BY OpcodeFound DEF Interpreted
<1> HIDE DEF a
<1>4. a = at - 1 /\ a \in Nat /\ b \in 0..a /\ b \in 0..Len(code)
  BY <1>1 DEF a
<1>5. ASSUME NEW n \in 1..Len(code)
      PROVE  (End(b) <= End(n - 1) /\ End(n - 1) < End(a)) <=> n \in b + 1..a
  <2>1. n - 1 \in 0..Len(code)
    BY <1>1
  <2>2. End(n - 1) < End(a) <=> n - 1 < a
    BY <1>1, <1>2, <2>1, <1>4
  <2>3. End(b) <= End(n - 1) <=> ~(n - 1 < b)
    BY <1>2, <1>4, <2>1
  <2> QED BY <1>4, <2>1, <2>2, <2>3
<1>6. \A n \in b + 1..a : n \in 1..Len(code)
  BY <1>1, <1>4
<1> QED
  BY <1>1, <1>3, <1>4, <1>5, <1>6

LEMMA RootsFound ==
  ASSUME IInv, PlainMenus, NEW m \in Nat, m <= Len(code), NEW T,
         TableRight(table, method, code, m), History(T, table, method, code, m),
         at >= 1, at - 1 <= m
  PROVE  Agrees(FrameRoots, T[at - 1].locals, T[at - 1].stack)
<1> DEFINE L == Len(code)
           a == at - 1
           executed == Interpreted
           first == Machine(FrameAt(OpcodePos(Pos)))
           Body(n, v) == IF n \in executed THEN Interpret(v, code[n]) ELSE v
           Def(g) == [n \in 0..L |-> IF n = 0 THEN first ELSE Body(n, g[n - 1])]
           it == CHOOSE g : g = Def(g)
<1>1. /\ method \in Methods /\ code \in Seq(Code) /\ code \in Seq(method.menu)
      /\ L \in Nat /\ at \in 1..L /\ a \in 0..m /\ a \in 0..L /\ NarrowMenus
  <2>1. /\ method \in Methods /\ code \in Seq(Code) /\ code \in Seq(method.menu)
        /\ L \in Nat /\ at \in 0..L
    BY InvParts
  <2> QED BY <2>1 DEF PlainMenus
<1>2. PICK b \in 0..a : Located(T, FrameAt(End(a)), b, a)
  BY <1>1, FrameFound
<1>3. /\ FrameAt(End(a)) \in FrameRecord /\ FrameAt(End(a)).start = End(b)
      /\ T[b] = TypesAt(FrameAt(End(a)), method)
      /\ \A n \in b + 1..a : FramesAt(table, method, code, n) = {}
  BY <1>2 DEF Located
<1>4. executed = b + 1..a
  BY <1>1, <1>3, InterpretedFacts
<1>5. first = Machine(FrameAt(End(a)))
  BY <1>1, OpcodeFound
<1>6. \E g : g = Def(g)
  <2> DEFINE Runs(g, n) == g[0] = first /\ \A j \in 1..n : g[j] = Body(j, g[j - 1])
             R == {n \in 0..L : \E g : Runs(g, n)}
  <2> HIDE DEF L, a, executed, first, Body
  <2>1. 0 \in R
    <3> DEFINE g == [j \in 0..0 |-> first]
    <3>1. g[0] = first /\ \A j \in 1..0 : g[j] = Body(j, g[j - 1])
      OBVIOUS
    <3>2. Runs(g, 0)
      BY <3>1
    <3>3. 0 \in 0..L
      BY <1>1
    <3> HIDE DEF g, Runs
    <3> QED BY <3>2, <3>3
  <2>2. ASSUME NEW n \in 1..L, n - 1 \in R PROVE n \in R
    <3>1. PICK g : Runs(g, n - 1)
      BY <2>2
    <3> DEFINE h == [j \in 0..n |-> IF j = n THEN Body(n, g[n - 1]) ELSE g[j]]
    <3>2. h[0] = first /\ \A j \in 0..n - 1 : h[j] = g[j]
      BY <1>1, <3>1
    <3>3. h[n] = Body(n, h[n - 1])
      <4>1. n \in 0..n /\ h[n] = Body(n, g[n - 1]) /\ n - 1 \in 0..n - 1
        BY <1>1
      <4> QED BY <3>2, <4>1
    <3>4. ASSUME NEW j \in 1..n PROVE h[j] = Body(j, h[j - 1])
      <4>1. CASE j = n
        BY <3>3, <4>1
      <4>2. CASE j # n
        <5>1. j \in 1..n - 1 /\ j \in 0..n - 1 /\ j - 1 \in 0..n - 1
          BY <1>1, <4>2
        <5>2. g[j] = Body(j, g[j - 1]) /\ h[j] = g[j] /\ h[j - 1] = g[j - 1]
          BY <3>1, <3>2, <5>1
        <5> QED BY <5>2
      <4> QED BY <4>1, <4>2
    <3> HIDE DEF h
    <3>5. Runs(h, n)
      BY <3>2, <3>4
    <3> HIDE DEF Runs
    <3> QED BY <3>5
  <2>3. \A n \in 0..L : n \in R
    <3> HIDE DEF R
    <3> QED BY <1>1, <2>1, <2>2, UpTo
  <2>4. PICK g : Runs(g, L)
    <3>1. L \in R
      <4>1. L \in 0..L
        BY <1>1
      <4> HIDE DEF R
      <4> QED BY <2>3, <4>1
    <3> HIDE DEF Runs
    <3> QED BY <3>1
  <2> DEFINE h == [j \in 0..L |-> g[j]]
  <2>5. h = [n \in 0..L |-> IF n = 0 THEN first ELSE Body(n, h[n - 1])]
    <3>1. ASSUME NEW n \in 0..L
          PROVE  h[n] = IF n = 0 THEN first ELSE Body(n, h[n - 1])
      <4>1. CASE n = 0
        BY <1>1, <2>4, <4>1
      <4>2. CASE n # 0
        <5>1. n \in 1..L /\ n - 1 \in 0..L
          BY <1>1, <4>2
        <5>2. h[n] = g[n] /\ h[n - 1] = g[n - 1] /\ g[n] = Body(n, g[n - 1])
          BY <2>4, <5>1
        <5> QED BY <4>2, <5>2
      <4> QED BY <4>1, <4>2
    <3>2. h = [n \in 0..L |-> h[n]]
      OBVIOUS
    <3> HIDE DEF h
    <3> QED BY <3>1, <3>2
  <2> HIDE DEF h
  <2> QED BY <2>5
<1>7. it = Def(it)
  <2> HIDE DEF Def
  <2> QED BY <1>6
<1>8. it[0] = first /\ \A n \in 1..L : it[n] = Body(n, it[n - 1])
  <2> HIDE DEF it, Body, L, first
  <2>1. it = [n \in 0..L |-> IF n = 0 THEN first ELSE Body(n, it[n - 1])]
    BY <1>7
  <2>2. \A n \in 1..L : n \in 0..L /\ n # 0
    BY <1>1
  <2> QED BY <1>1, <2>1, <2>2
<1>9. FrameRoots = it[L]
  BY DEF FrameRoots
<1>10. Typed(T[b], method) /\ \A n \in 0..m : Typed(T[n], method)
  <2>1. b \in 0..m
    BY <1>1
  <2> QED BY <2>1 DEF History
<1>11. Agrees(it[0], T[b].locals, T[b].stack)
  BY <1>1, <1>3, <1>5, <1>8, <1>10, MachineAgrees
<1> DEFINE reached(n) == IF n <= b THEN b ELSE IF n <= a THEN n ELSE a
           Fine(n) == Agrees(it[n], T[reached(n)].locals, T[reached(n)].stack)
           U == {n \in 0..L : Fine(n)}
<1>12. b \in Nat /\ a \in Nat /\ b <= a /\ a <= m /\ at = a + 1
  BY <1>1
<1> HIDE DEF it, a, first
<1>13. 0 \in U
  <2>1. reached(0) = b
    BY <1>12
  <2> HIDE DEF reached
  <2> QED BY <1>1, <1>11, <2>1
<1>14. ASSUME NEW n \in 1..L, n - 1 \in U PROVE n \in U
  <2>1. n \in 0..L /\ Fine(n - 1) /\ it[n] = Body(n, it[n - 1])
    BY <1>1, <1>8, <1>14
  <2>2. CASE n \notin b + 1..a
    <3>1. reached(n) = reached(n - 1)
      BY <1>12, <2>2
    <3>2. it[n] = it[n - 1]
      BY <1>4, <2>1, <2>2
    <3> HIDE DEF reached
    <3> QED BY <2>1, <3>1, <3>2
  <2>3. CASE n \in b + 1..a
    <3>1. reached(n) = n /\ reached(n - 1) = n - 1 /\ n \in 1..m /\ n - 1 \in 0..m
      BY <1>12, <2>3
    <3>2. it[n] = Interpret(it[n - 1], code[n])
      BY <1>4, <2>1, <2>3
    <3> DEFINE i == code[n]
               t == T[n - 1]
    <3>3. Goes(i, t, method) /\ T[n] = NextTypes(i, t) /\ Typed(t, method)
      BY <1>3, <1>10, <2>3, <3>1 DEF History
    <3>4. i \in Code /\ i \in method.menu
      BY <1>1, ListFacts
    <3>5. i.op \notin {"multianewarray", "wideiinc"}
      BY <1>1, <3>4 DEF PlainMenus, NarrowMenus
    <3>6. Agrees(it[n - 1], t.locals, t.stack)
      <4> HIDE DEF reached
      <4> QED BY <2>1, <3>1
    <3>7. /\ Verified(i, t.locals, t.stack) /\ Len(StackAfter(i, t.stack)) <= MaxStack
          /\ i.op \notin Jumps \cup Exits
          /\ t.locals \in [1..MaxLocals -> Tag] /\ t.stack \in Seq(Tag)
          /\ Len(t.stack) <= MaxStack
      BY <3>3 DEF Goes, Typed, MaxStack, MaxLocals
    <3>8. T[n].locals = LocalsAfter(i, t.locals) /\ T[n].stack = StackAfter(i, t.stack)
      BY <3>3, TypesParts DEF NextTypes
    <3> HIDE DEF i, t, reached, executed
    <3>9. Agrees(Interpret(it[n - 1], i), LocalsAfter(i, t.locals), StackAfter(i, t.stack))
      BY <1>1, <3>4, <3>5, <3>6, <3>7, InterpretAgrees
    <3>10. Fine(n)
      BY <3>1, <3>2, <3>8, <3>9 DEF i
    <3> QED BY <2>1, <3>10
  <2> QED BY <2>2, <2>3
<1>15. \A n \in 0..L : n \in U
  <2> HIDE DEF U, L
  <2> QED BY <1>1, <1>13, <1>14, UpTo
<1>16. Fine(L) /\ reached(L) = a
  <2>1. L \in U
    BY <1>1, <1>15
  <2>2. a <= L /\ L \in Nat
    BY <1>1
  <2>3. reached(L) = a
    BY <1>12, <2>2
  <2> HIDE DEF Fine, reached
  <2> QED BY <2>1, <2>3
<1> HIDE DEF reached
<1> QED
  BY <1>9, <1>16 DEF a

-----------------------------------------------------------------------------
(* The theorems. *)

LEMMA TypesInPlace ==
  IInv => TypeOK
<1> SUFFICES ASSUME IInv PROVE TypeOK
  OBVIOUS
<1>1. /\ method \in Methods /\ code \in Seq(method.menu) /\ phase \in Phase
      /\ at \in 0..Len(code) /\ Typed(Types(locals, stack), method)
      /\ DOMAIN table = 1..Len(table)
  BY InvParts
<1>2. PICK m \in Nat : \E T : Behind(T, m, table, code, phase, at, locals, stack, method)
  BY DEF IInv
<1>3. \A n \in DOMAIN table : table[n].delta \in Nat
  BY <1>1, <1>2 DEF Behind, TableRight
<1>4. /\ locals \in [1..MaxLocals -> Tag] /\ WholeLongs(locals)
      /\ stack \in Seq(Tag) /\ Len(stack) <= MaxStack /\ WholeLongs(stack)
  BY <1>1, TypesParts DEF Typed, MaxLocals, MaxStack
<1> QED
  BY <1>1, <1>3, <1>4 DEF TypeOK, Phase

(* The verifier's types describe the frame in every reachable state: slots *)
(* hold whole values, the operands fit the stack the method declares, and  *)
(* every stack map entry counts forward (StackMap.cpp).                    *)
THEOREM TypesAreRight == Spec => []TypeOK
<1>1. IInv => TypeOK
  BY TypesInPlace
<1> QED
  BY <1>1, Invariance, PTL

LEMMA CollectedIn ==
  ASSUME IInv, MayCollect
  PROVE  at >= 1 /\ phase \in {"operands", "popped", "thrown"}
<1>1. phase \in {"operands", "popped", "thrown"}
  BY DEF MayCollect
<1>2. PICK m \in Nat : \E T : Behind(T, m, table, code, phase, at, locals, stack, method)
  BY DEF IInv
<1> QED
  BY <1>1, <1>2 DEF Behind, Current

(* Whatever the method, unless it has one of the instructions whose        *)
(* operand bytes consumeOpcodeParams miscounts, the walk of                *)
(* FrameRoots::compute gets from the start of the code to the opcode that  *)
(* is being executed.                                                      *)
THEOREM CurrentOpcodeFound ==
  ASSUME NarrowMenus
  PROVE  Spec => []OpcodeIsCurrent
<1>1. IInv => OpcodeIsCurrent
  BY CollectedIn, OpcodeFound DEF OpcodeIsCurrent
<1> QED
  BY <1>1, Invariance, PTL

LEMMA NoBranch ==
  ASSUME NarrowMenus, IInv
  PROVE  StaysInBlock
<1> SUFFICES ASSUME MayCollect, NEW n \in Interpreted
             PROVE  code[n].op \notin Jumps \cup Exits
  BY DEF StaysInBlock
<1>1. at >= 1 /\ phase \in {"operands", "popped", "thrown"} /\ at \in 0..Len(code)
      /\ Len(code) \in Nat
  BY CollectedIn, InvParts
<1>2. PICK m \in Nat : \E T : Behind(T, m, table, code, phase, at, locals, stack, method)
  BY DEF IInv
<1>3. PICK T : Behind(T, m, table, code, phase, at, locals, stack, method)
  BY <1>2
<1>4. /\ m \in {Len(code) - 1, Len(code)} /\ TableRight(table, method, code, m)
      /\ History(T, table, method, code, m) /\ at - 1 <= m
  BY <1>1, <1>3 DEF Behind, Current
<1>5. m <= Len(code) /\ at - 1 \in 0..m
  BY <1>1, <1>4
<1>6. PICK b \in 0..at - 1 : Located(T, FrameAt(End(at - 1)), b, at - 1)
  BY <1>4, <1>5, FrameFound
<1>7. n \in b + 1..at - 1
  BY <1>1, <1>6, InterpretedFacts DEF Located
<1>8. n \in 1..m
  BY <1>5, <1>7
<1>9. FramesAt(table, method, code, n) = {}
  BY <1>6, <1>7 DEF Located
<1> QED
  BY <1>4, <1>8, <1>9 DEF History, Goes

(* The abstract interpreter never meets a branch, a return or a throw: a   *)
(* frame of the stack map follows each of them, so the instructions from   *)
(* the last frame to the current one are executed one after the other.     *)
THEOREM BlockIsStraight ==
  ASSUME NarrowMenus
  PROVE  Spec => []StaysInBlock
<1>1. IInv => StaysInBlock
  BY NoBranch
<1> QED
  BY <1>1, Invariance, PTL

LEMMA RootsFit ==
  ASSUME PlainMenus, HandlersLoaded, IInv
  PROVE  RootsAreExact
<1> SUFFICES ASSUME MayCollect
             PROVE  /\ \A j \in 1..MaxLocals : FrameRoots.locals[j] <=> locals[j] = "ref"
                    /\ \A j \in DOMAIN stack : FrameRoots.stack[j] <=> stack[j] = "ref"
  BY DEF RootsAreExact
<1>1. at >= 1 /\ phase \in {"operands", "popped"} /\ at \in 1..Len(code) /\ Len(code) \in Nat
      /\ method \in Methods /\ code \in Seq(Code)
  <2>1. phase \in {"operands", "popped"}
    BY DEF MayCollect
  <2> QED BY <2>1, CollectedIn, InvParts
<1>2. PICK m \in Nat : \E T : Behind(T, m, table, code, phase, at, locals, stack, method)
  BY DEF IInv
<1>3. PICK T : Behind(T, m, table, code, phase, at, locals, stack, method)
  BY <1>2
<1> DEFINE t == T[at - 1]
           i == code[at]
<1>4. /\ m \in {Len(code) - 1, Len(code)} /\ TableRight(table, method, code, m)
      /\ History(T, table, method, code, m) /\ at - 1 <= m
      /\ CollectsBefore(i) \/ CollectsAfter(i)
      /\ Goes(i, t, method) /\ t.locals = locals
      /\ phase = "operands" => stack = t.stack
      /\ phase = "popped" => stack = Drop(Width(PoppedFirst(i)), t.stack)
  BY <1>1, <1>3 DEF Behind, Current
<1>5. m <= Len(code) /\ at - 1 \in 0..m /\ i \in Code
  BY <1>1, <1>4
<1>6. Agrees(FrameRoots, t.locals, t.stack)
  BY <1>1, <1>4, <1>5, RootsFound
<1>7. Typed(t, method)
  BY <1>4, <1>5 DEF History
<1> HIDE DEF t, i
<1>8. /\ t.locals \in [1..MaxLocals -> Tag] /\ t.stack \in Seq(Tag) /\ WholeLongs(t.stack)
      /\ Len(t.stack) \in Nat /\ DOMAIN t.stack = 1..Len(t.stack)
  <2>1. t.locals \in [1..MaxLocals -> Tag] /\ t.stack \in Seq(Tag) /\ WholeLongs(t.stack)
    BY <1>7 DEF Typed, MaxLocals
  <2> QED BY <2>1, ListFacts
<1> DEFINE roots == FrameRoots
<1>9. /\ \A j \in DOMAIN t.locals : roots.locals[j] <=> t.locals[j] = "ref"
      /\ \A j \in DOMAIN t.stack : roots.stack[j] <=> t.stack[j] = "ref"
  BY <1>6 DEF Agrees, FlagsRight
<1> HIDE DEF roots
<1>10. \A j \in 1..MaxLocals : roots.locals[j] <=> locals[j] = "ref"
  BY <1>4, <1>8, <1>9
<1>11. \A j \in DOMAIN stack : j \in DOMAIN t.stack /\ stack[j] = t.stack[j]
  <2>1. CASE phase = "operands"
    BY <1>4, <2>1
  <2>2. CASE phase = "popped"
    <3> DEFINE w == Width(PoppedFirst(i))
               s == t.stack
    <3>1. w \in 0..Len(s)
      BY <1>4, <1>5, <1>8, PoppedFacts DEF Goes
    <3>2. stack = Drop(w, s)
      BY <1>4, <2>2
    <3> HIDE DEF w
    <3>3. w \in Nat /\ w <= Len(s)
      BY <1>8, <3>1
    <3>4. stack \in Seq(Tag) /\ Len(stack) = Len(s) - w
          /\ \A j \in 1..Len(s) - w : stack[j] = s[j]
      BY <1>8, <3>2, <3>3, DropFacts
    <3>5. DOMAIN stack = 1..Len(s) - w
      BY <3>4
    <3>6. \A j \in 1..Len(s) - w : j \in 1..Len(s)
      BY <1>8, <3>3
    <3> QED BY <1>8, <3>4, <3>5, <3>6
  <2> QED BY <1>1, <2>1, <2>2
<1> QED
  BY <1>9, <1>10, <1>11 DEF roots

(* Of every method whose instructions the abstract interpreter executes as *)
(* the interpreter does, whenever the collector may run, FrameRoots        *)
(* reports exactly the slots that hold references.  With multianewarray in *)
(* the menu, or with a handler's catch type still to be loaded, it does    *)
(* not: see the runs that expect a violation.                              *)
THEOREM RootsFoundExactly ==
  ASSUME PlainMenus, HandlersLoaded
  PROVE  Spec => []RootsAreExact
<1>1. IInv => RootsAreExact
  BY RootsFit
<1> QED
  BY <1>1, Invariance, PTL
=============================================================================
