-------------------------- MODULE InstructionsProofs --------------------------
(***************************************************************************)
(* Proofs about module Instructions: operands have the types they are used *)
(* as, no instruction goes on with an address from before a collection,    *)
(* and arrays and fields hold instances of their class.                    *)
(*                                                                         *)
(* The invariant IInv has the shape of the stack and of the heap, the      *)
(* arrays multianewarray is filling, and that there is a set of objects,   *)
(* all where the last collection put them, that has whatever the operands  *)
(* and those arrays lead to. The set need not be the least one, which is   *)
(* why an instruction may drop operands and may follow a pointer without   *)
(* anything to prove: only what adds a pointer needs an argument.          *)
(* Instances is kept on its own, since arraycopy does not keep it for      *)
(* every program.                                                          *)
(***************************************************************************)
EXTENDS Instructions, FiniteSetTheorems, FunctionTheorems, NumberInduction, TLAPS

-----------------------------------------------------------------------------
(* Sequences. *)

LEMMA ListFacts ==
  ASSUME NEW S, NEW l \in Seq(S)
  PROVE  Len(l) \in Nat /\ DOMAIN l = 1..Len(l) /\ \A i \in 1..Len(l) : l[i] \in S
OBVIOUS

LEMMA PartOfList ==
  ASSUME NEW S, NEW l \in Seq(S), NEW m \in 1..Len(l) + 1, NEW n \in 0..Len(l), m <= n + 1
  PROVE  /\ SubSeq(l, m, n) \in Seq(S) /\ Len(SubSeq(l, m, n)) = n - m + 1
         /\ \A i \in 1..n - m + 1 : SubSeq(l, m, n)[i] = l[m + i - 1]
<1>1. SubSeq(l, m, n) = [i \in 1..n - m + 1 |-> l[m + i - 1]]
  OBVIOUS
<1>2. \A i \in 1..n - m + 1 : l[m + i - 1] \in S
  OBVIOUS
<1> QED
  BY <1>1, <1>2

-----------------------------------------------------------------------------
(* How many slots operands take. *)

OperandType == {"int", "long", "float", "ref"}

LongsFrom(ts, i) == {j \in i..Len(ts) : ts[j] = "long"}

LEMMA SlotsOfSuffix ==
  ASSUME NEW ts \in Seq(OperandType), NEW i \in 1..Len(ts) + 1
  PROVE  SlotsOf(SubSeq(ts, i, Len(ts))) = Len(ts) + 1 - i + Cardinality(LongsFrom(ts, i))
<1> DEFINE s == SubSeq(ts, i, Len(ts))
           T == {j \in DOMAIN s : s[j] = "long"}
           f == [j \in T |-> i + j - 1]
<1>1. Len(s) = Len(ts) + 1 - i /\ DOMAIN s = 1..Len(ts) + 1 - i
      /\ \A j \in 1..Len(ts) + 1 - i : s[j] = ts[i + j - 1]
  BY PartOfList
<1>2. IsFiniteSet(T)
  <2>1. IsFiniteSet(1..Len(ts) + 1 - i)
    BY FS_Interval
  <2> QED BY <1>1, <2>1, FS_Subset
<1>3. f \in Bijection(T, LongsFrom(ts, i))
  <2>1. \A j \in T : f[j] \in LongsFrom(ts, i)
    BY <1>1 DEF LongsFrom
  <2>2. \A j, k \in T : f[j] = f[k] => j = k
    BY <1>1
  <2>3. \A m \in LongsFrom(ts, i) : m - i + 1 \in T /\ f[m - i + 1] = m
    BY <1>1 DEF LongsFrom
  <2> QED BY <2>1, <2>2, <2>3, Fun_IsBij
<1>4. Cardinality(LongsFrom(ts, i)) = Cardinality(T)
  <2>1. ExistsBijection(T, LongsFrom(ts, i))
    BY <1>3 DEF ExistsBijection
  <2> HIDE DEF T
  <2> QED BY <1>2, <2>1, FS_Bijection
<1> QED
  BY <1>1, <1>4 DEF SlotsOf

LEMMA SlotsOfRest ==
  ASSUME NEW ts \in Seq(OperandType), NEW i \in 1..Len(ts)
  PROVE  /\ SlotsOf(SubSeq(ts, i, Len(ts))) = Slots(ts[i]) + SlotsOf(SubSeq(ts, i + 1, Len(ts)))
         /\ SlotsOf(SubSeq(ts, i + 1, Len(ts))) \in Nat
<1>1. /\ IsFiniteSet(LongsFrom(ts, i + 1)) /\ Cardinality(LongsFrom(ts, i + 1)) \in Nat
      /\ i \notin LongsFrom(ts, i + 1)
  <2>1. IsFiniteSet(i + 1..Len(ts))
    BY FS_Interval
  <2>2. IsFiniteSet(LongsFrom(ts, i + 1))
    BY <2>1, FS_Subset DEF LongsFrom
  <2>3. i \notin LongsFrom(ts, i + 1)
    BY DEF LongsFrom
  <2> QED BY <2>2, <2>3, FS_CardinalityType
<1>2. LongsFrom(ts, i) = IF ts[i] = "long" THEN LongsFrom(ts, i + 1) \cup {i} ELSE LongsFrom(ts, i + 1)
  BY DEF LongsFrom
<1>3. Cardinality(LongsFrom(ts, i)) =
        Cardinality(LongsFrom(ts, i + 1)) + (IF ts[i] = "long" THEN 1 ELSE 0)
  <2>1. Cardinality(LongsFrom(ts, i + 1) \cup {i}) = Cardinality(LongsFrom(ts, i + 1)) + 1
    BY <1>1, FS_AddElement
  <2> QED BY <1>1, <1>2, <2>1
<1>4. /\ SlotsOf(SubSeq(ts, i, Len(ts))) = Len(ts) + 1 - i + Cardinality(LongsFrom(ts, i))
      /\ SlotsOf(SubSeq(ts, i + 1, Len(ts))) = Len(ts) - i + Cardinality(LongsFrom(ts, i + 1))
  BY SlotsOfSuffix
<1> QED
  BY <1>1, <1>3, <1>4 DEF Slots

LEMMA SlotsOfNone == SlotsOf(<<>>) = 0
<1>1. {i \in DOMAIN <<>> : <<>>[i] = "long"} = {}
  OBVIOUS
<1> QED
  BY <1>1, FS_EmptySet DEF SlotsOf

LEMMA SlotsOfPart ==
  ASSUME NEW ts \in Seq(OperandType), NEW i \in 1..Len(ts) + 1
  PROVE  /\ SlotsOf(SubSeq(ts, i, Len(ts))) \in Nat /\ SlotsOf(ts) \in Nat
         /\ SlotsOf(SubSeq(ts, i, Len(ts))) <= SlotsOf(ts)
<1> DEFINE S(j) == SlotsOf(SubSeq(ts, j, Len(ts)))
<1>1. SubSeq(ts, 1, Len(ts)) = ts
  OBVIOUS
<1>2. \A j \in 1..Len(ts) : S(j) = Slots(ts[j]) + S(j + 1) /\ S(j + 1) \in Nat
  BY SlotsOfRest
<1>3. S(1) \in Nat
  <2>1. CASE Len(ts) = 0
    <3>1. ts = <<>>
      BY <2>1
    <3>2. S(1) = SlotsOf(ts) /\ SlotsOf(ts) = SlotsOf(<<>>)
      BY <1>1, <3>1
    <3> QED BY <3>2, SlotsOfNone
  <2>2. CASE Len(ts) # 0
    BY <1>2, <2>2 DEF Slots
  <2> QED BY <2>1, <2>2
<1>4. \A j \in 1..Len(ts) : S(j + 1) \in Nat /\ S(j) \in Nat /\ S(j + 1) <= S(j)
  <2>1. \A type : Slots(type) \in 1..2
    BY DEF Slots
  <2> HIDE DEF S
  <2> QED BY <1>2, <2>1
<1> DEFINE T == {m \in Nat : m <= Len(ts) => S(m + 1) \in Nat /\ S(m + 1) <= S(1)}
<1> HIDE DEF S
<1>5. 0 \in T
  BY <1>3
<1>6. ASSUME NEW m \in Nat, m \in T PROVE m + 1 \in T
  <2> SUFFICES ASSUME m + 1 <= Len(ts) PROVE S(m + 2) \in Nat /\ S(m + 2) <= S(1)
    OBVIOUS
  <2>1. m + 1 \in 1..Len(ts) /\ (m + 1) + 1 = m + 2
    OBVIOUS
  <2>2. S(m + 2) \in Nat /\ S(m + 2) <= S(m + 1)
    BY <1>4, <2>1
  <2> QED BY <1>3, <1>6, <2>2
<1>7. Nat \subseteq T
  <2> HIDE DEF T
  <2> QED BY <1>5, <1>6, SetInduction
<1>8. i - 1 \in T
  <2>1. i - 1 \in Nat
    OBVIOUS
  <2> HIDE DEF T
  <2> QED BY <1>7, <2>1
<1>9. S(i) \in Nat /\ S(i) <= S(1)
  BY <1>8
<1> QED
  BY <1>1, <1>3, <1>9 DEF S

-----------------------------------------------------------------------------
(* Numbers of the width of an operand. *)

LEMMA Widths ==
  /\ Width["int"] = IntBits /\ Width["long"] = LongBits /\ Width["byte"] = ByteBits
  /\ \A type \in Primitives :
       /\ Width[type] \in Nat \ {0}
       /\ 2 ^ Width[type] \in Nat \ {0} /\ 2 ^ (Width[type] - 1) \in Nat \ {0}
       /\ \A n \in 0..Width[type] : 2 ^ n \in Nat \ {0}
<1>1. Width["int"] = IntBits /\ Width["long"] = LongBits /\ Width["byte"] = ByteBits
  BY DEF Width
<1>2. \A n \in 0..IntBits + LongBits : 2 ^ n \in Nat \ {0}
  BY WidthsAssumption
<1>3. ASSUME NEW w \in {IntBits, LongBits, ByteBits}
      PROVE  /\ w \in Nat \ {0} /\ \A n \in 0..w : 2 ^ n \in Nat \ {0}
             /\ 2 ^ w \in Nat \ {0} /\ 2 ^ (w - 1) \in Nat \ {0}
  <2>1. w \in Nat \ {0} /\ w <= IntBits + LongBits
    BY WidthsAssumption
  <2>2. w \in 0..IntBits + LongBits /\ w - 1 \in 0..IntBits + LongBits
        /\ \A n \in 0..w : n \in 0..IntBits + LongBits
    BY <2>1, WidthsAssumption
  <2> QED BY <1>2, <2>1, <2>2
<1> QED
  BY <1>1, <1>3 DEF Primitives

LEMMA PatternRange ==
  ASSUME NEW x \in Int, NEW w, 2 ^ w \in Nat \ {0}
  PROVE  Pattern(x, w) \in 0..2 ^ w - 1
<1>1. \A m \in Nat \ {0} : x % m \in 0..m - 1
  OBVIOUS
<1> QED
  BY <1>1 DEF Pattern

LEMMA SignedNumber ==
  ASSUME NEW p \in Int, NEW w, 2 ^ w \in Nat \ {0}, 2 ^ (w - 1) \in Nat \ {0}
  PROVE  Signed(p, w) \in Int
BY DEF Signed

LEMMA SignedPattern ==
  ASSUME NEW x \in Int, NEW type \in Primitives
  PROVE  Pattern(x, Width[type]) \in Int /\ Signed(Pattern(x, Width[type]), Width[type]) \in Int
<1>1. 2 ^ Width[type] \in Nat \ {0} /\ 2 ^ (Width[type] - 1) \in Nat \ {0}
  BY Widths
<1>2. Pattern(x, Width[type]) \in Int
  BY <1>1, PatternRange
<1> QED
  BY <1>1, <1>2, SignedNumber

LEMMA DecodedNumber ==
  ASSUME NEW type \in Primitives, NEW p \in Int
  PROVE  Decode(type, p) \in Int
BY SignedPattern DEF Decode

LEMMA WrappedNumber ==
  ASSUME NEW op \in {"add", "sub", "mul"}, NEW a \in Int, NEW b \in Int, NEW type \in Primitives
  PROVE  WrapSigned(op, a, b, Width[type]) \in Int
<1>1. Pattern(a, Width[type]) \in Int /\ Pattern(b, Width[type]) \in Int
  BY SignedPattern
<1> DEFINE x == Pattern(a, Width[type])
           y == Pattern(b, Width[type])
           r == CASE op = "add" -> x + y [] op = "sub" -> x - y [] op = "mul" -> x * y
<1>2. r \in Int
  <2> HIDE DEF x, y
  <2>1. x \in Int /\ y \in Int
    BY <1>1 DEF x, y
  <2>2. CASE op = "add"
    BY <2>1, <2>2
  <2>3. CASE op = "sub"
    BY <2>1, <2>3
  <2>4. CASE op = "mul"
    BY <2>1, <2>4
  <2> QED BY <2>2, <2>3, <2>4
<1>3. WrapSigned(op, a, b, Width[type]) = Signed(Pattern(r, Width[type]), Width[type])
  BY DEF WrapSigned
<1> HIDE DEF r
<1> QED
  BY <1>2, <1>3, SignedPattern

LEMMA DividedNumber ==
  ASSUME NEW a \in Int, NEW b \in Int, b # 0
  PROVE  Quotient(a, b) \in Int /\ Remainder(a, b) \in Int
<1> DEFINE m(n) == IF n < 0 THEN -n ELSE n
<1>1. m(a) \in Nat /\ m(b) \in Nat \ {0}
  OBVIOUS
<1>2. m(a) \div m(b) \in Int
  <2> HIDE DEF m
  <2> QED BY <1>1
<1>3. Quotient(a, b) = m(a) \div m(b) \/ Quotient(a, b) = -(m(a) \div m(b))
  BY DEF Quotient
<1>4. Quotient(a, b) \in Int
  <2> HIDE DEF m
  <2> QED BY <1>2, <1>3
<1>5. \A q \in Int : a - q * b \in Int
  OBVIOUS
<1> QED
  BY <1>4, <1>5 DEF Remainder

LEMMA ShiftedNumber ==
  ASSUME NEW a \in Int, NEW distance \in Int, NEW type \in Primitives, NEW kind
  PROVE  Shifted(a, distance, Width[type], IntBits, kind) \in Int
<1> DEFINE w == Width[type]
           offset == Pattern(distance, IntBits) % w
           target == IF kind = "ushr" THEN Pattern(a, w) ELSE a
           moved == IF kind = "shl" THEN target * 2 ^ offset ELSE target \div (2 ^ offset)
<1>1. Pattern(distance, IntBits) \in Int
  <2>1. "int" \in Primitives /\ Width["int"] = IntBits
    BY Widths DEF Primitives
  <2> QED BY <2>1, SignedPattern
<1>2. w \in Nat \ {0} /\ \A n \in 0..w : 2 ^ n \in Nat \ {0}
  BY Widths
<1>3. offset \in 0..w
  <2> HIDE DEF w
  <2>1. \A x \in Int : x % w \in 0..w
    BY <1>2
  <2> QED BY <1>1, <2>1
<1>4. target \in Int
  BY SignedPattern
<1>5. moved \in Int
  <2>1. 2 ^ offset \in Nat \ {0}
    BY <1>2, <1>3
  <2>2. \A x \in Int, m \in Nat \ {0} : x * m \in Int /\ x \div m \in Int
    OBVIOUS
  <2> HIDE DEF target, offset
  <2> QED BY <1>4, <2>1, <2>2
<1>6. Shifted(a, distance, w, IntBits, kind) = Signed(Pattern(moved, w), w)
  BY DEF Shifted
<1> HIDE DEF moved
<1> QED
  BY <1>5, <1>6, SignedPattern

LEMMA ComparedNumber ==
  ASSUME NEW a \in Int \cup {NaN}, NEW b \in Int \cup {NaN}, NEW notEqual \in Int
  PROVE  Compared(a, b, notEqual) \in Int
<1>1. CASE NaN \in {a, b}
  BY <1>1 DEF Compared
<1>2. CASE NaN \notin {a, b}
  <2>1. a > b \/ a = b \/ a < b
    BY <1>2
  <2> QED BY <1>2, <2>1 DEF Compared
<1> QED
  BY <1>1, <1>2

LEMMA CastNumber ==
  ASSUME NEW type \in Primitives
  PROVE  /\ \A v \in Int, unsigned \in BOOLEAN : CastInteger(v, Width[type], unsigned) \in Int
         /\ \A v \in Floats : CastFloatToInt(v, Width[type]) \in Int
<1>1. \A v \in Int, unsigned \in BOOLEAN : CastInteger(v, Width[type], unsigned) \in Int
  BY SignedPattern DEF CastInteger
<1>2. ASSUME NEW v \in Floats PROVE CastFloatToInt(v, Width[type]) \in Int
  <2>1. CASE v = NaN
    BY <2>1 DEF CastFloatToInt
  <2>2. CASE v # NaN
    <3>1. v \in Int
      BY <2>2, ValuesAssumption
    <3> DEFINE truncated == IF v > 0 THEN v \div 2 ELSE -((-v) \div 2)
    <3>2. truncated \in Int
      BY <3>1
    <3>3. Least(Width[type]) \in Int /\ Greatest(Width[type]) \in Int
      BY Widths DEF Least, Greatest
    <3> QED BY <2>2, <3>2, <3>3 DEF CastFloatToInt
  <2> QED BY <2>1, <2>2
<1> QED
  BY <1>1, <1>2

-----------------------------------------------------------------------------
(* The operand stack. *)

Pointers(n) == [id : 1..n, region : Nat]
SlotValue == Int \cup Floats \cup {Null} \cup [id : Nat, region : Nat]
SlotType == OperandType \cup {"half"}

(* A pattern is one of a type, when there are n objects. *)
Fits(p, type, n) ==
  /\ p \in SlotValue
  /\ type \in {"int", "long"} => p \in 0..2 ^ Width[type] - 1
  /\ type = "float" => p \in Floats
  /\ type = "ref" => p = Null \/ p \in Pointers(n)
  /\ type = "half" => p = Unused

(* The slots hold what their types say. *)
StackOK(s, ts, n) ==
  /\ s \in Seq(SlotValue) /\ ts \in Seq(SlotType) /\ Len(s) = Len(ts)
  /\ Whole(ts)
  /\ \A i \in 1..Len(ts) : Fits(s[i], ts[i], n)

Refs(s, ts) == {s[i] : i \in RefSlots(ts)}

LEMMA EmptyStack ==
  ASSUME NEW n \in Nat
  PROVE  StackOK(<<>>, <<>>, n) /\ Refs(<<>>, <<>>) = {}
BY DEF StackOK, Whole, Refs, RefSlots

LEMMA MoreObjects ==
  ASSUME NEW n \in Nat, NEW m \in Nat, n <= m, NEW s, NEW ts, StackOK(s, ts, n)
  PROVE  StackOK(s, ts, m)
<1>1. \A p, type : Fits(p, type, n) => Fits(p, type, m)
  BY DEF Fits, Pointers
<1> QED
  BY <1>1 DEF StackOK

(* A whole part of the stack, from its bottom. *)
LEMMA LowerPart ==
  ASSUME NEW n \in Nat, NEW s, NEW ts, StackOK(s, ts, n),
         NEW m \in 0..Len(ts), m < Len(ts) => ts[m + 1] # "half"
  PROVE  /\ StackOK(SubSeq(s, 1, m), SubSeq(ts, 1, m), n)
         /\ Refs(SubSeq(s, 1, m), SubSeq(ts, 1, m)) \subseteq Refs(s, ts)
<1> DEFINE s2 == SubSeq(s, 1, m)
           t2 == SubSeq(ts, 1, m)
<1>1. s \in Seq(SlotValue) /\ ts \in Seq(SlotType) /\ Len(s) = Len(ts) /\ Whole(ts)
      /\ \A i \in 1..Len(ts) : Fits(s[i], ts[i], n)
  BY DEF StackOK
<1>2. /\ s2 \in Seq(SlotValue) /\ Len(s2) = m /\ DOMAIN s2 = 1..m
      /\ t2 \in Seq(SlotType) /\ Len(t2) = m /\ DOMAIN t2 = 1..m
      /\ \A i \in 1..m : s2[i] = s[i] /\ t2[i] = ts[i]
  <2>1. m \in 0..Len(ts) /\ 1 \in 1..Len(ts) + 1 /\ 1 <= m + 1
    BY <1>1
  <2>2. s2 \in Seq(SlotValue) /\ Len(s2) = m - 1 + 1 /\ \A i \in 1..m - 1 + 1 : s2[i] = s[1 + i - 1]
    BY <1>1, <2>1, PartOfList
  <2>3. t2 \in Seq(SlotType) /\ Len(t2) = m - 1 + 1 /\ \A i \in 1..m - 1 + 1 : t2[i] = ts[1 + i - 1]
    BY <1>1, <2>1, PartOfList
  <2>4. DOMAIN s2 = 1..Len(s2) /\ DOMAIN t2 = 1..Len(t2)
    BY <2>2, <2>3, ListFacts
  <2>5. \A i \in 1..m : 1 + i - 1 = i
    OBVIOUS
  <2> HIDE DEF s2, t2
  <2> QED BY <1>1, <2>2, <2>3, <2>4, <2>5
<1> HIDE DEF s2, t2
<1>3. Whole(t2)
  <2>1. DOMAIN ts = 1..Len(ts) /\ Len(ts) \in Nat
    BY <1>1
  <2>2. ts # <<>> => ts[1] # "half"
    BY <1>1 DEF Whole
  <2>3. \A i \in 1..Len(ts) : ts[i] = "long" <=> (i < Len(ts) /\ ts[i + 1] = "half")
    BY <1>1, <2>1 DEF Whole
  <2>4. t2 # <<>> => t2[1] # "half"
    <3> SUFFICES ASSUME t2 # <<>> PROVE t2[1] # "half"
      OBVIOUS
    <3>1. m # 0
      BY <1>2
    <3>2. 1 \in 1..m /\ ts # <<>>
      BY <2>1, <3>1
    <3> QED BY <1>2, <2>2, <3>2
  <2>5. ASSUME NEW i \in 1..m
        PROVE  t2[i] = "long" <=> (i < m /\ t2[i + 1] = "half")
    <3>1. i \in 1..Len(ts) /\ (ts[i] = "long" <=> (i < Len(ts) /\ ts[i + 1] = "half")) /\ t2[i] = ts[i]
      BY <1>2, <2>1, <2>3
    <3>2. CASE i < m
      <4>1. i + 1 \in 1..m /\ i < Len(ts)
        BY <2>1, <3>2
      <4> QED BY <1>2, <3>1, <3>2, <4>1
    <3>3. CASE i = m
      BY <2>1, <3>1, <3>3
    <3> QED BY <3>2, <3>3
  <2> QED BY <1>2, <2>4, <2>5 DEF Whole
<1>4. StackOK(s2, t2, n)
  BY <1>1, <1>2, <1>3 DEF StackOK
<1>5. Refs(s2, t2) \subseteq Refs(s, ts)
  <2>1. DOMAIN ts = 1..Len(ts)
    BY <1>1
  <2>2. \A i \in 1..m : i \in 1..Len(ts)
    BY <1>1
  <2> QED BY <1>2, <2>1, <2>2 DEF Refs, RefSlots
<1> QED
  BY <1>4, <1>5 DEF s2, t2

(* A pattern of a type is pushed. *)
LEMMA PatternPushed ==
  ASSUME NEW n \in Nat, NEW s, NEW ts, StackOK(s, ts, n),
         NEW type \in OperandType, NEW p, Fits(p, type, n)
  PROVE  LET s2 == s \o <<p>> \o (IF type = "long" THEN <<Unused>> ELSE <<>>)
             t2 == PushType(ts, type)
         IN  /\ StackOK(s2, t2, n)
             /\ Refs(s2, t2) \subseteq Refs(s, ts) \cup (IF type = "ref" THEN {p} ELSE {})
<1> DEFINE L == Len(ts)
           s2 == s \o <<p>> \o (IF type = "long" THEN <<Unused>> ELSE <<>>)
           t2 == ts \o <<type>> \o (IF type = "long" THEN <<"half">> ELSE <<>>)
           M == L + (IF type = "long" THEN 2 ELSE 1)
<1>1. s \in Seq(SlotValue) /\ ts \in Seq(SlotType) /\ Len(s) = L /\ Whole(ts) /\ L \in Nat
      /\ \A i \in 1..L : Fits(s[i], ts[i], n)
  BY DEF StackOK
<1>2. p \in SlotValue /\ type \in SlotType /\ "half" \in SlotType /\ Unused \in SlotValue
  BY DEF Fits, SlotType, SlotValue, Unused
<1>3. /\ s2 \in Seq(SlotValue) /\ Len(s2) = M
      /\ \A i \in 1..L : s2[i] = s[i]
      /\ s2[L + 1] = p /\ (type = "long" => s2[L + 2] = Unused)
  <2>1. CASE type = "long"
    BY <1>1, <1>2, <2>1
  <2>2. CASE type # "long"
    BY <1>1, <1>2, <2>2
  <2> QED BY <2>1, <2>2
<1>4. /\ t2 \in Seq(SlotType) /\ Len(t2) = M /\ DOMAIN t2 = 1..M
      /\ \A i \in 1..L : t2[i] = ts[i]
      /\ t2[L + 1] = type /\ (type = "long" => t2[L + 2] = "half")
  <2>1. CASE type = "long"
    BY <1>1, <1>2, <2>1
  <2>2. CASE type # "long"
    BY <1>1, <1>2, <2>2
  <2> QED BY <2>1, <2>2
<1>5. M \in Nat /\ M > L /\ 1..M = 1..L \cup (IF type = "long" THEN {L + 1, L + 2} ELSE {L + 1})
  BY <1>1
<1>6. type # "half"
  BY DEF OperandType
<1>7. /\ ts # <<>> => ts[1] # "half"
      /\ \A i \in 1..L : ts[i] = "long" <=> (i < L /\ ts[i + 1] = "half")
  BY <1>1 DEF Whole
<1> HIDE DEF s2, t2
<1>8. Whole(t2)
  <2>1. t2[1] # "half"
    <3>1. CASE L = 0
      BY <1>4, <1>6, <3>1
    <3>2. CASE L # 0
      BY <1>1, <1>4, <1>7, <3>2
    <3> QED BY <3>1, <3>2
  <2>2. ASSUME NEW i \in 1..M
        PROVE  t2[i] = "long" <=> (i < M /\ t2[i + 1] = "half")
    <3>1. CASE i < L
      BY <1>1, <1>4, <1>5, <1>7, <3>1
    <3>2. CASE i = L
      BY <1>1, <1>4, <1>5, <1>6, <1>7, <3>2
    <3>3. CASE i = L + 1
      BY <1>1, <1>4, <1>5, <3>3
    <3>4. CASE i > L + 1
      BY <1>1, <1>4, <1>5, <3>4
    <3> QED BY <1>1, <1>5, <3>1, <3>2, <3>3, <3>4
  <2> QED BY <1>4, <2>1, <2>2 DEF Whole
<1>9. \A i \in 1..M : Fits(s2[i], t2[i], n)
  <2>1. Fits(Unused, "half", n)
    BY <1>2 DEF Fits
  <2>2. \A i \in 1..L : Fits(s2[i], t2[i], n)
    BY <1>1, <1>3, <1>4
  <2>3. Fits(s2[L + 1], t2[L + 1], n)
    BY <1>3, <1>4
  <2>4. type = "long" => Fits(s2[L + 2], t2[L + 2], n)
    BY <1>3, <1>4, <2>1
  <2> QED BY <1>5, <2>2, <2>3, <2>4
<1>10. StackOK(s2, t2, n)
  BY <1>3, <1>4, <1>8, <1>9 DEF StackOK
<1>11. Refs(s2, t2) \subseteq Refs(s, ts) \cup (IF type = "ref" THEN {p} ELSE {})
  <2> SUFFICES ASSUME NEW i \in 1..M, t2[i] = "ref"
               PROVE  s2[i] \in Refs(s, ts) \cup (IF type = "ref" THEN {p} ELSE {})
    BY <1>4 DEF Refs, RefSlots
  <2>1. CASE i \in 1..L
    <3>1. DOMAIN ts = 1..L /\ ts[i] = "ref" /\ s2[i] = s[i]
      BY <1>1, <1>3, <1>4, <2>1
    <3>2. s2[i] \in Refs(s, ts)
      BY <2>1, <3>1 DEF Refs, RefSlots
    <3> QED BY <3>2
  <2>2. CASE i = L + 1
    BY <1>3, <1>4, <2>2
  <2>3. CASE i = L + 2 /\ type = "long"
    BY <1>4, <2>3
  <2> QED BY <1>5, <2>1, <2>2, <2>3
<1> QED
  BY <1>10, <1>11 DEF s2, t2, PushType

(* What the pattern of a value fits. *)
LEMMA EncodedFits ==
  ASSUME NEW n \in Nat, NEW v
  PROVE  /\ \A type \in {"int", "long"} : v \in Int => Fits(Encode(type, v), type, n)
         /\ v \in Int => Fits(Encode("byte", v), "int", n)
         /\ v \in Floats => Fits(Encode("float", v), "float", n)
         /\ v = Null \/ v \in Pointers(n) => Fits(Encode("ref", v), "ref", n) /\ Encode("ref", v) = v
<1>1. \A type \in Primitives : v \in Int => Encode(type, v) \in 0..2 ^ Width[type] - 1
  BY PatternRange, Widths DEF Encode
<1>2. \A type \in Primitives : 2 ^ Width[type] \in Nat
  BY Widths
<1>3. \A type \in {"int", "long"} : v \in Int => Fits(Encode(type, v), type, n)
  <2> SUFFICES ASSUME NEW type \in {"int", "long"}, v \in Int PROVE Fits(Encode(type, v), type, n)
    OBVIOUS
  <2>1. type \in Primitives
    BY DEF Primitives
  <2>2. Encode(type, v) \in 0..2 ^ Width[type] - 1 /\ Encode(type, v) \in Int
    BY <1>1, <1>2, <2>1
  <2> QED BY <2>2 DEF Fits, SlotValue
<1>4. v \in Int => Fits(Encode("byte", v), "int", n)
  <2> SUFFICES ASSUME v \in Int PROVE Fits(Encode("byte", v), "int", n)
    OBVIOUS
  <2>1. "byte" \in Primitives /\ "int" \in Primitives
    BY DEF Primitives
  <2>2. 2 ^ Width["byte"] <= 2 ^ Width["int"]
    BY Widths, WidthsAssumption
  <2>3. Encode("byte", v) \in 0..2 ^ Width["byte"] - 1 /\ 2 ^ Width["byte"] \in Nat /\ 2 ^ Width["int"] \in Nat
    BY <1>1, <1>2, <2>1
  <2>4. \A a, b \in Nat : a <= b => 0..a - 1 \subseteq 0..b - 1
    OBVIOUS
  <2>5. Encode("byte", v) \in 0..2 ^ Width["int"] - 1 /\ Encode("byte", v) \in Int
    BY <2>2, <2>3, <2>4
  <2> QED BY <2>5 DEF Fits, SlotValue
<1>5. v \in Floats => Fits(Encode("float", v), "float", n)
  BY DEF Encode, Primitives, Fits, SlotValue
<1>6. v = Null \/ v \in Pointers(n) => Fits(Encode("ref", v), "ref", n) /\ Encode("ref", v) = v
  BY DEF Encode, Primitives, Fits, SlotValue, Pointers
<1> QED
  BY <1>3, <1>4, <1>5, <1>6

LEMMA ValuePushed ==
  ASSUME NEW n \in Nat, NEW s, NEW ts, StackOK(s, ts, n),
         NEW type \in OperandType, NEW as, NEW v, Fits(Encode(as, v), type, n),
         as = "long" <=> type = "long", type = "ref" => as = "ref"
  PROVE  /\ StackOK(PushOperand(s, as, v), PushType(ts, type), n)
         /\ Refs(PushOperand(s, as, v), PushType(ts, type))
              \subseteq Refs(s, ts) \cup (IF type = "ref" THEN {v} ELSE {})
<1> DEFINE p == Encode(as, v)
<1>1. PushOperand(s, as, v) = s \o <<p>> \o (IF type = "long" THEN <<Unused>> ELSE <<>>)
  BY DEF PushOperand
<1>2. type = "ref" => p = v
  BY DEF Encode, Primitives
<1> HIDE DEF p
<1>3. Fits(p, type, n)
  BY DEF p
<1> QED
  BY <1>1, <1>2, <1>3, PatternPushed

(* The stack below the operands of an instruction. *)
LEMMA BelowOperands ==
  ASSUME NEW n \in Nat, NEW s, StackOK(s, types, n), NEW ts \in Seq(OperandType), Ready(ts)
  PROVE  /\ StackOK(Dropped(s, ts), Dropped(types, ts), n)
         /\ Refs(Dropped(s, ts), Dropped(types, ts)) \subseteq Refs(s, types)
         /\ SlotsOf(ts) \in 0..Len(types) /\ Len(s) = Len(types) /\ Len(types) \in Nat
<1> DEFINE m == Len(types) - SlotsOf(ts)
<1>1. s \in Seq(SlotValue) /\ types \in Seq(SlotType) /\ Len(s) = Len(types) /\ Len(types) \in Nat
  BY DEF StackOK
<1>2. SlotsOf(ts) \in Nat /\ Len(ts) \in Nat /\ 1 \in 1..Len(ts) + 1
  BY SlotsOfPart
<1>3. Len(types) >= SlotsOf(ts)
      /\ \A i \in DOMAIN ts : types[Len(types) + 1 - SlotsOf(SubSeq(ts, i, Len(ts)))] = ts[i]
  BY DEF Ready
<1>4. m \in 0..Len(types)
  BY <1>1, <1>2, <1>3
<1>5. m < Len(types) => types[m + 1] # "half"
  <2> SUFFICES ASSUME m < Len(types) PROVE types[m + 1] # "half"
    OBVIOUS
  <2>1. SlotsOf(ts) # 0
    BY <1>1, <1>2
  <2>2. ts # <<>>
    BY <2>1, SlotsOfNone
  <2>3. 1 \in DOMAIN ts /\ SubSeq(ts, 1, Len(ts)) = ts /\ ts[1] \in OperandType
    BY <2>2
  <2>4. types[Len(types) + 1 - SlotsOf(ts)] = ts[1]
    BY <1>3, <2>3
  <2>5. Len(types) + 1 - SlotsOf(ts) = m + 1
    BY <1>1, <1>2
  <2> QED BY <2>3, <2>4, <2>5 DEF OperandType
<1>6. Dropped(s, ts) = SubSeq(s, 1, m) /\ Dropped(types, ts) = SubSeq(types, 1, m)
  BY <1>1 DEF Dropped
<1> HIDE DEF m
<1>7. /\ StackOK(SubSeq(s, 1, m), SubSeq(types, 1, m), n)
      /\ Refs(SubSeq(s, 1, m), SubSeq(types, 1, m)) \subseteq Refs(s, types)
  BY <1>4, <1>5, LowerPart
<1>8. SlotsOf(ts) \in 0..Len(types)
  BY <1>1, <1>2, <1>3
<1> QED
  BY <1>1, <1>6, <1>7, <1>8

(* An operand has the type the instruction wants. *)
LEMMA OperandFits ==
  ASSUME NEW n \in Nat, StackOK(slots, types, n), NEW ts \in Seq(OperandType), Ready(ts),
         NEW i \in 1..Len(ts)
  PROVE  /\ ts[i] \in {"int", "long"} => Operand(ts, i) \in Int
         /\ ts[i] = "float" => Operand(ts, i) \in Floats
         /\ ts[i] = "ref" =>
              /\ Operand(ts, i) = Null \/ Operand(ts, i) \in Pointers(n)
              /\ Operand(ts, i) \in Refs(slots, types)
<1> DEFINE rest == SubSeq(ts, i + 1, Len(ts))
           j == Len(types) + 1 - SlotsOf(SubSeq(ts, i, Len(ts)))
           d == Dropped(slots, rest)
           m == Len(slots) - SlotsOf(rest)
<1>1. /\ slots \in Seq(SlotValue) /\ types \in Seq(SlotType) /\ Len(slots) = Len(types) /\ Len(types) \in Nat
      /\ \A q \in 1..Len(types) : Fits(slots[q], types[q], n)
  BY DEF StackOK
<1>2. /\ SlotsOf(SubSeq(ts, i, Len(ts))) = Slots(ts[i]) + SlotsOf(rest) /\ SlotsOf(rest) \in Nat
      /\ SlotsOf(SubSeq(ts, i, Len(ts))) <= SlotsOf(ts) /\ SlotsOf(ts) \in Nat
  BY SlotsOfRest, SlotsOfPart
<1>3. Len(types) >= SlotsOf(ts) /\ types[j] = ts[i]
  BY DEF Ready
<1>4. Slots(ts[i]) \in 1..2
  BY DEF Slots
<1>5. m \in 0..Len(slots) /\ j = m + 1 - Slots(ts[i]) /\ j \in 1..m /\ j \in 1..Len(types)
  <2> DEFINE L == Len(types)
             q == SlotsOf(rest)
             t == SlotsOf(SubSeq(ts, i, Len(ts)))
             w == Slots(ts[i])
             all == SlotsOf(ts)
  <2>1. /\ L \in Nat /\ Len(slots) = L /\ q \in Nat /\ w \in 1..2 /\ t = w + q
        /\ all \in Nat /\ t <= all /\ L >= all /\ m = L - q /\ j = L + 1 - t
    BY <1>1, <1>2, <1>3, <1>4
  <2> HIDE DEF L, q, t, w, all, m, j
  <2>2. m \in 0..L /\ j = m + 1 - w /\ j \in 1..m /\ j \in 1..L
    BY <2>1
  <2> QED BY <2>1, <2>2 DEF L, w
<1>6. Len(d) = m /\ d[j] = slots[j]
  <2>1. d = SubSeq(slots, 1, m)
    BY DEF Dropped
  <2>2. 1 \in 1..Len(slots) + 1 /\ 1 <= m + 1
    BY <1>1, <1>5
  <2>3. Len(SubSeq(slots, 1, m)) = m - 1 + 1
        /\ \A q \in 1..m - 1 + 1 : SubSeq(slots, 1, m)[q] = slots[1 + q - 1]
    <3> HIDE DEF m
    <3> QED BY <1>1, <1>5, <2>2, PartOfList
  <2>4. m - 1 + 1 = m /\ 1 + j - 1 = j
    BY <1>1, <1>5
  <2> QED BY <1>5, <2>1, <2>3, <2>4
<1>7. Operand(ts, i) = Decode(ts[i], slots[j])
  BY <1>5, <1>6 DEF Operand, Popped
<1>8. Fits(slots[j], ts[i], n)
  BY <1>1, <1>3, <1>5
<1>9. ts[i] \in {"int", "long"} => Operand(ts, i) \in Int
  <2> SUFFICES ASSUME ts[i] \in {"int", "long"} PROVE Operand(ts, i) \in Int
    OBVIOUS
  <2>1. ts[i] \in Primitives
    BY DEF Primitives
  <2>2. slots[j] \in Int
    BY <1>8, <2>1, Widths DEF Fits
  <2> QED BY <1>7, <2>1, <2>2, DecodedNumber
<1>10. ts[i] = "float" => Operand(ts, i) \in Floats
  BY <1>7, <1>8 DEF Fits, Decode, Primitives
<1>11. ts[i] = "ref" => Operand(ts, i) = slots[j]
  BY <1>7 DEF Decode, Primitives
<1>12. ts[i] = "ref" => slots[j] \in Refs(slots, types)
  <2>1. DOMAIN types = 1..Len(types)
    BY <1>1
  <2> QED BY <1>3, <1>5, <2>1 DEF Refs, RefSlots
<1> QED
  BY <1>8, <1>9, <1>10, <1>11, <1>12 DEF Fits

-----------------------------------------------------------------------------
(* The heap. *)

PlaceValue == Int \cup {Null} \cup [id : Nat, region : Nat]
ObjectRecord ==
  [class : ObjectClasses, region : Nat, elements : UNION {[D -> PlaceValue] : D \in SUBSET Nat}]

(* A value is one that a place of a class may hold, when there are n objects. *)
Holds(v, class, n) == IF IsPrimitive(class) THEN v \in Int ELSE v = Null \/ v \in Pointers(n)

(* An object is one of its class, when there are n objects. *)
Shaped(object, n) ==
  /\ object \in ObjectRecord
  /\ \E m \in Nat : DOMAIN object.elements = Places(object.class, m)
  /\ \A k \in DOMAIN object.elements :
       Holds(object.elements[k], PlaceClass(object.class, k), n)

HeapOK(objs, e) ==
  /\ objs \in Seq(ObjectRecord) /\ e \in Nat
  /\ \A k \in 1..Len(objs) : Shaped(objs[k], Len(objs)) /\ objs[k].region \in 0..e

(* The pointers P, and those in objects they lead to, are where collection e put them. *)
CleanIn(S, P, objs, e) ==
  /\ S \subseteq DOMAIN objs
  /\ \A p \in P \ {Null} : p.region = e /\ p.id \in S
  /\ \A k \in S : /\ objs[k].region = e
                  /\ \A p \in References(objs[k]) : p.region = e /\ p.id \in S
Clean(P, objs, e) == \E S : CleanIn(S, P, objs, e)

(* What pointers in objects lead to is of the right class. *)
Instances(objs) ==
  \A k \in DOMAIN objs : \A i \in RefPlaces(objs[k]) :
    LET p == objs[k].elements[i]
    IN  p # Null => IsInstanceOf(objs[p.id].class, PlaceClass(objs[k].class, i))

LEMMA CleanPart ==
  ASSUME NEW P, NEW Q, Q \subseteq P, NEW objs, NEW e, Clean(P, objs, e)
  PROVE  Clean(Q, objs, e)
BY DEF Clean, CleanIn

(* A pointer that leads somewhere clean may be kept. *)
LEMMA CleanMore ==
  ASSUME NEW P, NEW p \in P, p # Null, NEW objs, NEW e, Clean(P, objs, e)
  PROVE  Clean(P \cup References(objs[p.id]), objs, e)
BY DEF Clean, CleanIn

LEMMA RecordFacts ==
  ASSUME NEW o, NEW n \in Nat, Shaped(o, n)
  PROVE  /\ o = [class |-> o.class, region |-> o.region, elements |-> o.elements]
         /\ o.class \in ObjectClasses /\ o.region \in Nat
         /\ o.elements \in UNION {[D -> PlaceValue] : D \in SUBSET Nat}
         /\ o.elements = [k \in DOMAIN o.elements |-> o.elements[k]]
         /\ DOMAIN o.elements \subseteq Nat
         /\ \A k \in DOMAIN o.elements : o.elements[k] \in PlaceValue
<1>1. o \in ObjectRecord
  BY DEF Shaped
<1>2. /\ o = [class |-> o.class, region |-> o.region, elements |-> o.elements]
      /\ o.class \in ObjectClasses /\ o.region \in Nat
      /\ o.elements \in UNION {[D -> PlaceValue] : D \in SUBSET Nat}
  BY <1>1 DEF ObjectRecord
<1>3. PICK D \in SUBSET Nat : o.elements \in [D -> PlaceValue]
  BY <1>2
<1> QED
  BY <1>2, <1>3

LEMMA HeldValues ==
  ASSUME NEW v, NEW class, NEW n \in Nat, Holds(v, class, n)
  PROVE  v \in PlaceValue /\ \A m \in Nat : n <= m => Holds(v, class, m)
BY DEF Holds, PlaceValue, Pointers

(* The references of an object are pointers. *)
LEMMA ReferenceFacts ==
  ASSUME NEW o, NEW n \in Nat, Shaped(o, n)
  PROVE  References(o) \subseteq Pointers(n)
BY DEF Shaped, Holds, References, RefPlaces

LEMMA ClassFacts ==
  ASSUME NEW c \in ObjectClasses
  PROVE  /\ c.dims \in Nat /\ c = Class(c.of, c.dims)
         /\ IsInstanceOf(c, c)
         /\ c.dims > 0 => ElementClass(c) \in ObjectClasses /\ ElementClass(c).dims = c.dims - 1
<1>1. PICK class \in Classes : \E n \in 0..class.dims + 1 : c = Class(class.of, n)
  BY DEF ObjectClasses
<1> PICK n \in 0..class.dims + 1 : c = Class(class.of, n)
  BY <1>1
<1>2. class.dims \in Nat
  BY ClassesAssumption
<1>3. c.of = class.of /\ c.dims = n /\ c = Class(c.of, c.dims) /\ c.dims \in Nat
  BY <1>1, <1>2 DEF Class
<1>4. IsInstanceOf(c, c)
  BY ClassesAssumption
<1>5. c.dims > 0 => ElementClass(c) \in ObjectClasses /\ ElementClass(c).dims = c.dims - 1
  <2> SUFFICES ASSUME c.dims > 0
               PROVE  ElementClass(c) \in ObjectClasses /\ ElementClass(c).dims = c.dims - 1
    OBVIOUS
  <2>1. n - 1 \in 0..class.dims + 1 /\ ElementClass(c) = Class(class.of, n - 1)
    BY <1>2, <1>3 DEF ElementClass
  <2>2. ElementClass(c) \in {Class(class.of, q) : q \in 0..class.dims + 1}
    BY <2>1
  <2> QED BY <1>3, <2>1, <2>2 DEF ObjectClasses, Class
<1> QED
  BY <1>3, <1>4, <1>5

(* The length of an array. *)
LEMMA ArrayFacts ==
  ASSUME NEW o, NEW n \in Nat, Shaped(o, n), o.class.dims > 0
  PROVE  /\ Cardinality(DOMAIN o.elements) \in Nat
         /\ DOMAIN o.elements = 0..Cardinality(DOMAIN o.elements) - 1
<1>1. PICK m \in Nat : DOMAIN o.elements = Places(o.class, m)
  BY DEF Shaped
<1>2. DOMAIN o.elements = 0..m - 1
  BY <1>1 DEF Places
<1>3. Cardinality(0..m - 1) = m
  BY FS_Interval
<1> QED
  BY <1>2, <1>3

(* An object is written to. *)
LEMMA ObjectWritten ==
  ASSUME NEW objs, NEW e, HeapOK(objs, e), NEW k \in 1..Len(objs),
         NEW es, es = [i \in DOMAIN objs[k].elements |-> es[i]],
         \A i \in DOMAIN objs[k].elements : Holds(es[i], PlaceClass(objs[k].class, i), Len(objs)),
         NEW P, Clean(P, objs, e),
         \A i \in RefPlaces(objs[k]) : es[i] \in {Null} \cup P \cup References(objs[k])
  PROVE  LET new == [objs EXCEPT ![k].elements = es]
         IN  /\ HeapOK(new, e) /\ Len(new) = Len(objs) /\ Clean(P, new, e)
             /\ \A m \in 1..Len(objs) : /\ new[m].class = objs[m].class
                                        /\ DOMAIN new[m].elements = DOMAIN objs[m].elements
             /\ /\ Instances(objs)
                /\ \A i \in RefPlaces(objs[k]) : es[i] # Null =>
                     IsInstanceOf(objs[es[i].id].class, PlaceClass(objs[k].class, i))
                => Instances(new)
<1> DEFINE n == Len(objs)
           o == [objs[k] EXCEPT !.elements = es]
           new == [objs EXCEPT ![k].elements = es]
<1>1. /\ objs \in Seq(ObjectRecord) /\ n \in Nat /\ e \in Nat /\ DOMAIN objs = 1..n
      /\ \A m \in 1..n : Shaped(objs[m], n) /\ objs[m].region \in 0..e /\ objs[m] \in ObjectRecord
  BY DEF HeapOK
<1>2. /\ objs[k] = [class |-> objs[k].class, region |-> objs[k].region, elements |-> objs[k].elements]
      /\ objs[k].class \in ObjectClasses /\ objs[k].region \in Nat
      /\ DOMAIN objs[k].elements \subseteq Nat
  BY <1>1, RecordFacts
<1>3. /\ o = [class |-> objs[k].class, region |-> objs[k].region, elements |-> es]
      /\ o.class = objs[k].class /\ o.region = objs[k].region /\ o.elements = es
      /\ DOMAIN es = DOMAIN objs[k].elements
  BY <1>2
<1>4. Shaped(o, n)
  <2>1. es \in [DOMAIN objs[k].elements -> PlaceValue]
    BY <1>1, HeldValues
  <2>2. o \in ObjectRecord
    BY <1>2, <1>3, <2>1 DEF ObjectRecord
  <2>3. \E m \in Nat : DOMAIN es = Places(o.class, m)
    BY <1>1, <1>3 DEF Shaped
  <2> HIDE DEF o
  <2> QED BY <1>3, <2>2, <2>3 DEF Shaped
<1>5. /\ new = [objs EXCEPT ![k] = o] /\ new \in Seq(ObjectRecord) /\ Len(new) = n /\ DOMAIN new = 1..n
      /\ new[k] = o /\ \A m \in 1..n : m # k => new[m] = objs[m]
  <2>1. new = [objs EXCEPT ![k] = o]
    OBVIOUS
  <2>2. o \in ObjectRecord
    BY <1>4 DEF Shaped
  <2> HIDE DEF o, new
  <2> QED BY <1>1, <2>1, <2>2
<1> HIDE DEF o, new
<1>6. HeapOK(new, e)
  <2> SUFFICES ASSUME NEW m \in 1..n PROVE Shaped(new[m], n) /\ new[m].region \in 0..e
    BY <1>1, <1>5 DEF HeapOK
  <2>1. CASE m = k
    BY <1>1, <1>3, <1>4, <1>5, <2>1
  <2>2. CASE m # k
    BY <1>1, <1>5, <2>2
  <2> QED BY <2>1, <2>2
<1>7. \A m \in 1..n : /\ new[m].class = objs[m].class
                      /\ DOMAIN new[m].elements = DOMAIN objs[m].elements
  BY <1>3, <1>5
<1>8. RefPlaces(o) = RefPlaces(objs[k])
  BY <1>3 DEF RefPlaces
<1>9. Clean(P, new, e)
  <2>1. PICK S : CleanIn(S, P, objs, e)
    BY DEF Clean
  <2>2. References(o) \subseteq P \cup References(objs[k])
    BY <1>3, <1>8 DEF References
  <2>3. Null \notin References(o)
    BY DEF References
  <2>4. ASSUME NEW m \in S
        PROVE  /\ new[m].region = e
               /\ \A p \in References(new[m]) : p.region = e /\ p.id \in S
    <3>1. m \in 1..n /\ objs[m].region = e
          /\ \A p \in References(objs[m]) : p.region = e /\ p.id \in S
      BY <1>1, <2>1 DEF CleanIn
    <3>2. CASE m = k
      BY <1>3, <1>5, <2>1, <2>2, <2>3, <3>1, <3>2 DEF CleanIn
    <3>3. CASE m # k
      BY <1>5, <3>1, <3>3
    <3> QED BY <3>2, <3>3
  <2>5. CleanIn(S, P, new, e)
    BY <1>1, <1>5, <2>1, <2>4 DEF CleanIn
  <2> QED BY <2>5 DEF Clean
<1>10. ASSUME Instances(objs),
              \A i \in RefPlaces(objs[k]) : es[i] # Null =>
                IsInstanceOf(objs[es[i].id].class, PlaceClass(objs[k].class, i))
       PROVE  Instances(new)
  <2> SUFFICES ASSUME NEW m \in 1..n, NEW i \in RefPlaces(new[m]), new[m].elements[i] # Null
               PROVE  IsInstanceOf(new[new[m].elements[i].id].class, PlaceClass(new[m].class, i))
    BY <1>5 DEF Instances
  <2>1. i \in RefPlaces(objs[m])
    BY <1>7, <1>5, <1>8
  <2>2. /\ new[m].elements[i].id \in 1..n
        /\ IsInstanceOf(objs[new[m].elements[i].id].class, PlaceClass(objs[m].class, i))
    <3>1. new[m].elements[i] \in References(new[m])
      BY DEF References
    <3>2. Shaped(new[m], n)
      BY <1>5, <1>6 DEF HeapOK
    <3>3. new[m].elements[i].id \in 1..n
      BY <1>1, <3>1, <3>2, ReferenceFacts DEF Pointers
    <3>4. CASE m = k
      BY <1>3, <1>5, <1>10, <2>1, <3>3, <3>4
    <3>5. CASE m # k
      BY <1>1, <1>5, <1>10, <2>1, <3>3, <3>5 DEF Instances
    <3> QED BY <3>3, <3>4, <3>5
  <2> QED BY <1>7, <2>2
<1> QED
  BY <1>5, <1>6, <1>7, <1>9, <1>10 DEF new

(* An object is made. *)
LEMMA ObjectAdded ==
  ASSUME NEW objs, NEW e, HeapOK(objs, e), NEW o, Shaped(o, Len(objs) + 1), o.region = e,
         NEW P, Clean(P \cup References(o), objs, e)
  PROVE  LET new == Append(objs, o)
         IN  /\ HeapOK(new, e) /\ Len(new) = Len(objs) + 1
             /\ Clean(P \cup {[id |-> Len(objs) + 1, region |-> e]}, new, e)
             /\ new[Len(objs) + 1] = o /\ \A m \in 1..Len(objs) : new[m] = objs[m]
             /\ /\ Instances(objs)
                /\ \A i \in RefPlaces(o) : o.elements[i] # Null =>
                     /\ o.elements[i].id \in 1..Len(objs)
                     /\ IsInstanceOf(objs[o.elements[i].id].class, PlaceClass(o.class, i))
                => Instances(new)
<1> DEFINE n == Len(objs)
           new == Append(objs, o)
<1>1. /\ objs \in Seq(ObjectRecord) /\ n \in Nat /\ e \in Nat /\ DOMAIN objs = 1..n
      /\ \A m \in 1..n : Shaped(objs[m], n) /\ objs[m].region \in 0..e
      /\ o \in ObjectRecord
  BY DEF HeapOK, Shaped
<1>2. /\ new \in Seq(ObjectRecord) /\ Len(new) = n + 1 /\ DOMAIN new = 1..n + 1
      /\ new[n + 1] = o /\ \A m \in 1..n : new[m] = objs[m]
  BY <1>1
<1> HIDE DEF new
<1>3. \A object : Shaped(object, n) => Shaped(object, n + 1)
  <2> SUFFICES ASSUME NEW object, Shaped(object, n) PROVE Shaped(object, n + 1)
    OBVIOUS
  <2>1. n <= n + 1 /\ n + 1 \in Nat
    BY <1>1
  <2>2. \A v, class : Holds(v, class, n) => Holds(v, class, n + 1)
    BY <1>1, <2>1, HeldValues
  <2> QED BY <2>2 DEF Shaped
<1>4. HeapOK(new, e)
  <2> SUFFICES ASSUME NEW m \in 1..n + 1 PROVE Shaped(new[m], n + 1) /\ new[m].region \in 0..e
    BY <1>1, <1>2 DEF HeapOK
  <2>1. CASE m = n + 1
    BY <1>1, <1>2, <2>1
  <2>2. CASE m # n + 1
    <3>1. m \in 1..n
      BY <1>1, <2>2
    <3> QED BY <1>1, <1>2, <1>3, <3>1
  <2> QED BY <2>1, <2>2
<1>5. Clean(P \cup {[id |-> n + 1, region |-> e]}, new, e)
  <2>1. PICK S : CleanIn(S, P \cup References(o), objs, e)
    BY DEF Clean
  <2> DEFINE T == S \cup {n + 1}
  <2>2. T \subseteq DOMAIN new
    BY <1>1, <1>2, <2>1 DEF CleanIn
  <2>3. \A p \in (P \cup {[id |-> n + 1, region |-> e]}) \ {Null} : p.region = e /\ p.id \in T
    BY <2>1 DEF CleanIn
  <2>4. Null \notin References(o)
    BY DEF References
  <2>5. ASSUME NEW m \in T
        PROVE  /\ new[m].region = e
               /\ \A p \in References(new[m]) : p.region = e /\ p.id \in T
    <3>1. CASE m = n + 1
      BY <1>2, <2>1, <2>4, <3>1 DEF CleanIn
    <3>2. CASE m # n + 1
      <4>1. m \in S /\ m \in 1..n
        BY <1>1, <2>1, <3>2 DEF CleanIn
      <4> QED BY <1>2, <2>1, <4>1 DEF CleanIn
    <3> QED BY <3>1, <3>2
  <2>6. CleanIn(T, P \cup {[id |-> n + 1, region |-> e]}, new, e)
    <3> HIDE DEF T
    <3> QED BY <2>2, <2>3, <2>5 DEF CleanIn
  <2> QED BY <2>6 DEF Clean
<1>6. ASSUME Instances(objs),
             \A i \in RefPlaces(o) : o.elements[i] # Null =>
               /\ o.elements[i].id \in 1..n
               /\ IsInstanceOf(objs[o.elements[i].id].class, PlaceClass(o.class, i))
      PROVE  Instances(new)
  <2> SUFFICES ASSUME NEW m \in 1..n + 1, NEW i \in RefPlaces(new[m]), new[m].elements[i] # Null
               PROVE  IsInstanceOf(new[new[m].elements[i].id].class, PlaceClass(new[m].class, i))
    BY <1>2 DEF Instances
  <2>1. CASE m = n + 1
    BY <1>2, <1>6, <2>1
  <2>2. CASE m # n + 1
    <3>1. m \in 1..n /\ new[m] = objs[m]
      BY <1>1, <1>2, <2>2
    <3>2. objs[m].elements[i] \in References(objs[m])
      BY <3>1 DEF References
    <3>3. objs[m].elements[i].id \in 1..n
      BY <1>1, <3>1, <3>2, ReferenceFacts DEF Pointers
    <3> QED BY <1>1, <1>2, <1>6, <3>1, <3>3 DEF Instances
  <2> QED BY <2>1, <2>2
<1> QED
  BY <1>2, <1>4, <1>5, <1>6 DEF new

(* One place of an object is written to. *)
PlaceSet(objs, k, f, v) == [objs EXCEPT ![k].elements[f] = v]
WrittenRight(objs, new, e, P) ==
  /\ HeapOK(new, e) /\ Len(new) = Len(objs) /\ Clean(P, new, e)
  /\ \A m \in 1..Len(objs) : new[m].class = objs[m].class

LEMMA PlaceWritten ==
  ASSUME NEW objs, NEW e, HeapOK(objs, e), NEW k \in 1..Len(objs), NEW f, NEW v,
         f \in DOMAIN objs[k].elements => Holds(v, PlaceClass(objs[k].class, f), Len(objs)),
         NEW P, Clean(P, objs, e), f \in RefPlaces(objs[k]) => v \in {Null} \cup P
  PROVE  /\ WrittenRight(objs, PlaceSet(objs, k, f, v), e, P)
         /\ /\ Instances(objs)
            /\ f \in RefPlaces(objs[k]) /\ v # Null =>
                 IsInstanceOf(objs[v.id].class, PlaceClass(objs[k].class, f))
            => Instances(PlaceSet(objs, k, f, v))
<1> DEFINE es == [objs[k].elements EXCEPT ![f] = v]
           new == [objs EXCEPT ![k].elements = es]
<1>1. /\ objs \in Seq(ObjectRecord) /\ Shaped(objs[k], Len(objs)) /\ Len(objs) \in Nat /\ DOMAIN objs = 1..Len(objs)
  BY DEF HeapOK
<1>2. PlaceSet(objs, k, f, v) = new
  BY DEF PlaceSet
<1>3. /\ es = [i \in DOMAIN objs[k].elements |-> es[i]]
      /\ \A i \in DOMAIN objs[k].elements : es[i] = IF i = f THEN v ELSE objs[k].elements[i]
  OBVIOUS
<1>4. RefPlaces(objs[k]) \subseteq DOMAIN objs[k].elements
  BY DEF RefPlaces
<1> HIDE DEF es
<1>5. \A i \in DOMAIN objs[k].elements : Holds(es[i], PlaceClass(objs[k].class, i), Len(objs))
  BY <1>1, <1>3 DEF Shaped
<1>6. \A i \in RefPlaces(objs[k]) : es[i] \in {Null} \cup P \cup References(objs[k])
  BY <1>3, <1>4 DEF References
<1>7. /\ HeapOK(new, e) /\ Len(new) = Len(objs) /\ Clean(P, new, e)
      /\ \A m \in 1..Len(objs) : /\ new[m].class = objs[m].class
                                 /\ DOMAIN new[m].elements = DOMAIN objs[m].elements
      /\ /\ Instances(objs)
         /\ \A i \in RefPlaces(objs[k]) : es[i] # Null =>
              IsInstanceOf(objs[es[i].id].class, PlaceClass(objs[k].class, i))
         => Instances(new)
  BY <1>3, <1>5, <1>6, ObjectWritten
<1> HIDE DEF new
<1>8. ASSUME Instances(objs),
             f \in RefPlaces(objs[k]) /\ v # Null =>
               IsInstanceOf(objs[v.id].class, PlaceClass(objs[k].class, f))
      PROVE  Instances(new)
  <2>1. ASSUME NEW i \in RefPlaces(objs[k]), es[i] # Null
        PROVE  IsInstanceOf(objs[es[i].id].class, PlaceClass(objs[k].class, i))
    <3>1. CASE i = f
      BY <1>3, <1>4, <1>8, <2>1, <3>1
    <3>2. CASE i # f
      BY <1>1, <1>3, <1>4, <1>8, <2>1, <3>2 DEF Instances
    <3> QED BY <3>1, <3>2
  <2> QED BY <1>7, <1>8, <2>1
<1> QED
  BY <1>2, <1>7, <1>8 DEF WrittenRight

-----------------------------------------------------------------------------
(* A collection. *)

LEMMA ReachableFacts ==
  ASSUME NEW P, Targets(P) \subseteq DOMAIN objects,
         \A k \in DOMAIN objects : Targets(References(objects[k])) \subseteq DOMAIN objects
  PROVE  /\ Reachable(P) \subseteq DOMAIN objects /\ KeepsReachable(Reachable(P), P)
         /\ \A S \in SUBSET DOMAIN objects : KeepsReachable(S, P) => Reachable(P) \subseteq S
<1>1. Reachable(P) \subseteq DOMAIN objects
      /\ \A S \in SUBSET DOMAIN objects : KeepsReachable(S, P) => Reachable(P) \subseteq S
  BY DEF Reachable
<1>2. Targets(P) \subseteq Reachable(P)
  BY DEF Reachable, KeepsReachable
<1>3. ASSUME NEW k \in Reachable(P) PROVE Targets(References(objects[k])) \subseteq Reachable(P)
  <2> SUFFICES ASSUME NEW q \in Targets(References(objects[k])),
                      NEW ids \in SUBSET DOMAIN objects, KeepsReachable(ids, P)
               PROVE  q \in ids
    BY <1>1 DEF Reachable
  <2>1. k \in ids
    BY DEF Reachable
  <2> QED BY <2>1 DEF KeepsReachable
<1> QED
  BY <1>1, <1>2, <1>3 DEF KeepsReachable

(* Where a pointer leads, and how often there were collections, after this one. *)
Moved(collect, p) == IF collect THEN Move(p) ELSE p
After(collect) == IF collect THEN epoch + 1 ELSE epoch

LEMMA MovedFacts ==
  ASSUME NEW n \in Nat, epoch \in Nat, NEW collect \in BOOLEAN, NEW p, p = Null \/ p \in Pointers(n)
  PROVE  /\ p = Null => Moved(collect, p) = Null
         /\ p # Null => /\ Moved(collect, p) \in Pointers(n) /\ Moved(collect, p).id = p.id
                        /\ collect => Moved(collect, p).region = epoch + 1
         /\ p \in Pointers(n) => Moved(collect, p) \in Pointers(n) /\ Moved(collect, p).id = p.id
BY DEF Moved, Move, Pointers

LEMMA CollectedStack ==
  ASSUME NEW n \in Nat, epoch \in Nat, NEW collect \in BOOLEAN, NEW ts, NEW held,
         StackOK(Dropped(slots, ts), Dropped(types, ts), n)
  PROVE  LET below == Collected(collect, ts, held).slots
         IN  /\ StackOK(below, Dropped(types, ts), n)
             /\ Refs(below, Dropped(types, ts))
                  \subseteq {Moved(collect, p) : p \in Refs(Dropped(slots, ts), Dropped(types, ts))}
<1> DEFINE s == Dropped(slots, ts)
           t == Dropped(types, ts)
           below == Collected(collect, ts, held).slots
<1>1. s \in Seq(SlotValue) /\ t \in Seq(SlotType) /\ Len(s) = Len(t) /\ DOMAIN t = 1..Len(t)
      /\ \A i \in 1..Len(t) : Fits(s[i], t[i], n)
  BY DEF StackOK
<1>2. below = IF ~collect THEN s ELSE [i \in DOMAIN s |-> IF i \in RefSlots(t) THEN Move(s[i]) ELSE s[i]]
  BY DEF Collected
<1>3. DOMAIN s = 1..Len(t) /\ DOMAIN below = DOMAIN s /\ Len(t) \in Nat
  BY <1>1, <1>2
<1>4. \A i \in 1..Len(t) : below[i] = IF t[i] = "ref" THEN Moved(collect, s[i]) ELSE s[i]
  BY <1>1, <1>2, <1>3 DEF RefSlots, Moved
<1> HIDE DEF below
<1>5. ASSUME NEW i \in 1..Len(t) PROVE Fits(below[i], t[i], n)
  <2>1. CASE t[i] # "ref"
    BY <1>1, <1>4, <2>1
  <2>2. CASE t[i] = "ref"
    <3>1. s[i] = Null \/ s[i] \in Pointers(n)
      BY <1>1, <2>2 DEF Fits
    <3>2. below[i] = Null \/ below[i] \in Pointers(n)
      BY <1>4, <2>2, <3>1, MovedFacts
    <3> QED BY <2>2, <3>2 DEF Fits, SlotValue, Pointers
  <2> QED BY <2>1, <2>2
<1>6. below \in Seq(SlotValue) /\ Len(below) = Len(t)
  <2>1. \A i \in 1..Len(t) : below[i] \in SlotValue
    BY <1>5 DEF Fits
  <2>2. CASE ~collect
    BY <1>1, <1>2, <2>2 DEF below
  <2>3. CASE collect
    <3> DEFINE v(i) == IF i \in RefSlots(t) THEN Move(s[i]) ELSE s[i]
    <3>1. below = [i \in 1..Len(t) |-> v(i)]
      BY <1>2, <1>3, <2>3 DEF below
    <3>2. \A i \in 1..Len(t) : v(i) \in SlotValue
      <4> HIDE DEF v
      <4> QED BY <2>1, <3>1
    <3> HIDE DEF v
    <3> QED BY <1>3, <3>1, <3>2
  <2> QED BY <2>2, <2>3
<1>7. StackOK(below, t, n)
  BY <1>1, <1>5, <1>6 DEF StackOK
<1>8. Refs(below, t) \subseteq {Moved(collect, p) : p \in Refs(s, t)}
  BY <1>1, <1>4 DEF Refs, RefSlots
<1> QED
  BY <1>7, <1>8 DEF below

(* The pointers a collection starts from, and what the heap is like after it. *)
Held(ts, held) == Pinned \cup held \cup Refs(Dropped(slots, ts), Dropped(types, ts))
CollectedRight(ts, collect, held) ==
  LET new == Collected(collect, ts, held).objects
  IN  /\ HeapOK(new, After(collect)) /\ Len(new) = Len(objects)
      /\ Clean({Moved(collect, p) : p \in Held(ts, held)}, new, After(collect))
      /\ \A k \in 1..Len(objects) : /\ new[k].class = objects[k].class
                                    /\ DOMAIN new[k].elements = DOMAIN objects[k].elements
      /\ Instances(objects) => Instances(new)

LEMMA CollectedHeap ==
  ASSUME HeapOK(objects, epoch), NEW collect \in BOOLEAN, NEW ts, NEW held,
         Held(ts, held) \subseteq {Null} \cup Pointers(Len(objects)),
         Clean(Held(ts, held), objects, epoch)
  PROVE  CollectedRight(ts, collect, held)
<1> DEFINE n == Len(objects)
           new == Collected(collect, ts, held).objects
           P == Held(ts, held)
           moves == Reachable(P)
<1>1. /\ objects \in Seq(ObjectRecord) /\ n \in Nat /\ epoch \in Nat /\ DOMAIN objects = 1..n
      /\ \A m \in 1..n : Shaped(objects[m], n) /\ objects[m].region \in 0..epoch
  BY DEF HeapOK
<1>2. CASE ~collect
  <2>1. new = objects /\ After(collect) = epoch
    BY <1>2 DEF Collected, After
  <2>2. {Moved(collect, p) : p \in P} = P
    BY <1>2 DEF Moved
  <2> QED BY <2>1, <2>2 DEF CollectedRight
<1>3. CASE collect
  <2> DEFINE ob(k) == IF k \notin moves THEN objects[k]
                      ELSE [objects[k] EXCEPT
                              !.region = epoch + 1,
                              !.elements = [i \in DOMAIN @ |->
                                IF i \in RefPlaces(objects[k]) THEN Move(@[i]) ELSE @[i]]]
  <2>1. new = [k \in DOMAIN objects |-> ob(k)]
    <3>1. P = Pinned \cup held \cup {Dropped(slots, ts)[i] : i \in RefSlots(Dropped(types, ts))}
      BY DEF Refs, Held
    <3> QED BY <1>3, <3>1 DEF Collected
  <2>2. After(collect) = epoch + 1 /\ epoch + 1 \in Nat
    BY <1>1, <1>3 DEF After
  <2>3. moves \subseteq 1..n /\ KeepsReachable(moves, P)
    <3>1. Targets(P) \subseteq 1..n
      BY DEF Targets, Pointers
    <3>2. \A k \in 1..n : Targets(References(objects[k])) \subseteq 1..n
      BY <1>1, ReferenceFacts DEF Targets, Pointers
    <3> QED BY <1>1, <3>1, <3>2, ReachableFacts
  <2>4. ASSUME NEW k \in 1..n
        PROVE  /\ Shaped(ob(k), n) /\ ob(k).region \in 0..epoch + 1
               /\ ob(k).class = objects[k].class
               /\ DOMAIN ob(k).elements = DOMAIN objects[k].elements
               /\ RefPlaces(ob(k)) = RefPlaces(objects[k])
               /\ k \in moves => ob(k).region = epoch + 1
               /\ \A i \in RefPlaces(objects[k]) :
                    ob(k).elements[i] = Moved(k \in moves, objects[k].elements[i])
    <3>1. CASE k \notin moves
      BY <1>1, <3>1 DEF Moved
    <3>2. CASE k \in moves
      <4> DEFINE o == objects[k]
                 es == [i \in DOMAIN o.elements |->
                          IF i \in RefPlaces(o) THEN Move(o.elements[i]) ELSE o.elements[i]]
      <4>1. /\ o = [class |-> o.class, region |-> o.region, elements |-> o.elements]
            /\ o.class \in ObjectClasses /\ o.region \in Nat
            /\ DOMAIN o.elements \subseteq Nat
        BY <1>1, RecordFacts
      <4>2. ob(k) = [class |-> o.class, region |-> epoch + 1, elements |-> es]
        BY <3>2, <4>1
      <4>3. \A i \in DOMAIN o.elements : Holds(es[i], PlaceClass(o.class, i), n)
        <5> SUFFICES ASSUME NEW i \in DOMAIN o.elements PROVE Holds(es[i], PlaceClass(o.class, i), n)
          OBVIOUS
        <5>1. Holds(o.elements[i], PlaceClass(o.class, i), n)
          BY <1>1 DEF Shaped
        <5>2. CASE i \notin RefPlaces(o)
          BY <5>1, <5>2
        <5>3. CASE i \in RefPlaces(o)
          <6>1. es[i] = Moved(TRUE, o.elements[i]) /\ ~IsPrimitive(PlaceClass(o.class, i))
            BY <5>3 DEF Moved, RefPlaces
          <6>2. o.elements[i] = Null \/ o.elements[i] \in Pointers(n)
            BY <5>1, <6>1 DEF Holds
          <6>3. es[i] = Null \/ es[i] \in Pointers(n)
            BY <1>1, <6>1, <6>2, MovedFacts
          <6> QED BY <6>1, <6>3 DEF Holds
        <5> QED BY <5>2, <5>3
      <4>4. es \in [DOMAIN o.elements -> PlaceValue] /\ DOMAIN es = DOMAIN o.elements
        BY <1>1, <4>3, HeldValues
      <4>5. \A i \in RefPlaces(o) : es[i] = Moved(k \in moves, o.elements[i])
        BY <3>2 DEF RefPlaces, Moved
      <4>6. \E m \in Nat : DOMAIN o.elements = Places(o.class, m)
        BY <1>1 DEF Shaped
      <4> HIDE DEF es, ob, o
      <4>7. ob(k) \in ObjectRecord
        BY <2>2, <4>1, <4>2, <4>4 DEF ObjectRecord
      <4>8. ob(k).class = o.class /\ ob(k).region = epoch + 1 /\ ob(k).elements = es
        BY <4>2
      <4>9. Shaped(ob(k), n)
        BY <4>3, <4>4, <4>6, <4>7, <4>8 DEF Shaped
      <4>10. RefPlaces(ob(k)) = RefPlaces(o)
        BY <4>4, <4>8 DEF RefPlaces
      <4>11. \A i \in RefPlaces(objects[k]) :
               ob(k).elements[i] = Moved(k \in moves, objects[k].elements[i])
        BY <4>5, <4>8 DEF o
      <4>12. /\ ob(k).class = objects[k].class
             /\ DOMAIN ob(k).elements = DOMAIN objects[k].elements
             /\ RefPlaces(ob(k)) = RefPlaces(objects[k])
        BY <4>4, <4>8, <4>10 DEF o
      <4>13. ob(k).region = epoch + 1 /\ ob(k).region \in 0..epoch + 1
        <5>1. epoch + 1 \in 0..epoch + 1
          BY <1>1
        <5> QED BY <4>8, <5>1
      <4> HIDE DEF moves, n
      <4> QED BY <4>9, <4>11, <4>12, <4>13
    <3> QED BY <3>1, <3>2
  <2> HIDE DEF ob
  <2>5. /\ \A k \in 1..n : ob(k) \in ObjectRecord
        /\ new \in Seq(ObjectRecord) /\ Len(new) = n /\ DOMAIN new = 1..n
        /\ \A k \in 1..n : new[k] = ob(k)
    <3>1. \A k \in 1..n : ob(k) \in ObjectRecord
      BY <2>4 DEF Shaped
    <3> HIDE DEF new
    <3> QED BY <1>1, <2>1, <3>1
  <2> HIDE DEF new, moves
  <2>6. HeapOK(new, epoch + 1)
    BY <2>2, <2>4, <2>5 DEF HeapOK
  <2>7. Clean({Moved(collect, p) : p \in P}, new, epoch + 1)
    <3>1. \A p \in {Moved(collect, q) : q \in P} \ {Null} : p.region = epoch + 1 /\ p.id \in moves
      <4> SUFFICES ASSUME NEW q \in P, Moved(collect, q) # Null
                   PROVE  Moved(collect, q).region = epoch + 1 /\ Moved(collect, q).id \in moves
        OBVIOUS
      <4>1. q # Null /\ q \in Pointers(n)
        BY <1>1, MovedFacts
      <4>2. q.id \in moves
        BY <2>3, <4>1 DEF KeepsReachable, Targets
      <4> QED BY <1>1, <1>3, <4>1, <4>2, MovedFacts
    <3>2. ASSUME NEW k \in moves
          PROVE  /\ new[k].region = epoch + 1
                 /\ \A p \in References(new[k]) : p.region = epoch + 1 /\ p.id \in moves
      <4>1. k \in 1..n /\ new[k] = ob(k) /\ ob(k).region = epoch + 1
        BY <2>3, <2>4, <2>5
      <4>2. ASSUME NEW p \in References(ob(k)) PROVE p.region = epoch + 1 /\ p.id \in moves
        <5>1. PICK i \in RefPlaces(objects[k]) : p = ob(k).elements[i] /\ p # Null
          BY <2>4, <4>1 DEF References
        <5>2. p = Moved(TRUE, objects[k].elements[i])
          BY <2>4, <4>1, <5>1
        <5>3. objects[k].elements[i] = Null \/ objects[k].elements[i] \in Pointers(n)
          BY <1>1, <4>1, <5>1 DEF Shaped, Holds, RefPlaces
        <5>4. objects[k].elements[i] # Null
          BY <1>1, <5>1, <5>2, <5>3, MovedFacts
        <5>5. objects[k].elements[i].id \in moves
          BY <2>3, <4>1, <5>4 DEF KeepsReachable, Targets, References
        <5> QED BY <1>1, <5>2, <5>3, <5>4, <5>5, MovedFacts
      <4> QED BY <4>1, <4>2
    <3>3. CleanIn(moves, {Moved(collect, p) : p \in P}, new, epoch + 1)
      BY <2>3, <2>5, <3>1, <3>2 DEF CleanIn
    <3> QED BY <3>3 DEF Clean
  <2>8. ASSUME Instances(objects) PROVE Instances(new)
    <3> SUFFICES ASSUME NEW k \in 1..n, NEW i \in RefPlaces(new[k]), new[k].elements[i] # Null
                 PROVE  IsInstanceOf(new[new[k].elements[i].id].class, PlaceClass(new[k].class, i))
      BY <2>5 DEF Instances
    <3>1. new[k] = ob(k) /\ i \in RefPlaces(objects[k])
      BY <2>4, <2>5
    <3>2. new[k].elements[i] = Moved(k \in moves, objects[k].elements[i])
      BY <2>4, <3>1
    <3>3. objects[k].elements[i] = Null \/ objects[k].elements[i] \in Pointers(n)
      BY <1>1, <3>1 DEF Shaped, Holds, RefPlaces
    <3>4. objects[k].elements[i] # Null /\ new[k].elements[i].id = objects[k].elements[i].id
          /\ objects[k].elements[i].id \in 1..n
      <4> DEFINE b == k \in moves
      <4>1. b \in BOOLEAN /\ new[k].elements[i] = Moved(b, objects[k].elements[i])
        BY <3>2
      <4> HIDE DEF b
      <4>2. objects[k].elements[i] # Null
        BY <1>1, <3>3, <4>1, MovedFacts
      <4>3. new[k].elements[i].id = objects[k].elements[i].id
        BY <1>1, <3>3, <4>1, <4>2, MovedFacts
      <4> QED BY <3>3, <4>2, <4>3 DEF Pointers
    <3>5. IsInstanceOf(objects[objects[k].elements[i].id].class, PlaceClass(objects[k].class, i))
      BY <1>1, <2>8, <3>1, <3>4 DEF Instances
    <3> QED BY <2>4, <2>5, <3>1, <3>4, <3>5
  <2> QED BY <2>2, <2>4, <2>5, <2>6, <2>7, <2>8 DEF new, CollectedRight
<1> QED
  BY <1>2, <1>3

-----------------------------------------------------------------------------
(* The inductive invariant. *)

Arrays(ls) == {ls[i].array : i \in DOMAIN ls}

(* Each call of makeInnerArray fills an array that is deep enough for the dimensions *)
(* it has left, with arrays of the class of its elements.                            *)
LevelsOK(ls, objs) ==
  /\ ls \in Seq([array : Pointers(Len(objs)), filled : Nat, counts : Seq(Nat)])
  /\ \A i \in 1..Len(ls) : /\ Len(ls[i].counts) > 0
                           /\ objs[ls[i].array.id].class.dims > Len(ls[i].counts)
  /\ \A i, j \in 1..Len(ls) : j = i + 1 =>
       objs[ls[j].array.id].class = ElementClass(objs[ls[i].array.id].class)

Known == Classes \cup {ArrayOf(class) : class \in Classes}

IInv ==
  /\ HeapOK(objects, epoch)
  /\ StackOK(slots, types, Len(objects))
  /\ LevelsOK(levels, objects)
  /\ Clean(Arrays(levels) \cup Refs(slots, types), objects, epoch)
  /\ loaded \subseteq Known

InstancesKept == Instances(objects) => Instances(objects')

LEMMA Basics ==
  ASSUME IInv
  PROVE  /\ Len(objects) \in Nat /\ epoch \in Nat /\ DOMAIN objects = 1..Len(objects)
         /\ \A k \in 1..Len(objects) : Shaped(objects[k], Len(objects))
         /\ Len(types) \in Nat /\ Len(slots) = Len(types)
         /\ Arrays(levels) \cup Refs(slots, types) \subseteq {Null} \cup Pointers(Len(objects))
<1>1. /\ Len(objects) \in Nat /\ epoch \in Nat /\ DOMAIN objects = 1..Len(objects)
      /\ \A k \in 1..Len(objects) : Shaped(objects[k], Len(objects))
  BY DEF IInv, HeapOK
<1>2. Len(types) \in Nat /\ Len(slots) = Len(types) /\ DOMAIN types = 1..Len(types)
      /\ \A i \in 1..Len(types) : Fits(slots[i], types[i], Len(objects))
  BY DEF IInv, StackOK
<1>3. Refs(slots, types) \subseteq {Null} \cup Pointers(Len(objects))
  BY <1>2 DEF Refs, RefSlots, Fits
<1>4. Arrays(levels) \subseteq Pointers(Len(objects))
  <2> DEFINE L == [array : Pointers(Len(objects)), filled : Nat, counts : Seq(Nat)]
  <2>1. levels \in Seq(L) /\ \A r \in L : r.array \in Pointers(Len(objects))
    BY DEF IInv, LevelsOK
  <2> HIDE DEF L
  <2> QED BY <2>1 DEF Arrays
<1> QED
  BY <1>1, <1>2, <1>3, <1>4

LEMMA NoLevels == \A objs : LevelsOK(<<>>, objs)
BY DEF LevelsOK

LEMMA LevelsKept ==
  ASSUME NEW ls, NEW objs, NEW new, Len(objs) \in Nat, Len(new) \in Nat, Len(objs) <= Len(new),
         \A k \in 1..Len(objs) : new[k].class = objs[k].class,
         LevelsOK(ls, objs)
  PROVE  LevelsOK(ls, new)
<1> DEFINE L(n) == [array : Pointers(n), filled : Nat, counts : Seq(Nat)]
<1>1. L(Len(objs)) \subseteq L(Len(new))
  BY DEF Pointers
<1>2. ls \in Seq(L(Len(objs))) /\ Len(ls) \in Nat /\ \A i \in 1..Len(ls) : ls[i] \in L(Len(objs))
  <2>1. ls \in Seq(L(Len(objs)))
    BY DEF LevelsOK
  <2> HIDE DEF L
  <2> QED BY <2>1
<1>3. ls \in Seq(L(Len(new)))
  <2> HIDE DEF L
  <2> QED BY <1>1, <1>2
<1>4. \A i \in 1..Len(ls) : ls[i].array.id \in 1..Len(objs)
  BY <1>2 DEF Pointers
<1> QED
  BY <1>3, <1>4 DEF LevelsOK

(* Steps that leave the heap as it was. *)
LEMMA StackStep ==
  ASSUME IInv, UNCHANGED <<objects, epoch, levels>>, loaded' \subseteq Known,
         NEW P, Clean(P, objects, epoch), Arrays(levels) \subseteq P,
         StackOK(slots', types', Len(objects)), Refs(slots', types') \subseteq P
  PROVE  IInv' /\ InstancesKept
<1>1. Clean(Arrays(levels) \cup Refs(slots', types'), objects, epoch)
  BY CleanPart
<1> QED
  BY <1>1 DEF IInv, InstancesKept

LEMMA ThrowStep ==
  ASSUME IInv, UNCHANGED <<objects, epoch, levels>>, loaded' \subseteq Known,
         slots' = <<>>, types' = <<>>
  PROVE  IInv' /\ InstancesKept
<1>1. Clean(Arrays(levels) \cup Refs(slots, types), objects, epoch)
  BY DEF IInv
<1>2. StackOK(slots', types', Len(objects)) /\ Refs(slots', types') = {}
  BY Basics, EmptyStack
<1> QED
  BY <1>1, <1>2, StackStep

LEMMA ReplaceStep ==
  ASSUME IInv, UNCHANGED <<objects, epoch, levels>>, loaded' \subseteq Known,
         NEW ts \in Seq(OperandType), Ready(ts), NEW type \in OperandType, NEW v,
         Fits(Encode(type, v), type, Len(objects)), Replace(ts, type, v),
         NEW P, Clean(P, objects, epoch), Arrays(levels) \cup Refs(slots, types) \subseteq P,
         type = "ref" => v \in P
  PROVE  IInv' /\ InstancesKept
<1>1. Len(objects) \in Nat /\ StackOK(slots, types, Len(objects))
  BY Basics DEF IInv
<1>2. /\ StackOK(Dropped(slots, ts), Dropped(types, ts), Len(objects))
      /\ Refs(Dropped(slots, ts), Dropped(types, ts)) \subseteq Refs(slots, types)
  BY <1>1, BelowOperands
<1>3. /\ StackOK(slots', types', Len(objects))
      /\ Refs(slots', types') \subseteq Refs(Dropped(slots, ts), Dropped(types, ts))
                                          \cup (IF type = "ref" THEN {v} ELSE {})
  BY <1>1, <1>2, ValuePushed DEF Replace
<1> QED
  BY <1>2, <1>3, StackStep

LEMMA NumberStep ==
  ASSUME IInv, UNCHANGED <<objects, epoch, levels>>, loaded' \subseteq Known,
         NEW ts \in Seq(OperandType), Ready(ts), NEW type \in {"int", "long"}, NEW v \in Int,
         Replace(ts, type, v)
  PROVE  IInv' /\ InstancesKept
<1>1. Fits(Encode(type, v), type, Len(objects)) /\ type \in OperandType /\ type # "ref"
  BY Basics, EncodedFits DEF OperandType
<1>2. Clean(Arrays(levels) \cup Refs(slots, types), objects, epoch)
  BY DEF IInv
<1> QED
  BY <1>1, <1>2, ReplaceStep

-----------------------------------------------------------------------------
(* Instructions that only calculate. *)

LEMMA ListOfTypes ==
  /\ <<>> \in Seq(OperandType)
  /\ \A a \in OperandType : <<a>> \in Seq(OperandType) /\ Len(<<a>>) = 1 /\ <<a>>[1] = a
  /\ \A a, b \in OperandType :
       <<a, b>> \in Seq(OperandType) /\ Len(<<a, b>>) = 2 /\ <<a, b>>[1] = a /\ <<a, b>>[2] = b
  /\ \A a, b, c \in OperandType :
       /\ <<a, b, c>> \in Seq(OperandType) /\ Len(<<a, b, c>>) = 3
       /\ <<a, b, c>>[1] = a /\ <<a, b, c>>[2] = b /\ <<a, b, c>>[3] = c
OBVIOUS

(* What an instruction that wants one, two or three operands gets. *)
Typed(v, type) ==
  /\ type \in {"int", "long"} => v \in Int
  /\ type = "float" => v \in Floats
  /\ type = "ref" => /\ v = Null \/ v \in Pointers(Len(objects))
                     /\ v \in Refs(slots, types)

LEMMA OneOperand ==
  ASSUME IInv, NEW a \in OperandType, Ready(<<a>>)
  PROVE  Typed(Operand(<<a>>, 1), a)
<1> DEFINE ts == <<a>>
<1>1. ts \in Seq(OperandType) /\ Len(ts) = 1 /\ ts[1] = a
  BY ListOfTypes
<1>2. StackOK(slots, types, Len(objects)) /\ Len(objects) \in Nat
  BY Basics DEF IInv
<1> HIDE DEF ts
<1>3. Ready(ts)
  BY DEF ts
<1>4. 1 \in 1..Len(ts)
  BY <1>1
<1>5. Typed(Operand(ts, 1), a)
  BY <1>1, <1>2, <1>3, <1>4, OperandFits DEF Typed
<1> QED
  BY <1>5 DEF ts

LEMMA TwoOperands ==
  ASSUME IInv, NEW a \in OperandType, NEW b \in OperandType, Ready(<<a, b>>)
  PROVE  Typed(Operand(<<a, b>>, 1), a) /\ Typed(Operand(<<a, b>>, 2), b)
<1> DEFINE ts == <<a, b>>
<1>1. ts \in Seq(OperandType) /\ Len(ts) = 2 /\ ts[1] = a /\ ts[2] = b
  BY ListOfTypes
<1>2. StackOK(slots, types, Len(objects)) /\ Len(objects) \in Nat
  BY Basics DEF IInv
<1> HIDE DEF ts
<1>3. Ready(ts)
  BY DEF ts
<1>4. 1 \in 1..Len(ts) /\ 2 \in 1..Len(ts)
  BY <1>1
<1>5. Typed(Operand(ts, 1), a)
  BY <1>1, <1>2, <1>3, <1>4, OperandFits DEF Typed
<1>6. Typed(Operand(ts, 2), b)
  BY <1>1, <1>2, <1>3, <1>4, OperandFits DEF Typed
<1> QED
  BY <1>5, <1>6 DEF ts

LEMMA ThreeOperands ==
  ASSUME IInv, NEW a \in OperandType, NEW b \in OperandType, NEW c \in OperandType, Ready(<<a, b, c>>)
  PROVE  /\ Typed(Operand(<<a, b, c>>, 1), a) /\ Typed(Operand(<<a, b, c>>, 2), b)
         /\ Typed(Operand(<<a, b, c>>, 3), c)
<1> DEFINE ts == <<a, b, c>>
<1>1. ts \in Seq(OperandType) /\ Len(ts) = 3 /\ ts[1] = a /\ ts[2] = b /\ ts[3] = c
  BY ListOfTypes
<1>2. StackOK(slots, types, Len(objects)) /\ Len(objects) \in Nat
  BY Basics DEF IInv
<1> HIDE DEF ts
<1>3. Ready(ts)
  BY DEF ts
<1>4. 1 \in 1..Len(ts) /\ 2 \in 1..Len(ts) /\ 3 \in 1..Len(ts)
  BY <1>1
<1>5. Typed(Operand(ts, 1), a)
  BY <1>1, <1>2, <1>3, <1>4, OperandFits DEF Typed
<1>6. Typed(Operand(ts, 2), b)
  BY <1>1, <1>2, <1>3, <1>4, OperandFits DEF Typed
<1>7. Typed(Operand(ts, 3), c)
  BY <1>1, <1>2, <1>3, <1>4, OperandFits DEF Typed
<1> QED
  BY <1>5, <1>6, <1>7 DEF ts

LEMMA SameKnown ==
  ASSUME IInv, SameHeap
  PROVE  UNCHANGED <<objects, epoch, levels>> /\ loaded' \subseteq Known
BY DEF SameHeap, IInv

LEMMA ConstantStep ==
  ASSUME IInv, NEW type \in OperandType, NEW values, Constant(type, values),
         type \in {"int", "long"} => values \subseteq Int, type = "float" => values \subseteq Floats,
         type = "ref" => values \subseteq {Null}
  PROVE  IInv' /\ InstancesKept
<1>1. PICK v \in values : Ready(<<>>) /\ Replace(<<>>, type, v) /\ Normally /\ SameHeap
  BY DEF Constant
<1>2. <<>> \in Seq(OperandType)
  BY ListOfTypes
<1>3. Fits(Encode(type, v), type, Len(objects))
  BY Basics, EncodedFits DEF OperandType
<1> DEFINE P == Arrays(levels) \cup Refs(slots, types) \cup {Null}
<1>4. Clean(P, objects, epoch)
  BY DEF IInv, Clean, CleanIn
<1>5. type = "ref" => v \in P
  OBVIOUS
<1> HIDE DEF P
<1>6. Arrays(levels) \cup Refs(slots, types) \subseteq P
  BY DEF P
<1> QED
  BY <1>1, <1>2, <1>3, <1>4, <1>5, <1>6, SameKnown, ReplaceStep

LEMMA SimpleOpStep ==
  ASSUME IInv, NEW type \in {"int", "long"}, NEW op \in {"add", "sub", "mul"}, SimpleOp(op, type)
  PROVE  IInv' /\ InstancesKept
<1> DEFINE ts == <<type, type>>
           v == WrapSigned(op, Operand(ts, 1), Operand(ts, 2), Width[type])
<1>1. Ready(ts) /\ Replace(ts, type, v) /\ SameHeap
  BY DEF SimpleOp
<1>2. type \in OperandType /\ type \in Primitives /\ ts \in Seq(OperandType)
  BY DEF OperandType, Primitives
<1>3. Operand(ts, 1) \in Int /\ Operand(ts, 2) \in Int
  BY <1>1, <1>2, TwoOperands DEF Typed
<1>4. v \in Int
  <2> HIDE DEF ts
  <2> QED BY <1>2, <1>3, WrappedNumber
<1> HIDE DEF v, ts
<1> QED
  BY <1>1, <1>2, <1>4, SameKnown, NumberStep

LEMMA DivideStep ==
  ASSUME IInv, NEW type \in {"int", "long"}, NEW op, Divide(type, op)
  PROVE  IInv' /\ InstancesKept
<1> DEFINE ts == <<type, type>>
           a == Operand(ts, 1)
           b == Operand(ts, 2)
           v == IF op = "div" THEN Quotient(a, b) ELSE Remainder(a, b)
<1>1. Ready(ts) /\ SameHeap
      /\ IF DivisionIsUndefined(a, b, Width[type]) THEN Undefined ELSE Replace(ts, type, v)
  BY DEF Divide
<1>2. type \in OperandType /\ ts \in Seq(OperandType)
  BY DEF OperandType
<1>3. a \in Int /\ b \in Int
  BY <1>1, <1>2, TwoOperands DEF Typed
<1>4. CASE DivisionIsUndefined(a, b, Width[type])
  BY <1>1, <1>4, SameKnown, ThrowStep DEF Undefined, ThrowException
<1>5. CASE ~DivisionIsUndefined(a, b, Width[type])
  <2> HIDE DEF ts, a, b
  <2>1. v \in Int
    BY <1>3, <1>5, DividedNumber DEF DivisionIsUndefined
  <2> HIDE DEF v
  <2> QED BY <1>1, <1>2, <1>5, <2>1, SameKnown, NumberStep
<1> QED
  BY <1>4, <1>5

LEMMA NegStep ==
  ASSUME IInv, NEW type \in {"int", "long"}, Neg(type)
  PROVE  IInv' /\ InstancesKept
<1> DEFINE ts == <<type>>
           v == Negated(Operand(ts, 1), Width[type])
<1>1. Ready(ts) /\ Replace(ts, type, v) /\ SameHeap
  BY DEF Neg
<1>2. type \in OperandType /\ type \in Primitives /\ ts \in Seq(OperandType)
  BY DEF OperandType, Primitives
<1>3. Operand(ts, 1) \in Int /\ -Operand(ts, 1) \in Int
  BY <1>1, <1>2, OneOperand DEF Typed
<1>4. v \in Int
  <2> HIDE DEF ts
  <2> QED BY <1>2, <1>3, SignedPattern DEF Negated
<1> HIDE DEF v, ts
<1> QED
  BY <1>1, <1>2, <1>4, SameKnown, NumberStep

LEMMA ShiftStep ==
  ASSUME IInv, NEW type \in {"int", "long"}, NEW kind, Shift(type, kind)
  PROVE  IInv' /\ InstancesKept
<1> DEFINE ts == <<type, "int">>
           v == Shifted(Operand(ts, 1), Operand(ts, 2), Width[type], IntBits, kind)
<1>1. Ready(ts) /\ Replace(ts, type, v) /\ SameHeap
  BY DEF Shift
<1>2. type \in OperandType /\ "int" \in OperandType /\ type \in Primitives /\ ts \in Seq(OperandType)
  BY DEF OperandType, Primitives
<1>3. Operand(ts, 1) \in Int /\ Operand(ts, 2) \in Int
  BY <1>1, <1>2, TwoOperands DEF Typed
<1>4. v \in Int
  <2> HIDE DEF ts
  <2> QED BY <1>2, <1>3, ShiftedNumber
<1> HIDE DEF v, ts
<1> QED
  BY <1>1, <1>2, <1>4, SameKnown, NumberStep

LEMMA CompareStep ==
  ASSUME IInv, NEW type \in {"long", "float"}, NEW n \in Int, Compare(type, n)
  PROVE  IInv' /\ InstancesKept
<1> DEFINE ts == <<type, type>>
           v == Compared(Operand(ts, 1), Operand(ts, 2), n)
<1>1. Ready(ts) /\ Replace(ts, "int", v) /\ SameHeap
  BY DEF Compare
<1>2. type \in OperandType /\ ts \in Seq(OperandType)
  BY DEF OperandType
<1>3. Typed(Operand(ts, 1), type) /\ Typed(Operand(ts, 2), type)
  BY <1>1, <1>2, TwoOperands
<1>4. Operand(ts, 1) \in Int \cup {NaN} /\ Operand(ts, 2) \in Int \cup {NaN}
  BY <1>3, ValuesAssumption DEF Typed
<1>5. v \in Int
  <2> HIDE DEF ts
  <2> QED BY <1>4, ComparedNumber
<1> HIDE DEF v, ts
<1> QED
  BY <1>1, <1>2, <1>5, SameKnown, NumberStep

LEMMA CastStep ==
  ASSUME IInv, NEW from \in {"int", "long"}, NEW to \in {"int", "long", "byte", "char"}, Cast(from, to)
  PROVE  IInv' /\ InstancesKept
<1> DEFINE ts == <<from>>
           x == Operand(ts, 1)
           v == IF to = "char" THEN CastInteger(x, ByteBits, TRUE) ELSE CastInteger(x, Width[to], FALSE)
<1>1. Ready(ts) /\ Replace(ts, IF to = "long" THEN "long" ELSE "int", v) /\ SameHeap
  BY DEF Cast
<1>2. from \in OperandType /\ ts \in Seq(OperandType)
  BY DEF OperandType
<1>3. x \in Int
  BY <1>1, <1>2, OneOperand DEF Typed
<1>4. v \in Int
  <2> HIDE DEF x, ts
  <2>1. CASE to = "char"
    <3>1. "byte" \in Primitives /\ Width["byte"] = ByteBits
      BY Widths DEF Primitives
    <3> QED BY <1>3, <2>1, <3>1, CastNumber
  <2>2. CASE to # "char"
    <3>1. to \in Primitives
      BY <2>2 DEF Primitives
    <3> QED BY <1>3, <2>2, <3>1, CastNumber
  <2> QED BY <2>1, <2>2
<1> HIDE DEF v, ts
<1> QED
  BY <1>1, <1>2, <1>4, SameKnown, NumberStep

LEMMA CastFloatStep ==
  ASSUME IInv, NEW to \in {"int", "long"}, CastFloat(to)
  PROVE  IInv' /\ InstancesKept
<1> DEFINE ts == <<"float">>
           v == CastFloatToInt(Operand(ts, 1), Width[to])
<1>1. Ready(ts) /\ Replace(ts, to, v) /\ SameHeap
  BY DEF CastFloat
<1>2. "float" \in OperandType /\ to \in Primitives /\ ts \in Seq(OperandType)
  BY DEF OperandType, Primitives
<1>3. Operand(ts, 1) \in Floats
  BY <1>1, <1>2, OneOperand DEF Typed
<1>4. v \in Int
  <2> HIDE DEF ts
  <2> QED BY <1>2, <1>3, CastNumber
<1> HIDE DEF v, ts
<1> QED
  BY <1>1, <1>2, <1>4, SameKnown, NumberStep

-----------------------------------------------------------------------------
(* Instructions that move operands. *)

(* The slots that are moved, counted from the top, begin and end with whole operands. *)
LEMMA MovedSlots ==
  ASSUME NEW ts \in Seq(SlotType), Whole(ts), NEW pops \in 1..Len(ts), NEW top \in 1..pops,
         Whole(SubSeq(ts, 1, Len(ts) - pops)), Whole(SubSeq(ts, Len(ts) + 1 - top, Len(ts)))
  PROVE  /\ Len(ts) - pops > 0 => ts[Len(ts) - pops] # "long"
         /\ ts[Len(ts) + 1 - pops] # "half" /\ ts[Len(ts) + 1 - top] # "half"
         /\ top < pops => ts[Len(ts) - top] # "long"
         /\ ts[Len(ts)] # "long"
         /\ \A j \in 2..pops : ts[Len(ts) + 1 - j] = "long" <=> ts[Len(ts) + 2 - j] = "half"
<1> DEFINE L == Len(ts)
           m == L - pops
           low == SubSeq(ts, 1, m)
           high == SubSeq(ts, L + 1 - top, L)
<1>1. /\ L \in Nat /\ Len(ts) = L /\ DOMAIN ts = 1..L /\ m \in 0..L /\ pops <= L /\ L # 0 /\ m = L - pops
      /\ pops \in 1..L /\ top \in 1..pops /\ top \in 1..L
  OBVIOUS
<1>2. /\ ts[1] # "half"
      /\ \A i \in 1..L : ts[i] = "long" <=> (i < L /\ ts[i + 1] = "half")
  <2>1. ts # <<>>
    OBVIOUS
  <2> HIDE DEF L
  <2> QED BY <1>1, <2>1 DEF Whole
<1>3. Len(low) = m /\ DOMAIN low = 1..m /\ \A i \in 1..m : low[i] = ts[i]
  <2>1. 1 \in 1..L + 1 /\ 1 <= m + 1
    BY <1>1
  <2> HIDE DEF m
  <2>2. low \in Seq(SlotType) /\ Len(low) = m - 1 + 1 /\ \A i \in 1..m - 1 + 1 : low[i] = ts[1 + i - 1]
    BY <1>1, <2>1, PartOfList
  <2> HIDE DEF low
  <2>3. m - 1 + 1 = m /\ DOMAIN low = 1..Len(low) /\ \A i \in 1..m : 1 + i - 1 = i
    BY <1>1, <2>2
  <2> QED BY <2>2, <2>3
<1>6. /\ high # <<>> /\ high[1] = ts[L + 1 - top]
  <2>1. L + 1 - top \in 1..L + 1 /\ L \in 0..L /\ L + 1 - top <= L + 1 /\ L - (L + 1 - top) + 1 = top
    BY <1>1
  <2>2. /\ high \in Seq(SlotType) /\ Len(high) = L - (L + 1 - top) + 1
        /\ \A i \in 1..L - (L + 1 - top) + 1 : high[i] = ts[(L + 1 - top) + i - 1]
    BY <2>1, PartOfList
  <2>3. 1 \in 1..top /\ (L + 1 - top) + 1 - 1 = L + 1 - top
    BY <1>1
  <2> HIDE DEF high
  <2> QED BY <1>1, <2>1, <2>2, <2>3
<1>11. Whole(low) /\ Whole(high)
  OBVIOUS
<1> HIDE DEF L, m, low, high
<1>4. m > 0 => ts[m] # "long"
  <2> SUFFICES ASSUME m > 0 PROVE ts[m] # "long"
    OBVIOUS
  <2>1. low[m] = "long" <=> (m < m /\ low[m + 1] = "half")
    <3>1. m \in 1..m
      BY <1>1
    <3> QED BY <1>3, <1>11, <3>1 DEF Whole
  <2>2. ~(m < m) /\ m \in 1..m
    BY <1>1
  <2> QED BY <1>3, <2>1, <2>2
<1>5. ts[L + 1 - pops] # "half"
  <2>1. CASE m = 0
    <3>1. L + 1 - pops = 1
      BY <1>1, <2>1
    <3> QED BY <1>2, <3>1
  <2>2. CASE m # 0
    <3>1. m \in 1..L /\ m < L /\ m + 1 = L + 1 - pops /\ m > 0
      BY <1>1, <2>2
    <3> QED BY <1>2, <1>4, <3>1
  <2> QED BY <2>1, <2>2
<1>7. ts[L + 1 - top] # "half"
  BY <1>6, <1>11 DEF Whole
<1>8. top < pops => ts[L - top] # "long"
  <2> SUFFICES ASSUME top < pops PROVE ts[L - top] # "long"
    OBVIOUS
  <2>1. L - top \in 1..L /\ (L - top) + 1 = L + 1 - top
    BY <1>1
  <2>2. ts[L - top] = "long" => ts[(L - top) + 1] = "half"
    BY <1>2, <2>1
  <2> QED BY <1>7, <2>1, <2>2
<1>9. ts[L] # "long"
  <2>1. L \in 1..L /\ ~(L < L)
    BY <1>1
  <2> QED BY <1>2, <2>1
<1>10. \A j \in 2..pops : ts[L + 1 - j] = "long" <=> ts[L + 2 - j] = "half"
  <2> SUFFICES ASSUME NEW j \in 2..pops
               PROVE  ts[L + 1 - j] = "long" <=> ts[L + 2 - j] = "half"
    OBVIOUS
  <2>1. L + 1 - j \in 1..L /\ L + 1 - j < L /\ (L + 1 - j) + 1 = L + 2 - j
    BY <1>1
  <2>2. ts[L + 1 - j] = "long" <=> ts[(L + 1 - j) + 1] = "half"
    BY <1>2, <2>1
  <2> QED BY <2>1, <2>2
<1> QED
  BY <1>4, <1>5, <1>7, <1>8, <1>9, <1>10 DEF L, m

Joins(l, a, b, T) ==
  /\ l \in Seq(T) /\ Len(l) = Len(a) + Len(b)
  /\ \A i \in 1..Len(a) + Len(b) : l[i] = IF i <= Len(a) THEN a[i] ELSE b[i - Len(a)]

LEMMA Concatenated ==
  ASSUME NEW T, NEW a \in Seq(T), NEW b \in Seq(T)
  PROVE  Joins(a \o b, a, b, T)
BY DEF Joins

LEMMA ShuffledStack ==
  ASSUME NEW n \in Nat, NEW s, NEW ts, StackOK(s, ts, n),
         NEW pops \in 0..Len(ts), NEW pushes \in Seq(1..pops),
         Len(ts) - pops > 0 => ts[Len(ts) - pops] # "long",
         pushes # <<>> => /\ ts[Len(ts) + 1 - pushes[1]] # "half"
                          /\ ts[Len(ts) + 1 - pushes[Len(pushes)]] # "long",
         \A i \in 1..Len(pushes) : i < Len(pushes) =>
           (ts[Len(ts) + 1 - pushes[i]] = "long" <=> ts[Len(ts) + 1 - pushes[i + 1]] = "half")
  PROVE  LET s2 == Shuffled(s, Shuffle(pops, pushes))
             t2 == Shuffled(ts, Shuffle(pops, pushes))
         IN  StackOK(s2, t2, n) /\ Refs(s2, t2) \subseteq Refs(s, ts)
<1> DEFINE L == Len(ts)
           m == L - pops
           N == Len(pushes)
           s2 == Shuffled(s, Shuffle(pops, pushes))
           t2 == Shuffled(ts, Shuffle(pops, pushes))
           from(i) == IF i <= m THEN i ELSE L + 1 - pushes[i - m]
<1>1. s \in Seq(SlotValue) /\ ts \in Seq(SlotType) /\ Len(s) = L /\ Whole(ts) /\ L \in Nat
      /\ Len(ts) = L /\ (L > 0 => ts # <<>>) /\ DOMAIN ts = 1..L /\ DOMAIN s = 1..L
      /\ \A i \in 1..L : Fits(s[i], ts[i], n)
  BY DEF StackOK
<1>2. m \in 0..L /\ N \in Nat /\ DOMAIN pushes = 1..N /\ \A i \in 1..N : L + 1 - pushes[i] \in 1..L
  <2>1. N \in Nat /\ DOMAIN pushes = 1..N /\ \A i \in 1..N : pushes[i] \in 1..pops
    <3>1. Len(pushes) \in Nat /\ DOMAIN pushes = 1..Len(pushes)
          /\ \A i \in 1..Len(pushes) : pushes[i] \in 1..pops
      BY ListFacts
    <3> QED BY <3>1
  <2>2. pops \in 0..L
    OBVIOUS
  <2>3. m = L - pops
    OBVIOUS
  <2> HIDE DEF L, N, m
  <2> QED BY <1>1, <2>1, <2>2, <2>3, SMTT(30)
<1>11. /\ m > 0 => ts[m] # "long"
       /\ N > 0 => ts[L + 1 - pushes[1]] # "half" /\ ts[L + 1 - pushes[N]] # "long"
       /\ \A i \in 1..N : i < N =>
            (ts[L + 1 - pushes[i]] = "long" <=> ts[L + 1 - pushes[i + 1]] = "half")
  <2>1. N > 0 => pushes # <<>>
    BY SMTT(30)
  <2> QED BY <2>1, SMTT(30)
<1>12. s2 = SubSeq(s, 1, m) \o [i \in DOMAIN pushes |-> s[L + 1 - pushes[i]]]
  BY <1>1 DEF Shuffled, Shuffle
<1>13. t2 = SubSeq(ts, 1, m) \o [i \in DOMAIN pushes |-> ts[L + 1 - pushes[i]]]
  BY <1>1 DEF Shuffled, Shuffle
<1>14. m + N \in Nat /\ m \in Nat /\ L \in Nat
  BY <1>1, <1>2
<1> HIDE DEF L, m, N, s2, t2
<1>3. \A i \in 1..m + N : from(i) \in 1..L
  BY <1>1, <1>2
<1>4. ASSUME NEW T, NEW l \in Seq(T), Len(l) = L
      PROVE  LET l2 == SubSeq(l, 1, m) \o [i \in DOMAIN pushes |-> l[L + 1 - pushes[i]]]
             IN  l2 \in Seq(T) /\ Len(l2) = m + N /\ \A i \in 1..m + N : l2[i] = l[from(i)]
  <2> DEFINE a == SubSeq(l, 1, m)
             b == [i \in 1..N |-> l[L + 1 - pushes[i]]]
  <2>1. a \in Seq(T) /\ Len(a) = m /\ \A i \in 1..m : a[i] = l[i]
    <3>1. 1 \in 1..Len(l) + 1 /\ m \in 0..Len(l) /\ 1 <= m + 1
      BY <1>1, <1>2, <1>4
    <3>2. a \in Seq(T) /\ Len(a) = m - 1 + 1 /\ \A i \in 1..m - 1 + 1 : a[i] = l[1 + i - 1]
      BY <1>4, <3>1, PartOfList
    <3>3. m - 1 + 1 = m /\ \A i \in 1..m : 1 + i - 1 = i
      BY <1>14
    <3> HIDE DEF a
    <3> QED BY <3>2, <3>3
  <2>2. b \in Seq(T) /\ Len(b) = N /\ \A i \in 1..N : b[i] = l[L + 1 - pushes[i]]
    <3>1. \A i \in 1..N : l[L + 1 - pushes[i]] \in T
      BY <1>1, <1>2, <1>4
    <3> HIDE DEF a
    <3> QED BY <1>2, <3>1
  <2> HIDE DEF a, b
  <2>3. a \o b \in Seq(T) /\ Len(a \o b) = m + N
        /\ \A i \in 1..m + N : (a \o b)[i] = IF i <= m THEN a[i] ELSE b[i - m]
    <3>1. a \in Seq(T) /\ b \in Seq(T) /\ Len(a) = m /\ Len(b) = N
      BY <2>1, <2>2
    <3>2. /\ a \o b \in Seq(T) /\ Len(a \o b) = Len(a) + Len(b)
          /\ \A i \in 1..Len(a) + Len(b) : (a \o b)[i] = IF i <= Len(a) THEN a[i] ELSE b[i - Len(a)]
      <4>1. Joins(a \o b, a, b, T)
        BY <3>1, Concatenated
      <4> QED BY <4>1 DEF Joins
    <3> QED BY <3>1, <3>2
  <2>4. \A i \in 1..m + N : (a \o b)[i] = l[from(i)]
    <3> SUFFICES ASSUME NEW i \in 1..m + N PROVE (a \o b)[i] = l[from(i)]
      OBVIOUS
    <3>1. CASE i <= m
      BY <1>2, <2>1, <2>3, <3>1
    <3>2. CASE ~(i <= m)
      <4>1. i - m \in 1..N
        BY <1>2, <3>2, <1>1
      <4>2. (a \o b)[i] = b[i - m]
        BY <2>3, <3>2
      <4>3. b[i - m] = l[L + 1 - pushes[i - m]]
        BY <2>2, <4>1
      <4> QED BY <3>2, <4>2, <4>3
    <3> QED BY <3>1, <3>2
  <2> QED BY <1>2, <2>3, <2>4 DEF a, b
<1>5. /\ s2 \in Seq(SlotValue) /\ Len(s2) = m + N /\ \A i \in 1..m + N : s2[i] = s[from(i)]
  <2> HIDE DEF from
  <2> QED BY <1>1, <1>4, <1>12
<1>6. /\ t2 \in Seq(SlotType) /\ Len(t2) = m + N /\ \A i \in 1..m + N : t2[i] = ts[from(i)]
  <2> HIDE DEF from
  <2> QED BY <1>1, <1>4, <1>13
<1>7. Whole(t2)
  <2>1. /\ L > 0 => ts[1] # "half"
        /\ \A i \in 1..L : ts[i] = "long" <=> (i < L /\ ts[i + 1] = "half")
    BY <1>1 DEF Whole
  <2>2. DOMAIN t2 = 1..m + N /\ m + N \in Nat
    BY <1>2, <1>6
  <2>3. m + N > 0 => t2[1] # "half"
    <3> SUFFICES ASSUME m + N > 0 PROVE t2[1] # "half"
      OBVIOUS
    <3>1. 1 \in 1..m + N
      BY <2>2
    <3>2. CASE m > 0
      <4>1. from(1) = 1 /\ L > 0
        BY <1>2, <3>2, <1>1
      <4> QED BY <1>6, <2>1, <3>1, <4>1
    <3>3. CASE ~(m > 0)
      <4>1. from(1) = L + 1 - pushes[1] /\ N > 0
        BY <1>2, <3>3, <1>1, <3>1
      <4> QED BY <1>6, <1>11, <3>1, <4>1
    <3> QED BY <3>2, <3>3
  <2>4. ASSUME NEW i \in 1..m + N
        PROVE  t2[i] = "long" <=> (i < m + N /\ t2[i + 1] = "half")
    <3>1. i \in Nat /\ (i < m + N => i + 1 \in 1..m + N)
      BY <2>2
    <3>2. CASE i < m
      <4>1. from(i) = i /\ from(i + 1) = i + 1 /\ i \in 1..L /\ i < L /\ i < m + N
        BY <1>2, <1>1, <3>1, <3>2
      <4> QED BY <1>6, <2>1, <3>1, <4>1, SMTT(30)
    <3>3. CASE i = m /\ N = 0
      <4>1. from(i) = m /\ ~(i < m + N) /\ m > 0
        BY <1>2, <1>1, <3>1, <3>3
      <4> HIDE DEF from
      <4> QED BY <1>6, <1>11, <3>1, <4>1, <3>3
    <3>4. CASE i = m /\ N # 0
      <4>1. from(i) = m /\ i < m + N /\ m > 0 /\ from(i + 1) = L + 1 - pushes[1] /\ N > 0
        <5>1. ~(m + 1 <= m) /\ (m + 1) - m = 1 /\ m > 0 /\ m < m + N /\ N > 0
          BY <1>2, <1>1, <3>1, <3>4
        <5> QED BY <3>4, <5>1, <1>2
      <4>2. t2[i] = ts[m] /\ t2[i + 1] = ts[L + 1 - pushes[1]]
        BY <1>6, <3>1, <4>1
      <4> HIDE DEF from
      <4> QED BY <1>11, <4>1, <4>2
    <3>5. CASE i > m /\ i = m + N
      <4>1. from(i) = L + 1 - pushes[N] /\ ~(i < m + N) /\ N > 0
        BY <1>2, <1>1, <3>1, <3>5
      <4> HIDE DEF from
      <4> QED BY <1>6, <1>11, <3>1, <4>1
    <3>6. CASE i > m /\ i # m + N
      <4>1. i - m \in 1..N /\ i - m < N /\ (i + 1) - m = (i - m) + 1 /\ i < m + N /\ ~(i <= m) /\ ~(i + 1 <= m)
        <5>1. i \in Nat /\ i <= m + N
          BY <3>1, <1>14
        <5> HIDE DEF from
        <5> QED BY <1>2, <1>14, <5>1, <3>6
      <4>2. from(i) = L + 1 - pushes[i - m] /\ from(i + 1) = L + 1 - pushes[(i - m) + 1]
        BY <4>1
      <4>3. t2[i] = ts[from(i)] /\ t2[i + 1] = ts[from(i + 1)]
        BY <1>6, <3>1, <4>1
      <4>4. ts[L + 1 - pushes[i - m]] = "long" <=> ts[L + 1 - pushes[(i - m) + 1]] = "half"
        <5> HIDE DEF from
        <5> QED BY <1>11, <4>1
      <4> HIDE DEF from
      <4> QED BY <4>1, <4>2, <4>3, <4>4
    <3>7. i < m \/ i = m \/ i > m
      BY <1>14, <3>1
    <3> QED BY <3>2, <3>3, <3>4, <3>5, <3>6, <3>7
  <2>5. t2 # <<>> => m + N > 0
    BY <1>2, <1>6
  <2> QED BY <1>6, <2>2, <2>3, <2>4, <2>5 DEF Whole
<1>8. \A i \in 1..m + N : Fits(s2[i], t2[i], n)
  <2> HIDE DEF from
  <2> QED BY <1>1, <1>3, <1>5, <1>6
<1>9. StackOK(s2, t2, n)
  BY <1>5, <1>6, <1>7, <1>8 DEF StackOK
<1>10. Refs(s2, t2) \subseteq Refs(s, ts)
  <2> HIDE DEF from
  <2>1. DOMAIN t2 = 1..m + N
    BY <1>6, <1>2
  <2> SUFFICES ASSUME NEW i \in 1..m + N, t2[i] = "ref" PROVE s2[i] \in Refs(s, ts)
    BY <2>1 DEF Refs, RefSlots
  <2>2. from(i) \in 1..L /\ s2[i] = s[from(i)] /\ ts[from(i)] = "ref"
    BY <1>3, <1>5, <1>6
  <2> QED BY <1>1, <2>2 DEF Refs, RefSlots
<1> QED
  BY <1>9, <1>10 DEF s2, t2

LEMMA MoveOperandsStep ==
  ASSUME IInv, NEW op \in DOMAIN Shuffles, MoveOperands(op)
  PROVE  IInv' /\ InstancesKept
<1> DEFINE L == Len(types)
           pops == Shuffles[op].pops
           pushes == Shuffles[op].pushes
           x(j) == types[L + 1 - j]
           top == IF op \in {"pop2", "dup2", "dup2_x1", "dup2_x2"} THEN 2 ELSE 1
<1>1. /\ slots' = Shuffled(slots, Shuffles[op]) /\ types' = Shuffled(types, Shuffles[op]) /\ SameHeap
      /\ L >= pops /\ Whole(SubSeq(types, 1, L - pops)) /\ Whole(SubSeq(types, L + 1 - top, L))
  BY DEF MoveOperands, Verifiable
<1>2. /\ StackOK(slots, types, Len(objects)) /\ Len(objects) \in Nat /\ L \in Nat
      /\ types \in Seq(SlotType) /\ Whole(types)
  BY Basics DEF IInv, StackOK
<1>3. op \in {"pop", "pop2", "dup", "dup_x1", "dup_x2", "dup2", "dup2_x1", "dup2_x2", "swap"}
  BY DEF Shuffles
<1>4. /\ Shuffles["pop"] = Shuffle(1, <<>>) /\ Shuffles["pop2"] = Shuffle(2, <<>>)
      /\ Shuffles["dup"] = Shuffle(1, <<1, 1>>) /\ Shuffles["dup_x1"] = Shuffle(2, <<1, 2, 1>>)
      /\ Shuffles["dup_x2"] = Shuffle(3, <<1, 3, 2, 1>>)
      /\ Shuffles["dup2"] = Shuffle(2, <<2, 1, 2, 1>>)
      /\ Shuffles["dup2_x1"] = Shuffle(3, <<2, 1, 3, 2, 1>>)
      /\ Shuffles["dup2_x2"] = Shuffle(4, <<2, 1, 4, 3, 2, 1>>)
      /\ Shuffles["swap"] = Shuffle(2, <<1, 2>>)
  BY DEF Shuffles
<1>5. pops \in 1..4 /\ top \in 1..pops
  BY <1>3, <1>4 DEF Shuffle
<1>6. pops \in 1..L
  BY <1>1, <1>2, <1>5
<1>7. /\ L - pops > 0 => types[L - pops] # "long"
      /\ x(pops) # "half" /\ x(top) # "half" /\ x(1) # "long"
      /\ top < pops => x(top + 1) # "long"
      /\ \A j \in 2..pops : x(j) = "long" <=> x(j - 1) = "half"
  <2> HIDE DEF pops, top
  <2>1. /\ L - pops > 0 => types[L - pops] # "long"
        /\ types[L + 1 - pops] # "half" /\ types[L + 1 - top] # "half"
        /\ top < pops => types[L - top] # "long"
        /\ types[L] # "long"
        /\ \A j \in 2..pops : types[L + 1 - j] = "long" <=> types[L + 2 - j] = "half"
    BY <1>1, <1>2, <1>5, <1>6, MovedSlots
  <2>2. L + 1 - 1 = L /\ L + 1 - (top + 1) = L - top /\ \A j \in 2..pops : L + 1 - (j - 1) = L + 2 - j
    BY <1>2, <1>5
  <2> QED BY <2>1, <2>2
<1> HIDE DEF x
<1>8. /\ pushes \in Seq(1..pops)
      /\ pushes # <<>> => x(pushes[1]) # "half" /\ x(pushes[Len(pushes)]) # "long"
      /\ \A i \in 1..Len(pushes) : i < Len(pushes) =>
           (x(pushes[i]) = "long" <=> x(pushes[i + 1]) = "half")
  <2>1. CASE op \in {"pop", "pop2"}
    <3>1. pushes = <<>>
      BY <1>4, <2>1 DEF Shuffle
    <3> QED BY <3>1
  <2>2. CASE op = "dup"
    <3>1. pops = 1 /\ top = 1 /\ pushes = <<1, 1>>
      BY <1>4, <2>2 DEF Shuffle
    <3> QED BY <1>7, <3>1
  <2>3. CASE op = "swap"
    <3>1. pops = 2 /\ top = 1 /\ pushes = <<1, 2>>
      BY <1>4, <2>3 DEF Shuffle
    <3> QED BY <1>7, <3>1
  <2>4. CASE op = "dup_x1"
    <3>1. pops = 2 /\ top = 1 /\ pushes = <<1, 2, 1>>
      BY <1>4, <2>4 DEF Shuffle
    <3> QED BY <1>7, <3>1
  <2>5. CASE op = "dup_x2"
    <3>1. pops = 3 /\ top = 1 /\ pushes = <<1, 3, 2, 1>>
      BY <1>4, <2>5 DEF Shuffle
    <3> QED BY <1>7, <3>1
  <2>6. CASE op = "dup2"
    <3>1. pops = 2 /\ top = 2 /\ pushes = <<2, 1, 2, 1>>
      BY <1>4, <2>6 DEF Shuffle
    <3> QED BY <1>7, <3>1
  <2>7. CASE op = "dup2_x1"
    <3>1. pops = 3 /\ top = 2 /\ pushes = <<2, 1, 3, 2, 1>>
      BY <1>4, <2>7 DEF Shuffle
    <3> QED BY <1>7, <3>1
  <2>8. CASE op = "dup2_x2"
    <3>1. pops = 4 /\ top = 2 /\ pushes = <<2, 1, 4, 3, 2, 1>>
      BY <1>4, <2>8 DEF Shuffle
    <3> QED BY <1>7, <3>1
  <2> QED BY <1>3, <2>1, <2>2, <2>3, <2>4, <2>5, <2>6, <2>7, <2>8
<1>9. Shuffles[op] = Shuffle(pops, pushes)
  BY <1>3, <1>4 DEF Shuffle
<1> HIDE DEF pops, pushes, top
<1>10. /\ StackOK(slots', types', Len(objects))
       /\ Refs(slots', types') \subseteq Refs(slots, types)
  <2>1. pops \in 0..L
    BY <1>2, <1>6
  <2> QED BY <1>1, <1>2, <1>7, <1>8, <1>9, <2>1, ShuffledStack DEF x
<1> DEFINE P == Arrays(levels) \cup Refs(slots, types)
<1>11. Clean(P, objects, epoch) /\ Arrays(levels) \subseteq P /\ Refs(slots', types') \subseteq P
  BY <1>10 DEF IInv
<1> HIDE DEF P
<1> QED
  BY <1>1, <1>10, <1>11, SameKnown, StackStep

-----------------------------------------------------------------------------
(* Objects are made. *)

LEMMA NewShaped ==
  ASSUME NEW class \in ObjectClasses, class.dims = 0 => DOMAIN FieldsOf(class) \subseteq Nat,
         NEW length \in Nat, NEW e \in Nat, NEW n \in Nat
  PROVE  LET o == [class |-> class, region |-> e, elements |-> Blank(class, length)]
         IN  /\ Shaped(o, n) /\ o.region = e /\ o.class = class
             /\ References(o) = {} /\ \A i \in RefPlaces(o) : o.elements[i] = Null
<1> DEFINE o == [class |-> class, region |-> e, elements |-> Blank(class, length)]
           D == Places(class, length)
<1>1. o.elements = [k \in D |-> Default(PlaceClass(class, k))] /\ DOMAIN o.elements = D
  BY DEF Blank
<1>2. D \subseteq Nat
  BY ClassFacts DEF Places
<1>3. \A k \in D : o.elements[k] \in PlaceValue /\ Holds(o.elements[k], PlaceClass(class, k), n)
  BY <1>1 DEF Default, Holds, PlaceValue
<1>4. o \in ObjectRecord
  <2>1. o.elements \in [D -> PlaceValue]
    BY <1>1, <1>3
  <2>2. o.elements \in UNION {[C -> PlaceValue] : C \in SUBSET Nat}
    BY <1>2, <2>1
  <2> QED BY <2>2 DEF ObjectRecord
<1>5. Shaped(o, n)
  BY <1>1, <1>3, <1>4 DEF Shaped
<1>6. \A i \in RefPlaces(o) : o.elements[i] = Null
  BY <1>1 DEF RefPlaces, Default
<1>7. References(o) = {}
  BY <1>6 DEF References
<1> QED
  BY <1>5, <1>6, <1>7

(* What is made after a collection, maybe, and the pointer to it. *)
Made(collect, class, length) ==
  [class |-> class, region |-> After(collect), elements |-> Blank(class, length)]
MadePointer(collect) == [id |-> Len(objects) + 1, region |-> After(collect)]
MadeHeap(ts, collect, class, length) ==
  Append(Collected(collect, ts, {}).objects, Made(collect, class, length))
StackBelow(ts, collect) == Collected(collect, ts, {}).slots
MovedArrays(collect) == {Moved(collect, q) : q \in Arrays(levels)}

(* What there is then: the heap, the stack, and what must be clean. *)
MadeRight(ts, collect, class, length) ==
  LET n == Len(objects)
      e == After(collect)
      objs == MadeHeap(ts, collect, class, length)
  IN  /\ HeapOK(objs, e) /\ Len(objs) = n + 1 /\ MadePointer(collect) \in Pointers(n + 1)
      /\ StackOK(StackBelow(ts, collect), Dropped(types, ts), n + 1)
      /\ Clean(MovedArrays(collect) \cup Refs(StackBelow(ts, collect), Dropped(types, ts))
                 \cup {MadePointer(collect)}, objs, e)
      /\ objs[n + 1].class = class
      /\ \A k \in 1..n : /\ objs[k].class = objects[k].class
                         /\ DOMAIN objs[k].elements = DOMAIN objects[k].elements
      /\ Instances(objects) => Instances(objs)

LEMMA ObjectMade ==
  ASSUME IInv, NEW ts, NEW collect \in BOOLEAN,
         StackOK(Dropped(slots, ts), Dropped(types, ts), Len(objects)),
         Refs(Dropped(slots, ts), Dropped(types, ts)) \subseteq Refs(slots, types),
         NEW class \in ObjectClasses, class.dims = 0 => DOMAIN FieldsOf(class) \subseteq Nat,
         NEW length \in Nat
  PROVE  MadeRight(ts, collect, class, length)
<1> DEFINE n == Len(objects)
           e == After(collect)
           objs == MadeHeap(ts, collect, class, length)
           memory == Collected(collect, ts, {}).objects
           o == Made(collect, class, length)
           below == Dropped(types, ts)
           P == Held(ts, {})
           Q == MovedArrays(collect) \cup Refs(StackBelow(ts, collect), below)
<1>1. n \in Nat /\ epoch \in Nat /\ HeapOK(objects, epoch) /\ e \in Nat
      /\ Arrays(levels) \cup Refs(slots, types) \subseteq {Null} \cup Pointers(n)
  BY Basics DEF IInv, After
<1>2. P \subseteq {Null} \cup Pointers(Len(objects)) /\ Clean(P, objects, epoch)
      /\ Pinned = Arrays(levels)
  <2>1. Pinned = Arrays(levels)
    BY DEF Pinned, Arrays
  <2>2. P \subseteq Arrays(levels) \cup Refs(slots, types)
    BY <2>1 DEF Held
  <2>3. Clean(Arrays(levels) \cup Refs(slots, types), objects, epoch)
    BY DEF IInv
  <2> HIDE DEF P
  <2>4. Clean(P, objects, epoch)
    BY <2>2, <2>3, CleanPart
  <2> QED BY <1>1, <2>1, <2>2, <2>4
<1>3. /\ HeapOK(memory, e) /\ Len(memory) = n
      /\ Clean({Moved(collect, q) : q \in P}, memory, e)
      /\ \A k \in 1..n : /\ memory[k].class = objects[k].class
                         /\ DOMAIN memory[k].elements = DOMAIN objects[k].elements
      /\ Instances(objects) => Instances(memory)
  <2>1. CollectedRight(ts, collect, {})
    BY <1>1, <1>2, CollectedHeap
  <2> QED BY <2>1 DEF CollectedRight
<1>4. /\ StackOK(StackBelow(ts, collect), below, n)
      /\ Refs(StackBelow(ts, collect), below)
           \subseteq {Moved(collect, q) : q \in Refs(Dropped(slots, ts), Dropped(types, ts))}
  BY <1>1, CollectedStack DEF StackBelow
<1>5. /\ \A m \in Nat : Shaped(o, m)
      /\ o.region = e /\ o.class = class
      /\ References(o) = {} /\ \A i \in RefPlaces(o) : o.elements[i] = Null
  BY <1>1, NewShaped DEF Made
<1>6. objs = Append(memory, o)
  BY DEF MadeHeap
<1>7. MadePointer(collect) = [id |-> n + 1, region |-> e]
  BY DEF MadePointer
<1> HIDE DEF o, memory
<1>8. Clean(Q \cup References(o), memory, e)
  <2>1. Q \cup References(o) \subseteq {Moved(collect, q) : q \in P}
    BY <1>2, <1>4, <1>5 DEF MovedArrays, Held
  <2> HIDE DEF Q, P
  <2> QED BY <1>3, <2>1, CleanPart
<1>9. Shaped(o, Len(memory) + 1)
  BY <1>1, <1>3, <1>5
<1> HIDE DEF Q, P
<1>10. /\ HeapOK(Append(memory, o), e) /\ Len(Append(memory, o)) = Len(memory) + 1
       /\ Clean(Q \cup {[id |-> Len(memory) + 1, region |-> e]}, Append(memory, o), e)
       /\ Append(memory, o)[Len(memory) + 1] = o /\ \A m \in 1..Len(memory) : Append(memory, o)[m] = memory[m]
       /\ Instances(memory) => Instances(Append(memory, o))
  <2>1. o.region = e /\ HeapOK(memory, e)
    BY <1>3, <1>5
  <2>2. /\ HeapOK(Append(memory, o), e) /\ Len(Append(memory, o)) = Len(memory) + 1
        /\ Clean(Q \cup {[id |-> Len(memory) + 1, region |-> e]}, Append(memory, o), e)
        /\ Append(memory, o)[Len(memory) + 1] = o /\ \A m \in 1..Len(memory) : Append(memory, o)[m] = memory[m]
        /\ /\ Instances(memory)
           /\ \A i \in RefPlaces(o) : o.elements[i] # Null =>
                /\ o.elements[i].id \in 1..Len(memory)
                /\ IsInstanceOf(memory[o.elements[i].id].class, PlaceClass(o.class, i))
           => Instances(Append(memory, o))
    BY <1>8, <1>9, <2>1, ObjectAdded
  <2> QED BY <1>5, <2>2
<1>11. /\ HeapOK(objs, e) /\ Len(objs) = n + 1
       /\ Clean(Q \cup {MadePointer(collect)}, objs, e)
       /\ objs[n + 1] = o /\ \A m \in 1..n : objs[m] = memory[m]
       /\ Instances(memory) => Instances(objs)
  BY <1>3, <1>6, <1>7, <1>10
<1>12. StackOK(StackBelow(ts, collect), below, n + 1)
  <2>1. n <= n + 1 /\ n + 1 \in Nat
    BY <1>1
  <2> QED BY <1>1, <1>4, <2>1, MoreObjects
<1>13. MadePointer(collect) \in Pointers(n + 1)
  BY <1>1, <1>7 DEF Pointers
<1>14. objs[n + 1].class = class
  BY <1>5, <1>11
<1>15. \A k \in 1..n : objs[k].class = objects[k].class /\ DOMAIN objs[k].elements = DOMAIN objects[k].elements
  BY <1>3, <1>11
<1> QED
  BY <1>3, <1>11, <1>12, <1>13, <1>14, <1>15 DEF Q, MadeRight

LEMMA CountedCollection ==
  ASSUME NEW collect \in BOOLEAN, CountCollection(collect)
  PROVE  epoch' = After(collect)
BY DEF CountCollection, After

LEMMA AllocateStep ==
  ASSUME IInv, NEW ts \in Seq(OperandType), Ready(ts), NEW collect \in BOOLEAN,
         NEW class \in ObjectClasses, class.dims = 0 => DOMAIN FieldsOf(class) \subseteq Nat,
         NEW length \in Nat, Allocate(ts, collect, class, length), loaded' \subseteq Known
  PROVE  IInv' /\ InstancesKept
<1> DEFINE n == Len(objects)
           e == After(collect)
           p == MadePointer(collect)
           objs == MadeHeap(ts, collect, class, length)
           s == StackBelow(ts, collect)
           below == Dropped(types, ts)
<1>1. /\ n \in Nat /\ StackOK(slots, types, n) /\ levels = <<>> /\ Arrays(levels) = {}
  <2>1. levels = <<>>
    BY DEF Ready
  <2> QED BY <2>1, Basics DEF IInv, Arrays
<1>2. /\ epoch' = e /\ objects' = objs /\ slots' = PushOperand(s, "ref", p)
      /\ types' = PushType(below, "ref") /\ levels' = levels
  <2>1. epoch' = e
    BY CountedCollection DEF Allocate
  <2> HIDE DEF e
  <2>2. p = [id |-> n + 1, region |-> e]
    BY DEF MadePointer, e
  <2>3. objs = Append(Collected(collect, ts, {}).objects, [class |-> class, region |-> e, elements |-> Blank(class, length)])
    BY DEF MadeHeap, Made, e
  <2> HIDE DEF p, objs
  <2> QED BY <2>1, <2>2, <2>3 DEF Allocate, New, StackBelow
<1>3. /\ StackOK(Dropped(slots, ts), Dropped(types, ts), n)
      /\ Refs(Dropped(slots, ts), Dropped(types, ts)) \subseteq Refs(slots, types)
  BY <1>1, BelowOperands
<1>4. /\ HeapOK(objs, e) /\ Len(objs) = n + 1 /\ p \in Pointers(n + 1)
      /\ StackOK(s, below, n + 1)
      /\ Clean(MovedArrays(collect) \cup Refs(s, below) \cup {p}, objs, e)
      /\ Instances(objects) => Instances(objs)
  <2>1. MadeRight(ts, collect, class, length)
    BY <1>3, ObjectMade
  <2> QED BY <2>1 DEF MadeRight
<1> HIDE DEF e, objs, p, below, s
<1>5. /\ StackOK(slots', types', n + 1)
      /\ Refs(slots', types') \subseteq Refs(s, below) \cup {p}
  <2>1. n + 1 \in Nat /\ Fits(Encode("ref", p), "ref", n + 1) /\ "ref" \in OperandType /\ "ref" # "long"
    BY <1>1, <1>4, EncodedFits DEF OperandType
  <2>2. /\ StackOK(PushOperand(s, "ref", p), PushType(below, "ref"), n + 1)
        /\ Refs(PushOperand(s, "ref", p), PushType(below, "ref")) \subseteq Refs(s, below) \cup {p}
    BY <1>4, <2>1, ValuePushed
  <2> QED BY <1>2, <2>2
<1>6. Clean(Arrays(levels') \cup Refs(slots', types'), objects', epoch')
  <2>1. Arrays(levels') \cup Refs(slots', types') \subseteq MovedArrays(collect) \cup Refs(s, below) \cup {p}
    BY <1>1, <1>2, <1>5
  <2> QED BY <1>2, <1>4, <2>1, CleanPart
<1>7. LevelsOK(levels', objects')
  BY <1>1, <1>2, NoLevels
<1> QED
  BY <1>2, <1>4, <1>5, <1>6, <1>7 DEF IInv, InstancesKept

LEMMA NewObjectStep ==
  ASSUME IInv, NEW class \in Classes, NEW collect \in BOOLEAN, NewObject(class, collect)
  PROVE  IInv' /\ InstancesKept
<1>1. Ready(<<>>) /\ class.dims = 0 /\ Allocate(<<>>, collect, class, 0) /\ loaded' = loaded \cup {class}
  BY DEF NewObject
<1>2. class \in ObjectClasses /\ DOMAIN FieldsOf(class) \subseteq Nat
  <2>1. class \in [of : STRING, dims : Nat] /\ 0 \in 0..class.dims + 1
    BY ClassesAssumption
  <2>2. class = Class(class.of, 0)
    BY <1>1, <2>1 DEF Class
  <2> QED BY <2>1, <2>2, ClassesAssumption DEF ObjectClasses
<1>3. loaded' \subseteq Known /\ <<>> \in Seq(OperandType) /\ 0 \in Nat
  BY <1>1 DEF IInv, Known
<1> QED
  BY <1>1, <1>2, <1>3, AllocateStep

LEMMA NewArrayStep ==
  ASSUME IInv, NEW element \in Classes, NEW collect \in BOOLEAN, NewArray(element, collect)
  PROVE  IInv' /\ InstancesKept
<1> DEFINE count == Operand(<<"int">>, 1)
           ts == <<"int">>
<1>1. /\ Ready(ts) /\ loaded' = loaded \cup {element, ArrayOf(element)}
      /\ IF count < 0 THEN ThrowException("NegativeArraySizeException") /\ UNCHANGED <<objects, epoch, levels>>
         ELSE Allocate(ts, collect, ArrayOf(element), count)
  BY DEF NewArray
<1>2. loaded' \subseteq Known
  BY <1>1 DEF IInv, Known
<1>3. "int" \in OperandType /\ ts \in Seq(OperandType)
  BY DEF OperandType
<1>4. count \in Int
  BY <1>1, <1>3, OneOperand DEF Typed
<1>5. ArrayOf(element) \in ObjectClasses /\ ArrayOf(element).dims # 0
  <2>1. element \in [of : STRING, dims : Nat]
    BY ClassesAssumption
  <2>2. element.dims + 1 \in 0..element.dims + 1 /\ element.dims + 1 # 0
    BY <2>1
  <2> QED BY <2>2 DEF ObjectClasses, ArrayOf, Class
<1>6. CASE count < 0
  BY <1>1, <1>2, <1>6, ThrowStep DEF ThrowException
<1>7. CASE ~(count < 0)
  <2>1. count \in Nat
    BY <1>4, <1>7
  <2> HIDE DEF count, ts
  <2>2. Allocate(ts, collect, ArrayOf(element), count)
    BY <1>1, <1>7
  <2> QED BY <1>1, <1>2, <1>3, <1>5, <2>1, <2>2, AllocateStep
<1> QED
  BY <1>6, <1>7

LEMMA LastFacts ==
  ASSUME NEW S, NEW l \in Seq(S), Len(l) > 0
  PROVE  /\ Last(l) = l[Len(l)] /\ Last(l) \in S
         /\ Front(l) \in Seq(S) /\ Len(Front(l)) = Len(l) - 1
         /\ \A i \in 1..Len(l) - 1 : Front(l)[i] = l[i]
<1>1. Last(l) = l[Len(l)] /\ Last(l) \in S
  BY DEF Last
<1>2. /\ SubSeq(l, 1, Len(l) - 1) \in Seq(S) /\ Len(SubSeq(l, 1, Len(l) - 1)) = Len(l) - 1 - 1 + 1
      /\ \A i \in 1..Len(l) - 1 - 1 + 1 : SubSeq(l, 1, Len(l) - 1)[i] = l[1 + i - 1]
  <2>1. 1 \in 1..Len(l) + 1 /\ Len(l) - 1 \in 0..Len(l) /\ 1 <= Len(l) - 1 + 1
    OBVIOUS
  <2> QED BY <2>1, PartOfList
<1>3. Len(l) - 1 - 1 + 1 = Len(l) - 1 /\ \A i \in 1..Len(l) - 1 : 1 + i - 1 = i
  OBVIOUS
<1> QED
  BY <1>1, <1>2, <1>3 DEF Front

LEMMA SlotsOfInts ==
  ASSUME NEW n \in Nat
  PROVE  [i \in 1..n |-> "int"] \in Seq(OperandType) /\ Len([i \in 1..n |-> "int"]) = n
BY DEF OperandType

LEMMA NewMultiArrayStep ==
  ASSUME IInv, NEW class \in Classes, NEW dimensions \in 1..class.dims, NEW collect \in BOOLEAN,
         NewMultiArray(class, dimensions, collect)
  PROVE  IInv' /\ InstancesKept
<1> DEFINE ts == [i \in 1..dimensions |-> "int"]
           counts == [i \in 1..dimensions |-> Operand(ts, dimensions + 1 - i)]
           n == Len(objects)
           e == After(collect)
           p == MadePointer(collect)
           s == StackBelow(ts, collect)
           below == Dropped(types, ts)
<1>1. class \in [of : STRING, dims : Nat] /\ dimensions \in Nat /\ dimensions # 0
  BY ClassesAssumption
<1>2. ts \in Seq(OperandType) /\ Len(ts) = dimensions /\ \A i \in 1..dimensions : ts[i] = "int"
  BY <1>1, SlotsOfInts
<1>3. /\ Ready(ts) /\ loaded' = loaded \cup {class}
      /\ IF \E i \in DOMAIN counts : counts[i] < 0
         THEN Undefined /\ UNCHANGED <<objects, epoch, levels>>
         ELSE IF dimensions = 1 THEN Allocate(ts, collect, class, Last(counts))
         ELSE LET memory == Collected(collect, ts, {})
              IN  /\ CountCollection(collect)
                  /\ objects' = Append(memory.objects, New(class, Last(counts)))
                  /\ slots' = memory.slots
                  /\ types' = Dropped(types, ts)
                  /\ levels' = <<Level([id |-> Len(objects) + 1, region |-> epoch'], Front(counts))>>
  BY DEF NewMultiArray
<1>4. loaded' \subseteq Known
  BY <1>3 DEF IInv, Known
<1>5. counts \in Seq(Int) /\ Len(counts) = dimensions /\ DOMAIN counts = 1..dimensions
  <2>1. StackOK(slots, types, n) /\ n \in Nat
    BY Basics DEF IInv
  <2>2. \A i \in 1..dimensions : dimensions + 1 - i \in 1..dimensions
    BY <1>1
  <2> HIDE DEF ts, n
  <2>3. \A i \in 1..dimensions : Operand(ts, dimensions + 1 - i) \in Int
    BY <1>2, <1>3, <2>1, <2>2, OperandFits
  <2> QED BY <1>1, <2>3
<1>6. class \in ObjectClasses /\ class.dims # 0 /\ class.dims \in Nat /\ dimensions <= class.dims
  <2>1. class.dims \in 0..class.dims + 1 /\ class = Class(class.of, class.dims)
    BY <1>1 DEF Class
  <2> QED BY <1>1, <2>1 DEF ObjectClasses
<1> HIDE DEF counts, ts
<1>7. CASE \E i \in DOMAIN counts : counts[i] < 0
  BY <1>3, <1>4, <1>7, ThrowStep DEF Undefined, ThrowException
<1>8. CASE ~\E i \in DOMAIN counts : counts[i] < 0
  <2>1. counts \in Seq(Nat) /\ Len(counts) > 0
    <3>1. \A i \in 1..dimensions : counts[i] \in Nat
      BY <1>5, <1>8
    <3>2. counts = [i \in 1..dimensions |-> counts[i]]
      BY <1>5
    <3> QED BY <1>1, <1>5, <3>1, <3>2, SMTT(30)
  <2>2. Last(counts) \in Nat /\ Front(counts) \in Seq(Nat) /\ Len(Front(counts)) = dimensions - 1
    BY <1>5, <2>1, LastFacts
  <2>3. CASE dimensions = 1
    <3>1. Allocate(ts, collect, class, Last(counts))
      BY <1>3, <1>8, <2>3
    <3> QED BY <1>2, <1>3, <1>4, <1>6, <2>2, <3>1, AllocateStep
  <2>4. CASE dimensions # 1
    <3> DEFINE objs == MadeHeap(ts, collect, class, Last(counts))
               l == Level(p, Front(counts))
    <3>1. /\ n \in Nat /\ StackOK(slots, types, n) /\ levels = <<>> /\ Arrays(levels) = {}
      <4>1. levels = <<>>
        BY <1>3 DEF Ready
      <4> QED BY <4>1, Basics DEF IInv, Arrays
    <3>2. /\ epoch' = e /\ objects' = objs /\ slots' = s /\ types' = below /\ levels' = <<l>>
      <4>1. epoch' = e
        BY <1>3, <1>8, <2>4, CountedCollection
      <4> HIDE DEF e
      <4>2. p = [id |-> n + 1, region |-> e]
        BY DEF MadePointer, e
      <4>3. objs = Append(Collected(collect, ts, {}).objects, [class |-> class, region |-> e, elements |-> Blank(class, Last(counts))])
        BY DEF MadeHeap, Made, e
      <4> HIDE DEF p, objs
      <4> QED BY <1>3, <1>8, <2>4, <4>1, <4>2, <4>3 DEF New, StackBelow
    <3>3. /\ StackOK(Dropped(slots, ts), Dropped(types, ts), n)
          /\ Refs(Dropped(slots, ts), Dropped(types, ts)) \subseteq Refs(slots, types)
      BY <1>2, <1>3, <3>1, BelowOperands
    <3>4. MadeRight(ts, collect, class, Last(counts))
      BY <1>6, <2>2, <3>3, ObjectMade
    <3>5. /\ HeapOK(objs, e) /\ Len(objs) = n + 1 /\ p \in Pointers(n + 1)
          /\ StackOK(s, below, n + 1)
          /\ Clean(MovedArrays(collect) \cup Refs(s, below) \cup {p}, objs, e)
          /\ objs[n + 1].class = class
          /\ Instances(objects) => Instances(objs)
      BY <3>4 DEF MadeRight
    <3>6. p.id = n + 1
      BY DEF MadePointer
    <3> HIDE DEF e, objs, p, below, s
    <3>7. l = [array |-> p, filled |-> 0, counts |-> Front(counts)]
      BY DEF Level
    <3> HIDE DEF l
    <3>8. Arrays(levels') = {p}
      BY <3>2, <3>7 DEF Arrays
    <3>9. Clean(Arrays(levels') \cup Refs(slots', types'), objects', epoch')
      <4>1. Arrays(levels') \cup Refs(slots', types') \subseteq MovedArrays(collect) \cup Refs(s, below) \cup {p}
        BY <3>2, <3>8
      <4> QED BY <3>2, <3>5, <4>1, CleanPart
    <3>10. LevelsOK(<<l>>, objs)
      <4>1. l \in [array : Pointers(Len(objs)), filled : Nat, counts : Seq(Nat)]
        BY <2>2, <3>5, <3>7
      <4>2. /\ <<l>> \in Seq([array : Pointers(Len(objs)), filled : Nat, counts : Seq(Nat)])
            /\ Len(<<l>>) = 1 /\ <<l>>[1] = l
        BY <4>1
      <4>3. Len(l.counts) > 0 /\ objs[l.array.id].class.dims > Len(l.counts)
        BY <1>1, <1>6, <2>2, <2>4, <3>5, <3>6, <3>7
      <4>4. \A i, j \in 1..Len(<<l>>) : j # i + 1
        BY <4>2
      <4> QED BY <4>2, <4>3, <4>4 DEF LevelsOK
    <3> QED BY <1>4, <3>2, <3>5, <3>9, <3>10 DEF IInv, InstancesKept
  <2> QED BY <2>3, <2>4
<1> QED
  BY <1>7, <1>8

LEMMA NothingDropped ==
  ASSUME IInv
  PROVE  Dropped(slots, <<>>) = slots /\ Dropped(types, <<>>) = types
<1>1. slots \in Seq(SlotValue) /\ types \in Seq(SlotType) /\ Len(slots) \in Nat /\ Len(types) \in Nat
  BY DEF IInv, StackOK
<1>2. Len(slots) - 0 = Len(slots) /\ Len(types) - 0 = Len(types)
  BY <1>1
<1>3. SubSeq(slots, 1, Len(slots)) = slots /\ SubSeq(types, 1, Len(types)) = types
  BY <1>1
<1> QED
  BY <1>2, <1>3, SlotsOfNone DEF Dropped

LevelRecord(n) == [array : Pointers(n), filled : Nat, counts : Seq(Nat)]

LEMMA LevelFacts ==
  ASSUME NEW ls, NEW objs, LevelsOK(ls, objs)
  PROVE  /\ ls \in Seq(LevelRecord(Len(objs))) /\ Len(ls) \in Nat /\ DOMAIN ls = 1..Len(ls)
         /\ \A i \in 1..Len(ls) :
              /\ ls[i] \in LevelRecord(Len(objs))
              /\ ls[i].array \in Pointers(Len(objs)) /\ ls[i].array.id \in 1..Len(objs)
              /\ ls[i].filled \in Nat /\ ls[i].counts \in Seq(Nat)
              /\ Len(ls[i].counts) > 0 /\ objs[ls[i].array.id].class.dims > Len(ls[i].counts)
         /\ \A i, j \in 1..Len(ls) : j = i + 1 =>
              objs[ls[j].array.id].class = ElementClass(objs[ls[i].array.id].class)
<1>1. ls \in Seq(LevelRecord(Len(objs)))
  BY DEF LevelsOK, LevelRecord
<1>2. \A i \in 1..Len(ls) : ls[i] \in LevelRecord(Len(objs))
  BY <1>1
<1>3. \A l \in LevelRecord(Len(objs)) : /\ l.array \in Pointers(Len(objs)) /\ l.array.id \in 1..Len(objs)
                                        /\ l.filled \in Nat /\ l.counts \in Seq(Nat)
  BY DEF LevelRecord, Pointers
<1>4. Len(ls) \in Nat /\ DOMAIN ls = 1..Len(ls)
  BY <1>1
<1>5. /\ \A i \in 1..Len(ls) :
           Len(ls[i].counts) > 0 /\ objs[ls[i].array.id].class.dims > Len(ls[i].counts)
      /\ \A i, j \in 1..Len(ls) : j = i + 1 =>
           objs[ls[j].array.id].class = ElementClass(objs[ls[i].array.id].class)
  BY DEF LevelsOK
<1> HIDE DEF LevelRecord
<1> QED
  BY <1>1, <1>2, <1>3, <1>4, <1>5, SMTT(30)

(* One more element of an array is set. *)
LEMMA LevelFilled ==
  ASSUME NEW ls, NEW objs, LevelsOK(ls, objs), NEW k \in 1..Len(ls)
  PROVE  LET new == [ls EXCEPT ![k].filled = @ + 1]
         IN  LevelsOK(new, objs) /\ Arrays(new) = Arrays(ls)
<1> DEFINE new == [ls EXCEPT ![k].filled = @ + 1]
           l == [ls[k] EXCEPT !.filled = @ + 1]
           R == LevelRecord(Len(objs))
<1>1. /\ ls \in Seq(R) /\ Len(ls) \in Nat /\ DOMAIN ls = 1..Len(ls)
      /\ ls[k] \in R /\ ls[k].filled \in Nat
  BY LevelFacts
<1>2. l \in R /\ l.array = ls[k].array /\ l.counts = ls[k].counts
  <2>1. \A r \in LevelRecord(Len(objs)) :
          [r EXCEPT !.filled = r.filled + 1]
            = [array |-> r.array, filled |-> r.filled + 1, counts |-> r.counts]
          /\ r.array \in Pointers(Len(objs)) /\ r.counts \in Seq(Nat)
    BY DEF LevelRecord
  <2>2. l = [array |-> ls[k].array, filled |-> ls[k].filled + 1, counts |-> ls[k].counts]
        /\ ls[k].array \in Pointers(Len(objs)) /\ ls[k].counts \in Seq(Nat)
    BY <1>1, <2>1
  <2> HIDE DEF l
  <2> QED BY <1>1, <2>2 DEF LevelRecord
<1>3. new = [ls EXCEPT ![k] = l]
  OBVIOUS
<1> HIDE DEF l, new, R
<1>4. /\ new \in Seq(R) /\ Len(new) = Len(ls) /\ DOMAIN new = DOMAIN ls
      /\ \A i \in 1..Len(ls) : new[i] = IF i = k THEN l ELSE ls[i]
  BY <1>1, <1>2, <1>3
<1>5. \A i \in 1..Len(ls) : new[i].array = ls[i].array /\ new[i].counts = ls[i].counts
  BY <1>2, <1>4
<1>6. LevelsOK(new, objs)
  <2>1. /\ \A i \in 1..Len(ls) : Len(ls[i].counts) > 0 /\ objs[ls[i].array.id].class.dims > Len(ls[i].counts)
        /\ \A i, j \in 1..Len(ls) : j = i + 1 =>
              objs[ls[j].array.id].class = ElementClass(objs[ls[i].array.id].class)
    BY LevelFacts
  <2>2. \A i \in 1..Len(new) : Len(new[i].counts) > 0 /\ objs[new[i].array.id].class.dims > Len(new[i].counts)
    BY <1>4, <1>5, <2>1
  <2>3. \A i, j \in 1..Len(new) : j = i + 1 =>
          objs[new[j].array.id].class = ElementClass(objs[new[i].array.id].class)
    BY <1>4, <1>5, <2>1
  <2> QED BY <1>4, <2>2, <2>3 DEF LevelsOK, R, LevelRecord
<1>7. Arrays(new) = Arrays(ls)
  BY <1>1, <1>4, <1>5 DEF Arrays
<1> QED
  BY <1>6, <1>7 DEF new

(* A call of makeInnerArray for an element of the array of the last one. *)
LEMMA LevelAdded ==
  ASSUME NEW ls, NEW objs, LevelsOK(ls, objs), Len(ls) > 0,
         NEW l \in LevelRecord(Len(objs)), Len(l.counts) > 0,
         objs[l.array.id].class.dims > Len(l.counts),
         objs[l.array.id].class = ElementClass(objs[ls[Len(ls)].array.id].class)
  PROVE  LevelsOK(Append(ls, l), objs) /\ Arrays(Append(ls, l)) = Arrays(ls) \cup {l.array}
<1> DEFINE new == Append(ls, l)
           R == LevelRecord(Len(objs))
<1>1. /\ ls \in Seq(R) /\ Len(ls) \in Nat /\ DOMAIN ls = 1..Len(ls)
      /\ \A i \in 1..Len(ls) : Len(ls[i].counts) > 0 /\ objs[ls[i].array.id].class.dims > Len(ls[i].counts)
      /\ \A i, j \in 1..Len(ls) : j = i + 1 =>
              objs[ls[j].array.id].class = ElementClass(objs[ls[i].array.id].class)
  BY LevelFacts
<1> HIDE DEF R
<1>2. /\ new \in Seq(R) /\ Len(new) = Len(ls) + 1 /\ DOMAIN new = 1..Len(ls) + 1
      /\ new[Len(ls) + 1] = l /\ \A i \in 1..Len(ls) : new[i] = ls[i]
  BY <1>1 DEF R
<1> HIDE DEF new
<1>3. \A i \in 1..Len(new) : Len(new[i].counts) > 0 /\ objs[new[i].array.id].class.dims > Len(new[i].counts)
  <2> SUFFICES ASSUME NEW i \in 1..Len(ls) + 1
               PROVE  Len(new[i].counts) > 0 /\ objs[new[i].array.id].class.dims > Len(new[i].counts)
    BY <1>2
  <2>1. CASE i = Len(ls) + 1
    BY <1>2, <2>1
  <2>2. CASE i # Len(ls) + 1
    <3>1. i \in 1..Len(ls)
      BY <1>1, <2>2
    <3> QED BY <1>1, <1>2, <3>1
  <2> QED BY <2>1, <2>2
<1>4. ASSUME NEW i \in 1..Len(new), NEW j \in 1..Len(new), j = i + 1
      PROVE  objs[new[j].array.id].class = ElementClass(objs[new[i].array.id].class)
  <2>1. i \in 1..Len(ls) /\ new[i] = ls[i]
    BY <1>1, <1>2, <1>4
  <2>2. CASE j = Len(ls) + 1
    <3>1. i = Len(ls)
      <4>1. Len(ls) \in Nat
        BY <1>1
      <4> QED BY <1>4, <2>1, <2>2, <4>1
    <3> QED BY <1>2, <2>1, <2>2, <3>1
  <2>3. CASE j # Len(ls) + 1
    <3>1. j \in 1..Len(ls) /\ new[j] = ls[j]
      BY <1>1, <1>2, <2>3
    <3> QED BY <1>1, <1>4, <2>1, <3>1
  <2> QED BY <2>2, <2>3
<1>5. LevelsOK(new, objs)
  BY <1>2, <1>3, <1>4 DEF LevelsOK, R, LevelRecord
<1>6. Arrays(new) = Arrays(ls) \cup {l.array}
  <2>1. 1..Len(ls) + 1 = 1..Len(ls) \cup {Len(ls) + 1}
    BY <1>1
  <2>2. Arrays(new) = {new[i].array : i \in 1..Len(ls) + 1}
    BY <1>2 DEF Arrays
  <2>3. Arrays(ls) = {ls[i].array : i \in 1..Len(ls)}
    BY <1>1 DEF Arrays
  <2> QED BY <1>2, <2>1, <2>2, <2>3
<1> QED
  BY <1>5, <1>6 DEF new

(* The last call returns. *)
LEMMA LevelDone ==
  ASSUME NEW ls, NEW objs, LevelsOK(ls, objs), Len(ls) > 0
  PROVE  LevelsOK(Front(ls), objs) /\ Arrays(Front(ls)) \subseteq Arrays(ls)
<1> DEFINE new == Front(ls)
           R == LevelRecord(Len(objs))
<1>1. /\ ls \in Seq(R) /\ Len(ls) \in Nat /\ DOMAIN ls = 1..Len(ls)
      /\ \A i \in 1..Len(ls) : Len(ls[i].counts) > 0 /\ objs[ls[i].array.id].class.dims > Len(ls[i].counts)
      /\ \A i, j \in 1..Len(ls) : j = i + 1 =>
              objs[ls[j].array.id].class = ElementClass(objs[ls[i].array.id].class)
  BY LevelFacts
<1> HIDE DEF R
<1>2. new \in Seq(R) /\ Len(new) = Len(ls) - 1 /\ \A i \in 1..Len(ls) - 1 : new[i] = ls[i]
  BY <1>1, LastFacts
<1> HIDE DEF new
<1>3. DOMAIN new = 1..Len(ls) - 1 /\ \A i \in 1..Len(ls) - 1 : i \in 1..Len(ls)
  BY <1>1, <1>2
<1>4. LevelsOK(new, objs)
  <2>1. Len(new) \in Nat /\ \A i \in 1..Len(new) : i \in 1..Len(ls) /\ new[i] = ls[i]
    BY <1>1, <1>2, <1>3
  <2>2. \A i \in 1..Len(new) : Len(new[i].counts) > 0 /\ objs[new[i].array.id].class.dims > Len(new[i].counts)
    BY <1>1, <2>1
  <2>3. \A i, j \in 1..Len(new) : j = i + 1 =>
          objs[new[j].array.id].class = ElementClass(objs[new[i].array.id].class)
    BY <1>1, <2>1
  <2> QED BY <1>2, <2>2, <2>3 DEF LevelsOK, R, LevelRecord
<1>5. Arrays(new) \subseteq Arrays(ls)
  BY <1>1, <1>2, <1>3 DEF Arrays
<1> QED
  BY <1>4, <1>5 DEF new

(* The elements of an array that is filled with arrays. *)
LEMMA ArrayOfArrays ==
  ASSUME NEW objs, NEW e, HeapOK(objs, e), NEW k \in 1..Len(objs), objs[k].class.dims > 1,
         NEW f, NEW v \in Pointers(Len(objs)), NEW P, Clean(P, objs, e), v \in P,
         objs[v.id].class = ElementClass(objs[k].class)
  PROVE  /\ WrittenRight(objs, PlaceSet(objs, k, f, v), e, P)
         /\ Instances(objs) => Instances(PlaceSet(objs, k, f, v))
<1> DEFINE c == objs[k].class
<1>1. c \in ObjectClasses /\ Len(objs) \in Nat
  <2>1. Len(objs) \in Nat /\ Shaped(objs[k], Len(objs))
    BY DEF HeapOK
  <2> QED BY <2>1, RecordFacts
<1>2. PlaceClass(c, f) = ElementClass(c) /\ ElementClass(c) \in ObjectClasses
      /\ ElementClass(c).dims # 0 /\ ~IsPrimitive(ElementClass(c))
      /\ IsInstanceOf(ElementClass(c), ElementClass(c))
  <2> HIDE DEF c
  <2>1. c.dims > 1 /\ c.dims \in Nat /\ ElementClass(c) \in ObjectClasses /\ ElementClass(c).dims = c.dims - 1
        /\ c.dims > 0
    <3>1. c.dims > 1 /\ c.dims \in Nat /\ c.dims > 0
      BY <1>1, ClassFacts DEF c
    <3> QED BY <1>1, <3>1, ClassFacts
  <2>2. ElementClass(c).dims # 0
    BY <2>1
  <2> QED BY <2>1, <2>2, ClassFacts DEF PlaceClass, IsPrimitive
<1>3. Holds(v, PlaceClass(c, f), Len(objs))
  BY <1>2 DEF Holds
<1>4. /\ WrittenRight(objs, PlaceSet(objs, k, f, v), e, P)
      /\ /\ Instances(objs)
         /\ f \in RefPlaces(objs[k]) /\ v # Null =>
              IsInstanceOf(objs[v.id].class, PlaceClass(objs[k].class, f))
         => Instances(PlaceSet(objs, k, f, v))
  BY <1>3, PlaceWritten
<1>5. IsInstanceOf(objs[v.id].class, PlaceClass(objs[k].class, f))
  BY <1>2
<1> QED
  BY <1>4, <1>5

MovedLevels(collect) == [i \in DOMAIN levels |-> [levels[i] EXCEPT !.array = Moved(collect, @)]]

LEMMA MovedLevelFacts ==
  ASSUME IInv, NEW collect \in BOOLEAN
  PROVE  /\ LevelsOK(MovedLevels(collect), objects)
         /\ Len(MovedLevels(collect)) = Len(levels)
         /\ Arrays(MovedLevels(collect)) \subseteq MovedArrays(collect)
         /\ \A i \in 1..Len(levels) :
              /\ MovedLevels(collect)[i].array.id = levels[i].array.id
              /\ MovedLevels(collect)[i].filled = levels[i].filled
<1> DEFINE n == Len(objects)
           R == LevelRecord(n)
           new == MovedLevels(collect)
<1>1. /\ levels \in Seq(R) /\ Len(levels) \in Nat /\ DOMAIN levels = 1..Len(levels)
      /\ \A i \in 1..Len(levels) :
           /\ levels[i] \in LevelRecord(n) /\ levels[i].array \in Pointers(n)
           /\ levels[i].filled \in Nat /\ levels[i].counts \in Seq(Nat)
           /\ Len(levels[i].counts) > 0 /\ objects[levels[i].array.id].class.dims > Len(levels[i].counts)
      /\ \A i, j \in 1..Len(levels) : j = i + 1 =>
           objects[levels[j].array.id].class = ElementClass(objects[levels[i].array.id].class)
  <2>1. LevelsOK(levels, objects)
    BY DEF IInv
  <2>2. levels \in Seq(LevelRecord(Len(objects))) /\ Len(levels) \in Nat /\ DOMAIN levels = 1..Len(levels)
    BY <2>1, LevelFacts
  <2>3. \A i \in 1..Len(levels) :
          /\ levels[i] \in LevelRecord(Len(objects)) /\ levels[i].array \in Pointers(Len(objects))
          /\ levels[i].filled \in Nat /\ levels[i].counts \in Seq(Nat)
          /\ Len(levels[i].counts) > 0 /\ objects[levels[i].array.id].class.dims > Len(levels[i].counts)
    BY <2>1, LevelFacts
  <2>4. \A i, j \in 1..Len(levels) : j = i + 1 =>
          objects[levels[j].array.id].class = ElementClass(objects[levels[i].array.id].class)
    BY <2>1, Zenon DEF LevelsOK
  <2> QED BY <2>2, <2>3, <2>4
<1>2. n \in Nat /\ epoch \in Nat
  BY Basics
<1>3. \A i \in 1..Len(levels) : /\ Moved(collect, levels[i].array) \in Pointers(n)
                                /\ Moved(collect, levels[i].array).id = levels[i].array.id
  BY <1>1, <1>2, MovedFacts
<1> DEFINE l(i) == [levels[i] EXCEPT !.array = Moved(collect, @)]
<1> HIDE DEF n
<1>4. \A i \in 1..Len(levels) : /\ l(i) \in R /\ l(i).array = Moved(collect, levels[i].array)
                                /\ l(i).filled = levels[i].filled /\ l(i).counts = levels[i].counts
  <2> SUFFICES ASSUME NEW i \in 1..Len(levels)
               PROVE  /\ l(i) \in R /\ l(i).array = Moved(collect, levels[i].array)
                      /\ l(i).filled = levels[i].filled /\ l(i).counts = levels[i].counts
    OBVIOUS
  <2>1. levels[i] = [array |-> levels[i].array, filled |-> levels[i].filled, counts |-> levels[i].counts]
    BY <1>1 DEF LevelRecord
  <2>2. l(i) = [array |-> Moved(collect, levels[i].array), filled |-> levels[i].filled, counts |-> levels[i].counts]
    BY <2>1
  <2> HIDE DEF l
  <2> QED BY <1>1, <1>3, <2>2 DEF LevelRecord
<1>5. new = [i \in 1..Len(levels) |-> l(i)]
  BY <1>1 DEF MovedLevels
<1> HIDE DEF l, R, new
<1>6. /\ new \in Seq(R) /\ Len(new) = Len(levels) /\ DOMAIN new = 1..Len(levels)
      /\ \A i \in 1..Len(levels) : new[i] = l(i)
  BY <1>1, <1>4, <1>5, SMTT(30)
<1>7. \A i \in 1..Len(levels) : /\ new[i].array.id = levels[i].array.id /\ new[i].filled = levels[i].filled
                                /\ new[i].counts = levels[i].counts
                                /\ new[i].array = Moved(collect, levels[i].array)
  BY <1>3, <1>4, <1>6
<1>8. LevelsOK(new, objects)
  <2>1. \A i \in 1..Len(new) : Len(new[i].counts) > 0 /\ objects[new[i].array.id].class.dims > Len(new[i].counts)
    BY <1>1, <1>6, <1>7
  <2>2. \A i, j \in 1..Len(new) : j = i + 1 =>
          objects[new[j].array.id].class = ElementClass(objects[new[i].array.id].class)
    BY <1>1, <1>6, <1>7
  <2> QED BY <1>6, <2>1, <2>2 DEF LevelsOK, R, LevelRecord, n
<1>9. Arrays(new) \subseteq MovedArrays(collect)
  BY <1>1, <1>6, <1>7 DEF Arrays, MovedArrays
<1> QED
  BY <1>6, <1>7, <1>8, <1>9 DEF new

LEMMA MakeInnerArrayStep ==
  ASSUME IInv, NEW collect \in BOOLEAN, MakeInnerArray(collect)
  PROVE  IInv' /\ InstancesKept
<1> DEFINE n == Len(objects)
           e == After(collect)
           L == Len(levels)
           outer == MovedLevels(collect)
           class == ElementClass(At(Top.array).class)
           p == MadePointer(collect)
           made == MadeHeap(<<>>, collect, class, Last(Top.counts))
           s == StackBelow(<<>>, collect)
           P == MovedArrays(collect) \cup Refs(s, types) \cup {p}
<1>1. /\ levels \in Seq(LevelRecord(n)) /\ L \in Nat /\ DOMAIN levels = 1..L /\ levels # <<>>
      /\ LevelsOK(levels, objects) /\ n \in Nat
  BY Basics, LevelFacts DEF IInv, MakeInnerArray
<1>2. L > 0 /\ L \in 1..L
  BY <1>1
<1>3. Top = levels[L]
  BY DEF Top, Last
<1>4. /\ Top.array \in Pointers(n) /\ Top.array.id \in 1..n /\ Top.counts \in Seq(Nat) /\ Len(Top.counts) > 0
      /\ objects[Top.array.id].class.dims > Len(Top.counts)
  BY <1>1, <1>2, <1>3, LevelFacts
<1>5. /\ class \in ObjectClasses /\ class.dims # 0 /\ class = ElementClass(objects[Top.array.id].class)
      /\ objects[Top.array.id].class.dims > 1
      /\ class.dims = objects[Top.array.id].class.dims - 1 /\ class.dims \in Nat
  <2> DEFINE c == objects[Top.array.id].class
  <2>1. c \in ObjectClasses
    BY <1>4, Basics, RecordFacts
  <2>2. c.dims > Len(Top.counts) /\ Len(Top.counts) \in Nat /\ Len(Top.counts) > 0
    BY <1>4
  <2> HIDE DEF c
  <2>3. c.dims > 1 /\ c.dims > 0 /\ c.dims \in Nat
    BY <2>1, <2>2, ClassFacts
  <2>4. ElementClass(c) \in ObjectClasses /\ ElementClass(c).dims = c.dims - 1
    BY <2>1, <2>3, ClassFacts
  <2>5. ElementClass(c).dims # 0 /\ ElementClass(c).dims \in Nat
    BY <2>3, <2>4
  <2> QED BY <2>3, <2>4, <2>5 DEF c, At
<1>6. Last(Top.counts) \in Nat /\ Front(Top.counts) \in Seq(Nat) /\ Len(Front(Top.counts)) = Len(Top.counts) - 1
  BY <1>4, LastFacts
<1>7. /\ Dropped(slots, <<>>) = slots /\ Dropped(types, <<>>) = types
  BY NothingDropped
<1>8. MadeRight(<<>>, collect, class, Last(Top.counts))
  <2>1. StackOK(slots, types, Len(objects))
    BY DEF IInv
  <2> HIDE DEF class
  <2> QED BY <1>5, <1>6, <1>7, <2>1, ObjectMade
<1>9. /\ HeapOK(made, e) /\ Len(made) = n + 1 /\ p \in Pointers(n + 1)
      /\ StackOK(s, types, n + 1) /\ Clean(P, made, e) /\ made[n + 1].class = class
      /\ \A k \in 1..n : made[k].class = objects[k].class
      /\ Instances(objects) => Instances(made)
  <2> HIDE DEF class
  <2> QED BY <1>7, <1>8 DEF MadeRight
<1>10. /\ LevelsOK(outer, objects) /\ Len(outer) = L /\ Arrays(outer) \subseteq MovedArrays(collect)
       /\ outer[L].array.id = Top.array.id
  BY <1>2, <1>3, MovedLevelFacts
<1>11. outer = [i \in DOMAIN levels |->
                  IF collect /\ levels[i].array \in Pinned
                  THEN [levels[i] EXCEPT !.array = Move(@)] ELSE levels[i]]
  <2>1. \A i \in DOMAIN levels : levels[i].array \in Pinned
    BY DEF Pinned
  <2>2. ASSUME NEW i \in 1..L
        PROVE  [levels[i] EXCEPT !.array = Moved(collect, @)]
                 = IF collect THEN [levels[i] EXCEPT !.array = Move(@)] ELSE levels[i]
    <3>1. levels[i] \in LevelRecord(n)
      BY <1>1, LevelFacts
    <3>2. levels[i] = [array |-> levels[i].array, filled |-> levels[i].filled, counts |-> levels[i].counts]
      BY <3>1 DEF LevelRecord
    <3>3. CASE collect
      BY <3>3 DEF Moved
    <3>4. CASE ~collect
      <4>1. [levels[i] EXCEPT !.array = levels[i].array] = levels[i]
        BY <3>2
      <4> QED BY <3>4, <4>1 DEF Moved
    <3> QED BY <3>3, <3>4
  <2> QED BY <1>1, <2>1, <2>2 DEF MovedLevels
<1>12. /\ epoch' = e /\ slots' = s /\ types' = types /\ loaded' = loaded
       /\ IF Len(Top.counts) > 1
          THEN objects' = made /\ levels' = Append(outer, Level(p, Front(Top.counts)))
          ELSE /\ objects' = PlaceSet(made, Last(outer).array.id, Last(outer).filled, p)
               /\ levels' = [outer EXCEPT ![Len(outer)].filled = @ + 1]
  <2>1. epoch' = e
    BY CountedCollection DEF MakeInnerArray
  <2> HIDE DEF e
  <2>2. p = [id |-> n + 1, region |-> e]
    BY DEF MadePointer, e
  <2>3. made = Append(Collected(collect, <<>>, {}).objects, [class |-> class, region |-> e, elements |-> Blank(class, Last(Top.counts))])
    BY DEF MadeHeap, Made, e
  <2> HIDE DEF p, made, class, outer
  <2>4. class = ElementClass(At(Top.array).class)
    BY DEF class
  <2> QED BY <1>11, <2>1, <2>2, <2>3, <2>4 DEF MakeInnerArray, New, StackBelow, SetElement, PlaceSet
<1>13. p.id = n + 1 /\ p \in P
  BY DEF MadePointer
<1>14. LevelsOK(outer, made)
  <2>1. Len(objects) <= Len(made) /\ Len(made) \in Nat
    BY <1>1, <1>9
  <2> HIDE DEF made, outer
  <2> QED BY <1>1, <1>9, <1>10, <2>1, LevelsKept
<1>15. made[outer[L].array.id].class = objects[Top.array.id].class
  BY <1>4, <1>9, <1>10
<1> HIDE DEF made, outer, p, e, s, P
<1>16. CASE Len(Top.counts) > 1
  <2> DEFINE l == Level(p, Front(Top.counts))
  <2>1. l \in LevelRecord(Len(made)) /\ Len(l.counts) > 0 /\ l.array = p
        /\ made[l.array.id].class.dims > Len(l.counts)
    <3>1. l = [array |-> p, filled |-> 0, counts |-> Front(Top.counts)]
      BY DEF Level
    <3> HIDE DEF l
    <3>2. l \in LevelRecord(Len(made)) /\ l.array = p /\ l.counts = Front(Top.counts)
      BY <1>6, <1>9, <3>1 DEF LevelRecord
    <3>3. made[l.array.id].class = class
      BY <1>9, <1>13, <3>2
    <3> HIDE DEF class
    <3>4. Len(Top.counts) \in Nat
      BY <1>4
    <3>5. objects[Top.array.id].class.dims \in Int /\ objects[Top.array.id].class.dims > Len(Top.counts)
      <4>1. objects[Top.array.id].class \in ObjectClasses
        BY <1>4, Basics, RecordFacts
      <4> QED BY <1>4, <4>1, ClassFacts
    <3>6. class.dims > Len(Front(Top.counts)) /\ Len(Front(Top.counts)) > 0
      BY <1>5, <1>6, <1>16, <3>4, <3>5, SMTT(30)
    <3> QED BY <3>2, <3>3, <3>6
  <2>2. made[l.array.id].class = ElementClass(made[outer[Len(outer)].array.id].class)
    <3>1. made[l.array.id].class = class
      BY <1>9, <1>13, <2>1
    <3> QED BY <1>5, <1>10, <1>15, <3>1
  <2> HIDE DEF l
  <2>3. LevelsOK(Append(outer, l), made) /\ Arrays(Append(outer, l)) = Arrays(outer) \cup {l.array}
    BY <1>2, <1>10, <1>14, <2>1, <2>2, LevelAdded
  <2>4. objects' = made /\ levels' = Append(outer, l)
    BY <1>12, <1>16 DEF l
  <2>5. Clean(Arrays(levels') \cup Refs(slots', types'), objects', epoch')
    <3>1. Arrays(levels') \cup Refs(slots', types') \subseteq P
      BY <1>10, <1>12, <1>13, <2>1, <2>3, <2>4 DEF P
    <3> QED BY <1>9, <1>12, <2>4, <3>1, CleanPart
  <2> QED BY <1>9, <1>12, <2>3, <2>4, <2>5 DEF IInv, InstancesKept
<1>17. CASE ~(Len(Top.counts) > 1)
  <2> DEFINE k == outer[L].array.id
             f == outer[L].filled
             objs == PlaceSet(made, k, f, p)
             new == [outer EXCEPT ![L].filled = @ + 1]
  <2>1. objects' = objs /\ levels' = new
    <3>1. Last(outer) = outer[L] /\ Len(outer) = L
      BY <1>10 DEF Last
    <3> QED BY <1>12, <1>17, <3>1
  <2>2. k \in 1..Len(made) /\ made[k].class = objects[Top.array.id].class
    BY <1>1, <1>4, <1>9, <1>10, <1>15
  <2> HIDE DEF k, f
  <2>3. /\ WrittenRight(made, objs, e, P)
        /\ Instances(made) => Instances(objs)
    <3>1. made[k].class.dims > 1
      BY <1>5, <2>2
    <3>2. p \in Pointers(Len(made))
      BY <1>9
    <3>3. made[p.id].class = ElementClass(made[k].class)
      BY <1>5, <1>9, <1>13, <2>2
    <3> QED BY <1>9, <1>13, <2>2, <3>1, <3>2, <3>3, ArrayOfArrays
  <2> HIDE DEF objs
  <2>4. LevelsOK(new, made) /\ Arrays(new) = Arrays(outer)
    BY <1>2, <1>10, <1>14, LevelFilled
  <2> HIDE DEF new
  <2>5. LevelsOK(new, objs)
    <3>1. Len(made) \in Nat /\ Len(objs) = Len(made) /\ Len(made) <= Len(objs) /\ Len(objs) \in Nat
      BY <1>1, <1>9, <2>3 DEF WrittenRight
    <3>2. \A q \in 1..Len(made) : objs[q].class = made[q].class
      BY <2>3 DEF WrittenRight
    <3> QED BY <2>4, <3>1, <3>2, LevelsKept
  <2>6. HeapOK(objs, e) /\ Len(objs) = n + 1 /\ Clean(P, objs, e)
    BY <1>9, <2>3 DEF WrittenRight
  <2>7. Clean(Arrays(levels') \cup Refs(slots', types'), objects', epoch')
    <3>1. Arrays(levels') \cup Refs(slots', types') \subseteq P
      BY <1>10, <1>12, <2>1, <2>4 DEF P
    <3> QED BY <1>12, <2>1, <2>6, <3>1, CleanPart
  <2> QED BY <1>9, <1>12, <2>1, <2>3, <2>5, <2>6, <2>7 DEF IInv, InstancesKept
<1> QED
  BY <1>16, <1>17

LEMMA FinishInnerArrayStep ==
  ASSUME IInv, FinishInnerArray
  PROVE  IInv' /\ InstancesKept
<1> DEFINE n == Len(objects)
           L == Len(levels)
           P == Arrays(levels) \cup Refs(slots, types)
<1>1. /\ levels \in Seq(LevelRecord(n)) /\ L \in Nat /\ DOMAIN levels = 1..L /\ levels # <<>>
      /\ LevelsOK(levels, objects) /\ n \in Nat
  BY Basics, LevelFacts DEF IInv, FinishInnerArray
<1>2. L > 0 /\ L \in 1..L /\ Top = levels[L]
  BY <1>1 DEF Top, Last
<1>3. /\ Top.array \in Pointers(n) /\ Top.array \in P
      /\ StackOK(slots, types, n) /\ HeapOK(objects, epoch) /\ Clean(P, objects, epoch)
  BY <1>1, <1>2, LevelFacts DEF IInv, Arrays
<1>4. epoch' = epoch /\ loaded' = loaded
  BY DEF FinishInnerArray
<1>5. CASE L = 1
  <2>1. /\ levels' = <<>> /\ objects' = objects /\ slots' = PushOperand(slots, "ref", Top.array)
        /\ types' = Append(types, "ref")
    BY <1>5 DEF FinishInnerArray
  <2>2. types' = PushType(types, "ref")
    <3>1. types \in Seq(SlotType)
      BY <1>3 DEF StackOK
    <3>2. Append(types, "ref") = types \o <<"ref">> /\ types \o <<"ref">> \o <<>> = types \o <<"ref">>
      BY <3>1
    <3> QED BY <2>1, <3>2 DEF PushType
  <2>3. /\ StackOK(slots', types', n)
        /\ Refs(slots', types') \subseteq Refs(slots, types) \cup {Top.array}
    <3>1. Fits(Encode("ref", Top.array), "ref", n) /\ "ref" \in OperandType /\ "ref" # "long"
      BY <1>1, <1>3, EncodedFits DEF OperandType
    <3>2. /\ StackOK(PushOperand(slots, "ref", Top.array), PushType(types, "ref"), n)
          /\ Refs(PushOperand(slots, "ref", Top.array), PushType(types, "ref"))
               \subseteq Refs(slots, types) \cup {Top.array}
      BY <1>1, <1>3, <3>1, ValuePushed
    <3> QED BY <2>1, <2>2, <3>2
  <2>4. Arrays(levels') = {}
    BY <2>1 DEF Arrays
  <2>5. Clean(Arrays(levels') \cup Refs(slots', types'), objects', epoch')
    <3>1. Arrays(levels') \cup Refs(slots', types') \subseteq P
      BY <1>3, <2>3, <2>4
    <3> HIDE DEF P
    <3> QED BY <1>3, <1>4, <2>1, <3>1, CleanPart
  <2> QED BY <1>3, <1>4, <2>1, <2>3, <2>5, NoLevels DEF IInv, InstancesKept
<1>6. CASE L # 1
  <2> DEFINE front == Front(levels)
             k == Last(front).array.id
             f == Last(front).filled
             objs == PlaceSet(objects, k, f, Top.array)
             new == [front EXCEPT ![L - 1].filled = @ + 1]
  <2>1. levels' = new /\ objects' = objs /\ slots' = slots /\ types' = types
    BY <1>6 DEF FinishInnerArray, SetElement, PlaceSet
  <2>2. /\ LevelsOK(front, objects) /\ Arrays(front) \subseteq Arrays(levels)
        /\ Len(front) = L - 1 /\ L - 1 \in 1..L /\ L - 1 \in 1..Len(front) /\ Last(front) = levels[L - 1]
    <3>1. LevelsOK(front, objects) /\ Arrays(front) \subseteq Arrays(levels)
      BY <1>1, <1>2, LevelDone
    <3>2. Len(front) = L - 1 /\ \A i \in 1..L - 1 : front[i] = levels[i]
      BY <1>1, <1>2, LastFacts
    <3>3. L - 1 \in 1..L /\ L - 1 \in 1..L - 1
      BY <1>1, <1>2, <1>6
    <3> QED BY <3>1, <3>2, <3>3 DEF Last
  <2>3. /\ k \in 1..n /\ objects[k].class.dims > 1
        /\ objects[Top.array.id].class = ElementClass(objects[k].class)
    <3>1. /\ levels[L - 1].array.id \in 1..n /\ Len(levels[L - 1].counts) > 0
          /\ objects[levels[L - 1].array.id].class.dims > Len(levels[L - 1].counts)
          /\ levels[L - 1].counts \in Seq(Nat)
      BY <1>1, <2>2, LevelFacts
    <3>2. L = (L - 1) + 1
      BY <1>1
    <3>3. objects[levels[L].array.id].class = ElementClass(objects[levels[L - 1].array.id].class)
      <4>1. \A i, j \in 1..L : j = i + 1 =>
              objects[levels[j].array.id].class = ElementClass(objects[levels[i].array.id].class)
        BY <1>1, Zenon DEF LevelsOK
      <4> HIDE DEF L
      <4> QED BY <1>2, <2>2, <3>2, <4>1
    <3>4. objects[levels[L - 1].array.id].class.dims \in Int
      <4>1. objects[levels[L - 1].array.id].class \in ObjectClasses
        BY <3>1, Basics, RecordFacts
      <4> QED BY <4>1, ClassFacts
    <3>5. objects[levels[L - 1].array.id].class.dims > 1
      <4>1. Len(levels[L - 1].counts) \in Nat
        BY <3>1
      <4> QED BY <3>1, <3>4, <4>1
    <3> QED BY <1>2, <2>2, <3>1, <3>3, <3>5
  <2> HIDE DEF front, k, f
  <2>4. /\ WrittenRight(objects, objs, epoch, P)
        /\ Instances(objects) => Instances(objs)
    BY <1>3, <2>3, ArrayOfArrays
  <2> HIDE DEF objs, P
  <2>5. LevelsOK(new, objects) /\ Arrays(new) = Arrays(front)
    BY <2>2, LevelFilled
  <2> HIDE DEF new
  <2>6. HeapOK(objs, epoch) /\ Len(objs) = n /\ Clean(P, objs, epoch)
        /\ \A q \in 1..n : objs[q].class = objects[q].class
    BY <2>4 DEF WrittenRight
  <2>7. LevelsOK(new, objs)
    <3>1. Len(objects) \in Nat /\ Len(objs) \in Nat /\ Len(objects) <= Len(objs)
      BY <1>1, <2>6
    <3> QED BY <2>5, <2>6, <3>1, LevelsKept
  <2>8. Clean(Arrays(levels') \cup Refs(slots', types'), objects', epoch')
    <3>1. Arrays(levels') \cup Refs(slots', types') \subseteq P
      BY <2>1, <2>2, <2>5 DEF P
    <3> QED BY <1>4, <2>1, <2>6, <3>1, CleanPart
  <2> QED BY <1>3, <1>4, <2>1, <2>4, <2>6, <2>7, <2>8 DEF IInv, InstancesKept
<1> QED
  BY <1>5, <1>6

-----------------------------------------------------------------------------
(* Instructions that use arrays and objects. *)

(* What is known of the object a pointer leads to. *)
LEMMA PointedTo ==
  ASSUME IInv, NEW p \in Pointers(Len(objects))
  PROVE  /\ p.id \in 1..Len(objects)
         /\ Shaped(At(p), Len(objects)) /\ At(p) = objects[p.id]
         /\ At(p).class \in ObjectClasses /\ At(p).class.dims \in Nat
         /\ At(p).class.dims > 0 =>
              /\ LengthOf(p) \in Nat /\ DOMAIN At(p).elements = 0..LengthOf(p) - 1
              /\ \A k : PlaceClass(At(p).class, k) = ElementOf(p)
<1>1. p.id \in 1..Len(objects)
  BY DEF Pointers
<1>2. Len(objects) \in Nat /\ Shaped(At(p), Len(objects))
  BY <1>1, Basics DEF At
<1>3. At(p).class \in ObjectClasses /\ At(p).class.dims \in Nat
  BY <1>2, RecordFacts, ClassFacts
<1>4. ASSUME At(p).class.dims > 0
      PROVE  LengthOf(p) \in Nat /\ DOMAIN At(p).elements = 0..LengthOf(p) - 1
  BY <1>2, <1>4, ArrayFacts DEF LengthOf
<1>5. ASSUME At(p).class.dims > 0
      PROVE  \A k : PlaceClass(At(p).class, k) = ElementOf(p)
  BY <1>5 DEF PlaceClass, ElementOf
<1> QED
  BY <1>1, <1>2, <1>3, <1>4, <1>5 DEF At

(* Operands are popped, and a place of an object is written. *)
LEMMA WriteStep ==
  ASSUME IInv, UNCHANGED <<epoch, loaded, levels>>,
         NEW ts \in Seq(OperandType), Ready(ts), Pop(ts),
         WrittenRight(objects, objects', epoch, Arrays(levels) \cup Refs(slots, types))
  PROVE  IInv'
<1>1. Len(objects) \in Nat /\ StackOK(slots, types, Len(objects)) /\ levels = <<>>
  BY Basics DEF IInv, Ready
<1>2. /\ StackOK(slots', types', Len(objects)) /\ Refs(slots', types') \subseteq Refs(slots, types)
  BY <1>1, BelowOperands DEF Pop
<1>3. /\ HeapOK(objects', epoch) /\ Len(objects') = Len(objects)
      /\ Clean(Arrays(levels) \cup Refs(slots, types), objects', epoch)
  BY DEF WrittenRight
<1>4. Clean(Arrays(levels') \cup Refs(slots', types'), objects', epoch')
  <2>1. Arrays(levels') \cup Refs(slots', types') \subseteq Arrays(levels) \cup Refs(slots, types)
    BY <1>2
  <2> QED BY <1>3, <2>1, CleanPart
<1>5. LevelsOK(levels', objects')
  BY <1>1, NoLevels
<1> QED
  BY <1>2, <1>3, <1>4, <1>5 DEF IInv

LEMMA ArrayLengthStep ==
  ASSUME IInv, ArrayLengthOf
  PROVE  IInv' /\ InstancesKept
<1> DEFINE ts == <<"ref">>
           array == Operand(ts, 1)
<1>1. Ready(ts) /\ SameHeap
  BY DEF ArrayLengthOf
<1>2. "ref" \in OperandType /\ ts \in Seq(OperandType)
  BY DEF OperandType
<1>3. Typed(array, "ref")
  BY <1>1, <1>2, OneOperand
<1>4. CASE array = Null
  <2>1. slots' = <<>> /\ types' = <<>>
    BY <1>4 DEF ArrayLengthOf, Undefined, ThrowException
  <2> QED BY <1>1, <2>1, SameKnown, ThrowStep
<1>5. CASE array # Null
  <2>1. Replace(ts, "int", LengthOf(array)) /\ At(array).class.dims > 0
    BY <1>5 DEF ArrayLengthOf
  <2>2. array \in Pointers(Len(objects))
    BY <1>3, <1>5 DEF Typed
  <2>3. LengthOf(array) \in Int
    BY <2>1, <2>2, PointedTo
  <2> HIDE DEF ts, array
  <2> QED BY <1>1, <1>2, <2>1, <2>3, SameKnown, NumberStep
<1> QED
  BY <1>4, <1>5

LEMMA ArrayLoadStep ==
  ASSUME IInv, NEW type \in {"int", "long", "ref"}, ArrayLoad(type)
  PROVE  IInv' /\ InstancesKept
<1> DEFINE n == Len(objects)
           ts == <<"ref", "int">>
           array == Operand(ts, 1)
           index == Operand(ts, 2)
           v == At(array).elements[index]
<1>1. Ready(ts) /\ IsArrayOf(array, type) /\ SameHeap
  BY DEF ArrayLoad
<1>2. "ref" \in OperandType /\ "int" \in OperandType /\ ts \in Seq(OperandType)
  BY DEF OperandType
<1>3. Typed(array, "ref") /\ Typed(index, "int")
  BY <1>1, <1>2, TwoOperands
<1>4. CASE array = Null \/ index < 0 \/ index >= LengthOf(array)
  <2>1. slots' = <<>> /\ types' = <<>>
    BY <1>4 DEF ArrayLoad, ThrowException
  <2> QED BY <1>1, <2>1, SameKnown, ThrowStep
<1>5. CASE ~(array = Null \/ index < 0 \/ index >= LengthOf(array))
  <2>1. Replace(ts, type, v)
    BY <1>5 DEF ArrayLoad
  <2>2. array \in Pointers(n) /\ array # Null /\ array \in Refs(slots, types) /\ index \in Int
    BY <1>3, <1>5 DEF Typed
  <2>3. At(array).class.dims > 0 /\ StackType(ElementOf(array)) = type
    BY <1>1, <2>2 DEF IsArrayOf
  <2> HIDE DEF array, index, ts
  <2>4. index \in DOMAIN At(array).elements /\ PlaceClass(At(array).class, index) = ElementOf(array)
    <3>1. /\ LengthOf(array) \in Nat /\ DOMAIN At(array).elements = 0..LengthOf(array) - 1
          /\ PlaceClass(At(array).class, index) = ElementOf(array)
      BY <2>2, <2>3, PointedTo
    <3> QED BY <1>5, <2>2, <3>1
  <2>5. Holds(v, ElementOf(array), n)
    <3>1. Shaped(At(array), n)
      BY <2>2, PointedTo
    <3> QED BY <2>4, <3>1 DEF Shaped
  <2>6. Fits(Encode(type, v), type, n) /\ (type = "ref" => v \in {Null} \cup References(At(array)))
    <3>1. n \in Nat
      BY Basics
    <3>2. CASE IsPrimitive(ElementOf(array))
      <4>1. type \in {"int", "long"} /\ v \in Int
        BY <2>3, <2>5, <3>2 DEF StackType, Holds
      <4> QED BY <3>1, <4>1, EncodedFits
    <3>3. CASE ~IsPrimitive(ElementOf(array))
      <4>1. type = "ref" /\ (v = Null \/ v \in Pointers(n))
        BY <2>3, <2>5, <3>3 DEF StackType, Holds
      <4>2. v \in {Null} \cup References(At(array))
        BY <2>4, <3>3 DEF References, RefPlaces
      <4> QED BY <3>1, <4>1, <4>2, EncodedFits
    <3> QED BY <3>2, <3>3
  <2> DEFINE Old == Arrays(levels) \cup Refs(slots, types)
             P == Old \cup {Null} \cup References(objects[array.id])
  <2>7. Clean(P, objects, epoch)
    <3>1. Clean(Old, objects, epoch) /\ array \in Old
      BY <2>2 DEF IInv
    <3> HIDE DEF Old
    <3>2. Clean(Old \cup References(objects[array.id]), objects, epoch)
      BY <2>2, <3>1, CleanMore
    <3> QED BY <3>2 DEF Clean, CleanIn
  <2>8. type \in OperandType /\ Old \subseteq P /\ (type = "ref" => v \in P)
    BY <2>6 DEF OperandType, At
  <2> HIDE DEF v, P
  <2> QED BY <1>1, <1>2, <2>1, <2>6, <2>7, <2>8, SameKnown, ReplaceStep
<1> QED
  BY <1>4, <1>5

(* A value that is cut to the width of its place may be held there. *)
LEMMA NarrowedHolds ==
  ASSUME IInv, NEW class, NEW v, Typed(v, StackType(class))
  PROVE  /\ Holds(Narrowed(class, v), class, Len(objects))
         /\ ~IsPrimitive(class) => Narrowed(class, v) = v /\ v \in Refs(slots, types)
<1>1. CASE IsPrimitive(class)
  <2>1. v \in Int /\ class.of \in Primitives
    BY <1>1 DEF Typed, StackType, IsPrimitive
  <2> QED BY <1>1, <2>1, DecodedNumber DEF Narrowed, Holds
<1>2. CASE ~IsPrimitive(class)
  BY <1>2 DEF Typed, StackType, Narrowed, Holds
<1> QED
  BY <1>1, <1>2

LEMMA ArrayStoreStep ==
  ASSUME IInv, NEW type \in {"int", "long", "ref"}, ArrayStore(type)
  PROVE  IInv' /\ InstancesKept
<1> DEFINE n == Len(objects)
           ts == <<"ref", "int", type>>
           array == Operand(ts, 1)
           index == Operand(ts, 2)
           value == Operand(ts, 3)
           inside == index >= 0 /\ index < LengthOf(array)
           stops == array = Null \/ (type = "ref" /\ ~MayHold(array, value)) \/ ~inside
<1>1. Ready(ts) /\ IsArrayOf(array, type) /\ UNCHANGED <<epoch, loaded, levels>>
  BY DEF ArrayStore
<1>2. "ref" \in OperandType /\ "int" \in OperandType /\ type \in OperandType /\ ts \in Seq(OperandType)
  BY DEF OperandType
<1>3. Typed(array, "ref") /\ Typed(index, "int") /\ Typed(value, type)
  BY <1>1, <1>2, ThreeOperands
<1>4. CASE stops
  <2>1. slots' = <<>> /\ types' = <<>> /\ UNCHANGED objects
    BY <1>4 DEF ArrayStore, ThrowException
  <2>2. UNCHANGED <<objects, epoch, levels>> /\ loaded' \subseteq Known
    BY <1>1, <2>1 DEF IInv
  <2> QED BY <2>1, <2>2, ThrowStep
<1>5. CASE ~stops
  <2> DEFINE v == Narrowed(ElementOf(array), value)
             k == array.id
             P == Arrays(levels) \cup Refs(slots, types)
             objs == PlaceSet(objects, k, index, v)
  <2>1. Pop(ts) /\ objects' = objs
    BY <1>5 DEF ArrayStore, PlaceSet
  <2>2. array \in Pointers(n) /\ array # Null
    BY <1>3, <1>5 DEF Typed
  <2>3. At(array).class.dims > 0 /\ StackType(ElementOf(array)) = type
    BY <1>1, <2>2 DEF IsArrayOf
  <2>4. ~IsPrimitive(ElementOf(array)) => MayHold(array, value)
    BY <1>5, <2>3 DEF StackType
  <2> HIDE DEF array, index, value, ts, stops
  <2>5. k \in 1..n /\ At(array) = objects[k] /\ PlaceClass(objects[k].class, index) = ElementOf(array)
    BY <2>2, <2>3, PointedTo
  <2>6. /\ Holds(v, ElementOf(array), n)
        /\ ~IsPrimitive(ElementOf(array)) => v = value /\ value \in P
    BY <1>3, <2>3, NarrowedHolds
  <2>7. HeapOK(objects, epoch) /\ Clean(P, objects, epoch)
    BY DEF IInv
  <2>8. index \in RefPlaces(objects[k]) => v \in {Null} \cup P
    BY <2>5, <2>6 DEF RefPlaces
  <2>9. index \in RefPlaces(objects[k]) /\ v # Null =>
          IsInstanceOf(objects[v.id].class, PlaceClass(objects[k].class, index))
    BY <2>4, <2>5, <2>6 DEF RefPlaces, MayHold, At
  <2> HIDE DEF v, k, P
  <2>10. /\ WrittenRight(objects, objs, epoch, P)
         /\ Instances(objects) => Instances(objs)
    BY <2>5, <2>6, <2>7, <2>8, <2>9, PlaceWritten
  <2> HIDE DEF objs
  <2>11. IInv'
    BY <1>1, <1>2, <2>1, <2>10, WriteStep DEF P
  <2> QED BY <2>1, <2>10, <2>11 DEF InstancesKept
<1> QED
  BY <1>4, <1>5

(* What is on the stack below the operands, and in the heap, after a collection. *)
LEMMA OperandsCollected ==
  ASSUME IInv, NEW ts \in Seq(OperandType), Ready(ts), NEW collect \in BOOLEAN,
         NEW held, held \subseteq Refs(slots, types)
  PROVE  /\ CollectedRight(ts, collect, held)
         /\ StackOK(Collected(collect, ts, held).slots, Dropped(types, ts), Len(objects))
         /\ Refs(Collected(collect, ts, held).slots, Dropped(types, ts))
              \subseteq {Moved(collect, p) : p \in Held(ts, held)}
<1> DEFINE n == Len(objects)
<1>1. n \in Nat /\ epoch \in Nat /\ HeapOK(objects, epoch) /\ StackOK(slots, types, n)
  BY Basics DEF IInv
<1>2. /\ StackOK(Dropped(slots, ts), Dropped(types, ts), n)
      /\ Refs(Dropped(slots, ts), Dropped(types, ts)) \subseteq Refs(slots, types)
  BY <1>1, BelowOperands
<1>3. Held(ts, held) \subseteq Arrays(levels) \cup Refs(slots, types)
  BY <1>2 DEF Held, Pinned, Arrays
<1>4. CollectedRight(ts, collect, held)
  <2>1. Held(ts, held) \subseteq {Null} \cup Pointers(n)
    BY <1>3, Basics
  <2>2. Clean(Arrays(levels) \cup Refs(slots, types), objects, epoch)
    BY DEF IInv
  <2>3. Clean(Held(ts, held), objects, epoch)
    BY <1>3, <2>2, CleanPart
  <2> QED BY <1>1, <2>1, <2>3, CollectedHeap
<1>5. /\ StackOK(Collected(collect, ts, held).slots, Dropped(types, ts), n)
      /\ Refs(Collected(collect, ts, held).slots, Dropped(types, ts))
           \subseteq {Moved(collect, p) : p \in Refs(Dropped(slots, ts), Dropped(types, ts))}
  BY <1>1, <1>2, CollectedStack
<1>6. Refs(Dropped(slots, ts), Dropped(types, ts)) \subseteq Held(ts, held)
  BY DEF Held
<1> QED
  BY <1>4, <1>5, <1>6

LEMMA CollectStep ==
  ASSUME IInv, levels = <<>>, UNCHANGED levels, loaded' \subseteq Known,
         NEW collect \in BOOLEAN, CountCollection(collect), NEW ts, NEW held,
         CollectedRight(ts, collect, held), objects' = Collected(collect, ts, held).objects,
         StackOK(slots', types', Len(objects)),
         Refs(slots', types') \subseteq {Null} \cup {Moved(collect, p) : p \in Held(ts, held)}
  PROVE  IInv' /\ InstancesKept
<1> DEFINE P == {Moved(collect, p) : p \in Held(ts, held)}
<1>1. epoch' = After(collect)
  BY CountedCollection
<1>2. /\ HeapOK(objects', epoch') /\ Len(objects') = Len(objects)
      /\ Clean(P, objects', epoch') /\ InstancesKept
  BY <1>1 DEF CollectedRight, InstancesKept
<1> HIDE DEF P
<1>3. Clean(Arrays(levels') \cup Refs(slots', types'), objects', epoch')
  <2>1. Arrays(levels') = {}
    BY DEF Arrays
  <2>2. Clean({Null} \cup P, objects', epoch')
    BY <1>2 DEF Clean, CleanIn
  <2>3. Refs(slots', types') \subseteq {Null} \cup P
    BY DEF P
  <2> QED BY <2>1, <2>2, <2>3, CleanPart
<1>4. LevelsOK(levels', objects')
  BY NoLevels
<1> QED
  BY <1>2, <1>3, <1>4 DEF IInv

LEMMA CheckCastStep ==
  ASSUME IInv, NEW class \in Classes, NEW collect \in BOOLEAN, CheckCast(class, collect)
  PROVE  IInv' /\ InstancesKept
<1> DEFINE ts == <<"ref">>
           object == Operand(ts, 1)
           P == Arrays(levels) \cup Refs(slots, types)
<1>1. Ready(ts) /\ UNCHANGED <<objects, epoch, levels>> /\ loaded' \subseteq Known
  BY DEF CheckCast, IInv, Known
<1>2. "ref" \in OperandType /\ ts \in Seq(OperandType)
  BY DEF OperandType
<1>3. Typed(object, "ref")
  BY <1>1, <1>2, OneOperand
<1>4. (slots' = <<>> /\ types' = <<>>) \/ Replace(ts, "ref", object)
  BY DEF CheckCast, Undefined, ThrowException
<1>5. CASE slots' = <<>> /\ types' = <<>>
  BY <1>1, <1>5, ThrowStep
<1>6. CASE Replace(ts, "ref", object)
  <2>1. Fits(Encode("ref", object), "ref", Len(objects)) /\ object \in Refs(slots, types)
    BY <1>3, Basics, EncodedFits DEF Typed
  <2>2. Clean(P, objects, epoch) /\ object \in P
    BY <2>1 DEF IInv
  <2> HIDE DEF ts, object
  <2> QED BY <1>1, <1>2, <1>6, <2>1, <2>2, ReplaceStep
<1> QED
  BY <1>4, <1>5, <1>6

(* The topmost operand, a reference, gives way to an int or to another. *)
LEMMA ReplacedType ==
  ASSUME IInv, Ready(<<"ref">>), NEW type \in {"int", "ref"}
  PROVE  /\ [types EXCEPT ![Len(types)] = type] = PushType(Dropped(types, <<"ref">>), type)
         /\ types = [types EXCEPT ![Len(types)] = "ref"]
<1>1. types \in Seq(SlotType) /\ Len(types) \in Nat /\ type \in SlotType
  BY Basics DEF IInv, StackOK, SlotType, OperandType
<1>2. SlotsOf(<<"ref">>) = 1
  <2>1. Len(<<"ref">>) = 1 /\ {i \in DOMAIN <<"ref">> : <<"ref">>[i] = "long"} = {}
    OBVIOUS
  <2> QED BY <2>1, FS_EmptySet DEF SlotsOf
<1>3. Len(types) >= 1
  BY <1>2 DEF Ready
<1> DEFINE L == Len(types)
           below == SubSeq(types, 1, L - 1)
<1>4. below \in Seq(SlotType) /\ Len(below) = L - 1 /\ \A i \in 1..L - 1 : below[i] = types[i]
  <2>1. 1 \in 1..L + 1 /\ L - 1 \in 0..L /\ 1 <= L - 1 + 1
    BY <1>1, <1>3
  <2>2. /\ below \in Seq(SlotType) /\ Len(below) = L - 1 - 1 + 1
        /\ \A i \in 1..(L - 1) - 1 + 1 : below[i] = types[1 + i - 1]
    BY <1>1, <2>1, PartOfList
  <2> QED BY <1>1, <2>2
<1>5. PushType(Dropped(types, <<"ref">>), type) = below \o <<type>>
  <2>1. Dropped(types, <<"ref">>) = below
    BY <1>2 DEF Dropped
  <2> HIDE DEF below
  <2> QED BY <1>4, <2>1 DEF PushType
<1> DEFINE new == [types EXCEPT ![L] = type]
           end == below \o <<type>>
<1>6. end \in Seq(SlotType) /\ Len(end) = L /\ \A i \in 1..L : end[i] = IF i < L THEN types[i] ELSE type
  <2> HIDE DEF below
  <2>1. /\ below \o <<type>> \in Seq(SlotType) /\ Len(below \o <<type>>) = L - 1 + 1
        /\ \A i \in 1..L - 1 + 1 :
             (below \o <<type>>)[i] = IF i <= L - 1 THEN below[i] ELSE <<type>>[i - (L - 1)]
    BY <1>1, <1>4
  <2> QED BY <1>1, <1>3, <1>4, <2>1
<1>7. new \in Seq(SlotType) /\ Len(new) = L /\ \A i \in 1..L : new[i] = IF i < L THEN types[i] ELSE type
  BY <1>1, <1>3
<1>8. new = end
  <2> HIDE DEF new, end
  <2> QED BY <1>6, <1>7
<1>9. types[L] = "ref"
  <2> DEFINE ts == <<"ref">>
  <2>1. 1 \in DOMAIN ts /\ SubSeq(ts, 1, Len(ts)) = ts /\ ts[1] = "ref"
    <3>1. ts \in Seq(OperandType) /\ Len(ts) = 1 /\ ts[1] = "ref"
      BY ListOfTypes DEF OperandType
    <3> HIDE DEF ts
    <3> QED BY <3>1
  <2>2. types[L + 1 - SlotsOf(SubSeq(ts, 1, Len(ts)))] = ts[1]
    BY <2>1 DEF Ready
  <2>3. L + 1 - SlotsOf(ts) = L
    BY <1>1, <1>2
  <2> QED BY <2>1, <2>2, <2>3
<1>10. types = [types EXCEPT ![L] = "ref"]
  BY <1>1, <1>9
<1> QED
  BY <1>5, <1>8, <1>10

LEMMA InstanceOfStep ==
  ASSUME IInv, NEW class \in Classes, NEW collect \in BOOLEAN, InstanceOf(class, collect)
  PROVE  IInv' /\ InstancesKept
<1> DEFINE n == Len(objects)
           ts == <<"ref">>
           object == Operand(ts, 1)
           held == {object}
           s == Collected(collect, ts, held).slots
           below == Dropped(types, ts)
           v == IF object # Null /\ IsInstanceOf(At(object).class, class) THEN 1 ELSE 0
<1>1. /\ Ready(ts) /\ levels = <<>> /\ UNCHANGED levels /\ loaded' \subseteq Known
      /\ CountCollection(collect) /\ objects' = Collected(collect, ts, held).objects
      /\ slots' = PushOperand(s, "int", v) /\ types' = [types EXCEPT ![Len(types)] = "int"]
  BY DEF InstanceOf, Ready, IInv, Known
<1>2. "ref" \in OperandType /\ ts \in Seq(OperandType)
  BY DEF OperandType
<1>3. held \subseteq Refs(slots, types)
  <2>1. Typed(object, "ref")
    BY <1>1, <1>2, OneOperand
  <2> QED BY <2>1 DEF Typed
<1>4. types' = PushType(below, "int")
  <2>1. [types EXCEPT ![Len(types)] = "int"] = PushType(below, "int")
    BY <1>1, ReplacedType
  <2> QED BY <1>1, <2>1
<1>5. v \in Int
  OBVIOUS
<1> HIDE DEF object, held, v, ts
<1>6. /\ CollectedRight(ts, collect, held) /\ StackOK(s, below, n)
      /\ Refs(s, below) \subseteq {Moved(collect, p) : p \in Held(ts, held)}
  BY <1>1, <1>2, <1>3, OperandsCollected
<1>7. /\ StackOK(slots', types', n) /\ Refs(slots', types') \subseteq Refs(s, below)
  <2>1. n \in Nat /\ Fits(Encode("int", v), "int", n) /\ "int" \in OperandType
    BY <1>5, Basics, EncodedFits DEF OperandType
  <2> HIDE DEF s, below
  <2>2. /\ StackOK(PushOperand(s, "int", v), PushType(below, "int"), n)
        /\ Refs(PushOperand(s, "int", v), PushType(below, "int")) \subseteq Refs(s, below)
    BY <1>6, <2>1, ValuePushed
  <2> QED BY <1>1, <1>4, <2>2
<1>8. Refs(slots', types') \subseteq {Moved(collect, p) : p \in Held(ts, held)}
  BY <1>6, <1>7
<1> QED
  BY <1>1, <1>6, <1>7, <1>8, CollectStep

-----------------------------------------------------------------------------
(* Fields, calls and native methods. *)

(* What a place of a class holds may be pushed as it is. *)
LEMMA UnwidenedPushed ==
  ASSUME NEW n \in Nat, NEW s, NEW ts, StackOK(s, ts, n), NEW class, NEW v, Holds(v, class, n)
  PROVE  /\ StackOK(PushUnwidened(s, class, v), PushType(ts, StackType(class)), n)
         /\ Refs(PushUnwidened(s, class, v), PushType(ts, StackType(class)))
              \subseteq Refs(s, ts) \cup (IF IsPrimitive(class) THEN {} ELSE {v})
<1> DEFINE as == IF IsPrimitive(class) THEN class.of ELSE "ref"
           type == StackType(class)
<1>1. /\ Fits(Encode(as, v), type, n) /\ type \in OperandType /\ (as = "long" <=> type = "long")
      /\ type = "ref" <=> ~IsPrimitive(class)
      /\ type = "ref" => as = "ref"
  <2>1. CASE IsPrimitive(class)
    <3>1. v \in Int /\ class.of \in {"int", "long", "byte"}
      BY <2>1 DEF Holds, IsPrimitive, Primitives
    <3>2. CASE class.of = "byte"
      BY <2>1, <3>1, <3>2, EncodedFits DEF StackType, OperandType
    <3>3. CASE class.of = "int"
      BY <2>1, <3>1, <3>3, EncodedFits DEF StackType, OperandType
    <3>4. CASE class.of = "long"
      BY <2>1, <3>1, <3>4, EncodedFits DEF StackType, OperandType
    <3> QED BY <3>1, <3>2, <3>3, <3>4
  <2>2. CASE ~IsPrimitive(class)
    <3>1. v = Null \/ v \in Pointers(n)
      BY <2>2 DEF Holds
    <3> QED BY <2>2, <3>1, EncodedFits DEF StackType, OperandType
  <2> QED BY <2>1, <2>2
<1>2. PushUnwidened(s, class, v) = PushOperand(s, as, v)
  BY DEF PushUnwidened
<1> HIDE DEF as, type
<1>3. /\ StackOK(PushOperand(s, as, v), PushType(ts, type), n)
      /\ Refs(PushOperand(s, as, v), PushType(ts, type))
           \subseteq Refs(s, ts) \cup (IF type = "ref" THEN {v} ELSE {})
  BY <1>1, ValuePushed
<1> QED
  BY <1>1, <1>2, <1>3 DEF type

(* The place of a field of an object that has it. *)
LEMMA FieldPlace ==
  ASSUME IInv, NEW class, NEW k \in Places(class, 0), NEW p \in Pointers(Len(objects)),
         At(p).class = class
  PROVE  /\ k \in DOMAIN At(p).elements /\ PlaceClass(class, k) = FieldsOf(class)[k]
         /\ Holds(At(p).elements[k], FieldsOf(class)[k], Len(objects))
<1>1. Shaped(At(p), Len(objects)) /\ class.dims \in Nat
  BY PointedTo
<1>2. class.dims = 0
  BY <1>1 DEF Places
<1>3. PICK m \in Nat : DOMAIN At(p).elements = Places(class, m)
  BY <1>1 DEF Shaped
<1>4. k \in DOMAIN At(p).elements /\ PlaceClass(class, k) = FieldsOf(class)[k]
  BY <1>2, <1>3 DEF Places, PlaceClass
<1> QED
  BY <1>1, <1>4 DEF Shaped

LEMMA GetFieldStep ==
  ASSUME IInv, NEW class, NEW k \in Places(class, 0), GetField(class, k)
  PROVE  IInv' /\ InstancesKept
<1> DEFINE n == Len(objects)
           ts == <<"ref">>
           object == Operand(ts, 1)
           v == At(object).elements[k]
           c == FieldsOf(class)[k]
           s == Dropped(slots, ts)
           below == Dropped(types, ts)
<1>1. Ready(ts) /\ HasField(object, class) /\ SameHeap
  BY DEF GetField
<1>2. "ref" \in OperandType /\ ts \in Seq(OperandType)
  BY DEF OperandType
<1>3. Typed(object, "ref")
  BY <1>1, <1>2, OneOperand
<1>4. CASE object = Null
  <2>1. slots' = <<>> /\ types' = <<>>
    BY <1>4 DEF GetField, ThrowException
  <2> QED BY <1>1, <2>1, SameKnown, ThrowStep
<1>5. CASE object # Null
  <2>1. slots' = PushUnwidened(s, c, v) /\ types' = PushType(below, StackType(c))
    BY <1>5 DEF GetField
  <2>2. object \in Pointers(n) /\ object \in Refs(slots, types) /\ At(object).class = class
    BY <1>1, <1>3, <1>5 DEF Typed, HasField
  <2> HIDE DEF object, ts
  <2>3. /\ k \in DOMAIN At(object).elements /\ PlaceClass(class, k) = c
        /\ Holds(v, c, n)
    BY <2>2, FieldPlace
  <2>4. n \in Nat /\ StackOK(slots, types, n)
    BY Basics DEF IInv
  <2>5. StackOK(s, below, n) /\ Refs(s, below) \subseteq Refs(slots, types)
    BY <1>1, <1>2, <2>4, BelowOperands
  <2> DEFINE Old == Arrays(levels) \cup Refs(slots, types)
             P == Old \cup {Null} \cup References(objects[object.id])
  <2>6. ~IsPrimitive(c) => v \in P
    BY <2>2, <2>3 DEF References, RefPlaces, At
  <2> HIDE DEF c, s, below, v
  <2>7. /\ StackOK(slots', types', n)
        /\ Refs(slots', types') \subseteq Refs(s, below) \cup (IF IsPrimitive(c) THEN {} ELSE {v})
    BY <2>1, <2>3, <2>4, <2>5, UnwidenedPushed
  <2>8. Clean(P, objects, epoch)
    <3>1. Clean(Old, objects, epoch) /\ object \in Old
      BY <2>2 DEF IInv
    <3> HIDE DEF Old
    <3>2. Clean(Old \cup References(objects[object.id]), objects, epoch)
      BY <1>5, <3>1, CleanMore
    <3> QED BY <3>2 DEF Clean, CleanIn
  <2>9. Refs(slots', types') \subseteq P /\ Arrays(levels) \subseteq P
    <3>1. Old \subseteq P /\ Refs(slots, types) \subseteq Old /\ Arrays(levels) \subseteq Old
      OBVIOUS
    <3> HIDE DEF P, Old
    <3> QED BY <2>5, <2>6, <2>7, <3>1
  <2> HIDE DEF P
  <2> QED BY <1>1, <2>7, <2>8, <2>9, SameKnown, StackStep
<1> QED
  BY <1>4, <1>5

LEMMA PutFieldStep ==
  ASSUME IInv, NEW class, NEW k \in Places(class, 0), PutField(class, k)
  PROVE  IInv' /\ InstancesKept
<1> DEFINE n == Len(objects)
           c == FieldsOf(class)[k]
           type == StackType(c)
           ts == <<"ref", type>>
           object == Operand(ts, 1)
           value == Operand(ts, 2)
<1>1. /\ Ready(ts) /\ HasField(object, class) /\ UNCHANGED <<epoch, loaded, levels>>
      /\ type = "ref" /\ value # Null => IsInstanceOf(At(value).class, c)
  BY DEF PutField
<1>2. "ref" \in OperandType /\ type \in OperandType /\ ts \in Seq(OperandType)
  BY DEF OperandType, StackType
<1>3. Typed(object, "ref") /\ Typed(value, type)
  <2> HIDE DEF type
  <2> QED BY <1>1, <1>2, TwoOperands
<1>4. CASE object = Null
  <2>1. slots' = <<>> /\ types' = <<>> /\ UNCHANGED objects
    BY <1>4 DEF PutField, ThrowException
  <2>2. UNCHANGED <<objects, epoch, levels>> /\ loaded' \subseteq Known
    BY <1>1, <2>1 DEF IInv
  <2> QED BY <2>1, <2>2, ThrowStep
<1>5. CASE object # Null
  <2> DEFINE v == Narrowed(c, value)
             i == object.id
             P == Arrays(levels) \cup Refs(slots, types)
             objs == PlaceSet(objects, i, k, v)
  <2>1. Pop(ts) /\ objects' = objs
    BY <1>5 DEF PutField, PlaceSet
  <2>2. object \in Pointers(n) /\ At(object).class = class
    BY <1>1, <1>3, <1>5 DEF Typed, HasField
  <2>3. ~IsPrimitive(c) /\ value # Null => IsInstanceOf(At(value).class, c)
    BY <1>1 DEF StackType
  <2> HIDE DEF object, value, ts
  <2>4. i \in 1..n /\ At(object) = objects[i] /\ PlaceClass(objects[i].class, k) = c
    BY <2>2, PointedTo, FieldPlace
  <2> HIDE DEF c
  <2>5. /\ Holds(v, c, n)
        /\ ~IsPrimitive(c) => v = value /\ value \in P
    BY <1>3, NarrowedHolds
  <2>6. HeapOK(objects, epoch) /\ Clean(P, objects, epoch)
    BY DEF IInv
  <2>7. k \in RefPlaces(objects[i]) => v \in {Null} \cup P
    BY <2>4, <2>5 DEF RefPlaces
  <2>8. k \in RefPlaces(objects[i]) /\ v # Null =>
          IsInstanceOf(objects[v.id].class, PlaceClass(objects[i].class, k))
    BY <2>3, <2>4, <2>5 DEF RefPlaces, At
  <2> HIDE DEF v, i, P
  <2>9. /\ WrittenRight(objects, objs, epoch, P)
        /\ Instances(objects) => Instances(objs)
    BY <2>4, <2>5, <2>6, <2>7, <2>8, PlaceWritten
  <2> HIDE DEF objs
  <2>10. IInv'
    BY <1>1, <1>2, <2>1, <2>9, WriteStep DEF P
  <2> QED BY <2>1, <2>9, <2>10 DEF InstancesKept
<1> QED
  BY <1>4, <1>5

LEMMA RefersToStep ==
  ASSUME IInv, NEW class, NEW k, RefersTo(class, k)
  PROVE  IInv' /\ InstancesKept
<1> DEFINE ts == <<"ref", "ref">>
           v == IF At(Operand(ts, 1)).elements[k] = Null /\ Operand(ts, 2) = Null THEN 1 ELSE 0
<1>1. Ready(ts) /\ Replace(ts, "int", v) /\ SameHeap
  BY DEF RefersTo
<1>2. ts \in Seq(OperandType) /\ v \in Int
  BY DEF OperandType
<1> HIDE DEF ts, v
<1> QED
  BY <1>1, <1>2, SameKnown, NumberStep

LEMMA InvokeNativeStep ==
  ASSUME IInv, NEW class \in Classes, NEW collect \in BOOLEAN, InvokeNative(class, collect)
  PROVE  IInv' /\ InstancesKept
<1> DEFINE n == Len(objects)
           type == StackType(class)
           ts == <<"ref", type>>
           this == Operand(ts, 1)
           value == Operand(ts, 2)
           argument == Narrowed(class, value)
           held == {this} \cup (IF IsPrimitive(class) THEN {} ELSE {argument})
           s == Collected(collect, ts, held).slots
           below == Dropped(types, ts)
           result == IF collect /\ ~IsPrimitive(class) THEN Move(argument) ELSE argument
<1>1. /\ Ready(ts) /\ levels = <<>> /\ UNCHANGED <<loaded, levels>> /\ loaded' \subseteq Known
  BY DEF InvokeNative, Ready, IInv
<1>2. type \in OperandType /\ "ref" \in OperandType /\ ts \in Seq(OperandType)
  BY DEF OperandType, StackType
<1>3. Typed(this, "ref") /\ Typed(value, type)
  <2> HIDE DEF type
  <2> QED BY <1>1, <1>2, TwoOperands
<1>4. CASE this = Null
  <2>1. slots' = <<>> /\ types' = <<>> /\ UNCHANGED <<objects, epoch>>
    BY <1>4 DEF InvokeNative, ThrowException
  <2>2. UNCHANGED <<objects, epoch, levels>>
    BY <1>1, <2>1
  <2> QED BY <1>1, <2>1, <2>2, ThrowStep
<1>5. CASE this # Null
  <2>1. /\ CountCollection(collect) /\ objects' = Collected(collect, ts, held).objects
        /\ slots' = PushUnwidened(s, class, result)
        /\ types' = PushType(below, type)
    BY <1>5 DEF InvokeNative
  <2> HIDE DEF ts, this, value
  <2>2. /\ Holds(argument, class, n)
        /\ ~IsPrimitive(class) => argument \in Refs(slots, types)
    BY <1>3, NarrowedHolds
  <2> HIDE DEF argument
  <2>3. held \subseteq Refs(slots, types)
    BY <1>3, <2>2 DEF Typed
  <2>4. n \in Nat /\ epoch \in Nat
    BY Basics
  <2>5. /\ Holds(result, class, n)
        /\ ~IsPrimitive(class) => result \in {Moved(collect, p) : p \in Held(ts, held)}
    <3>1. CASE IsPrimitive(class)
      BY <2>2, <3>1 DEF Holds
    <3>2. CASE ~IsPrimitive(class)
      <4>1. argument = Null \/ argument \in Pointers(n)
        BY <2>2, <3>2 DEF Holds
      <4>2. result = Moved(collect, argument)
        BY <3>2 DEF Moved
      <4>3. argument \in Held(ts, held)
        BY <3>2 DEF Held
      <4> HIDE DEF result, held
      <4>4. result = Null \/ result \in Pointers(n)
        BY <2>4, <4>1, <4>2, MovedFacts
      <4> QED BY <3>2, <4>2, <4>3, <4>4 DEF Holds
    <3> QED BY <3>1, <3>2
  <2> HIDE DEF held, result
  <2>6. /\ CollectedRight(ts, collect, held) /\ StackOK(s, below, n)
        /\ Refs(s, below) \subseteq {Moved(collect, p) : p \in Held(ts, held)}
    BY <1>1, <1>2, <2>3, OperandsCollected
  <2> HIDE DEF s, below
  <2>7. /\ StackOK(slots', types', n)
        /\ Refs(slots', types') \subseteq Refs(s, below) \cup (IF IsPrimitive(class) THEN {} ELSE {result})
    BY <2>1, <2>4, <2>5, <2>6, UnwidenedPushed
  <2>8. Refs(slots', types') \subseteq {Null} \cup {Moved(collect, p) : p \in Held(ts, held)}
    BY <2>5, <2>6, <2>7
  <2> QED BY <1>1, <2>1, <2>6, <2>7, <2>8, CollectStep
<1> QED
  BY <1>4, <1>5

(* An object may be there when there are more objects. *)
LEMMA ShapedMore ==
  ASSUME NEW o, NEW n \in Nat, Shaped(o, n)
  PROVE  Shaped(o, n + 1)
<1>1. \A k \in DOMAIN o.elements : Holds(o.elements[k], PlaceClass(o.class, k), n)
  BY DEF Shaped
<1>2. n + 1 \in Nat /\ n <= n + 1
  OBVIOUS
<1>3. \A k \in DOMAIN o.elements : Holds(o.elements[k], PlaceClass(o.class, k), n + 1)
  BY <1>1, <1>2, HeldValues
<1> QED
  BY <1>3 DEF Shaped

LEMMA CloneStep ==
  ASSUME IInv, NEW collect \in BOOLEAN, Clone(collect)
  PROVE  IInv' /\ InstancesKept
<1> DEFINE n == Len(objects)
           e == After(collect)
           ts == <<"ref">>
           object == Operand(ts, 1)
           held == {object}
           objs == Collected(collect, ts, held).objects
           s == Collected(collect, ts, held).slots
           below == Dropped(types, ts)
           P == {Moved(collect, p) : p \in Held(ts, held)}
           o == objs[object.id]
           p == [id |-> n + 1, region |-> e]
           new == Append(objs, o)
<1>1. /\ Ready(ts) /\ object # Null /\ levels = <<>> /\ UNCHANGED <<loaded, levels>>
      /\ loaded' \subseteq Known
  BY DEF Clone, Ready, IInv
<1>2. "ref" \in OperandType /\ ts \in Seq(OperandType)
  BY DEF OperandType
<1>3. Typed(object, "ref")
  BY <1>1, <1>2, OneOperand
<1>4. CASE ~IsCloneable(At(object).class)
  <2>1. slots' = <<>> /\ types' = <<>> /\ UNCHANGED <<objects, epoch>>
    BY <1>4 DEF Clone, ThrowException
  <2>2. UNCHANGED <<objects, epoch, levels>>
    BY <1>1, <2>1
  <2> QED BY <1>1, <2>1, <2>2, ThrowStep
<1>5. CASE IsCloneable(At(object).class)
  <2>1. CountCollection(collect) /\ epoch' = e
    BY <1>5, CountedCollection DEF Clone
  <2>2. objects' = new /\ slots' = PushOperand(s, "ref", p) /\ types' = types
    BY <1>5, <2>1 DEF Clone
  <2>3. types' = PushType(below, "ref")
    <3>1. /\ [types EXCEPT ![Len(types)] = "ref"] = PushType(below, "ref")
          /\ types = [types EXCEPT ![Len(types)] = "ref"]
      BY <1>1, ReplacedType
    <3> QED BY <2>2, <3>1
  <2>4. n \in Nat /\ n + 1 \in Nat /\ n <= n + 1 /\ epoch \in Nat
    BY Basics
  <2>5. object \in Pointers(n) /\ object \in held /\ held \subseteq Refs(slots, types)
    BY <1>1, <1>3 DEF Typed
  <2> HIDE DEF ts, object, held
  <2>6. /\ CollectedRight(ts, collect, held) /\ StackOK(s, below, n) /\ Refs(s, below) \subseteq P
    BY <1>1, <1>2, <2>5, OperandsCollected
  <2>7. /\ HeapOK(objs, e) /\ Len(objs) = n /\ Clean(P, objs, e)
        /\ Instances(objects) => Instances(objs)
    BY <2>6 DEF CollectedRight
  <2>8. \E q \in P : q # Null /\ q.id = object.id
    <3>1. /\ Moved(collect, object) \in Pointers(n) /\ Moved(collect, object).id = object.id
      BY <2>4, <2>5, MovedFacts
    <3>2. object \in Held(ts, held)
      BY <2>5 DEF Held
    <3>3. Moved(collect, object) # Null
      BY <3>1, ValuesAssumption DEF Pointers
    <3> QED BY <3>1, <3>2, <3>3
  <2>9. object.id \in 1..n
    BY <2>5 DEF Pointers
  <2> HIDE DEF P, s, below, objs, e
  <2>10. Shaped(o, n) /\ o.region = e
    <3>1. PICK S : CleanIn(S, P, objs, e)
      BY <2>7 DEF Clean
    <3>2. object.id \in S
      BY <2>8, <3>1 DEF CleanIn
    <3>3. o.region = e
      BY <3>1, <3>2 DEF CleanIn
    <3> QED BY <2>7, <2>9, <3>3 DEF HeapOK
  <2>11. Clean(P \cup References(o), objs, e)
    BY <2>7, <2>8, CleanMore
  <2>12. Shaped(o, Len(objs) + 1)
    BY <2>4, <2>7, <2>10, ShapedMore
  <2>13. \A i \in RefPlaces(o) : o.elements[i] # Null => o.elements[i].id \in 1..Len(objs)
    <3>1. References(o) \subseteq Pointers(n)
      BY <2>4, <2>10, ReferenceFacts
    <3> QED BY <2>7, <3>1 DEF References, Pointers
  <2>14. Instances(objs) => \A i \in RefPlaces(o) : o.elements[i] # Null =>
           IsInstanceOf(objs[o.elements[i].id].class, PlaceClass(o.class, i))
    <3>1. object.id \in DOMAIN objs
      BY <2>7, <2>9 DEF HeapOK
    <3> QED BY <3>1 DEF Instances
  <2> HIDE DEF o
  <2>15. /\ HeapOK(new, e) /\ Len(new) = n + 1
         /\ Clean(P \cup {p}, new, e)
         /\ Instances(objs) => Instances(new)
    BY <2>7, <2>10, <2>11, <2>12, <2>13, <2>14, ObjectAdded
  <2>16. p \in Pointers(n + 1)
    <3>1. e \in Nat
      BY <2>4 DEF e, After
    <3> QED BY <2>4, <3>1 DEF Pointers
  <2> HIDE DEF p, new
  <2>17. /\ StackOK(slots', types', n + 1) /\ Refs(slots', types') \subseteq P \cup {p}
    <3>1. StackOK(s, below, n + 1) /\ Fits(Encode("ref", p), "ref", n + 1) /\ "ref" # "long"
      BY <2>4, <2>6, <2>16, MoreObjects, EncodedFits
    <3>2. /\ StackOK(PushOperand(s, "ref", p), PushType(below, "ref"), n + 1)
          /\ Refs(PushOperand(s, "ref", p), PushType(below, "ref")) \subseteq Refs(s, below) \cup {p}
      BY <1>2, <2>4, <3>1, ValuePushed
    <3> QED BY <2>2, <2>3, <2>6, <3>2
  <2>18. Clean(Arrays(levels') \cup Refs(slots', types'), objects', epoch')
    <3>1. Arrays(levels') = {}
      BY <1>1 DEF Arrays
    <3> QED BY <2>1, <2>2, <2>15, <2>17, <3>1, CleanPart
  <2>19. LevelsOK(levels', objects')
    BY <1>1, NoLevels
  <2> QED BY <1>1, <2>1, <2>2, <2>7, <2>15, <2>17, <2>18, <2>19 DEF IInv, InstancesKept
<1> QED
  BY <1>4, <1>5

(* The operands a call passes begin at its receiver, and the last parameter is on top. *)
LEMMA LastParameter ==
  ASSUME IInv, NEW ts \in Seq(OperandType), Len(ts) > 0, Ready(ts)
  PROVE  /\ Len(types) + 1 - Slots(Last(ts)) \in 1..Len(types)
         /\ types[Len(types) + 1 - Slots(Last(ts))] = Last(ts)
         /\ Slots(Last(ts)) <= SlotsOf(ts) /\ SlotsOf(ts) \in Nat
<1> DEFINE L == Len(ts)
<1>1. L \in Nat /\ L \in 1..L /\ Last(ts) = ts[L] /\ Len(types) \in Nat
  BY Basics DEF Last
<1>2. SubSeq(ts, L + 1, L) = <<>>
  BY <1>1
<1>3. SlotsOf(SubSeq(ts, L, L)) = Slots(ts[L]) + 0
  BY <1>1, <1>2, SlotsOfRest, SlotsOfNone
<1>4. Slots(ts[L]) \in 1..2
  BY DEF Slots
<1>5. SlotsOf(SubSeq(ts, L, L)) <= SlotsOf(ts) /\ SlotsOf(ts) \in Nat
  <2>1. L \in 1..L + 1
    BY <1>1
  <2> QED BY <2>1, SlotsOfPart
<1>6. Len(types) >= SlotsOf(ts) /\ types[Len(types) + 1 - SlotsOf(SubSeq(ts, L, L))] = ts[L]
  BY <1>1 DEF Ready
<1> HIDE DEF L
<1>7. SlotsOf(SubSeq(ts, L, L)) = Slots(ts[L])
  BY <1>3, <1>4
<1> QED
  BY <1>1, <1>4, <1>5, <1>6, <1>7

LEMMA InvokeStep ==
  ASSUME IInv, NEW kind, NEW parameters \in Signatures, NEW collect \in BOOLEAN,
         Invoke(kind, parameters, collect)
  PROVE  IInv' /\ InstancesKept
<1> DEFINE n == Len(objects)
           ts == <<"ref">> \o parameters
           entry == ReceiverEntry(kind, parameters)
           receiver == Peek(entry)
           type == Last(parameters)
           s == Collected(collect, <<>>, {}).slots
           locals == PrepareCall(s, SlotsOf(ts))
           result == IF At(receiver).class \in Overriding THEN locals[Len(locals) + 1 - Slots(type)]
                     ELSE Encode(type, Default(Class(type, 0)))
           s2 == Dropped(s, ts) \o <<result>> \o (IF type = "long" THEN <<Unused>> ELSE <<>>)
           below == Dropped(types, ts)
           calls == types[Len(types) - entry] = "ref" /\ receiver # Null
<1>1. /\ Ready(ts) /\ levels = <<>> /\ UNCHANGED <<loaded, levels>> /\ loaded' \subseteq Known
  BY DEF Invoke, Ready, IInv
<1>2. /\ ts \in Seq(OperandType) /\ Len(ts) > 0 /\ Last(ts) = type
      /\ type \in {"int", "long", "ref"}
  <2>1. parameters \in Seq({"int", "long", "ref"}) /\ Len(parameters) > 0
    BY ClassesAssumption
  <2>2. parameters \in Seq(OperandType) /\ <<"ref">> \in Seq(OperandType) /\ Len(<<"ref">>) = 1
    BY <2>1 DEF OperandType
  <2>3. /\ ts \in Seq(OperandType) /\ Len(ts) = 1 + Len(parameters)
        /\ \A i \in 1..1 + Len(parameters) : ts[i] = IF i <= 1 THEN <<"ref">>[i] ELSE parameters[i - 1]
    <3> DEFINE a == <<"ref">>
    <3>1. a \in Seq(OperandType) /\ Len(a) = 1
      BY <2>2
    <3> HIDE DEF a
    <3>2. /\ a \o parameters \in Seq(OperandType) /\ Len(a \o parameters) = 1 + Len(parameters)
          /\ \A i \in 1..1 + Len(parameters) :
               (a \o parameters)[i] = IF i <= 1 THEN a[i] ELSE parameters[i - 1]
      <4>1. Joins(a \o parameters, a, parameters, OperandType)
        BY <2>2, <3>1, Concatenated
      <4> QED BY <3>1, <4>1 DEF Joins
    <3> QED BY <3>2 DEF a
  <2>4. ts[Len(ts)] = parameters[Len(parameters)]
    <3>1. Len(parameters) \in Nat /\ 1 + Len(parameters) \in 1..1 + Len(parameters)
      BY <2>1
    <3> HIDE DEF ts
    <3> QED BY <2>1, <2>3, <3>1
  <2>5. type \in {"int", "long", "ref"}
    BY <2>1 DEF Last
  <2>6. Len(ts) > 0
    <3>1. Len(parameters) \in Nat
      BY <2>1
    <3> HIDE DEF ts
    <3> QED BY <2>3, <3>1
  <2> QED BY <2>3, <2>4, <2>5, <2>6 DEF Last
<1> HIDE DEF ts
<1>3. CASE ~calls
  <2>1. slots' = <<>> /\ types' = <<>> /\ UNCHANGED <<objects, epoch>>
    BY <1>3 DEF Invoke, ThrowException, Undefined, ts
  <2>2. UNCHANGED <<objects, epoch, levels>>
    BY <1>1, <2>1
  <2> QED BY <1>1, <2>1, <2>2, ThrowStep
<1>4. CASE calls
  <2> DEFINE Q == {Moved(collect, p) : p \in Held(<<>>, {})}
  <2>1. /\ CountCollection(collect) /\ objects' = Collected(collect, <<>>, {}).objects
        /\ slots' = s2 /\ types' = PushType(below, type)
    BY <1>4 DEF Invoke, ts
  <2> HIDE DEF receiver
  <2>2. /\ CollectedRight(<<>>, collect, {}) /\ StackOK(s, types, n) /\ Refs(s, types) \subseteq Q
    <3>1. Ready(<<>>) /\ <<>> \in Seq(OperandType)
      <4>1. Len(types) >= SlotsOf(<<>>)
        BY Basics, SlotsOfNone
      <4> QED BY <1>1, <4>1 DEF Ready
    <3>2. /\ CollectedRight(<<>>, collect, {}) /\ StackOK(s, Dropped(types, <<>>), n)
          /\ Refs(s, Dropped(types, <<>>)) \subseteq Q
      BY <3>1, OperandsCollected
    <3> QED BY <3>2, NothingDropped
  <2> HIDE DEF s, Q
  <2>3. n \in Nat /\ Len(types) \in Nat
    BY Basics
  <2>4. /\ StackOK(Dropped(s, ts), below, n) /\ Refs(Dropped(s, ts), below) \subseteq Refs(s, types)
        /\ SlotsOf(ts) \in 0..Len(types) /\ Len(s) = Len(types) /\ s \in Seq(SlotValue)
    <3>1. /\ StackOK(Dropped(s, ts), below, n) /\ Refs(Dropped(s, ts), below) \subseteq Refs(s, types)
          /\ SlotsOf(ts) \in 0..Len(types) /\ Len(s) = Len(types)
      BY <1>1, <1>2, <2>2, <2>3, BelowOperands
    <3> QED BY <2>2, <3>1 DEF StackOK
  <2> DEFINE top == Len(types) + 1 - Slots(type)
  <2>5. top \in 1..Len(types) /\ types[top] = type /\ Slots(type) <= SlotsOf(ts) /\ Slots(type) \in 1..2
    <3>1. /\ top \in 1..Len(types) /\ types[top] = type /\ Slots(type) <= SlotsOf(ts)
      BY <1>1, <1>2, LastParameter
    <3> QED BY <3>1 DEF Slots
  <2>6. Fits(s[top], type, n) /\ (type = "ref" => s[top] \in Refs(s, types))
    <3>1. DOMAIN types = 1..Len(types)
      BY <2>2 DEF StackOK
    <3> QED BY <2>2, <2>5, <3>1 DEF StackOK, Refs, RefSlots
  <2>7. locals[Len(locals) + 1 - Slots(type)] = s[top]
    <3> DEFINE first == Len(s) + 1 - SlotsOf(ts)
    <3>1. first \in 1..Len(s) + 1 /\ Len(s) \in 0..Len(s) /\ first <= Len(s) + 1
      BY <2>3, <2>4
    <3>2. locals = SubSeq(s, first, Len(s))
      BY DEF PrepareCall
    <3> HIDE DEF locals
    <3>3. /\ Len(locals) = Len(s) - first + 1
          /\ \A i \in 1..Len(s) - first + 1 : locals[i] = s[first + i - 1]
      <4> HIDE DEF first
      <4> QED BY <2>4, <3>1, <3>2, PartOfList
    <3>4. Len(locals) = SlotsOf(ts)
      BY <2>3, <2>4, <3>3
    <3>5. /\ SlotsOf(ts) + 1 - Slots(type) \in 1..Len(s) - first + 1
          /\ first + (SlotsOf(ts) + 1 - Slots(type)) - 1 = top
      BY <2>3, <2>4, <2>5
    <3> HIDE DEF first, top
    <3> QED BY <3>3, <3>4, <3>5
  <2>8. Fits(result, type, n) /\ (type = "ref" => result \in {Null} \cup Refs(s, types))
    <3>1. Fits(Encode(type, Default(Class(type, 0))), type, n)
          /\ (type = "ref" => Encode(type, Default(Class(type, 0))) = Null)
      <4>1. CASE type = "ref"
        <5>1. Default(Class(type, 0)) = Null
          BY <4>1 DEF Default, IsPrimitive, Class, Primitives
        <5> QED BY <2>3, <4>1, <5>1, EncodedFits
      <4>2. CASE type \in {"int", "long"}
        <5>1. Default(Class(type, 0)) = 0
          BY <4>2 DEF Default, IsPrimitive, Class, Primitives
        <5> QED BY <2>3, <4>2, <5>1, EncodedFits
      <4> QED BY <1>2, <4>1, <4>2
    <3> HIDE DEF locals, top
    <3> QED BY <2>6, <2>7, <3>1
  <2> HIDE DEF result, top, below
  <2>9. /\ StackOK(s2, PushType(below, type), n)
        /\ Refs(s2, PushType(below, type))
             \subseteq Refs(Dropped(s, ts), below) \cup (IF type = "ref" THEN {result} ELSE {})
    <3>1. type \in OperandType
      BY <1>2 DEF OperandType
    <3> QED BY <2>3, <2>4, <2>8, <3>1, PatternPushed
  <2> HIDE DEF s2
  <2>10. Refs(slots', types') \subseteq {Null} \cup Q
    BY <2>1, <2>2, <2>4, <2>8, <2>9
  <2> QED BY <1>1, <2>1, <2>2, <2>9, <2>10, CollectStep DEF Q
<1> QED
  BY <1>3, <1>4

-----------------------------------------------------------------------------
(* System.arraycopy: what it copies are elements of one of the two arrays. *)

LEMMA ElementsCopied ==
  ASSUME NEW src, NEW dest, NEW V, NEW a \in Nat, NEW b \in Nat,
         At(src).elements \in [0..a - 1 -> V], At(dest).elements \in [0..b - 1 -> V],
         NEW srcPos \in Nat, NEW destPos \in Nat, NEW length \in Nat, srcPos + length <= a
  PROVE  CopyElements(src, dest, srcPos, destPos, length) \in [0..b - 1 -> V]
<1> DEFINE S == [0..b - 1 -> V]
           first == At(dest).elements
           from == At(src).elements
           Source(es) == IF src = dest THEN es ELSE from
           Next1(es, i) == [es EXCEPT ![destPos + i - 1] = Source(es)[srcPos + i - 1]]
           Def(g) == [i \in 0..length |-> IF i = 0 THEN first ELSE Next1(g[i - 1], i)]
<1>1. ASSUME NEW es \in S, NEW i \in 1..length PROVE Next1(es, i) \in S
  <2>1. srcPos + i - 1 \in 0..a - 1
    OBVIOUS
  <2>2. Source(es)[srcPos + i - 1] \in V
    <3>1. CASE src = dest
      <4>1. DOMAIN first = 0..a - 1 /\ DOMAIN first = 0..b - 1
        BY <3>1
      <4>2. srcPos + i - 1 \in 0..b - 1
        BY <2>1, <4>1
      <4> QED BY <3>1, <4>2
    <3>2. CASE src # dest
      BY <2>1, <3>2
    <3> QED BY <3>1, <3>2
  <2> HIDE DEF Source
  <2> QED BY <2>2
<1> DEFINE step == [i \in 1..length |-> [es \in S |-> Next1(es, i)]]
<1>2. Stays(step, length, S) /\ first \in S
  <2> HIDE DEF S, Next1
  <2>1. Stays(step, length, S)
    BY <1>1 DEF Stays
  <2> QED BY <2>1 DEF S
<1>3. \E g : g = Def(g)
  <2> HIDE DEF S
  <2>1. PICK g : Computed(g, length, S, first, step)
    <3> HIDE DEF step, first
    <3> QED BY <1>2, StepByStep
  <2>2. /\ g \in [0..length -> S] /\ g[0] = first
        /\ \A i \in 1..length : g[i - 1] \in S /\ g[i] = step[i][g[i - 1]]
    <3> HIDE DEF step, first
    <3> QED BY <2>1 DEF Computed
  <2> HIDE DEF Next1
  <2>3. \A i \in 1..length : g[i] = Next1(g[i - 1], i)
    BY <2>2
  <2>4. \A i \in 0..length : g[i] = IF i = 0 THEN first ELSE Next1(g[i - 1], i)
    BY <2>2, <2>3
  <2>5. g = Def(g)
    BY <2>2, <2>4
  <2> QED BY <2>5
<1> DEFINE copied == CHOOSE g : g = Def(g)
<1>4. CopyElements(src, dest, srcPos, destPos, length) = copied[length]
  BY DEF CopyElements
<1>5. copied = Def(copied)
  <2> HIDE DEF Def
  <2> QED BY <1>3
<1> HIDE DEF copied
<1>6. copied[0] = first /\ \A i \in 1..length : copied[i] = Next1(copied[i - 1], i)
  <2> HIDE DEF Next1, first
  <2>1. copied = [i \in 0..length |-> IF i = 0 THEN first ELSE Next1(copied[i - 1], i)]
    BY <1>5
  <2>2. copied[0] = first
    BY <2>1
  <2>3. ASSUME NEW i \in 1..length PROVE copied[i] = Next1(copied[i - 1], i)
    <3>1. i \in 0..length /\ i # 0
      OBVIOUS
    <3> QED BY <2>1, <3>1
  <2> QED BY <2>2, <2>3
<1> HIDE DEF S, Next1, first
<1> DEFINE T == {i \in 0..length : copied[i] \in S}
<1>7. 0 \in T
  BY <1>2, <1>6
<1>8. ASSUME NEW i \in 1..length, i - 1 \in T PROVE i \in T
  <2>1. copied[i - 1] \in S /\ i \in 0..length
    BY <1>8
  <2> QED BY <1>1, <1>6, <2>1
<1>9. \A i \in 0..length : i \in T
  <2> HIDE DEF T
  <2>1. \A i \in 1..length : i - 1 \in T => i \in T
    BY <1>8
  <2> QED BY <1>7, <2>1, UpTo
<1>10. copied[length] \in S
  BY <1>9
<1> QED
  BY <1>4, <1>10 DEF S

LEMMA ElementsMoved ==
  ASSUME NEW src, NEW dest, NEW V, NEW a \in Nat, NEW b \in Nat,
         At(src).elements \in [0..a - 1 -> V], At(dest).elements \in [0..b - 1 -> V],
         NEW srcPos \in Nat, NEW destPos \in Nat, NEW length \in Nat, srcPos + length <= a
  PROVE  MoveElements(src, dest, srcPos, destPos, length) \in [0..b - 1 -> V]
<1> DEFINE from == At(src).elements
           to == At(dest).elements
<1>1. from \in [0..a - 1 -> V] /\ to \in [0..b - 1 -> V] /\ DOMAIN to = 0..b - 1
  OBVIOUS
<1>2. MoveElements(src, dest, srcPos, destPos, length) =
        [k \in 0..b - 1 |-> IF k \in destPos..destPos + length - 1 THEN from[srcPos + k - destPos] ELSE to[k]]
  BY <1>1 DEF MoveElements
<1> HIDE DEF from, to
<1>3. ASSUME NEW k \in 0..b - 1
      PROVE  (IF k \in destPos..destPos + length - 1 THEN from[srcPos + k - destPos] ELSE to[k]) \in V
  <2>1. CASE k \in destPos..destPos + length - 1
    <3>1. srcPos + k - destPos \in 0..a - 1
      BY <2>1
    <3> QED BY <1>1, <2>1, <3>1
  <2>2. CASE k \notin destPos..destPos + length - 1
    BY <1>1, <2>2
  <2> QED BY <2>1, <2>2
<1> QED
  BY <1>2, <1>3

(* Elements an object may be given, and what is so once it has them. *)
Suitable(objs, k, es, P) ==
  /\ es = [i \in DOMAIN objs[k].elements |-> es[i]]
  /\ \A i \in DOMAIN objs[k].elements : Holds(es[i], PlaceClass(objs[k].class, i), Len(objs))
  /\ \A i \in RefPlaces(objs[k]) : es[i] \in {Null} \cup P \cup References(objs[k])

AllInstances(objs, k, es) ==
  \A i \in RefPlaces(objs[k]) : es[i] # Null =>
    IsInstanceOf(objs[es[i].id].class, PlaceClass(objs[k].class, i))

LEMMA SuitableWritten ==
  ASSUME NEW objs, NEW e, HeapOK(objs, e), NEW k \in 1..Len(objs), NEW P, Clean(P, objs, e),
         NEW es, Suitable(objs, k, es, P)
  PROVE  /\ WrittenRight(objs, [objs EXCEPT ![k].elements = es], e, P)
         /\ Instances(objs) /\ AllInstances(objs, k, es) => Instances([objs EXCEPT ![k].elements = es])
<1> DEFINE new == [objs EXCEPT ![k].elements = es]
<1>2. es = [i \in DOMAIN objs[k].elements |-> es[i]]
  BY DEF Suitable
<1>3. /\ \A i \in DOMAIN objs[k].elements : Holds(es[i], PlaceClass(objs[k].class, i), Len(objs))
      /\ \A i \in RefPlaces(objs[k]) : es[i] \in {Null} \cup P \cup References(objs[k])
  BY DEF Suitable
<1>4. /\ HeapOK(new, e) /\ Len(new) = Len(objs) /\ Clean(P, new, e)
      /\ \A m \in 1..Len(objs) : /\ new[m].class = objs[m].class
                                 /\ DOMAIN new[m].elements = DOMAIN objs[m].elements
      /\ /\ Instances(objs)
         /\ \A i \in RefPlaces(objs[k]) : es[i] # Null =>
              IsInstanceOf(objs[es[i].id].class, PlaceClass(objs[k].class, i))
         => Instances(new)
  BY <1>2, <1>3, ObjectWritten
<1>1. /\ HeapOK(new, e) /\ Len(new) = Len(objs) /\ Clean(P, new, e)
      /\ \A m \in 1..Len(objs) : new[m].class = objs[m].class
      /\ Instances(objs) /\ AllInstances(objs, k, es) => Instances(new)
  <2> HIDE DEF new
  <2> QED BY <1>4 DEF AllInstances
<1> HIDE DEF new
<1> QED
  BY <1>1 DEF WrittenRight, new

(* An array whose elements were replaced by elements of its own and of another. *)
LEMMA ElementsReplaced ==
  ASSUME IInv, NEW src \in Pointers(Len(objects)), NEW dest \in Pointers(Len(objects)),
         src \in Refs(slots, types), src # Null,
         At(src).class.dims > 0, At(dest).class.dims > 0,
         \/ ElementOf(src) = ElementOf(dest)
         \/ ~IsPrimitive(ElementOf(src)) /\ ~IsPrimitive(ElementOf(dest)),
         NEW es, es \in [0..LengthOf(dest) - 1 ->
                           {At(src).elements[i] : i \in 0..LengthOf(src) - 1}
                             \cup {At(dest).elements[i] : i \in 0..LengthOf(dest) - 1}]
  PROVE  LET new == [objects EXCEPT ![dest.id].elements = es]
         IN  /\ WrittenRight(objects, new, epoch, Arrays(levels) \cup Refs(slots, types))
             /\ /\ Instances(objects)
                /\ IsPrimitive(ElementOf(src)) \/ \A p \in References(At(src)) : MayHold(dest, p)
                => Instances(new)
<1> DEFINE n == Len(objects)
           k == dest.id
           new == [objects EXCEPT ![k].elements = es]
           Old == Arrays(levels) \cup Refs(slots, types)
           P == Old \cup References(objects[src.id])
           from == At(src).elements
           to == At(dest).elements
           a == LengthOf(src)
           b == LengthOf(dest)
           c == ElementOf(dest)
<1>1. /\ k \in 1..n /\ Shaped(At(dest), n) /\ At(dest) = objects[k]
      /\ b \in Nat /\ DOMAIN to = 0..b - 1 /\ \A i : PlaceClass(At(dest).class, i) = c
  BY PointedTo
<1>2. /\ src.id \in 1..n /\ Shaped(At(src), n) /\ At(src) = objects[src.id]
      /\ a \in Nat /\ DOMAIN from = 0..a - 1 /\ \A i : PlaceClass(At(src).class, i) = ElementOf(src)
  BY PointedTo
<1>3. HeapOK(objects, epoch) /\ Clean(P, objects, epoch) /\ n \in Nat
  <2>1. Clean(Old, objects, epoch) /\ src \in Old /\ HeapOK(objects, epoch) /\ n \in Nat
    BY Basics DEF IInv
  <2> HIDE DEF Old
  <2> QED BY <2>1, CleanMore
<1>4. ASSUME NEW i \in 0..a - 1
      PROVE  /\ Holds(from[i], ElementOf(src), n)
             /\ ~IsPrimitive(ElementOf(src)) => from[i] \in {Null} \cup References(At(src))
  <2>1. Holds(from[i], ElementOf(src), n)
    BY <1>2 DEF Shaped
  <2>2. ~IsPrimitive(ElementOf(src)) => i \in RefPlaces(At(src))
    BY <1>2 DEF RefPlaces
  <2> QED BY <2>1, <2>2 DEF References
<1>5. ASSUME NEW i \in 0..b - 1
      PROVE  /\ Holds(to[i], c, n)
             /\ ~IsPrimitive(c) => to[i] \in {Null} \cup References(At(dest)) /\ i \in RefPlaces(At(dest))
  <2>1. Holds(to[i], c, n)
    BY <1>1 DEF Shaped
  <2>2. ~IsPrimitive(c) => i \in RefPlaces(At(dest))
    BY <1>1 DEF RefPlaces
  <2> QED BY <2>1, <2>2 DEF References
<1>6. \A i \in 0..b - 1 : (\E j \in 0..a - 1 : es[i] = from[j]) \/ (\E j \in 0..b - 1 : es[i] = to[j])
  <2> HIDE DEF from, to, a, b
  <2> SUFFICES ASSUME NEW i \in 0..b - 1
               PROVE  (\E j \in 0..a - 1 : es[i] = from[j]) \/ (\E j \in 0..b - 1 : es[i] = to[j])
    OBVIOUS
  <2>1. es[i] \in {from[j] : j \in 0..a - 1} \cup {to[j] : j \in 0..b - 1}
    BY DEF from, to, a, b
  <2> QED BY <2>1
<1> HIDE DEF from, to, a, b, c
<1>7. ASSUME NEW i \in 0..b - 1
      PROVE  /\ Holds(es[i], c, n)
             /\ ~IsPrimitive(c) => es[i] \in {Null} \cup References(At(src)) \cup References(At(dest))
  <2>1. CASE \E j \in 0..a - 1 : es[i] = from[j]
    <3>1. PICK j \in 0..a - 1 : es[i] = from[j]
      BY <2>1
    <3>2. /\ Holds(es[i], ElementOf(src), n)
          /\ ~IsPrimitive(ElementOf(src)) => es[i] \in {Null} \cup References(At(src))
      BY <1>4, <3>1
    <3> QED BY <3>2 DEF Holds, c
  <2>2. CASE \E j \in 0..b - 1 : es[i] = to[j]
    <3>1. PICK j \in 0..b - 1 : es[i] = to[j]
      BY <2>2
    <3> QED BY <1>5, <3>1
  <2> QED BY <1>6, <2>1, <2>2
<1>8. /\ DOMAIN objects[k].elements = 0..b - 1
      /\ \A i \in RefPlaces(objects[k]) : i \in 0..b - 1 /\ ~IsPrimitive(c)
      /\ \A i : PlaceClass(objects[k].class, i) = c
  <2>1. DOMAIN At(dest).elements = 0..b - 1 /\ \A i : PlaceClass(At(dest).class, i) = c
    BY <1>1 DEF to, b, c
  <2> QED BY <1>1, <2>1 DEF RefPlaces
<1>9. es = [i \in DOMAIN objects[k].elements |-> es[i]]
  <2>1. es \in [0..b - 1 -> {At(src).elements[i] : i \in 0..LengthOf(src) - 1}
                             \cup {At(dest).elements[i] : i \in 0..LengthOf(dest) - 1}]
    BY DEF b
  <2>2. es = [i \in 0..b - 1 |-> es[i]]
    BY <2>1
  <2> QED BY <1>8, <2>2
<1>10. \A i \in DOMAIN objects[k].elements : Holds(es[i], PlaceClass(objects[k].class, i), n)
  BY <1>7, <1>8
<1>11. \A i \in RefPlaces(objects[k]) : es[i] \in {Null} \cup P \cup References(objects[k])
  <2>1. References(At(src)) \subseteq P /\ References(At(dest)) = References(objects[k])
    BY <1>1, <1>2
  <2> HIDE DEF P
  <2> QED BY <1>7, <1>8, <2>1
<1> HIDE DEF P, k
<1>12. /\ WrittenRight(objects, new, epoch, P)
       /\ Instances(objects) /\ AllInstances(objects, k, es) => Instances(new)
  <2>1. Suitable(objects, k, es, P) /\ k \in 1..Len(objects)
    BY <1>1, <1>9, <1>10, <1>11 DEF Suitable
  <2> QED BY <1>3, <2>1, SuitableWritten
<1>13. WrittenRight(objects, new, epoch, Old)
  <2>1. Clean(Old, new, epoch)
    <3>1. Old \subseteq P
      BY DEF P
    <3>2. Clean(P, new, epoch)
      BY <1>12 DEF WrittenRight
    <3> HIDE DEF new, Old
    <3> QED BY <3>1, <3>2, CleanPart
  <2> HIDE DEF new, Old
  <2> QED BY <1>12, <2>1 DEF WrittenRight
<1>14. ASSUME Instances(objects),
              IsPrimitive(ElementOf(src)) \/ \A p \in References(At(src)) : MayHold(dest, p)
       PROVE  Instances(new)
  <2>1. ASSUME NEW i \in RefPlaces(objects[k]), es[i] # Null
        PROVE  IsInstanceOf(objects[es[i].id].class, PlaceClass(objects[k].class, i))
    <3>1. i \in 0..b - 1 /\ ~IsPrimitive(c) /\ PlaceClass(objects[k].class, i) = c
      BY <1>8, <2>1
    <3>2. CASE \E j \in 0..a - 1 : es[i] = from[j]
      <4>1. PICK j \in 0..a - 1 : es[i] = from[j]
        BY <3>2
      <4>2. ~IsPrimitive(ElementOf(src))
        BY <3>1 DEF c
      <4>3. es[i] \in References(At(src))
        BY <1>4, <2>1, <4>1, <4>2
      <4>4. MayHold(dest, es[i])
        BY <1>14, <4>2, <4>3
      <4> QED BY <2>1, <3>1, <4>4 DEF MayHold, At, c
    <3>3. CASE \E j \in 0..b - 1 : es[i] = to[j]
      <4>1. PICK j \in 0..b - 1 : es[i] = to[j]
        BY <3>3
      <4>2. j \in RefPlaces(objects[k]) /\ to[j] = objects[k].elements[j]
        BY <1>1, <1>5, <3>1, <4>1 DEF to
      <4>3. k \in DOMAIN objects
        BY <1>1, Basics
      <4>4. IsInstanceOf(objects[to[j].id].class, PlaceClass(objects[k].class, j))
        BY <1>14, <2>1, <4>1, <4>2, <4>3 DEF Instances
      <4> QED BY <1>8, <3>1, <4>1, <4>4
    <3> QED BY <1>6, <3>1, <3>2, <3>3
  <2> HIDE DEF new
  <2>2. AllInstances(objects, k, es)
    BY <2>1 DEF AllInstances
  <2> QED BY <1>12, <1>14, <2>2
<1> QED
  BY <1>13, <1>14 DEF k

LEMMA ArrayCopyStep ==
  ASSUME IInv, NEW srcPos \in Positions, NEW destPos \in Positions, NEW length \in Positions,
         ArrayCopy(srcPos, destPos, length)
  PROVE  IInv' /\ ("copy store" \notin Cases => InstancesKept)
<1> DEFINE n == Len(objects)
           ts == <<"ref", "ref">>
           src == Operand(ts, 1)
           dest == Operand(ts, 2)
           Outside == \/ srcPos < 0 \/ destPos < 0
                      \/ Sum(srcPos, length) > LengthOf(src) \/ Sum(destPos, length) > LengthOf(dest)
                      \/ length < 0
           Overflow == \E p \in {srcPos, destPos} : p + length # Sum(p, length)
           SameKind == \/ ElementOf(src) = ElementOf(dest)
                       \/ ~IsPrimitive(ElementOf(src)) /\ ~IsPrimitive(ElementOf(dest))
           Fitting == IsPrimitive(ElementOf(src)) \/ \A p \in References(At(src)) : MayHold(dest, p)
           stops == \/ Null \in {src, dest} \/ At(src).class.dims = 0 \/ At(dest).class.dims = 0
                    \/ Outside \/ Overflow \/ ~SameKind \/ ElementOf(src).dims > 0
           es == IF IsPrimitive(ElementOf(src)) THEN MoveElements(src, dest, srcPos, destPos, length)
                 ELSE CopyElements(src, dest, srcPos, destPos, length)
           new == [objects EXCEPT ![dest.id].elements = es]
<1>1. Ready(ts) /\ UNCHANGED <<epoch, loaded, levels>>
  BY DEF ArrayCopy
<1>2. "ref" \in OperandType /\ ts \in Seq(OperandType)
  BY DEF OperandType
<1>3. Typed(src, "ref") /\ Typed(dest, "ref")
  BY <1>1, <1>2, TwoOperands
<1>4. CASE stops
  <2>1. slots' = <<>> /\ types' = <<>> /\ UNCHANGED objects
    BY <1>4 DEF ArrayCopy, CopyArray, ThrowException, Undefined
  <2>2. UNCHANGED <<objects, epoch, levels>> /\ loaded' \subseteq Known
    BY <1>1, <2>1 DEF IInv
  <2> QED BY <2>1, <2>2, ThrowStep
<1>5. CASE ~stops
  <2>1. Pop(ts) /\ objects' = new /\ (Fitting \/ "copy store" \in Cases)
    BY <1>5 DEF ArrayCopy, CopyArray
  <2>2. /\ ~(Null \in {src, dest}) /\ At(src).class.dims # 0 /\ At(dest).class.dims # 0
        /\ ~Outside /\ ~Overflow /\ SameKind
    BY <1>5
  <2> HIDE DEF stops, ts, src, dest, es, new
  <2>3. src \in Pointers(n) /\ dest \in Pointers(n) /\ src \in Refs(slots, types) /\ src # Null
    BY <1>3, <2>2 DEF Typed
  <2>4. At(src).class.dims > 0 /\ At(dest).class.dims > 0
    BY <2>2, <2>3, PointedTo
  <2> DEFINE a == LengthOf(src)
             b == LengthOf(dest)
             V == {At(src).elements[i] : i \in 0..a - 1} \cup {At(dest).elements[i] : i \in 0..b - 1}
  <2>5. /\ a \in Nat /\ b \in Nat /\ DOMAIN At(src).elements = 0..a - 1
        /\ DOMAIN At(dest).elements = 0..b - 1
    BY <2>3, <2>4, PointedTo
  <2>6. At(src).elements \in [0..a - 1 -> V] /\ At(dest).elements \in [0..b - 1 -> V]
    <3>1. Len(objects) \in Nat /\ Shaped(At(src), n) /\ Shaped(At(dest), n)
      BY <2>3, PointedTo, Basics
    <3>2. /\ At(src).elements = [i \in DOMAIN At(src).elements |-> At(src).elements[i]]
          /\ At(dest).elements = [i \in DOMAIN At(dest).elements |-> At(dest).elements[i]]
      BY <3>1, RecordFacts
    <3> QED BY <2>5, <3>2
  <2>7. srcPos \in Nat /\ destPos \in Nat /\ length \in Nat /\ srcPos + length <= a
    <3>1. srcPos \in Int /\ destPos \in Int /\ length \in Int
      BY ValuesAssumption
    <3>2. Sum(srcPos, length) = srcPos + length
      BY <2>2
    <3> QED BY <2>2, <2>5, <3>1, <3>2
  <2>8. es \in [0..b - 1 -> V]
    <3> HIDE DEF a, b, V
    <3>1. MoveElements(src, dest, srcPos, destPos, length) \in [0..b - 1 -> V]
      BY <2>5, <2>6, <2>7, ElementsMoved
    <3>2. CopyElements(src, dest, srcPos, destPos, length) \in [0..b - 1 -> V]
      BY <2>5, <2>6, <2>7, ElementsCopied
    <3> QED BY <3>1, <3>2 DEF es
  <2>9. /\ WrittenRight(objects, new, epoch, Arrays(levels) \cup Refs(slots, types))
        /\ Instances(objects) /\ Fitting => Instances(new)
    BY <2>2, <2>3, <2>4, <2>8, ElementsReplaced DEF new
  <2>10. IInv'
    BY <1>1, <1>2, <2>1, <2>9, WriteStep
  <2>11. "copy store" \notin Cases => InstancesKept
    BY <2>1, <2>9 DEF InstancesKept
  <2> QED BY <2>10, <2>11
<1> QED
  BY <1>4, <1>5

-----------------------------------------------------------------------------
(* The invariant holds at first, and every instruction keeps it. *)

LEMMA InitHolds ==
  ASSUME Init
  PROVE  IInv /\ Instances(objects)
<1>1. slots = <<>> /\ types = <<>> /\ objects = <<>> /\ epoch = 0 /\ loaded = LoadedAtStart /\ levels = <<>>
  BY DEF Init
<1>2. objects \in Seq(ObjectRecord) /\ Len(objects) = 0 /\ DOMAIN objects = {}
  BY <1>1
<1>3. HeapOK(objects, epoch) /\ Instances(objects)
  BY <1>1, <1>2 DEF HeapOK, Instances
<1>4. StackOK(slots, types, Len(objects)) /\ Refs(slots, types) = {} /\ Arrays(levels) = {}
  BY <1>1, <1>2, EmptyStack DEF Arrays
<1>5. Clean(Arrays(levels) \cup Refs(slots, types), objects, epoch)
  BY <1>4 DEF Clean, CleanIn
<1>6. loaded \subseteq Known
  BY <1>1, ClassesAssumption DEF Known
<1> QED
  BY <1>1, <1>3, <1>4, <1>5, <1>6, NoLevels DEF IInv

LEMMA CalculateStep ==
  ASSUME IInv, Calculate
  PROVE  IInv' /\ InstancesKept
<1>1. ASSUME NEW op \in DOMAIN Shuffles, MoveOperands(op)
      PROVE  IInv' /\ InstancesKept
  BY <1>1, MoveOperandsStep
<1>2. ASSUME NEW type \in {"int", "long"},
             \/ \E op \in {"add", "sub", "mul"} : SimpleOp(op, type)
             \/ Divide(type, "div") \/ Divide(type, "rem") \/ Neg(type)
             \/ \E kind \in {"shl", "shr", "ushr"} : Shift(type, kind)
             \/ CastFloat(type)
      PROVE  IInv' /\ InstancesKept
  BY <1>2, SimpleOpStep, DivideStep, NegStep, ShiftStep, CastFloatStep
<1>3. ASSUME \/ Compare("long", 1) \/ \E n \in {-1, 1} : Compare("float", n)
             \/ Cast("long", "int") \/ \E to \in {"long", "byte", "char"} : Cast("int", to)
      PROVE  IInv' /\ InstancesKept
  <2>1. 1 \in Int /\ -1 \in Int
    OBVIOUS
  <2> QED BY <1>3, <2>1, CompareStep, CastStep
<1> QED
  BY <1>1, <1>2, <1>3 DEF Calculate

(* What is so after an instruction, the copying of an array among them. *)
AllKept == IInv' /\ ("copy store" \notin Cases => InstancesKept)

LEMMA UseArraysStep ==
  ASSUME IInv, UseArrays
  PROVE  AllKept
<1>1. ASSUME NEW collect \in BOOLEAN, NEW class \in Classes,
             \/ NewObject(class, collect) \/ NewArray(class, collect)
             \/ \E n \in 1..class.dims : NewMultiArray(class, n, collect)
             \/ CheckCast(class, collect) \/ InstanceOf(class, collect)
      PROVE  AllKept
  BY <1>1, NewObjectStep, NewArrayStep, NewMultiArrayStep, CheckCastStep, InstanceOfStep DEF AllKept
<1>2. ASSUME NEW collect \in BOOLEAN, MakeInnerArray(collect) \/ Clone(collect)
      PROVE  AllKept
  BY <1>2, MakeInnerArrayStep, CloneStep DEF AllKept
<1>3. ASSUME FinishInnerArray \/ ArrayLengthOf
      PROVE  AllKept
  BY <1>3, FinishInnerArrayStep, ArrayLengthStep DEF AllKept
<1>4. ASSUME NEW type \in {"int", "long", "ref"}, ArrayLoad(type) \/ ArrayStore(type)
      PROVE  AllKept
  BY <1>4, ArrayLoadStep, ArrayStoreStep DEF AllKept
<1>5. ASSUME NEW srcPos \in Positions, NEW destPos \in Positions, NEW length \in Positions,
             ArrayCopy(srcPos, destPos, length)
      PROVE  AllKept
  BY <1>5, ArrayCopyStep DEF AllKept
<1> QED
  BY <1>1, <1>2, <1>3, <1>4, <1>5 DEF UseArrays

LEMMA UseObjectsStep ==
  ASSUME IInv, UseObjects
  PROVE  IInv' /\ InstancesKept
<1>1. ASSUME NEW class \in Classes, NEW k \in Places(class, 0),
             \/ GetField(class, k) \/ PutField(class, k)
             \/ ~IsPrimitive(PlaceClass(class, k)) /\ RefersTo(class, k)
      PROVE  IInv' /\ InstancesKept
  BY <1>1, GetFieldStep, PutFieldStep, RefersToStep
<1>2. ASSUME NEW collect \in BOOLEAN,
             \/ \E kind \in {"virtual", "interface"}, parameters \in Signatures :
                  Invoke(kind, parameters, collect)
             \/ \E class \in Classes : InvokeNative(class, collect)
      PROVE  IInv' /\ InstancesKept
  BY <1>2, InvokeStep, InvokeNativeStep
<1> QED
  BY <1>1, <1>2 DEF UseObjects

LEMMA NextStep ==
  ASSUME IInv, [Next]_vars
  PROVE  AllKept
<1>1. ASSUME Constant("int", Ints) \/ Constant("long", Longs) \/ Constant("float", Floats)
               \/ Constant("ref", {Null})
      PROVE  IInv' /\ InstancesKept
  <2>1. {"int", "long", "float", "ref"} \subseteq OperandType
    BY DEF OperandType
  <2>2. Ints \subseteq Int /\ Longs \subseteq Int
    BY ValuesAssumption
  <2> QED BY <1>1, <2>1, <2>2, ConstantStep
<1>2. ASSUME UNCHANGED vars
      PROVE  IInv' /\ InstancesKept
  BY <1>2 DEF vars, IInv, InstancesKept
<1> QED
  BY <1>1, <1>2, CalculateStep, UseArraysStep, UseObjectsStep DEF Next, AllKept

LEMMA IInvHolds == Spec => []IInv
<1>1. Init => IInv
  BY InitHolds
<1>2. IInv /\ [Next]_vars => IInv'
  BY NextStep DEF AllKept
<1> QED
  BY <1>1, <1>2, PTL DEF Spec

-----------------------------------------------------------------------------

LEMMA TypesFollow ==
  ASSUME IInv
  PROVE  InstructionsTypeOK
<1>1. /\ Len(slots) = Len(types) /\ Whole(types) /\ types \in Seq(SlotType)
      /\ DOMAIN types = 1..Len(types) /\ DOMAIN objects = 1..Len(objects)
      /\ \A i \in 1..Len(types) : types[i] \in SlotType /\ Fits(slots[i], types[i], Len(objects))
  BY Basics DEF IInv, StackOK
<1>2. ASSUME NEW i \in DOMAIN types
      PROVE  CASE types[i] \in Primitives -> slots[i] \in 0..2 ^ Width[types[i]] - 1
               [] types[i] = "float" -> slots[i] \in Floats
               [] types[i] = "ref" -> slots[i] = Null \/ slots[i].id \in DOMAIN objects
               [] types[i] = "half" -> slots[i] = Unused
  <2>1. types[i] \in SlotType /\ Fits(slots[i], types[i], Len(objects))
    BY <1>1
  <2>2. CASE types[i] \in {"int", "long"}
    BY <2>1, <2>2 DEF Fits, Primitives
  <2>3. CASE types[i] = "float"
    BY <2>1, <2>3 DEF Fits, Primitives
  <2>4. CASE types[i] = "ref"
    BY <1>1, <2>1, <2>4 DEF Fits, Primitives, Pointers
  <2>5. CASE types[i] = "half"
    BY <2>1, <2>5 DEF Fits, Primitives
  <2> QED BY <2>1, <2>2, <2>3, <2>4, <2>5 DEF SlotType, OperandType
<1>3. \A k \in DOMAIN objects : objects[k].region \in 0..epoch
  BY <1>1 DEF IInv, HeapOK
<1> QED
  BY <1>1, <1>2, <1>3 DEF InstructionsTypeOK, IInv, Known

LEMMA PointersFollow ==
  ASSUME IInv
  PROVE  OnlyCurrentPointers
<1> DEFINE held == {slots[i] : i \in RefSlots(types)} \cup {levels[i].array : i \in DOMAIN levels}
<1>1. PICK S : CleanIn(S, held, objects, epoch)
  BY DEF IInv, Clean, Arrays, Refs
<1> HIDE DEF held
<1>2. S \in SUBSET DOMAIN objects
  BY <1>1 DEF CleanIn
<1>3. KeepsReachable(S, held)
  <2>1. Targets(held) \subseteq S
    BY <1>1 DEF CleanIn, Targets
  <2>2. \A k \in S : Targets(References(objects[k])) \subseteq S
    BY <1>1 DEF CleanIn, Targets
  <2> QED BY <2>1, <2>2 DEF KeepsReachable
<1>4. Targets(held) \subseteq DOMAIN objects
  BY <1>2, <1>3 DEF KeepsReachable
<1>5. \A k \in DOMAIN objects : Targets(References(objects[k])) \subseteq DOMAIN objects
  <2>1. ASSUME NEW k \in DOMAIN objects
        PROVE  References(objects[k]) \subseteq Pointers(Len(objects))
    BY Basics, ReferenceFacts
  <2> QED BY <2>1, Basics DEF Targets, Pointers
<1>6. Reachable(held) \subseteq S
  BY <1>2, <1>3, <1>4, <1>5, ReachableFacts
<1>7. \A p \in held \ {Null} : p.region = epoch
  BY <1>1 DEF CleanIn
<1>8. \A k \in Reachable(held) :
        objects[k].region = epoch /\ \A p \in References(objects[k]) : p.region = epoch
  BY <1>1, <1>6 DEF CleanIn
<1> QED
  BY <1>7, <1>8 DEF OnlyCurrentPointers, held

(* Whatever is on the operand stack has the type it is used as: a verified method's        *)
(* instructions never take half of a long or the bits of a number for a reference         *)
(* (CallFrame, Interpreter).                                                               *)
THEOREM TypesAreRight == Spec => []InstructionsTypeOK
<1>1. IInv => InstructionsTypeOK
  BY TypesFollow
<1> QED
  BY <1>1, IInvHolds, PTL

(* No instruction and no native method leaves an address from before a collection behind:  *)
(* operands, the arrays multianewarray is filling and whatever they lead to are where the  *)
(* last collection put them. A checkcast that collects uses one, which is undefined and    *)
(* ends the method here (CheckCast).                                                       *)
THEOREM PointersAreCurrent == Spec => []OnlyCurrentPointers
<1>1. IInv => OnlyCurrentPointers
  BY PointersFollow
<1> QED
  BY <1>1, IInvHolds, PTL

(* Arrays and fields hold instances of their class only, as long as System.arraycopy is    *)
(* not given an element that the target may not hold: that is the one place where nothing  *)
(* is checked.                                                                             *)
THEOREM PlacesHoldInstances ==
  ASSUME "copy store" \notin Cases
  PROVE  Spec => []ElementsAreInstances
<1> DEFINE Inv == IInv /\ Instances(objects)
<1>1. Init => Inv
  BY InitHolds
<1>2. Inv /\ [Next]_vars => Inv'
  BY NextStep DEF AllKept, InstancesKept
<1>3. Inv => ElementsAreInstances
  BY DEF Instances, ElementsAreInstances, At
<1> QED
  BY <1>1, <1>2, <1>3, PTL DEF Spec
=============================================================================
