------------------------- MODULE ClassLinkingProofs -------------------------
(***************************************************************************)
(* Proofs about class loading, for every class path, hierarchy and order   *)
(* of requests.  All of them rest on one relation between the table of     *)
(* classes and the C++ stack: the unprepared classes of the table are      *)
(* exactly those that some call of prepare() on the stack is busy with,    *)
(* each in one call only (IInv).  LinkInv adds how far each call has come  *)
(* and that each waits for the class of the next one; with it, a class     *)
(* that is found unprepared would be its own supertype.  LayoutInv says    *)
(* where the fields lie, once prepare() has laid a class out, and that the *)
(* second layout of java.lang.Class changes nothing.                       *)
(***************************************************************************)
EXTENDS ClassLinking, FiniteSetTheorems, NumberInduction, TLAPS

OnStack(n) == \E i \in DOMAIN preparing : preparing[i].class = n

Busy == phase \in {"Boot", "Running"}

(* The table and the stack are what the steps take them for. *)
Shapes ==
  /\ phase \in {"Start", "Boot", "Running", "Panicked", "Undefined"}
  /\ mClasses = [n \in DOMAIN mClasses |-> mClasses[n]]
  /\ \A n \in DOMAIN mClasses : "status" \in DOMAIN mClasses[n]
  /\ preparing \in Seq([class : DOMAIN mClasses, done : Nat])
  /\ answer \in [name : {answer.name}, outcome : {"Pending", "Class", "Error"}]

(* Who is not prepared is being prepared. *)
UnpreparedAreOnStack ==
  \A n \in DOMAIN mClasses :
    mClasses[n].status # "Prepared" <=> OnStack(n)

(* How far the VM has come, and what the last request is waiting for. *)
Progress ==
  /\ phase = "Start" => mClasses = <<>> /\ preparing = <<>>
  /\ Busy => JavaLangClass \in DOMAIN mClasses

RequestIsServed ==
  /\ answer.outcome = "Class" => answer.name \in Prepared
  /\ Busy /\ preparing = <<>> =>
       /\ answer.outcome # "Pending"
       /\ answer.outcome = "Error" => answer.name \notin DOMAIN mClasses
  /\ Busy /\ preparing # <<>> =>
       /\ answer.outcome = "Pending"
       /\ answer.name = preparing[1].class

IInv ==
  /\ Shapes
  /\ UnpreparedAreOnStack
  /\ NoCircularPreparation
  /\ Progress
  /\ RequestIsServed

(* The table only grows, and a prepared class is left as it is. *)
Extends ==
  /\ DOMAIN mClasses \subseteq DOMAIN mClasses'
  /\ \A n \in Prepared : mClasses'[n] = mClasses[n]

-----------------------------------------------------------------------------
(* Sequences used as stacks. *)

LEMMA PushFacts ==
  ASSUME NEW S, NEW T, S \subseteq T, NEW s \in Seq(S), NEW e \in T
  PROVE  /\ Append(s, e) \in Seq(T)
         /\ DOMAIN Append(s, e) = DOMAIN s \cup {Len(s) + 1}
         /\ Len(s) \in Nat /\ Len(s) + 1 \notin DOMAIN s
         /\ \A i \in DOMAIN s : Append(s, e)[i] = s[i]
         /\ Append(s, e)[Len(s) + 1] = e
OBVIOUS

LEMMA TopFacts ==
  ASSUME NEW S, NEW s \in Seq(S), s # <<>>
  PROVE  /\ Len(s) \in Nat \ {0}
         /\ DOMAIN s = 1 .. Len(s)
         /\ \A i \in DOMAIN s : s[i] \in S
         /\ Last(s) = s[Len(s)] /\ Last(s) \in S
<1>1. /\ Len(s) \in Nat \ {0}
      /\ DOMAIN s = 1 .. Len(s)
      /\ \A i \in DOMAIN s : s[i] \in S
  OBVIOUS
<1> QED
  BY <1>1 DEF Last

LEMMA PopFacts ==
  ASSUME NEW S, NEW s \in Seq(S), s # <<>>
  PROVE  /\ Front(s) \in Seq(S)
         /\ DOMAIN Front(s) = DOMAIN s \ {Len(s)}
         /\ \A i \in DOMAIN Front(s) : Front(s)[i] = s[i]
<1>1. Len(s) \in Nat \ {0} /\ DOMAIN s = 1 .. Len(s)
  OBVIOUS
<1>2. /\ Front(s) \in Seq(S)
      /\ Len(Front(s)) = Len(s) - 1
      /\ \A i \in 1 .. Len(s) - 1 : Front(s)[i] = s[i]
  BY <1>1 DEF Front
<1>3. DOMAIN Front(s) = 1 .. Len(s) - 1
  BY <1>1, <1>2
<1> QED
  BY <1>1, <1>2, <1>3

LEMMA PopEmpties ==
  ASSUME NEW S, NEW s \in Seq(S), s # <<>>
  PROVE  Front(s) = <<>> <=> Len(s) = 1
<1>1. Len(s) \in Nat \ {0} /\ DOMAIN s = 1 .. Len(s)
  OBVIOUS
<1>2. CASE Len(s) = 1
  BY <1>2 DEF Front
<1>3. CASE Len(s) # 1
  <2>1. 1 \in DOMAIN s \ {Len(s)}
    BY <1>1, <1>3
  <2>2. 1 \in DOMAIN Front(s)
    BY <2>1, PopFacts
  <2> QED BY <1>3, <2>2
<1> QED
  BY <1>2, <1>3

(* A class is entered as it is made, but for its static fields. *)
LEMMA NewClassFacts ==
  ASSUME NEW name
  PROVE  LET class == WithStatics(name, NewClass(name))
             laidOut == WithStatics(name, LaidOut(name, NewClass(name)))
         IN  /\ "status" \in DOMAIN class /\ class.status = "Allocated"
             /\ "status" \in DOMAIN laidOut /\ laidOut.status = "Allocated"
BY DEF WithStatics, NewClass, LaidOut, WithLayout

-----------------------------------------------------------------------------
(* The three ways in which a step changes table and stack. *)

(* What the table and the stack have to do with one another. *)
TableInv == Shapes /\ UnpreparedAreOnStack /\ NoCircularPreparation

(* A class that was not there is entered and its preparation begun. *)
LEMMA EnterStep ==
  ASSUME TableInv, NEW name, NEW class, ~Found(name), Enter(name, class),
         "status" \in DOMAIN WithStatics(name, class),
         WithStatics(name, class).status = "Allocated",
         phase' \in {"Boot", "Running"},
         answer' \in [name : {answer'.name}, outcome : {"Pending", "Class", "Error"}]
  PROVE  /\ TableInv' /\ Extends
         /\ DOMAIN mClasses' = DOMAIN mClasses \cup {name}
         /\ preparing' # <<>>
         /\ preparing'[1].class = IF preparing = <<>> THEN name ELSE preparing[1].class
<1> DEFINE Entry == [class : DOMAIN mClasses, done : Nat]
           NextEntry == [class : DOMAIN mClasses', done : Nat]
           entry == [class |-> name, done |-> 0]
<1>1. /\ mClasses' = [n \in DOMAIN mClasses \cup {name} |->
                       IF n = name THEN WithStatics(name, class) ELSE mClasses[n]]
      /\ preparing' = Append(preparing, entry)
  BY DEF Enter, WithEntry
<1>2. name \notin DOMAIN mClasses
  BY DEF Found
<1>3. /\ DOMAIN mClasses' = DOMAIN mClasses \cup {name}
      /\ \A n \in DOMAIN mClasses : mClasses'[n] = mClasses[n]
      /\ mClasses'[name] = WithStatics(name, class)
  BY <1>1, <1>2
<1>4. preparing \in Seq(Entry)
  BY DEF TableInv, Shapes
<1>5. entry \in NextEntry
  BY <1>3
<1>6. Entry \subseteq NextEntry
  BY <1>3
<1>7. /\ preparing' \in Seq(NextEntry)
      /\ DOMAIN preparing' = DOMAIN preparing \cup {Len(preparing) + 1}
      /\ Len(preparing) \in Nat /\ Len(preparing) + 1 \notin DOMAIN preparing
      /\ \A i \in DOMAIN preparing : preparing'[i] = preparing[i]
      /\ preparing'[Len(preparing) + 1] = entry
  <2> HIDE DEF Entry, NextEntry, entry
  <2> QED BY <1>1, <1>4, <1>5, <1>6, PushFacts
<1>8. \A n : OnStack(n)' <=> OnStack(n) \/ n = name
  <2>1. preparing'[Len(preparing) + 1].class = name
    BY <1>7
  <2>2. DOMAIN preparing' = DOMAIN preparing \cup {Len(preparing) + 1}
    BY <1>7
  <2>3. \A i \in DOMAIN preparing : preparing'[i].class = preparing[i].class
    BY <1>7
  <2> HIDE DEF Entry, NextEntry, entry
  <2> QED
    BY <2>1, <2>2, <2>3 DEF OnStack
<1>9. \A i \in DOMAIN preparing : preparing[i].class \in DOMAIN mClasses
  <2>1. \A i \in DOMAIN preparing : preparing[i] \in Entry
    <3> HIDE DEF Entry
    <3> QED BY <1>4
  <2> QED BY <2>1
<1>10. Shapes'
  BY <1>1, <1>3, <1>7 DEF TableInv, Shapes
<1>11. UnpreparedAreOnStack'
  BY <1>2, <1>3, <1>8 DEF TableInv, UnpreparedAreOnStack
<1>12. NoCircularPreparation'
  BY <1>2, <1>7, <1>9 DEF TableInv, NoCircularPreparation
<1>13. Extends
  BY <1>3 DEF Extends, Prepared, Loaded
<1>14. /\ preparing' # <<>>
       /\ preparing'[1].class = IF preparing = <<>> THEN name ELSE preparing[1].class
  <2>1. CASE preparing = <<>>
    BY <2>1, <1>1
  <2>2. CASE preparing # <<>>
    BY <2>2, <1>4, <1>7
  <2> QED BY <2>1, <2>2
<1> QED
  BY <1>3, <1>10, <1>11, <1>12, <1>13, <1>14 DEF TableInv

(* The class on top of the stack gets another part of what it needs. *)
LEMMA LinkStep ==
  ASSUME TableInv, preparing # <<>>, preparing' = Done, UNCHANGED <<phase, answer>>,
         NEW class, mClasses' = [mClasses EXCEPT ![Current] = class],
         "status" \in DOMAIN class, class.status = mClasses[Current].status
  PROVE  /\ TableInv' /\ Extends
         /\ DOMAIN mClasses' = DOMAIN mClasses
         /\ preparing' # <<>> /\ preparing'[1].class = preparing[1].class
<1> DEFINE Entry == [class : DOMAIN mClasses, done : Nat]
           n0 == Len(preparing)
<1>1. preparing \in Seq(Entry)
  BY DEF TableInv, Shapes
<1>2. /\ n0 \in Nat \ {0} /\ DOMAIN preparing = 1 .. n0
      /\ Last(preparing) = preparing[n0]
      /\ \A i \in DOMAIN preparing : preparing[i] \in Entry
  <2> HIDE DEF Entry
  <2> QED BY <1>1, TopFacts
<1>3. Current = preparing[n0].class /\ Current \in DOMAIN mClasses
  BY <1>2 DEF Current
<1>4. /\ preparing' \in Seq(Entry)
      /\ DOMAIN preparing' = DOMAIN preparing
      /\ \A i \in DOMAIN preparing : preparing'[i].class = preparing[i].class
  BY <1>1, <1>2 DEF Done
<1>5. /\ DOMAIN mClasses' = DOMAIN mClasses
      /\ mClasses' = [n \in DOMAIN mClasses' |-> mClasses'[n]]
      /\ \A n \in DOMAIN mClasses \ {Current} : mClasses'[n] = mClasses[n]
      /\ mClasses'[Current] = class
  BY <1>3 DEF TableInv, Shapes
<1>6. \A n : OnStack(n)' <=> OnStack(n)
  BY <1>4 DEF OnStack
<1>7. Shapes'
  BY <1>4, <1>5 DEF TableInv, Shapes
<1>8. UnpreparedAreOnStack'
  BY <1>3, <1>5, <1>6 DEF TableInv, UnpreparedAreOnStack
<1>9. NoCircularPreparation'
  BY <1>4 DEF TableInv, NoCircularPreparation
<1>10. Current \notin Prepared
  BY <1>2, <1>3 DEF TableInv, UnpreparedAreOnStack, OnStack, Prepared, Loaded
<1>11. Extends
  BY <1>5, <1>10 DEF Extends, Prepared, Loaded
<1> QED
  BY <1>2, <1>4, <1>5, <1>7, <1>8, <1>9, <1>11 DEF TableInv

(* The class on top of the stack is prepared, and its call returns. *)
LEMMA ReturnStep ==
  ASSUME TableInv, preparing # <<>>, preparing' = Front(preparing), phase' = phase,
         answer' \in [name : {answer'.name}, outcome : {"Pending", "Class", "Error"}],
         NEW class, mClasses' = [mClasses EXCEPT ![Current] = class],
         "status" \in DOMAIN class, class.status = "Prepared"
  PROVE  /\ TableInv' /\ Extends
         /\ DOMAIN mClasses' = DOMAIN mClasses
         /\ Current \in Prepared'
         /\ Len(preparing) = 1 => preparing' = <<>> /\ Current = preparing[1].class
         /\ Len(preparing) # 1 =>
              preparing' # <<>> /\ preparing'[1].class = preparing[1].class
<1> DEFINE Entry == [class : DOMAIN mClasses, done : Nat]
           n0 == Len(preparing)
<1>1. preparing \in Seq(Entry)
  BY DEF TableInv, Shapes
<1>2. /\ n0 \in Nat \ {0} /\ DOMAIN preparing = 1 .. n0
      /\ Last(preparing) = preparing[n0]
      /\ \A i \in DOMAIN preparing : preparing[i] \in Entry
      /\ preparing' \in Seq(Entry)
      /\ DOMAIN preparing' = DOMAIN preparing \ {n0}
      /\ \A i \in DOMAIN preparing' : preparing'[i] = preparing[i]
      /\ n0 = 1 => preparing' = <<>>
      /\ preparing' = <<>> => n0 = 1
  <2> HIDE DEF Entry
  <2>1. /\ n0 \in Nat \ {0} /\ DOMAIN preparing = 1 .. n0
        /\ Last(preparing) = preparing[n0]
        /\ \A i \in DOMAIN preparing : preparing[i] \in Entry
    BY <1>1, TopFacts
  <2>2. /\ preparing' \in Seq(Entry)
        /\ DOMAIN preparing' = DOMAIN preparing \ {n0}
        /\ \A i \in DOMAIN preparing' : preparing'[i] = preparing[i]
        /\ preparing' = <<>> <=> n0 = 1
    <3>1. Front(preparing) \in Seq(Entry)
      BY <1>1, PopFacts
    <3>2. DOMAIN Front(preparing) = DOMAIN preparing \ {n0}
      BY <1>1, PopFacts
    <3>3. \A i \in DOMAIN Front(preparing) : Front(preparing)[i] = preparing[i]
      BY <1>1, PopFacts
    <3>4. Front(preparing) = <<>> <=> n0 = 1
      BY <1>1, PopEmpties
    <3> QED BY <3>1, <3>2, <3>3, <3>4
  <2> QED BY <2>1, <2>2
<1>3. Current = preparing[n0].class /\ Current \in DOMAIN mClasses
  BY <1>2 DEF Current
<1>4. /\ DOMAIN mClasses' = DOMAIN mClasses
      /\ mClasses' = [n \in DOMAIN mClasses' |-> mClasses'[n]]
      /\ \A n \in DOMAIN mClasses \ {Current} : mClasses'[n] = mClasses[n]
      /\ mClasses'[Current] = class
  BY <1>3 DEF TableInv, Shapes
<1>5. \A n : OnStack(n)' <=> OnStack(n) /\ n # Current
  <2>1. \A i \in DOMAIN preparing : preparing[i].class = Current <=> i = n0
    BY <1>2, <1>3 DEF TableInv, NoCircularPreparation
  <2> QED
    BY <1>2, <2>1 DEF OnStack
<1>6. Shapes'
  BY <1>2, <1>4 DEF TableInv, Shapes
<1>7. UnpreparedAreOnStack'
  BY <1>3, <1>4, <1>5 DEF TableInv, UnpreparedAreOnStack
<1>8. NoCircularPreparation'
  BY <1>2 DEF TableInv, NoCircularPreparation
<1>9. Current \notin Prepared
  BY <1>2, <1>3 DEF TableInv, UnpreparedAreOnStack, OnStack, Prepared, Loaded
<1>10. Extends /\ Current \in Prepared'
  BY <1>3, <1>4, <1>9 DEF Extends, Prepared, Loaded
<1> QED
  BY <1>2, <1>3, <1>4, <1>6, <1>7, <1>8, <1>10 DEF TableInv

-----------------------------------------------------------------------------
(* Every step. *)

(* A step of prepare() that links something leaves the request as it is. *)
LEMMA LinkKeeps ==
  ASSUME IInv, Busy, preparing # <<>>, preparing' = Done, UNCHANGED <<phase, answer>>,
         NEW class, mClasses' = [mClasses EXCEPT ![Current] = class],
         "status" \in DOMAIN class, class.status = mClasses[Current].status
  PROVE  IInv' /\ Extends
<1>1. /\ TableInv' /\ Extends
      /\ DOMAIN mClasses' = DOMAIN mClasses
      /\ preparing' # <<>> /\ preparing'[1].class = preparing[1].class
  BY LinkStep DEF IInv, TableInv
<1>2. Progress'
  BY <1>1 DEF IInv, Progress, Busy
<1>3. Prepared \subseteq Prepared'
  BY <1>1 DEF Extends, Prepared, Loaded
<1>4. RequestIsServed'
  BY <1>1, <1>3 DEF IInv, RequestIsServed, Busy
<1> QED
  BY <1>1, <1>2, <1>4 DEF IInv, TableInv

(* The class on top of the stack is in the table. *)
LEMMA TopIsEntered ==
  ASSUME Shapes, preparing # <<>>
  PROVE  /\ Current \in DOMAIN mClasses
         /\ "status" \in DOMAIN mClasses[Current]
         /\ Last(preparing) = preparing[Len(preparing)]
<1> DEFINE Entry == [class : DOMAIN mClasses, done : Nat]
<1>1. preparing \in Seq(Entry)
  BY DEF Shapes
<1>2. Last(preparing) = preparing[Len(preparing)] /\ Last(preparing) \in Entry
  <2> HIDE DEF Entry
  <2> QED BY <1>1, TopFacts
<1> QED
  BY <1>2 DEF Current, Shapes

LEMMA NextKeeps == ASSUME IInv, [Next]_vars PROVE IInv' /\ Extends
<1>1. CASE UNCHANGED vars
  BY <1>1 DEF vars, IInv, Shapes, UnpreparedAreOnStack, OnStack, NoCircularPreparation,
              Progress, Busy, RequestIsServed, Prepared, Loaded, Extends
<1>2. CASE LoadNested
  <2> DEFINE name == Pending.class
             class == WithStatics(name, NewClass(name))
  <2>1. "status" \in DOMAIN class /\ class.status = "Allocated"
    BY NewClassFacts
  <2>2. /\ phase' \in {"Boot", "Running"} /\ UNCHANGED <<phase, answer>>
        /\ preparing # <<>> /\ ~Found(name) /\ Enter(name, NewClass(name))
    BY <1>2 DEF LoadNested
  <2>3. answer' \in [name : {answer'.name}, outcome : {"Pending", "Class", "Error"}]
    BY <2>2 DEF IInv, Shapes
  <2>4. /\ TableInv' /\ Extends
        /\ DOMAIN mClasses' = DOMAIN mClasses \cup {name}
        /\ preparing' # <<>> /\ preparing'[1].class = preparing[1].class
    <3> HIDE DEF name
    <3> QED BY <2>1, <2>2, <2>3, EnterStep DEF IInv, TableInv
  <2>5. Prepared \subseteq Prepared'
    BY <2>4 DEF Extends, Prepared, Loaded
  <2>6. Progress' /\ RequestIsServed'
    BY <2>2, <2>4, <2>5 DEF IInv, Progress, RequestIsServed, Busy
  <2> QED BY <2>4, <2>6 DEF IInv, TableInv
<1>3. CASE FailNested
  BY <1>3 DEF FailNested, IInv, Shapes, UnpreparedAreOnStack, OnStack, NoCircularPreparation,
              Progress, Busy, RequestIsServed, Prepared, Loaded, Extends
<1>4. CASE LinkSuperClass
  <2> DEFINE class == [mClasses[Current] EXCEPT !.super = Pending.class]
  <2>1. /\ Busy /\ preparing # <<>> /\ preparing' = Done /\ UNCHANGED <<phase, answer>>
        /\ mClasses' = [mClasses EXCEPT ![Current] = class]
    BY <1>4 DEF LinkSuperClass, At, Busy
  <2>2. "status" \in DOMAIN class /\ class.status = mClasses[Current].status
    BY <2>1, TopIsEntered DEF IInv
  <2> HIDE DEF class
  <2> QED BY <2>1, <2>2, LinkKeeps
<1>5. CASE LinkSuperInterface
  <2> DEFINE class == [mClasses[Current] EXCEPT !.interfaces = Append(@, Pending.class)]
  <2>1. /\ Busy /\ preparing # <<>> /\ preparing' = Done /\ UNCHANGED <<phase, answer>>
        /\ mClasses' = [mClasses EXCEPT ![Current] = class]
    BY <1>5 DEF LinkSuperInterface, At, Busy
  <2>2. "status" \in DOMAIN class /\ class.status = mClasses[Current].status
    BY <2>1, TopIsEntered DEF IInv
  <2> HIDE DEF class
  <2> QED BY <2>1, <2>2, LinkKeeps
<1>6. CASE LinkElement
  <2> DEFINE class == [mClasses[Current] EXCEPT !.element = Pending.class]
  <2>1. /\ Busy /\ preparing # <<>> /\ preparing' = Done /\ UNCHANGED <<phase, answer>>
        /\ mClasses' = [mClasses EXCEPT ![Current] = class]
    BY <1>6 DEF LinkElement, At, Busy
  <2>2. "status" \in DOMAIN class /\ class.status = mClasses[Current].status
    BY <2>1, TopIsEntered DEF IInv
  <2> HIDE DEF class
  <2> QED BY <2>1, <2>2, LinkKeeps
<1>7. CASE LinkFields
  <2> DEFINE class(i) == WithLayout(mClasses[Current], Layout(Current, mClasses[Current], i))
  <2>1. PICK i : mClasses' = [mClasses EXCEPT ![Current] = class(i)]
    BY <1>7 DEF LinkFields
  <2>2. Busy /\ preparing # <<>> /\ preparing' = Done /\ UNCHANGED <<phase, answer>>
    BY <1>7 DEF LinkFields, At, Busy
  <2>3. "status" \in DOMAIN class(i) /\ class(i).status = mClasses[Current].status
    BY <2>2, TopIsEntered DEF IInv, WithLayout
  <2> HIDE DEF class
  <2> QED BY <2>1, <2>2, <2>3, LinkKeeps
<1>8. CASE CreateClassObject
  <2> DEFINE class == [mClasses[Current] EXCEPT !.object = mClasses[JavaLangClass].size,
                                                !.status = "Prepared"]
  <2>1. /\ Busy /\ preparing # <<>> /\ preparing' = Front(preparing) /\ phase' = phase
        /\ answer' = IF Len(preparing) = 1 THEN [answer EXCEPT !.outcome = "Class"] ELSE answer
    BY <1>8 DEF CreateClassObject, At, Busy
  <2>2. answer' \in [name : {answer'.name}, outcome : {"Pending", "Class", "Error"}]
    BY <2>1 DEF IInv, Shapes
  <2>3. Current \in DOMAIN mClasses /\ "status" \in DOMAIN mClasses[Current]
    BY <2>1, TopIsEntered DEF IInv
  <2>4. "status" \in DOMAIN class /\ class.status = "Prepared"
    BY <2>3
  <2>5. mClasses' = [mClasses EXCEPT ![Current] = class]
    BY <1>8, <2>3 DEF CreateClassObject, IInv, Shapes
  <2> HIDE DEF class
  <2>6. /\ TableInv' /\ Extends
        /\ DOMAIN mClasses' = DOMAIN mClasses
        /\ Current \in Prepared'
        /\ Len(preparing) = 1 => preparing' = <<>> /\ Current = preparing[1].class
        /\ Len(preparing) # 1 =>
             preparing' # <<>> /\ preparing'[1].class = preparing[1].class
    BY <2>1, <2>2, <2>4, <2>5, ReturnStep DEF IInv, TableInv
  <2>7. Progress'
    BY <2>1, <2>6 DEF IInv, Progress, Busy
  <2>8. Prepared \subseteq Prepared'
    BY <2>6 DEF Extends, Prepared, Loaded
  <2>9. RequestIsServed'
    BY <2>1, <2>6, <2>8 DEF IInv, RequestIsServed, Busy, Shapes
  <2> QED BY <2>6, <2>7, <2>9 DEF IInv, TableInv
<1>9. CASE SetUpJavaLangClass
  <2> DEFINE new == LaidOut(JavaLangClass, NewClass(JavaLangClass))
             class == WithStatics(JavaLangClass, new)
  <2>1. "status" \in DOMAIN class /\ class.status = "Allocated"
    BY NewClassFacts
  <2>2. /\ phase = "Start" /\ phase' = "Boot" /\ answer' = Request(JavaLangClass)
        /\ Enter(JavaLangClass, new)
    BY <1>9 DEF SetUpJavaLangClass
  <2>3. mClasses = <<>> /\ preparing = <<>> /\ ~Found(JavaLangClass)
    BY <2>2 DEF IInv, Progress, Found
  <2>4. answer' \in [name : {answer'.name}, outcome : {"Pending", "Class", "Error"}]
    BY <2>2 DEF Request
  <2> HIDE DEF new
  <2>5. /\ TableInv' /\ Extends
        /\ DOMAIN mClasses' = DOMAIN mClasses \cup {JavaLangClass}
        /\ preparing' # <<>> /\ preparing'[1].class = JavaLangClass
    BY <2>1, <2>2, <2>3, <2>4, EnterStep DEF IInv, TableInv
  <2>6. Progress' /\ RequestIsServed'
    BY <2>2, <2>5 DEF Progress, RequestIsServed, Busy, Request
  <2> QED BY <2>5, <2>6 DEF IInv, TableInv
<1>10. ASSUME NEW name, ~Found(name), Enter(name, NewClass(name)), Busy, phase' = phase,
              preparing = <<>>, answer' = Request(name)
       PROVE  IInv' /\ Extends
  <2>1. /\ "status" \in DOMAIN WithStatics(name, NewClass(name))
        /\ WithStatics(name, NewClass(name)).status = "Allocated"
    BY NewClassFacts
  <2>2. answer' \in [name : {answer'.name}, outcome : {"Pending", "Class", "Error"}]
    BY <1>10 DEF Request
  <2>3. /\ TableInv' /\ Extends
        /\ DOMAIN mClasses' = DOMAIN mClasses \cup {name}
        /\ preparing' # <<>> /\ preparing'[1].class = name
    BY <1>10, <2>1, <2>2, EnterStep DEF IInv, TableInv, Busy
  <2>4. Progress' /\ RequestIsServed'
    BY <1>10, <2>3 DEF IInv, Progress, RequestIsServed, Busy, Request
  <2> QED BY <2>3, <2>4 DEF IInv, TableInv
<1>11. CASE RequireClass
  <2>1. PICK name \in NextRequired : Enter(name, NewClass(name)) /\ answer' = Request(name)
    BY <1>11 DEF RequireClass
  <2>2. Busy /\ phase' = phase /\ preparing = <<>>
    BY <1>11 DEF RequireClass, Busy
  <2>3. ~Found(name)
    BY <2>1 DEF NextRequired, MissingRequired
  <2> QED BY <1>10, <2>1, <2>2, <2>3
<1>12. CASE RequiredIsMissing
  BY <1>12 DEF RequiredIsMissing, IInv, Shapes, UnpreparedAreOnStack, OnStack,
               NoCircularPreparation, Progress, Busy, RequestIsServed, Prepared, Loaded, Extends
<1>13. CASE Initialized
  BY <1>13 DEF Initialized, IInv, Shapes, UnpreparedAreOnStack, OnStack,
               NoCircularPreparation, Progress, Busy, RequestIsServed, Prepared, Loaded, Extends
<1>14. ASSUME NEW name, LoadClass(name) PROVE IInv' /\ Extends
  BY <1>10, <1>14 DEF LoadClass, Idle, Busy
<1>15. ASSUME NEW name, FindClass(name) PROVE IInv' /\ Extends
  <2>1. name \in Prepared
    BY <1>15 DEF FindClass, Idle, Found, IInv, UnpreparedAreOnStack, OnStack, Prepared, Loaded
  <2> QED
    BY <1>15, <2>1 DEF FindClass, Idle, IInv, Shapes, UnpreparedAreOnStack, OnStack,
               NoCircularPreparation, Progress, Busy, RequestIsServed, Prepared, Loaded, Extends
<1>16. ASSUME NEW name, ClassNotFound(name) PROVE IInv' /\ Extends
  BY <1>16 DEF ClassNotFound, Idle, Found, IInv, Shapes, UnpreparedAreOnStack, OnStack,
               NoCircularPreparation, Progress, Busy, RequestIsServed, Prepared, Loaded, Extends
<1>17. CASE Ended
  BY <1>1, <1>17 DEF Ended
<1> QED
  BY <1>1, <1>2, <1>3, <1>4, <1>5, <1>6, <1>7, <1>8, <1>9, <1>11, <1>12, <1>13, <1>14, <1>15,
     <1>16, <1>17 DEF Next, Prepare, Boot

LEMMA InitHolds == Init => IInv
BY DEF Init, IInv, Shapes, UnpreparedAreOnStack, OnStack, NoCircularPreparation, Progress, Busy,
       RequestIsServed, Prepared, Loaded

LEMMA IInvHolds == Spec => []IInv
<1>1. IInv /\ [Next]_vars => IInv'
  BY NextKeeps
<1> QED
  BY InitHolds, <1>1, PTL DEF Spec

-----------------------------------------------------------------------------
(* The results. *)

(* No class is prepared while it is being prepared, on any class path: the *)
(* recursion of loadClass through supertypes, element classes and          *)
(* java.lang.Class never comes back to a class that is on the stack.       *)
THEOREM RecursionIsSound == Spec => []NoCircularPreparation
BY IInvHolds, PTL DEF IInv

(* Whenever the program runs, every class of the table has been prepared,  *)
(* whatever was entered unprepared while the VM started (loadClass,        *)
(* setUpJavaLangClass).                                                    *)
THEOREM ProgramSeesPreparedClasses == Spec => []RunningSeesPreparedClasses
<1>1. IInv => RunningSeesPreparedClasses
  BY DEF IInv, Shapes, UnpreparedAreOnStack, OnStack, Progress, Busy, RunningSeesPreparedClasses,
         Idle, Prepared, Loaded
<1> QED
  BY IInvHolds, <1>1, PTL

(* loadClass answers every request with a prepared class or with an error  *)
(* that leaves nothing of that name in the table.                          *)
THEOREM RequestsAreAnswered == Spec => []AnswersAreRight
<1>1. IInv => AnswersAreRight
  BY DEF IInv, RequestIsServed, Busy, AnswersAreRight, Idle, Loaded
<1> QED
  BY IInvHolds, <1>1, PTL

(* A class that has been prepared never changes again: what was resolved,  *)
(* laid out or cached on the strength of it stays true.                    *)
THEOREM PreparedClassesAreFinal ==
  Spec => [][\A name \in Prepared : name \in DOMAIN mClasses' /\ mClasses'[name] = mClasses[name]]_vars
<1>1. IInv /\ [Next]_vars =>
        [\A name \in Prepared : name \in DOMAIN mClasses' /\ mClasses'[name] = mClasses[name]]_vars
  BY NextKeeps DEF Extends, Prepared, Loaded
<1> QED
  BY IInvHolds, <1>1, PTL DEF Spec

-----------------------------------------------------------------------------
(* Names, class files and the steps of prepare(). *)

LEMMA InstanceNames ==
  /\ \A b \in BaseNames : Instance(b) \in Name
  /\ \A b : Instance(b).base = b /\ Instance(b).dimensions = 0
  /\ NoClass \notin Name
<1>1. ASSUME NEW b \in BaseNames PROVE Instance(b) \in Name
  BY DEF Instance, Name
<1>2. \A b : Instance(b).base = b /\ Instance(b).dimensions = 0
  BY DEF Instance
<1>3. ASSUME NoClass \in Name PROVE FALSE
  <2>1. NoClass.base \in BaseNames
    BY <1>3 DEF Name
  <2> QED BY <2>1, <1>2, BaseNamesAssumption DEF NoClass
<1> QED
  BY <1>1, <1>2, <1>3

LEMMA JdkNames ==
  /\ JavaLangObject \in Name /\ JavaLangClass \in Name
  /\ Cloneable \in Name /\ Serializable \in Name
  /\ JavaLangObject # JavaLangClass
<1>1. /\ "Object" \in BaseNames /\ "Class" \in BaseNames
      /\ "Cloneable" \in BaseNames /\ "Serializable" \in BaseNames
  BY BaseNamesAssumption
<1>2. JavaLangObject \in Name
  BY <1>1, InstanceNames DEF JavaLangObject
<1>3. JavaLangClass \in Name
  BY <1>1, InstanceNames DEF JavaLangClass
<1>4. Cloneable \in Name
  BY <1>1, InstanceNames DEF Cloneable
<1>5. Serializable \in Name
  BY <1>1, InstanceNames DEF Serializable
<1>6. JavaLangObject # JavaLangClass
  BY InstanceNames DEF JavaLangObject, JavaLangClass
<1> QED
  BY <1>2, <1>3, <1>4, <1>5, <1>6

(* Sequences with at most one element, and a function on a sequence. *)
LEMMA OneStep ==
  ASSUME NEW T, NEW x \in T
  PROVE  <<x>> \in Seq(T) /\ Len(<<x>>) = 1 /\ <<x>>[1] = x
OBVIOUS

LEMMA NoStep == ASSUME NEW T PROVE <<>> \in Seq(T) /\ Len(<<>>) = 0
OBVIOUS

LEMMA ListFacts ==
  ASSUME NEW S, NEW l \in Seq(S)
  PROVE  Len(l) \in Nat /\ DOMAIN l = 1..Len(l) /\ \A i \in 1..Len(l) : l[i] \in S
OBVIOUS

LEMMA FunctionIsList ==
  ASSUME NEW S, NEW m \in Nat, NEW f, f = [i \in 1..m |-> f[i]], \A i \in 1..m : f[i] \in S
  PROVE  f \in Seq(S) /\ Len(f) = m
<1>1. f \in [1..m -> S]
  OBVIOUS
<1> QED BY <1>1

LEMMA MinIsMember ==
  ASSUME NEW T \in SUBSET Nat, T # {}
  PROVE  Min(T) \in T
<1>1. \E x \in T : \A y \in T : x <= y
  BY LeastNumber
<1> QED
  BY <1>1 DEF Min

(* The file that is found has the shape that linking expects. *)
LEMMA SearchFacts ==
  ASSUME path \in ClassPaths, NEW n \in Name, ~IsArray(n), Loadable(n)
  PROVE  /\ IsClassFile(Search(n))
         /\ n.base \in ReadableIn(path)
         /\ n = Instance(n.base)
<1> DEFINE T == Located(path, n.base)
<1>1. T # {} /\ Search(n).readable
  BY DEF Loadable
<1>2. T \subseteq DOMAIN path /\ DOMAIN path \subseteq Nat
  BY ClassPathsAssumption DEF Located
<1>3. Min(T) \in T
  <2> HIDE DEF T
  <2> QED BY <1>1, <1>2, MinIsMember
<1>4. Min(T) \in DOMAIN path /\ n.base \in DOMAIN path[Min(T)]
  BY <1>3 DEF Located
<1>5. Search(n) = path[Min(T)][n.base]
  BY DEF Search, FileIn
<1>6. IsClassFile(Search(n))
  BY <1>1, <1>4, <1>5, ClassPathsAssumption
<1>7. n.base \in ReadableIn(path)
  BY <1>1, <1>4 DEF ReadableIn, Search
<1>8. n = Instance(n.base)
  <2>1. n.dimensions = 0
    BY DEF Name, IsArray
  <2>2. n = [base |-> n.base, dimensions |-> n.dimensions]
    BY DEF Name
  <2> QED BY <2>1, <2>2 DEF Instance
<1> QED
  BY <1>6, <1>7, <1>8

LEMMA ElementFacts ==
  ASSUME NEW n \in Name, IsArray(n)
  PROVE  /\ ElementType(n) \in Name
         /\ ElementType(n).dimensions = n.dimensions - 1
<1>1. n.dimensions - 1 \in Nat
  BY DEF IsArray, Name
<1> QED
  BY <1>1 DEF ElementType, Name

AnyStep ==
  [what : {"super", "interface", "element", "fields", "object"}, class : Name \cup {NoClass}]

(* What a class declares are names, or nothing. *)
LEMMA DeclaredNames ==
  ASSUME path \in ClassPaths, NEW n \in Name, Loadable(n)
  PROVE  /\ SuperOf(n) \in Name \cup {NoClass}
         /\ InterfacesOf(n) \in Seq(Name)
         /\ ElementOf(n) \in Name \cup {NoClass}
         /\ NoClass \notin Name
<1>1. NoClass \notin Name
  BY InstanceNames
<1>2. CASE IsArray(n)
  <2>1. SuperOf(n) \in Name
    BY <1>2, JdkNames DEF SuperOf
  <2>2. InterfacesOf(n) \in Seq(Name)
    <3>1. InterfacesOf(n) = <<Cloneable, Serializable>>
      BY <1>2 DEF InterfacesOf
    <3> QED BY <3>1, JdkNames
  <2>3. ElementOf(n) \in Name \cup {NoClass}
    BY <1>2, ElementFacts DEF ElementOf
  <2> QED BY <1>1, <2>1, <2>2, <2>3
<1>3. CASE ~IsArray(n)
  <2>1. /\ Search(n).super \in BaseNames \cup {""}
        /\ Search(n).interfaces \in Seq(BaseNames)
    BY <1>3, SearchFacts DEF IsClassFile
  <2>2. SuperOf(n) \in Name \cup {NoClass}
    BY <1>3, <2>1, InstanceNames DEF SuperOf, NoClass
  <2>3. InterfacesOf(n) \in Seq(Name)
    <3>1. PICK list : list = Search(n).interfaces
      OBVIOUS
    <3>2. Len(list) \in Nat /\ DOMAIN list = 1..Len(list) /\ \A i \in 1..Len(list) : list[i] \in BaseNames
      BY <2>1, <3>1, ListFacts
    <3>3. InterfacesOf(n) = [i \in 1..Len(list) |-> Instance(list[i])]
      BY <1>3, <3>1, <3>2 DEF InterfacesOf
    <3>4. \A i \in 1..Len(list) : InterfacesOf(n)[i] \in Name
      BY <3>2, <3>3, InstanceNames
    <3>5. InterfacesOf(n) = [i \in 1..Len(list) |-> InterfacesOf(n)[i]]
      BY <3>3
    <3> QED BY <3>2, <3>4, <3>5, FunctionIsList
  <2>4. ElementOf(n) = NoClass
    BY <1>3 DEF ElementOf
  <2> QED BY <1>1, <2>2, <2>3, <2>4
<1> QED
  BY <1>2, <1>3

IsConcatenation(T, a, b, z) ==
  /\ z \in Seq(T) /\ Len(z) = Len(a) + Len(b)
  /\ \A i \in 1..Len(a) : z[i] = a[i]
  /\ \A i \in 1..Len(b) : z[Len(a) + i] = b[i]

LEMMA Concatenation ==
  ASSUME NEW T, NEW a \in Seq(T), NEW b \in Seq(T)
  PROVE  IsConcatenation(T, a, b, a \o b)
BY DEF IsConcatenation

AreInOrder(a, b, c, d, s) ==
  LET u == Len(a)
      m == Len(b)
      v == Len(c)
  IN  /\ Len(s) = u + m + v + 1
      /\ \A k \in Nat : k < Len(s) =>
           \/ k < u /\ s[k + 1] = a[k + 1]
           \/ u <= k /\ k < u + m /\ s[k + 1] = b[k - u + 1]
           \/ u + m <= k /\ k < u + m + v /\ s[k + 1] = c[k - u - m + 1]
           \/ k = u + m + v /\ s[k + 1] = d[1]

LEMMA FourParts ==
  ASSUME NEW T, NEW a \in Seq(T), NEW b \in Seq(T), NEW c \in Seq(T), NEW d \in Seq(T), Len(d) = 1
  PROVE  AreInOrder(a, b, c, d, a \o b \o c \o d)
<1>1. PICK x : x = a \o b
  OBVIOUS
<1>2. PICK y : y = x \o c
  OBVIOUS
<1>3. PICK s : s = y \o d
  OBVIOUS
<1>0. PICK u, m, v \in Nat : u = Len(a) /\ m = Len(b) /\ v = Len(c)
  OBVIOUS
<1>4. /\ x \in Seq(T) /\ Len(x) = u + m
      /\ \A i \in 1..u : x[i] = a[i]
      /\ \A i \in 1..m : x[u + i] = b[i]
  <2>1. IsConcatenation(T, a, b, x)
    BY <1>1, Concatenation
  <2> QED BY <1>0, <2>1 DEF IsConcatenation
<1>5. /\ y \in Seq(T) /\ Len(y) = u + m + v
      /\ \A i \in 1..u + m : y[i] = x[i]
      /\ \A i \in 1..v : y[u + m + i] = c[i]
  <2>1. IsConcatenation(T, x, c, y)
    BY <1>2, <1>4, Concatenation
  <2> QED BY <1>0, <1>4, <2>1 DEF IsConcatenation
<1>6. /\ Len(s) = u + m + v + 1
      /\ \A i \in 1..u + m + v : s[i] = y[i]
      /\ \A i \in 1..1 : s[u + m + v + i] = d[i]
  <2>1. IsConcatenation(T, y, d, s)
    BY <1>3, <1>5, Concatenation
  <2> QED BY <1>5, <2>1 DEF IsConcatenation
<1>7. ASSUME NEW k \in Nat, k < Len(s)
      PROVE  \/ k < u /\ s[k + 1] = a[k + 1]
             \/ u <= k /\ k < u + m /\ s[k + 1] = b[k - u + 1]
             \/ u + m <= k /\ k < u + m + v /\ s[k + 1] = c[k - u - m + 1]
             \/ k = u + m + v /\ s[k + 1] = d[1]
  <2>1. CASE k < u
    <3>1. k + 1 \in 1..u /\ k + 1 \in 1..u + m /\ k + 1 \in 1..u + m + v
      BY <2>1
    <3> QED BY <2>1, <3>1, <1>4, <1>5, <1>6
  <2>2. CASE u <= k /\ k < u + m
    <3>1. PICK i \in 1..m : i = k - u + 1
      BY <2>2
    <3>2. k + 1 = u + i /\ k + 1 \in 1..u + m /\ k + 1 \in 1..u + m + v
      BY <2>2, <3>1
    <3>3. s[k + 1] = b[i]
      BY <3>2, <1>4, <1>5, <1>6
    <3> QED BY <2>2, <3>1, <3>3
  <2>3. CASE u + m <= k /\ k < u + m + v
    <3>1. PICK i \in 1..v : i = k - u - m + 1
      BY <2>3
    <3>2. k + 1 = u + m + i /\ k + 1 \in 1..u + m + v
      BY <2>3, <3>1
    <3>3. s[k + 1] = c[i]
      BY <3>2, <1>5, <1>6
    <3> QED BY <2>3, <3>1, <3>3
  <2>4. CASE k = u + m + v
    <3>1. 1 \in 1..1
      OBVIOUS
    <3> QED BY <2>4, <3>1, <1>6
  <2> QED BY <1>6, <1>7, <2>1, <2>2, <2>3, <2>4
<1>8. s = a \o b \o c \o d
  BY <1>1, <1>2, <1>3
<1>9. AreInOrder(a, b, c, d, s)
  BY <1>0, <1>6, <1>7 DEF AreInOrder
<1> QED BY <1>8, <1>9

Supers(n) == IF SuperOf(n) = NoClass THEN 0 ELSE 1
Before(n) == Supers(n) + Len(InterfacesOf(n))

LEMMA OptionalStepFacts ==
  ASSUME NEW what \in {"super", "element"}, NEW class \in Name \cup {NoClass}
  PROVE  LET s == OptionalStep(what, class)
         IN  /\ s \in Seq(AnyStep)
             /\ class = NoClass => Len(s) = 0
             /\ class # NoClass => Len(s) = 1 /\ s[1] = Step(what, class)
<1>1. CASE class = NoClass
  BY <1>1, NoStep DEF OptionalStep
<1>2. CASE class # NoClass
  <2>1. Step(what, class) \in AnyStep
    BY DEF Step, AnyStep
  <2>2. OptionalStep(what, class) = <<Step(what, class)>>
    BY <1>2 DEF OptionalStep
  <2> QED BY <1>2, <2>1, <2>2, OneStep
<1> QED BY <1>1, <1>2

(* The four parts that the steps of a class consist of. *)
AreParts(n, a, b, c, d) ==
  /\ Steps(n) = a \o b \o c \o d
  /\ Supers(n) \in {0, 1} /\ Len(a) = Supers(n)
  /\ Supers(n) = 1 => a[1] = Step("super", SuperOf(n))
  /\ Len(b) = Len(InterfacesOf(n)) /\ Len(b) \in Nat
  /\ \A i \in 1..Len(b) : b[i] = Step("interface", InterfacesOf(n)[i])
  /\ \/ Len(c) = 0 /\ IsArray(n) /\ ElementOf(n) = NoClass
     \/ Len(c) = 1 /\ ~(IsArray(n) /\ ElementOf(n) = NoClass)
  /\ Len(c) = 1 /\ IsArray(n) => c[1] = Step("element", ElementOf(n))
  /\ Len(c) = 1 /\ ~IsArray(n) => c[1] = Step("fields", NoClass)
  /\ Len(d) = 1 /\ d[1] = Step("object", JavaLangClass)

LEMMA StepParts ==
  ASSUME path \in ClassPaths, NEW n \in Name, Loadable(n)
  PROVE  \E a, b, c, d \in Seq(AnyStep) : AreParts(n, a, b, c, d)
<1> DEFINE l == InterfacesOf(n)
           a == OptionalStep("super", SuperOf(n))
           b == [i \in DOMAIN l |-> Step("interface", l[i])]
           c == IF IsArray(n) THEN OptionalStep("element", ElementOf(n))
                ELSE <<Step("fields", NoClass)>>
           d == <<Step("object", JavaLangClass)>>
<1>1. Steps(n) = a \o b \o c \o d
  BY DEF Steps
<1>2. /\ a \in Seq(AnyStep) /\ Len(a) = Supers(n) /\ Supers(n) \in {0, 1}
      /\ Supers(n) = 1 => a[1] = Step("super", SuperOf(n))
  BY DeclaredNames, OptionalStepFacts DEF Supers
<1>3. Len(l) \in Nat /\ DOMAIN l = 1..Len(l) /\ \A i \in 1..Len(l) : l[i] \in Name
  BY DeclaredNames, ListFacts
<1>4. b \in Seq(AnyStep) /\ Len(b) = Len(l) /\ \A i \in 1..Len(l) : b[i] = Step("interface", l[i])
  <2>1. \A i \in 1..Len(l) : Step("interface", l[i]) \in AnyStep
    BY <1>3 DEF Step, AnyStep
  <2>2. b = [i \in 1..Len(l) |-> Step("interface", l[i])]
    BY <1>3
  <2>3. \A i \in 1..Len(l) : b[i] = Step("interface", l[i])
    BY <2>2
  <2>4. b = [i \in 1..Len(l) |-> b[i]] /\ \A i \in 1..Len(l) : b[i] \in AnyStep
    BY <2>1, <2>2
  <2> HIDE DEF b, l
  <2> QED BY <1>3, <2>3, <2>4, FunctionIsList
<1>5. /\ c \in Seq(AnyStep)
      /\ \/ Len(c) = 0 /\ IsArray(n) /\ ElementOf(n) = NoClass
         \/ Len(c) = 1 /\ ~(IsArray(n) /\ ElementOf(n) = NoClass)
      /\ Len(c) = 1 /\ IsArray(n) => c[1] = Step("element", ElementOf(n))
      /\ Len(c) = 1 /\ ~IsArray(n) => c[1] = Step("fields", NoClass)
  <2>1. CASE IsArray(n)
    BY <2>1, DeclaredNames, OptionalStepFacts
  <2>2. CASE ~IsArray(n)
    <3>1. Step("fields", NoClass) \in AnyStep
      BY DEF Step, AnyStep
    <3> QED BY <2>2, <3>1, OneStep
  <2> QED BY <2>1, <2>2
<1>6. d \in Seq(AnyStep) /\ Len(d) = 1 /\ d[1] = Step("object", JavaLangClass)
  <2>1. Step("object", JavaLangClass) \in AnyStep
    BY JdkNames DEF Step, AnyStep
  <2> QED BY <2>1, OneStep
<1>7. Len(b) \in Nat
  BY <1>3, <1>4
<1> HIDE DEF a, b, c, d
<1>8. AreParts(n, a, b, c, d)
  BY <1>1, <1>2, <1>4, <1>5, <1>6, <1>7 DEF AreParts
<1> QED
  BY <1>2, <1>4, <1>5, <1>6, <1>8

LEMMA IsABit ==
  ASSUME NEW x, x \in {0, 1}
  PROVE  x \in Nat /\ x <= 1
OBVIOUS

LEMMA PartLengths ==
  ASSUME NEW n, NEW a, NEW b, NEW c, NEW d, AreParts(n, a, b, c, d)
  PROVE  \E u, m, v \in Nat :
           /\ u = Supers(n) /\ u = Len(a) /\ u <= 1
           /\ m = Len(InterfacesOf(n)) /\ m = Len(b)
           /\ v = Len(c) /\ v <= 1
           /\ v = 0 => IsArray(n) /\ ElementOf(n) = NoClass
           /\ v = 1 => ~(IsArray(n) /\ ElementOf(n) = NoClass)
           /\ Before(n) = u + m
<1>1. PICK u : u = Supers(n) /\ u = Len(a) /\ u \in {0, 1}
  BY DEF AreParts
<1>2. PICK m : m = Len(InterfacesOf(n)) /\ m = Len(b) /\ m \in Nat
  BY DEF AreParts
<1>3. PICK v : /\ v = Len(c) /\ v \in {0, 1}
               /\ v = 0 => IsArray(n) /\ ElementOf(n) = NoClass
               /\ v = 1 => ~(IsArray(n) /\ ElementOf(n) = NoClass)
  <2>1. \/ Len(c) = 0 /\ IsArray(n) /\ ElementOf(n) = NoClass
        \/ Len(c) = 1 /\ ~(IsArray(n) /\ ElementOf(n) = NoClass)
    BY DEF AreParts
  <2>2. PICK v : v = Len(c)
    OBVIOUS
  <2> QED BY <2>1, <2>2
<1>4. Before(n) = u + m
  BY <1>1, <1>2 DEF Before
<1>5. u \in Nat /\ v \in Nat /\ u <= 1 /\ v <= 1
  BY <1>1, <1>3, IsABit
<1> QED
  BY <1>1, <1>2, <1>3, <1>4, <1>5

LEMMA StepCount ==
  ASSUME path \in ClassPaths, NEW n \in Name, Loadable(n)
  PROVE  /\ Len(Steps(n)) \in Nat /\ Supers(n) \in {0, 1}
         /\ Before(n) \in Nat /\ Len(InterfacesOf(n)) \in Nat
         /\ Before(n) = Supers(n) + Len(InterfacesOf(n))
         /\ Len(Steps(n)) = Before(n) + (IF IsArray(n) /\ ElementOf(n) = NoClass THEN 1 ELSE 2)
<1>1. PICK a, b, c, d \in Seq(AnyStep) : AreParts(n, a, b, c, d)
  BY StepParts
<1>2. PICK u, m, v \in Nat :
        /\ u = Supers(n) /\ u = Len(a) /\ u <= 1
        /\ m = Len(InterfacesOf(n)) /\ m = Len(b)
        /\ v = Len(c) /\ v <= 1
        /\ v = 0 => IsArray(n) /\ ElementOf(n) = NoClass
        /\ v = 1 => ~(IsArray(n) /\ ElementOf(n) = NoClass)
        /\ Before(n) = u + m
  BY <1>1, PartLengths
<1>3. Len(Steps(n)) = u + m + v + 1
  <2>1. AreInOrder(a, b, c, d, Steps(n))
    BY <1>1, FourParts DEF AreParts
  <2> QED BY <1>2, <2>1 DEF AreInOrder
<1>5. Len(Steps(n)) = Before(n) + (IF IsArray(n) /\ ElementOf(n) = NoClass THEN 1 ELSE 2)
  <2>1. CASE IsArray(n) /\ ElementOf(n) = NoClass
    BY <2>1, <1>2, <1>3
  <2>2. CASE ~(IsArray(n) /\ ElementOf(n) = NoClass)
    BY <2>2, <1>2, <1>3
  <2> QED BY <2>1, <2>2
<1> QED
  BY <1>2, <1>3, <1>5

(* What the step after the first k is. *)
LEMMA Places ==
  ASSUME NEW k \in Nat, NEW u \in Nat, NEW m \in Nat, NEW v \in Nat, v <= 1,
         u + m <= k, k < u + m + v
  PROVE  v = 1 /\ k = u + m /\ k - u - m + 1 = 1
OBVIOUS

LEMMA StepKinds ==
  ASSUME path \in ClassPaths, NEW n \in Name, Loadable(n), NEW k \in Nat, k < Len(Steps(n))
  PROVE  \/ /\ Steps(n)[k + 1] = Step("super", SuperOf(n))
            /\ k = 0 /\ Supers(n) = 1
         \/ /\ Steps(n)[k + 1] = Step("interface", InterfacesOf(n)[k - Supers(n) + 1])
            /\ Supers(n) <= k /\ k < Before(n)
         \/ /\ Steps(n)[k + 1] = Step("element", ElementOf(n))
            /\ k = Before(n) /\ IsArray(n) /\ ElementOf(n) # NoClass
         \/ /\ Steps(n)[k + 1] = Step("fields", NoClass)
            /\ k = Before(n) /\ ~IsArray(n)
         \/ /\ Steps(n)[k + 1] = Step("object", JavaLangClass)
            /\ k + 1 = Len(Steps(n)) /\ k >= Before(n)
            /\ k = Before(n) => IsArray(n) /\ ElementOf(n) = NoClass
<1>1. PICK a, b, c, d \in Seq(AnyStep) : AreParts(n, a, b, c, d)
  BY StepParts
<1>2. PICK u, m, v \in Nat :
        /\ u = Supers(n) /\ u = Len(a) /\ u <= 1
        /\ m = Len(InterfacesOf(n)) /\ m = Len(b)
        /\ v = Len(c) /\ v <= 1
        /\ v = 0 => IsArray(n) /\ ElementOf(n) = NoClass
        /\ v = 1 => ~(IsArray(n) /\ ElementOf(n) = NoClass)
        /\ Before(n) = u + m
  BY <1>1, PartLengths
<1>4. /\ Len(Steps(n)) = u + m + v + 1
      /\ \/ k < u /\ Steps(n)[k + 1] = a[k + 1]
         \/ u <= k /\ k < u + m /\ Steps(n)[k + 1] = b[k - u + 1]
         \/ u + m <= k /\ k < u + m + v /\ Steps(n)[k + 1] = c[k - u - m + 1]
         \/ k = u + m + v /\ Steps(n)[k + 1] = d[1]
  <2>1. AreInOrder(a, b, c, d, Steps(n))
    BY <1>1, FourParts DEF AreParts
  <2> QED BY <1>2, <2>1 DEF AreInOrder
<1>5. CASE k < u /\ Steps(n)[k + 1] = a[k + 1]
  <2>1. k = 0 /\ u = 1 /\ k + 1 = 1
    BY <1>2, <1>5
  <2> QED BY <1>1, <1>2, <1>5, <2>1 DEF AreParts
<1>6. CASE u <= k /\ k < u + m /\ Steps(n)[k + 1] = b[k - u + 1]
  <2>1. k - u + 1 \in 1..m
    BY <1>6
  <2> QED BY <1>1, <1>2, <1>6, <2>1 DEF AreParts
<1>7. CASE u + m <= k /\ k < u + m + v /\ Steps(n)[k + 1] = c[k - u - m + 1]
  <2>1. v = 1 /\ k = u + m /\ k - u - m + 1 = 1
    BY <1>2, <1>7, Places
  <2>2. Len(c) = 1 /\ Steps(n)[k + 1] = c[1] /\ k = Before(n)
    BY <1>2, <1>7, <2>1
  <2>3. CASE IsArray(n)
    <3>1. ElementOf(n) # NoClass
      BY <1>1, <2>2, <2>3 DEF AreParts
    <3>2. c[1] = Step("element", ElementOf(n))
      BY <1>1, <2>2, <2>3 DEF AreParts
    <3> QED BY <2>2, <2>3, <3>1, <3>2
  <2>4. CASE ~IsArray(n)
    BY <1>1, <2>2, <2>4 DEF AreParts
  <2> QED BY <2>3, <2>4
<1>8. CASE k = u + m + v /\ Steps(n)[k + 1] = d[1]
  <2>1. k + 1 = Len(Steps(n)) /\ k >= u + m /\ (k = u + m => v = 0)
    BY <1>4, <1>8
  <2>2. Steps(n)[k + 1] = Step("object", JavaLangClass)
    BY <1>1, <1>8 DEF AreParts
  <2> QED BY <1>2, <2>1, <2>2
<1> QED
  BY <1>4, <1>5, <1>6, <1>7, <1>8

-----------------------------------------------------------------------------
(* What has been linked. *)

Parts == {"status", "super", "interfaces", "element", "fields", "size", "object"}

(* The supertypes and element of a class after the first k steps. *)
LinkedSoFar(n, class, k) ==
  /\ class.super = IF Supers(n) <= k THEN SuperOf(n) ELSE NoClass
  /\ class.interfaces \in Seq(Name)
  /\ Len(class.interfaces) = IF k <= Supers(n) THEN 0
                             ELSE IF k <= Before(n) THEN k - Supers(n)
                             ELSE Len(InterfacesOf(n))
  /\ \A i \in 1..Len(class.interfaces) : class.interfaces[i] = InterfacesOf(n)[i]
  /\ class.element = IF k <= Before(n) THEN NoClass ELSE ElementOf(n)

LinksAreIn(class, S) ==
  /\ class.super \in S /\ class.element \in S
  /\ \A i \in 1..Len(class.interfaces) : class.interfaces[i] \in S

LEMMA SameFiles ==
  ASSUME path' = path, NEW n
  PROVE  /\ SuperOf(n)' = SuperOf(n) /\ InterfacesOf(n)' = InterfacesOf(n)
         /\ ElementOf(n)' = ElementOf(n) /\ Steps(n)' = Steps(n)
         /\ Supers(n)' = Supers(n) /\ Before(n)' = Before(n)
         /\ Loadable(n)' = Loadable(n) /\ Search(n)' = Search(n)
<1>1. Search(n)' = Search(n) /\ Loadable(n)' = Loadable(n)
  BY DEF Search, Loadable
<1>2. SuperOf(n)' = SuperOf(n) /\ InterfacesOf(n)' = InterfacesOf(n) /\ ElementOf(n)' = ElementOf(n)
  BY <1>1 DEF SuperOf, InterfacesOf, ElementOf
<1>3. Steps(n)' = Steps(n)
  BY <1>2 DEF Steps
<1> QED
  BY <1>1, <1>2, <1>3 DEF Supers, Before

LEMMA SoFarStays ==
  ASSUME path' = path, NEW n, NEW class, NEW k, LinkedSoFar(n, class, k)
  PROVE  LinkedSoFar(n, class, k)'
BY SameFiles DEF LinkedSoFar

(* A new class has nothing yet, and one that has made all its steps has all. *)
LEMMA NothingLinked ==
  ASSUME path \in ClassPaths, NEW n \in Name, Loadable(n), NEW class,
         class.super = NoClass, class.interfaces = <<>>, class.element = NoClass
  PROVE  LinkedSoFar(n, class, 0) /\ \A S : NoClass \in S => LinksAreIn(class, S)
<1>1. Supers(n) \in {0, 1} /\ Before(n) \in Nat
  BY StepCount
<1>2. Supers(n) = 0 => SuperOf(n) = NoClass
  BY DEF Supers
<1>3. Len(class.interfaces) = 0 /\ class.interfaces \in Seq(Name)
  OBVIOUS
<1> QED
  BY <1>1, <1>2, <1>3 DEF LinkedSoFar, LinksAreIn

LEMMA AllLinked ==
  ASSUME path \in ClassPaths, NEW n \in Name, Loadable(n), NEW class,
         LinkedSoFar(n, class, Len(Steps(n)) - 1)
  PROVE  /\ class.super = SuperOf(n) /\ class.interfaces = InterfacesOf(n)
         /\ class.element = ElementOf(n)
<1>1. PICK u, m, q \in Nat : u = Supers(n) /\ q = Before(n) /\ m = Len(InterfacesOf(n))
  BY StepCount
<1>2. PICK k \in Nat : /\ k = Len(Steps(n)) - 1 /\ k >= q /\ q = u + m
                       /\ k = q => IsArray(n) /\ ElementOf(n) = NoClass
  BY <1>1, StepCount
<1>3. class.super = SuperOf(n)
  BY <1>1, <1>2 DEF LinkedSoFar
<1>4. class.element = ElementOf(n)
  BY <1>1, <1>2 DEF LinkedSoFar
<1>5. Len(class.interfaces) = m
  <2>1. CASE k <= u
    BY <2>1, <1>1, <1>2 DEF LinkedSoFar
  <2>2. CASE ~(k <= u) /\ k <= q
    BY <2>2, <1>1, <1>2 DEF LinkedSoFar
  <2>3. CASE ~(k <= u) /\ ~(k <= q)
    BY <2>3, <1>1, <1>2 DEF LinkedSoFar
  <2> QED BY <2>1, <2>2, <2>3
<1>6. class.interfaces = InterfacesOf(n)
  <2>1. PICK a, b \in Seq(Name) : a = class.interfaces /\ b = InterfacesOf(n)
    BY DeclaredNames DEF LinkedSoFar
  <2>2. Len(a) = Len(b) /\ \A i \in 1..Len(a) : a[i] = b[i]
    BY <1>1, <1>5, <2>1 DEF LinkedSoFar
  <2>3. a = b
    BY <2>2
  <2> QED BY <2>1, <2>3
<1> QED
  BY <1>3, <1>4, <1>6

LEMMA AreLinkedSoFar ==
  ASSUME NEW n, NEW class, NEW k,
         class.super = IF Supers(n) <= k THEN SuperOf(n) ELSE NoClass,
         class.interfaces \in Seq(Name),
         Len(class.interfaces) = IF k <= Supers(n) THEN 0
                                 ELSE IF k <= Before(n) THEN k - Supers(n)
                                 ELSE Len(InterfacesOf(n)),
         \A i \in 1..Len(class.interfaces) : class.interfaces[i] = InterfacesOf(n)[i],
         class.element = IF k <= Before(n) THEN NoClass ELSE ElementOf(n)
  PROVE  LinkedSoFar(n, class, k)
BY DEF LinkedSoFar

(* The four steps that link something. *)
LEMMA SuperLinked ==
  ASSUME path \in ClassPaths, NEW n \in Name, Loadable(n), Supers(n) = 1, NEW class, NEW next,
         LinkedSoFar(n, class, 0), next.super = SuperOf(n),
         next.interfaces = class.interfaces, next.element = class.element
  PROVE  LinkedSoFar(n, next, 1)
<1>1. PICK q \in Nat : q = Before(n) /\ q >= 1
  BY StepCount
<1> QED
  BY <1>1 DEF LinkedSoFar

LEMMA InterfaceLinked ==
  ASSUME path \in ClassPaths, NEW n \in Name, Loadable(n), NEW k \in Nat,
         Supers(n) <= k, k < Before(n), NEW class, NEW next, LinkedSoFar(n, class, k),
         next.interfaces = Append(class.interfaces, InterfacesOf(n)[k - Supers(n) + 1]),
         next.super = class.super, next.element = class.element
  PROVE  LinkedSoFar(n, next, k + 1)
<1>1. PICK u, m, q \in Nat : u = Supers(n) /\ q = Before(n) /\ m = Len(InterfacesOf(n)) /\ q = u + m
  BY StepCount
<1>2. PICK a, b \in Seq(Name) : a = class.interfaces /\ b = InterfacesOf(n) /\ Len(b) = m
  BY <1>1, DeclaredNames DEF LinkedSoFar
<1>3. Len(a) = k - u /\ \A i \in 1..Len(a) : a[i] = b[i]
  <2>1. PICK l : l = Len(a)
    OBVIOUS
  <2>2. /\ l = IF k <= u THEN 0 ELSE IF k <= q THEN k - u ELSE m
        /\ \A i \in 1..Len(a) : a[i] = b[i]
    BY <1>1, <1>2, <2>1 DEF LinkedSoFar
  <2>3. l = k - u
    BY <2>2, <1>1
  <2> QED BY <2>1, <2>2, <2>3
<1>4. k - u + 1 \in 1..m /\ b[k - u + 1] \in Name
  <2>1. k - u + 1 \in 1..m
    BY <1>1
  <2> QED BY <1>2, <2>1, ListFacts
<1>5. next.interfaces = Append(a, b[k - u + 1])
  BY <1>1, <1>2
<1>6. /\ next.interfaces \in Seq(Name)
      /\ Len(next.interfaces) = k + 1 - u
      /\ \A i \in 1..Len(next.interfaces) : next.interfaces[i] = b[i]
  <2>1. PICK j, c : j = Len(a) /\ c = b[k - u + 1]
    OBVIOUS
  <2>2. /\ Append(a, c) \in Seq(Name) /\ Len(Append(a, c)) = j + 1
        /\ \A i \in 1..j : Append(a, c)[i] = a[i]
        /\ Append(a, c)[j + 1] = c /\ j \in Nat
    BY <1>4, <2>1
  <2>3. j = k - u /\ c = b[j + 1]
    BY <1>3, <2>1
  <2>4. \A i \in 1..j + 1 : i \in 1..j \/ i = j + 1
    BY <2>2
  <2>5. \A i \in 1..j : Append(a, c)[i] = b[i]
    BY <1>3, <2>1, <2>2
  <2>6. \A i \in 1..j + 1 : Append(a, c)[i] = b[i]
    BY <2>2, <2>3, <2>4, <2>5
  <2>7. next.interfaces = Append(a, c)
    BY <1>5, <2>1
  <2>8. j + 1 = k + 1 - u
    BY <1>1, <2>3
  <2> QED BY <2>2, <2>6, <2>7, <2>8
<1>7. PICK z : z = k + 1
  OBVIOUS
<1>8. z \in Nat /\ u < z /\ z <= q /\ Len(next.interfaces) = z - u
  BY <1>1, <1>6, <1>7
<1>9. next.super = SuperOf(n) /\ next.element = NoClass
  <2>1. class.super = SuperOf(n) /\ class.element = NoClass
    BY <1>1 DEF LinkedSoFar
  <2> QED BY <2>1
<1>10. Len(next.interfaces) = IF z <= u THEN 0 ELSE IF z <= q THEN z - u ELSE m
  BY <1>8
<1>11. Len(next.interfaces) = IF z <= Supers(n) THEN 0
                              ELSE IF z <= Before(n) THEN z - Supers(n)
                              ELSE Len(InterfacesOf(n))
  BY <1>1, <1>10
<1>12. \A i \in 1..Len(next.interfaces) : next.interfaces[i] = InterfacesOf(n)[i]
  BY <1>2, <1>6
<1>13. /\ next.super = IF Supers(n) <= z THEN SuperOf(n) ELSE NoClass
       /\ next.element = IF z <= Before(n) THEN NoClass ELSE ElementOf(n)
  <2>1. Supers(n) <= z /\ z <= Before(n)
    BY <1>1, <1>8
  <2> QED BY <1>9, <2>1
<1>14. next.interfaces \in Seq(Name)
  BY <1>6
<1>15. LinkedSoFar(n, next, z)
  BY ONLY <1>11, <1>12, <1>13, <1>14, AreLinkedSoFar
<1> QED
  BY <1>7, <1>15

LEMMA ElementLinked ==
  ASSUME path \in ClassPaths, NEW n \in Name, Loadable(n), NEW class, NEW next,
         LinkedSoFar(n, class, Before(n)), next.element = ElementOf(n),
         next.super = class.super, next.interfaces = class.interfaces
  PROVE  LinkedSoFar(n, next, Before(n) + 1)
<1>1. PICK u, m, q \in Nat : u = Supers(n) /\ q = Before(n) /\ m = Len(InterfacesOf(n)) /\ q = u + m
  BY StepCount
<1>2. Len(class.interfaces) = m
  <2>1. PICK l : l = Len(class.interfaces)
    OBVIOUS
  <2>2. l = IF q <= u THEN 0 ELSE IF q <= q THEN q - u ELSE m
    BY <1>1, <2>1 DEF LinkedSoFar
  <2>3. CASE q <= u
    BY <2>2, <2>3, <1>1, <2>1
  <2>4. CASE ~(q <= u)
    BY <2>2, <2>4, <1>1, <2>1
  <2> QED BY <2>3, <2>4
<1>3. next.super = IF u <= q + 1 THEN SuperOf(n) ELSE NoClass
  BY <1>1 DEF LinkedSoFar
<1>4. m = IF q + 1 <= u THEN 0 ELSE IF q + 1 <= q THEN q + 1 - u ELSE m
  BY <1>1
<1>5. next.element = IF q + 1 <= q THEN NoClass ELSE ElementOf(n)
  BY <1>1
<1> QED
  BY <1>1, <1>2, <1>3, <1>4, <1>5 DEF LinkedSoFar

LEMMA FieldsLinked ==
  ASSUME path \in ClassPaths, NEW n \in Name, Loadable(n), ~IsArray(n), NEW class, NEW next,
         LinkedSoFar(n, class, Before(n)), next.element = class.element,
         next.super = class.super, next.interfaces = class.interfaces
  PROVE  LinkedSoFar(n, next, Before(n) + 1)
<1>1. class.element = NoClass /\ ElementOf(n) = NoClass
  BY StepCount DEF LinkedSoFar, ElementOf
<1> QED
  BY <1>1, ElementLinked

-----------------------------------------------------------------------------
(* The table and the stack in terms of the steps of prepare(). *)

Links == {"super", "interface", "element"}

StepOf(i) == Steps(preparing[i].class)[preparing[i].done + 1]

FilesAreFound ==
  /\ path \in ClassPaths
  /\ \A n \in DOMAIN mClasses : n \in Name /\ Loadable(n) /\ DOMAIN mClasses[n] = Parts

StackIsLinked ==
  \A i \in DOMAIN preparing :
    /\ preparing[i].done < Len(Steps(preparing[i].class))
    /\ LinkedSoFar(preparing[i].class, mClasses[preparing[i].class], preparing[i].done)

PreparedAreLinked ==
  \A n \in Prepared : LinkedSoFar(n, mClasses[n], Len(Steps(n)) - 1)

LinksLeadToClasses ==
  \A n \in DOMAIN mClasses : LinksAreIn(mClasses[n], DOMAIN mClasses \cup {NoClass})

(* Each call of prepare() waits for the class the next one is busy with. *)
StackIsChain ==
  \A i, j \in DOMAIN preparing :
    j = i + 1 => StepOf(i).class = preparing[j].class /\ StepOf(i).what \in Links

(* Arrays come first, with ever fewer dimensions. *)
StackDescends ==
  \A i, j \in DOMAIN preparing :
    i < j => \/ preparing[j].class.dimensions = 0
             \/ preparing[j].class.dimensions < preparing[i].class.dimensions

LinkInv ==
  /\ FilesAreFound
  /\ StackIsLinked
  /\ PreparedAreLinked
  /\ LinksLeadToClasses
  /\ StackIsChain
  /\ StackDescends

-----------------------------------------------------------------------------
(* What the changes of table and stack come to. *)

LEMMA StackFacts ==
  ASSUME Shapes
  PROVE  /\ Len(preparing) \in Nat /\ DOMAIN preparing = 1 .. Len(preparing)
         /\ \A i \in DOMAIN preparing :
              preparing[i].class \in DOMAIN mClasses /\ preparing[i].done \in Nat
         /\ preparing # <<>> => /\ Len(preparing) \in DOMAIN preparing
                                /\ Current = preparing[Len(preparing)].class
                                /\ Last(preparing) = preparing[Len(preparing)]
                                /\ Pending = StepOf(Len(preparing))
<1> DEFINE Entry == [class : DOMAIN mClasses, done : Nat]
<1>1. preparing \in Seq(Entry)
  BY DEF Shapes
<1>2. /\ Len(preparing) \in Nat /\ DOMAIN preparing = 1 .. Len(preparing)
      /\ \A i \in DOMAIN preparing : preparing[i] \in Entry
  <2> HIDE DEF Entry
  <2> QED BY <1>1, ListFacts
<1>3. ASSUME preparing # <<>>
      PROVE  Len(preparing) \in DOMAIN preparing /\ Last(preparing) = preparing[Len(preparing)]
  <2> HIDE DEF Entry
  <2> QED BY <1>1, <1>3, TopFacts
<1>4. ASSUME preparing # <<>>
      PROVE  Current = preparing[Len(preparing)].class /\ Pending = StepOf(Len(preparing))
  BY <1>3, <1>4 DEF Current, Pending, StepOf
<1> QED
  BY <1>2, <1>3, <1>4

EntersClass(name, class) ==
  /\ DOMAIN mClasses' = DOMAIN mClasses \cup {name} /\ name \notin DOMAIN mClasses
  /\ \A n \in DOMAIN mClasses : mClasses'[n] = mClasses[n]
  /\ mClasses'[name] = class
  /\ DOMAIN preparing' = DOMAIN preparing \cup {Len(preparing) + 1}
  /\ \A i \in DOMAIN preparing : preparing'[i] = preparing[i]
  /\ preparing'[Len(preparing) + 1] = [class |-> name, done |-> 0]

LEMMA EnterEffect ==
  ASSUME Shapes, NEW name, NEW class, ~Found(name), Enter(name, class)
  PROVE  EntersClass(name, WithStatics(name, class))
<1> DEFINE Entry == [class : DOMAIN mClasses, done : Nat]
           NextEntry == [class : DOMAIN mClasses \cup {name}, done : Nat]
           entry == [class |-> name, done |-> 0]
<1>1. /\ mClasses' = [n \in DOMAIN mClasses \cup {name} |->
                       IF n = name THEN WithStatics(name, class) ELSE mClasses[n]]
      /\ preparing' = Append(preparing, entry)
  BY DEF Enter, WithEntry
<1>2. name \notin DOMAIN mClasses
  BY DEF Found
<1>3. preparing \in Seq(Entry) /\ entry \in NextEntry /\ Entry \subseteq NextEntry
  BY DEF Shapes
<1>4. /\ DOMAIN preparing' = DOMAIN preparing \cup {Len(preparing) + 1}
      /\ \A i \in DOMAIN preparing : preparing'[i] = preparing[i]
      /\ preparing'[Len(preparing) + 1] = entry
  <2> HIDE DEF Entry, NextEntry, entry
  <2> QED BY <1>1, <1>3, PushFacts
<1> QED
  BY <1>1, <1>2, <1>4 DEF EntersClass

LinksClass(class) ==
  LET n0 == Len(preparing)
  IN  /\ DOMAIN mClasses' = DOMAIN mClasses
      /\ \A n \in DOMAIN mClasses : n # Current => mClasses'[n] = mClasses[n]
      /\ mClasses'[Current] = class
      /\ DOMAIN preparing' = DOMAIN preparing
      /\ \A i \in DOMAIN preparing : i # n0 => preparing'[i] = preparing[i]
      /\ preparing'[n0].class = Current /\ preparing'[n0].done = preparing[n0].done + 1

LEMMA LinkEffect ==
  ASSUME Shapes, preparing # <<>>, preparing' = Done,
         NEW class, mClasses' = [mClasses EXCEPT ![Current] = class]
  PROVE  LinksClass(class)
<1> DEFINE Entry == [class : DOMAIN mClasses, done : Nat]
           n0 == Len(preparing)
<1>1. preparing \in Seq(Entry) /\ n0 \in DOMAIN preparing /\ Current = preparing[n0].class
      /\ Current \in DOMAIN mClasses
  BY StackFacts DEF Shapes
<1>2. preparing' = [preparing EXCEPT ![n0] = [preparing[n0] EXCEPT !.done = preparing[n0].done + 1]]
  BY DEF Done
<1>3. preparing[n0] \in Entry
  <2> HIDE DEF Entry
  <2> QED BY <1>1, ListFacts
<1>4. /\ DOMAIN preparing' = DOMAIN preparing
      /\ \A i \in DOMAIN preparing : i # n0 => preparing'[i] = preparing[i]
      /\ preparing'[n0] = [preparing[n0] EXCEPT !.done = preparing[n0].done + 1]
  BY <1>1, <1>2
<1>5. preparing'[n0].class = Current /\ preparing'[n0].done = preparing[n0].done + 1
  BY <1>1, <1>3, <1>4
<1>6. /\ DOMAIN mClasses' = DOMAIN mClasses
      /\ \A n \in DOMAIN mClasses : n # Current => mClasses'[n] = mClasses[n]
      /\ mClasses'[Current] = class
  BY <1>1 DEF Shapes
<1> QED
  BY <1>4, <1>5, <1>6 DEF LinksClass

ReturnsClass(class) ==
  /\ DOMAIN mClasses' = DOMAIN mClasses
  /\ \A n \in DOMAIN mClasses : n # Current => mClasses'[n] = mClasses[n]
  /\ mClasses'[Current] = class
  /\ DOMAIN preparing' = DOMAIN preparing \ {Len(preparing)}
  /\ \A i \in DOMAIN preparing' : preparing'[i] = preparing[i]

LEMMA ReturnEffect ==
  ASSUME Shapes, preparing # <<>>, preparing' = Front(preparing),
         NEW class, mClasses' = [mClasses EXCEPT ![Current] = class]
  PROVE  ReturnsClass(class)
<1> DEFINE Entry == [class : DOMAIN mClasses, done : Nat]
<1>1. preparing \in Seq(Entry) /\ Current \in DOMAIN mClasses
  BY StackFacts DEF Shapes
<1>2. /\ DOMAIN preparing' = DOMAIN preparing \ {Len(preparing)}
      /\ \A i \in DOMAIN preparing' : preparing'[i] = preparing[i]
  <2> HIDE DEF Entry
  <2> QED BY <1>1, PopFacts
<1>3. /\ DOMAIN mClasses' = DOMAIN mClasses
      /\ \A n \in DOMAIN mClasses : n # Current => mClasses'[n] = mClasses[n]
      /\ mClasses'[Current] = class
  BY <1>1 DEF Shapes
<1> QED
  BY <1>2, <1>3 DEF ReturnsClass

-----------------------------------------------------------------------------
(* Every step of the loader keeps that. *)

LEMMA NextInterface ==
  ASSUME NEW u \in Nat, NEW m \in Nat, NEW k \in Nat, u <= k, k < u + m
  PROVE  k - u + 1 \in 1..m
OBVIOUS

(* The classes that prepare() links are names, of fewer dimensions than an array, and *)
(* for an instance class what its file declares.                                      *)
LEMMA LinkedNames ==
  ASSUME path \in ClassPaths, NEW n \in Name, Loadable(n), NEW k \in Nat, k < Len(Steps(n)),
         Steps(n)[k + 1].what \in Links, NEW c, c = Steps(n)[k + 1].class
  PROVE  /\ c \in Name /\ n.dimensions \in Nat /\ c.dimensions \in Nat
         /\ c.dimensions = 0 \/ c.dimensions < n.dimensions
         /\ ~IsArray(n) => c.base \in {Search(n).super} \cup Range(Search(n).interfaces)
<1>1. /\ SuperOf(n) \in Name \cup {NoClass} /\ InterfacesOf(n) \in Seq(Name)
      /\ ElementOf(n) \in Name \cup {NoClass} /\ NoClass \notin Name
  BY DeclaredNames
<1>2. Supers(n) \in {0, 1} /\ Before(n) = Supers(n) + Len(InterfacesOf(n)) /\ Len(InterfacesOf(n)) \in Nat
  BY StepCount
<1>3. \A x \in Name : x.dimensions \in Nat
  BY DEF Name
<1>4. \A s, x : Step(s, x).what = s /\ Step(s, x).class = x
  BY DEF Step
<1>5. CASE Steps(n)[k + 1] = Step("super", SuperOf(n)) /\ Supers(n) = 1
  <2>1. c = SuperOf(n) /\ c \in Name
    BY <1>1, <1>4, <1>5 DEF Supers
  <2>2. CASE IsArray(n)
    <3>1. c.dimensions = 0
      BY <2>1, <2>2, InstanceNames DEF SuperOf, JavaLangObject
    <3> QED BY <2>1, <2>2, <3>1, <1>3
  <2>3. CASE ~IsArray(n)
    <3>1. c = Instance(Search(n).super)
      BY <2>1, <2>3 DEF SuperOf
    <3>2. c.dimensions = 0 /\ c.base = Search(n).super
      BY <3>1, InstanceNames
    <3> QED BY <2>1, <3>2, <1>3
  <2> QED BY <2>2, <2>3
<1>6. CASE /\ Steps(n)[k + 1] = Step("interface", InterfacesOf(n)[k - Supers(n) + 1])
           /\ Supers(n) <= k /\ k < Before(n)
  <2>1. PICK i : i = k - Supers(n) + 1
    OBVIOUS
  <2>2. i \in 1..Len(InterfacesOf(n))
    <3>1. PICK u, m \in Nat : u = Supers(n) /\ m = Len(InterfacesOf(n))
      BY <1>2
    <3>2. u <= k /\ k < u + m
      BY <1>2, <1>6, <3>1
    <3>3. k - u + 1 \in 1..m
      BY <3>2, NextInterface
    <3> QED BY <2>1, <3>1, <3>3
  <2>3. c = InterfacesOf(n)[i] /\ c \in Name
    <3>1. c = InterfacesOf(n)[i]
      BY <1>4, <1>6, <2>1
    <3> QED BY <1>1, <2>2, <3>1, ListFacts
  <2>4. CASE IsArray(n)
    <3>1. InterfacesOf(n) = <<Cloneable, Serializable>>
      BY <2>4 DEF InterfacesOf
    <3>2. c \in {Cloneable, Serializable}
      BY <2>2, <2>3, <3>1
    <3>3. c.dimensions = 0
      BY <3>2, InstanceNames DEF Cloneable, Serializable
    <3> QED BY <2>3, <2>4, <3>3, <1>3
  <2>5. CASE ~IsArray(n)
    <3>1. PICK list \in Seq(BaseNames) : list = Search(n).interfaces
      BY <2>5, SearchFacts DEF IsClassFile
    <3>2. InterfacesOf(n) = [j \in DOMAIN list |-> Instance(list[j])]
      BY <2>5, <3>1 DEF InterfacesOf
    <3>3. i \in DOMAIN list
      <4>1. DOMAIN InterfacesOf(n) = 1..Len(InterfacesOf(n))
        BY <1>1, ListFacts
      <4>2. DOMAIN InterfacesOf(n) = DOMAIN list
        BY <3>2
      <4> QED BY <2>2, <4>1, <4>2
    <3>4. c = Instance(list[i])
      BY <2>3, <3>2, <3>3
    <3>5. c.dimensions = 0 /\ c.base = list[i]
      BY <3>4, InstanceNames
    <3>6. c.base \in Range(Search(n).interfaces)
      BY <3>1, <3>3, <3>5 DEF Range
    <3> QED BY <2>3, <3>5, <3>6, <1>3
  <2> QED BY <2>4, <2>5
<1>7. CASE Steps(n)[k + 1] = Step("element", ElementOf(n)) /\ IsArray(n) /\ ElementOf(n) # NoClass
  <2>1. c = ElementType(n)
    BY <1>4, <1>7 DEF ElementOf
  <2>2. c \in Name /\ c.dimensions = n.dimensions - 1
    BY <1>7, <2>1, ElementFacts
  <2> QED BY <1>3, <1>7, <2>2
<1>8. ~\E x : Steps(n)[k + 1] \in {Step("fields", x), Step("object", x)}
  BY <1>4 DEF Links
<1> QED
  BY <1>5, <1>6, <1>7, <1>8, StepKinds

LEMMA EnterKeepsLinks ==
  ASSUME TableInv, LinkInv, path' = path, NEW name \in Name, Loadable(name), NEW class,
         EntersClass(name, class), class.status = "Allocated", DOMAIN class = Parts,
         class.super = NoClass, class.interfaces = <<>>, class.element = NoClass,
         preparing # <<>> =>
           StepOf(Len(preparing)).class = name /\ StepOf(Len(preparing)).what \in Links
  PROVE  LinkInv'
<1> PICK m \in Nat : m = Len(preparing) /\ DOMAIN preparing = 1..m
  BY StackFacts DEF TableInv
<1>1. \A i \in DOMAIN preparing :
        /\ preparing[i].class \in DOMAIN mClasses /\ preparing[i].done \in Nat
        /\ preparing[i].class \in Name /\ Loadable(preparing[i].class)
        /\ preparing[i].done < Len(Steps(preparing[i].class))
  BY StackFacts DEF TableInv, LinkInv, FilesAreFound, StackIsLinked
<1>2. /\ DOMAIN mClasses' = DOMAIN mClasses \cup {name} /\ name \notin DOMAIN mClasses
      /\ \A n \in DOMAIN mClasses : mClasses'[n] = mClasses[n]
      /\ mClasses'[name] = class
      /\ DOMAIN preparing' = 1..m + 1
      /\ \A i \in 1..m : preparing'[i] = preparing[i]
      /\ preparing'[m + 1].class = name /\ preparing'[m + 1].done = 0
  BY DEF EntersClass
<1>3. path \in ClassPaths
  BY DEF LinkInv, FilesAreFound
<1>4. LinkedSoFar(name, class, 0) /\ \A S : NoClass \in S => LinksAreIn(class, S)
  BY <1>3, NothingLinked
<1>5. FilesAreFound'
  BY <1>2, <1>3, SameFiles DEF LinkInv, FilesAreFound
<1>6. StackIsLinked'
  <2> SUFFICES ASSUME NEW i \in DOMAIN preparing'
               PROVE  (/\ preparing[i].done < Len(Steps(preparing[i].class))
                       /\ LinkedSoFar(preparing[i].class, mClasses[preparing[i].class], preparing[i].done))'
    BY DEF StackIsLinked
  <2>1. CASE i \in 1..m
    <3>1. PICK n, k, old : n = preparing[i].class /\ k = preparing[i].done /\ old = mClasses[n]
      OBVIOUS
    <3>2. k < Len(Steps(n)) /\ LinkedSoFar(n, old, k)
      BY <2>1, <3>1 DEF LinkInv, StackIsLinked
    <3>3. LinkedSoFar(n, old, k)' /\ Steps(n)' = Steps(n)
      BY <3>2, SoFarStays, SameFiles
    <3>4. preparing'[i].class = n /\ preparing'[i].done = k /\ mClasses'[n] = old
      BY <1>1, <1>2, <2>1, <3>1
    <3> QED BY <3>2, <3>3, <3>4
  <2>2. CASE i = m + 1
    <3>1. LinkedSoFar(name, class, 0)' /\ Steps(name)' = Steps(name)
      BY <1>4, SoFarStays, SameFiles
    <3>2. 0 < Len(Steps(name))
      BY <1>3, StepCount
    <3>3. preparing'[i].class = name /\ preparing'[i].done = 0 /\ mClasses'[name] = class
      BY <1>2, <2>2
    <3> QED BY <3>1, <3>2, <3>3
  <2>3. i \in 1..m \/ i = m + 1
    BY <1>2
  <2> QED BY <2>1, <2>2, <2>3
<1>7. PreparedAreLinked'
  <2> SUFFICES ASSUME NEW n \in Prepared'
               PROVE  LinkedSoFar(n, mClasses[n], Len(Steps(n)) - 1)'
    BY DEF PreparedAreLinked
  <2>1. n \in Prepared /\ mClasses'[n] = mClasses[n]
    BY <1>2 DEF Prepared, Loaded
  <2>2. PICK k, old : k = Len(Steps(n)) - 1 /\ old = mClasses[n]
    OBVIOUS
  <2>3. LinkedSoFar(n, old, k)
    BY <2>1, <2>2 DEF LinkInv, PreparedAreLinked
  <2>4. LinkedSoFar(n, old, k)' /\ Steps(n)' = Steps(n)
    BY <2>3, SoFarStays, SameFiles
  <2> QED BY <2>1, <2>2, <2>4
<1>8. LinksLeadToClasses'
  BY <1>2, <1>4 DEF LinkInv, LinksLeadToClasses, LinksAreIn
<1>9. \A i \in 1..m : StepOf(i)' = StepOf(i)
  <2> SUFFICES ASSUME NEW i \in 1..m PROVE StepOf(i)' = StepOf(i)
    OBVIOUS
  <2>1. PICK n, k : n = preparing[i].class /\ k = preparing[i].done
    OBVIOUS
  <2>2. Steps(n)' = Steps(n) /\ preparing'[i].class = n /\ preparing'[i].done = k
    BY <1>2, <2>1, SameFiles
  <2> QED BY <2>1, <2>2 DEF StepOf
<1>10. m # 0 => /\ preparing # <<>> /\ m \in DOMAIN preparing
                /\ StepOf(m).class = name /\ StepOf(m).what \in Links
  BY <1>1
<1>11. StackIsChain'
  <2> SUFFICES ASSUME NEW i \in DOMAIN preparing', NEW j \in DOMAIN preparing', j = i + 1
               PROVE  StepOf(i)'.class = preparing'[j].class /\ StepOf(i)'.what \in Links
    BY DEF StackIsChain
  <2>1. CASE j \in 1..m
    <3>1. i \in 1..m
      BY <1>2, <2>1
    <3> QED BY <1>2, <1>9, <2>1, <3>1 DEF LinkInv, StackIsChain
  <2>2. CASE j = m + 1
    <3>1. i = m /\ m # 0 /\ i \in 1..m
      BY <1>2, <2>2
    <3> QED BY <1>2, <1>9, <1>10, <2>2, <3>1
  <2> QED BY <1>2, <2>1, <2>2
<1>12. StackDescends'
  <2> SUFFICES ASSUME NEW i \in DOMAIN preparing', NEW j \in DOMAIN preparing', i < j
               PROVE  \/ preparing'[j].class.dimensions = 0
                      \/ preparing'[j].class.dimensions < preparing'[i].class.dimensions
    BY DEF StackDescends
  <2>1. CASE j \in 1..m
    <3>1. i \in 1..m
      BY <1>2, <2>1
    <3> QED BY <1>2, <2>1, <3>1 DEF LinkInv, StackDescends
  <2>2. CASE j = m + 1
    <3>1. i \in 1..m /\ m # 0
      BY <1>2, <2>2
    <3>2. PICK n, k : n = preparing[m].class /\ k = preparing[m].done
      OBVIOUS
    <3>3. /\ n.dimensions \in Nat /\ name.dimensions \in Nat
          /\ name.dimensions = 0 \/ name.dimensions < n.dimensions
      BY <1>1, <1>3, <1>10, <3>1, <3>2, LinkedNames DEF StepOf
    <3>4. preparing'[i].class = preparing[i].class /\ preparing'[j].class = name
      BY <1>2, <2>2, <3>1
    <3>5. i = m \/ n.dimensions = 0 \/ n.dimensions < preparing[i].class.dimensions
      BY <1>10, <3>1, <3>2 DEF LinkInv, StackDescends
    <3>6. preparing[i].class.dimensions \in Nat
      BY <1>1, <3>1 DEF Name
    <3>7. PICK a, b, c \in Nat : a = name.dimensions /\ b = n.dimensions /\ c = preparing[i].class.dimensions
      BY <3>3, <3>6
    <3>8. a = 0 \/ a < c
      BY <3>2, <3>3, <3>5, <3>7
    <3> QED BY <3>4, <3>7, <3>8
  <2> QED BY <1>2, <2>1, <2>2
<1> QED
  BY <1>5, <1>6, <1>7, <1>8, <1>11, <1>12 DEF LinkInv

LEMMA LinkKeepsLinks ==
  ASSUME TableInv, LinkInv, path' = path, preparing # <<>>, NEW class, LinksClass(class),
         NEW k, k = preparing[Len(preparing)].done, k + 1 < Len(Steps(Current)),
         class.status = mClasses[Current].status, DOMAIN class = Parts,
         LinkedSoFar(Current, class, k + 1), LinksAreIn(class, DOMAIN mClasses \cup {NoClass})
  PROVE  LinkInv'
<1> PICK m \in Nat : m = Len(preparing) /\ DOMAIN preparing = 1..m /\ m \in 1..m
  BY StackFacts DEF TableInv
<1> PICK c : c = Current
  OBVIOUS
<1>1. /\ \A i \in DOMAIN preparing : preparing[i].class \in DOMAIN mClasses /\ preparing[i].done \in Nat
      /\ c = preparing[m].class /\ c \in DOMAIN mClasses
      /\ \A i \in 1..m : i # m => preparing[i].class # c
  BY StackFacts DEF TableInv, NoCircularPreparation
<1>2. /\ DOMAIN mClasses' = DOMAIN mClasses
      /\ \A n \in DOMAIN mClasses : n # c => mClasses'[n] = mClasses[n]
      /\ mClasses'[c] = class
      /\ DOMAIN preparing' = 1..m
      /\ \A i \in 1..m : i # m => preparing'[i] = preparing[i]
      /\ preparing'[m].class = c /\ preparing'[m].done = k + 1
  BY DEF LinksClass
<1>3. FilesAreFound'
  BY <1>1, <1>2, SameFiles DEF LinkInv, FilesAreFound
<1>4. StackIsLinked'
  <2> SUFFICES ASSUME NEW i \in DOMAIN preparing'
               PROVE  (/\ preparing[i].done < Len(Steps(preparing[i].class))
                       /\ LinkedSoFar(preparing[i].class, mClasses[preparing[i].class], preparing[i].done))'
    BY DEF StackIsLinked
  <2>1. CASE i # m
    <3>1. PICK n, j, old : n = preparing[i].class /\ j = preparing[i].done /\ old = mClasses[n]
      OBVIOUS
    <3>2. j < Len(Steps(n)) /\ LinkedSoFar(n, old, j)
      BY <1>2, <2>1, <3>1 DEF LinkInv, StackIsLinked
    <3>3. LinkedSoFar(n, old, j)' /\ Steps(n)' = Steps(n)
      BY <3>2, SoFarStays, SameFiles
    <3>4. preparing'[i].class = n /\ preparing'[i].done = j /\ mClasses'[n] = old
      BY <1>1, <1>2, <2>1, <3>1
    <3> QED BY <3>2, <3>3, <3>4
  <2>2. CASE i = m
    <3>1. PICK k1 : k1 = k + 1
      OBVIOUS
    <3>2. LinkedSoFar(c, class, k1)' /\ Steps(c)' = Steps(c)
      BY <3>1, SoFarStays, SameFiles
    <3>3. preparing'[i].class = c /\ preparing'[i].done = k1 /\ mClasses'[c] = class
      BY <1>2, <2>2, <3>1
    <3>4. k1 < Len(Steps(c))
      BY <3>1
    <3> QED BY <3>2, <3>3, <3>4
  <2> QED BY <2>1, <2>2
<1>5. PreparedAreLinked'
  <2> SUFFICES ASSUME NEW n \in Prepared'
               PROVE  LinkedSoFar(n, mClasses[n], Len(Steps(n)) - 1)'
    BY DEF PreparedAreLinked
  <2>1. c \notin Prepared
    BY <1>1, <1>2 DEF TableInv, UnpreparedAreOnStack, OnStack, Prepared, Loaded
  <2>2. n # c /\ n \in Prepared /\ mClasses'[n] = mClasses[n]
    BY <1>1, <1>2, <2>1 DEF Prepared, Loaded
  <2>3. PICK j, old : j = Len(Steps(n)) - 1 /\ old = mClasses[n]
    OBVIOUS
  <2>4. LinkedSoFar(n, old, j)
    BY <2>2, <2>3 DEF LinkInv, PreparedAreLinked
  <2>5. LinkedSoFar(n, old, j)' /\ Steps(n)' = Steps(n)
    BY <2>4, SoFarStays, SameFiles
  <2> QED BY <2>2, <2>3, <2>5
<1>6. LinksLeadToClasses'
  BY <1>1, <1>2 DEF LinkInv, LinksLeadToClasses
<1>7. \A i \in 1..m : i # m => StepOf(i)' = StepOf(i)
  <2> SUFFICES ASSUME NEW i \in 1..m, i # m PROVE StepOf(i)' = StepOf(i)
    OBVIOUS
  <2>1. PICK n, j : n = preparing[i].class /\ j = preparing[i].done
    OBVIOUS
  <2>2. Steps(n)' = Steps(n) /\ preparing'[i].class = n /\ preparing'[i].done = j
    BY <1>2, <2>1, SameFiles
  <2> QED BY <2>1, <2>2 DEF StepOf
<1>8. \A i \in 1..m : preparing'[i].class = preparing[i].class
  BY <1>1, <1>2
<1>9. StackIsChain'
  <2> SUFFICES ASSUME NEW i \in 1..m, NEW j \in 1..m, j = i + 1
               PROVE  StepOf(i)'.class = preparing'[j].class /\ StepOf(i)'.what \in Links
    BY <1>2 DEF StackIsChain
  <2>1. i # m
    OBVIOUS
  <2> QED BY <1>7, <1>8, <2>1 DEF LinkInv, StackIsChain
<1>10. StackDescends'
  <2>1. \A i, j \in 1..m :
          i < j => \/ preparing'[j].class.dimensions = 0
                   \/ preparing'[j].class.dimensions < preparing'[i].class.dimensions
    BY <1>8 DEF LinkInv, StackDescends
  <2> QED BY <1>2, <2>1 DEF StackDescends
<1> QED
  BY <1>3, <1>4, <1>5, <1>6, <1>9, <1>10 DEF LinkInv

LEMMA ReturnKeepsLinks ==
  ASSUME TableInv, LinkInv, path' = path, preparing # <<>>, NEW class, ReturnsClass(class),
         preparing[Len(preparing)].done = Len(Steps(Current)) - 1,
         class.super = mClasses[Current].super, class.interfaces = mClasses[Current].interfaces,
         class.element = mClasses[Current].element, DOMAIN class = Parts
  PROVE  LinkInv'
<1> PICK m \in Nat : m = Len(preparing) /\ DOMAIN preparing = 1..m /\ m \in 1..m
  BY StackFacts DEF TableInv
<1> PICK c : c = Current
  OBVIOUS
<1>1. /\ \A i \in DOMAIN preparing : preparing[i].class \in DOMAIN mClasses /\ preparing[i].done \in Nat
      /\ c = preparing[m].class /\ c \in DOMAIN mClasses
      /\ \A i \in 1..m : i # m => preparing[i].class # c
  BY StackFacts DEF TableInv, NoCircularPreparation
<1>2. /\ DOMAIN mClasses' = DOMAIN mClasses
      /\ \A n \in DOMAIN mClasses : n # c => mClasses'[n] = mClasses[n]
      /\ mClasses'[c] = class
      /\ DOMAIN preparing' = (1..m) \ {m}
      /\ \A i \in (1..m) \ {m} : preparing'[i] = preparing[i]
  BY DEF ReturnsClass
<1>3. FilesAreFound'
  BY <1>1, <1>2, SameFiles DEF LinkInv, FilesAreFound
<1>4. StackIsLinked'
  <2> SUFFICES ASSUME NEW i \in DOMAIN preparing'
               PROVE  (/\ preparing[i].done < Len(Steps(preparing[i].class))
                       /\ LinkedSoFar(preparing[i].class, mClasses[preparing[i].class], preparing[i].done))'
    BY DEF StackIsLinked
  <2>1. PICK n, j, old : n = preparing[i].class /\ j = preparing[i].done /\ old = mClasses[n]
    OBVIOUS
  <2>2. j < Len(Steps(n)) /\ LinkedSoFar(n, old, j)
    BY <1>2, <2>1 DEF LinkInv, StackIsLinked
  <2>3. LinkedSoFar(n, old, j)' /\ Steps(n)' = Steps(n)
    BY <2>2, SoFarStays, SameFiles
  <2>4. preparing'[i].class = n /\ preparing'[i].done = j /\ mClasses'[n] = old
    BY <1>1, <1>2, <2>1
  <2> QED BY <2>2, <2>3, <2>4
<1>5. PreparedAreLinked'
  <2> SUFFICES ASSUME NEW n \in Prepared'
               PROVE  LinkedSoFar(n, mClasses[n], Len(Steps(n)) - 1)'
    BY DEF PreparedAreLinked
  <2>1. PICK j, new : j = Len(Steps(n)) - 1 /\ new = mClasses'[n]
    OBVIOUS
  <2>2. LinkedSoFar(n, new, j)
    <3>1. CASE n = c
      <4>1. PICK old : old = mClasses[c]
        OBVIOUS
      <4>2. LinkedSoFar(c, old, j)
        BY <1>1, <2>1, <3>1, <4>1 DEF LinkInv, StackIsLinked
      <4>3. new.super = old.super /\ new.interfaces = old.interfaces /\ new.element = old.element
        BY <1>2, <2>1, <3>1, <4>1
      <4> QED BY <3>1, <4>2, <4>3 DEF LinkedSoFar
    <3>2. CASE n # c
      <4>1. n \in Prepared /\ mClasses'[n] = mClasses[n]
        BY <1>2, <3>2 DEF Prepared, Loaded
      <4> QED BY <2>1, <4>1 DEF LinkInv, PreparedAreLinked
    <3> QED BY <3>1, <3>2
  <2>3. LinkedSoFar(n, new, j)' /\ Steps(n)' = Steps(n)
    BY <2>2, SoFarStays, SameFiles
  <2> QED BY <2>1, <2>3
<1>6. LinksLeadToClasses'
  <2>1. LinksAreIn(class, DOMAIN mClasses \cup {NoClass})
    BY <1>1 DEF LinkInv, LinksLeadToClasses, LinksAreIn
  <2> QED BY <1>1, <1>2, <2>1 DEF LinkInv, LinksLeadToClasses
<1>7. \A i \in (1..m) \ {m} : StepOf(i)' = StepOf(i)
  <2> SUFFICES ASSUME NEW i \in (1..m) \ {m} PROVE StepOf(i)' = StepOf(i)
    OBVIOUS
  <2>1. PICK n, j : n = preparing[i].class /\ j = preparing[i].done
    OBVIOUS
  <2>2. Steps(n)' = Steps(n) /\ preparing'[i].class = n /\ preparing'[i].done = j
    BY <1>2, <2>1, SameFiles
  <2> QED BY <2>1, <2>2 DEF StepOf
<1>8. StackIsChain'
  BY <1>2, <1>7 DEF LinkInv, StackIsChain
<1>9. StackDescends'
  BY <1>2 DEF LinkInv, StackDescends
<1> QED
  BY <1>3, <1>4, <1>5, <1>6, <1>8, <1>9 DEF LinkInv

(* What the pending step is, by its kind. *)
LEMMA PendingFacts ==
  ASSUME TableInv, LinkInv, preparing # <<>>
  PROVE  \E k \in Nat :
           LET n == Current IN
           /\ k = preparing[Len(preparing)].done /\ k < Len(Steps(n))
           /\ path \in ClassPaths /\ n \in Name /\ Loadable(n)
           /\ DOMAIN mClasses[n] = Parts /\ LinkedSoFar(n, mClasses[n], k)
           /\ Pending = Steps(n)[k + 1]
           /\ \/ /\ Pending = Step("super", SuperOf(n)) /\ k = 0 /\ Supers(n) = 1
              \/ /\ Pending = Step("interface", InterfacesOf(n)[k - Supers(n) + 1])
                 /\ Supers(n) <= k /\ k < Before(n)
              \/ /\ Pending = Step("element", ElementOf(n))
                 /\ k = Before(n) /\ IsArray(n) /\ ElementOf(n) # NoClass
              \/ Pending = Step("fields", NoClass) /\ k = Before(n) /\ ~IsArray(n)
              \/ Pending = Step("object", JavaLangClass) /\ k + 1 = Len(Steps(n))
<1>1. PICK m : /\ m = Len(preparing) /\ m \in DOMAIN preparing
               /\ Current = preparing[m].class /\ Pending = StepOf(m)
               /\ preparing[m].class \in DOMAIN mClasses /\ preparing[m].done \in Nat
  BY StackFacts DEF TableInv
<1>2. PICK n : n = Current /\ n = preparing[m].class
  BY <1>1
<1>0. PICK k \in Nat : k = preparing[m].done
  BY <1>1
<1>3. /\ k < Len(Steps(n)) /\ path \in ClassPaths /\ n \in Name /\ Loadable(n)
      /\ DOMAIN mClasses[n] = Parts /\ LinkedSoFar(n, mClasses[n], k)
  BY <1>0, <1>1, <1>2 DEF LinkInv, FilesAreFound, StackIsLinked
<1>4. Pending = Steps(n)[k + 1]
  BY <1>0, <1>1, <1>2 DEF StepOf
<1>5. \/ /\ Pending = Step("super", SuperOf(n)) /\ k = 0 /\ Supers(n) = 1
      \/ /\ Pending = Step("interface", InterfacesOf(n)[k - Supers(n) + 1])
         /\ Supers(n) <= k /\ k < Before(n)
      \/ /\ Pending = Step("element", ElementOf(n))
         /\ k = Before(n) /\ IsArray(n) /\ ElementOf(n) # NoClass
      \/ Pending = Step("fields", NoClass) /\ k = Before(n) /\ ~IsArray(n)
      \/ Pending = Step("object", JavaLangClass) /\ k + 1 = Len(Steps(n))
  BY <1>3, <1>4, StepKinds
<1> QED
  BY <1>0, <1>1, <1>2, <1>3, <1>4, <1>5

LEMMA NewClassParts ==
  ASSUME NEW name, NEW class,
         class \in {WithStatics(name, NewClass(name)), WithStatics(name, LaidOut(name, NewClass(name)))}
  PROVE  /\ DOMAIN class = Parts /\ class.status = "Allocated"
         /\ class.super = NoClass /\ class.interfaces = <<>> /\ class.element = NoClass
<1>1. ASSUME NEW c, DOMAIN c = Parts, NEW fields
      PROVE  LET d == [c EXCEPT !.fields = fields]
             IN  /\ DOMAIN d = Parts /\ d.status = c.status /\ d.super = c.super
                 /\ d.interfaces = c.interfaces /\ d.element = c.element
  BY <1>1 DEF Parts
<1>2. ASSUME NEW c, DOMAIN c = Parts
      PROVE  LET d == WithStatics(name, c)
             IN  /\ DOMAIN d = Parts /\ d.status = c.status /\ d.super = c.super
                 /\ d.interfaces = c.interfaces /\ d.element = c.element
  BY <1>1, <1>2 DEF WithStatics
<1>3. PICK new : new = NewClass(name)
  OBVIOUS
<1>4. /\ DOMAIN new = Parts /\ new.status = "Allocated"
      /\ new.super = NoClass /\ new.interfaces = <<>> /\ new.element = NoClass
  BY <1>3 DEF NewClass, Parts
<1>5. PICK laidOut : laidOut = LaidOut(name, new)
  OBVIOUS
<1>6. /\ DOMAIN laidOut = Parts /\ laidOut.status = "Allocated"
      /\ laidOut.super = NoClass /\ laidOut.interfaces = <<>> /\ laidOut.element = NoClass
  BY <1>4, <1>5 DEF LaidOut, WithLayout, Parts
<1> QED
  BY <1>2, <1>3, <1>4, <1>5, <1>6

LEMMA InitLinked == Init => LinkInv
<1>1. \A n : NoClass.dimensions = 0
  BY InstanceNames DEF NoClass
<1> QED
  BY DEF Init, LinkInv, FilesAreFound, StackIsLinked, PreparedAreLinked, LinksLeadToClasses,
         StackIsChain, StackDescends, Prepared, Loaded

LEMMA UnchangedKeepsLinks ==
  ASSUME LinkInv, UNCHANGED <<path, mClasses, preparing>>
  PROVE  LinkInv'
<1>1. \A i \in DOMAIN preparing : StepOf(i)' = StepOf(i)
  BY SameFiles DEF StepOf
<1>2. FilesAreFound'
  BY SameFiles DEF LinkInv, FilesAreFound
<1>3. StackIsLinked'
  BY SameFiles, SoFarStays DEF LinkInv, StackIsLinked
<1>4. PreparedAreLinked'
  <2> SUFFICES ASSUME NEW n \in Prepared'
               PROVE  LinkedSoFar(n, mClasses[n], Len(Steps(n)) - 1)'
    BY DEF PreparedAreLinked
  <2>1. PICK j, old : j = Len(Steps(n)) - 1 /\ old = mClasses[n]
    OBVIOUS
  <2>2. LinkedSoFar(n, old, j)
    BY <2>1 DEF LinkInv, PreparedAreLinked, Prepared, Loaded
  <2>3. LinkedSoFar(n, old, j)' /\ Steps(n)' = Steps(n)
    BY <2>2, SoFarStays, SameFiles
  <2> QED BY <2>1, <2>3
<1>5. LinksLeadToClasses'
  BY DEF LinkInv, LinksLeadToClasses
<1>6. StackIsChain' /\ StackDescends'
  BY <1>1 DEF LinkInv, StackIsChain, StackDescends
<1> QED
  BY <1>2, <1>3, <1>4, <1>5, <1>6 DEF LinkInv

(* A class that is entered is one that may be loaded, and the one that the top of the *)
(* stack waits for.                                                                   *)
LEMMA NestedIsLinked ==
  ASSUME TableInv, Progress, LinkInv, LoadNested
  PROVE  /\ Pending.class \in Name /\ Pending.what \in Links
         /\ Pending = StepOf(Len(preparing))
<1>1. /\ Busy /\ preparing # <<>> /\ Pending.what # "fields" /\ ~Found(Pending.class)
  BY DEF LoadNested, Busy
<1>2. Pending = StepOf(Len(preparing))
  BY <1>1, StackFacts DEF TableInv
<1>3. PICK n : n = Current
  OBVIOUS
<1>4. PICK k \in Nat :
        /\ k < Len(Steps(n)) /\ path \in ClassPaths /\ n \in Name /\ Loadable(n)
        /\ Pending = Steps(n)[k + 1]
        /\ \/ Pending = Step("super", SuperOf(n))
           \/ Pending = Step("interface", InterfacesOf(n)[k - Supers(n) + 1])
           \/ Pending = Step("element", ElementOf(n))
           \/ Pending = Step("fields", NoClass)
           \/ Pending = Step("object", JavaLangClass)
  BY <1>1, <1>3, PendingFacts
<1>5. \A s, x : Step(s, x).what = s /\ Step(s, x).class = x
  BY DEF Step
<1>6. Pending # Step("object", JavaLangClass)
  BY <1>1, <1>5 DEF Progress, Found
<1>7. Pending.what \in Links
  BY <1>1, <1>4, <1>5, <1>6 DEF Links
<1>8. Pending.class \in Name
  BY <1>4, <1>7, LinkedNames
<1> QED
  BY <1>2, <1>7, <1>8

LEMMA NextKeepsLinks == ASSUME IInv, LinkInv, [Next]_vars PROVE LinkInv'
<1>0. TableInv /\ Shapes /\ Progress
  BY DEF IInv, TableInv
<1>1. ASSUME UNCHANGED <<path, mClasses, preparing>> PROVE LinkInv'
  BY <1>1, UnchangedKeepsLinks
<1>2. ASSUME NEW name \in Name, Loadable(name), ~Found(name), path' = path, Enter(name, NewClass(name)),
             preparing # <<>> =>
               StepOf(Len(preparing)).class = name /\ StepOf(Len(preparing)).what \in Links
      PROVE  LinkInv'
  <2>1. PICK class : class = WithStatics(name, NewClass(name))
    OBVIOUS
  <2>2. EntersClass(name, class)
    BY <1>0, <1>2, <2>1, EnterEffect
  <2>3. /\ DOMAIN class = Parts /\ class.status = "Allocated"
        /\ class.super = NoClass /\ class.interfaces = <<>> /\ class.element = NoClass
    BY <2>1, NewClassParts
  <2> QED BY <1>0, <1>2, <2>2, <2>3, EnterKeepsLinks
<1>3. CASE LoadNested
  <2>1. PICK name : name = Pending.class
    OBVIOUS
  <2>2. /\ name \in Name /\ StepOf(Len(preparing)).class = name
        /\ StepOf(Len(preparing)).what \in Links
    BY <1>0, <1>3, <2>1, NestedIsLinked
  <2>3. Loadable(name) /\ ~Found(name) /\ path' = path /\ Enter(name, NewClass(name))
    BY <1>3, <2>1 DEF LoadNested
  <2> QED BY <1>2, <2>2, <2>3
<1>4. CASE FailNested
  BY <1>1, <1>4 DEF FailNested
<1>5. ASSUME preparing # <<>>, preparing' = Done, path' = path,
             NEW class, mClasses' = [mClasses EXCEPT ![Current] = class],
             NEW k \in Nat, k = preparing[Len(preparing)].done, k + 1 < Len(Steps(Current)),
             class.status = mClasses[Current].status, DOMAIN class = Parts,
             LinkedSoFar(Current, class, k + 1), LinksAreIn(class, DOMAIN mClasses \cup {NoClass})
      PROVE  LinkInv'
  <2>1. LinksClass(class)
    BY <1>0, <1>5, LinkEffect
  <2> QED BY <1>0, <1>5, <2>1, LinkKeepsLinks
<1>6. \A s, x : Step(s, x).what = s /\ Step(s, x).class = x
  BY DEF Step
<1>7. ASSUME preparing # <<>>, \E what : At(what)
      PROVE  \E k \in Nat, n \in Name :
               /\ n = Current /\ k = preparing[Len(preparing)].done /\ k < Len(Steps(n))
               /\ n \in DOMAIN mClasses
               /\ path \in ClassPaths /\ Loadable(n)
               /\ DOMAIN mClasses[n] = Parts /\ LinkedSoFar(n, mClasses[n], k)
               /\ LinksAreIn(mClasses[n], DOMAIN mClasses \cup {NoClass})
               /\ Pending.what # "fields" => Pending.class \in DOMAIN mClasses
               /\ Pending.what = "super" =>
                    Pending.class = SuperOf(n) /\ k = 0 /\ Supers(n) = 1
               /\ Pending.what = "interface" =>
                    /\ Pending.class = InterfacesOf(n)[k - Supers(n) + 1]
                    /\ Supers(n) <= k /\ k < Before(n)
               /\ Pending.what = "element" =>
                    Pending.class = ElementOf(n) /\ k = Before(n) /\ IsArray(n) /\ ElementOf(n) # NoClass
               /\ Pending.what = "fields" => k = Before(n) /\ ~IsArray(n)
               /\ Pending.what = "object" => k + 1 = Len(Steps(n))
  <2>1. PICK n : n = Current
    OBVIOUS
  <2>2. PICK k \in Nat :
           /\ k = preparing[Len(preparing)].done /\ k < Len(Steps(n))
           /\ path \in ClassPaths /\ n \in Name /\ Loadable(n)
           /\ DOMAIN mClasses[n] = Parts /\ LinkedSoFar(n, mClasses[n], k)
           /\ \/ /\ Pending = Step("super", SuperOf(n)) /\ k = 0 /\ Supers(n) = 1
              \/ /\ Pending = Step("interface", InterfacesOf(n)[k - Supers(n) + 1])
                 /\ Supers(n) <= k /\ k < Before(n)
              \/ /\ Pending = Step("element", ElementOf(n))
                 /\ k = Before(n) /\ IsArray(n) /\ ElementOf(n) # NoClass
              \/ Pending = Step("fields", NoClass) /\ k = Before(n) /\ ~IsArray(n)
              \/ Pending = Step("object", JavaLangClass) /\ k + 1 = Len(Steps(n))
    BY <1>0, <1>7, <2>1, PendingFacts
  <2>3. Pending.what # "fields" => Pending.class \in DOMAIN mClasses
    BY <1>7 DEF At, Found
  <2>4. n \in DOMAIN mClasses
    BY <1>0, <1>7, <2>1, StackFacts
  <2>5. LinksAreIn(mClasses[n], DOMAIN mClasses \cup {NoClass})
    BY <2>4 DEF LinkInv, LinksLeadToClasses
  <2>6. /\ Pending.what = "super" =>
             Pending.class = SuperOf(n) /\ k = 0 /\ Supers(n) = 1
        /\ Pending.what = "interface" =>
             /\ Pending.class = InterfacesOf(n)[k - Supers(n) + 1]
             /\ Supers(n) <= k /\ k < Before(n)
        /\ Pending.what = "element" =>
             Pending.class = ElementOf(n) /\ k = Before(n) /\ IsArray(n) /\ ElementOf(n) # NoClass
        /\ Pending.what = "fields" => k = Before(n) /\ ~IsArray(n)
        /\ Pending.what = "object" => k + 1 = Len(Steps(n))
    BY <1>6, <2>2
  <2> QED BY <2>1, <2>2, <2>3, <2>4, <2>5, <2>6
<1>8. CASE LinkSuperClass
  <2>1. preparing # <<>> /\ At("super") /\ preparing' = Done /\ path' = path
    BY <1>8 DEF LinkSuperClass, At
  <2>2. PICK k \in Nat, n \in Name :
          /\ n = Current /\ k = preparing[Len(preparing)].done
          /\ n \in DOMAIN mClasses /\ path \in ClassPaths /\ Loadable(n)
          /\ DOMAIN mClasses[n] = Parts /\ LinkedSoFar(n, mClasses[n], k)
          /\ LinksAreIn(mClasses[n], DOMAIN mClasses \cup {NoClass})
          /\ Pending.class \in DOMAIN mClasses
          /\ Pending.class = SuperOf(n) /\ k = 0 /\ Supers(n) = 1
    BY <1>7, <2>1 DEF At
  <2>3. PICK old, class : old = mClasses[n] /\ class = [old EXCEPT !.super = Pending.class]
    OBVIOUS
  <2>4. /\ class.super = SuperOf(n) /\ class.status = old.status /\ DOMAIN class = Parts
        /\ class.interfaces = old.interfaces /\ class.element = old.element
    BY <2>2, <2>3 DEF Parts
  <2>5. mClasses' = [mClasses EXCEPT ![Current] = class]
    BY <1>8, <2>2, <2>3 DEF LinkSuperClass
  <2>6. LinkedSoFar(n, class, k + 1)
    <3>1. LinkedSoFar(n, old, 0) /\ k + 1 = 1
      BY <2>2, <2>3
    <3>2. LinkedSoFar(n, class, 1)
      BY <2>2, <2>4, <3>1, SuperLinked
    <3> QED BY <3>1, <3>2
  <2>7. LinksAreIn(class, DOMAIN mClasses \cup {NoClass})
    BY <2>2, <2>3, <2>4 DEF LinksAreIn
  <2>8. k + 1 < Len(Steps(n))
    BY <2>2, StepCount
  <2> QED BY <1>5, <2>1, <2>2, <2>3, <2>4, <2>5, <2>6, <2>7, <2>8
<1>9. CASE LinkSuperInterface
  <2>1. preparing # <<>> /\ At("interface") /\ preparing' = Done /\ path' = path
    BY <1>9 DEF LinkSuperInterface, At
  <2>2. PICK k \in Nat, n \in Name :
          /\ n = Current /\ k = preparing[Len(preparing)].done
          /\ n \in DOMAIN mClasses /\ path \in ClassPaths /\ Loadable(n)
          /\ DOMAIN mClasses[n] = Parts /\ LinkedSoFar(n, mClasses[n], k)
          /\ LinksAreIn(mClasses[n], DOMAIN mClasses \cup {NoClass})
          /\ Pending.class \in DOMAIN mClasses
          /\ Pending.class = InterfacesOf(n)[k - Supers(n) + 1]
          /\ Supers(n) <= k /\ k < Before(n)
    BY <1>7, <2>1 DEF At
  <2>3. PICK old, list, class :
          /\ old = mClasses[n] /\ list = old.interfaces
          /\ class = [old EXCEPT !.interfaces = Append(list, Pending.class)]
    OBVIOUS
  <2>4. /\ class.super = old.super /\ class.status = old.status /\ DOMAIN class = Parts
        /\ class.interfaces = Append(list, Pending.class) /\ class.element = old.element
    BY <2>2, <2>3 DEF Parts
  <2>5. mClasses' = [mClasses EXCEPT ![Current] = class]
    BY <1>9, <2>2, <2>3 DEF LinkSuperInterface
  <2>6. LinkedSoFar(n, class, k + 1)
    BY <2>2, <2>3, <2>4, InterfaceLinked
  <2>7. LinksAreIn(class, DOMAIN mClasses \cup {NoClass})
    <3>1. PICK S : S = DOMAIN mClasses \cup {NoClass}
      OBVIOUS
    <3>2. list \in Seq(Name)
      BY <2>2, <2>3 DEF LinkedSoFar
    <3>3. PICK c : c = Pending.class /\ c \in S
      BY <2>2, <3>1
    <3>4. \A i \in 1..Len(Append(list, c)) :
            Append(list, c)[i] = c \/ (i \in 1..Len(list) /\ Append(list, c)[i] = list[i])
      BY <3>2
    <3>5. class.super \in S /\ class.element \in S /\ \A i \in 1..Len(list) : list[i] \in S
      BY <2>2, <2>3, <2>4, <3>1 DEF LinksAreIn
    <3> QED BY <2>4, <3>1, <3>3, <3>4, <3>5 DEF LinksAreIn
  <2>8. k + 1 < Len(Steps(n))
    BY <2>2, StepCount
  <2> QED BY <1>5, <2>1, <2>2, <2>3, <2>4, <2>5, <2>6, <2>7, <2>8
<1>10. CASE LinkElement
  <2>1. preparing # <<>> /\ At("element") /\ preparing' = Done /\ path' = path
    BY <1>10 DEF LinkElement, At
  <2>2. PICK k \in Nat, n \in Name :
          /\ n = Current /\ k = preparing[Len(preparing)].done
          /\ n \in DOMAIN mClasses /\ path \in ClassPaths /\ Loadable(n)
          /\ DOMAIN mClasses[n] = Parts /\ LinkedSoFar(n, mClasses[n], k)
          /\ LinksAreIn(mClasses[n], DOMAIN mClasses \cup {NoClass})
          /\ Pending.class \in DOMAIN mClasses
          /\ Pending.class = ElementOf(n) /\ k = Before(n) /\ IsArray(n) /\ ElementOf(n) # NoClass
    BY <1>7, <2>1 DEF At
  <2>3. PICK old, class : old = mClasses[n] /\ class = [old EXCEPT !.element = Pending.class]
    OBVIOUS
  <2>4. /\ class.super = old.super /\ class.status = old.status /\ DOMAIN class = Parts
        /\ class.interfaces = old.interfaces /\ class.element = ElementOf(n)
    BY <2>2, <2>3 DEF Parts
  <2>5. mClasses' = [mClasses EXCEPT ![Current] = class]
    BY <1>10, <2>2, <2>3 DEF LinkElement
  <2>6. LinkedSoFar(n, class, k + 1)
    BY <2>2, <2>3, <2>4, ElementLinked
  <2>7. LinksAreIn(class, DOMAIN mClasses \cup {NoClass})
    BY <2>2, <2>3, <2>4 DEF LinksAreIn
  <2>8. k + 1 < Len(Steps(n))
    BY <2>2, StepCount
  <2> QED BY <1>5, <2>1, <2>2, <2>3, <2>4, <2>5, <2>6, <2>7, <2>8
<1>11. CASE LinkFields
  <2>1. preparing # <<>> /\ At("fields") /\ preparing' = Done /\ path' = path
    BY <1>11 DEF LinkFields, At
  <2>2. PICK k \in Nat, n \in Name :
          /\ n = Current /\ k = preparing[Len(preparing)].done
          /\ n \in DOMAIN mClasses /\ path \in ClassPaths /\ Loadable(n)
          /\ DOMAIN mClasses[n] = Parts /\ LinkedSoFar(n, mClasses[n], k)
          /\ LinksAreIn(mClasses[n], DOMAIN mClasses \cup {NoClass})
          /\ k = Before(n) /\ ~IsArray(n)
    BY <1>7, <2>1 DEF At
  <2>3. PICK old, layout : /\ old = mClasses[n]
                           /\ mClasses' = [mClasses EXCEPT ![Current] = WithLayout(old, layout)]
    BY <1>11, <2>2 DEF LinkFields
  <2>4. PICK class : class = WithLayout(old, layout)
    OBVIOUS
  <2>5. /\ class.super = old.super /\ class.status = old.status /\ DOMAIN class = Parts
        /\ class.interfaces = old.interfaces /\ class.element = old.element
    BY <2>2, <2>3, <2>4 DEF Parts, WithLayout
  <2>6. LinkedSoFar(n, class, k + 1)
    BY <2>2, <2>3, <2>5, FieldsLinked
  <2>7. LinksAreIn(class, DOMAIN mClasses \cup {NoClass})
    BY <2>2, <2>3, <2>5 DEF LinksAreIn
  <2>8. k + 1 < Len(Steps(n))
    BY <2>2, StepCount
  <2> QED BY <1>5, <2>1, <2>2, <2>3, <2>4, <2>5, <2>6, <2>7, <2>8
<1>12. CASE CreateClassObject
  <2>1. preparing # <<>> /\ At("object") /\ preparing' = Front(preparing) /\ path' = path
    BY <1>12 DEF CreateClassObject, At
  <2>2. PICK k \in Nat, n \in Name :
          /\ n = Current /\ k = preparing[Len(preparing)].done
          /\ n \in DOMAIN mClasses /\ path \in ClassPaths /\ Loadable(n)
          /\ DOMAIN mClasses[n] = Parts /\ k + 1 = Len(Steps(n))
    BY <1>7, <2>1 DEF At
  <2>3. PICK old, class :
          /\ old = mClasses[n]
          /\ class = [old EXCEPT !.object = mClasses[JavaLangClass].size, !.status = "Prepared"]
    OBVIOUS
  <2>4. /\ class.super = old.super /\ DOMAIN class = Parts
        /\ class.interfaces = old.interfaces /\ class.element = old.element
    BY <2>2, <2>3 DEF Parts
  <2>5. mClasses' = [mClasses EXCEPT ![Current] = class]
    BY <1>0, <1>12, <2>2, <2>3 DEF CreateClassObject, Shapes
  <2>6. ReturnsClass(class)
    BY <1>0, <2>1, <2>5, ReturnEffect
  <2>7. k = Len(Steps(n)) - 1
    BY <2>2, StepCount
  <2> QED BY <1>0, <2>1, <2>2, <2>3, <2>4, <2>6, <2>7, ReturnKeepsLinks
<1>13. CASE SetUpJavaLangClass
  <2>1. /\ phase = "Start" /\ path' = path /\ Loadable(JavaLangClass)
        /\ Enter(JavaLangClass, LaidOut(JavaLangClass, NewClass(JavaLangClass)))
    BY <1>13 DEF SetUpJavaLangClass
  <2>2. preparing = <<>> /\ ~Found(JavaLangClass)
    BY <1>0, <2>1 DEF Progress, Found
  <2>3. PICK class : class = WithStatics(JavaLangClass, LaidOut(JavaLangClass, NewClass(JavaLangClass)))
    OBVIOUS
  <2>4. EntersClass(JavaLangClass, class)
    BY <1>0, <2>1, <2>2, <2>3, EnterEffect
  <2>5. /\ DOMAIN class = Parts /\ class.status = "Allocated"
        /\ class.super = NoClass /\ class.interfaces = <<>> /\ class.element = NoClass
    BY <2>3, NewClassParts
  <2> QED BY <1>0, <2>1, <2>2, <2>4, <2>5, JdkNames, EnterKeepsLinks
<1>14. CASE RequireClass
  <2>1. PICK name \in NextRequired : Loadable(name) /\ Enter(name, NewClass(name))
    BY <1>14 DEF RequireClass
  <2>2. name \in Name /\ ~Found(name)
    BY <2>1, RequiredAssumption DEF NextRequired, MissingRequired
  <2>3. path' = path /\ preparing = <<>>
    BY <1>14 DEF RequireClass
  <2> QED BY <1>2, <2>1, <2>2, <2>3
<1>15. CASE RequiredIsMissing \/ Initialized
  BY <1>1, <1>15 DEF RequiredIsMissing, Initialized
<1>16. ASSUME NEW name \in Names(path), LoadClass(name) PROVE LinkInv'
  <2>1. name \in Name
    BY ClassPathsAssumption DEF LinkInv, FilesAreFound
  <2> QED BY <1>2, <1>16, <2>1 DEF LoadClass, Idle
<1>17. ASSUME NEW name, FindClass(name) \/ ClassNotFound(name) PROVE LinkInv'
  BY <1>1, <1>17 DEF FindClass, ClassNotFound
<1>18. CASE Ended \/ UNCHANGED vars
  BY <1>1, <1>18 DEF Ended, vars
<1> QED
  BY <1>3, <1>4, <1>8, <1>9, <1>10, <1>11, <1>12, <1>13, <1>14, <1>15, <1>16, <1>17, <1>18
     DEF Next, Prepare, Boot

-----------------------------------------------------------------------------
(* Nobody waits for a class that is being prepared. *)

(* Among the classes that a class links none is unprepared. *)
CompleteInv ==
  \A n \in DOMAIN mClasses : LinksAreIn(mClasses[n], Prepared \cup {NoClass})

(* Who has no dimensions, seen around a circle of ever fewer dimensions. *)
LEMMA NoDimensions ==
  ASSUME NEW c \in Nat, NEW top \in Nat, c = 0 \/ c < top, top = c \/ top = 0 \/ top < c
  PROVE  c = 0
OBVIOUS

(* A class that is found while another one waits for it is not on the stack: the calls *)
(* in between would be for classes that inherit from one another in a circle.          *)
LEMMA FoundIsPrepared ==
  ASSUME NoCircularInheritance, TableInv, LinkInv,
         preparing # <<>>, Pending.what \in Links, Pending.class \in DOMAIN mClasses
  PROVE  Pending.class \in Prepared
<1> SUFFICES ASSUME Pending.class \notin Prepared PROVE FALSE
  OBVIOUS
<1>1. PICK m \in Nat : m = Len(preparing) /\ DOMAIN preparing = 1..m /\ m \in 1..m
  BY StackFacts DEF TableInv
<1>2. PICK c : c = Pending.class /\ c = StepOf(m).class /\ StepOf(m).what \in Links
  BY <1>1, StackFacts DEF TableInv
<1>3. PICK j \in 1..m : preparing[j].class = c
  BY <1>1, <1>2 DEF TableInv, UnpreparedAreOnStack, OnStack, Prepared, Loaded
<1> DEFINE P(i) == preparing[i].class
           W(i) == StepOf(i).class
<1>4. ASSUME NEW i \in 1..m
      PROVE  P(i) \in Name /\ Loadable(P(i)) /\ path \in ClassPaths
  BY <1>1, StackFacts DEF TableInv, LinkInv, FilesAreFound
<1>5. ASSUME NEW i \in j..m
      PROVE  StepOf(i).what \in Links /\ \E k \in j..m : W(i) = P(k)
  <2>1. CASE i = m
    BY <1>2, <1>3, <2>1
  <2>2. CASE i # m
    <3>1. i \in 1..m /\ i + 1 \in 1..m /\ i + 1 \in j..m
      BY <2>2
    <3>2. StepOf(i).class = preparing[i + 1].class /\ StepOf(i).what \in Links
      BY <1>1, <3>1 DEF LinkInv, StackIsChain
    <3> QED BY <3>1, <3>2
  <2> QED BY <2>1, <2>2
<1>6. ASSUME NEW i \in j..m
      PROVE  /\ W(i).dimensions = 0 \/ W(i).dimensions < P(i).dimensions
             /\ ~IsArray(P(i)) => W(i).base \in {Search(P(i)).super} \cup Range(Search(P(i)).interfaces)
             /\ P(i).dimensions \in Nat
  <2>1. i \in 1..m
    OBVIOUS
  <2>2. PICK n, k : n = P(i) /\ k = preparing[i].done
    OBVIOUS
  <2>3. k \in Nat /\ k < Len(Steps(n)) /\ Steps(n)[k + 1] = StepOf(i)
    BY <1>1, <2>1, <2>2, StackFacts DEF TableInv, LinkInv, StackIsLinked, StepOf
  <2>4. PICK w : w = Steps(n)[k + 1].class /\ w = W(i)
    BY <2>3
  <2>5. /\ w.dimensions = 0 \/ w.dimensions < n.dimensions
        /\ ~IsArray(n) => w.base \in {Search(n).super} \cup Range(Search(n).interfaces)
        /\ n.dimensions \in Nat
    BY <1>4, <1>5, <2>1, <2>2, <2>3, <2>4, LinkedNames
  <2> QED BY <2>2, <2>4, <2>5
<1>7. \A i \in j..m : P(i).dimensions = 0
  <2>1. PICK a, b : a = c.dimensions /\ b = P(m).dimensions
    OBVIOUS
  <2>2. a \in Nat /\ b \in Nat /\ (a = 0 \/ a < b)
    <3>1. j \in j..m /\ m \in j..m
      OBVIOUS
    <3> QED BY <1>2, <1>3, <1>6, <2>1, <3>1
  <2>3. b = a \/ b = 0 \/ b < a
    <3>1. CASE j = m
      BY <1>3, <2>1, <3>1
    <3>2. CASE j # m
      <4>1. j < m /\ j \in DOMAIN preparing /\ m \in DOMAIN preparing
        BY <1>1, <3>2
      <4> QED BY <1>3, <2>1, <4>1 DEF LinkInv, StackDescends
    <3> QED BY <3>1, <3>2
  <2>4. P(j).dimensions = 0
    BY <1>3, <2>1, <2>2, <2>3, NoDimensions
  <2>5. ASSUME NEW i \in j..m, i # j PROVE P(i).dimensions = 0
    <3>1. j < i /\ j \in DOMAIN preparing /\ i \in DOMAIN preparing
      BY <1>1, <2>5
    <3>2. P(i).dimensions = 0 \/ P(i).dimensions < P(j).dimensions
      BY <3>1 DEF LinkInv, StackDescends
    <3>3. PICK d \in Nat : d = P(i).dimensions
      BY <1>6
    <3> QED BY <2>4, <3>2, <3>3
  <2> QED BY <2>4, <2>5
<1> DEFINE S == {P(i).base : i \in j..m}
<1>8. ASSUME NEW i \in j..m
      PROVE  ~IsArray(P(i)) /\ P(i).base \in ReadableIn(path) /\ Search(P(i)) = FileIn(path, P(i).base)
  <2>1. i \in 1..m
    OBVIOUS
  <2>2. ~IsArray(P(i))
    BY <1>7 DEF IsArray
  <2> QED BY <1>4, <2>1, <2>2, SearchFacts DEF Search
<1>9. S \in SUBSET ReadableIn(path) /\ P(j).base \in S
  BY <1>8
<1>10. PICK i \in j..m :
         S \cap ({FileIn(path, P(i).base).super} \cup Range(FileIn(path, P(i).base).interfaces)) = {}
  <2>1. path \in ClassPaths
    BY <1>1, <1>4
  <2>2. PICK base \in S : S \cap ({FileIn(path, base).super} \cup Range(FileIn(path, base).interfaces)) = {}
    BY <1>9, <2>1 DEF NoCircularInheritance
  <2> QED BY <2>2
<1>11. W(i).base \in S
  BY <1>5
<1> QED
  BY <1>6, <1>8, <1>10, <1>11

LEMMA MoreLinks ==
  ASSUME NEW class, NEW S, NEW T, S \subseteq T, LinksAreIn(class, S)
  PROVE  LinksAreIn(class, T)
BY DEF LinksAreIn

LEMMA ListGrows ==
  ASSUME NEW class, NEW next, NEW T, NEW U, NEW c \in T, class.interfaces \in Seq(U), c \in U,
         LinksAreIn(class, T), next.super = class.super, next.element = class.element,
         next.interfaces = Append(class.interfaces, c)
  PROVE  LinksAreIn(next, T)
<1>1. PICK list \in Seq(U) : list = class.interfaces
  OBVIOUS
<1>2. \A i \in 1..Len(Append(list, c)) :
        Append(list, c)[i] = c \/ (i \in 1..Len(list) /\ Append(list, c)[i] = list[i])
  BY <1>1
<1> QED
  BY <1>1, <1>2 DEF LinksAreIn

(* What the step that links a class adds is prepared. *)
LEMMA LinkedIsPrepared ==
  ASSUME NoCircularInheritance, TableInv, LinkInv, preparing # <<>>,
         NEW what \in Links, At(what)
  PROVE  /\ Pending.class \in Prepared /\ Pending.class \in Name
         /\ Current \in DOMAIN mClasses /\ DOMAIN mClasses[Current] = Parts
         /\ mClasses[Current].interfaces \in Seq(Name)
<1>1. Pending.what \in Links /\ Pending.class \in DOMAIN mClasses
  BY DEF At, Links, Found
<1>2. Pending.class \in Prepared
  BY <1>1, FoundIsPrepared
<1>3. Current \in DOMAIN mClasses
  BY StackFacts DEF TableInv
<1>4. mClasses[Current].interfaces \in Seq(Name)
  BY PendingFacts DEF LinkedSoFar
<1> QED
  BY <1>1, <1>2, <1>3, <1>4 DEF LinkInv, FilesAreFound

LEMMA NextKeepsComplete ==
  ASSUME NoCircularInheritance, IInv, LinkInv, CompleteInv, [Next]_vars
  PROVE  CompleteInv'
<1>0. TableInv /\ Shapes /\ Progress
  BY DEF IInv, TableInv
<1> DEFINE S == Prepared \cup {NoClass}
           T == Prepared' \cup {NoClass}
<1>1. S \subseteq T
  BY NextKeeps DEF Extends, Prepared, Loaded
<1>2. ASSUME UNCHANGED mClasses PROVE CompleteInv'
  BY <1>2 DEF CompleteInv, Prepared, Loaded
<1>3. ASSUME NEW name, NEW class, ~Found(name), Enter(name, class),
             WithStatics(name, class) \in
               {WithStatics(name, NewClass(name)), WithStatics(name, LaidOut(name, NewClass(name)))}
      PROVE  CompleteInv'
  <2>1. PICK new : new = WithStatics(name, class)
    OBVIOUS
  <2>2. EntersClass(name, new)
    BY <1>0, <1>3, <2>1, EnterEffect
  <2>3. new.super = NoClass /\ new.interfaces = <<>> /\ new.element = NoClass
    BY <1>3, <2>1, NewClassParts
  <2>4. LinksAreIn(new, T)
    BY <2>3 DEF LinksAreIn
  <2>5. ASSUME NEW n \in DOMAIN mClasses' PROVE LinksAreIn(mClasses'[n], T)
    <3>1. CASE n = name
      BY <2>2, <2>4, <3>1 DEF EntersClass
    <3>2. CASE n # name
      <4>1. n \in DOMAIN mClasses /\ mClasses'[n] = mClasses[n]
        BY <2>2, <2>5, <3>2 DEF EntersClass
      <4> QED BY <1>1, <4>1, MoreLinks DEF CompleteInv
    <3> QED BY <3>1, <3>2
  <2> QED BY <2>5 DEF CompleteInv
<1>4. ASSUME NEW class, Current \in DOMAIN mClasses, LinksAreIn(class, S),
             mClasses' = [mClasses EXCEPT ![Current] = class]
      PROVE  CompleteInv'
  <2>1. ASSUME NEW n \in DOMAIN mClasses' PROVE LinksAreIn(mClasses'[n], T)
    <3>1. n \in DOMAIN mClasses /\ (mClasses'[n] = class \/ mClasses'[n] = mClasses[n])
      BY <1>4, <2>1
    <3>2. LinksAreIn(mClasses'[n], S)
      BY <1>4, <3>1 DEF CompleteInv
    <3> QED BY <1>1, <3>2, MoreLinks
  <2> QED BY <2>1 DEF CompleteInv
<1>5. CASE LoadNested
  BY <1>3, <1>5 DEF LoadNested
<1>6. ASSUME preparing # <<>>, NEW what \in Links, At(what)
      PROVE  /\ Pending.class \in S /\ Pending.class \in Name
             /\ Current \in DOMAIN mClasses /\ DOMAIN mClasses[Current] = Parts
             /\ mClasses[Current].interfaces \in Seq(Name)
             /\ LinksAreIn(mClasses[Current], S)
  BY <1>0, <1>6, LinkedIsPrepared DEF CompleteInv
<1>7. CASE LinkSuperClass
  <2>1. "super" \in Links /\ preparing # <<>> /\ At("super")
    BY <1>7 DEF LinkSuperClass, At, Links
  <2>2. PICK old, class : old = mClasses[Current] /\ class = [old EXCEPT !.super = Pending.class]
    OBVIOUS
  <2>3. LinksAreIn(class, S)
    BY <1>6, <2>1, <2>2 DEF LinksAreIn, Parts
  <2> QED BY <1>4, <1>6, <1>7, <2>1, <2>2, <2>3 DEF LinkSuperClass
<1>8. CASE LinkSuperInterface
  <2>1. "interface" \in Links /\ preparing # <<>> /\ At("interface")
    BY <1>8 DEF LinkSuperInterface, At, Links
  <2>2. PICK old, c, class :
          /\ old = mClasses[Current] /\ c = Pending.class
          /\ class = [old EXCEPT !.interfaces = Append(old.interfaces, c)]
    OBVIOUS
  <2>3. /\ class.super = old.super /\ class.element = old.element
        /\ class.interfaces = Append(old.interfaces, c)
    BY <1>6, <2>1, <2>2 DEF Parts
  <2>4. LinksAreIn(class, S)
    <3>1. c \in S /\ c \in Name /\ old.interfaces \in Seq(Name) /\ LinksAreIn(old, S)
      BY <1>6, <2>1, <2>2
    <3> QED BY <3>1, <2>3, ListGrows
  <2>5. mClasses' = [mClasses EXCEPT ![Current] = class]
    BY <1>6, <1>8, <2>1, <2>2 DEF LinkSuperInterface
  <2> QED BY <1>4, <1>6, <2>1, <2>4, <2>5
<1>9. CASE LinkElement
  <2>1. "element" \in Links /\ preparing # <<>> /\ At("element")
    BY <1>9 DEF LinkElement, At, Links
  <2>2. PICK old, class : old = mClasses[Current] /\ class = [old EXCEPT !.element = Pending.class]
    OBVIOUS
  <2>3. LinksAreIn(class, S)
    BY <1>6, <2>1, <2>2 DEF LinksAreIn, Parts
  <2> QED BY <1>4, <1>6, <1>9, <2>1, <2>2, <2>3 DEF LinkElement
<1>10. ASSUME preparing # <<>> PROVE /\ Current \in DOMAIN mClasses
                                      /\ DOMAIN mClasses[Current] = Parts
                                      /\ LinksAreIn(mClasses[Current], S)
  BY <1>0, <1>10, StackFacts DEF CompleteInv, LinkInv, FilesAreFound
<1>11. CASE LinkFields
  <2>1. preparing # <<>>
    BY <1>11 DEF LinkFields, At
  <2>2. PICK old, layout : /\ old = mClasses[Current]
                           /\ mClasses' = [mClasses EXCEPT ![Current] = WithLayout(old, layout)]
    BY <1>10, <1>11, <2>1 DEF LinkFields
  <2>3. PICK class : class = WithLayout(old, layout)
    OBVIOUS
  <2>4. class.super = old.super /\ class.interfaces = old.interfaces /\ class.element = old.element
    BY <1>10, <2>1, <2>2, <2>3 DEF Parts, WithLayout
  <2>5. LinksAreIn(class, S)
    BY <1>10, <2>1, <2>2, <2>4 DEF LinksAreIn
  <2> QED BY <1>4, <1>10, <2>1, <2>2, <2>3, <2>5
<1>12. CASE CreateClassObject
  <2>1. preparing # <<>>
    BY <1>12 DEF CreateClassObject, At
  <2>2. PICK old, class :
          /\ old = mClasses[Current]
          /\ class = [old EXCEPT !.object = mClasses[JavaLangClass].size, !.status = "Prepared"]
    OBVIOUS
  <2>3. class.super = old.super /\ class.interfaces = old.interfaces /\ class.element = old.element
    BY <1>10, <2>1, <2>2 DEF Parts
  <2>4. LinksAreIn(class, S)
    BY <1>10, <2>1, <2>2, <2>3 DEF LinksAreIn
  <2>5. mClasses' = [mClasses EXCEPT ![Current] = class]
    BY <1>0, <1>10, <1>12, <2>1, <2>2 DEF CreateClassObject, Shapes
  <2> QED BY <1>4, <1>10, <2>1, <2>4, <2>5
<1>13. CASE SetUpJavaLangClass
  <2>1. /\ phase = "Start"
        /\ Enter(JavaLangClass, LaidOut(JavaLangClass, NewClass(JavaLangClass)))
    BY <1>13 DEF SetUpJavaLangClass
  <2>2. ~Found(JavaLangClass)
    BY <1>0, <2>1 DEF Progress, Found
  <2> QED BY <1>3, <2>1, <2>2
<1>14. CASE RequireClass
  BY <1>3, <1>14 DEF RequireClass, NextRequired, MissingRequired
<1>15. ASSUME NEW name, LoadClass(name) PROVE CompleteInv'
  BY <1>3, <1>15 DEF LoadClass
<1>16. CASE \/ FailNested \/ RequiredIsMissing \/ Initialized \/ Ended \/ UNCHANGED vars
            \/ \E name : FindClass(name) \/ ClassNotFound(name)
  BY <1>2, <1>16 DEF FailNested, RequiredIsMissing, Initialized, Ended, FindClass, ClassNotFound, vars
<1> QED
  BY <1>5, <1>7, <1>8, <1>9, <1>11, <1>12, <1>13, <1>14, <1>15, <1>16 DEF Next, Prepare, Boot

LEMMA PreparedAreComplete ==
  ASSUME IInv, LinkInv, CompleteInv
  PROVE  PreparedClassesAreComplete
<1> SUFFICES ASSUME NEW n \in Prepared, NEW class, class = mClasses[n]
             PROVE  /\ class.super = SuperOf(n) /\ class.interfaces = InterfacesOf(n)
                    /\ class.element = ElementOf(n)
                    /\ {class.super, class.element} \cup Range(class.interfaces)
                         \subseteq Prepared \cup {NoClass}
  BY DEF PreparedClassesAreComplete
<1>1. /\ path \in ClassPaths /\ n \in Name /\ Loadable(n) /\ n \in DOMAIN mClasses
      /\ LinkedSoFar(n, class, Len(Steps(n)) - 1) /\ LinksAreIn(class, Prepared \cup {NoClass})
  BY DEF LinkInv, FilesAreFound, PreparedAreLinked, CompleteInv, Prepared, Loaded
<1>2. class.super = SuperOf(n) /\ class.interfaces = InterfacesOf(n) /\ class.element = ElementOf(n)
  BY <1>1, AllLinked
<1>3. class.interfaces \in Seq(Name)
  BY <1>1 DEF LinkedSoFar
<1>4. Range(class.interfaces) \subseteq Prepared \cup {NoClass}
  BY <1>1, <1>3, ListFacts DEF LinksAreIn, Range
<1> QED
  BY <1>1, <1>2, <1>4 DEF LinksAreIn

(***************************************************************************)
(* When prepare() has returned for a class, everything the class was       *)
(* declared with is linked, and is prepared as well (JClass::prepare).     *)
(***************************************************************************)
THEOREM ClassesAreComplete ==
  ASSUME NoCircularInheritance
  PROVE  Spec => []PreparedClassesAreComplete
<1> DEFINE Inv == IInv /\ LinkInv /\ CompleteInv
<1>1. Init => Inv
  BY InitHolds, InitLinked DEF Init, CompleteInv
<1>2. Inv /\ [Next]_vars => Inv'
  BY NextKeeps, NextKeepsLinks, NextKeepsComplete
<1>3. Inv => PreparedClassesAreComplete
  BY PreparedAreComplete
<1> QED
  BY <1>1, <1>2, <1>3, PTL DEF Spec

-----------------------------------------------------------------------------
(* Layouts: recursion over a list, and aligning. *)

LEMMA LayoutsDefined ==
  ASSUME NEW first, NEW list, Len(list) \in Nat
  PROVE  Layouts(first, list) =
           [i \in 0..Len(list) |->
              IF i = 0 THEN first ELSE AddField(Layouts(first, list)[i - 1], list[i])]
<1> DEFINE Def(g, m) == [i \in 0..m |-> IF i = 0 THEN first ELSE AddField(g[i - 1], list[i])]
           S == {m \in Nat : \E g : g = Def(g, m)}
<1>1. 0 \in S
  <2> DEFINE g == [i \in 0..0 |-> first]
  <2>1. g = Def(g, 0)
    OBVIOUS
  <2> HIDE DEF g
  <2> QED BY <2>1
<1>2. ASSUME NEW m \in Nat, m \in S PROVE m + 1 \in S
  <2> PICK g : g = Def(g, m)
    BY <1>2
  <2> DEFINE h == [i \in 0..m + 1 |-> IF i = m + 1 THEN AddField(g[m], list[m + 1]) ELSE g[i]]
  <2>1. \A i \in 0..m : h[i] = g[i]
    OBVIOUS
  <2>2. \A i \in 0..m : h[i] = IF i = 0 THEN first ELSE AddField(h[i - 1], list[i])
    <3> SUFFICES ASSUME NEW i \in 0..m
                 PROVE  h[i] = IF i = 0 THEN first ELSE AddField(h[i - 1], list[i])
      OBVIOUS
    <3>1. g[i] = IF i = 0 THEN first ELSE AddField(g[i - 1], list[i])
      OBVIOUS
    <3>2. i # 0 => i - 1 \in 0..m
      OBVIOUS
    <3> HIDE DEF h
    <3> QED BY <3>1, <3>2, <2>1
  <2>3. h[m + 1] = AddField(h[m], list[m + 1])
    OBVIOUS
  <2>4. h = [i \in 0..m + 1 |-> h[i]]
    OBVIOUS
  <2>5. h = Def(h, m + 1)
    <3> HIDE DEF h
    <3>1. \A i \in 0..m + 1 : h[i] = IF i = 0 THEN first ELSE AddField(h[i - 1], list[i])
      BY <2>2, <2>3
    <3> QED BY <2>4, <3>1
  <2> HIDE DEF h
  <2> QED BY <2>5
<1>3. Len(list) \in S
  <2> HIDE DEF S
  <2> QED BY <1>1, <1>2, SetInduction
<1>4. Layouts(first, list) = CHOOSE g : g = Def(g, Len(list))
  BY DEF Layouts
<1>5. \E g : g = Def(g, Len(list))
  BY <1>3
<1>6. Layouts(first, list) = Def(Layouts(first, list), Len(list))
  <2> HIDE DEF Def
  <2> QED BY <1>4, <1>5
<1> QED
  BY <1>6

LEMMA LayoutSteps ==
  ASSUME NEW first, NEW list, NEW m \in Nat, m = Len(list), NEW l, l = Layouts(first, list)
  PROVE  l[0] = first /\ \A i \in 1..m : l[i] = AddField(l[i - 1], list[i])
<1>1. l = [i \in 0..m |-> IF i = 0 THEN first ELSE AddField(l[i - 1], list[i])]
  BY LayoutsDefined
<1> HIDE DEF AddField
<1>2. l[0] = first
  BY <1>1
<1>3. ASSUME NEW i \in 1..m PROVE l[i] = AddField(l[i - 1], list[i])
  <2>1. i \in 0..m /\ i # 0
    OBVIOUS
  <2> QED BY <1>1, <2>1
<1> QED
  BY <1>2, <1>3

-----------------------------------------------------------------------------
(* Aligning. *)

LEMMA Remainder ==
  ASSUME NEW a \in Nat, NEW n \in Nat \ {0}
  PROVE  a % n \in 0..n - 1 /\ a = n * (a \div n) + (a % n) /\ a \div n \in Nat
OBVIOUS

LEMMA Multiple ==
  ASSUME NEW k \in Nat, NEW n \in Nat \ {0}, NEW a \in Nat, a = k * n
  PROVE  a % n = 0
OBVIOUS

LEMMA Aligned ==
  ASSUME NEW size \in Nat, NEW n \in Nat \ {0}
  PROVE  /\ AlignTo(size, n) \in Nat /\ AlignTo(size, n) >= size
         /\ AlignTo(size, n) % n = 0
<1>1. PICK a \in Nat : a = size + n - 1
  OBVIOUS
<1>2. /\ a % n \in 0..n - 1 /\ a = n * (a \div n) + (a % n) /\ a \div n \in Nat
  BY Remainder
<1>3. PICK q \in Nat : q = a \div n
  BY <1>2
<1>4. PICK r \in 0..n - 1 : r = a % n
  BY <1>2
<1>5. PICK x \in Nat : x = q * n
  OBVIOUS
<1>6. a = x + r
  BY <1>2, <1>3, <1>4, <1>5
<1>7. AlignTo(size, n) = x
  BY <1>1, <1>3, <1>5 DEF AlignTo
<1>8. x >= size
  BY <1>1, <1>6
<1>9. x % n = 0
  BY <1>5, Multiple
<1> QED
  BY <1>7, <1>8, <1>9

-----------------------------------------------------------------------------
(* What the fields of a layout have in common. *)

Field == [key : DOMAIN SizeOf, static : BOOLEAN]

Keys(fields) == {key \in DOMAIN fields : ~fields[key].static}

(* The place of a field, and of two fields next to one another. *)
IsPlaced(offset, size, header, end) ==
  offset \in Nat /\ header <= offset /\ offset % size = 0 /\ offset + size <= end

AreApart(offset, size, other, itsSize) == offset + size <= other \/ other + itsSize <= offset

IsTable(fields) == fields = [key \in DOMAIN fields |-> fields[key]]

IsSound(fields, header, end) ==
  /\ IsTable(fields)
  /\ DOMAIN fields \subseteq DOMAIN SizeOf
  /\ end \in Nat /\ header <= end
  /\ \A key \in Keys(fields) : IsPlaced(fields[key].offset, SizeOf[key], header, end)
  /\ \A a, b \in Keys(fields) : a # b =>
       AreApart(fields[a].offset, SizeOf[a], fields[b].offset, SizeOf[b])

(* The last place ends where the first free one begins. *)
LEMMA NextPlace ==
  ASSUME NEW header \in Nat, NEW end \in Nat, header <= end, NEW size \in Nat \ {0},
         NEW at \in Nat, at = AlignTo(end, size)
  PROVE  /\ IsPlaced(at, size, header, at + size)
         /\ \A o, s : s \in Nat \ {0} /\ IsPlaced(o, s, header, end) =>
              /\ IsPlaced(o, s, header, at + size)
              /\ AreApart(o, s, at, size) /\ AreApart(at, size, o, s)
<1>1. end <= at /\ at % size = 0
  BY Aligned
<1>2. IsPlaced(at, size, header, at + size)
  BY <1>1 DEF IsPlaced
<1>3. ASSUME NEW o, NEW s \in Nat \ {0}, IsPlaced(o, s, header, end)
      PROVE  /\ IsPlaced(o, s, header, at + size)
             /\ AreApart(o, s, at, size) /\ AreApart(at, size, o, s)
  <2>1. o \in Nat /\ header <= o /\ o % s = 0 /\ o + s <= end
    BY <1>3 DEF IsPlaced
  <2>2. o + s <= at /\ o + s <= at + size
    BY <1>1, <2>1
  <2> QED BY <2>1, <2>2 DEF IsPlaced, AreApart
<1> QED
  BY <1>2, <1>3

(* What a field adds to a layout. *)
IsAdded(layout, f, next) ==
  /\ IsTable(next.fields)
  /\ f.static => next = layout
  /\ ~f.static =>
       /\ DOMAIN next.fields = DOMAIN layout.fields \cup {f.key}
       /\ \A key \in DOMAIN layout.fields : next.fields[key] = layout.fields[key]
       /\ f.key \notin DOMAIN layout.fields =>
            next.fields[f.key] = [static |-> FALSE, offset |-> AlignTo(layout.end, SizeOf[f.key])]
       /\ next.end = AlignTo(layout.end, SizeOf[f.key]) + SizeOf[f.key]
  /\ f.key \in DOMAIN layout.fields => next.fields = layout.fields

LEMMA FieldIsAdded ==
  ASSUME NEW layout, IsTable(layout.fields), NEW f, NEW next, next = AddField(layout, f)
  PROVE  IsAdded(layout, f, next)
<1>1. CASE f.static
  BY <1>1 DEF AddField, IsAdded
<1>2. CASE ~f.static
  <2>1. PICK key, at : key = f.key /\ at = AlignTo(layout.end, SizeOf[key])
    OBVIOUS
  <2>2. PICK old, entry : old = layout.fields /\ entry = [static |-> FALSE, offset |-> at]
    OBVIOUS
  <2>3. PICK new : new = Emplaced(old, FieldAt(key, at))
    OBVIOUS
  <2>4. next = [fields |-> new, end |-> at + SizeOf[key]]
    BY <1>2, <2>1, <2>2, <2>3 DEF AddField
  <2>5. new = [k \in DOMAIN old \cup {key} |-> IF k \in DOMAIN old THEN old[k] ELSE entry]
    BY <2>2, <2>3 DEF Emplaced, FieldAt
  <2>6. /\ DOMAIN new = DOMAIN old \cup {key} /\ new = [k \in DOMAIN new |-> new[k]]
        /\ \A k \in DOMAIN old : new[k] = old[k]
        /\ key \notin DOMAIN old => new[key] = entry
    BY <2>5
  <2>7. key \in DOMAIN old => new = old
    BY <2>2, <2>6 DEF IsTable
  <2> QED BY <1>2, <2>1, <2>2, <2>4, <2>6, <2>7 DEF IsAdded, IsTable
<1> QED
  BY <1>1, <1>2

LEMMA AddedIsSound ==
  ASSUME NEW header \in Nat, NEW layout, IsSound(layout.fields, header, layout.end), NEW f \in Field,
         NEW next, IsAdded(layout, f, next)
  PROVE  IsSound(next.fields, header, next.end)
<1>1. CASE f.static
  BY <1>1 DEF IsAdded
<1>2. CASE ~f.static
  <2>1. PICK key, size : /\ key = f.key /\ size = SizeOf[key] /\ key \in DOMAIN SizeOf
                         /\ size \in Nat \ {0}
    BY SizesAssumption DEF Field
  <2>2. PICK old, end : old = layout.fields /\ end = layout.end
    OBVIOUS
  <2>3. /\ DOMAIN old \subseteq DOMAIN SizeOf
        /\ end \in Nat /\ header <= end
        /\ \A k \in Keys(old) : IsPlaced(old[k].offset, SizeOf[k], header, end)
        /\ \A a, b \in Keys(old) : a # b =>
             AreApart(old[a].offset, SizeOf[a], old[b].offset, SizeOf[b])
    BY <2>2 DEF IsSound
  <2>4. PICK at \in Nat : at = AlignTo(end, size)
    BY <2>1, <2>3, Aligned
  <2>5. PICK new : new = next.fields
    OBVIOUS
  <2>6. /\ IsTable(new) /\ DOMAIN new = DOMAIN old \cup {key}
        /\ \A k \in DOMAIN old : new[k] = old[k]
        /\ key \notin DOMAIN old => new[key] = [static |-> FALSE, offset |-> at]
        /\ next.end = at + size
    BY <1>2, <2>1, <2>2, <2>4, <2>5 DEF IsAdded
  <2>7. /\ IsPlaced(at, size, header, at + size)
        /\ \A o, s : s \in Nat \ {0} /\ IsPlaced(o, s, header, end) =>
             /\ IsPlaced(o, s, header, at + size)
             /\ AreApart(o, s, at, size) /\ AreApart(at, size, o, s)
    BY <2>1, <2>3, <2>4, NextPlace
  <2>8. \A k \in Keys(new) :
          \/ k \in Keys(old) /\ new[k] = old[k] /\ SizeOf[k] \in Nat \ {0}
          \/ k = key /\ key \notin DOMAIN old /\ new[k].offset = at
    BY <2>3, <2>6, SizesAssumption DEF Keys
  <2>9. \A k \in Keys(new) : IsPlaced(new[k].offset, SizeOf[k], header, at + size)
    BY <2>1, <2>3, <2>7, <2>8
  <2>10. \A k \in Keys(old) : AreApart(old[k].offset, SizeOf[k], at, size)
                              /\ AreApart(at, size, old[k].offset, SizeOf[k])
    BY <2>3, <2>7, SizesAssumption DEF Keys
  <2>11. \A a, b \in Keys(new) : a # b =>
           AreApart(new[a].offset, SizeOf[a], new[b].offset, SizeOf[b])
    BY <2>1, <2>3, <2>8, <2>10
  <2>12. at + size \in Nat /\ header <= at + size
    <3>1. end <= at
      BY <2>1, <2>3, <2>4, Aligned
    <3> QED BY <2>1, <2>3, <3>1
  <2>13. IsSound(new, header, at + size)
    BY <2>1, <2>3, <2>6, <2>9, <2>11, <2>12 DEF IsSound
  <2> QED BY <2>5, <2>6, <2>13
<1> QED
  BY <1>1, <1>2

-----------------------------------------------------------------------------
(* Whole lists of fields. *)

LEMMA EachIsAdded ==
  ASSUME NEW first, IsTable(first.fields), NEW list, NEW m \in Nat, m = Len(list),
         NEW l, l = Layouts(first, list)
  PROVE  l[0] = first /\ \A i \in 1..m : IsTable(l[i - 1].fields) /\ IsAdded(l[i - 1], list[i], l[i])
<1>1. l[0] = first /\ \A i \in 1..m : l[i] = AddField(l[i - 1], list[i])
  BY LayoutSteps
<1> DEFINE Tables == {i \in 0..m : IsTable(l[i].fields)}
<1>2. 0 \in Tables
  BY <1>1
<1>3. ASSUME NEW i \in 1..m, IsTable(l[i - 1].fields) PROVE IsAdded(l[i - 1], list[i], l[i])
  <2>1. PICK before, f, next : before = l[i - 1] /\ f = list[i] /\ next = l[i]
    OBVIOUS
  <2> QED BY <1>1, <1>3, <2>1, FieldIsAdded
<1>4. ASSUME NEW i \in 1..m, i - 1 \in Tables PROVE i \in Tables
  <2>1. IsAdded(l[i - 1], list[i], l[i])
    BY <1>3, <1>4
  <2>2. IsTable(l[i].fields)
    BY <2>1 DEF IsAdded
  <2> QED BY <2>2
<1>5. \A i \in 0..m : i \in Tables
  <2> HIDE DEF Tables
  <2> QED BY <1>2, <1>4, UpTo
<1>6. \A i \in 1..m : i - 1 \in 0..m
  OBVIOUS
<1> QED
  BY <1>1, <1>3, <1>5, <1>6

LEMMA LayoutIsSound ==
  ASSUME NEW header \in Nat, NEW first, IsSound(first.fields, header, first.end),
         NEW list \in Seq(Field), NEW last, last = Layouts(first, list)[Len(list)]
  PROVE  IsSound(last.fields, header, last.end)
<1>1. PICK m \in Nat : m = Len(list)
  OBVIOUS
<1>2. PICK l : l = Layouts(first, list)
  OBVIOUS
<1>3. IsTable(first.fields)
  BY DEF IsSound
<1>4. l[0] = first /\ \A i \in 1..m : IsAdded(l[i - 1], list[i], l[i])
  BY <1>1, <1>2, <1>3, EachIsAdded
<1>5. \A i \in 1..m : list[i] \in Field
  BY <1>1
<1> DEFINE Sound == {i \in 0..m : IsSound(l[i].fields, header, l[i].end)}
<1>6. 0 \in Sound
  BY <1>4
<1>7. ASSUME NEW i \in 1..m, i - 1 \in Sound PROVE i \in Sound
  <2>1. PICK before, f, next : before = l[i - 1] /\ f = list[i] /\ next = l[i] /\ f \in Field
    BY <1>5
  <2>2. IsSound(before.fields, header, before.end)
    BY <1>7, <2>1
  <2>3. IsAdded(before, f, next)
    BY <1>4, <2>1
  <2>4. IsSound(next.fields, header, next.end)
    BY <2>1, <2>2, <2>3, AddedIsSound
  <2> QED BY <2>1, <2>4
<1>8. m \in Sound
  <2> HIDE DEF Sound
  <2>1. m \in 0..m
    OBVIOUS
  <2> QED BY <1>6, <1>7, <2>1, UpTo
<1> QED
  BY <1>1, <1>2, <1>8

(* Every key is there in the end, and nothing changes when it was there before. *)
LEMMA LayoutFacts ==
  ASSUME NEW first, IsTable(first.fields), NEW list \in Seq(Field),
         NEW last, last = Layouts(first, list)[Len(list)]
  PROVE  /\ \A i \in 1..Len(list) : ~list[i].static => list[i].key \in DOMAIN last.fields
         /\ (\A i \in 1..Len(list) : list[i].static \/ list[i].key \in DOMAIN first.fields) =>
              last.fields = first.fields
<1>1. PICK m \in Nat : m = Len(list)
  OBVIOUS
<1>2. PICK l : l = Layouts(first, list)
  OBVIOUS
<1>3. l[0] = first /\ \A i \in 1..m : IsAdded(l[i - 1], list[i], l[i])
  BY <1>1, <1>2, EachIsAdded
<1>4. ASSUME NEW i \in 1..m
      PROVE  /\ list[i].static => l[i] = l[i - 1]
             /\ ~list[i].static => DOMAIN l[i].fields = DOMAIN l[i - 1].fields \cup {list[i].key}
             /\ list[i].key \in DOMAIN l[i - 1].fields => l[i].fields = l[i - 1].fields
  BY <1>3 DEF IsAdded
<1>5. \A i \in 1..m : ~list[i].static => list[i].key \in DOMAIN l[m].fields
  <2> DEFINE There == {i \in 0..m : \A j \in 1..i : ~list[j].static => list[j].key \in DOMAIN l[i].fields}
  <2>1. 0 \in There
    OBVIOUS
  <2>2. ASSUME NEW i \in 1..m, i - 1 \in There PROVE i \in There
    <3> SUFFICES ASSUME NEW j \in 1..i, ~list[j].static PROVE list[j].key \in DOMAIN l[i].fields
      OBVIOUS
    <3>1. DOMAIN l[i - 1].fields \subseteq DOMAIN l[i].fields
      BY <1>4
    <3>2. CASE j = i
      BY <1>4, <3>2
    <3>3. CASE j # i
      <4>1. j \in 1..i - 1
        BY <3>3
      <4> QED BY <2>2, <3>1, <4>1
    <3> QED BY <3>2, <3>3
  <2>3. \A i \in 0..m : i \in There
    <3> HIDE DEF There
    <3> QED BY <2>1, <2>2, UpTo
  <2> QED BY <2>3
<1>6. ASSUME \A i \in 1..m : list[i].static \/ list[i].key \in DOMAIN first.fields
      PROVE  l[m].fields = first.fields
  <2> DEFINE Same == {i \in 0..m : l[i].fields = first.fields}
  <2>1. 0 \in Same
    BY <1>3
  <2>2. ASSUME NEW i \in 1..m, i - 1 \in Same PROVE i \in Same
    BY <1>4, <1>6, <2>2
  <2>3. \A i \in 0..m : i \in Same
    <3> HIDE DEF Same
    <3> QED BY <2>1, <2>2, UpTo
  <2> QED BY <2>3
<1>7. last = l[m]
  BY <1>1, <1>2
<1> QED
  BY <1>1, <1>5, <1>6, <1>7

(* Where a layout ends depends on where it begins, not on what is there already. *)
LEMMA LayoutsEndAlike ==
  ASSUME NEW list \in Seq(Field), NEW a, NEW b, a.end = b.end, IsTable(a.fields), IsTable(b.fields)
  PROVE  Layouts(a, list)[Len(list)].end = Layouts(b, list)[Len(list)].end
<1>1. PICK m \in Nat : m = Len(list)
  OBVIOUS
<1>2. PICK l, k : l = Layouts(a, list) /\ k = Layouts(b, list)
  OBVIOUS
<1>3. /\ l[0] = a /\ \A i \in 1..m : IsAdded(l[i - 1], list[i], l[i])
      /\ k[0] = b /\ \A i \in 1..m : IsAdded(k[i - 1], list[i], k[i])
  BY <1>1, <1>2, EachIsAdded
<1> DEFINE Alike == {i \in 0..m : l[i].end = k[i].end}
<1>4. 0 \in Alike
  BY <1>3
<1>5. ASSUME NEW i \in 1..m, i - 1 \in Alike PROVE i \in Alike
  <2>1. IsAdded(l[i - 1], list[i], l[i]) /\ IsAdded(k[i - 1], list[i], k[i])
    BY <1>3
  <2> QED BY <1>5, <2>1 DEF IsAdded
<1>6. m \in Alike
  <2> HIDE DEF Alike
  <2>1. m \in 0..m
    OBVIOUS
  <2> QED BY <1>4, <1>5, <2>1, UpTo
<1> QED
  BY <1>1, <1>2, <1>6

-----------------------------------------------------------------------------
(* The fields of a superclass, and static fields. *)

(* The hash table's order is one of the orders of a finite set. *)
LEMMA OrdersAreLists ==
  ASSUME NEW T, NEW U, T \subseteq U, IsFiniteSet(T), NEW s \in SetToSeqs(T)
  PROVE  s \in Seq(U) /\ (T = {} => s = <<>>)
<1>1. PICK c : c = Cardinality(T)
  OBVIOUS
<1>2. c \in Nat
  BY <1>1, FS_CardinalityType
<1>3. s \in [1..c -> T]
  BY <1>1 DEF SetToSeqs
<1>4. s \in Seq(U)
  BY <1>2, <1>3
<1>5. T = {} => c = 0
  BY <1>1, FS_EmptySet
<1> QED
  BY <1>2, <1>3, <1>4, <1>5

FieldOf(key) == [key |-> key, static |-> FALSE]

LEMMA KeysAreFinite ==
  ASSUME NEW fields, DOMAIN fields \subseteq DOMAIN SizeOf, NEW T, T = {FieldOf(key) : key \in Keys(fields)}
  PROVE  IsFiniteSet(T) /\ T \subseteq Field
<1>1. T \subseteq Field
  <2>1. Keys(fields) \subseteq DOMAIN SizeOf
    BY DEF Keys
  <2>2. ASSUME NEW key \in DOMAIN SizeOf PROVE FieldOf(key) \in Field
    BY DEF FieldOf, Field
  <2> QED BY <2>1, <2>2
<1>2. IsFiniteSet(Keys(fields))
  BY SizesAssumption, FS_Subset DEF Keys
<1>3. PICK f : f = [key \in Keys(fields) |-> FieldOf(key)]
  OBVIOUS
<1>4. f \in Surjection(Keys(fields), T)
  BY <1>3 DEF Surjection
<1> QED
  BY <1>1, <1>2, <1>4, FS_Surjection

LEMMA InheritedFields ==
  ASSUME NEW class, NEW fields,
         class.super = NoClass \/ fields = mClasses[class.super].fields,
         DOMAIN fields \subseteq DOMAIN SizeOf
  PROVE  /\ IsFiniteSet(Inherited(class)) /\ Inherited(class) \subseteq Field
         /\ class.super = NoClass \/ Keys(fields) = {} => Inherited(class) = {}
<1>1. CASE class.super = NoClass
  BY <1>1, FS_EmptySet DEF Inherited
<1>2. CASE class.super # NoClass
  <2>1. Inherited(class) = {FieldOf(key) : key \in Keys(fields)}
    BY <1>2 DEF Inherited, Keys, FieldOf
  <2> QED BY <1>2, <2>1, KeysAreFinite
<1> QED
  BY <1>1, <1>2

LEMMA Lists ==
  ASSUME NEW a \in Seq(Field), NEW b \in Seq(Field)
  PROVE  a \o b \in Seq(Field) /\ (a = <<>> => a \o b = b)
OBVIOUS

LEMMA HeaderFacts == ASSUME NEW n PROVE HeaderSize(n) \in Nat
BY SizesAssumption DEF HeaderSize

(* Static fields have no place. *)
LEMMA StaticsOnly ==
  ASSUME NEW fields, IsTable(fields), DOMAIN fields \subseteq DOMAIN SizeOf, Keys(fields) = {},
         NEW header \in Nat, NEW end \in Nat, header <= end
  PROVE  IsSound(fields, header, end)
BY DEF IsSound

(* Entering the static fields leaves the others where they are. *)
LEMMA StaticsAreEmplaced ==
  ASSUME NEW old, NEW own, NEW header, NEW end, IsSound(old, header, end),
         DOMAIN own \subseteq DOMAIN SizeOf, \A key \in DOMAIN own : own[key].static
  PROVE  LET new == Emplaced(old, own)
         IN  /\ IsSound(new, header, end)
             /\ DOMAIN old \subseteq DOMAIN new /\ Keys(new) = Keys(old)
             /\ \A key \in DOMAIN old : new[key] = old[key]
<1>1. PICK new : new = Emplaced(old, own)
  OBVIOUS
<1>2. /\ new = [key \in DOMAIN new |-> new[key]]
      /\ DOMAIN new = DOMAIN old \cup DOMAIN own
      /\ \A key \in DOMAIN old : new[key] = old[key]
      /\ \A key \in DOMAIN new \ DOMAIN old : new[key] = own[key]
  BY <1>1 DEF Emplaced
<1>3. Keys(new) = Keys(old)
  BY <1>2 DEF Keys
<1>4. \A key \in Keys(old) : new[key] = old[key]
  BY <1>2 DEF Keys
<1>5. IsSound(new, header, end)
  BY <1>2, <1>3, <1>4 DEF IsSound, IsTable
<1> QED
  BY <1>1, <1>2, <1>3, <1>5

IsWithStatics(class, new, header, end) ==
  /\ IsSound(new.fields, header, end)
  /\ DOMAIN class.fields \subseteq DOMAIN new.fields /\ Keys(new.fields) = Keys(class.fields)
  /\ \A key \in DOMAIN class.fields : new.fields[key] = class.fields[key]
  /\ new.size = class.size /\ new.object = class.object

(* The class with its static fields, next to the class without them. *)
LEMMA WithStaticsFacts ==
  ASSUME path \in ClassPaths, NEW name \in Name, Loadable(name), NEW class, DOMAIN class = Parts,
         NEW header, NEW end, IsSound(class.fields, header, end),
         NEW new, new = WithStatics(name, class)
  PROVE  IsWithStatics(class, new, header, end)
<1>1. CASE IsArray(name)
  BY <1>1 DEF WithStatics, IsWithStatics
<1>2. CASE ~IsArray(name)
  <2>1. PICK list \in Seq(Field) : list = Search(name).fields
    BY <1>2, SearchFacts DEF IsClassFile, Field
  <2> DEFINE statics == {i \in DOMAIN list : list[i].static}
             own == [key \in {list[i].key : i \in statics} |->
                       LET field == CHOOSE i \in statics : list[i].key = key
                       IN  [static |-> TRUE, offset |-> Cardinality({i \in statics : i < field})]]
  <2>2. new = [class EXCEPT !.fields = Emplaced(class.fields, own)]
    BY <1>2, <2>1 DEF WithStatics
  <2>3. DOMAIN own \subseteq DOMAIN SizeOf
    <3>1. \A i \in DOMAIN list : list[i] \in Field
      OBVIOUS
    <3> QED BY <3>1 DEF Field
  <2>4. \A key \in DOMAIN own : own[key].static
    OBVIOUS
  <2> HIDE DEF own
  <2>5. PICK fields : fields = Emplaced(class.fields, own)
    OBVIOUS
  <2>6. new.fields = fields /\ new.size = class.size /\ new.object = class.object
    BY <2>2, <2>5 DEF Parts
  <2> QED BY <2>3, <2>4, <2>5, <2>6, StaticsAreEmplaced DEF IsWithStatics
<1> QED
  BY <1>1, <1>2

(* A class as it is entered has no place for any field, and its size is the header's. *)
LEMMA NewClassFields ==
  ASSUME path \in ClassPaths, NEW name \in Name, Loadable(name),
         NEW new, new = WithStatics(name, NewClass(name))
  PROVE  /\ IsSound(new.fields, HeaderSize(name), new.size)
         /\ Keys(new.fields) = {} /\ new.object = 0 /\ new.size = HeaderSize(name)
<1>1. PICK class, header : class = NewClass(name) /\ header = HeaderSize(name) /\ header \in Nat
  BY HeaderFacts
<1>2. /\ DOMAIN class = Parts /\ class.fields = <<>> /\ class.size = header /\ class.object = 0
  BY <1>1 DEF NewClass, Parts
<1>3. <<>> = [key \in DOMAIN <<>> |-> <<>>[key]] /\ DOMAIN <<>> = {}
  OBVIOUS
<1>4. Keys(class.fields) = {} /\ IsSound(class.fields, header, header)
  BY <1>1, <1>2, <1>3 DEF Keys, IsSound, IsTable
<1>5. new = WithStatics(name, class) /\ IsSound(class.fields, header, header) /\ DOMAIN class = Parts
  BY <1>1, <1>2, <1>4
<1>6. IsWithStatics(class, new, header, header)
  BY <1>5, WithStaticsFacts
<1> QED
  BY <1>1, <1>2, <1>4, <1>6 DEF IsWithStatics

-----------------------------------------------------------------------------
(* The layouts of the classes in the table. *)

FieldsAreSound ==
  \A n \in DOMAIN mClasses :
    /\ IsSound(mClasses[n].fields, HeaderSize(n), mClasses[n].size)
    /\ mClasses[n].object \in Nat

(* But for java.lang.Class, prepare() lays a class out, and does so once. *)
FieldsComeLater ==
  \A i \in DOMAIN preparing :
    preparing[i].class # JavaLangClass /\ preparing[i].done <= Before(preparing[i].class) =>
      Keys(mClasses[preparing[i].class].fields) = {}

ObjectIsEmpty ==
  JavaLangObject \in DOMAIN mClasses => Keys(mClasses[JavaLangObject].fields) = {}

(* The layout of java.lang.Class is the one it had from the start. *)
ClassFields == Search(JavaLangClass).fields

ClassEnd ==
  Layouts([fields |-> <<>>, end |-> HeaderSize(JavaLangClass)], ClassFields)[Len(ClassFields)].end

HasClassLayout(class) ==
  /\ class.size = ClassEnd
  /\ \A i \in 1..Len(ClassFields) : ClassFields[i].static \/ ClassFields[i].key \in DOMAIN class.fields

ClassIsLaidOut ==
  JavaLangClass \in DOMAIN mClasses => HasClassLayout(mClasses[JavaLangClass])

ObjectsHaveRoom ==
  \A n \in Prepared : mClasses[n].object = ClassEnd /\ JavaLangClass \in DOMAIN mClasses

LayoutInv ==
  /\ FieldsAreSound
  /\ FieldsComeLater
  /\ ObjectIsEmpty
  /\ ClassIsLaidOut
  /\ ObjectsHaveRoom

ClassStays ==
  JavaLangClass \in DOMAIN mClasses =>
    /\ JavaLangClass \in DOMAIN mClasses'
    /\ mClasses'[JavaLangClass].fields = mClasses[JavaLangClass].fields
    /\ mClasses'[JavaLangClass].size = mClasses[JavaLangClass].size

LEMMA SameClass ==
  ASSUME path' = path
  PROVE  ClassFields' = ClassFields /\ ClassEnd' = ClassEnd
BY DEF ClassFields, ClassEnd, Search

LEMMA SameLayout ==
  ASSUME path' = path, NEW class, HasClassLayout(class)
  PROVE  HasClassLayout(class)'
BY SameClass DEF HasClassLayout

LEMMA EnterKeepsLayouts ==
  ASSUME TableInv, LinkInv, LayoutInv, path' = path, NEW name, NEW new, EntersClass(name, new),
         new.status = "Allocated", IsSound(new.fields, HeaderSize(name), new.size), new.object \in Nat,
         name # JavaLangClass => Keys(new.fields) = {},
         name = JavaLangClass => HasClassLayout(new)
  PROVE  LayoutInv' /\ ClassStays
<1>1. /\ DOMAIN mClasses' = DOMAIN mClasses \cup {name} /\ name \notin DOMAIN mClasses
      /\ \A n \in DOMAIN mClasses : mClasses'[n] = mClasses[n]
      /\ mClasses'[name] = new
  BY DEF EntersClass
<1>2. FieldsAreSound'
  BY <1>1 DEF LayoutInv, FieldsAreSound
<1>3. FieldsComeLater'
  <2> SUFFICES ASSUME NEW i \in DOMAIN preparing', NEW n, n = preparing'[i].class,
                      n # JavaLangClass, preparing'[i].done <= Before(n)
               PROVE  Keys(mClasses'[n].fields) = {}
    BY SameFiles DEF FieldsComeLater
  <2>1. CASE i \in DOMAIN preparing
    <3>1. preparing'[i] = preparing[i] /\ n \in DOMAIN mClasses
      BY <2>1, StackFacts DEF EntersClass, TableInv
    <3>2. Keys(mClasses[n].fields) = {}
      BY <2>1, <3>1 DEF LayoutInv, FieldsComeLater
    <3> QED BY <1>1, <3>1, <3>2
  <2>2. CASE i \notin DOMAIN preparing
    <3>1. n = name
      BY <2>2 DEF EntersClass
    <3> QED BY <1>1, <3>1
  <2> QED BY <2>1, <2>2
<1>4. ObjectIsEmpty'
  BY <1>1, JdkNames DEF LayoutInv, ObjectIsEmpty
<1>5. ClassIsLaidOut'
  BY <1>1, SameLayout DEF LayoutInv, ClassIsLaidOut
<1>6. ObjectsHaveRoom'
  BY <1>1, SameClass DEF LayoutInv, ObjectsHaveRoom, Prepared, Loaded
<1>7. ClassStays
  BY <1>1 DEF ClassStays
<1> QED
  BY <1>2, <1>3, <1>4, <1>5, <1>6, <1>7 DEF LayoutInv

LEMMA LinkKeepsLayouts ==
  ASSUME TableInv, LinkInv, LayoutInv, path' = path, preparing # <<>>,
         NEW n, n = Current, NEW old, old = mClasses[n], NEW new, LinksClass(new),
         new.status = old.status, IsSound(new.fields, HeaderSize(n), new.size), new.object = old.object,
         new.fields = old.fields \/ ~(preparing[Len(preparing)].done < Before(n)),
         n \in {JavaLangObject, JavaLangClass} => new.fields = old.fields,
         n = JavaLangClass => new.size = old.size
  PROVE  LayoutInv' /\ ClassStays
<1>1. /\ DOMAIN mClasses' = DOMAIN mClasses
      /\ \A c \in DOMAIN mClasses : c # n => mClasses'[c] = mClasses[c]
      /\ mClasses'[n] = new /\ n \in DOMAIN mClasses
  BY StackFacts DEF LinksClass, TableInv
<1>2. FieldsAreSound'
  <2> SUFFICES ASSUME NEW c \in DOMAIN mClasses
               PROVE  /\ IsSound(mClasses'[c].fields, HeaderSize(c), mClasses'[c].size)
                      /\ mClasses'[c].object \in Nat
    BY <1>1 DEF FieldsAreSound
  <2>1. CASE c = n
    BY <1>1, <2>1 DEF LayoutInv, FieldsAreSound
  <2>2. CASE c # n
    BY <1>1, <2>2 DEF LayoutInv, FieldsAreSound
  <2> QED BY <2>1, <2>2
<1>3. FieldsComeLater'
  <2> SUFFICES ASSUME NEW i \in DOMAIN preparing', NEW c, c = preparing'[i].class,
                      c # JavaLangClass, preparing'[i].done <= Before(c)
               PROVE  Keys(mClasses'[c].fields) = {}
    BY SameFiles DEF FieldsComeLater
  <2>0. /\ i \in DOMAIN preparing /\ Len(preparing) \in DOMAIN preparing
        /\ preparing[Len(preparing)].class = n /\ preparing[Len(preparing)].done \in Nat
    BY StackFacts DEF LinksClass, TableInv
  <2>1. CASE i = Len(preparing)
    <3>1. c = n
      BY <2>1 DEF LinksClass
    <3>2. PICK k \in Nat : k = preparing[i].done /\ preparing'[i].done = k + 1
      BY <2>0, <2>1 DEF LinksClass
    <3>3. PICK b : b = Before(n) /\ k + 1 <= b
      BY <3>1, <3>2
    <3>4. b \in Nat
      BY <1>1, <3>3, StepCount DEF LinkInv, FilesAreFound
    <3>5. k < b /\ k <= b
      BY <3>3, <3>4
    <3>6. new.fields = old.fields
      BY <2>1, <3>2, <3>3, <3>5
    <3>7. Keys(mClasses[n].fields) = {}
      BY <2>0, <2>1, <3>1, <3>2, <3>3, <3>5 DEF LayoutInv, FieldsComeLater
    <3> QED BY <1>1, <3>1, <3>6, <3>7
  <2>2. CASE i # Len(preparing)
    <3>1. preparing'[i] = preparing[i]
      BY <2>0, <2>2 DEF LinksClass
    <3>2. c # n /\ c \in DOMAIN mClasses
      BY <2>0, <2>2, <3>1, StackFacts DEF TableInv, NoCircularPreparation
    <3>3. Keys(mClasses[c].fields) = {}
      BY <2>0, <3>1 DEF LayoutInv, FieldsComeLater
    <3> QED BY <1>1, <3>2, <3>3
  <2> QED BY <2>1, <2>2
<1>4. ObjectIsEmpty'
  BY <1>1 DEF LayoutInv, ObjectIsEmpty
<1>5. ClassStays
  BY <1>1 DEF ClassStays
<1>6. ClassIsLaidOut'
  <2> SUFFICES ASSUME JavaLangClass \in DOMAIN mClasses', NEW after, after = mClasses'[JavaLangClass]
               PROVE  HasClassLayout(after)'
    BY DEF ClassIsLaidOut
  <2>1. PICK before : before = mClasses[JavaLangClass]
    OBVIOUS
  <2>2. after.fields = before.fields /\ after.size = before.size
    BY <1>1, <1>5, <2>1 DEF ClassStays
  <2>3. HasClassLayout(before)
    BY <1>1, <2>1 DEF LayoutInv, ClassIsLaidOut
  <2>4. HasClassLayout(after)
    BY <2>2, <2>3 DEF HasClassLayout
  <2> QED BY <2>4, SameLayout
<1>7. ObjectsHaveRoom'
  <2>1. Prepared' = Prepared
    BY <1>1 DEF Prepared, Loaded
  <2>2. ASSUME NEW c \in Prepared PROVE mClasses'[c].object = ClassEnd /\ JavaLangClass \in DOMAIN mClasses
    <3>1. /\ mClasses[c].object = ClassEnd /\ c \in DOMAIN mClasses
          /\ JavaLangClass \in DOMAIN mClasses
      BY DEF LayoutInv, ObjectsHaveRoom, Prepared, Loaded
    <3> QED BY <1>1, <3>1
  <2> QED BY <1>1, <2>1, <2>2, SameClass DEF ObjectsHaveRoom
<1> QED
  BY <1>2, <1>3, <1>4, <1>5, <1>6, <1>7 DEF LayoutInv

LEMMA ReturnKeepsLayouts ==
  ASSUME TableInv, Progress, Busy, LinkInv, LayoutInv, path' = path, preparing # <<>>,
         NEW n, n = Current, NEW old, old = mClasses[n], NEW new, ReturnsClass(new),
         new.status = "Prepared", new.fields = old.fields, new.size = old.size,
         new.object = mClasses[JavaLangClass].size
  PROVE  LayoutInv' /\ ClassStays
<1>1. /\ DOMAIN mClasses' = DOMAIN mClasses
      /\ \A c \in DOMAIN mClasses : c # n => mClasses'[c] = mClasses[c]
      /\ mClasses'[n] = new /\ n \in DOMAIN mClasses
  BY StackFacts DEF ReturnsClass, TableInv
<1>2. new.object = ClassEnd /\ ClassEnd \in Nat /\ JavaLangClass \in DOMAIN mClasses
  <2>1. JavaLangClass \in DOMAIN mClasses
    BY DEF Progress
  <2>2. mClasses[JavaLangClass].size = ClassEnd
    BY <2>1 DEF LayoutInv, ClassIsLaidOut, HasClassLayout
  <2>3. mClasses[JavaLangClass].size \in Nat
    BY <2>1 DEF LayoutInv, FieldsAreSound, IsSound
  <2> QED BY <2>1, <2>2, <2>3
<1>3. FieldsAreSound'
  <2> SUFFICES ASSUME NEW c \in DOMAIN mClasses
               PROVE  /\ IsSound(mClasses'[c].fields, HeaderSize(c), mClasses'[c].size)
                      /\ mClasses'[c].object \in Nat
    BY <1>1 DEF FieldsAreSound
  <2>1. CASE c = n
    BY <1>1, <1>2, <2>1 DEF LayoutInv, FieldsAreSound
  <2>2. CASE c # n
    BY <1>1, <2>2 DEF LayoutInv, FieldsAreSound
  <2> QED BY <2>1, <2>2
<1>4. FieldsComeLater'
  <2> SUFFICES ASSUME NEW i \in DOMAIN preparing', NEW c, c = preparing'[i].class,
                      c # JavaLangClass, preparing'[i].done <= Before(c)
               PROVE  Keys(mClasses'[c].fields) = {}
    BY SameFiles DEF FieldsComeLater
  <2>1. i \in DOMAIN preparing /\ preparing'[i] = preparing[i]
    BY DEF ReturnsClass
  <2>2. c \in DOMAIN mClasses
    BY <2>1, StackFacts DEF TableInv
  <2>3. Keys(mClasses[c].fields) = {}
    BY <2>1 DEF LayoutInv, FieldsComeLater
  <2>4. mClasses'[c].fields = mClasses[c].fields
    BY <1>1, <2>2
  <2> QED BY <2>3, <2>4
<1>5. ObjectIsEmpty'
  BY <1>1 DEF LayoutInv, ObjectIsEmpty
<1>6. ClassStays
  BY <1>1 DEF ClassStays
<1>7. ClassIsLaidOut'
  <2> SUFFICES ASSUME JavaLangClass \in DOMAIN mClasses', NEW after, after = mClasses'[JavaLangClass]
               PROVE  HasClassLayout(after)'
    BY DEF ClassIsLaidOut
  <2>1. PICK before : before = mClasses[JavaLangClass]
    OBVIOUS
  <2>2. after.fields = before.fields /\ after.size = before.size
    BY <1>1, <1>6, <2>1 DEF ClassStays
  <2>3. HasClassLayout(before)
    BY <1>1, <2>1 DEF LayoutInv, ClassIsLaidOut
  <2>4. HasClassLayout(after)
    BY <2>2, <2>3 DEF HasClassLayout
  <2> QED BY <2>4, SameLayout
<1>8. ObjectsHaveRoom'
  <2>1. ASSUME NEW c \in Prepared' PROVE mClasses'[c].object = ClassEnd
    <3>1. CASE c = n
      BY <1>1, <1>2, <3>1
    <3>2. CASE c # n
      <4>1. c \in Prepared /\ mClasses'[c] = mClasses[c]
        BY <1>1, <3>2 DEF Prepared, Loaded
      <4> QED BY <4>1 DEF LayoutInv, ObjectsHaveRoom
    <3> QED BY <3>1, <3>2
  <2> QED BY <1>1, <1>2, <2>1, SameClass DEF ObjectsHaveRoom
<1> QED
  BY <1>3, <1>4, <1>5, <1>6, <1>7, <1>8 DEF LayoutInv

(* What java.lang.Object and java.lang.Class extend. *)
LEMMA RootsInherit ==
  ASSUME ObjectHasNoFields, path \in ClassPaths, NEW n \in Name, Loadable(n), ~IsArray(n)
  PROVE  /\ n = JavaLangObject =>
              SuperOf(n) = NoClass /\ \A i \in DOMAIN Search(n).fields : Search(n).fields[i].static
         /\ n = JavaLangClass => SuperOf(n) \in {NoClass, JavaLangObject}
<1>1. /\ n.base \in ReadableIn(path) /\ n = Instance(n.base) /\ Search(n) = FileIn(path, n.base)
      /\ SuperOf(n) = Instance(Search(n).super)
  BY SearchFacts DEF Search, SuperOf
<1>2. CASE n = JavaLangObject
  <2>1. n.base = "Object"
    BY <1>2, InstanceNames DEF JavaLangObject
  <2>2. PICK file : file = FileIn(path, "Object")
    OBVIOUS
  <2>3. file.super = "" /\ \A f \in Range(file.fields) : f.static
    BY <1>1, <2>1, <2>2 DEF ObjectHasNoFields
  <2>4. Search(n) = file
    BY <1>1, <2>1, <2>2
  <2>5. \A i \in DOMAIN file.fields : file.fields[i] \in Range(file.fields)
    BY DEF Range
  <2>6. SuperOf(n) = NoClass
    BY <1>1, <2>3, <2>4 DEF NoClass
  <2> QED BY <1>2, <2>3, <2>4, <2>5, <2>6, JdkNames
<1>3. CASE n = JavaLangClass
  <2>1. n.base = "Class"
    BY <1>3, InstanceNames DEF JavaLangClass
  <2>2. Search(n).super \in {"", "Object"}
    BY <1>1, <2>1 DEF ObjectHasNoFields
  <2>3. SuperOf(n) \in {NoClass, JavaLangObject}
    BY <1>1, <2>2 DEF NoClass, JavaLangObject
  <2> QED BY <1>3, <2>3, JdkNames
<1> QED
  BY <1>2, <1>3

LEMMA FieldsAreLaidOut ==
  ASSUME ObjectHasNoFields, TableInv, LinkInv, LayoutInv, preparing # <<>>,
         NEW n, n = Current, ~IsArray(n), preparing[Len(preparing)].done = Before(n),
         NEW old, old = mClasses[n], NEW inherited \in SetToSeqs(Inherited(old)),
         NEW new, new = WithLayout(old, Layout(n, old, inherited))
  PROVE  /\ IsSound(new.fields, HeaderSize(n), new.size)
         /\ new.status = old.status /\ new.object = old.object
         /\ n \in {JavaLangObject, JavaLangClass} => new.fields = old.fields
         /\ n = JavaLangClass => new.size = old.size
<1>1. /\ n \in DOMAIN mClasses /\ n \in Name /\ Loadable(n) /\ path \in ClassPaths
      /\ DOMAIN old = Parts
  BY StackFacts DEF TableInv, LinkInv, FilesAreFound
<1>2. PICK header \in Nat : header = HeaderSize(n)
  BY HeaderFacts
<1>3. PICK own \in Seq(Field) : own = Search(n).fields
  BY <1>1, SearchFacts DEF IsClassFile, Field
<1>4. IsSound(old.fields, header, old.size) /\ IsTable(old.fields) /\ DOMAIN old.fields \subseteq DOMAIN SizeOf
  BY <1>1, <1>2 DEF LayoutInv, FieldsAreSound, IsSound
<1>5. old.super = SuperOf(n) \/ old.super = NoClass
  <2>1. LinkedSoFar(n, old, preparing[Len(preparing)].done)
    BY <1>1, StackFacts DEF LinkInv, StackIsLinked, TableInv
  <2> QED BY <2>1 DEF LinkedSoFar
<1>6. old.super \in DOMAIN mClasses \cup {NoClass}
  BY <1>1 DEF LinkInv, LinksLeadToClasses, LinksAreIn
<1>7. PICK fields : /\ old.super = NoClass \/ fields = mClasses[old.super].fields
                    /\ DOMAIN fields \subseteq DOMAIN SizeOf
                    /\ old.super = JavaLangObject => Keys(fields) = {}
  <2>1. CASE old.super = NoClass
    <3>1. old.super # JavaLangObject
      BY <2>1, JdkNames, InstanceNames
    <3> QED BY <1>4, <2>1, <3>1
  <2>2. CASE old.super # NoClass
    <3>1. PICK fields : fields = mClasses[old.super].fields
      OBVIOUS
    <3>2. old.super \in DOMAIN mClasses
      BY <1>6, <2>2
    <3>3. DOMAIN fields \subseteq DOMAIN SizeOf
      BY <3>1, <3>2 DEF LayoutInv, FieldsAreSound, IsSound
    <3>4. old.super = JavaLangObject => Keys(fields) = {}
      BY <3>1, <3>2 DEF LayoutInv, ObjectIsEmpty
    <3> QED BY <3>1, <3>3, <3>4
  <2> QED BY <2>1, <2>2
<1>8. PICK T : T = Inherited(old)
  OBVIOUS
<1>9. /\ IsFiniteSet(T) /\ T \subseteq Field
      /\ old.super \in {NoClass, JavaLangObject} => T = {}
  BY <1>7, <1>8, InheritedFields
<1>10. inherited \in Seq(Field) /\ (T = {} => inherited = <<>>)
  BY <1>8, <1>9, OrdersAreLists
<1>11. PICK list \in Seq(Field) : list = inherited \o own /\ (T = {} => list = own)
  BY <1>10, Lists
<1>12. PICK first : first = [fields |-> old.fields, end |-> header]
  OBVIOUS
<1>13. PICK last : last = Layouts(first, list)[Len(list)]
  OBVIOUS
<1>14. Layout(n, old, inherited) = last
  BY <1>2, <1>3, <1>11, <1>12, <1>13 DEF Layout
<1>15. /\ new.fields = last.fields /\ new.size = last.end
       /\ new.status = old.status /\ new.object = old.object
  BY <1>1, <1>14 DEF WithLayout, Parts
<1>16. first.fields = old.fields /\ first.end = header
  BY <1>12
<1>17. (\A i \in 1..Len(list) : list[i].static \/ list[i].key \in DOMAIN old.fields) =>
         last.fields = old.fields
  BY <1>4, <1>13, <1>16, LayoutFacts
<1>18. CASE n # JavaLangClass
  <2>1. Keys(old.fields) = {}
    <3>1. PICK top : top = Len(preparing) /\ top \in DOMAIN preparing /\ preparing[top].class = n
      BY StackFacts DEF TableInv
    <3>2. PICK b \in Nat : b = Before(n)
      BY <1>1, StepCount
    <3>3. b <= b
      BY <3>2
    <3> QED BY <1>18, <3>1, <3>2, <3>3 DEF LayoutInv, FieldsComeLater
  <2>2. header <= header
    OBVIOUS
  <2>3. IsSound(first.fields, header, first.end)
    BY <1>4, <1>16, <2>1, <2>2, StaticsOnly
  <2>4. IsSound(last.fields, header, last.end)
    BY <1>13, <2>3, LayoutIsSound
  <2>5. CASE n = JavaLangObject
    <3>1. SuperOf(n) = NoClass /\ \A i \in DOMAIN own : own[i].static
      BY <1>1, <1>3, <2>5, RootsInherit
    <3>2. list = own
      BY <1>5, <1>9, <1>11, <3>1
    <3>3. \A i \in 1..Len(list) : list[i].static
      BY <3>1, <3>2
    <3>4. last.fields = old.fields
      BY <1>17, <3>3
    <3> QED BY <1>2, <1>15, <1>18, <2>4, <3>4
  <2>6. CASE n # JavaLangObject
    BY <1>2, <1>15, <1>18, <2>4, <2>6
  <2> QED BY <2>5, <2>6
<1>19. CASE n = JavaLangClass
  <2>1. SuperOf(n) \in {NoClass, JavaLangObject}
    BY <1>1, <1>19, RootsInherit
  <2>2. list = own /\ own = ClassFields
    BY <1>3, <1>5, <1>9, <1>11, <1>19, <2>1 DEF ClassFields
  <2>3. HasClassLayout(old)
    BY <1>1, <1>19 DEF LayoutInv, ClassIsLaidOut
  <2>4. last.fields = old.fields
    BY <1>17, <2>2, <2>3 DEF HasClassLayout
  <2>5. PICK start : start = [fields |-> <<>>, end |-> header]
    OBVIOUS
  <2>6. start.end = first.end /\ IsTable(start.fields)
    <3>1. <<>> = [key \in DOMAIN <<>> |-> <<>>[key]]
      OBVIOUS
    <3> QED BY <1>16, <2>5, <3>1 DEF IsTable
  <2>7. last.end = Layouts(start, list)[Len(list)].end
    BY <1>4, <1>13, <1>16, <2>6, LayoutsEndAlike
  <2>8. last.end = ClassEnd
    BY <1>2, <1>19, <2>2, <2>5, <2>7 DEF ClassEnd
  <2>9. last.end = old.size
    BY <2>3, <2>8 DEF HasClassLayout
  <2> QED BY <1>2, <1>4, <1>15, <2>4, <2>9
<1> QED
  BY <1>18, <1>19

(* java.lang.Class as it is laid out before anything else is loaded. *)
LEMMA ClassIsSetUp ==
  ASSUME path \in ClassPaths, NEW n, n = JavaLangClass, Loadable(n),
         NEW new, new = WithStatics(n, LaidOut(n, NewClass(n)))
  PROVE  /\ IsSound(new.fields, HeaderSize(n), new.size)
         /\ new.object = 0 /\ HasClassLayout(new)
<1>1. n \in Name /\ ~IsArray(n)
  BY JdkNames, InstanceNames DEF IsArray, JavaLangClass
<1>2. PICK header \in Nat : header = HeaderSize(n)
  BY HeaderFacts
<1>3. PICK own \in Seq(Field) : own = ClassFields /\ own = Search(n).fields
  BY <1>1, SearchFacts DEF IsClassFile, Field, ClassFields
<1>4. PICK class : class = NewClass(n)
  OBVIOUS
<1>5. DOMAIN class = Parts /\ class.fields = <<>> /\ class.object = 0
  BY <1>4 DEF NewClass, Parts
<1>6. PICK first : first = [fields |-> <<>>, end |-> header]
  OBVIOUS
<1>7. PICK last : last = Layouts(first, own)[Len(own)]
  OBVIOUS
<1>8. <<>> \in Seq(Field) /\ <<>> \o own = own
  BY Lists
<1>9. Layout(n, class, <<>>) = last
  BY <1>2, <1>3, <1>5, <1>6, <1>7, <1>8 DEF Layout
<1>10. PICK laidOut : laidOut = LaidOut(n, class)
  OBVIOUS
<1>11. /\ DOMAIN laidOut = Parts /\ laidOut.fields = last.fields
       /\ laidOut.size = last.end /\ laidOut.object = 0
  BY <1>5, <1>9, <1>10 DEF LaidOut, WithLayout, Parts
<1>12. IsTable(first.fields) /\ IsSound(first.fields, header, first.end)
  <2>1. <<>> = [key \in DOMAIN <<>> |-> <<>>[key]] /\ DOMAIN <<>> = {}
    OBVIOUS
  <2> QED BY <1>6, <2>1 DEF IsTable, IsSound, Keys
<1>13. IsSound(last.fields, header, last.end)
  BY <1>7, <1>12, LayoutIsSound
<1>14. \A i \in 1..Len(own) : ~own[i].static => own[i].key \in DOMAIN last.fields
  BY <1>7, <1>12, LayoutFacts
<1>15. last.end = ClassEnd
  BY <1>2, <1>3, <1>6, <1>7 DEF ClassEnd
<1>16. IsSound(laidOut.fields, header, laidOut.size) /\ new = WithStatics(n, laidOut)
  BY <1>4, <1>10, <1>11, <1>13
<1>17. IsWithStatics(laidOut, new, header, laidOut.size)
  BY <1>1, <1>11, <1>16, WithStaticsFacts
<1>18. /\ IsSound(new.fields, header, new.size) /\ new.object = 0 /\ new.size = ClassEnd
       /\ DOMAIN last.fields \subseteq DOMAIN new.fields
  BY <1>11, <1>15, <1>17 DEF IsWithStatics
<1>19. HasClassLayout(new)
  BY <1>3, <1>14, <1>18 DEF HasClassLayout
<1> QED
  BY <1>2, <1>18, <1>19

LEMMA UnchangedKeepsLayouts ==
  ASSUME LayoutInv, UNCHANGED <<path, mClasses, preparing>>
  PROVE  LayoutInv' /\ ClassStays
<1>1. FieldsAreSound' /\ ObjectIsEmpty'
  BY DEF LayoutInv, FieldsAreSound, ObjectIsEmpty
<1>2. FieldsComeLater'
  BY SameFiles DEF LayoutInv, FieldsComeLater
<1>3. ClassIsLaidOut'
  BY SameLayout DEF LayoutInv, ClassIsLaidOut
<1>4. ObjectsHaveRoom'
  BY SameClass DEF LayoutInv, ObjectsHaveRoom, Prepared, Loaded
<1>5. ClassStays
  BY DEF ClassStays
<1> QED
  BY <1>1, <1>2, <1>3, <1>4, <1>5 DEF LayoutInv

LEMMA NextKeepsLayouts ==
  ASSUME ObjectHasNoFields, IInv, LinkInv, LayoutInv, [Next]_vars
  PROVE  LayoutInv' /\ ClassStays
<1>0. TableInv /\ Shapes /\ Progress
  BY DEF IInv, TableInv
<1>1. ASSUME UNCHANGED <<path, mClasses, preparing>> PROVE LayoutInv' /\ ClassStays
  BY <1>1, UnchangedKeepsLayouts
<1>2. ASSUME NEW name \in Name, Loadable(name), ~Found(name), path' = path, Enter(name, NewClass(name)),
             name # JavaLangClass
      PROVE  LayoutInv' /\ ClassStays
  <2>1. PICK new : new = WithStatics(name, NewClass(name))
    OBVIOUS
  <2>2. EntersClass(name, new)
    BY <1>0, <1>2, <2>1, EnterEffect
  <2>3. new.status = "Allocated"
    BY <2>1, NewClassParts
  <2>4. path \in ClassPaths
    BY DEF LinkInv, FilesAreFound
  <2>5. IsSound(new.fields, HeaderSize(name), new.size) /\ Keys(new.fields) = {} /\ new.object = 0
    BY <1>2, <2>1, <2>4, NewClassFields
  <2> QED BY <1>0, <1>2, <2>2, <2>3, <2>5, EnterKeepsLayouts
<1>3. Busy => JavaLangClass \in DOMAIN mClasses
  BY <1>0 DEF Progress
<1>4. CASE LoadNested
  <2>1. PICK name : name = Pending.class
    OBVIOUS
  <2>2. name \in Name
    BY <1>0, <1>4, <2>1, NestedIsLinked
  <2>3. Loadable(name) /\ ~Found(name) /\ path' = path /\ Enter(name, NewClass(name)) /\ Busy
    BY <1>4, <2>1 DEF LoadNested, Busy
  <2>4. name # JavaLangClass
    BY <1>3, <2>3 DEF Found
  <2> QED BY <1>2, <2>2, <2>3, <2>4
<1>5. CASE FailNested
  BY <1>1, <1>5 DEF FailNested
<1>6. ASSUME preparing # <<>> PROVE /\ Current \in DOMAIN mClasses
                                     /\ DOMAIN mClasses[Current] = Parts
  BY <1>0, <1>6, StackFacts DEF LinkInv, FilesAreFound
(* The steps that link a class leave its layout alone. *)
<1>7. ASSUME preparing # <<>>, preparing' = Done, path' = path,
             NEW new, mClasses' = [mClasses EXCEPT ![Current] = new],
             new.status = mClasses[Current].status, new.object = mClasses[Current].object,
             new.fields = mClasses[Current].fields, new.size = mClasses[Current].size
      PROVE  LayoutInv' /\ ClassStays
  <2>1. LinksClass(new)
    BY <1>0, <1>7, LinkEffect
  <2>2. PICK n, old : n = Current /\ old = mClasses[n]
    OBVIOUS
  <2>3. IsSound(new.fields, HeaderSize(n), new.size)
    BY <1>6, <1>7, <2>2 DEF LayoutInv, FieldsAreSound
  <2> QED BY <1>0, <1>7, <2>1, <2>2, <2>3, LinkKeepsLayouts
<1>8. CASE LinkSuperClass
  <2>1. preparing # <<>> /\ preparing' = Done /\ path' = path
    BY <1>8 DEF LinkSuperClass, At
  <2>2. PICK old, new : old = mClasses[Current] /\ new = [old EXCEPT !.super = Pending.class]
    OBVIOUS
  <2>3. /\ new.status = old.status /\ new.object = old.object
        /\ new.fields = old.fields /\ new.size = old.size
    BY <1>6, <2>1, <2>2 DEF Parts
  <2>4. mClasses' = [mClasses EXCEPT ![Current] = new]
    BY <1>6, <1>8, <2>1, <2>2 DEF LinkSuperClass
  <2> QED BY <1>7, <2>1, <2>2, <2>3, <2>4
<1>9. CASE LinkSuperInterface
  <2>1. preparing # <<>> /\ preparing' = Done /\ path' = path
    BY <1>9 DEF LinkSuperInterface, At
  <2>2. PICK old, new : /\ old = mClasses[Current]
                        /\ new = [old EXCEPT !.interfaces = Append(old.interfaces, Pending.class)]
    OBVIOUS
  <2>3. /\ new.status = old.status /\ new.object = old.object
        /\ new.fields = old.fields /\ new.size = old.size
    BY <1>6, <2>1, <2>2 DEF Parts
  <2>4. mClasses' = [mClasses EXCEPT ![Current] = new]
    BY <1>6, <1>9, <2>1, <2>2 DEF LinkSuperInterface
  <2> QED BY <1>7, <2>1, <2>2, <2>3, <2>4
<1>10. CASE LinkElement
  <2>1. preparing # <<>> /\ preparing' = Done /\ path' = path
    BY <1>10 DEF LinkElement, At
  <2>2. PICK old, new : old = mClasses[Current] /\ new = [old EXCEPT !.element = Pending.class]
    OBVIOUS
  <2>3. /\ new.status = old.status /\ new.object = old.object
        /\ new.fields = old.fields /\ new.size = old.size
    BY <1>6, <2>1, <2>2 DEF Parts
  <2>4. mClasses' = [mClasses EXCEPT ![Current] = new]
    BY <1>6, <1>10, <2>1, <2>2 DEF LinkElement
  <2> QED BY <1>7, <2>1, <2>2, <2>3, <2>4
<1>11. CASE LinkFields
  <2>1. preparing # <<>> /\ At("fields") /\ preparing' = Done /\ path' = path
    BY <1>11 DEF LinkFields, At
  <2>2. PICK n, old : n = Current /\ old = mClasses[n]
    OBVIOUS
  <2>3. ~IsArray(n) /\ preparing[Len(preparing)].done = Before(n)
    <3>1. PICK k \in Nat : /\ k = preparing[Len(preparing)].done
                           /\ \/ Pending = Step("super", SuperOf(n))
                              \/ Pending = Step("interface", InterfacesOf(n)[k - Supers(n) + 1])
                              \/ Pending = Step("element", ElementOf(n))
                              \/ Pending = Step("fields", NoClass) /\ k = Before(n) /\ ~IsArray(n)
                              \/ Pending = Step("object", JavaLangClass)
      BY <1>0, <2>1, <2>2, PendingFacts
    <3>2. \A s, x : Step(s, x).what = s
      BY DEF Step
    <3>3. Pending.what = "fields"
      BY <2>1 DEF At
    <3> QED BY <3>1, <3>2, <3>3
  <2>4. PICK inherited \in SetToSeqs(Inherited(old)) :
          mClasses' = [mClasses EXCEPT ![Current] = WithLayout(old, Layout(n, old, inherited))]
    BY <1>6, <1>11, <2>1, <2>2 DEF LinkFields
  <2>5. PICK new : new = WithLayout(old, Layout(n, old, inherited))
    OBVIOUS
  <2>6. /\ IsSound(new.fields, HeaderSize(n), new.size)
        /\ new.status = old.status /\ new.object = old.object
        /\ n \in {JavaLangObject, JavaLangClass} => new.fields = old.fields
        /\ n = JavaLangClass => new.size = old.size
    BY <1>0, <2>1, <2>2, <2>3, <2>5, FieldsAreLaidOut
  <2>7. LinksClass(new)
    BY <1>0, <2>1, <2>4, <2>5, LinkEffect
  <2>8. ~(preparing[Len(preparing)].done < Before(n))
    <3>1. n \in Name /\ Loadable(n) /\ path \in ClassPaths
      BY <1>6, <2>1, <2>2 DEF LinkInv, FilesAreFound
    <3>2. PICK b \in Nat : b = Before(n)
      BY <3>1, StepCount
    <3> QED BY <2>3, <3>2
  <2> QED BY <1>0, <2>1, <2>2, <2>6, <2>7, <2>8, LinkKeepsLayouts
<1>12. CASE CreateClassObject
  <2>1. preparing # <<>> /\ preparing' = Front(preparing) /\ path' = path /\ Busy
    BY <1>12 DEF CreateClassObject, At, Busy
  <2>2. PICK n, old, new :
          /\ n = Current /\ old = mClasses[n]
          /\ new = [old EXCEPT !.object = mClasses[JavaLangClass].size, !.status = "Prepared"]
    OBVIOUS
  <2>3. /\ new.status = "Prepared" /\ new.object = mClasses[JavaLangClass].size
        /\ new.fields = old.fields /\ new.size = old.size
    BY <1>6, <2>1, <2>2 DEF Parts
  <2>4. mClasses' = [mClasses EXCEPT ![Current] = new]
    BY <1>0, <1>6, <1>12, <2>1, <2>2 DEF CreateClassObject, Shapes
  <2>5. ReturnsClass(new)
    BY <1>0, <2>1, <2>4, ReturnEffect
  <2> QED BY <1>0, <2>1, <2>2, <2>3, <2>5, ReturnKeepsLayouts
<1>13. CASE SetUpJavaLangClass
  <2>1. PICK n : n = JavaLangClass
    OBVIOUS
  <2>2. /\ phase = "Start" /\ path' = path /\ Loadable(n)
        /\ Enter(n, LaidOut(n, NewClass(n)))
    BY <1>13, <2>1 DEF SetUpJavaLangClass
  <2>3. preparing = <<>> /\ ~Found(n)
    BY <1>0, <2>2 DEF Progress, Found
  <2>4. PICK new : new = WithStatics(n, LaidOut(n, NewClass(n)))
    OBVIOUS
  <2>5. EntersClass(n, new)
    BY <1>0, <2>2, <2>3, <2>4, EnterEffect
  <2>6. new.status = "Allocated"
    BY <2>4, NewClassParts
  <2>7. path \in ClassPaths
    BY DEF LinkInv, FilesAreFound
  <2>8. IsSound(new.fields, HeaderSize(n), new.size) /\ new.object = 0 /\ HasClassLayout(new)
    BY <2>1, <2>2, <2>4, <2>7, ClassIsSetUp
  <2> QED BY <1>0, <2>1, <2>2, <2>5, <2>6, <2>8, EnterKeepsLayouts
<1>14. CASE RequireClass
  <2>1. PICK name \in NextRequired : Loadable(name) /\ Enter(name, NewClass(name))
    BY <1>14 DEF RequireClass
  <2>2. name \in Name /\ ~Found(name)
    BY <2>1, RequiredAssumption DEF NextRequired, MissingRequired
  <2>3. path' = path /\ Busy
    BY <1>14 DEF RequireClass, Busy
  <2> QED BY <1>2, <1>3, <2>1, <2>2, <2>3 DEF Found
<1>15. CASE RequiredIsMissing \/ Initialized
  BY <1>1, <1>15 DEF RequiredIsMissing, Initialized
<1>16. ASSUME NEW name \in Names(path), LoadClass(name) PROVE LayoutInv' /\ ClassStays
  <2>1. name \in Name
    BY ClassPathsAssumption DEF LinkInv, FilesAreFound
  <2>2. Busy /\ ~Found(name)
    BY <1>16 DEF LoadClass, Idle, Busy
  <2> QED BY <1>2, <1>3, <1>16, <2>1, <2>2 DEF LoadClass, Found
<1>17. ASSUME NEW name, FindClass(name) \/ ClassNotFound(name) PROVE LayoutInv' /\ ClassStays
  BY <1>1, <1>17 DEF FindClass, ClassNotFound
<1>18. CASE Ended \/ UNCHANGED vars
  BY <1>1, <1>18 DEF Ended, vars
<1> QED
  BY <1>4, <1>5, <1>8, <1>9, <1>10, <1>11, <1>12, <1>13, <1>14, <1>15, <1>16, <1>17, <1>18
     DEF Next, Prepare, Boot

LEMMA InitLaidOut == Init => LayoutInv
BY DEF Init, LayoutInv, FieldsAreSound, FieldsComeLater, ObjectIsEmpty, ClassIsLaidOut,
       ObjectsHaveRoom, Prepared, Loaded

LEMMA LayoutInvHolds ==
  ASSUME ObjectHasNoFields
  PROVE  Spec => [](IInv /\ LinkInv /\ LayoutInv)
<1>1. Init => IInv /\ LinkInv /\ LayoutInv
  BY InitHolds, InitLinked, InitLaidOut
<1>2. IInv /\ LinkInv /\ LayoutInv /\ [Next]_vars => (IInv /\ LinkInv /\ LayoutInv)'
  BY NextKeeps, NextKeepsLinks, NextKeepsLayouts
<1> QED
  BY <1>1, <1>2, PTL DEF Spec

(***************************************************************************)
(* Whatever order a superclass's hash table hands its fields over in, the  *)
(* fields of an object lie behind its header, inside its allocation,       *)
(* aligned, and apart from one another (InstanceClass::linkFields).        *)
(***************************************************************************)
THEOREM FieldsAreApart ==
  ASSUME ObjectHasNoFields
  PROVE  Spec => []LayoutsAreSound
<1>1. IInv /\ LinkInv /\ LayoutInv => LayoutsAreSound
  <2> SUFFICES ASSUME LayoutInv, NEW n \in Prepared, NEW fields, fields = mClasses[n].fields,
                      NEW key \in Keys(fields)
               PROVE  /\ fields[key].offset >= HeaderSize(n)
                      /\ fields[key].offset % SizeOf[key] = 0
                      /\ fields[key].offset + SizeOf[key] <= mClasses[n].size
                      /\ \A other \in Keys(fields) \ {key} :
                           \/ fields[key].offset + SizeOf[key] <= fields[other].offset
                           \/ fields[other].offset + SizeOf[other] <= fields[key].offset
    BY DEF LayoutsAreSound, InstanceFields, FieldEnd, Keys
  <2>1. PICK header \in Nat : header = HeaderSize(n)
    BY HeaderFacts
  <2>2. PICK end : end = mClasses[n].size
    OBVIOUS
  <2>3. IsSound(fields, header, end)
    BY <2>1, <2>2 DEF LayoutInv, FieldsAreSound, Prepared, Loaded
  <2>4. IsPlaced(fields[key].offset, SizeOf[key], header, end)
    BY <2>3 DEF IsSound
  <2>5. \A other \in Keys(fields) \ {key} :
          AreApart(fields[key].offset, SizeOf[key], fields[other].offset, SizeOf[other])
    BY <2>3 DEF IsSound
  <2>6. /\ fields[key].offset % SizeOf[key] = 0
        /\ fields[key].offset + SizeOf[key] <= end
    BY <2>4 DEF IsPlaced
  <2>7. fields[key].offset >= header
    BY <2>1, <2>4 DEF IsPlaced
  <2> QED BY <2>1, <2>2, <2>5, <2>6, <2>7 DEF AreApart
<1> QED
  BY <1>1, LayoutInvHolds, PTL

(***************************************************************************)
(* Where the fields of a prepared class lie never changes, nor where those *)
(* of java.lang.Class lie while the VM starts, when class objects already  *)
(* exist and that class has yet to be prepared (linkFields runs twice).    *)
(***************************************************************************)
THEOREM FieldsStay ==
  ASSUME ObjectHasNoFields
  PROVE  Spec => LayoutsAreFinal
<1>1. ASSUME IInv, LinkInv, LayoutInv, [Next]_vars, NEW n \in Loaded,
             n \in Prepared \/ (n = JavaLangClass /\ Prepared # {})
      PROVE  /\ n \in DOMAIN mClasses'
             /\ \A key \in InstanceFields(n) : mClasses'[n].fields[key] = mClasses[n].fields[key]
             /\ mClasses'[n].size = mClasses[n].size
  <2>1. Extends /\ ClassStays
    BY <1>1, NextKeeps, NextKeepsLayouts
  <2>2. CASE n \in Prepared
    BY <2>1, <2>2 DEF Extends, Loaded
  <2>3. CASE n = JavaLangClass
    BY <1>1, <2>1, <2>3 DEF ClassStays, Loaded
  <2> QED BY <1>1, <2>2, <2>3
<1>2. (IInv /\ LinkInv /\ LayoutInv) /\ [Next]_vars =>
        [\A name \in Loaded :
           name \in Prepared \/ (name = JavaLangClass /\ Prepared # {}) =>
             /\ name \in DOMAIN mClasses'
             /\ \A key \in InstanceFields(name) :
                  mClasses'[name].fields[key] = mClasses[name].fields[key]
             /\ mClasses'[name].size = mClasses[name].size]_vars
  BY <1>1
<1> QED
  BY <1>2, LayoutInvHolds, PTL DEF Spec, LayoutsAreFinal

(***************************************************************************)
(* Every class object has room for all the fields of java.lang.Class, also *)
(* those created before that class was prepared (setUpJavaLangClass).      *)
(***************************************************************************)
THEOREM ClassObjectsAreLargeEnough ==
  ASSUME ObjectHasNoFields
  PROVE  Spec => []ClassObjectsHaveRoom
<1>1. IInv /\ LinkInv /\ LayoutInv => ClassObjectsHaveRoom
  <2> SUFFICES ASSUME IInv, LayoutInv, NEW n \in Prepared
               PROVE  mClasses[n].object >= mClasses[JavaLangClass].size
    BY DEF ClassObjectsHaveRoom
  <2>1. mClasses[n].object = ClassEnd /\ mClasses[n].object \in Nat
    BY DEF LayoutInv, ObjectsHaveRoom, FieldsAreSound, Prepared, Loaded
  <2>2. JavaLangClass \in DOMAIN mClasses
    BY DEF LayoutInv, ObjectsHaveRoom
  <2>3. mClasses[JavaLangClass].size = ClassEnd
    BY <2>2 DEF LayoutInv, ClassIsLaidOut, HasClassLayout
  <2> QED BY <2>1, <2>3
<1> QED
  BY <1>1, LayoutInvHolds, PTL

-----------------------------------------------------------------------------
(* Types. *)

(* What the types need besides: the status of a class, and the name last asked for. *)
KindsInv ==
  /\ \A n \in DOMAIN mClasses : mClasses[n].status \in {"Allocated", "Prepared"}
  /\ answer.name \in Name \cup {NoClass}

LEMMA NextKeepsKinds ==
  ASSUME IInv, LinkInv, KindsInv, [Next]_vars
  PROVE  KindsInv'
<1>0. TableInv /\ Shapes
  BY DEF IInv, TableInv
<1> DEFINE Kinds == {"Allocated", "Prepared"}
<1>1. ASSUME NEW name, NEW class, ~Found(name), Enter(name, class),
             WithStatics(name, class) \in
               {WithStatics(name, NewClass(name)), WithStatics(name, LaidOut(name, NewClass(name)))}
      PROVE  \A n \in DOMAIN mClasses' : mClasses'[n].status \in Kinds
  <2>1. PICK new : new = WithStatics(name, class)
    OBVIOUS
  <2>2. EntersClass(name, new)
    BY <1>0, <1>1, <2>1, EnterEffect
  <2>3. new.status = "Allocated"
    BY <1>1, <2>1, NewClassParts
  <2> QED BY <2>2, <2>3 DEF EntersClass, KindsInv
<1>2. ASSUME NEW class, Current \in DOMAIN mClasses, class.status \in Kinds,
             mClasses' = [mClasses EXCEPT ![Current] = class]
      PROVE  \A n \in DOMAIN mClasses' : mClasses'[n].status \in Kinds
  BY <1>2 DEF KindsInv
<1>3. ASSUME preparing # <<>> PROVE /\ Current \in DOMAIN mClasses
                                     /\ DOMAIN mClasses[Current] = Parts
  BY <1>0, <1>3, StackFacts DEF LinkInv, FilesAreFound
<1>4. ASSUME UNCHANGED mClasses PROVE \A n \in DOMAIN mClasses' : mClasses'[n].status \in Kinds
  BY <1>4 DEF KindsInv
<1>5. CASE LoadNested
  BY <1>1, <1>5 DEF LoadNested, KindsInv
<1>6. ASSUME preparing # <<>>, answer'.name = answer.name,
             NEW new, new.status = mClasses[Current].status \/ new.status = "Prepared",
             mClasses' = [mClasses EXCEPT ![Current] = new]
      PROVE  KindsInv'
  <2>1. Current \in DOMAIN mClasses /\ new.status \in Kinds
    BY <1>3, <1>6 DEF KindsInv
  <2> QED BY <1>2, <1>6, <2>1 DEF KindsInv
<1>7. CASE LinkSuperClass
  <2>1. preparing # <<>> /\ answer' = answer
    BY <1>7 DEF LinkSuperClass, At
  <2>2. PICK old, new : old = mClasses[Current] /\ new = [old EXCEPT !.super = Pending.class]
    OBVIOUS
  <2>3. new.status = old.status
    BY <1>3, <2>1, <2>2 DEF Parts
  <2>4. mClasses' = [mClasses EXCEPT ![Current] = new]
    BY <1>3, <1>7, <2>1, <2>2 DEF LinkSuperClass
  <2>5. answer'.name = answer.name /\ new.status = mClasses[Current].status
    BY <2>1, <2>2, <2>3
  <2> QED BY <1>6, <2>1, <2>4, <2>5
<1>8. CASE LinkSuperInterface
  <2>1. preparing # <<>> /\ answer' = answer
    BY <1>8 DEF LinkSuperInterface, At
  <2>2. PICK old, new : /\ old = mClasses[Current]
                        /\ new = [old EXCEPT !.interfaces = Append(old.interfaces, Pending.class)]
    OBVIOUS
  <2>3. new.status = old.status
    BY <1>3, <2>1, <2>2 DEF Parts
  <2>4. mClasses' = [mClasses EXCEPT ![Current] = new]
    BY <1>3, <1>8, <2>1, <2>2 DEF LinkSuperInterface
  <2>5. answer'.name = answer.name /\ new.status = mClasses[Current].status
    BY <2>1, <2>2, <2>3
  <2> QED BY <1>6, <2>1, <2>4, <2>5
<1>9. CASE LinkElement
  <2>1. preparing # <<>> /\ answer' = answer
    BY <1>9 DEF LinkElement, At
  <2>2. PICK old, new : old = mClasses[Current] /\ new = [old EXCEPT !.element = Pending.class]
    OBVIOUS
  <2>3. new.status = old.status
    BY <1>3, <2>1, <2>2 DEF Parts
  <2>4. mClasses' = [mClasses EXCEPT ![Current] = new]
    BY <1>3, <1>9, <2>1, <2>2 DEF LinkElement
  <2>5. answer'.name = answer.name /\ new.status = mClasses[Current].status
    BY <2>1, <2>2, <2>3
  <2> QED BY <1>6, <2>1, <2>4, <2>5
<1>10. CASE LinkFields
  <2>1. preparing # <<>> /\ answer' = answer
    BY <1>10 DEF LinkFields, At
  <2>2. PICK old, layout : /\ old = mClasses[Current]
                           /\ mClasses' = [mClasses EXCEPT ![Current] = WithLayout(old, layout)]
    BY <1>3, <1>10, <2>1 DEF LinkFields
  <2>3. PICK new : new = WithLayout(old, layout)
    OBVIOUS
  <2>4. new.status = old.status
    BY <1>3, <2>1, <2>2, <2>3 DEF Parts, WithLayout
  <2>5. answer'.name = answer.name /\ new.status = mClasses[Current].status
    BY <2>1, <2>2, <2>4
  <2> QED BY <1>6, <2>1, <2>2, <2>3, <2>5
<1>11. CASE CreateClassObject
  <2>1. preparing # <<>>
    BY <1>11 DEF CreateClassObject, At
  <2>2. answer'.name = answer.name
    BY <1>0, <1>11 DEF CreateClassObject, Shapes
  <2>3. PICK old, new :
          /\ old = mClasses[Current]
          /\ new = [old EXCEPT !.object = mClasses[JavaLangClass].size, !.status = "Prepared"]
    OBVIOUS
  <2>4. new.status = "Prepared"
    BY <1>3, <2>1, <2>3 DEF Parts
  <2>5. mClasses' = [mClasses EXCEPT ![Current] = new]
    BY <1>0, <1>3, <1>11, <2>1, <2>3 DEF CreateClassObject, Shapes
  <2> QED BY <1>6, <2>1, <2>2, <2>3, <2>4, <2>5
<1>12. CASE SetUpJavaLangClass
  <2>1. /\ phase = "Start" /\ answer' = Request(JavaLangClass)
        /\ Enter(JavaLangClass, LaidOut(JavaLangClass, NewClass(JavaLangClass)))
    BY <1>12 DEF SetUpJavaLangClass
  <2>2. ~Found(JavaLangClass)
    BY <2>1 DEF IInv, Progress, Found
  <2>3. answer'.name \in Name
    BY <2>1, JdkNames DEF Request
  <2> QED BY <1>1, <2>1, <2>2, <2>3 DEF KindsInv
<1>13. CASE RequireClass
  <2>1. PICK name \in NextRequired : Enter(name, NewClass(name)) /\ answer' = Request(name)
    BY <1>13 DEF RequireClass
  <2>2. name \in Name /\ ~Found(name)
    BY <2>1, RequiredAssumption DEF NextRequired, MissingRequired
  <2>3. answer'.name \in Name
    BY <2>1, <2>2 DEF Request
  <2> QED BY <1>1, <2>1, <2>2, <2>3 DEF KindsInv
<1>14. ASSUME NEW name \in Names(path), LoadClass(name) \/ FindClass(name) \/ ClassNotFound(name)
       PROVE  KindsInv'
  <2>1. name \in Name
    BY ClassPathsAssumption DEF LinkInv, FilesAreFound
  <2>2. answer'.name = name
    BY <1>14 DEF LoadClass, FindClass, ClassNotFound, Request
  <2>3. \A n \in DOMAIN mClasses' : mClasses'[n].status \in Kinds
    BY <1>1, <1>4, <1>14 DEF LoadClass, FindClass, ClassNotFound
  <2> QED BY <2>1, <2>2, <2>3 DEF KindsInv
<1>15. CASE FailNested \/ RequiredIsMissing \/ Initialized \/ Ended \/ UNCHANGED vars
  BY <1>15 DEF FailNested, RequiredIsMissing, Initialized, Ended, vars, KindsInv
<1> QED
  BY <1>5, <1>7, <1>8, <1>9, <1>10, <1>11, <1>12, <1>13, <1>14, <1>15 DEF Next, Prepare, Boot

(***************************************************************************)
(* The table and the stack of prepare() calls stay what the code takes     *)
(* them for, and no call is ever behind the last step of its class.        *)
(***************************************************************************)
THEOREM TypesAreCorrect ==
  ASSUME ObjectHasNoFields
  PROVE  Spec => []TypeOK
<1> DEFINE Inv == IInv /\ LinkInv /\ LayoutInv
<1>1. Init => KindsInv
  BY DEF Init, KindsInv
<1>2. Inv /\ KindsInv /\ [Next]_vars => KindsInv'
  BY NextKeepsKinds
<1>3. Inv /\ KindsInv => TypeOK
  <2> SUFFICES ASSUME IInv, LinkInv, LayoutInv, KindsInv PROVE TypeOK
    OBVIOUS
  <2>1. phase \in {"Start", "Boot", "Running", "Panicked", "Undefined"}
    BY DEF IInv, Shapes
  <2>2. answer \in [name : Name \cup {NoClass}, outcome : {"Pending", "Class", "Error"}]
    BY DEF IInv, Shapes, KindsInv
  <2>3. ASSUME NEW n \in Loaded, NEW class, class = mClasses[n]
        PROVE  /\ n \in Name /\ class.status \in {"Allocated", "Prepared"}
               /\ {class.super, class.element} \cup Range(class.interfaces) \subseteq Loaded \cup {NoClass}
               /\ DOMAIN class.fields \subseteq DOMAIN SizeOf
               /\ class.size \in Nat /\ class.object \in Nat
    <3>1. n \in Name /\ class.status \in {"Allocated", "Prepared"}
      BY <2>3 DEF LinkInv, FilesAreFound, KindsInv, Loaded
    <3>2. LinksAreIn(class, Loaded \cup {NoClass})
      BY <2>3 DEF LinkInv, LinksLeadToClasses, Loaded
    <3>3. class.interfaces \in Seq(Name)
      <4>1. CASE n \in Prepared
        BY <2>3, <4>1 DEF LinkInv, PreparedAreLinked, LinkedSoFar
      <4>2. CASE n \notin Prepared
        <5>1. PICK i \in DOMAIN preparing : preparing[i].class = n
          BY <4>2 DEF IInv, UnpreparedAreOnStack, OnStack, Prepared, Loaded
        <5> QED BY <2>3, <5>1 DEF LinkInv, StackIsLinked, LinkedSoFar
      <4> QED BY <4>1, <4>2
    <3>4. Range(class.interfaces) \subseteq Loaded \cup {NoClass}
      BY <3>2, <3>3, ListFacts DEF LinksAreIn, Range
    <3>5. class.super \in Loaded \cup {NoClass} /\ class.element \in Loaded \cup {NoClass}
      BY <3>2 DEF LinksAreIn
    <3>6. /\ DOMAIN class.fields \subseteq DOMAIN SizeOf
          /\ class.size \in Nat /\ class.object \in Nat
      BY <2>3 DEF LayoutInv, FieldsAreSound, IsSound, Loaded
    <3> QED BY <3>1, <3>4, <3>5, <3>6
  <2>4. \A i \in DOMAIN preparing :
          preparing[i].class \in Loaded /\ preparing[i].done < Len(Steps(preparing[i].class))
    BY StackFacts DEF IInv, LinkInv, StackIsLinked, Loaded
  <2> QED BY <2>1, <2>2, <2>3, <2>4 DEF TypeOK
<1> QED
  BY <1>1, <1>2, <1>3, LayoutInvHolds, PTL DEF Spec
=============================================================================
