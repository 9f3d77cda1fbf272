--------------------------- MODULE InvocationProofs ---------------------------
(***************************************************************************)
(* Proofs about module Invocation: the call stack is well formed and the   *)
(* JNI handles are those of the native frames on it; classes are           *)
(* initialized in order and once; exceptions unwind as JavaExceptions      *)
(* promises.                                                               *)
(***************************************************************************)
EXTENDS Invocation, SequenceTheorems, TLAPS

Frame ==
  [method : Method,
   at : {"run", "call", "init", "check", "native", "leave"},
   operands : Seq(Exception \cup {Value}),
   tasks : Seq(Task),
   then : Access \cup {Nothing}]

Typed ==
  /\ frames \in Seq(Frame)
  /\ Len(frames) \in 0 .. MaxFrames
  /\ mCurrentException \in Exception \cup {NULL}
  /\ pins \in Nat
  /\ mHasUncaughtException \in BOOLEAN
  /\ mJniHandles \in Seq(Nat)
  /\ mStatus \in [Class -> {"prepared", "under", "initialized"}]
  /\ phase \in {"running", "ended", "exited", "panicked", "asserted"}

(* What a frame's code may be at, by the kind of its method, and what it   *)
(* goes on with once a class is initialized.                               *)
FrameIsSound(f) ==
  /\ f.method \in Native => f.at \in {"native", "init", "leave"}
  /\ f.method \in Interpreted => f.at \in {"run", "call", "init", "check"}
  /\ f.at # "init" => f.tasks = <<>>
  /\ f.at = "init" =>
       /\ f.then \in Access
       /\ f.then.op = "jni" <=> f.method \in Native
       /\ f.then.op = "invokestatic" => f.then.method \in Callable

(* A frame that waits for the frame above it, in which callee runs. *)
Awaits(f, callee) ==
  /\ f.at \in {"call", "init"}
  /\ f.at = "call" => callee \notin Initializers
  /\ f.at = "init" => /\ f.tasks # <<>> /\ Head(f.tasks).do = "finish"
                      /\ callee = Initializer[Head(f.tasks).class]

StackIsSound ==
  /\ \A i \in DOMAIN frames : FrameIsSound(frames[i])
  /\ \A i \in DOMAIN frames :
       IF i = Len(frames) THEN frames[i].at # "call"
       ELSE Awaits(frames[i], frames[i + 1].method)
  /\ frames # <<>> => frames[1].method \in {Main, UncaughtHandler}

(* The exception in flight has a root; no frame looks for a handler, or    *)
(* leaves a native method, without one; and once an exception has been     *)
(* given up, there is none.                                                *)
ExceptionIsHeld ==
  /\ mCurrentException # NULL => pins >= 1 /\ ~mHasUncaughtException
  /\ \A i \in DOMAIN frames :
       frames[i].at \in {"check", "leave"} => mCurrentException # NULL

IInv == Typed /\ StackIsSound /\ ExceptionIsHeld

-----------------------------------------------------------------------------
(* The three ways in which a step changes the call stack.                  *)

LEMMA TopFacts ==
  ASSUME frames \in Seq(Frame), frames # <<>>
  PROVE  /\ Len(frames) \in Nat \ {0} /\ DOMAIN frames = 1 .. Len(frames)
         /\ Len(frames) \in DOMAIN frames /\ Top \in Frame
         /\ Top = frames[Len(frames)]
<1>1. Len(frames) \in Nat \ {0} /\ DOMAIN frames = 1 .. Len(frames)
  OBVIOUS
<1>2. \A i \in 1 .. Len(frames) : frames[i] \in Frame
  OBVIOUS
<1> QED
  BY <1>1, <1>2 DEF Top

LEMMA MoveFacts ==
  ASSUME frames \in Seq(Frame), frames # <<>>, NEW g \in Frame,
         frames' = WithTop(g)
  PROVE  /\ frames' \in Seq(Frame) /\ frames' # <<>>
         /\ Len(frames') = Len(frames) /\ DOMAIN frames' = DOMAIN frames
         /\ \A i \in DOMAIN frames :
              frames'[i] = IF i = Len(frames) THEN g ELSE frames[i]
BY TopFacts DEF WithTop

LEMMA PushFacts ==
  ASSUME frames \in Seq(Frame), frames # <<>>, NEW g \in Frame,
         NEW h \in Frame, frames' = Append(WithTop(g), h)
  PROVE  /\ frames' \in Seq(Frame) /\ frames' # <<>>
         /\ Len(frames') = Len(frames) + 1
         /\ DOMAIN frames' = 1 .. Len(frames) + 1
         /\ \A i \in DOMAIN frames :
              frames'[i] = IF i = Len(frames) THEN g ELSE frames[i]
         /\ frames'[Len(frames) + 1] = h
<1> DEFINE s == WithTop(g)
<1>1. /\ s \in Seq(Frame) /\ Len(s) = Len(frames) /\ Len(frames) \in Nat \ {0}
      /\ \A i \in 1 .. Len(frames) :
           s[i] = IF i = Len(frames) THEN g ELSE frames[i]
  BY TopFacts DEF WithTop
<1> HIDE DEF s
<1>2. frames' = Append(s, h)
  BY DEF s
<1> QED
  BY <1>1, <1>2

LEMMA PopFacts ==
  ASSUME frames \in Seq(Frame), Len(frames) > 1, NEW g \in Frame,
         frames' = Append(SubSeq(frames, 1, Len(frames) - 2), g)
  PROVE  /\ frames' \in Seq(Frame) /\ frames' # <<>>
         /\ Len(frames') = Len(frames) - 1
         /\ DOMAIN frames' = 1 .. Len(frames) - 1
         /\ \A i \in 1 .. Len(frames) - 1 :
              frames'[i] = IF i = Len(frames) - 1 THEN g ELSE frames[i]
<1> DEFINE n == Len(frames) - 2
           s == SubSeq(frames, 1, n)
<1>1. n \in Nat /\ n <= Len(frames) /\ Len(frames) = n + 2
  OBVIOUS
<1> HIDE DEF n
<1>2. /\ s \in Seq(Frame) /\ Len(s) = n
      /\ \A i \in 1 .. n : s[i] = frames[i]
  BY <1>1
<1> HIDE DEF s
<1>3. frames' = Append(s, g)
  BY DEF s, n
<1> QED
  BY <1>1, <1>2, <1>3

-----------------------------------------------------------------------------
(* Frames.                                                                 *)

LEMMA DropIsTyped ==
  ASSUME NEW S, NEW s \in Seq(S), NEW n \in Nat
  PROVE  Drop(s, n) \in Seq(S)
<1>1. CASE n <= Len(s)
  BY <1>1 DEF Drop
<1>2. CASE n > Len(s)
  BY <1>2 DEF Drop
<1> QED
  BY <1>1, <1>2

LEMMA FrontIsTyped ==
  ASSUME NEW S, NEW s \in Seq(S)
  PROVE  Front(s) \in Seq(S)
<1>1. CASE Len(s) = 0
  BY <1>1 DEF Front
<1>2. CASE Len(s) # 0
  BY <1>2 DEF Front
<1> QED
  BY <1>1, <1>2

LEMMA NewFrameIsSound ==
  ASSUME NEW m \in Method
  PROVE  /\ NewFrame(m) \in Frame /\ FrameIsSound(NewFrame(m))
         /\ NewFrame(m).method = m /\ NewFrame(m).tasks = <<>>
         /\ NewFrame(m).at \in {"run", "native"}
<1>1. <<>> \in Seq(Exception \cup {Value}) /\ <<>> \in Seq(Task)
  OBVIOUS
<1> QED
  BY <1>1, MethodAssumption DEF NewFrame, Frame, FrameIsSound, Method

LEMMA TaskIsTyped ==
  /\ \A c \in Class : \A do \in {"initialize", "run", "finish"} :
       [do |-> do, class |-> c] \in Task
  /\ \A t \in Task : t.class \in Class /\ t.do \in {"initialize", "run", "finish"}
BY DEF Task

(* The tasks of an initialization that has been begun. *)
LEMMA TasksAreTyped ==
  ASSUME NEW c \in Class, NEW rest \in Seq(Task)
  PROVE  /\ [i \in DOMAIN Supers[c] |->
               [do |-> "initialize", class |-> Supers[c][i]]] \in Seq(Task)
         /\ [i \in DOMAIN Supers[c] |->
               [do |-> "initialize", class |-> Supers[c][i]]]
            \o <<[do |-> "run", class |-> c]>> \o rest \in Seq(Task)
         /\ <<[do |-> "initialize", class |-> c]>> \in Seq(Task)
         /\ <<[do |-> "finish", class |-> c]>> \o rest \in Seq(Task)
<1> DEFINE first == [i \in DOMAIN Supers[c] |->
                       [do |-> "initialize", class |-> Supers[c][i]]]
<1>1. first \in Seq(Task)
  <2> PICK n \in Nat : n = Len(Supers[c]) /\ DOMAIN Supers[c] = 1 .. n
    BY ClassAssumption
  <2>1. \A i \in 1 .. n : Supers[c][i] \in Class
    BY ClassAssumption
  <2>2. first \in [1 .. n -> Task]
    BY <2>1, TaskIsTyped
  <2> HIDE DEF first
  <2> QED
    BY <2>2
<1> HIDE DEF first
<1>2. /\ <<[do |-> "run", class |-> c]>> \in Seq(Task)
      /\ <<[do |-> "initialize", class |-> c]>> \in Seq(Task)
      /\ <<[do |-> "finish", class |-> c]>> \in Seq(Task)
  BY TaskIsTyped
<1>3. first \o <<[do |-> "run", class |-> c]>> \o rest \in Seq(Task)
  BY <1>1, <1>2
<1>4. <<[do |-> "finish", class |-> c]>> \o rest \in Seq(Task)
  BY <1>2
<1> QED
  BY <1>1, <1>2, <1>3, <1>4 DEF first

-----------------------------------------------------------------------------
(* What a step may do to the call stack: change the current frame, call a  *)
(* method, go back to the caller, or leave the last frame.                 *)

Moves(g) ==
  /\ frames # <<>> /\ frames' = WithTop(g)
  /\ g.method = Top.method /\ FrameIsSound(g) /\ g.at # "call"
  /\ g.at \in {"check", "leave"} => mCurrentException' # NULL

Pushes(g, m) ==
  /\ frames # <<>> /\ frames' = Append(WithTop(g), NewFrame(m))
  /\ Len(frames) < MaxFrames
  /\ g.method = Top.method /\ FrameIsSound(g) /\ Awaits(g, m)

Pops(g) ==
  /\ Len(frames) > 1
  /\ frames' = Append(SubSeq(frames, 1, Len(frames) - 2), g)
  /\ g.method = frames[Len(frames) - 1].method
  /\ g.tasks = frames[Len(frames) - 1].tasks
  /\ FrameIsSound(g) /\ g.at # "call"
  /\ g.at \in {"check", "leave"} => mCurrentException' # NULL

Empties ==
  /\ Len(frames) = 1
  /\ frames' \in {<<>>, <<NewFrame(UncaughtHandler)>>}

StackChanges ==
  \/ frames' = frames /\ mCurrentException' = mCurrentException
  \/ \E g \in Frame : Moves(g)
  \/ \E g \in Frame, m \in Method : Pushes(g, m)
  \/ \E g \in Frame : Pops(g)
  \/ Empties

LEMMA CurrentFrame ==
  ASSUME IInv, NEW place, At(place)
  PROVE  /\ frames # <<>> /\ frames \in Seq(Frame) /\ phase = "running"
         /\ Len(frames) \in Nat \ {0} /\ DOMAIN frames = 1 .. Len(frames)
         /\ Top \in Frame /\ Top = frames[Len(frames)]
         /\ FrameIsSound(Top) /\ Top.at = place /\ Top.at # "call"
<1>1. frames # <<>> /\ frames \in Seq(Frame) /\ phase = "running" /\ Top.at = place
  BY DEF At, IInv, Typed
<1>2. FrameIsSound(Top) /\ Top.at # "call"
  BY <1>1, TopFacts DEF IInv, StackIsSound
<1> QED
  BY <1>1, <1>2, TopFacts

LEMMA ComputeStep ==
  ASSUME IInv, Compute
  PROVE  \E g \in Frame :
           /\ Moves(g) /\ g.tasks = Top.tasks
           /\ mCurrentException = NULL => g.at = "run"
<1>1. At("run") /\ mCurrentException' = mCurrentException
  BY DEF Compute, excVars
<1>2. PICK o \in {Append(Top.operands, Value), Drop(Top.operands, 1)},
           at \in {"run", AfterInstruction(mCurrentException)} :
        frames' = WithTop([Top EXCEPT !.operands = o, !.at = at])
  BY DEF Compute
<1> DEFINE g == [Top EXCEPT !.operands = o, !.at = at]
<1>3. /\ frames # <<>> /\ Top \in Frame /\ FrameIsSound(Top) /\ Top.at = "run"
  BY <1>1, CurrentFrame
<1>4. o \in Seq(Exception \cup {Value})
  <2>1. Top.operands \in Seq(Exception \cup {Value})
    BY <1>3 DEF Frame
  <2>2. Append(Top.operands, Value) \in Seq(Exception \cup {Value})
    BY <2>1
  <2> QED
    BY <2>1, <2>2, DropIsTyped
<1>5. /\ at \in {"run", "check"}
      /\ at = "check" => mCurrentException # NULL
  BY DEF AfterInstruction
<1>6. /\ g \in Frame /\ g.method = Top.method /\ g.at = at
      /\ g.tasks = Top.tasks
  BY <1>3, <1>4, <1>5 DEF Frame
<1>7. FrameIsSound(g)
  BY <1>3, <1>5, <1>6, MethodAssumption DEF FrameIsSound, Frame, Method
<1> HIDE DEF g
<1>8. Moves(g)
  BY <1>1, <1>2, <1>3, <1>5, <1>6, <1>7 DEF Moves, g
<1> QED
  BY <1>5, <1>6, <1>8

(* A call by the interpreter; f is the caller's frame with what precedes   *)
(* the call done.                                                          *)
LEMMA InvokeStep ==
  ASSUME IInv, frames # <<>>, NEW f \in Frame, NEW m \in Callable,
         f.method = Top.method, f.method \in Interpreted, f.tasks = <<>>,
         mCurrentException' = mCurrentException, Invoke(m, f)
  PROVE  \/ /\ frames' = frames /\ mJniHandles' = mJniHandles
            /\ phase' = "panicked"
         \/ /\ \E g \in Frame : Pushes(g, m) /\ g.tasks = <<>>
            /\ mJniHandles' = IF m \in Linked THEN Append(mJniHandles, NumSlots[m])
                              ELSE mJniHandles
            /\ phase' = phase
<1> DEFINE o == IF m \in Native THEN Drop(f.operands, NumSlots[m]) ELSE f.operands
           g == [f EXCEPT !.at = "call", !.operands = o]
<1>1. m \in Method /\ m \notin Initializers /\ NumSlots[m] \in Nat
  BY MethodAssumption DEF Callable
<1>2. o \in Seq(Exception \cup {Value})
  BY <1>1, DropIsTyped DEF Frame
<1> HIDE DEF o
<1>3. /\ g \in Frame /\ g.method = Top.method /\ g.at = "call" /\ g.tasks = <<>>
  BY <1>2 DEF Frame
<1>4. FrameIsSound(g) /\ Awaits(g, m)
  BY <1>1, <1>3, MethodAssumption DEF FrameIsSound, Awaits
<1>5. Enter(m, g)
  BY DEF Invoke, o
<1> HIDE DEF g
<1>6. CASE Len(frames) >= MaxFrames
  BY <1>5, <1>6 DEF Enter
<1>7. CASE ~(Len(frames) >= MaxFrames)
  <2>1. Len(frames) < MaxFrames
    BY <1>7, BoundAssumption DEF IInv, Typed
  <2> QED
    BY <1>3, <1>4, <1>5, <2>1 DEF Enter, Pushes
<1> QED
  BY <1>6, <1>7

LEMMA InvokeMethodStep ==
  ASSUME IInv, NEW m \in Callable, InvokeMethod(m)
  PROVE  \/ /\ frames' = frames /\ mJniHandles' = mJniHandles
            /\ phase' = "panicked"
         \/ /\ \E g \in Frame : Pushes(g, m) /\ g.tasks = <<>>
            /\ mJniHandles' = IF m \in Linked THEN Append(mJniHandles, NumSlots[m])
                              ELSE mJniHandles
            /\ phase' = phase
<1>1. At("run") /\ Invoke(m, Top) /\ mCurrentException' = mCurrentException
  BY DEF InvokeMethod, excVars
<1>2. /\ frames # <<>> /\ Top \in Frame /\ Top.method \in Interpreted
      /\ Top.tasks = <<>>
  BY <1>1, CurrentFrame DEF FrameIsSound, Frame, Method
<1> QED
  BY <1>1, <1>2, InvokeStep

LEMMA BeginAccessStep ==
  ASSUME IInv, NEW c \in Class, NEW access \in Access, access.op # "jni",
         access.method \in Callable \cup {NULL}, BeginAccess(access, c)
  PROVE  \E g \in Frame :
           /\ Moves(g) /\ Top.tasks = <<>> /\ g.at = "init"
           /\ g.tasks = <<[do |-> "initialize", class |-> c]>>
<1> DEFINE t == <<[do |-> "initialize", class |-> c]>>
           g == [Top EXCEPT !.at = "init", !.then = access, !.tasks = t]
<1>1. At("run") /\ frames' = WithTop(g)
  BY DEF BeginAccess
<1>2. /\ frames # <<>> /\ Top \in Frame /\ FrameIsSound(Top) /\ Top.at = "run"
  BY <1>1, CurrentFrame
<1>3. t \in Seq(Task)
  BY TasksAreTyped, <<>> \in Seq(Task)
<1> HIDE DEF t
<1>4. /\ g \in Frame /\ g.method = Top.method /\ g.at = "init"
      /\ g.then = access /\ g.tasks = t
  BY <1>2, <1>3 DEF Frame
<1>5. access.op = "invokestatic" => access.method \in Callable
  BY MethodAssumption DEF Access
<1>6. Top.method \notin Native /\ Top.tasks = <<>>
  BY <1>2 DEF FrameIsSound
<1>7. FrameIsSound(g)
  BY <1>4, <1>5, <1>6 DEF FrameIsSound
<1> HIDE DEF g
<1>8. Moves(g)
  BY <1>1, <1>2, <1>4, <1>7 DEF Moves
<1> QED
  BY <1>4, <1>6, <1>8 DEF t

LEMMA JniInitializeStep ==
  ASSUME IInv, NEW c \in Class, JniInitialize(c)
  PROVE  \E g \in Frame :
           /\ Moves(g) /\ Top.tasks = <<>> /\ g.at = "init"
           /\ g.tasks = <<[do |-> "initialize", class |-> c]>>
<1> DEFINE t == <<[do |-> "initialize", class |-> c]>>
           access == [op |-> "jni", method |-> NULL]
           g == [Top EXCEPT !.at = "init", !.then = access, !.tasks = t]
<1>1. At("native") /\ Top.method \in Linked /\ frames' = WithTop(g)
  BY DEF JniInitialize
<1>2. /\ frames # <<>> /\ Top \in Frame /\ FrameIsSound(Top) /\ Top.at = "native"
  BY <1>1, CurrentFrame
<1>3. t \in Seq(Task) /\ access \in Access
  BY TasksAreTyped, <<>> \in Seq(Task) DEF Access
<1>4. access.op = "jni"
  OBVIOUS
<1> HIDE DEF t, access
<1>5. /\ g \in Frame /\ g.method = Top.method /\ g.at = "init"
      /\ g.then = access /\ g.tasks = t
  BY <1>2, <1>3 DEF Frame
<1>6. Top.method \in Native /\ Top.method \notin Interpreted /\ Top.tasks = <<>>
  BY <1>1, <1>2, MethodAssumption DEF FrameIsSound
<1>7. FrameIsSound(g)
  BY <1>3, <1>4, <1>5, <1>6 DEF FrameIsSound
<1> HIDE DEF g
<1>8. Moves(g)
  BY <1>1, <1>2, <1>5, <1>7 DEF Moves
<1> QED
  BY <1>5, <1>6, <1>8 DEF t

(* A throw by the interpreter or by a native method. *)
Throws(place) ==
  \/ /\ frames' = frames /\ phase' \in {"panicked", "asserted"}
     /\ UNCHANGED <<mCurrentException, pins, mHasUncaughtException>>
     /\ phase' = "asserted" => mCurrentException # NULL
  \/ /\ mCurrentException = NULL /\ ~mHasUncaughtException
     /\ mCurrentException' \in Exception /\ mCurrentException' # NULL
     /\ pins' \in {1, 2}
     /\ \E g \in Frame :
          /\ Moves(g) /\ g.tasks = Top.tasks /\ g.at = place
          /\ g.method \in Interpreted => g.operands = <<mCurrentException'>>
     /\ UNCHANGED <<mHasUncaughtException, phase>>

(* throwException, with the current frame left at a place of its own. *)
LEMMA ThrowStep ==
  ASSUME IInv, frames # <<>>, NEW e \in Exception, NEW n \in {1, 2},
         NEW f \in Frame, f.method = Top.method, f.tasks = Top.tasks,
         FrameIsSound(f), f.at # "call", Throw(e, f, n)
  PROVE  Throws(f.at)
<1>1. CASE mHasUncaughtException
  BY <1>1 DEF Throw, Throws, excVars
<1>2. CASE ~mHasUncaughtException /\ mCurrentException # NULL
  BY <1>2 DEF Throw, Throws, excVars
<1>3. CASE ~mHasUncaughtException /\ mCurrentException = NULL
  <2> DEFINE g == IF f.method \in Native THEN f ELSE [f EXCEPT !.operands = <<e>>]
  <2>1. /\ mCurrentException' = e /\ pins' = n /\ frames' = WithTop(g)
        /\ UNCHANGED <<mHasUncaughtException, phase>>
    BY <1>3 DEF Throw
  <2>2. <<e>> \in Seq(Exception \cup {Value}) /\ e # NULL
    BY MethodAssumption
  <2>3. /\ g \in Frame /\ g.method = f.method /\ g.tasks = f.tasks /\ g.at = f.at
        /\ g.then = f.then
        /\ g.method \in Interpreted => g.operands = <<e>>
    <3>1. CASE f.method \in Native
      BY <3>1, MethodAssumption
    <3>2. CASE f.method \notin Native
      BY <2>2, <3>2 DEF Frame
    <3> QED
      BY <3>1, <3>2
  <2>4. FrameIsSound(g)
    BY <2>3 DEF FrameIsSound
  <2> HIDE DEF g
  <2>5. Moves(g)
    BY <2>1, <2>2, <2>3, <2>4 DEF Moves
  <2>6. \E h \in Frame :
          /\ Moves(h) /\ h.tasks = Top.tasks /\ h.at = f.at
          /\ h.method \in Interpreted => h.operands = <<mCurrentException'>>
    BY <2>1, <2>3, <2>5
  <2> HIDE DEF Moves
  <2> QED
    BY <1>3, <2>1, <2>2, <2>6 DEF Throws
<1> QED
  BY <1>1, <1>2, <1>3

LEMMA ThrowInInterpreterStep ==
  ASSUME IInv, ThrowNew \/ AThrow
  PROVE  Throws("check")
<1> DEFINE f == [Top EXCEPT !.at = "check"]
<1>1. At("run") /\ \E e \in Exception, n \in {1, 2} : Throw(e, f, n)
  BY DEF ThrowNew, AThrow
<1>2. /\ frames # <<>> /\ Top \in Frame /\ FrameIsSound(Top) /\ Top.at = "run"
  BY <1>1, CurrentFrame
<1>3. /\ f \in Frame /\ f.method = Top.method /\ f.tasks = Top.tasks
      /\ f.at = "check"
  BY <1>2 DEF Frame
<1>4. FrameIsSound(f)
  BY <1>2, <1>3 DEF FrameIsSound
<1> HIDE DEF f
<1>5. PICK e \in Exception, n \in {1, 2} : Throw(e, f, n)
  BY <1>1
<1> QED
  BY <1>2, <1>3, <1>4, <1>5, ThrowStep

LEMMA NewOfMissingClassStep ==
  ASSUME IInv, NewOfMissingClass
  PROVE  Throws("run")
<1>1. At("run") /\ \E e \in Exception : Throw(e, Top, 2)
  BY DEF NewOfMissingClass
<1>2. /\ frames # <<>> /\ Top \in Frame /\ FrameIsSound(Top) /\ Top.at = "run"
  BY <1>1, CurrentFrame
<1>3. PICK e \in Exception, n \in {1, 2} : Throw(e, Top, n)
  BY <1>1
<1> QED
  BY <1>2, <1>3, ThrowStep

LEMMA ThrowInNativeStep ==
  ASSUME IInv, ThrowInNative
  PROVE  Throws("leave")
<1> DEFINE f == [Top EXCEPT !.at = "leave"]
<1>1. At("native") /\ \E e \in Exception : Throw(e, f, 2)
  BY DEF ThrowInNative
<1>2. /\ frames # <<>> /\ Top \in Frame /\ FrameIsSound(Top) /\ Top.at = "native"
  BY <1>1, CurrentFrame
<1>3. /\ f \in Frame /\ f.method = Top.method /\ f.tasks = Top.tasks
      /\ f.at = "leave"
  BY <1>2 DEF Frame
<1>4. FrameIsSound(f)
  BY <1>2, <1>3 DEF FrameIsSound
<1> HIDE DEF f
<1>5. PICK e \in Exception, n \in {1, 2} : Throw(e, f, n)
  BY <1>1
<1> QED
  BY <1>2, <1>3, <1>4, <1>5, ThrowStep

LEMMA CatchStep ==
  ASSUME IInv, Catch
  PROVE  \E g \in Frame : Moves(g) /\ g.tasks = Top.tasks /\ g.at = "run"
<1> DEFINE o == [i \in DOMAIN Top.operands |-> Value]
           g == [Top EXCEPT !.at = "run", !.operands = o]
<1>1. At("check") /\ frames' = WithTop(g)
  BY DEF Catch
<1>2. /\ frames # <<>> /\ Top \in Frame /\ FrameIsSound(Top) /\ Top.at = "check"
  BY <1>1, CurrentFrame
<1>3. o \in Seq(Exception \cup {Value})
  <2>1. Top.operands \in Seq(Exception \cup {Value})
    BY <1>2 DEF Frame
  <2>2. PICK n \in Nat : DOMAIN Top.operands = 1 .. n
    BY <2>1
  <2>3. o \in [1 .. n -> Exception \cup {Value}]
    BY <2>2
  <2> HIDE DEF o
  <2> QED
    BY <2>3
<1> HIDE DEF o
<1>4. /\ g \in Frame /\ g.method = Top.method /\ g.at = "run"
      /\ g.tasks = Top.tasks
  BY <1>2, <1>3 DEF Frame
<1>5. FrameIsSound(g)
  BY <1>2, <1>4 DEF FrameIsSound
<1> HIDE DEF g
<1> QED
  BY <1>1, <1>2, <1>4, <1>5 DEF Moves

(* The caller's frame after a call or an initializer. *)
LEMMA CallerIsSound ==
  ASSUME IInv, Len(frames) > 1, NEW v \in BOOLEAN,
         NEW f, f = frames[Len(frames) - 1],
         NEW g, g = AfterCall(f, Top.method, v)
  PROVE  /\ g \in Frame /\ g.method = f.method /\ g.tasks = f.tasks
         /\ FrameIsSound(g)
         /\ IF f.at = "init" THEN g.at = "init"
            ELSE f.at = "call" /\ g.at = AfterInstruction(mCurrentException)
<1>1. /\ f \in Frame /\ FrameIsSound(f) /\ f.at \in {"call", "init"}
      /\ Top \in Frame
  BY DEF IInv, Typed, StackIsSound, Awaits, Top
<1>2. NumSlots[Top.method] \in Nat
  BY <1>1, MethodAssumption DEF Frame
<1>3. mCurrentException # NULL =>
        <<mCurrentException>> \in Seq(Exception \cup {Value})
  BY DEF IInv, Typed
<1> DEFINE With(o) == [f EXCEPT !.operands = o]
           Kept(h) == /\ h \in Frame /\ h.method = f.method /\ h.tasks = f.tasks
                      /\ h.at = f.at /\ h.then = f.then /\ FrameIsSound(h)
<1>4. ASSUME NEW o \in Seq(Exception \cup {Value})
      PROVE  Kept(With(o))
  <2> PICK h : h = With(o)
    OBVIOUS
  <2>1. /\ h \in Frame /\ h.method = f.method /\ h.tasks = f.tasks
        /\ h.at = f.at /\ h.then = f.then
    BY <1>1, <1>4 DEF Frame
  <2>2. FrameIsSound(h)
    BY <1>1, <2>1 DEF FrameIsSound
  <2> QED
    BY <2>1, <2>2
<1> HIDE DEF With, Kept
<1>5. CASE f.at = "init"
  <2>1. g = HandleCalleeException(f)
    BY <1>5 DEF AfterCall
  <2>2. CASE mCurrentException # NULL /\ f.method \in HasHandlers
    <3>1. <<mCurrentException>> \in Seq(Exception \cup {Value})
      BY <1>3, <2>2
    <3>2. g = With(<<mCurrentException>>)
      BY <2>1, <2>2 DEF HandleCalleeException, With
    <3>3. Kept(g)
      BY <1>4, <3>1, <3>2
    <3> QED
      BY <1>5, <3>3 DEF Kept
  <2>3. CASE ~(mCurrentException # NULL /\ f.method \in HasHandlers)
    BY <1>1, <1>5, <2>1, <2>3 DEF HandleCalleeException
  <2> QED
    BY <2>2, <2>3
<1>6. CASE f.at = "call"
  <2> DEFINE p == IF Top.method \in Interpreted
                  THEN [f EXCEPT !.operands = Drop(@, NumSlots[Top.method])]
                  ELSE f
             h == HandleCalleeException(p)
             o == IF v THEN Append(h.operands, Value) ELSE h.operands
             at == AfterInstruction(mCurrentException)
  <2>1. g = [h EXCEPT !.at = at, !.operands = o]
    BY <1>6 DEF AfterCall
  <2>2. /\ p \in Frame /\ p.method = f.method /\ p.tasks = f.tasks
        /\ p.at = f.at /\ p.then = f.then
    <3>1. Drop(f.operands, NumSlots[Top.method]) \in Seq(Exception \cup {Value})
      BY <1>1, <1>2, DropIsTyped DEF Frame
    <3>2. Kept(With(Drop(f.operands, NumSlots[Top.method])))
      BY <1>4, <3>1
    <3>3. \/ p = With(Drop(f.operands, NumSlots[Top.method]))
          \/ p = f
      BY DEF With
    <3> HIDE DEF p
    <3> QED
      BY <1>1, <3>2, <3>3 DEF Kept
  <2> HIDE DEF p
  <2>3. /\ h \in Frame /\ h.method = f.method /\ h.tasks = f.tasks
        /\ h.at = f.at /\ h.then = f.then
    BY <1>3, <2>2 DEF HandleCalleeException, Frame
  <2> HIDE DEF h
  <2>4. o \in Seq(Exception \cup {Value})
    BY <2>3 DEF Frame
  <2> HIDE DEF o
  <2>5. at \in {"run", "check"}
    BY DEF AfterInstruction
  <2> HIDE DEF at
  <2>6. /\ g \in Frame /\ g.method = f.method /\ g.tasks = f.tasks /\ g.at = at
    BY <2>1, <2>3, <2>4, <2>5 DEF Frame
  <2>7. f.method \notin Native /\ f.tasks = <<>>
    BY <1>1, <1>6 DEF FrameIsSound
  <2>8. FrameIsSound(g)
    BY <2>5, <2>6, <2>7 DEF FrameIsSound
  <2> QED
    BY <1>6, <2>6, <2>8 DEF at
<1> QED
  BY <1>1, <1>5, <1>6

(* The end of a call. *)
LEMMA LeaveFrameStep ==
  ASSUME IInv, frames # <<>>, NEW v \in BOOLEAN, LeaveFrame(v)
  PROVE  \/ /\ Len(frames) > 1
            /\ AfterCall(frames[Len(frames) - 1], Top.method, v) \in Frame
            /\ Pops(AfterCall(frames[Len(frames) - 1], Top.method, v))
            /\ UNCHANGED <<excVars, phase>>
         \/ /\ Len(frames) = 1 /\ mCurrentException = NULL /\ frames' = <<>>
            /\ phase' \in {"exited", "ended"}
            /\ UNCHANGED excVars
         \/ /\ Len(frames) = 1 /\ mCurrentException # NULL
            /\ frames' = <<NewFrame(UncaughtHandler)>>
            /\ mCurrentException' = NULL /\ pins' = pins - 1
            /\ mHasUncaughtException' = TRUE
            /\ UNCHANGED phase
<1> DEFINE f == frames[Len(frames) - 1]
           g == AfterCall(f, Top.method, v)
<1>1. CASE /\ Len(frames) > 1
           /\ frames' = Append(SubSeq(frames, 1, Len(frames) - 2), g)
           /\ UNCHANGED <<excVars, phase>>
  <2>1. /\ g \in Frame /\ g.method = f.method /\ g.tasks = f.tasks
        /\ FrameIsSound(g)
        /\ g.at = "init" \/ g.at = AfterInstruction(mCurrentException)
    BY <1>1, CallerIsSound
  <2>2. mCurrentException' = mCurrentException
    BY <1>1 DEF excVars
  <2> HIDE DEF g
  <2>3. /\ g.at # "call"
        /\ g.at \in {"check", "leave"} => mCurrentException' # NULL
    BY <2>1, <2>2 DEF AfterInstruction
  <2>4. Pops(g)
    BY <1>1, <2>1, <2>3 DEF Pops
  <2> QED
    BY <1>1, <2>1, <2>4 DEF g
<1>2. CASE ~(Len(frames) > 1)
  BY <1>2 DEF LeaveFrame
<1> QED
  BY <1>1, <1>2 DEF LeaveFrame

-----------------------------------------------------------------------------
(* The steps of JClass::initialize.                                        *)

LEMMA CurrentTask ==
  ASSUME IInv, NEW what, TopTask(what)
  PROVE  /\ At("init") /\ frames # <<>> /\ Top \in Frame /\ FrameIsSound(Top)
         /\ Top.at = "init" /\ Top.tasks \in Seq(Task) /\ Top.tasks # <<>>
         /\ Len(Top.tasks) \in Nat \ {0}
         /\ DOMAIN Top.tasks = 1 .. Len(Top.tasks)
         /\ Head(Top.tasks) = Top.tasks[1] /\ Top.tasks[1].do = what
         /\ Target = Top.tasks[1].class /\ Target \in Class
         /\ Top.tasks[1] = [do |-> what, class |-> Target]
         /\ Tail(Top.tasks) \in Seq(Task)
<1>1. At("init") /\ Top.tasks # <<>> /\ Head(Top.tasks).do = what
  BY DEF TopTask
<1>2. frames # <<>> /\ Top \in Frame /\ FrameIsSound(Top) /\ Top.at = "init"
  BY <1>1, CurrentFrame
<1>3. Top.tasks \in Seq(Task)
  BY <1>2 DEF Frame
<1>4. /\ Len(Top.tasks) \in Nat \ {0} /\ DOMAIN Top.tasks = 1 .. Len(Top.tasks)
      /\ Head(Top.tasks) = Top.tasks[1] /\ Top.tasks[1] \in Task
      /\ Tail(Top.tasks) \in Seq(Task)
  BY <1>1, <1>3
<1>5. /\ Target = Top.tasks[1].class /\ Target \in Class
      /\ Top.tasks[1] = [do |-> what, class |-> Target]
  BY <1>1, <1>4 DEF Target, Task
<1> QED
  BY <1>1, <1>2, <1>3, <1>4, <1>5

LEMMA FirstOfList ==
  ASSUME NEW S, NEW a \in S, NEW rest \in Seq(S), NEW t, t = <<a>> \o rest
  PROVE  /\ t \in Seq(S) /\ t # <<>> /\ Len(t) = Len(rest) + 1
         /\ t[1] = a /\ Head(t) = a
         /\ \A k \in 1 .. Len(rest) : t[k + 1] = rest[k]
<1>1. <<a>> \in Seq(S) /\ Len(<<a>>) = 1 /\ <<a>>[1] = a
  OBVIOUS
<1> DEFINE one == <<a>>
<1> HIDE DEF one
<1>2. t = one \o rest /\ one \in Seq(S) /\ Len(one) = 1 /\ one[1] = a
  BY <1>1 DEF one
<1>3. /\ t \in Seq(S) /\ Len(t) = Len(rest) + 1 /\ t[1] = a
      /\ \A k \in 1 .. Len(rest) : t[k + 1] = rest[k]
  BY <1>2
<1> QED
  BY <1>3

(* The current frame goes on with other tasks. *)
LEMMA TasksStep ==
  ASSUME IInv, At("init"), NEW t \in Seq(Task), frames' = WithTop(WithTasks(t))
  PROVE  \E g \in Frame : Moves(g) /\ g.tasks = t /\ g.at = "init"
<1> DEFINE g == [Top EXCEPT !.tasks = t]
<1>1. /\ frames # <<>> /\ Top \in Frame /\ FrameIsSound(Top) /\ Top.at = "init"
  BY CurrentFrame
<1>2. /\ g \in Frame /\ g.method = Top.method /\ g.at = "init" /\ g.tasks = t
      /\ g.then = Top.then
  BY <1>1 DEF Frame
<1>3. FrameIsSound(g)
  BY <1>1, <1>2 DEF FrameIsSound
<1>4. frames' = WithTop(g)
  BY DEF WithTasks
<1> HIDE DEF g
<1>5. Moves(g)
  BY <1>1, <1>2, <1>3, <1>4 DEF Moves
<1> QED
  BY <1>2, <1>5

(* The class's superclass and superinterfaces come first. *)
Begun(c, rest) ==
  [i \in DOMAIN Supers[c] |-> [do |-> "initialize", class |-> Supers[c][i]]]
  \o <<[do |-> "run", class |-> c]>> \o rest

LEMMA InitializeStep ==
  ASSUME IInv, Initialize
  PROVE  \/ /\ mStatus[Target] = "prepared"
            /\ mStatus' = [mStatus EXCEPT ![Target] = "under"]
            /\ \E g \in Frame :
                 /\ Moves(g) /\ g.at = "init"
                 /\ g.tasks = Begun(Target, Tail(Top.tasks))
         \/ /\ mStatus[Target] # "prepared" /\ mStatus' = mStatus
            /\ \E g \in Frame :
                 Moves(g) /\ g.at = "init" /\ g.tasks = Tail(Top.tasks)
<1>1. TopTask("initialize")
  BY DEF Initialize
<1>2. At("init") /\ Target \in Class /\ Tail(Top.tasks) \in Seq(Task)
  BY <1>1, CurrentTask
<1>3. CASE /\ mStatus[Target] = "prepared"
           /\ mStatus' = [mStatus EXCEPT ![Target] = "under"]
           /\ frames' = WithTop(WithTasks(Begun(Target, Tail(Top.tasks))))
  <2>1. Begun(Target, Tail(Top.tasks)) \in Seq(Task)
    BY <1>2, TasksAreTyped DEF Begun
  <2> QED
    BY <1>2, <1>3, <2>1, TasksStep
<1>4. CASE /\ mStatus[Target] # "prepared" /\ mStatus' = mStatus
           /\ frames' = WithTop(WithTasks(Tail(Top.tasks)))
  BY <1>2, <1>4, TasksStep
<1> QED
  BY <1>3, <1>4 DEF Initialize, Begun

LEMMA RunInitializerStep ==
  ASSUME IInv, RunInitializer
  PROVE  \/ /\ frames' = frames /\ mJniHandles' = mJniHandles
            /\ phase' = "panicked"
         \/ /\ mJniHandles' = mJniHandles /\ phase' = phase
            /\ \E g \in Frame :
                 /\ g.tasks = <<[do |-> "finish", class |-> Target]>>
                              \o Tail(Top.tasks)
                 /\ \/ Moves(g) /\ g.at = "init"
                    \/ /\ Pushes(g, Initializer[Target])
                       /\ Initializer[Target] \in Method
<1> DEFINE t == <<[do |-> "finish", class |-> Target]>> \o Tail(Top.tasks)
           m == Initializer[Target]
<1>1. TopTask("run")
  BY DEF RunInitializer
<1>2. /\ At("init") /\ frames # <<>> /\ Top \in Frame /\ FrameIsSound(Top)
      /\ Top.at = "init" /\ Target \in Class /\ Tail(Top.tasks) \in Seq(Task)
  BY <1>1, CurrentTask
<1>3. t \in Seq(Task) /\ t # <<>> /\ Head(t) = [do |-> "finish", class |-> Target]
  <2> DEFINE a == [do |-> "finish", class |-> Target]
             rest == Tail(Top.tasks)
  <2>1. a \in Task /\ rest \in Seq(Task)
    BY <1>2, TaskIsTyped
  <2>2. t = <<a>> \o rest
    OBVIOUS
  <2> HIDE DEF a, rest, t
  <2>3. t \in Seq(Task) /\ t # <<>> /\ Head(t) = a
    BY <2>1, <2>2, FirstOfList
  <2> QED
    BY <2>3 DEF a
<1> HIDE DEF t
<1>4. CASE m = NULL
  <2>1. /\ frames' = WithTop(WithTasks(t)) /\ mJniHandles' = mJniHandles
        /\ phase' = phase
    BY <1>4 DEF RunInitializer, t
  <2> QED
    BY <1>2, <1>3, <2>1, TasksStep DEF t
<1>5. CASE m # NULL
  <2> DEFINE g == [Top EXCEPT !.tasks = t]
  <2>1. Enter(m, g)
    BY <1>5 DEF RunInitializer, WithTasks, t
  <2>2. /\ g \in Frame /\ g.method = Top.method /\ g.at = "init" /\ g.tasks = t
        /\ g.then = Top.then
    BY <1>2, <1>3 DEF Frame
  <2>3. FrameIsSound(g)
    BY <1>2, <2>2 DEF FrameIsSound
  <2>4. Awaits(g, m)
    BY <1>3, <2>2 DEF Awaits
  <2> HIDE DEF g
  <2>5. m \in Method /\ m \notin Linked
    BY <1>2, <1>5, ClassAssumption, MethodAssumption DEF Method
  <2>6. CASE Len(frames) >= MaxFrames
    BY <2>1, <2>6 DEF Enter
  <2>7. CASE ~(Len(frames) >= MaxFrames)
    <3>1. Len(frames) < MaxFrames
      BY <2>7, BoundAssumption DEF IInv, Typed
    <3>2. /\ frames' = Append(WithTop(g), NewFrame(m))
          /\ mJniHandles' = mJniHandles /\ phase' = phase
      BY <2>1, <2>5, <2>7 DEF Enter
    <3>3. Pushes(g, m)
      BY <1>2, <2>2, <2>3, <2>4, <3>1, <3>2 DEF Pushes
    <3> QED
      BY <2>2, <2>5, <3>2, <3>3 DEF t
  <2> QED
    BY <2>6, <2>7
<1> QED
  BY <1>4, <1>5

LEMMA FinishInitializationStep ==
  ASSUME IInv, FinishInitialization
  PROVE  \E g \in Frame : Moves(g) /\ g.at = "init" /\ g.tasks = Tail(Top.tasks)
BY CurrentTask, TasksStep DEF FinishInitialization

LEMMA FinishInvokeStaticStep ==
  ASSUME IInv, FinishInvokeStatic
  PROVE  /\ Top.tasks = <<>> /\ Top.at = "init"
         /\ \/ /\ mCurrentException = NULL
               /\ Top.then.method \in Callable
               /\ \/ /\ frames' = frames /\ mJniHandles' = mJniHandles
                     /\ phase' = "panicked"
                  \/ /\ \E g \in Frame :
                          Pushes(g, Top.then.method) /\ g.tasks = <<>>
                     /\ mJniHandles' =
                          IF Top.then.method \in Linked
                          THEN Append(mJniHandles, NumSlots[Top.then.method])
                          ELSE mJniHandles
                     /\ phase' = phase
            \/ /\ mCurrentException # NULL
               /\ \E g \in Frame :
                    Moves(g) /\ g.at = "check" /\ g.tasks = Top.tasks
               /\ mJniHandles' = mJniHandles /\ phase' = phase
<1> DEFINE f == [Top EXCEPT !.then = Nothing]
<1>1. At("init") /\ Top.tasks = <<>> /\ Top.then.op = "invokestatic"
  BY DEF FinishInvokeStatic, Initialized
<1>2. frames # <<>> /\ Top \in Frame /\ FrameIsSound(Top) /\ Top.at = "init"
  BY <1>1, CurrentFrame
<1>3. Top.then.method \in Callable /\ Top.method \in Interpreted
  BY <1>1, <1>2 DEF FrameIsSound, Frame, Method
<1>4. /\ f \in Frame /\ f.method = Top.method /\ f.tasks = <<>>
  BY <1>1, <1>2 DEF Frame
<1>5. mCurrentException' = mCurrentException
  BY DEF FinishInvokeStatic, excVars
<1>6. CASE mCurrentException = NULL
  <2>1. Invoke(Top.then.method, f)
    BY <1>6 DEF FinishInvokeStatic
  <2> HIDE DEF f
  <2> QED
    BY <1>1, <1>2, <1>3, <1>4, <1>5, <1>6, <2>1, InvokeStep
<1>7. CASE mCurrentException # NULL
  <2> DEFINE g == [f EXCEPT !.at = "check"]
  <2>1. frames' = WithTop(g) /\ mJniHandles' = mJniHandles /\ phase' = phase
    BY <1>7 DEF FinishInvokeStatic
  <2> HIDE DEF f
  <2>2. /\ g \in Frame /\ g.method = Top.method /\ g.tasks = <<>>
        /\ g.at = "check"
    BY <1>4 DEF Frame
  <2>3. FrameIsSound(g)
    BY <1>3, <2>2, MethodAssumption DEF FrameIsSound
  <2> HIDE DEF g
  <2>4. Moves(g)
    BY <1>2, <1>5, <1>7, <2>1, <2>2, <2>3 DEF Moves
  <2> QED
    BY <1>1, <1>2, <1>7, <2>1, <2>2, <2>4
<1> QED
  BY <1>6, <1>7

LEMMA FinishAccessStep ==
  ASSUME IInv, FinishAccess
  PROVE  /\ Top.tasks = <<>> /\ Top.at = "init"
         /\ \E g \in Frame :
              /\ Moves(g) /\ g.tasks = Top.tasks
              /\ g.at \in {"native", AfterInstruction(mCurrentException)}
<1> DEFINE f == [Top EXCEPT !.then = Nothing,
                            !.at = AfterInstruction(mCurrentException)]
           at == AfterInstruction(mCurrentException)
<1>1. /\ At("init") /\ Top.tasks = <<>>
      /\ mCurrentException' = mCurrentException
  BY DEF FinishAccess, Initialized, excVars
<1>2. frames # <<>> /\ Top \in Frame /\ FrameIsSound(Top) /\ Top.at = "init"
  BY <1>1, CurrentFrame
<1>3. /\ at \in {"run", "check"}
      /\ at = "check" => mCurrentException # NULL
  BY DEF AfterInstruction
<1> HIDE DEF at
<1>4. /\ f \in Frame /\ f.method = Top.method /\ f.tasks = <<>> /\ f.at = at
      /\ f.operands \in Seq(Exception \cup {Value})
  BY <1>1, <1>2, <1>3 DEF Frame, at
<1>5. CASE Initialized("jni")
  <2> DEFINE g == [f EXCEPT !.at = "native"]
  <2>1. frames' = WithTop(g)
    BY <1>5 DEF FinishAccess, Initialized
  <2>2. Top.method \in Native
    BY <1>2, <1>5 DEF Initialized, FrameIsSound
  <2> HIDE DEF f
  <2>3. /\ g \in Frame /\ g.method = Top.method /\ g.tasks = <<>>
        /\ g.at = "native"
    BY <1>4 DEF Frame
  <2>4. FrameIsSound(g)
    BY <2>2, <2>3, MethodAssumption DEF FrameIsSound
  <2> HIDE DEF g
  <2>5. Moves(g)
    BY <1>2, <2>1, <2>3, <2>4 DEF Moves
  <2> QED
    BY <1>1, <1>2, <2>3, <2>5
<1>6. CASE \/ Initialized("new") \/ Initialized("getstatic")
           \/ Initialized("putstatic")
  <2>1. Top.method \notin Native
    BY <1>2, <1>6 DEF Initialized, FrameIsSound
  <2>2. PICK o \in {Append(f.operands, Value), Drop(f.operands, 1)} :
          frames' = WithTop([f EXCEPT !.operands = o])
    BY <1>6 DEF FinishAccess, Initialized
  <2> HIDE DEF f
  <2>3. o \in Seq(Exception \cup {Value})
    <3>1. Append(f.operands, Value) \in Seq(Exception \cup {Value})
      BY <1>4
    <3> QED
      BY <1>4, <3>1, DropIsTyped
  <2> DEFINE g == [f EXCEPT !.operands = o]
  <2>4. /\ g \in Frame /\ g.method = Top.method /\ g.tasks = <<>> /\ g.at = at
    BY <1>4, <2>3 DEF Frame
  <2>5. FrameIsSound(g)
    BY <1>3, <2>1, <2>4 DEF FrameIsSound
  <2> HIDE DEF g
  <2>6. frames' = WithTop(g)
    BY <2>2 DEF g
  <2>7. Moves(g)
    BY <1>1, <1>2, <1>3, <2>4, <2>5, <2>6 DEF Moves
  <2> QED
    BY <1>1, <1>2, <2>4, <2>7 DEF at
<1> QED
  BY <1>5, <1>6 DEF FinishAccess

-----------------------------------------------------------------------------
(* The call stack stays well formed.                                       *)

FramesAreSound ==
  /\ frames \in Seq(Frame) /\ Len(frames) \in 0 .. MaxFrames
  /\ StackIsSound
  /\ \A i \in DOMAIN frames :
       frames[i].at \in {"check", "leave"} => mCurrentException # NULL

LEMMA StackOf ==
  ASSUME IInv
  PROVE  FramesAreSound
BY DEF IInv, Typed, ExceptionIsHeld, FramesAreSound

LEMMA MovesStaySound ==
  ASSUME IInv, NEW g \in Frame, Moves(g)
  PROVE  FramesAreSound'
<1> DEFINE n == Len(frames)
<1>1. /\ n \in Nat \ {0} /\ DOMAIN frames = 1 .. n /\ n <= MaxFrames
      /\ frames # <<>> /\ Top = frames[n]
  BY TopFacts DEF Moves, IInv, Typed
<1>2. /\ frames' \in Seq(Frame) /\ Len(frames') = n /\ DOMAIN frames' = 1 .. n
      /\ \A i \in 1 .. n : frames'[i] = IF i = n THEN g ELSE frames[i]
  BY <1>1, MoveFacts DEF Moves, IInv, Typed
<1> HIDE DEF n
<1>3. /\ g.method = frames[n].method /\ FrameIsSound(g) /\ g.at # "call"
      /\ g.at \in {"check", "leave"} => mCurrentException' # NULL
  BY <1>1 DEF Moves
<1>4. \A i \in 1 .. n : frames'[i].method = frames[i].method
  BY <1>2, <1>3
<1>5. /\ \A i \in 1 .. n : FrameIsSound(frames[i])
      /\ \A i \in 1 .. n : i # n => Awaits(frames[i], frames[i + 1].method)
      /\ frames[1].method \in {Main, UncaughtHandler}
  BY <1>1 DEF IInv, StackIsSound, n
<1>6. ASSUME NEW i \in 1 .. n
      PROVE  /\ FrameIsSound(frames'[i])
             /\ IF i = n THEN frames'[i].at # "call"
                ELSE Awaits(frames'[i], frames'[i + 1].method)
             /\ frames'[i].at \in {"check", "leave"} => mCurrentException' # NULL
  <2>1. CASE i = n
    BY <1>1, <1>2, <1>3, <2>1
  <2>2. CASE i # n
    <3>1. frames'[i] = frames[i] /\ i + 1 \in 1 .. n
      BY <1>1, <1>2, <2>2
    <3>2. Awaits(frames'[i], frames'[i + 1].method)
      BY <1>4, <1>5, <2>2, <3>1
    <3> QED
      BY <1>5, <2>2, <3>1, <3>2 DEF Awaits
  <2> QED
    BY <2>1, <2>2
<1>7. frames'[1].method \in {Main, UncaughtHandler}
  BY <1>1, <1>4, <1>5
<1>8. StackIsSound'
  BY <1>2, <1>6, <1>7 DEF StackIsSound, FrameIsSound, Awaits
<1> QED
  BY <1>1, <1>2, <1>6, <1>8, BoundAssumption DEF FramesAreSound

LEMMA PushesStaySound ==
  ASSUME IInv, NEW g \in Frame, NEW m \in Method, Pushes(g, m)
  PROVE  FramesAreSound'
<1> DEFINE n == Len(frames)
<1>1. /\ n \in Nat \ {0} /\ DOMAIN frames = 1 .. n /\ n < MaxFrames
      /\ frames # <<>> /\ Top = frames[n]
  BY TopFacts DEF Pushes, IInv, Typed
<1>2. /\ NewFrame(m) \in Frame /\ FrameIsSound(NewFrame(m))
      /\ NewFrame(m).method = m /\ NewFrame(m).at \in {"run", "native"}
  BY NewFrameIsSound
<1>3. /\ frames' \in Seq(Frame) /\ Len(frames') = n + 1
      /\ DOMAIN frames' = 1 .. n + 1
      /\ \A i \in 1 .. n : frames'[i] = IF i = n THEN g ELSE frames[i]
      /\ frames'[n + 1] = NewFrame(m)
  BY <1>1, <1>2, PushFacts DEF Pushes, IInv, Typed
<1> HIDE DEF n
<1>4. g.method = frames[n].method /\ FrameIsSound(g) /\ Awaits(g, m)
  BY <1>1 DEF Pushes
<1>5. \A i \in 1 .. n : frames'[i].method = frames[i].method
  BY <1>3, <1>4
<1>6. /\ \A i \in 1 .. n : FrameIsSound(frames[i])
      /\ \A i \in 1 .. n : i # n => Awaits(frames[i], frames[i + 1].method)
      /\ frames[1].method \in {Main, UncaughtHandler}
  BY <1>1 DEF IInv, StackIsSound, n
<1>7. ASSUME NEW i \in 1 .. n + 1
      PROVE  /\ FrameIsSound(frames'[i])
             /\ IF i = n + 1 THEN frames'[i].at # "call"
                ELSE Awaits(frames'[i], frames'[i + 1].method)
             /\ frames'[i].at \notin {"check", "leave"}
  <2>1. CASE i = n + 1
    BY <1>1, <1>2, <1>3, <2>1
  <2>2. CASE i = n
    BY <1>1, <1>2, <1>3, <1>4, <2>2 DEF Awaits
  <2>3. CASE i # n /\ i # n + 1
    <3>1. frames'[i] = frames[i] /\ i \in 1 .. n /\ i + 1 \in 1 .. n
      BY <1>1, <1>3, <2>3
    <3>2. Awaits(frames'[i], frames'[i + 1].method)
      BY <1>5, <1>6, <2>3, <3>1
    <3>3. frames'[i].at \notin {"check", "leave"}
      BY <3>2 DEF Awaits
    <3> QED
      BY <1>6, <2>3, <3>1, <3>2, <3>3
  <2> QED
    BY <2>1, <2>2, <2>3
<1>8. frames'[1].method \in {Main, UncaughtHandler}
  BY <1>1, <1>5, <1>6
<1>9. StackIsSound'
  BY <1>3, <1>7, <1>8 DEF StackIsSound, FrameIsSound, Awaits
<1> QED
  BY <1>1, <1>3, <1>7, <1>9, BoundAssumption DEF FramesAreSound

LEMMA PopsStaySound ==
  ASSUME IInv, NEW g \in Frame, Pops(g)
  PROVE  FramesAreSound'
<1> DEFINE n == Len(frames) - 1
<1>1. /\ n \in Nat \ {0} /\ DOMAIN frames = 1 .. n + 1 /\ n < MaxFrames
      /\ Len(frames) = n + 1
  BY BoundAssumption DEF Pops, IInv, Typed
<1>2. /\ frames' \in Seq(Frame) /\ Len(frames') = n /\ DOMAIN frames' = 1 .. n
      /\ \A i \in 1 .. n : frames'[i] = IF i = n THEN g ELSE frames[i]
  BY <1>1, PopFacts DEF Pops, IInv, Typed
<1>3. /\ g.method = frames[n].method /\ FrameIsSound(g) /\ g.at # "call"
      /\ g.at \in {"check", "leave"} => mCurrentException' # NULL
  BY <1>1 DEF Pops
<1> HIDE DEF n
<1>4. \A i \in 1 .. n : frames'[i].method = frames[i].method
  BY <1>2, <1>3
<1>5. /\ \A i \in 1 .. n : FrameIsSound(frames[i])
      /\ \A i \in 1 .. n : Awaits(frames[i], frames[i + 1].method)
      /\ frames[1].method \in {Main, UncaughtHandler}
  <2>1. \A i \in 1 .. n : i \in DOMAIN frames /\ i # Len(frames)
    BY <1>1
  <2>2. frames # <<>>
    BY <1>1
  <2> QED
    BY <2>1, <2>2 DEF IInv, StackIsSound
<1>6. ASSUME NEW i \in 1 .. n
      PROVE  /\ FrameIsSound(frames'[i])
             /\ IF i = n THEN frames'[i].at # "call"
                ELSE Awaits(frames'[i], frames'[i + 1].method)
             /\ frames'[i].at \in {"check", "leave"} => mCurrentException' # NULL
  <2>1. CASE i = n
    BY <1>1, <1>2, <1>3, <2>1
  <2>2. CASE i # n
    <3>1. frames'[i] = frames[i] /\ i + 1 \in 1 .. n
      BY <1>1, <1>2, <2>2
    <3>2. Awaits(frames'[i], frames'[i + 1].method)
      BY <1>4, <1>5, <2>2, <3>1
    <3> QED
      BY <1>5, <2>2, <3>1, <3>2 DEF Awaits
  <2> QED
    BY <2>1, <2>2
<1>7. frames'[1].method \in {Main, UncaughtHandler}
  BY <1>1, <1>4, <1>5
<1>8. StackIsSound'
  BY <1>2, <1>6, <1>7 DEF StackIsSound, FrameIsSound, Awaits
<1> QED
  BY <1>1, <1>2, <1>6, <1>8, BoundAssumption DEF FramesAreSound

LEMMA EmptyingStaysSound ==
  ASSUME IInv, Empties
  PROVE  FramesAreSound'
<1> DEFINE h == NewFrame(UncaughtHandler)
<1>1. /\ h \in Frame /\ FrameIsSound(h) /\ h.method = UncaughtHandler
      /\ h.at \in {"run", "native"}
  BY NewFrameIsSound, MethodAssumption DEF Method
<1> HIDE DEF h
<1>2. CASE frames' = <<>>
  <2>1. frames' \in Seq(Frame) /\ Len(frames') = 0 /\ DOMAIN frames' = {}
    BY <1>2
  <2> QED
    BY <1>2, <2>1, BoundAssumption DEF FramesAreSound, StackIsSound
<1>3. CASE frames' = <<h>>
  <2>1. /\ frames' \in Seq(Frame) /\ Len(frames') = 1 /\ DOMAIN frames' = {1}
        /\ frames'[1] = h
    BY <1>1, <1>3
  <2>2. StackIsSound'
    BY <1>1, <2>1 DEF StackIsSound, FrameIsSound
  <2> QED
    BY <1>1, <2>1, <2>2, BoundAssumption DEF FramesAreSound
<1> QED
  BY <1>2, <1>3 DEF Empties, h

LEMMA StackStaysSound ==
  ASSUME IInv, StackChanges
  PROVE  FramesAreSound'
<1>1. CASE frames' = frames /\ mCurrentException' = mCurrentException
  BY <1>1, StackOf DEF FramesAreSound, StackIsSound, FrameIsSound, Awaits
<1>2. ASSUME NEW g \in Frame, Moves(g)
      PROVE  FramesAreSound'
  BY <1>2, MovesStaySound
<1>3. ASSUME NEW g \in Frame, NEW m \in Method, Pushes(g, m)
      PROVE  FramesAreSound'
  BY <1>3, PushesStaySound
<1>4. ASSUME NEW g \in Frame, Pops(g)
      PROVE  FramesAreSound'
  BY <1>4, PopsStaySound
<1>5. CASE Empties
  BY <1>5, EmptyingStaysSound
<1> QED
  BY <1>1, <1>2, <1>3, <1>4, <1>5 DEF StackChanges

-----------------------------------------------------------------------------
(* Every step keeps the invariant.                                         *)

RestIsTyped ==
  /\ mCurrentException \in Exception \cup {NULL} /\ pins \in Nat
  /\ mHasUncaughtException \in BOOLEAN
  /\ mJniHandles \in Seq(Nat)
  /\ mStatus \in [Class -> {"prepared", "under", "initialized"}]
  /\ phase \in {"running", "ended", "exited", "panicked", "asserted"}
  /\ mCurrentException # NULL => pins >= 1 /\ ~mHasUncaughtException

LEMMA Sound ==
  IInv <=> FramesAreSound /\ RestIsTyped
BY DEF IInv, Typed, ExceptionIsHeld, FramesAreSound, RestIsTyped

LEMMA LeavingKeepsInvariant ==
  ASSUME IInv, frames # <<>>, NEW v \in BOOLEAN, LeaveFrame(v),
         mJniHandles' \in Seq(Nat)
  PROVE  StackChanges /\ RestIsTyped'
<1>1. RestIsTyped /\ mStatus' = mStatus
  BY Sound DEF LeaveFrame
<1>2. CASE /\ AfterCall(frames[Len(frames) - 1], Top.method, v) \in Frame
           /\ Pops(AfterCall(frames[Len(frames) - 1], Top.method, v))
           /\ UNCHANGED <<excVars, phase>>
  BY <1>1, <1>2 DEF StackChanges, RestIsTyped, excVars
<1>3. CASE /\ Len(frames) = 1 /\ mCurrentException = NULL /\ frames' = <<>>
           /\ phase' \in {"exited", "ended"}
           /\ UNCHANGED excVars
  BY <1>1, <1>3 DEF StackChanges, Empties, RestIsTyped, excVars
<1>4. CASE /\ Len(frames) = 1 /\ mCurrentException # NULL
           /\ frames' = <<NewFrame(UncaughtHandler)>>
           /\ mCurrentException' = NULL /\ pins' = pins - 1
           /\ mHasUncaughtException' = TRUE
           /\ UNCHANGED phase
  BY <1>1, <1>4 DEF StackChanges, Empties, RestIsTyped
<1> QED
  BY <1>2, <1>3, <1>4, LeaveFrameStep

LEMMA InterpretKeepsInvariant ==
  ASSUME IInv, Interpret
  PROVE  StackChanges /\ RestIsTyped'
<1>1. RestIsTyped
  BY Sound
<1>2. CASE Compute
  BY <1>1, <1>2, ComputeStep DEF StackChanges, RestIsTyped, Compute, excVars
<1>3. ASSUME NEW m \in Callable, InvokeMethod(m)
      PROVE  StackChanges /\ RestIsTyped'
  <2>1. UNCHANGED <<excVars, mStatus>>
    BY <1>3 DEF InvokeMethod
  <2>2. m \in Method /\ NumSlots[m] \in Nat
    BY MethodAssumption DEF Callable
  <2>3. /\ StackChanges
        /\ phase' \in {phase, "panicked"}
        /\ mJniHandles' \in {mJniHandles, Append(mJniHandles, NumSlots[m])}
    BY <1>3, <2>1, <2>2, InvokeMethodStep DEF StackChanges, excVars
  <2>4. mJniHandles' \in Seq(Nat)
    BY <1>1, <2>2, <2>3 DEF RestIsTyped
  <2> QED
    BY <1>1, <2>1, <2>3, <2>4 DEF RestIsTyped, excVars
<1>4. ASSUME NEW c \in Class, NEW access \in Access, access.op # "jni",
             access.method \in Callable \cup {NULL}, BeginAccess(access, c)
      PROVE  StackChanges /\ RestIsTyped'
  BY <1>1, <1>4, BeginAccessStep
     DEF StackChanges, RestIsTyped, BeginAccess, excVars
<1>5. ASSUME NEW place, Throws(place), UNCHANGED <<mJniHandles, mStatus>>
      PROVE  StackChanges /\ RestIsTyped'
  BY <1>1, <1>5 DEF StackChanges, RestIsTyped, Throws
<1>6. CASE ThrowNew \/ AThrow
  BY <1>5, <1>6, ThrowInInterpreterStep DEF ThrowNew, AThrow
<1>7. CASE NewOfMissingClass
  BY <1>5, <1>7, NewOfMissingClassStep DEF NewOfMissingClass
<1>8. CASE Return
  <2> DEFINE v == Top.method \in ReturnsValue
  <2>1. /\ At("run") /\ mJniHandles' = mJniHandles
        /\ LeaveFrame(v) /\ v \in BOOLEAN
    BY <1>8 DEF Return
  <2> HIDE DEF v
  <2>2. frames # <<>> /\ mJniHandles' \in Seq(Nat)
    BY <1>1, <2>1, CurrentFrame DEF RestIsTyped
  <2> QED
    BY <2>1, <2>2, LeavingKeepsInvariant
<1> QED
  BY <1>2, <1>3, <1>4, <1>6, <1>7, <1>8 DEF Interpret

LEMMA DispatchKeepsInvariant ==
  ASSUME IInv, Dispatch
  PROVE  StackChanges /\ RestIsTyped'
<1>1. RestIsTyped
  BY Sound
<1>2. CASE Catch
  <2>1. At("check") /\ mCurrentException # NULL
    <3>1. At("check")
      BY <1>2 DEF Catch
    <3> QED
      BY <3>1, CurrentFrame DEF IInv, ExceptionIsHeld
  <2>2. StackChanges
    BY <1>2, CatchStep DEF StackChanges
  <2> QED
    BY <1>1, <1>2, <2>1, <2>2 DEF RestIsTyped, Catch
<1>3. CASE Unwind
  <2>1. At("check") /\ mJniHandles' = mJniHandles /\ LeaveFrame(FALSE)
    BY <1>3 DEF Unwind
  <2>2. frames # <<>> /\ mJniHandles' \in Seq(Nat)
    BY <1>1, <2>1, CurrentFrame DEF RestIsTyped
  <2> QED
    BY <2>1, <2>2, LeavingKeepsInvariant
<1> QED
  BY <1>2, <1>3 DEF Dispatch

LEMMA InitializeClassKeepsInvariant ==
  ASSUME IInv, InitializeClass
  PROVE  StackChanges /\ RestIsTyped'
<1>1. RestIsTyped
  BY Sound
<1>2. CASE Initialize
  <2>1. UNCHANGED <<excVars, mJniHandles, phase>>
    BY <1>2 DEF Initialize
  <2>2. StackChanges
    BY <1>2, InitializeStep DEF StackChanges
  <2>3. mStatus' \in [Class -> {"prepared", "under", "initialized"}]
    BY <1>1, <1>2, InitializeStep DEF RestIsTyped
  <2> QED
    BY <1>1, <2>1, <2>2, <2>3 DEF RestIsTyped, excVars
<1>3. CASE RunInitializer
  <2>1. UNCHANGED <<excVars, mStatus>>
    BY <1>3 DEF RunInitializer
  <2>2. /\ StackChanges /\ mJniHandles' = mJniHandles
        /\ phase' \in {phase, "panicked"}
    BY <1>3, <2>1, RunInitializerStep DEF StackChanges, excVars
  <2> QED
    BY <1>1, <2>1, <2>2 DEF RestIsTyped, excVars
<1>4. CASE FinishInitialization
  <2>1. UNCHANGED <<excVars, mJniHandles, phase>>
    BY <1>4 DEF FinishInitialization
  <2>2. StackChanges
    BY <1>4, FinishInitializationStep DEF StackChanges
  <2>3. mStatus' \in [Class -> {"prepared", "under", "initialized"}]
    BY <1>1, <1>4 DEF RestIsTyped, FinishInitialization
  <2> QED
    BY <1>1, <2>1, <2>2, <2>3 DEF RestIsTyped, excVars
<1>5. CASE FinishInvokeStatic
  <2>1. UNCHANGED <<excVars, mStatus>>
    BY <1>5 DEF FinishInvokeStatic
  <2> DEFINE m == Top.then.method
  <2>2. m \in Callable => m \in Method /\ NumSlots[m] \in Nat
    BY MethodAssumption DEF Callable
  <2>3. /\ StackChanges
        /\ phase' \in {phase, "panicked"}
        /\ \/ mJniHandles' = mJniHandles
           \/ /\ mJniHandles' = Append(mJniHandles, NumSlots[m])
              /\ m \in Callable
    BY <1>5, <2>1, <2>2, FinishInvokeStaticStep DEF StackChanges, excVars
  <2>4. mJniHandles' \in Seq(Nat)
    BY <1>1, <2>2, <2>3 DEF RestIsTyped
  <2> QED
    BY <1>1, <2>1, <2>3, <2>4 DEF RestIsTyped, excVars
<1>6. CASE FinishAccess
  BY <1>1, <1>6, FinishAccessStep
     DEF StackChanges, RestIsTyped, FinishAccess, excVars
<1> QED
  BY <1>2, <1>3, <1>4, <1>5, <1>6 DEF InitializeClass

LEMMA RunNativeKeepsInvariant ==
  ASSUME IInv, RunNative
  PROVE  StackChanges /\ RestIsTyped'
<1>1. RestIsTyped
  BY Sound
<1>2. ASSUME NEW c \in Class, JniInitialize(c)
      PROVE  StackChanges /\ RestIsTyped'
  BY <1>1, <1>2, JniInitializeStep
     DEF StackChanges, RestIsTyped, JniInitialize, excVars
<1>3. CASE AddJniHandle
  <2>1. /\ UNCHANGED <<frames, excVars, mStatus, phase>>
        /\ mJniHandles' = [mJniHandles EXCEPT ![Len(mJniHandles)] = @ + 1]
    BY <1>3 DEF AddJniHandle
  <2>2. mJniHandles' \in Seq(Nat)
    <3>1. mJniHandles \in Seq(Nat)
      BY <1>1 DEF RestIsTyped
    <3>2. PICK n \in Nat : DOMAIN mJniHandles = 1 .. n
      BY <3>1
    <3>3. \A i \in 1 .. n : mJniHandles[i] \in Nat
      BY <3>1, <3>2
    <3>4. mJniHandles' = [i \in 1 .. n |-> IF i = Len(mJniHandles)
                                           THEN mJniHandles[i] + 1
                                           ELSE mJniHandles[i]]
      BY <2>1, <3>1, <3>2
    <3>5. mJniHandles' \in [1 .. n -> Nat]
      BY <3>3, <3>4
    <3> QED
      BY <3>5
  <2> QED
    BY <1>1, <2>1, <2>2 DEF StackChanges, RestIsTyped, excVars
<1>4. CASE ThrowInNative
  <2>1. Throws("leave") /\ UNCHANGED <<mJniHandles, mStatus>>
    BY <1>4, ThrowInNativeStep DEF ThrowInNative
  <2> QED
    BY <1>1, <2>1 DEF StackChanges, RestIsTyped, Throws
<1>5. CASE NativeReturn
  <2> DEFINE v == Top.method \in ReturnsValue \cap Linked
  <2>1. /\ At("native") \/ At("leave")
        /\ LeaveFrame(v) /\ v \in BOOLEAN
        /\ mJniHandles' \in {mJniHandles, Front(mJniHandles)}
    BY <1>5 DEF NativeReturn
  <2> HIDE DEF v
  <2>2. frames # <<>>
    BY <2>1, CurrentFrame
  <2>3. mJniHandles' \in Seq(Nat)
    BY <1>1, <2>1, FrontIsTyped DEF RestIsTyped
  <2> QED
    BY <2>1, <2>2, <2>3, LeavingKeepsInvariant
<1> QED
  BY <1>2, <1>3, <1>4, <1>5 DEF RunNative

LEMMA NextKeepsInvariant ==
  ASSUME IInv, [Next]_vars
  PROVE  IInv'
<1>1. StackChanges /\ RestIsTyped'
  <2>1. CASE UNCHANGED vars
    BY <2>1, Sound DEF vars, excVars, StackChanges, RestIsTyped
  <2>2. CASE Ended
    BY <2>2, Sound DEF Ended, vars, excVars, StackChanges, RestIsTyped
  <2> QED
    BY <2>1, <2>2, InterpretKeepsInvariant, DispatchKeepsInvariant,
       InitializeClassKeepsInvariant, RunNativeKeepsInvariant DEF Next
<1>2. FramesAreSound'
  BY <1>1, StackStaysSound
<1> QED
  BY <1>1, <1>2 DEF IInv, Typed, ExceptionIsHeld, FramesAreSound, RestIsTyped

LEMMA InitSatisfiesInvariant ==
  ASSUME Init
  PROVE  IInv
<1> DEFINE h == NewFrame(Main)
<1>1. /\ h \in Frame /\ FrameIsSound(h) /\ h.method = Main
      /\ h.at \in {"run", "native"}
  BY NewFrameIsSound, MethodAssumption DEF Method
<1>2. frames = <<h>>
  BY DEF Init
<1> HIDE DEF h
<1>3. frames \in Seq(Frame) /\ Len(frames) = 1 /\ DOMAIN frames = {1} /\ frames[1] = h
  BY <1>1, <1>2
<1>4. StackIsSound
  BY <1>1, <1>3 DEF StackIsSound
<1>5. FramesAreSound
  BY <1>1, <1>3, <1>4, BoundAssumption DEF FramesAreSound
<1>6. RestIsTyped
  <2>1. mJniHandles = <<>> /\ <<>> \in Seq(Nat)
    BY DEF Init
  <2> QED
    BY <2>1 DEF Init, RestIsTyped
<1> QED
  BY <1>5, <1>6, Sound

(* The inductive invariant holds throughout: state is well typed, each     *)
(* frame below the top waits for the one above it, and a frame is where    *)
(* the kind of its method may be.                                          *)
THEOREM InvariantHolds == Spec => []IInv
<1>1. Init => IInv
  BY InitSatisfiesInvariant
<1>2. IInv /\ [Next]_vars => IInv'
  BY NextKeepsInvariant
<1> QED
  BY <1>1, <1>2, PTL DEF Spec

(* The stack, the handles and the statuses of classes are what the model   *)
(* says they are: in particular no step of the interpreter, of an          *)
(* initialization or of a native method meets a frame at a place that the  *)
(* kind of its method does not have.                                       *)
THEOREM StackIsTyped == Spec => []TypeOK
<1>1. IInv => TypeOK
  <2> SUFFICES ASSUME IInv
               PROVE  TypeOK
    OBVIOUS
  <2>1. ASSUME NEW i \in DOMAIN frames
        PROVE  IsFrame(frames[i])
    <3>1. frames[i] \in Frame /\ FrameIsSound(frames[i])
      BY DEF IInv, Typed, StackIsSound
    <3> QED
      BY <3>1 DEF Frame, FrameIsSound, IsFrame
  <2> QED
    BY <2>1 DEF IInv, Typed, TypeOK
<1> QED
  BY <1>1, InvariantHolds, PTL

-----------------------------------------------------------------------------
(* Native frames and their JNI handles.                                    *)

Owns(owner) ==
  /\ owner \in [DOMAIN mJniHandles -> DOMAIN frames]
  /\ \A h \in DOMAIN mJniHandles :
       mJniHandles[h] >= NumSlots[frames[owner[h]].method]
  /\ \A h, k \in DOMAIN mJniHandles : h < k => owner[h] < owner[k]
  /\ \A i \in DOMAIN frames :
       frames[i].method \in Linked <=> \E h \in DOMAIN mJniHandles : owner[h] = i

LEMMA Owned == HandlesBelongToFrames <=> \E owner : Owns(owner)
BY DEF HandlesBelongToFrames, Owns

(* What happens to the handles is what happens to the call stack. *)
HandlesFollow ==
  \/ frames' = frames /\ mJniHandles' = mJniHandles
  \/ frames' = frames /\ frames # <<>> /\ AddJniHandle
  \/ \E g \in Frame : Moves(g) /\ mJniHandles' = mJniHandles
  \/ \E g \in Frame, m \in Method :
       /\ Pushes(g, m)
       /\ mJniHandles' = IF m \in Linked THEN Append(mJniHandles, NumSlots[m])
                         ELSE mJniHandles
  \/ /\ (\E g \in Frame : Pops(g)) \/ Empties
     /\ mJniHandles' = IF Top.method \in Linked THEN Front(mJniHandles)
                       ELSE mJniHandles

LEMMA LeavingReleasesHandles ==
  ASSUME IInv, frames # <<>>, NEW v \in BOOLEAN, LeaveFrame(v),
         mJniHandles' = IF Top.method \in Linked THEN Front(mJniHandles)
                        ELSE mJniHandles
  PROVE  HandlesFollow
<1>1. (\E g \in Frame : Pops(g)) \/ Empties
  BY LeaveFrameStep DEF Empties
<1> QED
  BY <1>1 DEF HandlesFollow

LEMMA InterpreterKeepsHandles ==
  ASSUME IInv, NEW place \in {"run", "check"}, At(place), NEW v \in BOOLEAN,
         LeaveFrame(v), mJniHandles' = mJniHandles
  PROVE  HandlesFollow
<1>1. frames # <<>> /\ FrameIsSound(Top) /\ Top.at = place
  BY CurrentFrame
<1>2. Top.method \notin Linked
  BY <1>1, MethodAssumption DEF FrameIsSound
<1> QED
  BY <1>1, <1>2, LeavingReleasesHandles

LEMMA ThrowingKeepsHandles ==
  ASSUME NEW place, Throws(place), mJniHandles' = mJniHandles
  PROVE  HandlesFollow
BY DEF Throws, HandlesFollow

LEMMA HandlesFollowFrames ==
  ASSUME IInv, Next
  PROVE  HandlesFollow
<1>1. CASE Compute
  BY <1>1, ComputeStep DEF Compute, HandlesFollow
<1>2. ASSUME NEW m \in Callable, InvokeMethod(m)
      PROVE  HandlesFollow
  <2>1. m \in Method
    BY DEF Callable
  <2> QED
    BY <1>2, <2>1, InvokeMethodStep DEF HandlesFollow
<1>3. ASSUME NEW c \in Class, NEW access \in Access, access.op # "jni",
             access.method \in Callable \cup {NULL}, BeginAccess(access, c)
      PROVE  HandlesFollow
  BY <1>3, BeginAccessStep DEF BeginAccess, HandlesFollow
<1>4. CASE ThrowNew \/ AThrow
  BY <1>4, ThrowInInterpreterStep, ThrowingKeepsHandles DEF ThrowNew, AThrow
<1>5. CASE NewOfMissingClass
  BY <1>5, NewOfMissingClassStep, ThrowingKeepsHandles DEF NewOfMissingClass
<1>6. CASE Return
  <2> DEFINE v == Top.method \in ReturnsValue
  <2>1. At("run") /\ LeaveFrame(v) /\ v \in BOOLEAN /\ mJniHandles' = mJniHandles
    BY <1>6 DEF Return
  <2> HIDE DEF v
  <2> QED
    BY <2>1, InterpreterKeepsHandles
<1>7. CASE Catch
  BY <1>7, CatchStep DEF Catch, HandlesFollow
<1>8. CASE Unwind
  BY <1>8, InterpreterKeepsHandles DEF Unwind
<1>9. CASE Initialize
  BY <1>9, InitializeStep DEF Initialize, HandlesFollow
<1>10. CASE RunInitializer
  <2>1. \A c \in Class : Initializer[c] \notin Linked
    BY ClassAssumption, MethodAssumption DEF Method
  <2>2. TopTask("run")
    BY <1>10 DEF RunInitializer
  <2>3. Initializer[Target] \notin Linked
    BY <2>1, <2>2, CurrentTask
  <2> QED
    BY <1>10, <2>3, RunInitializerStep DEF HandlesFollow
<1>11. CASE FinishInitialization
  BY <1>11, FinishInitializationStep DEF FinishInitialization, HandlesFollow
<1>12. CASE FinishInvokeStatic
  <2>1. Callable \subseteq Method
    BY DEF Callable
  <2> QED
    BY <1>12, <2>1, FinishInvokeStaticStep DEF HandlesFollow
<1>13. CASE FinishAccess
  BY <1>13, FinishAccessStep DEF FinishAccess, HandlesFollow
<1>14. ASSUME NEW c \in Class, JniInitialize(c)
       PROVE  HandlesFollow
  BY <1>14, JniInitializeStep DEF JniInitialize, HandlesFollow
<1>15. CASE AddJniHandle
  <2>1. At("native") /\ frames' = frames
    BY <1>15 DEF AddJniHandle
  <2> QED
    BY <1>15, <2>1, CurrentFrame DEF HandlesFollow
<1>16. CASE ThrowInNative
  BY <1>16, ThrowInNativeStep, ThrowingKeepsHandles DEF ThrowInNative
<1>17. CASE NativeReturn
  <2> DEFINE v == Top.method \in ReturnsValue \cap Linked
  <2>1. /\ (At("native") \/ At("leave")) /\ LeaveFrame(v) /\ v \in BOOLEAN
        /\ mJniHandles' = IF Top.method \in Linked THEN Front(mJniHandles)
                          ELSE mJniHandles
    BY <1>17 DEF NativeReturn
  <2> HIDE DEF v
  <2>2. frames # <<>>
    BY <2>1, CurrentFrame
  <2> QED
    BY <2>1, <2>2, LeavingReleasesHandles
<1>18. CASE Ended
  BY <1>18 DEF Ended, vars, HandlesFollow
<1> QED
  BY <1>1, <1>2, <1>3, <1>4, <1>5, <1>6, <1>7, <1>8, <1>9, <1>10, <1>11, <1>12,
     <1>13, <1>14, <1>15, <1>16, <1>17, <1>18
     DEF Next, Interpret, Dispatch, InitializeClass, RunNative

-----------------------------------------------------------------------------
(* The owners of the handles after a step.                                 *)

LEMMA OwnersStay ==
  ASSUME NEW owner, Owns(owner), DOMAIN mJniHandles' = DOMAIN mJniHandles,
         \A h \in DOMAIN mJniHandles :
           mJniHandles[h] \in Nat /\ mJniHandles'[h] \in Nat
           /\ mJniHandles'[h] >= mJniHandles[h],
         DOMAIN frames' = DOMAIN frames,
         \A i \in DOMAIN frames : /\ frames'[i].method = frames[i].method
                                  /\ NumSlots[frames[i].method] \in Nat
  PROVE  Owns(owner)'
<1>1. ASSUME NEW h \in DOMAIN mJniHandles
      PROVE  mJniHandles'[h] >= NumSlots[frames'[owner[h]].method]
  <2>1. /\ owner[h] \in DOMAIN frames
        /\ mJniHandles[h] >= NumSlots[frames[owner[h]].method]
    BY DEF Owns
  <2> QED
    BY <2>1
<1> QED
  BY <1>1 DEF Owns

LEMMA OwnersOfFewer ==
  ASSUME NEW owner, Owns(owner), NEW n \in Nat, DOMAIN frames = 1 .. n + 1,
         DOMAIN frames' = 1 .. n, frames[n + 1].method \notin Linked,
         \A i \in 1 .. n : frames'[i].method = frames[i].method,
         mJniHandles' = mJniHandles
  PROVE  Owns(owner)'
<1>1. ASSUME NEW h \in DOMAIN mJniHandles
      PROVE  owner[h] \in 1 .. n
  <2>1. owner[h] \in 1 .. n + 1 /\ frames[owner[h]].method \in Linked
    BY DEF Owns
  <2> QED
    BY <2>1
<1>2. owner \in [DOMAIN mJniHandles -> 1 .. n]
  BY <1>1 DEF Owns
<1> QED
  BY <1>1, <1>2 DEF Owns

LEMMA OwnersOfMore ==
  ASSUME NEW owner, Owns(owner), NEW n \in Nat, DOMAIN frames = 1 .. n,
         DOMAIN frames' = 1 .. n + 1, frames'[n + 1].method \notin Linked,
         \A i \in 1 .. n : frames'[i].method = frames[i].method,
         mJniHandles' = mJniHandles
  PROVE  Owns(owner)'
<1>1. ASSUME NEW h \in DOMAIN mJniHandles
      PROVE  owner[h] \in 1 .. n /\ owner[h] \in 1 .. n + 1 /\ owner[h] # n + 1
  <2>1. owner[h] \in 1 .. n
    BY DEF Owns
  <2> QED
    BY <2>1
<1>2. owner \in [DOMAIN mJniHandles -> 1 .. n + 1]
  BY <1>1 DEF Owns
<1>3. ASSUME NEW i \in 1 .. n + 1
      PROVE  frames'[i].method \in Linked
             <=> \E h \in DOMAIN mJniHandles : owner[h] = i
  <2>1. CASE i \in 1 .. n
    BY <2>1 DEF Owns
  <2>2. CASE i = n + 1
    BY <1>1, <2>2
  <2> QED
    BY <2>1, <2>2
<1> QED
  BY <1>1, <1>2, <1>3 DEF Owns

LEMMA NewOwner ==
  ASSUME NEW owner, Owns(owner), NEW n \in Nat, DOMAIN frames = 1 .. n,
         DOMAIN frames' = 1 .. n + 1, frames'[n + 1].method \in Linked,
         \A i \in 1 .. n : frames'[i].method = frames[i].method,
         NEW l \in Nat, DOMAIN mJniHandles = 1 .. l,
         DOMAIN mJniHandles' = 1 .. l + 1,
         \A h \in 1 .. l : mJniHandles'[h] = mJniHandles[h],
         mJniHandles'[l + 1] >= NumSlots[frames'[n + 1].method]
  PROVE  \E o : Owns(o)'
<1> DEFINE o == [h \in 1 .. l + 1 |-> IF h = l + 1 THEN n + 1 ELSE owner[h]]
<1>1. /\ \A h \in 1 .. l : /\ h \in 1 .. l + 1 /\ h # l + 1 /\ h < l + 1
                           /\ ~(l + 1 < h)
      /\ l + 1 \in 1 .. l + 1
      /\ \A h \in 1 .. l + 1 : h \in 1 .. l \/ h = l + 1
  OBVIOUS
<1>2. /\ DOMAIN o = 1 .. l + 1 /\ o[l + 1] = n + 1
      /\ \A h \in 1 .. l : o[h] = owner[h]
  BY <1>1
<1>3. \A h \in 1 .. l : owner[h] \in 1 .. n
  BY DEF Owns
<1>4. \A i \in 1 .. n : i \in 1 .. n + 1 /\ i # n + 1 /\ i < n + 1
  OBVIOUS
<1>5. o \in [1 .. l + 1 -> 1 .. n + 1]
  BY <1>1, <1>3, <1>4
<1> HIDE DEF o
<1>6. \A h \in 1 .. l + 1 : mJniHandles'[h] >= NumSlots[frames'[o[h]].method]
  BY <1>1, <1>2, <1>3 DEF Owns
<1>7. ASSUME NEW h \in 1 .. l + 1, NEW k \in 1 .. l + 1, h < k
      PROVE  o[h] < o[k]
  <2>1. h \in 1 .. l
    BY <1>7
  <2>2. CASE k \in 1 .. l
    BY <1>2, <1>7, <2>1, <2>2 DEF Owns
  <2>3. CASE k = l + 1
    BY <1>2, <1>3, <1>4, <2>1, <2>3
  <2> QED
    BY <2>2, <2>3
<1>8. ASSUME NEW i \in 1 .. n + 1
      PROVE  frames'[i].method \in Linked <=> \E h \in 1 .. l + 1 : o[h] = i
  <2>1. CASE i \in 1 .. n
    <3>1. frames'[i].method \in Linked <=> \E h \in 1 .. l : owner[h] = i
      BY <2>1 DEF Owns
    <3>2. i # n + 1
      BY <1>4, <2>1
    <3> QED
      BY <1>1, <1>2, <3>1, <3>2
  <2>2. CASE i = n + 1
    BY <1>1, <1>2, <2>2
  <2> QED
    BY <2>1, <2>2
<1> PICK p : p = o
  OBVIOUS
<1>9. Owns(p)'
  BY <1>5, <1>6, <1>7, <1>8 DEF Owns
<1> QED
  BY <1>9

LEMMA LastOwnerLeaves ==
  ASSUME NEW owner, Owns(owner), NEW n \in Nat, DOMAIN frames = 1 .. n + 1,
         DOMAIN frames' = 1 .. n, frames[n + 1].method \in Linked,
         \A i \in 1 .. n : frames'[i].method = frames[i].method,
         NEW l \in Nat, DOMAIN mJniHandles = 1 .. l,
         DOMAIN mJniHandles' = 1 .. l - 1,
         \A h \in 1 .. l - 1 : mJniHandles'[h] = mJniHandles[h]
  PROVE  \E o : Owns(o)'
<1> DEFINE o == [h \in 1 .. l - 1 |-> owner[h]]
<1>1. \A h \in 1 .. l : owner[h] \in 1 .. n + 1
  BY DEF Owns
<1>2. PICK k \in 1 .. l : owner[k] = n + 1
  <2>1. n + 1 \in 1 .. n + 1
    OBVIOUS
  <2> QED
    BY <2>1 DEF Owns
<1>3. k = l
  <2>1. l \in 1 .. l
    OBVIOUS
  <2>2. k < l => owner[k] < owner[l]
    BY <2>1 DEF Owns
  <2>3. owner[l] \in 1 .. n + 1
    BY <1>1, <2>1
  <2> QED
    BY <1>2, <2>2, <2>3
<1>4. \A h \in 1 .. l - 1 : h \in 1 .. l /\ h < l
  OBVIOUS
<1>5. \A h \in 1 .. l - 1 : owner[h] \in 1 .. n
  <2>1. \A h \in 1 .. l - 1 : owner[h] < owner[l] /\ owner[h] \in 1 .. n + 1
    BY <1>1, <1>3, <1>4 DEF Owns
  <2> QED
    BY <1>2, <1>3, <2>1
<1>6. o \in [1 .. l - 1 -> 1 .. n] /\ \A h \in 1 .. l - 1 : o[h] = owner[h]
  BY <1>5
<1> HIDE DEF o
<1>7. \A h \in 1 .. l - 1 : mJniHandles'[h] >= NumSlots[frames'[o[h]].method]
  BY <1>4, <1>5, <1>6 DEF Owns
<1>8. \A h, j \in 1 .. l - 1 : h < j => o[h] < o[j]
  BY <1>4, <1>6 DEF Owns
<1>9. ASSUME NEW i \in 1 .. n
      PROVE  frames'[i].method \in Linked <=> \E h \in 1 .. l - 1 : o[h] = i
  <2>1. i \in 1 .. n + 1 /\ i # n + 1
    OBVIOUS
  <2>2. frames'[i].method \in Linked <=> \E h \in 1 .. l : owner[h] = i
    BY <2>1 DEF Owns
  <2>3. \A h \in 1 .. l : h = l \/ h \in 1 .. l - 1
    OBVIOUS
  <2> QED
    BY <1>2, <1>3, <1>4, <1>6, <2>1, <2>2, <2>3
<1> PICK p : p = o
  OBVIOUS
<1>10. Owns(p)'
  BY <1>6, <1>7, <1>8, <1>9 DEF Owns
<1> QED
  BY <1>10

-----------------------------------------------------------------------------
LEMMA LastHandles ==
  ASSUME NEW s \in Seq(Nat), s # <<>>
  PROVE  \E l \in Nat : /\ l = Len(s) /\ DOMAIN s = 1 .. l
                        /\ DOMAIN Front(s) = 1 .. l - 1
                        /\ \A h \in 1 .. l - 1 : Front(s)[h] = s[h]
<1> PICK l \in Nat : l = Len(s) /\ DOMAIN s = 1 .. l /\ l # 0
  OBVIOUS
<1>1. Front(s) = SubSeq(s, 1, l - 1) /\ l - 1 \in Nat
  BY DEF Front
<1>2. DOMAIN Front(s) = 1 .. l - 1 /\ \A h \in 1 .. l - 1 : Front(s)[h] = s[h]
  BY <1>1
<1> QED
  BY <1>2

LEMMA MovesKeepHandles ==
  ASSUME IInv, NEW owner, Owns(owner),
         \/ frames' = frames
         \/ \E g \in Frame : Moves(g),
         mJniHandles' = mJniHandles \/ AddJniHandle
  PROVE  Owns(owner)'
<1>1. /\ DOMAIN frames' = DOMAIN frames
      /\ \A i \in DOMAIN frames : frames'[i].method = frames[i].method
  BY MoveFacts DEF Moves, IInv, Typed, Top
<1>2. /\ DOMAIN mJniHandles' = DOMAIN mJniHandles
      /\ \A h \in DOMAIN mJniHandles :
           mJniHandles[h] \in Nat /\ mJniHandles'[h] \in Nat
           /\ mJniHandles'[h] >= mJniHandles[h]
  <2>1. \A h \in DOMAIN mJniHandles : mJniHandles[h] \in Nat
    BY DEF IInv, Typed
  <2>2. CASE mJniHandles' = mJniHandles
    BY <2>1, <2>2
  <2>3. CASE AddJniHandle
    <3>1. mJniHandles' = [mJniHandles EXCEPT ![Len(mJniHandles)] = @ + 1]
      BY <2>3 DEF AddJniHandle
    <3>2. \A h \in DOMAIN mJniHandles :
            mJniHandles'[h] = IF h = Len(mJniHandles) THEN mJniHandles[h] + 1
                              ELSE mJniHandles[h]
      BY <3>1
    <3> QED
      BY <2>1, <3>1, <3>2
  <2> QED
    BY <2>2, <2>3
<1>3. ASSUME NEW i \in DOMAIN frames
      PROVE  NumSlots[frames[i].method] \in Nat
  <2>1. frames[i] \in Frame
    BY DEF IInv, Typed
  <2> QED
    BY <2>1, MethodAssumption DEF Frame
<1> QED
  BY <1>1, <1>2, <1>3, OwnersStay

LEMMA PushesKeepHandles ==
  ASSUME IInv, NEW owner, Owns(owner), NEW g \in Frame, NEW m \in Method,
         Pushes(g, m),
         mJniHandles' = IF m \in Linked THEN Append(mJniHandles, NumSlots[m])
                        ELSE mJniHandles
  PROVE  \E o : Owns(o)'
<1> PICK n \in Nat : n = Len(frames)
  BY DEF IInv, Typed
<1> DEFINE h == NewFrame(m)
<1>1. h \in Frame /\ h.method = m
  BY NewFrameIsSound
<1>2. /\ DOMAIN frames = 1 .. n /\ DOMAIN frames' = 1 .. n + 1
      /\ \A i \in 1 .. n : frames'[i].method = frames[i].method
      /\ frames'[n + 1].method = m
  <2>1. /\ DOMAIN frames = 1 .. n /\ n \in DOMAIN frames /\ Top = frames[n]
        /\ DOMAIN frames' = 1 .. n + 1
        /\ \A i \in 1 .. n : frames'[i] = IF i = n THEN g ELSE frames[i]
        /\ frames'[n + 1] = h
    BY <1>1, PushFacts, TopFacts DEF Pushes, IInv, Typed
  <2> QED
    BY <1>1, <2>1 DEF Pushes
<1> HIDE DEF h
<1>3. CASE m \notin Linked
  BY <1>2, <1>3, OwnersOfMore
<1>4. CASE m \in Linked
  <2> PICK l \in Nat : l = Len(mJniHandles) /\ DOMAIN mJniHandles = 1 .. l
    BY DEF IInv, Typed
  <2>1. /\ DOMAIN mJniHandles' = 1 .. l + 1
        /\ \A k \in 1 .. l : mJniHandles'[k] = mJniHandles[k]
        /\ mJniHandles'[l + 1] = NumSlots[m]
    BY <1>4 DEF IInv, Typed
  <2>2. NumSlots[m] >= NumSlots[m]
    BY MethodAssumption
  <2> QED
    BY <1>2, <1>4, <2>1, <2>2, NewOwner
<1> QED
  BY <1>3, <1>4

LEMMA PopsKeepHandles ==
  ASSUME IInv, NEW owner, Owns(owner), NEW g \in Frame, Pops(g),
         mJniHandles' = IF Top.method \in Linked THEN Front(mJniHandles)
                        ELSE mJniHandles
  PROVE  \E o : Owns(o)'
<1> PICK n \in Nat : Len(frames) = n + 1
  <2>1. Len(frames) - 1 \in Nat /\ Len(frames) = (Len(frames) - 1) + 1
    BY DEF Pops, IInv, Typed
  <2> QED
    BY <2>1
<1>1. /\ DOMAIN frames = 1 .. n + 1 /\ DOMAIN frames' = 1 .. n
      /\ \A i \in 1 .. n : frames'[i].method = frames[i].method
      /\ Top = frames[n + 1]
  <2>1. (n + 1) - 1 = n
    OBVIOUS
  <2>2. /\ DOMAIN frames' = 1 .. n
        /\ \A i \in 1 .. n : frames'[i] = IF i = n THEN g ELSE frames[i]
    BY <2>1, PopFacts DEF Pops, IInv, Typed
  <2>3. g.method = frames[n].method
    BY <2>1 DEF Pops
  <2>4. DOMAIN frames = 1 .. n + 1
    BY DEF IInv, Typed
  <2> QED
    BY <2>2, <2>3, <2>4 DEF Top
<1>2. CASE Top.method \notin Linked
  BY <1>1, <1>2, OwnersOfFewer
<1>3. CASE Top.method \in Linked
  <2>1. mJniHandles \in Seq(Nat) /\ mJniHandles # <<>>
    <3>1. n + 1 \in DOMAIN frames
      BY <1>1
    <3>2. \E h \in DOMAIN mJniHandles : owner[h] = n + 1
      BY <1>1, <1>3, <3>1 DEF Owns
    <3> QED
      BY <3>2 DEF IInv, Typed
  <2>2. PICK l \in Nat : /\ DOMAIN mJniHandles = 1 .. l
                         /\ DOMAIN mJniHandles' = 1 .. l - 1
                         /\ \A h \in 1 .. l - 1 : mJniHandles'[h] = mJniHandles[h]
    BY <1>3, <2>1, LastHandles
  <2> QED
    BY <1>1, <1>3, <2>2, LastOwnerLeaves
<1> QED
  BY <1>2, <1>3

LEMMA EmptyingKeepsHandles ==
  ASSUME IInv, NEW owner, Owns(owner), Empties,
         mJniHandles' = IF Top.method \in Linked THEN Front(mJniHandles)
                        ELSE mJniHandles
  PROVE  \E o : Owns(o)'
<1>1. DOMAIN frames = {1} /\ Top = frames[1]
  BY DEF Empties, IInv, Typed, Top
<1>2. frames[1].method \notin Linked /\ UncaughtHandler \notin Linked
  BY <1>1, MethodAssumption DEF IInv, StackIsSound
<1>3. DOMAIN mJniHandles = {} /\ mJniHandles' = mJniHandles
  BY <1>1, <1>2 DEF Owns
<1>4. \A i \in DOMAIN frames' : frames'[i].method \notin Linked
  <2>1. NewFrame(UncaughtHandler).method = UncaughtHandler
    BY DEF NewFrame
  <2> DEFINE h == NewFrame(UncaughtHandler)
  <2> HIDE DEF h
  <2>2. DOMAIN <<h>> = {1} /\ <<h>>[1] = h
    OBVIOUS
  <2>3. frames' = <<>> \/ frames' = <<h>>
    BY DEF Empties, h
  <2> QED
    BY <1>2, <2>1, <2>2, <2>3 DEF h
<1> PICK o : o = [h \in {} |-> h]
  OBVIOUS
<1>5. o \in [{} -> DOMAIN frames']
  OBVIOUS
<1>6. Owns(o)'
  BY <1>3, <1>4, <1>5 DEF Owns
<1> QED
  BY <1>6

LEMMA NextKeepsHandles ==
  ASSUME IInv, HandlesBelongToFrames, [Next]_vars
  PROVE  HandlesBelongToFrames'
<1> PICK owner : Owns(owner)
  BY Owned
<1>1. HandlesFollow
  BY HandlesFollowFrames DEF vars, HandlesFollow
<1>2. \E o : Owns(o)'
  BY <1>1, MovesKeepHandles, PushesKeepHandles, PopsKeepHandles,
     EmptyingKeepsHandles DEF HandlesFollow
<1> QED
  BY <1>2 DEF HandlesBelongToFrames, Owns

LEMMA InitSatisfiesHandles ==
  ASSUME Init
  PROVE  HandlesBelongToFrames
<1> DEFINE h == NewFrame(Main)
<1>1. h.method \notin Linked
  BY MethodAssumption DEF NewFrame
<1>2. frames = <<h>> /\ mJniHandles = <<>>
  BY DEF Init
<1> HIDE DEF h
<1>3. DOMAIN frames = {1} /\ frames[1] = h /\ DOMAIN mJniHandles = {}
  BY <1>2
<1> PICK o : o = [k \in {} |-> k]
  OBVIOUS
<1>4. Owns(o)
  BY <1>1, <1>3 DEF Owns
<1> QED
  BY <1>4, Owned

(* prepareNativeFrame and releaseNativeFrame: whatever way a native method *)
(* is left, its handles are released and those of the other native frames  *)
(* on the stack are not.                                                   *)
THEOREM NativeFramesHaveTheirHandles == Spec => []HandlesBelongToFrames
<1>1. Init => IInv /\ HandlesBelongToFrames
  BY InitSatisfiesInvariant, InitSatisfiesHandles
<1>2. IInv /\ HandlesBelongToFrames /\ [Next]_vars
      => (IInv /\ HandlesBelongToFrames)'
  BY NextKeepsInvariant, NextKeepsHandles
<1> QED
  BY <1>1, <1>2, PTL DEF Spec

-----------------------------------------------------------------------------
(***************************************************************************)
(* Class initialization: the tasks of JClass::initialize that the frames   *)
(* of the call stack keep say which classes are under initialization, and  *)
(* in which order.                                                         *)
(***************************************************************************)

HasTask(i, k, t) ==
  i \in DOMAIN frames /\ k \in DOMAIN frames[i].tasks /\ frames[i].tasks[k] = t

Owed(t, c) == t.do # "initialize" /\ t.class = c

(* A class is under initialization while it is owed to it to be finished,  *)
(* which it is at one place on the stack only; and its superclass and      *)
(* superinterfaces are dealt with before.                                  *)
StatusFollowsTasks ==
  \A c \in Class :
    mStatus[c] = "under" <=>
      \E i \in Nat, k \in Nat, t \in Task : HasTask(i, k, t) /\ Owed(t, c)

OwedOnce ==
  \A c \in Class : \A i, j, k, l \in Nat, t, u \in Task :
    /\ HasTask(i, k, t) /\ Owed(t, c)
    /\ HasTask(j, l, u) /\ Owed(u, c)
    => i = j /\ k = l

SupersFirst ==
  \A c \in Class : \A i, k \in Nat, t \in Task :
    HasTask(i, k, t) /\ Owed(t, c) =>
      \A s \in Range(Supers[c]) :
        \/ mStatus[s] # "prepared"
        \/ \E l \in 1 .. k - 1 :
             HasTask(i, l, [do |-> "initialize", class |-> s])

TasksAreSound == StatusFollowsTasks /\ OwedOnce /\ SupersFirst

-----------------------------------------------------------------------------
(* The tasks of the current frame become ts; those of other frames stay. *)
NewTasks(ts) ==
  \A i, k, t : HasTask(i, k, t)' <=>
    \/ i = Len(frames) /\ k \in DOMAIN ts /\ ts[k] = t
    \/ i # Len(frames) /\ HasTask(i, k, t)

SameTasks == \A i, k, t : HasTask(i, k, t)' <=> HasTask(i, k, t)

LEMMA TaskPlaces ==
  ASSUME IInv, NEW i, NEW k, NEW t, HasTask(i, k, t)
  PROVE  /\ i \in Nat \ {0} /\ i <= Len(frames) /\ k \in Nat \ {0} /\ t \in Task
         /\ frames[i] \in Frame /\ frames[i].tasks \in Seq(Task)
<1>1. i \in Nat \ {0} /\ i <= Len(frames) /\ frames[i] \in Frame
  BY DEF HasTask, IInv, Typed
<1>2. frames[i].tasks \in Seq(Task)
  BY <1>1 DEF Frame
<1> QED
  BY <1>1, <1>2 DEF HasTask

LEMMA MoveTasks ==
  ASSUME IInv, NEW g \in Frame, Moves(g)
  PROVE  NewTasks(g.tasks)
<1>1. /\ DOMAIN frames' = DOMAIN frames /\ Len(frames) \in DOMAIN frames
      /\ \A i \in DOMAIN frames :
           frames'[i] = IF i = Len(frames) THEN g ELSE frames[i]
  BY MoveFacts, TopFacts DEF Moves, IInv, Typed
<1> QED
  BY <1>1 DEF NewTasks, HasTask

LEMMA PushTasks ==
  ASSUME IInv, NEW g \in Frame, NEW m \in Method, Pushes(g, m)
  PROVE  NewTasks(g.tasks)
<1> DEFINE n == Len(frames)
           h == NewFrame(m)
<1>1. h \in Frame /\ h.tasks = <<>>
  BY NewFrameIsSound
<1>2. /\ n \in Nat \ {0} /\ DOMAIN frames = 1 .. n
      /\ DOMAIN frames' = 1 .. n + 1
      /\ \A i \in 1 .. n : frames'[i] = IF i = n THEN g ELSE frames[i]
      /\ frames'[n + 1] = h
  BY <1>1, PushFacts, TopFacts DEF Pushes, IInv, Typed
<1> HIDE DEF n, h
<1>3. DOMAIN h.tasks = {}
  BY <1>1
<1>4. ASSUME NEW i, NEW k, NEW t
      PROVE  HasTask(i, k, t)' <=>
               \/ i = n /\ k \in DOMAIN g.tasks /\ g.tasks[k] = t
               \/ i # n /\ HasTask(i, k, t)
  <2>1. CASE i \in 1 .. n
    BY <1>2, <2>1 DEF HasTask
  <2>2. CASE i = n + 1
    BY <1>2, <1>3, <2>2 DEF HasTask
  <2>3. CASE i \notin 1 .. n + 1
    BY <1>2, <2>3 DEF HasTask
  <2> QED
    BY <1>2, <2>1, <2>2, <2>3
<1> QED
  BY <1>4 DEF NewTasks, n

LEMMA LeaveTasks ==
  ASSUME IInv, frames # <<>>, Top.at # "init",
         (\E g \in Frame : Pops(g)) \/ Empties
  PROVE  SameTasks
<1> DEFINE n == Len(frames)
<1>1. /\ n \in Nat \ {0} /\ DOMAIN frames = 1 .. n /\ frames \in Seq(Frame)
      /\ DOMAIN frames[n].tasks = {}
  <2>1. n \in Nat \ {0} /\ DOMAIN frames = 1 .. n /\ Top = frames[n]
    BY TopFacts DEF IInv, Typed
  <2>2. frames[n].tasks = <<>>
    BY <2>1 DEF IInv, StackIsSound, FrameIsSound
  <2> QED
    BY <2>1, <2>2 DEF IInv, Typed
<1> HIDE DEF n
<1>2. ASSUME NEW g \in Frame, Pops(g)
      PROVE  SameTasks
  <2>1. /\ DOMAIN frames' = 1 .. n - 1 /\ n > 1
        /\ \A i \in 1 .. n - 1 :
             frames'[i] = IF i = n - 1 THEN g ELSE frames[i]
        /\ g.tasks = frames[n - 1].tasks
    BY <1>1, <1>2, PopFacts DEF Pops, n
  <2>2. \A i \in 1 .. n - 1 : frames'[i].tasks = frames[i].tasks
    BY <2>1
  <2>3. ASSUME NEW i, NEW k, NEW t
        PROVE  HasTask(i, k, t)' <=> HasTask(i, k, t)
    <3>1. CASE i \in 1 .. n - 1
      BY <1>1, <2>1, <2>2, <3>1 DEF HasTask
    <3>2. CASE i = n
      BY <1>1, <2>1, <3>2 DEF HasTask
    <3>3. CASE i \notin 1 .. n
      BY <1>1, <2>1, <3>3 DEF HasTask
    <3> QED
      BY <1>1, <2>1, <3>1, <3>2, <3>3
  <2> QED
    BY <2>3 DEF SameTasks
<1>3. CASE Empties
  <2>1. n = 1 /\ ~\E i, k, t : HasTask(i, k, t)
    BY <1>1, <1>3 DEF HasTask, Empties, n
  <2>2. \A i \in DOMAIN frames' : DOMAIN frames'[i].tasks = {}
    <3>1. NewFrame(UncaughtHandler).tasks = <<>>
      BY NewFrameIsSound, MethodAssumption DEF Method
    <3>2. CASE frames' = <<>>
      BY <3>2
    <3>3. CASE frames' = <<NewFrame(UncaughtHandler)>>
      <4> DEFINE h == NewFrame(UncaughtHandler)
      <4>1. frames' = <<h>> /\ h.tasks = <<>>
        BY <3>1, <3>3
      <4> HIDE DEF h
      <4>2. DOMAIN frames' = {1} /\ frames'[1] = h
        BY <4>1
      <4> QED
        BY <4>1, <4>2
    <3> QED
      BY <1>3, <3>2, <3>3 DEF Empties
  <2>3. ~\E i, k, t : HasTask(i, k, t)'
    BY <2>2 DEF HasTask
  <2> QED
    BY <2>1, <2>3 DEF SameTasks
<1> QED
  BY <1>2, <1>3

-----------------------------------------------------------------------------
(* Steps that add at most tasks to initialize a class. *)
GainsNoDebt ==
  /\ mStatus' = mStatus
  /\ \A i, k, t : HasTask(i, k, t) => HasTask(i, k, t)'
  /\ \A i, k, t : HasTask(i, k, t)' /\ t.do # "initialize" => HasTask(i, k, t)

LEMMA NoDebtKeepsTasksSound ==
  ASSUME TasksAreSound, GainsNoDebt
  PROVE  TasksAreSound'
<1>1. ASSUME NEW i, NEW k, NEW t, NEW c
      PROVE  HasTask(i, k, t)' /\ Owed(t, c) <=> HasTask(i, k, t) /\ Owed(t, c)
  BY DEF GainsNoDebt, Owed
<1>2. StatusFollowsTasks'
  BY <1>1 DEF TasksAreSound, StatusFollowsTasks, GainsNoDebt, Owed
<1>3. OwedOnce'
  <2> SUFFICES ASSUME NEW c \in Class,
                      NEW i \in Nat, NEW j \in Nat, NEW k \in Nat, NEW l \in Nat,
                      NEW t \in Task, NEW u \in Task,
                      HasTask(i, k, t)' /\ Owed(t, c),
                      HasTask(j, l, u)' /\ Owed(u, c)
               PROVE  i = j /\ k = l
    BY DEF OwedOnce, Owed
  <2> QED
    BY <1>1 DEF TasksAreSound, OwedOnce
<1>4. SupersFirst'
  <2> SUFFICES ASSUME NEW c \in Class, NEW i \in Nat, NEW k \in Nat, NEW t \in Task,
                      HasTask(i, k, t)' /\ Owed(t, c),
                      NEW s \in Range(Supers[c])
               PROVE  \/ mStatus'[s] # "prepared"
                      \/ \E l \in 1 .. k - 1 :
                           HasTask(i, l, [do |-> "initialize", class |-> s])'
    BY DEF SupersFirst, Owed
  <2>1. \/ mStatus[s] # "prepared"
        \/ \E l \in 1 .. k - 1 :
             HasTask(i, l, [do |-> "initialize", class |-> s])
    BY <1>1 DEF TasksAreSound, SupersFirst
  <2> QED
    BY <2>1 DEF GainsNoDebt
<1> QED
  BY <1>2, <1>3, <1>4 DEF TasksAreSound

(* The next task of the current frame is done with. *)
LEMMA NextTaskIsDone ==
  ASSUME IInv, TasksAreSound, NEW what, TopTask(what),
         NewTasks(Tail(Top.tasks)),
         \/ /\ what = "initialize" /\ mStatus[Target] # "prepared"
            /\ mStatus' = mStatus
         \/ /\ what = "finish"
            /\ mStatus' = [mStatus EXCEPT ![Target] = "initialized"]
  PROVE  TasksAreSound'
<1> DEFINE n == Len(frames)
           head == [do |-> what, class |-> Target]
<1>1. /\ n \in Nat /\ n \in DOMAIN frames /\ Top = frames[n] /\ Target \in Class
      /\ Top.tasks \in Seq(Task) /\ Len(Top.tasks) \in Nat \ {0}
      /\ DOMAIN Top.tasks = 1 .. Len(Top.tasks) /\ Top.tasks[1] = head
  BY CurrentTask, TopFacts DEF IInv, Typed
<1>2. head \in Task /\ head.do = what /\ head.class = Target
  BY <1>1 DEF Task
<1>3. mStatus \in [Class -> {"prepared", "under", "initialized"}]
  BY DEF IInv, Typed
<1>4. HasTask(n, 1, head)
  BY <1>1 DEF HasTask
<1>5. ASSUME NEW i, NEW k \in Nat, NEW t
      PROVE  HasTask(i, k, t)' <=>
               IF i = n THEN k >= 1 /\ HasTask(n, k + 1, t) ELSE HasTask(i, k, t)
  <2> DEFINE ts == Top.tasks
  <2>1. ts \in Seq(Task) /\ ts # <<>> /\ Len(ts) \in Nat \ {0}
    BY <1>1
  <2>2. k \in DOMAIN Tail(ts) <=> k >= 1 /\ k + 1 \in DOMAIN ts
    BY <2>1
  <2>3. k \in DOMAIN Tail(ts) => Tail(ts)[k] = ts[k + 1]
    BY <2>1
  <2> HIDE DEF ts
  <2>4. HasTask(n, k + 1, t) <=> k + 1 \in DOMAIN ts /\ ts[k + 1] = t
    BY <1>1 DEF HasTask, ts
  <2>5. NewTasks(Tail(ts))
    BY DEF ts
  <2> QED
    BY <2>2, <2>3, <2>4, <2>5 DEF NewTasks
<1> HIDE DEF n, head
<1>6. \A i, t : ~HasTask(i, 0, t)
  BY TaskPlaces
<1>7. ASSUME NEW i \in Nat, NEW k \in Nat, NEW t, HasTask(i, k, t)
      PROVE  (i = n /\ k = 1 /\ t = head) \/ \E l \in Nat : HasTask(i, l, t)'
  <2>1. CASE i # n
    BY <1>5, <1>7, <2>1
  <2>2. CASE i = n
    <3>1. k # 0
      BY <1>6, <1>7
    <3>2. CASE k = 1
      BY <1>4, <1>7, <2>2, <3>2 DEF HasTask
    <3>3. CASE k # 1
      <4>1. k - 1 \in Nat /\ k - 1 >= 1 /\ (k - 1) + 1 = k
        BY <3>1, <3>3
      <4>2. HasTask(i, k - 1, t)'
        BY <1>5, <1>7, <2>2, <4>1
      <4> QED
        BY <4>1, <4>2
    <3> QED
      BY <3>2, <3>3
  <2> QED
    BY <2>1, <2>2
<1>8. ASSUME NEW i \in Nat, NEW k \in Nat, NEW t, HasTask(i, k, t)'
      PROVE  \/ i = n /\ HasTask(i, k + 1, t) /\ k >= 1
             \/ i # n /\ HasTask(i, k, t)
  <2>1. HasTask(i, k, t)' <=>
          IF i = n THEN k >= 1 /\ HasTask(n, k + 1, t) ELSE HasTask(i, k, t)
    BY <1>5
  <2> QED
    BY <1>8, <2>1
<1>9. ASSUME NEW c \in Class
      PROVE  mStatus'[c] = IF what = "finish" /\ c = Target THEN "initialized"
                           ELSE mStatus[c]
  BY <1>1, <1>3
<1>10. what = "finish" =>
         \A i, k \in Nat, t \in Task :
           HasTask(i, k, t) /\ Owed(t, Target) => i = n /\ k = 1
  <2> SUFFICES ASSUME what = "finish", NEW i \in Nat, NEW k \in Nat,
                      NEW t \in Task, HasTask(i, k, t), Owed(t, Target)
               PROVE  i = n /\ k = 1
    OBVIOUS
  <2>1. Owed(head, Target)
    BY <1>2 DEF Owed
  <2> QED
    BY <1>1, <1>2, <1>4, <2>1 DEF TasksAreSound, OwedOnce
<1>11. StatusFollowsTasks'
  <2> SUFFICES ASSUME NEW c \in Class
               PROVE  mStatus'[c] = "under" <=>
                        \E i \in Nat, k \in Nat, t \in Task :
                          HasTask(i, k, t)' /\ Owed(t, c)
    BY DEF StatusFollowsTasks, Owed
  <2>1. mStatus[c] = "under" <=>
          \E i \in Nat, k \in Nat, t \in Task : HasTask(i, k, t) /\ Owed(t, c)
    BY DEF TasksAreSound, StatusFollowsTasks
  <2>2. CASE what = "finish" /\ c = Target
    <3>1. mStatus'[c] # "under"
      BY <1>9, <2>2
    <3>2. ASSUME NEW i \in Nat, NEW k \in Nat, NEW t \in Task,
                 HasTask(i, k, t)', Owed(t, c)
          PROVE  FALSE
      BY <1>8, <1>10, <2>2, <3>2
    <3> QED
      BY <3>1, <3>2
  <2>3. CASE ~(what = "finish" /\ c = Target)
    <3>1. ~Owed(head, c)
      BY <1>2, <2>3 DEF Owed
    <3>2. \A i, k \in Nat, t \in Task : HasTask(i, k, t) /\ Owed(t, c) =>
            \E l \in Nat : HasTask(i, l, t)' /\ Owed(t, c)
      BY <1>7, <3>1
    <3>3. \A i, k \in Nat, t \in Task : HasTask(i, k, t)' /\ Owed(t, c) =>
            \E l \in Nat : HasTask(i, l, t) /\ Owed(t, c)
      BY <1>8
    <3>4. mStatus'[c] = mStatus[c]
      BY <1>9, <2>3
    <3> QED
      BY <2>1, <3>2, <3>3, <3>4
  <2> QED
    BY <2>2, <2>3
<1>12. OwedOnce'
  <2> SUFFICES ASSUME NEW c \in Class,
                      NEW i \in Nat, NEW j \in Nat, NEW k \in Nat, NEW l \in Nat,
                      NEW t \in Task, NEW u \in Task,
                      HasTask(i, k, t)' /\ Owed(t, c),
                      HasTask(j, l, u)' /\ Owed(u, c)
               PROVE  i = j /\ k = l
    BY DEF OwedOnce, Owed
  <2>1. PICK p \in Nat : /\ HasTask(i, p, t) /\ p = IF i = n THEN k + 1 ELSE k
    BY <1>8
  <2>2. PICK q \in Nat : /\ HasTask(j, q, u) /\ q = IF j = n THEN l + 1 ELSE l
    BY <1>8
  <2>3. i = j /\ p = q
    BY <2>1, <2>2 DEF TasksAreSound, OwedOnce
  <2> QED
    BY <2>1, <2>2, <2>3
<1>13. SupersFirst'
  <2> SUFFICES ASSUME NEW c \in Class, NEW i \in Nat, NEW k \in Nat, NEW t \in Task,
                      HasTask(i, k, t)' /\ Owed(t, c),
                      NEW s \in Range(Supers[c])
               PROVE  \/ mStatus'[s] # "prepared"
                      \/ \E l \in 1 .. k - 1 :
                           HasTask(i, l, [do |-> "initialize", class |-> s])'
    BY DEF SupersFirst, Owed
  <2> DEFINE first == [do |-> "initialize", class |-> s]
  <2>1. s \in Class
    BY ClassAssumption DEF Range
  <2>2. PICK p \in Nat : HasTask(i, p, t) /\ p = IF i = n THEN k + 1 ELSE k
    BY <1>8
  <2>3. \/ mStatus[s] # "prepared"
        \/ \E l \in 1 .. p - 1 : HasTask(i, l, first)
    BY <2>2 DEF TasksAreSound, SupersFirst
  <2> HIDE DEF first
  <2>4. CASE mStatus[s] # "prepared"
    BY <1>9, <2>1, <2>4
  <2>5. ASSUME NEW l \in 1 .. p - 1, HasTask(i, l, first), mStatus[s] = "prepared"
        PROVE  \E m \in 1 .. k - 1 : HasTask(i, m, first)'
    <3>1. CASE i # n
      BY <1>5, <2>2, <2>5, <3>1
    <3>2. CASE i = n
      <4>1. l # 1
        <5>1. l = 1 => first = head
          BY <1>4, <2>5, <3>2 DEF HasTask
        <5>2. first = head => what = "initialize" /\ s = Target
          BY <1>2 DEF first
        <5> QED
          BY <2>5, <5>1, <5>2
      <4>2. l - 1 \in 1 .. k - 1 /\ l - 1 \in Nat /\ (l - 1) + 1 = l
        BY <2>2, <3>2, <4>1
      <4>3. HasTask(i, l - 1, first)'
        BY <1>5, <2>5, <3>2, <4>2
      <4> QED
        BY <4>2, <4>3
    <3> QED
      BY <3>1, <3>2
  <2> QED
    BY <2>3, <2>4, <2>5 DEF first
<1> QED
  BY <1>11, <1>12, <1>13 DEF TasksAreSound

(* RunInitializer: the class is to be finished instead of run. *)
LEMMA RunBecomesFinish ==
  ASSUME IInv, TasksAreSound, TopTask("run"), mStatus' = mStatus,
         NewTasks(<<[do |-> "finish", class |-> Target]>> \o Tail(Top.tasks))
  PROVE  TasksAreSound'
<1> DEFINE n == Len(frames)
           run == [do |-> "run", class |-> Target]
           finish == [do |-> "finish", class |-> Target]
           ts == <<finish>> \o Tail(Top.tasks)
<1>1. /\ n \in Nat /\ n \in DOMAIN frames /\ Top = frames[n] /\ Target \in Class
      /\ Top.tasks \in Seq(Task) /\ Len(Top.tasks) \in Nat \ {0}
      /\ DOMAIN Top.tasks = 1 .. Len(Top.tasks) /\ Top.tasks[1] = run
  BY CurrentTask, TopFacts DEF IInv, Typed
<1>2. /\ run \in Task /\ finish \in Task
      /\ run.class = Target /\ finish.class = Target
      /\ run.do = "run" /\ finish.do = "finish"
  BY <1>1 DEF Task
<1> HIDE DEF run, finish
<1>3. HasTask(n, 1, run)
  BY <1>1 DEF HasTask
<1>4. /\ DOMAIN ts = DOMAIN Top.tasks /\ ts[1] = finish
      /\ \A k \in DOMAIN ts : k # 1 => ts[k] = Top.tasks[k]
  <2> DEFINE rest == Tail(Top.tasks)
  <2>1. /\ rest \in Seq(Task) /\ Len(rest) = Len(Top.tasks) - 1
        /\ \A k \in 1 .. Len(rest) : rest[k] = Top.tasks[k + 1]
    <3> DEFINE old == Top.tasks
    <3>1. old \in Seq(Task) /\ old # <<>>
      BY <1>1
    <3> HIDE DEF old
    <3>2. /\ Tail(old) \in Seq(Task) /\ Len(Tail(old)) = Len(old) - 1
          /\ \A k \in 1 .. Len(Tail(old)) : Tail(old)[k] = old[k + 1]
      BY <3>1
    <3> QED
      BY <3>2 DEF old
  <2>2. ts = <<finish>> \o rest
    OBVIOUS
  <2> HIDE DEF ts, rest
  <2>3. /\ ts \in Seq(Task) /\ Len(ts) = Len(rest) + 1 /\ ts[1] = finish
        /\ \A k \in 1 .. Len(rest) : ts[k + 1] = rest[k]
    BY <1>2, <2>1, <2>2, FirstOfList
  <2>4. DOMAIN ts = 1 .. Len(Top.tasks)
    BY <1>1, <2>1, <2>3
  <2>5. ASSUME NEW k \in DOMAIN ts, k # 1
        PROVE  ts[k] = Top.tasks[k]
    <3>1. k - 1 \in 1 .. Len(rest) /\ (k - 1) + 1 = k
      BY <1>1, <2>1, <2>4, <2>5
    <3> QED
      BY <2>1, <2>3, <3>1
  <2> QED
    BY <1>1, <2>3, <2>4, <2>5
<1>5. NewTasks(ts)
  BY DEF finish
<1> HIDE DEF ts
<1>6. ASSUME NEW i, NEW k, NEW t
      PROVE  HasTask(i, k, t)' <=> IF i = n /\ k = 1 THEN t = finish
                                   ELSE HasTask(i, k, t)
  <2>1. HasTask(n, k, t) <=> k \in DOMAIN Top.tasks /\ Top.tasks[k] = t
    BY <1>1 DEF HasTask
  <2>2. 1 \in DOMAIN Top.tasks
    BY <1>1
  <2> QED
    BY <1>4, <1>5, <2>1, <2>2 DEF NewTasks
<1> HIDE DEF n
(* What is owed is owed at the same place as before. *)
<1>7. ASSUME NEW i, NEW k, NEW t \in Task, NEW c, HasTask(i, k, t)', Owed(t, c)
      PROVE  \E u \in Task : HasTask(i, k, u) /\ Owed(u, c)
  BY <1>2, <1>3, <1>6, <1>7 DEF Owed
<1>8. ASSUME NEW i, NEW k, NEW t \in Task, NEW c, HasTask(i, k, t), Owed(t, c)
      PROVE  \E u \in Task : HasTask(i, k, u)' /\ Owed(u, c)
  <2>1. CASE i = n /\ k = 1
    <3>1. t = run
      BY <1>3, <1>8, <2>1 DEF HasTask
    <3> QED
      BY <1>2, <1>6, <1>8, <2>1, <3>1 DEF Owed
  <2>2. CASE ~(i = n /\ k = 1)
    BY <1>6, <1>8, <2>2
  <2> QED
    BY <2>1, <2>2
<1>9. StatusFollowsTasks'
  <2> SUFFICES ASSUME NEW c \in Class
               PROVE  mStatus'[c] = "under" <=>
                        \E i \in Nat, k \in Nat, t \in Task :
                          HasTask(i, k, t)' /\ Owed(t, c)
    BY DEF StatusFollowsTasks, Owed
  <2>1. mStatus[c] = "under" <=>
          \E i \in Nat, k \in Nat, t \in Task : HasTask(i, k, t) /\ Owed(t, c)
    BY DEF TasksAreSound, StatusFollowsTasks
  <2> QED
    BY <1>7, <1>8, <2>1
<1>10. OwedOnce'
  <2> SUFFICES ASSUME NEW c \in Class,
                      NEW i \in Nat, NEW j \in Nat, NEW k \in Nat, NEW l \in Nat,
                      NEW t \in Task, NEW u \in Task,
                      HasTask(i, k, t)' /\ Owed(t, c),
                      HasTask(j, l, u)' /\ Owed(u, c)
               PROVE  i = j /\ k = l
    BY DEF OwedOnce, Owed
  <2>1. PICK v \in Task : HasTask(i, k, v) /\ Owed(v, c)
    BY <1>7
  <2>2. PICK w \in Task : HasTask(j, l, w) /\ Owed(w, c)
    BY <1>7
  <2> QED
    BY <2>1, <2>2 DEF TasksAreSound, OwedOnce
<1>11. SupersFirst'
  <2> SUFFICES ASSUME NEW c \in Class, NEW i \in Nat, NEW k \in Nat, NEW t \in Task,
                      HasTask(i, k, t)' /\ Owed(t, c),
                      NEW s \in Range(Supers[c])
               PROVE  \/ mStatus'[s] # "prepared"
                      \/ \E l \in 1 .. k - 1 :
                           HasTask(i, l, [do |-> "initialize", class |-> s])'
    BY DEF SupersFirst, Owed
  <2> DEFINE first == [do |-> "initialize", class |-> s]
  <2>1. first # run
    BY DEF run
  <2> HIDE DEF first
  <2>2. PICK u \in Task : HasTask(i, k, u) /\ Owed(u, c)
    BY <1>7
  <2>3. \/ mStatus[s] # "prepared"
        \/ \E l \in 1 .. k - 1 : HasTask(i, l, first)
    BY <2>2 DEF TasksAreSound, SupersFirst, first
  <2>4. ASSUME NEW l \in 1 .. k - 1, HasTask(i, l, first)
        PROVE  HasTask(i, l, first)'
    <3>1. ~(i = n /\ l = 1)
      BY <1>3, <2>1, <2>4 DEF HasTask
    <3> QED
      BY <1>6, <2>4, <3>1
  <2> QED
    BY <2>3, <2>4 DEF first
<1> QED
  BY <1>9, <1>10, <1>11 DEF TasksAreSound

IsConcatenation(t, s, m, u, n) ==
  /\ t \in Seq(Task) /\ Len(t) = m + n
  /\ \A k \in 1 .. m : t[k] = s[k]
  /\ \A k \in 1 .. n : t[m + k] = u[k]

LEMMA Concatenation ==
  ASSUME NEW s \in Seq(Task), NEW u \in Seq(Task),
         NEW m \in Nat, m = Len(s), NEW n \in Nat, n = Len(u)
  PROVE  IsConcatenation(s \o u, s, m, u, n)
<1>1. s \o u \in Seq(Task) /\ Len(s \o u) = m + n
  OBVIOUS
<1>2. \A k \in 1 .. m : (s \o u)[k] = s[k]
  OBVIOUS
<1>3. ASSUME NEW k \in 1 .. n
      PROVE  (s \o u)[m + k] = u[k]
  <2>1. m + k \in 1 .. m + n /\ m + k > m /\ (m + k) - m = k
    OBVIOUS
  <2>2. (s \o u)[m + k] = u[(m + k) - m]
    BY <2>1
  <2> QED
    BY <2>1, <2>2
<1> QED
  BY <1>1, <1>2, <1>3 DEF IsConcatenation

LEMMA Sums ==
  ASSUME NEW m \in Nat, NEW len \in Nat \ {0}
  PROVE  /\ m + 1 \in Nat /\ m + 1 \in 1 .. m + len
         /\ \A k \in 1 .. m : k \in 1 .. m + len /\ k \in 1 .. (m + 1) - 1
         /\ \A k \in 2 .. len : m + k \in Nat /\ m + k \in 1 .. m + len
OBVIOUS

LEMMA Differences ==
  ASSUME NEW m \in Nat, NEW len \in Nat \ {0}, NEW k \in 1 .. m + len
  PROVE  \/ k \in 1 .. m
         \/ k = m + 1
         \/ k - m \in 2 .. len /\ k = m + (k - m)
OBVIOUS

Starting(c) == [do |-> "initialize", class |-> c]
Running(c) == [do |-> "run", class |-> c]

(* The tasks of an initialization, in their order. *)
IsBegun(ts, c, m, old, len) ==
  /\ DOMAIN ts = 1 .. m + len
  /\ \A k \in 1 .. m : ts[k] = Starting(Supers[c][k])
  /\ ts[m + 1] = Running(c)
  /\ \A k \in 2 .. len : ts[m + k] = old[k]

LEMMA BegunFacts ==
  ASSUME NEW c \in Class, NEW old \in Seq(Task),
         NEW m \in Nat, m = Len(Supers[c]),
         NEW len \in Nat \ {0}, len = Len(old)
  PROVE  IsBegun(Begun(c, Tail(old)), c, m, old, len)
<1> DEFINE first == [i \in DOMAIN Supers[c] |->
                       [do |-> "initialize", class |-> Supers[c][i]]]
           run == [do |-> "run", class |-> c]
           rest == Tail(old)
           second == <<run>> \o rest
           ts == Begun(c, rest)
<1>1. DOMAIN Supers[c] = 1 .. m
  BY ClassAssumption
<1>2. /\ first \in Seq(Task) /\ Len(first) = m
      /\ \A k \in 1 .. m :
           first[k] = [do |-> "initialize", class |-> Supers[c][k]]
  <2>1. first \in Seq(Task)
    BY TasksAreTyped, <<>> \in Seq(Task)
  <2>2. DOMAIN first = 1 .. m
    BY <1>1
  <2>3. \A k \in 1 .. m : first[k] = [do |-> "initialize", class |-> Supers[c][k]]
    BY <1>1
  <2> HIDE DEF first
  <2> QED
    BY <2>1, <2>2, <2>3
<1>3. /\ rest \in Seq(Task) /\ Len(rest) = len - 1
      /\ \A k \in 1 .. len - 1 : rest[k] = old[k + 1]
  <2>1. old # <<>>
    OBVIOUS
  <2> QED
    BY <2>1
<1>4. run \in Task
  BY TaskIsTyped
<1> HIDE DEF first, run, rest
<1>5. /\ second \in Seq(Task) /\ Len(second) = len /\ second[1] = run
      /\ \A k \in 1 .. Len(rest) : second[k + 1] = rest[k]
  <2>1. Len(second) = Len(rest) + 1
    BY <1>3, <1>4, FirstOfList
  <2>2. Len(rest) + 1 = len
    BY <1>3
  <2> QED
    BY <1>3, <1>4, <2>1, <2>2, FirstOfList
<1>6. ts = first \o second
  <2>1. ts = first \o <<run>> \o rest
    BY DEF Begun, first, run
  <2>2. <<run>> \in Seq(Task)
    BY <1>4
  <2> DEFINE one == <<run>>
  <2> HIDE DEF one, ts
  <2>3. (first \o one) \o rest = first \o (one \o rest)
    BY <1>2, <1>3, <2>2 DEF one
  <2> QED
    BY <2>1, <2>3 DEF one
<1> HIDE DEF second, ts
<1>7. /\ ts \in Seq(Task) /\ Len(ts) = m + len
      /\ \A k \in 1 .. m : ts[k] = first[k]
      /\ \A k \in 1 .. len : ts[m + k] = second[k]
  <2> PICK u \in Seq(Task) : u = second
    BY <1>5
  <2> PICK v \in Seq(Task) : v = first
    BY <1>2
  <2>1. Len(u) = len /\ Len(v) = m
    BY <1>2, <1>5
  <2>2. IsConcatenation(v \o u, v, m, u, len)
    BY <2>1, Concatenation
  <2>3. ts = v \o u
    BY <1>6
  <2> QED
    BY <2>2, <2>3 DEF IsConcatenation
<1>8. ASSUME NEW k \in 2 .. len
      PROVE  ts[m + k] = old[k]
  <2>1. /\ k - 1 \in 1 .. len - 1 /\ (k - 1) + 1 = k /\ k \in 1 .. len
        /\ k - 1 \in 1 .. Len(rest)
    BY <1>3
  <2>2. ts[m + k] = second[k]
    BY <1>7, <2>1
  <2>3. second[(k - 1) + 1] = rest[k - 1]
    BY <1>5, <2>1
  <2>4. rest[k - 1] = old[(k - 1) + 1]
    BY <1>3, <2>1
  <2> QED
    BY <2>1, <2>2, <2>3, <2>4
<1>9. ts[m + 1] = run
  BY <1>5, <1>7
<1>10. DOMAIN ts = 1 .. m + len
  BY <1>7
<1> QED
  BY <1>2, <1>7, <1>8, <1>9, <1>10 DEF run, ts, rest, IsBegun, Starting, Running

(* The current frame, which is about to initialize c, runs c's initializer *)
(* after it has initialized the m classes that c needs.                    *)
Begins(n, c, m) ==
  /\ HasTask(n, 1, Starting(c))
  /\ \A i, k, t : i # n => (HasTask(i, k, t)' <=> HasTask(i, k, t))
  /\ \A k \in 1 .. m : HasTask(n, k, Starting(Supers[c][k]))'
  /\ HasTask(n, m + 1, Running(c))'
  /\ \A k \in Nat : \A t :
       HasTask(n, k, t) /\ k # 1 => HasTask(n, m + k, t)' /\ m + k \in Nat
  /\ \A k \in Nat : \A t : HasTask(n, k, t)' =>
       \/ k \in 1 .. m /\ t = Starting(Supers[c][k])
       \/ k = m + 1 /\ t = Running(c)
       \/ k - m \in Nat /\ k - m >= 2 /\ HasTask(n, k - m, t)

LEMMA BeginsFacts ==
  ASSUME IInv, TopTask("initialize"), NewTasks(Begun(Target, Tail(Top.tasks))),
         NEW n \in Nat, n = Len(frames), NEW c \in Class, c = Target,
         NEW m \in Nat, m = Len(Supers[c])
  PROVE  Begins(n, c, m)
<1> PICK old \in Seq(Task) : old = Top.tasks
  BY CurrentTask
<1> PICK len \in Nat \ {0} : len = Len(old)
  BY CurrentTask
<1> PICK ts : ts = Begun(c, Tail(old))
  OBVIOUS
<1>1. /\ n \in DOMAIN frames /\ old = frames[n].tasks
      /\ DOMAIN old = 1 .. len /\ old[1] = Starting(c)
  BY CurrentTask, TopFacts DEF IInv, Typed, Starting
<1>2. /\ DOMAIN ts = 1 .. m + len
      /\ \A k \in 1 .. m : ts[k] = Starting(Supers[c][k])
      /\ ts[m + 1] = Running(c)
      /\ \A k \in 2 .. len : ts[m + k] = old[k]
  <2>1. IsBegun(ts, c, m, old, len)
    BY BegunFacts
  <2> QED
    BY <2>1 DEF IsBegun
<1>3. \A k, t : HasTask(n, k, t) <=> k \in 1 .. len /\ old[k] = t
  BY <1>1 DEF HasTask
<1>4. \A i, k, t : HasTask(i, k, t)' <=>
         \/ i = n /\ k \in DOMAIN ts /\ ts[k] = t
         \/ i # n /\ HasTask(i, k, t)
  BY DEF NewTasks
<1>5. \A k, t : HasTask(n, k, t)' <=> k \in 1 .. m + len /\ ts[k] = t
  BY <1>2, <1>4
<1>6. \A i, k, t : i # n => (HasTask(i, k, t)' <=> HasTask(i, k, t))
  BY <1>4
<1>7. ASSUME NEW k \in Nat, NEW t, HasTask(n, k, t), k # 1
      PROVE  HasTask(n, m + k, t)' /\ m + k \in Nat
  <2>1. k \in 2 .. len /\ old[k] = t
    BY <1>3, <1>7
  <2>2. m + k \in 1 .. m + len /\ m + k \in Nat
    BY <2>1, Sums
  <2>3. ts[m + k] = t
    BY <1>2, <2>1
  <2> QED
    BY <1>5, <2>2, <2>3
<1>8. ASSUME NEW k \in Nat, NEW t, HasTask(n, k, t)'
      PROVE  \/ k \in 1 .. m /\ t = Starting(Supers[c][k])
             \/ k = m + 1 /\ t = Running(c)
             \/ k - m \in Nat /\ k - m >= 2 /\ HasTask(n, k - m, t)
  <2>1. k \in 1 .. m + len /\ ts[k] = t
    BY <1>5, <1>8
  <2>2. \/ k \in 1 .. m
        \/ k = m + 1
        \/ k - m \in 2 .. len /\ k = m + (k - m)
    BY <2>1, Differences
  <2>3. CASE k - m \in 2 .. len /\ k = m + (k - m)
    <3> PICK j \in 2 .. len : j = k - m /\ k = m + j
      BY <2>3
    <3>1. j \in Nat /\ j >= 2 /\ j \in 1 .. len
      OBVIOUS
    <3>2. old[j] = t
      BY <1>2, <2>1
    <3>3. HasTask(n, j, t)
      BY <1>3, <3>1, <3>2
    <3> QED
      BY <3>1, <3>3
  <2> QED
    BY <1>2, <2>1, <2>2, <2>3
<1>9. HasTask(n, m + 1, Running(c))'
  BY <1>2, <1>5, Sums
<1>10. \A k \in 1 .. m : HasTask(n, k, Starting(Supers[c][k]))'
  BY <1>2, <1>5, Sums
<1>11. HasTask(n, 1, Starting(c))
  BY <1>1, <1>3
<1> QED
  BY <1>6, <1>7, <1>8, <1>9, <1>10, <1>11 DEF Begins

(* Initialize: the class is under initialization from here on. *)
LEMMA InitializationBegins ==
  ASSUME TasksAreSound, mStatus \in [Class -> {"prepared", "under", "initialized"}],
         NEW n \in Nat, NEW c \in Class, NEW m \in Nat, Begins(n, c, m),
         DOMAIN Supers[c] = 1 .. m, mStatus[c] = "prepared",
         mStatus' = [mStatus EXCEPT ![c] = "under"]
  PROVE  TasksAreSound'
<1>1. \A d \in Class : mStatus'[d] = IF d = c THEN "under" ELSE mStatus[d]
  OBVIOUS
<1>2. \A d, e : ~Owed(Starting(d), e)
  BY DEF Owed, Starting
<1>3. \A e : Owed(Running(c), e) <=> e = c
  BY DEF Owed, Running
<1>4. \A i, k \in Nat, t \in Task : ~(HasTask(i, k, t) /\ Owed(t, c))
  BY DEF TasksAreSound, StatusFollowsTasks
<1>5. ASSUME NEW d \in Class, NEW i \in Nat, NEW k \in Nat, NEW t \in Task,
             HasTask(i, k, t)', Owed(t, d)
      PROVE  \/ d = c /\ i = n /\ k = m + 1
             \/ d # c /\ i = n /\ k - m \in Nat /\ HasTask(n, k - m, t)
             \/ d # c /\ i # n /\ HasTask(i, k, t)
  <2>1. CASE i = n
    BY <1>2, <1>3, <1>4, <1>5, <2>1 DEF Begins
  <2>2. CASE i # n
    BY <1>4, <1>5, <2>2 DEF Begins
  <2> QED
    BY <2>1, <2>2
<1>6. ASSUME NEW d \in Class, NEW i \in Nat, NEW k \in Nat, NEW t \in Task,
             HasTask(i, k, t), Owed(t, d)
      PROVE  \E l \in Nat : HasTask(i, l, t)'
  <2>1. CASE i # n
    BY <1>6, <2>1 DEF Begins
  <2>2. CASE i = n
    <3>1. k # 1
      BY <1>2, <1>6, <2>2 DEF Begins, HasTask
    <3> QED
      BY <1>6, <2>2, <3>1 DEF Begins
  <2> QED
    BY <2>1, <2>2
<1>7. StatusFollowsTasks'
  <2> SUFFICES ASSUME NEW d \in Class
               PROVE  mStatus'[d] = "under" <=>
                        \E i \in Nat, k \in Nat, t \in Task :
                          HasTask(i, k, t)' /\ Owed(t, d)
    BY DEF StatusFollowsTasks, Owed
  <2>1. mStatus[d] = "under" <=>
          \E i \in Nat, k \in Nat, t \in Task : HasTask(i, k, t) /\ Owed(t, d)
    BY DEF TasksAreSound, StatusFollowsTasks
  <2>2. CASE d = c
    <3>1. m + 1 \in Nat
      BY Sums
    <3>2. Running(c) \in Task
      BY TaskIsTyped DEF Running
    <3>3. HasTask(n, m + 1, Running(c))' /\ Owed(Running(c), c)
      BY <1>3 DEF Begins
    <3>4. mStatus'[d] = "under"
      BY <1>1, <2>2
    <3> QED
      BY <2>2, <3>1, <3>2, <3>3, <3>4
  <2>3. CASE d # c
    <3>1. mStatus'[d] = mStatus[d]
      BY <1>1, <2>3
    <3> QED
      BY <1>5, <1>6, <2>1, <2>3, <3>1
  <2> QED
    BY <2>2, <2>3
<1>8. OwedOnce'
  <2> SUFFICES ASSUME NEW d \in Class,
                      NEW i \in Nat, NEW j \in Nat, NEW k \in Nat, NEW l \in Nat,
                      NEW t \in Task, NEW u \in Task,
                      HasTask(i, k, t)', Owed(t, d),
                      HasTask(j, l, u)', Owed(u, d)
               PROVE  i = j /\ k = l
    BY DEF OwedOnce, Owed
  <2>1. CASE d = c
    BY <1>5, <2>1
  <2>2. CASE d # c
    <3>1. PICK p \in Nat : HasTask(i, p, t) /\ p = IF i = n THEN k - m ELSE k
      BY <1>5, <2>2
    <3>2. PICK q \in Nat : HasTask(j, q, u) /\ q = IF j = n THEN l - m ELSE l
      BY <1>5, <2>2
    <3>3. i = j /\ p = q
      BY <3>1, <3>2 DEF TasksAreSound, OwedOnce
    <3> QED
      BY <3>1, <3>2, <3>3
  <2> QED
    BY <2>1, <2>2
<1>9. SupersFirst'
  <2> SUFFICES ASSUME NEW d \in Class, NEW i \in Nat, NEW k \in Nat, NEW t \in Task,
                      HasTask(i, k, t)', Owed(t, d),
                      NEW s \in Range(Supers[d])
               PROVE  \/ mStatus'[s] # "prepared"
                      \/ \E l \in 1 .. k - 1 : HasTask(i, l, Starting(s))'
    BY DEF SupersFirst, Owed, Starting
  <2>1. s \in Class
    <3> PICK x \in Seq(Class) : x = Supers[d]
      BY ClassAssumption
    <3>1. PICK j \in DOMAIN x : s = x[j]
      BY DEF Range
    <3> QED
      BY <3>1
  <2>2. mStatus[s] # "prepared" => mStatus'[s] # "prepared"
    BY <1>1, <2>1
  <2>3. CASE d = c
    <3>1. i = n /\ k = m + 1
      BY <1>5, <2>3
    <3>2. PICK j \in 1 .. m : Supers[c][j] = s
      BY <2>3 DEF Range
    <3>3. HasTask(n, j, Starting(s))'
      BY <3>2 DEF Begins
    <3>4. j \in 1 .. k - 1
      BY <3>1, Sums
    <3> QED
      BY <3>1, <3>3, <3>4
  <2>4. CASE d # c
    <3>1. PICK p \in Nat : HasTask(i, p, t) /\ p = IF i = n THEN k - m ELSE k
      BY <1>5, <2>4
    <3>2. \/ mStatus[s] # "prepared"
          \/ \E l \in 1 .. p - 1 : HasTask(i, l, Starting(s))
      BY <3>1 DEF TasksAreSound, SupersFirst, Starting
    <3>3. ASSUME NEW l \in 1 .. p - 1, HasTask(i, l, Starting(s))
          PROVE  \/ mStatus'[s] # "prepared"
                 \/ \E j \in 1 .. k - 1 : HasTask(i, j, Starting(s))'
      <4>1. CASE i # n
        BY <3>1, <3>3, <4>1 DEF Begins
      <4>2. CASE i = n /\ l = 1
        <5>1. Starting(s) = Starting(c)
          BY <3>3, <4>2 DEF Begins, HasTask
        <5>2. s = c
          BY <5>1 DEF Starting
        <5> QED
          BY <1>1, <5>2
      <4>3. CASE i = n /\ l # 1
        <5>1. HasTask(n, m + l, Starting(s))'
          BY <3>3, <4>3 DEF Begins
        <5>2. m + l \in 1 .. k - 1
          BY <3>1, <4>3
        <5> QED
          BY <4>3, <5>1, <5>2
      <4> QED
        BY <4>1, <4>2, <4>3
    <3> QED
      BY <2>2, <3>2, <3>3
  <2> QED
    BY <2>3, <2>4
<1> QED
  BY <1>7, <1>8, <1>9 DEF TasksAreSound

-----------------------------------------------------------------------------
(* Every step keeps the tasks sound.                                       *)

LEMMA SameTasksStaySound ==
  ASSUME TasksAreSound, mStatus' = mStatus, SameTasks
  PROVE  TasksAreSound'
BY NoDebtKeepsTasksSound DEF GainsNoDebt, SameTasks

LEMMA SameFramesStaySound ==
  ASSUME TasksAreSound, mStatus' = mStatus, frames' = frames
  PROVE  TasksAreSound'
<1>1. SameTasks
  BY DEF SameTasks, HasTask
<1> QED
  BY <1>1, SameTasksStaySound

LEMMA CurrentTasks ==
  ASSUME IInv, frames # <<>>, NEW k, NEW t
  PROVE  HasTask(Len(frames), k, t) <=> k \in DOMAIN Top.tasks /\ Top.tasks[k] = t
BY TopFacts DEF HasTask, IInv, Typed

(* The current frame changes, and a method may be called. *)
LEMMA GoingOnKeepsTasks ==
  ASSUME IInv, TasksAreSound, frames # <<>>, mStatus' = mStatus,
         NEW g \in Frame, g.tasks = Top.tasks,
         Moves(g) \/ \E m \in Method : Pushes(g, m)
  PROVE  TasksAreSound'
<1>1. NewTasks(Top.tasks)
  BY MoveTasks, PushTasks
<1>2. SameTasks
  BY <1>1, CurrentTasks DEF NewTasks, SameTasks
<1> QED
  BY <1>2, SameTasksStaySound

LEMMA AccessKeepsTasks ==
  ASSUME IInv, TasksAreSound, frames # <<>>, mStatus' = mStatus, NEW c,
         Top.tasks = <<>>, NEW g \in Frame, Moves(g),
         g.tasks = <<[do |-> "initialize", class |-> c]>>
  PROVE  TasksAreSound'
<1> DEFINE t == [do |-> "initialize", class |-> c]
<1>1. t.do = "initialize"
  OBVIOUS
<1> HIDE DEF t
<1>2. NewTasks(<<t>>)
  BY MoveTasks DEF t
<1>3. \A k, u : ~HasTask(Len(frames), k, u)
  BY CurrentTasks
<1>4. DOMAIN <<t>> = {1} /\ <<t>>[1] = t
  OBVIOUS
<1>5. GainsNoDebt
  BY <1>1, <1>2, <1>3, <1>4 DEF NewTasks, GainsNoDebt
<1> QED
  BY <1>5, NoDebtKeepsTasksSound

LEMMA LeavingKeepsTasks ==
  ASSUME IInv, TasksAreSound, frames # <<>>, Top.at # "init",
         NEW v \in BOOLEAN, LeaveFrame(v)
  PROVE  TasksAreSound'
<1>1. (\E g \in Frame : Pops(g)) \/ Empties
  BY LeaveFrameStep DEF Empties
<1>2. mStatus' = mStatus
  BY DEF LeaveFrame
<1> QED
  BY <1>1, <1>2, LeaveTasks, SameTasksStaySound

LEMMA ThrowingKeepsTasks ==
  ASSUME IInv, TasksAreSound, NEW place, Throws(place), mStatus' = mStatus
  PROVE  TasksAreSound'
<1>1. CASE frames' = frames
  BY <1>1, SameFramesStaySound
<1>2. CASE \E g \in Frame : Moves(g) /\ g.tasks = Top.tasks
  BY <1>2, GoingOnKeepsTasks DEF Moves
<1> QED
  BY <1>1, <1>2 DEF Throws

LEMMA InterpretKeepsTasks ==
  ASSUME IInv, TasksAreSound, Interpret
  PROVE  TasksAreSound'
<1>1. mStatus' = mStatus
  BY DEF Interpret, Compute, InvokeMethod, BeginAccess, ThrowNew,
         NewOfMissingClass, AThrow, Return, LeaveFrame
<1>2. CASE Compute
  BY <1>1, <1>2, ComputeStep, GoingOnKeepsTasks DEF Moves
<1>3. ASSUME NEW m \in Callable, InvokeMethod(m)
      PROVE  TasksAreSound'
  <2>1. At("run")
    BY <1>3 DEF InvokeMethod
  <2>2. frames # <<>> /\ Top.tasks = <<>> /\ m \in Method
    BY <2>1, CurrentFrame DEF FrameIsSound, Callable
  <2> QED
    BY <1>1, <1>3, <2>2, InvokeMethodStep, SameFramesStaySound, GoingOnKeepsTasks
<1>4. ASSUME NEW c \in Class, NEW access \in Access, access.op # "jni",
             access.method \in Callable \cup {NULL}, BeginAccess(access, c)
      PROVE  TasksAreSound'
  BY <1>1, <1>4, BeginAccessStep, AccessKeepsTasks DEF Moves
<1>5. CASE ThrowNew \/ AThrow
  BY <1>1, <1>5, ThrowInInterpreterStep, ThrowingKeepsTasks
<1>6. CASE NewOfMissingClass
  BY <1>1, <1>6, NewOfMissingClassStep, ThrowingKeepsTasks
<1>7. CASE Return
  <2> DEFINE v == Top.method \in ReturnsValue
  <2>1. At("run") /\ LeaveFrame(v) /\ v \in BOOLEAN
    BY <1>7 DEF Return
  <2> HIDE DEF v
  <2>2. frames # <<>> /\ Top.at # "init"
    BY <2>1, CurrentFrame
  <2> QED
    BY <2>1, <2>2, LeavingKeepsTasks
<1> QED
  BY <1>2, <1>3, <1>4, <1>5, <1>6, <1>7 DEF Interpret

LEMMA DispatchKeepsTasks ==
  ASSUME IInv, TasksAreSound, Dispatch
  PROVE  TasksAreSound'
<1>1. CASE Catch
  <2>1. mStatus' = mStatus
    BY <1>1 DEF Catch
  <2> QED
    BY <1>1, <2>1, CatchStep, GoingOnKeepsTasks DEF Moves
<1>2. CASE Unwind
  <2>1. At("check") /\ LeaveFrame(FALSE)
    BY <1>2 DEF Unwind
  <2>2. frames # <<>> /\ Top.at # "init"
    BY <2>1, CurrentFrame
  <2> QED
    BY <2>1, <2>2, LeavingKeepsTasks
<1> QED
  BY <1>1, <1>2 DEF Dispatch

LEMMA InitializeKeepsTasks ==
  ASSUME IInv, TasksAreSound, Initialize
  PROVE  TasksAreSound'
<1>1. TopTask("initialize")
  BY DEF Initialize
<1>2. ASSUME mStatus[Target] = "prepared",
             mStatus' = [mStatus EXCEPT ![Target] = "under"],
             NewTasks(Begun(Target, Tail(Top.tasks)))
      PROVE  TasksAreSound'
  <2> PICK n \in Nat : n = Len(frames)
    BY DEF IInv, Typed
  <2> PICK c \in Class : c = Target
    BY <1>1, CurrentTask
  <2> PICK m \in Nat : m = Len(Supers[c]) /\ DOMAIN Supers[c] = 1 .. m
    BY ClassAssumption
  <2>1. Begins(n, c, m)
    BY <1>1, <1>2, BeginsFacts
  <2>2. mStatus \in [Class -> {"prepared", "under", "initialized"}]
    BY DEF IInv, Typed
  <2> QED
    BY <1>2, <2>1, <2>2, InitializationBegins
<1>3. ASSUME mStatus[Target] # "prepared", mStatus' = mStatus,
             NewTasks(Tail(Top.tasks))
      PROVE  TasksAreSound'
  BY <1>1, <1>3, NextTaskIsDone
<1> QED
  BY <1>2, <1>3, InitializeStep, MoveTasks

LEMMA InitializeClassKeepsTasks ==
  ASSUME IInv, TasksAreSound, InitializeClass
  PROVE  TasksAreSound'
<1>1. CASE RunInitializer
  <2>1. TopTask("run") /\ mStatus' = mStatus
    BY <1>1 DEF RunInitializer
  <2>2. ASSUME NEW g \in Frame,
               g.tasks = <<[do |-> "finish", class |-> Target]>> \o Tail(Top.tasks),
               Moves(g) \/ \E m \in Method : Pushes(g, m)
        PROVE  TasksAreSound'
    <3>1. NewTasks(g.tasks)
      BY <2>2, MoveTasks, PushTasks
    <3>2. NewTasks(<<[do |-> "finish", class |-> Target]>> \o Tail(Top.tasks))
      BY <2>2, <3>1
    <3> QED
      BY <2>1, <3>2, RunBecomesFinish
  <2> QED
    BY <1>1, <2>1, <2>2, RunInitializerStep, SameFramesStaySound
<1>2. CASE FinishInitialization
  <2>1. /\ TopTask("finish")
        /\ mStatus' = [mStatus EXCEPT ![Target] = "initialized"]
    BY <1>2 DEF FinishInitialization
  <2>2. NewTasks(Tail(Top.tasks))
    BY <1>2, FinishInitializationStep, MoveTasks
  <2> QED
    BY <2>1, <2>2, NextTaskIsDone
<1>3. CASE FinishInvokeStatic
  <2>1. mStatus' = mStatus /\ At("init")
    BY <1>3 DEF FinishInvokeStatic, Initialized
  <2>2. frames # <<>> /\ Callable \subseteq Method
    BY <2>1, CurrentFrame DEF Callable
  <2> QED
    BY <1>3, <2>1, <2>2, FinishInvokeStaticStep, SameFramesStaySound,
       GoingOnKeepsTasks
<1>4. CASE FinishAccess
  <2>1. mStatus' = mStatus
    BY <1>4 DEF FinishAccess
  <2> QED
    BY <1>4, <2>1, FinishAccessStep, GoingOnKeepsTasks DEF Moves
<1> QED
  BY <1>1, <1>2, <1>3, <1>4, InitializeKeepsTasks DEF InitializeClass

LEMMA RunNativeKeepsTasks ==
  ASSUME IInv, TasksAreSound, RunNative
  PROVE  TasksAreSound'
<1>1. mStatus' = mStatus
  BY DEF RunNative, JniInitialize, AddJniHandle, ThrowInNative, NativeReturn,
         LeaveFrame
<1>2. ASSUME NEW c \in Class, JniInitialize(c)
      PROVE  TasksAreSound'
  BY <1>1, <1>2, JniInitializeStep, AccessKeepsTasks DEF Moves
<1>3. CASE AddJniHandle
  BY <1>1, <1>3, SameFramesStaySound DEF AddJniHandle
<1>4. CASE ThrowInNative
  BY <1>1, <1>4, ThrowInNativeStep, ThrowingKeepsTasks
<1>5. CASE NativeReturn
  <2> DEFINE v == Top.method \in ReturnsValue \cap Linked
  <2>1. (At("native") \/ At("leave")) /\ LeaveFrame(v) /\ v \in BOOLEAN
    BY <1>5 DEF NativeReturn
  <2> HIDE DEF v
  <2>2. frames # <<>> /\ Top.at # "init"
    BY <2>1, CurrentFrame
  <2> QED
    BY <2>1, <2>2, LeavingKeepsTasks
<1> QED
  BY <1>2, <1>3, <1>4, <1>5 DEF RunNative

LEMMA NextKeepsTasks ==
  ASSUME IInv, TasksAreSound, [Next]_vars
  PROVE  TasksAreSound'
<1>1. CASE UNCHANGED vars
  BY <1>1, SameFramesStaySound DEF vars
<1>2. CASE Ended
  BY <1>2, SameFramesStaySound DEF Ended, vars
<1> QED
  BY <1>1, <1>2, InterpretKeepsTasks, DispatchKeepsTasks,
     InitializeClassKeepsTasks, RunNativeKeepsTasks DEF Next

LEMMA InitSatisfiesTasks ==
  ASSUME Init
  PROVE  TasksAreSound
<1> DEFINE h == NewFrame(Main)
<1>1. h.tasks = <<>>
  BY DEF NewFrame
<1>2. frames = <<h>>
  BY DEF Init
<1> HIDE DEF h
<1>3. DOMAIN frames = {1} /\ frames[1] = h
  BY <1>2
<1>4. \A i, k, t : ~HasTask(i, k, t)
  BY <1>1, <1>3 DEF HasTask
<1>5. \A c \in Class : mStatus[c] # "under"
  BY DEF Init
<1> QED
  BY <1>4, <1>5 DEF TasksAreSound, StatusFollowsTasks, OwedOnce, SupersFirst

-----------------------------------------------------------------------------
LEMMA TasksHold == Spec => [](IInv /\ TasksAreSound)
<1>1. Init => IInv /\ TasksAreSound
  BY InitSatisfiesInvariant, InitSatisfiesTasks
<1>2. IInv /\ TasksAreSound /\ [Next]_vars => (IInv /\ TasksAreSound)'
  BY NextKeepsInvariant, NextKeepsTasks
<1> QED
  BY <1>1, <1>2, PTL DEF Spec

OwedTo(c, i) == \E k \in Nat, t \in Task : HasTask(i, k, t) /\ Owed(t, c)

LEMMA Predecessor ==
  ASSUME NEW n \in Nat, NEW i \in 1 .. n, i # 1
  PROVE  i - 1 \in 1 .. n /\ i = (i - 1) + 1 /\ i - 1 # n
OBVIOUS

LEMMA FinishingIsOwing ==
  ASSUME IInv, NEW c \in Class, NEW i \in DOMAIN frames
  PROVE  (\E k \in DOMAIN frames[i].tasks :
            frames[i].tasks[k].class = c /\ frames[i].tasks[k].do # "initialize")
         <=> OwedTo(c, i)
<1>1. ASSUME NEW k \in DOMAIN frames[i].tasks
      PROVE  k \in Nat /\ frames[i].tasks[k] \in Task
  BY TaskPlaces DEF HasTask
<1> QED
  BY <1>1 DEF HasTask, Owed, OwedTo

(* A <clinit> runs for the class that the frame below is to finish next. *)
LEMMA InitializersAreAwaited ==
  ASSUME IInv, NEW c \in Class, NEW i \in DOMAIN frames,
         frames[i].method = Initializer[c]
  PROVE  /\ i - 1 \in DOMAIN frames
         /\ \E t \in Task : HasTask(i - 1, 1, t) /\ Owed(t, c)
<1> PICK n \in Nat : n = Len(frames) /\ DOMAIN frames = 1 .. n
  BY DEF IInv, Typed
<1>1. Initializer[c] \in Initializers /\ Owner[Initializer[c]] = c
  <2>1. frames[i] \in Frame
    BY DEF IInv, Typed
  <2>2. Initializer[c] \in Method /\ Initializer[c] # NULL
    BY <2>1, MethodAssumption DEF Frame
  <2> QED
    BY <2>2, ClassAssumption DEF Initializers
<1>2. i # 1
  <2>1. frames[1].method \in {Main, UncaughtHandler}
    BY DEF IInv, StackIsSound
  <2> QED
    BY <1>1, <2>1, MethodAssumption
<1>3. PICK j \in DOMAIN frames : j = i - 1 /\ Awaits(frames[j], frames[i].method)
  <2>1. i - 1 \in DOMAIN frames /\ i = (i - 1) + 1 /\ i - 1 # Len(frames)
    BY <1>2, Predecessor
  <2>2. Awaits(frames[i - 1], frames[(i - 1) + 1].method)
    BY <2>1 DEF IInv, StackIsSound
  <2> QED
    BY <2>1, <2>2
<1>4. /\ frames[j].tasks # <<>> /\ Head(frames[j].tasks).do = "finish"
      /\ Initializer[c] = Initializer[Head(frames[j].tasks).class]
  BY <1>1, <1>3 DEF Awaits
<1>5. PICK ts \in Seq(Task) : ts = frames[j].tasks
  <2>1. frames[j] \in Frame
    BY <1>3 DEF IInv, Typed
  <2> QED
    BY <2>1 DEF Frame
<1>6. Head(ts) \in Task /\ 1 \in DOMAIN ts /\ Head(ts) = ts[1]
  <2>1. ts # <<>>
    BY <1>4, <1>5
  <2> QED
    BY <2>1
<1>7. Head(ts).class = c
  <2> PICK d \in Class : d = Head(ts).class
    BY <1>6, TaskIsTyped
  <2>1. Initializer[d] = Initializer[c] /\ Initializer[d] # NULL
    BY <1>1, <1>4, <1>5 DEF Initializers
  <2> QED
    BY <1>1, <2>1, ClassAssumption
<1>8. HasTask(j, 1, Head(ts)) /\ Owed(Head(ts), c)
  BY <1>4, <1>5, <1>6, <1>7 DEF HasTask, Owed
<1> QED
  BY <1>3, <1>6, <1>8

(* JClass::initialize: a class is under initialization exactly while one   *)
(* frame has to finish it; its <clinit> runs at most once at a time, in    *)
(* that time only, and after the superclass and the superinterfaces have   *)
(* been begun.                                                             *)
THEOREM ClassesAreInitializedInOrder == Spec => []InitializationIsOrderly
<1>1. IInv /\ TasksAreSound => InitializationIsOrderly
  <2> SUFFICES ASSUME IInv, TasksAreSound
               PROVE  InitializationIsOrderly
    OBVIOUS
  <2>1. ASSUME NEW c \in Class
        PROVE  mStatus[c] = "under" <=> \E i \in DOMAIN frames : OwedTo(c, i)
    <3>1. mStatus[c] = "under" <=>
            \E i \in Nat, k \in Nat, t \in Task : HasTask(i, k, t) /\ Owed(t, c)
      BY DEF TasksAreSound, StatusFollowsTasks
    <3>2. \A i \in DOMAIN frames : i \in Nat
      BY DEF IInv, Typed
    <3>3. \A i, k, t : HasTask(i, k, t) => i \in DOMAIN frames
      BY DEF HasTask
    <3> QED
      BY <3>1, <3>2, <3>3 DEF OwedTo
  <2>2. ASSUME NEW c \in Class, NEW i \in DOMAIN frames, NEW j \in DOMAIN frames,
               OwedTo(c, i), OwedTo(c, j)
        PROVE  i = j
    BY <2>2 DEF TasksAreSound, OwedOnce, OwedTo, IInv, Typed
  <2>3. ASSUME NEW c \in Class, NEW i \in DOMAIN frames, NEW j \in DOMAIN frames,
               frames[i].method = Initializer[c], frames[j].method = Initializer[c]
        PROVE  i = j
    <3>1. /\ i - 1 \in DOMAIN frames /\ OwedTo(c, i - 1)
          /\ j - 1 \in DOMAIN frames /\ OwedTo(c, j - 1)
      BY <2>3, InitializersAreAwaited DEF OwedTo
    <3>2. i - 1 = j - 1
      BY <2>2, <3>1
    <3>3. i \in Int /\ j \in Int
      BY DEF IInv, Typed
    <3> QED
      BY <3>2, <3>3
  <2>4. ASSUME NEW c \in Class, NEW i \in DOMAIN frames,
               frames[i].method = Initializer[c]
        PROVE  /\ mStatus[c] = "under"
               /\ \A s \in Range(Supers[c]) : mStatus[s] # "prepared"
    <3>1. PICK t \in Task : HasTask(i - 1, 1, t) /\ Owed(t, c)
      BY <2>4, InitializersAreAwaited
    <3>2. i - 1 \in DOMAIN frames /\ i - 1 \in Nat
      BY <3>1, TaskPlaces DEF HasTask
    <3>3. mStatus[c] = "under"
      BY <2>1, <3>1, <3>2 DEF OwedTo
    <3>4. 1 .. 1 - 1 = {}
      OBVIOUS
    <3> QED
      BY <3>1, <3>2, <3>3, <3>4 DEF TasksAreSound, SupersFirst
  <2> QED
    BY <2>1, <2>2, <2>3, <2>4, FinishingIsOwing DEF InitializationIsOrderly
<1> QED
  BY <1>1, TasksHold, PTL

(* JClass::initialize: a class that is initialized is never initialized    *)
(* again, and one whose initialization has begun is not taken for new.     *)
THEOREM ClassesAreInitializedOnce == Spec => InitializedOnce
<1> DEFINE Once ==
      \A c \in Class :
        /\ mStatus[c] = "initialized" => mStatus'[c] = "initialized"
        /\ mStatus[c] = "under" => mStatus'[c] # "prepared"
<1>1. IInv /\ TasksAreSound /\ [Next]_vars => [Once]_vars
  <2> SUFFICES ASSUME IInv, TasksAreSound, Next
               PROVE  Once
    BY DEF vars
  <2>1. CASE mStatus' = mStatus
    BY <2>1
  <2>2. CASE Initialize
    BY <2>2 DEF Initialize, IInv, Typed
  <2>3. CASE FinishInitialization
    BY <2>3 DEF FinishInitialization, IInv, Typed
  <2>4. Interpret \/ Dispatch \/ RunNative \/ Ended => mStatus' = mStatus
    BY DEF Interpret, Compute, InvokeMethod, BeginAccess, ThrowNew,
           NewOfMissingClass, AThrow, Return, LeaveFrame, Dispatch, Catch,
           Unwind, RunNative, JniInitialize, AddJniHandle, ThrowInNative,
           NativeReturn, Ended, vars
  <2>5. RunInitializer \/ FinishInvokeStatic \/ FinishAccess => mStatus' = mStatus
    BY DEF RunInitializer, FinishInvokeStatic, FinishAccess
  <2> QED
    BY <2>1, <2>2, <2>3, <2>4, <2>5 DEF Next, InitializeClass
<1> QED
  BY <1>1, TasksHold, PTL DEF Spec, InitializedOnce

-----------------------------------------------------------------------------
(***************************************************************************)
(* The interpreter and JavaThread keep the promise of JavaExceptions, as   *)
(* long as no exception leaves a <clinit> and no class named by a new      *)
(* instruction is missing: every step of theirs is a step of the promise   *)
(* or changes nothing of it.                                               *)
(***************************************************************************)

(* The conditions under which exceptions are checked for where it matters: *)
(* JClass::initialize and a new instruction whose class cannot be loaded   *)
(* leave the check to somebody else.                                       *)
NothingIsIgnored == ~InitializersThrow /\ ~ResolutionFails

(* While an exception is in flight the current frame is about to look for  *)
(* a handler or to be left.                                                *)
ExceptionIsSeen ==
  mCurrentException # NULL => frames # <<>> /\ Top.at \in {"check", "leave"}

ExceptionsAreSeen == NoSecondException /\ ExceptionIsSeen

LEMMA NothingInFlight ==
  ASSUME IInv, ExceptionsAreSeen, NEW place \in {"run", "init", "native"}, At(place)
  PROVE  mCurrentException = NULL
BY DEF ExceptionsAreSeen, ExceptionIsSeen, At

(* A frame is called by an instruction unless its method is a <clinit>. *)
LEMMA CallerOf ==
  ASSUME IInv, frames # <<>>, Top.method \notin Initializers, Len(frames) > 1
  PROVE  /\ frames[Len(frames) - 1] \in Frame
         /\ frames[Len(frames) - 1].at = "call"
         /\ frames[Len(frames) - 1].method \in Interpreted
<1> PICK n \in Nat : n = Len(frames) /\ n > 1
  BY DEF IInv, Typed
<1>1. n - 1 \in DOMAIN frames /\ n \in DOMAIN frames /\ (n - 1) + 1 = n /\ n - 1 # n
  BY DEF IInv, Typed
<1> PICK j \in DOMAIN frames : j = n - 1
  BY <1>1
<1>2. frames[j] \in Frame /\ frames[n] \in Frame /\ Top = frames[n]
  BY <1>1 DEF IInv, Typed, Top
<1>3. Awaits(frames[j], frames[n].method) /\ FrameIsSound(frames[j])
  BY <1>1 DEF IInv, StackIsSound
<1>4. frames[j].at # "init"
  <2>1. Top.method \in Method
    BY <1>2 DEF Frame
  <2>2. frames[j].tasks \in Seq(Task)
    BY <1>2 DEF Frame
  <2>3. frames[j].tasks # <<>> => Head(frames[j].tasks) \in Task
    BY <2>2
  <2> QED
    BY <1>2, <1>3, <2>1, <2>3, TaskIsTyped, MethodAssumption
       DEF Awaits, Initializers
<1>5. frames[j].at = "call"
  BY <1>3, <1>4 DEF Awaits
<1>6. frames[j].method \in Interpreted
  BY <1>2, <1>3, <1>5 DEF Frame, FrameIsSound, Method
<1> QED
  BY <1>2, <1>5, <1>6

(* The caller's frame when the exception has been handed to it. *)
LEMMA CallerSees ==
  ASSUME IInv, mCurrentException # NULL, NEW f \in Frame, f.at = "call",
         NEW callee, NEW v \in BOOLEAN
  PROVE  /\ AfterCall(f, callee, v).at = "check"
         /\ AfterCall(f, callee, v).method = f.method
         /\ f.method \in HasHandlers =>
              AfterCall(f, callee, v).operands =
                IF v THEN <<mCurrentException, Value>> ELSE <<mCurrentException>>
<1> DEFINE p == IF callee \in Interpreted
                THEN [f EXCEPT !.operands = Drop(@, NumSlots[callee])]
                ELSE f
           h == HandleCalleeException(p)
           o == IF v THEN Append(h.operands, Value) ELSE h.operands
           g == [h EXCEPT !.at = "check", !.operands = o]
<1>1. AfterCall(f, callee, v) = g
  BY DEF AfterCall, AfterInstruction
<1>2. /\ p.method = f.method
      /\ p \in [method : Method,
                at : {"run", "call", "init", "check", "native", "leave"},
                operands : {p.operands}, tasks : Seq(Task),
                then : Access \cup {Nothing}]
  BY DEF Frame
<1> HIDE DEF p
<1>3. /\ h.method = f.method
      /\ h \in [method : Method,
                at : {"run", "call", "init", "check", "native", "leave"},
                operands : {h.operands}, tasks : Seq(Task),
                then : Access \cup {Nothing}]
      /\ f.method \in HasHandlers => h.operands = <<mCurrentException>>
  BY <1>2 DEF HandleCalleeException
<1> HIDE DEF h
<1>4. g.at = "check" /\ g.method = f.method /\ g.operands = o
  BY <1>3
<1>5. Append(<<mCurrentException>>, Value) = <<mCurrentException, Value>>
  <2> PICK e : e = mCurrentException
    OBVIOUS
  <2>1. <<e>> \in Seq({e, Value}) /\ Value \in {e, Value}
    OBVIOUS
  <2> DEFINE a == Append(<<e>>, Value)
  <2>2. Len(a) = 2 /\ a[1] = e /\ a[2] = Value /\ a \in Seq({e, Value})
    BY <2>1
  <2> HIDE DEF a
  <2>3. a = <<e, Value>>
    BY <2>2
  <2> QED
    BY <2>3 DEF a
<1>6. f.method \in HasHandlers =>
        o = IF v THEN <<mCurrentException, Value>> ELSE <<mCurrentException>>
  BY <1>3, <1>5
<1> QED
  BY <1>1, <1>4, <1>6

-----------------------------------------------------------------------------
(* What a step does to the calls and to the exception in flight.           *)

Unchanged == UNCHANGED <<mCurrentException, mHasUncaughtException>>

Thrown ==
  /\ mCurrentException = NULL /\ ~mHasUncaughtException
  /\ mCurrentException' \in Exception
  /\ mHasUncaughtException' = mHasUncaughtException
  /\ \E g \in Frame : Moves(g)

CaughtByTop ==
  /\ mCurrentException # NULL /\ mCurrentException' = NULL
  /\ mHasUncaughtException' = mHasUncaughtException
  /\ Top.method \in HasHandlers
  /\ \E g \in Frame : Moves(g)

GivenUp ==
  /\ Len(frames) = 1 /\ mCurrentException # NULL
  /\ frames' = <<NewFrame(UncaughtHandler)>>
  /\ mCurrentException' = NULL /\ mHasUncaughtException' = TRUE

Effect ==
  \/ frames' = frames /\ Unchanged
  \/ (\E g \in Frame : Moves(g)) /\ Unchanged
  \/ /\ mCurrentException = NULL /\ Unchanged
     /\ \E g \in Frame, m \in Method : Pushes(g, m)
  \/ (\E g \in Frame : Pops(g)) /\ Unchanged
  \/ /\ mCurrentException = NULL /\ Unchanged
     /\ Len(frames) = 1 /\ frames' = <<>>
  \/ Thrown
  \/ CaughtByTop
  \/ GivenUp

(* What ExceptionReachesHandler says of a step.                            *)
Reaches ==
  LooksForHandler' => Top.operands' = <<mCurrentException'>> \/ BuriedByNative

(* A step is sound if it has such an effect, leaves the exception, if      *)
(* there is one, in sight, and brings it to whoever looks for a handler.   *)
Sees ==
  /\ Effect /\ ExceptionsAreSeen'
  /\ mCurrentException' # NULL => [Reaches]_vars

LEMMA QuietStep ==
  ASSUME mCurrentException = NULL, UNCHANGED excVars,
         phase' \in {phase, "panicked", "ended", "exited"}, ExceptionsAreSeen
  PROVE  ExceptionsAreSeen'
BY DEF excVars, ExceptionsAreSeen, ExceptionIsSeen, NoSecondException

LEMMA QuietMove ==
  ASSUME mCurrentException = NULL, UNCHANGED <<excVars, phase>>, ExceptionsAreSeen,
         NEW g \in Frame, Moves(g)
  PROVE  Sees
<1>1. ExceptionsAreSeen'
  BY QuietStep
<1> QED
  BY <1>1 DEF Sees, Effect, Unchanged, excVars

LEMMA LeavingSees ==
  ASSUME IInv, ExceptionsAreSeen, frames # <<>>, NEW v \in BOOLEAN, LeaveFrame(v),
         mCurrentException # NULL => Top.method \notin Initializers,
         Top.at = "check" => ~v,
         v => Top.method \in ReturnsValue \cap Linked \/ Top.at = "run"
  PROVE  Sees
<1>1. ASSUME Len(frames) > 1, Pops(AfterCall(frames[Len(frames) - 1], Top.method, v)),
             AfterCall(frames[Len(frames) - 1], Top.method, v) \in Frame,
             UNCHANGED <<excVars, phase>>
      PROVE  Sees
  <2> PICK n \in Nat : n = Len(frames) /\ n > 1
    BY <1>1 DEF IInv, Typed
  <2> PICK g \in Frame : g = AfterCall(frames[n - 1], Top.method, v)
    BY <1>1
  <2>1. Effect
    BY <1>1 DEF Effect, Unchanged, excVars
  <2>2. CASE mCurrentException = NULL
    <3>1. ExceptionsAreSeen' /\ mCurrentException' = NULL
      BY <1>1, <2>2, QuietStep DEF excVars
    <3> QED
      BY <2>1, <3>1 DEF Sees
  <2>3. CASE mCurrentException # NULL
    <3> PICK f \in Frame : f = frames[n - 1] /\ f.at = "call"
      BY <2>3, CallerOf
    <3>1. v => Top.at = "leave" /\ Top.method \in ReturnsValue \cap Linked
      BY <2>3 DEF ExceptionsAreSeen, ExceptionIsSeen
    <3>2. /\ g.at = "check"
          /\ g.method \in HasHandlers =>
               g.operands = IF v THEN <<mCurrentException, Value>>
                            ELSE <<mCurrentException>>
      BY <2>3, CallerSees
    <3>3. /\ frames' # <<>> /\ frames'[Len(frames')] = g
      <4>1. /\ Len(frames') = n - 1 /\ frames' # <<>>
            /\ \A i \in 1 .. n - 1 : frames'[i] = IF i = n - 1 THEN g ELSE frames[i]
        BY <1>1, PopFacts DEF Pops, IInv, Typed
      <4>2. n - 1 \in 1 .. n - 1
        OBVIOUS
      <4> QED
        BY <4>1, <4>2
    <3>4. mCurrentException' = mCurrentException /\ phase' = phase
      BY <1>1 DEF excVars
    <3>5. ExceptionsAreSeen'
      BY <3>2, <3>3, <3>4
         DEF ExceptionsAreSeen, ExceptionIsSeen, NoSecondException, Top
    <3>6. Top' = g
      BY <3>3 DEF Top
    <3>7. Reaches
      BY <3>1, <3>2, <3>4, <3>6 DEF Reaches, LooksForHandler, BuriedByNative
    <3> QED
      BY <2>1, <3>5, <3>7 DEF Sees
  <2> QED
    BY <2>2, <2>3
<1>2. ASSUME Len(frames) = 1, mCurrentException = NULL, frames' = <<>>,
             phase' \in {"exited", "ended"}, UNCHANGED excVars
      PROVE  Sees
  <2>1. ExceptionsAreSeen'
    BY <1>2, QuietStep
  <2> QED
    BY <1>2, <2>1 DEF Sees, Effect, Unchanged, excVars
<1>3. ASSUME Len(frames) = 1, mCurrentException # NULL,
             frames' = <<NewFrame(UncaughtHandler)>>, mCurrentException' = NULL,
             mHasUncaughtException' = TRUE, UNCHANGED phase
      PROVE  Sees
  BY <1>3 DEF Sees, Effect, GivenUp, ExceptionsAreSeen, ExceptionIsSeen,
              NoSecondException
<1> QED
  BY <1>1, <1>2, <1>3, LeaveFrameStep

LEMMA ThrowingSees ==
  ASSUME IInv, ExceptionsAreSeen, mCurrentException = NULL,
         NEW place \in {"check", "leave"}, Throws(place), frames # <<>>,
         place = "leave" => Top.method \in Native,
         place = "check" => Top.method \in Interpreted
  PROVE  Sees
<1>1. ASSUME frames' = frames, phase' # "asserted", Unchanged
      PROVE  Sees
  BY <1>1 DEF Sees, Effect, Unchanged, ExceptionsAreSeen, ExceptionIsSeen,
              NoSecondException
<1>2. ASSUME ~mHasUncaughtException,
             mCurrentException' \in Exception, mCurrentException' # NULL,
             NEW g \in Frame, Moves(g), g.at = place,
             g.method \in Interpreted => g.operands = <<mCurrentException'>>,
             UNCHANGED <<mHasUncaughtException, phase>>
      PROVE  Sees
  <2>1. Effect
    BY <1>2 DEF Effect, Thrown
  <2> PICK n \in Nat : n = Len(frames)
    BY DEF IInv, Typed
  <2>2. /\ frames' # <<>> /\ Len(frames') = n /\ frames'[n] = g
        /\ \A i \in DOMAIN frames : i # n => frames'[i] = frames[i]
        /\ g.method = Top.method
    BY <1>2, MoveFacts, TopFacts DEF Moves, IInv, Typed
  <2>3. HasHandlers \subseteq Interpreted /\ Interpreted \cap Native = {}
    BY MethodAssumption
  <2>4. Top' = g
    BY <2>2 DEF Top
  <2>5. ExceptionsAreSeen'
    BY <1>2, <2>2, <2>4 DEF ExceptionsAreSeen, ExceptionIsSeen, NoSecondException
  <2>6. Reaches
    BY <1>2, <2>2, <2>3, <2>4 DEF Reaches, LooksForHandler
  <2> QED
    BY <2>1, <2>5, <2>6 DEF Sees
<1> QED
  BY <1>1, <1>2 DEF Throws, Unchanged

-----------------------------------------------------------------------------
(* Every step has such an effect.                                          *)

LEMMA CallSees ==
  ASSUME IInv, ExceptionsAreSeen, mCurrentException = NULL, UNCHANGED excVars,
         \/ /\ frames' = frames /\ phase' = "panicked"
         \/ /\ \E g \in Frame, m \in Method : Pushes(g, m)
            /\ phase' = phase
  PROVE  Sees
<1>1. ExceptionsAreSeen'
  BY QuietStep
<1> QED
  BY <1>1 DEF Sees, Effect, Unchanged, excVars

LEMMA InterpretSees ==
  ASSUME IInv, ExceptionsAreSeen, NothingIsIgnored, Interpret
  PROVE  Sees
<1>1. At("run")
  BY DEF Interpret, Compute, InvokeMethod, BeginAccess, ThrowNew,
         NewOfMissingClass, AThrow, Return
<1>2. /\ mCurrentException = NULL /\ frames # <<>> /\ Top.at = "run"
      /\ Top.method \in Interpreted /\ Top.method \notin Native
  <2>1. mCurrentException = NULL
    BY <1>1, NothingInFlight
  <2>2. frames # <<>> /\ Top.at = "run" /\ FrameIsSound(Top) /\ Top \in Frame
    BY <1>1, CurrentFrame
  <2>3. Top.method \notin Native
    BY <2>2 DEF FrameIsSound
  <2> QED
    BY <2>1, <2>2, <2>3 DEF Frame, Method
<1>3. CASE Compute
  BY <1>2, <1>3, ComputeStep, QuietMove DEF Compute
<1>4. ASSUME NEW m \in Callable, InvokeMethod(m)
      PROVE  Sees
  <2>1. UNCHANGED excVars /\ m \in Method
    BY <1>4 DEF InvokeMethod, Callable
  <2> QED
    BY <1>2, <1>4, <2>1, InvokeMethodStep, CallSees
<1>5. ASSUME NEW c \in Class, NEW access \in Access, access.op # "jni",
             access.method \in Callable \cup {NULL}, BeginAccess(access, c)
      PROVE  Sees
  BY <1>2, <1>5, BeginAccessStep, QuietMove DEF BeginAccess
<1>6. CASE ThrowNew \/ AThrow
  BY <1>2, <1>6, ThrowInInterpreterStep, ThrowingSees
<1>7. ~NewOfMissingClass
  BY DEF NewOfMissingClass, NothingIsIgnored
<1>8. CASE Return
  <2> DEFINE v == Top.method \in ReturnsValue
  <2>1. LeaveFrame(v) /\ v \in BOOLEAN
    BY <1>8 DEF Return
  <2> HIDE DEF v
  <2> QED
    BY <1>2, <2>1, LeavingSees
<1> QED
  BY <1>3, <1>4, <1>5, <1>6, <1>7, <1>8 DEF Interpret

LEMMA DispatchSees ==
  ASSUME IInv, ExceptionsAreSeen, NothingIsIgnored, Dispatch
  PROVE  Sees
<1>1. At("check")
  BY DEF Dispatch, Catch, Unwind
<1>2. frames # <<>> /\ Top.at = "check" /\ mCurrentException # NULL
  BY <1>1, CurrentFrame DEF IInv, ExceptionIsHeld
<1>3. CASE Catch
  <2>1. /\ Top.method \in HasHandlers /\ mCurrentException' = NULL
        /\ UNCHANGED <<mHasUncaughtException, phase>>
    BY <1>3 DEF Catch
  <2>2. Effect
    BY <1>2, <1>3, <2>1, CatchStep DEF Effect, CaughtByTop
  <2> QED
    BY <2>1, <2>2 DEF Sees, ExceptionsAreSeen, ExceptionIsSeen, NoSecondException
<1>4. CASE Unwind
  <2>1. Top.method \notin Initializers /\ LeaveFrame(FALSE)
    BY <1>4 DEF Unwind, NothingIsIgnored
  <2> QED
    BY <1>2, <2>1, LeavingSees
<1> QED
  BY <1>3, <1>4 DEF Dispatch

LEMMA InitializeClassSees ==
  ASSUME IInv, ExceptionsAreSeen, InitializeClass
  PROVE  Sees
<1>1. At("init") /\ UNCHANGED excVars
  BY DEF InitializeClass, Initialize, RunInitializer, FinishInitialization,
         FinishInvokeStatic, FinishAccess, TopTask, Initialized
<1>2. mCurrentException = NULL
  BY <1>1, NothingInFlight
<1>3. CASE Initialize
  BY <1>2, <1>3, InitializeStep, QuietMove DEF Initialize
<1>4. CASE RunInitializer
  BY <1>1, <1>2, <1>4, RunInitializerStep, CallSees, QuietMove
<1>5. CASE FinishInitialization
  BY <1>2, <1>5, FinishInitializationStep, QuietMove DEF FinishInitialization
<1>6. CASE FinishInvokeStatic
  <2>1. Callable \subseteq Method
    BY DEF Callable
  <2> QED
    BY <1>1, <1>2, <1>6, <2>1, FinishInvokeStaticStep, CallSees
<1>7. CASE FinishAccess
  BY <1>2, <1>7, FinishAccessStep, QuietMove DEF FinishAccess
<1> QED
  BY <1>3, <1>4, <1>5, <1>6, <1>7 DEF InitializeClass

LEMMA RunNativeSees ==
  ASSUME IInv, ExceptionsAreSeen, RunNative
  PROVE  Sees
<1>1. At("native") \/ At("leave")
  BY DEF RunNative, JniInitialize, AddJniHandle, ThrowInNative, NativeReturn
<1>2. /\ frames # <<>> /\ Top.at \in {"native", "leave"} /\ Top.method \in Native
      /\ Top.method \notin Initializers
  <2>1. frames # <<>> /\ Top.at \in {"native", "leave"} /\ FrameIsSound(Top)
        /\ Top \in Frame
    BY <1>1, CurrentFrame
  <2>2. Top.method \in Native
    BY <2>1 DEF FrameIsSound, Frame, Method
  <2>3. Initializers \subseteq Interpreted
    BY ClassAssumption DEF Initializers
  <2> QED
    BY <2>1, <2>2, <2>3, MethodAssumption
<1>3. At("native") => mCurrentException = NULL
  BY NothingInFlight
<1>4. ASSUME NEW c \in Class, JniInitialize(c)
      PROVE  Sees
  BY <1>3, <1>4, JniInitializeStep, QuietMove DEF JniInitialize
<1>5. CASE AddJniHandle
  BY <1>3, <1>5 DEF AddJniHandle, Sees, Effect, Unchanged, excVars, ExceptionsAreSeen,
              ExceptionIsSeen, NoSecondException, Top
<1>6. CASE ThrowInNative
  <2>1. At("native")
    BY <1>6 DEF ThrowInNative
  <2> QED
    BY <1>2, <1>3, <1>6, <2>1, ThrowInNativeStep, ThrowingSees
<1>7. CASE NativeReturn
  <2> DEFINE v == Top.method \in ReturnsValue \cap Linked
  <2>1. LeaveFrame(v) /\ v \in BOOLEAN
    BY <1>7 DEF NativeReturn
  <2>2. v <=> Top.method \in ReturnsValue \cap Linked
    OBVIOUS
  <2> HIDE DEF v
  <2> QED
    BY <1>2, <2>1, <2>2, LeavingSees
<1> QED
  BY <1>4, <1>5, <1>6, <1>7 DEF RunNative

LEMMA StepSees ==
  ASSUME IInv, ExceptionsAreSeen, NothingIsIgnored, [Next]_vars
  PROVE  Sees
<1>1. CASE UNCHANGED vars
  BY <1>1 DEF vars, Sees, Effect, Unchanged, excVars, ExceptionsAreSeen,
              ExceptionIsSeen, NoSecondException, Top
<1> QED
  BY <1>1, InterpretSees, DispatchSees, InitializeClassSees, RunNativeSees
     DEF Next, Ended

LEMMA ExceptionsStaySeen ==
  ASSUME NothingIsIgnored
  PROVE  Spec => [](IInv /\ ExceptionsAreSeen)
<1>1. Init => IInv /\ ExceptionsAreSeen
  BY InitSatisfiesInvariant
     DEF Init, ExceptionsAreSeen, ExceptionIsSeen, NoSecondException
<1>2. IInv /\ ExceptionsAreSeen /\ [Next]_vars => (IInv /\ ExceptionsAreSeen)'
  BY NextKeepsInvariant, StepSees DEF Sees
<1> QED
  BY <1>1, <1>2, PTL DEF Spec

(* throwException's assertion that there is no other exception in flight:  *)
(* a frame that has an exception pending runs no code before it looks for  *)
(* a handler or is left.                                                   *)
THEOREM ExceptionsAreNotReplaced ==
  ASSUME NothingIsIgnored
  PROVE  Spec => []NoSecondException
<1>1. ExceptionsAreSeen => NoSecondException
  BY DEF ExceptionsAreSeen
<1> QED
  BY <1>1, ExceptionsStaySeen, PTL

(* throwException, handleCalleeException, checkException: whatever frames  *)
(* an exception leaves, who looks for a handler has it on the operand      *)
(* stack, alone but for the value of a native method that has just thrown. *)
THEOREM ExceptionsReachHandlers ==
  ASSUME NothingIsIgnored
  PROVE  Spec => ExceptionReachesHandler
<1>1. IInv /\ IInv' /\ ExceptionsAreSeen /\ [Next]_vars => [Reaches]_vars
  <2> SUFFICES ASSUME IInv, IInv', ExceptionsAreSeen, [Next]_vars
               PROVE  [Reaches]_vars
    OBVIOUS
  <2>1. LooksForHandler' => mCurrentException' # NULL
    BY DEF LooksForHandler, At, Top, IInv, Typed, ExceptionIsHeld
  <2>2. mCurrentException' # NULL => [Reaches]_vars
    BY StepSees DEF Sees
  <2> QED
    BY <2>1, <2>2 DEF Reaches
<1>2. IInv /\ ExceptionsAreSeen /\ [Next]_vars => IInv'
  BY NextKeepsInvariant
<1> QED
  BY <1>1, <1>2, ExceptionsStaySeen, PTL DEF Spec, ExceptionReachesHandler, Reaches

-----------------------------------------------------------------------------
(* The calls that the promise speaks of.                                   *)

LEMMA CallsAre ==
  ASSUME IInv
  PROVE  /\ Calls \in Seq(Method) /\ Len(Calls) = Len(frames)
         /\ \A i \in DOMAIN frames : Calls[i] = frames[i].method
         /\ Calls = <<>> <=> frames = <<>>
<1> PICK n \in Nat : n = Len(frames) /\ DOMAIN frames = 1 .. n
  BY DEF IInv, Typed
<1>1. \A i \in 1 .. n : frames[i].method \in Method
  <2>1. \A i \in 1 .. n : frames[i] \in Frame
    BY DEF IInv, Typed
  <2> QED
    BY <2>1 DEF Frame
<1>2. Calls = [i \in 1 .. n |-> frames[i].method]
  BY DEF Calls
<1>3. Calls \in Seq(Method) /\ Len(Calls) = n
  BY <1>1, <1>2
<1>4. Calls = <<>> <=> frames = <<>>
  BY <1>3 DEF IInv, Typed
<1> QED
  BY <1>2, <1>3, <1>4

LEMMA MovesKeepCalls ==
  ASSUME IInv, frames' = frames \/ \E g \in Frame : Moves(g)
  PROVE  Calls' = Calls
<1>1. /\ DOMAIN frames' = DOMAIN frames
      /\ \A i \in DOMAIN frames : frames'[i].method = frames[i].method
  BY MoveFacts DEF Moves, IInv, Typed, Top
<1> QED
  BY <1>1 DEF Calls

LEMMA AppendedSeq ==
  ASSUME NEW S, NEW c \in Seq(S), NEW m \in S, NEW n \in Nat, Len(c) = n,
         NEW d \in Seq(S), Len(d) = n + 1, d[n + 1] = m,
         \A i \in 1 .. n : d[i] = c[i]
  PROVE  d = Append(c, m)
<1> PICK e : e = Append(c, m)
  OBVIOUS
<1>1. e \in Seq(S) /\ Len(e) = n + 1
  OBVIOUS
<1>2. e[n + 1] = m
  OBVIOUS
<1>3. \A i \in 1 .. n : e[i] = c[i]
  OBVIOUS
<1>4. \A i \in 1 .. n + 1 : i \in 1 .. n \/ i = n + 1
  OBVIOUS
<1>5. \A i \in 1 .. n + 1 : d[i] = e[i]
  BY <1>2, <1>3, <1>4
<1>6. d = e
  BY <1>1, <1>5, SeqEqual
<1> QED
  BY <1>6

LEMMA PushesAppendCall ==
  ASSUME IInv, NEW g \in Frame, NEW m \in Method, Pushes(g, m)
  PROVE  Calls' = Append(Calls, m)
<1> PICK n \in Nat : n = Len(frames) /\ DOMAIN frames = 1 .. n
  BY DEF IInv, Typed
<1> PICK h \in Frame : h = NewFrame(m) /\ h.method = m
  BY NewFrameIsSound
<1>1. /\ n \in DOMAIN frames /\ Top = frames[n]
      /\ DOMAIN frames' = 1 .. n + 1
      /\ \A i \in 1 .. n : frames'[i] = IF i = n THEN g ELSE frames[i]
      /\ frames'[n + 1] = h
  BY PushFacts, TopFacts DEF Pushes, IInv, Typed
<1>2. Calls' = [i \in 1 .. n + 1 |-> frames'[i].method]
  BY <1>1 DEF Calls
<1>3. Calls \in Seq(Method) /\ Len(Calls) = n
      /\ \A i \in 1 .. n : Calls[i] = frames[i].method
  BY CallsAre
<1> PICK c \in Seq(Method) : c = Calls
  BY <1>3
<1> PICK d : d = Calls'
  OBVIOUS
<1>4. Len(c) = n
  BY <1>3
<1>5. \A i \in 1 .. n : frames'[i].method = c[i]
  BY <1>1, <1>3 DEF Pushes
<1>6. \A i \in 1 .. n + 1 : i \in 1 .. n \/ i = n + 1
  OBVIOUS
<1>7. \A i \in 1 .. n : c[i] \in Method
  BY <1>4
<1>8. \A i \in 1 .. n + 1 : frames'[i].method \in Method
  BY <1>1, <1>5, <1>6, <1>7
<1>9. d \in Seq(Method) /\ Len(d) = n + 1
  BY <1>2, <1>8
<1>10. d[n + 1] = m /\ \A i \in 1 .. n : d[i] = c[i]
  BY <1>1, <1>2, <1>5
<1>11. d = Append(c, m)
  BY <1>4, <1>9, <1>10, AppendedSeq
<1> QED
  BY <1>11

LEMMA PopsDropCall ==
  ASSUME IInv, NEW g \in Frame, Pops(g)
  PROVE  Calls' = SubSeq(Calls, 1, Len(Calls) - 1) /\ Len(Calls) > 1
<1> PICK n \in Nat : n = Len(frames) /\ DOMAIN frames = 1 .. n /\ n > 1
  BY DEF Pops, IInv, Typed
<1>1. /\ DOMAIN frames' = 1 .. n - 1
      /\ \A i \in 1 .. n - 1 : frames'[i] = IF i = n - 1 THEN g ELSE frames[i]
      /\ g.method = frames[n - 1].method
  BY PopFacts DEF Pops, IInv, Typed
<1>2. Calls' = [i \in 1 .. n - 1 |-> frames[i].method]
  BY <1>1 DEF Calls
<1>3. Calls \in Seq(Method) /\ Len(Calls) = n
      /\ \A i \in 1 .. n : Calls[i] = frames[i].method
  BY CallsAre
<1> PICK c \in Seq(Method) : c = Calls
  BY <1>3
<1> PICK d : d = SubSeq(c, 1, n - 1)
  OBVIOUS
<1>4. /\ DOMAIN d = 1 .. n - 1 /\ \A i \in 1 .. n - 1 : d[i] = c[i]
      /\ d = [i \in 1 .. n - 1 |-> d[i]]
  BY <1>3
<1>5. \A i \in 1 .. n - 1 : d[i] = frames[i].method
  BY <1>3, <1>4
<1>6. Calls' = d
  BY <1>2, <1>4, <1>5
<1> QED
  BY <1>3, <1>6

LEMMA LastCallReturns ==
  ASSUME IInv, Len(frames) = 1, frames' = <<>>
  PROVE  Calls' = SubSeq(Calls, 1, Len(Calls) - 1) /\ Calls # <<>>
<1>1. Calls \in Seq(Method) /\ Len(Calls) = 1
  BY CallsAre
<1>2. SubSeq(Calls, 1, Len(Calls) - 1) = <<>> /\ Calls # <<>>
  BY <1>1
<1>3. Calls' = <<>>
  BY DEF Calls
<1> QED
  BY <1>2, <1>3

LEMMA HandlerIsCalled ==
  ASSUME frames' = <<NewFrame(UncaughtHandler)>>
  PROVE  Calls' = <<UncaughtHandler>>
<1> PICK h : h = NewFrame(UncaughtHandler) /\ h.method = UncaughtHandler
  BY DEF NewFrame
<1>1. DOMAIN frames' = {1} /\ frames'[1] = h
  OBVIOUS
<1>2. Calls' = [i \in {1} |-> UncaughtHandler]
  BY <1>1 DEF Calls
<1> QED
  BY <1>2

-----------------------------------------------------------------------------
LEMMA InitIsPromised == Init => Promise!Init
<1> SUFFICES ASSUME Init
             PROVE  Promise!Init
  OBVIOUS
<1> PICK h : h = NewFrame(Main)
  OBVIOUS
<1>0. h.method = Main
  BY DEF NewFrame
<1>1. DOMAIN frames = {1} /\ frames[1] = h
  BY DEF Init
<1>2. Calls = [i \in {1} |-> Main]
  BY <1>0, <1>1 DEF Calls
<1>3. Calls = <<Main>>
  BY <1>2
<1> QED
  BY <1>3 DEF Init, Promise!Init

LEMMA EffectIsPromised ==
  ASSUME IInv, Effect
  PROVE  [Promise!Next]_Promise!vars
<1>1. ASSUME frames' = frames \/ \E g \in Frame : Moves(g), Unchanged
      PROVE  UNCHANGED Promise!vars
  <2>1. Calls' = Calls
    BY <1>1, MovesKeepCalls
  <2> QED
    BY <1>1, <2>1 DEF Promise!vars, Unchanged
<1>2. ASSUME mCurrentException = NULL, Unchanged,
             NEW g \in Frame, NEW m \in Method, Pushes(g, m)
      PROVE  Promise!Call(m)
  <2>1. Calls' = Append(Calls, m) /\ Calls # <<>>
    BY <1>2, PushesAppendCall, CallsAre DEF Pushes
  <2> QED
    BY <1>2, <2>1 DEF Promise!Call, Unchanged
<1>3. ASSUME Unchanged, NEW g \in Frame, Pops(g)
      PROVE  Promise!Return \/ Promise!Unwind
  <2>1. Calls' = SubSeq(Calls, 1, Len(Calls) - 1) /\ Len(Calls) > 1
    BY <1>3, PopsDropCall
  <2>2. Calls # <<>>
    BY <1>3, CallsAre DEF Pops
  <2> QED
    BY <1>3, <2>1, <2>2 DEF Promise!Return, Promise!Unwind, Unchanged
<1>4. ASSUME mCurrentException = NULL, Unchanged, Len(frames) = 1, frames' = <<>>
      PROVE  Promise!Return
  BY <1>4, LastCallReturns DEF Promise!Return, Unchanged
<1>5. ASSUME Thrown
      PROVE  Promise!Throw(mCurrentException')
  <2>1. Calls' = Calls /\ Calls # <<>>
    BY <1>5, MovesKeepCalls, CallsAre DEF Thrown, Moves
  <2> QED
    BY <1>5, <2>1 DEF Thrown, Promise!Throw
<1>6. ASSUME CaughtByTop
      PROVE  Promise!Catch
  <2>1. frames # <<>>
    BY <1>6 DEF CaughtByTop, Moves
  <2>2. Calls' = Calls /\ Calls # <<>>
    BY <1>6, <2>1, MovesKeepCalls, CallsAre DEF CaughtByTop
  <2>3. Calls[Len(Calls)] = Top.method
    BY <2>1, CallsAre, TopFacts DEF IInv, Typed
  <2> QED
    BY <1>6, <2>2, <2>3 DEF CaughtByTop, Promise!Catch
<1>7. ASSUME GivenUp
      PROVE  Promise!GiveUp
  <2>1. Calls' = <<UncaughtHandler>> /\ Len(Calls) = 1
    BY <1>7, HandlerIsCalled, CallsAre DEF GivenUp
  <2> QED
    BY <1>7, <2>1 DEF GivenUp, Promise!GiveUp
<1>8. CASE (\E g \in Frame : Pops(g)) /\ Unchanged
  <2>1. Promise!Return \/ Promise!Unwind
    BY <1>3, <1>8
  <2> QED
    BY <2>1 DEF Promise!Next
<1>9. CASE /\ mCurrentException = NULL /\ Unchanged
           /\ \E g \in Frame, m \in Method : Pushes(g, m)
  <2>1. \E m \in Method : Promise!Call(m)
    BY <1>2, <1>9
  <2> QED
    BY <2>1 DEF Promise!Next
<1>10. CASE Thrown
  <2>1. \E e \in Exception : Promise!Throw(e)
    BY <1>5, <1>10 DEF Thrown
  <2> QED
    BY <2>1 DEF Promise!Next
<1>11. CASE CaughtByTop
  BY <1>6, <1>11 DEF Promise!Next
<1>12. CASE GivenUp
  BY <1>7, <1>12 DEF Promise!Next
<1>13. CASE /\ mCurrentException = NULL /\ Unchanged
            /\ Len(frames) = 1 /\ frames' = <<>>
  BY <1>4, <1>13 DEF Promise!Next
<1>14. CASE (frames' = frames \/ \E g \in Frame : Moves(g)) /\ Unchanged
  BY <1>1, <1>14
<1> QED
  BY <1>8, <1>9, <1>10, <1>11, <1>12, <1>13, <1>14 DEF Effect

(* JavaThread, the interpreter and native calls: no exception is lost or   *)
(* replaced, frames are left one by one until a method catches it, no      *)
(* method runs or is called in the meantime, and an exception that nobody  *)
(* catches is given to the uncaught-exception handler, once.               *)
THEOREM ExceptionsUnwindAsPromised ==
  ASSUME NothingIsIgnored
  PROVE  Spec => ExceptionsUnwind
<1>1. IInv /\ ExceptionsAreSeen /\ [Next]_vars => [Promise!Next]_Promise!vars
  BY StepSees, EffectIsPromised DEF Sees
<1> QED
  BY <1>1, InitIsPromised, ExceptionsStaySeen, PTL
     DEF Spec, ExceptionsUnwind, Promise!Spec

==============================================================================
