----------------------------- MODULE Invocation -----------------------------
(***************************************************************************)
(* The Java thread: calls, returns, exceptions, class initialization and   *)
(* native frames (Thread.cpp, the invocations and exception checks of      *)
(* Interpreter.cpp, JClass::initialize, NativeMethod::invoke).             *)
(*                                                                         *)
(* The C++ code is recursive: execute() calls invoke(), which calls        *)
(* execute(); initialize() calls invokeWithArgs().  Its C++ stack is kept  *)
(* in the Java frames: what a frame's code waits for is in its fields at,  *)
(* tasks and then.  Methods are known by what the control flow depends on: *)
(* native or interpreted, with exception handlers or without, the operands *)
(* they take.  An operand is an exception or any other value; where the    *)
(* program counter is in the method is left open, so whether a handler     *)
(* covers it is, too.                                                      *)
(***************************************************************************)
EXTENDS Naturals, FiniteSets, Sequences, SequencesExt

CONSTANTS
  Interpreted,      \* methods with code
  Native,           \* native methods
  Linked,           \* the native methods a library function is found for
  HasHandlers,      \* interpreted methods with a non-empty exception table
  ReturnsValue,     \* methods with a return type
  NumSlots,         \* Method -> Nat: operands a call takes, receiver included
  Class,
  Owner,            \* Method -> Class: JMethod::getClass
  Supers,           \* Class -> Seq(Class): superclass, then superinterfaces;
                    \* empty for an interface
  Initializer,      \* Class -> Interpreted \cup {NULL}: <clinit>
  Main,             \* the method the thread is started with
  UncaughtHandler,  \* ThreadGroup.uncaughtException
  Exception,        \* exception instances
  NULL,
  MaxFrames,        \* calls that fit in the call stack space
  MaxStack,         \* maxStack of a method's code
  MaxHandles,       \* bound: JNI handles a native frame makes
  InitializersThrow,       \* an exception may leave a <clinit>
  ResolutionFails          \* a class named by a new instruction may be missing

Method == Interpreted \cup Native
Initializers == {Initializer[c] : c \in Class} \ {NULL}

ASSUME MethodAssumption ==
  /\ Interpreted \cap Native = {}
  /\ Linked \subseteq Native
  /\ HasHandlers \subseteq Interpreted
  /\ ReturnsValue \subseteq Method \ Initializers
  /\ NumSlots \in [Method -> Nat]
  /\ {Main, UncaughtHandler} \subseteq Interpreted \ Initializers
  /\ NULL \notin Method \cup Exception \cup Class

ASSUME ClassAssumption ==
  /\ Owner \in [Method -> Class]
  /\ Supers \in [Class -> Seq(Class)]
  /\ Initializer \in [Class -> Interpreted \cup {NULL}]
  /\ \A c \in Class : Initializer[c] # NULL =>
       Owner[Initializer[c]] = c /\ NumSlots[Initializer[c]] = 0

ASSUME BoundAssumption ==
  /\ MaxFrames \in Nat \ {0} /\ MaxStack \in Nat \ {0} /\ MaxHandles \in Nat
  /\ {InitializersThrow, ResolutionFails} \subseteq BOOLEAN

VARIABLES
  frames,                 \* the call stack, the current frame last
  mCurrentException,
  pins,                   \* roots that are held for mCurrentException
  mHasUncaughtException,
  mJniHandles,            \* number of handles of each native frame
  mStatus,                \* Class -> Status
  phase                   \* what has become of the process

vars == <<frames, mCurrentException, pins, mHasUncaughtException, mJniHandles,
          mStatus, phase>>

excVars == <<mCurrentException, pins, mHasUncaughtException>>

(* Any operand that is not an exception being thrown. *)
Value == "value"

(* What JClass::initialize still has to do, the next thing first. *)
Task == [do : {"initialize", "run", "finish"}, class : Class]

(* The instruction, or JNI function, that goes on once a class is          *)
(* initialized.                                                            *)
Access == [op : {"new", "getstatic", "putstatic", "jni"}, method : {NULL}]
            \cup [op : {"invokestatic"}, method : Method]

Nothing == [op |-> "none", method |-> NULL]

(* A frame is at                                                           *)
(*   "run"     the top of the interpreter's loop,                          *)
(*   "call"    an invocation: the frame above is the callee's,             *)
(*   "init"    an initialization, on behalf of the access in then,         *)
(*   "check"   the end of an instruction that has left an exception,       *)
(*   "native"  the body of a native method,                                *)
(*   "leave"   the end of a native method that has thrown.                 *)
IsFrame(f) ==
  /\ f.method \in Method
  /\ f.at \in {"run", "call", "init", "check", "native", "leave"}
  /\ f.operands \in Seq(Exception \cup {Value})
  /\ f.tasks \in Seq(Task)
  /\ f.then \in Access \cup {Nothing}
  /\ f.method \in Native => f.at \in {"native", "init", "leave"}

TypeOK ==
  /\ \A i \in DOMAIN frames : IsFrame(frames[i])
  /\ Len(frames) \in 0 .. MaxFrames
  /\ mCurrentException \in Exception \cup {NULL}
  /\ pins \in Nat
  /\ mHasUncaughtException \in BOOLEAN
  /\ mJniHandles \in Seq(Nat)
  /\ mStatus \in [Class -> {"prepared", "under", "initialized"}]
  /\ phase \in {"running", "ended", "exited", "panicked", "asserted"}

NewFrame(m) ==
  [method |-> m, at |-> IF m \in Native THEN "native" ELSE "run",
   operands |-> <<>>, tasks |-> <<>>, then |-> Nothing]

Init ==
  /\ frames = <<NewFrame(Main)>>
  /\ mCurrentException = NULL
  /\ pins = 0
  /\ mHasUncaughtException = FALSE
  /\ mJniHandles = <<>>
  /\ mStatus = [c \in Class |-> "prepared"]
  /\ phase = "running"

-----------------------------------------------------------------------------
Top == frames[Len(frames)]
WithTop(f) == [frames EXCEPT ![Len(frames)] = f]

At(place) == phase = "running" /\ frames # <<>> /\ Top.at = place

(* Mutant: an instruction that does not look for exceptions. *)
AfterUnchecked(exception) == "run"

(* Where an instruction that checks for exceptions leaves the interpreter. *)
AfterInstruction(exception) == IF exception = NULL THEN "run" ELSE "check"

Drop(operands, n) == SubSeq(operands, 1, Len(operands) - n)

(* What the program is taken not to do: let an exception leave a <clinit>. *)
MayThrow ==
  \/ InitializersThrow
  \/ \A i \in DOMAIN frames :
       frames[i].method \in Initializers => frames[i].method \in HasHandlers

(* The operands are on the stack, and there is space for the result. *)
MayInvoke(m) ==
  /\ Len(Top.operands) >= NumSlots[m]
  /\ m \in ReturnsValue => Len(Top.operands) - NumSlots[m] < MaxStack
  /\ m \in Native \ Linked => MayThrow

(* JavaThread::throwException of an instance: the current frame is left as *)
(* g; n roots are pinned for the exception.                                *)
Throw(e, g, n) ==
  IF mHasUncaughtException
  THEN phase' = "panicked" /\ UNCHANGED <<frames, excVars>>
  ELSE IF mCurrentException # NULL
  THEN phase' = "asserted" /\ UNCHANGED <<frames, excVars>>
  ELSE /\ mCurrentException' = e
       /\ pins' = n
       /\ frames' = WithTop(IF g.method \in Native THEN g
                            ELSE [g EXCEPT !.operands = <<e>>])
       /\ UNCHANGED <<mHasUncaughtException, phase>>

(* Mutant: the operand stack is not cleared. *)
HandleWithoutClearing(f) ==
  IF mCurrentException # NULL /\ f.method \in HasHandlers
  THEN [f EXCEPT !.operands = Append(@, mCurrentException)]
  ELSE f

(* JavaThread::handleCalleeException, for the caller's frame f. *)
HandleCalleeException(f) ==
  IF mCurrentException # NULL /\ f.method \in HasHandlers
  THEN [f EXCEPT !.operands = <<mCurrentException>>]
  ELSE f

(* newFrame, and prepareNativeFrame for a native method that is linked,    *)
(* whose arguments become handles; caller is left as f.                    *)
Enter(m, f) ==
  IF Len(frames) >= MaxFrames
  THEN phase' = "panicked" /\ UNCHANGED <<frames, mJniHandles>>
  ELSE /\ frames' = Append(WithTop(f), NewFrame(m))
       /\ mJniHandles' = IF m \in Linked THEN Append(mJniHandles, NumSlots[m])
                         ELSE mJniHandles
       /\ UNCHANGED phase

-----------------------------------------------------------------------------
(* Interpreted code.                                                       *)

(* An instruction that only moves operands. If an exception is pending, it *)
(* may be one that does not look for it.                                   *)
Compute ==
  /\ At("run")
  /\ \E o \in {Append(Top.operands, Value), Drop(Top.operands, 1)},
        at \in {"run", AfterInstruction(mCurrentException)} :
       /\ Len(o) <= MaxStack /\ o # Top.operands
       /\ frames' = WithTop([Top EXCEPT !.operands = o, !.at = at])
  /\ UNCHANGED <<excVars, mJniHandles, mStatus, phase>>

(* JavaThread::invoke. The operands of an interpreted method stay on the   *)
(* stack during the call, those of a native method are popped before it.   *)
Invoke(m, f) ==
  Enter(m, [f EXCEPT !.at = "call",
                     !.operands = IF m \in Native THEN Drop(@, NumSlots[m])
                                  ELSE @])

(* invokevirtual, invokespecial and invokeinterface. *)
InvokeMethod(m) ==
  /\ At("run") /\ MayInvoke(m)
  /\ Invoke(m, Top)
  /\ UNCHANGED <<excVars, mStatus>>

(* new, getstatic, putstatic and invokestatic initialize a class first. *)
BeginAccess(access, c) ==
  /\ At("run")
  /\ access.op = "putstatic" => Top.operands # <<>>
  /\ access.op \in {"new", "getstatic"} => Len(Top.operands) < MaxStack
  /\ access.op = "invokestatic" =>
       c = Owner[access.method] /\ MayInvoke(access.method)
  /\ frames' = WithTop([Top EXCEPT !.at = "init", !.then = access,
                          !.tasks = <<[do |-> "initialize", class |-> c]>>])
  /\ UNCHANGED <<excVars, mJniHandles, mStatus, phase>>

(* A throwException(name, message) of the interpreter, which creates the   *)
(* exception with a root of its own.                                       *)
ThrowNew ==
  /\ At("run") /\ MayThrow
  /\ \E e \in Exception : Throw(e, [Top EXCEPT !.at = "check"], 2)
  /\ UNCHANGED <<mJniHandles, mStatus>>

(* A new instruction whose class cannot be loaded breaks out of the switch *)
(* before the exception is checked.                                        *)
NewOfMissingClass ==
  /\ At("run") /\ MayThrow /\ ResolutionFails
  /\ \E e \in Exception : Throw(e, Top, 2)
  /\ UNCHANGED <<mJniHandles, mStatus>>

AThrow ==
  /\ At("run") /\ MayThrow
  /\ Top.operands # <<>>
  /\ \E e \in Exception : Throw(e, [Top EXCEPT !.at = "check"], 1)
  /\ UNCHANGED <<mJniHandles, mStatus>>

(* Mutant: the exception is not cleared. *)
CatchWithoutClear ==
  /\ At("check")
  /\ Top.method \in HasHandlers
  /\ frames' = WithTop([Top EXCEPT !.at = "run",
                          !.operands = [i \in DOMAIN @ |-> Value]])
  /\ UNCHANGED <<excVars, mJniHandles, mStatus, phase>>

(* checkException: a handler of the method covers the instruction and      *)
(* catches exceptions of this class. The exception that was on the operand *)
(* stack is a value like any other from now on.                            *)
Catch ==
  /\ At("check")
  /\ Top.method \in HasHandlers
  /\ frames' = WithTop([Top EXCEPT !.at = "run",
                          !.operands = [i \in DOMAIN @ |-> Value]])
  /\ mCurrentException' = NULL
  /\ pins' = pins - 1
  /\ UNCHANGED <<mHasUncaughtException, mJniHandles, mStatus, phase>>

-----------------------------------------------------------------------------
(* The end of invoke and invokeWithArgs: the callee's frame is popped, its *)
(* exception handed to the caller's frame or, if there is none, to the     *)
(* handler of uncaught exceptions.                                         *)

(* The caller's frame; in an invocation, the operands of an interpreted    *)
(* callee are popped and the value it returned, if any, is pushed.         *)
AfterCall(caller, callee, hasValue) ==
  LET popped == IF callee \in Interpreted
                THEN [caller EXCEPT !.operands = Drop(@, NumSlots[callee])]
                ELSE caller
      handled == HandleCalleeException(popped)
  IN  IF caller.at = "init" THEN HandleCalleeException(caller)
      ELSE [handled EXCEPT
              !.at = AfterInstruction(mCurrentException),
              !.operands = IF hasValue THEN Append(@, Value) ELSE @]

LeaveFrame(hasValue) ==
  LET n == Len(frames) IN
  /\ \/ /\ n > 1
        /\ frames' = Append(SubSeq(frames, 1, n - 2),
                            AfterCall(frames[n - 1], Top.method, hasValue))
        /\ UNCHANGED <<excVars, phase>>
     \/ /\ n = 1 /\ mCurrentException = NULL
        /\ frames' = <<>>
        /\ phase' = IF mHasUncaughtException THEN "exited" ELSE "ended"
        /\ UNCHANGED excVars
     \/ /\ n = 1 /\ mCurrentException # NULL
        /\ frames' = <<NewFrame(UncaughtHandler)>>
        /\ mCurrentException' = NULL
        /\ pins' = pins - 1
        /\ mHasUncaughtException' = TRUE
        /\ UNCHANGED phase
  /\ UNCHANGED mStatus

(* A return instruction. *)
Return ==
  /\ At("run")
  /\ Top.method \in ReturnsValue => Top.operands # <<>>
  /\ LeaveFrame(Top.method \in ReturnsValue)
  /\ UNCHANGED mJniHandles

(* checkException: no handler, or none that covers the instruction. *)
Unwind ==
  /\ At("check")
  /\ Top.method \in Initializers => InitializersThrow
  /\ LeaveFrame(FALSE)
  /\ UNCHANGED mJniHandles

-----------------------------------------------------------------------------
(* JClass::initialize.                                                     *)

TopTask(what) == At("init") /\ Top.tasks # <<>> /\ Head(Top.tasks).do = what
Target == Head(Top.tasks).class
WithTasks(tasks) == [Top EXCEPT !.tasks = tasks]

(* Mutants: the superclass comes last; an initialized class is initialized *)
(* again.                                                                  *)
InitializeSupersLast ==
  /\ TopTask("initialize")
  /\ \/ /\ mStatus[Target] = "prepared"
        /\ mStatus' = [mStatus EXCEPT ![Target] = "under"]
        /\ frames' = WithTop(WithTasks(
             <<[do |-> "run", class |-> Target]>>
             \o [i \in DOMAIN Supers[Target] |->
                [do |-> "initialize", class |-> Supers[Target][i]]]
             \o Tail(Top.tasks)))
     \/ /\ mStatus[Target] # "prepared"
        /\ frames' = WithTop(WithTasks(Tail(Top.tasks)))
        /\ UNCHANGED mStatus
  /\ UNCHANGED <<excVars, mJniHandles, phase>>

InitializeAgain ==
  /\ TopTask("initialize")
  /\ \/ /\ mStatus[Target] # "under"
        /\ mStatus' = [mStatus EXCEPT ![Target] = "under"]
        /\ frames' = WithTop(WithTasks(
             [i \in DOMAIN Supers[Target] |->
                [do |-> "initialize", class |-> Supers[Target][i]]]
             \o <<[do |-> "run", class |-> Target]>> \o Tail(Top.tasks)))
     \/ /\ mStatus[Target] = "under"
        /\ frames' = WithTop(WithTasks(Tail(Top.tasks)))
        /\ UNCHANGED mStatus
  /\ UNCHANGED <<excVars, mJniHandles, phase>>

Initialize ==
  /\ TopTask("initialize")
  /\ \/ /\ mStatus[Target] = "prepared"
        /\ mStatus' = [mStatus EXCEPT ![Target] = "under"]
        /\ frames' = WithTop(WithTasks(
             [i \in DOMAIN Supers[Target] |->
                [do |-> "initialize", class |-> Supers[Target][i]]]
             \o <<[do |-> "run", class |-> Target]>> \o Tail(Top.tasks)))
     \/ /\ mStatus[Target] # "prepared"
        /\ frames' = WithTop(WithTasks(Tail(Top.tasks)))
        /\ UNCHANGED mStatus
  /\ UNCHANGED <<excVars, mJniHandles, phase>>

RunInitializer ==
  LET f == WithTasks(<<[do |-> "finish", class |-> Target]>> \o Tail(Top.tasks))
  IN
  /\ TopTask("run")
  /\ IF Initializer[Target] # NULL
     THEN Enter(Initializer[Target], f)
     ELSE frames' = WithTop(f) /\ UNCHANGED <<mJniHandles, phase>>
  /\ UNCHANGED <<excVars, mStatus>>

FinishInitialization ==
  /\ TopTask("finish")
  /\ mStatus' = [mStatus EXCEPT ![Target] = "initialized"]
  /\ frames' = WithTop(WithTasks(Tail(Top.tasks)))
  /\ UNCHANGED <<excVars, mJniHandles, phase>>

(* The access goes on. Only invokestatic looks for an exception first.     *)
Initialized(op) == At("init") /\ Top.tasks = <<>> /\ Top.then.op = op

FinishInvokeStatic ==
  LET f == [Top EXCEPT !.then = Nothing] IN
  /\ Initialized("invokestatic")
  /\ IF mCurrentException = NULL
     THEN Invoke(Top.then.method, f)
     ELSE /\ frames' = WithTop([f EXCEPT !.at = "check"])
          /\ UNCHANGED <<mJniHandles, phase>>
  /\ UNCHANGED <<excVars, mStatus>>

FinishAccess ==
  LET f == [Top EXCEPT !.then = Nothing,
                       !.at = AfterInstruction(mCurrentException)]
  IN
  /\ \/ /\ Initialized("new") \/ Initialized("getstatic")
        /\ frames' = WithTop([f EXCEPT !.operands = Append(@, Value)])
     \/ /\ Initialized("putstatic")
        /\ frames' = WithTop([f EXCEPT !.operands = Drop(@, 1)])
     \/ /\ Initialized("jni")
        /\ frames' = WithTop([f EXCEPT !.at = "native"])
  /\ UNCHANGED <<excVars, mJniHandles, mStatus, phase>>

-----------------------------------------------------------------------------
(* Native methods.                                                         *)

(* GetFieldID and GetMethodID initialize the class they look into. *)
JniInitialize(c) ==
  /\ At("native") /\ Top.method \in Linked
  /\ frames' = WithTop([Top EXCEPT !.at = "init",
                          !.then = [op |-> "jni", method |-> NULL],
                          !.tasks = <<[do |-> "initialize", class |-> c]>>])
  /\ UNCHANGED <<excVars, mJniHandles, mStatus, phase>>

(* GetObjectField, for one. *)
AddJniHandle ==
  /\ At("native") /\ Top.method \in Linked
  /\ Last(mJniHandles) < NumSlots[Top.method] + MaxHandles
  /\ mJniHandles' = [mJniHandles EXCEPT ![Len(mJniHandles)] = @ + 1]
  /\ UNCHANGED <<frames, excVars, mStatus, phase>>

(* A JNI function, or the native method itself, throws; native methods     *)
(* return at once then. A method that is not linked throws all the time.   *)
ThrowInNative ==
  /\ At("native") /\ MayThrow
  /\ \E e \in Exception : Throw(e, [Top EXCEPT !.at = "leave"], 2)
  /\ UNCHANGED <<mJniHandles, mStatus>>

(* Mutant: the handles are only released if the method has not thrown. *)
NativeReturnKeepingHandles ==
  /\ At("native") \/ At("leave")
  /\ At("native") => Top.method \in Linked
  /\ LeaveFrame(Top.method \in ReturnsValue \cap Linked)
  /\ mJniHandles' = IF At("native") THEN Front(mJniHandles) ELSE mJniHandles

(* releaseNativeFrame, and the translation of the returned value, which is *)
(* made whether the method has thrown or not. If it goes beyond the        *)
(* operand stack of the caller, as that of Object.clone may, it is where   *)
(* nothing is yet; a build with assertions stops there (Frame.h:115).      *)
NativeReturn ==
  /\ At("native") \/ At("leave")
  /\ At("native") => Top.method \in Linked
  /\ LeaveFrame(Top.method \in ReturnsValue \cap Linked)
  /\ mJniHandles' = IF Top.method \in Linked THEN Front(mJniHandles)
                    ELSE mJniHandles

-----------------------------------------------------------------------------
(* Methods the program's code can name. *)
Callable == Method \ (Initializers \cup {UncaughtHandler})

Interpret ==
  \/ Compute
  \/ \E m \in Callable : InvokeMethod(m)
  \/ \E c \in Class :
       \E access \in Access :
         /\ access.op # "jni" /\ access.method \in Callable \cup {NULL}
         /\ BeginAccess(access, c)
  \/ ThrowNew \/ NewOfMissingClass \/ AThrow \/ Return

Dispatch == Catch \/ Unwind

InitializeClass ==
  \/ Initialize \/ RunInitializer \/ FinishInitialization
  \/ FinishInvokeStatic \/ FinishAccess

RunNative ==
  \/ \E c \in Class : JniInitialize(c)
  \/ AddJniHandle \/ ThrowInNative \/ NativeReturn

(* The process has ended. *)
Ended == phase # "running" /\ UNCHANGED vars

Next == Interpret \/ Dispatch \/ InitializeClass \/ RunNative \/ Ended

Spec == Init /\ [][Next]_vars

(* The interpreter goes on with what it has begun; a program may run, and  *)
(* a native method may take, as long as it likes, but a native method that *)
(* has thrown returns.                                                     *)
Fairness ==
  /\ WF_vars(Dispatch)
  /\ WF_vars(InitializeClass)
  /\ WF_vars(At("leave") /\ NativeReturn)

FairSpec == Spec /\ Fairness

-----------------------------------------------------------------------------
Calls == [i \in DOMAIN frames |-> frames[i].method]

Promise == INSTANCE JavaExceptions
  WITH Catches <- HasHandlers, calls <- Calls,
       inFlight <- mCurrentException, uncaught <- mHasUncaughtException

(* No exception is lost, replaced or caught twice, and no code runs past   *)
(* one: JavaThread and the interpreter do as JavaExceptions promises.      *)
ExceptionsUnwind == Promise!Spec

Caught ==
  /\ mCurrentException # NULL /\ mCurrentException' = NULL
  /\ mHasUncaughtException' = mHasUncaughtException

(* A handler starts with the exception it catches, and nothing else, on    *)
(* the operand stack: what throwException and handleCalleeException push   *)
(* is neither buried nor popped before checkException finds the handler.   *)
HandlerGetsException == [][Caught => Top.operands = <<mCurrentException>>]_vars

LooksForHandler == At("check") /\ Top.method \in HasHandlers

(* The value of a native method that has thrown lies on the exception.     *)
BuriedByNative ==
  /\ Top.at = "leave" /\ Top.method \in ReturnsValue \cap Linked
  /\ Top.operands' = <<mCurrentException', Value>>

(* Whatever frames an exception leaves, a method with handlers that is to  *)
(* deal with it has it on the operand stack, alone but for the value of a  *)
(* native method that has just thrown: NativeMethod::invoke makes a value  *)
(* and DefaultInterpreter::invoke pushes it although there is an exception *)
(* (Object.clone).                                                         *)
ExceptionReachesHandler ==
  [][LooksForHandler' =>
       Top.operands' = <<mCurrentException'>> \/ BuriedByNative]_vars

(* "There is already an exception instance" (Thread.cpp:209). *)
NoSecondException == phase # "asserted"

(* Once an exception has been caught or given up, no root keeps it alive. *)
ExceptionRootsAreReleased == mCurrentException = NULL => pins = 0

(* The handles of native frames are released with their frames, however    *)
(* these are left, and those of the frames below stay: the lists of        *)
(* handles are those of the native frames on the stack, in their order.    *)
HandlesBelongToFrames ==
  \E owner \in [DOMAIN mJniHandles -> DOMAIN frames] :
    /\ \A h \in DOMAIN mJniHandles :
         mJniHandles[h] >= NumSlots[frames[owner[h]].method]
    /\ \A h, k \in DOMAIN mJniHandles : h < k => owner[h] < owner[k]
    /\ \A i \in DOMAIN frames :
         frames[i].method \in Linked <=> \E h \in DOMAIN mJniHandles : owner[h] = i

(* A class is under initialization for as long as some frame has to finish *)
(* it; its <clinit> runs in the meantime, at most once; and the classes it *)
(* needs have been initialized before, or are being initialized by a frame *)
(* further down.                                                           *)
InitializationIsOrderly ==
  LET Finishing(c, i) ==
        \E k \in DOMAIN frames[i].tasks :
          frames[i].tasks[k].class = c /\ frames[i].tasks[k].do # "initialize"
      Runs(c, i) == frames[i].method = Initializer[c]
  IN
  phase = "running" => \A c \in Class :
    /\ mStatus[c] = "under" <=> \E i \in DOMAIN frames : Finishing(c, i)
    /\ \A i, j \in DOMAIN frames :
         /\ Finishing(c, i) /\ Finishing(c, j) => i = j
         /\ Runs(c, i) /\ Runs(c, j) => i = j
         /\ Runs(c, i) => /\ mStatus[c] = "under"
                          /\ \A s \in Range(Supers[c]) : mStatus[s] # "prepared"

(* A class that is initialized stays so, and a <clinit> is only called for *)
(* a class that is not.                                                    *)
InitializedOnce ==
  [][\A c \in Class :
       /\ mStatus[c] = "initialized" => mStatus'[c] = "initialized"
       /\ mStatus[c] = "under" => mStatus'[c] # "prepared"]_vars

(* An exception that has been thrown is caught, or given up. *)
ExceptionsAreDealtWith ==
  mCurrentException # NULL ~> mCurrentException = NULL \/ phase # "running"
=============================================================================
