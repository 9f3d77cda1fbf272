----------------------------- MODULE FrameRoots -----------------------------
(***************************************************************************)
(* The roots in a call frame.  Slots of locals and operand stack carry no  *)
(* type at run time; for each frame on the call stack the collector        *)
(* recomputes which slots hold references: it walks the bytecode to find   *)
(* the current instruction (FrameRoots::compute), picks the last stack map *)
(* frame before it (StackMap) and executes the instructions in between on  *)
(* one flag per slot (AbstractInterpreter).                                *)
(*                                                                         *)
(* The interpreter executes a method here one instruction at a time, and   *)
(* every slot carries the type the class file's verifier gives it.  The    *)
(* method is written while it runs: each step appends any instruction of   *)
(* menu that the types allow, or a stack map frame with the types of the   *)
(* locals, any of them given up, as a compiler writes where branches meet. *)
(* So all verifiable methods up to the bounds are tried.  A float is an    *)
(* "int" here and a double a "long": they differ in neither width nor      *)
(* flag.  As null and uninitialized objects, too, are "ref".               *)
(***************************************************************************)
EXTENDS Integers, Sequences, SequencesExt

CONSTANTS
  Methods,          \* the families of methods that are tried, see below
  HandlersLoaded    \* catch types are loaded before their handler is looked up

Kind == {"int", "long", "ref"}
Tag == Kind \cup {"half", "top"}    \* second slot of a long; no usable value

(* Flow is what an instruction does to the types, Bytes its operand bytes. *)
(* Where noise is not 0, the operand bytes read as opcodes that have noise *)
(* operand bytes.                                                          *)
Instruction(op) ==
  [op |-> op, kind |-> "int", to |-> "int", slot |-> 1, args |-> <<>>,
   bytes |-> 0, noise |-> 0]

Shuffles == {"pop", "pop2", "dup", "dup_x1", "dup_x2", "dup2", "dup2_x1",
             "dup2_x2", "swap"}
Jumps == {"goto", "goto_w", "switch"}
Exits == {"return", "athrow"}

(* The kinds of some values and the tags of their slots.                   *)
Slots(kind) == IF kind = "long" THEN <<"long", "half">> ELSE <<kind>>

Spread(kinds) ==
  LET spread[n \in 0..Len(kinds)] ==
        IF n = 0 THEN <<>> ELSE spread[n - 1] \o Slots(kinds[n])
  IN  spread[Len(kinds)]

Kinds(tags) ==
  LET kinds[n \in 0..Len(tags)] ==
        IF n = 0 THEN <<>>
        ELSE IF tags[n] = "half" THEN kinds[n - 1] ELSE Append(kinds[n - 1], tags[n])
  IN  kinds[Len(tags)]

Width(kinds) == Len(Spread(kinds))

(* A family is the methods with these parameters, receiver included, and   *)
(* sizes of the frame that are made of at most `code` instructions of its  *)
(* menu and at most `frames` stack map frames.                             *)
ASSUME BoundAssumption ==
  /\ \A m \in Methods :
       /\ m.parameters \in Seq(Kind) /\ m.locals \in Nat
       /\ Width(m.parameters) <= m.locals
       /\ m.stack \in Nat \ {0} /\ m.code \in Nat /\ m.frames \in Nat
  /\ HandlersLoaded \in BOOLEAN

\* Instructions with operands of their own length are few.
ASSUME MenuAssumption ==
  \A m \in Methods : \A i \in m.menu :
    /\ i \in [op : STRING, kind : Kind, to : Kind \cup {"void"}, slot : Nat \ {0},
              args : Seq(Kind), bytes : Nat, noise : Nat]
    /\ i.op = "convert" => i.to \in Kind
    /\ i.bytes > 0 => i.op \in {"const", "ldc", "load", "store", "newarray", "switch"}

VARIABLES
  code,       \* the instructions written so far
  table,      \* the entries of the method's StackMapTable
  method,     \* its family
  at,         \* the program counter is behind instruction at
  phase,      \* "next", "operands" or "popped": between two instructions, in
              \* one before and after it pops; "jump": control cannot fall
              \* through; "thrown": looking for a handler; "left"
  locals, stack   \* the tags of the frame's slots

vars == <<code, table, method, at, phase, locals, stack>>

MaxLocals == method.locals
MaxStack == method.stack

WholeLongs(tags) ==
  \A i \in DOMAIN tags :
    /\ tags[i] = "long" => i < Len(tags) /\ tags[i + 1] = "half"
    /\ tags[i] = "half" => i > 1 /\ tags[i - 1] = "long"

Drop(n, s) == SubSeq(s, 1, Len(s) - n)
Top(n, s) == SubSeq(s, Len(s) - n + 1, Len(s))

-----------------------------------------------------------------------------
(* The interpreter *)

Operands(i) ==
  CASE i.op = "arrayload" -> <<"ref", "int">>
    [] i.op = "arraystore" -> <<"ref", "int", i.kind>>
    [] i.op \in {"binary", "compare"} -> <<i.kind, i.kind>>
    [] i.op = "shift" -> <<i.kind, "int">>
    [] i.op \in {"store", "neg", "convert", "putstatic"} -> <<i.kind>>
    [] i.op = "putfield" -> <<"ref", i.kind>>
    [] i.op \in {"getfield", "arraylength", "checkcast", "instanceof",
                 "monitor", "athrow"} -> <<"ref">>
    [] i.op \in {"newarray", "switch"} -> <<"int">>
    [] i.op \in {"invoke", "invokeinterface", "multianewarray", "if",
                 "return"} -> i.args
    [] OTHER -> <<>>

Results(i) ==
  CASE i.op \in {"const", "ldc", "load", "arrayload", "binary", "shift",
                 "neg", "getstatic", "getfield"} -> <<i.kind>>
    [] i.op = "convert" -> <<i.to>>
    [] i.op \in {"compare", "arraylength", "instanceof"} -> <<"int">>
    [] i.op \in {"new", "newarray", "multianewarray", "checkcast"} -> <<"ref">>
    [] i.op \in {"invoke", "invokeinterface"} ->
         IF i.to = "void" THEN <<>> ELSE <<i.to>>
    [] OTHER -> <<>>

(* The slots the instruction moves, counted from the bottom of those it    *)
(* takes, and the order it leaves them in.                                 *)
Taken(op) ==
  CASE op \in {"pop", "dup"} -> 1
    [] op \in {"pop2", "dup_x1", "dup2", "swap"} -> 2
    [] op \in {"dup_x2", "dup2_x1"} -> 3
    [] op = "dup2_x2" -> 4

Left(op) ==
  CASE op \in {"pop", "pop2"} -> <<>>
    [] op = "dup" -> <<1, 1>>
    [] op = "dup_x1" -> <<2, 1, 2>>
    [] op = "dup_x2" -> <<3, 1, 2, 3>>
    [] op = "dup2" -> <<1, 2, 1, 2>>
    [] op = "dup2_x1" -> <<2, 3, 1, 2, 3>>
    [] op = "dup2_x2" -> <<3, 4, 1, 2, 3, 4>>
    [] op = "swap" -> <<2, 1>>

Shuffled(op, s) ==
  LET n == Taken(op)
  IN  Drop(n, s) \o [j \in DOMAIN Left(op) |-> Top(n, s)[Left(op)[j]]]

Stored(i, tags) ==
  LET n == i.slot
      last == n + Width(<<i.kind>>) - 1
  IN  [j \in DOMAIN tags |->
         CASE j \in n..last -> Slots(i.kind)[j - n + 1]
           [] j = n - 1 /\ tags[j] = "long" -> "top"
           [] j = last + 1 /\ tags[j] = "half" -> "top"
           [] OTHER -> tags[j]]

LocalsAfter(i, ls) == IF i.op = "store" THEN Stored(i, ls) ELSE ls

(* Operand bytes read, as the program counter moves over them.             *)
Bytes(i) ==
  CASE i.op \in {"getstatic", "putstatic", "getfield", "putfield", "new",
                 "invoke", "checkcast", "instanceof", "if", "goto"} -> 2
    [] i.op = "invokeinterface" -> 4
    [] i.op = "multianewarray" -> 3
    [] i.op = "goto_w" -> 4
    [] i.op = "wideiinc" -> 5
    [] i.op \in {"iinc"} -> 2
    [] OTHER -> i.bytes

(* The position behind each of some instructions.                          *)
Ends(is) ==
  LET end[n \in 0..Len(is)] == IF n = 0 THEN 0 ELSE end[n - 1] + 1 + Bytes(is[n])
  IN  end
End(n) == Ends(code)[n]

(* When the collector may run: in class resolution and initialization, in  *)
(* callees, in allocations and where an exception is created.              *)
CollectsBefore(i) ==
  i.op \in {"ldc", "getstatic", "putstatic", "new", "invoke",
            "invokeinterface", "multianewarray"}
CollectsAfter(i) ==
  \/ i.op \in {"arrayload", "arraystore", "getfield", "putfield", "invoke",
               "invokeinterface", "newarray", "multianewarray", "checkcast",
               "instanceof"}
  \/ i.op = "binary"      \* div

(* What is popped when the collector may run after operands were taken: an *)
(* array load leaves the array in place.                                   *)
PoppedFirst(i) == IF i.op = "arrayload" THEN <<"int">> ELSE Operands(i)

-----------------------------------------------------------------------------
(* The stack map.  A frame tells the types at a position: start, the kinds *)
(* of the locals, "top" included, and those of the operand stack.          *)

(* Mutant: a chop frame keeps the locals.                                  *)
ParseFrameKeepingLocals(entry, previous, offset) ==
  [start |-> offset + entry.delta + 1,
   locals |-> IF entry.form \in {"same", "same1", "chop"} THEN previous.locals
              ELSE IF entry.form = "append" THEN previous.locals \o entry.locals
              ELSE entry.locals,
   stack |-> IF entry.form \in {"same1", "full"} THEN entry.stack ELSE <<>>]

ParseFrame(entry, previous, offset) ==
  [start |-> offset + entry.delta + 1,
   locals |-> CASE entry.form \in {"same", "same1"} -> previous.locals
                [] entry.form = "chop" -> Drop(entry.chopped, previous.locals)
                [] entry.form = "append" -> previous.locals \o entry.locals
                [] entry.form = "full" -> entry.locals,
   stack |-> IF entry.form \in {"same1", "full"} THEN entry.stack ELSE <<>>]

ParseMethodDescriptor(parameters) == [start |-> 0, locals |-> parameters, stack |-> <<>>]

(* The frame of the method's entry and those of the entries of the table.  *)
Parsed(entries, parameters) ==
  LET frame[n \in 0..Len(entries)] ==
        IF n = 0 THEN ParseMethodDescriptor(parameters)
        ELSE LET previous == frame[n - 1]
             IN  ParseFrame(entries[n], previous, IF n = 1 THEN -1 ELSE previous.start)
  IN  frame

StackMap == Parsed(table, method.parameters)
LastFrame == StackMap[Len(table)]

FrameAt(pos) ==
  LET frames == StackMap
      InForce(n) == \/ n = Len(table)
                    \/ frames[n].start <= pos /\ pos < frames[n + 1].start
  IN  frames[CHOOSE n \in 0..Len(table) :
               InForce(n) /\ \A m \in 0..n-1 : ~InForce(m)]

(* How a compiler writes the frame: as a change of the one before.         *)
Trim(kinds) ==
  SubSeq(kinds, 1, CHOOSE n \in 0..Len(kinds) :
                     /\ n > 0 => kinds[n] # "top"
                     /\ \A k \in n+1..Len(kinds) : kinds[k] = "top")

Entry(previous, frame, first) ==
  LET change == Len(frame.locals) - Len(previous.locals)
      Write(form, chopped, ls) ==
        [form |-> form, chopped |-> chopped, locals |-> ls, stack |-> frame.stack,
         delta |-> frame.start - (IF first THEN 0 ELSE previous.start + 1)]
  IN  CASE Len(frame.stack) = 0 /\ change = 0 /\ frame.locals = previous.locals ->
             Write("same", 0, <<>>)
        [] Len(frame.stack) = 1 /\ frame.locals = previous.locals ->
             Write("same1", 0, <<>>)
        [] /\ Len(frame.stack) = 0 /\ change \in -3..-1
           /\ IsPrefix(frame.locals, previous.locals) -> Write("chop", -change, <<>>)
        [] /\ Len(frame.stack) = 0 /\ change \in 1..3
           /\ IsPrefix(previous.locals, frame.locals) ->
             Write("append", 0, Top(change, frame.locals))
        [] OTHER -> Write("full", 0, frame.locals)

-----------------------------------------------------------------------------
(* The abstract interpreter: flags of the slots and its stack pointer.     *)

IsReference(kind) == kind = "ref"

FlagsOf(kinds, n) ==
  [j \in 1..n |-> j <= Width(kinds) /\ IsReference(Spread(kinds)[j])]

Machine(frame) ==
  [locals |-> FlagsOf(frame.locals, MaxLocals),
   stack |-> FlagsOf(frame.stack, MaxStack), sp |-> Width(frame.stack)]

Push(m, kind) ==
  LET Flag(j) == IF j = m.sp + 1 THEN IsReference(kind)
                 ELSE ~(kind = "long" /\ j = m.sp + 2) /\ m.stack[j]
  IN  [m EXCEPT !.stack = [j \in 1..MaxStack |-> Flag(j)],
                !.sp = @ + Width(<<kind>>)]

Pop(m, kinds) ==
  LET sp == m.sp - Width(kinds)
  IN  [m EXCEPT !.stack = [j \in 1..MaxStack |-> j \notin sp+1..m.sp /\ m.stack[j]],
                !.sp = sp]

ArrayLoad(m, kind) == Push(Pop(m, <<"ref", "int">>), kind)
ArrayStore(m, kind) == Pop(m, <<"ref", "int", kind>>)

Store(m, slot, kind) ==
  [Pop(m, <<kind>>) EXCEPT !.locals =
     [j \in 1..MaxLocals |->
        IF j = slot THEN IsReference(kind)
        ELSE ~(kind = "long" /\ j = slot + 1) /\ m.locals[j]]]

BinaryOp(m, kind) == Push(Pop(m, <<kind, kind>>), kind)
Shift(m, kind) == Push(Pop(m, <<kind, "int">>), kind)

(* Mutant: counts parameters, not their slots.                             *)
InvokeByParameters(m, i) ==
  LET called == [m EXCEPT !.sp = @ - Len(i.args)]
  IN  IF i.to = "void" THEN called ELSE Push(called, i.to)

(* The arguments' flags stay behind, above the stack pointer.              *)
Invoke(m, i) ==
  LET called == [m EXCEPT !.sp = @ - Width(i.args)]
  IN  IF i.to = "void" THEN called ELSE Push(called, i.to)

(* Mutant: duplicates the two values beneath a third in the wrong order.   *)
FlagsLeftReversed(op) == IF op = "dup2_x1" THEN <<3, 2, 1, 3, 2>> ELSE Left(op)

(* The order in which a shuffle leaves the flags it takes.                 *)
FlagsLeft(op) ==
  CASE op \in {"pop", "pop2"} -> <<>>
    [] op = "dup" -> <<1, 1>>
    [] op = "dup_x1" -> <<2, 1, 2>>
    [] op = "dup_x2" -> <<3, 1, 2, 3>>
    [] op = "dup2" -> <<1, 2, 1, 2>>
    [] op = "dup2_x1" -> <<2, 3, 1, 2, 3>>
    [] op = "dup2_x2" -> <<3, 4, 1, 2, 3, 4>>
    [] op = "swap" -> <<2, 1>>

ShuffleFlags(m, op) ==
  LET base == m.sp - Taken(op)
      order == FlagsLeft(op)
  IN  [m EXCEPT !.stack = [j \in 1..MaxStack |->
                             IF j - base \in DOMAIN order
                             THEN m.stack[base + order[j - base]] ELSE m.stack[j]],
                !.sp = base + Len(order)]

Convert(m, i) ==
  CASE i.op = "convert" -> Push(Pop(m, <<i.kind>>), i.to)
    [] i.op = "compare" -> Push(Pop(m, <<i.kind, i.kind>>), "int")

Field(m, i) ==
  CASE i.op = "getstatic" -> Push(m, i.kind)
    [] i.op = "putstatic" -> Pop(m, <<i.kind>>)
    [] i.op = "getfield" -> Push(Pop(m, <<"ref">>), i.kind)
    [] i.op = "putfield" -> Pop(m, <<"ref", i.kind>>)

Allocate(m, i) ==
  CASE i.op = "new" -> Push(m, "ref")
    [] i.op = "newarray" -> Push(Pop(m, <<"int">>), "ref")

Inspect(m, i) ==
  CASE i.op = "checkcast" -> Push(Pop(m, <<"ref">>), "ref")
    [] i.op \in {"arraylength", "instanceof"} -> Push(Pop(m, <<"ref">>), "int")
    [] i.op = "monitor" -> Pop(m, <<"ref">>)

(* The dimensions of a new multi-dimensional array are not popped.         *)
MultiNewArray(m) == Push(m, "ref")

(* A wide increment pushes an operand the interpreter does not push.       *)
WideIncrement(m) == Push(m, "int")

Interpret(m, i) ==
  CASE i.op \in {"const", "ldc", "load"} -> Push(m, i.kind)
    [] i.op = "arrayload" -> ArrayLoad(m, i.kind)
    [] i.op = "arraystore" -> ArrayStore(m, i.kind)
    [] i.op = "store" -> Store(m, i.slot, i.kind)
    [] i.op \in Shuffles -> ShuffleFlags(m, i.op)
    [] i.op = "binary" -> BinaryOp(m, i.kind)
    [] i.op = "shift" -> Shift(m, i.kind)
    [] i.op = "iinc" -> [m EXCEPT !.locals[i.slot] = FALSE]
    [] i.op \in {"convert", "compare"} -> Convert(m, i)
    [] i.op = "if" -> Pop(m, i.args)
    [] i.op \in {"getstatic", "putstatic", "getfield", "putfield"} -> Field(m, i)
    [] i.op \in {"invoke", "invokeinterface"} -> Invoke(m, i)
    [] i.op \in {"new", "newarray"} -> Allocate(m, i)
    [] i.op \in {"arraylength", "checkcast", "instanceof", "monitor"} -> Inspect(m, i)
    [] i.op = "multianewarray" -> MultiNewArray(m)
    [] i.op = "wideiinc" -> WideIncrement(m)
    [] OTHER -> m      \* neg; jumps and exits: see StaysInBlock

(* Mutant: forgets the count and the zero byte of an invokeinterface.      *)
BytesConsumedByInvoke(i) ==
  IF i.op = "invokeinterface" THEN 2 ELSE Bytes(i)

BytesConsumedByOpcode(i) ==
  CASE i.op \in {"getstatic", "putstatic", "getfield", "putfield", "new",
                 "invoke", "checkcast", "instanceof", "if", "goto", "iinc"} -> 2
    [] i.op = "invokeinterface" -> 4
    [] i.op = "multianewarray" -> 3
    [] i.op = "wideiinc" -> 3
    [] i.op \in {"const", "ldc", "load", "store", "newarray"} -> i.bytes
    [] OTHER -> 0

(* From position p the walk over the code takes the byte there for an      *)
(* opcode.                                                                 *)
Skip(p) ==
  LET n == CHOOSE k \in DOMAIN code : End(k - 1) <= p /\ p < End(k)
  IN  1 + IF p = End(n - 1) THEN BytesConsumedByOpcode(code[n]) ELSE code[n].noise

OpcodePos(pos) ==
  LET walk[turn \in 0..pos] ==
        IF turn = 0 THEN 0
        ELSE LET p == walk[turn - 1]
                 next == p + Skip(p)
             IN  IF next < pos THEN next ELSE p
  IN  walk[pos]

Pos == End(at)

(* The instructions the abstract interpreter executes.                     *)
Interpreted ==
  LET end == OpcodePos(Pos)
      start == FrameAt(end).start
  IN  {n \in DOMAIN code : start <= End(n - 1) /\ End(n - 1) < end}

FrameRoots ==
  LET executed == Interpreted
      machine[n \in 0..Len(code)] ==
        IF n = 0 THEN Machine(FrameAt(OpcodePos(Pos)))
        ELSE IF n \in executed THEN Interpret(machine[n - 1], code[n]) ELSE machine[n - 1]
  IN  machine[Len(code)]

-----------------------------------------------------------------------------
(* Execution *)

HasOperands(i, s) ==
  LET need == Spread(Operands(i))
  IN  Len(s) >= Len(need) /\ Top(Len(need), s) = need

StackAfter(i, s) ==
  IF i.op \in Shuffles THEN Shuffled(i.op, s)
  ELSE Drop(Width(Operands(i)), s) \o Spread(Results(i))

(* The class file's verifier accepts i for locals ls and operands s.       *)
Verified(i, ls, s) ==
  LET last == i.slot + Width(<<i.kind>>) - 1
  IN  /\ IF i.op \in Shuffles
         THEN Len(s) >= Taken(i.op) /\ WholeLongs(Drop(Taken(i.op), s))
         ELSE HasOperands(i, s)
      /\ WholeLongs(StackAfter(i, s))
      /\ i.op \in {"load", "store"} => last <= Len(ls)
      /\ i.op = "load" => SubSeq(ls, i.slot, last) = Slots(i.kind)
      /\ i.op \in {"iinc", "wideiinc"} => ls[i.slot] = "int"

(* The instruction at the program counter, or a new one at the code's end. *)
Fetch(i) ==
  /\ phase = "next" /\ at' = at + 1
  /\ IF at < Len(code) THEN i = code[at + 1] /\ UNCHANGED code
     ELSE Len(code) < method.code /\ code' = Append(code, i)
  /\ Verified(i, locals, stack) /\ Len(StackAfter(i, stack)) <= MaxStack

TagsOf(kinds, n) ==
  [j \in 1..n |-> IF j <= Width(kinds) THEN Spread(kinds)[j] ELSE "top"]

(* The slots' types fit the frame.                                         *)
Fits(frame, tags, s) ==
  /\ s = Spread(frame.stack)
  /\ \A j \in 1..MaxLocals : TagsOf(frame.locals, MaxLocals)[j] \in {tags[j], "top"}

(* Execution goes on behind instruction n.  Where a frame is there, the    *)
(* types fit it, and what it gives up has no type any more.                *)
Arrive(n, tags, s) ==
  LET here == {f \in DOMAIN table : n <= Len(code) /\ StackMap[f].start = End(n)}
  IN  /\ \A f \in here : Fits(StackMap[f], tags, s)
      /\ stack' = s
      /\ locals' = IF here = {} THEN tags
                   ELSE TagsOf(StackMap[CHOOSE f \in here : TRUE].locals, MaxLocals)

(* An instruction during which nothing is allocated.                       *)
Simple ==
  \E i \in method.menu :
    /\ Fetch(i) /\ ~CollectsBefore(i) /\ ~CollectsAfter(i)
    /\ i.op \notin Jumps \cup Exits
    /\ Arrive(at + 1, LocalsAfter(i, locals), StackAfter(i, stack))
    /\ UNCHANGED <<table, method, phase>>

Begin ==
  \E i \in method.menu :
    /\ Fetch(i) /\ (CollectsBefore(i) \/ CollectsAfter(i))
    /\ phase' = "operands"
    /\ UNCHANGED <<table, method, locals, stack>>

PopOperands ==
  /\ phase = "operands" /\ phase' = "popped"
  /\ stack' = Drop(Width(PoppedFirst(code[at])), stack)
  /\ UNCHANGED <<code, table, method, at, locals>>

Complete ==
  LET i == code[at]
      rest == Width(Operands(i)) - Width(PoppedFirst(i))
  IN  /\ phase = "popped" /\ phase' = "next"
      /\ Arrive(at, locals, Drop(rest, stack) \o Spread(Results(i)))
      /\ UNCHANGED <<code, table, method, at>>

(* The exception is the only operand while a handler is looked for.        *)
Thrown == phase' = "thrown" /\ stack' = <<"ref">>

(* A new, a static field access and a division leave more on the stack     *)
(* when they throw: Invocation shows where that leads.                     *)
Throw ==
  /\ phase \in {"operands", "popped"} /\ Thrown
  /\ code[at].op \notin {"new", "getstatic", "putstatic", "binary"}
  /\ UNCHANGED <<code, table, method, at, locals>>

Athrow ==
  \E i \in method.menu :
    /\ i.op = "athrow" /\ Fetch(i) /\ Thrown
    /\ UNCHANGED <<table, method, locals>>

Return ==
  \E i \in method.menu :
    /\ i.op = "return" /\ Fetch(i)
    /\ phase' = "left" /\ stack' = StackAfter(i, stack)
    /\ UNCHANGED <<table, method, locals>>

NotHandled ==
  /\ phase = "thrown" /\ phase' = "left"
  /\ UNCHANGED <<code, table, method, at, locals, stack>>

Jump ==
  \E i \in method.menu :
    /\ i.op \in Jumps /\ Fetch(i)
    /\ phase' = "jump" /\ stack' = StackAfter(i, stack)
    /\ UNCHANGED <<table, method, locals>>

(* A frame at the end of the code: a branch or a handler leads here.       *)
MergePoint ==
  \E kept \in SUBSET {j \in 1..MaxLocals : locals[j] \in Kind} :
    LET tags == [j \in 1..MaxLocals |->
                   IF \/ j \in kept
                      \/ locals[j] = "half" /\ j - 1 \in kept
                   THEN locals[j] ELSE "top"]
        frame == [start |-> Pos, locals |-> Trim(Kinds(tags)), stack |-> Kinds(stack)]
    IN  /\ phase \in {"next", "jump", "thrown"} /\ at = Len(code)
        /\ Len(table) < method.frames
        /\ table # <<>> => LastFrame.start < Pos
        /\ table' = Append(table, Entry(LastFrame, frame, table = <<>>))
        /\ locals' = tags /\ phase' = "next"
        /\ UNCHANGED <<code, method, at, stack>>

(* A branch, or an exception, to a frame of the table that fits.           *)
GoTo ==
  \E f \in DOMAIN table :
    LET frame == StackMap[f]
    IN  /\ \/ phase \in {"jump", "thrown"}
           \/ phase = "next" /\ at > 0 /\ code[at].op = "if"
        /\ Fits(frame, locals, stack)
        /\ at' = CHOOSE n \in 0..Len(code) : End(n) = frame.start
        /\ locals' = TagsOf(frame.locals, MaxLocals) /\ phase' = "next"
        /\ UNCHANGED <<code, table, method, stack>>

Init ==
  /\ method \in Methods
  /\ locals = TagsOf(method.parameters, MaxLocals) /\ stack = <<>>
  /\ code = <<>> /\ table = <<>> /\ at = 0 /\ phase = "next"

Next ==
  \/ Simple \/ Begin \/ PopOperands \/ Complete \/ Throw \/ Athrow
  \/ Return \/ NotHandled \/ Jump \/ MergePoint \/ GoTo

Spec == Init /\ [][Next]_vars

-----------------------------------------------------------------------------
(* The collector may run now and read the frame.                           *)
MayCollect ==
  \/ phase = "operands" /\ CollectsBefore(code[at])
  \/ phase = "popped" /\ CollectsAfter(code[at])
  \/ phase = "thrown" /\ ~HandlersLoaded

TypeOK ==
  /\ method \in Methods /\ code \in Seq(method.menu)
  /\ \A n \in DOMAIN table : table[n].delta \in Nat
  /\ at \in 0..Len(code)
  /\ phase \in {"next", "operands", "popped", "jump", "thrown", "left"}
  /\ locals \in [1..MaxLocals -> Tag] /\ WholeLongs(locals)
  /\ stack \in Seq(Tag) /\ Len(stack) <= MaxStack /\ WholeLongs(stack)

(* Whenever the collector may run, it finds exactly the slots of the frame *)
(* that hold references: a slot it missed would keep a pointer to the      *)
(* abandoned region, and an integer it took for a reference would be       *)
(* followed and overwritten (GcRoots.h:35, GarbageCollector.cpp:133).      *)
RootsAreExact ==
  MayCollect =>
    LET roots == FrameRoots
    IN  /\ \A j \in 1..MaxLocals : roots.locals[j] <=> locals[j] = "ref"
        /\ \A j \in DOMAIN stack : roots.stack[j] <=> stack[j] = "ref"

(* From the position behind the operand bytes the walk over the bytecode   *)
(* gets back to the opcode being executed, whatever instructions precede   *)
(* it (FrameRoots::compute).                                               *)
OpcodeIsCurrent == MayCollect => OpcodePos(Pos) = End(at - 1)

(* No branch, return or throw lies between the stack map frame and the     *)
(* current instruction: the abstract interpreter aborts on one             *)
(* (GcRoots.cpp:627-637).                                                  *)
StaysInBlock ==
  MayCollect => \A n \in Interpreted : code[n].op \notin Jumps \cup Exits
=============================================================================
