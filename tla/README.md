# Formal models of GeeVM

GeeVM is a Java virtual machine in C++: a bytecode interpreter with a copying
garbage collector, a bootstrap class loader and the native methods of
`java.base`. It runs one Java thread on one native thread. What makes it hard to
get right is therefore not parallelism but re-entrance: almost any call of the VM may
allocate, an allocation may collect, a collection moves every object; loading a
class loads other classes, initializing a class runs Java code, Java code calls
native code that calls Java code; and an exception may come out of each of these.
This directory models those parts in TLA+, checks them with TLC and proves some
of the results with TLAPS.

Run a check with `tlc -config <file>.cfg <MC module>`, a proof with
`tlapm <module>.tla`. `PROJECT.json` lists the runs, the source lines behind every
definition, the hazards of the code, the theorems, and for each property a mutant of
the model (a plausible bug, defined in the module next to what it changes) that
violates it.

## 1. Inventory

Paths are relative to the repository; `vm/` stands for `src/vm/` and its headers.

### Components

| Component | State it keeps | Operations | What makes it correct |
|---|---|---|---|
| Pinned roots: `RootList` (`vm/RootList.cpp`, `vm/GarbageCollector.h`) | doubly linked list of nodes, each with an instance pointer | `insert`, `remove`, iteration and overwriting by the collector | the list holds exactly the live pins; a pin denotes its object for ever, whatever moves |
| References: `ScopedGcRootRef`, `GcRootRef` (`vm/GarbageCollector.h`) | a node pointer each | construct, move, assign, `reset`, `release`, destroy, copy | every node has one owner: none leaks, none is freed twice |
| Heap: `GarbageCollector`, `JavaHeap` (`vm/GarbageCollector.cpp`, `vm/Heap.cpp`) | two regions, `mBumpPtr`, the lock, the forwarding map, interned strings | `allocate`, `performGarbageCollection`, `copyObject`, `lockGC`/`unlockGC` | the program cannot tell that objects move; nothing dangles; memory is exhausted only when it is |
| Root maps: `FrameRoots`, `StackMap` (`vm/GcRoots.cpp`, `vm/StackMap.cpp`, `vm/Frame.h`) | none between collections; a walk over a method's bytecode | `compute`, stack map decoding, the abstract interpreter | the slots found are those that hold references |
| Thread: `JavaThread` (`vm/Thread.cpp`) | call frames, the current exception, JNI handle lists | `invoke`, `throwException`, `handleCalleeException`, `clearException`, handles | exceptions unwind to the first handler; frames and handles stay paired |
| Interpreter (`vm/Interpreter.cpp`) | the top frame's program counter, locals and operands | `execute`, `invoke*`, `tryHandleException` | no code runs past an exception; handlers get what was thrown |
| Class initialization: `JClass::initialize` (`vm/Class.cpp`) | a status for each class | `initialize` | each class once, superclasses first |
| Native calls: `NativeMethod`, `vm/NativeMethods.cpp`, `vm/jni/` | method lookup cache; handles in the thread | `invoke`, the JNI function table | handles live as long as their frame |
| Class loading: `BootstrapClassLoader`, `ClassPath` (`vm/ClassLoader.cpp`), `JClass::prepare`, `linkFields` (`vm/Class.cpp`), `Vm` (`vm/Vm.cpp`) | table of classes; per class supertypes, fields with offsets, sizes, class object | `loadClass`, `loadArrayClass`, `prepare`, `setUpJavaLangClass`, `initialize` | recursion ends; only complete classes are used; layouts are sound and final |
| Queries and run-time constant pool (`vm/Class.cpp`, `vm/Runtime.cpp`) | caches of resolved methods and fields | `getVirtualMethod`, `lookupField`, `isInstanceOf`, `getMethodRef`, `getFieldRef` | answers agree with the language's rules and do not go stale |
| Natives of `java.base` (`src/native/`) | none of their own, mostly | one function per method | each does what its Java declaration says |
| Class file reader, descriptors (`src/class_file/`), encodings (`src/common/Encoding.cpp`) | the position in the file; tables read once | `ClassFileReader::read`, `FieldType::parse`, `MethodDescriptor::parse`, conversions of strings | tables agree with the file; a file cut short is not read as if it were whole |
| Zip, streams, launcher | none, or the operating system's | calls of libraries | |

### Interactions

- *Everything allocates through the heap, and every allocation may collect.* The
  collector reads its roots from three places: the list of pinned roots, the static
  fields and class objects of all classes, and the call frames, for which it
  recomputes which slots are references. C++ code that holds a raw pointer across
  a call that may allocate is wrong; the reference types exist to avoid that.
- *The C++ stack and the Java stack are interleaved.* `execute()` calls `invoke()`,
  which calls `execute()`; `initialize()` calls `invokeWithArgs()` from the middle of an
  instruction; a native method calls `initialize()` or `invoke()` again. An exception is a
  field of the thread, which every level has to look at when a call returns.
- *Loading re-enters loading.* A class is entered in the table, then prepared; its
  preparation loads supertypes and makes a class object, an instance of
  `java.lang.Class`, which has to be loaded, too.
- *Layouts are shared knowledge.* Offsets chosen by `linkFields` are used by the
  interpreter, by `Unsafe`, and by the collector to find references in objects.

### Behaviours that are hard

There are no threads, messages, timers or durable state in this program, so no
hazard of those kinds is listed. The ones there are, each at its line in
`PROJECT.json` (`hazards`), fall in seven groups:

1. *Half-moved heaps.* During a collection every object may exist twice; which slots
   are already forwarded is known only by the position of two pointers.
2. *Exceptions in the middle of an instruction*, of an initialization, of a native call.
3. *Recursion through shared tables*: class loading, class initialization.
4. *Two implementations of the same thing* that must agree exactly: interpreter and
   abstract interpreter, instruction lengths, `computeOffset` per subclass.
5. *Long sequences of legal calls* on intrusive lists and owning references.
6. *Raw pointers and raw bits*: operands are 64-bit patterns, objects are addresses;
   whoever holds one across an allocation, or reads it as another type, gets something else.
7. *A format read once, without a second look*: one byte too many or too few in a class file
   turns data into structure.

## 2. Modules

| Module | Models | Composes / refines |
|---|---|---|
| `RootList` | the list of pinned roots and the walk of a collection over it | |
| `ScopedRoots` | references that own or borrow nodes of the list | instance of `RootList`, whose steps it implements |
| `JavaHeap` | abstract: a heap whose objects never move | |
| `CopyingGc` | allocation and the copying collection, a root or a field at a time | implements `JavaHeap` |
| `JavaExceptions` | abstract: what a program may rely on when something is thrown | |
| `Invocation` | thread, calls, exceptions, class initialization, native frames | implements `JavaExceptions` |
| `FrameRoots` | the interpreter's typed slots against the collector's flags | |
| `ClassLinking` | loading, preparation, layout, class objects, the start of the VM | |
| `RuntimeConstantPool` | queries on linked classes and the caches over them | extends `ClassLinking` |
| `Encoding`, `Descriptors` | strings of class files, types written as strings | |
| `ClassFileReader` | the stream and the reader of class files | instance of `Encoding` |
| `ClassFileFormat` | how a class is written, and what reading it should give | composes `ClassFileReader`, `Descriptors` |
| `JavaTypes`, `Arithmetic` | types of values; C++ arithmetic on bit patterns | |
| `JavaMachine` | abstract: what instructions compute | |
| `Instructions` | the interpreter's instructions on values and objects, natives that use them | implements `JavaMachine` |
| `ScopedRootsProofs`, `CopyingGcProofs`, `InvocationProofs`, `FrameRootsProofs`, `ClassLinkingProofs`, `RuntimeConstantPoolProofs`, `InstructionsProofs` | theorems | each about the module it is named after, `ScopedRootsProofs` about `RootList`, too |
| `NumberInduction` | lemmas: induction over numbers, and functions defined by it | |
| `MC...` | the same modules on small instances | |

### RootList and ScopedRoots

`node` is the heap memory of `RootList::Node`s, `mHead` the list's head. `Pin` and `Release`
are `insert` and `remove` with all the pointers they write. A collection moves every
object (`BeginWalk` switches `mFromRegion`), then visits one node per step; pins cannot be made
in between, as the collector runs to its end. A pointer is the pair of an object and
the region it points into, which is all that tells a current from a stale one.

`ScopedRoots` adds the scopes: `scoped` maps each `ScopedGcRootRef` in existence to the
node it owns, `raw` each `GcRootRef`, and `owed` are the nodes handed out with `release()`
that somebody has yet to free. Every constructor, assignment, `reset` and destructor is
an action. The same module then claims that all of them together use the list only
through `Pin` and `Release` of nodes that are live: `UsesTheList` is `RootList`'s next-state relation.

### JavaHeap and CopyingGc

`mem` maps addresses - a region and an offset - to objects: a shape, the references in
its slots, and an identity, which stands for header and primitive fields, and which
copying an object copies. `root` has one location for each kind of root the code has.
`AllocateNow` is `allocate()` when there is room; otherwise `AllocateAfterCollection` begins a collection
and `FinishAllocation` or `OutOfMemory` ends the call. A collection is `VisitRoot` for each root,
in any order (the code's order is that of hash tables and of the list), then
`BeginScan`, and for each copy in address order `ScanField` and `AdvanceScan`, and finally
`FinishCollection`. Sizes are rounded as `allocateUnchecked` rounds them and compared as
`allocate` compares them, which is not the same. `SetLock` is the heap lock; `RuntimeGc` is `System.gc()`.

Not in the model: what an object's class object refers to is one more slot of its
shape; the growth of the C++ forwarding map; string interning, whose strings are pinned roots.

### JavaExceptions and Invocation

The C++ stack is folded into the Java frames. Each frame of `frames` records its method, its
operands (exceptions, or any other value), `at` - what it waits for: an instruction, a
callee, an initialization, the look at the exception after one of these - and the class initializations
it has to continue (`tasks`, `then`). Where in its bytecode a method is stays open, so any
instruction may come next, and a handler may or may not cover it.
`Interpret` are the instructions that call, return, throw or initialize; `Dispatch` (`Catch`, `Unwind`)
is `checkException` and `tryHandleException`; `InitializeClass` is `JClass::initialize` split at its calls of Java code;
`RunNative` are the things a native method does to the thread. `HasHandlers` are the
methods with an exception table: `handleCalleeException` looks only at whether there is one.
Frames are bounded by `MaxFrames`, which stands for the block of stack memory: at a call
that does not fit the VM panics, as `allocateCallFrameSpace` does (Java throws `StackOverflowError`).

A native method may throw whether it returns a value or not. `NativeMethod::invoke` makes a value even
so, which the interpreter pushes on top of the exception in a caller that has handlers:
`Object.clone` throws `CloneNotSupportedException` and returns `nullptr` (`src/native/java/lang/Object.cpp:50`), and the
handler around the call takes the null for its exception. `ExceptionReachesHandler` allows for this value and for nothing else;
`HandlerGetsException`, which does not, is false of the code (below). Where the operand stack of the caller has no
room for the value it lands in memory that is free at the time; a build with assertions stops instead
(`vm/Frame.h:115`), which the model leaves out, as every property allows for a process that is over.

### FrameRoots

The left half of the module is an interpreter whose slots carry the types a class
file's verifier gives them; the right half is `FrameRoots::compute`, `StackMap` and
`AbstractInterpreter`, translated line by line into operators on the method written so far.
The method is not an input: each step executes and appends any instruction of its family's menu
that the types allow, or a stack map frame of one of the forms a compiler may write
there; so a run covers all verifiable methods of a family (`Methods`) up to its bounds. `phase` tells how far the
current instruction is, as some allocate before they pop their operands (`CollectsBefore`)
and others after (`CollectsAfter`). Longs and doubles take two slots. The `Menu` entries say how many operand bytes
the interpreter reads, `bytesConsumedByOpcode` says what the collector believes. `method` names the family, whose parameters
and frame sizes every operator takes from it. What the code computes in loops (positions, stack map frames, the walk to the current opcode,
the abstract interpreter's machine) are recursive functions over the instructions or the entries of the table.

### ClassLinking and RuntimeConstantPool

`path` is the class path: for each path entry the class files that can be found there,
chosen in the initial state. `mClasses` is the loader's table. `preparing` is the C++ stack of nested
`prepare()` calls, each with the number of its steps done, so that a nested load runs to
its end before the outer one goes on. `phase` follows `Vm::initialize`: setting up
`java.lang.Class` by hand, booting the required classes, running. `LinkFields` lays out
fields as `linkFields` does: the class's own in order of the file, the superclass's in any
order, as they come out of a hash table. A name is a base and a number of array dimensions.

The one behaviour this model ends in rather than follows is `phase = "Undefined"`: the array of a
missing class, where `prepare()` dereferences the error (`vm/Class.cpp:69`), and an unresolvable field.

`RuntimeConstantPool` adds the queries as recursive functions over the linked classes (`FirstFound` for a search, `Above`
for what is reached through links, `Instances` for arrays), and the
caches `getMethodRef` and `getFieldRef` keep. The pools of all classes are taken as one: an
entry is the kind, class and member named, and its class has been loaded just before it is resolved.

### Encoding, Descriptors, ClassFileReader and ClassFileFormat

`ClassFileFormat` writes a class as the Java virtual machine specification lays class files
out, and cuts the file short at some byte. `ClassFileReader` has the position in the file, the
stream's state and what has been read; each step is one call of a `read...` function with all
the reads it makes, on a stream that behaves as `std::ifstream`: a read past the end sets the
failed state and leaves the buffer, so that a number is then any junk the build produces
(`JunkCounts`, `JunkTags`). A block read by `readVector` and a skip look at the stream, a number
does not. `Encoding` is `modifiedUtf8ToUtf8` with the six-byte form of supplementary characters, and
the library's conversions as they are called, which is with a pointer and so up to the first NUL.
`Descriptors` is the parser of field types and method descriptors, a recursive function over positions.

### JavaMachine and Instructions

`slots` is the operand stack as `CallFrame` keeps it, `types` what verification knows of it. A number is
a pattern (`Encode`, `Decode`: `pushOperand` and `popOperand`), a long is in the first of two slots, a
reference is a pointer: an object's number and the region it lay in when the pointer was made.
`objects` are the objects with the region they lie in; a collection (`Collected`) moves what is reachable
from the slots and from what C++ code has pinned, and forwards pointers it finds; any pointer it
does not find keeps the old region, which is how a stale address shows. `collect` says whether
an allocation collects, at most `MaxCollections` times. `levels` are the nested calls of `newMultiArray`, which
allocate one array per step. `loaded` are the classes that can be used without loading one.

Everything one instruction does is one step, except `multianewarray`. The method is not an input: each
step is any instruction whose operands have the right types (`Ready`, the work of a verifier).
A step that throws ends the run of the method; handlers are the subject of `Invocation`.
A called method returns its last parameter or zero, depending on the class of the receiver: enough to see
which method was selected and what its parameters were. `clone` copies arrays and the objects of
`Cloneable` classes, element by element or field by field, and throws for the others.

`JavaMachine` says what a program may expect: typed values, a long being one, objects that never move,
every result or exception. `ComputesLikeJava` is that each step of the interpreter is one of those,
under the mapping that decodes patterns and forgets regions; a dimension of `multianewarray` in
the making is still an operand there.

What the code is known to get wrong is excluded by the constant `Cases`, one name per case, and never
silently: a case whose name is in the set is followed as the code does it, and `ComputesLikeJava` fails (below).

## 3. Runs

| Run | Shows | Bounds, and why they suffice |
|---|---|---|
| `roots` | the list stays a list under any order of pins and releases that references make; pins follow their objects; every node has one owner, moves keep the object, the list is used as it allows | 3 scoped and 2 plain references over 3 nodes: a move between two with a third owner beside; a node with a neighbour on each side of a removal; 2 objects |
| `gc` | the collector is invisible and complete; memory is reported exhausted only when it is | 3 objects of 2 shapes, one with two slots, one with an unaligned size: cycles, sharing, garbage between live objects; one root of each kind; half heaps that hold some of the objects but not all |
| `gc_live` | a collection ends, an allocation is answered | 2 objects (a cycle needs two), without symmetry |
| `calls` | exceptions unwind as promised, reach handlers, with nothing beside them but a native method's value, and are all dealt with, when initializers do not throw and classes resolve | 4 frames: a method that calls one that initializes a class whose superclass runs `<clinit>`; 2 exceptions, one handler above and one below; 2 operands, so that an exception can lie above or below another one; native methods with and without a value; no handles but those of arguments |
| `calls_faults` | handles and initialization states survive initializers that throw and classes that do not load | as `calls`, one exception, 1 operand, 1 handle that native code makes |
| `frame_roots` | the collector finds the references of a frame, and the current instruction | three families of methods, see below |
| `classes` | recursion never prepares a class twice and leaves complete classes; layouts are sound and final; requests are answered with prepared classes or errors, or the VM stops; `isInstanceOf` is the subtype relation; classes win over interfaces, and a method is found where there is one; caches agree with a new lookup | 2 classes, 2 interfaces, arrays of up to 2 dimensions, every hierarchy of them with every placement of a method, above the real supertypes of `java.lang.Class`; fields of 1, 4 and 8 bytes: every change of alignment between neighbours, inherited twice; any one class missing, unreadable or on the second path; 1 cached entry between the loads of classes that inherit or hide: entries meet only where they share a key |
| `class_file` | a class file is read as the class it was written for, strings and types included; the reader never loses step; a file cut anywhere is never read with made-up strings or code; reading ends | one class per structure the reader branches on, in files of about a hundred bytes, each of the smaller ones also cut after every byte; junk of 0 and 1 for counts, of 5 and 7 for tags, constants of two lengths; every code point at a border of the encodings, alone and in pairs; types of 0 to 2 dimensions and of 0 to 2 parameters, every string of up to 4 letters that looks like one |
| `instructions` | instructions, calls, `clone` and `arraycopy` compute what Java says; no address outlives a collection; arrays and fields hold instances of their types | ints of 4 bits, longs of 8, bytes of 2: distances masked with 3 and 7, every int, the longs and floats around the limits; 4 slots (`dup2_x2` takes all); 2 objects and arrays of arrays with 3, up to 2 elements: a copy between arrays and within one, an array that refers to itself, to another or to null; 1 collection: what is stale after one stays so |

The families of `frame_roots`: operand stack shuffles, 6 instructions on a stack of 6 slots (the largest
shuffle, `dup2_x2`, takes 4 and makes 6); branches, handlers and 3 stack map frames of every form (the first,
whose offset is counted differently, one that is a delta of it, one that is a delta of a
delta); and 4 instructions on fields, arrays, objects and calls, with operand bytes of all lengths.

Three runs are expected to fail. Each shows a place where the code does something else than
it says; `findings` in `PROJECT.json` has the details.

| Run | Disagreement |
|---|---|
| `failed_initializer` | `new`, `getstatic`, `putstatic` go on after a failed initialization; `invokestatic` does not. The handler finds another value where the exception should be. (No linked native method returns a value here, so that this is the cause.) |
| `exception_roots` | exceptions thrown by the VM itself are pinned twice and released once |
| `frame_roots_multi_array` | after `multianewarray` the collector's view of the operand stack is off by the array's dimensions |

More of them were met while modelling. They are not part of the regular runs; the
configuration beside each reproduces it:

| Configuration | Property | Disagreement |
|---|---|---|
| `MCInvocationSecond.cfg` | `NoSecondException` | after the initializer of a superclass threw, the subclass's runs with that exception pending (`vm/Class.cpp:136`); if it throws, too, the assertion `vm/Thread.cpp:209` fails |
| `MCInvocation.cfg` with `HandlerGetsException` among its `PROPERTIES` | `HandlerGetsException` | a native method that throws and has a return type, as `Object.clone` (`src/native/java/lang/Object.cpp:50`), buries the exception under its value: `translateReturnValue` (`vm/NativeMethods.cpp:262`) and the push (`vm/Interpreter.cpp:663`) do not look for it, and the handler gets null |
| `MCCopyingGcOddHeap.cfg` | `ObjectsFit` | with a half heap that is not a multiple of the alignment, a copy may be placed outside the region: `allocate` (`vm/GarbageCollector.cpp:39`) compares the unaligned size but advances by the aligned one. The default size is not affected |
| `MCFrameRootsMultiArray.cfg` with `WideFamily` | `RootsAreExact` | the abstract interpreter pushes an operand for a wide `iinc` (`vm/GcRoots.cpp:726`), the interpreter does not |
| `MCFrameRoots.cfg` with `SwitchFamily` | `OpcodeIsCurrent` | the walk over the bytecode does not know the operand bytes of switches, `goto_w` and a wide `iinc` (`vm/GcRoots.cpp:821`) and may miss the current instruction |
| `MCFrameRootsThrow.cfg` | `RootsAreExact` | while a catch type is loaded, the exception on the operand stack is not among the roots (`vm/Interpreter.cpp:608`) |
| `MCClassLinkingOffsets.cfg` | `OffsetHoldsInSubclasses` | a field's offset in its class is not its offset in a subclass (`vm/Class.cpp:160`), which `Unsafe.objectFieldOffset1` relies on |
| `MCClassLinkingHiding.cfg` | `InheritedFieldsHaveAPlace` | a static field takes the entry of an inherited instance field of the same name and descriptor (`vm/Class.cpp:164`), so that the superclass's `getfield` uses a static field's index as an offset |
| `MCRuntimeConstantPoolDefaults.cfg` | `DefaultMethodsAreMostSpecific` | a default method that an interface below overrides may be selected (`vm/Class.cpp:274`), unlike in JVMS 5.4.6 |
| `MCClassFileNul.cfg` | `ReadsWhatWasWritten` | a string is read up to its first NUL only: the conversion gets a pointer without a length (`src/common/Encoding.cpp:61`), although the function before it decodes the two bytes that stand for NUL |
| `MCClassFileLong.cfg` | `ReadsWhatWasWritten` | the length of an attribute of a method's code is kept in 16 bits (`src/class_file/ClassFileReader.cpp:374`); the bound `Halves` makes 16 bits small |
| `MCClassFileCut.cfg` | `CutIsNoticed` | a file that ends within a number is read as a class, with junk for the number |
| `MCInstructionsDivision.cfg` | `ComputesLikeJava` | `div` throws for a zero divisor and divides all the same, `rem` just divides (`vm/Interpreter.cpp:761`); the smallest number divided by -1 is undefined in C++, too |

The other names in `Cases` fail the same way when one takes the place of `"divisor"` in
`MCInstructionsDivision.cfg`:

| Case | What the code does |
|---|---|
| `"cast loads"` | `checkcast` looks at an object where it was before the class was loaded (`vm/Interpreter.cpp:519`) |
| `"narrow value"` | `getfield` of a negative byte or short pushes a positive int (`vm/Interpreter.cpp:979`), although such types are "sign-extended to int before being pushed" (`src/common/JvmTypes.h:56`); what natives return likewise (`vm/NativeMethods.cpp:83`) |
| `"interface slots"` | `invokeinterface` looks for the receiver in the wrong slot below a long (`vm/Interpreter.cpp:469`) |
| `"null length"` | `arraylength` of null throws and goes on to look at the array (`vm/Interpreter.cpp:504`) |
| `"count"` | `multianewarray` does not look for negative counts (`vm/Interpreter.cpp:1174`) |
| `"store order"` | `aastore` looks at the class of the value before it looks at the index (`vm/Interpreter.cpp:734`) |
| `"interface null"` | `invokeinterface` does not look for a null receiver (`vm/Interpreter.cpp:470`) |
| `"referent"` | `refersTo0` says no for the very referent, as it compares handles (`src/native/java/lang/ref/Reference.cpp:15`) |
| `"copy overlap"` | `arraycopy` of references within an array copies forward over elements it has yet to read (`src/native/java/lang/System.cpp:103`; with `MaxLength = 3`) |
| `"copy objects"` | `arraycopy` takes any object for an array before it asks (`src/native/java/lang/System.cpp:45`) |
| `"copy kinds"` | `arraycopy` between arrays of different primitive types, or of primitives and references, copies patterns |
| `"copy arrays"` | `arraycopy` refuses arrays of arrays |
| `"copy store"` | `arraycopy` puts any reference into any array of references (with `MaxObjects = 3`, `MaxLength = 1`) |
| `"copy sum"` | position and length are added in the width of an int before they are compared (`src/native/java/lang/System.cpp:67`; with 7 among the `Positions`) |

What the modules keep besides is checked by configurations of their own, which pass: in
`MCScopedRootsLive.cfg` types (`RefsTypeOK`) and that a walk over the list ends (`WalkEnds`); in `MCFrameRootsTypes.cfg`
types (`TypeOK`) and that no branch, return or throw lies between the stack map frame the collector starts at and
the current instruction (`StaysInBlock`); in `MCRuntimeConstantPoolTypes.cfg` types (`TypeOK`) and that class objects made
before `java.lang.Class` had its final layout have room for its fields (`ClassObjectsHaveRoom`). `TypeOK` of
`CopyingGc` and `Invocation` and `ReaderTypeOK` of `ClassFileReader` hold in the runs `gc`, `calls` and `class_file` when added to
the invariants of their configurations.

The passing runs exclude what the failing configurations are about by a
constant (`InitializersThrow`, `ResolutionFails`, `HandlersLoaded`, `Methods`, `HalfSize`, the class paths, the contents of
class files, `Cases`), and both use the same modules. In particular the menus of `frame_roots`
lack `multianewarray`, wide `iinc` and the switches, and the class paths of `classes` have
no static field that hides an inherited instance field.

Deadlock is checked except where the system may really stop: the `gc` runs (the program
may do nothing more once all objects are made, or the VM panicked), `frame_roots` (a method's code
ends), `class_file` (the file is read) and `instructions` (an exception ends the method). `Invocation` and `ClassLinking` have an explicit `Ended` step for a process that is
over, or whose behaviour is undefined, so that any other state without a successor is reported.

### Fairness

There is one thread, so fairness only says that it goes on with what it has begun:

- `RootList`: the loop over the list takes its next step (`VisitNode`, `EndWalk`).
- `CopyingGc`: a collection takes its next step (`Collect`), and the allocation that
  asked for it is finished. Nothing is assumed of the program.
- `ClassFileReader`: reading goes on. There is no limit but the file's end on how long it takes.
- `Invocation`: the look for a handler, a class initialization, and the return of a native
  method that has thrown go on. Java methods may loop, and native methods take as long as they like.

## 4. Proofs

What is proved holds for every value of the constants: any number of nodes, references,
objects and roots, any layout of objects, any heap size, any methods and any depth of the call stack, any class path.

**ScopedRootsProofs**, the list (`TypeCorrect`, `ListStaysWellLinked`, `PinsAreRelocated`, `PinsAreFaithful`).
Assumption: NULL is not a node. That a list is a list is not a first-order statement about
`next` and `prev`; `WellLinked` says it with a witness, the function `older` from each node to the set
of nodes behind it. `InsertExtendsTheOrder` and `RemoveRestrictsTheOrder` give the witness after an insertion and a removal. The
same witness says where the cursor of a walk is: nodes already visited point into the
new region, the ones behind the cursor do not, and at the end there are none behind it.

**ScopedRootsProofs**, the references (`EveryPinHasOneOwner`, `ReferencesUseTheList`, `ReferencesAreCurrent`, `MovesAreFaithful`). Assumptions: the markers NULL and
OutOfScope differ from nodes and from each other. `OneOwner` with the types of the references is
inductive; because a node that is released has an owner, it is live, so that `RootList`'s
precondition holds in every step. `ReferencesAreCurrent` carries `RootList`'s `PinnedAreCurrent` over to the references: as
their steps are the list's, they keep its invariant.

**CopyingGcProofs**, memory (`TypeCorrect`, `NothingDangles`, `AllocationStaysInRegion`, `OutOfMemoryIsJustified`, `GarbageIsCollected`). Assumptions: sizes are positive, slots are slots, NULL is neither
address nor object. `NoDanglingReference` alone is not inductive: half-way through a collection
it depends on which slots have been forwarded. `IInv` has two halves. At rest there is one
copy of everything, and references lead to it. While collecting, the originals are
closed under references and as the program left them; `map` takes copied originals one-to-one onto
copies of the same identity and shape; the copies fill the region without gaps
(`Tiled`), so that the scan pointer always meets an object; a slot that the scan has passed holds
the forwarding of the original's slot, another the original's itself (`ScannedFollow`). When the scan
pointer reaches the bump pointer all slots are passed, so the copies are closed
(`ScanIsComplete`) and the originals can go. There is one lemma for each action.
`AllocationStaysInRegion` has a hypothesis of its own, that `HalfSize` is a multiple of `Align`: the default
heap meets it, and `MCCopyingGcOddHeap.cfg` shows that without it the property is false of the code. A collection never checks that
a copy fits. `SpaceInv` says why it does: objects of one generation do not overlap (`Apart`), and the bytes of the copies
map one-to-one to bytes of their originals, all below `HalfSize`, so that the pigeonhole principle bounds
the copies (`PiecesFit`). `Reserve` is the request that is placed after the collection it caused.
The last two theorems are about `Reachable`, which is what belongs to every set that holds the roots and is closed under
references; the definition without recursion is what makes it accessible to proof. `CopiesAreJustified` says that any
such set holds the original of every copy: a copy is made for a root that has been visited or for a slot of an earlier copy.
What a collection leaves is therefore reachable, and as nothing runs between a collection and the allocation it was made for, all that
is in memory when that allocation fails is.

**CopyingGcProofs**, the refinement (`CollectorIsInvisible`). `CopyingGc` implements `JavaHeap` under the mapping that names
objects by identity. Where an object exists twice the two copies show the same
identities (`SameObjects`), so the choice between them does not matter; copying and scanning then
map to stuttering, `FinishCollection` to `Discard`, and the program's steps to their namesakes.

**InvocationProofs**, the stack (`InvariantHolds`, `StackIsTyped`, `NativeFramesHaveTheirHandles`). Assumptions, on the program: a method is
interpreted or native, only interpreted methods have exception handlers, a `<clinit>` takes no
arguments, returns nothing and is neither `main` nor the uncaught-exception handler. The properties say nothing about the
frames below the top, which is what a step that leaves a frame needs: `StackIsSound` says
of each of them that it waits for exactly the frame above it, for a call or for the `<clinit>` of
the class that heads its tasks, and `ExceptionIsHeld` that whoever looks for a handler has an
exception to look for. Steps come in four forms (`Moves`, `Pushes`, `Pops`, `Empties`), each with a
lemma that the invariant survives it; an action is then one of these four. The handles need a witness,
the function from lists of handles to the frames they belong to (`HandlesBelongToFrames`): a native frame
that is pushed extends it, one that is popped takes the last list with it, whatever way it is left.

**InvocationProofs**, class initialization (`ClassesAreInitializedInOrder`, `ClassesAreInitializedOnce`). Adds to that invariant what the tasks of all frames
together say about the statuses of classes, `TasksAreSound`: a class is under initialization while one task on the
stack, and one only, is to run its `<clinit>` or to finish it, and each of its supertypes has been begun or is to be
initialized by a task before that one. `TasksHold` is the invariance. Initializers may throw, call
anything and be re-entered.

**InvocationProofs**, exceptions (`ExceptionsAreNotReplaced`, `ExceptionsReachHandlers`, `ExceptionsUnwindAsPromised`). Hypothesis of all three: `NothingIsIgnored`, that no
exception leaves a `<clinit>` and no class named by `new` is missing; `failed_initializer` and
`MCInvocationSecond.cfg` show that without it they are false of the code. `ExceptionIsSeen` is
the strengthening: while an exception is in flight, the current frame looks for a handler or is about to be left. `StepSees` gives for each action its effect on calls and
exception (`Effect`) and on the operands of whoever looks for a handler next (`Reaches`); `EffectIsPromised` takes each effect to the
action of `JavaExceptions` it implements, or to a stuttering step. There is no hypothesis on native methods: `ExceptionsReachHandlers` says that
the handler finds the exception alone or, if the frame just left is that of a native method with a return type, under its value.

**FrameRootsProofs** (`TypesAreRight`, `Invariance`, `CurrentOpcodeFound`, `BlockIsStraight`, `RootsFoundExactly`). Assumptions: the
parameters fit the locals (`BoundAssumption`), and of the instructions those with operand bytes of their own are few
(`MenuAssumption`); TLC evaluates both in `frame_roots`. `RootsAreExact` looks back: the collector starts at a stack map frame
and executes the instructions behind it once more, while the state shows only what the last of them left. What makes it right is that
the types before an instruction are the same on whatever path it was reached. `IInv` says so with a witness, the function `T` that gives a
type to the place behind each instruction written: at a stack map frame it is the frame's, elsewhere what the instruction before it makes of
the type before it (`History`), which the verifier has accepted there, and it is no branch, return or throw (`Goes`). The frame has the type
of the place where execution is, or during an instruction that of the place before it, less the operands already popped (`Current`).
A stack map frame is added only at the end of the code, behind all others, where no type has been fixed yet but that of the state itself
(`FrameAdded`): in the phases after a branch, a return or a throw the place behind the last instruction has no type so far, which is what the number `m` is for.
That a compiler's entry is parsed to the frame it was written for is `EntryRead`.
The other half is `InterpretAgrees`: if the flags of the abstract interpreter agree with the types of slots before an instruction, they
do so afterwards (`Agrees`), with one lemma for each form of effect and all nine shuffles of the operand stack.
`RootsFound` follows both along the instructions from the frame `FrameAt` finds (`FrameFound`) to the current one (`InterpretedFacts`).
`NarrowMenus` is the hypothesis of `CurrentOpcodeFound` and `BlockIsStraight`: no method has a switch, a `goto_w` or a wide `iinc`. `RootsFoundExactly` needs
`PlainMenus`, that none has a `multianewarray` either, and `HandlersLoaded`. The failing configurations show that with
a `multianewarray`, a wide `iinc`, a switch or a catch type to be loaded `RootsAreExact` or `OpcodeIsCurrent` is false of the code. Every menu of `frame_roots` meets them.

**ClassLinkingProofs**, the loader (`RecursionIsSound`, `ProgramSeesPreparedClasses`, `RequestsAreAnswered`,
`PreparedClassesAreFinal`). No assumption on the hierarchies is needed. `NoCircularPreparation` is not inductive: that a class that
is entered is on no frame of the stack follows only from the stack and the table together. `UnpreparedAreOnStack`
says how: the classes of the table that are not prepared are exactly those on the stack. Entering a class adds it to
both sides, the return of `prepare()` takes it from both, and linking changes neither; these are the three lemmas
`EnterStep`, `ReturnStep` and `LinkStep`, and every step is one of them or leaves table and stack alone. When the stack is
empty nothing is unprepared, which is what a running program sees. As a step only changes the
class on top of the stack, prepared classes never change (`Extends`). `RequestIsServed` follows the one request at the
bottom of the stack to its answer.

**ClassLinkingProofs**, linking (`ClassesAreComplete`). Hypothesis `NoCircularInheritance`: among any class files there is one
with no supertype among them. The VM does not detect circularity, and a file that extends itself would be its own unprepared superclass.
`LinkInv` says what each frame of the stack waits for: it is at one of the `Steps` of its class, its class is linked to what the
steps before that one name (`LinkedSoFar`), and the frame above it prepares the class that this step names. `StepParts` takes `Steps` apart for an arbitrary class file. When a nested load returns,
the class it found in the table is prepared (`FoundIsPrepared`). Suppose it were not: then it is further down the stack, and each frame from there
up waits for a supertype or an element of its own class. Such a chain is a circle of files, or goes through an array, which
has more dimensions than what it waits for. `CompleteInv` is that links lead to prepared classes.

**ClassLinkingProofs**, layouts (`FieldsAreApart`, `FieldsStay`, `ClassObjectsAreLargeEnough`, `TypesAreCorrect`). Hypothesis
`ObjectHasNoFields`: `java.lang.Object` has no superclass and no instance fields, and `java.lang.Class` extends it. Without it the second layout of
`java.lang.Class` could move fields of class objects that exist. `LayoutInv` says of every class that is laid out
that its fields have pairwise disjoint, aligned places between header and size
(`FieldsAreSound`), of a class whose turn has not come that it has none yet (`FieldsComeLater`), and of `java.lang.Class` that it has
the layout that its file alone gives it (`ClassIsLaidOut`). A layout is a recursion over the fields of the
file, in which `AddField` keeps this (`AddFieldKeeps`); the induction is over the set of positions that are right, by its least
counterexample (`SetInduction`), as the library's induction theorems cannot be used. The class's fields are a set of keys, not a list, so that the proof holds for every order of the hash table.

**RuntimeConstantPoolProofs** (`CachesStayRight`, `CallsPreferSuperclasses`, `InstancesFollowSubtyping`). Hypotheses `NoCircularInheritance` and, for
`InstancesFollowSubtyping` only, `JavaHierarchies`: a class extends a class, an interface interfaces, only `java.lang.Object` nothing. The VM
does not check them, compilers do; on a class path where an interface is extended like a class, `isInstanceOf` misses the subtyping of it.
The queries are recursive functions, and that each is what its definition says is a fact to be proved: any set of loaded classes has one
that leads to none of the others (`FoundedTable`, from the hypothesis, and for arrays from their dimensions), so that `Recursion` gives
the function. It takes body and links as functions, not as operators, and is used for searches (`FirstFoundDefined`),
superclasses and superinterfaces (`AboveDefined`), instances of arrays (`InstancesDefined`) and the language's `Supertypes` (`SupertypesDefined`);
properties of them follow by least counterexamples. `PoolInv` is that an entry is kept for a prepared class, with the answer of now.
Prepared classes lead only to prepared ones, which no step changes, so that a search from one finds after
a step what it found before (`LookupStays`): classes entered or linked meanwhile cannot be met.

TLC evaluates the hypotheses for every class path of the runs (`OrdinaryClassFiles` in `MCRuntimeConstantPool`).

**InstructionsProofs** (`TypesAreRight`, `PointersAreCurrent`, `PlacesHoldInstances`). Assumptions: ints, longs and bytes have some number
of bits, the powers of two up to the sum of both widths are numbers (`WidthsAssumption`; the provers know nothing of exponents), what is
pushed and copied is given by numbers, null is no pointer (`ValuesAssumption`), classes are a name and dimensions, fields are
numbered, an object of a class is an instance of it, and every signature has a receiver (`ClassesAssumption`). TLC evaluates them in `instructions`.
`IInv` is: objects have the shape of their classes and refer to objects (`HeapOK`); every slot fits what verification
knows of it, with longs in two slots (`StackOK`); the arrays that `multianewarray` has in the making are arrays of the right dimensions (`LevelsOK`); and
`Clean`. `OnlyCurrentPointers` speaks of what can be reached, which is no induction hypothesis, as
a step changes what that is. `Clean` says instead that there is a set of objects that holds what operands and arrays in the making lead
to, is closed under references, and lies where the last collection put it. A step that stores, loads or allocates keeps or extends the set; a
collection replaces it by the reachable objects (`CollectionCleans`). An instruction is described by what it takes and what
it leaves, and lemmas of that form carry the invariant through it, however long the stack (`SlotsOfSuffix` and its likes count slots where operands are counted).
`PlacesHoldInstances` has a hypothesis of its own, `"copy store" \notin Cases`: without it `arraycopy` puts any reference into any array, and the property is
false of the code. All other `Cases` are allowed: also where results are not Java's, types and addresses are right. Where what the code does is undefined, as
when `checkcast` looks at an object after a collection, the method ends, and the theorems do not say what becomes of it.
Copying element by element, `CopyElements`, is a function that exists by `StepByStep` in `NumberInduction`.

**Only model-checked**: liveness (`WalkEnds`, `CollectionEnds`, `AllocationIsAnswered`, `ExceptionsAreDealtWith`, `ReadingEnds`),
which is out of the prover's reach; that `Instructions` implements `JavaMachine` (`ComputesLikeJava`), which is a statement about what each
instruction computes bit by bit; everything about `ClassFileFormat`. What `Descriptors` and `Encoding` compute is recursion over lists of characters; `Recursion` would give their functions, but
what these return for every input has not been worked out.

## 5. Not modelled

- *In the interpreter*: `and`, `or`, `xor` and `iinc`, one operation of C++ each; arithmetic on floats and
  doubles, which is the processor's; the targets of branches and switches beyond what `FrameRoots` needs; the
  values of static fields, which are slots like those of the operand stack.
- *Other natives of `java.base`.* They return constants, call the C library or components that are
  modelled, or access memory at an offset (`Unsafe`); that offsets are right is `ClassLinking`'s `LayoutsAreSound`.
- *JNI functions* other than handles, and the names of native methods. Two faults seen there: `GetStringUTFChars`
  copies as many bytes as the string has UTF-16 units (`vm/JniImplementation.cpp:156`), and mangled names do not escape underscores
  (`vm/NativeMethods.cpp:25`).
- *Zip archives, streams, launcher.* I/O without state that outlives a call. A jar on the
  class path would be searched by the base names of classes, without their packages (`vm/ClassPath.cpp:60`), and so find
  the wrong ones or none; no caller adds a jar.
- *Types printed for messages* (`toJavaString`, `formatAsJavaSignature`).
- *Malformed class files* other than those cut short: hierarchies with cycles, code that does not verify. The VM has no
  verifier and relies on neither occurring.
- *The JDK's classes* appear as constants: `java.lang.Class`'s supertypes, that `java.lang.Object` has no
  instance fields. The latter is why the second layout of `java.lang.Class` changes nothing, as `LayoutsAreFinal` says it does not.

## 6. Plan

What is left, in the order of importance.

Proving: what `Descriptors` and `Encoding` compute, as the ground for `ReadsWhatWasWritten`; the places where objects are made in `Instructions` from the class
hierarchy of `ClassLinking`, so that `ClassesAssumption` becomes a theorem.

Modelling: static fields and `iinc` in `Instructions`; the JNI functions that make handles;
the composition of `Invocation` with `CopyingGc`, so that an exception on its way is a root that moves.
