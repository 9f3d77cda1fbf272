--------------------------- MODULE ClassFileReader ---------------------------
(* ClassFileReader::parse (class_file/ClassFileReader.cpp): one pass over the *)
(* bytes of a class file, an action per run of reads between two decisions.   *)
(*                                                                            *)
(* The stream is an std::istream.  readU1, readU2 and readU4 do not look      *)
(* whether they got what they asked for: behind the end of the file they      *)
(* return what was in memory, written Junk here, and the reader goes on with  *)
(* it.  Where it decides upon Junk the model takes any outcome, of counts and   *)
(* tags those in JunkCounts and JunkTags.                                     *)
EXTENDS Encoding

CONSTANTS Junk,        \* a value that comes from behind the end of the file
          JunkCounts,  \* what such a value may be where it is a count
          JunkTags,    \* and where it is the tag of a constant
          Halves,      \* how many values 16 bits have: 65536, or fewer to make
                       \* files with lengths that do not fit small
          Absent,      \* an optional without a value
          Names        \* the strings of the attributes the reader knows

ASSUME HalvesAreValues == Halves \in Nat \ {0}
ASSUME JunkCountsAreCounts == JunkCounts \subseteq Nat
ASSUME NamesAreStrings ==
  DOMAIN Names = {"Code", "ConstantValue", "Exceptions", "SourceFile",
                  "LineNumberTable"}

VARIABLES
  file,   \* the bytes of the file
  pos,    \* how many of them have been read
  fail,   \* the stream's failbit: a read found fewer bytes than it asked for
  step,   \* which loop of the reader is running, or how it ended
  left,   \* per loop, how many turns are left
  class   \* what has been read so far

vars == <<file, pos, fail, step, left, class>>

Loops == {"pool", "interfaces", "fields", "methods", "exceptions", "handlers",
          "codeAttributes", "lines", "attributes"}
Ended == {"Done", "Refused", "Panic"}
Steps == {"Magic", "Pool", "Interfaces", "Fields", "Methods", "Exceptions",
          "Handlers", "CodeAttributes", "Lines", "Attributes"} \union Ended

Empty == [tag |-> 0, data |-> <<>>]

(* What Code's constructor is given; the bytes are the instructions.          *)
NewCode(stack, locals, bytes) ==
  [maxStack |-> stack, maxLocals |-> locals, bytes |-> bytes, handlers |-> <<>>,
   lines |-> <<>>, attributes |-> <<>>]

Init ==
  /\ file \in Seq(Byte)
  /\ pos = 0 /\ fail = FALSE /\ step = "Magic"
  /\ left = [l \in Loops |-> 0]
  /\ class = [minor |-> 0, major |-> 0, pool |-> <<>>, flags |-> 0, this |-> 0,
              super |-> 0, interfaces |-> <<>>, fields |-> <<>>,
              methods |-> <<>>, source |-> Absent]

-----------------------------------------------------------------------------
(* The stream.  Every action reads at offsets from where it starts and then   *)
(* advances by all it has read.                                               *)
Holds(n) == pos + n <= Len(file)

(* The n bytes from an offset on; a vector is filled with zeros before a read *)
(* that may come back short.                                                  *)
Bytes(offset, n) ==
  [i \in 1 .. n |-> IF Holds(offset + i) THEN file[pos + offset + i] ELSE 0]

U1(o) == IF Holds(o + 1) THEN file[pos + o + 1] ELSE Junk
U2(o) == IF Holds(o + 2) THEN file[pos + o + 1] * 256 + file[pos + o + 2] ELSE Junk
Array(o, n) == IF Holds(o + n) THEN Bytes(o, n) ELSE Junk

(* readU4 where the value is a length; it comes with its lower 16 bits.       *)
U4(o) == IF Holds(o + 4)
         THEN ((file[pos + o + 1] * 256 + file[pos + o + 2]) * 256
                + file[pos + o + 3]) * 256 + file[pos + o + 4]
         ELSE Junk
LowHalf(n) == IF n = Junk THEN Junk ELSE n % Halves

Advance(n) ==
  /\ pos' = IF Holds(n) THEN pos + n ELSE Len(file)
  /\ fail' = (fail \/ ~Holds(n))
  /\ UNCHANGED file

Counts(n) == IF n = Junk THEN JunkCounts ELSE {n}
Less(n) == IF n = 0 THEN 0 ELSE n - 1

\* Mutant: readVector does not look at the stream after reading.
VectorUnchecked(n, size) == size # Junk

(* readVector after the first n bytes of an action: whether it throws.        *)
Vector(n, size) == size # Junk /\ ~fail /\ Holds(n + size)

(* skip after the first n bytes: the loop counts the read that fails, too, so *)
(* that one byte may be missing.                                              *)
Skipped(n, size) == size # Junk /\ (size = 0 \/ (Holds(n) /\ Holds(n + size - 1)))

End(how) == /\ step' = how
            /\ UNCHANGED <<file, pos, fail, left, class>>
\* Mutant: nothing is done about an error of the stream.
RefuseLater == UNCHANGED vars

Refuse == End("Refused")

(* ConstantPool::getString as the reader uses it, on the index of a name.  An *)
(* index that leads nowhere is undefined: any name may come out.              *)
NameAt(index) ==
  IF index \in DOMAIN class.pool /\ class.pool[index].tag = 1
  THEN {class.pool[index].data}
  ELSE {Names[n] : n \in DOMAIN Names} \union {<<>>}

-----------------------------------------------------------------------------
ReadMagic ==
  /\ step = "Magic"
  /\ \/ /\ Array(0, 4) \in {<<202, 254, 186, 190>>, Junk}
        /\ \E n \in Counts(U2(8)) :
             /\ left' = [left EXCEPT !["pool"] = Less(n)]
             /\ class' = [class EXCEPT !.minor = U2(4), !.major = U2(6)]
        /\ step' = "Pool" /\ Advance(10)
     \/ Array(0, 4) # <<202, 254, 186, 190>> /\ Refuse

(* The sizes of the numbers behind a tag.  A long or double is followed by an *)
(* index that nothing is stored under.                                        *)
Layout(tag) ==
  CASE tag \in {7, 8, 16}              -> <<2>>
    [] tag \in {9, 10, 11, 12, 18}     -> <<2, 2>>
    [] tag \in {3, 4}                  -> <<4>>
    [] tag \in {5, 6}                  -> <<4, 4>>
    [] tag = 15                        -> <<1, 2>>
Tags == {3, 4, 5, 6, 7, 8, 9, 10, 11, 12, 15, 16, 18}
\* Mutant: a long is not seen to take two entries.
WideDoubles == {6}
Wide == {5, 6}

Offset(layout, i) == IF i = 1 THEN 1 ELSE 1 + layout[1]
Item(size, o) == CASE size = 1 -> U1(o) [] size = 2 -> U2(o) [] size = 4 -> Array(o, 4)
SizeOfLayout(layout) == Offset(layout, Len(layout)) + layout[Len(layout)]

ReadConstant ==
  /\ step = "Pool" /\ left["pool"] > 0
  /\ \E tag \in IF U1(0) = Junk THEN JunkTags ELSE Tags \intersect {U1(0)} :
       LET data == [i \in DOMAIN Layout(tag) |->
                      Item(Layout(tag)[i], Offset(Layout(tag), i))]
       IN /\ class' = [class EXCEPT !.pool = @ \o <<[tag |-> tag, data |-> data]>>
                                       \o IF tag \in Wide THEN <<Empty>> ELSE <<>>]
          /\ left' = [left EXCEPT !["pool"] = IF tag \in Wide THEN Less(@ - 1)
                                              ELSE @ - 1]
          /\ Advance(SizeOfLayout(Layout(tag)))
  /\ UNCHANGED step

ReadUtf8 ==
  /\ step = "Pool" /\ left["pool"] > 0 /\ U1(0) \in {1, Junk}
  /\ LET length == U2(1)
     IN IF ~Vector(3, length) THEN Refuse
        ELSE LET text == Decoded(Bytes(3, length))
             IN IF text = Invalid THEN End("Panic")
                ELSE /\ class' = [class EXCEPT !.pool =
                                    Append(@, [tag |-> 1, data |-> text])]
                     /\ left' = [left EXCEPT !["pool"] = @ - 1]
                     /\ Advance(3 + length) /\ UNCHANGED step

RefuseTag ==
  /\ step = "Pool" /\ left["pool"] > 0
  /\ U1(0) \notin Tags \union {1}
  /\ Refuse

ReadHeader ==
  /\ step = "Pool" /\ left["pool"] = 0
  /\ class' = [class EXCEPT !.flags = U2(0), !.this = U2(2), !.super = U2(4)]
  /\ \E n \in Counts(U2(6)) : left' = [left EXCEPT !["interfaces"] = n]
  /\ step' = "Interfaces" /\ Advance(8)

ReadInterface ==
  /\ step = "Interfaces" /\ left["interfaces"] > 0
  /\ class' = [class EXCEPT !.interfaces = Append(@, U2(0))]
  /\ left' = [left EXCEPT !["interfaces"] = @ - 1]
  /\ Advance(2) /\ UNCHANGED step

(* A loop is over: the number of turns of the next one is read.               *)
EndLoop(loop, from, next, to) ==
  /\ step = from /\ left[loop] = 0
  /\ \E n \in Counts(U2(0)) : left' = [left EXCEPT ![next] = n]
  /\ step' = to /\ Advance(2) /\ UNCHANGED class

EndInterfaces == EndLoop("interfaces", "Interfaces", "fields", "Fields")

-----------------------------------------------------------------------------
(* readFields.  Its inner loop over the attributes of the last field read has *)
(* turns left while left["attributes"] is positive.                           *)
ReadField ==
  /\ step = "Fields" /\ left["attributes"] = 0 /\ left["fields"] > 0
  /\ class' = [class EXCEPT !.fields =
                 Append(@, [flags |-> U2(0), name |-> U2(2), descriptor |-> U2(4),
                            value |-> Absent])]
  /\ \E n \in Counts(U2(6)) :
       left' = [left EXCEPT !["fields"] = @ - 1, !["attributes"] = n]
  /\ Advance(8) /\ UNCHANGED step

SkipAttribute(length) ==
  IF Skipped(6, length)
  THEN Advance(6 + length) /\ UNCHANGED <<step, class>>
       /\ left' = [left EXCEPT !["attributes"] = @ - 1]
  ELSE Refuse

(* A skip of a length read from behind the end: nothing to skip, or thrown.   *)
Lengths(n) == IF n = Junk THEN {0, Junk} ELSE {n}

ReadFieldAttribute ==
  /\ step = "Fields" /\ left["attributes"] > 0
  /\ \E name \in NameAt(U2(0)), length \in Lengths(U4(2)) :
       IF name = Names.ConstantValue
       THEN /\ class' = [class EXCEPT !.fields[Len(class.fields)].value = U2(6)]
            /\ left' = [left EXCEPT !["attributes"] = @ - 1]
            /\ Advance(8) /\ UNCHANGED step
       ELSE SkipAttribute(length)

EndFields == left["attributes"] = 0 /\ EndLoop("fields", "Fields", "methods", "Methods")

-----------------------------------------------------------------------------
(* readMethods and readCode, which fill in the last method.                   *)
ReadMethod ==
  /\ step = "Methods" /\ left["attributes"] = 0 /\ left["methods"] > 0
  /\ class' = [class EXCEPT !.methods =
                 Append(@, [flags |-> U2(0), name |-> U2(2), descriptor |-> U2(4),
                            code |-> Absent, exceptions |-> <<>>])]
  /\ \E n \in Counts(U2(6)) :
       left' = [left EXCEPT !["methods"] = @ - 1, !["attributes"] = n]
  /\ Advance(8) /\ UNCHANGED step

LastMethod == Len(class.methods)

ReadMethodAttribute ==
  /\ step = "Methods" /\ left["attributes"] > 0
  /\ \E name \in NameAt(U2(0)), length \in Lengths(U4(2)) :
       CASE name = Names.Code ->
              LET size == U4(10)
              IN IF ~Vector(14, size) THEN Refuse
                 ELSE /\ class' = [class EXCEPT !.methods[LastMethod].code =
                                     NewCode(U2(6), U2(8), Bytes(14, size))]
                      /\ \E n \in Counts(U2(14 + size)) :
                           left' = [left EXCEPT !["attributes"] = @ - 1,
                                                !["handlers"] = n]
                      /\ step' = "Handlers" /\ Advance(16 + size)
         [] name = Names.Exceptions ->
              /\ \E n \in Counts(U2(6)) :
                   left' = [left EXCEPT !["attributes"] = @ - 1, !["exceptions"] = n]
              /\ step' = "Exceptions" /\ Advance(8) /\ UNCHANGED class
         [] OTHER -> SkipAttribute(length)

ReadException ==
  /\ step = "Exceptions" /\ left["exceptions"] > 0
  /\ class' = [class EXCEPT !.methods[LastMethod].exceptions = Append(@, U2(0))]
  /\ left' = [left EXCEPT !["exceptions"] = @ - 1]
  /\ Advance(2) /\ UNCHANGED step

EndExceptions ==
  /\ step = "Exceptions" /\ left["exceptions"] = 0
  /\ step' = "Methods" /\ UNCHANGED <<file, pos, fail, left, class>>

ReadHandler ==
  /\ step = "Handlers" /\ left["handlers"] > 0
  /\ class' = [class EXCEPT !.methods[LastMethod].code.handlers =
                 Append(@, <<U2(0), U2(2), U2(4), U2(6)>>)]
  /\ left' = [left EXCEPT !["handlers"] = @ - 1]
  /\ Advance(8) /\ UNCHANGED step

EndHandlers ==
  EndLoop("handlers", "Handlers", "codeAttributes", "CodeAttributes")

(* The length of an attribute of the code is kept in 16 bits.                 *)
ReadCodeAttribute ==
  /\ step = "CodeAttributes" /\ left["codeAttributes"] > 0
  /\ \E name \in NameAt(U2(0)) :
       LET length == LowHalf(U4(2))
       IN IF name = Names.LineNumberTable
          THEN /\ \E n \in Counts(U2(6)) :
                    left' = [left EXCEPT !["codeAttributes"] = @ - 1, !["lines"] = n]
               /\ step' = "Lines" /\ Advance(8) /\ UNCHANGED class
          ELSE IF ~Vector(6, length) THEN Refuse
          ELSE /\ class' = [class EXCEPT !.methods[LastMethod].code.attributes =
                    [n \in DOMAIN @ \union {name} |->
                       IF n = name THEN Bytes(6, length) ELSE @[n]]]
               /\ left' = [left EXCEPT !["codeAttributes"] = @ - 1]
               /\ Advance(6 + length) /\ UNCHANGED step

ReadLine ==
  /\ step = "Lines" /\ left["lines"] > 0
  /\ class' = [class EXCEPT !.methods[LastMethod].code.lines = Append(@, <<U2(0), U2(2)>>)]
  /\ left' = [left EXCEPT !["lines"] = @ - 1]
  /\ Advance(4) /\ UNCHANGED step

EndLines ==
  /\ step = "Lines" /\ left["lines"] = 0
  /\ step' = "CodeAttributes" /\ UNCHANGED <<file, pos, fail, left, class>>

EndCodeAttributes ==
  /\ step = "CodeAttributes" /\ left["codeAttributes"] = 0
  /\ step' = "Methods" /\ UNCHANGED <<file, pos, fail, left, class>>

EndMethods ==
  left["attributes"] = 0 /\ EndLoop("methods", "Methods", "attributes", "Attributes")

-----------------------------------------------------------------------------
ReadAttribute ==
  /\ step = "Attributes" /\ left["attributes"] > 0
  /\ \E name \in NameAt(U2(0)), length \in Lengths(U4(2)) :
       IF name = Names.SourceFile
       THEN /\ class' = [class EXCEPT !.source = U2(6)]
            /\ left' = [left EXCEPT !["attributes"] = @ - 1]
            /\ Advance(8) /\ UNCHANGED step
       ELSE SkipAttribute(length)

Finish == step = "Attributes" /\ left["attributes"] = 0 /\ End("Done")

Next ==
  \/ ReadMagic \/ ReadConstant \/ ReadUtf8 \/ RefuseTag \/ ReadHeader
  \/ ReadInterface \/ EndInterfaces
  \/ ReadField \/ ReadFieldAttribute \/ EndFields
  \/ ReadMethod \/ ReadMethodAttribute \/ ReadException \/ EndExceptions
  \/ ReadHandler \/ EndHandlers \/ ReadCodeAttribute \/ ReadLine \/ EndLines
  \/ EndCodeAttributes \/ EndMethods \/ ReadAttribute \/ Finish

Spec == Init /\ [][Next]_vars

(* The reader is a loop of one thread, which nothing waits in.                *)
FairSpec == Spec /\ WF_vars(Next)
-----------------------------------------------------------------------------
(* The reader's own state: the position stays in the file, and a stream that  *)
(* has failed is at its end, so that no later read finds a byte.              *)
ReaderTypeOK ==
  /\ file \in Seq(Byte) /\ pos \in 0 .. Len(file) /\ fail \in BOOLEAN
  /\ fail => pos = Len(file)
  /\ step \in Steps
  /\ left \in [Loops -> Nat]
=============================================================================
