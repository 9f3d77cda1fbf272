--------------------------- MODULE ClassFileFormat ---------------------------
(* What the reader reads: the class file format as a compiler writes it.  The *)
(* compiler is not part of the repository; these definitions say which bytes  *)
(* stand for a class, so that reading can be compared with writing.  A class  *)
(* to be written is a record like the one the reader builds, with the         *)
(* attributes that the reader skips in "extra".                               *)
EXTENDS ClassFileReader, Descriptors, SequencesExt

CONSTANTS Contents,     \* the classes that are written
          MayBeCut,     \* those of them whose files may be cut short
          FieldTypes,   \* the types that the properties about descriptors try
          MethodTypes

VARIABLES
  content,   \* the class that the file was written for
  cut        \* how many bytes the file lacks

fileVars == <<vars, content, cut>>

W1(n) == <<n>>
W2(n) == <<n \div 256, n % 256>>
W4(n) == W2(n \div 65536) \o W2(n % 65536)

Table(Write(_), items) ==
  W2(Len(items)) \o FlattenSeq([i \in DOMAIN items |-> Write(items[i])])

(* A code unit in modified UTF-8: NUL takes two bytes, and a supplementary    *)
(* character is written as its two surrogates.                                *)
UnitBytes(u) ==
  IF u \in 1 .. 127 THEN <<u>>
  ELSE IF u < 2048 THEN <<192 + u \div 64, ContinuationOf(u)>>
  ELSE <<224 + u \div 4096, ContinuationOf(u \div 64), ContinuationOf(u)>>
ModifiedUtf8(text) == FlattenSeq([i \in DOMAIN text |-> UnitBytes(text[i])])

ItemBytes(size, v) == CASE size = 1 -> W1(v) [] size = 2 -> W2(v) [] size = 4 -> v
ConstantBytes(c) ==
  CASE c.tag = 0 -> <<>>
    [] c.tag = 1 -> <<1>> \o W2(Len(ModifiedUtf8(c.data))) \o ModifiedUtf8(c.data)
    [] OTHER -> <<c.tag>> \o FlattenSeq([i \in DOMAIN c.data |->
                                        ItemBytes(Layout(c.tag)[i], c.data[i])])

AttributeBytes(a) == W2(a.name) \o W4(Len(a.bytes)) \o a.bytes
Attribute(index, bytes) == [name |-> index, bytes |-> bytes]

(* The first index of the pool that holds a string.                           *)
IndexOf(c, text) ==
  CHOOSE i \in DOMAIN c.pool : c.pool[i] = [tag |-> 1, data |-> text]
Given(c, name, value) ==
  IF value = Absent THEN <<>> ELSE <<Attribute(IndexOf(c, name), W2(value))>>

FieldBytes(c, f) ==
  W2(f.flags) \o W2(f.name) \o W2(f.descriptor)
    \o Table(AttributeBytes, f.extra \o Given(c, Names.ConstantValue, f.value))

CodeBytes(c, m) ==
  LET Handler(h) == W2(h[1]) \o W2(h[2]) \o W2(h[3]) \o W2(h[4])
      Line(l) == W2(l[1]) \o W2(l[2])
      lines == IF m.code.lines = <<>> THEN <<>>
               ELSE <<Attribute(IndexOf(c, Names.LineNumberTable),
                                Table(Line, m.code.lines))>>
  IN W2(m.code.maxStack) \o W2(m.code.maxLocals) \o W4(Len(m.code.bytes))
       \o m.code.bytes \o Table(Handler, m.code.handlers)
       \o Table(AttributeBytes, m.code.attributes \o lines)

MethodBytes(c, m) ==
  LET code == IF m.code = Absent THEN <<>>
              ELSE <<Attribute(IndexOf(c, Names.Code), CodeBytes(c, m))>>
      exceptions == IF m.exceptions = <<>> THEN <<>>
                    ELSE <<Attribute(IndexOf(c, Names.Exceptions),
                                     Table(W2, m.exceptions))>>
  IN W2(m.flags) \o W2(m.name) \o W2(m.descriptor)
       \o Table(AttributeBytes, exceptions \o m.extra \o code)

Written(c) ==
  LET Field(f) == FieldBytes(c, f)
      Method(m) == MethodBytes(c, m)
  IN <<202, 254, 186, 190>> \o W2(c.minor) \o W2(c.major)
       \o W2(Len(c.pool) + 1)
       \o FlattenSeq([i \in DOMAIN c.pool |-> ConstantBytes(c.pool[i])])
       \o W2(c.flags) \o W2(c.this) \o W2(c.super) \o Table(W2, c.interfaces)
       \o Table(Field, c.fields) \o Table(Method, c.methods)
       \o Table(AttributeBytes, c.extra \o Given(c, Names.SourceFile, c.source))

(* What the reader should make of it: everything but what it skips, with the  *)
(* attributes of code under their names.                                      *)
Without(r) == [n \in DOMAIN r \ {"extra"} |-> r[n]]
CodeMeant(c, code) ==
  IF code = Absent THEN Absent
  ELSE LET named(n) == {a \in Range(code.attributes) : c.pool[a.name].data = n}
           names == {c.pool[a.name].data : a \in Range(code.attributes)}
       IN [code EXCEPT !.attributes =
             [n \in names |-> (CHOOSE a \in named(n) : TRUE).bytes]]
MethodMeant(c, m) == [Without(m) EXCEPT !.code = CodeMeant(c, @)]
Meant(c) ==
  [Without(c) EXCEPT !.fields  = [i \in DOMAIN @ |-> Without(@[i])],
                     !.methods = [i \in DOMAIN @ |-> MethodMeant(c, @[i])]]

-----------------------------------------------------------------------------
(* Types as descriptors.                                                      *)
FieldString(t) ==
  Repeated(Char.array, t.dims)
    \o IF t.kind = "class" THEN <<Char.class>> \o t.name \o <<Char.semicolon>>
       ELSE t.name
MethodString(d) ==
  <<Char.open>> \o FlattenSeq([i \in DOMAIN d.parameters |-> FieldString(d.parameters[i])])
    \o <<Char.close>> \o IF d.returns = Void THEN <<Char.void>>
                         ELSE FieldString(d.returns)

-----------------------------------------------------------------------------
FileInit ==
  /\ content \in Contents
  /\ LET bytes == Written(content)
     IN /\ cut \in IF content \in MayBeCut THEN 0 .. Len(bytes) ELSE {0}
        /\ file = SubSeq(bytes, 1, Len(bytes) - cut)
  /\ Init

FileNext == Next /\ UNCHANGED <<content, cut>>
FileSpec == FileInit /\ [][FileNext]_fileVars /\ WF_fileVars(FileNext)

IsText(c) == c.tag = 1
Texts == {c.data : c \in {c \in Range(class.pool) : IsText(c)}}

(* As long as the stream has delivered what it was asked for, what has been   *)
(* read is the beginning of what was written, constant by constant, field by  *)
(* field and method by method: no loop runs a turn too many or too few, and   *)
(* no attribute is skipped by a wrong length, long and double entries and     *)
(* nested attributes included, wherever the file is cut.                      *)
ReadSoFarIsRight ==
  ~fail =>
    LET m == Meant(content)
        Begins(s, t) == Len(s) <= Len(t) /\ \A i \in 1 .. Len(s) - 1 : s[i] = t[i]
    IN /\ Begins(class.pool, m.pool)
       /\ Begins(class.interfaces, m.interfaces)
       /\ Begins(class.fields, m.fields) /\ Begins(class.methods, m.methods)
       /\ class.methods # <<>> /\ class.methods[LastMethod].code # Absent =>
            LET code == class.methods[LastMethod].code
                written == m.methods[LastMethod].code
            IN /\ Begins(code.handlers, written.handlers)
               /\ Begins(code.lines, written.lines)

(* A whole file is accepted, read to its last byte, and gives the class that  *)
(* it was written for.  Its strings come back through two conversions.        *)
ReadsWhatWasWritten ==
  cut = 0 => /\ step \notin {"Refused", "Panic"}
             /\ step = "Done" => /\ class = Meant(content)
                                 /\ pos = Len(file) /\ ~fail

(* A file that ends too early may be accepted, with numbers made up in its    *)
(* place, but never with a string, instructions or an attribute of code made  *)
(* up: readVector is the read that looks whether the bytes were there.        *)
NothingIsMadeUp ==
  LET m == Meant(content)
  IN /\ \A i \in DOMAIN class.pool : IsText(class.pool[i]) =>
          i \in DOMAIN m.pool /\ class.pool[i] = m.pool[i]
     /\ \A i \in DOMAIN class.methods : class.methods[i].code # Absent =>
          LET code == class.methods[i].code
          IN /\ i \in DOMAIN m.methods /\ m.methods[i].code # Absent
             /\ code.bytes = m.methods[i].code.bytes
             /\ \A n \in DOMAIN code.attributes :
                  /\ n \in DOMAIN m.methods[i].code.attributes
                  /\ code.attributes[n] = m.methods[i].code.attributes[n]

(* Every descriptor that the format allows is understood: the parsers return  *)
(* the type it was written for, with as many parameter slots as a caller has  *)
(* to pop. Nothing else is: a string that is taken for a field's type is that *)
(* type's descriptor, and one that is taken for a method's begins with the    *)
(* descriptor (what follows it is never looked at).                           *)
DescriptorsAreUnderstood ==
  step = "Done" =>
    /\ \A t \in FieldTypes : FieldString(t) \in Texts =>
         /\ FieldTypeParse(FieldString(t)) = t
         /\ t.dims > 0 => ClassName(t) = FieldString(t)
    /\ \A d \in MethodTypes : MethodString(d) \in Texts =>
         /\ MethodDescriptorParse(MethodString(d)) = d
         /\ NumParameterSlots(d) = Len(d.parameters) +
              Cardinality({i \in DOMAIN d.parameters : d.parameters[i] \in
                 {PrimitiveType(Char.long, 0), PrimitiveType(Char.double, 0)}})
    /\ \A s \in Texts :
         /\ FieldTypeParse(s) # None => FieldString(FieldTypeParse(s)) = s
         /\ MethodDescriptorParse(s) # None =>
              LET d == MethodString(MethodDescriptorParse(s))
              IN Len(d) <= Len(s) /\ d = SubSeq(s, 1, Len(d))

(* Reading ends, however the file goes on or stops: loops that run on numbers *)
(* from behind the end run out as well.                                       *)
ReadingEnds == <>(step \in Ended)
=============================================================================
