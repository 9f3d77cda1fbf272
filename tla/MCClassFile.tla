----------------------------- MODULE MCClassFile -----------------------------
(* Class files for the model checker: every structure the reader branches on, *)
(* in files of at most about a hundred bytes.                                 *)
EXTENDS ClassFileFormat

\* Names of attributes are single letters; an attribute "o" is one to skip.
AttributeNames ==
  [Code |-> <<99>>, ConstantValue |-> <<118>>, Exceptions |-> <<101>>,
   SourceFile |-> <<115>>, LineNumberTable |-> <<108>>]
Utf8(text) == [tag |-> 1, data |-> text]
NamePool ==
  <<Utf8(<<99>>), Utf8(<<118>>), Utf8(<<101>>), Utf8(<<115>>), Utf8(<<108>>),
    Utf8(<<111>>)>>
Other == 6
Subject == 7     \* the index of the string a content is about

Plain ==
  [minor |-> 3, major |-> 65, pool |-> NamePool, flags |-> 33, this |-> 258,
   super |-> 513, interfaces |-> <<>>, fields |-> <<>>, methods |-> <<>>,
   source |-> Absent, extra |-> <<>>]
WithText(text) == [Plain EXCEPT !.pool = Append(@, Utf8(text))]

\* Strings: code points around every border of the encodings, in UTF-16.
CodePoints == {1, 127, 128, 2047, 2048, 55295, 57344, 65535, 65536, 66615, 1114111}
Utf16(p) == IF p < 65536 THEN <<p>>
            ELSE <<55296 + (p - 65536) \div 1024, 56320 + ((p - 65536) % 1024)>>
Strings == {<<>>} \union {Utf16(p) : p \in CodePoints}
             \union {Utf16(p) \o Utf16(q) : p \in CodePoints, q \in CodePoints}

\* Types and strings that look like types.
SomeFieldTypes ==
  {PrimitiveType(c, n) : c \in {Char.int, Char.long}, n \in 0 .. 2}
    \union {ClassType(<<110>>, n) : n \in 0 .. 1}
    \union {PrimitiveType(c, 0) : c \in Primitives}
FewTypes == {PrimitiveType(Char.int, 0), PrimitiveType(Char.double, 0),
             PrimitiveType(Char.long, 2), ClassType(<<110>>, 1)}
SomeMethodTypes ==
  {[parameters |-> p, returns |-> r] :
     p \in {<<>>} \union {<<t>> : t \in FewTypes}
             \union {<<t, u>> : t \in FewTypes, u \in FewTypes},
     r \in {Void} \union FewTypes}
Letters == {Char.open, Char.close, Char.array, Char.class, Char.semicolon,
            Char.int, Char.void, 110}
Lookalikes == UNION {[1 .. n -> Letters] : n \in 1 .. 3}
                \union {<<Char.open>> \o s : s \in [1 .. 3 -> Letters]}

\* Structures.
AllConstants ==
  NamePool \o <<[tag |-> 7, data |-> <<1>>], [tag |-> 5, data |-> <<<<1, 2, 3, 4>>, <<5, 6, 7, 8>>>>],
    Empty, [tag |-> 9, data |-> <<7, 259>>], [tag |-> 15, data |-> <<5, 10>>],
    [tag |-> 3, data |-> <<<<255, 255, 255, 254>>>>], [tag |-> 18, data |-> <<0, 12>>],
    Utf8(<<>>), [tag |-> 16, data |-> <<6>>],
    [tag |-> 6, data |-> <<<<64, 9, 33, 251>>, <<84, 68, 45, 24>>>>], Empty>>
Extras == {<<>>, <<Attribute(Other, <<>>)>>, <<Attribute(Other, <<1, 2, 3>>)>>}
Fields == {[flags |-> 8, name |-> 6, descriptor |-> 6, value |-> v, extra |-> x] :
             v \in {Absent, 12}, x \in Extras}
Handler == <<0, 2, 3, 0>>
Codes ==
  {[maxStack |-> 2, maxLocals |-> 1, bytes |-> b, handlers |-> h, lines |-> l,
    attributes |-> a] :
     b \in {<<177>>, <<3, 172>>}, h \in {<<>>, <<Handler, Handler>>},
     l \in {<<>>, <<<<0, 7>>, <<1, 300>>>>}, a \in Extras}
Method(code, exceptions, extra) ==
  [flags |-> 1, name |-> 6, descriptor |-> 6, code |-> code,
   exceptions |-> exceptions, extra |-> extra]
Methods == {Method(k, e, x) : k \in {Absent} \union Codes, e \in {<<>>, <<9, 10>>},
                              x \in {<<>>, <<Attribute(Other, <<1, 2, 3>>)>>}}
OneMethod == Method([maxStack |-> 2, maxLocals |-> 1, bytes |-> <<3, 172>>,
                     handlers |-> <<Handler>>, lines |-> <<<<0, 7>>>>,
                     attributes |-> <<Attribute(Other, <<1, 2>>)>>],
                    <<9>>, <<>>)
Full == [Plain EXCEPT !.interfaces = <<7, 300>>,
           !.fields = <<CHOOSE f \in Fields : f.value = 12 /\ f.extra = <<Attribute(Other, <<1, 2, 3>>)>>>>,
           !.methods = <<OneMethod, Method(Absent, <<>>, <<>>)>>,
           !.source = 6, !.extra = <<Attribute(Other, <<9>>)>>]
FewConstants == SubSeq(AllConstants, 6, 10)
Cut == {Full, [Plain EXCEPT !.pool = FewConstants],
        [Plain EXCEPT !.extra = <<Attribute(Other, <<1, 2, 3>>)>>]}
Structures ==
  {[Plain EXCEPT !.pool = AllConstants]} \union Cut
    \union {[Plain EXCEPT !.fields = <<f, g>>] : f \in Fields, g \in Fields}
    \union {[Full EXCEPT !.methods = <<m, OneMethod>>] : m \in Methods}
    \union {[Plain EXCEPT !.interfaces = i, !.source = s, !.extra = x] :
              i \in {<<>>, <<7>>, <<7, 300>>}, s \in {Absent, 6}, x \in Extras}

All == Structures
         \union {WithText(s) : s \in Strings \union Lookalikes}
         \union {WithText(FieldString(t)) : t \in SomeFieldTypes}
         \union {WithText(MethodString(d)) : d \in SomeMethodTypes}

(* Instances for questions whose answer is known to be no: a string with the  *)
(* character NUL; an attribute of code with a length that does not fit into   *)
(* 16 bits, with Halves small.                                                *)
NulStrings == {WithText(<<102, 111, 0, 111>>)}
LongAttribute ==
  {[Full EXCEPT !.methods[1].code.attributes = <<Attribute(Other, <<1, 2, 3>>)>>]}

(* Would a file that lacks its end be refused, as the reader's error "not     *)
(* enough bytes in the stream" has it?                                        *)
CutIsNoticed == cut > 0 => step # "Done"
=============================================================================
