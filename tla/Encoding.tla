------------------------------ MODULE Encoding ------------------------------
(* The strings of a class file: a Utf8 constant holds the modified UTF-8 of   *)
(* the JVM, which decodeJvmUtf8 (common/Encoding.cpp) turns into UTF-8 and    *)
(* utf8ToUtf16 into UTF-16 code units.  A string in UTF-8 is a sequence of    *)
(* characters, each a tuple of bytes; Invalid is a place where there is none: *)
(* decodeJvmUtf8 panics.                                                      *)
EXTENDS Naturals, Sequences

CONSTANT Invalid

Byte == 0 .. 255
Continuation(b) == b \div 64 = 2
ContinuationOf(n) == 128 + (n % 64)

\* The i-th byte, where a look beyond the end finds no byte of a sequence.
Look(bytes, i) == IF i <= Len(bytes) THEN bytes[i] ELSE 0

\* Mutant: the second surrogate is looked for among the first ones.
SurrogatePairSwapped(bytes, i) ==
  /\ Look(bytes, i) = 237 /\ Look(bytes, i + 1) \div 16 = 10
  /\ Look(bytes, i + 3) = 237 /\ Look(bytes, i + 4) \div 16 = 10

(* The two surrogates of a supplementary character, three bytes each.         *)
SurrogatePair(bytes, i) ==
  /\ Look(bytes, i) = 237 /\ Look(bytes, i + 1) \div 16 = 10
  /\ Look(bytes, i + 2) \div 128 = 1
  /\ Look(bytes, i + 3) = 237 /\ Look(bytes, i + 4) \div 16 = 11
  /\ Continuation(Look(bytes, i + 5))

(* One turn of decodeJvmUtf8's loop: the character it makes of the bytes from *)
(* i on, and by how many it moves on.                                         *)
DecodeAt(bytes, i) ==
  LET b(k) == Look(bytes, i + k)
      point == 65536 + (b(1) % 16) * 65536 + (b(2) % 64) * 1024
                 + (b(4) % 16) * 64 + (b(5) % 64)
  IN CASE b(0) < 128 -> [char |-> <<b(0)>>, size |-> 1]
       [] b(0) \div 32 = 6 /\ Continuation(b(1)) ->
            [char |-> IF (b(0) % 32) * 64 + (b(1) % 64) = 0 THEN <<0>>
                      ELSE <<b(0), b(1)>>, size |-> 2]
       [] b(0) \div 16 = 14 /\ Continuation(b(1)) /\ Continuation(b(2)) ->
            IF SurrogatePair(bytes, i)
            THEN [char |-> <<240 + point \div 262144, ContinuationOf(point \div 4096),
                             ContinuationOf(point \div 64), ContinuationOf(point)>>,
                  size |-> 6]
            ELSE [char |-> <<b(0), b(1), b(2)>>, size |-> 3]
       [] OTHER -> [char |-> Invalid, size |-> Len(bytes)]

DecodeJvmUtf8(bytes) ==
  LET from[i \in 1 .. 2 * Len(bytes) + 6] ==
        IF i > Len(bytes) THEN <<>>
        ELSE LET turn == DecodeAt(bytes, i) IN <<turn.char>> \o from[i + turn.size]
  IN from[1]

(* The library's conversion of one character; it takes no surrogates.         *)
CodeUnits(c) ==
  LET b(k) == c[k] % 64
      point == (c[1] % 8) * 262144 + b(2) * 4096 + b(3) * 64 + b(4) - 65536
  IN CASE Len(c) = 1 -> c
       [] Len(c) = 2 -> <<(c[1] % 32) * 64 + b(2)>>
       [] Len(c) = 3 -> <<(c[1] % 16) * 4096 + b(2) * 64 + b(3)>>
       [] Len(c) = 4 -> <<55296 + point \div 1024, 56320 + (point % 1024)>>

(* utf8ToUtf16 hands the library the address of the characters and not their  *)
(* number, so that the string ends at the first character NUL.                *)
Utf8ToUtf16(utf8) ==
  LET from[i \in 1 .. Len(utf8) + 1] ==
        IF i > Len(utf8) \/ utf8[i] = <<0>> THEN <<>> ELSE CodeUnits(utf8[i]) \o from[i + 1]
  IN from[1]

(* The string of a Utf8 constant with these bytes; Invalid if there is none.  *)
Decoded(bytes) ==
  LET utf8 == DecodeJvmUtf8(bytes)
      surrogate(c) == Len(c) = 3 /\ c[1] = 237 /\ c[2] >= 160
  IN IF \E i \in DOMAIN utf8 : utf8[i] = Invalid \/ surrogate(utf8[i]) THEN Invalid
     ELSE Utf8ToUtf16(utf8)
=============================================================================
