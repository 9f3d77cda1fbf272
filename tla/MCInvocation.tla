---------------------------- MODULE MCInvocation ----------------------------
(* Class B extends A. A program of three methods: main has a handler,      *)
(* callee has none; two native methods are linked, one of them returns a   *)
(* value, a third one is not; of the initializers, A's has a handler.      *)
EXTENDS Invocation

CONSTANTS main, callee, native, forName, unlinked, uncaught, clinitA, clinitB, A, B

MCNumSlots == [m \in Method |-> IF m \in {callee, forName} THEN 1 ELSE 0]
MCOwner == [m \in Method |-> IF m \in {callee, clinitB} THEN B ELSE A]
MCSupers == [c \in Class |-> IF c = B THEN <<A>> ELSE <<>>]
MCInitializer == [c \in Class |-> IF c = A THEN clinitA ELSE clinitB]
MCReturnsValue == {callee, forName}
=============================================================================
