--------------------------- MODULE JavaExceptions ---------------------------
(***************************************************************************)
(* What a Java program may rely on when an exception is thrown: while it   *)
(* is in flight no method runs and none is called, methods are left one at *)
(* a time, from the top of the call stack, until one of them catches it;   *)
(* if none does, the handler of uncaught exceptions is called, once, and   *)
(* nothing that it throws is caught.                                       *)
(*                                                                         *)
(* Module Invocation shows under which conditions JavaThread and the       *)
(* interpreter keep this promise.                                          *)
(***************************************************************************)
EXTENDS Naturals, Sequences

CONSTANTS
  Method,
  Exception,
  Catches,          \* methods with exception handlers
  Main,             \* the method the thread is started with
  UncaughtHandler,  \* the method uncaught exceptions are passed to
  NULL

VARIABLES
  calls,     \* the methods that have been called and not been left
  inFlight,  \* the exception that has been thrown and not been caught
  uncaught   \* the uncaught-exception handler has been called

vars == <<calls, inFlight, uncaught>>

Init == calls = <<Main>> /\ inFlight = NULL /\ uncaught = FALSE

Call(m) ==
  /\ calls # <<>> /\ inFlight = NULL
  /\ calls' = Append(calls, m)
  /\ UNCHANGED <<inFlight, uncaught>>

Return ==
  /\ calls # <<>> /\ inFlight = NULL
  /\ calls' = SubSeq(calls, 1, Len(calls) - 1)
  /\ UNCHANGED <<inFlight, uncaught>>

Throw(e) ==
  /\ calls # <<>> /\ inFlight = NULL /\ ~uncaught
  /\ inFlight' = e
  /\ UNCHANGED <<calls, uncaught>>

Catch ==
  /\ calls # <<>> /\ inFlight # NULL
  /\ calls[Len(calls)] \in Catches
  /\ inFlight' = NULL
  /\ UNCHANGED <<calls, uncaught>>

Unwind ==
  /\ Len(calls) > 1 /\ inFlight # NULL
  /\ calls' = SubSeq(calls, 1, Len(calls) - 1)
  /\ UNCHANGED <<inFlight, uncaught>>

GiveUp ==
  /\ Len(calls) = 1 /\ inFlight # NULL
  /\ calls' = <<UncaughtHandler>>
  /\ inFlight' = NULL
  /\ uncaught' = TRUE

Next ==
  \/ \E m \in Method : Call(m)
  \/ Return
  \/ \E e \in Exception : Throw(e)
  \/ Catch
  \/ Unwind
  \/ GiveUp

Spec == Init /\ [][Next]_vars
=============================================================================
