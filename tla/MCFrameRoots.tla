---------------------------- MODULE MCFrameRoots ----------------------------
(* Menus of instructions: the shuffles of the operand stack; locals, stack *)
(* map frames and branches; calls, fields and arrays; and one menu for     *)
(* each of the cases the roots are known to be wrong in.                   *)
EXTENDS FrameRoots

Of(op, kind) == [Instruction(op) EXCEPT !.kind = kind]
Local(op, kind, slot, bytes) == [Of(op, kind) EXCEPT !.slot = slot, !.bytes = bytes]
Call(op, args, to) == [Instruction(op) EXCEPT !.args = args, !.to = to]
Consts == {Of("const", k) : k \in Kind}

StackMenu ==
  Consts \cup {Instruction(op) : op \in Shuffles}
  \cup {Instruction("new"), Call("invoke", <<"ref">>, "void")}

FrameMenu ==
  {Of("const", "long"), Instruction("new"), Call("if", <<"int">>, "void"),
   Instruction("goto"), Local("iinc", "int", 1, 0), Instruction("athrow"),
   Instruction("checkcast"), Instruction("return")}
  \cup {Local("load", k, 1, 0) : k \in {"int", "ref"}}
  \cup {Local("store", k, n, 1) : k \in {"long", "ref"}, n \in 1..2}

ObjectMenu ==
  {Of(op, k) : op \in {"arrayload", "arraystore", "getfield", "putfield"},
               k \in {"long", "ref"}}
  \cup {Of("ldc", "ref"), Of("getstatic", "int"), Of("putstatic", "ref")}
  \cup {Of("binary", "long"), Of("shift", "long"), Of("compare", "long"), Of("neg", "long")}
  \cup {[Of("convert", "int") EXCEPT !.to = "long"]}
  \cup {Instruction(op) : op \in {"newarray", "arraylength", "instanceof", "monitor"}}
  \cup {Call("invoke", <<"long">>, "ref"),
        Call("invokeinterface", <<"ref", "int">>, "long"),
        Local("load", "ref", 1, 1), Local("load", "long", 2, 3)}

MultiArrayMenu ==
  {Of("const", "int"), Instruction("new"),
   Call("multianewarray", <<"int", "int">>, "ref")}

WideMenu == {Of("const", "ref"), Instruction("new"), Local("wideiinc", "int", 1, 0)}

SwitchMenu ==
  {Instruction("new"), Local("load", "int", 1, 0)}
  \cup {[Instruction("switch") EXCEPT !.bytes = 15, !.noise = n] : n \in 0..1}

ThrowMenu == {Of("const", "int"), Of("const", "ref"), Call("invoke", <<>>, "void")}

Family(menu, parameters, locals_, stack_, code_, frames_) ==
  [menu |-> menu, parameters |-> parameters, locals |-> locals_,
   stack |-> stack_, code |-> code_, frames |-> frames_]

AllFamilies ==
  {Family(StackMenu, <<"int">>, 1, 6, 6, 0),
   Family(ObjectMenu, <<"ref", "long">>, 3, 4, 4, 1)}
  \cup {Family(FrameMenu, p, 3, 2, 4, 3) :
          p \in {<<"ref">>, <<"long", "ref">>}}

MultiArrayFamily == {Family(MultiArrayMenu, <<"int">>, 1, 4, 5, 1)}
WideFamily == {Family(WideMenu, <<"int">>, 1, 3, 4, 1)}
SwitchFamily == {Family(SwitchMenu, <<"int">>, 1, 2, 4, 1)}
ThrowFamily == {Family(ThrowMenu, <<"int">>, 1, 2, 3, 1)}
=============================================================================
