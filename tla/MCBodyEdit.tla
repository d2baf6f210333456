----------------------------- MODULE MCBodyEdit -----------------------------
(***************************************************************************)
(* Small bodies for BodyEdit.                                               *)
(***************************************************************************)
EXTENDS BodyEdit

I(id, kind, len, dest) == [id |-> id, kind |-> kind, len |-> len, dest |-> dest]

\* A loop inside a try region, its catch block behind it, one Ret at the end.
Loop ==
  << I("test", "jump", 2, "exit"), I("work", "plain", 3, "-"),
     I("more", "plain", 1, "-"), I("back", "jmp", 2, "test"),
     I("catch", "plain", 2, "-"), I("exit", "ret", 2, "-") >>

LoopRegions == << [start |-> "test", end |-> "catch", target |-> "catch"] >>
LoopLines == << "test", "more", "exit" >>

\* A guard: return early, or throw behind the last Ret.
Guard ==
  << I("test", "jump", 2, "fail"), I("ok", "plain", 2, "-"),
     I("done", "ret", 2, "-"), I("fail", "throw", 2, "-") >>

\* A loop without an end: the last instruction jumps back.
Forever ==
  << I("enter", "plain", 2, "-"), I("step", "plain", 2, "-"),
     I("back", "jmp", 2, "step") >>

\* Two targets, one instruction apart.
Twins ==
  << I("test", "jump", 2, "two"), I("skip", "jump", 2, "one"),
     I("zero", "plain", 2, "-"), I("one", "plain", 2, "-"),
     I("two", "ret", 2, "-") >>

\* A switch with one case.
Choice ==
  << I("pick", "switch", 6, "other"), I("case", "plain", 2, "-"),
     I("other", "ret", 2, "-") >>

None == << >>
=============================================================================
