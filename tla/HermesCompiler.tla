--------------------------- MODULE HermesCompiler ---------------------------
(***************************************************************************)
(* How Hermes lays out the control flow of a function. The compiler is not   *)
(* part of this repository; this is the order of its blocks as the           *)
(* decompiler's comments describe it: loops are inverted (the test is emitted *)
(* as a guard and again at the latch), the else of an `if` follows its then,  *)
(* a catch block follows the jump over it.                                    *)
(*                                                                          *)
(* A source statement is one of                                               *)
(*   [s |-> "do", e]            [s |-> "ret", e]   [s |-> "throw", e]         *)
(*   [s |-> "if", c, a, b]      [s |-> "or", c, d, a, b]   if (c || d)        *)
(*   [s |-> "while", c, a]      [s |-> "dowhile", c, a]    [s |-> "loop", a]  *)
(*   [s |-> "break", up]        [s |-> "continue", up]                        *)
(*   [s |-> "leave", c, kind, up]     if (c) break; or continue; in one jump  *)
(*   [s |-> "switch", v, cases, b]      [s |-> "try", a, b]                   *)
(* where a and b are sequences of statements, c and d are tests, and up is    *)
(* the number of loops a jump goes out of before the one it names.            *)
(***************************************************************************)
EXTENDS Integers, Sequences, SequencesExt

CONSTANTS
  Compared,     \* tests that compare two numbers
  JumpInRange   \* whether a handler's range holds the jump over its catch block:
                \* it does from v98 on, and did not before

Ends(b) == b # <<>> /\ Last(b).s \in {"ret", "throw", "break", "continue"}

\* Instructions of a jump over what follows b, if control gets there.
Over(b) == IF Ends(b) THEN 0 ELSE 1

RECURSIVE SizeOf(_)
SizeOf(stmts) ==
  LET One(x) ==
        CASE x.s = "if" -> 1 + SizeOf(x.a) + (IF x.b = <<>> THEN 0 ELSE Over(x.a) + SizeOf(x.b))
          [] x.s = "or" -> 2 + SizeOf(x.a) + (IF x.b = <<>> THEN 0 ELSE Over(x.a) + SizeOf(x.b))
          [] x.s = "while" -> 2 + SizeOf(x.a)
          [] x.s = "dowhile" -> 1 + SizeOf(x.a)
          [] x.s = "loop" -> Over(x.a) + SizeOf(x.a)
          [] x.s = "switch" ->
               1 + FoldLeft(LAMBDA n, c : n + SizeOf(c) + Over(c), 0, x.cases) + SizeOf(x.b)
          [] x.s = "try" -> SizeOf(x.a) + Over(x.a) + 1 + SizeOf(x.b)
          [] OTHER -> 1 IN
  FoldLeft(LAMBDA n, x : n + One(x), 0, stmts)

Jump(to) == [op |-> "jmp", to |-> to]
OnTrue(t, to) ==
  [op |-> "br", by |-> IF t \in Compared THEN "JLess" ELSE "JmpTrue", t |-> t, to |-> to]
OnFalse(t, to) ==
  [op |-> "br", by |-> IF t \in Compared THEN "JNotLess" ELSE "JmpFalse", t |-> t, to |-> to]
JumpOver(b, to) == IF Ends(b) THEN <<>> ELSE <<Jump(to)>>

\* The instructions of a sequence placed at address at, and the handlers in it,
\* inner ones first. `out` has the targets of break and continue, innermost first.
RECURSIVE Place(_, _, _)
Place(stmts, at, out) ==
  LET And(p, q) == [code |-> p.code \o q.code, handlers |-> p.handlers \o q.handlers]
      Only(is) == [code |-> is, handlers |-> <<>>]
      Arms(x, from) ==
        LET else == from + SizeOf(x.a) + IF x.b = <<>> THEN 0 ELSE Over(x.a)
            end == else + SizeOf(x.b) IN
        And(Place(x.a, from, out),
            IF x.b = <<>> THEN Only(<<>>)
            ELSE And(Only(JumpOver(x.a, end)), Place(x.b, else, out)))
      Cases(x, from, end) ==
        FoldLeft(LAMBDA acc, c :
                   [next |-> acc.next + SizeOf(c) + Over(c),
                    starts |-> Append(acc.starts, acc.next),
                    p |-> And(acc.p, And(Place(c, acc.next, [out EXCEPT ![1].break = end]),
                                         Only(JumpOver(c, end))))],
                 [next |-> from, starts |-> <<>>, p |-> Only(<<>>)], x.cases)
      One(x, pos) ==
        LET end == pos + SizeOf(<<x>>) IN
        CASE x.s = "do" -> Only(<<[op |-> "run", e |-> x.e]>>)
          [] x.s = "ret" -> Only(<<[op |-> "ret", e |-> x.e]>>)
          [] x.s = "throw" -> Only(<<[op |-> "throw", e |-> x.e]>>)
          [] x.s = "break" -> Only(<<Jump(out[x.up + 1].break)>>)
          [] x.s = "continue" -> Only(<<Jump(out[x.up + 1].continue)>>)
          [] x.s = "leave" ->
               Only(<<OnTrue(x.c, out[x.up + 1][x.kind])>>)
          [] x.s = "if" ->
               And(Only(<<OnFalse(x.c, pos + 1 + SizeOf(x.a)
                                       + IF x.b = <<>> THEN 0 ELSE Over(x.a))>>),
                   Arms(x, pos + 1))
          [] x.s = "or" ->
               And(Only(<<OnTrue(x.c, pos + 2),
                          OnFalse(x.d, pos + 2 + SizeOf(x.a)
                                       + IF x.b = <<>> THEN 0 ELSE Over(x.a))>>),
                   Arms(x, pos + 2))
          [] x.s = "while" ->
               And(Only(<<OnFalse(x.c, end)>>),
                   And(Place(x.a, pos + 1, <<[break |-> end, continue |-> end - 1]>> \o out),
                       Only(<<OnTrue(x.c, pos + 1)>>)))
          [] x.s = "dowhile" ->
               And(Place(x.a, pos, <<[break |-> end, continue |-> end - 1]>> \o out),
                   Only(<<OnTrue(x.c, pos)>>))
          [] x.s = "loop" ->
               And(Place(x.a, pos, <<[break |-> end, continue |-> pos]>> \o out),
                   Only(JumpOver(x.a, pos)))
          [] x.s = "switch" ->
               LET cs == Cases(x, pos + 1, end) IN
               And(Only(<<[op |-> "switch", v |-> x.v, cases |-> cs.starts,
                           default |-> cs.next]>>),
                   And(cs.p, Place(x.b, cs.next, [out EXCEPT ![1].break = end])))
          [] x.s = "try" ->
               LET catch == pos + SizeOf(x.a) + Over(x.a)
                   body == Place(x.a, pos, out)
                   tried == [body EXCEPT !.handlers =
                               Append(@, [start |-> pos, target |-> catch,
                                          end |-> IF JumpInRange THEN catch
                                                  ELSE pos + SizeOf(x.a)])] IN
               And(And(tried, Only(JumpOver(x.a, end) \o <<[op |-> "catch"]>>)),
                   Place(x.b, catch + 1, out)) IN
  FoldLeft(LAMBDA acc, x :
             [p |-> And(acc.p, One(x, acc.next)), next |-> acc.next + SizeOf(<<x>>)],
           [p |-> Only(<<>>), next |-> at], stmts).p

\* A function: its body, and the return every function ends with.
Compiled(stmts) ==
  Place(stmts \o (IF Ends(stmts) THEN <<>> ELSE <<[s |-> "ret", e |-> "undefined"]>>),
        1, <<[break |-> 0, continue |-> 0]>>)
=============================================================================
