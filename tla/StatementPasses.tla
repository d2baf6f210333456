--------------------------- MODULE StatementPasses ---------------------------
(***************************************************************************)
(* The passes over recovered statements that go by their control alone       *)
(* (transforms/optimize/invert.rs, cleanup/ensure_return.rs,                  *)
(* ternary_returns.rs, patterns/loops/while_true.rs, guarded_dowhile.rs), in  *)
(* the order pipeline/ir_gen.rs runs them. Left out are the passes that go by *)
(* what a condition calculates: cleanup/dead_loops.rs, which drops            *)
(* `while (x !== x)`, and the elimination of constant conditions in           *)
(* logic_simplify/statements.rs. A condition is a name here, never of those   *)
(* forms.                                                                     *)
(***************************************************************************)
EXTENDS StructureRecovery

IsLoop(s) == s.k \in {"while", "dowhile"}

\* A statement with f applied to each of its bodies (map_nested_bodies).
Nested(s, f(_)) ==
  CASE s.k = "if" -> [s EXCEPT !.then = f(@), !.else = f(@)]
    [] IsLoop(s) -> [s EXCEPT !.body = f(@)]
    [] s.k = "try" -> [s EXCEPT !.body = f(@), !.catch = f(@)]
    [] s.k = "switch" -> [s EXCEPT !.cases = [i \in DOMAIN @ |-> f(@[i])], !.default = f(@)]
    [] OTHER -> s

----------------------------------------------------------------------------
\* invert_empty_ifs: an `if` with nothing but an else is turned round. The pass
\* goes into if and while alone.
RECURSIVE InvertEmptyIfs(_)
InvertEmptyIfs(stmts) ==
  LET One(s) ==
        CASE s.k = "if" ->
               LET t == Nested(s, InvertEmptyIfs) IN
               IF t.then = <<>> /\ t.else # <<>> THEN If(Not(t.c), t.else, <<>>) ELSE t
          [] s.k = "while" -> Nested(s, InvertEmptyIfs)
          [] OTHER -> s IN
  [i \in DOMAIN stmts |-> One(stmts[i])]

\* ensure_return.
RECURSIVE EndsWithReturn(_)
EndsWithReturn(stmts) ==
  /\ stmts # <<>>
  /\ LET s == Last(stmts) IN
     \/ s.k \in {"return", "throw"}
     \/ s.k = "if" /\ EndsWithReturn(s.then) /\ EndsWithReturn(s.else)

EnsureReturn(stmts) ==
  IF stmts = <<>> \/ EndsWithReturn(stmts) THEN stmts
  ELSE Append(stmts, [k |-> "return", e |-> "nothing"])

\* optimize_ternary_returns: two returns that an `if` chooses from become the
\* return of a conditional; one without a value does only as the second. (The code
\* leaves large values alone, is_reasonable_complexity: either form runs the same.)
OneReturn(stmts) ==
  /\ Len(stmts) = 1
  /\ stmts[1].k = "return"

RECURSIVE TernaryReturns(_)
TernaryReturns(stmts) ==
  IF stmts = <<>> THEN <<>>
  ELSE LET s == Head(stmts)
           chooses == s.k = "if" /\ OneReturn(s.then) /\ s.then[1].e # "nothing"
           Choice(other) == [k |-> "choose", c |-> s.c, yes |-> s.then[1].e, no |-> other.e] IN
       CASE chooses /\ OneReturn(s.else) ->
              <<Choice(s.else[1])>> \o TernaryReturns(Tail(stmts))
         [] chooses /\ s.else = <<>> /\ Len(stmts) > 1 /\ stmts[2].k = "return" ->
              <<Choice(stmts[2])>> \o TernaryReturns(SubSeq(stmts, 3, Len(stmts)))
         [] OTHER -> <<Nested(s, TernaryReturns)>> \o TernaryReturns(Tail(stmts))

----------------------------------------------------------------------------
\* negate: the operator of a comparison is inverted, `!!x` is x.
Negated(c) ==
  CASE c.not -> Not(c)
    [] ~c.not /\ c.is = "less" -> [c EXCEPT !.is = "at least"]
    [] ~c.not /\ c.is = "at least" -> [c EXCEPT !.is = "less"]
    [] OTHER -> Not(c)

\* escapes_loop: a jump of the current loop; nested loops swallow theirs.
RECURSIVE EscapesLoop(_, _)
EscapesLoop(s, inSwitch) ==
  LET Some(stmts, sw) == \E i \in DOMAIN stmts : EscapesLoop(stmts[i], sw) IN
  CASE s.k = "continue" -> TRUE
    [] s.k = "break" -> ~inSwitch
    [] s.k = "if" -> Some(s.then, inSwitch) \/ Some(s.else, inSwitch)
    [] s.k = "try" -> Some(s.body, inSwitch) \/ Some(s.catch, inSwitch)
    [] s.k = "switch" -> (\E i \in DOMAIN s.cases : Some(s.cases[i], TRUE)) \/ Some(s.default, TRUE)
    [] OTHER -> FALSE

\* split_trailing_exit: the body ends in the only jump out of it.
TrailingExit(body) ==
  /\ body # <<>>
  /\ LET s == Last(body) IN
     /\ s.k = "if"
     /\ s.then = <<Jumps("break", None)>>
     /\ s.else \in {<<>>, <<Jumps("continue", None)>>}
  /\ \A i \in 1..Len(body) - 1 : ~EscapesLoop(body[i], FALSE)

\* convert_while_true_loops.
RECURSIVE WhileTrueLoops(_)
WhileTrueLoops(stmts) ==
  LET One(s) ==
        LET t == Nested(s, WhileTrueLoops) IN
        IF t.k = "while" /\ t.c = TrueCond /\ TrailingExit(t.body)
        THEN DoWhile(Front(t.body), Negated(Last(t.body).c)) ELSE t IN
  [i \in DOMAIN stmts |-> One(stmts[i])]

RECURSIVE HasLabeledJump(_)
HasLabeledJump(stmts) ==
  \E i \in DOMAIN stmts :
    LET s == stmts[i] IN
    CASE s.k \in {"break", "continue"} -> s.l # None
      [] s.k = "if" -> HasLabeledJump(s.then) \/ HasLabeledJump(s.else)
      [] IsLoop(s) -> HasLabeledJump(s.body)
      [] s.k = "try" -> HasLabeledJump(s.body) \/ HasLabeledJump(s.catch)
      [] s.k = "switch" -> (\E n \in DOMAIN s.cases : HasLabeledJump(s.cases[n]))
                           \/ HasLabeledJump(s.default)
      [] OTHER -> FALSE

\* try_fold_while: an `if` around nothing but a do-while with the same condition.
GuardedLoop(s) ==
  /\ s.k = "if" /\ s.else = <<>>
  /\ LET body == SelectSeq(s.then, LAMBDA t : t.k # "label") IN
     /\ Len(body) = 1
     /\ body[1].k = "dowhile" /\ ~HasLabeledJump(body[1].body)
     /\ body[1].c = s.c

\* fold_guarded_loops, its `while` half: a `for` takes in statements that calculate.
RECURSIVE GuardedLoops(_)
GuardedLoops(stmts) ==
  LET One(s) ==
        LET t == Nested(s, GuardedLoops) IN
        IF GuardedLoop(t)
        THEN LET loop == SelectSeq(t.then, LAMBDA n : n.k # "label")[1] IN
             While(loop.c, loop.body)
        ELSE t IN
  [i \in DOMAIN stmts |-> One(stmts[i])]

----------------------------------------------------------------------------
\* generate_ir, from the structure to the text: the passes above, in its order.
Decompiled(code, handlers) ==
  GuardedLoops(WhileTrueLoops(TernaryReturns(EnsureReturn(InvertEmptyIfs(
    Structured(BuildCFG(code, handlers)))))))
=============================================================================
