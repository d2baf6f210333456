-------------------------- MODULE StructureRecovery --------------------------
(***************************************************************************)
(* From a control-flow graph back to nested statements                      *)
(* (analysis/structure/recovery.rs, loops.rs, exceptions.rs, conversion.rs).*)
(*                                                                          *)
(* A structure is a record with a kind `k`; recovering one gives it with    *)
(* the context it leaves, [s |-> structure, x |-> context], where a context *)
(* is the blocks visited, held back ones included, and those emitted. Of a  *)
(* statement that a structure contains only its control is kept. A label is *)
(* the index of a loop among those around it.                               *)
(***************************************************************************)
EXTENDS ControlFlow

Block(stmts) == [k |-> "block", stmts |-> stmts]
Sequence(parts) == [k |-> "seq", parts |-> parts]
If(c, then, else) == [k |-> "if", c |-> c, then |-> then, else |-> else]
While(c, body) == [k |-> "while", c |-> c, body |-> body]
DoWhile(body, c) == [k |-> "dowhile", c |-> c, body |-> body]
Label(l, body) == [k |-> "label", l |-> l, body |-> body]
Jumps(kind, l) == [k |-> kind, l |-> l]
Empty == Block(<<>>)

----------------------------------------------------------------------------
\* find_merge_point: breadth first from b, the first block also found from a,
\* neither walk going back through the branch.
MergePoint(g, header, a, b) ==
  LET reachA == ReachFrom(g, {header}, {a}, {})
      RECURSIVE Nearest(_, _)
      Nearest(queue, seen) ==
        IF queue = <<>> THEN None
        ELSE LET n == Head(queue) IN
          IF n = header \/ n \in seen THEN Nearest(Tail(queue), seen)
          ELSE IF n \in reachA THEN n
          ELSE Nearest(Tail(queue) \o Successors(g, n), seen \cup {n}) IN
  Nearest(<<b>>, {})

\* try_region_exit: the only block the protected range falls into, if the catch
\* block reaches it too.
TryRegionExit(g, region, catch) ==
  LET exits == UNION {Range(Successors(g, b)) : b \in region} \ (region \cup {catch}) IN
  IF Cardinality(exits) = 1 /\ exits \subseteq ReachFrom(g, {}, {catch}, {})
  THEN CHOOSE e \in exits : TRUE ELSE None

\* The ranges of one catch block are one try, at the earliest start. Of two that
\* start together the one with the later catch block is kept.
TryStarts(g) ==
  LET earliest(c) == Min({g.handlers[k].start :
                            k \in {n \in DOMAIN g.handlers : g.handlers[n].catch = c}})
      catches == {g.handlers[k].catch : k \in DOMAIN g.handlers} IN
  [b \in {earliest(c) : c \in catches} |-> Max({c \in catches : earliest(c) = b})]

----------------------------------------------------------------------------
LabelOf(stack, i) == IF i < Len(stack) THEN i - 1 ELSE None

\* Mutant: a tail that was emitted before is not emitted again.
ReemittedNothing(g, x, b) == Empty

\* reemit_exit: a run of jumps that ends in a return or a throw.
Reemitted(g, x, b) ==
  LET RECURSIVE Tails(_, _, _)
      Tails(at, seen, all) ==
        LET e == g.block[at].end
            stmts == all \o g.block[at].ops IN
        CASE at \in seen \/ Cardinality(seen) > 15 -> Empty
          [] e.t = "return" -> Block(Append(stmts, [k |-> "return", e |-> e.e]))
          [] e.t = "throw" -> Block(Append(stmts, [k |-> "throw"]))
          [] e.t = "jump" -> Tails(e.to, seen \cup {at}, stmts)
          [] OTHER -> Empty IN
  IF b \in x.emitted THEN Tails(b, {}, <<>>) ELSE Empty

\* A visited block: the innermost loop it heads or ends, or its tail once more.
Revisited(g, x, b, stack) ==
  LET loops == {i \in DOMAIN stack : b \in {stack[i].header, stack[i].exit}} IN
  IF loops = {} THEN Reemitted(g, x, b)
  ELSE LET i == Max(loops) IN
       Jumps(IF b = stack[i].header THEN "continue" ELSE "break", LabelOf(stack, i))

Visit(x, b) == [x EXCEPT !.visited = @ \cup {b}]
Emit(x, b) == [x EXCEPT !.visited = @ \cup {b}, !.emitted = @ \cup {b}]
Release(x, b) == [x EXCEPT !.visited = @ \ {b}]

RECURSIVE Recover(_, _, _, _), RecoverInner(_, _, _, _), RecoverLoop(_, _, _, _),
          RecoverBranch(_, _, _, _, _)

\* recover_structure: a try is fenced at the block its range falls into.
Recover(g, x, b, stack) ==
  IF b \in x.visited THEN [s |-> Revisited(g, x, b, stack), x |-> x]
  ELSE IF b \in DOMAIN TryStarts(g)
  THEN LET catch == TryStarts(g)[b]
           e == TryRegionExit(g, Protected(g, catch), catch)
           fenced == e # None /\ e \notin x.visited
                     /\ \A i \in DOMAIN stack : e \notin {stack[i].header, stack[i].exit}
           x1 == Visit(IF fenced THEN Visit(x, e) ELSE x, catch)
           body == RecoverInner(g, x1, b, stack)
           x2 == IF catch \in x.visited THEN body.x ELSE Release(body.x, catch)
           handler == RecoverInner(g, x2, catch, stack)
           try == [k |-> "try", body |-> body.s, catch |-> handler.s] IN
       IF ~fenced THEN [s |-> try, x |-> handler.x]
       ELSE LET after == Recover(g, Release(handler.x, e), e, stack) IN
            [s |-> Sequence(<<try, after.s>>), x |-> after.x]
  ELSE RecoverInner(g, x, b, stack)

\* recover_structure_inner.
RecoverInner(g, x, b, stack) ==
  LET ops == g.block[b].ops
      e == g.block[b].end
      y == Emit(x, b) IN
  CASE b \in x.visited -> [s |-> Revisited(g, x, b, stack), x |-> x]
    [] b \notin x.visited /\ b \in DOMAIN g.loops -> RecoverLoop(g, x, g.loops[b], stack)
    [] OTHER ->
       CASE e.t = "return" ->
              [s |-> Block(Append(ops, [k |-> "return", e |-> e.e])), x |-> y]
         [] e.t = "throw" -> [s |-> Block(Append(ops, [k |-> "throw"])), x |-> y]
         [] e.t = "jump" ->
              LET loops == {i \in DOMAIN stack :
                              \/ e.to = stack[i].header /\ e.to \in y.visited
                              \/ e.to = stack[i].exit} IN
              IF loops # {}
              THEN LET i == Max(loops)
                       kind == IF e.to = stack[i].header /\ e.to \in y.visited
                               THEN "continue" ELSE "break" IN
                   [s |-> Block(Append(ops, Jumps(kind, LabelOf(stack, i)))), x |-> y]
              ELSE LET next == Recover(g, y, e.to, stack) IN
                   [s |-> Sequence(<<Block(ops), next.s>>), x |-> next.x]
         [] e.t = "branch" -> RecoverBranch(g, y, b, stack, MergePoint(g, b, e.yes, e.no))
         [] e.t = "switch" ->
              LET targets == Append(e.cases, e.default)
                  step(acc, to) ==
                    IF to \in DOMAIN acc.of THEN acc
                    ELSE LET r == Recover(g, acc.x, to, stack) IN
                         [of |-> [n \in DOMAIN acc.of \cup {to} |->
                                    IF n = to THEN r.s ELSE acc.of[n]], x |-> r.x]
                  done == FoldLeft(step, [of |-> <<>>, x |-> y], targets) IN
              [s |-> Sequence(<<Block(ops),
                       [k |-> "switch", v |-> e.v,
                        cases |-> [i \in DOMAIN e.cases |-> done.of[e.cases[i]]],
                        default |-> done.of[e.default]]>>),
               x |-> done.x]

\* The two arms of the branch that ends block b. The loop the branch leaves is left
\* by `break`; otherwise the arms stop at the block they merge in, which follows.
RecoverBranch(g, x, b, stack, merge) ==
  LET e == g.block[b].end
      ops == g.block[b].ops
      leaves(to) == stack # <<>> /\ Last(stack).exit = to
      held == merge # None /\ ~(e.yes = merge /\ e.no = merge)
      x1 == IF held THEN Visit(x, merge) ELSE x
      then == Recover(g, x1, e.yes, stack)
      else == Recover(g, then.x, e.no, stack)
      x2 == IF held /\ merge \notin x.visited THEN Release(else.x, merge) ELSE else.x
      stays == IF leaves(e.yes) THEN e.no ELSE e.yes
      rest == Recover(g, x, stays, stack) IN
  IF leaves(e.yes) # leaves(e.no)
  THEN [s |-> Sequence(<<Block(ops),
                If(IF leaves(e.yes) THEN e.c ELSE Not(e.c), Jumps("break", None), rest.s)>>),
        x |-> rest.x]
  ELSE LET arms == <<Block(ops), If(e.c, then.s, else.s)>> IN
       IF ~held THEN [s |-> Sequence(arms), x |-> else.x]
       ELSE LET after == Recover(g, x2, merge, stack) IN
            [s |-> Sequence(Append(arms, after.s)), x |-> after.x]

\* Mutant: a loop's exit is taken to be emitted by whoever leaves the loop.
AfterNothing(g, x, to, stack) == [s |-> Empty, x |-> x]

\* What follows a loop, unless it was visited inside it.
After(g, x, to, stack) ==
  IF to = None \/ to \in x.visited THEN [s |-> Empty, x |-> x] ELSE Recover(g, x, to, stack)

\* Mutant: only a loop inside another is labelled.
MakeLoopInnerLabels(stack, c, body) ==
  IF stack = <<>> THEN While(c, body) ELSE Label(Len(stack), While(c, body))

\* make_loop. The `for` it makes of a body that ends in the block of the only back
\* edge is turned into this `while` again: that block ends in `continue`.
MakeLoop(stack, c, body) == Label(Len(stack), While(c, body))

\* recover_loop. The header's statements go before the loop, unless the header
\* stays in the loop on both sides or is all of it.
RecoverLoop(g, x0, l, stack) ==
  LET h == l.header
      x == Visit(x0, h)
      ops == Block(g.block[h].ops)
      e == g.block[h].end
      inner == Append(stack, l)
      Around(to, c) ==
        LET body == Recover(g, x, to, inner)
            after == After(g, body.x, l.exit, stack) IN
        [s |-> Sequence(<<ops, MakeLoop(stack, c, body.s), after.s>>), x |-> after.x] IN
  CASE e.t = "branch" /\ h \in {e.yes, e.no} ->
         LET after == After(g, x, IF e.yes = h THEN e.no ELSE e.yes, stack) IN
         [s |-> Sequence(<<DoWhile(ops, IF e.yes = h THEN e.c ELSE Not(e.c)), after.s>>),
          x |-> after.x]
    [] e.t = "branch" /\ e.yes \in l.body /\ e.no \notin l.body -> Around(e.yes, e.c)
    [] e.t = "branch" /\ e.no \in l.body /\ e.yes \notin l.body -> Around(e.no, Not(e.c))
    [] e.t = "branch" /\ h \notin {e.yes, e.no}
       /\ ((e.yes \in l.body) = (e.no \in l.body)) ->
         LET merge == MergePoint(g, h, e.yes, e.no)
             x1 == IF merge # None THEN Visit(x, merge) ELSE x
             then == Recover(g, x1, e.yes, inner)
             else == Recover(g, then.x, e.no, inner)
             x2 == IF merge # None /\ merge \notin x.visited THEN Release(else.x, merge)
                   ELSE else.x
             rest == IF merge # None THEN Recover(g, x2, merge, inner)
                     ELSE [s |-> Empty, x |-> x2]
             body == Sequence(<<ops, If(e.c, then.s, else.s), rest.s>>)
             after == After(g, rest.x, l.exit, stack) IN
         [s |-> Sequence(<<MakeLoop(stack, TrueCond, body), after.s>>), x |-> after.x]
    [] e.t = "jump" /\ e.to \in l.body ->
         LET body == Recover(g, x, e.to, inner) IN
         [s |-> Sequence(<<ops, MakeLoop(stack, TrueCond, body.s)>>), x |-> body.x]
    [] e.t = "jump" /\ e.to \notin l.body ->
         LET next == Recover(g, x, e.to, stack) IN
         [s |-> Sequence(<<ops, next.s>>), x |-> next.x]
    [] OTHER -> [s |-> ops, x |-> x]

----------------------------------------------------------------------------
\* to_statements.
RECURSIVE ToStatements(_)
ToStatements(s) ==
  CASE s.k = "block" -> s.stmts
    [] s.k = "seq" -> FlattenSeq([i \in DOMAIN s.parts |-> ToStatements(s.parts[i])])
    [] s.k = "if" -> <<If(s.c, ToStatements(s.then), ToStatements(s.else))>>
    [] s.k = "while" -> <<While(s.c, ToStatements(s.body))>>
    [] s.k = "dowhile" -> <<DoWhile(ToStatements(s.body), s.c)>>
    [] s.k = "switch" ->
         <<[s EXCEPT !.cases = [i \in DOMAIN @ |-> ToStatements(@[i])],
                     !.default = ToStatements(@)]>>
    [] s.k = "try" -> <<[s EXCEPT !.body = ToStatements(@), !.catch = ToStatements(@)]>>
    [] s.k = "label" -> <<[k |-> "label", l |-> s.l]>> \o ToStatements(s.body)
    [] s.k \in {"break", "continue"} -> <<s>>

\* StructureAnalysis::analyze.
Structured(g) ==
  LET withLoops == [loops |-> DetectLoops(g), block |-> g.block, handlers |-> g.handlers] IN
  ToStatements(Recover(withLoops, [visited |-> {}, emitted |-> {}], 1, <<>>).s)
=============================================================================
