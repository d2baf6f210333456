------------------------------ MODULE PlainFlow ------------------------------
(***************************************************************************)
(* The control-flow graphs structure recovery is written for: what it takes *)
(* for granted of loops, joins, switches and tries, stated of the graph.    *)
(***************************************************************************)
EXTENDS StructureRecovery

\* Where control may go from a block; exceptions too, except into a catch block
\* that protects all of `within`.
Flow(g, within) ==
  [b \in Blocks(g) |->
     Range(Successors(g, b)) \cup
     {c \in {g.handlers[k].catch : k \in DOMAIN g.handlers} :
        b \in Protected(g, c) /\ ~(within \subseteq Protected(g, c))}]

\* The blocks found along `flow` from `from` without going through `not`.
RECURSIVE Along(_, _, _, _)
Along(flow, not, from, seen) ==
  LET new == from \ (seen \cup not) IN
  IF new = {} THEN seen
  ELSE Along(flow, not, UNION {flow[b] : b \in new}, seen \cup new)

Executed(g) == Along(Flow(g, Blocks(g)), {}, {1}, {})

Stops(g, b) == g.block[b].end.t \in {"return", "throw"}

\* A run of unprotected blocks to a return or a throw, which is no loop's exit: it can
\* be emitted once more.
Straight(g, b) ==
  LET run == ReachFrom(g, {}, {b}, {}) IN
  /\ \A n \in run : g.block[n].end.t \notin {"branch", "switch"}
                    /\ \A k \in DOMAIN g.handlers : n \notin g.handlers[k].blocks
  /\ \E n \in run : Stops(g, n)
  /\ \A h \in Headers(g) : Loop(g, h).exit # b

\* What two of the blocks `to` both lead to without passing `not`.
Shared(g, within, not, to) ==
  LET from == [b \in to |-> Along(Flow(g, within), not, {b}, {})] IN
  UNION {from[a] \cap from[b] : <<a, b>> \in {p \in to \X to : p[1] # p[2]}}

\* The arms of a branch are two blocks, and meet at its merge point, if anywhere.
PlainBranch(g, b) ==
  LET arms == Range(Successors(g, b))
      merge == MergePoint(g, b, g.block[b].end.yes, g.block[b].end.no)
      before == ReachFrom(g, {merge}, arms, {}) IN
  /\ Cardinality(arms) = 2
  /\ merge # None => \A n \in before : n # b /\ ~Stops(g, n)
  /\ \A n \in Shared(g, {b}, {b, merge}, arms) : Straight(g, n)

PlainSwitch(g, b) == \A n \in Shared(g, {b}, {}, Range(Successors(g, b))) : Straight(g, n)

\* The loop a block leaves by an edge of its own.
LeavesALoop(g, b) ==
  \E h \in Headers(g) : LET l == Loop(g, h) IN b \in l.body /\ l.exit \in Range(Successors(g, b))

\* A loop is left for one block, and its header, which no try starts at, is all of
\* the loop, or does nothing but test, or stays in the loop on both sides.
PlainLoop(g, h) ==
  LET l == Loop(g, h)
      next == Range(Successors(g, h)) IN
  /\ g.block[h].end.t = "branch" /\ h \notin DOMAIN TryStarts(g)
  /\ UNION {Range(Successors(g, b)) : b \in l.body} \subseteq l.body \cup {l.exit}
  /\ \/ l.body = {h}
     \/ h \notin next /\ (next \subseteq l.body \/ g.block[h].ops = <<>>)

\* The loops of the flow, exceptions included, are those that were detected.
LoopsAreFound(g) ==
  \A u \in Executed(g) :
    \A v \in Flow(g, Blocks(g))[u] :
      u \notin Along(Flow(g, Blocks(g)), {v}, {1} \ {v}, {}) =>
        v \in Headers(g) /\ u \in Loop(g, v).body

\* No two tries start at the same block.
TriesApart(g) ==
  Cardinality(DOMAIN TryStarts(g)) = Cardinality({g.handlers[k].catch : k \in DOMAIN g.handlers})

\* What follows a protected range is fenced off, or can only return.
PlainTry(g, catch) ==
  LET region == Protected(g, catch) IN
  \/ TryRegionExit(g, region, catch) # None
  \/ \A n \in ReachFrom(g, {}, region, {}) \ region :
       g.block[n].ops = <<>> /\ g.block[n].end.t \in {"jump", "return", "throw"}

Plain(g) ==
  /\ LoopsAreFound(g) /\ TriesApart(g)
  /\ \A h \in Headers(g) : PlainLoop(g, h)
  /\ \A k \in DOMAIN g.handlers : PlainTry(g, g.handlers[k].catch)
  /\ \A b \in Blocks(g) :
       /\ g.block[b].end.t = "branch" /\ ~LeavesALoop(g, b) => PlainBranch(g, b)
       /\ g.block[b].end.t = "switch" => PlainSwitch(g, b)
=============================================================================
