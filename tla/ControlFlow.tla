---------------------------- MODULE ControlFlow ----------------------------
(***************************************************************************)
(* The control-flow graph the decompiler builds of one function, and the   *)
(* loops it finds there (ir/builder/ir_builder.rs, jump_analysis.rs,       *)
(* opcodes_flow.rs, ir/cfg/mod.rs, analysis/loops.rs).                     *)
(*                                                                         *)
(* A function is a sequence of instructions; an address is a position in   *)
(* it, and a block is named by its first address, which orders blocks as   *)
(* their ids do. What an instruction computes is one name: `run` for one   *)
(* that does something, a test or a selected value for a jump.             *)
(*   [op |-> "run", e]   [op |-> "jmp", to]   [op |-> "br", by, t, to]     *)
(*   [op |-> "ret", e]   [op |-> "throw", e]  [op |-> "catch"]             *)
(*   [op |-> "switch", v, cases, default]                                  *)
(***************************************************************************)
EXTENDS Integers, Sequences, FiniteSets, FiniteSetsExt, SequencesExt

None == -1

----------------------------------------------------------------------------
\* A condition is a test, how its result is read, and whether that is negated.
Cond(t, is, not) == [t |-> t, is |-> is, not |-> not]
Not(c) == [c EXCEPT !.not = ~@]
TrueCond == Cond("true", "truthy", FALSE)

\* The condition under which a conditional jump is taken: `!x` for JmpFalse,
\* `a < b` for JLess and, with the operator inverted, `a >= b` for JNotLess.
Condition(i) ==
  CASE i.by = "JmpTrue" -> Cond(i.t, "truthy", FALSE)
    [] i.by = "JmpFalse" -> Cond(i.t, "truthy", TRUE)
    [] i.by = "JLess" -> Cond(i.t, "less", FALSE)
    [] i.by = "JNotLess" -> Cond(i.t, "at least", FALSE)

\* Where an instruction may go, besides to the next one.
ExplicitTargets(i) ==
  CASE i.op \in {"jmp", "br"} -> {i.to}
    [] i.op = "switch" -> Range(i.cases) \cup {i.default}
    [] OTHER -> {}

\* find_block_starts_with_handlers: the leaders that are instructions.
BlockStarts(code, handlers) ==
  DOMAIN code \cap
    ( {1} \cup UNION {ExplicitTargets(code[a]) : a \in DOMAIN code}
      \cup {a + 1 : a \in {n \in DOMAIN code : code[n].op \in {"ret", "throw", "jmp", "br"}}}
      \cup UNION {{h.target, h.start, h.end} : h \in Range(handlers)} )

\* Catch rX; Throw rX: an empty `finally`, which is dropped. (A throw right behind a
\* catch is of what was caught: a throw of anything else loads it first.)
RethrowOnly(code, h) ==
  /\ code[h.target].op = "catch"
  /\ h.target + 1 \in DOMAIN code /\ code[h.target + 1].op = "throw"

----------------------------------------------------------------------------
\* What ends a block whose last instruction is at a.
Terminator(code, a) ==
  LET i == code[a] IN
  CASE i.op = "jmp" -> [t |-> "jump", to |-> i.to]
    [] i.op = "br" -> [t |-> "branch", c |-> Condition(i), yes |-> i.to, no |-> a + 1]
    [] i.op = "ret" -> [t |-> "return", e |-> i.e]
    [] i.op = "throw" -> [t |-> "throw", e |-> i.e]
    [] i.op = "switch" -> [t |-> "switch", v |-> i.v, cases |-> i.cases, default |-> i.default]
    [] OTHER -> IF a = Len(code) THEN [t |-> "return", e |-> "undefined"]
                ELSE [t |-> "jump", to |-> a + 1]

\* The statements and the end of the block that starts at b.
BlockAt(code, starts, b) ==
  LET last == Min({s - 1 : s \in {n \in starts : n > b}} \cup {Len(code)})
      runs == SelectSeq(SubSeq(code, b, last), LAMBDA i : i.op = "run") IN
  [ops |-> [k \in DOMAIN runs |-> [k |-> "op", e |-> runs[k].e]],
   end |-> Terminator(code, last)]

\* build_from_instructions.
BuildCFG(code, handlers) ==
  LET starts == BlockStarts(code, handlers)
      kept == SelectSeq(handlers, LAMBDA h : ~RethrowOnly(code, h)) IN
  [block |-> [b \in starts |-> BlockAt(code, starts, b)],
   handlers |-> [k \in DOMAIN kept |->
     [start |-> kept[k].start, catch |-> kept[k].target,
      blocks |-> {b \in starts : kept[k].start <= b /\ b < kept[k].end}]]]

Blocks(g) == DOMAIN g.block

\* Terminator::successors, in the order of the code.
Successors(g, b) ==
  LET e == g.block[b].end IN
  CASE e.t = "jump" -> <<e.to>>
    [] e.t = "branch" -> <<e.yes, e.no>>
    [] e.t = "switch" -> Append(e.cases, e.default)
    [] OTHER -> <<>>

\* exception_edge_sources.
Protected(g, catch) ==
  UNION {g.handlers[k].blocks : k \in {n \in DOMAIN g.handlers : g.handlers[n].catch = catch}}

----------------------------------------------------------------------------
\* The blocks found from `from` without going through `not`.
RECURSIVE ReachFrom(_, _, _, _)
ReachFrom(g, not, from, seen) ==
  LET new == from \ (seen \cup not) IN
  IF new = {} THEN seen
  ELSE ReachFrom(g, not, UNION {Range(Successors(g, b)) : b \in new}, seen \cup new)

\* The same against the edges.
RECURSIVE ReachBack(_, _, _, _)
ReachBack(g, not, from, seen) ==
  LET new == from \ (seen \cup not) IN
  IF new = {} THEN seen
  ELSE ReachBack(g, not, {p \in Blocks(g) : Range(Successors(g, p)) \cap new # {}},
                 seen \cup new)

\* A catch block is entered by no edge: it is a root, as the entry is.
Roots(g) == {1} \cup {g.handlers[k].catch : k \in DOMAIN g.handlers}

\* compute_dominators: d is on every path from a root to b. (The code finds it as
\* a fixed point over the reverse postorder.)
Dominates(g, d, b) == b \notin ReachFrom(g, {d}, Roots(g) \ {d}, {})

\* detect_loops, collect_loop_body, find_loop_exit: the header's own way out comes
\* before those of the other blocks, in their order.
ExitOf(g, header, body) ==
  LET out(b) == SelectSeq(Successors(g, b), LAMBDA s : s \notin body)
      leaving == {b \in body : out(b) # <<>>} IN
  IF header \in leaving THEN Head(out(header))
  ELSE IF leaving # {} THEN Head(out(Min(leaving))) ELSE None

Loop(g, header) ==
  LET latches == {b \in Blocks(g) : header \in Range(Successors(g, b)) /\ Dominates(g, header, b)}
      body == {header} \cup ReachBack(g, {header}, latches, {}) IN
  [header |-> header, body |-> body, exit |-> ExitOf(g, header, body)]

Headers(g) ==
  {h \in Blocks(g) : \E b \in Blocks(g) :
     h \in Range(Successors(g, b)) /\ Dominates(g, h, b)}

DetectLoops(g) == [h \in Headers(g) |-> Loop(g, h)]
=============================================================================
