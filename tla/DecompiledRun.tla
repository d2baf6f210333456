---------------------------- MODULE DecompiledRun ----------------------------
(***************************************************************************)
(* A function runs twice at once: as the bytecode it was, and as the         *)
(* statements it was decompiled to. What each does next is compared, and     *)
(* both are given the same outcome: the result of a test, the case a value   *)
(* selects, whether an instruction throws.                                   *)
(***************************************************************************)
EXTENDS StatementPasses, PlainFlow

CONSTANTS
  Functions,     \* compiled functions: sets of [code, handlers]
  MayThrow,      \* what may throw when it runs
  Results        \* of a test: "yes", "no", and "unordered" for a comparison with NaN

VARIABLES
  f,      \* the function
  pc,     \* the address of the bytecode's next instruction
  text,   \* the statements it was decompiled to
  todo    \* the statements still to run, innermost first

vars == <<f, pc, text, todo>>

\* Nothing runs Silent steps forever unless the bytecode does.
Silent == 40

----------------------------------------------------------------------------
\* The bytecode (external: the Hermes virtual machine).
Thrown == -1
Spins == -2

\* The catch block of the innermost handler around an address.
ThrowFrom(a) ==
  LET around == {k \in DOMAIN f.handlers : f.handlers[k].start <= a /\ a < f.handlers[k].end} IN
  IF around = {} THEN Thrown ELSE f.handlers[Min(around)].target

RECURSIVE Settled(_, _)
Settled(a, fuel) ==
  CASE fuel = 0 -> Spins
    [] fuel > 0 /\ a = Thrown -> a
    [] fuel > 0 /\ a > 0 ->
       LET i == f.code[a] IN
       CASE i.op = "jmp" -> Settled(i.to, fuel - 1)
         [] i.op = "catch" -> Settled(a + 1, fuel - 1)
         [] i.op = "throw" -> Settled(ThrowFrom(a), fuel - 1)
         [] OTHER -> a

Taken(i, r) == (r = "yes") = (i.by \in {"JmpTrue", "JLess"})

\* What the bytecode does next.
BytecodeNext ==
  IF pc < 0 THEN [does |-> IF pc = Thrown THEN "throw" ELSE "spin"]
  ELSE LET i == f.code[pc] IN
       CASE i.op = "run" -> [does |-> "op", e |-> i.e]
         [] i.op = "br" -> [does |-> "test", t |-> i.t]
         [] i.op = "switch" -> [does |-> "select", v |-> i.v]
         [] i.op = "ret" -> [does |-> "return", e |-> i.e]

----------------------------------------------------------------------------
\* The statements, as JavaScript runs them (external). Under a loop's body lies
\* what runs after it, `again`; under a try's and a switch's, where they end.
Again(loop, l) == [k |-> "again", loop |-> loop, l |-> l]

\* What is left below the first entry that `stops` holds of, that entry first.
DownTo(stack, stops(_)) ==
  LET at == {i \in DOMAIN stack : stops(stack[i])} IN
  IF at = {} THEN <<[k |-> "stuck"]>> ELSE SubSeq(stack, Min(at), Len(stack))

\* The body of a catch, or out of the function.
Unwound(stack) ==
  LET to == DownTo(stack, LAMBDA s : s.k = "tryend") IN
  IF Head(to).k = "stuck" THEN <<[k |-> "thrown"]>> ELSE Head(to).catch \o Tail(to)

RECURSIVE Quiet(_, _)
Quiet(stack, fuel) ==
  IF fuel = 0 THEN <<[k |-> "spin"]>>
  ELSE IF stack = <<>> THEN <<[k |-> "return", e |-> "nothing"]>>
  ELSE
  LET s == Head(stack)
      rest == Tail(stack)
      To(next) == Quiet(next, fuel - 1) IN
  CASE s.k = "label" /\ rest # <<>> /\ IsLoop(rest[1]) ->
         To(IF rest[1].k = "while" THEN <<Again(rest[1], s.l)>> \o Tail(rest)
            ELSE rest[1].body \o <<Again(rest[1], s.l)>> \o Tail(rest))
    [] s.k = "label" /\ ~(rest # <<>> /\ IsLoop(rest[1])) -> To(rest)
    [] s.k = "while" -> To(<<Again(s, None)>> \o rest)
    [] s.k = "dowhile" -> To(s.body \o <<Again(s, None)>> \o rest)
    [] s.k = "again" /\ s.loop.c = TrueCond -> To(s.loop.body \o stack)
    [] s.k = "try" -> To(s.body \o <<[k |-> "tryend", catch |-> s.catch]>> \o rest)
    [] s.k \in {"tryend", "switchend"} -> To(rest)
    [] s.k = "break" ->
         LET to == DownTo(rest, LAMBDA n : \/ n.k = "again" /\ s.l \in {None, n.l}
                                           \/ n.k = "switchend" /\ s.l = None) IN
         IF Head(to).k = "stuck" THEN to ELSE To(Tail(to))
    [] s.k = "continue" ->
         LET to == DownTo(rest, LAMBDA n : n.k = "again" /\ s.l \in {None, n.l}) IN
         IF Head(to).k = "stuck" THEN to ELSE To(to)
    [] s.k = "throw" -> To(Unwound(rest))
    [] OTHER -> stack

\* A condition, with the result its test gave. A comparison with NaN is false.
Holds(c, r) == (r = IF c.is = "at least" THEN "no" ELSE "yes") # c.not

\* What the statements do next.
StatementsNext ==
  LET s == Head(todo) IN
  CASE s.k = "op" -> [does |-> "op", e |-> s.e]
    [] s.k \in {"if", "choose"} -> [does |-> "test", t |-> s.c.t]
    [] s.k = "again" -> [does |-> "test", t |-> s.loop.c.t]
    [] s.k = "switch" -> [does |-> "select", v |-> s.v]
    [] s.k = "return" -> [does |-> "return", e |-> IF s.e = "nothing" THEN "undefined" ELSE s.e]
    [] s.k = "thrown" -> [does |-> "throw"]
    [] OTHER -> [does |-> s.k]

----------------------------------------------------------------------------
Init ==
  /\ f \in Functions
  /\ pc = Settled(1, Silent)
  /\ text = Decompiled(f.code, f.handlers)
  /\ todo = Quiet(text, Silent)

Becomes(a, stack) ==
  /\ pc' = Settled(a, Silent)
  /\ todo' = Quiet(stack, Silent)
  /\ UNCHANGED <<f, text>>

InStep == pc > 0 /\ BytecodeNext = StatementsNext

Run ==
  /\ InStep /\ BytecodeNext.does = "op"
  /\ Becomes(pc + 1, Tail(todo))

Raise ==
  /\ InStep /\ BytecodeNext.does = "op" /\ BytecodeNext.e \in MayThrow
  /\ Becomes(ThrowFrom(pc), Unwound(Tail(todo)))

Test(r) ==
  /\ InStep /\ BytecodeNext.does = "test"
  /\ LET i == f.code[pc]
         s == Head(todo)
         after ==
           CASE s.k = "if" -> (IF Holds(s.c, r) THEN s.then ELSE s.else) \o Tail(todo)
             [] s.k = "choose" -> <<[k |-> "return",
                                     e |-> IF Holds(s.c, r) THEN s.yes ELSE s.no]>>
             [] s.k = "again" -> IF Holds(s.loop.c, r) THEN s.loop.body \o todo
                                 ELSE Tail(todo) IN
     Becomes(IF Taken(i, r) THEN i.to ELSE pc + 1, after)

Select(n) ==
  /\ InStep /\ BytecodeNext.does = "select"
  /\ LET i == f.code[pc]
         s == Head(todo) IN
     /\ n \in 0..Len(i.cases)
     /\ Becomes(IF n = 0 THEN i.default ELSE i.cases[n],
                (IF n = 0 THEN s.default ELSE s.cases[n])
                \o <<[k |-> "switchend"]>> \o Tail(todo))

Next ==
  \/ Run
  \/ Raise
  \/ \E r \in Results : Test(r)
  \/ \E n \in 0..2 : Select(n)

Spec == Init /\ [][Next]_vars

----------------------------------------------------------------------------
Graph == BuildCFG(f.code, f.handlers)

(***************************************************************************)
(* The decompiled statements do what the bytecode does, step by step, on    *)
(* every path: the same operations in the same order, the same tests, the   *)
(* same return, the same handler for an exception; and neither goes round   *)
(* without doing anything where the other does not. This is what structure  *)
(* recovery and the passes after it owe every graph they take for granted   *)
(* (Plain); outside those the code diverges.                                *)
(***************************************************************************)
FollowsTheBytecode == StatementsNext = BytecodeNext \/ ~Plain(Graph)

\* What the statements can do: their operations and the values they return.
RECURSIVE Doings(_)
Doings(stmts) ==
  LET Of(s) ==
        CASE s.k \in {"op", "return"} -> {s.e}
          [] s.k = "choose" -> {s.yes, s.no}
          [] s.k = "if" -> Doings(s.then) \cup Doings(s.else)
          [] IsLoop(s) -> Doings(s.body)
          [] s.k = "try" -> Doings(s.body) \cup Doings(s.catch)
          [] s.k = "switch" -> UNION {Doings(s.cases[n]) : n \in DOMAIN s.cases} \cup Doings(s.default)
          [] OTHER -> {} IN
  UNION {Of(stmts[i]) : i \in DOMAIN stmts}

AtStart == pc = Settled(1, Silent) /\ todo = Quiet(text, Silent)

(***************************************************************************)
(* Every operation and every return that can be reached is somewhere in the *)
(* text, also where its order or its condition went wrong: recovery drops   *)
(* no block, whatever was visited, held back or emitted before. It does     *)
(* need to find the loops, tell tries apart, and have the header of a loop  *)
(* that is left end in a branch.                                            *)
(***************************************************************************)
NothingIsDropped ==
  LET g == Graph
      does(b) == Doings(g.block[b].ops)
                 \cup (IF g.block[b].end.t = "return" THEN {g.block[b].end.e} ELSE {}) IN
  AtStart /\ LoopsAreFound(g) /\ TriesApart(g)
          /\ (\A h \in Headers(g) : \/ g.block[h].end.t = "branch"
                                    \/ g.block[h].end.t = "jump" /\ Loop(g, h).exit = None)
    => UNION {does(b) : b \in Executed(g)} \subseteq Doings(text) \cup {"undefined"}

\* Every jump in stmts has the loop, the switch or the label it names around it.
RECURSIVE JumpsLand(_, _, _)
JumpsLand(stmts, names, around) ==
  LET Each(s, label) ==
        CASE s.k = "break" -> IF s.l = None THEN around # {} ELSE s.l \in names
          [] s.k = "continue" -> IF s.l = None THEN "loop" \in around ELSE s.l \in names
          [] s.k = "if" -> JumpsLand(s.then, names, around) /\ JumpsLand(s.else, names, around)
          [] IsLoop(s) -> JumpsLand(s.body, names \cup label, {"loop"})
          [] s.k = "try" -> JumpsLand(s.body, names, around) /\ JumpsLand(s.catch, names, around)
          [] s.k = "switch" ->
               \A body \in Range(s.cases) \cup {s.default} :
                 JumpsLand(body, names, around \cup {"switch"})
          [] OTHER -> TRUE IN
  \A i \in DOMAIN stmts :
    Each(stmts[i], IF i > 1 /\ stmts[i - 1].k = "label" THEN {stmts[i - 1].l} ELSE {})

(***************************************************************************)
(* No `break` or `continue` in the text lost the loop or the label it names *)
(* to a pass that turned the loop round, took its label away or moved the   *)
(* statement: the text parses.                                              *)
(***************************************************************************)
JumpsHaveTargets == AtStart => JumpsLand(text, {}, {})

(***************************************************************************)
(* Every cycle of the control-flow graph is in a loop that was detected     *)
(* (analysis/loops.rs:14, "Detect all loops in the CFG").  Violated by       *)
(* MCRetryLoops, README section 6; no run checks it.                        *)
(***************************************************************************)
CyclesAreLoops ==
  LET g == Graph IN
  \A b \in Blocks(g) :
    b \in ReachFrom(g, {}, Range(Successors(g, b)), {}) =>
      \E h \in Headers(g) : b \in Loop(g, h).body
=============================================================================
