----------------------------- MODULE RegisterRun -----------------------------
(***************************************************************************)
(* A function runs twice at once, with the registers of the bytecode and     *)
(* with those the decompiler gave it. Both take the same way through the     *)
(* same blocks, whatever is calculated gives both the same result, and it     *)
(* may throw.                                                                *)
(***************************************************************************)
EXTENDS RegisterFlow, TLC

CONSTANTS
  Functions,   \* compiled functions: sets of [code, handlers]
  Results      \* of a calculation

VARIABLES
  f,       \* the function
  text,    \* its graph with the decompiler's registers
  at,      \* the site both have reached, or Done
  was,     \* the bytecode's registers that were set
  now      \* the decompiler's

vars == <<f, text, at, was, now>>

Done == <<0, 0>>
graph == BuildCFG(f.code, f.handlers)

----------------------------------------------------------------------------
\* The values of registers and leaves (external: the Hermes virtual machine, and
\* JavaScript).
Held(env, r) == IF r \in DOMAIN env THEN env[r] ELSE "undefined"

\* What a site reads: the value, or what the calculation is on.
Read(env, v) ==
  CASE v.k = "leaf" -> <<v.v>>
    [] v.k = "reg" -> <<Held(env, v.r)>>
    [] v.k = "calc" -> [n \in DOMAIN v.args |->
                          IF v.args[n].k = "reg" THEN Held(env, v.args[n].r) ELSE v.args[n].v]

AtStatement == at # Done /\ at[2] <= Len(Stmts(graph, at[1]))
Statement(g) == Stmts(g, at[1])[at[2]]

After(env, s, result) ==
  IF s.d = NoReg THEN env
  ELSE (s.d :> IF s.v.k = "calc" THEN result ELSE Read(env, s.v)[1]) @@ env

----------------------------------------------------------------------------
Init ==
  /\ f \in Functions
  /\ text = Renamed(f.code, f.handlers)
  /\ at = <<1, 1>>
  /\ was = <<>>
  /\ now = <<>>

\* A statement of the block runs.
Run(result) ==
  /\ AtStatement
  /\ at' = <<at[1], at[2] + 1>>
  /\ was' = After(was, Statement(graph), result)
  /\ now' = After(now, Statement(text), result)
  /\ UNCHANGED <<f, text>>

\* The catch block of the innermost handler around a block.
Catch(b) ==
  LET around == {k \in DOMAIN graph.handlers : b \in graph.handlers[k].blocks} IN
  IF around = {} THEN Done ELSE <<graph.handlers[Min(around)].catch, 1>>

\* A calculation throws before it sets its register; a terminator throws.
Raise ==
  /\ at # Done
  /\ \/ AtStatement /\ Statement(graph).v.k = "calc"
     \/ ~AtStatement /\ graph.block[at[1]].end.t = "throw"
  /\ at' = Catch(at[1])
  /\ UNCHANGED <<f, text, was, now>>

\* Control goes to a successor, or out of the function.
Go ==
  /\ at # Done /\ ~AtStatement
  /\ LET next == Range(Successors(graph, at[1])) IN
     \/ \E b \in next : at' = <<b, 1>>
     \/ graph.block[at[1]].end.t = "return" /\ at' = Done
  /\ UNCHANGED <<f, text, was, now>>

Next ==
  \/ \E result \in Results : Run(result)
  \/ Raise
  \/ Go

Spec == Init /\ [][Next]_vars

----------------------------------------------------------------------------
\* Where control may go from a site: on, to a successor, or into a catch block.
Onwards(g, s) ==
  (IF s[2] <= Len(Stmts(g, s[1])) THEN {<<s[1], s[2] + 1>>}
   ELSE {<<b, 1>> : b \in Range(Successors(g, s[1]))})
  \cup {<<g.handlers[k].catch, 1>> : k \in {n \in DOMAIN g.handlers : s[1] \in g.handlers[n].blocks}}

\* The sites found from `from`; what lies behind `stop` is not looked at.
RECURSIVE Found(_, _, _, _)
Found(g, stop, from, seen) ==
  LET new == from \ seen IN
  IF new = {} THEN seen
  ELSE Found(g, stop, UNION {Onwards(g, s) : s \in new \ stop}, seen \cup new)

\* No catch block needs a definition that a later one in its block hides.
CatchSeesAll(g) ==
  \A d \in Defs(g) : \A k \in DOMAIN g.handlers :
    LET r == RegSet(g, d) IN
    d \notin Gen(g, d[1]) /\ d[1] \in g.handlers[k].blocks =>
      \A s \in Found(g, DefsOf(g, r), {<<g.handlers[k].catch, 1>>}, {}) : r \notin Reads(g, s)

\* No copy is read after a definition of its source that, around a loop, reaches the
\* copy again.
CopiesHold(g) ==
  LET in == ReachingDefs(g) IN
  \A c \in Copies(g) :
    LET b == ValueAt(g, c).r
        changed == Found(g, {c}, Onwards(g, c), {}) \cap Reaching(g, in, c, b)
        later == Found(g, {c}, UNION {Onwards(g, d) : d \in changed}, {}) IN
    \A s \in later : RegSet(g, c) \notin Reads(g, s)

\* What both read where they are is the same.
SameReads ==
  at # Done => Read(was, ValueAt(graph, at)) = Read(now, ValueAt(text, at))

(***************************************************************************)
(* Every statement and every terminator reads, with the decompiler's         *)
(* registers, the values that the bytecode reads: whatever was renamed,      *)
(* joined and propagated, over every path, around loops and into catch       *)
(* blocks. This holds where a catch block sees every definition it needs     *)
(* and copies outlast no change of their source around a loop; the code      *)
(* does not look for either.                                                 *)
(***************************************************************************)
ReadsTheSame ==
  \/ SameReads
  \/ ~CatchSeesAll(graph)
  \/ ~CopiesHold(Split(f.code, f.handlers))

(***************************************************************************)
(* A catch block reads what the protected range wrote (reaching.rs:50,       *)
(* "Every definition live on entry to a protected block, or made by it, may   *)
(* therefore reach the catch").                                              *)
(***************************************************************************)
CatchReadsWhatWasWritten == SameReads
=============================================================================
