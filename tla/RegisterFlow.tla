---------------------------- MODULE RegisterFlow ----------------------------
(***************************************************************************)
(* What the decompiler does to the registers of a function before it         *)
(* recovers the structure: reads of the global object are resolved, the      *)
(* register's live ranges get names of their own, copies and constants are   *)
(* propagated (analysis/reaching.rs, transforms/ssa.rs,                      *)
(* transforms/propagate/mod.rs, reaching_passes.rs, substitute.rs).          *)
(*                                                                          *)
(* A value is a leaf (a parameter, a constant, the global object), a         *)
(* register, or a calculation on some of those; a statement sets a register  *)
(* to a value, or none. A site is a block and a position in it, the one      *)
(* behind the statements being the terminator's.                             *)
(***************************************************************************)
EXTENDS ControlFlow

Leaf(v) == [k |-> "leaf", v |-> v]
Reg(r) == [k |-> "reg", r |-> r]
Calc(e, args) == [k |-> "calc", e |-> e, args |-> args]

NoReg == 0
Sets(d, v) == [d |-> d, v |-> v]

Global == Leaf("global")

Stmts(g, b) == [i \in DOMAIN g.block[b].ops |-> g.block[b].ops[i].e]

\* The value a terminator reads.
Tested(end) ==
  CASE end.t = "branch" -> end.c.t
    [] end.t = "switch" -> end.v
    [] end.t \in {"return", "throw"} -> end.e
    [] OTHER -> Leaf("nothing")

Testing(end, v) ==
  CASE end.t = "branch" -> [end EXCEPT !.c.t = v]
    [] end.t = "switch" -> [end EXCEPT !.v = v]
    [] end.t \in {"return", "throw"} -> [end EXCEPT !.e = v]
    [] OTHER -> end

Sites(g) == UNION { {<<b, i>> : i \in 1..Len(Stmts(g, b)) + 1} : b \in Blocks(g) }
ValueAt(g, s) ==
  IF s[2] <= Len(Stmts(g, s[1])) THEN Stmts(g, s[1])[s[2]].v ELSE Tested(g.block[s[1]].end)

RegsOf(v) ==
  CASE v.k = "reg" -> {v.r}
    [] v.k = "calc" -> {v.args[n].r : n \in {m \in DOMAIN v.args : v.args[m].k = "reg"}}
    [] OTHER -> {}

\* stmt_reads and terminator_reads.
Reads(g, s) == RegsOf(ValueAt(g, s))

Defs(g) == {s \in Sites(g) : /\ s[2] <= Len(Stmts(g, s[1]))
                             /\ Stmts(g, s[1])[s[2]].d # NoReg}
RegSet(g, d) == Stmts(g, d[1])[d[2]].d
DefsOf(g, r) == {d \in Defs(g) : RegSet(g, d) = r}

----------------------------------------------------------------------------
\* compute_gen: the last definition of each register.
Gen(g, b) ==
  {d \in Defs(g) : d[1] = b /\ ~\E e \in Defs(g) : e[1] = b /\ e[2] > d[2]
                                                   /\ RegSet(g, e) = RegSet(g, d)}

\* compute_kill spares the block's own definitions.
Out(g, in, b) ==
  Gen(g, b) \cup {d \in in[b] : d[1] = b \/ \A e \in Gen(g, b) : RegSet(g, e) # RegSet(g, d)}

\* ReachingDefs::analyze. Into a catch block comes what reached a block it protects,
\* and what leaves it.
RECURSIVE FixedPoint(_, _)
FixedPoint(g, in) ==
  LET found == ReachFrom(g, {}, Roots(g), {})
      next == [b \in Blocks(g) |->
        IF b \notin found THEN {}
        ELSE UNION {Out(g, in, p) : p \in {n \in Blocks(g) : b \in Range(Successors(g, n))}}
             \cup UNION {in[p] \cup Out(g, in, p) : p \in Protected(g, b)}] IN
  IF next = in THEN in ELSE FixedPoint(g, next)

ReachingDefs(g) == FixedPoint(g, [b \in Blocks(g) |-> {}])

\* The definitions of r that reach a site.
Reaching(g, in, s, r) ==
  LET before == {d \in DefsOf(g, r) : d[1] = s[1] /\ d[2] < s[2]} IN
  IF before = {} THEN in[s[1]] \cap DefsOf(g, r)
  ELSE {CHOOSE d \in before : \A e \in before : e[2] <= d[2]}

----------------------------------------------------------------------------
\* substitute_expr: every register of a value becomes what `to` has for it.
Substituted(v, to) ==
  CASE v.k = "reg" -> to[v.r]
    [] v.k = "calc" -> [v EXCEPT !.args = [n \in DOMAIN @ |->
                          IF @[n].k = "reg" THEN to[@[n].r] ELSE @[n]]]
    [] OTHER -> v

\* Every read r at a site s becomes to[s][r], every definition d sets name[d].
Rewritten(g, to, name) ==
  [g EXCEPT !.block = [b \in DOMAIN @ |->
    LET At(i) == Substituted(ValueAt(g, <<b, i>>), to[<<b, i>>]) IN
    [@[b] EXCEPT
      !.ops = [i \in DOMAIN @ |->
                 [@[i] EXCEPT !.e.v = At(i),
                              !.e.d = IF @ = NoReg THEN NoReg ELSE name[<<b, i>>]]],
      !.end = Testing(@, At(Len(Stmts(g, b)) + 1))]]]

\* The registers as they are.
Kept(g) == [d \in Defs(g) |-> RegSet(g, d)]

\* resolve_global_reads: a register that can only hold the global object is read as it.
ResolveGlobalReads(g) ==
  LET in == ReachingDefs(g)
      to(s, r) ==
        LET defs == Reaching(g, in, s, r) IN
        IF defs # {} /\ \A d \in defs : ValueAt(g, d) = Global THEN Global ELSE Reg(r) IN
  Rewritten(g, [s \in Sites(g) |-> [r \in Reads(g, s) |-> to(s, r)]], Kept(g))

----------------------------------------------------------------------------
\* What overlapping sets join d with.
RECURSIVE Joined(_, _)
Joined(sets, ds) ==
  LET more == ds \cup UNION {s \in sets : s \cap ds # {}} IN
  IF more = ds THEN ds ELSE Joined(sets, more)

\* split_live_ranges: definitions that one read may see share a register, others do
\* not. New registers come after all that the bytecode can have.
SplitLiveRanges(g) ==
  LET in == ReachingDefs(g)
      seen == UNION { {Reaching(g, in, s, r) : r \in Reads(g, s)} : s \in Sites(g) }
      number(d) == Cardinality({e \in Defs(g) : e[1] < d[1] \/ (e[1] = d[1] /\ e[2] <= d[2])})
      name == [d \in Defs(g) |-> 10000 + Min({number(e) : e \in Joined(seen, {d})})]
      to(s, r) ==
        LET defs == Reaching(g, in, s, r) IN
        IF defs = {} THEN Reg(r) ELSE Reg(name[CHOOSE d \in defs : TRUE]) IN
  Rewritten(g, [s \in Sites(g) |-> [r \in Reads(g, s) |-> to(s, r)]], name)

----------------------------------------------------------------------------
\* The copies a = b of a register that is set nowhere else, by a.
Copies(g) ==
  {d \in Defs(g) : /\ ValueAt(g, d).k = "reg" /\ ValueAt(g, d).r # RegSet(g, d)
                   /\ DefsOf(g, RegSet(g, d)) = {d}}

\* Mutant: a copy holds wherever its register is read.
PropagateEveryCopy(g) ==
  LET to(r) == LET of == {c \in Copies(g) : RegSet(g, c) = r} IN
               IF of = {} THEN Reg(r) ELSE ValueAt(g, CHOOSE c \in of : TRUE) IN
  Rewritten(g, [s \in Sites(g) |-> [r \in Reads(g, s) |-> to(r)]], Kept(g))

\* propagate_copies: where the definitions of b that reach a read of a are those that
\* reached the copy, b is read instead.
PropagateCopies(g) ==
  LET in == ReachingDefs(g)
      to(s, r) ==
        LET of == {c \in Copies(g) : RegSet(g, c) = r}
            copy == CHOOSE c \in of : TRUE
            b == ValueAt(g, copy).r IN
        IF of # {} /\ Reaching(g, in, s, b) = Reaching(g, in, copy, b) THEN Reg(b) ELSE Reg(r) IN
  Rewritten(g, [s \in Sites(g) |-> [r \in Reads(g, s) |-> to(s, r)]], Kept(g))

\* global_invariant_copies: a register set once, to a leaf or to such a register.
RECURSIVE Invariant(_, _, _)
Invariant(g, r, depth) ==
  LET v == ValueAt(g, CHOOSE d \in DefsOf(g, r) : TRUE) IN
  IF depth > 16 \/ Cardinality(DefsOf(g, r)) # 1 THEN Reg(r)
  ELSE IF v.k = "leaf" THEN v
  ELSE IF v.k = "reg" /\ Invariant(g, v.r, depth + 1).k = "leaf"
       THEN Invariant(g, v.r, depth + 1)
  ELSE Reg(r)

\* The known values after d is set to v: those that read d are gone.
Redefined(copies, d, v) ==
  LET kept == {r \in DOMAIN copies \ {d} : d \notin RegsOf(copies[r])} IN
  [r \in kept \cup (IF v.k = "calc" THEN {} ELSE {d}) |-> IF r = d THEN v ELSE copies[r]]

\* propagate_block: what is known before each statement of block b, and at its end.
RECURSIVE Known(_, _, _)
Known(g, b, i) ==
  IF i = 1 THEN <<>>
  ELSE LET before == Known(g, b, i - 1)
           s == Stmts(g, b)[i - 1]
           v == Substituted(s.v, [r \in RegsOf(s.v) |->
                                    IF r \in DOMAIN before THEN before[r] ELSE Reg(r)]) IN
       IF s.d = NoReg THEN before ELSE Redefined(before, s.d, v)

RECURSIVE PropagateBlocks(_, _)
PropagateBlocks(g, rounds) ==
  LET to(s, r) == LET known == Known(g, s[1], s[2]) IN
                  IF r \in DOMAIN known THEN known[r] ELSE Reg(r)
      next == Rewritten(g, [s \in Sites(g) |-> [r \in Reads(g, s) |-> to(s, r)]], Kept(g)) IN
  IF next = g \/ rounds = 1 THEN next ELSE PropagateBlocks(next, rounds - 1)

\* propagate, for ten rounds at most.
Propagate(g) ==
  LET to == [s \in Sites(g) |-> [r \in Reads(g, s) |-> Invariant(g, r, 0)]] IN
  PropagateBlocks(Rewritten(g, to, Kept(g)), 10)

----------------------------------------------------------------------------
\* generate_ir up to structure recovery.
Split(code, handlers) == SplitLiveRanges(ResolveGlobalReads(BuildCFG(code, handlers)))
Renamed(code, handlers) == Propagate(PropagateCopies(Split(code, handlers)))
=============================================================================
