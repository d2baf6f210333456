--------------------------- MODULE MCDecompiledRun ---------------------------
(***************************************************************************)
(* The functions that are run: every construct alone and with code around   *)
(* it, every construct in every other, two in a row, in a row inside a      *)
(* third, and loops left and continued from inside switches, tries and       *)
(* inner loops.                                                              *)
(***************************************************************************)
EXTENDS DecompiledRun, HermesCompiler

Do(e) == [s |-> "do", e |-> e]
Ret == [s |-> "ret", e |-> "r"]
Throw == [s |-> "throw", e |-> "caught"]
IfS(c, a, b) == [s |-> "if", c |-> c, a |-> a, b |-> b]
OrS(a, b) == [s |-> "or", c |-> "p", d |-> "p2", a |-> a, b |-> b]
WhileS(c, a) == [s |-> "while", c |-> c, a |-> a]
DoWhileS(c, a) == [s |-> "dowhile", c |-> c, a |-> a]
Endless(a) == [s |-> "loop", a |-> a]
Break(up) == [s |-> "break", up |-> up]
Continue(up) == [s |-> "continue", up |-> up]
Leave(kind, up) == [s |-> "leave", c |-> "j", kind |-> kind, up |-> up]
SwitchS(cases, b) == [s |-> "switch", v |-> "v", cases |-> cases, b |-> b]
TryS(a, b) == [s |-> "try", a |-> a, b |-> b]

A == <<Do("a")>>
B == <<Do("b")>>
K == <<Do("k")>>
Y == <<Do("y")>>
Z == <<Do("z")>>
R == <<Ret>>

Constructs ==
  { Do("a"),
    IfS("p", A, <<>>), IfS("p", A, B), IfS("p", R, <<>>), IfS("p", A, R), IfS("p", R, R),
    IfS("p", A \o R, B),
    OrS(A, <<>>), OrS(A, B), OrS(R, <<>>),
    WhileS("q", A), DoWhileS("q", A), Endless(A),
    SwitchS(<<A, B>>, K), SwitchS(<<A>>, <<>>), SwitchS(<<A \o R, B>>, K),
    TryS(A, B), TryS(A, <<>>), TryS(A \o R, B), TryS(A, R), TryS(A, <<Throw>>) }

Leaves ==
  { Leave("break", 0), Leave("continue", 0), IfS("j", <<Break(0)>>, <<>>),
    IfS("j", A \o <<Break(0)>>, <<>>), IfS("j", A \o <<Continue(0)>>, <<>>),
    IfS("j", R, <<>>), IfS("j", <<Break(0)>>, A), IfS("j", <<Continue(0)>>, A) }

LeavesTwo ==
  { Leave("break", 1), Leave("continue", 1), IfS("j", <<Break(1)>>, <<>>),
    IfS("j", A \o <<Break(1)>>, <<>>), IfS("j", <<Continue(1)>>, Y) }

LeavesFromWithin ==
  { SwitchS(<<x, K>>, <<>>) : x \in {<<Continue(0)>>, A \o <<Continue(0)>>, A \o <<Break(0)>>,
                                     <<IfS("j", <<Continue(0)>>, <<>>)>> \o B} }
  \cup { TryS(x, K) : x \in {<<Break(0)>>, A \o <<Continue(0)>>,
                             <<IfS("j", <<Break(0)>>, <<>>)>> \o B} }
  \cup { TryS(A, x) : x \in {<<Break(0)>>, K \o <<Continue(0)>>, K \o R} }

\* x on its own, with code before it, after it, and on both sides.
Around(x) == { <<x>>, Z \o <<x>>, <<x>> \o Z, Z \o <<x>> \o Y }
AllAround(S) == UNION { Around(x) : x \in S }
Loops(body) == { WhileS("w", body), DoWhileS("w", body), Endless(body) }

Inside(x) ==
  { IfS("i", x, <<>>), IfS("i", x, K), IfS("i", K, x),
    SwitchS(<<x, K>>, <<>>), TryS(x, K), TryS(K, x) }

OneInAnother ==
  UNION { Inside(x) : x \in AllAround(Constructs) }
  \cup UNION { Loops(x) : x \in AllAround(Constructs \cup Leaves \cup LeavesFromWithin) }
  \cup UNION { Loops(x) : x \in AllAround(UNION { {WhileS("u", y), DoWhileS("u", y)} :
                                                  y \in AllAround(Leaves \cup LeavesTwo) }) }

Pairs ==
  { <<x, y>> : x \in Constructs, y \in Constructs }
  \cup { <<WhileS("w", <<x, y>>)>> : x \in Constructs, y \in Constructs \cup Leaves }
  \cup { <<DoWhileS("w", <<x, y>>)>> : x \in Constructs \cup Leaves, y \in Leaves }
  \cup { <<IfS("i", <<x, y>>, <<>>)>> \o Z : x \in Constructs, y \in Constructs }

ThreeDeep ==
  UNION { { <<IfS("t", <<h>>, Y)>> \o Z, <<WhileS("t", <<h>> \o Y)>>, <<TryS(<<h>>, Y)>> \o Z } :
          h \in OneInAnother }

MCFunctions == { Compiled(x) : x \in AllAround(Constructs) \cup Pairs
                                     \cup { <<h>> : h \in OneInAnother } \cup ThreeDeep }

\* Loops with a try inside whose catch goes on with the loop.
MCRetryLoops == { Compiled(<<h>>) : h \in Loops(Z \o <<TryS(A, B)>>) }
=============================================================================
