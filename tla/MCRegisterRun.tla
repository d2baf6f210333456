---------------------------- MODULE MCRegisterRun ----------------------------
(***************************************************************************)
(* Functions of three registers, set at the start to a parameter, a constant *)
(* and the global object.                                                    *)
(***************************************************************************)
EXTENDS RegisterRun, HermesCompiler

Do(v, d) == [s |-> "do", e |-> Sets(d, v)]
If1(a, b) == [s |-> "if", c |-> Reg(1), a |-> a, b |-> b]
While1(a) == [s |-> "while", c |-> Reg(1), a |-> a]
DoWhile1(a) == [s |-> "dowhile", c |-> Reg(1), a |-> a]
Try1(a, b) == [s |-> "try", a |-> a, b |-> b]

Throw1(r) == [s |-> "throw", e |-> Reg(r)]

\* Catch rX gives the register a value that is not propagated, as a calculation does.
Caught(r) == Do(Calc("caught", <<>>), r)

Get == Do(Calc("get", <<>>), 1)
Step1 == Do(Calc("step", <<Reg(1)>>), 1)
Use(r) == Do(Calc("use", <<Reg(r)>>), NoReg)
Copy(a, b) == Do(Reg(b), a)

Start == <<Do(Leaf("param"), 1), Do(Leaf("const"), 2), Do(Global, 3)>>
End1 == <<Use(1), Use(2), [s |-> "ret", e |-> Reg(3)]>>

Pool == {Get, Step1, Use(2), Copy(2, 1), Copy(1, 2), Copy(1, 3), Do(Global, 1)}
Some == {<<>>} \cup {<<x>> : x \in Pool}
Two == Some \cup {<<x, y>> : x \in Pool, y \in Pool}

Bodies ==
  { <<If1(a, b)>> : a \in Two, b \in Two }
  \cup { <<x, If1(a, b)>> : x \in Pool, a \in Two, b \in Some }
  \cup { <<While1(a)>> : a \in Two }
  \cup { <<While1(<<x, If1(a, <<>>)>> \o b)>> : x \in Pool, a \in Some, b \in Some }
  \cup { <<DoWhile1(<<x, If1(a, <<>>)>> \o b)>> : x \in Pool, a \in Some, b \in Some }
  \cup { <<DoWhile1(<<Copy(2, 1)>> \o a)>> : a \in Two }
  \cup { <<Try1(a, b)>> : a \in Two, b \in Some }
  \cup { <<While1(<<Try1(a, b)>>)>> : a \in Some, b \in Some }
  \cup { <<Try1(a \o <<Throw1(1)>>, <<Caught(2)>> \o b)>> : a \in Two, b \in Some }
  \cup { <<Try1(a, <<Caught(2)>> \o b \o <<Throw1(2)>>)>> : a \in Two, b \in Some }
  \cup { <<Try1(<<If1(a, <<>>)>> \o b, <<Use(2)>>)>> : a \in Some, b \in Some }

\* A state that is kept over a step and told by the catch block.
MCCaught == { Compiled(Start \o <<Try1(<<x, Get>>, <<Use(1)>>)>> \o End1) : x \in Pool }

MCFunctions == { Compiled(Start \o x \o End1) : x \in Bodies }
=============================================================================
