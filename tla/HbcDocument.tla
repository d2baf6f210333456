---------------------------- MODULE HbcDocument ----------------------------
(***************************************************************************)
(* What a patch operation promises, with no bytes in sight.  A bundle is a   *)
(* document: the code of every function, the handler table that goes with    *)
(* it, one string table and one RegExp storage.  An edit changes the one     *)
(* thing it was asked to change and nothing else, whatever has to move in    *)
(* the file to make room for it.                                            *)
(***************************************************************************)
CONSTANTS Fns, WithTable, Contents

VARIABLES code, table, strings, regexps

document == <<code, table, strings, regexps>>

TypeOK ==
  /\ code \in [Fns -> Contents]
  /\ table \in [WithTable -> Contents]
  /\ strings \in Contents
  /\ regexps \in Contents

Init == TypeOK

\* One function's body; its handler table either follows the body or is kept.
EditFunction(f, c) ==
  /\ code' = [code EXCEPT ![f] = c]
  /\ table' \in {table} \union
       {[g \in WithTable |-> IF g = f THEN c ELSE table[g]]}
  /\ UNCHANGED <<strings, regexps>>

EditStrings(c) == strings' = c /\ UNCHANGED <<code, table, regexps>>

EditRegexps(c) == regexps' = c /\ UNCHANGED <<code, table, strings>>

Next == \E c \in Contents : \/ \E f \in Fns : EditFunction(f, c)
                            \/ EditStrings(c)
                            \/ EditRegexps(c)

Spec == Init /\ [][Next]_document
=============================================================================
