--------------------------- MODULE StringDocument ---------------------------
(***************************************************************************)
(* What an edit of the string table promises: a sequence of strings, each   *)
(* an identifier or not, and no storage, tables or hashes in sight.  Ids     *)
(* are stable, and every edit changes the one string it was asked to.        *)
(***************************************************************************)
EXTENDS Sequences

CONSTANT Values      \* what an edit may write

VARIABLES
  strings,           \* id -> [value, ident]
  asked              \* the last edit

vars == <<strings, asked>>

\* patch_string_by_id, patch_string_replace
Set ==
  \E i \in DOMAIN strings, v \in Values :
    /\ asked' = [op |-> "set", id |-> i, value |-> v]
    /\ strings' = [strings EXCEPT ![i].value = v]

\* retarget_string
Retarget ==
  \E i, j \in DOMAIN strings :
    /\ i # j
    /\ asked' = [op |-> "retarget", id |-> i, to |-> j]
    /\ strings' = [strings EXCEPT ![i].value = strings[j].value]

\* add_string
Add ==
  \E v \in Values, ident \in BOOLEAN :
    /\ asked' = [op |-> "add", value |-> v, ident |-> ident]
    /\ strings' = Append(strings, [value |-> v, ident |-> ident])

Next == Set \/ Retarget \/ Add

Spec == [][Next]_vars
=============================================================================
