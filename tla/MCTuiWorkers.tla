---------------------------- MODULE MCTuiWorkers ----------------------------
(***************************************************************************)
(* A small instance of TuiWorkers: in file 2, function 1 has changed and    *)
(* function 2 has become function 3.                                        *)
(***************************************************************************)
EXTENDS TuiWorkers

MCCode == << 1 :> "a" @@ 2 :> "b", 1 :> "c" @@ 3 :> "b" >>
MCFilters == {Names, {2}}
=============================================================================
