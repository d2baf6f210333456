----------------------------- MODULE MCHdCache -----------------------------
(* Small instances of HdCache for TLC, and the mutants its properties catch. *)
EXTENDS HdCache, TLC

CONSTANTS t1, t2, p1, p2, v1, v2, plain, cascade, auto, forced

OwnPid == t1 :> p1 @@ t2 :> p2
OnePid == t1 :> p1 @@ t2 :> p1
OneBuild == t1 :> v1 @@ t2 :> v1
TwoBuilds == t1 :> v1 @@ t2 :> v2

Plain == {[opts |-> plain, reading |-> auto]}
PlainOrCascade == {[opts |-> o, reading |-> auto] : o \in {plain, cascade}}
AutoOrForced == {[opts |-> plain, reading |-> r] : r \in {auto, forced}}
============================================================================
