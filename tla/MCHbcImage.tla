----------------------------- MODULE MCHbcImage -----------------------------
(***************************************************************************)
(* Small files for HbcImage: two functions, the second with an out-of-line  *)
(* header, bodies of 6 and 10 bytes, with and without RegExp storage and a   *)
(* debug section.                                                           *)
(***************************************************************************)
EXTENDS HbcImage, TLC

CONSTANTS f1, f2

MCFns == {f1, f2}
First == {f1}
Second == {f2}

\* What a step can read: everything but the record of how the last one ended.
FileView == <<lay, img, code, tab, stale, strs, res, uses, model>>

ContentSymmetry == Permutations(Contents)

S(at, len) == [at |-> at, len |-> len]

\* Strings at 16, RegExp storage at 28, code, the large header at 44 (+ re), the
\* info records behind it.
FileWith(re, debugLen) ==
  [strings |-> S(16, 8), regexp |-> S(28, re),
   body |-> [f \in Fns |-> IF f = f1 THEN S(28 + re, 6) ELSE S(34 + re, 10)],
   large |-> [f \in Overflowed |-> S(44 + re, 20)],
   info |-> [f \in HasInfo |-> IF f = f2 THEN S(64 + re, 16) ELSE S(80 + re, 16)],
   debug |-> S(96 + re, debugLen)]

\* A frame the log prologue has to grow, and one it fits in.
TwoFrames == {[frame |-> n, cache |-> 0] : n \in {2, 5}}

MixedFiles == {FileWith(4, 4), FileWith(0, 0)}
=============================================================================
