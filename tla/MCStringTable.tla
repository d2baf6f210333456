---------------------------- MODULE MCStringTable ----------------------------
(* Small string tables for TLC: units 1 and 2 are ASCII, 3 is not. *)
EXTENDS StringTable

MCTexts == {<<>>, <<1, 2>>, <<2, 1>>, <<1, 2, 1>>, <<3>>, <<3, 1>>}

MCMisread == [wide |-> FALSE, bytes |-> <<6>>]

Entry(wide, offset, length) == [wide |-> wide, offset |-> offset, length |-> length]
Run(ident, count) == [ident |-> ident, count |-> count]

\* As an optimising compiler lays strings out: "ab" and "ba" overlap, and the
\* identifiers are "ba" and an unpaired surrogate.
Overlapping ==
  [kinds |-> <<Run(FALSE, 1), Run(TRUE, 2)>>,
   hashes |-> <<Encode(<<2, 1>>), Encode(<<4>>)>>,
   small |-> <<Entry(FALSE, 0, 2), Entry(FALSE, 1, 2), Entry(TRUE, 4, 1)>>,
   overflow |-> <<>>,
   storage |-> <<1, 2, 1, 0, 4, 0>>]

\* As `create` does: each on its own, no identifiers, the last one empty.
Created ==
  [kinds |-> <<Run(FALSE, 2)>>, hashes |-> <<>>,
   small |-> <<Entry(FALSE, 0, 3), Entry(FALSE, 3, 0)>>,
   overflow |-> <<[offset |-> 0, length |-> 3]>>,
   storage |-> <<1, 2, 1>>]

MCOpened == {Overlapping, Created}

\* What an edit can read.
FileView == file
=============================================================================
