------------------------- MODULE HbcImageStepProofs -------------------------
(***************************************************************************)
(* What single edits may and may not do, on top of the inductive invariant   *)
(* of HbcImageProofs: the types, the packed fields, the handler tables, the  *)
(* line tables and what a refusal leaves behind; and that the write path      *)
(* implements HbcDocument.                                                   *)
(***************************************************************************)
EXTENDS HbcImageProofs

\* Every step is an accepted operation, a stub that failed after its
\* reservation, or a refusal that changes nothing but the record of it.
LEMMA StepCases ==
  ASSUME Next
  PROVE  \/ \E f \in Fns, c \in Contents, n \in BodySizes,
               upd \in {"keep", "replace"}, allow \in BOOLEAN :
              PatchBody(f, c, n, upd, allow)
         \/ \E f \in Fns, c \in Contents, n \in BodySizes : PatchBytes(f, c, n)
         \/ \E f \in Fns, c \in Contents, kind \in Stubs, fromEnd, allow \in BOOLEAN,
               grown \in Nat : InjectStub(f, c, kind, fromEnd, allow, grown)
         \/ \E f \in Fns, c \in Contents, kind \in Stubs, fromEnd, allow \in BOOLEAN :
              InjectFailed(f, c, kind, fromEnd, allow)
         \/ \E c \in Contents, b \in StringBytes : RebuildStrings(c, b)
         \/ \E c \in Contents : EditStringInPlace(c)
         \/ \E c \in Contents, add \in RegexpBytes : AppendRegexp(c, add)
         \/ \E op \in {"patch_body", "patch_bytes", "inject_stub", "strings",
                       "regexp"}, allow \in BOOLEAN : Refuse(op, allow)
<1>1. LineGrowth \union {0} \subseteq Nat BY ImageAssumption
<1>2. CASE EditsBody BY <1>2 DEF EditsBody, PatchBodyRefused, PatchBytesRefused
<1>3. CASE Injects BY <1>1, <1>3 DEF Injects, InjectRefused
<1>4. CASE EditsTables
  BY <1>4 DEF EditsTables, RebuildStringsRefused, AppendRegexpRefused
<1> QED BY <1>2, <1>3, <1>4 DEF Next

-----------------------------------------------------------------------------
(***************************************************************************)
(* Types.                                                                   *)
(***************************************************************************)
ContentsTyped ==
  /\ code \in [Fns -> Contents]
  /\ tab \in [WithTable -> Contents]
  /\ stale \subseteq WithLines
  /\ strs \in Contents /\ res \in Contents
  /\ uses \in [Fns -> [frame : Nat, slots : Seq(Nat)]]

\* A function on 1 .. n is a sequence.
LEMMA FunIsSeq ==
  ASSUME NEW n \in Nat, NEW f \in [1 .. n -> Nat]
  PROVE  f \in Seq(Nat)
OBVIOUS

LEMMA InitTyped ==
  ASSUME Init
  PROVE  ContentsTyped
<1>1. PICK regs \in OpenRegs : uses = UsesOf(regs) BY DEF Init
<1>2. regs.frame \in Nat /\ NextSlot(regs) \in Nat
  BY ImageAssumption DEF NextSlot
<1>3. [k \in 1 .. NextSlot(regs) |-> k - 1] \in Seq(Nat)
  <2> DEFINE n == NextSlot(regs)
  <2>1. n \in Nat BY <1>2
  <2> HIDE DEF n
  <2>2. [k \in 1 .. n |-> k - 1] \in [1 .. n -> Nat] BY <2>1
  <2>3. [k \in 1 .. n |-> k - 1] \in Seq(Nat) BY <2>1, <2>2, FunIsSeq
  <2> QED BY <2>3 DEF n
<1>4. uses \in [Fns -> [frame : Nat, slots : Seq(Nat)]]
  BY <1>1, <1>2, <1>3 DEF UsesOf
<1> QED BY <1>4 DEF Init, ContentsTyped

LEMMA CodeAfterTyped ==
  ASSUME ContentsTyped, NEW m, NEW f, NEW c \in Contents
  PROVE  CodeAfter(m, f, c) \in [Fns -> Contents]
BY DEF ContentsTyped, CodeAfter

LEMMA TableAfterTyped ==
  ASSUME ContentsTyped, NEW m, NEW l, NEW f, NEW c \in Contents, NEW upd, NEW delta
  PROVE  TableAfter(m, l, f, c, upd, delta) \in [WithTable -> Contents]
BY DEF ContentsTyped, TableAfter

LEMMA UsesAfterTyped ==
  ASSUME IInv, ContentsTyped, NEW f \in Fns, NEW kind
  PROVE  UsesAfter(f, kind) \in [Fns -> [frame : Nat, slots : Seq(Nat)]]
<1>1. model.regs[f] \in Regs BY DEF IInv, RegsTracked
<1>2. NextSlot(model.regs[f]) \in Nat BY <1>1 DEF NextSlot, Regs
<1>3. uses[f].frame \in Nat /\ uses[f].slots \in Seq(Nat) BY DEF ContentsTyped
<1>4. Framed(uses[f].frame) \in Nat BY <1>3, ImageAssumption DEF Framed
<1>5. Append(uses[f].slots, NextSlot(model.regs[f])) \in Seq(Nat) BY <1>2, <1>3
<1> QED BY <1>4, <1>5 DEF UsesAfter, ContentsTyped

LEMMA NextTyped ==
  ASSUME IInv, ContentsTyped, [Next]_vars
  PROVE  ContentsTyped'
<1>0. \A f, delta : Stranded(f, delta) \subseteq WithLines BY DEF Stranded
<1>1. ASSUME NEW f \in Fns, NEW c \in Contents, NEW n \in BodySizes,
             NEW upd \in {"keep", "replace"}, NEW allow \in BOOLEAN,
             PatchBody(f, c, n, upd, allow)
      PROVE  ContentsTyped'
  BY <1>0, <1>1, CodeAfterTyped, TableAfterTyped DEF PatchBody, ContentsTyped
<1>2. ASSUME NEW f \in Fns, NEW c \in Contents, NEW n \in BodySizes,
             PatchBytes(f, c, n)
      PROVE  ContentsTyped'
  BY <1>0, <1>2, CodeAfterTyped DEF PatchBytes, ContentsTyped
<1>3. ASSUME NEW f \in Fns, NEW c \in Contents, NEW kind \in Stubs,
             NEW fromEnd \in BOOLEAN, NEW allow \in BOOLEAN, NEW grown \in Nat,
             InjectStub(f, c, kind, fromEnd, allow, grown)
      PROVE  ContentsTyped'
  BY <1>0, <1>3, CodeAfterTyped, TableAfterTyped, UsesAfterTyped
    DEF InjectStub, ContentsTyped
<1>4. ASSUME NEW f \in Fns, NEW c \in Contents, NEW kind \in Stubs,
             NEW fromEnd \in BOOLEAN, NEW allow \in BOOLEAN,
             InjectFailed(f, c, kind, fromEnd, allow)
      PROVE  ContentsTyped'
  BY <1>4 DEF InjectFailed, ContentsTyped, contents
<1>5. ASSUME NEW c \in Contents, NEW b \in StringBytes, RebuildStrings(c, b)
      PROVE  ContentsTyped'
  BY <1>5 DEF RebuildStrings, ContentsTyped
<1>6. ASSUME NEW c \in Contents, EditStringInPlace(c)
      PROVE  ContentsTyped'
  BY <1>6 DEF EditStringInPlace, ContentsTyped
<1>7. ASSUME NEW c \in Contents, NEW add \in RegexpBytes, AppendRegexp(c, add)
      PROVE  ContentsTyped'
  BY <1>7 DEF AppendRegexp, ContentsTyped
<1>8. ASSUME NEW op, NEW allow, Refuse(op, allow)
      PROVE  ContentsTyped'
  BY <1>8 DEF Refuse, ContentsTyped, contents
<1>9. CASE UNCHANGED vars BY <1>9 DEF vars, ContentsTyped
<1> QED BY <1>1, <1>2, <1>3, <1>4, <1>5, <1>6, <1>7, <1>8, <1>9, StepCases

\* The parsed file has its type because it reads what the invariant describes.
LEMMA ModelTyped ==
  ASSUME IInv
  PROVE  model \in Parsed
<1>1. Good(img, lay) BY DEF IInv, Good
<1>2. \A f \in Fns : FunctionHeaderOf(img, lay, f) \in Header
  BY <1>1, HeadersRead
<1>3. model.regs \in [Fns -> Regs] BY DEF IInv, RegsTracked
<1> DEFINE fn == [f \in Fns |-> FunctionHeaderOf(img, lay, f)]
<1>4. fn \in [Fns -> Header] BY <1>2
<1>5. model = [strBytes |-> img.strBytes, reBytes |-> img.reBytes,
               dbg |-> img.dbg, fn |-> fn, regs |-> model.regs]
  BY DEF IInv, ParsedWith
<1> HIDE DEF fn
<1>6. /\ img.strBytes \in Nat /\ img.reBytes \in Nat /\ img.dbg \in Int
  BY DEF IInv, Image
<1> QED BY <1>3, <1>4, <1>5, <1>6 DEF Parsed

\* Type correctness, for every file and every chain of edits.
THEOREM TypesHold == Spec => []TypeOK
<1>1. Init => ContentsTyped BY InitTyped
<1>2. IInv /\ ContentsTyped /\ [Next]_vars => ContentsTyped' BY NextTyped
<1>3. IInv /\ ContentsTyped => TypeOK
  BY ModelTyped DEF IInv, ContentsTyped, TypeOK
<1> QED BY <1>1, <1>2, <1>3, FileStaysGood, PTL DEF Spec

-----------------------------------------------------------------------------
(***************************************************************************)
(* Refusals.                                                                *)
(***************************************************************************)

\* What a refused edit may leave behind, for every file: the reservation of one
\* log stub in one function's header, its grown frame and one read cache slot.
THEOREM RefusalsLeaveAReservation == Spec => RefusalsKeepTheFile
<1> DEFINE Left(f, frame) ==
             [frame |-> frame, cache |-> model.regs[f].cache + 1]
           Harmless ==
      last'.how = "refused" =>
       /\ UNCHANGED <<lay, contents>>
       /\ \/ UNCHANGED <<img, model>>
          \/ /\ last'.op = "inject_stub"
             /\ \E f \in Fns : \E frame \in {model.regs[f].frame, LogFrame} :
                  LET left == [frame |-> frame, cache |-> model.regs[f].cache + 1]
                  IN  /\ frame >= model.regs[f].frame
                      /\ img' = [img EXCEPT !.regs[f] = left]
                      /\ model' = IF Modern THEN [model EXCEPT !.regs[f] = left]
                                  ELSE model
<1>1. ASSUME NEW f \in Fns, NEW c \in Contents, NEW n \in BodySizes,
             NEW upd \in {"keep", "replace"}, NEW allow \in BOOLEAN,
             PatchBody(f, c, n, upd, allow)
      PROVE  Harmless
  BY <1>1 DEF PatchBody, Ended
<1>2. ASSUME NEW f \in Fns, NEW c \in Contents, NEW n \in BodySizes,
             PatchBytes(f, c, n)
      PROVE  Harmless
  BY <1>2 DEF PatchBytes, Ended
<1>3. ASSUME NEW f \in Fns, NEW c \in Contents, NEW kind \in Stubs,
             NEW fromEnd \in BOOLEAN, NEW allow \in BOOLEAN, NEW grown \in Nat,
             InjectStub(f, c, kind, fromEnd, allow, grown)
      PROVE  Harmless
  <2>1. last'.how \in {"done", "failed"} BY <1>3 DEF InjectStub, Ended
  <2> QED BY <2>1
<1>4. ASSUME IInv, NEW f \in Fns, NEW c \in Contents, NEW kind \in Stubs,
             NEW fromEnd \in BOOLEAN, NEW allow \in BOOLEAN,
             InjectFailed(f, c, kind, fromEnd, allow)
      PROVE  Harmless
  <2>1. /\ last'.op = "inject_stub" /\ UNCHANGED <<lay, contents>>
        /\ img' = ReservedImage(f, kind) /\ model' = ReservedModel(f, kind)
    BY <1>4 DEF InjectFailed, Ended
  <2>2. CASE kind # "log"
    BY <2>1, <2>2 DEF ReservedImage, ReservedModel
  <2>3. CASE kind = "log"
    <3> DEFINE frame == Framed(model.regs[f].frame)
    <3>1. model.regs[f].frame \in Nat /\ LogFrame \in Nat
      BY <1>4, ImageAssumption DEF IInv, RegsTracked, Regs
    <3>2. frame \in {model.regs[f].frame, LogFrame} /\ frame >= model.regs[f].frame
      BY <3>1 DEF Framed
    <3>3. Reserved(model.regs[f]) = Left(f, frame) BY DEF Reserved
    <3>4. /\ img' = [img EXCEPT !.regs[f] = Left(f, frame)]
          /\ model' = IF Modern THEN [model EXCEPT !.regs[f] = Left(f, frame)]
                      ELSE model
      BY <2>1, <2>3, <3>3 DEF ReservedImage, ReservedModel
    <3> HIDE DEF frame
    <3> QED BY <2>1, <3>2, <3>4
  <2> QED BY <2>2, <2>3
<1>5. ASSUME NEW c \in Contents, NEW b \in StringBytes, RebuildStrings(c, b)
      PROVE  Harmless
  BY <1>5 DEF RebuildStrings, Ended
<1>6. ASSUME NEW c \in Contents, EditStringInPlace(c)
      PROVE  Harmless
  BY <1>6 DEF EditStringInPlace, Ended
<1>7. ASSUME NEW c \in Contents, NEW add \in RegexpBytes, AppendRegexp(c, add)
      PROVE  Harmless
  BY <1>7 DEF AppendRegexp, Ended
<1>8. ASSUME NEW op, NEW allow, Refuse(op, allow)
      PROVE  Harmless
  BY <1>8 DEF Refuse
<1>9. IInv /\ [Next]_vars => [Harmless]_vars
  <2> HIDE DEF Harmless
  <2> QED BY <1>1, <1>2, <1>3, <1>4, <1>5, <1>6, <1>7, <1>8, StepCases
<1> QED BY <1>9, FileStaysGood, PTL DEF Spec, RefusalsKeepTheFile

-----------------------------------------------------------------------------
(***************************************************************************)
(* Handler tables.                                                          *)
(***************************************************************************)

\* What a body edit reads of its function from the parsed file, in a good file.
LEMMA ReadsItsBody ==
  ASSUME IInv, NEW f \in Fns
  PROVE  /\ model.fn[f].at = lay.body[f].at
         /\ model.fn[f].size = lay.body[f].len
         /\ model.fn[f].at \in Nat /\ model.fn[f].size \in Nat \ {0}
         /\ lay.body[f] = [at |-> model.fn[f].at, len |-> model.fn[f].size]
<1>1. Good(img, lay) BY DEF IInv, Good
<1>2. model.fn[f].at = lay.body[f].at /\ model.fn[f].size = lay.body[f].len
  BY <1>1, HeadersRead, ModelReads
<1>3. lay.body[f] \in Span /\ lay.body[f].len > 0
  BY LayoutFields DEF IInv, WellLaid, Disjoint
<1> QED BY <1>2, <1>3 DEF Span

\* A body edit changes the length of the edited body alone.
LEMMA OnlyItsLength ==
  ASSUME IInv, NEW m, m.fn = model.fn, NEW f \in Fns, NEW g \in Fns, NEW n \in Nat
  PROVE  SpliceBody(m, lay, g, n).body[f].len =
           IF f = g THEN n ELSE lay.body[f].len
<1>1. lay \in Layout /\ WellLaid(lay) BY DEF IInv
<1>2. SpliceBody(m, lay, g, n) = Splice(lay, lay.body[g].at, lay.body[g].len, n)
  BY ReadsItsBody DEF SpliceBody
<1>3. SpliceBody(m, lay, g, n).body[f] =
        SpliceSpan(lay.body[f], lay.body[g].at, lay.body[g].len, n)
  BY <1>1, <1>2, SpliceFields
<1>4. SpliceSpan(lay.body[f], lay.body[g].at, lay.body[g].len, n).len =
        NewSize(f, g, n, lay.body[f].len)
  BY <1>1, BodyLengths
<1> QED BY <1>3, <1>4 DEF NewSize

\* The splices of the string region and of RegExp storage change no body's length.
LEMMA RegionsKeepLengths ==
  ASSUME IInv, NEW f \in Fns
  PROVE  /\ \A b : StringsSplice(b).body[f].len = lay.body[f].len
         /\ \A add : RegexpSplice(add).body[f].len = lay.body[f].len
<1>1. Good(img, lay) BY DEF IInv, Good
<1>2. lay \in Layout /\ WellLaid(lay) BY DEF IInv
<1>3. /\ ArrayOff(model) - BaseAt = lay.strings.len
      /\ RegexpOff(model) = lay.regexp.at
      /\ RegexpEnd(model) - RegexpOff(model) = lay.regexp.len
  BY <1>1, ParsedSections, ModelReads
<1>4. /\ lay.body[f].at >= BaseAt + lay.strings.len
      /\ lay.body[f].at >= lay.regexp.at + lay.regexp.len
  BY <1>2, BodiesBehindSections
<1>5. \A at, size, n : lay.body[f].at >= at + size =>
        Splice(lay, at, size, n).body[f].len = lay.body[f].len
  <2> SUFFICES ASSUME NEW at, NEW size, NEW n, lay.body[f].at >= at + size
               PROVE  Splice(lay, at, size, n).body[f].len = lay.body[f].len
    OBVIOUS
  <2>1. SpliceSpan(lay.body[f], at, size, n) =
          [at |-> lay.body[f].at + (n - size), len |-> lay.body[f].len]
    BY DEF SpliceSpan
  <2> QED BY <1>2, <2>1, SpliceFields
<1> QED BY <1>3, <1>4, <1>5 DEF StringsSplice, RegexpSplice

\* Padding an unchanged size adds nothing, so a changed size was changed by the
\* new body itself.
LEMMA SizeChangedByBody ==
  ASSUME NEW m, NEW f, NEW n \in Nat \ {0}, m.fn[f].size \in Nat
  PROVE  /\ FinalSize(m, f, n) \in Nat
         /\ FinalSize(m, f, n) # m.fn[f].size => n - m.fn[f].size # 0
BY DEF FinalSize, PadFor

\* Q3, for every file: no edit changes the size of a function with handlers
\* without rewriting its table for the new body.
THEOREM TablesKeepUp == Spec => TablesFollowTheirBody
<1> DEFINE Follows ==
      \A f \in WithTable :
       lay'.body[f].len # lay.body[f].len => tab'[f] = code'[f]
<1>0. WithTable \subseteq Fns BY ImageAssumption
<1>1. ASSUME IInv, NEW g \in Fns, NEW c \in Contents, NEW n \in BodySizes,
             NEW upd \in {"keep", "replace"}, NEW allow \in BOOLEAN,
             PatchBody(g, c, n, upd, allow)
      PROVE  Follows
  <2> DEFINE size == FinalSize(model, g, n)
             delta == size - model.fn[g].size
             l == SpliceBody(model, lay, g, size)
  <2>1. n \in Nat \ {0} BY ImageAssumption
  <2>2. model.fn[g].size \in Nat /\ model.fn[g].size = lay.body[g].len
    BY <1>1, ReadsItsBody
  <2>3. size \in Nat /\ (size # model.fn[g].size => n - model.fn[g].size # 0)
    BY <2>1, <2>2, SizeChangedByBody
  <2>4. /\ lay' = l /\ code' = CodeAfter(model, g, c)
        /\ tab' = TableAfter(model, l, g, c, upd, delta)
        /\ BodyEditAllowed(model, g, n, upd, allow)
        /\ WritesTable(g, upd, delta) =>
             TableAfter(model, l, g, c, upd, delta)[g] = c
    BY <1>1 DEF PatchBody, BodyEditSucceeds, Commit
  <2> HIDE DEF size, delta, l
  <2> SUFFICES ASSUME NEW f \in WithTable, lay'.body[f].len # lay.body[f].len
               PROVE  tab'[f] = code'[f]
    OBVIOUS
  <2>5. f = g /\ size # model.fn[g].size
    BY <1>0, <1>1, <2>2, <2>3, <2>4, OnlyItsLength DEF l
  <2>6. upd = "replace" BY <2>3, <2>4, <2>5 DEF BodyEditAllowed
  <2>7. tab'[f] = c BY <2>4, <2>5, <2>6 DEF WritesTable
  <2>8. code'[f] = c BY <1>1, <2>4, <2>5, ReadsItsBody DEF CodeAfter
  <2> QED BY <2>7, <2>8
<1>2. ASSUME IInv, NEW g \in Fns, NEW c \in Contents, NEW n \in BodySizes,
             PatchBytes(g, c, n)
      PROVE  Follows
  <2>1. n \in Nat BY ImageAssumption
  <2>2. /\ lay' = SpliceBody(model, lay, g, n)
        /\ g \in WithTable => n = model.fn[g].size
    BY <1>2 DEF PatchBytes, BytesSucceed, Commit
  <2>3. ASSUME NEW f \in WithTable
        PROVE  lay'.body[f].len = lay.body[f].len
    <3>1. lay'.body[f].len = IF f = g THEN n ELSE lay.body[f].len
      BY <1>0, <1>2, <2>1, <2>2, OnlyItsLength
    <3>2. model.fn[g].size = lay.body[g].len BY <1>2, ReadsItsBody
    <3> QED BY <2>2, <3>1, <3>2
  <2> QED BY <2>3
<1>3. ASSUME IInv, NEW g \in Fns, NEW c \in Contents, NEW kind \in Stubs,
             NEW fromEnd \in BOOLEAN, NEW allow \in BOOLEAN, NEW grown \in Nat,
             InjectStub(g, c, kind, fromEnd, allow, grown)
      PROVE  Follows
  <2> DEFINE m == ReservedModel(g, kind)
             e == ReservedImage(g, kind)
             delta == StubLen(kind)
             n == model.fn[g].size + delta
             l == SpliceBody(m, lay, g, n)
  <2>1. m.fn = model.fn BY <1>3, ReserveGood
  <2>2. model.fn[g].size \in Nat \ {0} /\ model.fn[g].size = lay.body[g].len
    BY <1>3, ReadsItsBody
  <2>3. delta \in Nat /\ delta % 4 = 0 BY StubLenAligned
  <2>4. n \in Nat \ {0} /\ n - m.fn[g].size = delta
    <3>1. \A x \in Nat \ {0}, y \in Nat : x + y \in Nat \ {0} /\ (x + y) - x = y
      OBVIOUS
    <3> QED BY <2>1, <2>2, <2>3, <3>1
  <2>5. FinalSize(m, g, n) = n BY <2>1, <2>2, <2>3, <2>4, PaddedSize
  <2>6. /\ lay' = [l EXCEPT !.debug.len = @ + grown]
        /\ code' = CodeAfter(m, g, c)
        /\ tab' = TableAfter(m, l, g, c, "insert", delta)
        /\ BodyEditSucceeds(m, e, g, c, n, "insert", TRUE)
    BY <1>3 DEF InjectStub, InsertSucceeds, Commit
  <2> HIDE DEF m, e, delta, n
  <2>7. WritesTable(g, "insert", delta) =>
          TableAfter(m, l, g, c, "insert", delta)[g] = c
    BY <2>4, <2>5, <2>6 DEF BodyEditSucceeds
  <2>8. lay'.body = l.body
    <3>1. l = Splice(lay, m.fn[g].at, m.fn[g].size, n) BY DEF SpliceBody
    <3> QED BY <2>6, <3>1 DEF Splice
  <2> HIDE DEF l
  <2> SUFFICES ASSUME NEW f \in WithTable, lay'.body[f].len # lay.body[f].len
               PROVE  tab'[f] = code'[f]
    OBVIOUS
  <2>9. f = g /\ n # model.fn[g].size
    BY <1>0, <1>3, <2>1, <2>2, <2>4, <2>8, OnlyItsLength DEF l
  <2>10. delta # 0 BY <2>1, <2>2, <2>3, <2>9 DEF n
  <2>11. tab'[f] = c BY <2>6, <2>7, <2>9, <2>10 DEF WritesTable
  <2>12. code'[f] = c BY <1>3, <2>1, <2>6, <2>9, ReadsItsBody DEF CodeAfter
  <2> QED BY <2>11, <2>12
<1>4. ASSUME IInv, NEW c, NEW b, RebuildStrings(c, b)
      PROVE  Follows
  BY <1>0, <1>4, RegionsKeepLengths DEF RebuildStrings, Commit
<1>5. ASSUME IInv, NEW c, NEW add, AppendRegexp(c, add)
      PROVE  Follows
  BY <1>0, <1>5, RegionsKeepLengths DEF AppendRegexp, Commit
<1>6. ASSUME UNCHANGED lay
      PROVE  Follows
  BY <1>6
<1>7. IInv /\ [Next]_vars => [Follows]_vars
  <2> HIDE DEF Follows
  <2>1. ASSUME NEW f \in Fns, NEW c, NEW kind, NEW fromEnd, NEW allow,
               InjectFailed(f, c, kind, fromEnd, allow)
        PROVE  Follows
    BY <1>6, <2>1 DEF InjectFailed
  <2>2. ASSUME NEW op, NEW allow, Refuse(op, allow)
        PROVE  Follows
    BY <1>6, <2>2 DEF Refuse
  <2>3. ASSUME NEW c, EditStringInPlace(c)
        PROVE  Follows
    BY <1>6, <2>3 DEF EditStringInPlace, Commit
  <2> QED BY <1>1, <1>2, <1>3, <1>4, <1>5, <2>1, <2>2, <2>3, StepCases
<1> QED BY <1>7, FileStaysGood, PTL DEF Spec, TablesFollowTheirBody

-----------------------------------------------------------------------------
(***************************************************************************)
(* What a commit stores in the fields that are proved about below.          *)
(***************************************************************************)
LEMMA CommitStores ==
  ASSUME NEW i \in Image, NEW l, Commit(i, l)
  PROVE  /\ img'.small = i.small /\ img'.dbg = i.dbg /\ lay' = l
         /\ img'.regs = i.regs /\ model'.regs = i.regs
BY DEF Commit, Finalize, Parse, Image

LEMMA RelocateStores ==
  ASSUME NEW i \in Image, NEW l, NEW from, NEW delta, NEW r, NEW z
  PROVE  LET j == Relocate(i, l, from, delta, r, z) IN
         /\ \A f \in Fns :
              j.small[f] = RelocatedSmall(i.small[f], f, from, delta, r, z)
         /\ j.dbg = ShiftedInfo(i.dbg, from, delta)
         /\ j.regs = i.regs
<1> DEFINE small == [f \in Fns |->
                       RelocatedSmall(i.small[f], f, from, delta, r, z)]
           users(g) == {f \in Overflowed : small[f].at = l.large[g].at}
           large == [g \in Overflowed |->
                      IF users(g) = {} THEN i.large[g]
                      ELSE RelocatedLarge(i.large[g], CHOOSE f \in users(g) : TRUE,
                                          from, delta, r, z)]
           j == [i EXCEPT !.small = small, !.large = large,
                          !.dbg = ShiftedInfo(i.dbg, from, delta)]
<1>1. j = Relocate(i, l, from, delta, r, z) BY DEF Relocate
<1>2. /\ j.small = small /\ j.dbg = ShiftedInfo(i.dbg, from, delta)
      /\ j.regs = i.regs
  <2> HIDE DEF small, large
  <2> QED BY DEF Image
<1> QED BY <1>1, <1>2

-----------------------------------------------------------------------------
(***************************************************************************)
(* Packed fields.                                                           *)
(***************************************************************************)
FieldsFit(i) ==
  \A f \in Fns \ Overflowed :
    /\ i.small[f].at < OffLimit /\ i.small[f].info < OffLimit
    /\ i.small[f].size < SizeLimit

\* What relocate does not refuse fits the narrow fields it writes.
LEMMA RelocateFits ==
  ASSUME NEW i \in Image, NEW e \in Image, e.small = i.small, FieldsFit(i),
         NEW l, NEW from \in Int, NEW delta \in Int, NEW r, NEW z \in Int,
         RelocationFits(i, from, delta, r, z)
  PROVE  FieldsFit(Relocate(e, l, from, delta, r, z))
<1> DEFINE j == Relocate(e, l, from, delta, r, z)
<1>0. \A g \in Fns : j.small[g] = RelocatedSmall(e.small[g], g, from, delta, r, z)
  BY RelocateStores
<1> HIDE DEF j
<1> SUFFICES ASSUME NEW f \in Fns \ Overflowed
             PROVE  /\ j.small[f].at < OffLimit /\ j.small[f].info < OffLimit
                    /\ j.small[f].size < SizeLimit
  BY DEF FieldsFit, j
<1> DEFINE h == i.small[f]
<1>1. j.small[f] = [at |-> Shifted(h.at, from, delta),
                    size |-> NewSize(f, r, z, h.size),
                    info |-> ShiftedInfo(h.info, from, delta)]
  <2>1. j.small[f] = RelocatedSmall(h, f, from, delta, r, z) BY <1>0
  <2> QED BY <2>1 DEF RelocatedSmall
<1>2. h.at \in Int /\ h.size \in Int /\ h.info \in Int BY DEF Image, Header
<1>3. h.at < OffLimit /\ h.info < OffLimit /\ h.size < SizeLimit BY DEF FieldsFit
<1>4. /\ h.at >= from => h.at + delta < OffLimit
      /\ h.info # 0 /\ h.info >= from => h.info + delta < OffLimit
      /\ f = r => z < SizeLimit
  BY DEF RelocationFits
<1> HIDE DEF h
<1>5. Shifted(h.at, from, delta) < OffLimit BY <1>2, <1>3, <1>4 DEF Shifted
<1>6. ShiftedInfo(h.info, from, delta) < OffLimit
  BY <1>2, <1>3, <1>4 DEF Shifted, ShiftedInfo
<1>7. NewSize(f, r, z, h.size) < SizeLimit BY <1>3, <1>4 DEF NewSize
<1> QED BY <1>1, <1>5, <1>6, <1>7

\* The same for the image a body edit commits.
LEMMA BodyImageFits ==
  ASSUME IInv, NEW i \in Image, FieldsFit(i), NEW m, m.fn = model.fn,
         NEW f \in Fns, NEW n \in Nat, BodyFits(m, i, lay, f, n)
  PROVE  FieldsFit(BodyImage(m, i, lay, f, n))
<1>1. m.fn[f].at \in Nat /\ m.fn[f].size \in Nat BY ReadsItsBody
<1>2. CASE n = m.fn[f].size BY <1>2 DEF BodyImage
<1>3. CASE n # m.fn[f].size
  <2> DEFINE from == m.fn[f].at + m.fn[f].size
             delta == n - m.fn[f].size
  <2>1. from \in Int /\ delta \in Int BY <1>1
  <2>2. RelocationFits(i, from, delta, f, n) BY <1>3 DEF BodyFits
  <2>3. BodyImage(m, i, lay, f, n) =
          Relocate(i, SpliceBody(m, lay, f, n), from, delta, f, n)
    BY <1>3 DEF BodyImage
  <2> HIDE DEF from, delta
  <2> QED BY <2>1, <2>2, <2>3, RelocateFits
<1> QED BY <1>2, <1>3

LEMMA FieldsInit ==
  ASSUME Init
  PROVE  FieldsFit(img)
<1> SUFFICES ASSUME NEW f \in Fns \ Overflowed
             PROVE  /\ img.small[f].at < OffLimit /\ img.small[f].info < OffLimit
                    /\ img.small[f].size < SizeLimit
  BY DEF FieldsFit
<1>1. PICK l \in InitLayouts :
        /\ l.body[f].at < OffLimit /\ l.body[f].len < SizeLimit
        /\ f \in HasInfo => l.info[f].at < OffLimit
        /\ \E sb, rb, dbg, regs : img = ImageOf(l, sb, rb, dbg, regs)
  BY DEF Init
<1>2. l \in Layout BY ImageAssumption
<1>3. l.body[f] \in Span BY <1>2, LayoutFields
<1>4. 0 < OffLimit BY <1>1, <1>3, ImageAssumption DEF Span
<1>5. img.small[f] = PlainHeader(l, f) BY <1>1 DEF ImageOf
<1> QED BY <1>1, <1>4, <1>5 DEF PlainHeader

LEMMA NextKeepsFields ==
  ASSUME IInv, FieldsFit(img), [Next]_vars
  PROVE  FieldsFit(img')
<1>0. img \in Image /\ Good(img, lay) BY DEF IInv, Good
<1>a. ASSUME NEW i, i \in Image, FieldsFit(i), NEW l, Commit(i, l)
      PROVE  FieldsFit(img')
  BY <1>a, CommitStores DEF FieldsFit
<1>1. ASSUME NEW f \in Fns, NEW c \in Contents, NEW n \in BodySizes,
             NEW upd \in {"keep", "replace"}, NEW allow \in BOOLEAN,
             PatchBody(f, c, n, upd, allow)
      PROVE  FieldsFit(img')
  <2> DEFINE size == FinalSize(model, f, n)
             i == BodyImage(model, img, lay, f, size)
             l == SpliceBody(model, lay, f, size)
  <2>1. n \in Nat \ {0} BY ImageAssumption
  <2>2. size \in Nat \ {0} BY <2>1, ReadsItsBody, PaddedSize
  <2>3. BodyFits(model, img, lay, f, size) /\ Commit(i, l)
    BY <1>1 DEF PatchBody, BodyEditSucceeds
  <2> HIDE DEF size
  <2>4. Good(i, l) BY <1>0, <2>2, <2>3, CommittedBodyEdit
  <2>5. FieldsFit(i) BY <1>0, <2>2, <2>3, BodyImageFits
  <2> QED BY <1>a, <2>3, <2>4, <2>5 DEF Good
<1>2. ASSUME NEW f \in Fns, NEW c \in Contents, NEW n \in BodySizes,
             PatchBytes(f, c, n)
      PROVE  FieldsFit(img')
  <2> DEFINE i == BodyImage(model, img, lay, f, n)
             l == SpliceBody(model, lay, f, n)
  <2>1. n \in Nat \ {0} BY ImageAssumption
  <2>2. BodyFits(model, img, lay, f, n) /\ Commit(i, l)
    BY <1>2 DEF PatchBytes, BytesSucceed
  <2>3. Good(i, l) BY <1>0, <2>1, <2>2, CommittedBodyEdit
  <2>4. FieldsFit(i) BY <1>0, <2>1, <2>2, BodyImageFits
  <2> QED BY <1>a, <2>2, <2>3, <2>4 DEF Good
<1>3. ASSUME NEW f \in Fns, NEW c \in Contents, NEW kind \in Stubs,
             NEW fromEnd \in BOOLEAN, NEW allow \in BOOLEAN, NEW grown \in Nat,
             InjectStub(f, c, kind, fromEnd, allow, grown)
      PROVE  FieldsFit(img')
  <2> DEFINE n == model.fn[f].size + StubLen(kind)
             m == ReservedModel(f, kind)
             e == ReservedImage(f, kind)
             i == BodyImage(m, e, lay, f, n)
             l == SpliceBody(m, lay, f, n)
             k == [l EXCEPT !.debug.len = @ + grown]
  <2>1. m.fn = model.fn /\ Good(e, lay) /\ e.small = img.small BY ReserveGood
  <2>2. FieldsFit(e) BY <2>1 DEF FieldsFit
  <2>3. /\ model.fn[f].size \in Nat \ {0}
        /\ StubLen(kind) \in Nat /\ StubLen(kind) % 4 = 0
    BY ReadsItsBody, StubLenAligned
  <2>4. n \in Nat \ {0} /\ (n - m.fn[f].size) % 4 = 0
    <3>1. \A x \in Nat \ {0}, y \in Nat : x + y \in Nat \ {0} /\ (x + y) - x = y
      OBVIOUS
    <3> QED BY <2>1, <2>3, <3>1
  <2>5. FinalSize(m, f, n) = n BY <2>1, <2>3, <2>4, PaddedSize
  <2>6. BodyEditSucceeds(m, e, f, c, n, "insert", TRUE) /\ Commit(i, k)
    BY <1>3 DEF InjectStub, InsertSucceeds
  <2> HIDE DEF m, e, n
  <2>7. BodyFits(m, e, lay, f, n) BY <2>5, <2>6 DEF BodyEditSucceeds
  <2>8. Good(i, l) BY <2>1, <2>4, <2>7, CommittedBodyEdit
  <2>9. FieldsFit(i) BY <2>1, <2>2, <2>4, <2>7, BodyImageFits DEF Good
  <2> HIDE DEF i, k
  <2> QED BY <1>a, <2>6, <2>8, <2>9 DEF Good
<1>4. ASSUME NEW f \in Fns, NEW c \in Contents, NEW kind \in Stubs,
             NEW fromEnd \in BOOLEAN, NEW allow \in BOOLEAN,
             InjectFailed(f, c, kind, fromEnd, allow)
      PROVE  FieldsFit(img')
  <2>1. img'.small = img.small BY <1>4, ReserveGood DEF InjectFailed
  <2> QED BY <2>1 DEF FieldsFit
<1>5. ASSUME NEW c \in Contents, NEW b \in StringBytes, RebuildStrings(c, b)
      PROVE  FieldsFit(img')
  <2> DEFINE e == [img EXCEPT !.strBytes = b]
             delta == Align4(b) - (ArrayOff(model) - BaseAt)
  <2>1. b \in Nat BY ImageAssumption
  <2>2. e \in Image /\ e.small = img.small BY <1>0, <2>1 DEF Image
  <2>3. ArrayOff(model) \in Int /\ delta \in Int
    <3>1. ArrayOff(model) = BaseAt + lay.strings.len
      BY <1>0, ParsedSections, ModelReads
    <3>2. lay.strings \in Span BY <1>0, LayoutFields DEF Good
    <3>3. BaseAt \in Nat /\ Align4(b) \in Nat
      BY <2>1, AlignRoundsUp, ImageAssumption
    <3> QED BY <3>1, <3>2, <3>3 DEF Span
  <2>4. /\ RelocationFits(img, ArrayOff(model), delta, NoFn, 0)
        /\ Commit(StringsImage(b), StringsSplice(b))
    BY <1>5 DEF RebuildStrings, StringsSucceed
  <2>5. StringsImage(b) = Relocate(e, StringsSplice(b), ArrayOff(model), delta,
                                   NoFn, 0)
    BY DEF StringsImage, RegionImage
  <2> HIDE DEF e, delta
  <2>6. FieldsFit(StringsImage(b)) BY <1>0, <2>2, <2>3, <2>4, <2>5, RelocateFits
  <2>7. StringsImage(b) \in Image BY <1>5, StringsImageGood DEF Good
  <2> QED BY <1>a, <2>4, <2>6, <2>7
<1>6. ASSUME NEW c \in Contents, EditStringInPlace(c)
      PROVE  FieldsFit(img')
  BY <1>0, <1>6, <1>a DEF EditStringInPlace
<1>7. ASSUME NEW c \in Contents, NEW add \in RegexpBytes, AppendRegexp(c, add)
      PROVE  FieldsFit(img')
  <2> DEFINE e == [img EXCEPT !.reBytes = model.reBytes + add]
             delta == RegexpDelta(add)
  <2>1. add \in Nat /\ model.reBytes \in Nat
    BY <1>0, ImageAssumption, ModelReads DEF Image
  <2>2. e \in Image /\ e.small = img.small BY <1>0, <2>1 DEF Image
  <2>3. RegexpEnd(model) \in Int /\ delta \in Int
    <3>1. RegexpEnd(model) = lay.regexp.at + lay.regexp.len
      BY <1>0, ParsedSections, ModelReads
    <3>2. lay.regexp \in Span BY <1>0, LayoutFields DEF Good
    <3>3. Align4(model.reBytes + add) \in Nat /\ Align4(model.reBytes) \in Nat
      BY <2>1, AlignRoundsUp
    <3> QED BY <3>1, <3>2, <3>3 DEF Span, RegexpDelta
  <2>4. /\ RelocationFits(img, RegexpEnd(model), delta, NoFn, 0)
        /\ Commit(RegexpImage(add), RegexpSplice(add))
    BY <1>7 DEF AppendRegexp, RegexpSucceeds
  <2>5. RegexpImage(add) = Relocate(e, RegexpSplice(add), RegexpEnd(model), delta,
                                    NoFn, 0)
    BY DEF RegexpImage, RegionImage
  <2> HIDE DEF e, delta
  <2>6. FieldsFit(RegexpImage(add)) BY <1>0, <2>2, <2>3, <2>4, <2>5, RelocateFits
  <2>7. RegexpImage(add) \in Image BY <1>7, RegexpImageGood DEF Good
  <2> QED BY <1>a, <2>4, <2>6, <2>7
<1>8. ASSUME UNCHANGED img
      PROVE  FieldsFit(img')
  BY <1>8
<1>9. ASSUME NEW op, NEW allow, Refuse(op, allow)
      PROVE  FieldsFit(img')
  BY <1>8, <1>9 DEF Refuse
<1>10. CASE UNCHANGED vars BY <1>8, <1>10 DEF vars
<1> QED BY <1>1, <1>2, <1>3, <1>4, <1>5, <1>6, <1>7, <1>9, <1>10, StepCases

-----------------------------------------------------------------------------
(***************************************************************************)
(* Registers and read cache slots.                                          *)
(***************************************************************************)

\* Relocation and commit carry the registers along as they are.
LEMMA BodyImageKeepsRegs ==
  ASSUME NEW i \in Image, NEW m, NEW l, NEW f, NEW n
  PROVE  BodyImage(m, i, l, f, n).regs = i.regs
BY RelocateStores DEF BodyImage

\* Only a log stub changes them, the stored ones and, in the end, the parsed ones.
RegsKept ==
  /\ uses' = uses /\ img'.regs = img.regs
  /\ model'.regs = model.regs \/ model'.regs = img.regs

RegsReserved(f) ==
  /\ StubBuilds(f, "log", FALSE)
  /\ img'.regs = [img.regs EXCEPT ![f] = Reserved(model.regs[f])]
  /\ \/ /\ uses' = uses
        /\ \/ model'.regs = model.regs
           \/ model'.regs = [model.regs EXCEPT ![f] = Reserved(@)]
     \/ uses' = UsesAfter(f, "log") /\ model'.regs = img'.regs

LEMMA ReserveStores ==
  ASSUME IInv, NEW f \in Fns, NEW kind
  PROVE  /\ ReservedImage(f, kind).regs =
              IF kind = "log" THEN [img.regs EXCEPT ![f] = Reserved(model.regs[f])]
              ELSE img.regs
         /\ ReservedModel(f, kind).regs =
              IF kind = "log" /\ Modern
              THEN [model.regs EXCEPT ![f] = Reserved(@)] ELSE model.regs
<1>1. img \in Image /\ model \in Parsed BY ModelTyped DEF IInv
<1> QED BY <1>1 DEF ReservedImage, ReservedModel, Image, Parsed

LEMMA StepRegs ==
  ASSUME IInv, Next
  PROVE  RegsKept \/ \E f \in Fns : RegsReserved(f)
<1>0. img \in Image /\ Good(img, lay) BY DEF IInv, Good
<1>1. ASSUME NEW f \in Fns, NEW c \in Contents, NEW n \in BodySizes,
             NEW upd \in {"keep", "replace"}, NEW allow \in BOOLEAN,
             PatchBody(f, c, n, upd, allow)
      PROVE  RegsKept
  <2> DEFINE size == FinalSize(model, f, n)
             i == BodyImage(model, img, lay, f, size)
             l == SpliceBody(model, lay, f, size)
  <2>1. n \in Nat \ {0} BY ImageAssumption
  <2>2. size \in Nat \ {0} BY <2>1, ReadsItsBody, PaddedSize
  <2>3. /\ BodyFits(model, img, lay, f, size) /\ Commit(i, l)
        /\ uses' = uses
    BY <1>1 DEF PatchBody, BodyEditSucceeds
  <2> HIDE DEF size
  <2>4. Good(i, l) BY <1>0, <2>2, <2>3, CommittedBodyEdit
  <2>5. i.regs = img.regs BY <1>0, BodyImageKeepsRegs
  <2> QED BY <2>3, <2>4, <2>5, CommitStores DEF Good, RegsKept
<1>2. ASSUME NEW f \in Fns, NEW c \in Contents, NEW n \in BodySizes,
             PatchBytes(f, c, n)
      PROVE  RegsKept
  <2> DEFINE i == BodyImage(model, img, lay, f, n)
             l == SpliceBody(model, lay, f, n)
  <2>1. n \in Nat \ {0} BY ImageAssumption
  <2>2. /\ BodyFits(model, img, lay, f, n) /\ Commit(i, l)
        /\ uses' = uses
    BY <1>2 DEF PatchBytes, BytesSucceed
  <2>3. Good(i, l) BY <1>0, <2>1, <2>2, CommittedBodyEdit
  <2>4. i.regs = img.regs BY <1>0, BodyImageKeepsRegs
  <2> QED BY <2>2, <2>3, <2>4, CommitStores DEF Good, RegsKept
<1>3. ASSUME NEW f \in Fns, NEW c \in Contents, NEW kind \in Stubs,
             NEW fromEnd \in BOOLEAN, NEW allow \in BOOLEAN, NEW grown \in Nat,
             InjectStub(f, c, kind, fromEnd, allow, grown)
      PROVE  RegsKept \/ RegsReserved(f)
  <2> DEFINE n == model.fn[f].size + StubLen(kind)
             m == ReservedModel(f, kind)
             e == ReservedImage(f, kind)
             i == BodyImage(m, e, lay, f, n)
             l == SpliceBody(m, lay, f, n)
             k == [l EXCEPT !.debug.len = @ + grown]
  <2>1. m.fn = model.fn /\ Good(e, lay) BY ReserveGood
  <2>2. /\ model.fn[f].size \in Nat \ {0}
        /\ StubLen(kind) \in Nat /\ StubLen(kind) % 4 = 0
    BY ReadsItsBody, StubLenAligned
  <2>3. n \in Nat \ {0} /\ (n - m.fn[f].size) % 4 = 0
    <3>1. \A x \in Nat \ {0}, y \in Nat : x + y \in Nat \ {0} /\ (x + y) - x = y
      OBVIOUS
    <3> QED BY <2>1, <2>2, <3>1
  <2>4. FinalSize(m, f, n) = n BY <2>1, <2>2, <2>3, PaddedSize
  <2>5. /\ BodyEditSucceeds(m, e, f, c, n, "insert", TRUE) /\ Commit(i, k)
        /\ uses' = UsesAfter(f, kind) /\ StubBuilds(f, kind, fromEnd)
    BY <1>3 DEF InjectStub, InsertSucceeds
  <2>6. e.regs = IF kind = "log"
                 THEN [img.regs EXCEPT ![f] = Reserved(model.regs[f])]
                 ELSE img.regs
    BY ReserveStores
  <2> HIDE DEF m, e, n
  <2>7. BodyFits(m, e, lay, f, n) BY <2>4, <2>5 DEF BodyEditSucceeds
  <2>8. Good(i, l) BY <2>1, <2>3, <2>7, CommittedBodyEdit
  <2>9. i.regs = e.regs BY <2>1, BodyImageKeepsRegs DEF Good
  <2> HIDE DEF i, k
  <2>10. img'.regs = e.regs /\ model'.regs = e.regs
    BY <2>5, <2>8, <2>9, CommitStores DEF Good
  <2>11. CASE kind = "log"
    BY <2>5, <2>6, <2>10, <2>11 DEF RegsReserved, StubBuilds
  <2>12. CASE kind # "log"
    BY <2>5, <2>6, <2>10, <2>12 DEF RegsKept, UsesAfter
  <2> QED BY <2>11, <2>12
<1>4. ASSUME NEW f \in Fns, NEW c \in Contents, NEW kind \in Stubs,
             NEW fromEnd \in BOOLEAN, NEW allow \in BOOLEAN,
             InjectFailed(f, c, kind, fromEnd, allow)
      PROVE  RegsKept \/ RegsReserved(f)
  <2>1. /\ img' = ReservedImage(f, kind) /\ model' = ReservedModel(f, kind)
        /\ uses' = uses /\ StubBuilds(f, kind, fromEnd)
    BY <1>4 DEF InjectFailed, contents
  <2>2. CASE kind = "log"
    BY <2>1, <2>2, ReserveStores DEF RegsReserved, StubBuilds
  <2>3. CASE kind # "log"
    BY <2>1, <2>3, ReserveStores DEF RegsKept
  <2> QED BY <2>2, <2>3
<1>5. ASSUME NEW c \in Contents, NEW b \in StringBytes, RebuildStrings(c, b)
      PROVE  RegsKept
  <2> DEFINE e == [img EXCEPT !.strBytes = b]
             i == StringsImage(b)
  <2>1. b \in Nat BY ImageAssumption
  <2>2. e \in Image /\ e.regs = img.regs BY <1>0, <2>1 DEF Image
  <2>3. Commit(i, StringsSplice(b)) /\ uses' = uses /\ i \in Image
    BY <1>5, StringsImageGood DEF RebuildStrings, Good
  <2>a. i = Relocate(e, StringsSplice(b), ArrayOff(model),
                     Align4(b) - (ArrayOff(model) - BaseAt), NoFn, 0)
    BY DEF StringsImage, RegionImage
  <2> HIDE DEF e, i
  <2>4. i.regs = e.regs BY <2>2, <2>a, RelocateStores
  <2> QED BY <2>2, <2>3, <2>4, CommitStores DEF RegsKept
<1>6. ASSUME NEW c \in Contents, EditStringInPlace(c)
      PROVE  RegsKept
  BY <1>0, <1>6, CommitStores DEF EditStringInPlace, RegsKept
<1>7. ASSUME NEW c \in Contents, NEW add \in RegexpBytes, AppendRegexp(c, add)
      PROVE  RegsKept
  <2> DEFINE e == [img EXCEPT !.reBytes = model.reBytes + add]
             i == RegexpImage(add)
  <2>1. add \in Nat /\ model.reBytes \in Nat
    BY <1>0, ImageAssumption, ModelReads DEF Image
  <2>2. e \in Image /\ e.regs = img.regs BY <1>0, <2>1 DEF Image
  <2>3. Commit(i, RegexpSplice(add)) /\ uses' = uses /\ i \in Image
    BY <1>7, RegexpImageGood DEF AppendRegexp, Good
  <2>a. i = Relocate(e, RegexpSplice(add), RegexpEnd(model), RegexpDelta(add),
                     NoFn, 0)
    BY DEF RegexpImage, RegionImage
  <2> HIDE DEF e, i
  <2>4. i.regs = e.regs BY <2>2, <2>a, RelocateStores
  <2> QED BY <2>2, <2>3, <2>4, CommitStores DEF RegsKept
<1>8. ASSUME NEW op, NEW allow, Refuse(op, allow)
      PROVE  RegsKept
  BY <1>8 DEF Refuse, contents, RegsKept
<1> QED BY <1>1, <1>2, <1>3, <1>4, <1>5, <1>6, <1>7, <1>8, StepCases

\* The narrow fields of a header hold what a stub writes into them.
RegsFit ==
  /\ \A f \in Fns \ Overflowed : img.regs[f].frame < FrameLimit
  /\ \A f \in Fns : img.regs[f].cache <= CacheLimit

LEMMA NextKeepsRegsFit ==
  ASSUME IInv, RegsFit, [Next]_vars
  PROVE  RegsFit'
<1>0. img.regs \in [Fns -> Regs] BY DEF IInv, Image
<1>1. CASE RegsKept BY <1>1 DEF RegsKept, RegsFit
<1>2. ASSUME NEW f \in Fns, RegsReserved(f)
      PROVE  RegsFit'
  <2>1. \A g \in Fns : img'.regs[g] =
          IF g = f THEN Reserved(model.regs[f]) ELSE img.regs[g]
    BY <1>0, <1>2 DEF RegsReserved
  <2>2. /\ Reserved(model.regs[f]).cache <= CacheLimit
        /\ f \notin Overflowed => Reserved(model.regs[f]).frame < FrameLimit
    BY <1>2 DEF RegsReserved, StubBuilds, Reserved
  <2> QED BY <2>1, <2>2 DEF RegsFit
<1>3. CASE UNCHANGED vars BY <1>3 DEF vars, RegsFit
<1> QED BY <1>1, <1>2, <1>3, StepRegs

LEMMA InitRegsFit ==
  ASSUME Init
  PROVE  RegsFit
<1>1. PICK l \in InitLayouts, r \in OpenRegs :
        /\ \A f \in Fns \ Overflowed : r.frame < FrameLimit
        /\ \E sb, rb, dbg : img = ImageOf(l, sb, rb, dbg, r)
  BY DEF Init
<1>2. \A f \in Fns : img.regs[f] = r
  <2>1. PICK sb, rb, dbg : img = ImageOf(l, sb, rb, dbg, r) BY <1>1
  <2>2. img.regs = [f \in Fns |-> r] BY <2>1 DEF ImageOf
  <2> QED BY <2>2
<1>3. r.cache <= CacheLimit BY ImageAssumption
<1> QED BY <1>1, <1>2, <1>3 DEF RegsFit

\* For every file: no chain of edits truncates a packed offset, size, frame size
\* or read cache count.
THEOREM FieldsNeverOverflow == Spec => []FieldsHoldTheirValues
<1>1. Init => FieldsFit(img) /\ RegsFit BY FieldsInit, InitRegsFit
<1>2. IInv /\ FieldsFit(img) /\ [Next]_vars => FieldsFit(img)'
  BY NextKeepsFields DEF FieldsFit
<1>3. IInv /\ RegsFit /\ [Next]_vars => RegsFit' BY NextKeepsRegsFit
<1>4. FieldsFit(img) /\ RegsFit => FieldsHoldTheirValues
  BY DEF FieldsFit, RegsFit, FieldsHoldTheirValues
<1> QED BY <1>1, <1>2, <1>3, <1>4, FileStaysGood, PTL DEF Spec

\* What the bodies use fits what the parsed headers give, which is never more
\* than the stored ones give: a log stub takes its slot from the parsed count.
HasRoom(use, r) ==
  /\ use.frame <= r.frame
  /\ \A j \in DOMAIN use.slots : use.slots[j] < NextSlot(r)
  /\ \A j, k \in DOMAIN use.slots : j # k => use.slots[j] # use.slots[k]

RoomKnown == \A f \in Fns : HasRoom(uses[f], model.regs[f])

\* A larger reservation has room for what a smaller one had.
LEMMA RoomGrows ==
  ASSUME NEW use \in [frame : Nat, slots : Seq(Nat)], NEW r \in Regs, NEW s \in Regs,
         HasRoom(use, r), r.frame <= s.frame, r.cache <= s.cache
  PROVE  HasRoom(use, s)
<1>1. NextSlot(r) \in Nat /\ NextSlot(s) \in Nat /\ NextSlot(r) <= NextSlot(s)
  BY DEF NextSlot, Regs
<1>2. /\ use.frame \in Nat /\ r.frame \in Nat /\ s.frame \in Nat
      /\ \A j \in DOMAIN use.slots : use.slots[j] \in Nat
  BY DEF Regs
<1> QED BY <1>1, <1>2 DEF HasRoom

\* A reservation has room for the stub it was made for.
LEMMA RoomForTheStub ==
  ASSUME NEW use \in [frame : Nat, slots : Seq(Nat)], NEW r \in Regs, HasRoom(use, r)
  PROVE  HasRoom([frame |-> Framed(use.frame),
                  slots |-> Append(use.slots, NextSlot(r))], Reserved(r))
<1> DEFINE slots == Append(use.slots, NextSlot(r))
<1>1. NextSlot(r) \in Nat /\ NextSlot(Reserved(r)) = NextSlot(r) + 1
  BY DEF NextSlot, Reserved, Regs
<1>2. /\ use.frame \in Nat /\ r.frame \in Nat /\ LogFrame \in Nat
      /\ use.slots \in Seq(Nat)
  BY ImageAssumption DEF Regs
<1>3. Framed(use.frame) <= Framed(r.frame) BY <1>2 DEF HasRoom, Framed
<1>4. /\ DOMAIN use.slots = 1 .. Len(use.slots) /\ Len(use.slots) \in Nat
      /\ DOMAIN slots = 1 .. Len(use.slots) + 1
      /\ \A j \in DOMAIN use.slots : slots[j] = use.slots[j]
      /\ slots[Len(use.slots) + 1] = NextSlot(r)
      /\ \A j \in DOMAIN use.slots : use.slots[j] \in Nat
  BY <1>1, <1>2
<1> HIDE DEF slots
<1>5. \A j \in DOMAIN slots : j \in DOMAIN use.slots \/ j = Len(use.slots) + 1
  BY <1>4
<1>6. \A j \in DOMAIN use.slots : use.slots[j] < NextSlot(r) BY DEF HasRoom
<1>7. \A j \in DOMAIN slots : slots[j] < NextSlot(r) + 1
  BY <1>1, <1>4, <1>5, <1>6
<1>8. \A j, k \in DOMAIN slots : j # k => slots[j] # slots[k]
  BY <1>1, <1>4, <1>5, <1>6 DEF HasRoom
<1> QED BY <1>1, <1>3, <1>7, <1>8 DEF HasRoom, Reserved, slots

\* The stored registers are at least the parsed ones.
LEMMA StoredIsAhead ==
  ASSUME IInv, NEW f \in Fns
  PROVE  /\ model.regs[f] \in Regs /\ img.regs[f] \in Regs
         /\ model.regs[f].frame <= img.regs[f].frame
         /\ model.regs[f].cache <= img.regs[f].cache
<1>1. model.regs[f] \in Regs /\ img.regs[f] \in Regs
  BY DEF IInv, RegsTracked, Image
<1>2. img.regs[f] = model.regs[f] \/ img.regs[f] = Reserved(model.regs[f])
  BY DEF IInv, RegsTracked
<1>3. \A r \in Regs : r.frame <= Reserved(r).frame /\ r.cache <= Reserved(r).cache
  BY ImageAssumption DEF Regs, Reserved, Framed
<1> QED BY <1>1, <1>2, <1>3 DEF Regs

LEMMA NextKeepsRoom ==
  ASSUME IInv, ContentsTyped, RoomKnown, [Next]_vars
  PROVE  RoomKnown'
<1>0. \A f \in Fns : uses[f] \in [frame : Nat, slots : Seq(Nat)]
  BY DEF ContentsTyped
<1>1. ASSUME NEW f \in Fns
      PROVE  /\ HasRoom(uses[f], model.regs[f]) /\ HasRoom(uses[f], img.regs[f])
             /\ HasRoom(uses[f], Reserved(model.regs[f]))
  <2>1. HasRoom(uses[f], model.regs[f]) BY DEF RoomKnown
  <2>2. model.regs[f] \in Regs BY StoredIsAhead
  <2>3. \A r \in Regs : r.frame <= Reserved(r).frame /\ r.cache <= Reserved(r).cache
    BY ImageAssumption DEF Regs, Reserved, Framed
  <2> QED BY <1>0, <2>1, <2>2, <2>3, StoredIsAhead, RoomGrows, ReservedTyped
<1>2. CASE RegsKept
  BY <1>1, <1>2 DEF RegsKept, RoomKnown
<1>3. ASSUME NEW f \in Fns, RegsReserved(f)
      PROVE  RoomKnown'
  <2>0. model.regs \in [Fns -> Regs] /\ img.regs \in [Fns -> Regs]
    BY DEF IInv, RegsTracked, Image
  <2>1. CASE uses' = uses
    <3>1. \A g \in Fns : \/ model'.regs[g] = model.regs[g]
                         \/ model'.regs[g] = Reserved(model.regs[g])
                         \/ model'.regs[g] = img.regs[g]
      BY <1>3, <2>0 DEF RegsReserved
    <3> QED BY <1>1, <2>1, <3>1 DEF RoomKnown
  <2>2. CASE uses' = UsesAfter(f, "log") /\ model'.regs = img'.regs
    <3>1. \A g \in Fns : model'.regs[g] =
            IF g = f THEN Reserved(model.regs[f]) ELSE img.regs[g]
      BY <1>3, <2>0, <2>2 DEF RegsReserved
    <3>2. \A g \in Fns : uses'[g] =
            IF g = f
            THEN [frame |-> Framed(uses[f].frame),
                  slots |-> Append(uses[f].slots, NextSlot(model.regs[f]))]
            ELSE uses[g]
      BY <2>2 DEF UsesAfter, ContentsTyped
    <3>3. HasRoom(uses'[f], model'.regs[f])
      BY <1>0, <1>1, <2>0, <3>1, <3>2, RoomForTheStub
    <3>4. ASSUME NEW g \in Fns, g # f
          PROVE  HasRoom(uses'[g], model'.regs[g])
      BY <1>1, <3>1, <3>2, <3>4
    <3> QED BY <3>3, <3>4 DEF RoomKnown
  <2> QED BY <1>3, <2>1, <2>2 DEF RegsReserved
<1>4. CASE UNCHANGED vars BY <1>4 DEF vars, RoomKnown
<1> QED BY <1>2, <1>3, <1>4, StepRegs

LEMMA InitHasRoom ==
  ASSUME Init
  PROVE  RoomKnown
<1>1. PICK r \in OpenRegs :
        /\ \E l, sb, rb, dbg : model = Parse(ImageOf(l, sb, rb, dbg, r), l)
        /\ uses = UsesOf(r)
  BY DEF Init
<1>2. model.regs = [f \in Fns |-> r]
  <2>1. PICK l, sb, rb, dbg : model = Parse(ImageOf(l, sb, rb, dbg, r), l) BY <1>1
  <2>2. model.regs = ImageOf(l, sb, rb, dbg, r).regs BY <2>1 DEF Parse
  <2> QED BY <2>2 DEF ImageOf
<1>3. r.frame \in Nat /\ NextSlot(r) \in Nat BY ImageAssumption DEF NextSlot
<1> SUFFICES ASSUME NEW f \in Fns PROVE HasRoom(uses[f], r)
  BY <1>2 DEF RoomKnown
<1> DEFINE n == NextSlot(r)
<1>4. uses[f] = [frame |-> r.frame, slots |-> [k \in 1 .. n |-> k - 1]]
  BY <1>1 DEF UsesOf
<1> HIDE DEF n
<1>5. /\ uses[f].frame = r.frame /\ DOMAIN uses[f].slots = 1 .. n
      /\ \A k \in 1 .. n : uses[f].slots[k] = k - 1
  BY <1>4
<1> QED BY <1>3, <1>5 DEF HasRoom, n

\* R26, for every file: the frame and the read cache in the header bytes hold what
\* every injected stub uses, and no stub shares its slot, after any chain of
\* accepted, refused and half-failed edits.
THEOREM StubsKeepTheirRoom == Spec => []StubsHaveRoom
<1> DEFINE J == ContentsTyped /\ RoomKnown
<1>1. Init => J BY InitTyped, InitHasRoom
<1>2. IInv /\ J /\ [Next]_vars => J' BY NextTyped, NextKeepsRoom
<1>3. IInv /\ J => StubsHaveRoom
  <2> SUFFICES ASSUME IInv, J, NEW f \in Fns
               PROVE  HasRoom(uses[f], img.regs[f])
    BY DEF StubsHaveRoom, HasRoom
  <2>1. uses[f] \in [frame : Nat, slots : Seq(Nat)] BY DEF ContentsTyped
  <2> QED BY <2>1, StoredIsAhead, RoomGrows DEF RoomKnown
<1> QED BY <1>1, <1>2, <1>3, FileStaysGood, PTL DEF Spec

-----------------------------------------------------------------------------
(***************************************************************************)
(* Line tables.  The guards ask for debug_info_offset, so the proof needs     *)
(* that a file with a debug section always has one.                         *)
(***************************************************************************)
SectionKnown == lay.debug.len > 0 => img.dbg # 0

\* Relocation never turns an offset into 0, which would read as "no section".
LEMMA ShiftKeepsOffset ==
  ASSUME NEW v \in Int, v # 0, NEW at \in Nat, NEW size \in Nat, NEW n \in Nat \ {0}
  PROVE  ShiftedInfo(v, at + size, n - size) # 0
BY DEF ShiftedInfo, Shifted

LEMMA BodyImageKeepsSection ==
  ASSUME IInv, SectionKnown, NEW i \in Image, i.dbg = img.dbg,
         NEW m, m.fn = model.fn, NEW f \in Fns, NEW n \in Nat \ {0}
  PROVE  /\ SpliceBody(m, lay, f, n).debug.len = lay.debug.len
         /\ img.dbg # 0 => BodyImage(m, i, lay, f, n).dbg # 0
<1> DEFINE at == m.fn[f].at
           size == m.fn[f].size
           l == SpliceBody(m, lay, f, n)
<1>1. /\ at = lay.body[f].at /\ size = lay.body[f].len
      /\ at \in Nat /\ size \in Nat \ {0}
  BY ReadsItsBody
<1>2. lay \in Layout /\ WellLaid(lay) /\ img.dbg \in Int BY DEF IInv, Image
<1>3. lay.debug.at >= at + size
  BY <1>1, <1>2, BodyTarget DEF Target, TailBehind
<1>4. lay.debug \in Span BY <1>2, LayoutFields
<1>5. l.debug = SpliceSpan(lay.debug, at, size, n)
  BY <1>2, SpliceFields DEF SpliceBody
<1> HIDE DEF l, at, size
<1>6. l.debug.len = lay.debug.len BY <1>1, <1>3, <1>4, <1>5, TailMovesTogether
<1>7. ASSUME img.dbg # 0
      PROVE  BodyImage(m, i, lay, f, n).dbg # 0
  <2>1. CASE n = size BY <1>7, <2>1 DEF BodyImage, size
  <2>2. CASE n # size
    <3>1. BodyImage(m, i, lay, f, n) = Relocate(i, l, at + size, n - size, f, n)
      BY <2>2 DEF BodyImage, at, size, l
    <3>2. BodyImage(m, i, lay, f, n).dbg = ShiftedInfo(i.dbg, at + size, n - size)
      BY <3>1, RelocateStores
    <3> QED BY <1>1, <1>2, <1>7, <3>2, ShiftKeepsOffset
  <2> QED BY <2>1, <2>2
<1> QED BY <1>6, <1>7 DEF l

LEMMA NextKeepsSection ==
  ASSUME IInv, SectionKnown, [Next]_vars
  PROVE  SectionKnown'
<1>0. /\ img \in Image /\ lay \in Layout /\ WellLaid(lay) /\ Good(img, lay)
      /\ img.dbg \in Int
  BY DEF IInv, Good, Image
<1>1. ASSUME NEW f \in Fns, NEW c \in Contents, NEW n \in BodySizes,
             NEW upd \in {"keep", "replace"}, NEW allow \in BOOLEAN,
             PatchBody(f, c, n, upd, allow)
      PROVE  SectionKnown'
  <2> DEFINE size == FinalSize(model, f, n)
             i == BodyImage(model, img, lay, f, size)
             l == SpliceBody(model, lay, f, size)
  <2>1. n \in Nat \ {0} BY ImageAssumption
  <2>2. size \in Nat \ {0} BY <2>1, ReadsItsBody, PaddedSize
  <2>3. BodyFits(model, img, lay, f, size) /\ Commit(i, l)
    BY <1>1 DEF PatchBody, BodyEditSucceeds
  <2> HIDE DEF size
  <2>4. Good(i, l) BY <1>0, <2>2, <2>3, CommittedBodyEdit
  <2>5. l.debug.len = lay.debug.len /\ (img.dbg # 0 => i.dbg # 0)
    BY <1>0, <2>2, BodyImageKeepsSection
  <2>6. img'.dbg = i.dbg /\ lay' = l BY <2>3, <2>4, CommitStores DEF Good
  <2> QED BY <2>5, <2>6 DEF SectionKnown
<1>2. ASSUME NEW f \in Fns, NEW c \in Contents, NEW n \in BodySizes,
             PatchBytes(f, c, n)
      PROVE  SectionKnown'
  <2> DEFINE i == BodyImage(model, img, lay, f, n)
             l == SpliceBody(model, lay, f, n)
  <2>1. n \in Nat \ {0} BY ImageAssumption
  <2>2. BodyFits(model, img, lay, f, n) /\ Commit(i, l)
    BY <1>2 DEF PatchBytes, BytesSucceed
  <2>3. Good(i, l) BY <1>0, <2>1, <2>2, CommittedBodyEdit
  <2>4. l.debug.len = lay.debug.len /\ (img.dbg # 0 => i.dbg # 0)
    BY <1>0, <2>1, BodyImageKeepsSection
  <2>5. img'.dbg = i.dbg /\ lay' = l BY <2>2, <2>3, CommitStores DEF Good
  <2> QED BY <2>4, <2>5 DEF SectionKnown
<1>3. ASSUME NEW f \in Fns, NEW c \in Contents, NEW kind \in Stubs,
             NEW fromEnd \in BOOLEAN, NEW allow \in BOOLEAN, NEW grown \in Nat,
             InjectStub(f, c, kind, fromEnd, allow, grown)
      PROVE  SectionKnown'
  <2> DEFINE n == model.fn[f].size + StubLen(kind)
             m == ReservedModel(f, kind)
             e == ReservedImage(f, kind)
             i == BodyImage(m, e, lay, f, n)
             l == SpliceBody(m, lay, f, n)
             k == [l EXCEPT !.debug.len = @ + grown]
  <2>1. /\ m.fn = model.fn /\ m.dbg = img.dbg
        /\ Good(e, lay) /\ e.dbg = img.dbg
    BY ReserveGood
  <2>2. /\ model.fn[f].size \in Nat \ {0}
        /\ StubLen(kind) \in Nat /\ StubLen(kind) % 4 = 0
    BY ReadsItsBody, StubLenAligned
  <2>3. n \in Nat \ {0} /\ (n - m.fn[f].size) % 4 = 0
    <3>1. \A x \in Nat \ {0}, y \in Nat : x + y \in Nat \ {0} /\ (x + y) - x = y
      OBVIOUS
    <3> QED BY <2>1, <2>2, <3>1
  <2>4. FinalSize(m, f, n) = n BY <2>1, <2>2, <2>3, PaddedSize
  <2>5. /\ BodyEditSucceeds(m, e, f, c, n, "insert", TRUE) /\ Commit(i, k)
        /\ grown # 0 => m.dbg # 0
    BY <1>3 DEF InjectStub, InsertSucceeds
  <2> HIDE DEF m, e, n
  <2>6. BodyFits(m, e, lay, f, n) BY <2>4, <2>5 DEF BodyEditSucceeds
  <2>7. Good(i, l) BY <2>1, <2>3, <2>6, CommittedBodyEdit
  <2>8. l.debug.len = lay.debug.len /\ (img.dbg # 0 => i.dbg # 0)
    BY <2>1, <2>3, BodyImageKeepsSection DEF Good
  <2> HIDE DEF i, l
  <2>9. img'.dbg = i.dbg /\ lay' = k BY <2>5, <2>7, CommitStores DEF Good
  <2>10. k.debug.len = l.debug.len + grown
    BY <2>7 DEF Good, Layout, Span
  <2> HIDE DEF k
  <2>11. grown = 0 => k.debug.len = lay.debug.len
    BY <1>0, <2>8, <2>10, LayoutFields DEF Span
  <2> QED BY <2>1, <2>5, <2>8, <2>9, <2>11 DEF SectionKnown
<1>4. ASSUME NEW f \in Fns, NEW c \in Contents, NEW kind \in Stubs,
             NEW fromEnd \in BOOLEAN, NEW allow \in BOOLEAN,
             InjectFailed(f, c, kind, fromEnd, allow)
      PROVE  SectionKnown'
  <2>1. img'.dbg = img.dbg /\ lay' = lay BY <1>4, ReserveGood DEF InjectFailed
  <2> QED BY <2>1 DEF SectionKnown
<1>5. ASSUME NEW c \in Contents, NEW b \in StringBytes, RebuildStrings(c, b)
      PROVE  SectionKnown'
  <2> DEFINE size == lay.strings.len
             n == Align4(b)
             e == [img EXCEPT !.strBytes = b]
             i == StringsImage(b)
             l == StringsSplice(b)
  <2>1. b \in Nat \ {0} BY ImageAssumption
  <2>2. n \in Nat \ {0} BY <2>1, AlignRoundsUp
  <2>3. ArrayOff(model) - BaseAt = size /\ ArrayOff(model) = BaseAt + size
    BY <1>0, ParsedSections, ModelReads
  <2>4. BaseAt \in Nat /\ size \in Nat \ {0} /\ lay.debug.at >= BaseAt + size
    BY <1>0, StringsTarget DEF Target, TailBehind
  <2>5. lay.debug \in Span BY <1>0, LayoutFields
  <2>6. l.debug = SpliceSpan(lay.debug, BaseAt, size, n)
    BY <1>0, <2>3, SpliceFields DEF StringsSplice
  <2>7. e \in Image /\ e.dbg = img.dbg
    BY <1>0, <2>1 DEF Image
  <2>8. i = Relocate(e, l, BaseAt + size, n - size, NoFn, 0)
    BY <2>3 DEF StringsImage, RegionImage
  <2>9. img'.dbg = i.dbg /\ lay' = l
    BY <1>5, StringsImageGood, CommitStores DEF Good, RebuildStrings
  <2> HIDE DEF size, n, e, i, l
  <2>10. i.dbg = ShiftedInfo(img.dbg, BaseAt + size, n - size)
    BY <2>7, <2>8, RelocateStores
  <2>11. img.dbg # 0 => i.dbg # 0
    BY <1>0, <2>2, <2>4, <2>10, ShiftKeepsOffset
  <2>12. l.debug.len = lay.debug.len
    <3>1. n \in Nat BY <2>2
    <3>2. SpliceSpan(lay.debug, BaseAt, size, n) =
            [at |-> lay.debug.at + (n - size), len |-> lay.debug.len]
      BY <2>4, <2>5, <3>1, TailMovesTogether
    <3> QED BY <2>6, <3>2
  <2> QED BY <2>9, <2>11, <2>12 DEF SectionKnown
<1>6. ASSUME NEW c \in Contents, EditStringInPlace(c)
      PROVE  SectionKnown'
  BY <1>0, <1>6, CommitStores DEF EditStringInPlace, SectionKnown
<1>7. ASSUME NEW c \in Contents, NEW add \in RegexpBytes, AppendRegexp(c, add)
      PROVE  SectionKnown'
  <2> DEFINE at == lay.regexp.at
             size == lay.regexp.len
             n == Align4(model.reBytes + add)
             e == [img EXCEPT !.reBytes = model.reBytes + add]
             i == RegexpImage(add)
             l == RegexpSplice(add)
  <2>1. /\ add \in Nat /\ model.reBytes = img.reBytes
        /\ img.reBytes \in Nat /\ model.reBytes > 0
    BY <1>0, <1>7, ImageAssumption, ModelReads DEF Image, AppendRegexp
  <2>2. model.reBytes + add \in Nat \ {0} BY <2>1
  <2>3. n \in Nat \ {0} BY <2>2, AlignRoundsUp
  <2>4. Align4(model.reBytes) = size
    BY <1>0, <2>1 DEF Good, Direct, SectionsResolve
  <2>5. /\ RegexpOff(model) = at /\ RegexpEnd(model) - RegexpOff(model) = size
        /\ RegexpEnd(model) = at + size
    BY <1>0, ParsedSections, ModelReads
  <2>6. size > 0 BY <2>1, <2>4, AlignRoundsUp
  <2>7. at \in Nat /\ size \in Nat \ {0} /\ lay.debug.at >= at + size
    BY <1>0, <2>6, RegexpTarget DEF Target, TailBehind
  <2>8. lay.debug \in Span BY <1>0, LayoutFields
  <2>9. l.debug = SpliceSpan(lay.debug, at, size, n)
    BY <1>0, <2>5, SpliceFields DEF RegexpSplice
  <2>10. e \in Image /\ e.dbg = img.dbg
    BY <1>0, <2>2 DEF Image
  <2>11. i = Relocate(e, l, at + size, n - size, NoFn, 0)
    BY <2>4, <2>5 DEF RegexpImage, RegionImage, RegexpDelta
  <2>12. img'.dbg = i.dbg /\ lay' = l
    BY <1>7, RegexpImageGood, CommitStores DEF Good, AppendRegexp
  <2> HIDE DEF at, size, n, e, i, l
  <2>13. i.dbg = ShiftedInfo(img.dbg, at + size, n - size)
    BY <2>10, <2>11, RelocateStores
  <2>14. img.dbg # 0 => i.dbg # 0
    BY <1>0, <2>3, <2>7, <2>13, ShiftKeepsOffset
  <2>15. l.debug.len = lay.debug.len
    <3>1. n \in Nat BY <2>3
    <3>2. SpliceSpan(lay.debug, at, size, n) =
            [at |-> lay.debug.at + (n - size), len |-> lay.debug.len]
      BY <2>7, <2>8, <3>1, TailMovesTogether
    <3> QED BY <2>9, <3>2
  <2> QED BY <2>12, <2>14, <2>15 DEF SectionKnown
<1>8. ASSUME UNCHANGED <<img, lay>>
      PROVE  SectionKnown'
  BY <1>8 DEF SectionKnown
<1>9. ASSUME NEW op, NEW allow, Refuse(op, allow)
      PROVE  SectionKnown'
  BY <1>8, <1>9 DEF Refuse
<1>10. CASE UNCHANGED vars BY <1>8, <1>10 DEF vars
<1> QED BY <1>1, <1>2, <1>3, <1>4, <1>5, <1>6, <1>7, <1>9, <1>10, StepCases

\* R24, for every file of a version whose debug layout is known: no edit lets a
\* line table go stale unless its caller accepted that.
THEOREM LinesNeedConsent ==
  ASSUME LinesModelled
  PROVE  Spec => LinesGoStaleOnlyIfAccepted
<1> DEFINE Asked ==
      stale' # stale => last'.allow \/ last'.op = "patch_bytes"
<1>1. Init => SectionKnown
  <2> SUFFICES ASSUME Init PROVE SectionKnown OBVIOUS
  <2>1. PICK l, dbg :
          /\ dbg = 0 <=> l.debug.len = 0
          /\ lay = l /\ \E sb, rb, regs : img = ImageOf(l, sb, rb, dbg, regs)
    BY DEF Init
  <2>2. img.dbg = dbg BY <2>1 DEF ImageOf
  <2> QED BY <2>1, <2>2 DEF SectionKnown
<1>2. IInv /\ SectionKnown /\ [Next]_vars => SectionKnown' BY NextKeepsSection
<1>3. ASSUME IInv, SectionKnown, NEW f \in Fns, NEW c \in Contents,
             NEW n \in BodySizes, NEW upd \in {"keep", "replace"},
             NEW allow \in BOOLEAN, PatchBody(f, c, n, upd, allow)
      PROVE  Asked
  <2> DEFINE size == FinalSize(model, f, n)
  <2>1. n \in Nat \ {0} /\ model.fn[f].size \in Nat
    BY <1>3, ImageAssumption, ReadsItsBody
  <2>2. size \in Nat /\ (size # model.fn[f].size => n - model.fn[f].size # 0)
    BY <2>1, SizeChangedByBody
  <2>3. /\ stale' = stale \union Stranded(f, size - model.fn[f].size)
        /\ last'.allow = allow
        /\ BodyEditAllowed(model, f, n, upd, allow)
    BY <1>3 DEF PatchBody, BodyEditSucceeds, Ended
  <2> HIDE DEF size
  <2>4. model.dbg = img.dbg BY <1>3 DEF IInv, ParsedWith
  <2> SUFFICES ASSUME stale' # stale PROVE allow
    BY <2>3
  <2>5. size - model.fn[f].size # 0 /\ f \in WithLines /\ lay.debug.len > 0
    BY <2>3 DEF Stranded
  <2>6. n - model.fn[f].size # 0 BY <2>1, <2>2, <2>5
  <2>7. model.dbg # 0 BY <1>3, <2>4, <2>5 DEF SectionKnown
  <2> QED BY <2>3, <2>5, <2>6, <2>7 DEF BodyEditAllowed
<1>4. ASSUME NEW f, NEW c, NEW n, PatchBytes(f, c, n)
      PROVE  Asked
  BY <1>4 DEF PatchBytes, Ended
<1>5. ASSUME NEW f, NEW c, NEW kind, NEW fromEnd, NEW allow, NEW grown,
             InjectStub(f, c, kind, fromEnd, allow, grown)
      PROVE  Asked
  <2>1. stale' = stale BY <1>5 DEF InjectStub
  <2> QED BY <2>1
<1>6. ASSUME UNCHANGED stale
      PROVE  Asked
  BY <1>6
<1>7. IInv /\ SectionKnown /\ [Next]_vars => [Asked]_vars
  <2> HIDE DEF Asked
  <2>1. ASSUME NEW f, NEW c, NEW kind, NEW fromEnd, NEW allow, InjectFailed(f, c, kind, fromEnd, allow)
        PROVE  Asked
    BY <1>6, <2>1 DEF InjectFailed, contents
  <2>2. ASSUME NEW c, NEW b, RebuildStrings(c, b)
        PROVE  Asked
    BY <1>6, <2>2 DEF RebuildStrings
  <2>3. ASSUME NEW c, EditStringInPlace(c)
        PROVE  Asked
    BY <1>6, <2>3 DEF EditStringInPlace
  <2>4. ASSUME NEW c, NEW add, AppendRegexp(c, add)
        PROVE  Asked
    BY <1>6, <2>4 DEF AppendRegexp
  <2>5. ASSUME NEW op, NEW allow, Refuse(op, allow)
        PROVE  Asked
    BY <1>6, <2>5 DEF Refuse, contents
  <2> QED BY <1>3, <1>4, <1>5, <2>1, <2>2, <2>3, <2>4, <2>5, StepCases
<1> QED
  BY <1>1, <1>2, <1>7, FileStaysGood, PTL DEF Spec, LinesGoStaleOnlyIfAccepted

----------------------------------------------------------------------------
(* Refinement: read through the stored offsets, every edit of the bytes is  *)
(* one edit of the document, or none.                                       *)

\* A good file reads, through its stored offsets, as the contents it was given.
LEMMA ReadsTrue ==
  ASSUME IInv, ContentsTyped
  PROVE  /\ [f \in Fns |-> BodyRead(f)] = code
         /\ [f \in WithTable |-> TableRead(f)] = tab
         /\ StringsRead = strs
         /\ RegexpsRead = res
<1>0. /\ lay \in Layout /\ WellLaid(lay) /\ Good(img, lay) /\ Direct(img, lay)
  BY DEF IInv, Good
<1>1. \A f \in Fns : FunctionHeaderOf(img, lay, f) = TrueHeader(lay, f)
  BY <1>0, HeadersRead DEF HeadersResolve
<1>2. ASSUME NEW f \in Fns
      PROVE  BodyRead(f) = code[f]
  <2> DEFINE h == FunctionHeaderOf(img, lay, f)
             at == {g \in Fns : lay.body[g] = [at |-> h.at, len |-> h.size]}
  <2>1. h.at = lay.body[f].at /\ h.size = lay.body[f].len
    BY <1>1 DEF TrueHeader
  <2>2. \A g \in Fns : lay.body[g] \in Span /\ lay.body[g].len > 0
    BY <1>0, LayoutFields DEF WellLaid, Disjoint
  <2>3. lay.body[f] = [at |-> h.at, len |-> h.size] BY <2>1, <2>2 DEF Span
  <2>4. \A g \in Fns : g # f => lay.body[g].at # lay.body[f].at
    BY <1>0, <2>2 DEF WellLaid, Disjoint, Before, End, Span
  <2> HIDE DEF h
  <2>5. \A g \in Fns : lay.body[g] = [at |-> h.at, len |-> h.size] => g = f
    BY <2>1, <2>4
  <2>6. at = {f} BY <2>3, <2>5
  <2>7. (CHOOSE g \in at : TRUE) = f BY <2>6
  <2>8. BodyRead(f) = IF at = {} THEN Torn ELSE code[CHOOSE g \in at : TRUE]
    BY DEF BodyRead, h
  <2> QED BY <2>6, <2>7, <2>8
<1>3. ASSUME NEW f \in WithTable
      PROVE  TableRead(f) = tab[f]
  <2> DEFINE pos == Align4(FunctionHeaderOf(img, lay, f).info)
             at == {g \in WithTable : lay.info[g].at = pos}
  <2>1. f \in Fns /\ f \in HasInfo BY ImageAssumption DEF HasInfo
  <2>2. FunctionHeaderOf(img, lay, f).info = lay.info[f].at
    BY <1>1, <2>1 DEF TrueHeader
  <2>3. lay.info[f].at \in Nat /\ lay.info[f].at % 4 = 0
    BY <1>0, <2>1, LayoutFields DEF Span, WellLaid, Aligned
  <2>4. pos = lay.info[f].at BY <2>2, <2>3 DEF Align4
  <2>5. \A g \in WithTable : g # f => lay.info[g].at # lay.info[f].at
    BY <1>0, <2>1 DEF WellLaid, Disjoint, HasInfo
  <2>6. at = {f} BY <2>4, <2>5
  <2>7. (CHOOSE g \in at : TRUE) = f BY <2>6
  <2>8. TableRead(f) = IF at = {} THEN Torn ELSE tab[CHOOSE g \in at : TRUE]
    BY DEF TableRead
  <2> QED BY <2>6, <2>7, <2>8
<1>4. StringsRead = strs
  BY <1>0 DEF StringsRead, Direct, SectionsResolve
<1>5. RegexpsRead = res
  <2>1. Align4(img.strBytes) = lay.strings.len /\ Align4(img.reBytes) = lay.regexp.len
    BY <1>0 DEF Direct, SectionsResolve
  <2>2. RegexpOff(img) = lay.regexp.at
    BY <1>0, <2>1 DEF RegexpOff, ArrayOff, WellLaid, InOrder, End
  <2>3. lay.regexp \in Span BY <1>0, LayoutFields
  <2>4. lay.regexp = [at |-> RegexpOff(img), len |-> Align4(img.reBytes)]
    BY <2>1, <2>2, <2>3 DEF Span
  <2> QED BY <2>4 DEF RegexpsRead
<1>6. [f \in Fns |-> BodyRead(f)] = code BY <1>2 DEF ContentsTyped
<1>7. [f \in WithTable |-> TableRead(f)] = tab BY <1>3 DEF ContentsTyped
<1> QED BY <1>4, <1>5, <1>6, <1>7

\* One body edit changes the code of one function.
LEMMA CodeAfterIsOneEdit ==
  ASSUME IInv, ContentsTyped, NEW m, m.fn = model.fn, NEW f \in Fns, NEW c
  PROVE  CodeAfter(m, f, c) = [code EXCEPT ![f] = c]
<1>1. \A g \in Fns : lay.body[g] \in Span /\ lay.body[g].len > 0
  BY LayoutFields DEF IInv, WellLaid, Disjoint
<1>2. \A g \in Fns : g # f => lay.body[g].at # lay.body[f].at
  BY <1>1 DEF IInv, WellLaid, Disjoint, Before, End, Span
<1>3. lay.body[f] = [at |-> m.fn[f].at, len |-> m.fn[f].size]
      /\ m.fn[f].at = lay.body[f].at
  BY ReadsItsBody
<1>4. \A g \in Fns :
        lay.body[g] = [at |-> m.fn[f].at, len |-> m.fn[f].size] <=> g = f
  BY <1>2, <1>3
<1>5. CodeAfter(m, f, c) = [g \in Fns |-> IF g = f THEN c ELSE code[g]]
  BY <1>4 DEF CodeAfter
<1> QED BY <1>5 DEF ContentsTyped

\* It changes the handler table of that function, or none.
LEMMA TableAfterIsOneEdit ==
  ASSUME ContentsTyped, NEW m, NEW l, WellLaid(l), NEW f \in Fns, NEW c,
         NEW upd, NEW delta,
         WritesTable(f, upd, delta) => l.info[f].at = TablePos(m, f) + delta
  PROVE  TableAfter(m, l, f, c, upd, delta) \in
           {tab} \union {[g \in WithTable |-> IF g = f THEN c ELSE tab[g]]}
<1>1. CASE ~WritesTable(f, upd, delta)
  <2>1. TableAfter(m, l, f, c, upd, delta) = [g \in WithTable |-> tab[g]]
    BY <1>1 DEF TableAfter
  <2> QED BY <2>1 DEF ContentsTyped
<1>2. CASE WritesTable(f, upd, delta)
  <2>1. f \in WithTable BY <1>2 DEF WritesTable
  <2>2. \A g \in WithTable : l.info[g].at = TablePos(m, f) + delta <=> g = f
    BY <1>2, <2>1 DEF WellLaid, Disjoint, HasInfo
  <2>3. TableAfter(m, l, f, c, upd, delta) =
          [g \in WithTable |-> IF g = f THEN c ELSE tab[g]]
    BY <1>2, <2>2 DEF TableAfter
  <2> QED BY <2>3
<1> QED BY <1>1, <1>2

\* The table of an edited function is found where the splice has taken it.
LEMMA TableFound ==
  ASSUME IInv, NEW m, m.fn = model.fn, NEW f \in WithTable, NEW n \in Nat
  PROVE  SpliceBody(m, lay, f, n).info[f].at =
           TablePos(m, f) + (n - m.fn[f].size)
<1> DEFINE at == lay.body[f].at
           size == lay.body[f].len
<1>0. f \in Fns /\ f \in HasInfo BY ImageAssumption DEF HasInfo
<1>1. lay \in Layout /\ WellLaid(lay) /\ Good(img, lay) BY DEF IInv, Good
<1>2. m.fn[f].at = at /\ m.fn[f].size = size /\ at \in Nat /\ size \in Nat \ {0}
  BY <1>0, ReadsItsBody
<1>3. lay.info[f] \in Span /\ lay.info[f].at >= at + size
  BY <1>0, <1>1, LayoutFields, BodyTarget DEF Target, TailBehind
<1>4. SpliceBody(m, lay, f, n).info[f] = SpliceSpan(lay.info[f], at, size, n)
  BY <1>0, <1>1, <1>2, SpliceFields DEF SpliceBody
<1>5. SpliceSpan(lay.info[f], at, size, n).at = lay.info[f].at + (n - size)
  BY <1>2, <1>3, TailMovesTogether
<1>6. m.fn[f].info = lay.info[f].at
  <2>1. FunctionHeaderOf(img, lay, f) = TrueHeader(lay, f)
    BY <1>0, <1>1, HeadersRead DEF HeadersResolve
  <2>2. model.fn[f] = FunctionHeaderOf(img, lay, f)
    BY <1>0 DEF IInv, ParsedWith
  <2> QED BY <1>0, <2>1, <2>2 DEF TrueHeader
<1>7. TablePos(m, f) = lay.info[f].at
  <2>1. lay.info[f].at \in Nat /\ lay.info[f].at % 4 = 0
    BY <1>0, <1>1, <1>3 DEF Span, WellLaid, Aligned
  <2> QED BY <1>6, <2>1 DEF TablePos, Align4
<1> QED BY <1>2, <1>4, <1>5, <1>7

-----------------------------------------------------------------------------
(***************************************************************************)
(* One edit of the file is one edit of the document it holds, or none.       *)
(***************************************************************************)
EditsFunction(f, c) ==
  /\ code' = [code EXCEPT ![f] = c]
  /\ tab' \in {tab} \union {[g \in WithTable |-> IF g = f THEN c ELSE tab[g]]}
  /\ UNCHANGED <<strs, res>>

EditsOne ==
  \/ \E c \in Contents :
       \/ \E f \in Fns : EditsFunction(f, c)
       \/ strs' = c /\ UNCHANGED <<code, tab, res>>
       \/ res' = c /\ UNCHANGED <<code, tab, strs>>
  \/ UNCHANGED <<code, tab, strs, res>>

LEMMA StepEditsOne ==
  ASSUME IInv, ContentsTyped, [Next]_vars
  PROVE  EditsOne
<1>0. Good(img, lay) BY DEF IInv, Good
<1>1. ASSUME NEW f \in Fns, NEW c \in Contents, NEW n \in BodySizes,
             NEW upd \in {"keep", "replace"}, NEW allow \in BOOLEAN,
             PatchBody(f, c, n, upd, allow)
      PROVE  EditsFunction(f, c)
  <2> DEFINE size == FinalSize(model, f, n)
             delta == size - model.fn[f].size
             l == SpliceBody(model, lay, f, size)
  <2>1. n \in Nat \ {0} BY ImageAssumption
  <2>2. size \in Nat \ {0} BY <2>1, ReadsItsBody, PaddedSize
  <2>3. /\ code' = CodeAfter(model, f, c)
        /\ tab' = TableAfter(model, l, f, c, upd, delta)
        /\ UNCHANGED <<strs, res>> /\ BodyFits(model, img, lay, f, size)
    BY <1>1 DEF PatchBody, BodyEditSucceeds
  <2> HIDE DEF size
  <2>4. WellLaid(l) BY <1>0, <2>2, <2>3, CommittedBodyEdit DEF Good
  <2>5. WritesTable(f, upd, delta) => l.info[f].at = TablePos(model, f) + delta
    <3>1. size \in Nat BY <2>2
    <3>2. f \in WithTable => l.info[f].at = TablePos(model, f) + delta
      BY <3>1, TableFound
    <3> QED BY <3>2 DEF WritesTable
  <2> HIDE DEF delta, l
  <2>6. tab' \in {tab} \union {[g \in WithTable |-> IF g = f THEN c ELSE tab[g]]}
    BY <2>3, <2>4, <2>5, TableAfterIsOneEdit
  <2> QED BY <2>3, <2>6, CodeAfterIsOneEdit DEF EditsFunction
<1>2. ASSUME NEW f \in Fns, NEW c \in Contents, NEW n \in BodySizes,
             PatchBytes(f, c, n)
      PROVE  EditsFunction(f, c)
  BY <1>2, CodeAfterIsOneEdit DEF PatchBytes, EditsFunction
<1>3. ASSUME NEW f \in Fns, NEW c \in Contents, NEW kind \in Stubs,
             NEW fromEnd \in BOOLEAN, NEW allow \in BOOLEAN, NEW grown \in Nat,
             InjectStub(f, c, kind, fromEnd, allow, grown)
      PROVE  EditsFunction(f, c)
  <2> DEFINE n == model.fn[f].size + StubLen(kind)
             m == ReservedModel(f, kind)
             e == ReservedImage(f, kind)
             l == SpliceBody(m, lay, f, n)
  <2>1. m.fn = model.fn /\ Good(e, lay) BY ReserveGood
  <2>2. /\ model.fn[f].size \in Nat \ {0}
        /\ StubLen(kind) \in Nat /\ StubLen(kind) % 4 = 0
    BY ReadsItsBody, StubLenAligned
  <2>3. n \in Nat \ {0} /\ n - m.fn[f].size = StubLen(kind)
    <3>1. \A x \in Nat \ {0}, y \in Nat : x + y \in Nat \ {0} /\ (x + y) - x = y
      OBVIOUS
    <3> QED BY <2>1, <2>2, <3>1
  <2>4. FinalSize(m, f, n) = n BY <2>1, <2>2, <2>3, PaddedSize
  <2>5. /\ code' = CodeAfter(m, f, c)
        /\ tab' = TableAfter(m, l, f, c, "insert", StubLen(kind))
        /\ UNCHANGED <<strs, res>>
        /\ BodyEditSucceeds(m, e, f, c, n, "insert", TRUE)
    BY <1>3 DEF InjectStub, InsertSucceeds
  <2> HIDE DEF m, e, n
  <2>6. BodyFits(m, e, lay, f, n) BY <2>4, <2>5 DEF BodyEditSucceeds
  <2>7. WellLaid(l) BY <2>1, <2>3, <2>6, CommittedBodyEdit DEF Good
  <2>8. f \in WithTable => l.info[f].at = TablePos(m, f) + StubLen(kind)
    <3>1. n \in Nat BY <2>3
    <3>2. f \in WithTable => l.info[f].at = TablePos(m, f) + (n - m.fn[f].size)
      BY <2>1, <3>1, TableFound
    <3> QED BY <2>3, <3>2
  <2> HIDE DEF l
  <2>9. tab' \in {tab} \union {[g \in WithTable |-> IF g = f THEN c ELSE tab[g]]}
    BY <2>5, <2>7, <2>8, TableAfterIsOneEdit DEF WritesTable
  <2> QED BY <2>1, <2>5, <2>9, CodeAfterIsOneEdit DEF EditsFunction
<1>4. ASSUME NEW f, NEW c, NEW kind, NEW fromEnd, NEW allow, InjectFailed(f, c, kind, fromEnd, allow)
      PROVE  EditsOne
  BY <1>4 DEF InjectFailed, contents, EditsOne
<1>5. ASSUME NEW c \in Contents, NEW b, RebuildStrings(c, b)
      PROVE  EditsOne
  BY <1>5 DEF RebuildStrings, EditsOne
<1>6. ASSUME NEW c \in Contents, EditStringInPlace(c)
      PROVE  EditsOne
  BY <1>6 DEF EditStringInPlace, EditsOne
<1>7. ASSUME NEW c \in Contents, NEW add, AppendRegexp(c, add)
      PROVE  EditsOne
  BY <1>7 DEF AppendRegexp, EditsOne
<1>8. ASSUME NEW op, NEW allow, Refuse(op, allow)
      PROVE  EditsOne
  BY <1>8 DEF Refuse, contents, EditsOne
<1>9. CASE UNCHANGED vars BY <1>9 DEF vars, EditsOne
<1>10. ASSUME NEW f \in Fns, NEW c \in Contents, EditsFunction(f, c)
       PROVE  EditsOne
  BY <1>10 DEF EditsOne
<1> QED
  BY <1>1, <1>2, <1>3, <1>4, <1>5, <1>6, <1>7, <1>8, <1>9, <1>10, StepCases

\* The refinement, for every file: what a loader finds through the stored offsets
\* changes, with every edit, in the one place the edit was about.
THEOREM WritePathImplementsDocument == Spec => EditsAreSurgical
<1> DEFINE J == IInv /\ ContentsTyped
<1>1. Init => J BY InitGood, InitTyped
<1>2. J /\ [Next]_vars => J' BY NextKeepsInvariant, NextTyped
<1>3. Init => Document!Init
  <2> SUFFICES ASSUME Init PROVE Document!Init OBVIOUS
  <2>1. IInv /\ ContentsTyped BY InitGood, InitTyped
  <2> QED BY <2>1, ReadsTrue DEF ContentsTyped, Document!Init, Document!TypeOK
<1>4. J /\ J' /\ [Next]_vars => [Document!Next]_(Document!document)
  <2> SUFFICES ASSUME J, J', [Next]_vars
               PROVE  [Document!Next]_(Document!document)
    OBVIOUS
  <2>1. EditsOne BY StepEditsOne
  <2>2. /\ [f \in Fns |-> BodyRead(f)] = code
        /\ [f \in WithTable |-> TableRead(f)] = tab
        /\ StringsRead = strs /\ RegexpsRead = res
    BY ReadsTrue
  <2>3. /\ [f \in Fns |-> BodyRead(f)]' = code'
        /\ [f \in WithTable |-> TableRead(f)]' = tab'
        /\ StringsRead' = strs' /\ RegexpsRead' = res'
    <3>1. (IInv /\ ContentsTyped =>
             /\ [f \in Fns |-> BodyRead(f)] = code
             /\ [f \in WithTable |-> TableRead(f)] = tab
             /\ StringsRead = strs /\ RegexpsRead = res)'
      BY ReadsTrue, PTL
    <3> QED BY <3>1
  <2>4. CASE UNCHANGED <<code, tab, strs, res>>
    BY <2>2, <2>3, <2>4 DEF Document!document
  <2>5. ASSUME NEW f \in Fns, NEW c \in Contents, EditsFunction(f, c)
        PROVE  Document!EditFunction(f, c)
    BY <2>2, <2>3, <2>5 DEF EditsFunction, Document!EditFunction
  <2>6. ASSUME NEW c \in Contents, strs' = c, UNCHANGED <<code, tab, res>>
        PROVE  Document!EditStrings(c)
    BY <2>2, <2>3, <2>6 DEF Document!EditStrings
  <2>7. ASSUME NEW c \in Contents, res' = c, UNCHANGED <<code, tab, strs>>
        PROVE  Document!EditRegexps(c)
    BY <2>2, <2>3, <2>7 DEF Document!EditRegexps
  <2> QED BY <2>1, <2>4, <2>5, <2>6, <2>7 DEF EditsOne, Document!Next
<1> QED BY <1>1, <1>2, <1>3, <1>4, PTL DEF Spec, EditsAreSurgical, Document!Spec
=============================================================================
