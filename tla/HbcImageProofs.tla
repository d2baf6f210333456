--------------------------- MODULE HbcImageProofs ---------------------------
(***************************************************************************)
(* Every chain of edits, on a file of any number of functions with headers   *)
(* of either layout, leaves every stored offset naming its region, the       *)
(* regions in order, aligned and apart, and the parsed file equal to the     *)
(* bytes.  The inductive invariant says what each stored field holds         *)
(* directly, without reading through a large header's pointer.               *)
(***************************************************************************)
EXTENDS HbcImage, TLAPS

InfoAt(l, f) == IF f \in HasInfo THEN l.info[f].at ELSE 0

PlainDirect(i, l) ==
  \A f \in Fns \ Overflowed :
    /\ i.small[f].at = l.body[f].at
    /\ i.small[f].size = l.body[f].len
    /\ i.small[f].info = InfoAt(l, f)

OutOfLineDirect(i, l) ==
  \A f \in Overflowed :
    /\ i.small[f].at = l.large[f].at
    /\ i.large[f].at = l.body[f].at
    /\ i.large[f].size = l.body[f].len
    /\ ~Modern => i.large[f].info = InfoAt(l, f)

Direct(i, l) ==
  SectionsResolve(i, l) /\ PlainDirect(i, l) /\ OutOfLineDirect(i, l)

\* A parse of the bytes, whatever frames and read cache counts it found.
ParsedWith(i, l, regs) ==
  [strBytes |-> i.strBytes, reBytes |-> i.reBytes, dbg |-> i.dbg,
   fn |-> [f \in Fns |-> FunctionHeaderOf(i, l, f)], regs |-> regs]

\* The parsed registers of a legacy function may lag by what a refused
\* inject_stub reserved.
RegsTracked(known, stored) ==
  /\ known \in [Fns -> Regs]
  /\ \A f \in Fns : \/ stored[f] = known[f]
                    \/ ~Modern /\ stored[f] = Reserved(known[f])

IInv ==
  /\ lay \in Layout /\ img \in Image
  /\ WellLaid(lay)
  /\ Direct(img, lay)
  /\ img.fileLength = FileEnd(lay)
  /\ model = ParsedWith(img, lay, model.regs)
  /\ RegsTracked(model.regs, img.regs)

-----------------------------------------------------------------------------
(***************************************************************************)
(* Arithmetic of alignment and of one splice.                               *)
(***************************************************************************)

\* Align4 rounds up to the next multiple of four.
LEMMA AlignRoundsUp ==
  ASSUME NEW n \in Nat
  PROVE  Align4(n) \in Nat /\ Align4(n) >= n /\ Align4(n) % 4 = 0
BY DEF Align4

\* A multiple of four stays one when a multiple of four is added or taken off.
LEMMA AlignedSum ==
  ASSUME NEW x \in Int, NEW y \in Int, x % 4 = 0, y % 4 = 0
  PROVE  (x + y) % 4 = 0 /\ (x - y) % 4 = 0
OBVIOUS

\* A span clear of a splice is the replaced span, ends before it or starts
\* behind it: nothing is cut in two.
Clear(s, at, size) ==
  (s.at = at /\ s.len = size) \/ End(s) <= at \/ s.at >= at + size

\* Where a span starts after a splice is what `shifted' computes from where it
\* started before: the code's comparison with moved_from is the right one.
LEMMA SpliceShiftsStart ==
  ASSUME NEW s \in Span, NEW at \in Nat, NEW size \in Nat \ {0}, NEW n \in Nat
  PROVE  /\ SpliceSpan(s, at, size, n) \in [at : Int, len : Nat]
         /\ SpliceSpan(s, at, size, n) \in Span
         /\ SpliceSpan(s, at, size, n).at = Shifted(s.at, at + size, n - size)
BY DEF Span, SpliceSpan, Shifted

\* A splice keeps the order of two spans that are clear of it.
LEMMA SpliceKeepsOrder ==
  ASSUME NEW a \in Span, NEW b \in Span,
         NEW at \in Nat, NEW size \in Nat \ {0}, NEW n \in Nat,
         Clear(a, at, size), Clear(b, at, size), Before(a, b)
  PROVE  Before(SpliceSpan(a, at, size, n), SpliceSpan(b, at, size, n))
BY DEF Span, SpliceSpan, Clear, Before, End

\* Replacing a span by as many bytes moves nothing.
LEMMA SameSizeMovesNothing ==
  ASSUME NEW s \in Span, NEW at \in Nat, NEW size \in Nat
  PROVE  SpliceSpan(s, at, size, size) = s
BY DEF Span, SpliceSpan

-----------------------------------------------------------------------------
(***************************************************************************)
(* One splice of a whole file.                                              *)
(***************************************************************************)

\* The replaced span is one region: every other one is clear of it, and large
\* headers, info records and the debug section all lie behind it.
AllClear(l, at, size) ==
  /\ Clear(l.strings, at, size) /\ Clear(l.regexp, at, size)
  /\ Clear(l.debug, at, size)
  /\ \A f \in Fns : Clear(l.body[f], at, size)
  /\ \A f \in Overflowed : Clear(l.large[f], at, size)
  /\ \A f \in HasInfo : Clear(l.info[f], at, size)

TailBehind(l, from) ==
  /\ \A f \in Overflowed : l.large[f].at >= from
  /\ \A f \in HasInfo : l.info[f].at >= from
  /\ l.debug.at >= from

Target(l, at, size) ==
  /\ at \in Nat /\ size \in Nat \ {0}
  /\ l.strings.at < at + size
  /\ AllClear(l, at, size)
  /\ TailBehind(l, at + size)

\* The two sections the parser finds by size still follow one another.
SectionsFollow(l) ==
  /\ l.strings.at = BaseAt /\ l.strings.len > 0
  /\ l.strings.len % 4 = 0 /\ l.regexp.len % 4 = 0
  /\ l.regexp.at = End(l.strings) + GapLen

\* The regions of a spliced layout, one by one.
LEMMA SpliceFields ==
  ASSUME NEW l \in Layout, NEW at, NEW size, NEW n
  PROVE  /\ Splice(l, at, size, n).strings = SpliceSpan(l.strings, at, size, n)
         /\ Splice(l, at, size, n).regexp = SpliceSpan(l.regexp, at, size, n)
         /\ Splice(l, at, size, n).debug = SpliceSpan(l.debug, at, size, n)
         /\ \A f \in Fns :
              Splice(l, at, size, n).body[f] = SpliceSpan(l.body[f], at, size, n)
         /\ \A f \in Overflowed :
              Splice(l, at, size, n).large[f] = SpliceSpan(l.large[f], at, size, n)
         /\ \A f \in HasInfo :
              Splice(l, at, size, n).info[f] = SpliceSpan(l.info[f], at, size, n)
BY DEF Splice

LEMMA LayoutFields ==
  ASSUME NEW l \in Layout
  PROVE  /\ l.strings \in Span /\ l.regexp \in Span /\ l.debug \in Span
         /\ \A f \in Fns : l.body[f] \in Span
         /\ \A f \in Overflowed : l.large[f] \in Span
         /\ \A f \in HasInfo : l.info[f] \in Span
BY DEF Layout

\* Behind the splice every region moves by the same distance.
LEMMA TailMovesTogether ==
  ASSUME NEW s \in Span, NEW at \in Nat, NEW size \in Nat \ {0}, NEW n \in Nat,
         s.at >= at + size
  PROVE  SpliceSpan(s, at, size, n) = [at |-> s.at + (n - size), len |-> s.len]
BY DEF SpliceSpan

\* A splice of one region by a multiple of four bytes keeps the file's order,
\* keeps regions apart and keeps what follows the code aligned.
THEOREM SpliceKeepsLayout ==
  ASSUME NEW l \in Layout, NEW at, NEW size, NEW n \in Nat \ {0},
         WellLaid(l), Target(l, at, size), (n - size) % 4 = 0,
         SectionsFollow(Splice(l, at, size, n))
  PROVE  Splice(l, at, size, n) \in Layout /\ WellLaid(Splice(l, at, size, n))
<1> DEFINE m == Splice(l, at, size, n)
           sp(s) == SpliceSpan(s, at, size, n)
<1>1. at \in Nat /\ size \in Nat \ {0} /\ n \in Nat BY DEF Target
<1>a. \A s \in Span : sp(s) \in Span BY <1>1, SpliceShiftsStart
<1>b. \A s \in Span : s.at >= at + size => sp(s).at = s.at + (n - size)
  BY <1>1, TailMovesTogether
<1>c. /\ m.strings = sp(l.strings) /\ m.regexp = sp(l.regexp)
      /\ m.debug = sp(l.debug)
      /\ \A f \in Fns : m.body[f] = sp(l.body[f])
      /\ \A f \in Overflowed : m.large[f] = sp(l.large[f])
      /\ \A f \in HasInfo : m.info[f] = sp(l.info[f])
  BY SpliceFields
<1>d. /\ l.strings \in Span /\ l.regexp \in Span /\ l.debug \in Span
      /\ \A f \in Fns : l.body[f] \in Span
      /\ \A f \in Overflowed : l.large[f] \in Span
      /\ \A f \in HasInfo : l.info[f] \in Span
  BY LayoutFields
<1>e. /\ \A f \in Overflowed : l.large[f].at \in Int
      /\ \A f \in HasInfo : l.info[f].at \in Int
      /\ l.debug.at \in Int
  BY <1>d DEF Span
<1>f. \A a, b \in Span :
        Clear(a, at, size) /\ Clear(b, at, size) /\ Before(a, b) =>
          Before(sp(a), sp(b))
  BY <1>1, SpliceKeepsOrder
<1>g. \A s \in Span : s.len > 0 => sp(s).len > 0 BY <1>1 DEF SpliceSpan, Span
<1>h. m = [strings |-> sp(l.strings), regexp |-> sp(l.regexp),
           debug |-> sp(l.debug), body |-> [f \in Fns |-> sp(l.body[f])],
           large |-> [f \in Overflowed |-> sp(l.large[f])],
           info |-> [f \in HasInfo |-> sp(l.info[f])]]
  BY DEF Splice
<1> HIDE DEF m, sp
<1>2. m \in Layout BY <1>a, <1>d, <1>h DEF Layout
<1>3. InOrder(m)
  <2>2. Before(m.regexp, m.debug)
    BY <1>c, <1>d, <1>f DEF WellLaid, InOrder, Target, AllClear
  <2>3. \A f \in Fns : Before(m.regexp, m.body[f]) /\ Before(m.body[f], m.debug)
    BY <1>c, <1>d, <1>f DEF WellLaid, InOrder, Target, AllClear
  <2>4. \A f \in Fns, g \in Overflowed : Before(m.body[f], m.large[g])
    BY <1>c, <1>d, <1>f DEF WellLaid, InOrder, Target, AllClear
  <2>5. \A f \in Fns, g \in HasInfo : Before(m.body[f], m.info[g])
    BY <1>c, <1>d, <1>f DEF WellLaid, InOrder, Target, AllClear
  <2>6. /\ \A g \in Overflowed : Before(m.large[g], m.debug)
        /\ \A g \in HasInfo : Before(m.info[g], m.debug)
    BY <1>c, <1>d, <1>f DEF WellLaid, InOrder, Target, AllClear
  <2>7. SectionsFollow(m) BY DEF m
  <2> QED BY <2>2, <2>3, <2>4, <2>5, <2>6, <2>7 DEF InOrder, SectionsFollow
<1>4. /\ \A g \in Overflowed : m.large[g].at = l.large[g].at + (n - size)
      /\ \A g \in HasInfo : m.info[g].at = l.info[g].at + (n - size)
      /\ m.debug.at = l.debug.at + (n - size)
  BY <1>b, <1>c, <1>d DEF Target, TailBehind
<1>5. Disjoint(m)
  <2>1. \A f \in Fns : m.body[f].len > 0
    BY <1>c, <1>d, <1>g DEF WellLaid, Disjoint
  <2>2. \A f, g \in Fns : f # g => \/ Before(m.body[f], m.body[g])
                                   \/ Before(m.body[g], m.body[f])
    BY <1>c, <1>d, <1>f DEF WellLaid, Disjoint, Target, AllClear
  <2>3. \A f, g \in Overflowed : f # g => m.large[f].at # m.large[g].at
    <3> SUFFICES ASSUME NEW f \in Overflowed, NEW g \in Overflowed, f # g
                 PROVE  m.large[f].at # m.large[g].at
      OBVIOUS
    <3>1. l.large[f].at # l.large[g].at BY DEF WellLaid, Disjoint
    <3>2. l.large[f].at \in Int /\ l.large[g].at \in Int BY <1>e
    <3>3. /\ m.large[f].at = l.large[f].at + (n - size)
          /\ m.large[g].at = l.large[g].at + (n - size)
      BY <1>4
    <3>4. \A x, y \in Int : x # y => x + (n - size) # y + (n - size)
      BY <1>1
    <3>5. l.large[f].at + (n - size) # l.large[g].at + (n - size)
      BY <3>1, <3>2, <3>4
    <3> QED BY <3>3, <3>5
  <2>4. Modern => \A f \in HasInfo : m.info[f].at = m.large[f].at + LargeSize
    <3>1. Modern => \A f \in HasInfo : f \in Overflowed BY ImageAssumption
    <3>2. n - size \in Int /\ LargeSize \in Int BY <1>1, ImageAssumption
    <3>3. \A x, y, d \in Int : (x + y) + d = (x + d) + y OBVIOUS
    <3>4. Modern => \A f \in HasInfo : l.info[f].at = l.large[f].at + LargeSize
      BY DEF WellLaid, Disjoint
    <3> QED BY <1>4, <1>e, <3>1, <3>2, <3>3, <3>4
  <2>5. \A f, g \in HasInfo : f # g => m.info[f].at # m.info[g].at
    <3> SUFFICES ASSUME NEW f \in HasInfo, NEW g \in HasInfo, f # g
                 PROVE  m.info[f].at # m.info[g].at
      OBVIOUS
    <3>1. l.info[f].at # l.info[g].at BY DEF WellLaid, Disjoint
    <3>2. /\ m.info[f].at = l.info[f].at + (n - size)
          /\ m.info[g].at = l.info[g].at + (n - size)
      BY <1>4
    <3>3. \A x, y \in Int : x # y => x + (n - size) # y + (n - size)
      BY <1>1
    <3>4. l.info[f].at + (n - size) # l.info[g].at + (n - size)
      BY <1>e, <3>1, <3>3
    <3> QED BY <3>2, <3>4
  <2> QED BY <2>1, <2>2, <2>3, <2>4, <2>5 DEF Disjoint
<1>6. Aligned(m)
  <2>1. n - size \in Int BY <1>1
  <2>2. \A x \in Int : x % 4 = 0 => (x + (n - size)) % 4 = 0
    BY <2>1, AlignedSum
  <2>4. /\ \A f \in Overflowed : m.large[f].at % 4 = 0
        /\ \A f \in HasInfo : m.info[f].at % 4 = 0
        /\ m.debug.at % 4 = 0
    BY <1>4, <1>e, <2>2 DEF WellLaid, Aligned
  <2>5. SectionsFollow(m) BY DEF m
  <2> QED BY <2>4, <2>5 DEF Aligned, SectionsFollow
<1>7. m = Splice(l, at, size, n) BY DEF m
<1> QED BY <1>2, <1>3, <1>5, <1>6, <1>7 DEF WellLaid

-----------------------------------------------------------------------------
(***************************************************************************)
(* What relocate writes, and what the parser then reads.                    *)
(***************************************************************************)

DebugDirect(i, l) == i.dbg # 0 => i.dbg = l.debug.at

\* The stored offsets follow the bytes: if every field named its region before
\* the splice, every field names it after relocate, the resized function's size
\* included.  A large header is found because its pointer was shifted first.
THEOREM RelocateTracksSplice ==
  ASSUME NEW l \in Layout, NEW i \in Image,
         NEW at, NEW size, NEW n \in Nat \ {0}, NEW r, NEW z \in Nat,
         Target(l, at, size),
         Disjoint(Splice(l, at, size, n)),
         PlainDirect(i, l), OutOfLineDirect(i, l), DebugDirect(i, l),
         \A f \in Fns : SpliceSpan(l.body[f], at, size, n).len =
                          NewSize(f, r, z, l.body[f].len)
  PROVE  LET m == Splice(l, at, size, n)
             j == Relocate(i, m, at + size, n - size, r, z)
         IN  /\ PlainDirect(j, m) /\ OutOfLineDirect(j, m) /\ DebugDirect(j, m)
             /\ j \in Image
             /\ j.strBytes = i.strBytes /\ j.reBytes = i.reBytes
             /\ j.dbg = IF i.dbg = 0 THEN 0 ELSE i.dbg + (n - size)
<1> DEFINE m == Splice(l, at, size, n)
           sp(s) == SpliceSpan(s, at, size, n)
           sh(v) == Shifted(v, at + size, n - size)
           small == [f \in Fns |-> RelocatedSmall(i.small[f], f, at + size,
                                                  n - size, r, z)]
           users(g) == {f \in Overflowed : small[f].at = m.large[g].at}
           large == [g \in Overflowed |->
                      IF users(g) = {} THEN i.large[g]
                      ELSE RelocatedLarge(i.large[g], CHOOSE f \in users(g) : TRUE,
                                          at + size, n - size, r, z)]
           j == [i EXCEPT !.small = small, !.large = large,
                          !.dbg = ShiftedInfo(i.dbg, at + size, n - size)]
<1>1. at \in Nat /\ size \in Nat \ {0} /\ n \in Nat BY DEF Target
<1>2. j = Relocate(i, m, at + size, n - size, r, z) BY DEF Relocate
<1>3. /\ j.small = small /\ j.large = large
      /\ j.dbg = ShiftedInfo(i.dbg, at + size, n - size)
      /\ j.strBytes = i.strBytes /\ j.reBytes = i.reBytes
  <2> HIDE DEF small, large
  <2> QED BY DEF Image
<1>4. \A s \in Span : sp(s).at = sh(s.at) BY <1>1, SpliceShiftsStart
<1>5. /\ m.debug = sp(l.debug)
      /\ \A f \in Fns : m.body[f] = sp(l.body[f])
      /\ \A f \in Overflowed : m.large[f] = sp(l.large[f])
      /\ \A f \in HasInfo : m.info[f] = sp(l.info[f])
  BY SpliceFields
<1>6. /\ l.debug \in Span
      /\ \A f \in Fns : l.body[f] \in Span
      /\ \A f \in Overflowed : l.large[f] \in Span
      /\ \A f \in HasInfo : l.info[f] \in Span
  BY LayoutFields
<1>7. \A v \in Int : sh(v) \in Int BY <1>1 DEF Shifted
<1>8. /\ \A f \in Fns : i.small[f] \in Header
      /\ \A f \in Overflowed : i.large[f] \in Header
      /\ i.dbg \in Int /\ i.strBytes \in Nat /\ i.reBytes \in Nat
      /\ i.fileLength \in Int /\ i.regs \in [Fns -> Regs]
  BY DEF Image
<1>9. \A f \in Overflowed : f \in Fns BY ImageAssumption
<1>10. \A f \in Fns : InfoAt(m, f) = IF InfoAt(l, f) = 0 THEN 0
                                      ELSE sh(InfoAt(l, f))
  <2>1. \A f \in HasInfo : l.info[f].at # 0
    <3>1. \A s \in Span : s.at >= at + size => s.at # 0 BY <1>1 DEF Span
    <3>2. \A f \in HasInfo : l.info[f].at >= at + size
      BY DEF Target, TailBehind
    <3> QED BY <1>6, <3>1, <3>2
  <2>2. \A f \in HasInfo : m.info[f].at = sh(l.info[f].at) BY <1>4, <1>5, <1>6
  <2> HIDE DEF m, sh
  <2> QED BY <2>1, <2>2 DEF InfoAt
<1>11. \A f \in Fns : m.body[f].at = sh(l.body[f].at)
  BY <1>4, <1>5, <1>6
<1>12. \A f \in Overflowed : m.large[f].at = sh(l.large[f].at)
  BY <1>4, <1>5, <1>6
<1>13. m.debug.at = sh(l.debug.at) BY <1>4, <1>5, <1>6
<1>14. \A f \in Fns : m.body[f].len = NewSize(f, r, z, l.body[f].len)
  BY <1>5
<1>15. \A f \in Fns \ Overflowed :
         /\ small[f].at = sh(i.small[f].at)
         /\ small[f].size = NewSize(f, r, z, i.small[f].size)
         /\ small[f].info = IF i.small[f].info = 0 THEN 0 ELSE sh(i.small[f].info)
  BY DEF RelocatedSmall, ShiftedInfo
<1>16. \A f \in Overflowed : small[f].at = sh(i.small[f].at)
  BY <1>8, <1>9 DEF RelocatedSmall, Header
<1>17. \A g \in Overflowed : users(g) = {g}
  <2>1. \A f \in Overflowed : small[f].at = m.large[f].at
    BY <1>12, <1>16 DEF OutOfLineDirect
  <2>2. \A f, g \in Overflowed : f # g => m.large[f].at # m.large[g].at
    BY DEF Disjoint
  <2> HIDE DEF small, m
  <2> QED BY <2>1, <2>2
<1>18. \A g \in Overflowed :
         large[g] = RelocatedLarge(i.large[g], g, at + size, n - size, r, z)
  <2>1. \A g \in Overflowed : (CHOOSE f \in {g} : TRUE) = g OBVIOUS
  <2> HIDE DEF users
  <2> QED BY <1>17, <2>1
<1>19. \A g \in Overflowed :
         /\ large[g].at = sh(i.large[g].at)
         /\ large[g].size = NewSize(g, r, z, i.large[g].size)
         /\ ~Modern => large[g].info = IF i.large[g].info = 0 THEN 0
                                       ELSE sh(i.large[g].info)
  <2>1. \A g \in Overflowed, h \in Header :
          LET k == RelocatedLarge(h, g, at + size, n - size, r, z)
          IN  /\ k.at = sh(h.at)
              /\ k.size = NewSize(g, r, z, h.size)
              /\ ~Modern => k.info = IF h.info = 0 THEN 0 ELSE sh(h.info)
    BY DEF RelocatedLarge, ShiftedInfo
  <2> HIDE DEF large, sh
  <2> QED BY <1>8, <1>18, <2>1
<1>20. \A f \in Fns : small[f] \in Header
  <2>1. \A h \in Header : /\ h.at \in Int /\ h.size \in Int /\ h.info \in Int
                          /\ h = [at |-> h.at, size |-> h.size, info |-> h.info]
    BY DEF Header
  <2>2. \A f \in Fns, h \in Header :
          RelocatedSmall(h, f, at + size, n - size, r, z) \in Header
    BY <1>1, <2>1, <1>7 DEF RelocatedSmall, Header, ShiftedInfo, NewSize
  <2> QED BY <1>8, <2>2
<1>21. \A g \in Overflowed : large[g] \in Header
  <2>1. \A h \in Header : h.at \in Int /\ h.size \in Int /\ h.info \in Int
    BY DEF Header
  <2>2. \A f \in Fns, h \in Header :
          RelocatedLarge(h, f, at + size, n - size, r, z) \in Header
    BY <1>1, <2>1, <1>7 DEF RelocatedLarge, Header, ShiftedInfo, NewSize
  <2> HIDE DEF large
  <2> QED BY <1>8, <1>9, <1>18, <2>2
<1>22. j \in Image
  <2>1. small \in [Fns -> Header] BY <1>20
  <2>2. large \in [Overflowed -> Header]
    <3>1. large = [g \in Overflowed |-> large[g]] OBVIOUS
    <3> HIDE DEF large
    <3> QED BY <1>21, <3>1
  <2>3. ShiftedInfo(i.dbg, at + size, n - size) \in Int
    BY <1>7, <1>8 DEF ShiftedInfo
  <2>4. \A x \in [Fns -> Header], y \in [Overflowed -> Header], d \in Int :
          [i EXCEPT !.small = x, !.large = y, !.dbg = d] \in Image
    BY DEF Image
  <2> HIDE DEF small, large
  <2> QED BY <2>1, <2>2, <2>3, <2>4
<1>23. j.dbg = IF i.dbg = 0 THEN 0 ELSE i.dbg + (n - size)
  <2>1. i.dbg # 0 => i.dbg >= at + size /\ i.dbg \in Int
    BY <1>8 DEF DebugDirect, Target, TailBehind
  <2>2. \A v \in Int : v >= at + size => ~(v < at + size) BY <1>1
  <2>3. i.dbg # 0 => Shifted(i.dbg, at + size, n - size) = i.dbg + (n - size)
    BY <2>1, <2>2 DEF Shifted
  <2> HIDE DEF j
  <2> QED BY <1>3, <2>3 DEF ShiftedInfo
<1>24. DebugDirect(j, m)
  <2> HIDE DEF j, m, sh
  <2>1. ShiftedInfo(i.dbg, at + size, n - size) =
          IF i.dbg = 0 THEN 0 ELSE sh(i.dbg)
    BY DEF ShiftedInfo, sh
  <2> QED BY <1>3, <1>13, <2>1 DEF DebugDirect
<1> HIDE DEF j, m, sp, sh, small, large, users
<1>25. PlainDirect(j, m)
  <2> SUFFICES ASSUME NEW f \in Fns \ Overflowed
               PROVE  /\ j.small[f].at = m.body[f].at
                      /\ j.small[f].size = m.body[f].len
                      /\ j.small[f].info = InfoAt(m, f)
    BY DEF PlainDirect
  <2>1. /\ i.small[f].at = l.body[f].at
        /\ i.small[f].size = l.body[f].len
        /\ i.small[f].info = InfoAt(l, f)
    BY DEF PlainDirect
  <2> QED BY <1>3, <1>10, <1>11, <1>14, <1>15, <2>1
<1>26. OutOfLineDirect(j, m)
  <2> SUFFICES ASSUME NEW f \in Overflowed
               PROVE  /\ j.small[f].at = m.large[f].at
                      /\ j.large[f].at = m.body[f].at
                      /\ j.large[f].size = m.body[f].len
                      /\ ~Modern => j.large[f].info = InfoAt(m, f)
    BY DEF OutOfLineDirect
  <2>1. /\ i.small[f].at = l.large[f].at
        /\ i.large[f].at = l.body[f].at
        /\ i.large[f].size = l.body[f].len
        /\ ~Modern => i.large[f].info = InfoAt(l, f)
    BY DEF OutOfLineDirect
  <2>2. f \in Fns BY <1>9
  <2> QED BY <1>3, <1>10, <1>11, <1>12, <1>14, <1>16, <1>19, <2>1, <2>2
<1> QED BY <1>2, <1>3, <1>22, <1>23, <1>24, <1>25, <1>26 DEF m

-----------------------------------------------------------------------------
(***************************************************************************)
(* The three regions that operations splice.                                *)
(***************************************************************************)

\* A span lies behind `from' when what it lies behind does.
LEMMA BehindChain ==
  ASSUME NEW a \in Span, NEW b \in Span, NEW from \in Nat,
         Before(a, b), a.at >= from \/ End(a) >= from
  PROVE  b.at >= from /\ End(b) >= from
BY DEF Span, Before, End

\* In a file in order, everything behind the string region is behind its end.
LEMMA StringsTarget ==
  ASSUME NEW l \in Layout, WellLaid(l)
  PROVE  Target(l, BaseAt, l.strings.len)
<1> DEFINE from == BaseAt + l.strings.len
<1>1. /\ l.strings \in Span /\ l.regexp \in Span /\ l.debug \in Span
      /\ \A f \in Fns : l.body[f] \in Span
      /\ \A f \in Overflowed : l.large[f] \in Span
      /\ \A f \in HasInfo : l.info[f] \in Span
  BY LayoutFields
<1>2. BaseAt \in Nat /\ GapLen \in Nat BY ImageAssumption
<1>3. l.strings.len \in Nat \ {0} /\ l.strings.at = BaseAt
  BY <1>1 DEF Span, WellLaid, InOrder
<1>4. l.regexp.at >= from
  BY <1>1, <1>2, <1>3 DEF Span, WellLaid, InOrder, End
<1>5. from \in Nat BY <1>2, <1>3
<1>6. \A a, b \in Span : Before(a, b) /\ a.at >= from => b.at >= from
  BY <1>5, BehindChain
<1>7. l.debug.at >= from BY <1>1, <1>4, <1>6 DEF WellLaid, InOrder
<1>8. \A f \in Fns : l.body[f].at >= from
  BY <1>1, <1>4, <1>6 DEF WellLaid, InOrder
<1>9. \A f \in Overflowed : l.large[f].at >= from
  BY <1>1, <1>6, <1>8, ImageAssumption DEF WellLaid, InOrder
<1>10. \A f \in HasInfo : l.info[f].at >= from
  BY <1>1, <1>6, <1>8, ImageAssumption DEF WellLaid, InOrder, HasInfo
<1>11. l.strings.at < from BY <1>2, <1>3
<1> QED BY <1>2, <1>3, <1>4, <1>7, <1>8, <1>9, <1>10, <1>11
        DEF Target, AllClear, TailBehind, Clear

\* The RegExp storage: the strings end before it, the rest is behind its end.
LEMMA RegexpTarget ==
  ASSUME NEW l \in Layout, WellLaid(l), l.regexp.len > 0
  PROVE  Target(l, l.regexp.at, l.regexp.len)
<1> DEFINE from == l.regexp.at + l.regexp.len
<1>1. /\ l.strings \in Span /\ l.regexp \in Span /\ l.debug \in Span
      /\ \A f \in Fns : l.body[f] \in Span
      /\ \A f \in Overflowed : l.large[f] \in Span
      /\ \A f \in HasInfo : l.info[f] \in Span
  BY LayoutFields
<1>2. GapLen \in Nat BY ImageAssumption
<1>3. l.regexp.at \in Nat /\ l.regexp.len \in Nat \ {0} BY <1>1 DEF Span
<1>4. End(l.strings) <= l.regexp.at /\ l.strings.at < from
  BY <1>1, <1>2, <1>3 DEF Span, WellLaid, InOrder, End
<1>5. from \in Nat /\ from = End(l.regexp) BY <1>3 DEF End
<1>6. \A a, b \in Span : Before(a, b) /\ (a.at >= from \/ End(a) >= from)
                           => b.at >= from
  BY <1>5, BehindChain
<1>7. End(l.regexp) >= from BY <1>5
<1>8. l.debug.at >= from BY <1>1, <1>6, <1>7 DEF WellLaid, InOrder
<1>9. \A f \in Fns : l.body[f].at >= from
  BY <1>1, <1>6, <1>7 DEF WellLaid, InOrder
<1>10. \A f \in Overflowed : l.large[f].at >= from
  BY <1>1, <1>6, <1>9, ImageAssumption DEF WellLaid, InOrder
<1>11. \A f \in HasInfo : l.info[f].at >= from
  BY <1>1, <1>6, <1>9, ImageAssumption DEF WellLaid, InOrder, HasInfo
<1> QED BY <1>3, <1>4, <1>8, <1>9, <1>10, <1>11
        DEF Target, AllClear, TailBehind, Clear

\* A function body: other bodies are on one side of it, headers and info records
\* behind all of them.
LEMMA BodyTarget ==
  ASSUME NEW l \in Layout, WellLaid(l), NEW f \in Fns
  PROVE  Target(l, l.body[f].at, l.body[f].len)
<1> DEFINE at == l.body[f].at
           from == at + l.body[f].len
<1>1. /\ l.strings \in Span /\ l.regexp \in Span /\ l.debug \in Span
      /\ \A g \in Fns : l.body[g] \in Span
      /\ \A g \in Overflowed : l.large[g] \in Span
      /\ \A g \in HasInfo : l.info[g] \in Span
  BY LayoutFields
<1>2. at \in Nat /\ l.body[f].len \in Nat \ {0}
  BY <1>1 DEF Span, WellLaid, Disjoint
<1>3. from \in Nat /\ from = End(l.body[f]) BY <1>2 DEF End
<1>4. End(l.regexp) <= at BY DEF WellLaid, InOrder, Before
<1>5. End(l.strings) <= at /\ l.strings.at < from
  <2>1. GapLen \in Nat BY ImageAssumption
  <2>2. l.regexp.at = End(l.strings) + GapLen BY DEF WellLaid, InOrder
  <2> QED BY <1>1, <1>2, <1>4, <2>1, <2>2 DEF Span, End
<1>6. \A s \in Span : Before(l.body[f], s) => s.at >= from
  BY <1>3 DEF Before
<1>7. \A g \in Fns : Clear(l.body[g], at, l.body[f].len)
  <2>1. \A g \in Fns : g # f => End(l.body[g]) <= at \/ l.body[g].at >= from
    BY <1>1, <1>6 DEF WellLaid, Disjoint, Before
  <2> QED BY <2>1 DEF Clear
<1>8. /\ \A g \in Overflowed : l.large[g].at >= from
      /\ \A g \in HasInfo : l.info[g].at >= from
      /\ l.debug.at >= from
  BY <1>1, <1>6 DEF WellLaid, InOrder
<1> HIDE DEF from
<1>9. from = at + l.body[f].len BY DEF from
<1> QED BY <1>2, <1>4, <1>5, <1>7, <1>8, <1>9
        DEF Target, AllClear, TailBehind, Clear

\* Only the spliced body changes its length.
LEMMA BodyLengths ==
  ASSUME NEW l \in Layout, WellLaid(l), NEW n \in Nat
  PROVE  /\ \A f, g \in Fns :
              SpliceSpan(l.body[g], l.body[f].at, l.body[f].len, n).len =
                NewSize(g, f, n, l.body[g].len)
         /\ \A at, size \in Nat : \A g \in Fns :
              l.body[g].at >= at + size =>
                SpliceSpan(l.body[g], at, size, n).len = l.body[g].len
<1>1. \A g \in Fns : l.body[g] \in Span /\ l.body[g].len > 0
  BY LayoutFields DEF WellLaid, Disjoint
<1>2. ASSUME NEW f \in Fns, NEW g \in Fns, f # g
      PROVE  l.body[g].at # l.body[f].at
  BY <1>1, <1>2 DEF WellLaid, Disjoint, Before, End, Span
<1>3. ASSUME NEW f \in Fns, NEW g \in Fns
      PROVE  SpliceSpan(l.body[g], l.body[f].at, l.body[f].len, n).len =
                NewSize(g, f, n, l.body[g].len)
  <2>1. CASE f = g BY <1>1, <2>1 DEF SpliceSpan, NewSize, Span
  <2>2. CASE f # g BY <1>2, <2>2 DEF SpliceSpan, NewSize
  <2> QED BY <2>1, <2>2
<1> QED BY <1>3 DEF SpliceSpan

\* The two sections located by size, under each of the three splices.
LEMMA SectionsAfterBody ==
  ASSUME NEW l \in Layout, WellLaid(l), NEW f \in Fns, NEW n \in Nat
  PROVE  LET m == Splice(l, l.body[f].at, l.body[f].len, n) IN
         SectionsFollow(m) /\ m.strings.len = l.strings.len
                           /\ m.regexp.len = l.regexp.len
<1> DEFINE at == l.body[f].at
           size == l.body[f].len
           m == Splice(l, at, size, n)
<1>1. l.strings \in Span /\ l.regexp \in Span /\ l.body[f] \in Span
  BY LayoutFields
<1>2. m.strings = SpliceSpan(l.strings, at, size, n)
      /\ m.regexp = SpliceSpan(l.regexp, at, size, n)
  BY SpliceFields
<1>3. GapLen \in Nat BY ImageAssumption
<1>4. /\ End(l.regexp) <= at /\ l.regexp.at = End(l.strings) + GapLen
      /\ l.strings.at = BaseAt /\ l.strings.len > 0 /\ size > 0
      /\ l.strings.len % 4 = 0 /\ l.regexp.len % 4 = 0
  BY DEF WellLaid, InOrder, Disjoint, Aligned, Before
<1>5. l.strings.at < at /\ l.regexp.at <= at /\ End(l.strings) <= at
  BY <1>1, <1>3, <1>4 DEF Span, End
<1>6. /\ SpliceSpan(l.strings, at, size, n).at = l.strings.at
      /\ SpliceSpan(l.strings, at, size, n).len = l.strings.len
  BY <1>1, <1>4, <1>5 DEF SpliceSpan, Span
<1>7. /\ SpliceSpan(l.regexp, at, size, n).at = l.regexp.at
      /\ SpliceSpan(l.regexp, at, size, n).len = l.regexp.len
  BY <1>1, <1>4, <1>5 DEF SpliceSpan, Span, End
<1> HIDE DEF m
<1>8. SectionsFollow(m) /\ m.strings.len = l.strings.len
                        /\ m.regexp.len = l.regexp.len
  BY <1>2, <1>4, <1>6, <1>7 DEF SectionsFollow, End
<1> QED BY <1>8 DEF m

LEMMA SectionsAfterStrings ==
  ASSUME NEW l \in Layout, WellLaid(l), NEW n \in Nat \ {0}, n % 4 = 0
  PROVE  LET m == Splice(l, BaseAt, l.strings.len, n) IN
         SectionsFollow(m) /\ m.strings.len = n /\ m.regexp.len = l.regexp.len
<1> DEFINE size == l.strings.len
           m == Splice(l, BaseAt, size, n)
<1>1. l.strings \in Span /\ l.regexp \in Span BY LayoutFields
<1>2. m.strings = SpliceSpan(l.strings, BaseAt, size, n)
      /\ m.regexp = SpliceSpan(l.regexp, BaseAt, size, n)
  BY SpliceFields
<1>3. GapLen \in Nat /\ BaseAt \in Nat BY ImageAssumption
<1>4. /\ l.regexp.at = End(l.strings) + GapLen
      /\ l.strings.at = BaseAt /\ l.strings.len > 0
      /\ l.regexp.len % 4 = 0
  BY DEF WellLaid, InOrder, Aligned
<1>5. size \in Nat \ {0} /\ l.regexp.at >= BaseAt + size
  BY <1>1, <1>3, <1>4 DEF Span, End
<1>6. SpliceSpan(l.strings, BaseAt, size, n) = [at |-> BaseAt, len |-> n]
  BY <1>1, <1>3, <1>4, <1>5 DEF SpliceSpan, Span
<1>7. SpliceSpan(l.regexp, BaseAt, size, n) =
        [at |-> l.regexp.at + (n - size), len |-> l.regexp.len]
  BY <1>5 DEF SpliceSpan
<1>8. l.regexp.at + (n - size) = BaseAt + n + GapLen
  BY <1>1, <1>3, <1>4, <1>5 DEF Span, End
<1> HIDE DEF m
<1>9. SectionsFollow(m) /\ m.strings.len = n /\ m.regexp.len = l.regexp.len
  BY <1>2, <1>3, <1>4, <1>6, <1>7, <1>8 DEF SectionsFollow, End
<1> QED BY <1>9 DEF m

LEMMA SectionsAfterRegexp ==
  ASSUME NEW l \in Layout, WellLaid(l), l.regexp.len > 0,
         NEW n \in Nat \ {0}, n % 4 = 0
  PROVE  LET m == Splice(l, l.regexp.at, l.regexp.len, n) IN
         SectionsFollow(m) /\ m.strings.len = l.strings.len /\ m.regexp.len = n
<1> DEFINE at == l.regexp.at
           size == l.regexp.len
           m == Splice(l, at, size, n)
<1>1. l.strings \in Span /\ l.regexp \in Span BY LayoutFields
<1>2. m.strings = SpliceSpan(l.strings, at, size, n)
      /\ m.regexp = SpliceSpan(l.regexp, at, size, n)
  BY SpliceFields
<1>3. GapLen \in Nat /\ BaseAt \in Nat BY ImageAssumption
<1>4. /\ at = End(l.strings) + GapLen
      /\ l.strings.at = BaseAt /\ l.strings.len > 0 /\ l.strings.len % 4 = 0
  BY DEF WellLaid, InOrder, Aligned
<1>5. l.strings.at < at
  BY <1>1, <1>3, <1>4 DEF Span, End
<1>6. /\ SpliceSpan(l.strings, at, size, n).at = l.strings.at
      /\ SpliceSpan(l.strings, at, size, n).len = l.strings.len
  BY <1>1, <1>5 DEF SpliceSpan, Span
<1>7. SpliceSpan(l.regexp, at, size, n) = [at |-> at, len |-> n]
  BY <1>1 DEF SpliceSpan, Span
<1> HIDE DEF m
<1>8. SectionsFollow(m) /\ m.strings.len = l.strings.len /\ m.regexp.len = n
  BY <1>2, <1>4, <1>6, <1>7 DEF SectionsFollow, End
<1> QED BY <1>8 DEF m

-----------------------------------------------------------------------------
(***************************************************************************)
(* One edit of a good file.                                                 *)
(***************************************************************************)

\* A file whose regions are laid out as they should be and whose stored fields
\* name them.
Good(i, l) == l \in Layout /\ i \in Image /\ WellLaid(l) /\ Direct(i, l)

\* The parser reads a good file's headers truly: an overflowed function's pointer
\* leads to its own large header.
LEMMA HeadersRead ==
  ASSUME NEW i, NEW l, Good(i, l)
  PROVE  /\ HeadersResolve(i, l)
         /\ \A f \in Fns : /\ Parse(i, l).fn[f].at = l.body[f].at
                            /\ Parse(i, l).fn[f].size = l.body[f].len
         /\ Parse(i, l).strBytes = i.strBytes /\ Parse(i, l).reBytes = i.reBytes
         /\ Parse(i, l).dbg = i.dbg
         /\ \A f \in Fns : FunctionHeaderOf(i, l, f) \in Header
<1>1. /\ \A f \in Fns : i.small[f] \in Header
      /\ \A f \in Overflowed : i.large[f] \in Header
  BY DEF Good, Image
<1>2. /\ \A g \in Fns : l.body[g] \in Span
      /\ \A g \in Overflowed : l.large[g] \in Span
      /\ \A g \in HasInfo : l.info[g] \in Span
  BY LayoutFields DEF Good
<1>3. \A h \in Header : /\ h = [at |-> h.at, size |-> h.size, info |-> h.info]
                        /\ h.at \in Int /\ h.size \in Int /\ h.info \in Int
  BY DEF Header
<1>4. ASSUME NEW f \in Fns
      PROVE  /\ FunctionHeaderOf(i, l, f) = TrueHeader(l, f)
             /\ FunctionHeaderOf(i, l, f) \in Header
  <2>1. CASE f \notin Overflowed
    <3>1. FunctionHeaderOf(i, l, f) = i.small[f]
      BY <2>1 DEF FunctionHeaderOf
    <3>2. /\ i.small[f].at = l.body[f].at /\ i.small[f].size = l.body[f].len
          /\ i.small[f].info = InfoAt(l, f)
      BY <2>1 DEF Good, Direct, PlainDirect
    <3>3. i.small[f] = [at |-> i.small[f].at, size |-> i.small[f].size,
                        info |-> i.small[f].info]
      BY <1>1, <1>3
    <3>4. TrueHeader(l, f) = [at |-> l.body[f].at, size |-> l.body[f].len,
                              info |-> InfoAt(l, f)]
      BY <2>1 DEF TrueHeader, InfoAt
    <3> QED BY <1>1, <3>1, <3>2, <3>3, <3>4
  <2>2. CASE f \in Overflowed
    <3>1. LargeAt(l, i.small[f].at) = {f}
      BY <2>2 DEF LargeAt, Good, Direct, OutOfLineDirect, WellLaid, Disjoint
    <3>2. (CHOOSE g \in LargeAt(l, i.small[f].at) : TRUE) = f BY <3>1
    <3> DEFINE h == i.large[f]
    <3>3. FunctionHeaderOf(i, l, f) =
            IF Modern THEN [h EXCEPT !.info = i.small[f].at + LargeSize] ELSE h
      BY <2>2, <3>1, <3>2 DEF FunctionHeaderOf
    <3>4. /\ i.small[f].at = l.large[f].at
          /\ h.at = l.body[f].at /\ h.size = l.body[f].len
          /\ ~Modern => h.info = InfoAt(l, f)
      BY <2>2 DEF Good, Direct, OutOfLineDirect
    <3>5. h \in Header BY <1>1, <2>2
    <3>6. CASE Modern
      <4>1. FunctionHeaderOf(i, l, f) =
              [at |-> h.at, size |-> h.size, info |-> l.large[f].at + LargeSize]
        <5>1. \A k \in Header : \A x : [k EXCEPT !.info = x] =
                [at |-> k.at, size |-> k.size, info |-> x]
          BY DEF Header
        <5> QED BY <3>3, <3>4, <3>5, <3>6, <5>1
      <4>2. TrueHeader(l, f) =
              [at |-> h.at, size |-> h.size, info |-> l.large[f].at + LargeSize]
        BY <2>2, <3>4, <3>6 DEF TrueHeader, Good, WellLaid, Disjoint
      <4>3. l.large[f].at + LargeSize \in Int
        BY <1>2, <2>2, ImageAssumption DEF Span
      <4>4. h.at \in Int /\ h.size \in Int BY <1>3, <3>5
      <4> QED BY <4>1, <4>2, <4>3, <4>4 DEF Header
    <3>7. CASE ~Modern
      <4>1. FunctionHeaderOf(i, l, f) = h BY <3>3, <3>7
      <4>2. h = [at |-> h.at, size |-> h.size, info |-> h.info] BY <1>3, <3>5
      <4>3. TrueHeader(l, f) = [at |-> l.body[f].at, size |-> l.body[f].len,
                                info |-> InfoAt(l, f)]
        BY <3>7 DEF TrueHeader, InfoAt
      <4> QED BY <3>4, <3>5, <3>7, <4>1, <4>2, <4>3
    <3> QED BY <3>6, <3>7
  <2> QED BY <2>1, <2>2
<1>5. HeadersResolve(i, l)
  BY <1>4 DEF HeadersResolve, Good, Direct, OutOfLineDirect
<1>6. \A f \in Fns : /\ TrueHeader(l, f).at = l.body[f].at
                     /\ TrueHeader(l, f).size = l.body[f].len
  BY DEF TrueHeader
<1>7. \A f \in Fns : /\ FunctionHeaderOf(i, l, f).at = l.body[f].at
                     /\ FunctionHeaderOf(i, l, f).size = l.body[f].len
  BY <1>4, <1>6
<1>8. Parse(i, l).fn = [f \in Fns |-> FunctionHeaderOf(i, l, f)]
  BY DEF Parse
<1> QED BY <1>4, <1>5, <1>7, <1>8 DEF Parse

\* A splice of as many bytes as were there leaves the layout alone.
LEMMA SameSizeKeepsLayout ==
  ASSUME NEW l \in Layout, NEW at \in Nat, NEW size \in Nat
  PROVE  Splice(l, at, size, size) = l
<1>1. \A s \in Span : SpliceSpan(s, at, size, size) = s
  BY SameSizeMovesNothing
<1>2. /\ l.strings \in Span /\ l.regexp \in Span /\ l.debug \in Span
      /\ \A f \in Fns : l.body[f] \in Span
      /\ \A f \in Overflowed : l.large[f] \in Span
      /\ \A f \in HasInfo : l.info[f] \in Span
  BY LayoutFields
<1>3. /\ [f \in Fns |-> SpliceSpan(l.body[f], at, size, size)] = l.body
      /\ [f \in Overflowed |-> SpliceSpan(l.large[f], at, size, size)] = l.large
      /\ [f \in HasInfo |-> SpliceSpan(l.info[f], at, size, size)] = l.info
  BY <1>1, <1>2 DEF Layout
<1>4. l = [strings |-> l.strings, regexp |-> l.regexp, debug |-> l.debug,
           body |-> l.body, large |-> l.large, info |-> l.info]
  BY DEF Layout
<1> QED BY <1>1, <1>2, <1>3, <1>4 DEF Splice

\* A body edit keeps a file good: the code sections are where they were, and
\* relocate has followed everything behind the body.
LEMMA BodyEditGood ==
  ASSUME NEW i, NEW l, NEW m, NEW f \in Fns, NEW n \in Nat \ {0}, Good(i, l),
         m.fn[f].at = l.body[f].at, m.fn[f].size = l.body[f].len,
         BodyFits(m, i, l, f, n)
  PROVE  Good(BodyImage(m, i, l, f, n), SpliceBody(m, l, f, n))
<1> DEFINE at == l.body[f].at
           size == l.body[f].len
           k == Splice(l, at, size, n)
<1>1. SpliceBody(m, l, f, n) = k BY DEF SpliceBody
<1>2. l.body[f] \in Span /\ at \in Nat /\ size \in Nat
  BY LayoutFields DEF Good, Span
<1>3. CASE n = size
  <2>1. k = l BY <1>2, <1>3, SameSizeKeepsLayout DEF Good
  <2>2. BodyImage(m, i, l, f, n) = i BY <1>3 DEF BodyImage
  <2> QED BY <1>1, <2>1, <2>2
<1>4. CASE n # size
  <2> DEFINE j == Relocate(i, k, at + size, n - size, f, n)
  <2>1. BodyImage(m, i, l, f, n) = j BY <1>1, <1>4 DEF BodyImage
  <2>2. (n - size) % 4 = 0 BY <1>4 DEF BodyFits, RelocationFits
  <2>3. l \in Layout /\ i \in Image /\ WellLaid(l) BY DEF Good
  <2>4. Target(l, at, size) BY <2>3, BodyTarget
  <2>5. /\ SectionsFollow(k) /\ k.strings.len = l.strings.len
        /\ k.regexp.len = l.regexp.len
    BY <2>3, SectionsAfterBody
  <2>6. k \in Layout /\ WellLaid(k) BY <2>2, <2>3, <2>4, <2>5, SpliceKeepsLayout
  <2>7. /\ SectionsResolve(i, l) /\ PlainDirect(i, l)
        /\ OutOfLineDirect(i, l) /\ DebugDirect(i, l)
    BY DEF Good, Direct, SectionsResolve, DebugDirect
  <2>8. \A g \in Fns : SpliceSpan(l.body[g], at, size, n).len =
                          NewSize(g, f, n, l.body[g].len)
    BY <2>3, BodyLengths
  <2>9. /\ PlainDirect(j, k) /\ OutOfLineDirect(j, k) /\ DebugDirect(j, k)
        /\ j \in Image /\ j.strBytes = i.strBytes /\ j.reBytes = i.reBytes
    BY <2>3, <2>4, <2>6, <2>7, <2>8, RelocateTracksSplice DEF WellLaid
  <2>10. SectionsResolve(j, k)
    BY <2>5, <2>7, <2>9 DEF SectionsResolve, DebugDirect
  <2> QED BY <1>1, <2>1, <2>6, <2>9, <2>10 DEF Good, Direct
<1> QED BY <1>3, <1>4
\* Rebuilding the strings or the RegExp storage keeps a file good: `e' is the
\* image with its counts already updated, and no function is resized.
LEMMA RegionEditGood ==
  ASSUME NEW i, NEW l, Good(i, l), NEW e \in Image,
         e.small = i.small, e.large = i.large, e.dbg = i.dbg,
         NEW at, NEW size, NEW n \in Nat \ {0}, (n - size) % 4 = 0,
         Target(l, at, size), \A f \in Fns : l.body[f].at >= at + size,
         SectionsFollow(Splice(l, at, size, n)),
         Align4(e.strBytes) = Splice(l, at, size, n).strings.len,
         Align4(e.reBytes) = Splice(l, at, size, n).regexp.len
  PROVE  Good(RegionImage(e, Splice(l, at, size, n), at + size, n - size),
              Splice(l, at, size, n))
<1> DEFINE m == Splice(l, at, size, n)
           j == Relocate(e, m, at + size, n - size, NoFn, 0)
<1>1. l \in Layout /\ i \in Image /\ WellLaid(l) BY DEF Good
<1>2. m \in Layout /\ WellLaid(m) BY <1>1, SpliceKeepsLayout
<1>3. PlainDirect(e, l) /\ OutOfLineDirect(e, l) /\ DebugDirect(e, l)
  BY DEF Good, Direct, SectionsResolve, PlainDirect, OutOfLineDirect, DebugDirect
<1>4. \A f \in Fns : SpliceSpan(l.body[f], at, size, n).len =
                      NewSize(f, NoFn, 0, l.body[f].len)
  <2>1. at \in Nat /\ size \in Nat BY DEF Target
  <2>2. \A f \in Fns : f # NoFn BY ImageAssumption
  <2>3. \A x, y \in Nat : \A g \in Fns :
          l.body[g].at >= x + y => SpliceSpan(l.body[g], x, y, n).len = l.body[g].len
    BY <1>1, BodyLengths
  <2>4. \A f \in Fns : SpliceSpan(l.body[f], at, size, n).len = l.body[f].len
    BY <2>1, <2>3
  <2> QED BY <2>2, <2>4 DEF NewSize
<1>5. /\ PlainDirect(j, m) /\ OutOfLineDirect(j, m) /\ DebugDirect(j, m)
      /\ j \in Image /\ j.strBytes = e.strBytes /\ j.reBytes = e.reBytes
  BY <1>1, <1>2, <1>3, <1>4, RelocateTracksSplice DEF WellLaid
<1>6. SectionsResolve(j, m) BY <1>5 DEF SectionsResolve, DebugDirect
<1> QED BY <1>2, <1>5, <1>6 DEF RegionImage, Good, Direct

\* Section positions computed from parsed sizes are the true ones.
LEMMA ParsedSections ==
  ASSUME NEW i, NEW l, Good(i, l)
  PROVE  /\ ArrayOff(Parse(i, l)) - BaseAt = l.strings.len
         /\ ArrayOff(Parse(i, l)) = BaseAt + l.strings.len
         /\ RegexpOff(Parse(i, l)) = l.regexp.at
         /\ RegexpEnd(Parse(i, l)) - RegexpOff(Parse(i, l)) = l.regexp.len
         /\ RegexpEnd(Parse(i, l)) = l.regexp.at + l.regexp.len
<1> DEFINE m == Parse(i, l)
<1>1. m.strBytes = i.strBytes /\ m.reBytes = i.reBytes BY DEF Parse
<1>2. /\ Align4(m.strBytes) = l.strings.len
      /\ Align4(m.reBytes) = l.regexp.len
  BY <1>1 DEF Good, Direct, SectionsResolve
<1>3. l.strings \in Span /\ l.regexp \in Span BY LayoutFields DEF Good
<1>4. /\ l.strings.at = BaseAt
      /\ l.regexp.at = (l.strings.at + l.strings.len) + GapLen
  BY DEF Good, WellLaid, InOrder, End
<1>5. BaseAt \in Nat /\ GapLen \in Nat BY ImageAssumption
<1>6. /\ l.strings.len \in Nat /\ l.regexp.len \in Nat /\ l.regexp.at \in Nat
  BY <1>3 DEF Span
<1> HIDE DEF m
<1>7. /\ ArrayOff(m) = BaseAt + l.strings.len
      /\ RegexpOff(m) = l.regexp.at
      /\ RegexpEnd(m) = l.regexp.at + l.regexp.len
  BY <1>2, <1>4 DEF ArrayOff, RegexpOff, RegexpEnd
<1>8. ArrayOff(m) - BaseAt = l.strings.len /\ RegexpEnd(m) - RegexpOff(m) = l.regexp.len
  BY <1>5, <1>6, <1>7
<1> QED BY <1>7, <1>8 DEF m

\* Bodies lie behind the string region and behind the RegExp storage.
LEMMA BodiesBehindSections ==
  ASSUME NEW l \in Layout, WellLaid(l)
  PROVE  \A f \in Fns : /\ l.body[f].at >= BaseAt + l.strings.len
                        /\ l.body[f].at >= l.regexp.at + l.regexp.len
<1>1. l.strings \in Span /\ l.regexp \in Span BY LayoutFields
<1>2. \A f \in Fns : l.body[f] \in Span BY LayoutFields
<1>3. GapLen \in Nat BY ImageAssumption
<1> SUFFICES ASSUME NEW f \in Fns
             PROVE  /\ l.body[f].at >= BaseAt + l.strings.len
                    /\ l.body[f].at >= l.regexp.at + l.regexp.len
  OBVIOUS
<1>4. /\ l.strings.at = BaseAt
      /\ l.regexp.at = (l.strings.at + l.strings.len) + GapLen
      /\ l.regexp.at + l.regexp.len <= l.body[f].at
  BY DEF WellLaid, InOrder, End, Before
<1> QED BY <1>1, <1>2, <1>3, <1>4 DEF Span

-----------------------------------------------------------------------------
(***************************************************************************)
(* What the other writes do to a good file, and the invariant itself.       *)
(***************************************************************************)

\* The length of a file is a number.
LEMMA FileEndIsNat ==
  ASSUME NEW l \in Layout
  PROVE  FileEnd(l) \in Int
BY LayoutFields, ImageAssumption DEF FileEnd, End, Span

\* Committing a good image re-establishes the invariant: the length is the
\* file's, and the new model is a parse of the new bytes.
LEMMA CommitGood ==
  ASSUME NEW i, NEW l, Good(i, l), Commit(i, l)
  PROVE  IInv'
<1> DEFINE k == Finalize(i, l)
<1>1. l \in Layout /\ i \in Image /\ WellLaid(l) /\ Direct(i, l) BY DEF Good
<1>2. FileEnd(l) \in Int BY <1>1, FileEndIsNat
<1>3. /\ k \in Image /\ k.fileLength = FileEnd(l)
      /\ k.small = i.small /\ k.large = i.large /\ k.dbg = i.dbg
      /\ k.strBytes = i.strBytes /\ k.reBytes = i.reBytes /\ k.regs = i.regs
  BY <1>1, <1>2 DEF Finalize, Image
<1> HIDE DEF k
<1>4. Direct(k, l)
  BY <1>1, <1>3 DEF Direct, SectionsResolve, PlainDirect, OutOfLineDirect
<1>5. Parse(k, l) = Parse(i, l)
  BY <1>3 DEF Parse, FunctionHeaderOf
<1>6. img' = k /\ lay' = l /\ model' = Parse(k, l) BY <1>5 DEF Commit, k
<1>7. /\ model' = ParsedWith(k, l, model'.regs)
      /\ RegsTracked(model'.regs, k.regs)
  <2>1. Parse(k, l) = ParsedWith(k, l, k.regs) /\ Parse(k, l).regs = k.regs
    BY DEF Parse, ParsedWith
  <2>2. k.regs \in [Fns -> Regs] BY <1>3 DEF Image
  <2> QED BY <1>6, <2>1, <2>2 DEF RegsTracked
<1> QED BY <1>1, <1>3, <1>4, <1>6, <1>7 DEF IInv

\* What an operation reads from the model it would read from a fresh parse.
LEMMA ModelReads ==
  ASSUME IInv
  PROVE  /\ Good(img, lay)
         /\ model.fn = Parse(img, lay).fn
         /\ model.strBytes = img.strBytes /\ model.reBytes = img.reBytes
         /\ ArrayOff(model) = ArrayOff(Parse(img, lay))
         /\ RegexpOff(model) = RegexpOff(Parse(img, lay))
         /\ RegexpEnd(model) = RegexpEnd(Parse(img, lay))
<1>1. Good(img, lay) BY DEF IInv, Good
<1>2. /\ model.fn = Parse(img, lay).fn
      /\ model.strBytes = img.strBytes /\ model.reBytes = img.reBytes
      /\ Parse(img, lay).strBytes = img.strBytes
      /\ Parse(img, lay).reBytes = img.reBytes
  BY DEF IInv, Parse, ParsedWith
<1> QED BY <1>1, <1>2 DEF ArrayOff, RegexpOff, RegexpEnd

\* What a stub reserves is again a frame size and a slot count.
LEMMA ReservedTyped ==
  ASSUME NEW r \in Regs
  PROVE  Reserved(r) \in Regs
BY ImageAssumption DEF Reserved, Framed, Regs

\* A register reservation touches no offset, and the stored registers are at most
\* one reservation ahead of the parsed ones.
LEMMA ReserveGood ==
  ASSUME IInv, NEW f \in Fns, NEW kind
  PROVE  LET e == ReservedImage(f, kind)
             m == ReservedModel(f, kind)
         IN  /\ Good(e, lay) /\ e.fileLength = img.fileLength
             /\ m = ParsedWith(e, lay, m.regs)
             /\ m.fn = model.fn /\ m.dbg = img.dbg
             /\ e.small = img.small /\ e.dbg = img.dbg
             /\ RegsTracked(m.regs, e.regs)
<1> DEFINE e == ReservedImage(f, kind)
           m == ReservedModel(f, kind)
           counted == [img.regs EXCEPT ![f] = Reserved(model.regs[f])]
           known == [model.regs EXCEPT ![f] = Reserved(@)]
<1>1. lay \in Layout /\ img \in Image /\ WellLaid(lay) /\ Direct(img, lay)
  BY DEF IInv
<1>2. /\ model.regs \in [Fns -> Regs] /\ img.regs \in [Fns -> Regs]
      /\ \A g \in Fns : \/ img.regs[g] = model.regs[g]
                        \/ ~Modern /\ img.regs[g] = Reserved(model.regs[g])
  BY DEF IInv, RegsTracked, Image
<1>3. counted \in [Fns -> Regs] /\ known \in [Fns -> Regs]
  BY <1>2, ReservedTyped
<1>4. /\ e \in Image /\ e.fileLength = img.fileLength
      /\ e.small = img.small /\ e.large = img.large /\ e.dbg = img.dbg
      /\ e.strBytes = img.strBytes /\ e.reBytes = img.reBytes
      /\ e.regs = IF kind = "log" THEN counted ELSE img.regs
  BY <1>1, <1>3 DEF ReservedImage, Image
<1>5. Direct(e, lay)
  BY <1>1, <1>4 DEF Direct, SectionsResolve, PlainDirect, OutOfLineDirect
<1>6. \A g \in Fns : FunctionHeaderOf(e, lay, g) = FunctionHeaderOf(img, lay, g)
  BY <1>4 DEF FunctionHeaderOf
<1>7. ParsedWith(e, lay, m.regs) =
        [strBytes |-> img.strBytes, reBytes |-> img.reBytes, dbg |-> img.dbg,
         fn |-> [g \in Fns |-> FunctionHeaderOf(img, lay, g)], regs |-> m.regs]
  BY <1>4, <1>6 DEF ParsedWith
<1>8. model = [strBytes |-> img.strBytes, reBytes |-> img.reBytes, dbg |-> img.dbg,
               fn |-> [g \in Fns |-> FunctionHeaderOf(img, lay, g)],
               regs |-> model.regs]
  BY DEF IInv, ParsedWith
<1>9. m.regs = IF kind = "log" /\ Modern THEN known ELSE model.regs
  BY <1>8 DEF ReservedModel
<1>19. \A a, b, c, d, x, y :
        [[strBytes |-> a, reBytes |-> b, dbg |-> c, fn |-> d, regs |-> x]
           EXCEPT !.regs = y]
          = [strBytes |-> a, reBytes |-> b, dbg |-> c, fn |-> d, regs |-> y]
  OBVIOUS
<1>10. m = [strBytes |-> img.strBytes, reBytes |-> img.reBytes, dbg |-> img.dbg,
            fn |-> [g \in Fns |-> FunctionHeaderOf(img, lay, g)],
            regs |-> m.regs]
  <2>1. CASE kind = "log" /\ Modern
    <3>1. m = [model EXCEPT !.regs = known] BY <2>1 DEF ReservedModel
    <3>2. m.regs = known BY <1>9, <2>1
    <3> QED BY <1>8, <1>19, <3>1, <3>2
  <2>2. CASE ~(kind = "log" /\ Modern)
    <3>1. m = model BY <2>2 DEF ReservedModel
    <3> QED BY <1>8, <3>1
  <2> QED BY <2>1, <2>2
<1>11. m.fn = model.fn /\ m.dbg = img.dbg BY <1>8, <1>10
<1>12. RegsTracked(m.regs, e.regs)
  <2>1. m.regs \in [Fns -> Regs] BY <1>2, <1>3, <1>9
  <2>2. ASSUME NEW g \in Fns
        PROVE  e.regs[g] = m.regs[g] \/ (~Modern /\ e.regs[g] = Reserved(m.regs[g]))
    BY <1>2, <1>4, <1>9, <2>2, ImageAssumption
  <2> QED BY <2>1, <2>2 DEF RegsTracked
<1> HIDE DEF e, m
<1>13. m = ParsedWith(e, lay, m.regs) BY <1>7, <1>10
<1> QED BY <1>1, <1>4, <1>5, <1>11, <1>12, <1>13 DEF Good, e, m

\* A line delta that grows lengthens the last section and moves nothing.
LEMMA DebugGrowthGood ==
  ASSUME NEW i, NEW l, NEW grown \in Nat, Good(i, l)
  PROVE  Good(i, [l EXCEPT !.debug.len = @ + grown])
<1> DEFINE m == [l EXCEPT !.debug.len = @ + grown]
<1>1. l \in Layout /\ i \in Image /\ WellLaid(l) /\ Direct(i, l) BY DEF Good
<1>2. /\ m.strings = l.strings /\ m.regexp = l.regexp /\ m.body = l.body
      /\ m.large = l.large /\ m.info = l.info
      /\ m.debug.at = l.debug.at /\ m \in Layout
  BY <1>1 DEF Layout, Span
<1> HIDE DEF m
<1>3. WellLaid(m)
  BY <1>1, <1>2 DEF WellLaid, InOrder, Disjoint, Aligned, Before, End
<1>4. Direct(i, m)
  BY <1>1, <1>2 DEF Direct, SectionsResolve, PlainDirect, OutOfLineDirect, InfoAt
<1> QED BY <1>1, <1>2, <1>3, <1>4 DEF Good, m

\* A file as it is opened is good: padding hides at most three bytes of a section.
LEMMA InitGood ==
  ASSUME Init
  PROVE  IInv
<1>0. PICK l \in InitLayouts, p \in Paddings, q \in Paddings, r \in OpenRegs :
        \E d \in {0, l.debug.at} :
          LET sb == l.strings.len - p
              rb == IF l.regexp.len = 0 THEN 0 ELSE l.regexp.len - q
          IN  WellLaid(l) /\ lay = l /\ img = ImageOf(l, sb, rb, d, r)
              /\ model = Parse(ImageOf(l, sb, rb, d, r), l)
  BY DEF Init
<1> DEFINE sb == l.strings.len - p
           rb == IF l.regexp.len = 0 THEN 0 ELSE l.regexp.len - q
<1>1. PICK dbg \in {0, l.debug.at} :
        WellLaid(l) /\ lay = l /\ img = ImageOf(l, sb, rb, dbg, r)
        /\ model = Parse(ImageOf(l, sb, rb, dbg, r), l)
  BY <1>0
<1>2. l \in Layout /\ p \in 0 .. 3 /\ q \in 0 .. 3 BY ImageAssumption
<1>3. l.strings \in Span /\ l.regexp \in Span /\ l.debug \in Span
  BY <1>2, LayoutFields
<1>4. /\ l.strings.len \in Nat \ {0} /\ l.strings.len % 4 = 0
      /\ l.regexp.len \in Nat /\ l.regexp.len % 4 = 0
  BY <1>1, <1>3 DEF Span, WellLaid, InOrder, Aligned
<1>5. \A x \in Nat, y \in 0 .. 3 :
        x > 0 /\ x % 4 = 0 => x - y \in Nat /\ Align4(x - y) = x
  BY DEF Align4
<1>6. sb \in Nat /\ Align4(sb) = l.strings.len BY <1>2, <1>4, <1>5
<1>7. rb \in Nat /\ Align4(rb) = l.regexp.len
  <2>1. Align4(0) = 0 BY DEF Align4
  <2>2. CASE l.regexp.len = 0 BY <2>1, <2>2
  <2>3. CASE l.regexp.len # 0
    <3>1. l.regexp.len > 0 BY <1>4, <2>3
    <3>2. rb = l.regexp.len - q BY <2>3
    <3>3. l.regexp.len - q \in Nat /\ Align4(l.regexp.len - q) = l.regexp.len
      BY <1>2, <1>4, <1>5, <3>1
    <3> QED BY <3>2, <3>3
  <2> QED BY <2>2, <2>3
<1>8. dbg \in Int BY <1>3 DEF Span
<1>9. FileEnd(l) \in Int BY <1>2, FileEndIsNat
<1> HIDE DEF sb, rb
<1>10. /\ img.strBytes = sb /\ img.reBytes = rb /\ img.dbg = dbg
       /\ img.fileLength = FileEnd(l)
       /\ img.small = [f \in Fns |-> IF f \in Overflowed THEN PointerHeader(l, f)
                                     ELSE PlainHeader(l, f)]
       /\ img.large = [f \in Overflowed |-> IF Modern
                         THEN [PlainHeader(l, f) EXCEPT !.info = 0]
                         ELSE PlainHeader(l, f)]
       /\ img = [strBytes |-> sb, reBytes |-> rb, dbg |-> dbg,
                 fileLength |-> FileEnd(l), small |-> img.small,
                 large |-> img.large, regs |-> [f \in Fns |-> r]]
  BY <1>1 DEF ImageOf, sb, rb
<1>11. /\ \A f \in Fns : PlainHeader(l, f) \in Header
       /\ \A f \in Overflowed : PointerHeader(l, f) \in Header
       /\ \A f \in Fns : [PlainHeader(l, f) EXCEPT !.info = 0] \in Header
  BY <1>2, LayoutFields DEF PlainHeader, PointerHeader, Header, Span
<1>12. img \in Image
  <2>1. img.small \in [Fns -> Header] BY <1>10, <1>11, ImageAssumption
  <2>2. img.large \in [Overflowed -> Header] BY <1>10, <1>11, ImageAssumption
  <2>3. [f \in Fns |-> r] \in [Fns -> Regs]
    BY ImageAssumption DEF Regs
  <2>4. \A a, b \in Nat, c, d \in Int, x \in [Fns -> Header],
          y \in [Overflowed -> Header], z \in [Fns -> Regs] :
          [strBytes |-> a, reBytes |-> b, dbg |-> c, fileLength |-> d,
           small |-> x, large |-> y, regs |-> z] \in Image
    BY DEF Image
  <2>5. [strBytes |-> sb, reBytes |-> rb, dbg |-> dbg,
         fileLength |-> FileEnd(l), small |-> img.small,
         large |-> img.large, regs |-> [f \in Fns |-> r]] \in Image
    BY <1>6, <1>7, <1>8, <1>9, <2>1, <2>2, <2>3, <2>4
  <2>6. img = [strBytes |-> sb, reBytes |-> rb, dbg |-> dbg,
               fileLength |-> FileEnd(l), small |-> img.small,
               large |-> img.large, regs |-> [f \in Fns |-> r]]
    BY <1>10
  <2> QED BY <2>5, <2>6, Zenon
<1>13. SectionsResolve(img, l) BY <1>6, <1>7, <1>10 DEF SectionsResolve
<1>14. PlainDirect(img, l)
  <2>1. \A f \in Fns \ Overflowed : img.small[f] = PlainHeader(l, f) BY <1>10
  <2>2. \A f \in Fns : /\ PlainHeader(l, f).at = l.body[f].at
                       /\ PlainHeader(l, f).size = l.body[f].len
                       /\ PlainHeader(l, f).info = InfoAt(l, f)
    BY DEF PlainHeader, InfoAt
  <2> QED BY <2>1, <2>2 DEF PlainDirect
<1>15. OutOfLineDirect(img, l)
  <2>1. /\ \A f \in Overflowed : f \in Fns /\ img.small[f] = PointerHeader(l, f)
        /\ \A f \in Overflowed : ~Modern => img.large[f] = PlainHeader(l, f)
        /\ \A f \in Overflowed :
             Modern => img.large[f] = [PlainHeader(l, f) EXCEPT !.info = 0]
    BY <1>10, ImageAssumption
  <2>2. \A f \in Overflowed : PointerHeader(l, f).at = l.large[f].at
    BY DEF PointerHeader
  <2>3. \A f \in Fns : /\ PlainHeader(l, f).at = l.body[f].at
                       /\ PlainHeader(l, f).size = l.body[f].len
                       /\ PlainHeader(l, f).info = InfoAt(l, f)
    BY DEF PlainHeader, InfoAt
  <2>4. \A f \in Fns :
          LET k == [PlainHeader(l, f) EXCEPT !.info = 0]
          IN  k.at = l.body[f].at /\ k.size = l.body[f].len
    BY DEF PlainHeader
  <2>5. Modern \in BOOLEAN BY ImageAssumption
  <2> QED BY <2>1, <2>2, <2>3, <2>4, <2>5 DEF OutOfLineDirect
<1>16. /\ model = ParsedWith(img, l, model.regs)
       /\ RegsTracked(model.regs, img.regs)
  <2>1. model = Parse(img, l) /\ img.regs = [f \in Fns |-> r]
    BY <1>1, <1>10 DEF sb, rb
  <2>2. model.regs = [f \in Fns |-> r] BY <2>1 DEF Parse
  <2>3. [f \in Fns |-> r] \in [Fns -> Regs] BY ImageAssumption DEF Regs
  <2> QED BY <2>1, <2>2, <2>3 DEF RegsTracked, Parse, ParsedWith
<1> QED BY <1>1, <1>2, <1>10, <1>12, <1>13, <1>14, <1>15, <1>16
  DEF IInv, Direct, sb, rb

\* A successful edit of one body ends in a good file, whatever image its header
\* reservation left it with.
LEMMA CommittedBodyEdit ==
  ASSUME NEW i, NEW m, NEW f \in Fns, NEW n \in Nat \ {0}, IInv,
         Good(i, lay), m.fn = model.fn, BodyFits(m, i, lay, f, n)
  PROVE  Good(BodyImage(m, i, lay, f, n), SpliceBody(m, lay, f, n))
<1>1. Good(img, lay) BY DEF IInv, Good
<1>2. m.fn[f].at = lay.body[f].at /\ m.fn[f].size = lay.body[f].len
  BY <1>1, HeadersRead, ModelReads
<1> QED BY <1>2, BodyEditGood

\* Padding brings a size change to a multiple of four.
LEMMA PaddedSize ==
  ASSUME NEW m, NEW f, NEW n \in Nat \ {0}, m.fn[f].size \in Nat
  PROVE  /\ FinalSize(m, f, n) \in Nat \ {0}
         /\ (n - m.fn[f].size) % 4 = 0 => FinalSize(m, f, n) = n
<1>1. n - m.fn[f].size \in Int OBVIOUS
<1>2. \A d \in Int : PadFor(d) \in Nat /\ (d % 4 = 0 => PadFor(d) = 0)
  BY DEF PadFor
<1> QED BY <1>1, <1>2 DEF FinalSize

LEMMA StubLenAligned ==
  ASSUME NEW kind
  PROVE  StubLen(kind) \in Nat /\ StubLen(kind) % 4 = 0
BY ImageAssumption, AlignRoundsUp DEF StubLen

-----------------------------------------------------------------------------
(***************************************************************************)
(* One lemma per operation, then the invariant.                             *)
(***************************************************************************)

LEMMA PatchBodyKeepsGood ==
  ASSUME IInv, NEW f \in Fns, NEW c \in Contents, NEW n \in BodySizes,
         NEW upd, NEW allow, PatchBody(f, c, n, upd, allow)
  PROVE  IInv'
<1> DEFINE size == FinalSize(model, f, n)
           i == BodyImage(model, img, lay, f, size)
           l == SpliceBody(model, lay, f, size)
<1>1. Good(img, lay) BY DEF IInv, Good
<1>2. model.fn[f].size \in Nat
  <2>1. model.fn[f].size = lay.body[f].len BY <1>1, HeadersRead, ModelReads
  <2> QED BY <2>1, LayoutFields DEF IInv, Span
<1>3. n \in Nat \ {0} BY ImageAssumption
<1>4. size \in Nat \ {0} BY <1>2, <1>3, PaddedSize
<1>5. BodyFits(model, img, lay, f, size) /\ Commit(i, l)
  BY DEF PatchBody, BodyEditSucceeds
<1> HIDE DEF size
<1>6. Good(i, l) BY <1>1, <1>4, <1>5, CommittedBodyEdit
<1> QED BY <1>5, <1>6, CommitGood

LEMMA PatchBytesKeepsGood ==
  ASSUME IInv, NEW f \in Fns, NEW c \in Contents, NEW n \in BodySizes,
         PatchBytes(f, c, n)
  PROVE  IInv'
<1>1. Good(img, lay) BY DEF IInv, Good
<1>2. n \in Nat \ {0} BY ImageAssumption
<1>3. /\ BodyFits(model, img, lay, f, n)
      /\ Commit(BodyImage(model, img, lay, f, n), SpliceBody(model, lay, f, n))
  BY DEF PatchBytes, BytesSucceed
<1>4. Good(BodyImage(model, img, lay, f, n), SpliceBody(model, lay, f, n))
  BY <1>1, <1>2, <1>3, CommittedBodyEdit
<1> QED BY <1>3, <1>4, CommitGood

LEMMA InjectStubKeepsGood ==
  ASSUME IInv, NEW f \in Fns, NEW c \in Contents, NEW kind, NEW fromEnd,
         NEW allow,
         NEW grown \in Nat, InjectStub(f, c, kind, fromEnd, allow, grown)
  PROVE  IInv'
<1> DEFINE n == model.fn[f].size + StubLen(kind)
           m == ReservedModel(f, kind)
           e == ReservedImage(f, kind)
           i == BodyImage(m, e, lay, f, n)
           l == SpliceBody(m, lay, f, n)
           k == [l EXCEPT !.debug.len = @ + grown]
<1>1. Good(img, lay) BY ModelReads
<1>2. Good(e, lay) /\ m.fn = model.fn BY <1>1, ReserveGood
<1>3. model.fn[f].size \in Nat \ {0}
  <2>1. model.fn[f].size = lay.body[f].len BY <1>1, HeadersRead, ModelReads
  <2> QED BY <2>1, LayoutFields DEF IInv, Span, WellLaid, Disjoint
<1>4. n \in Nat \ {0} /\ (n - m.fn[f].size) % 4 = 0
  <2>1. \A x \in Nat \ {0}, y \in Nat : x + y \in Nat \ {0} /\ (x + y) - x = y
    OBVIOUS
  <2> QED BY <1>2, <1>3, <2>1, StubLenAligned
<1>5. FinalSize(m, f, n) = n BY <1>2, <1>3, <1>4, PaddedSize
<1>6. BodyEditSucceeds(m, e, f, c, n, "insert", TRUE)
  BY DEF InjectStub, InsertSucceeds
<1>7. Commit(i, k) BY DEF InjectStub
<1> HIDE DEF m, e, n
<1>8. BodyFits(m, e, lay, f, n) BY <1>5, <1>6 DEF BodyEditSucceeds
<1>9. Good(i, l) BY <1>2, <1>4, <1>8, CommittedBodyEdit
<1> HIDE DEF i, l
<1>10. Good(i, k) BY <1>9, DebugGrowthGood
<1> QED BY <1>7, <1>10, CommitGood

LEMMA InjectFailedKeepsGood ==
  ASSUME IInv, NEW f \in Fns, NEW c, NEW kind, NEW fromEnd, NEW allow,
         InjectFailed(f, c, kind, fromEnd, allow)
  PROVE  IInv'
<1>1. Good(img, lay) BY DEF IInv, Good
<1>2. /\ img' = ReservedImage(f, kind) /\ lay' = lay
      /\ model' = ReservedModel(f, kind)
  BY DEF InjectFailed
<1>3. /\ Good(img', lay') /\ img'.fileLength = img.fileLength
      /\ model' = ParsedWith(img', lay', model'.regs)
      /\ RegsTracked(model'.regs, img'.regs)
  BY <1>2, ReserveGood
<1> QED BY <1>2, <1>3 DEF IInv, Good

\* Rebuilding the string region writes a good file.
LEMMA StringsImageGood ==
  ASSUME IInv, NEW c, NEW b \in StringBytes, RebuildStrings(c, b)
  PROVE  Good(StringsImage(b), StringsSplice(b))
<1> DEFINE n == Align4(b)
           e == [img EXCEPT !.strBytes = b]
           size == lay.strings.len
           l == Splice(lay, BaseAt, size, n)
           i == RegionImage(e, l, BaseAt + size, n - size)
<1>1. Good(img, lay) BY ModelReads
<1>2. lay \in Layout /\ WellLaid(lay) BY DEF IInv
<1>3. b \in Nat \ {0} BY ImageAssumption
<1>4. n \in Nat \ {0} /\ n % 4 = 0 BY <1>3, AlignRoundsUp
<1>5. ArrayOff(model) - BaseAt = size /\ ArrayOff(model) = BaseAt + size
  BY <1>1, ParsedSections, ModelReads
<1>6. StringsSplice(b) = l /\ StringsImage(b) = i
  BY <1>5 DEF StringsSplice, StringsImage
<1>7. (n - size) % 4 = 0
  BY <1>5 DEF RebuildStrings, StringsSucceed, RelocationFits
<1>8. /\ e \in Image /\ e.small = img.small /\ e.large = img.large
      /\ e.dbg = img.dbg /\ e.strBytes = b /\ e.reBytes = img.reBytes
  BY <1>3 DEF IInv, Image
<1>9. /\ SectionsFollow(l) /\ l.strings.len = n
      /\ l.regexp.len = lay.regexp.len
  BY <1>2, <1>4, SectionsAfterStrings
<1>10. Align4(e.strBytes) = l.strings.len /\ Align4(e.reBytes) = l.regexp.len
  BY <1>8, <1>9 DEF IInv, Direct, SectionsResolve
<1>11. /\ Target(lay, BaseAt, size)
       /\ \A f \in Fns : lay.body[f].at >= BaseAt + size
  BY <1>2, StringsTarget, BodiesBehindSections
<1> HIDE DEF n, e, size
<1>12. Good(i, l)
  BY <1>1, <1>4, <1>7, <1>8, <1>9, <1>10, <1>11, RegionEditGood
<1> QED BY <1>6, <1>12

LEMMA RebuildStringsKeepsGood ==
  ASSUME IInv, NEW c, NEW b \in StringBytes, RebuildStrings(c, b)
  PROVE  IInv'
BY StringsImageGood, CommitGood DEF RebuildStrings

LEMMA EditStringInPlaceKeepsGood ==
  ASSUME IInv, NEW c, EditStringInPlace(c)
  PROVE  IInv'
BY CommitGood DEF IInv, Good, EditStringInPlace

\* Appending a RegExp payload writes a good file.
LEMMA RegexpImageGood ==
  ASSUME IInv, NEW c, NEW add \in RegexpBytes, AppendRegexp(c, add)
  PROVE  Good(RegexpImage(add), RegexpSplice(add))
<1> DEFINE rb == model.reBytes + add
           n == Align4(rb)
           e == [img EXCEPT !.reBytes = rb]
           at == lay.regexp.at
           size == lay.regexp.len
           l == Splice(lay, at, size, n)
           i == RegionImage(e, l, at + size, n - size)
<1>1. Good(img, lay) BY ModelReads
<1>2. lay \in Layout /\ WellLaid(lay) BY DEF IInv
<1>3. model.reBytes = img.reBytes /\ img.reBytes \in Nat /\ img.reBytes > 0
  BY ModelReads DEF IInv, Image, AppendRegexp
<1>4. rb \in Nat \ {0}
  <2>1. add \in Nat BY ImageAssumption
  <2> QED BY <1>3, <2>1
<1>5. n \in Nat \ {0} /\ n % 4 = 0 BY <1>4, AlignRoundsUp
<1>6. Align4(model.reBytes) = size
  BY <1>3 DEF IInv, Direct, SectionsResolve
<1>7. size > 0 BY <1>3, <1>6, AlignRoundsUp
<1>8. /\ RegexpOff(model) = at /\ RegexpEnd(model) - RegexpOff(model) = size
      /\ RegexpEnd(model) = at + size
  BY <1>1, ParsedSections, ModelReads
<1>9. RegexpSplice(add) = l /\ RegexpImage(add) = i
  BY <1>6, <1>8 DEF RegexpSplice, RegexpImage, RegexpDelta
<1>10. (n - size) % 4 = 0
  BY <1>6 DEF AppendRegexp, RegexpSucceeds, RelocationFits, RegexpDelta
<1>11. /\ e \in Image /\ e.small = img.small /\ e.large = img.large
       /\ e.dbg = img.dbg /\ e.strBytes = img.strBytes /\ e.reBytes = rb
  BY <1>4 DEF IInv, Image
<1>12. /\ SectionsFollow(l) /\ l.strings.len = lay.strings.len
       /\ l.regexp.len = n
  BY <1>2, <1>5, <1>7, SectionsAfterRegexp
<1>13. Align4(e.strBytes) = l.strings.len /\ Align4(e.reBytes) = l.regexp.len
  BY <1>11, <1>12 DEF IInv, Direct, SectionsResolve
<1>14. /\ Target(lay, at, size)
       /\ \A f \in Fns : lay.body[f].at >= at + size
  BY <1>2, <1>7, RegexpTarget, BodiesBehindSections
<1> HIDE DEF rb, n, e, at, size
<1>15. Good(i, l)
  BY <1>1, <1>5, <1>10, <1>11, <1>12, <1>13, <1>14, RegionEditGood
<1> QED BY <1>9, <1>15

LEMMA AppendRegexpKeepsGood ==
  ASSUME IInv, NEW c, NEW add \in RegexpBytes, AppendRegexp(c, add)
  PROVE  IInv'
BY RegexpImageGood, CommitGood DEF AppendRegexp

\* Every operation, accepted, refused or failed half-way, keeps the invariant.
LEMMA NextKeepsInvariant ==
  ASSUME IInv, [Next]_vars
  PROVE  IInv'
<1>1. ASSUME NEW f \in Fns, NEW c \in Contents, NEW n \in BodySizes,
             NEW upd \in {"keep", "replace"}, NEW allow \in BOOLEAN,
             PatchBody(f, c, n, upd, allow)
      PROVE  IInv'
  BY <1>1, PatchBodyKeepsGood
<1>2. ASSUME NEW f \in Fns, NEW c \in Contents, NEW n \in BodySizes,
             PatchBytes(f, c, n)
      PROVE  IInv'
  BY <1>2, PatchBytesKeepsGood
<1>3. ASSUME NEW f \in Fns, NEW c \in Contents, NEW kind \in Stubs,
             NEW fromEnd \in BOOLEAN, NEW allow \in BOOLEAN,
             NEW grown \in LineGrowth \union {0},
             InjectStub(f, c, kind, fromEnd, allow, grown)
      PROVE  IInv'
  <2>1. grown \in Nat BY ImageAssumption
  <2> QED BY <1>3, <2>1, InjectStubKeepsGood
<1>4. ASSUME NEW f \in Fns, NEW c \in Contents, NEW kind \in Stubs,
             NEW fromEnd \in BOOLEAN, NEW allow \in BOOLEAN,
             InjectFailed(f, c, kind, fromEnd, allow)
      PROVE  IInv'
  BY <1>4, InjectFailedKeepsGood
<1>5. ASSUME NEW c \in Contents, NEW b \in StringBytes, RebuildStrings(c, b)
      PROVE  IInv'
  BY <1>5, RebuildStringsKeepsGood
<1>6. ASSUME NEW c \in Contents, EditStringInPlace(c)
      PROVE  IInv'
  BY <1>6, EditStringInPlaceKeepsGood
<1>7. ASSUME NEW c \in Contents, NEW add \in RegexpBytes, AppendRegexp(c, add)
      PROVE  IInv'
  BY <1>7, AppendRegexpKeepsGood
<1>8. ASSUME UNCHANGED <<lay, img, model>>
      PROVE  IInv'
  BY <1>8 DEF IInv
<1>9. ASSUME NEW op, NEW allow, Refuse(op, allow)
      PROVE  IInv'
  BY <1>8, <1>9 DEF Refuse
<1>10. CASE EditsBody
  <2>1. ASSUME NEW f \in Fns, NEW c \in Contents, NEW n \in BodySizes,
               NEW upd \in {"keep", "replace"}, NEW allow \in BOOLEAN,
               PatchBodyRefused(f, c, n, upd, allow)
        PROVE  IInv'
    BY <1>9, <2>1 DEF PatchBodyRefused
  <2>2. ASSUME NEW f \in Fns, NEW n \in BodySizes, PatchBytesRefused(f, n)
        PROVE  IInv'
    BY <1>9, <2>2 DEF PatchBytesRefused
  <2> QED BY <1>1, <1>2, <1>10, <2>1, <2>2 DEF EditsBody
<1>11. CASE Injects
  <2>1. ASSUME NEW f \in Fns, NEW kind \in Stubs, NEW fromEnd \in BOOLEAN,
               NEW allow \in BOOLEAN,
               InjectRefused(f, kind, fromEnd, allow)
        PROVE  IInv'
    BY <1>9, <2>1 DEF InjectRefused
  <2> QED BY <1>3, <1>4, <1>11, <2>1 DEF Injects
<1>12. CASE EditsTables
  <2>1. ASSUME NEW b \in StringBytes, RebuildStringsRefused(b)
        PROVE  IInv'
    BY <1>9, <2>1 DEF RebuildStringsRefused
  <2>2. ASSUME NEW add \in RegexpBytes, AppendRegexpRefused(add)
        PROVE  IInv'
    BY <1>9, <2>2 DEF AppendRegexpRefused
  <2> QED BY <1>5, <1>6, <1>7, <1>12, <2>1, <2>2 DEF EditsTables
<1>13. CASE UNCHANGED vars BY <1>8, <1>13 DEF vars
<1> QED BY <1>10, <1>11, <1>12, <1>13 DEF Next

\* After any chain of edits the file is laid out and addressed as it should be.
THEOREM FileStaysGood == Spec => []IInv
<1>1. Init => IInv BY InitGood
<1>2. IInv /\ [Next]_vars => IInv' BY NextKeepsInvariant
<1> QED BY <1>1, <1>2, PTL DEF Spec

\* I6, for every file: no chain of edits, accepted or refused, leaves a stored
\* offset or size that names anything but its own region.
THEOREM OffsetsResolve == Spec => []EveryOffsetResolves
<1>1. IInv => EveryOffsetResolves
  BY HeadersRead DEF IInv, Good, Direct, EveryOffsetResolves
<1> QED BY <1>1, FileStaysGood, PTL

\* I2, for every file: edits chain, because what they read of the parsed file is
\* what a parse of the bytes would give.
THEOREM ModelTracksBytes == Spec => []ModelMatchesBytes
<1>1. IInv => ModelMatchesBytes
  <2>1. ASSUME IInv
        PROVE  [model EXCEPT !.regs = img.regs] = Parse(img, lay)
    <3>1. \A a, b, c, d, x, y :
            [[strBytes |-> a, reBytes |-> b, dbg |-> c, fn |-> d, regs |-> x]
               EXCEPT !.regs = y]
              = [strBytes |-> a, reBytes |-> b, dbg |-> c, fn |-> d, regs |-> y]
      OBVIOUS
    <3> QED BY <2>1, <3>1 DEF IInv, Parse, ParsedWith
  <2> QED BY <2>1 DEF IInv, RegsTracked, ModelMatchesBytes
<1> QED BY <1>1, FileStaysGood, PTL

\* I5, for every file: regions keep their order, stay apart and stay aligned.
THEOREM RegionsKeepTheirPlace == Spec => []RegionsStayLaidOut
<1>1. IInv => RegionsStayLaidOut BY DEF IInv, RegionsStayLaidOut
<1> QED BY <1>1, FileStaysGood, PTL

\* I3, I4, for every file: file_length counts every byte, the footer included.
THEOREM LengthIsTrue == Spec => []LengthCountsTheFooter
<1>1. IInv => LengthCountsTheFooter BY DEF IInv, LengthCountsTheFooter
<1> QED BY <1>1, FileStaysGood, PTL

=============================================================================
