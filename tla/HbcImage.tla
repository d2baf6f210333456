------------------------------ MODULE HbcImage ------------------------------
(***************************************************************************)
(* The write path of hermes-decomp: one BytecodeFile held in memory, edited *)
(* by a chain of patch operations (crates/hbc-decomp/src/write).           *)
(*                                                                         *)
(* Two things are kept apart.  `lay' is where the bytes really are: the     *)
(* span of the string region, the RegExp storage, every function body,      *)
(* every out-of-line large header, every FunctionInfo record and the debug  *)
(* section.  Only a splice of the byte vector moves it.  `img' is what the  *)
(* offset and size fields stored in those bytes SAY; an operation has to    *)
(* rewrite them.  `model' is the parsed BytecodeFile, what the next         *)
(* operation computes its own offsets from.  The write path is correct when *)
(* the three agree after every chain of operations.                         *)
(***************************************************************************)
EXTENDS Integers, Sequences

CONSTANTS
  Fns,           \* function ids
  NoFn,          \* "no function was resized" (Reloc.resized = None)
  Overflowed,    \* functions whose small header points at a large header
  WithTable,     \* functions flagged FLAG_HAS_EXCEPTION_HANDLER
  WithLines,     \* functions flagged FLAG_HAS_DEBUG_INFO
  Modern,        \* TRUE: Modern12 headers (v97 up); FALSE: Legacy16
  HasPad,        \* this bytecode version has AsyncBreakCheck
  LinesModelled, \* DebugLayout::for_version knows this version (not v97)
  BaseAt,        \* end of the function header table, start of the string region
  GapLen,        \* fixed-size sections between the strings and RegExp storage
  LargeSize,     \* bytes of one large header
  FooterLen,     \* bytes of the SHA-1 footer
  OffLimit,      \* first offset a small header's 25-bit field cannot hold
  SizeLimit,     \* first size its 15-bit (legacy) or 14-bit field cannot hold
  FrameLimit,    \* first frame size its 7-bit (legacy) or 8-bit field cannot hold
  CacheLimit,    \* u8::MAX, the largest read cache count
  LogFrame,      \* LOG_FRAME_NEEDED: the registers a log prologue needs
  LogLen,        \* encoded length of the log prologue, before padding
  Contents,      \* contents a body, string table or RegExp storage can have
  Torn,          \* what a header that misses its region reads
  BodySizes,     \* encoded sizes a new body may have
  StringBytes,   \* unpadded sizes a rebuilt string region may have
  RegexpBytes,   \* bytes one appended RegExp payload may have
  LineGrowth,    \* bytes one re-encoded SLEB128 line delta may grow by
  BodyBound,     \* bound: no stub is injected into a body grown past this
  RegexpBound,   \* bound: RegExp storage is not grown past this
  LinesBound,    \* bound: nor the debug section past this
  Paddings,      \* bytes of padding a section may end with, at most 3
  OpenRegs,      \* frame sizes and read cache counts of a file that is opened
  InitLayouts    \* layouts of the files that are opened

HasInfo == WithTable \union WithLines

Align4(n) == n + ((-n) % 4)
End(s) == s.at + s.len
Before(a, b) == End(a) <= b.at

Span == [at : Nat, len : Nat]
Layout == [strings : Span, regexp : Span, debug : Span,
           body : [Fns -> Span], large : [Overflowed -> Span],
           info : [HasInfo -> Span]]

(***************************************************************************)
(* The order of a serialized file: strings, RegExp storage, code, large     *)
(* headers and FunctionInfo records, debug section.  Regions of one kind do *)
(* not overlap; everything after the code is 4-byte aligned (I5).           *)
(***************************************************************************)
InOrder(l) ==
  /\ l.strings.at = BaseAt /\ l.strings.len > 0
  /\ l.regexp.at = End(l.strings) + GapLen
  /\ Before(l.regexp, l.debug)
  /\ \A f \in Fns : Before(l.regexp, l.body[f]) /\ Before(l.body[f], l.debug)
  /\ \A f \in Fns, g \in Overflowed : Before(l.body[f], l.large[g])
  /\ \A f \in Fns, g \in HasInfo : Before(l.body[f], l.info[g])
  /\ \A g \in Overflowed : Before(l.large[g], l.debug)
  /\ \A g \in HasInfo : Before(l.info[g], l.debug)

Disjoint(l) ==
  /\ \A f \in Fns : l.body[f].len > 0
  /\ \A f, g \in Fns : f # g => \/ Before(l.body[f], l.body[g])
                                \/ Before(l.body[g], l.body[f])
  /\ \A f, g \in Overflowed : f # g => l.large[f].at # l.large[g].at
  /\ \A f, g \in HasInfo : f # g => l.info[f].at # l.info[g].at
  /\ Modern => \A f \in HasInfo : l.info[f].at = l.large[f].at + LargeSize

Aligned(l) ==
  /\ l.strings.len % 4 = 0 /\ l.regexp.len % 4 = 0
  /\ \A f \in Overflowed : l.large[f].at % 4 = 0
  /\ \A f \in HasInfo : l.info[f].at % 4 = 0
  /\ l.debug.at % 4 = 0

WellLaid(l) == InOrder(l) /\ Disjoint(l) /\ Aligned(l)

ASSUME ImageAssumption ==
  /\ NoFn \notin Fns
  /\ Overflowed \subseteq Fns /\ WithTable \subseteq Fns /\ WithLines \subseteq Fns
  /\ Modern \in BOOLEAN /\ HasPad \in BOOLEAN /\ LinesModelled \in BOOLEAN
  /\ Modern => HasInfo \subseteq Overflowed
  /\ BaseAt \in Nat \ {0} /\ GapLen \in Nat /\ GapLen % 4 = 0
  /\ LargeSize \in Nat /\ FooterLen \in Nat
  /\ OffLimit \in Nat /\ SizeLimit \in Nat
  /\ FrameLimit \in Nat /\ CacheLimit \in Nat
  /\ LogFrame \in Nat /\ LogLen \in Nat \ {0}
  /\ OpenRegs \subseteq [frame : Nat, cache : 0 .. CacheLimit]
  /\ Torn \notin Contents
  /\ BodySizes \subseteq Nat \ {0} /\ StringBytes \subseteq Nat \ {0}
  /\ RegexpBytes \subseteq Nat /\ LineGrowth \subseteq Nat
  /\ BodyBound \in Nat /\ RegexpBound \in Nat /\ LinesBound \in Nat
  /\ Paddings \subseteq 0 .. 3
  /\ InitLayouts \subseteq Layout

VARIABLES
  lay,      \* Layout: where every region of file.raw_bytes really is
  img,      \* the offset and size fields stored in file.raw_bytes
  code,     \* contents of every function body
  tab,      \* the body contents every handler table describes
  stale,    \* functions whose line table still describes an older body size
  strs,     \* contents of the string tables
  res,      \* contents of the RegExp storage
  uses,     \* registers and read cache slots the instructions of a body use
  model,    \* the fields of the parsed BytecodeFile
  last      \* the last operation and how it ended

vars == <<lay, img, code, tab, stale, strs, res, uses, model, last>>
contents == <<code, tab, stale, strs, res, uses>>

\* What a call of the function allocates: registers, and slots of the read
\* cache (read_cache_size, a count; legacy highestReadCacheIndex, an index).
Regs == [frame : Nat, cache : Nat]
Header == [at : Int, size : Int, info : Int]
Image == [strBytes : Nat, reBytes : Nat, dbg : Int, fileLength : Int,
          small : [Fns -> Header], large : [Overflowed -> Header],
          regs : [Fns -> Regs]]
Parsed == [strBytes : Nat, reBytes : Nat, dbg : Int, fn : [Fns -> Header],
           regs : [Fns -> Regs]]

-----------------------------------------------------------------------------
(***************************************************************************)
(* Parsing: BytecodeFile::parse_auto.  An overflowed function's small       *)
(* header holds only a pointer; the rest is read wherever that points.      *)
(***************************************************************************)
NoHeader == [at |-> 0, size |-> 0, info |-> 0]

LargeAt(l, p) == {g \in Overflowed : l.large[g].at = p}

FunctionHeaderOf(i, l, f) ==
  IF f \notin Overflowed THEN i.small[f]
  ELSE IF LargeAt(l, i.small[f].at) = {} THEN NoHeader
  ELSE LET h == i.large[CHOOSE g \in LargeAt(l, i.small[f].at) : TRUE]
       IN  IF Modern THEN [h EXCEPT !.info = i.small[f].at + LargeSize] ELSE h

Parse(i, l) ==
  [strBytes |-> i.strBytes, reBytes |-> i.reBytes, dbg |-> i.dbg,
   fn |-> [f \in Fns |-> FunctionHeaderOf(i, l, f)], regs |-> i.regs]

\* section_offset: the parser derives section positions from header sizes.
ArrayOff(m) == BaseAt + Align4(m.strBytes)
RegexpOff(m) == ArrayOff(m) + GapLen
RegexpEnd(m) == RegexpOff(m) + Align4(m.reBytes)

-----------------------------------------------------------------------------
(***************************************************************************)
(* Splicing n bytes over [from - size, from): what the byte vector does.    *)
(***************************************************************************)
SpliceSpan(s, at, size, n) ==
  IF s.at >= at + size THEN [at |-> s.at + (n - size), len |-> s.len]
  ELSE IF s.at = at /\ s.len = size THEN [at |-> at, len |-> n]
  ELSE s

Splice(l, at, size, n) ==
  [strings |-> SpliceSpan(l.strings, at, size, n),
   regexp |-> SpliceSpan(l.regexp, at, size, n),
   debug |-> SpliceSpan(l.debug, at, size, n),
   body |-> [f \in Fns |-> SpliceSpan(l.body[f], at, size, n)],
   large |-> [f \in Overflowed |-> SpliceSpan(l.large[f], at, size, n)],
   info |-> [f \in HasInfo |-> SpliceSpan(l.info[f], at, size, n)]]

(***************************************************************************)
(* relocate: every stored absolute offset at or past moved_from shifts by   *)
(* delta.  `l' is the layout after the splice: a large header is read and    *)
(* rewritten at the position its shifted pointer now names.                 *)
(***************************************************************************)
\* Mutant: what begins exactly where the splice ended is taken not to move.
ShiftedPast(v, from, delta) == IF v <= from THEN v ELSE v + delta

Shifted(v, from, delta) == IF v < from THEN v ELSE v + delta
ShiftedInfo(v, from, delta) == IF v = 0 THEN 0 ELSE Shifted(v, from, delta)
NewSize(f, resized, n, old) == IF f = resized THEN n ELSE old

RelocatedSmall(h, f, from, delta, resized, n) ==
  IF f \in Overflowed THEN [h EXCEPT !.at = Shifted(h.at, from, delta)]
  ELSE [at |-> Shifted(h.at, from, delta),
        size |-> NewSize(f, resized, n, h.size),
        info |-> ShiftedInfo(h.info, from, delta)]

\* Mutant: the large header's own info offset is forgotten.
RelocatedLargeNotInfo(h, f, from, delta, resized, n) ==
  [at |-> Shifted(h.at, from, delta),
   size |-> NewSize(f, resized, n, h.size), info |-> h.info]

RelocatedLarge(h, f, from, delta, resized, n) ==
  [at |-> Shifted(h.at, from, delta),
   size |-> NewSize(f, resized, n, h.size),
   info |-> IF Modern THEN h.info ELSE ShiftedInfo(h.info, from, delta)]

Relocate(i, l, from, delta, resized, n) ==
  LET small == [f \in Fns |->
                  RelocatedSmall(i.small[f], f, from, delta, resized, n)]
      users(g) == {f \in Overflowed : small[f].at = l.large[g].at}
  IN [i EXCEPT
        !.small = small,
        !.large = [g \in Overflowed |->
                     IF users(g) = {} THEN i.large[g]
                     ELSE RelocatedLarge(i.large[g], CHOOSE f \in users(g) : TRUE,
                                         from, delta, resized, n)],
        !.dbg = ShiftedInfo(i.dbg, from, delta)]

\* Mutant: any delta will do.
RelocationFitsUnaligned(i, from, delta, resized, n) ==
  \A f \in Fns \ Overflowed :
    LET h == i.small[f] IN
    /\ h.at >= from => h.at + delta < OffLimit
    /\ h.info # 0 /\ h.info >= from => h.info + delta < OffLimit
    /\ f = resized => n < SizeLimit

\* Mutant: the new size is not held against the width of its field.
RelocationFitsAnySize(i, from, delta, resized, n) ==
  /\ delta % 4 = 0
  /\ BaseAt <= from
  /\ \A f \in Fns \ Overflowed :
       LET h == i.small[f] IN
       /\ h.at >= from => h.at + delta < OffLimit
       /\ h.info # 0 /\ h.info >= from => h.info + delta < OffLimit

\* What relocate refuses: a delta that is not a multiple of 4, a splice over
\* the header table, a value that no longer fits a small header's field.
RelocationFits(i, from, delta, resized, n) ==
  /\ delta % 4 = 0
  /\ BaseAt <= from
  /\ \A f \in Fns \ Overflowed :
       LET h == i.small[f] IN
       /\ h.at >= from => h.at + delta < OffLimit
       /\ h.info # 0 /\ h.info >= from => h.info + delta < OffLimit
       /\ f = resized => n < SizeLimit

-----------------------------------------------------------------------------
(***************************************************************************)
(* Committing: commit_image_checked.  finalize_raw_image writes the length   *)
(* and re-hashes, the result is parsed, and the parsed header must be the    *)
(* old one with exactly the declared edit applied.                          *)
(***************************************************************************)
FileEnd(l) == End(l.debug) + FooterLen

\* Mutant: the length is taken before the footer is appended.
FinalizeWithoutFooter(i, l) == [i EXCEPT !.fileLength = End(l.debug)]

Finalize(i, l) == [i EXCEPT !.fileLength = FileEnd(l)]

HeaderEdit(shift, sb, rb) == [shift |-> shift, strBytes |-> sb, reBytes |-> rb]

HeaderMatches(edit, parsed) ==
  /\ parsed.dbg = IF model.dbg = 0 THEN 0 ELSE model.dbg + edit.shift
  /\ parsed.strBytes = edit.strBytes
  /\ parsed.reBytes = edit.reBytes

CommitAccepts(i, l, edit) == HeaderMatches(edit, Parse(i, l))

\* Mutant: the bytes are replaced and the parsed file kept.
CommitWithoutReparse(i, l) ==
  /\ img' = Finalize(i, l)
  /\ lay' = l
  /\ model' = model

Commit(i, l) ==
  /\ img' = Finalize(i, l)
  /\ lay' = l
  /\ model' = Parse(i, l)

Ended(op, how, allow) ==
  last' = [op |-> op, how |-> how, allow |-> allow]

Refuse(op, allow) ==
  /\ Ended(op, "refused", allow)
  /\ UNCHANGED <<lay, img, model, contents>>

-----------------------------------------------------------------------------
(***************************************************************************)
(* Function bodies: patch_function_body_with and patch_function_bytes_with. *)
(***************************************************************************)
Updates == {"keep", "insert", "replace"}

PadFor(delta) == IF delta % 4 = 0 THEN 0 ELSE 4 - (delta % 4)

\* Mutant: handlers are kept across a size change.
BodyEditAllowedWithOldHandlers(m, f, n, upd, allow) ==
  LET delta == n - m.fn[f].size IN
  /\ ~(upd = "replace" /\ f \notin WithTable)
  /\ delta # 0 /\ f \in WithLines /\ m.dbg # 0 => allow
  /\ PadFor(delta) # 0 => HasPad

\* Mutant: a resize does not look at the debug section.
BodyEditAllowedWithOldLines(m, f, n, upd, allow) ==
  LET delta == n - m.fn[f].size IN
  /\ ~(upd = "keep" /\ delta # 0 /\ f \in WithTable)
  /\ ~(upd = "replace" /\ f \notin WithTable)
  /\ PadFor(delta) # 0 => HasPad

\* The refusals before any byte is touched, for a body encoded to n bytes.
BodyEditAllowed(m, f, n, upd, allow) ==
  LET delta == n - m.fn[f].size IN
  /\ ~(upd = "keep" /\ delta # 0 /\ f \in WithTable)
  /\ ~(upd = "replace" /\ f \notin WithTable)
  /\ delta # 0 /\ f \in WithLines /\ m.dbg # 0 => allow
  /\ PadFor(delta) # 0 => HasPad
  /\ upd = "insert" /\ f \in WithTable /\ delta + PadFor(delta) # 0
       => PadFor(delta) = 0

\* The final body: padded before its terminator to a size change of 4k bytes.
FinalSize(m, f, n) == n + PadFor(n - m.fn[f].size)

SpliceBody(m, l, f, n) == Splice(l, m.fn[f].at, m.fn[f].size, n)

\* Mutant: the headers are encoded from the parsed model again, not shifted.
BodyImageReencoded(m, i, l, f, n) ==
  LET h == m.fn[f] IN
  IF n = h.size THEN i
  ELSE Relocate([i EXCEPT !.regs = m.regs], SpliceBody(m, l, f, n),
                h.at + h.size, n - h.size, f, n)

BodyImage(m, i, l, f, n) ==
  LET h == m.fn[f] IN
  IF n = h.size THEN i
  ELSE Relocate(i, SpliceBody(m, l, f, n), h.at + h.size, n - h.size, f, n)

BodyFits(m, i, l, f, n) ==
  LET h == m.fn[f] IN
  n = h.size \/ RelocationFits(i, h.at + h.size, n - h.size, f, n)

\* The bytes land on every function whose body is the replaced span.
CodeAfter(m, f, c) ==
  [g \in Fns |-> IF lay.body[g] = [at |-> m.fn[f].at, len |-> m.fn[f].size]
                 THEN c ELSE code[g]]

\* The handler table is rewritten when the edit moves it, at its old position
\* plus the size change, and must read back there as function f's.
WritesTable(f, upd, delta) ==
  f \in WithTable /\ (upd = "replace" \/ (upd = "insert" /\ delta # 0))

TablePos(m, f) == Align4(m.fn[f].info)

TableAfter(m, l, f, c, upd, delta) ==
  [g \in WithTable |->
     IF WritesTable(f, upd, delta) /\ l.info[g].at = TablePos(m, f) + delta
     THEN c ELSE tab[g]]

\* The whole edit, from the checked model m and image i (which inject_stub has
\* already written its register reservation to) to the commit.
BodyEditSucceeds(m, i, f, c, n, upd, allow) ==
  LET size == FinalSize(m, f, n)
      delta == size - m.fn[f].size
      l == SpliceBody(m, lay, f, size)
  IN  /\ BodyEditAllowed(m, f, n, upd, allow)
      /\ BodyFits(m, i, lay, f, size)
      /\ WritesTable(f, upd, delta) =>
           /\ m.fn[f].info # 0
           /\ TablePos(m, f) >= m.fn[f].at + m.fn[f].size
           /\ TableAfter(m, l, f, c, upd, delta)[f] = c
      /\ CommitAccepts(BodyImage(m, i, lay, f, size), l,
                       HeaderEdit(delta, m.strBytes, m.reBytes))

\* A size change strands the line table of a function that has one.
Stranded(f, delta) ==
  IF delta # 0 /\ f \in WithLines /\ lay.debug.len > 0 THEN {f} ELSE {}

PatchBody(f, c, n, upd, allow) ==
  LET size == FinalSize(model, f, n)
      delta == size - model.fn[f].size
      l == SpliceBody(model, lay, f, size)
  IN  /\ BodyEditSucceeds(model, img, f, c, n, upd, allow)
      /\ Commit(BodyImage(model, img, lay, f, size), l)
      /\ code' = CodeAfter(model, f, c)
      /\ tab' = TableAfter(model, l, f, c, upd, delta)
      /\ stale' = stale \union Stranded(f, delta)
      /\ Ended("patch_body", "done", allow)
      /\ UNCHANGED <<strs, res, uses>>

PatchBodyRefused(f, c, n, upd, allow) ==
  /\ ~BodyEditSucceeds(model, img, f, c, n, upd, allow)
  /\ Refuse("patch_body", allow)

(***************************************************************************)
(* The low-level byte replacement.  No padding, no line-table guard: only   *)
(* relocate's own refusal of an unaligned delta, and the handler gate.      *)
(***************************************************************************)
BytesSucceed(f, n) ==
  /\ f \in WithTable => n = model.fn[f].size
  /\ BodyFits(model, img, lay, f, n)
  /\ CommitAccepts(BodyImage(model, img, lay, f, n), SpliceBody(model, lay, f, n),
                   HeaderEdit(n - model.fn[f].size, model.strBytes, model.reBytes))

PatchBytes(f, c, n) ==
  /\ BytesSucceed(f, n)
  /\ Commit(BodyImage(model, img, lay, f, n), SpliceBody(model, lay, f, n))
  /\ code' = CodeAfter(model, f, c)
  /\ stale' = stale \union Stranded(f, n - model.fn[f].size)
  /\ Ended("patch_bytes", "done", FALSE)
  /\ UNCHANGED <<tab, strs, res, uses>>

PatchBytesRefused(f, n) ==
  /\ ~BytesSucceed(f, n)
  /\ Refuse("patch_bytes", FALSE)

-----------------------------------------------------------------------------
(***************************************************************************)
(* inject_stub: reserve registers and a read cache slot in the header bytes, *)
(* insert the stub, commit, then relocate the function's line table and      *)
(* commit again.  A log prologue goes in at the front; a no-op pad is four   *)
(* AsyncBreakChecks, or nothing at a version without one.                   *)
(***************************************************************************)
Stubs == {"nop", "log"}

StubLen(kind) ==
  IF kind = "log" THEN Align4(LogLen) ELSE IF HasPad THEN 4 ELSE 0

\* What a log stub reserves: the registers it needs, and the next read cache slot.
Framed(frame) == IF frame < LogFrame THEN LogFrame ELSE frame
Reserved(r) == [frame |-> Framed(r.frame), cache |-> r.cache + 1]

\* The first slot no instruction of the body uses; the stub's read takes it.
NextSlot(r) == IF Modern THEN r.cache ELSE r.cache + 1

\* reserve_legacy_log_regs / reserve_modern_log_regs: the header bytes get what
\* the parsed header says and the reservation.  Only the modern one writes the
\* parsed header too.
ReservedImage(f, kind) ==
  IF kind = "log" THEN [img EXCEPT !.regs[f] = Reserved(model.regs[f])] ELSE img

ReservedModel(f, kind) ==
  IF kind = "log" /\ Modern THEN [model EXCEPT !.regs[f] = Reserved(@)] ELSE model

\* build_log_entry's refusals before the reservation is written.  fromEnd: the
\* body has a call that reads its arguments from the end of the frame, which a
\* frame that grows would move.
StubBuilds(f, kind, fromEnd) ==
  kind = "log" =>
    /\ Modern \/ f \notin Overflowed
    /\ fromEnd => model.regs[f].frame >= LogFrame
    /\ model.regs[f].cache + 1 <= CacheLimit
    /\ f \notin Overflowed => Framed(model.regs[f].frame) < FrameLimit

\* A log stub uses LogFrame registers and one more slot.
UsesAfter(f, kind) ==
  IF kind = "log"
  THEN [uses EXCEPT ![f] = [frame |-> Framed(@.frame),
                            slots |-> Append(@.slots, NextSlot(model.regs[f]))]]
  ELSE uses

InsertSucceeds(f, c, kind) ==
  /\ kind = "log" /\ LogLen % 4 # 0 => HasPad
  /\ BodyEditSucceeds(ReservedModel(f, kind), ReservedImage(f, kind), f, c,
                      model.fn[f].size + StubLen(kind), "insert", TRUE)

InjectStub(f, c, kind, fromEnd, allow, grown) ==
  LET delta == StubLen(kind)
      n == model.fn[f].size + delta
      m == ReservedModel(f, kind)
      l == SpliceBody(m, lay, f, n)
      i == BodyImage(m, ReservedImage(f, kind), lay, f, n)
      moved == delta # 0 /\ f \in WithLines /\ m.dbg # 0
      followed == IF delta = 0 THEN TRUE ELSE LinesModelled
  IN  /\ StubBuilds(f, kind, fromEnd)
      /\ InsertSucceeds(f, c, kind)
      /\ grown # 0 => moved /\ followed
      /\ l.debug.len + grown <= LinesBound
      /\ Commit(i, [l EXCEPT !.debug.len = @ + grown])
      /\ code' = CodeAfter(m, f, c)
      /\ tab' = TableAfter(m, l, f, c, "insert", delta)
      /\ stale' = IF followed THEN stale ELSE stale \union Stranded(f, delta)
      /\ Ended("inject_stub", IF followed \/ allow THEN "done" ELSE "failed",
               allow)
      /\ uses' = UsesAfter(f, kind)
      /\ UNCHANGED <<strs, res>>

\* Refused before anything is written.
InjectRefused(f, kind, fromEnd, allow) ==
  /\ ~StubBuilds(f, kind, fromEnd)
  /\ Refuse("inject_stub", allow)

\* Refused by the body edit, after the reservation went into the caller's file.
InjectFailed(f, c, kind, fromEnd, allow) ==
  /\ StubBuilds(f, kind, fromEnd)
  /\ ~InsertSucceeds(f, c, kind)
  /\ img' = ReservedImage(f, kind)
  /\ model' = ReservedModel(f, kind)
  /\ Ended("inject_stub", "refused", allow)
  /\ UNCHANGED <<lay, contents>>

-----------------------------------------------------------------------------
(***************************************************************************)
(* The string region is rebuilt whole (patch_string_resize, add_string) and *)
(* ends where the array buffers begin; a same-length edit stays in place.    *)
(***************************************************************************)
RegionImage(i, l, from, delta) == Relocate(i, l, from, delta, NoFn, 0)

StringsSplice(b) ==
  Splice(lay, BaseAt, ArrayOff(model) - BaseAt, Align4(b))

StringsImage(b) ==
  LET delta == Align4(b) - (ArrayOff(model) - BaseAt)
  IN  RegionImage([img EXCEPT !.strBytes = b], StringsSplice(b),
                  ArrayOff(model), delta)

StringsSucceed(b) ==
  LET delta == Align4(b) - (ArrayOff(model) - BaseAt) IN
  /\ RelocationFits(img, ArrayOff(model), delta, NoFn, 0)
  /\ CommitAccepts(StringsImage(b), StringsSplice(b),
                   HeaderEdit(delta, b, model.reBytes))

RebuildStrings(c, b) ==
  /\ StringsSucceed(b)
  /\ Commit(StringsImage(b), StringsSplice(b))
  /\ strs' = c
  /\ Ended("strings", "done", FALSE)
  /\ UNCHANGED <<code, tab, stale, res, uses>>

\* Mutant: the new counts go into the caller's bytes before relocate has its say.
RebuildStringsRefusedTooLate(b) ==
  /\ ~StringsSucceed(b)
  /\ img' = [img EXCEPT !.strBytes = b]
  /\ Ended("strings", "refused", FALSE)
  /\ UNCHANGED <<lay, model, contents>>

RebuildStringsRefused(b) ==
  /\ ~StringsSucceed(b)
  /\ Refuse("strings", FALSE)

\* In-place edits of strings, operands and small RegExp payloads: no byte moves.
EditStringInPlace(c) ==
  /\ CommitAccepts(img, lay, HeaderEdit(0, model.strBytes, model.reBytes))
  /\ Commit(img, lay)
  /\ strs' = c
  /\ Ended("strings", "done", FALSE)
  /\ UNCHANGED <<code, tab, stale, res, uses>>

-----------------------------------------------------------------------------
(***************************************************************************)
(* set_regexp: a payload that does not fit its slot is appended to the       *)
(* unpadded storage, which is padded again to 4 bytes.                       *)
(***************************************************************************)
RegexpSplice(add) ==
  Splice(lay, RegexpOff(model), RegexpEnd(model) - RegexpOff(model),
         Align4(model.reBytes + add))

RegexpDelta(add) == Align4(model.reBytes + add) - Align4(model.reBytes)

RegexpImage(add) ==
  RegionImage([img EXCEPT !.reBytes = model.reBytes + add], RegexpSplice(add),
              RegexpEnd(model), RegexpDelta(add))

RegexpSucceeds(add) ==
  /\ RelocationFits(img, RegexpEnd(model), RegexpDelta(add), NoFn, 0)
  /\ CommitAccepts(RegexpImage(add), RegexpSplice(add),
                   HeaderEdit(RegexpDelta(add), model.strBytes,
                              model.reBytes + add))

AppendRegexp(c, add) ==
  /\ model.reBytes > 0   \* regexp_payload: the entry exists
  /\ model.reBytes + add <= RegexpBound
  /\ RegexpSucceeds(add)
  /\ Commit(RegexpImage(add), RegexpSplice(add))
  /\ res' = c
  /\ Ended("regexp", "done", FALSE)
  /\ UNCHANGED <<code, tab, stale, strs, uses>>

AppendRegexpRefused(add) ==
  /\ model.reBytes > 0
  /\ model.reBytes + add <= RegexpBound
  /\ ~RegexpSucceeds(add)
  /\ Refuse("regexp", FALSE)

-----------------------------------------------------------------------------
(***************************************************************************)
(* A file as hermesc or `create' wrote it and parse_auto read it.            *)
(***************************************************************************)
PlainHeader(l, f) ==
  [at |-> l.body[f].at, size |-> l.body[f].len,
   info |-> IF f \in HasInfo THEN l.info[f].at ELSE 0]

PointerHeader(l, f) == [at |-> l.large[f].at, size |-> 0, info |-> 0]

ImageOf(l, sb, rb, dbg, regs) ==
  [strBytes |-> sb, reBytes |-> rb, dbg |-> dbg, fileLength |-> FileEnd(l),
   small |-> [f \in Fns |-> IF f \in Overflowed THEN PointerHeader(l, f)
                            ELSE PlainHeader(l, f)],
   large |-> [f \in Overflowed |-> IF Modern
                THEN [PlainHeader(l, f) EXCEPT !.info = 0] ELSE PlainHeader(l, f)],
   regs |-> [f \in Fns |-> regs]]

\* Its bodies use all that their headers give them.
UsesOf(regs) ==
  [f \in Fns |-> [frame |-> regs.frame,
                  slots |-> [k \in 1 .. NextSlot(regs) |-> k - 1]]]

Init ==
  \E l \in InitLayouts, c \in Contents :
  \E p, q \in Paddings, dbg \in {0, l.debug.at}, regs \in OpenRegs :
    LET sb == l.strings.len - p
        rb == IF l.regexp.len = 0 THEN 0 ELSE l.regexp.len - q
    IN
    /\ WellLaid(l)
    /\ \A f \in Fns \ Overflowed :
         /\ l.body[f].at < OffLimit /\ l.body[f].len < SizeLimit
         /\ regs.frame < FrameLimit
         /\ f \in HasInfo => l.info[f].at < OffLimit
    /\ dbg = 0 <=> l.debug.len = 0
    /\ lay = l
    /\ img = ImageOf(l, sb, rb, dbg, regs)
    /\ model = Parse(ImageOf(l, sb, rb, dbg, regs), l)
    /\ code = [f \in Fns |-> c]
    /\ tab = [f \in WithTable |-> c]
    /\ stale = {}
    /\ strs = c /\ res = c
    /\ uses = UsesOf(regs)
    /\ last = [op |-> "open", how |-> "done", allow |-> FALSE]

EditsBody ==
  \E f \in Fns, c \in Contents, n \in BodySizes :
    \/ \E upd \in {"keep", "replace"}, allow \in BOOLEAN :
         \/ PatchBody(f, c, n, upd, allow)
         \/ PatchBodyRefused(f, c, n, upd, allow)
    \/ PatchBytes(f, c, n)
    \/ PatchBytesRefused(f, n)

Injects ==
  \E f \in Fns, c \in Contents, kind \in Stubs, fromEnd, allow \in BOOLEAN :
    /\ model.fn[f].size + StubLen(kind) <= BodyBound
    /\ \/ \E grown \in LineGrowth \union {0} :
            InjectStub(f, c, kind, fromEnd, allow, grown)
       \/ InjectRefused(f, kind, fromEnd, allow)
       \/ InjectFailed(f, c, kind, fromEnd, allow)

EditsTables ==
  \E c \in Contents :
    \/ \E b \in StringBytes : RebuildStrings(c, b) \/ RebuildStringsRefused(b)
    \/ EditStringInPlace(c)
    \/ \E add \in RegexpBytes : AppendRegexp(c, add) \/ AppendRegexpRefused(add)

Next == EditsBody \/ Injects \/ EditsTables

Spec == Init /\ [][Next]_vars

-----------------------------------------------------------------------------
(***************************************************************************)
(* Properties.                                                              *)
(***************************************************************************)

\* Every variable holds a value of its type (the parsed and stored fields of
\* BytecodeFile are integers, whatever an edit does to them).
TypeOK ==
  /\ lay \in Layout
  /\ img \in Image
  /\ model \in Parsed
  /\ code \in [Fns -> Contents]
  /\ tab \in [WithTable -> Contents]
  /\ stale \subseteq WithLines
  /\ strs \in Contents /\ res \in Contents
  /\ uses \in [Fns -> [frame : Nat, slots : Seq(Nat)]]

\* What function f's header has to say of a file laid out as l.
TrueHeader(l, f) ==
  [at |-> l.body[f].at, size |-> l.body[f].len,
   info |-> IF f \in HasInfo THEN l.info[f].at
            ELSE IF Modern /\ f \in Overflowed THEN l.large[f].at + LargeSize
            ELSE 0]

SectionsResolve(i, l) ==
  /\ Align4(i.strBytes) = l.strings.len
  /\ Align4(i.reBytes) = l.regexp.len
  /\ i.dbg # 0 => i.dbg = l.debug.at

HeadersResolve(i, l) ==
  /\ \A f \in Overflowed : i.small[f].at = l.large[f].at
  /\ \A f \in Fns : FunctionHeaderOf(i, l, f) = TrueHeader(l, f)

\* I6: after any chain of edits every offset and size stored in the file names
\* the region it is about: section sizes, debug_info_offset, the packed pointer of
\* every overflowed function, the body offset, size and info offset of every
\* function, in its small header or in the large one its pointer reaches.
EveryOffsetResolves == SectionsResolve(img, lay) /\ HeadersResolve(img, lay)

\* I3, I4: file_length at byte 32 is the length of the image, footer included.
LengthCountsTheFooter == img.fileLength = FileEnd(lay)

\* I2: what the next operation reads from the parsed BytecodeFile is what the
\* bytes say, frame sizes included, so operations chain without a re-parse.  The
\* registers of a legacy function may lag by what a refused inject_stub reserved.
ModelMatchesBytes ==
  /\ [model EXCEPT !.regs = img.regs] = Parse(img, lay)
  /\ \A f \in Fns : \/ img.regs[f] = model.regs[f]
                    \/ ~Modern /\ img.regs[f] = Reserved(model.regs[f])

\* I1, in the words of commit_image: the model is derived from the bytes, so it
\* cannot drift.  Violated, README section 6; no run checks it.
ModelIsDerived == model = Parse(img, lay)

\* I5: large headers, FunctionInfo records and the debug section stay 4-byte
\* aligned, whatever sizes the bodies, strings and RegExp payloads take, and no
\* edit makes two regions overlap or changes their order.
RegionsStayLaidOut == WellLaid(lay)

\* A small header's narrow fields hold the values written into them: 25 bits of
\* offset, 15 or 14 of size, 7 or 8 of frame size; the read cache count its byte.
\* An edit that would overflow one is refused.
FieldsHoldTheirValues ==
  /\ \A f \in Fns \ Overflowed :
       /\ img.small[f].at < OffLimit /\ img.small[f].info < OffLimit
       /\ img.small[f].size < SizeLimit
       /\ img.regs[f].frame < FrameLimit
  /\ \A f \in Fns : img.regs[f].cache <= CacheLimit

\* R26: after any chain of edits, and of refused ones, the engine allocates what
\* every stub of a body uses: no stub writes a register past the frame the header
\* bytes give, or reads through a slot past their count, and no two reads share a
\* slot (where the cache would answer one of them with the other's value).
StubsHaveRoom ==
  \A f \in Fns :
    LET slots == uses[f].slots IN
    /\ uses[f].frame <= img.regs[f].frame
    /\ \A j \in DOMAIN slots : slots[j] < NextSlot(img.regs[f])
    /\ \A j, k \in DOMAIN slots : j # k => slots[j] # slots[k]

\* Reading the file the way a loader does: through the stored offsets.
BodyRead(f) ==
  LET h == FunctionHeaderOf(img, lay, f)
      at == {g \in Fns : lay.body[g] = [at |-> h.at, len |-> h.size]}
  IN  IF at = {} THEN Torn ELSE code[CHOOSE g \in at : TRUE]

TableRead(f) ==
  LET pos == Align4(FunctionHeaderOf(img, lay, f).info)
      at == {g \in WithTable : lay.info[g].at = pos}
  IN  IF at = {} THEN Torn ELSE tab[CHOOSE g \in at : TRUE]

StringsRead ==
  IF Align4(img.strBytes) = lay.strings.len THEN strs ELSE Torn

RegexpsRead ==
  IF lay.regexp = [at |-> RegexpOff(img), len |-> Align4(img.reBytes)]
  THEN res ELSE Torn

Document == INSTANCE HbcDocument WITH
  code <- [f \in Fns |-> BodyRead(f)],
  table <- [f \in WithTable |-> TableRead(f)],
  strings <- StringsRead, regexps <- RegexpsRead

\* An edit shows through the stored offsets as the one change it was asked for:
\* no other function, table, string or RegExp reads differently afterwards.
EditsAreSurgical == Document!Spec

\* Q3: an edit that changes the size of a function with handlers rewrites its
\* table for the new body, and one that keeps the old table keeps the size.
TablesFollowTheirBody ==
  [][\A f \in WithTable :
       lay'.body[f].len # lay.body[f].len => tab'[f] = code'[f]]_vars

\* R24: a function's line table goes stale only if the caller accepted that
\* (the low-level byte replacement, which no command calls, has no such guard).
LinesGoStaleOnlyIfAccepted ==
  [][stale' # stale => last'.allow \/ last'.op = "patch_bytes"]_vars

\* A refused operation leaves every byte and every parsed field of the caller's
\* file as they were.  A refused inject_stub may leave its reservation in one
\* function's header, and nothing else: the frame as it was parsed or grown to
\* what the stub needs, and the read cache slot after those the parsed header
\* knows of; the parsed header stays behind in a legacy file and follows in a
\* modern one.
RefusalsKeepTheFile ==
  [][last'.how = "refused" =>
       /\ UNCHANGED <<lay, contents>>
       /\ \/ UNCHANGED <<img, model>>
          \/ /\ last'.op = "inject_stub"
             /\ \E f \in Fns : \E frame \in {model.regs[f].frame, LogFrame} :
                  LET left == [frame |-> frame, cache |-> model.regs[f].cache + 1]
                  IN  /\ frame >= model.regs[f].frame
                      /\ img' = [img EXCEPT !.regs[f] = left]
                      /\ model' = IF Modern THEN [model EXCEPT !.regs[f] = left]
                                  ELSE model]_vars

\* commit_image_checked's own words: a refused write leaves the caller's file as
\* it was.  Violated, README section 6; no run checks it.
RefusedWritesLeaveTheFile ==
  [][last'.how # "done" => UNCHANGED <<lay, img, model, contents>>]_vars
=============================================================================
