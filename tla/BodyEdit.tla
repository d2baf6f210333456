------------------------------ MODULE BodyEdit ------------------------------
(***************************************************************************)
(* What an edit does inside one function body: inject_stub                   *)
(* (write/patch/inject.rs) and the round trip through HASM text              *)
(* (write/hasm, write/patch/functions.rs).                                   *)
(*                                                                         *)
(* A body is a sequence of instructions.  Four structures name instructions   *)
(* by number: the operands of jumps and switches, the jump table of a switch, *)
(* the handler table and the location stream.  An edit moves instructions;    *)
(* it is right when what the numbers name has moved with them.                *)
(***************************************************************************)
EXTENDS SortedSets, Integers, SequencesExt, FiniteSetsExt

CONSTANTS
  Program,        \* the body as opened: a sequence of [id, kind, len, dest]
  End,            \* the point behind the last instruction
  Regions,        \* its handlers: a sequence of [start, end, target] points
  Located,        \* the instructions with a source location, in stream order
  Case,           \* where the table of a switch leads: a point
  SwitchIsJump,   \* the opcode table marks the switch as a jump (from v99)
  LogLen,         \* bytes of the log prologue
  AddrMax,        \* a short jump reaches at most this far
  InsertLens,     \* lengths of the instruction an edited text may add
  MayDelete,      \* instructions an edited text may leave out
  Stated,         \* may an edited text keep (TRUE), drop (FALSE) its .handler lines
  Consents,       \* may the caller accept stale lines (allow_stale_debug_info)
  SizeBound       \* bound: a body grown past this is not edited again

VARIABLES
  body,       \* the instructions: a sequence of [id, kind, len, rel]
  handlers,   \* the handler table: a sequence of [start, end, target] offsets
  lines,      \* the location stream: address deltas, one for each of Located
  tableAt,    \* where the jump table is, counted from the start of the body
  consented   \* the caller accepted that the lines go stale

vars == <<body, handlers, lines, tableAt, consented>>

Align4(n) == n + ((-n) % 4)

-----------------------------------------------------------------------------
(***************************************************************************)
(* Sequences of instructions, or of lines of text: their offsets.            *)
(***************************************************************************)
Total(ns) == FoldLeft(LAMBDA n, d : n + d, 0, ns)

Size(s) == Total([i \in DOMAIN s |-> s[i].len])

OffsetOf(s, i) == Size(SubSeq(s, 1, i - 1))

Added(kind, len) == [id |-> kind, kind |-> kind, len |-> len, rel |-> 0]

\* AsyncBreakCheck, the one-byte runtime no-op.
Nops(n) == [i \in 1..n |-> Added("nop", 1)]

InsertedAt(s, i, new) == SubSeq(s, 1, i - 1) \o new \o SubSeq(s, i, Len(s))

\* The lines of a text whose numbers are in K.
Only(t, K) == FlattenSeq([k \in DOMAIN t |-> IF k \in K THEN <<t[k]>> ELSE <<>>])

Jumping == {"jump", "jmp"} \union (IF SwitchIsJump THEN {"switch"} ELSE {})

\* The instructions that print an address operand as a label.
Addressing == {"jump", "jmp", "switch"}

EndsFlow == {"ret", "throw", "jmp"}

-----------------------------------------------------------------------------
(***************************************************************************)
(* inject_stub.  The instructions keep their operands; the handler table and *)
(* the location stream follow the one point where bytes went in.             *)
(***************************************************************************)
\* Mutant: what lies exactly at the insertion point is left behind.
ShiftedPast(o, at, d) == IF o > at THEN o + d ELSE o

Shifted(o, at, d) == IF o >= at THEN o + d ELSE o

ShiftedHandlers(table, at, d) ==
  [k \in DOMAIN table |-> [start |-> Shifted(table[k].start, at, d),
                           end |-> Shifted(table[k].end, at, d),
                           target |-> Shifted(table[k].target, at, d)]]

Address(stream, k) == Total(SubSeq(stream, 1, k))

\* Mutant: every delta behind the insertion point is changed.
RelocatedAll(stream, at, d) ==
  [k \in DOMAIN stream |-> IF Address(stream, k) >= at THEN stream[k] + d
                           ELSE stream[k]]

\* The first entry at or behind the insertion point gets the new bytes added to
\* its delta; every later one is relative to it.
Relocated(stream, at, d) ==
  LET behind == {k \in DOMAIN stream : Address(stream, k) >= at}
  IN  IF behind = {} THEN stream
      ELSE [stream EXCEPT ![Min(behind)] = @ + d]

\* check_within: handlers that describe a region and a landing pad in the body.
Within(table, size) ==
  \A k \in DOMAIN table :
    /\ table[k].start <= table[k].end
    /\ table[k].end <= size
    /\ table[k].target < size

Inject(i, new) ==
  LET at == OffsetOf(body, i)
      d == Size(new)
  IN  /\ Size(body) <= SizeBound
      /\ body' = InsertedAt(body, i, new)
      /\ handlers' = ShiftedHandlers(handlers, at, d)
      /\ Within(ShiftedHandlers(handlers, at, d), Size(body) + d)
      /\ lines' = Relocated(lines, at, d)
      /\ tableAt' = tableAt + d
      /\ UNCHANGED consented

\* LogEntry: the prologue, padded to four bytes, in front of everything.
Prologue == <<Added("log", LogLen)>> \o Nops(Align4(LogLen) - LogLen)

InjectLog == Inject(1, Prologue)

\* NopPad: four no-ops before the last Ret, or at the end of a body without one.
NopIndex ==
  LET rets == {i \in DOMAIN body : body[i].kind = "ret"}
  IN  IF rets = {} THEN Len(body) + 1 ELSE Max(rets)

InjectNop == Inject(NopIndex, Nops(4))

-----------------------------------------------------------------------------
(***************************************************************************)
(* emit_hasm_function: a line for each instruction, its address operand       *)
(* printed as L<offset>, and label lines.                                    *)
(***************************************************************************)
Target(b, i) == OffsetOf(b, i) + b[i].rel

LabelOffsets(b) ==
  {OffsetOf(b, i) + b[i].len : i \in {j \in DOMAIN b : b[j].kind \in EndsFlow}}
  \union {Target(b, i) : i \in {j \in DOMAIN b : b[j].kind \in Jumping}}

Wanted(table) ==
  UNION {{table[k].start, table[k].end, table[k].target} : k \in DOMAIN table}

Label(o) == [id |-> "label", kind |-> "label", len |-> 0, name |-> o]

InsnLine(b, i) ==
  [id |-> b[i].id, kind |-> b[i].kind, len |-> b[i].len,
   name |-> IF b[i].kind \in Addressing THEN Target(b, i) ELSE 0]

LabelLine(b, table, i) ==
  IF OffsetOf(b, i) \in LabelOffsets(b) \union Wanted(table)
  THEN <<Label(OffsetOf(b, i))>> ELSE <<>>

\* Mutant: a label is written behind its instruction.
EmittedLabelsBehind(b, table) ==
  FlattenSeq([i \in DOMAIN b |-> <<InsnLine(b, i)>> \o LabelLine(b, table, i)])

\* Handler boundaries at no instruction are labelled after the last one.
Emitted(b, table) ==
  LET rest == Wanted(table) \ {OffsetOf(b, i) : i \in DOMAIN b}
      ends == Sorted(rest)
  IN  FlattenSeq([i \in DOMAIN b |-> LabelLine(b, table, i) \o <<InsnLine(b, i)>>])
      \o [k \in DOMAIN ends |-> Label(ends[k])]

-----------------------------------------------------------------------------
(***************************************************************************)
(* What a user does to the text: add an instruction somewhere, leave one out. *)
(***************************************************************************)
NewLine(n) == [id |-> "new", kind |-> "new", len |-> n, name |-> 0]

With(t, k, n) == IF n = 0 THEN t ELSE InsertedAt(t, k, <<NewLine(n)>>)

Without(t, x) == Only(t, {k \in DOMAIN t : t[k].id # x})

-----------------------------------------------------------------------------
(***************************************************************************)
(* parse_hasm_function_full.  A label is pending until the next instruction   *)
(* takes it, or the text ends; a second label before that replaces it.        *)
(***************************************************************************)
Defines(t, k) ==
  /\ t[k].kind = "label"
  /\ k = Len(t) \/ t[k + 1].kind # "label"

Labels(t) == {t[k].name : k \in {j \in DOMAIN t : Defines(t, j)}}

\* Mutant: the number in the name is used before the label is looked up.
ResolvedByName(t, name) == name

\* A label the text does not define is taken as a literal offset.
Resolved(t, name) ==
  IF name \in Labels(t)
  THEN OffsetOf(t, CHOOSE k \in DOMAIN t : Defines(t, k) /\ t[k].name = name)
  ELSE name

ParsedLine(t, k) ==
  [id |-> t[k].id, kind |-> t[k].kind, len |-> t[k].len,
   rel |-> IF t[k].kind \in Addressing
           THEN Resolved(t, t[k].name) - OffsetOf(t, k) ELSE 0]

Parsed(t) ==
  Only([k \in DOMAIN t |-> ParsedLine(t, k)], {k \in DOMAIN t : t[k].kind # "label"})

AddressesFit(b) ==
  \A i \in DOMAIN b : b[i].kind \in {"jump", "jmp"} =>
    -AddrMax - 1 <= b[i].rel /\ b[i].rel <= AddrMax

\* The distance is computed in 32 bits and cast to the operand's width.
Cast(rel) == ((rel + AddrMax + 1) % (2 * (AddrMax + 1))) - (AddrMax + 1)

Stored(b) ==
  [i \in DOMAIN b |-> IF b[i].kind \in {"jump", "jmp"}
                      THEN [b[i] EXCEPT !.rel = Cast(@)] ELSE b[i]]

ResolvedHandlers(t, table) ==
  [k \in DOMAIN table |-> [start |-> Resolved(t, table[k].start),
                           end |-> Resolved(t, table[k].end),
                           target |-> Resolved(t, table[k].target)]]

-----------------------------------------------------------------------------
(***************************************************************************)
(* assemble_function_hasm_with: parse the text, pad before the last           *)
(* instruction so that the size changes by a multiple of four, move the       *)
(* stated handlers with the padding, write the body.                          *)
(***************************************************************************)
PadFor(delta) == (-delta) % 4

\* The padding goes in front of the last instruction.
PadIndex(b) == IF b = <<>> THEN 1 ELSE Len(b)

Padded(b, pad) == InsertedAt(b, PadIndex(b), Nops(pad))

HandlersAfter(t, given, pad, at) ==
  IF given THEN ShiftedHandlers(ResolvedHandlers(t, handlers), at, pad)
  ELSE handlers

\* A handler's label must be one the text defines.  A body with handlers that
\* the text does not state keeps its size, and so does one with source locations
\* unless the caller lets them go stale.
AsmAccepts(t, given, allow) ==
  LET b == Parsed(t) IN
  /\ AddressesFit(b)
  /\ given => Wanted(handlers) \subseteq Labels(t)
  /\ Size(b) # Size(body) /\ handlers # <<>> => given
  /\ Size(b) # Size(body) /\ Located # <<>> => allow

Assemble(t, given, allow) ==
  LET b == Parsed(t)
      delta == Size(b) - Size(body)
      pad == PadFor(delta)
      at == OffsetOf(b, PadIndex(b))
  IN  /\ AsmAccepts(t, given, allow)
      /\ given => Within(HandlersAfter(t, given, pad, at), Size(b) + pad)
      /\ body' = Padded(Stored(b), pad)
      /\ handlers' = HandlersAfter(t, given, pad, at)
      /\ tableAt' = tableAt + delta + pad
      /\ consented' = (consented \/ allow)
      /\ UNCHANGED lines

Asm ==
  LET text == Emitted(body, handlers) IN
  /\ Size(body) <= SizeBound
  /\ \E n \in InsertLens \union {0}, x \in MayDelete \union {End},
        k \in 1..Len(text) + 1, given \in Stated, allow \in Consents :
       Assemble(Without(With(text, k, n), x), given, allow)

-----------------------------------------------------------------------------
(***************************************************************************)
(* The body as hermesc wrote it.                                            *)
(***************************************************************************)
IndexOf(s, p) == CHOOSE i \in DOMAIN s : s[i].id = p

PointOffset(s, p) == IF p = End THEN Size(s) ELSE OffsetOf(s, IndexOf(s, p))

Opened ==
  [i \in DOMAIN Program |->
     [id |-> Program[i].id, kind |-> Program[i].kind, len |-> Program[i].len,
      rel |-> IF Program[i].kind \in Addressing
              THEN PointOffset(Program, Program[i].dest) - OffsetOf(Program, i)
              ELSE 0]]

OpenedLine(k) ==
  PointOffset(Program, Located[k])
    - (IF k = 1 THEN 0 ELSE PointOffset(Program, Located[k - 1]))

OpenedHandlers ==
  [k \in DOMAIN Regions |->
     [start |-> PointOffset(Program, Regions[k].start),
      end |-> PointOffset(Program, Regions[k].end),
      target |-> PointOffset(Program, Regions[k].target)]]

Kinds == {"plain", "jump", "jmp", "ret", "throw", "switch"}

Ids == {Program[i].id : i \in DOMAIN Program}

Points == Ids \union {End}

\* The body is one the parser accepts: instructions have a length, addresses lead
\* to points and fit their operands, handlers lie in the body, and locations come
\* in the order of the instructions.
ASSUME ProgramAssumption ==
  /\ Program \in Seq([id : Ids, kind : Kinds, len : Nat \ {0},
                      dest : {Program[i].dest : i \in DOMAIN Program}])
  /\ \A i, j \in DOMAIN Program : Program[i].id = Program[j].id => i = j
  /\ Points \intersect {"nop", "log", "new", "label"} = {} /\ End \notin Ids
  /\ \A i \in DOMAIN Program :
       Program[i].kind \in Addressing => Program[i].dest \in Points
  /\ AddressesFit(Opened)
  /\ Regions \in Seq([start : Points, end : Points, target : Points])
  /\ Within(OpenedHandlers, Size(Program))
  /\ Located \in Seq(Points)
  /\ \A k \in 2..Len(Located) :
       PointOffset(Program, Located[k - 1]) <= PointOffset(Program, Located[k])

ASSUME EditAssumption ==
  /\ LogLen \in Nat \ {0} /\ AddrMax \in Nat
  /\ InsertLens \subseteq Nat \ {0} /\ MayDelete \subseteq Ids
  /\ Stated \subseteq BOOLEAN /\ Consents \subseteq BOOLEAN

Init ==
  /\ body = Opened
  /\ handlers = OpenedHandlers
  /\ lines = [k \in DOMAIN Located |-> OpenedLine(k)]
  /\ tableAt = Align4(Size(Program))
  /\ consented = FALSE

Next == InjectLog \/ InjectNop \/ Asm

Spec == Init /\ [][Next]_vars

-----------------------------------------------------------------------------
(***************************************************************************)
(* Properties.                                                              *)
(***************************************************************************)

\* Every operand, offset and delta is a number of its field: a short jump's
\* distance fits its operand, a handler lies in the body, addresses are natural.
TypeOK ==
  /\ \A i \in DOMAIN body : body[i].len \in Nat \ {0} /\ body[i].rel \in Int
  /\ AddressesFit(body)
  /\ Within(handlers, Size(body))
  /\ lines \in [DOMAIN Located -> Nat]
  /\ tableAt \in Nat /\ consented \in BOOLEAN

\* Where point p of the program is now: at the first instruction from p on that
\* has not been left out.
From(p) ==
  LET first == IF p = End THEN Len(Program) + 1 ELSE IndexOf(Program, p)
  IN  {Program[j].id : j \in first..Len(Program)}

IndexNow(b, p) ==
  LET left == {i \in DOMAIN b : b[i].id \in From(p)}
  IN  IF left = {} THEN Len(b) + 1 ELSE Min(left)

\* Offset o of body b names point p: control there comes to p through no-ops
\* and instructions the user added, if through any.
Names(b, o, p) ==
  \E i \in 1..IndexNow(b, p) :
    /\ OffsetOf(b, i) = o
    /\ \A j \in i..IndexNow(b, p) - 1 : b[j].kind \in {"nop", "new"}

Dest(id) == Program[IndexOf(Program, id)].dest

\* R10: after any chain of edits every jump goes where it went, or, when that
\* instruction was left out, to the one behind it.
JumpsFollow ==
  \A i \in DOMAIN body :
    body[i].kind \in {"jump", "jmp"} => Names(body, Target(body, i), Dest(body[i].id))

\* Q3: every handler covers the instructions it covered and lands where it landed.
HandlersFollow ==
  \A k \in DOMAIN handlers :
    /\ Names(body, handlers[k].start, Regions[k].start)
    /\ Names(body, handlers[k].end, Regions[k].end)
    /\ Names(body, handlers[k].target, Regions[k].target)

LinesFollow == \A k \in DOMAIN lines : Names(body, Address(lines, k), Located[k])

\* R24 P2: an inserted stub takes the source locations behind it along, by
\* changing a single delta of the stream.
LinesFollowInsertions ==
  [][(InjectLog \/ InjectNop) /\ LinesFollow => LinesFollow']_vars

\* R24: source locations name their instructions unless the caller accepted that
\* they do not.  Violated, README section 6; no run checks it.
LinesStaleOnlyIfAccepted == consented \/ LinesFollow

\* asm-check: emitting a body and assembling the text unchanged is the identity,
\* for the instructions and for the handlers.
RoundTrips ==
  LET t == Emitted(body, handlers) IN
  /\ Parsed(t) = body
  /\ ResolvedHandlers(t, handlers) = handlers

\* The distances a switch was opened with: to its table, and in the table.
TableDistance(i) ==
  Align4(Size(Program)) - PointOffset(Program, body[i].id)

CaseDistance(i) ==
  PointOffset(Program, Case) - PointOffset(Program, body[i].id)

SwitchesLead ==
  \A i \in DOMAIN body : body[i].kind = "switch" =>
    /\ Names(body, Target(body, i), Dest(body[i].id))
    /\ Align4(OffsetOf(body, i) + TableDistance(i)) = tableAt
    /\ Names(body, OffsetOf(body, i) + CaseDistance(i), Case)

\* A switch finds its table, and its default and its cases go where they went,
\* through an edit of the text.  Violated, README section 6; no run checks it.
SwitchesFollowTheText == [][Asm /\ SwitchesLead => SwitchesLead']_vars
=============================================================================
