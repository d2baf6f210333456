# hermes-decomp: a verification development

`hermes-decomp` reads Hermes bytecode bundles (`.hbc`), decompiles them to
JavaScript, and edits them in place.  This directory holds TLA+ modules of the
parts whose correctness is a matter of *state* - what an operation may change,
in which order, and what must still hold afterwards - with the TLC runs that
check them on small instances and the theorems TLAPS proves for every instance.

Paths below are relative to `src/crates/`; `hbc-decomp/src` is the library,
`hbc-decomp-cli/src` the command line and TUI, `hbc-decomp-mcp/src` the MCP server.

## 1. Inventory

### The parts and how they interact

```
             parse_auto                    commit_image_checked
 .hbc bytes ------------> BytecodeFile <----------------------- write/patch/*
                              |    ^  every operation re-parses what it wrote
                              v    |
        ir/builder -> ir/cfg -> transforms/ssa -> analysis/* -> transforms/* -> codegen
                              |            pipeline/context (rayon batches)
                              v
          pipeline/cache (one file per bundle, shared by processes)
              |                 |                  |
             CLI         TUI (UI thread +     MCP server (tools on
                          worker threads)      blocking threads, one lock)
```

| part | state it keeps | operations | what makes it correct |
|---|---|---|---|
| **Write path** `hbc-decomp/src/write` | one `BytecodeFile`: `raw_bytes` and everything parsed from it | patch_function_body, patch_function_bytes, inject_stub, patch_string / resize / add, patch_regexp, operand and RegExp repointing, create | offsets and sizes stored in the file name the regions they are about after *any chain* of edits; a refused edit changes nothing; an edit changes only what it was asked to; handler tables and line tables do not silently describe an older body |
| **Reader** `hbc-decomp/src/file` | none (a pure parse) | parse_auto, header, sections, function headers, handlers, debug offsets | what it reads is what the writer wrote |
| **Body codec** `write/encode.rs`, `write/hasm` | labels and fix-ups of one body | parse, resolve, encode, insert | a jump, a handler and a switch table follow their label through an insertion |
| **String storage** `write/patch/strings.rs` | string tables, storage, identifier hashes | pack, edit in place, resize, append | a string shares storage only with a string of the same bytes; editing one leaves the others; pinned ids keep their kind |
| **Line streams** `write/patch/debug_reloc.rs` | the SLEB128 debug data of a section | shift the addresses behind an insertion | every other location still names its own instruction |
| **IR and CFG** `ir` | blocks and edges of one function | split, connect, generator resume edges | blocks partition the instructions, edges are the jumps |
| **Analyses** `analysis` | worklists over blocks; slot values and name hints over functions | liveness, reaching definitions, loops, structure, closures, IPA, Metro | the fixpoint is reached, and is the path definition; merges do not depend on order |
| **Transforms** `transforms` | one function's syntax tree | SSA, inlining, patterns, generators, codegen | meaning is kept |
| **Pipeline** `pipeline/context` | contexts, rendered bodies, progress | stages and rayon batches | a body is inlined only once it is available |
| **Analysis cache** `pipeline/cache.rs` | one file per (bundle hash, version) in a directory shared by processes | load, build, save (temporary file, rename) | a reader sees a complete cache or none |
| **TUI** `hbc-decomp-cli/src/tui` | views, receivers of worker channels | start, poll, finish, replace a worker | a late result is not applied to another view; a dead worker does not spin forever |
| **MCP server** `hbc-decomp-mcp/src/server` | one `Mutex<Option<LoadedFile>>` | load_file, the query and edit tools | a tool sees one file from start to end; a panic leaves no half-edited file |
| **CLI, self-update, cascade, secrets, Frida, disassembly** | arguments; the installed binary | commands | the binary is replaced whole |

`PROJECT.json` lists the same parts with their sources and their status.

### What is hard here

* **Chains of edits.**  Every operation computes offsets from the model the previous one
  left, splices bytes, relocates each stored offset that lies behind the splice, and
  re-parses.  A test edits once or twice; a field forgotten by one operation only
  shows in the next one that reads it.
* **Two-step edits.**  `inject_stub` reserves registers, edits the body, *commits*,
  then relocates the line table and commits again; each step can refuse.
* **Refusals.**  Nearly every operation has several: packed fields that overflow,
  unaligned deltas, handlers, line tables, versions whose layout is not known.
* **Silent staleness.**  Handler tables, line tables and switch tables are relative to the
  body; a resize leaves them decodable and wrong.
* **Shared caches and workers.**  Processes share a cache directory, threads share a
  temporary name; workers outlive the view that asked for them; tools overlap.

The `hazards` of `PROJECT.json` name each of these at the line where it bites and the
properties that would catch it going wrong.

## 2. Plan

The write path comes first: it is the part that changes a user's file, and the
repository's own design notes (`docs/`, RISKS.md) argue about exactly the
invariants a model can settle.

| order | modules | abstract specification | questions | theorems |
|---|---|---|---|---|
| 1 (done) | `HbcImage`, `HbcDocument`, `MCHbcImage`, `HbcImageProofs`, `HbcImageStepProofs` | `HbcDocument`: a bundle with no bytes in sight | do stored offsets, the bytes and the parsed model agree after any chain of edits; do edits change only their target | every invariant and action property, and the refinement |
| 2 (done) | `BodyEdit`, `SortedSets`, `MCBodyEdit`, `BodyEditProofs`, `DataFacts` | the program as opened: jumps, handlers and locations name instructions, not numbers | do jumps, switch tables, handlers and source locations follow an insertion, a text edit or a pad | every property |
| 3 (done) | `StringTable`, `StringDocument`, `SortedSets`, `MCStringTable`, `StringTableProofs`, `DataFacts` | `StringDocument`: ids and their strings | do a patch, a retarget and an addition change the one string, whatever shares storage | every property, the refinement included |
| 4 (done) | `HdCache`, `MCHdCache`, `HdCacheProofs` | an answer is the analysis of what was asked | processes, threads, failures, crashes and power losses between any two steps of a save or a load | types, answers, whole entries |
| 5 (done) | `McpSession`, `MCMcpSession`, `McpSessionProofs` | a call is about the file loaded when it answers | overlapping loads, tools and panics | every property but `EveryCallEnds` |
| 6 (done) | `TuiWorkers`, `SortedSets`, `MCTuiWorkers`, `TuiWorkersProofs`, `DataFacts` | the view of the present choice | late results, dead workers, two builders | every safety property |
| 7 (done) | `ControlFlow`, `StructureRecovery`, `StatementPasses`, `PlainFlow`, `HermesCompiler`, `DecompiledRun`, `MCDecompiledRun` | the bytecode, run beside the decompiled text | do the statements do what the bytecode does | out of the prover's reach |
| 8 (done) | `RegisterFlow`, `RegisterRun`, `MCRegisterRun` | the bytecode's registers, run beside the decompiler's | does every read see the same value | out of the prover's reach |
| next | `ClosureMerge`, `BatchOrder`, `CascadeVerify` | merges that do not depend on order | closure slots merged in any order, bodies inlined once available, a confirmed name's evidence | soundness of every intermediate state |

`HbcImage` composes with modules 2 and 3 by what it abstracts: a body is contents of some
encoded size, the string region is contents of some size.  `McpSession` takes one call of
`build_cached` as one step, which `HdCacheProofs!AnswersAreRight` allows; `RegisterRun` and
`DecompiledRun` share `ControlFlow`, the graph both passes work on.  Modules that are proved
about use no RECURSIVE operator; 7 and 8 are recursive all through, as the code is.

## 3. The modules

### HbcImage - the write path

State, and the code it stands for:

| variable | code |
|---|---|
| `lay` | where each region of `file.raw_bytes` *really* is: string region, RegExp storage, each function body, each out-of-line large header, each FunctionInfo record, debug section.  Moved only by a splice of the byte vector |
| `img` | the offsets and sizes *stored* in those bytes: string and RegExp storage sizes, `debug_info_offset`, `file_length`, the packed small headers, the large headers, and `regs`: the frame size and read cache count of every function |
| `model` | the parsed `BytecodeFile` |
| `code`, `tab`, `strs`, `res` | contents of bodies, handler tables, string tables, RegExp storage (model values) |
| `stale` | functions whose line table describes a body of another size |
| `uses` | a history: the registers and read cache slots the instructions of a body use, its own and those of the stubs it was given |
| `last` | the operation that ran last, how it ended, and whether the caller passed the flag that accepts stale lines |

Keeping `lay` apart from `img` is what makes the model say something: the code has no such
variable, and the write path is right exactly when what `img` says agrees with `lay`.

Parsing (`Parse`, `FunctionHeaderOf`) goes the way the reader does: an overflowed
function's small header is a pointer to its large header, section positions are derived
from header sizes, a Modern12 large header has no info offset and the record follows it.
`Relocate` is `write/reloc.rs`: every absolute offset at or behind the splice shifts, the
large header is looked up through its *already shifted* pointer in the spliced buffer.
`RelocationFits` is what it refuses.  `Commit` and `CommitAccepts` are
`commit_image_checked`: write the length, parse, compare the header with the
declared edit.

| action | code |
|---|---|
| `PatchBody`, `PatchBodyRefused` | `patch_function_body_with`, for all three `HandlerUpdate`s: gates, padding before the terminator, splice, relocation, the handler table, commit |
| `PatchBytes`, `PatchBytesRefused` | `patch_function_bytes` |
| `InjectStub`, `InjectRefused`, `InjectFailed` | `inject_stub` for both stubs: the reservation, the body edit, its commit, the line table and the second commit; refused before the reservation, or after it, which leaves the grown frame and the read cache slot in the header |
| `RebuildStrings`, `RebuildStringsRefused`, `EditStringInPlace` | `patch_string_resize`, `add_string`, and edits that move nothing |
| `AppendRegexp`, `AppendRegexpRefused` | `set_regexp` with a payload that does not fit its slot |

No operation is split into two actions: a call holds `&mut BytecodeFile` from start
to end, and nothing else sees the file in between.

A log stub needs `LogFrame` registers (`LOG_FRAME_NEEDED`, 12) and one read cache slot of its own.
`Reserved` is what `reserve_legacy_log_regs` and `reserve_modern_log_regs` write into the header
bytes before the body edit: the first writes the bytes alone, the second the parsed header too.
The legacy field is the highest slot in use and the modern one a count, which `NextSlot` tells apart.

Abstractions: sizes and limits are constants (the limits 2^25, 2^15, 2^7 and 255 are scaled down, and
all but the frame's are reached: a prologue's 12 registers always fit its 7 bits); a body is
contents and an encoded size, and whether it has a call that reads from the end of the frame is a
choice (`fromEnd`); the growth of the debug section by re-encoded deltas is a choice.

### HbcDocument - what an edit promises

A bundle with no bytes in sight: the code of each function, its handler table, one string
table, one RegExp storage.  A step changes one of them.  `HbcImage!EditsAreSurgical` is
`HbcDocument!Spec` under the mapping that reads the image the way a loader does, *through
the stored offsets*: an offset that names the wrong region, or a region half cut, reads as
`Torn`, which is no content a document can have.

### MCHbcImage, HbcImageProofs, HbcImageStepProofs

The instances TLC checks, and the theorems: the inductive invariant and what follows from it,
what single edits may do, and the refinement.

### BodyEdit - inside one body

`HbcImage` sees a body as contents of some size.  `BodyEdit` opens it: a sequence of
instructions, and the four structures that name instructions *by number*.

| variable | code |
|---|---|
| `body` | the decoded instructions; `rel` is the relative address operand of a jump, the default of a switch |
| `handlers` | the exception table: offsets from the start of the body, `end` exclusive |
| `lines` | one location stream of the debug data: address *deltas* (`Located` says which instruction each is about) |
| `tableAt` | where the jump table of a switch is; it lies behind the body, aligned to four bytes |
| `consented` | the caller has passed `allow_stale_debug_info` to an edit of the text |

| action | code |
|---|---|
| `InjectLog` | `inject_stub(LogEntry)`: the prologue and its padding before the first instruction; the handlers from `HandlerUpdate::Shift`, the lines from `relocate_locations_for_insertion` |
| `InjectNop` | `inject_stub(NopPad)`: four `AsyncBreakCheck`s before the last Ret |
| `Asm` | `disasm` to HASM, a user's edit, `asm`: `Emitted` is `emit_hasm_function`, `With` and `Without` the edit, `Parsed` and `Resolved` are `parse_hasm_function_full`, `Assemble` is `assemble_function_hasm_with` and the parts of `patch_function_body_with` it reaches |

The text is a sequence of lines: a label, or an instruction whose address operand is a
*name*.  A name is the offset the label had when the text was written, as in the code
(`L17`), and that is all the difference between this and a symbolic assembler: a label the
text defines is looked up, one it does not define is read as the number in its name.  What a short jump
stores is a cast of the distance (`Stored`), so it is the check in front of the cast that keeps it true.

What each structure should name is known from `Program`, the body as opened: `Names(o, p)`
says that control at offset `o` comes to point `p` through no-ops and instructions the user
added, if through any.  A log prologue is not transparent: a loop must not run it twice.

Abstractions: an edit adds at most one instruction and leaves out at most one; operands other
than addresses are not there; the parser's errors (unknown mnemonics, operand counts) stop
the call and change nothing.  A refused edit is no step here, because `HbcImage` has the
refusals with what they leave behind.  Versions whose opcode table has no
`AsyncBreakCheck`, and the refusal at version 97, are not in this module.

`ProgramAssumption` is what the parser checks of a body and its handlers (addresses fit their
operands, ranges lie inside), with the program's names for it; `EditAssumption` gives the other
constants their types.  `BodyEditProofs` needs no more for types and source locations, and names what
it needs besides for handlers and jumps (section 5).

### StringTable, StringDocument - the string table

`HbcImage` sees the string region as contents of some size; `StringTable` opens it.  `file` is
the five things the code reads and rewrites: the runs of `kinds`, the identifier `hashes`, the
`small` entries, the `overflow` records and the `storage` bytes, which strings share wherever one
stands inside another.  `Stored` reads string `i` as the engine does (`read_all_string_locs`);
`Parsed` is what `decode_string_table` makes of it, which is not the same: a string that starts
at the end of the storage reads as `<invalid utf8>`, an unpaired surrogate as U+FFFD.

| action | code |
|---|---|
| `PatchById` | `patch_string_by_id`: overwritten in place (`Overwrite`) if `InPlace`, else the tables are rebuilt (`Resize`: `lay_out`, packed or not, with the string pinned); `patch_string_replace` is the same for the first string of a value |
| `RetargetString` | `retarget_string`: one entry copied over another, the hash refreshed |
| `AddString` | `add_string`: kinds, hashes and a rebuild |

`Commit` is the check every edit ends with (`validate`): if an entry does not read back, or a
pinned one shares a byte, the edit is refused.  `EditsAsAsked` is `StringDocument!Spec` under the
reading above, and `StringDocument` has no refusal: so the property also says that this check
never fires.  Abstractions: a hash is the string itself (no collisions); the suffix
array is its result, an occurrence inside a longer text (the first or the last one);
what moves behind the table is `HbcImage`.  The tables opened are `WellFormed`: `current_strings`
fails on a string outside the storage, and a hash table of another length is no compiler's.

### HdCache - the analysis cache

The file `<input>.hdcache`, and every thread that calls `build_cached` on one bundle.  A file is
an inode a name leads to, with a first and a second flush of the buffered writer (`head`, `tail`),
so a reader keeps the file it opened and a writer the one it created, while names move.

| variable | code |
|---|---|
| `bundle`, `artifact` | the input file and the proposal artifact of a cascade, which others may replace |
| `entry`, `tmp`, `head`, `tail` | the cache's name, the temporary names (one per process id), and what is in the files |
| `pc`, `asked`, `parsed`, `hashed`, `fd`, `ctx`, `hit` | a thread: its step, request, the version it parsed, the version it hashes, its open file, its answer |

A call is cut into `Start`, `Enter`, `Open`, `ReadHeader`, `ReadSnapshot`, `BuildContext`,
`CreateTmp`, `WriteFirst`, `WriteSecond`, `Rename` - everywhere another process can come in between.
Faults: `SaveFails` and `LoadFails` (a call of the file system fails), `Crash` (a process dies with
its files left behind, and a later one may have its id), `LosePower` (the end of any file that was
never synced is lost), `EditBundle`, `EditArtifact`.  An analysis is known by what it was made
from; what the snapshot holds is opaque, the 32 bits of the options key do not collide, and the
mixed bytes of two writers never decode (which the code's comment at `cache.rs:298-302` says).

### McpSession - one MCP session

| variable | code |
|---|---|
| `disk` | path to contents; None while a writer has truncated the file |
| `loaded`, `holder`, `poisoned` | `Mutex<Option<LoadedFile>>`: the file, its path, the pipeline kept for one mode; who holds the guard; whether a thread panicked with it |
| `pc`, `req`, `parsed`, `answer` | a call: its step, request, the file a load has parsed outside the lock, how it ended |

`Ask` opens a call; `LoadParse` and `Publish` are `load_file`; `Lock`, `Refuse`, `Light`,
`EnsurePipeline`, `Render` are the reading tools; `Truncate` and `Write` the writing ones,
which hold the mutex for a patch and not for `create_hbc`.  `Fails` is an error or a panic that
`catch_tool_panic` reports, `SpawnFails` the one panic outside it, `EditFile` another program.
`ensure_pipeline` is one step: `HdCache` is that call in detail.  Several sessions in one process
(HTTP mode, `main.rs:60-75`) share nothing but that call, and there the temporary name:
see `cache_one_process`.

### TuiWorkers - the terminal UI and its threads

| variable | code |
|---|---|
| `pc`, `view`, `list` | the loop (draw, keys, quit), what is drawn, the function list with its query, selection and comparison state |
| `cmp`, `lost` | the comparison: names still to do, results, messages; the names a thread died on |
| `pipe`, `text` | per file: the pipeline and its builder's channel, and the decompiled texts kept |
| `git` | the full-program diff: job, rows, folds, the channel of its worker |

Each key that changes shared state, one `Poll` of all channels, one `Draw` (which asks for
pipelines and texts) are UI steps; `Compare`, `CompareFinish`, `Build` and `GitWorker` those of the
threads; `CompareDies` and `ComparePanics` their deaths.

### ControlFlow, StructureRecovery, StatementPasses, DecompiledRun - control flow

`ControlFlow` builds the graph of a function and finds its loops; `StructureRecovery` turns it into
nested statements, with the visited, held back and emitted blocks of the code's context;
`StatementPasses` applies the passes over statements that go by their control alone, in the order
of `pipeline/ir_gen.rs` (section 7 names the ones that go by what a condition calculates).  `HermesCompiler` (external) lays out source statements the way
the decompiler's comments describe hermesc's output, so that every function that is run is one a
compiler makes.  `DecompiledRun` runs a function twice at once: as bytecode (`pc`) and as the
statements it became (`todo`).  Both get the same outcome of every test, switch and throw, and
what each does next is compared in every state.

`PlainFlow!Plain` states of the *graph* what recovery takes for granted: that loops are detected,
joins are found, a switch's cases end in one place, tries do not start at one block.  Outside it the
code diverges, in the ways section 6 lists; `FollowsTheBytecode` is about graphs inside it.

### RegisterFlow, RegisterRun - registers

`RegisterFlow` is what happens to registers before structure is recovered: reaching
definitions with their exception edges, the reads of the global object, the split of live ranges
by union of what one read may see, the copies of `reaching_passes.rs`, and block-wise propagation.
`RegisterRun` runs one graph with the bytecode's registers (`was`) and the decompiler's (`now`);
a calculation may return or throw, a branch, a return and a `throw` read their register, and every
read must see the same value on both sides.
`CatchSeesAll` and `CopiesHold` state the two assumptions the code makes without looking.

## 4. The runs

| run | file | what it shows |
|---|---|---|
| `image_legacy` | `image_legacy.cfg` | Legacy16 headers: one plain function with handlers, one overflowed function with source lines, with and without RegExp storage and debug section.  All invariants, the refinement and three action properties.  The theorems of section 5 say the same of Modern12 headers |
| `body_edits` | `body_edits.cfg` | a loop in a try region with source lines, ended by its only Ret, through every chain of stubs and text edits within the bounds |
| `body_tail_jump` | `body_tail_jump.cfg` | a finding, see section 6: the body ends in a backward jump |
| `string_table` | `string_table.cfg` | every chain of patches, retargets and additions on a table whose strings overlap and on one that `create` laid out |
| `cache_processes` | `cache_processes.cfg` | two processes of two builds of the program on one bundle that is edited, with a failing call and a dying process |
| `cache_faults` | `cache_faults.cfg` | plain and cascading requests, an edited artifact, a dying process or a power loss |
| `cache_one_process` | `cache_one_process.cfg` | a finding, see section 6: two threads of one process |
| `mcp_session` | `mcp_session.cfg` | two open calls of one session over loads, reads in both modes, patches onto the loaded path, panics and a replaced file |
| `tui_workers` | `tui_workers.cfg` | the drawing loop, two comparison threads, two pipeline builders and a git-diff worker, with a panic and a failed build |
| `structure_recovery` | `structure_recovery.cfg` | ten thousand small functions, as bytecode and as statements |
| `register_run` | `register_run.cfg` | nine thousand functions of three registers, before and after |
| `register_catch` | `register_catch.cfg` | a finding, see section 6: a register set twice in one protected block |

| property | says |
|---|---|
| `StubsHaveRoom` | every function has the registers and the read cache slots its stubs use, and no two reads share a slot |
| `EveryOffsetResolves` | every stored offset and size names the region it is about |
| `ModelMatchesBytes` | the parsed file is what the bytes say (the frame and cache count of a legacy function may lag by one reservation), so operations chain |
| `RegionsStayLaidOut` | no overlap, no reordering, alignment kept |
| `LengthCountsTheFooter` | `file_length` is the length, footer included |
| `FieldsHoldTheirValues` | a packed offset, size, frame size or cache count is never truncated |
| `EditsAreSurgical` | the refinement of `HbcDocument` |
| `TablesFollowTheirBody` | a resize rewrites the handler table |
| `LinesGoStaleOnlyIfAccepted` | a line table goes stale only with the caller's consent |
| `RefusalsKeepTheFile` | a refusal changes nothing, but for what a refused stub reserved: a grown frame and one read cache slot of one function |
| `JumpsFollow` | every jump goes where it went, through any chain of edits |
| `HandlersFollow` | every handler covers the instructions it covered and lands where it landed |
| `LinesFollowInsertions` | a stub takes all source locations behind it along by changing one delta |
| `RoundTrips` | emitting a body and assembling the text unchanged is the identity |
| `EditsAsAsked` | each edit of the string table succeeds and is the one change asked for (refinement of `StringDocument`) |
| `HashesFollow` | one hash per identifier, in the order of ids, of what the string now is |
| `WideAligned` | no UTF-16 string starts at an odd offset |
| `NextPatchIsInPlace` | a string a rebuild was made for has its bytes to itself, and the next patch of its length stays in place |
| `ServesWhatWasAsked` | an answer is the analysis of the file, options, reading, build and artifact asked for |
| `NeverHalfWritten` | the cache's name leads to a whole entry |
| `Heals` | whatever failed, a thread that goes on asking is in the end always answered from the cache |
| `HdCache!EveryCallEnds`, `McpSession!EveryCallEnds` | every call ends |
| `PipelineIsOfTheFile`, `ModeAsAsked` | the pipeline a session keeps is of its file and mode; an answer is about the file loaded when it is given, in the mode asked for |
| `ReplacedOnlyOnSuccess`, `StaysUsable` | a failed load leaves the loaded file; no panic makes the server refuse |
| `OutputIsTheEdit` | a patch that reports its output has left it whole |
| `EveryFunctionListed` | after the comparison every function of both files is in the list once, as itself or as a new name |
| `SelectionInRange`, `RowsAreOfTheChosenKind`, `TextKeepsUp`, `OneBuilder` | what arrives late never mixes with what was chosen since; one thread builds a pipeline |
| `DiffEnds`, `GitBuilds` | what the user asked for comes, or is given up visibly, however workers die |
| `FollowsTheBytecode` | the statements do what the bytecode does, step by step |
| `NothingIsDropped` | recovery drops no reachable operation, also where order or conditions went wrong |
| `JumpsHaveTargets` | no `break` or `continue` lost its loop or its label to a pass |
| `ReadsTheSame` | every read sees the value the bytecode reads |
| `CatchReadsWhatWasWritten` | the same without the two assumptions (violated) |

Type invariants (`TypeOK`) are stated in the modules and proved for `HbcImage`, `BodyEdit`,
`HdCache` and `McpSession`; the runs spend their time on the properties above.

### Bounds, and why they are enough

Two functions: the smallest number with a body in front of and a body behind every splice,
and with one plain and one overflowed header.  Bodies start at 6 and 10 bytes and become 6 or 9,
so that deltas of 0, a multiple of four, and each kind of padding occur, growing and
shrinking.  The string region takes an unpadded size of 5 or 12: it shrinks, grows
and stays.  `OffLimit` 98 and `SizeLimit` 13 lie inside the reachable range, so both
refusals fire and `FieldsHoldTheirValues` is about something.  `CacheLimit` 2 lets a function
take two log stubs and refuses the third, so that a second reservation meets what the first one, done
or refused, left behind.  `OpenRegs` has frames of 2 and 5 registers and `LogFrame` is 4: a frame the
prologue has to grow, and one it fits in.  `LogLen` 3 makes the prologue padded.

Three guards only bound the state space: `BodyBound` 14 (no stub into a body grown past
it), `RegexpBound` 6 and `LinesBound` 5 (RegExp storage and debug section are not grown past
it).  They allow at least one growth of each kind after any other edit.  `Paddings` is
{1}; `Contents` has two members and is symmetric: nothing depends on which one it is.
The theorems of section 5 hold for every value of these constants that satisfies
`ImageAssumption`.

`image_legacy` identifies states that differ only in `last` (`VIEW FileView`): no
guard and no invariant reads `last`, and the action properties read only what the step has
just written to it, so a state explored once stands for all.

`body_edits` has six instructions of 12 bytes: a forward jump out of the loop, a backward one,
a handler whose `end` and `target` coincide, and locations at the first, an inner and
the last instruction, so that an insertion point falls before, at and behind
each kind of reference.  `InsertLens` {1, 3} makes every kind of padding together with the
deletion of a one-byte instruction; that deletion is the only one because leaving out more
only repeats it.  `SizeBound` 16 is two edits deep, three where one keeps the size: the second
edit meets everything the first one moved.  `AddrMax` 12 stands for 127 and lies within reach, so that
a label does go out of range and the edit is refused (without the refusal the cast wraps and `JumpsFollow`
fails).  A body larger than `SizeBound` is
not edited again, which is the only reason these runs may stop (`CHECK_DEADLOCK FALSE`).

What `body_edits` leaves out - a throw behind the last Ret, a body that ends in a backward jump,
labels that come to stand in a row, a switch, and an edit that keeps the size without stating handlers or
accepting stale lines - is what section 6 is about.

`string_table` starts from two tables.  In one, `ab` and `ba` overlap in `aba` and an identifier is an
unpaired surrogate; the other is a `create` with an empty string last.  The six texts an edit may
write make every relation between two strings: equal, contained at the start and at the end, as long
but different, empty, of the other encoding, contained in the other encoding.  Lengths overflow at 3
(for 0xff) and offsets at 6 (for 2^23), so records occur for both reasons.  `MaxStrings` 3: an id
before, an id behind, and the one edited.  `VIEW` leaves `last` out, which no action reads.

`cache_processes`: two threads are enough for every race on two names; three inodes are one per
thread and one in place; one fault, one crash and one edit, since after any of them a call starts
over from the disk alone.  `cache_faults` adds power losses, for which `NeverHalfWritten` cannot
hold (nothing is synced), and shows that answers stay right and the cache recovers.

`mcp_session`: two calls, three asks (a load, something that needs it, something that comes in
between), paths for the bundle, for an output and for `create_hbc`, one fault, one edit.  After
three asks the client stops (`CHECK_DEADLOCK FALSE`).

`tui_workers`: file 2 has one changed function, one renamed and none removed without a new name;
two functions per message, two messages per poll, so that a chunk boundary falls between
and inside files; two keys, so that any choice can be changed once while its worker is under way.

`structure_recovery`: 21 constructs alone and around each other, two in a row, three deep, with
jumps out of switches, tries and inner loops.  The results of a test are yes and no; "unordered"
is left out (section 6).  `register_run`: three registers, set at the start to a parameter, a
constant and the global object; bodies of up to four statements with branches, loops and tries.

### Fairness

The write path, the string table and the two decompiler runs are sequential: they promise what a
call may do, and no property of theirs is a liveness property.

* `HdCache!FairSpec`: each thread's next step of its call is weakly fair.  A thread that is not
  killed runs on; nobody has to ask, no fault has to happen.  `Heals` itself assumes that
  threads go on asking.
* `McpSession!FairSpec`: the same of each call, each a thread of its own (`spawn_blocking`).  The
  mutex is not assumed to be fair: with `MaxAsks` calls each one is taken in the end.
* `TuiWorkers!FairSpec`: the loop draws and polls whether or not a key comes (it polls with a
  timeout), and *some* thread with work to do gets to run - less than fairness to each
  thread, and enough, since each has bounded work.

## 5. What is proved

`HbcImageProofs` proves, from `ImageAssumption` alone (the constants have their
types, `Overflowed`, `WithTable` and `WithLines` are functions of the file, the fixed sections
between the strings and RegExp storage keep 4-byte alignment, and every Modern12
function with an info record is overflowed):

| theorem | property | module |
|---|---|---|
| `SpliceKeepsLayout`, `RelocateTracksSplice` | the two facts about the byte vector and the relocation everything rests on | `HbcImageProofs` |
| `FileStaysGood` | `Spec => []IInv`, the inductive invariant | `HbcImageProofs` |
| `OffsetsResolve` | `EveryOffsetResolves` | `HbcImageProofs` |
| `ModelTracksBytes` | `ModelMatchesBytes` | `HbcImageProofs` |
| `RegionsKeepTheirPlace` | `RegionsStayLaidOut` | `HbcImageProofs` |
| `LengthIsTrue` | `LengthCountsTheFooter` | `HbcImageProofs` |
| `TypesHold` | `TypeOK` | `HbcImageStepProofs` |
| `FieldsNeverOverflow` | `FieldsHoldTheirValues` | `HbcImageStepProofs` |
| `TablesKeepUp` | `TablesFollowTheirBody` | `HbcImageStepProofs` |
| `LinesNeedConsent` | `LinesGoStaleOnlyIfAccepted`, assuming `LinesModelled` (at version 97 it fails: section 6) | `HbcImageStepProofs` |
| `StubsKeepTheirRoom` | `StubsHaveRoom` | `HbcImageStepProofs` |
| `RefusalsLeaveAReservation` | `RefusalsKeepTheFile` | `HbcImageStepProofs` |
| `WritePathImplementsDocument` | `EditsAreSurgical`, that is `HbcDocument!Spec` | `HbcImageStepProofs` |

**The argument.**  `EveryOffsetResolves` is not inductive: it speaks of what a function header
*reads as*, and relocation rewrites fields one by one.  `IInv` replaces it by `Direct`:
each stored field, in the small header and in the large one, has the value the layout
gives it.  It adds `WellLaid` (without order and disjointness a shift by "at or
behind the splice" does not move exactly the right regions), that the model is a parse of
the bytes up to frames and cache counts (an operation computes its splice from the model), how
far those may lag, the length, and the types.

1. `SpliceKeepsLayout`: replacing one whole region by another of an aligned size change
   keeps the file well laid.
2. `RelocateTracksSplice`: if every field was direct before the splice, every field is
   after `Relocate`, the large headers' fields through their shifted pointers included.
3. `BodyEditGood`, `RegionEditGood`: what an operation reads from the model is the true
   span, so 1 and 2 apply to it.
4. `CommitGood`: re-parsing keeps the model in agreement.
5. One lemma per operation, then `NextKeepsInvariant`, then the temporal step.
6. `FieldsFit`, `RegsFit`, `RoomKnown` and `SectionKnown` are inductive beside `IInv`: what `relocate`
   and the reservation accept fits the fields they write; what bodies use fits the registers of the
   *parsed* headers, which are never more than the stored ones (`StoredIsAhead`); and a debug section
   always has an offset.  `RoomKnown` speaks of the parsed headers because the next stub takes
   its slot from there.  `SectionKnown` is what `LinesNeedConsent` needs, because the guards of the
   code ask for the offset and not for the section.
7. For the refinement, `ReadsTrue`: in a good file the mapping gives back `code`, `tab`, `strs`
   and `res` themselves, since distinct functions have distinct bodies and distinct info
   records.  `StepEditsOne` then shows that a step changes one of them at one place
   (`TableFound`: the table is where the splice has taken it), or none.

`BodyEditProofs` proves, from `ProgramAssumption` and `EditAssumption`, for any body, any handlers, any
source locations, any lengths and any chain of stubs and text edits:

| theorem | property | condition |
|---|---|---|
| `BodyTypes` | `BodyEdit!TypeOK` | none |
| `LinesAlwaysFollowInsertions` | `LinesFollowInsertions` | none |
| `HandlersAlwaysFollow` | `HandlersFollow` | `HandlersAreStated` |
| `AlwaysRoundTrips` | `RoundTrips` | `HandlersAreStated` |
| `JumpsAlwaysFollow` | `JumpsFollow` | `HandlersAreStated`, `EndsPlainly`, `NoLabelsMeet` |

Each condition leaves out something the code does, and `body_edits` satisfies all three.

* `HandlersAreStated`: a text with `.handler` lines restates them all, or there are none.  A text without
  them keeps the table, and an edit that keeps the size then moves code under fixed offsets.
* `EndsPlainly`: the last instruction stays and is no jump, no instruction before it returns
  unless it does, and no jump leads behind it.  Without it: the jump that alignment padding
  moves (`body_tail_jump`), and the no-op pad that jumps cross (section 6).
* `NoLabelsMeet`: between two points that have a label some instruction stays.  Without it: the first
  of two labels in a row, which the parser loses (section 6).  `MCBodyEdit!Twins` with the instruction
  between its two targets removable is the counterexample.

The argument:

1. A text is a body with labels between its instructions (`EmitsAs`), and a body is a text without them
   (`ParsesAs`).  Either is the other with lines left out (`Thins`), and what is left out has no
   length, so the offset of what stays agrees (`ThinOffsets`).
2. `Leads` is `Names` by positions instead of offsets.  It survives leaving lines out that control
   only passes (`LeadsThinned`), and putting such lines in (`LeadsThickened`).
3. Instructions stay in the order of the program (`InOrder`), so that leaving out the one a jump
   names leads it to the next, as `Names` asks.
4. `BodyInv` is the types and the order, `FollowInv` adds that every handler names what the program's
   region names, `JumpInv` that every jump does (`JumpsLead`) and that what may not be left out is
   there (`AllStay`).  `JumpsFollow` is not inductive by itself: where the labels of handlers stand, in
   which order the instructions are and which of them are left decides what the next edit does to a jump.
5. `AllStay` and `NoLabelsMeet` give a needed label an instruction right behind it (`FirmLabel`),
   which the edit keeps (`EmittedFirm`, `WithFirm`), so the parser finds it.  Padding and no-ops go
   behind every jump and every target, or in front of everything (`PlacesAre`, `NotCrossed`), which is
   what `EndsPlainly` is for.

`HdCacheProofs` proves, from the assumptions of `HdCache`, for any number of threads, builds,
requests, faults, crashes and edits:

| theorem | property | condition |
|---|---|---|
| `TypeCorrect` | `HdCache!TypeOK` | none |
| `AnswersAreRight` | `ServesWhatWasAsked` | `Separate` |
| `EntryIsWhole` | `NeverHalfWritten` | `Separate` and no power loss |

`Separate` is: each thread is a process of its own, none reads the bundle a second time, and the
options decide how the bytes are read.  Each part is needed, and section 6 says where the code
breaks it.  The invariant says whose each file is: a temporary name leads to a file only its process
writes; a file whose first flush is there has the header and the analysis of one request;
behind the cache's name is a file no open writer has; and what a thread has read of a header is
still what is in the file it has open.

`McpSessionProofs` proves, for any number of open calls, requests, paths, panics and replaced
files:

| theorem | property | condition |
|---|---|---|
| `SessionStaysGood` | `Spec => []IInv`, the inductive invariant | none |
| `TypesHold` | `McpSession!TypeOK` | none |
| `PipelineStaysRight` | `PipelineIsOfTheFile` | none |
| `TextsAreAsAsked` | `ModeAsAsked` | none |
| `FailedLoadsAreHarmless` | `ReplacedOnlyOnSuccess` | none |
| `NeverBricked` | `StaysUsable` | none |
| `PatchesStayWhole` | `OutputIsTheEdit` | `CreatesApart` |

The invariant is about the mutex (`Exclusive`: the call that holds it is the one between taking
and dropping it), and about what a call brings to its next step: a load only publishes what parsed
(`Parses`), a tool that renders has the pipeline it asked for (`Rendering`), a patch between its
truncation and its write still has the loaded file's clone (`Patching`).  `CreatesApart` says
that `create_hbc`, which takes no mutex, is given paths of its own; without it a patch that reports
its output may have been overwritten.

`TuiWorkersProofs` proves, for any two files, any number of comparison threads and panics, any keys,
any chunk length and any number of messages per poll:

| theorem | property | invariant |
|---|---|---|
| `OneBuilderEach` | `OneBuilder` | `PipeInv`: a channel with nothing in it has a thread, and no other |
| `NoStaleTexts` | `TextKeepsUp` | `TextInv`: beside a context there is no text made without one |
| `SelectionStaysInRange` | `SelectionInRange` | `ComparisonInv` |
| `AllFunctionsListed` | `EveryFunctionListed` | `ComparisonInv`: every name has a result, is still to do, or was lost with its thread; a result is in the list or in a message not yet read; nothing is sent after the last message |
| `RowsStayOfTheChosenKind` | `RowsAreOfTheChosenKind` | `GitInv`: rows and chunks still in the channel are together a prefix of the chosen job's rows |

What is visible of a list of rows is a set of row numbers in order (`SortedSets!Sorted`), and what
the worker sends is taken apart by counting rows, because the definitions of `SortSeq` and
`SelectSeq` are not open to the provers.

`StringTableProofs` proves, from `TextsAssumption`, `LimitsAssumption` and `OpenedAssumption` (the
tables opened are as compilers write them), for any strings, however they overlap, any number of
them, and any limits:

| theorem | property |
|---|---|
| `TableStaysWellFormed` | `Spec => []IInv`; `IInv` is `WellFormed(file)` |
| `HashesStayRight` | `HashesFollow` |
| `WideStayAligned` | `WideAligned` |
| `PatchesStayInPlace` | `NextPatchIsInPlace` |
| `EditsShowAsAsked` | `EditsAsAsked`, that is `StringDocument!Spec` |

`WellFormed` is what the parser and `current_strings` need to read a table: entries and overflow
records name bytes that are there, there is one kind per string, one hash per identifier, and UTF-16
strings are aligned.  That it is inductive is the work.  A string that may share storage lies inside some
string no other one contains (`RootExists`: of the strings that contain it take a longest, and of
those the first), containment is transitive (`OccursTrans`), so each has a place inside what is written
(`PlaceIs`), and no other string's bytes reach those of a pinned one (`PlacesApart`).  The entries,
overflowed or not, name that place (`EntriesAre`), so reading gives back what was laid out (`LaidIs`)
and `validate` accepts it: `StepIs` says that *no* edit of a well-formed table is refused.  An
edit in place changes bytes nobody shares (`Overwritten`), a retarget copies an entry
(`Retargeted`), and the n-th identifier keeps the n-th hash (`HashesKept`, `HashesGrow`).

`DataFacts` holds the induction these proofs rest on.  The library's induction theorems take an
operator as a parameter; `WFMin` (every non-empty subset of a well-founded set has a minimal
element) does not, and gives induction over the numbers as membership in a set (`NatInduct`).
From it follow what `FlattenSeq` and `FoldLeft` compute, that a finite set of numbers has a least
and a greatest element, and that `Sorted` lists it once and in order.

**Only model-checked**: the decompiler (`FollowsTheBytecode`, `NothingIsDropped`, `JumpsHaveTargets`,
`ReadsTheSame`).  Its modules are recursive, as the code is; the prover loses its SMT backend in a
module that declares a RECURSIVE operator, and what a recursive definition computes for every input is an
induction over data.  Liveness stays with TLC too (`Heals`, both `EveryCallEnds`, `DiffEnds`,
`GitBuilds`): the prover does not do fairness or ENABLED.

## 6. Findings

Each of these has a run that TLC ends with a counterexample:

* **Padding breaks a jump that ends the body (`body_tail_jump`).**  The alignment padding of a text edit goes
  in front of the last instruction *after* labels were resolved
  (`write/patch/functions.rs:134`); if that instruction jumps backward, it now lands behind its
  label.  RISKS.md:122: "jumps follow their labels through an insertion".
* **Two threads of a process publish half an entry (`cache_one_process`).**  The temporary name carries
  only the process id (`pipeline/cache.rs:303`), and the TUI builds the pipelines of its two
  files on two threads; with one path on both sides, the first rename publishes the file the second is
  writing.  Sessions of the MCP server's HTTP mode are in the same position.
* **A catch block reads a value from before the try (`register_catch`).**  `compute_gen` keeps the last
  definition of each register in a block (`analysis/reaching.rs:96`); one that a later definition
  in the block hides reaches no catch, though the instruction between them may throw.
  reaching.rs:51: "Every definition live on entry to a protected block, or made by it, may
  therefore reach the catch".

### Also seen, without a run

Formulas named here are in the modules; adding them to the run that is named shows the violation.

Write path:

* An empty string at the end of the storage is a string the parser cannot read
  (`file/parser/table.rs:167`, `start >= storage.len()`): it comes back as `<invalid utf8>`, against
  `string_storage.rs:282` "any in-range offset will do".  A patch to the empty string leaves it
  there, and a `retarget_string` of an identifier to it stores the hash of the placeholder,
  against `strings.rs:128` "update its hash to match to_id's value"; no later edit heals it.  The same
  happens with a string with an unpaired surrogate, which the parsed model has as U+FFFD.
  (`HashesFollow` without its last line, `string_table`.)
* At version 97 `inject_stub` edits the body with the check for source lines off, commits, and only
  then finds that the debug layout is not known (`write/patch/inject.rs:434`): an error, and a
  resized body with old lines.  `debug_reloc.rs:186`: "Refuse rather than leave a silently wrong
  line table".  (`LinesGoStaleOnlyIfAccepted`, `image_legacy` with `LinesModelled = FALSE`.)
* `inject_stub` writes a grown frame and one more read cache slot into the caller's header bytes before
  the body edit is accepted (`inject.rs:102`, `112`, `164`); a refusal leaves both there.
  `commit_image_checked` commits all or nothing, and `serialize.rs:130` says of it "so a refused write
  leaves the caller's file as it was"; of the write that calls it that is not so
  (`RefusedWritesLeaveTheFile`, `image_legacy`).  It does no harm: what is left is room nobody uses, and
  `StubsHaveRoom` holds.  In a modern file each refusal takes another slot, since the parsed header
  goes along; in a legacy one, where the reservation is in the bytes only (`inject.rs:166`), the next
  starts from the same count, against `serialize.rs:106` "so it cannot drift" (`ModelIsDerived`,
  `image_legacy`).
* A no-op pad breaks jumps across the last Ret (`inject.rs:371`); RISKS.md:538 holds the risk to be absent.
* Of two labels in a row the first is lost (`hasm/parse.rs:80`), and a jump to it is read as the number
  in its name, against parse.rs:424 "A label defined in the text wins".
* A switch does not follow an insertion: its default is printed as a label no line defines
  (`disasm.rs:104`), its table distance and cases are numbers (`SwitchesFollowTheText`).
* An edit that keeps the size leaves lines stale without consent (`functions.rs:77`), against
  RISKS.md:548 (`LinesStaleOnlyIfAccepted`).

Cache:

* The TUI hashes the file a second time after it parsed it (`tui/app.rs:24`): an edit in between
  stores the analysis of the old bytes under the hash of the new (`Rereads`).
* The options key does not cover the layout and opcode-table flags (`cache.rs:171`): a forced
  reading and an automatic one share an entry.

Control flow, on graphs outside `Plain`:

* A loop whose body has a try with a catch that goes on with the loop is not detected (catch blocks are
  roots of the dominator tree, `loops.rs:110`) and is printed as a single pass, against `loops.rs:14`
  "Detect all loops in the CFG" (`CyclesAreLoops` on `MCRetryLoops`).
* The statements of a header that is its own latch are hoisted and run once
  (`structure/loops.rs:94`, `178`); the comment at 68 explains why they must not be.
* For `if (p || q) A else B` and `if (p || q) {a}` before a branch, `find_merge_point` takes an
  arm for the join (`recovery.rs:396`) and the second way to it loses it.
* A `return` early in a guarded loop is taken for the loop's exit, and the latch's way out becomes empty.
* Cases of a switch that join in a branch lose what follows in all but the first; loops headed by
  a switch lose their exit.
* Of two tries that start at one block the later catch is kept (`recovery.rs:48`); a try at a loop
  header wraps the loop.  Where the handler range ends before the jump over the catch, no exit of
  the try is found.
* `JNotLess` is printed as `>=` (`opcodes_flow.rs:90`), which differs for NaN (`Results` with
  "unordered").
* `escapes_loop` takes an inner loop to swallow labelled jumps (`while_true.rs:207`).
* A branch with both arms the same block leaves its second arm empty.

Registers:

* In a loop, `old = b; if (c) b = next(); use(old)` becomes `use(b)`: both see the same two reaching
  definitions, against `reaching_passes.rs:129` "If `b` were reassigned in between, the two sets
  differ".  (`ReadsTheSame` without `CopiesHold`.)

## 7. Not modelled in these modules, and why

* **Decoding and encoding of instructions byte by byte**, strings and numbers in HASM text, and the
  text of whole modules.
* **A switch's table entries as data**: `BodyEdit` has one case.
* **Two headers that name one body, and empty bodies.**  The parser accepts both and the
  resize code does not treat them specially (see the hazards); no bundle hermesc wrote
  has them, and the initial layouts leave them out.
* **`create`** builds a file in one pass; its result is one of the initial layouts.
* **The bytes of sections that no edit moves** and the SHA-1 footer's value.
* **MCP**: the paging and truncation of a tool's text, the four files `frida_hooks` writes,
  `create_hbc` onto a path that is being patched.
* **TUI**: the xref picker, content search, scrolling, the module list, drawing itself, and the copy of the
  comparison's results a git diff starts with (`tui/app.rs:777`), which no property depends on.
* **Control flow**: the cleanup handlers of iterators, the state machines of generators, the folding of
  `for` (it moves data, not control), passes on expressions, and the passes on statements that go by what a
  condition calculates: dead loops (`cleanup/dead_loops.rs`, for `while (x !== x)`) and constant
  conditions.  `is_reasonable_complexity` (`ternary_returns.rs:145`) only chooses between two texts of
  one behaviour.
* **Registers**: member reads of the global object as known values, the register a catch block is
  given, liveness, `remove_dead_undefined_clears` (which ignores loops: `cleanup/advanced.rs:43`).
* **Code generation, naming, closures, modules, patterns, ESM output**: rewriting of syntax trees and
  naming heuristics, tens of thousands of lines of it.  They are properties of terms and not of
  states, their domain is the whole of JavaScript, and a faithful model would be a
  transliteration.  This is most of the code, and why these modules cover a small share of its lines.
* **Secrets, Frida text, self-update, disassembly, the build script**: text matching and text output.
