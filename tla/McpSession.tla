----------------------------- MODULE McpSession -----------------------------
(***************************************************************************)
(* One session of the MCP server (hbc-decomp-mcp/src/server): a mutex over  *)
(* the loaded file, tools that run under it, a load that parses before it   *)
(* takes the mutex, and write tools whose output may be any path.           *)
(*                                                                          *)
(* build_cached is one step here and returns the analysis it was asked for: *)
(* HdCache is that call in detail, and HdCacheProofs!AnswersAreRight says so.*)
(***************************************************************************)
EXTENDS Naturals

CONSTANTS
  Calls,     \* requests the client may have open at once
  Paths, Bundles,
  Broken,    \* what no tool can parse: parse_auto fails on it, or panics
  Requests,  \* the requests the client makes: [tool, path, deep]
  None, MaxAsks, MaxFaults, MaxEdits

ReadTools == {"light", "full", "all", "modules"}
WriteTools == {"patch", "create"}
Tools == {"load"} \cup ReadTools \cup WriteTools

ASSUME RequestsAssumption ==
  Requests \subseteq [tool : Tools, path : Paths, deep : BOOLEAN] /\ Requests # {}
ASSUME BoundsAssumption == MaxAsks \in Nat /\ MaxFaults \in Nat /\ MaxEdits \in Nat

\* A bundle as it was found or as a patch leaves it, what create_hbc makes, or
\* bytes no tool can parse.
Minimal == "minimal"
Whole == [of : Bundles \cup {Minimal}, patched : BOOLEAN]
Contents == Whole \cup {Broken}
\* What another program leaves at a path.
Found == [of : Bundles, patched : {FALSE}] \cup {Broken}
Patch(file) == [file EXCEPT !.patched = TRUE]

\* What PipelineContext holds, as far as a caller can tell two apart.
Contexts == [file : Contents, deep : BOOLEAN]

\* What the mutex guards: the file, where it came from, its analysis if there is one.
LoadedFiles == [file : Contents, path : Paths, ctx : Contexts \cup {None}, deep : BOOLEAN]

\* None is what Rust's None is: no call, and no file that is loaded.
ASSUME NoneAssumption == None \notin Calls \cup LoadedFiles

\* How a call ends: with the file a load parsed, a tool's text, a written output,
\* a refusal (no file is loaded), an error, or not at all.
Ends == {"loaded", "text", "written", "refused", "failed", "unanswered"}
Answered == [end : Ends, of : Contexts \cup Contents \cup {None}]
Unanswered == [end |-> "unanswered", of |-> None]

VARIABLES
  disk,     \* path -> its contents, or None while a writer has emptied it
  loaded,   \* None, or [file, path, ctx, deep]
  holder,   \* the call that holds the mutex, or None
  poisoned, \* whether a thread panicked with the guard in its hands
  pc, req,  \* call -> where it is, and what it was asked
  parsed,   \* call -> the file load_file has parsed
  answer,   \* call -> how it ended
  asks, faults, edits

server == <<loaded, holder, poisoned>>
calls == <<pc, req, parsed, answer>>
counters == <<asks, faults, edits>>
vars == <<disk, loaded, holder, poisoned, pc, req, parsed, answer, asks, faults, edits>>

Steps == {"idle", "parse", "publish", "lock", "body", "render", "truncate", "write"}

\* The types of the variables.
TypeOK ==
  /\ disk \in [Paths -> Contents \cup {None}]
  /\ loaded \in {None} \cup LoadedFiles
  /\ holder \in Calls \cup {None}
  /\ poisoned \in BOOLEAN
  /\ pc \in [Calls -> Steps]
  /\ req \in [Calls -> Requests]
  /\ parsed \in [Calls -> Contents \cup {None}]
  /\ answer \in [Calls -> Answered]
  /\ asks \in 0..MaxAsks /\ faults \in 0..MaxFaults /\ edits \in 0..MaxEdits

Goto(c, step) == pc' = [pc EXCEPT ![c] = step]

\* The call ends, and a guard it holds is dropped.
Return(c, end, of) ==
  /\ Goto(c, "idle")
  /\ answer' = [answer EXCEPT ![c] = [end |-> end, of |-> of]]
  /\ holder' = IF holder = c THEN None ELSE holder

Init ==
  /\ disk \in [Paths -> Found]
  /\ loaded = None /\ holder = None /\ poisoned = FALSE
  /\ pc = [c \in Calls |-> "idle"]
  /\ req \in [Calls -> {CHOOSE r \in Requests : TRUE}]
  /\ parsed = [c \in Calls |-> None]
  /\ answer = [c \in Calls |-> Unanswered]
  /\ asks = 0 /\ faults = 0 /\ edits = 0

----------------------------------------------------------------------------
\* A request arrives; a load and create_hbc do not take the mutex first.
Ask(c) ==
  /\ pc[c] = "idle"
  /\ asks < MaxAsks
  /\ asks' = asks + 1
  /\ \E r \in Requests :
       /\ req' = [req EXCEPT ![c] = r]
       /\ Goto(c, CASE r.tool = "load" -> "parse"
                    [] r.tool = "create" -> "truncate"
                    [] OTHER -> "lock")
  /\ parsed' = [parsed EXCEPT ![c] = None]
  /\ answer' = [answer EXCEPT ![c] = Unanswered]
  /\ UNCHANGED <<disk, server, faults, edits>>

\* Mutant: the session is emptied before the new file is known to parse.
LoadParseClears(c) ==
  /\ pc[c] = "parse"
  /\ holder = None
  /\ LET found == disk[req[c].path] IN
     IF found \in {None, Broken}
     THEN Return(c, "failed", None) /\ UNCHANGED parsed
     ELSE /\ parsed' = [parsed EXCEPT ![c] = found]
          /\ Goto(c, "publish")
          /\ UNCHANGED <<holder, answer>>
  /\ loaded' = None
  /\ UNCHANGED <<disk, poisoned, req, counters>>

\* load_file reads and parses outside the mutex; an error or a panic of the
\* parser ends the call there.
LoadParse(c) ==
  /\ pc[c] = "parse"
  /\ LET found == disk[req[c].path] IN
     IF found \in {None, Broken}
     THEN Return(c, "failed", None) /\ UNCHANGED parsed
     ELSE /\ parsed' = [parsed EXCEPT ![c] = found]
          /\ Goto(c, "publish")
          /\ UNCHANGED <<holder, answer>>
  /\ UNCHANGED <<disk, loaded, poisoned, req, counters>>

\* Mutant: a load of the path that is open already keeps its analysis.
PublishKeepsPipeline(c) ==
  /\ pc[c] = "publish"
  /\ holder = None
  /\ loaded' = IF loaded # None /\ loaded.path = req[c].path
               THEN [loaded EXCEPT !.file = parsed[c]]
               ELSE [file |-> parsed[c], path |-> req[c].path, ctx |-> None, deep |-> FALSE]
  /\ Return(c, "loaded", parsed[c])
  /\ UNCHANGED <<disk, poisoned, req, parsed, counters>>

\* The mutex is taken for the one assignment.
Publish(c) ==
  /\ pc[c] = "publish"
  /\ holder = None
  /\ loaded' = [file |-> parsed[c], path |-> req[c].path, ctx |-> None, deep |-> FALSE]
  /\ Return(c, "loaded", parsed[c])
  /\ UNCHANGED <<disk, poisoned, req, parsed, counters>>

\* Mutant: a poisoned mutex is reported as an error.
LockOrPoisoned(c) ==
  /\ pc[c] = "lock"
  /\ holder = None
  /\ IF poisoned
     THEN Return(c, "refused", None)
     ELSE holder' = c /\ Goto(c, "body") /\ UNCHANGED answer
  /\ UNCHANGED <<disk, loaded, poisoned, req, parsed, counters>>

\* lock recovers a poisoned mutex.
Lock(c) ==
  /\ pc[c] = "lock"
  /\ holder = None
  /\ holder' = c
  /\ Goto(c, "body")
  /\ UNCHANGED <<disk, loaded, poisoned, req, parsed, answer, counters>>

Refuse(c) ==
  /\ pc[c] = "body"
  /\ loaded = None
  /\ Return(c, "refused", None)
  /\ UNCHANGED <<disk, loaded, poisoned, req, parsed, counters>>

\* The deep naming mode a tool asks ensure_pipeline for.
Deep(c) == req[c].tool \in {"full", "all"} /\ req[c].deep

\* A tool that needs the parsed file alone.
Light(c) ==
  /\ pc[c] = "body"
  /\ loaded # None
  /\ req[c].tool = "light"
  /\ Return(c, "text", [file |-> loaded.file, deep |-> FALSE])
  /\ UNCHANGED <<disk, loaded, poisoned, req, parsed, counters>>

\* Mutant: any analysis of the file will do.
EnsurePipelineAnyMode(c) ==
  /\ pc[c] = "body"
  /\ loaded # None
  /\ req[c].tool \in {"full", "all", "modules"}
  /\ loaded' = IF loaded.ctx = None
               THEN [loaded EXCEPT !.ctx = [file |-> loaded.file, deep |-> Deep(c)],
                                   !.deep = Deep(c)]
               ELSE loaded
  /\ Goto(c, "render")
  /\ UNCHANGED <<disk, holder, poisoned, req, parsed, answer, counters>>

\* ensure_pipeline: an analysis in the other mode is replaced.
EnsurePipeline(c) ==
  /\ pc[c] = "body"
  /\ loaded # None
  /\ req[c].tool \in {"full", "all", "modules"}
  /\ loaded' = IF loaded.ctx = None \/ loaded.deep # Deep(c)
               THEN [loaded EXCEPT !.ctx = [file |-> loaded.file, deep |-> Deep(c)],
                                   !.deep = Deep(c)]
               ELSE loaded
  /\ Goto(c, "render")
  /\ UNCHANGED <<disk, holder, poisoned, req, parsed, answer, counters>>

\* The text comes from the analysis in memory; decompile_all asks build_cached
\* once more and renders that.
Render(c) ==
  /\ pc[c] = "render"
  /\ Return(c, "text",
            IF req[c].tool = "all" THEN [file |-> loaded.file, deep |-> Deep(c)]
            ELSE loaded.ctx)
  /\ UNCHANGED <<disk, loaded, poisoned, req, parsed, counters>>

----------------------------------------------------------------------------
\* Mutant: the guard is dropped before the output is written.
TruncateUnlocked(c) ==
  /\ \/ pc[c] = "truncate"
     \/ pc[c] = "body" /\ loaded # None /\ req[c].tool = "patch"
  /\ disk' = [disk EXCEPT ![req[c].path] = None]
  /\ parsed' = [parsed EXCEPT ![c] = IF req[c].tool = "patch" THEN loaded.file ELSE None]
  /\ holder' = IF holder = c THEN None ELSE holder
  /\ Goto(c, "write")
  /\ UNCHANGED <<loaded, poisoned, req, answer, counters>>

\* The edit is made on a clone of the loaded file; fs::write then empties the
\* output path. patch_string, inject_stub and patch_function hold the mutex,
\* create_hbc does not.
Truncate(c) ==
  /\ \/ pc[c] = "truncate"
     \/ pc[c] = "body" /\ loaded # None /\ req[c].tool = "patch"
  /\ disk' = [disk EXCEPT ![req[c].path] = None]
  /\ parsed' = [parsed EXCEPT ![c] = IF req[c].tool = "patch" THEN loaded.file ELSE None]
  /\ Goto(c, "write")
  /\ UNCHANGED <<server, req, answer, counters>>

\* What a write tool writes.
Output(c) == IF req[c].tool = "patch" THEN Patch(parsed[c])
             ELSE [of |-> Minimal, patched |-> FALSE]

\* fs::write fills the file. Where another writer has been since it was emptied,
\* the bytes of both are there, unless these cover the others.
Write(c) ==
  /\ pc[c] = "write"
  /\ \E out \in IF disk[req[c].path] = None THEN {Output(c)} ELSE {Output(c), Broken} :
       disk' = [disk EXCEPT ![req[c].path] = out]
  /\ Return(c, "written", None)
  /\ UNCHANGED <<loaded, poisoned, req, parsed, counters>>

----------------------------------------------------------------------------
\* Mutant: the guard outlives a body that panicked.
FailsHolding(c) ==
  /\ faults < MaxFaults
  /\ faults' = faults + 1
  /\ pc[c] \in {"parse", "body", "render", "truncate", "write"}
  /\ pc[c] = "body" => loaded # None
  /\ Goto(c, "idle")
  /\ answer' = [answer EXCEPT ![c] = [end |-> "failed", of |-> None]]
  /\ UNCHANGED <<disk, loaded, holder, poisoned, req, parsed, asks, edits>>

\* An error, or a panic that catch_tool_panic makes one: reading, parsing, the
\* analysis, the tool itself or its output. What it had not stored is lost.
Fails(c) ==
  /\ faults < MaxFaults
  /\ faults' = faults + 1
  /\ pc[c] \in {"parse", "body", "render", "truncate", "write"}
  /\ pc[c] = "body" => loaded # None
  /\ Return(c, "failed", None)
  /\ UNCHANGED <<disk, loaded, poisoned, req, parsed, asks, edits>>

\* The one panic outside catch_tool_panic: the large-stack thread cannot be
\* spawned while the guard is held. The mutex is poisoned.
SpawnFails(c) ==
  /\ faults < MaxFaults
  /\ faults' = faults + 1
  /\ pc[c] = "body"
  /\ loaded # None
  /\ poisoned' = TRUE
  /\ Return(c, "unanswered", None)
  /\ UNCHANGED <<disk, loaded, req, parsed, asks, edits>>

\* Somebody else replaces a file, and not one that is being written.
EditFile(p) ==
  /\ \A c \in Calls : pc[c] = "write" => req[c].path # p
  /\ edits < MaxEdits
  /\ edits' = edits + 1
  /\ disk' \in {[disk EXCEPT ![p] = f] : f \in Found}
  /\ UNCHANGED <<server, calls, asks, faults>>

Proceed(c) ==
  \/ LoadParse(c) \/ Publish(c) \/ Lock(c) \/ Refuse(c) \/ Light(c)
  \/ EnsurePipeline(c) \/ Render(c) \/ Truncate(c) \/ Write(c)

Next ==
  \/ \E c \in Calls : Ask(c) \/ Proceed(c) \/ Fails(c) \/ SpawnFails(c)
  \/ \E p \in Paths : EditFile(p)

Spec == Init /\ [][Next]_vars

\* Every call is a thread of its own; a client asks MaxAsks times and stops.
FairSpec == Spec /\ \A c \in Calls : WF_vars(Proceed(c))

----------------------------------------------------------------------------
Answers(c) == pc[c] # "idle" /\ pc'[c] = "idle"

(***************************************************************************)
(* The analysis a session keeps is that of the file it has loaded, in the  *)
(* mode it says (mod.rs:26-29), through loads, failed builds and panics.   *)
(***************************************************************************)
PipelineIsOfTheFile ==
  (loaded # None /\ loaded.ctx # None)
  => loaded.ctx = [file |-> loaded.file, deep |-> loaded.deep]

(***************************************************************************)
(* A decompiling tool answers about the file loaded when it answers, in    *)
(* the mode of its request: a request that toggles deep does not get "the  *)
(* wrong-mode context" (mod.rs:27-28).                                     *)
(***************************************************************************)
ModeAsAsked ==
  [][\A c \in Calls :
       (Answers(c) /\ answer'[c].end = "text" /\ req[c].tool # "light")
       => answer'[c].of = [file |-> loaded.file, deep |-> Deep(c)]]_vars

(***************************************************************************)
(* "A previously loaded file is replaced only on success, so it stays      *)
(* usable" (tools_analyze.rs:24): the file and path of a session change    *)
(* only in the step that answers a load with that file.                    *)
(***************************************************************************)
ReplacedOnlyOnSuccess ==
  [][loaded' # loaded =>
       \/ /\ loaded # None /\ loaded' # None
          /\ loaded'.file = loaded.file /\ loaded'.path = loaded.path
       \/ \E c \in Calls :
            /\ Answers(c) /\ req[c].tool = "load"
            /\ loaded' # None /\ loaded'.file = answer'[c].of /\ loaded'.path = req[c].path]_vars

(***************************************************************************)
(* No panic makes the server refuse: a tool is told that there is no file  *)
(* only while none has been loaded ("one panic anywhere bricked the        *)
(* server", mod.rs:73-84).                                                 *)
(***************************************************************************)
StaysUsable ==
  [][\A c \in Calls : (Answers(c) /\ answer'[c].end = "refused") => loaded = None]_vars

(***************************************************************************)
(* A patch that reports its output has left it whole: the edit of the file *)
(* that was loaded, with no other patch's bytes in it. Loads go on     *)
(* meanwhile; create_hbc and other programs, which the mutex does not      *)
(* cover, are given other paths.                                           *)
(***************************************************************************)
OutputIsTheEdit ==
  [][\A c \in Calls :
       (Answers(c) /\ req[c].tool = "patch" /\ answer'[c].end = "written")
       => disk'[req[c].path] = Patch(loaded.file)]_vars

(***************************************************************************)
(* Once the client stops asking, every call it made ends: no error, panic  *)
(* or refused spawn leaves the mutex held.                                 *)
(***************************************************************************)
EveryCallEnds == \A c \in Calls : (pc[c] # "idle") ~> (pc[c] = "idle")
=============================================================================
