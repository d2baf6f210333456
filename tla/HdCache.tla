------------------------------ MODULE HdCache ------------------------------
(***************************************************************************)
(* The on-disk cache of the whole-program analysis, <input>.hdcache        *)
(* (pipeline/cache.rs), shared by every process that opens the same        *)
(* bundle: the command line, the MCP server and the TUI, whose two         *)
(* pipeline workers are threads of one process.                            *)
(*                                                                         *)
(* A thread's call of build_cached is cut where other threads can come in  *)
(* between: opening the cache file, reading its header, reading its        *)
(* snapshot, the analysis, creating the temporary file, the writes that    *)
(* the buffered writer flushes, and the rename.  A file is the inode a     *)
(* name leads to, so a reader keeps the file it opened while the name      *)
(* moves on, and a writer keeps the file it created.                       *)
(*                                                                         *)
(* A bundle, a set of options and a build of the program are opaque; an    *)
(* analysis is known by what it was made from (Context).                   *)
(***************************************************************************)
EXTENDS Naturals, FiniteSets

CONSTANTS
  Threads,      \* threads that call build_cached on one bundle path
  Pid,          \* thread -> its process; the temporary file is named by it
  Build,        \* thread -> the build of the program it runs
  Requests,     \* [opts, reading]: the options, and how the front end reads
                \* the bytes (layout and opcode table, which may be flags)
  Cascading,    \* the options that name a proposal artifact
  Rereads,      \* threads whose front end reads the bytes a second time
  Bundles,      \* versions of the input file
  Refused,      \* versions the analysis fails on
  Artifacts,    \* versions of the proposal artifact
  Inodes,
  MaxFaults,    \* bound: failed calls of the file system
  MaxCrashes,   \* bound: processes that die, or power losses
  MaxEdits,     \* bound: edits of the bundle and of the artifact
  PowerFails,   \* whether the machine may lose what was never synced
  None

Pids == {Pid[t] : t \in Threads}
Options == {r.opts : r \in Requests}
Readings == {r.reading : r \in Requests}

ASSUME ThreadsAssumption ==
  /\ Build \in [Threads -> {Build[t] : t \in Threads}]
  /\ Pid \in [Threads -> Pids]
ASSUME RequestsAssumption ==
  /\ Requests \subseteq [opts : Options, reading : Readings]
  /\ Cascading \subseteq Options
ASSUME BoundsAssumption ==
  /\ MaxFaults \in Nat /\ MaxCrashes \in Nat /\ MaxEdits \in Nat
  /\ PowerFails \in BOOLEAN

\* What the header of an entry says: the bytes hashed, the build, the options.
Keys == [bundle : Bundles, build : {Build[t] : t \in Threads}, opts : Options]

\* An analysis, by everything it was made from.
Contexts == [bundle : Bundles, reading : Readings,
             build : {Build[t] : t \in Threads},
             opts : Options, names : Artifacts \cup {None}]

\* One flush of the buffered writer: the header begins the first one, and the
\* snapshot's bytes fill both.
Flushes == [key : Keys, ctx : Contexts]

ASSUME NoneAssumption ==
  None \notin Inodes \cup Bundles \cup Artifacts \cup Contexts \cup Flushes

VARIABLES
  bundle,     \* the input file's version now
  artifact,   \* the proposal artifact's version now
  entry,      \* the inode <input>.hdcache names, or None
  tmp,        \* the inode <input>.hdcache.<pid>.tmp names, or None
  head, tail, \* inode -> its first and its second flush, or None
  pc,         \* thread -> where it is
  asked,      \* thread -> its request
  parsed,     \* thread -> the version it parsed
  hashed,     \* thread -> the version whose bytes it passes to build_cached
  fd,         \* thread -> the inode it has open, or None
  ctx,        \* thread -> the analysis it answers with, or None
  hit,        \* thread -> whether its last answer came from the cache
  faults, crashes, edits

disk == <<bundle, artifact, entry, tmp, head, tail>>
local == <<pc, asked, parsed, hashed, fd, ctx, hit>>
counters == <<faults, crashes, edits>>
vars == <<bundle, artifact, entry, tmp, head, tail, pc, asked, parsed, hashed,
          fd, ctx, hit, faults, crashes, edits>>

Steps == {"idle", "parsed", "open", "header", "snapshot", "build", "bypass",
          "create", "first", "second", "rename"}

TypeOK ==
  /\ bundle \in Bundles
  /\ artifact \in Artifacts
  /\ entry \in Inodes \cup {None}
  /\ tmp \in [Pids -> Inodes \cup {None}]
  /\ head \in [Inodes -> Flushes \cup {None}]
  /\ tail \in [Inodes -> Flushes \cup {None}]
  /\ pc \in [Threads -> Steps]
  /\ asked \in [Threads -> Requests]
  /\ parsed \in [Threads -> Bundles]
  /\ hashed \in [Threads -> Bundles]
  /\ fd \in [Threads -> Inodes \cup {None}]
  /\ ctx \in [Threads -> Contexts \cup {None}]
  /\ hit \in [Threads -> BOOLEAN]
  /\ faults \in 0..MaxFaults
  /\ crashes \in 0..MaxCrashes
  /\ edits \in 0..MaxEdits

----------------------------------------------------------------------------
\* The header a thread looks for.
Wanted(t) == [bundle |-> hashed[t], build |-> Build[t], opts |-> asked[t].opts]

\* build_with_options: what the analysis of thread t's file is, with artifact
\* version a; only a cascading build reads the artifact.
Analysis(t, a) ==
  [bundle |-> parsed[t], reading |-> asked[t].reading, build |-> Build[t],
   opts |-> asked[t].opts,
   names |-> IF asked[t].opts \in Cascading THEN a ELSE None]

\* The flush a saving thread writes.
Flush(t) == [key |-> Wanted(t), ctx |-> ctx[t]]

\* A file that decodes. The bytes of two writers in one file do not, as the
\* comment at cache.rs:298-302 has it.
Whole(i) ==
  /\ head[i] # None
  /\ tail[i] = head[i]

\* Inodes no name and no open file refers to.
Unused == {i \in Inodes : /\ i # entry
                          /\ \A p \in Pids : tmp[p] # i
                          /\ \A t \in Threads : fd[t] # i}

Goto(t, step) == pc' = [pc EXCEPT ![t] = step]
Close(t) == fd' = [fd EXCEPT ![t] = None]

Init ==
  /\ bundle \in Bundles
  /\ artifact \in Artifacts
  /\ entry = None
  /\ tmp = [p \in Pids |-> None]
  /\ head = [i \in Inodes |-> None]
  /\ tail = [i \in Inodes |-> None]
  /\ pc = [t \in Threads |-> "idle"]
  /\ asked \in [Threads -> Requests]
  /\ parsed = [t \in Threads |-> bundle]
  /\ hashed = [t \in Threads |-> bundle]
  /\ fd = [t \in Threads |-> None]
  /\ ctx = [t \in Threads |-> None]
  /\ hit = [t \in Threads |-> FALSE]
  /\ faults = 0 /\ crashes = 0 /\ edits = 0

----------------------------------------------------------------------------
\* A front end reads and parses the bundle for a request.
Start(t) ==
  /\ pc[t] = "idle"
  /\ \E r \in Requests : asked' = [asked EXCEPT ![t] = r]
  /\ parsed' = [parsed EXCEPT ![t] = bundle]
  /\ hashed' = [hashed EXCEPT ![t] = bundle]
  /\ ctx' = [ctx EXCEPT ![t] = None]
  /\ Goto(t, "parsed")
  /\ UNCHANGED <<disk, fd, hit, counters>>

\* Mutant: a cascading build reads and writes the cache like any other.
EnterAlways(t) ==
  /\ pc[t] = "parsed"
  /\ hashed' = [hashed EXCEPT ![t] = IF t \in Rereads THEN bundle ELSE parsed[t]]
  /\ Goto(t, "open")
  /\ UNCHANGED <<disk, asked, parsed, fd, ctx, hit, counters>>

\* The bytes for the key: the ones parsed, or (TUI) the file read once more.
\* A cascading build leaves the cache alone.
Enter(t) ==
  /\ pc[t] = "parsed"
  /\ hashed' = [hashed EXCEPT ![t] = IF t \in Rereads THEN bundle ELSE parsed[t]]
  /\ Goto(t, IF asked[t].opts \in Cascading THEN "bypass" ELSE "open")
  /\ UNCHANGED <<disk, asked, parsed, fd, ctx, hit, counters>>

\* try_load opens the file; no file, or an error, is a miss.
Open(t) ==
  /\ pc[t] = "open"
  /\ fd' = [fd EXCEPT ![t] = entry]
  /\ Goto(t, IF entry = None THEN "build" ELSE "header")
  /\ UNCHANGED <<disk, asked, parsed, hashed, ctx, hit, counters>>

\* Mutant: the header is compared without the hash of the bytes.
ReadHeaderNoHash(t) ==
  /\ pc[t] = "header"
  /\ IF /\ head[fd[t]] # None
        /\ head[fd[t]].key.build = Build[t]
        /\ head[fd[t]].key.opts = asked[t].opts
     THEN Goto(t, "snapshot") /\ UNCHANGED fd
     ELSE Goto(t, "build") /\ Close(t)
  /\ UNCHANGED <<disk, asked, parsed, hashed, ctx, hit, counters>>

\* Mutant: a stale entry is waited out instead of rebuilt.
ReadHeaderWaits(t) ==
  /\ pc[t] = "header"
  /\ IF head[fd[t]] # None /\ head[fd[t]].key = Wanted(t)
     THEN Goto(t, "snapshot") /\ UNCHANGED fd
     ELSE Goto(t, "open") /\ Close(t)
  /\ UNCHANGED <<disk, asked, parsed, hashed, ctx, hit, counters>>

ReadHeader(t) ==
  /\ pc[t] = "header"
  /\ IF head[fd[t]] # None /\ head[fd[t]].key = Wanted(t)
     THEN Goto(t, "snapshot") /\ UNCHANGED fd
     ELSE Goto(t, "build") /\ Close(t)
  /\ UNCHANGED <<disk, asked, parsed, hashed, ctx, hit, counters>>

\* The snapshot decodes when the file holds all of one; it is the answer, with
\* no second look at what the header promised.
ReadSnapshot(t) ==
  /\ pc[t] = "snapshot"
  /\ IF Whole(fd[t])
     THEN /\ ctx' = [ctx EXCEPT ![t] = tail[fd[t]].ctx]
          /\ hit' = [hit EXCEPT ![t] = TRUE]
          /\ Goto(t, "idle")
     ELSE Goto(t, "build") /\ UNCHANGED <<ctx, hit>>
  /\ Close(t)
  /\ UNCHANGED <<disk, asked, parsed, hashed, counters>>

\* The analysis. Its error is the answer, and nothing is saved.
BuildContext(t) ==
  /\ pc[t] \in {"build", "bypass"}
  /\ hit' = [hit EXCEPT ![t] = FALSE]
  /\ ctx' = [ctx EXCEPT ![t] = IF parsed[t] \in Refused THEN None
                               ELSE Analysis(t, artifact)]
  /\ Goto(t, IF parsed[t] \in Refused \/ pc[t] = "bypass" THEN "idle" ELSE "create")
  /\ UNCHANGED <<disk, asked, parsed, hashed, fd, counters>>

\* Mutant: the temporary file must not exist yet (create_new).
CreateTmpNew(t) ==
  /\ pc[t] = "create"
  /\ IF tmp[Pid[t]] # None
     THEN Goto(t, "idle") /\ UNCHANGED <<tmp, fd, head, tail>>
     ELSE \E i \in Unused :
            /\ tmp' = [tmp EXCEPT ![Pid[t]] = i]
            /\ fd' = [fd EXCEPT ![t] = i]
            /\ head' = [head EXCEPT ![i] = None]
            /\ tail' = [tail EXCEPT ![i] = None]
            /\ Goto(t, "first")
  /\ UNCHANGED <<bundle, artifact, entry, asked, parsed, hashed, ctx, hit, counters>>

\* File::create on the process's temporary name: a file left there, by a
\* process that died or by a thread that is still writing it, is emptied.
CreateTmp(t) ==
  /\ pc[t] = "create"
  /\ \E i \in IF tmp[Pid[t]] = None THEN Unused ELSE {tmp[Pid[t]]} :
       /\ tmp' = [tmp EXCEPT ![Pid[t]] = i]
       /\ fd' = [fd EXCEPT ![t] = i]
       /\ head' = [head EXCEPT ![i] = None]
       /\ tail' = [tail EXCEPT ![i] = None]
  /\ Goto(t, "first")
  /\ UNCHANGED <<bundle, artifact, entry, asked, parsed, hashed, ctx, hit, counters>>

\* Mutant: the rename does not wait for the last flush.
WriteFirstOnly(t) ==
  /\ pc[t] = "first"
  /\ head' = [head EXCEPT ![fd[t]] = Flush(t)]
  /\ Goto(t, "rename")
  /\ Close(t)
  /\ UNCHANGED <<bundle, artifact, entry, tmp, tail, asked, parsed, hashed, ctx, hit,
                 counters>>

WriteFirst(t) ==
  /\ pc[t] = "first"
  /\ head' = [head EXCEPT ![fd[t]] = Flush(t)]
  /\ Goto(t, "second")
  /\ UNCHANGED <<bundle, artifact, entry, tmp, tail, asked, parsed, hashed, fd, ctx, hit,
                 counters>>

WriteSecond(t) ==
  /\ pc[t] = "second"
  /\ tail' = [tail EXCEPT ![fd[t]] = Flush(t)]
  /\ Goto(t, "rename")
  /\ Close(t)
  /\ UNCHANGED <<bundle, artifact, entry, tmp, head, asked, parsed, hashed, ctx, hit,
                 counters>>

\* The rename takes whatever file the temporary name leads to; with none it
\* fails, and a failed save is only reported.
Rename(t) ==
  /\ pc[t] = "rename"
  /\ entry' = IF tmp[Pid[t]] = None THEN entry ELSE tmp[Pid[t]]
  /\ tmp' = [tmp EXCEPT ![Pid[t]] = None]
  /\ Goto(t, "idle")
  /\ UNCHANGED <<bundle, artifact, head, tail, asked, parsed, hashed, fd, ctx, hit,
                 counters>>

\* Any step of a save may fail: the answer stands, the temporary file stays.
SaveFails(t) ==
  /\ faults < MaxFaults
  /\ pc[t] \in {"create", "first", "second", "rename"}
  /\ Goto(t, "idle")
  /\ Close(t)
  /\ faults' = faults + 1
  /\ UNCHANGED <<disk, asked, parsed, hashed, ctx, hit, crashes, edits>>

\* Opening or reading the cache may fail: a miss.
LoadFails(t) ==
  /\ faults < MaxFaults
  /\ pc[t] \in {"open", "header", "snapshot"}
  /\ Goto(t, "build")
  /\ Close(t)
  /\ faults' = faults + 1
  /\ UNCHANGED <<disk, asked, parsed, hashed, ctx, hit, crashes, edits>>

----------------------------------------------------------------------------
\* The threads of P stop where they are, and what they held is closed.
Stop(P) ==
  /\ pc' = [t \in Threads |-> IF Pid[t] \in P THEN "idle" ELSE pc[t]]
  /\ fd' = [t \in Threads |-> IF Pid[t] \in P THEN None ELSE fd[t]]
  /\ ctx' = [t \in Threads |-> IF Pid[t] \in P THEN None ELSE ctx[t]]
  /\ UNCHANGED <<asked, parsed, hashed, hit>>

\* A process dies. A later one may have its pid, and finds its files.
Crash(p) ==
  /\ crashes < MaxCrashes
  /\ crashes' = crashes + 1
  /\ Stop({p})
  /\ UNCHANGED <<disk, faults, edits>>

\* Nothing is synced before the rename: the names may survive the power loss
\* and the end of any file may not.
LosePower ==
  /\ PowerFails
  /\ crashes < MaxCrashes
  /\ crashes' = crashes + 1
  /\ Stop(Pids)
  /\ \E lost \in SUBSET Inodes :
       tail' = [i \in Inodes |-> IF i \in lost THEN None ELSE tail[i]]
  /\ UNCHANGED <<bundle, artifact, entry, tmp, head, faults, edits>>

\* The user, or the write path, replaces the bundle; a proposal is edited.
EditBundle ==
  /\ edits < MaxEdits
  /\ edits' = edits + 1
  /\ bundle' \in Bundles \ {bundle}
  /\ UNCHANGED <<artifact, entry, tmp, head, tail, local, faults, crashes>>

EditArtifact ==
  /\ edits < MaxEdits
  /\ edits' = edits + 1
  /\ artifact' \in Artifacts \ {artifact}
  /\ UNCHANGED <<bundle, entry, tmp, head, tail, local, faults, crashes>>

----------------------------------------------------------------------------
\* One call of build_cached, step by step.
Proceed(t) ==
  \/ Enter(t) \/ Open(t) \/ ReadHeader(t) \/ ReadSnapshot(t) \/ BuildContext(t)
  \/ CreateTmp(t) \/ WriteFirst(t) \/ WriteSecond(t) \/ Rename(t)

Next ==
  \/ \E t \in Threads : Start(t) \/ Proceed(t) \/ SaveFails(t) \/ LoadFails(t)
  \/ \E p \in Pids : Crash(p)
  \/ LosePower
  \/ EditBundle
  \/ EditArtifact

Spec == Init /\ [][Next]_vars

\* A thread that runs keeps running; nobody has to ask.
FairSpec == Spec /\ \A t \in Threads : WF_vars(Proceed(t))

----------------------------------------------------------------------------
\* The step that hands thread t its answer.
Answers(t) == /\ pc[t] \in {"snapshot", "build", "bypass"}
              /\ ctx'[t] # None
              /\ ctx[t] = None

(***************************************************************************)
(* An answer is the analysis of the file that was asked about, read the    *)
(* way it was asked to be read, by this build, under these options and     *)
(* with the artifact as it is: "never a wrong result" (cache.rs:66-67), "only *)
(* ever reused for the exact same file" (cache.rs:53).                     *)
(***************************************************************************)
ServesWhatWasAsked ==
  [][\A t \in Threads : Answers(t) => ctx'[t] = Analysis(t, artifact)]_vars

(***************************************************************************)
(* What the cache's name leads to is always a complete entry: "a           *)
(* concurrent reader never sees a half-written cache" (cache.rs:295-296).      *)
(***************************************************************************)
NeverHalfWritten == entry # None => Whole(entry)

(***************************************************************************)
(* Every call ends with its answer, whatever is on the disk.               *)
(***************************************************************************)
EveryCallEnds == \A t \in Threads : (pc[t] = "parsed") ~> (pc[t] = "idle")

(***************************************************************************)
(* A crash, a power loss or a failed save costs rebuilds, never a cache    *)
(* that misses forever: while calls go on, from some moment on every one   *)
(* that may use the cache and whose analysis succeeds is answered from it  *)
(* (cache.rs:298-302 tells of the permanent miss this replaced).           *)
(***************************************************************************)
Heals ==
  (\A t \in Threads : []<>(pc[t] = "parsed"))
  => <>[](\A t \in Threads :
            pc[t] = "idle" => \/ hit[t]
                              \/ asked[t].opts \in Cascading
                              \/ parsed[t] \in Refused)

============================================================================
