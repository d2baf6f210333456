--------------------------- MODULE HdCacheProofs ---------------------------
(***************************************************************************)
(* For any number of threads, builds, requests, bundles and faults:        *)
(*   - the state of HdCache is well typed,                                 *)
(*   - where every thread is a process of its own, no call reads the       *)
(*     bundle twice, and the options decide how it is read, every answer   *)
(*     is the analysis asked for, across crashes and power losses, and     *)
(*   - as long as no power loss drops unsynced data, the cache's name      *)
(*     never leads to half an entry.                                       *)
(* The run cache_one_process shows that the first condition is needed; the *)
(* README says what the code does without the other two.                   *)
(***************************************************************************)
EXTENDS HdCache, TLAPS

----------------------------------------------------------------------------
(* Type correctness, which needs none of the conditions. *)

LEMMA FlushType ==
  ASSUME TypeOK, NEW t \in Threads, ctx[t] # None
  PROVE  Flush(t) \in Flushes
<1>1. ctx[t] \in Contexts
  BY DEF TypeOK
<1>2. asked[t] \in [opts : Options, reading : Readings]
  BY RequestsAssumption DEF TypeOK
<1>3. Wanted(t) \in Keys
  BY <1>2, ThreadsAssumption DEF TypeOK, Wanted, Keys
<1> QED BY <1>1, <1>3 DEF Flush, Flushes

LEMMA AnalysisType ==
  ASSUME TypeOK, NEW t \in Threads, NEW a \in Artifacts
  PROVE  Analysis(t, a) \in Contexts
<1>2. asked[t] \in [opts : Options, reading : Readings]
  BY RequestsAssumption DEF TypeOK
<1> QED BY <1>2, ThreadsAssumption DEF TypeOK, Analysis, Contexts
----------------------------------------------------------------------------
(* Whoever reads or writes has a file open, whoever saves has an analysis. *)
Equipped ==
  \A t \in Threads :
    /\ pc[t] \in {"header", "snapshot", "first", "second"} => fd[t] \in Inodes
    /\ pc[t] \in {"create", "first", "second"} => ctx[t] # None

Typed == TypeOK /\ Equipped

LEMMA TypedInit == Init => Typed
<1> SUFFICES ASSUME Init PROVE Typed
  OBVIOUS
<1>1. TypeOK
  BY RequestsAssumption, ThreadsAssumption, BoundsAssumption DEF Init, TypeOK, Steps
<1>2. Equipped
  BY DEF Init, Equipped
<1> QED BY <1>1, <1>2 DEF Typed

LEMMA TypedStart ==
  ASSUME Typed, NEW t \in Threads, Start(t)
  PROVE  Typed'
<1>1. TypeOK'
  BY ThreadsAssumption DEF Typed, TypeOK, Equipped, Steps, Pids, Start, Goto, disk, counters
<1>2. Equipped'
  BY DEF Typed, TypeOK, Equipped, Start, Goto, disk, counters
<1> QED BY <1>1, <1>2 DEF Typed

LEMMA TypedEnter ==
  ASSUME Typed, NEW t \in Threads, Enter(t)
  PROVE  Typed'
<1>1. TypeOK'
  BY ThreadsAssumption DEF Typed, TypeOK, Equipped, Steps, Pids, Enter, Goto, disk, counters
<1>2. Equipped'
  BY DEF Typed, TypeOK, Equipped, Enter, Goto, disk, counters
<1> QED BY <1>1, <1>2 DEF Typed

LEMMA TypedOpen ==
  ASSUME Typed, NEW t \in Threads, Open(t)
  PROVE  Typed'
<1>1. TypeOK'
  BY ThreadsAssumption DEF Typed, TypeOK, Equipped, Steps, Pids, Open, Goto, disk, counters
<1>2. Equipped'
  BY DEF Typed, TypeOK, Equipped, Open, Goto, disk, counters
<1> QED BY <1>1, <1>2 DEF Typed

LEMMA TypedReadHeader ==
  ASSUME Typed, NEW t \in Threads, ReadHeader(t)
  PROVE  Typed'
<1>1. TypeOK'
  BY ThreadsAssumption DEF Typed, TypeOK, Equipped, Steps, Pids, ReadHeader, Goto, Close, disk, counters
<1>2. Equipped'
  BY DEF Typed, TypeOK, Equipped, ReadHeader, Goto, Close, disk, counters
<1> QED BY <1>1, <1>2 DEF Typed

LEMMA TypedReadSnapshot ==
  ASSUME Typed, NEW t \in Threads, ReadSnapshot(t)
  PROVE  Typed'
<1>0. Whole(fd[t]) => tail[fd[t]].ctx \in Contexts
  BY DEF Typed, TypeOK, Equipped, ReadSnapshot, Whole, Flushes
<1>1. TypeOK'
  BY <1>0, ThreadsAssumption DEF Typed, TypeOK, Equipped, Steps, Pids, ReadSnapshot, Goto, Close, disk, counters
<1>2. Equipped'
  BY DEF Typed, TypeOK, Equipped, ReadSnapshot, Goto, Close, disk, counters
<1> QED BY <1>1, <1>2 DEF Typed

LEMMA TypedBuildContext ==
  ASSUME Typed, NEW t \in Threads, BuildContext(t)
  PROVE  Typed'
<1>0. Analysis(t, artifact) \in Contexts
  BY AnalysisType DEF Typed, TypeOK
<1>1. TypeOK'
  BY <1>0, ThreadsAssumption DEF Typed, TypeOK, Equipped, Steps, Pids, BuildContext, Goto, disk, counters
<1>2. Equipped'
  BY <1>0, NoneAssumption DEF Typed, TypeOK, Equipped, BuildContext, Goto, disk, counters
<1> QED BY <1>1, <1>2 DEF Typed

LEMMA TypedCreateTmp ==
  ASSUME Typed, NEW t \in Threads, CreateTmp(t)
  PROVE  Typed'
<1>1. TypeOK'
  BY ThreadsAssumption DEF Typed, TypeOK, Equipped, Steps, Pids, CreateTmp, Goto, Unused, disk, counters
<1>2. Equipped'
  BY ThreadsAssumption DEF Typed, TypeOK, Equipped, CreateTmp, Goto, Unused, Pids, disk, counters
<1> QED BY <1>1, <1>2 DEF Typed

LEMMA TypedWriteFirst ==
  ASSUME Typed, NEW t \in Threads, WriteFirst(t)
  PROVE  Typed'
<1>0. Flush(t) \in Flushes
  BY FlushType DEF Typed, Equipped, WriteFirst
<1>1. TypeOK'
  BY <1>0, ThreadsAssumption DEF Typed, TypeOK, Equipped, Steps, Pids, WriteFirst, Goto, disk, counters
<1>2. Equipped'
  BY DEF Typed, TypeOK, Equipped, WriteFirst, Goto, disk, counters
<1> QED BY <1>1, <1>2 DEF Typed

LEMMA TypedWriteSecond ==
  ASSUME Typed, NEW t \in Threads, WriteSecond(t)
  PROVE  Typed'
<1>0. Flush(t) \in Flushes
  BY FlushType DEF Typed, Equipped, WriteSecond
<1>1. TypeOK'
  BY <1>0, ThreadsAssumption DEF Typed, TypeOK, Equipped, Steps, Pids, WriteSecond, Goto, Close, disk, counters
<1>2. Equipped'
  BY DEF Typed, TypeOK, Equipped, WriteSecond, Goto, Close, disk, counters
<1> QED BY <1>1, <1>2 DEF Typed

LEMMA TypedRename ==
  ASSUME Typed, NEW t \in Threads, Rename(t)
  PROVE  Typed'
<1>1. TypeOK'
  BY ThreadsAssumption DEF Typed, TypeOK, Equipped, Steps, Pids, Rename, Goto, disk, counters
<1>2. Equipped'
  BY DEF Typed, TypeOK, Equipped, Rename, Goto, disk, counters
<1> QED BY <1>1, <1>2 DEF Typed

LEMMA TypedSaveFails ==
  ASSUME Typed, NEW t \in Threads, SaveFails(t)
  PROVE  Typed'
<1>1. TypeOK'
  BY BoundsAssumption, ThreadsAssumption DEF Typed, TypeOK, Equipped, Steps, Pids, SaveFails, Goto, Close, disk, counters
<1>2. Equipped'
  BY DEF Typed, TypeOK, Equipped, SaveFails, Goto, Close, disk, counters
<1> QED BY <1>1, <1>2 DEF Typed

LEMMA TypedLoadFails ==
  ASSUME Typed, NEW t \in Threads, LoadFails(t)
  PROVE  Typed'
<1>1. TypeOK'
  BY BoundsAssumption, ThreadsAssumption DEF Typed, TypeOK, Equipped, Steps, Pids, LoadFails, Goto, Close, disk, counters
<1>2. Equipped'
  BY DEF Typed, TypeOK, Equipped, LoadFails, Goto, Close, disk, counters
<1> QED BY <1>1, <1>2 DEF Typed

LEMMA TypedStop ==
  ASSUME Typed, NEW P, Stop(P)
  PROVE  /\ pc' \in [Threads -> Steps]
         /\ fd' \in [Threads -> Inodes \cup {None}]
         /\ ctx' \in [Threads -> Contexts \cup {None}]
         /\ Equipped'
BY DEF Typed, TypeOK, Equipped, Steps, Stop

LEMMA TypedFaults ==
  ASSUME Typed, \/ \E p \in Pids : Crash(p)
                \/ LosePower \/ EditBundle \/ EditArtifact
  PROVE  Typed'
<1>1. CASE \E p \in Pids : Crash(p)
  <2>0. PICK p \in Pids : Crash(p)
    BY <1>1
  <2>1. Stop({p})
    BY <2>0 DEF Crash
  <2>2. /\ pc' \in [Threads -> Steps]
        /\ fd' \in [Threads -> Inodes \cup {None}]
        /\ ctx' \in [Threads -> Contexts \cup {None}]
        /\ Equipped'
    BY <2>1, TypedStop
  <2>3. TypeOK'
    BY <2>0, <2>2, BoundsAssumption DEF Typed, TypeOK, Crash, Stop, disk
  <2> QED BY <2>2, <2>3 DEF Typed
<1>2. CASE LosePower
  <2>1. Stop(Pids)
    BY <1>2 DEF LosePower
  <2>2. /\ pc' \in [Threads -> Steps]
        /\ fd' \in [Threads -> Inodes \cup {None}]
        /\ ctx' \in [Threads -> Contexts \cup {None}]
        /\ Equipped'
    BY <2>1, TypedStop
  <2>3. TypeOK'
    BY <1>2, <2>2, BoundsAssumption DEF Typed, TypeOK, LosePower, Stop
  <2> QED BY <2>2, <2>3 DEF Typed
<1>3. CASE EditBundle
  <2>1. TypeOK'
    BY <1>3, BoundsAssumption DEF Typed, TypeOK, EditBundle, local
  <2>2. Equipped'
    BY <1>3 DEF Typed, Equipped, EditBundle, local
  <2> QED BY <2>1, <2>2 DEF Typed
<1>4. CASE EditArtifact
  <2>1. TypeOK'
    BY <1>4, BoundsAssumption DEF Typed, TypeOK, EditArtifact, local
  <2>2. Equipped'
    BY <1>4 DEF Typed, Equipped, EditArtifact, local
  <2> QED BY <2>1, <2>2 DEF Typed
<1> QED BY <1>1, <1>2, <1>3, <1>4

LEMMA TypedStep == Typed /\ [Next]_vars => Typed'
<1> SUFFICES ASSUME Typed, [Next]_vars PROVE Typed'
  OBVIOUS
<1>1. ASSUME NEW t \in Threads, Start(t) \/ Proceed(t) \/ SaveFails(t) \/ LoadFails(t)
      PROVE  Typed'
  BY <1>1, TypedStart, TypedEnter, TypedOpen, TypedReadHeader, TypedReadSnapshot, TypedBuildContext, TypedCreateTmp, TypedWriteFirst, TypedWriteSecond, TypedRename, TypedSaveFails, TypedLoadFails DEF Proceed
<1>2. CASE UNCHANGED vars
  BY <1>2 DEF vars, Typed, TypeOK, Equipped
<1> QED BY <1>1, <1>2, TypedFaults DEF Next

(***************************************************************************)
(* Every reachable state of the cache is well typed, whatever shares it.   *)
(***************************************************************************)
THEOREM TypeCorrect == Spec => []TypeOK
<1>1. Typed => TypeOK
  BY DEF Typed
<1> QED BY <1>1, TypedInit, TypedStep, PTL DEF Spec
\* One process per caller, one read of the bundle, one reading per options.
Separate ==
  /\ \A t, u \in Threads : Pid[t] = Pid[u] => t = u
  /\ Rereads = {}
  /\ \A r, s \in Requests : r.opts = s.opts => r.reading = s.reading

\* A flush whose snapshot is what its header says.
Honest(f) ==
  /\ f.ctx.bundle = f.key.bundle
  /\ f.ctx.build = f.key.build
  /\ f.ctx.opts = f.key.opts
  /\ f.ctx.names = None
  /\ \A r \in Requests : r.opts = f.key.opts => f.ctx.reading = r.reading

----------------------------------------------------------------------------
(* The inductive invariant. *)

\* A bundle is hashed as it was parsed.
HashedAsParsed == \A t \in Threads : hashed[t] = parsed[t]

\* Whatever is in a file is honest.
HonestFiles == \A i \in Inodes : /\ head[i] # None => Honest(head[i])
                                 /\ tail[i] # None => Honest(tail[i])

\* No two names lead to one file.
OwnFiles ==
  \A p \in Pids : tmp[p] # None => /\ tmp[p] # entry
                                   /\ \A q \in Pids : p # q => tmp[p] # tmp[q]

\* What a thread reads is no file anyone writes, and keeps its header.
Reader(t) ==
  pc[t] \in {"header", "snapshot"} =>
    /\ fd[t] \in Inodes
    /\ \A p \in Pids : fd[t] # tmp[p]
    /\ pc[t] = "snapshot" =>
         head[fd[t]] # None /\ head[fd[t]].key = Wanted(t)

Readers == \A t \in Threads : Reader(t)

\* What a thread writes is its process's temporary file.
Writer(t) ==
  /\ pc[t] \in {"first", "second"} => fd[t] = tmp[Pid[t]]
  /\ pc[t] \in {"first", "second", "rename"} => tmp[Pid[t]] \in Inodes
  /\ pc[t] = "second" => head[tmp[Pid[t]]] = Flush(t)
  /\ pc[t] = "rename" => Whole(tmp[Pid[t]])

Writers == \A t \in Threads : Writer(t)

\* Whoever looks at the cache has no artifact; whoever saves has an analysis.
Caller(t) ==
  /\ pc[t] \in {"open", "header", "snapshot", "build",
               "create", "first", "second", "rename"} =>
       asked[t].opts \notin Cascading
  /\ pc[t] \in {"create", "first", "second", "rename"} =>
       ctx[t] # None /\ Honest(Flush(t))

Callers == \A t \in Threads : Caller(t)

\* The entry is whole unless a power loss may have cut it.
WholeEntry == ~PowerFails /\ entry # None => Whole(entry)

IInv ==
  /\ Typed /\ HashedAsParsed /\ HonestFiles /\ OwnFiles
  /\ Readers /\ Writers /\ Callers /\ WholeEntry

LEMMA InitInv == Init => IInv
<1> SUFFICES ASSUME Init PROVE IInv
  OBVIOUS
<1>1. Typed
  BY TypedInit
<1>2. /\ HashedAsParsed /\ HonestFiles /\ OwnFiles
      /\ Readers /\ Writers /\ Callers /\ WholeEntry
  BY DEF Init, HashedAsParsed, HonestFiles, OwnFiles, Readers, Writers, Callers,
         WholeEntry, Reader, Writer, Caller, Steps
<1> QED BY <1>1, <1>2 DEF IInv

\* A step of one thread that leaves the files alone can only disturb what is
\* said of that thread.
LEMMA LocalStep ==
  ASSUME IInv, NEW t \in Threads, Typed', HashedAsParsed',
         UNCHANGED <<entry, tmp, head, tail>>,
         \A u \in Threads \ {t} :
           /\ pc'[u] = pc[u] /\ fd'[u] = fd[u]
           /\ ctx'[u] = ctx[u] /\ asked'[u] = asked[u]
           /\ Wanted(u)' = Wanted(u) /\ Flush(u)' = Flush(u),
         Reader(t)', Writer(t)', Caller(t)'
  PROVE  IInv'
<1>1. HonestFiles' /\ OwnFiles' /\ WholeEntry'
  BY DEF IInv, HonestFiles, OwnFiles, WholeEntry, Whole
<1>2. ASSUME NEW u \in Threads PROVE Reader(u)' /\ Writer(u)' /\ Caller(u)'
  <2>1. CASE u = t
    BY <2>1
  <2>2. CASE u # t
    <3>1. Reader(u) /\ Writer(u) /\ Caller(u)
      BY DEF IInv, Readers, Writers, Callers
    <3> QED BY <2>2, <3>1 DEF Reader, Writer, Caller, Whole
  <2> QED BY <2>1, <2>2
<1> QED BY <1>1, <1>2 DEF IInv, Readers, Writers, Callers

LEMMA KeepsStart ==
  ASSUME Separate, IInv, NEW t \in Threads, Start(t)
  PROVE  IInv'
<1>s. /\ tmp \in [Pids -> Inodes \cup {None}] /\ entry \in Inodes \cup {None}
      /\ pc \in [Threads -> Steps] /\ fd \in [Threads -> Inodes \cup {None}]
      /\ ctx \in [Threads -> Contexts \cup {None}]
      /\ asked \in [Threads -> Requests] /\ hashed \in [Threads -> Bundles]
      /\ parsed \in [Threads -> Bundles]
  BY DEF IInv, Typed, TypeOK
<1>i. HashedAsParsed /\ OwnFiles /\ Reader(t) /\ Writer(t) /\ Caller(t)
  BY DEF IInv, Readers, Writers, Callers
<1>1. Typed' /\ UNCHANGED <<entry, tmp, head, tail>>
  BY TypedStart DEF IInv, Start, disk
<1>2. HashedAsParsed'
  BY <1>s, <1>i DEF Separate, HashedAsParsed, Start, Goto
<1>3. ASSUME NEW u \in Threads \ {t}
      PROVE  /\ pc'[u] = pc[u] /\ fd'[u] = fd[u]
             /\ ctx'[u] = ctx[u] /\ asked'[u] = asked[u]
             /\ Wanted(u)' = Wanted(u) /\ Flush(u)' = Flush(u)
  BY <1>s DEF Wanted, Flush, Start, Goto
<1>4. Reader(t)'
  BY <1>s, <1>i, <1>1 DEF Reader, Wanted, OwnFiles, Start, Goto
<1>5. Writer(t)'
  BY <1>s, <1>i DEF Writer, Start, Goto
<1>6. Caller(t)'
  BY <1>s, <1>i DEF Caller, Start, Goto
<1> QED BY <1>1, <1>2, <1>3, <1>4, <1>5, <1>6, LocalStep

LEMMA KeepsEnter ==
  ASSUME Separate, IInv, NEW t \in Threads, Enter(t)
  PROVE  IInv'
<1>s. /\ tmp \in [Pids -> Inodes \cup {None}] /\ entry \in Inodes \cup {None}
      /\ pc \in [Threads -> Steps] /\ fd \in [Threads -> Inodes \cup {None}]
      /\ ctx \in [Threads -> Contexts \cup {None}]
      /\ asked \in [Threads -> Requests] /\ hashed \in [Threads -> Bundles]
      /\ parsed \in [Threads -> Bundles]
  BY DEF IInv, Typed, TypeOK
<1>i. HashedAsParsed /\ OwnFiles /\ Reader(t) /\ Writer(t) /\ Caller(t)
  BY DEF IInv, Readers, Writers, Callers
<1>1. Typed' /\ UNCHANGED <<entry, tmp, head, tail>>
  BY TypedEnter DEF IInv, Enter, disk
<1>2. HashedAsParsed'
  BY <1>s, <1>i DEF Separate, HashedAsParsed, Enter, Goto
<1>3. ASSUME NEW u \in Threads \ {t}
      PROVE  /\ pc'[u] = pc[u] /\ fd'[u] = fd[u]
             /\ ctx'[u] = ctx[u] /\ asked'[u] = asked[u]
             /\ Wanted(u)' = Wanted(u) /\ Flush(u)' = Flush(u)
  BY <1>s DEF Wanted, Flush, Enter, Goto
<1>4. Reader(t)'
  BY <1>s, <1>i, <1>1 DEF Reader, Wanted, OwnFiles, Enter, Goto
<1>5. Writer(t)'
  BY <1>s, <1>i DEF Writer, Enter, Goto
<1>6. Caller(t)'
  BY <1>s, <1>i DEF Caller, Enter, Goto
<1> QED BY <1>1, <1>2, <1>3, <1>4, <1>5, <1>6, LocalStep

LEMMA KeepsOpen ==
  ASSUME Separate, IInv, NEW t \in Threads, Open(t)
  PROVE  IInv'
<1>s. /\ tmp \in [Pids -> Inodes \cup {None}] /\ entry \in Inodes \cup {None}
      /\ pc \in [Threads -> Steps] /\ fd \in [Threads -> Inodes \cup {None}]
      /\ ctx \in [Threads -> Contexts \cup {None}]
      /\ asked \in [Threads -> Requests] /\ hashed \in [Threads -> Bundles]
      /\ parsed \in [Threads -> Bundles]
  BY DEF IInv, Typed, TypeOK
<1>i. HashedAsParsed /\ OwnFiles /\ Reader(t) /\ Writer(t) /\ Caller(t)
  BY DEF IInv, Readers, Writers, Callers
<1>1. Typed' /\ UNCHANGED <<entry, tmp, head, tail>>
  BY TypedOpen DEF IInv, Open, disk
<1>2. HashedAsParsed'
  BY <1>s, <1>i DEF Separate, HashedAsParsed, Open, Goto
<1>3. ASSUME NEW u \in Threads \ {t}
      PROVE  /\ pc'[u] = pc[u] /\ fd'[u] = fd[u]
             /\ ctx'[u] = ctx[u] /\ asked'[u] = asked[u]
             /\ Wanted(u)' = Wanted(u) /\ Flush(u)' = Flush(u)
  BY <1>s DEF Wanted, Flush, Open, Goto
<1>4. Reader(t)'
  BY <1>s, <1>i, <1>1, NoneAssumption DEF Reader, Wanted, OwnFiles, Open, Goto
<1>5. Writer(t)'
  BY <1>s, <1>i DEF Writer, Open, Goto
<1>6. Caller(t)'
  BY <1>s, <1>i DEF Caller, Open, Goto
<1> QED BY <1>1, <1>2, <1>3, <1>4, <1>5, <1>6, LocalStep

LEMMA KeepsReadHeader ==
  ASSUME Separate, IInv, NEW t \in Threads, ReadHeader(t)
  PROVE  IInv'
<1>s. /\ tmp \in [Pids -> Inodes \cup {None}] /\ entry \in Inodes \cup {None}
      /\ pc \in [Threads -> Steps] /\ fd \in [Threads -> Inodes \cup {None}]
      /\ ctx \in [Threads -> Contexts \cup {None}]
      /\ asked \in [Threads -> Requests] /\ hashed \in [Threads -> Bundles]
      /\ parsed \in [Threads -> Bundles]
  BY DEF IInv, Typed, TypeOK
<1>i. HashedAsParsed /\ OwnFiles /\ Reader(t) /\ Writer(t) /\ Caller(t)
  BY DEF IInv, Readers, Writers, Callers
<1>1. Typed' /\ UNCHANGED <<entry, tmp, head, tail>>
  BY TypedReadHeader DEF IInv, ReadHeader, disk
<1>2. HashedAsParsed'
  BY <1>s, <1>i DEF Separate, HashedAsParsed, ReadHeader, Goto, Close
<1>3. ASSUME NEW u \in Threads \ {t}
      PROVE  /\ pc'[u] = pc[u] /\ fd'[u] = fd[u]
             /\ ctx'[u] = ctx[u] /\ asked'[u] = asked[u]
             /\ Wanted(u)' = Wanted(u) /\ Flush(u)' = Flush(u)
  BY <1>s DEF Wanted, Flush, ReadHeader, Goto, Close
<1>w. Wanted(t)' = Wanted(t)
  BY DEF Wanted, ReadHeader
<1>4. Reader(t)'
  BY <1>s, <1>i, <1>1, <1>w DEF Reader, OwnFiles, ReadHeader, Goto, Close
<1>5. Writer(t)'
  BY <1>s, <1>i DEF Writer, ReadHeader, Goto, Close
<1>6. Caller(t)'
  BY <1>s, <1>i DEF Caller, ReadHeader, Goto, Close
<1> QED BY <1>1, <1>2, <1>3, <1>4, <1>5, <1>6, LocalStep

LEMMA KeepsReadSnapshot ==
  ASSUME Separate, IInv, NEW t \in Threads, ReadSnapshot(t)
  PROVE  IInv'
<1>s. /\ tmp \in [Pids -> Inodes \cup {None}] /\ entry \in Inodes \cup {None}
      /\ pc \in [Threads -> Steps] /\ fd \in [Threads -> Inodes \cup {None}]
      /\ ctx \in [Threads -> Contexts \cup {None}]
      /\ asked \in [Threads -> Requests] /\ hashed \in [Threads -> Bundles]
      /\ parsed \in [Threads -> Bundles]
  BY DEF IInv, Typed, TypeOK
<1>i. HashedAsParsed /\ OwnFiles /\ Reader(t) /\ Writer(t) /\ Caller(t)
  BY DEF IInv, Readers, Writers, Callers
<1>1. Typed' /\ UNCHANGED <<entry, tmp, head, tail>>
  BY TypedReadSnapshot DEF IInv, ReadSnapshot, disk
<1>2. HashedAsParsed'
  BY <1>s, <1>i DEF Separate, HashedAsParsed, ReadSnapshot, Goto, Close,
         Whole, Flushes
<1>3. ASSUME NEW u \in Threads \ {t}
      PROVE  /\ pc'[u] = pc[u] /\ fd'[u] = fd[u]
             /\ ctx'[u] = ctx[u] /\ asked'[u] = asked[u]
             /\ Wanted(u)' = Wanted(u) /\ Flush(u)' = Flush(u)
  BY <1>s DEF Wanted, Flush, ReadSnapshot, Goto, Close, Whole, Flushes
<1>4. Reader(t)'
  BY <1>s, <1>i, <1>1 DEF Reader, Wanted, OwnFiles, ReadSnapshot, Goto, Close,
         Whole, Flushes
<1>5. Writer(t)'
  BY <1>s, <1>i DEF Writer, ReadSnapshot, Goto, Close, Whole, Flushes
<1>6. Caller(t)'
  BY <1>s, <1>i DEF Caller, ReadSnapshot, Goto, Close, Whole, Flushes
<1> QED BY <1>1, <1>2, <1>3, <1>4, <1>5, <1>6, LocalStep

LEMMA KeepsBuildContext ==
  ASSUME Separate, IInv, NEW t \in Threads, BuildContext(t)
  PROVE  IInv'
<1>s. /\ tmp \in [Pids -> Inodes \cup {None}] /\ entry \in Inodes \cup {None}
      /\ pc \in [Threads -> Steps] /\ fd \in [Threads -> Inodes \cup {None}]
      /\ ctx \in [Threads -> Contexts \cup {None}]
      /\ asked \in [Threads -> Requests] /\ hashed \in [Threads -> Bundles]
      /\ parsed \in [Threads -> Bundles]
  BY DEF IInv, Typed, TypeOK
<1>i. HashedAsParsed /\ OwnFiles /\ Reader(t) /\ Writer(t) /\ Caller(t)
  BY DEF IInv, Readers, Writers, Callers
<1>1. Typed' /\ UNCHANGED <<entry, tmp, head, tail>>
  BY TypedBuildContext DEF IInv, BuildContext, disk
<1>2. HashedAsParsed'
  BY <1>s, <1>i DEF Separate, HashedAsParsed, BuildContext, Goto
<1>3. ASSUME NEW u \in Threads \ {t}
      PROVE  /\ pc'[u] = pc[u] /\ fd'[u] = fd[u]
             /\ ctx'[u] = ctx[u] /\ asked'[u] = asked[u]
             /\ Wanted(u)' = Wanted(u) /\ Flush(u)' = Flush(u)
  BY <1>s DEF Wanted, Flush, BuildContext, Goto
<1>4. Reader(t)'
  BY <1>s, <1>i, <1>1 DEF Reader, Wanted, OwnFiles, BuildContext, Goto
<1>5. Writer(t)'
  BY <1>s, <1>i DEF Writer, BuildContext, Goto
<1>6. Caller(t)'
  <2>1. Honest([key |-> Wanted(t), ctx |-> Analysis(t, artifact)])
           \/ asked[t].opts \in Cascading
    BY <1>s, <1>i, RequestsAssumption
       DEF Separate, Honest, Wanted, Analysis, HashedAsParsed
  <2>2. Analysis(t, artifact) # None
    BY AnalysisType, NoneAssumption DEF IInv, Typed, TypeOK
  <2>3. pc'[t] = "create" =>
          /\ pc[t] = "build" /\ ctx'[t] = Analysis(t, artifact)
          /\ Flush(t)' = [key |-> Wanted(t), ctx |-> Analysis(t, artifact)]
    BY <1>s DEF BuildContext, Goto, Flush, Wanted
  <2> QED BY <1>s, <1>i, <2>1, <2>2, <2>3 DEF Caller, BuildContext, Goto
<1> QED BY <1>1, <1>2, <1>3, <1>4, <1>5, <1>6, LocalStep

LEMMA KeepsCreateTmp ==
  ASSUME Separate, IInv, NEW t \in Threads, CreateTmp(t)
  PROVE  IInv'
<1>t. Typed'
  BY TypedCreateTmp DEF IInv
<1>s. /\ tmp \in [Pids -> Inodes \cup {None}] /\ entry \in Inodes \cup {None}
      /\ pc \in [Threads -> Steps] /\ fd \in [Threads -> Inodes \cup {None}]
      /\ head \in [Inodes -> Flushes \cup {None}]
      /\ tail \in [Inodes -> Flushes \cup {None}]
      /\ ctx \in [Threads -> Contexts \cup {None}]
      /\ asked \in [Threads -> Requests] /\ hashed \in [Threads -> Bundles]
      /\ parsed \in [Threads -> Bundles]
  BY DEF IInv, Typed, TypeOK
<1>i. /\ HashedAsParsed /\ HonestFiles /\ OwnFiles /\ Readers /\ Writers
      /\ Callers /\ WholeEntry
  BY DEF IInv
<1>p. Pid[t] \in Pids /\ Pid \in [Threads -> Pids]
  BY ThreadsAssumption DEF Pids
<1>1. HashedAsParsed'
  BY <1>s, <1>i DEF Separate, HashedAsParsed, CreateTmp, Goto, Unused, disk,
         counters
<1>2. HonestFiles'
  BY <1>s, <1>i, <1>p, NoneAssumption DEF Separate, HonestFiles, Callers,
         Caller, Honest, CreateTmp, Goto, Unused, disk, counters
<1>3. OwnFiles'
  BY <1>s, <1>i, <1>p, NoneAssumption DEF Separate, OwnFiles, CreateTmp, Goto,
         Unused, disk, counters
<1>4. Readers'
  <2> SUFFICES ASSUME NEW u \in Threads PROVE Reader(u)'
    BY DEF Readers
  <2>1. CASE u = t
    BY <1>s, <1>i, <1>p, NoneAssumption, <2>1 DEF Separate, Readers, Reader,
           OwnFiles, Writers, Writer, Wanted, CreateTmp, Goto, Unused, disk,
           counters
  <2>2. CASE u # t
    <3>1. /\ pc'[u] = pc[u] /\ fd'[u] = fd[u]
          /\ Wanted(u)' = Wanted(u) /\ Flush(u)' = Flush(u)
      BY <1>s, <2>2 DEF Wanted, Flush, CreateTmp, Goto, Unused, disk, counters
    <3>2. Pid[u] # Pid[t]
      BY <2>2 DEF Separate
    <3> QED
      BY <1>s, <1>i, <1>p, NoneAssumption, <3>1, <3>2 DEF Separate, Readers,
             Reader, OwnFiles, Writers, Writer, CreateTmp, Goto, Unused, disk,
             counters
  <2> QED BY <2>1, <2>2
<1>5. Writers'
  <2> SUFFICES ASSUME NEW u \in Threads PROVE Writer(u)'
    BY DEF Writers
  <2>1. CASE u = t
    BY <1>s, <1>i, <1>p, NoneAssumption, <2>1 DEF Separate, Writers, Writer,
           OwnFiles, Readers, Reader, Whole, Flush, Wanted, CreateTmp, Goto,
           Unused, disk, counters
  <2>2. CASE u # t
    <3>1. /\ pc'[u] = pc[u] /\ fd'[u] = fd[u]
          /\ Wanted(u)' = Wanted(u) /\ Flush(u)' = Flush(u)
      BY <1>s, <2>2 DEF Wanted, Flush, CreateTmp, Goto, Unused, disk, counters
    <3>2. Pid[u] # Pid[t]
      BY <2>2 DEF Separate
    <3> QED
      BY <1>s, <1>i, <1>p, NoneAssumption, <3>1, <3>2 DEF Separate, Writers,
             Writer, OwnFiles, Readers, Reader, Whole, CreateTmp, Goto,
             Unused, disk, counters
  <2> QED BY <2>1, <2>2
<1>6. Callers'
  <2> SUFFICES ASSUME NEW u \in Threads PROVE Caller(u)'
    BY DEF Callers
  <2>0. Flush(t)' = Flush(t)
    BY <1>s DEF Wanted, Flush, CreateTmp, Goto, Unused, disk, counters
  <2>1. CASE u = t
    BY <1>s, <1>i, <1>p, NoneAssumption, <2>1, <2>0 DEF Separate, Callers,
           Caller, CreateTmp, Goto, Unused, disk, counters
  <2>2. CASE u # t
    <3>1. /\ pc'[u] = pc[u] /\ fd'[u] = fd[u]
          /\ Wanted(u)' = Wanted(u) /\ Flush(u)' = Flush(u)
      BY <1>s, <2>2 DEF Wanted, Flush, CreateTmp, Goto, Unused, disk, counters
    <3>2. Pid[u] # Pid[t]
      BY <2>2 DEF Separate
    <3> QED
      BY <1>s, <1>i, <1>p, NoneAssumption, <3>1, <3>2 DEF Separate, Callers,
             Caller, CreateTmp, Goto, Unused, disk, counters
  <2> QED BY <2>1, <2>2
<1>7. WholeEntry'
  BY <1>s, <1>i, <1>p, NoneAssumption DEF Separate, WholeEntry, Writers,
         Writer, OwnFiles, Whole, CreateTmp, Goto, Unused, disk, counters
<1> QED BY <1>t, <1>1, <1>2, <1>3, <1>4, <1>5, <1>6, <1>7 DEF IInv

LEMMA KeepsWriteFirst ==
  ASSUME Separate, IInv, NEW t \in Threads, WriteFirst(t)
  PROVE  IInv'
<1>t. Typed'
  BY TypedWriteFirst DEF IInv
<1>s. /\ tmp \in [Pids -> Inodes \cup {None}] /\ entry \in Inodes \cup {None}
      /\ pc \in [Threads -> Steps] /\ fd \in [Threads -> Inodes \cup {None}]
      /\ head \in [Inodes -> Flushes \cup {None}]
      /\ tail \in [Inodes -> Flushes \cup {None}]
      /\ ctx \in [Threads -> Contexts \cup {None}]
      /\ asked \in [Threads -> Requests] /\ hashed \in [Threads -> Bundles]
      /\ parsed \in [Threads -> Bundles]
  BY DEF IInv, Typed, TypeOK
<1>i. /\ HashedAsParsed /\ HonestFiles /\ OwnFiles /\ Readers /\ Writers
      /\ Callers /\ WholeEntry
  BY DEF IInv
<1>p. Pid[t] \in Pids /\ Pid \in [Threads -> Pids]
  BY ThreadsAssumption DEF Pids
<1>1. HashedAsParsed'
  BY <1>s, <1>i DEF Separate, HashedAsParsed, WriteFirst, Goto, disk, counters
<1>2. HonestFiles'
  BY <1>s, <1>i, <1>p, NoneAssumption DEF Separate, HonestFiles, Callers,
         Caller, Honest, WriteFirst, Goto, disk, counters
<1>3. OwnFiles'
  BY <1>s, <1>i, <1>p, NoneAssumption DEF Separate, OwnFiles, WriteFirst,
         Goto, disk, counters
<1>4. Readers'
  <2> SUFFICES ASSUME NEW u \in Threads PROVE Reader(u)'
    BY DEF Readers
  <2>1. CASE u = t
    BY <1>s, <1>i, <1>p, NoneAssumption, <2>1 DEF Separate, Readers, Reader,
           OwnFiles, Writers, Writer, Wanted, WriteFirst, Goto, disk, counters
  <2>2. CASE u # t
    <3>1. /\ pc'[u] = pc[u] /\ fd'[u] = fd[u]
          /\ Wanted(u)' = Wanted(u) /\ Flush(u)' = Flush(u)
      BY <1>s, <2>2 DEF Wanted, Flush, WriteFirst, Goto, disk, counters
    <3>2. Pid[u] # Pid[t]
      BY <2>2 DEF Separate
    <3> QED
      BY <1>s, <1>i, <1>p, NoneAssumption, <3>1, <3>2 DEF Separate, Readers,
             Reader, OwnFiles, Writers, Writer, WriteFirst, Goto, disk,
             counters
  <2> QED BY <2>1, <2>2
<1>5. Writers'
  <2> SUFFICES ASSUME NEW u \in Threads PROVE Writer(u)'
    BY DEF Writers
  <2>1. CASE u = t
    BY <1>s, <1>i, <1>p, NoneAssumption, <2>1 DEF Separate, Writers, Writer,
           OwnFiles, Readers, Reader, Whole, Flush, Wanted, WriteFirst, Goto,
           disk, counters
  <2>2. CASE u # t
    <3>1. /\ pc'[u] = pc[u] /\ fd'[u] = fd[u]
          /\ Wanted(u)' = Wanted(u) /\ Flush(u)' = Flush(u)
      BY <1>s, <2>2 DEF Wanted, Flush, WriteFirst, Goto, disk, counters
    <3>2. Pid[u] # Pid[t]
      BY <2>2 DEF Separate
    <3> QED
      BY <1>s, <1>i, <1>p, NoneAssumption, <3>1, <3>2 DEF Separate, Writers,
             Writer, OwnFiles, Readers, Reader, Whole, WriteFirst, Goto, disk,
             counters
  <2> QED BY <2>1, <2>2
<1>6. Callers'
  <2> SUFFICES ASSUME NEW u \in Threads PROVE Caller(u)'
    BY DEF Callers
  <2>0. Flush(t)' = Flush(t)
    BY <1>s DEF Wanted, Flush, WriteFirst, Goto, disk, counters
  <2>1. CASE u = t
    BY <1>s, <1>i, <1>p, NoneAssumption, <2>1, <2>0 DEF Separate, Callers,
           Caller, WriteFirst, Goto, disk, counters
  <2>2. CASE u # t
    <3>1. /\ pc'[u] = pc[u] /\ fd'[u] = fd[u]
          /\ Wanted(u)' = Wanted(u) /\ Flush(u)' = Flush(u)
      BY <1>s, <2>2 DEF Wanted, Flush, WriteFirst, Goto, disk, counters
    <3>2. Pid[u] # Pid[t]
      BY <2>2 DEF Separate
    <3> QED
      BY <1>s, <1>i, <1>p, NoneAssumption, <3>1, <3>2 DEF Separate, Callers,
             Caller, WriteFirst, Goto, disk, counters
  <2> QED BY <2>1, <2>2
<1>7. WholeEntry'
  BY <1>s, <1>i, <1>p, NoneAssumption DEF Separate, WholeEntry, Writers,
         Writer, OwnFiles, Whole, WriteFirst, Goto, disk, counters
<1> QED BY <1>t, <1>1, <1>2, <1>3, <1>4, <1>5, <1>6, <1>7 DEF IInv

LEMMA KeepsWriteSecond ==
  ASSUME Separate, IInv, NEW t \in Threads, WriteSecond(t)
  PROVE  IInv'
<1>t. Typed'
  BY TypedWriteSecond DEF IInv
<1>s. /\ tmp \in [Pids -> Inodes \cup {None}] /\ entry \in Inodes \cup {None}
      /\ pc \in [Threads -> Steps] /\ fd \in [Threads -> Inodes \cup {None}]
      /\ head \in [Inodes -> Flushes \cup {None}]
      /\ tail \in [Inodes -> Flushes \cup {None}]
      /\ ctx \in [Threads -> Contexts \cup {None}]
      /\ asked \in [Threads -> Requests] /\ hashed \in [Threads -> Bundles]
      /\ parsed \in [Threads -> Bundles]
  BY DEF IInv, Typed, TypeOK
<1>i. /\ HashedAsParsed /\ HonestFiles /\ OwnFiles /\ Readers /\ Writers
      /\ Callers /\ WholeEntry
  BY DEF IInv
<1>p. Pid[t] \in Pids /\ Pid \in [Threads -> Pids]
  BY ThreadsAssumption DEF Pids
<1>1. HashedAsParsed'
  BY <1>s, <1>i DEF Separate, HashedAsParsed, WriteSecond, Goto, Close, disk,
         counters
<1>2. HonestFiles'
  BY <1>s, <1>i, <1>p, NoneAssumption DEF Separate, HonestFiles, Callers,
         Caller, Honest, WriteSecond, Goto, Close, disk, counters
<1>3. OwnFiles'
  BY <1>s, <1>i, <1>p, NoneAssumption DEF Separate, OwnFiles, WriteSecond,
         Goto, Close, disk, counters
<1>4. Readers'
  <2> SUFFICES ASSUME NEW u \in Threads PROVE Reader(u)'
    BY DEF Readers
  <2>1. CASE u = t
    BY <1>s, <1>i, <1>p, NoneAssumption, <2>1 DEF Separate, Readers, Reader,
           OwnFiles, Writers, Writer, Wanted, WriteSecond, Goto, Close, disk,
           counters
  <2>2. CASE u # t
    <3>1. /\ pc'[u] = pc[u] /\ fd'[u] = fd[u]
          /\ Wanted(u)' = Wanted(u) /\ Flush(u)' = Flush(u)
      BY <1>s, <2>2 DEF Wanted, Flush, WriteSecond, Goto, Close, disk,
             counters
    <3>2. Pid[u] # Pid[t]
      BY <2>2 DEF Separate
    <3> QED
      BY <1>s, <1>i, <1>p, NoneAssumption, <3>1, <3>2 DEF Separate, Readers,
             Reader, OwnFiles, Writers, Writer, WriteSecond, Goto, Close,
             disk, counters
  <2> QED BY <2>1, <2>2
<1>5. Writers'
  <2> SUFFICES ASSUME NEW u \in Threads PROVE Writer(u)'
    BY DEF Writers
  <2>0. Flush(t) # None
    BY FlushType, NoneAssumption DEF IInv, Typed, Equipped, WriteSecond
  <2>1. CASE u = t
    BY <1>s, <1>i, <1>p, NoneAssumption, <2>1, <2>0 DEF Separate, Writers,
           Writer, OwnFiles, Readers, Reader, Whole, Flush, Wanted,
           WriteSecond, Goto, Close, disk, counters
  <2>2. CASE u # t
    <3>1. /\ pc'[u] = pc[u] /\ fd'[u] = fd[u]
          /\ Wanted(u)' = Wanted(u) /\ Flush(u)' = Flush(u)
      BY <1>s, <2>2 DEF Wanted, Flush, WriteSecond, Goto, Close, disk,
             counters
    <3>2. Pid[u] # Pid[t]
      BY <2>2 DEF Separate
    <3> QED
      BY <1>s, <1>i, <1>p, NoneAssumption, <3>1, <3>2 DEF Separate, Writers,
             Writer, OwnFiles, Readers, Reader, Whole, WriteSecond, Goto,
             Close, disk, counters
  <2> QED BY <2>1, <2>2
<1>6. Callers'
  <2> SUFFICES ASSUME NEW u \in Threads PROVE Caller(u)'
    BY DEF Callers
  <2>0. Flush(t)' = Flush(t)
    BY <1>s DEF Wanted, Flush, WriteSecond, Goto, Close, disk, counters
  <2>1. CASE u = t
    BY <1>s, <1>i, <1>p, NoneAssumption, <2>1, <2>0 DEF Separate, Callers,
           Caller, WriteSecond, Goto, Close, disk, counters
  <2>2. CASE u # t
    <3>1. /\ pc'[u] = pc[u] /\ fd'[u] = fd[u]
          /\ Wanted(u)' = Wanted(u) /\ Flush(u)' = Flush(u)
      BY <1>s, <2>2 DEF Wanted, Flush, WriteSecond, Goto, Close, disk,
             counters
    <3>2. Pid[u] # Pid[t]
      BY <2>2 DEF Separate
    <3> QED
      BY <1>s, <1>i, <1>p, NoneAssumption, <3>1, <3>2 DEF Separate, Callers,
             Caller, WriteSecond, Goto, Close, disk, counters
  <2> QED BY <2>1, <2>2
<1>7. WholeEntry'
  BY <1>s, <1>i, <1>p, NoneAssumption DEF Separate, WholeEntry, Writers,
         Writer, OwnFiles, Whole, WriteSecond, Goto, Close, disk, counters
<1> QED BY <1>t, <1>1, <1>2, <1>3, <1>4, <1>5, <1>6, <1>7 DEF IInv

LEMMA KeepsRename ==
  ASSUME Separate, IInv, NEW t \in Threads, Rename(t)
  PROVE  IInv'
<1>t. Typed'
  BY TypedRename DEF IInv
<1>s. /\ tmp \in [Pids -> Inodes \cup {None}] /\ entry \in Inodes \cup {None}
      /\ pc \in [Threads -> Steps] /\ fd \in [Threads -> Inodes \cup {None}]
      /\ head \in [Inodes -> Flushes \cup {None}]
      /\ tail \in [Inodes -> Flushes \cup {None}]
      /\ ctx \in [Threads -> Contexts \cup {None}]
      /\ asked \in [Threads -> Requests] /\ hashed \in [Threads -> Bundles]
      /\ parsed \in [Threads -> Bundles]
  BY DEF IInv, Typed, TypeOK
<1>i. /\ HashedAsParsed /\ HonestFiles /\ OwnFiles /\ Readers /\ Writers
      /\ Callers /\ WholeEntry
  BY DEF IInv
<1>p. Pid[t] \in Pids /\ Pid \in [Threads -> Pids]
  BY ThreadsAssumption DEF Pids
<1>1. HashedAsParsed'
  BY <1>s, <1>i DEF Separate, HashedAsParsed, Rename, Goto, disk, counters
<1>2. HonestFiles'
  BY <1>s, <1>i, <1>p, NoneAssumption DEF Separate, HonestFiles, Callers,
         Caller, Honest, Rename, Goto, disk, counters
<1>3. OwnFiles'
  BY <1>s, <1>i, <1>p, NoneAssumption DEF Separate, OwnFiles, Rename, Goto,
         disk, counters
<1>4. Readers'
  <2> SUFFICES ASSUME NEW u \in Threads PROVE Reader(u)'
    BY DEF Readers
  <2>1. CASE u = t
    BY <1>s, <1>i, <1>p, NoneAssumption, <2>1 DEF Separate, Readers, Reader,
           OwnFiles, Writers, Writer, Wanted, Rename, Goto, disk, counters
  <2>2. CASE u # t
    <3>1. /\ pc'[u] = pc[u] /\ fd'[u] = fd[u]
          /\ Wanted(u)' = Wanted(u) /\ Flush(u)' = Flush(u)
      BY <1>s, <2>2 DEF Wanted, Flush, Rename, Goto, disk, counters
    <3>2. Pid[u] # Pid[t]
      BY <2>2 DEF Separate
    <3> QED
      BY <1>s, <1>i, <1>p, NoneAssumption, <3>1, <3>2 DEF Separate, Readers,
             Reader, OwnFiles, Writers, Writer, Rename, Goto, disk, counters
  <2> QED BY <2>1, <2>2
<1>5. Writers'
  <2> SUFFICES ASSUME NEW u \in Threads PROVE Writer(u)'
    BY DEF Writers
  <2>1. CASE u = t
    BY <1>s, <1>i, <1>p, NoneAssumption, <2>1 DEF Separate, Writers, Writer,
           OwnFiles, Readers, Reader, Whole, Flush, Wanted, Rename, Goto,
           disk, counters
  <2>2. CASE u # t
    <3>1. /\ pc'[u] = pc[u] /\ fd'[u] = fd[u]
          /\ Wanted(u)' = Wanted(u) /\ Flush(u)' = Flush(u)
      BY <1>s, <2>2 DEF Wanted, Flush, Rename, Goto, disk, counters
    <3>2. Pid[u] # Pid[t]
      BY <2>2 DEF Separate
    <3> QED
      BY <1>s, <1>i, <1>p, NoneAssumption, <3>1, <3>2 DEF Separate, Writers,
             Writer, OwnFiles, Readers, Reader, Whole, Rename, Goto, disk,
             counters
  <2> QED BY <2>1, <2>2
<1>6. Callers'
  <2> SUFFICES ASSUME NEW u \in Threads PROVE Caller(u)'
    BY DEF Callers
  <2>0. Flush(t)' = Flush(t)
    BY <1>s DEF Wanted, Flush, Rename, Goto, disk, counters
  <2>1. CASE u = t
    BY <1>s, <1>i, <1>p, NoneAssumption, <2>1, <2>0 DEF Separate, Callers,
           Caller, Rename, Goto, disk, counters
  <2>2. CASE u # t
    <3>1. /\ pc'[u] = pc[u] /\ fd'[u] = fd[u]
          /\ Wanted(u)' = Wanted(u) /\ Flush(u)' = Flush(u)
      BY <1>s, <2>2 DEF Wanted, Flush, Rename, Goto, disk, counters
    <3>2. Pid[u] # Pid[t]
      BY <2>2 DEF Separate
    <3> QED
      BY <1>s, <1>i, <1>p, NoneAssumption, <3>1, <3>2 DEF Separate, Callers,
             Caller, Rename, Goto, disk, counters
  <2> QED BY <2>1, <2>2
<1>7. WholeEntry'
  BY <1>s, <1>i, <1>p, NoneAssumption DEF Separate, WholeEntry, Writers,
         Writer, OwnFiles, Whole, Rename, Goto, disk, counters
<1> QED BY <1>t, <1>1, <1>2, <1>3, <1>4, <1>5, <1>6, <1>7 DEF IInv

LEMMA KeepsSaveFails ==
  ASSUME Separate, IInv, NEW t \in Threads, SaveFails(t)
  PROVE  IInv'
<1>s. /\ tmp \in [Pids -> Inodes \cup {None}] /\ entry \in Inodes \cup {None}
      /\ pc \in [Threads -> Steps] /\ fd \in [Threads -> Inodes \cup {None}]
      /\ ctx \in [Threads -> Contexts \cup {None}]
      /\ asked \in [Threads -> Requests] /\ hashed \in [Threads -> Bundles]
      /\ parsed \in [Threads -> Bundles]
  BY DEF IInv, Typed, TypeOK
<1>i. HashedAsParsed /\ OwnFiles /\ Reader(t) /\ Writer(t) /\ Caller(t)
  BY DEF IInv, Readers, Writers, Callers
<1>1. Typed' /\ UNCHANGED <<entry, tmp, head, tail>>
  BY TypedSaveFails DEF IInv, SaveFails, disk
<1>2. HashedAsParsed'
  BY <1>s, <1>i DEF Separate, HashedAsParsed, SaveFails, Goto, Close
<1>3. ASSUME NEW u \in Threads \ {t}
      PROVE  /\ pc'[u] = pc[u] /\ fd'[u] = fd[u]
             /\ ctx'[u] = ctx[u] /\ asked'[u] = asked[u]
             /\ Wanted(u)' = Wanted(u) /\ Flush(u)' = Flush(u)
  BY <1>s DEF Wanted, Flush, SaveFails, Goto, Close
<1>4. Reader(t)'
  BY <1>s, <1>i, <1>1 DEF Reader, Wanted, OwnFiles, SaveFails, Goto, Close
<1>5. Writer(t)'
  BY <1>s, <1>i DEF Writer, SaveFails, Goto, Close
<1>6. Caller(t)'
  BY <1>s, <1>i DEF Caller, SaveFails, Goto, Close
<1> QED BY <1>1, <1>2, <1>3, <1>4, <1>5, <1>6, LocalStep

LEMMA KeepsLoadFails ==
  ASSUME Separate, IInv, NEW t \in Threads, LoadFails(t)
  PROVE  IInv'
<1>s. /\ tmp \in [Pids -> Inodes \cup {None}] /\ entry \in Inodes \cup {None}
      /\ pc \in [Threads -> Steps] /\ fd \in [Threads -> Inodes \cup {None}]
      /\ ctx \in [Threads -> Contexts \cup {None}]
      /\ asked \in [Threads -> Requests] /\ hashed \in [Threads -> Bundles]
      /\ parsed \in [Threads -> Bundles]
  BY DEF IInv, Typed, TypeOK
<1>i. HashedAsParsed /\ OwnFiles /\ Reader(t) /\ Writer(t) /\ Caller(t)
  BY DEF IInv, Readers, Writers, Callers
<1>1. Typed' /\ UNCHANGED <<entry, tmp, head, tail>>
  BY TypedLoadFails DEF IInv, LoadFails, disk
<1>2. HashedAsParsed'
  BY <1>s, <1>i DEF Separate, HashedAsParsed, LoadFails, Goto, Close
<1>3. ASSUME NEW u \in Threads \ {t}
      PROVE  /\ pc'[u] = pc[u] /\ fd'[u] = fd[u]
             /\ ctx'[u] = ctx[u] /\ asked'[u] = asked[u]
             /\ Wanted(u)' = Wanted(u) /\ Flush(u)' = Flush(u)
  BY <1>s DEF Wanted, Flush, LoadFails, Goto, Close
<1>4. Reader(t)'
  BY <1>s, <1>i, <1>1 DEF Reader, Wanted, OwnFiles, LoadFails, Goto, Close
<1>5. Writer(t)'
  BY <1>s, <1>i DEF Writer, LoadFails, Goto, Close
<1>6. Caller(t)'
  BY <1>s, <1>i DEF Caller, LoadFails, Goto, Close
<1> QED BY <1>1, <1>2, <1>3, <1>4, <1>5, <1>6, LocalStep

LEMMA KeepsCrash ==
  ASSUME Separate, IInv, NEW p \in Pids, Crash(p)
  PROVE  IInv'
<1>t. Typed'
  BY TypedFaults DEF IInv
<1>1. HashedAsParsed' /\ HonestFiles' /\ OwnFiles' /\ WholeEntry'
  BY DEF IInv, HashedAsParsed, HonestFiles, OwnFiles, WholeEntry, Whole, Crash, Stop, disk
<1>2. ASSUME NEW u \in Threads
      PROVE  Reader(u)' /\ Writer(u)' /\ Caller(u)'
  <2>1. CASE Pid[u] = p
    BY <2>1 DEF Reader, Writer, Caller, Crash, Stop
  <2>2. CASE Pid[u] # p
    <3>1. /\ pc'[u] = pc[u] /\ fd'[u] = fd[u] /\ ctx'[u] = ctx[u]
          /\ Wanted(u)' = Wanted(u) /\ Flush(u)' = Flush(u)
      BY <2>2 DEF Crash, Stop, Wanted, Flush
    <3>2. Reader(u) /\ Writer(u) /\ Caller(u)
      BY DEF IInv, Readers, Writers, Callers
    <3> QED BY <3>1, <3>2 DEF Reader, Writer, Caller, Whole, Crash, Stop, disk
  <2> QED BY <2>1, <2>2
<1> QED BY <1>t, <1>1, <1>2 DEF IInv, Readers, Writers, Callers

LEMMA KeepsLosePower ==
  ASSUME Separate, IInv, LosePower
  PROVE  IInv'
<1>t. Typed'
  BY TypedFaults DEF IInv
<1>0. \A t \in Threads : pc'[t] = "idle"
  BY ThreadsAssumption DEF LosePower, Stop
<1>1. HonestFiles'
  BY DEF IInv, Typed, TypeOK, HonestFiles, LosePower
<1>2. HashedAsParsed' /\ OwnFiles' /\ WholeEntry'
  BY DEF IInv, HashedAsParsed, OwnFiles, WholeEntry, LosePower, Stop
<1>3. Readers' /\ Writers' /\ Callers'
  BY <1>0 DEF Readers, Reader, Writers, Writer, Callers, Caller
<1> QED BY <1>t, <1>1, <1>2, <1>3 DEF IInv

\* Files, threads and names are untouched.
LEMMA KeepsEdits ==
  ASSUME IInv, \/ EditBundle \/ EditArtifact \/ UNCHANGED vars
  PROVE  IInv'
<1>t. Typed'
  BY TypedFaults DEF IInv, vars, Typed, TypeOK, Equipped
<1>1. UNCHANGED <<entry, tmp, head, tail, local>>
  BY DEF EditBundle, EditArtifact, vars, local
<1>2. HashedAsParsed' /\ HonestFiles' /\ OwnFiles' /\ WholeEntry'
  BY <1>1 DEF IInv, HashedAsParsed, HonestFiles, OwnFiles, WholeEntry, Whole, local
<1>3. \A u \in Threads : Wanted(u)' = Wanted(u) /\ Flush(u)' = Flush(u)
  BY <1>1 DEF Wanted, Flush, local
<1>4. Readers' /\ Writers' /\ Callers'
  BY <1>1, <1>3 DEF IInv, Readers, Reader, Writers, Writer, Callers, Caller, Whole, local
<1> QED BY <1>t, <1>2, <1>4 DEF IInv

LEMMA StepInv ==
  ASSUME Separate
  PROVE  IInv /\ [Next]_vars => IInv'
<1> SUFFICES ASSUME IInv, [Next]_vars PROVE IInv'
  OBVIOUS
<1>1. ASSUME NEW t \in Threads, Start(t) \/ Proceed(t) \/ SaveFails(t) \/ LoadFails(t)
      PROVE  IInv'
  BY <1>1, KeepsStart, KeepsEnter, KeepsOpen, KeepsReadHeader, KeepsReadSnapshot, KeepsBuildContext, KeepsCreateTmp, KeepsWriteFirst, KeepsWriteSecond, KeepsRename, KeepsSaveFails, KeepsLoadFails
     DEF Proceed
<1>2. ASSUME NEW p \in Pids, Crash(p) PROVE IInv'
  BY <1>2, KeepsCrash
<1> QED BY <1>1, <1>2, KeepsLosePower, KeepsEdits DEF Next

(***************************************************************************)
(* The step that answers answers with the analysis asked for.              *)
(***************************************************************************)
LEMMA AnswerIsAnalysis ==
  ASSUME Separate, IInv, Next, NEW t \in Threads, Answers(t)
  PROVE  ctx'[t] = Analysis(t, artifact)
<1>s. /\ pc \in [Threads -> Steps] /\ ctx \in [Threads -> Contexts \cup {None}]
      /\ tail \in [Inodes -> Flushes \cup {None}]
      /\ head \in [Inodes -> Flushes \cup {None}]
      /\ asked \in [Threads -> Requests]
  BY DEF IInv, Typed, TypeOK
<1>1. ReadSnapshot(t) \/ BuildContext(t)
  <2>1. ASSUME NEW u \in Threads,
               Start(u) \/ Proceed(u) \/ SaveFails(u) \/ LoadFails(u)
        PROVE  ReadSnapshot(t) \/ BuildContext(t)
    BY <2>1, <1>s DEF Answers, Proceed, Start, Enter, Open, ReadHeader, ReadSnapshot,
       BuildContext, CreateTmp, WriteFirst, WriteSecond, Rename, SaveFails, LoadFails
  <2>2. ASSUME NEW p \in Pids, Crash(p) PROVE FALSE
    BY <2>2, <1>s DEF Answers, Crash, Stop
  <2>3. ~LosePower
    BY <1>s DEF Answers, LosePower, Stop
  <2>4. ~EditBundle /\ ~EditArtifact
    BY <1>s DEF Answers, EditBundle, EditArtifact, local
  <2> QED BY <2>1, <2>2, <2>3, <2>4 DEF Next
<1>2. CASE BuildContext(t)
  BY <1>2, <1>s DEF BuildContext, Answers
<1>3. CASE ReadSnapshot(t)
  <2>1. Whole(fd[t]) /\ ctx'[t] = tail[fd[t]].ctx
    BY <1>3, <1>s DEF ReadSnapshot, Answers
  <2>2. Reader(t) /\ Caller(t) /\ hashed[t] = parsed[t] /\ pc[t] = "snapshot"
    BY <1>3 DEF IInv, Readers, Callers, HashedAsParsed, ReadSnapshot
  <2>3. fd[t] \in Inodes /\ head[fd[t]] # None /\ head[fd[t]].key = Wanted(t)
    BY <2>2 DEF Reader
  <2>4. Honest(head[fd[t]]) /\ tail[fd[t]] = head[fd[t]]
    BY <2>1, <2>3 DEF IInv, HonestFiles, Whole
  <2>5. asked[t].opts \notin Cascading
    BY <2>2 DEF Caller
  <2> DEFINE c == head[fd[t]].ctx
  <2>6. c \in Contexts
    BY <1>s, <2>3 DEF Flushes
  <2>7. /\ c.bundle = parsed[t] /\ c.build = Build[t] /\ c.opts = asked[t].opts
        /\ c.names = None /\ c.reading = asked[t].reading
    BY <1>s, <2>2, <2>3, <2>4 DEF Honest, Wanted
  <2>8. c = [bundle |-> c.bundle, reading |-> c.reading, build |-> c.build,
             opts |-> c.opts, names |-> c.names]
    BY <2>6 DEF Contexts
  <2> HIDE DEF c
  <2>9. c = Analysis(t, artifact)
    BY <2>5, <2>7, <2>8 DEF Analysis
  <2> QED BY <2>1, <2>4, <2>9 DEF c
<1> QED BY <1>1, <1>2, <1>3

(***************************************************************************)
(* For any number of processes, builds, requests and versions of the       *)
(* bundle, through crashes, failed calls and power losses, every answer is *)
(* the analysis of what was asked, as long as each caller is a process of  *)
(* its own, reads the bundle once, and reads it as the options say.        *)
(***************************************************************************)
THEOREM AnswersAreRight ==
  ASSUME Separate
  PROVE  Spec => ServesWhatWasAsked
<1> DEFINE Right == \A t \in Threads : Answers(t) => ctx'[t] = Analysis(t, artifact)
<1>1. IInv /\ [Next]_vars => [Right]_vars
  BY AnswerIsAnalysis
<1> QED BY <1>1, InitInv, StepInv, PTL DEF Spec, ServesWhatWasAsked

(***************************************************************************)
(* While no unsynced data is lost, the cache's name leads to no half-      *)
(* written file, for any number of processes and crashes.                  *)
(***************************************************************************)
THEOREM EntryIsWhole ==
  ASSUME Separate, ~PowerFails
  PROVE  Spec => []NeverHalfWritten
<1>1. IInv => NeverHalfWritten
  BY DEF IInv, WholeEntry, NeverHalfWritten
<1> QED BY <1>1, InitInv, StepInv, PTL DEF Spec
============================================================================
