-------------------------- MODULE McpSessionProofs --------------------------
(***************************************************************************)
(* For any number of open calls, requests, paths, panics and replaced files: *)
(*   - the pipeline a session keeps is that of the file it has loaded,       *)
(*   - a text is about that file, in the mode that was asked for,            *)
(*   - only a load that succeeds changes the loaded file,                    *)
(*   - a refusal says that nothing is loaded, and                            *)
(*   - a patch that reports its output has left it whole, as long as no       *)
(*     create_hbc is given a path that is patched.                           *)
(* What they rest on is the mutex: who is between taking and dropping it.     *)
(***************************************************************************)
EXTENDS McpSession, TLAPS

\* A call between taking the mutex and dropping it.
Inside(c) ==
  pc[c] \in {"body", "render"} \/ (pc[c] = "write" /\ req[c].tool = "patch")

\* The mutex is held by the call inside, if there is one: two are never.
Exclusive == \A c \in Calls : Inside(c) <=> holder = c

\* Where a tool can be.
OnItsWay ==
  \A c \in Calls :
    /\ pc[c] \in {"parse", "publish"} => req[c].tool = "load"
    /\ pc[c] = "truncate" => req[c].tool = "create"
    /\ pc[c] = "write" => req[c].tool \in WriteTools
    /\ pc[c] \in {"lock", "body", "render"} => req[c].tool \notin {"load", "create"}

\* What a load has parsed, and what is loaded, is a file that parses.
Parses ==
  /\ loaded # None => loaded.file \in Whole
  /\ \A c \in Calls : pc[c] = "publish" => parsed[c] \in Whole

\* Between its two steps a tool has the pipeline it asked for.
Rendering ==
  \A c \in Calls : pc[c] = "render" =>
    /\ loaded # None
    /\ loaded.ctx = [file |-> loaded.file, deep |-> Deep(c)]

\* Between its two writes a patch has the loaded file's clone.
Patching ==
  \A c \in Calls : (pc[c] = "write" /\ req[c].tool = "patch") =>
    loaded # None /\ parsed[c] = loaded.file

IInv ==
  /\ TypeOK
  /\ Exclusive
  /\ OnItsWay
  /\ Parses
  /\ PipelineIsOfTheFile
  /\ Rendering
  /\ Patching

\* create_hbc is given paths of its own.
CreatesApart ==
  \A q, r \in Requests : (q.tool = "create" /\ r.tool = "patch") => q.path # r.path

\* While a patch is between its two writes, its output is empty.
OutputEmpty ==
  \A c \in Calls : (pc[c] = "write" /\ req[c].tool = "patch") => disk[req[c].path] = None

----------------------------------------------------------------------------
LEMMA InitInv == Init => IInv /\ OutputEmpty
<1> SUFFICES ASSUME Init PROVE IInv /\ OutputEmpty
  OBVIOUS
<1>1. TypeOK
  <2>1. disk \in [Paths -> Contents \cup {None}]
    BY DEF Init, Found, Contents, Whole
  <2>2. answer \in [Calls -> Answered]
    BY DEF Init, Answered, Unanswered, Ends
  <2>3. req \in [Calls -> Requests]
    BY RequestsAssumption DEF Init
  <2>4. pc \in [Calls -> Steps] /\ parsed \in [Calls -> Contents \cup {None}]
    BY DEF Init, Steps
  <2>5. asks \in 0..MaxAsks /\ faults \in 0..MaxFaults /\ edits \in 0..MaxEdits
    BY BoundsAssumption DEF Init
  <2> QED BY <2>1, <2>2, <2>3, <2>4, <2>5 DEF Init, TypeOK
<1> QED BY <1>1, NoneAssumption DEF Init, IInv, Exclusive, Inside, OnItsWay, Parses,
      PipelineIsOfTheFile, Rendering, Patching, OutputEmpty

----------------------------------------------------------------------------
(* One lemma per action.  Each first says where the call is afterwards. *)
LEMMA KeepsAsk ==
  ASSUME IInv, NEW c \in Calls, Ask(c)
  PROVE  IInv'
<1> USE DEF IInv
<1>1. TypeOK'
  <2>1. Unanswered \in Answered
    BY DEF Unanswered, Answered, Ends
  <2>2. pc' \in [Calls -> Steps] /\ req' \in [Calls -> Requests]
    BY DEF TypeOK, Ask, Goto, Steps
  <2>3. parsed' \in [Calls -> Contents \cup {None}] /\ answer' \in [Calls -> Answered]
    BY <2>1 DEF TypeOK, Ask
  <2>4. asks' \in 0..MaxAsks
    BY BoundsAssumption DEF TypeOK, Ask
  <2> QED BY <2>2, <2>3, <2>4 DEF TypeOK, Ask, server
<1>2. \A d \in Calls \ {c} : /\ pc'[d] = pc[d] /\ req'[d] = req[d] /\ parsed'[d] = parsed[d]
  BY DEF TypeOK, Ask, Goto
<1>3. /\ ~Inside(c)
      /\ pc'[c] \in {"parse", "truncate", "lock"}
      /\ pc'[c] = "parse" => req'[c].tool = "load"
      /\ pc'[c] = "truncate" => req'[c].tool = "create"
      /\ pc'[c] = "lock" => req'[c].tool \notin {"load", "create"}
  BY DEF TypeOK, Ask, Goto, Inside
<1>4. UNCHANGED server
  BY DEF Ask
<1>5. Exclusive'
  BY <1>2, <1>3, <1>4 DEF Exclusive, Inside, server
<1>6. OnItsWay'
  BY <1>2, <1>3 DEF OnItsWay
<1>7. Parses' /\ PipelineIsOfTheFile' /\ Rendering' /\ Patching'
  BY <1>2, <1>3, <1>4 DEF Parses, PipelineIsOfTheFile, Rendering, Patching, server, Deep
<1> QED BY <1>1, <1>5, <1>6, <1>7

\* What a step of one call leaves alone for all the others.
Others(c) ==
  \A d \in Calls \ {c} : /\ pc'[d] = pc[d] /\ req'[d] = req[d] /\ parsed'[d] = parsed[d]

\* A call that ends, for whatever reason, keeps the invariant if it leaves the
\* loaded file alone.
LEMMA KeepsReturn ==
  ASSUME IInv, NEW c \in Calls, NEW end \in Ends,
         NEW of \in Contexts \cup Contents \cup {None},
         Return(c, end, of), UNCHANGED <<loaded, req, parsed>>,
         disk' \in [Paths -> Contents \cup {None}], poisoned' \in BOOLEAN,
         asks' \in 0..MaxAsks, faults' \in 0..MaxFaults, edits' \in 0..MaxEdits
  PROVE  IInv'
<1> USE DEF IInv
<1>1. TypeOK'
  <2>1. [end |-> end, of |-> of] \in Answered
    BY DEF Answered
  <2>2. pc' \in [Calls -> Steps] /\ answer' \in [Calls -> Answered]
    BY <2>1 DEF TypeOK, Return, Goto, Steps
  <2>3. holder' \in Calls \cup {None}
    BY DEF TypeOK, Return
  <2> QED BY <2>2, <2>3 DEF TypeOK
<1>2. pc'[c] = "idle" /\ Others(c)
  BY DEF TypeOK, Return, Goto, Others
<1>3. holder' = IF holder = c THEN None ELSE holder
  BY DEF Return
<1>4. Exclusive'
  BY <1>2, <1>3, NoneAssumption DEF Exclusive, Inside, Others
<1>5. OnItsWay'
  BY <1>2 DEF OnItsWay, Others
<1>6. Parses' /\ PipelineIsOfTheFile' /\ Rendering' /\ Patching'
  BY <1>2 DEF Parses, PipelineIsOfTheFile, Rendering, Patching, Deep, Others
<1> QED BY <1>1, <1>4, <1>5, <1>6

LEMMA KeepsLoadParse ==
  ASSUME IInv, NEW c \in Calls, LoadParse(c)
  PROVE  IInv'
<1> DEFINE found == disk[req[c].path]
<1> USE DEF IInv
<1>1. req[c] \in Requests /\ req[c].path \in Paths /\ found \in Contents \cup {None}
  BY RequestsAssumption DEF TypeOK
<1>2. CASE found \in {None, Broken}
  <2>1. Return(c, "failed", None) /\ UNCHANGED <<loaded, req, parsed, disk, poisoned, counters>>
    BY <1>2 DEF LoadParse
  <2>2. "failed" \in Ends
    BY DEF Ends
  <2> QED BY <2>1, <2>2, KeepsReturn DEF TypeOK, counters
<1>3. CASE found \notin {None, Broken}
  <2>1. found \in Whole
    BY <1>1, <1>3 DEF Contents
  <2>2. /\ pc[c] = "parse" /\ pc' = [pc EXCEPT ![c] = "publish"]
        /\ parsed' = [parsed EXCEPT ![c] = found]
        /\ UNCHANGED <<disk, loaded, holder, poisoned, req, answer, asks, faults, edits>>
    BY <1>3 DEF LoadParse, Goto, counters
  <2> HIDE DEF found
  <2>3. TypeOK'
    <3>1. pc' \in [Calls -> Steps] /\ parsed' \in [Calls -> Contents \cup {None}]
      BY <1>1, <2>2 DEF TypeOK, Steps
    <3> QED BY <2>2, <3>1 DEF TypeOK
  <2>4. pc'[c] = "publish" /\ parsed'[c] = found /\ Others(c)
    BY <2>2 DEF TypeOK, Others
  <2>5. Exclusive' /\ OnItsWay'
    BY <2>2, <2>4 DEF Exclusive, Inside, OnItsWay, Others
  <2>6. Parses' /\ PipelineIsOfTheFile' /\ Rendering' /\ Patching'
    BY <2>1, <2>2, <2>4 DEF Parses, PipelineIsOfTheFile, Rendering, Patching, Deep, Others
  <2> QED BY <2>3, <2>5, <2>6
<1> QED BY <1>2, <1>3

LEMMA KeepsPublish ==
  ASSUME IInv, NEW c \in Calls, Publish(c)
  PROVE  IInv'
<1> DEFINE new == [file |-> parsed[c], path |-> req[c].path, ctx |-> None, deep |-> FALSE]
<1> USE DEF IInv
<1>1. /\ pc[c] = "publish" /\ holder = None /\ loaded' = new
      /\ pc' = [pc EXCEPT ![c] = "idle"] /\ UNCHANGED <<disk, poisoned, req, parsed, asks, faults, edits>>
      /\ holder' = None
  BY DEF Publish, Return, Goto, counters
<1>2. parsed[c] \in Whole /\ req[c].path \in Paths
  BY <1>1, RequestsAssumption DEF Parses, TypeOK
<1>3. new \in LoadedFiles
  BY <1>2 DEF LoadedFiles, Contents
<1>4. new.file = parsed[c] /\ new.ctx = None
  OBVIOUS
<1> HIDE DEF new
<1>5. TypeOK'
  <2>1. [end |-> "loaded", of |-> parsed[c]] \in Answered
    BY <1>2 DEF Answered, Ends, Contents
  <2>2. pc' \in [Calls -> Steps] /\ answer' \in [Calls -> Answered]
    BY <1>1, <2>1 DEF TypeOK, Steps, Publish, Return
  <2> QED BY <1>1, <1>3, <2>2 DEF TypeOK
<1>6. pc'[c] = "idle" /\ Others(c)
  BY <1>1 DEF TypeOK, Others
<1>7. \A d \in Calls : ~Inside(d)
  BY <1>1, NoneAssumption DEF Exclusive
<1>8. Exclusive'
  BY <1>1, <1>6, <1>7, NoneAssumption DEF Exclusive, Inside, Others
<1>9. OnItsWay'
  BY <1>6 DEF OnItsWay, Others
<1>10. Parses' /\ PipelineIsOfTheFile'
  BY <1>1, <1>2, <1>4, <1>6 DEF Parses, PipelineIsOfTheFile, Others
<1>11. Rendering' /\ Patching'
  BY <1>6, <1>7 DEF Rendering, Patching, Inside, Others
<1> QED BY <1>5, <1>8, <1>9, <1>10, <1>11

LEMMA KeepsLock ==
  ASSUME IInv, NEW c \in Calls, Lock(c)
  PROVE  IInv'
<1> USE DEF IInv
<1>1. /\ pc[c] = "lock" /\ holder = None /\ holder' = c /\ pc' = [pc EXCEPT ![c] = "body"]
      /\ UNCHANGED <<disk, loaded, poisoned, req, parsed, answer, asks, faults, edits>>
  BY DEF Lock, Goto, counters
<1>2. TypeOK'
  <2>1. pc' \in [Calls -> Steps]
    BY <1>1 DEF TypeOK, Steps
  <2> QED BY <1>1, <2>1 DEF TypeOK
<1>3. pc'[c] = "body" /\ Others(c)
  BY <1>1 DEF TypeOK, Others
<1>4. Exclusive' /\ OnItsWay'
  BY <1>1, <1>3, NoneAssumption DEF Exclusive, Inside, OnItsWay, Others
<1>5. Parses' /\ PipelineIsOfTheFile' /\ Rendering' /\ Patching'
  BY <1>1, <1>3 DEF Parses, PipelineIsOfTheFile, Rendering, Patching, Deep, Others
<1> QED BY <1>2, <1>4, <1>5

LEMMA KeepsRefuse ==
  ASSUME IInv, NEW c \in Calls, Refuse(c)
  PROVE  IInv'
<1>1. "refused" \in Ends
  BY DEF Ends
<1> QED BY <1>1, KeepsReturn DEF Refuse, IInv, TypeOK, counters

\* What a tool answers with is an analysis.
LEMMA AnswerTypes ==
  ASSUME IInv, loaded # None, NEW c \in Calls
  PROVE  /\ [file |-> loaded.file, deep |-> FALSE] \in Contexts
         /\ [file |-> loaded.file, deep |-> Deep(c)] \in Contexts
         /\ loaded.ctx \in Contexts \cup {None}
<1>1. loaded \in LoadedFiles /\ req[c].deep \in BOOLEAN
  BY RequestsAssumption DEF IInv, TypeOK
<1>2. loaded.file \in Contents /\ loaded.ctx \in Contexts \cup {None} /\ Deep(c) \in BOOLEAN
  BY <1>1 DEF LoadedFiles, Deep
<1> QED BY <1>2 DEF Contexts

LEMMA KeepsLight ==
  ASSUME IInv, NEW c \in Calls, Light(c)
  PROVE  IInv'
<1>1. "text" \in Ends
  BY DEF Ends
<1>2. loaded # None
  BY DEF Light
<1> DEFINE of == [file |-> loaded.file, deep |-> FALSE]
<1>3. of \in Contexts \cup Contents \cup {None}
  BY <1>2, AnswerTypes
<1>4. Return(c, "text", of) /\ UNCHANGED <<disk, loaded, poisoned, req, parsed, counters>>
  BY DEF Light
<1> HIDE DEF of
<1> QED BY <1>1, <1>3, <1>4, KeepsReturn DEF IInv, TypeOK, counters

LEMMA KeepsRender ==
  ASSUME IInv, NEW c \in Calls, Render(c)
  PROVE  IInv'
<1>1. "text" \in Ends
  BY DEF Ends
<1>2. loaded # None
  BY DEF Render, IInv, Rendering
<1> DEFINE of == IF req[c].tool = "all" THEN [file |-> loaded.file, deep |-> Deep(c)]
                 ELSE loaded.ctx
<1>3. of \in Contexts \cup Contents \cup {None}
  BY <1>2, AnswerTypes
<1>4. Return(c, "text", of) /\ UNCHANGED <<disk, loaded, poisoned, req, parsed, counters>>
  BY DEF Render
<1> HIDE DEF of
<1> QED BY <1>1, <1>3, <1>4, KeepsReturn DEF IInv, TypeOK, counters

LEMMA KeepsEnsurePipeline ==
  ASSUME IInv, NEW c \in Calls, EnsurePipeline(c)
  PROVE  IInv'
<1> DEFINE ctx == [file |-> loaded.file, deep |-> Deep(c)]
           fresh == [loaded EXCEPT !.ctx = ctx, !.deep = Deep(c)]
<1> USE DEF IInv
<1>1. /\ pc[c] = "body" /\ loaded # None
      /\ pc' = [pc EXCEPT ![c] = "render"]
      /\ UNCHANGED <<disk, holder, poisoned, req, parsed, answer, asks, faults, edits>>
      /\ loaded' = IF loaded.ctx = None \/ loaded.deep # Deep(c) THEN fresh ELSE loaded
      /\ req[c].tool \notin WriteTools
  BY DEF EnsurePipeline, Goto, counters, WriteTools
<1>2. loaded \in LoadedFiles /\ Deep(c) \in BOOLEAN /\ ctx \in Contexts
  <2>1. req[c].deep \in BOOLEAN
    BY RequestsAssumption DEF TypeOK
  <2> QED BY <2>1, <1>1, AnswerTypes DEF TypeOK, Deep
<1>3. /\ loaded' \in LoadedFiles /\ loaded' # None
      /\ loaded'.file = loaded.file /\ loaded'.ctx = ctx /\ loaded'.deep = Deep(c)
  <2>1. CASE loaded.ctx = None \/ loaded.deep # Deep(c)
    <3>1. /\ fresh \in LoadedFiles
          /\ fresh.file = loaded.file /\ fresh.ctx = ctx /\ fresh.deep = Deep(c)
      BY <1>2 DEF LoadedFiles
    <3> QED BY <2>1, <3>1, <1>1, NoneAssumption
  <2>2. CASE ~(loaded.ctx = None \/ loaded.deep # Deep(c))
    BY <2>2, <1>1, <1>2 DEF PipelineIsOfTheFile
  <2> QED BY <2>1, <2>2
<1>4. TypeOK'
  <2>1. pc' \in [Calls -> Steps]
    BY <1>1 DEF TypeOK, Steps
  <2> QED BY <1>1, <1>3, <2>1 DEF TypeOK
<1>5. pc'[c] = "render" /\ Others(c)
  BY <1>1 DEF TypeOK, Others
<1>6. Deep(c)' = Deep(c)
  BY <1>1 DEF Deep
<1> HIDE DEF ctx, fresh
<1>7. Exclusive' /\ OnItsWay'
  BY <1>1, <1>5 DEF Exclusive, Inside, OnItsWay, Others
<1>8. \A d \in Calls \ {c} : ~Inside(d)
  BY <1>1 DEF Exclusive, Inside
<1>9. Parses' /\ PipelineIsOfTheFile'
  BY <1>1, <1>3, <1>5 DEF Parses, PipelineIsOfTheFile, Others, ctx
<1>10. Rendering'
  BY <1>3, <1>5, <1>6, <1>8 DEF Rendering, Inside, Others, ctx
<1>11. Patching'
  BY <1>3, <1>5, <1>8 DEF Patching, Inside, Others
<1> QED BY <1>4, <1>7, <1>9, <1>10, <1>11

LEMMA KeepsTruncate ==
  ASSUME IInv, NEW c \in Calls, Truncate(c)
  PROVE  IInv'
<1> USE DEF IInv
<1> DEFINE clone == IF req[c].tool = "patch" THEN loaded.file ELSE None
<1>1. /\ pc' = [pc EXCEPT ![c] = "write"] /\ disk' = [disk EXCEPT ![req[c].path] = None]
      /\ parsed' = [parsed EXCEPT ![c] = clone]
      /\ UNCHANGED <<loaded, holder, poisoned, req, answer, asks, faults, edits>>
  BY DEF Truncate, Goto, counters, server
<1>2. \/ pc[c] = "truncate" /\ req[c].tool = "create" /\ ~Inside(c)
      \/ pc[c] = "body" /\ loaded # None /\ req[c].tool = "patch" /\ Inside(c)
  BY DEF Truncate, OnItsWay, Inside
<1>3. clone \in Contents \cup {None}
  BY <1>2 DEF TypeOK, LoadedFiles
<1> HIDE DEF clone
<1>4. TypeOK'
  <2>1. pc' \in [Calls -> Steps] /\ parsed' \in [Calls -> Contents \cup {None}]
    BY <1>1, <1>3 DEF TypeOK, Steps
  <2>2. disk' \in [Paths -> Contents \cup {None}]
    BY <1>1 DEF TypeOK
  <2> QED BY <1>1, <2>1, <2>2 DEF TypeOK
<1>5. pc'[c] = "write" /\ parsed'[c] = clone /\ Others(c)
  BY <1>1 DEF TypeOK, Others
<1>6. Exclusive' /\ OnItsWay'
  BY <1>1, <1>2, <1>5 DEF Exclusive, Inside, OnItsWay, Others, WriteTools
<1>7. Parses' /\ PipelineIsOfTheFile' /\ Rendering'
  BY <1>1, <1>5 DEF Parses, PipelineIsOfTheFile, Rendering, Deep, Others
<1>8. Patching'
  BY <1>1, <1>2, <1>5 DEF Patching, Others, clone
<1> QED BY <1>4, <1>6, <1>7, <1>8

LEMMA KeepsWrite ==
  ASSUME IInv, NEW c \in Calls, Write(c)
  PROVE  IInv'
<1>1. "written" \in Ends
  BY DEF Ends
<1>2. Output(c) \in Contents
  <2>1. CASE req[c].tool = "patch"
    <3>1. parsed[c] \in Whole
      BY <2>1 DEF Write, IInv, Patching, Parses
    <3>2. Patch(parsed[c]) \in Whole
      BY <3>1 DEF Whole, Patch
    <3> QED BY <2>1, <3>2 DEF Output, Contents
  <2>2. CASE req[c].tool # "patch"
    BY <2>2 DEF Output, Contents, Whole
  <2> QED BY <2>1, <2>2
<1>3. Broken \in Contents
  BY DEF Contents
<1>4. disk' \in [Paths -> Contents \cup {None}]
  <2>1. PICK out \in Contents : disk' = [disk EXCEPT ![req[c].path] = out]
    BY <1>2, <1>3 DEF Write
  <2> QED BY <2>1 DEF IInv, TypeOK
<1>5. Return(c, "written", None) /\ UNCHANGED <<loaded, poisoned, req, parsed, counters>>
  BY DEF Write
<1> QED BY <1>1, <1>4, <1>5, KeepsReturn DEF IInv, TypeOK, counters

LEMMA KeepsFails ==
  ASSUME IInv, NEW c \in Calls, Fails(c) \/ SpawnFails(c)
  PROVE  IInv'
<1>1. "failed" \in Ends /\ "unanswered" \in Ends
  BY DEF Ends
<1>2. faults' \in 0..MaxFaults
  BY BoundsAssumption DEF IInv, TypeOK, Fails, SpawnFails
<1>3. CASE Fails(c)
  BY <1>1, <1>2, <1>3, KeepsReturn DEF IInv, TypeOK, Fails
<1>4. CASE SpawnFails(c)
  BY <1>1, <1>2, <1>4, KeepsReturn DEF IInv, TypeOK, SpawnFails
<1> QED BY <1>3, <1>4

LEMMA KeepsEditFile ==
  ASSUME IInv, NEW p \in Paths, EditFile(p)
  PROVE  IInv'
<1> USE DEF IInv
<1>1. disk' \in [Paths -> Contents \cup {None}]
  BY DEF TypeOK, EditFile, Found, Contents, Whole
<1>2. edits' \in 0..MaxEdits
  BY BoundsAssumption DEF TypeOK, EditFile
<1>3. UNCHANGED <<loaded, holder, poisoned, pc, req, parsed, answer, asks, faults>>
  BY DEF EditFile, server, calls
<1>4. TypeOK'
  BY <1>1, <1>2, <1>3 DEF TypeOK
<1> QED BY <1>3, <1>4 DEF Exclusive, Inside, OnItsWay, Parses, PipelineIsOfTheFile,
      Rendering, Patching, Deep

LEMMA NextKeepsInvariant == IInv /\ [Next]_vars => IInv'
<1> SUFFICES ASSUME IInv, [Next]_vars PROVE IInv'
  OBVIOUS
<1>1. ASSUME NEW c \in Calls, Proceed(c) PROVE IInv'
  BY <1>1, KeepsLoadParse, KeepsPublish, KeepsLock, KeepsRefuse, KeepsLight,
     KeepsEnsurePipeline, KeepsRender, KeepsTruncate, KeepsWrite DEF Proceed
<1>2. CASE UNCHANGED vars
  BY <1>2 DEF vars, IInv, TypeOK, Exclusive, Inside, OnItsWay, Parses, PipelineIsOfTheFile,
     Rendering, Patching, Deep
<1> QED BY <1>1, <1>2, KeepsAsk, KeepsFails, KeepsEditFile DEF Next

(***************************************************************************)
(* The inductive invariant: the mutex, and what each step may rely on.       *)
(***************************************************************************)
THEOREM SessionStaysGood == Spec => []IInv
<1> QED BY InitInv, NextKeepsInvariant, PTL DEF Spec

(***************************************************************************)
(* The variables have their types.                                          *)
(***************************************************************************)
THEOREM TypesHold == Spec => []TypeOK
<1>1. IInv => TypeOK
  BY DEF IInv
<1> QED BY <1>1, SessionStaysGood, PTL

(***************************************************************************)
(* The analysis a session keeps is that of the file it has loaded, in the   *)
(* mode it says, however many loads, tools and panics overlap.              *)
(***************************************************************************)
THEOREM PipelineStaysRight == Spec => []PipelineIsOfTheFile
<1>1. IInv => PipelineIsOfTheFile
  BY DEF IInv
<1> QED BY <1>1, SessionStaysGood, PTL

----------------------------------------------------------------------------
(* Which step answers. *)
Ending(c) ==
  \/ LoadParse(c) \/ Publish(c) \/ Refuse(c) \/ Light(c) \/ Render(c) \/ Write(c)
  \/ Fails(c) \/ SpawnFails(c)

LEMMA OnlyTheCallAnswers ==
  ASSUME IInv, [Next]_vars, NEW c \in Calls, Answers(c)
  PROVE  Ending(c)
<1>1. pc \in [Calls -> Steps]
  BY DEF IInv, TypeOK
<1>2. CASE UNCHANGED vars
  BY <1>2 DEF vars, Answers
<1>3. ASSUME NEW p \in Paths, EditFile(p) PROVE FALSE
  BY <1>3 DEF EditFile, calls, Answers
<1>4. ASSUME NEW d \in Calls, Ask(d) \/ Proceed(d) \/ Fails(d) \/ SpawnFails(d)
      PROVE  d = c
  <2> SUFFICES ASSUME d # c PROVE FALSE
    OBVIOUS
  <2> QED BY <1>1, <1>4 DEF Answers, Ask, Proceed, LoadParse, Publish, Lock, Refuse, Light,
        EnsurePipeline, Render, Truncate, Write, Fails, SpawnFails, Return, Goto
<1>5. ~Ask(c) /\ ~Lock(c) /\ ~EnsurePipeline(c) /\ ~Truncate(c)
  BY <1>1 DEF Answers, Ask, Lock, EnsurePipeline, Truncate, Goto
<1> QED BY <1>2, <1>3, <1>4, <1>5 DEF Next, Proceed, Ending

\* How each of them answers.
LEMMA HowItEnds ==
  ASSUME IInv, NEW c \in Calls
  PROVE  /\ LoadParse(c) /\ Answers(c) => answer'[c].end = "failed"
         /\ Publish(c) => answer'[c].end = "loaded" /\ answer'[c].of = parsed[c]
         /\ Refuse(c) => answer'[c].end = "refused"
         /\ Light(c) => answer'[c].end = "text" /\ req[c].tool = "light"
         /\ Render(c) => answer'[c].end = "text"
         /\ Write(c) => answer'[c].end = "written"
         /\ Fails(c) => answer'[c].end = "failed"
         /\ SpawnFails(c) => answer'[c].end = "unanswered"
<1>1. pc \in [Calls -> Steps] /\ answer \in [Calls -> Answered]
  BY DEF IInv, TypeOK
<1>2. ASSUME NEW end, NEW of, Return(c, end, of)
      PROVE  answer'[c].end = end /\ answer'[c].of = of
  BY <1>1, <1>2 DEF Return
<1>3. LoadParse(c) /\ Answers(c) => answer'[c].end = "failed"
  <2> SUFFICES ASSUME LoadParse(c), Answers(c) PROVE answer'[c].end = "failed"
    OBVIOUS
  <2>1. Return(c, "failed", None)
    BY <1>1 DEF LoadParse, Answers, Goto
  <2> QED BY <2>1, <1>2
<1>4. /\ Publish(c) => answer'[c].end = "loaded" /\ answer'[c].of = parsed[c]
      /\ Refuse(c) => answer'[c].end = "refused"
  BY <1>2 DEF Publish, Refuse
<1>5. Light(c) => answer'[c].end = "text" /\ req[c].tool = "light"
  <2> SUFFICES ASSUME Light(c) PROVE answer'[c].end = "text" /\ req[c].tool = "light"
    OBVIOUS
  <2>1. PICK of : Return(c, "text", of)
    BY DEF Light
  <2> QED BY <2>1, <1>2 DEF Light
<1>6. Render(c) => answer'[c].end = "text"
  <2> SUFFICES ASSUME Render(c) PROVE answer'[c].end = "text"
    OBVIOUS
  <2>1. PICK of : Return(c, "text", of)
    BY DEF Render
  <2> QED BY <2>1, <1>2
<1>7. /\ Write(c) => answer'[c].end = "written"
      /\ Fails(c) => answer'[c].end = "failed"
      /\ SpawnFails(c) => answer'[c].end = "unanswered"
  BY <1>2 DEF Write, Fails, SpawnFails
<1> QED BY <1>3, <1>4, <1>5, <1>6, <1>7

(***************************************************************************)
(* No tool gets the text of another file, or of the other mode.             *)
(***************************************************************************)
THEOREM TextsAreAsAsked == Spec => ModeAsAsked
<1> DEFINE Right ==
      \A c \in Calls :
        (Answers(c) /\ answer'[c].end = "text" /\ req[c].tool # "light")
        => answer'[c].of = [file |-> loaded.file, deep |-> Deep(c)]
<1>1. IInv /\ [Next]_vars => [Right]_vars
  <2> SUFFICES ASSUME IInv, [Next]_vars, NEW c \in Calls, Answers(c),
                      answer'[c].end = "text", req[c].tool # "light"
               PROVE  answer'[c].of = [file |-> loaded.file, deep |-> Deep(c)]
    OBVIOUS
  <2>1. Render(c)
    BY OnlyTheCallAnswers, HowItEnds DEF Ending
  <2> DEFINE of == IF req[c].tool = "all" THEN [file |-> loaded.file, deep |-> Deep(c)]
                   ELSE loaded.ctx
  <2>2. Return(c, "text", of)
    BY <2>1 DEF Render
  <2>3. of = [file |-> loaded.file, deep |-> Deep(c)]
    BY <2>1 DEF Render, IInv, Rendering
  <2> HIDE DEF of
  <2>4. answer'[c].of = of
    BY <2>2 DEF Return, IInv, TypeOK
  <2> QED BY <2>3, <2>4
<1> QED BY <1>1, SessionStaysGood, PTL DEF Spec, ModeAsAsked

(***************************************************************************)
(* Only the step that answers a load changes the file, and to what the load *)
(* found: a load that fails, in any way, leaves the session as it was.       *)
(***************************************************************************)
THEOREM FailedLoadsAreHarmless == Spec => ReplacedOnlyOnSuccess
<1> DEFINE Kept == /\ loaded # None /\ loaded' # None
                   /\ loaded'.file = loaded.file /\ loaded'.path = loaded.path
           Replaced == \E c \in Calls :
                         /\ Answers(c) /\ req[c].tool = "load"
                         /\ loaded' # None /\ loaded'.file = answer'[c].of /\ loaded'.path = req[c].path
           Right == loaded' # loaded =>
                      \/ Kept
                      \/ Replaced
<1>1. IInv /\ [Next]_vars => [Right]_vars
  <2> SUFFICES ASSUME IInv, [Next]_vars, loaded' # loaded PROVE Kept \/ Replaced
    OBVIOUS
  <2>1. \E c \in Calls : Publish(c) \/ EnsurePipeline(c)
    BY DEF Next, vars, Ask, Proceed, LoadParse, Lock, Refuse, Light, Render, Truncate, Write,
       Fails, SpawnFails, EditFile, server
  <2>2. ASSUME NEW c \in Calls, Publish(c) PROVE Replaced
    <3> DEFINE new == [file |-> parsed[c], path |-> req[c].path, ctx |-> None, deep |-> FALSE]
    <3>1. loaded' = new /\ pc[c] = "publish" /\ pc'[c] = "idle"
      BY <2>2 DEF Publish, Return, Goto, IInv, TypeOK
    <3>2. new \in LoadedFiles
      BY <3>1, RequestsAssumption DEF LoadedFiles, Contents, IInv, Parses, TypeOK
    <3>3. loaded' # None
      BY <3>1, <3>2, NoneAssumption
    <3>4. loaded'.file = parsed[c] /\ loaded'.path = req[c].path
      BY <3>1
    <3>5. answer'[c].of = parsed[c]
      BY <2>2, HowItEnds
    <3> QED BY <3>1, <3>3, <3>4, <3>5 DEF Answers, IInv, OnItsWay
  <2>3. ASSUME NEW c \in Calls, EnsurePipeline(c) PROVE Kept
    <3> DEFINE ctx == [file |-> loaded.file, deep |-> Deep(c)]
               fresh == [loaded EXCEPT !.ctx = ctx, !.deep = Deep(c)]
    <3>1. loaded # None /\ loaded' = fresh /\ loaded \in LoadedFiles
      BY <2>3 DEF EnsurePipeline, IInv, TypeOK
    <3>2. Deep(c) \in BOOLEAN
      BY RequestsAssumption DEF IInv, TypeOK, Deep
    <3>3. ctx \in Contexts
      BY <3>1, AnswerTypes
    <3>4. fresh \in LoadedFiles /\ fresh.file = loaded.file /\ fresh.path = loaded.path
      BY <3>1, <3>2, <3>3 DEF LoadedFiles
    <3> QED BY <3>1, <3>4, NoneAssumption
  <2> QED BY <2>1, <2>2, <2>3
<1> QED BY <1>1, SessionStaysGood, PTL DEF Spec, ReplacedOnlyOnSuccess

(***************************************************************************)
(* No panic, poisoned mutex or failed call makes the server refuse a file it *)
(* has.                                                                      *)
(***************************************************************************)
THEOREM NeverBricked == Spec => StaysUsable
<1> DEFINE Right == \A c \in Calls : (Answers(c) /\ answer'[c].end = "refused") => loaded = None
<1>1. IInv /\ [Next]_vars => [Right]_vars
  <2> SUFFICES ASSUME IInv, [Next]_vars, NEW c \in Calls, Answers(c),
                      answer'[c].end = "refused"
               PROVE  loaded = None
    OBVIOUS
  <2>1. Refuse(c)
    BY OnlyTheCallAnswers, HowItEnds DEF Ending
  <2> QED BY <2>1 DEF Refuse
<1> QED BY <1>1, SessionStaysGood, PTL DEF Spec, StaysUsable

----------------------------------------------------------------------------
(* The bytes of a patch, which the mutex keeps from other patches.          *)
LEMMA KeepsOutputEmpty ==
  ASSUME CreatesApart, IInv, OutputEmpty, [Next]_vars
  PROVE  OutputEmpty'
<1> SUFFICES ASSUME NEW c \in Calls, pc'[c] = "write", req'[c].tool = "patch"
             PROVE  disk'[req'[c].path] = None
  BY DEF OutputEmpty
<1>s. /\ pc \in [Calls -> Steps] /\ req \in [Calls -> Requests]
      /\ disk \in [Paths -> Contents \cup {None}] /\ req[c].path \in Paths
  BY RequestsAssumption DEF IInv, TypeOK
<1>1. ASSUME pc[c] = "write", req[c].tool = "patch", UNCHANGED disk, req'[c] = req[c]
      PROVE  disk'[req'[c].path] = None
  BY <1>1 DEF OutputEmpty
<1>2. CASE UNCHANGED vars
  BY <1>1, <1>2 DEF vars
<1>3. ASSUME NEW p \in Paths, EditFile(p) PROVE disk'[req'[c].path] = None
  <2>1. pc[c] = "write" /\ req'[c] = req[c] /\ p # req[c].path
    BY <1>3 DEF EditFile, calls
  <2>2. disk'[req[c].path] = disk[req[c].path]
    BY <1>3, <1>s, <2>1 DEF EditFile
  <2> QED BY <2>1, <2>2 DEF OutputEmpty
<1>4. ASSUME NEW d \in Calls,
             Ask(d) \/ LoadParse(d) \/ Publish(d) \/ Lock(d) \/ Refuse(d) \/ Light(d)
             \/ EnsurePipeline(d) \/ Render(d) \/ Fails(d) \/ SpawnFails(d)
      PROVE  disk'[req'[c].path] = None
  <2>1. UNCHANGED disk
    BY <1>4 DEF Ask, LoadParse, Publish, Lock, Refuse, Light, EnsurePipeline, Render, Fails, SpawnFails
  <2>2. pc[c] = "write" /\ req'[c] = req[c]
    BY <1>4, <1>s DEF Ask, LoadParse, Publish, Lock, Refuse, Light, EnsurePipeline, Render,
       Fails, SpawnFails, Return, Goto
  <2> QED BY <1>1, <2>1, <2>2
<1>5. ASSUME NEW d \in Calls, Truncate(d) PROVE disk'[req'[c].path] = None
  <2>1. req' = req /\ disk' = [disk EXCEPT ![req[d].path] = None]
    BY <1>5 DEF Truncate
  <2>2. d = c \/ pc[c] = "write"
    BY <1>5, <1>s DEF Truncate, Goto
  <2> QED BY <1>s, <2>1, <2>2 DEF OutputEmpty
<1>6. ASSUME NEW d \in Calls, Write(d) PROVE disk'[req'[c].path] = None
  <2>1. req' = req /\ d # c /\ pc[c] = "write" /\ pc[d] = "write"
    BY <1>6, <1>s DEF Write, Return, Goto
  <2>2. holder = c
    BY <2>1 DEF IInv, Exclusive, Inside
  <2>3. req[d].tool = "create"
    BY <2>1, <2>2 DEF IInv, Exclusive, Inside, OnItsWay, WriteTools
  <2>4. req[d].path # req[c].path
    BY <2>1, <2>3, <1>s DEF CreatesApart
  <2>5. disk'[req[c].path] = disk[req[c].path]
    BY <1>6, <1>s, <2>4 DEF Write
  <2> QED BY <2>1, <2>5 DEF OutputEmpty
<1> QED BY <1>2, <1>3, <1>4, <1>5, <1>6 DEF Next, Proceed

(***************************************************************************)
(* A patch that reports its output has left it whole, whatever other patches *)
(* the client sends to the same path, as long as create_hbc, which takes no   *)
(* mutex, is given other paths.                                              *)
(***************************************************************************)
THEOREM PatchesStayWhole ==
  ASSUME CreatesApart
  PROVE  Spec => OutputIsTheEdit
<1> DEFINE Right ==
      \A c \in Calls :
        (Answers(c) /\ req[c].tool = "patch" /\ answer'[c].end = "written")
        => disk'[req[c].path] = Patch(loaded.file)
<1>1. IInv /\ OutputEmpty /\ [Next]_vars => (IInv /\ OutputEmpty)'
  BY NextKeepsInvariant, KeepsOutputEmpty
<1>2. IInv /\ OutputEmpty /\ [Next]_vars => [Right]_vars
  <2> SUFFICES ASSUME IInv, OutputEmpty, [Next]_vars, NEW c \in Calls, Answers(c),
                      req[c].tool = "patch", answer'[c].end = "written"
               PROVE  disk'[req[c].path] = Patch(loaded.file)
    OBVIOUS
  <2>1. Write(c)
    BY OnlyTheCallAnswers, HowItEnds DEF Ending
  <2>2. pc[c] = "write" /\ disk[req[c].path] = None /\ parsed[c] = loaded.file
    BY <2>1 DEF Write, OutputEmpty, IInv, Patching
  <2>3. disk' = [disk EXCEPT ![req[c].path] = Patch(loaded.file)]
    BY <2>1, <2>2 DEF Write, Output
  <2>4. req[c].path \in Paths /\ disk \in [Paths -> Contents \cup {None}]
    BY RequestsAssumption DEF IInv, TypeOK
  <2> QED BY <2>3, <2>4
<1> QED BY <1>1, <1>2, InitInv, PTL DEF Spec, OutputIsTheEdit
=============================================================================
