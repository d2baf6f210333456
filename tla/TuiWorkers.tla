----------------------------- MODULE TuiWorkers -----------------------------
(***************************************************************************)
(* The terminal UI with two files (hbc-decomp-cli/src/tui): one thread that *)
(* draws, handles keys and polls, and the background workers whose channels *)
(* it polls: the comparison of all functions, one analysis pipeline per     *)
(* file, and the full-program ("git") diff.                                 *)
(*                                                                          *)
(* A function name is a number, in the order of the sorted list; its code   *)
(* is what the comparison tells apart. Drawing and scrolling are left out.  *)
(***************************************************************************)
EXTENDS SortedSets, SequencesExt, FiniteSetsExt

CONSTANTS
  Code,         \* file -> name -> code, for the names of its function map
  Filters,      \* the sets of names a search query can select
  Cores,        \* threads of the comparison
  ChunkLen,     \* functions per message of the git worker (128)
  MaxPerTick,   \* messages read per poll (128)
  CanFail,      \* files whose analysis may fail
  MaxPanics, MaxKeys

Files == {1, 2}
NamesOf(s) == DOMAIN Code[s]
Names == NamesOf(1) \cup NamesOf(2)
None == 0

ASSUME CodeAssumption ==
  /\ DOMAIN Code = Files
  /\ Names \subseteq Nat \ {None} /\ IsFiniteSet(Names)
  /\ Cores \in Nat \ {0} /\ ChunkLen \in Nat \ {0} /\ MaxPerTick \in Nat \ {0}
  /\ Filters \subseteq SUBSET Names

\* The order of the git diff: the names of file 1, then those only in file 2.
GitNames == Sorted(NamesOf(1)) \o Sorted(NamesOf(2) \ NamesOf(1))

Statuses == [is : {"identical", "modified", "removed", "added"}, to : {None}]
            \cup [is : {"renamed"}, to : Names]

Kinds == {"disasm", "decompile"}
Jobs == [kind : Kinds, normalize : BOOLEAN]
Rows == [fn : Names, head : BOOLEAN, job : Jobs]
Views == {"text", "decompile", "diff"}

VARIABLES
  pc,     \* where the loop is: "draw", "keys" or "quit"
  view,   \* what is drawn: "text" stands for the views without decompiled code
  list,   \* the function list: names, status, query, shown, selected, and the
          \* state of the comparison as the UI has it (analyzing, rx)
  cmp,    \* the comparison worker: names still to do, results, its messages
  lost,   \* the names a comparison thread died on
  pipe,   \* file -> pipeline: ctx, building, what its channel holds, threads
  text,   \* file -> name -> decompiled text kept: "none", "fast" or "full"
  git,    \* the git diff as the UI has it
  keys, panics

vars == <<pc, view, list, cmp, lost, pipe, text, git, keys, panics>>

TypeOK ==
  /\ pc \in {"draw", "keys", "quit"}
  /\ view \in Views
  /\ list.names \subseteq Names /\ list.shown \subseteq Names
  /\ DOMAIN list.status \subseteq Names
  /\ \A n \in DOMAIN list.status : list.status[n] \in Statuses
  /\ list.selected \in Nat
  /\ cmp.todo \subseteq Names
  /\ \A s \in Files :
       /\ pipe[s].holds \in {"nothing", "pending", "context", "hung up"}
       /\ pipe[s].building \in BOOLEAN /\ pipe[s].ctx \in BOOLEAN
       /\ pipe[s].threads \in Nat
       /\ text[s] \in [NamesOf(s) -> {"none", "fast", "full"}]
  /\ Range(git.rows) \subseteq Rows
  /\ git.folded \subseteq DOMAIN git.rows /\ Range(git.visible) \subseteq DOMAIN git.rows
  /\ git.built \in Kinds \cup {"nothing"}

\* No channel to a git worker.
NoGitRx == [open |-> FALSE, next |-> 1, sent |-> <<>>, phase |-> "gone",
            job |-> [kind |-> "disasm", normalize |-> FALSE]]
NoText == [s \in Files |-> [n \in NamesOf(s) |-> "none"]]

\* App::new with a diff target: the list is empty and fills as names arrive.
Init ==
  /\ pc = "draw" /\ view = "text"
  /\ list = [names |-> {}, status |-> <<>>, query |-> Names, shown |-> {},
             selected |-> 0, analyzing |-> TRUE, rx |-> TRUE]
  /\ cmp = [todo |-> Names, results |-> <<>>, sent |-> <<>>, gone |-> FALSE]
  /\ lost = {}
  /\ pipe = [s \in Files |-> [ctx |-> FALSE, building |-> FALSE, holds |-> "nothing",
                              threads |-> 0]]
  /\ text = NoText
  /\ git = [on |-> FALSE, job |-> [kind |-> "decompile", normalize |-> TRUE],
            rows |-> <<>>, visible |-> <<>>, folded |-> {}, computing |-> FALSE,
            built |-> "nothing", rx |-> NoGitRx]
  /\ keys = 0 /\ panics = 0

----------------------------------------------------------------------------
\* The function list. Mutant: the selection is left where it was.
UpdateSearchKeepsSelected(l) == [l EXCEPT !.shown = l.names \cap l.query]

\* update_search: the names the query selects, and the selection within them.
UpdateSearch(l) ==
  LET shown == l.names \cap l.query IN
  [l EXCEPT !.shown = shown,
            !.selected = IF l.selected >= Cardinality(shown) THEN 0 ELSE l.selected]

\* The name under the selection, or None.
Selected ==
  IF list.selected < Cardinality(list.shown) THEN Sorted(list.shown)[list.selected + 1]
  ELSE None

\* The file-2 name of a function, through a rename the comparison has found.
Name2(n) ==
  IF n \in NamesOf(2) THEN n
  ELSE IF n \in DOMAIN list.status /\ list.status[n].is = "renamed" THEN list.status[n].to
  ELSE None

\* A map with v for n.
Put(map, n, v) == [k \in DOMAIN map \cup {n} |-> IF k = n THEN v ELSE map[k]]

\* One message of the comparison worker.
Received(l, m) ==
  IF m.done
  THEN UpdateSearch([l EXCEPT !.status = m.status, !.names = DOMAIN m.status,
                              !.analyzing = FALSE, !.rx = FALSE])
  ELSE LET n == m.fn
           l1 == [l EXCEPT !.status = Put(@, n, m.status[n])] IN
       IF n \in l.names THEN l1 ELSE UpdateSearch([l1 EXCEPT !.names = @ \cup {n}])

\* Mutant: a worker that is gone is noticed before its last messages are read.
PollDiffHangsUp(l) ==
  LET read == SubSeq(cmp.sent, 1, Min({MaxPerTick, Len(cmp.sent)}))
      l1 == FoldLeft(Received, l, read) IN
  IF cmp.gone THEN [l1 EXCEPT !.analyzing = FALSE, !.rx = FALSE] ELSE l1

\* Mutant: only the last message ends the analysis.
PollDiffAwaitsFinish(l) ==
  FoldLeft(Received, l, SubSeq(cmp.sent, 1, Min({MaxPerTick, Len(cmp.sent)})))

\* poll_background_tasks, the comparison: at most MaxPerTick messages, applied in
\* order; a worker that is gone shows once its channel is empty.
PollDiff(l) ==
  LET read == SubSeq(cmp.sent, 1, Min({MaxPerTick, Len(cmp.sent)}))
      l1 == FoldLeft(Received, l, read) IN
  IF Len(read) < MaxPerTick /\ cmp.gone
  THEN [l1 EXCEPT !.analyzing = FALSE, !.rx = FALSE]
  ELSE l1

----------------------------------------------------------------------------
\* The pipelines. Mutant: a build in progress does not stop the next one.
EnsureAlways(p) ==
  [s \in Files |-> IF p[s].ctx THEN p[s]
                   ELSE [p[s] EXCEPT !.building = TRUE, !.holds = "pending",
                                     !.threads = @ + 1]]

\* ensure_pipeline_building: one builder per file that has no context yet.
Ensure(p) ==
  [s \in Files |-> IF p[s].ctx \/ p[s].building THEN p[s]
                   ELSE [p[s] EXCEPT !.building = TRUE, !.holds = "pending",
                                     !.threads = @ + 1]]

\* Poll the channel of file s: a context, or a builder that hung up.
PollPipe(p, s) ==
  CASE p[s].holds = "context" -> [p[s] EXCEPT !.ctx = TRUE, !.building = FALSE,
                                              !.holds = "nothing"]
    [] p[s].holds = "hung up" -> [p[s] EXCEPT !.building = FALSE, !.holds = "nothing"]
    [] OTHER -> p[s]

\* Mutant: what was decompiled without the context is kept.
PollTextKeeps(p, s) == text[s]

\* The texts kept for file s are dropped when its context arrives.
PollText(p, s) ==
  IF p[s].holds = "context" THEN NoText[s] ELSE text[s]

----------------------------------------------------------------------------
\* The git diff: every function is a header and, for its lines, one row.
RowsFor(names, job) ==
  [i \in 1..2 * Len(names) |->
     [fn |-> names[(i + 1) \div 2], head |-> i % 2 = 1, job |-> job]]

\* rebuild_git_visible: the rows that are not under a folded header.
VisibleRows(rows, folded) ==
  Sorted({i \in DOMAIN rows : \/ rows[i].head
                              \/ Max({j \in 1..i : rows[j].head}) \notin folded})

\* Mutant: the worker of the old job stays connected.
InvalidateGitKeepsWorker(g) ==
  [g EXCEPT !.rows = <<>>, !.visible = <<>>, !.folded = {}, !.built = "nothing"]

\* invalidate_git_diff: rows, folds and the channel of the running worker go.
InvalidateGit(g) ==
  [g EXCEPT !.rows = <<>>, !.visible = <<>>, !.folded = {}, !.built = "nothing",
            !.rx = NoGitRx, !.computing = FALSE]

\* request_git_diff: start a worker, unless there is nothing to build. (The job also
\* takes a copy of diff_status, by which the worker finds a renamed function in the
\* second file: that decides what a row says, and here a row is only of its kind.)
RequestGit(g) ==
  IF ~g.on \/ g.computing \/ g.built = g.job.kind THEN g
  ELSE [g EXCEPT !.rows = <<>>, !.visible = <<>>, !.folded = {}, !.computing = TRUE,
                 !.rx = [open |-> TRUE, job |-> g.job, next |-> 1, sent |-> <<>>,
                         phase |-> "rows"]]

\* One message of the git worker: rows to append, all of them visible, or the end.
GotRows(g, m) ==
  IF m.done THEN [g EXCEPT !.built = g.job.kind, !.computing = FALSE, !.rx = NoGitRx]
  ELSE [g EXCEPT !.rows = @ \o m.rows,
                 !.visible = @ \o [i \in DOMAIN m.rows |-> Len(g.rows) + i]]

\* poll_background_tasks, the git diff, and the request that ends every poll.
PollGit(g) ==
  LET n == Min({MaxPerTick, Len(g.rx.sent)})
      read == SubSeq(g.rx.sent, 1, n)
      g1 == FoldLeft(GotRows, [g EXCEPT !.rx.sent = SubSeq(@, n + 1, Len(@))], read) IN
  RequestGit(IF g1.rx.open /\ n < MaxPerTick /\ g1.rx.phase = "gone"
             THEN [g1 EXCEPT !.computing = FALSE, !.rx = NoGitRx]
             ELSE g1)

----------------------------------------------------------------------------
\* The loop. Drawing a view with decompiled code makes, and keeps, its text.
Keep(t, s, n) ==
  IF t[s][n] # "none" THEN t
  ELSE [t EXCEPT ![s][n] = IF pipe[s].ctx THEN "full" ELSE "fast"]

Draw ==
  /\ pc = "draw"
  /\ pc' = "keys"
  /\ LET n == Selected
         left == /\ ~git.on /\ view \in {"decompile", "diff"} /\ n \in NamesOf(1)
         right == /\ ~git.on /\ n # None /\ Name2(n) # None
                  /\ view = "diff" \/ (view = "decompile" /\ n \notin NamesOf(1)) IN
     /\ pipe' = IF left /\ text[1][n] = "none" /\ ~pipe[1].ctx THEN Ensure(pipe) ELSE pipe
     /\ text' = LET t == IF left THEN Keep(text, 1, n) ELSE text IN
                IF right THEN Keep(t, 2, Name2(n)) ELSE t
  /\ UNCHANGED <<view, list, cmp, lost, git, keys, panics>>

Key == /\ pc = "keys"
       /\ keys < MaxKeys
       /\ keys' = keys + 1
       /\ UNCHANGED <<cmp, lost, panics>>

SetView(v) ==
  /\ Key /\ ~git.on
  /\ view' = v
  /\ UNCHANGED <<pc, list, pipe, text, git>>

\* The module browser and the cross references ask for the pipeline.
AskForPipeline ==
  /\ Key /\ ~git.on
  /\ pipe' = IF pipe[1].ctx THEN pipe ELSE Ensure(pipe)
  /\ UNCHANGED <<pc, view, list, text, git>>

\* The module browser asks for both, with the first there or not.
OpenModules ==
  /\ Key /\ ~git.on
  /\ pipe' = Ensure(pipe)
  /\ view' = "text"
  /\ UNCHANGED <<pc, list, text, git>>

ToggleColors ==
  /\ Key /\ ~git.on
  /\ text' = NoText
  /\ UNCHANGED <<pc, view, list, pipe, git>>

Select(i) ==
  /\ Key /\ ~git.on
  /\ i < Cardinality(list.shown)
  /\ list' = [list EXCEPT !.selected = i]
  /\ UNCHANGED <<pc, view, pipe, text, git>>

Search(query) ==
  /\ Key /\ ~git.on
  /\ list' = UpdateSearch([list EXCEPT !.query = query])
  /\ UNCHANGED <<pc, view, pipe, text, git>>

\* deep_search: known functions of file 1 whose code mentions the query are added
\* to what is shown.
DeepSearch(found) ==
  /\ Key /\ ~git.on
  /\ list.query # Names
  /\ LET shown == list.shown \cup (found \cap list.names) IN
     list' = [list EXCEPT !.shown = shown,
                          !.selected = IF @ >= Cardinality(shown) THEN 0 ELSE @]
  /\ UNCHANGED <<pc, view, pipe, text, git>>

EnterGit ==
  /\ Key /\ ~git.on
  /\ git' = RequestGit([git EXCEPT !.on = TRUE])
  /\ UNCHANGED <<pc, view, list, pipe, text>>

LeaveGit ==
  /\ Key /\ git.on
  /\ git' = [git EXCEPT !.on = FALSE]
  /\ UNCHANGED <<pc, view, list, pipe, text>>

\* The other kind of code, or module ids compared the other way: a new diff.
ChangeGit(job) ==
  /\ Key /\ git.on
  /\ (job.kind = git.job.kind) # (job.normalize = git.job.normalize)
  /\ git' = RequestGit(InvalidateGit([git EXCEPT !.job = job]))
  /\ UNCHANGED <<pc, view, list, pipe, text>>

\* A click on the header in row i folds its function or unfolds it.
ToggleFold(i) ==
  /\ Key /\ git.on
  /\ i \in Range(git.visible) /\ git.rows[i].head
  /\ LET folded == IF i \in git.folded THEN git.folded \ {i} ELSE git.folded \cup {i} IN
     git' = [git EXCEPT !.folded = folded, !.visible = VisibleRows(git.rows, folded)]
  /\ UNCHANGED <<pc, view, list, pipe, text>>

Quit ==
  /\ Key
  /\ pc' = "quit"
  /\ UNCHANGED <<view, list, pipe, text, git>>

Poll ==
  /\ pc = "keys"
  /\ pc' = "draw"
  /\ list' = IF list.rx THEN PollDiff(list) ELSE list
  /\ cmp' = IF list.rx
            THEN [cmp EXCEPT !.sent = SubSeq(@, MaxPerTick + 1, Len(@))] ELSE cmp
  /\ text' = [s \in Files |-> PollText(pipe, s)]
  /\ pipe' = [s \in Files |-> PollPipe(pipe, s)]
  /\ git' = PollGit(git)
  /\ UNCHANGED <<view, lost, keys, panics>>

----------------------------------------------------------------------------
\* The comparison worker splits the sorted names among its threads.
ThreadNames(n) ==
  LET all == Sorted(Names)
      size == (Len(all) + Cores - 1) \div Cores
      chunk == CHOOSE i \in DOMAIN all : all[i] = n IN
  {all[i] : i \in {k \in DOMAIN all : (k - 1) \div size = (chunk - 1) \div size}}

\* Each thread goes through its names in order.
IsNext(n) == n \in cmp.todo /\ \A k \in cmp.todo \cap ThreadNames(n) : n <= k

Compared(n) ==
  [is |-> IF n \in NamesOf(1) \cap NamesOf(2)
          THEN IF Code[1][n] = Code[2][n] THEN "identical" ELSE "modified"
          ELSE IF n \in NamesOf(1) THEN "removed" ELSE "added",
   to |-> None]

Compare(n) ==
  /\ IsNext(n)
  /\ cmp' = [cmp EXCEPT !.todo = @ \ {n},
                        !.results = Put(@, n, Compared(n)),
                        !.sent = Append(@, [done |-> FALSE, fn |-> n,
                                            status |-> [k \in {n} |-> Compared(k)]])]
  /\ UNCHANGED <<pc, view, list, lost, pipe, text, git, keys, panics>>

\* A panic on a name takes its thread, with the names the thread still had.
ComparePanics(n) ==
  /\ panics < MaxPanics
  /\ IsNext(n)
  /\ cmp' = [cmp EXCEPT !.todo = @ \ ThreadNames(n)]
  /\ lost' = lost \cup (cmp.todo \cap ThreadNames(n))
  /\ panics' = panics + 1
  /\ UNCHANGED <<pc, view, list, pipe, text, git, keys>>

NamesWith(status, is) == {n \in DOMAIN status : status[n].is = is}

\* apply_rename_detection: by maps the code of added functions to one name each; a
\* removed function with that code was renamed, and the new name leaves the list.
Renamed(status, by) ==
  LET moved == {n \in NamesWith(status, "removed") : Code[1][n] \in DOMAIN by} IN
  [n \in DOMAIN status \ {by[Code[1][k]] : k \in moved} |->
     IF n \in moved THEN [is |-> "renamed", to |-> by[Code[1][n]]] ELSE status[n]]

\* The last message, once every thread has ended.
CompareFinish ==
  /\ cmp.todo = {} /\ ~cmp.gone
  /\ LET added == NamesWith(cmp.results, "added")
         codes == {Code[2][n] : n \in added} IN
     \E by \in [codes -> added] :
       /\ \A c \in codes : Code[2][by[c]] = c
       /\ cmp' = [cmp EXCEPT !.gone = TRUE,
                             !.sent = Append(@, [done |-> TRUE, fn |-> None,
                                                 status |-> Renamed(cmp.results, by)])]
  /\ UNCHANGED <<pc, view, list, lost, pipe, text, git, keys, panics>>

\* The worker dies in the rename detection: it is gone, and sends nothing.
CompareDies ==
  /\ cmp.todo = {} /\ ~cmp.gone
  /\ panics < MaxPanics
  /\ cmp' = [cmp EXCEPT !.gone = TRUE]
  /\ panics' = panics + 1
  /\ UNCHANGED <<pc, view, list, lost, pipe, text, git, keys>>

\* A pipeline builder sends its context, or hangs up.
Build(s) ==
  /\ pipe[s].threads > 0
  /\ \E got \in {"context"} \cup (IF s \in CanFail THEN {"hung up"} ELSE {}) :
       pipe' = [pipe EXCEPT ![s].threads = @ - 1,
                            ![s].holds = IF @ = "pending" THEN got ELSE @]
  /\ UNCHANGED <<pc, view, list, cmp, lost, text, git, keys, panics>>

\* Mutant: the worker ends without the message that says so.
GitWorkerSilent ==
  /\ git.rx.open /\ git.rx.phase # "gone"
  /\ LET full == Len(GitNames) \div ChunkLen
         from == (git.rx.next - 1) * ChunkLen + 1
         to == Min({from + ChunkLen - 1, Len(GitNames)})
         chunk == [done |-> FALSE, rows |-> RowsFor(SubSeq(GitNames, from, to), git.rx.job)] IN
     git' = IF git.rx.phase = "rows"
            THEN [git EXCEPT !.rx.sent = Append(@, chunk), !.rx.next = @ + 1,
                             !.rx.phase = IF git.rx.next > full THEN "done" ELSE @]
            ELSE [git EXCEPT !.rx.phase = "gone"]
  /\ UNCHANGED <<pc, view, list, cmp, lost, pipe, text, keys, panics>>

\* spawn, the git-diff worker: every full chunk, then the rest (maybe empty), then
\* the end. A worker whose channel was dropped stops at its next chunk.
GitWorker ==
  /\ git.rx.open /\ git.rx.phase # "gone"
  /\ LET full == Len(GitNames) \div ChunkLen
         from == (git.rx.next - 1) * ChunkLen + 1
         to == Min({from + ChunkLen - 1, Len(GitNames)})
         chunk == [done |-> FALSE, rows |-> RowsFor(SubSeq(GitNames, from, to), git.rx.job)] IN
     git' = IF git.rx.phase = "rows"
            THEN [git EXCEPT !.rx.sent = Append(@, chunk), !.rx.next = @ + 1,
                             !.rx.phase = IF git.rx.next > full THEN "done" ELSE @]
            ELSE [git EXCEPT !.rx.sent = Append(@, [done |-> TRUE, rows |-> <<>>]),
                             !.rx.phase = "gone"]
  /\ UNCHANGED <<pc, view, list, cmp, lost, pipe, text, keys, panics>>

Keys ==
  \/ \E v \in Views : SetView(v)
  \/ AskForPipeline \/ OpenModules \/ ToggleColors
  \/ \E i \in 0..Cardinality(Names) - 1 : Select(i)
  \/ \E query \in Filters : Search(query)
  \/ \E found \in SUBSET NamesOf(1) : DeepSearch(found)
  \/ EnterGit \/ LeaveGit
  \/ \E job \in Jobs : ChangeGit(job)
  \/ \E i \in 1..2 * Len(GitNames) : ToggleFold(i)
  \/ Quit

Comparison == (\E n \in Names : Compare(n)) \/ CompareFinish

Workers == Comparison \/ GitWorker \/ \E s \in Files : Build(s)

Next ==
  \/ Draw \/ Keys \/ Poll
  \/ Workers
  \/ CompareDies
  \/ \E n \in Names : ComparePanics(n)

Spec == Init /\ [][Next]_vars

\* The loop draws and polls until the user quits, whether or not a key comes, and
\* some thread with work to do gets to run: less than fairness to each of them, and
\* enough, since what each has to do is bounded.
FairSpec == Spec /\ WF_vars(Draw \/ Poll) /\ WF_vars(Workers)

----------------------------------------------------------------------------
NoneTwice ==
  ~list.analyzing =>
    \A k \in list.names \cap DOMAIN list.status :
      list.status[k].is = "renamed" => list.status[k].to \notin list.names

\* Once the comparison is over and no thread of it died, every function of both
\* files can be reached: it is in the list, or it is the new name of one that is,
\* with the same code. (diff.rs apply_rename_detection; background.rs poll: the
\* last message replaces list and statuses.) And no function is listed twice, as a
\* new name and on its own. (diff.rs:168, "doesn't show up twice")
EveryFunctionListed ==
  /\ NoneTwice
  /\ ~list.analyzing /\ lost = {} =>
    \A n \in Names :
      \/ n \in list.names
      \/ \E k \in list.names \cap DOMAIN list.status :
           /\ list.status[k] = [is |-> "renamed", to |-> n]
           /\ Code[1][k] = Code[2][n]

\* The selection names an entry of the list that is shown, or is reset to the
\* first, whatever arrives while the user searches. (app.rs update_search,
\* deep_search, add_discovered_name)
SelectionInRange ==
  list.selected = 0 \/ list.selected < Cardinality(list.shown)

\* The git diff never mixes rows of two jobs, and what it calls built is the whole
\* diff for the kind of code that is chosen. (app.rs invalidate_git_diff drops the
\* channel; background.rs:120 marks the kind chosen when the end arrives.) What is
\* visible are the rows outside folded functions, although rows are appended while
\* some are folded. (background.rs:104 appends without a rebuild.)
RowsAreOfTheChosenKind ==
  /\ git.visible = VisibleRows(git.rows, git.folded)
  /\ \A i \in DOMAIN git.rows : git.rows[i].job = git.job
  /\ git.built # "nothing" =>
       git.built = git.job.kind /\ git.rows = RowsFor(GitNames, git.job)

\* At most one thread builds the pipeline of a file, whichever view asks.
\* (app.rs ensure_pipeline_building, "Idempotent")
OneBuilder == \A s \in Files : pipe[s].threads <= 1

\* No text made without the pipeline is kept once the pipeline is there, also not
\* one made between its end and its arrival. (background.rs clears the cache;
\* content.rs decompile_content fills it.)
TextKeepsUp ==
  \A s \in Files : pipe[s].ctx => "fast" \notin Range(text[s])

\* A comparison comes to an end for the user whether its threads finish, lose
\* names, or the worker dies. (background.rs:60)
DiffEnds == list.analyzing ~> (~list.analyzing \/ pc = "quit")

\* A git diff that stays open gets built, however often its job changed.
\* (app.rs request_git_diff, retried by every poll)
GitBuilds ==
  git.on ~> (~git.on \/ pc = "quit" \/ git.built = git.job.kind)
=============================================================================
