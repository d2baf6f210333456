-------------------------- MODULE TuiWorkersProofs --------------------------
(***************************************************************************)
(* For any two files, any number of comparison threads and panics, any keys  *)
(* and any number of messages per poll.                                      *)
(***************************************************************************)
EXTENDS TuiWorkers, DataFacts, FiniteSetTheorems, SequenceTheorems

----------------------------------------------------------------------------
(* The pipelines. *)

Pipelines == [ctx : BOOLEAN, building : BOOLEAN, threads : Nat,
              holds : {"nothing", "pending", "context", "hung up"}]

\* A builder exists exactly while its channel has nothing yet; a channel exists
\* exactly while the file counts as being built.
Settled(p) ==
  /\ p.ctx => ~p.building
  /\ p.building <=> p.holds # "nothing"
  /\ p.threads = IF p.holds = "pending" THEN 1 ELSE 0

PipeInv == pipe \in [Files -> Pipelines] /\ \A s \in Files : Settled(pipe[s])

LEMMA PipeInit == Init => PipeInv
BY DEF Init, PipeInv, Pipelines, Settled

LEMMA Asked ==
  ASSUME NEW p \in Pipelines, Settled(p), ~p.ctx,
         NEW q, q = [p EXCEPT !.building = TRUE, !.holds = "pending", !.threads = 1]
  PROVE  q \in Pipelines /\ Settled(q) /\ q.ctx = p.ctx
<1>1. q \in Pipelines
  BY DEF Pipelines
<1>2. q.building = TRUE /\ q.holds = "pending" /\ q.threads = 1 /\ q.ctx = p.ctx
  BY DEF Pipelines
<1> QED BY <1>1, <1>2 DEF Settled

LEMMA EnsureKeepsPipe ==
  ASSUME PipeInv, pipe' = Ensure(pipe)
  PROVE  PipeInv' /\ \A s \in Files : pipe'[s].ctx = pipe[s].ctx
<1>1. ASSUME NEW s \in Files
      PROVE  pipe'[s] \in Pipelines /\ Settled(pipe'[s]) /\ pipe'[s].ctx = pipe[s].ctx
  <2>1. /\ pipe[s] \in Pipelines /\ Settled(pipe[s])
        /\ pipe'[s] = IF pipe[s].ctx \/ pipe[s].building THEN pipe[s]
                      ELSE [pipe[s] EXCEPT !.building = TRUE, !.holds = "pending",
                                           !.threads = @ + 1]
    BY DEF Ensure, PipeInv
  <2>2. CASE pipe[s].ctx \/ pipe[s].building
    BY <2>1, <2>2
  <2>3. CASE ~pipe[s].ctx /\ ~pipe[s].building
    <3>1. pipe[s].threads + 1 = 1
      BY <2>1, <2>3 DEF Settled
    <3>2. pipe'[s] = [pipe[s] EXCEPT !.building = TRUE, !.holds = "pending", !.threads = 1]
      BY <2>1, <2>3, <3>1, Zenon
    <3> QED BY <2>1, <2>3, <3>2, Asked
  <2> QED BY <2>2, <2>3
<1> QED BY <1>1 DEF PipeInv, Ensure

LEMMA Polled ==
  ASSUME NEW p \in [Files -> Pipelines], NEW s \in Files, Settled(p[s]),
         NEW q, q = PollPipe(p, s)
  PROVE  /\ q \in Pipelines /\ Settled(q)
         /\ q.ctx => p[s].ctx \/ p[s].holds = "context"
<1>1. CASE p[s].holds = "context"
  <2>1. q = [p[s] EXCEPT !.ctx = TRUE, !.building = FALSE, !.holds = "nothing"]
    BY <1>1 DEF PollPipe
  <2>2. p[s].threads = 0
    BY <1>1 DEF Settled
  <2> QED BY <1>1, <2>1, <2>2 DEF Pipelines, Settled
<1>2. CASE p[s].holds = "hung up"
  <2>1. q = [p[s] EXCEPT !.building = FALSE, !.holds = "nothing"]
    BY <1>2 DEF PollPipe
  <2>2. p[s].threads = 0
    BY <1>2 DEF Settled
  <2> QED BY <2>1, <2>2 DEF Pipelines, Settled
<1>3. CASE p[s].holds \notin {"context", "hung up"}
  BY <1>3 DEF PollPipe
<1> QED BY <1>1, <1>2, <1>3

LEMMA PollKeepsPipe ==
  ASSUME PipeInv, Poll
  PROVE  /\ PipeInv'
         /\ \A s \in Files : pipe'[s].ctx => pipe[s].ctx \/ pipe[s].holds = "context"
<1>1. pipe' = [s \in Files |-> PollPipe(pipe, s)]
  BY DEF Poll
<1> QED BY <1>1, Polled DEF PipeInv

LEMMA BuildKeepsPipe ==
  ASSUME PipeInv, NEW s \in Files, Build(s)
  PROVE  PipeInv' /\ \A r \in Files : pipe'[r].ctx = pipe[r].ctx
<1>1. pipe[s].threads > 0
  BY DEF Build
<1>2. Settled(pipe[s]) /\ pipe[s] \in Pipelines
  BY DEF PipeInv
<1>3. pipe[s].holds = "pending" /\ pipe[s].threads = 1 /\ pipe[s].threads - 1 = 0
  BY <1>1, <1>2 DEF Settled
<1>4. PICK got \in {"context", "hung up"} :
        pipe' = [pipe EXCEPT ![s].threads = @ - 1,
                             ![s].holds = IF @ = "pending" THEN got ELSE @]
  BY DEF Build
<1>5. pipe'[s] = [pipe[s] EXCEPT !.threads = 0, !.holds = got]
  <2>1. pipe'[s] = [pipe[s] EXCEPT !.threads = pipe[s].threads - 1,
                                   !.holds = IF @ = "pending" THEN got ELSE @]
    BY <1>4 DEF PipeInv
  <2> QED BY <1>3, <2>1, Zenon
<1>6. pipe'[s] \in Pipelines /\ Settled(pipe'[s]) /\ pipe'[s].ctx = pipe[s].ctx
  <2> DEFINE q == pipe'[s]
             p == pipe[s]
  <2>1. p.building /\ ~p.ctx
    BY <1>2, <1>3 DEF Settled
  <2>2. q = [p EXCEPT !.threads = 0, !.holds = got]
    BY <1>5
  <2> HIDE DEF p, q
  <2>3. q \in Pipelines /\ Settled(q) /\ q.ctx = p.ctx
    BY <1>2, <2>1, <2>2 DEF p, Pipelines, Settled
  <2> QED BY <2>3 DEF p, q
<1>7. \A r \in Files \ {s} : pipe'[r] = pipe[r]
  BY <1>4 DEF PipeInv
<1>8. pipe' \in [Files -> Pipelines]
  BY <1>4, <1>6, <1>7 DEF PipeInv
<1> QED BY <1>6, <1>7, <1>8 DEF PipeInv

\* Every other step asks for a pipeline, or leaves them alone.
LEMMA PipeSteps ==
  ASSUME [Next]_vars
  PROVE  Poll \/ (\E s \in Files : Build(s)) \/ pipe' = Ensure(pipe) \/ UNCHANGED pipe
BY DEF Next, vars, Draw, Keys, SetView, AskForPipeline, OpenModules, ToggleColors, Select,
   Search, DeepSearch, EnterGit, LeaveGit, ChangeGit, ToggleFold, Quit, Workers, Comparison,
   Compare, CompareFinish, GitWorker, CompareDies, ComparePanics

LEMMA PipeStep == PipeInv /\ [Next]_vars => PipeInv'
BY PipeSteps, EnsureKeepsPipe, PollKeepsPipe, BuildKeepsPipe DEF PipeInv

(***************************************************************************)
(* Whichever views ask for it, and however often, one thread builds the      *)
(* pipeline of a file.                                                       *)
(***************************************************************************)
THEOREM OneBuilderEach == Spec => []OneBuilder
<1>1. PipeInv => OneBuilder
  BY DEF PipeInv, OneBuilder, Settled
<1> QED BY <1>1, PipeInit, PipeStep, PTL DEF Spec

----------------------------------------------------------------------------
(* The texts. *)
Texts(s) == [NamesOf(s) -> {"none", "fast", "full"}]

\* The texts t could be kept now: none of them lacks a pipeline that is there.
Current(t) ==
  /\ t = [s \in Files |-> t[s]]
  /\ \A s \in Files : t[s] \in Texts(s)
  /\ \A s \in Files : pipe[s].ctx => \A n \in NamesOf(s) : t[s][n] # "fast"

TextInv == PipeInv /\ Current(text)

LEMMA NoTextIsCurrent == Current(NoText)
BY DEF Current, Texts, NoText

LEMMA KeepIsCurrent ==
  ASSUME NEW t, Current(t), NEW s \in Files, NEW n
  PROVE  Current(Keep(t, s, n))
<1>1. CASE t[s][n] # "none"
  BY <1>1 DEF Keep
<1>2. CASE t[s][n] = "none"
  <2> DEFINE u == [t EXCEPT ![s][n] = IF pipe[s].ctx THEN "full" ELSE "fast"]
  <2>1. Keep(t, s, n) = u
    BY <1>2 DEF Keep
  <2>2. u = [r \in Files |-> u[r]]
    BY DEF Current
  <2>3. u[s] = [t[s] EXCEPT ![n] = IF pipe[s].ctx THEN "full" ELSE "fast"]
    BY DEF Current
  <2>4. \A r \in Files \ {s} : u[r] = t[r]
    BY DEF Current
  <2> HIDE DEF u
  <2>5. t[s] \in Texts(s) /\ (pipe[s].ctx => \A k \in NamesOf(s) : t[s][k] # "fast")
    BY DEF Current
  <2>6. u[s] \in Texts(s) /\ (pipe[s].ctx => \A k \in NamesOf(s) : u[s][k] # "fast")
    BY <2>3, <2>5 DEF Texts
  <2>7. Current(u)
    BY <2>2, <2>4, <2>6 DEF Current
  <2> QED BY <2>1, <2>7
<1> QED BY <1>1, <1>2

LEMMA TextStep == TextInv /\ [Next]_vars => TextInv'
<1> SUFFICES ASSUME TextInv, [Next]_vars
             PROVE  Current(text)'
  BY PipeStep DEF TextInv
<1>1. CASE Draw
  <2>1. \A s \in Files : pipe'[s].ctx = pipe[s].ctx
    BY <1>1, EnsureKeepsPipe DEF TextInv, Draw
  <2>2. Current(text')
    <3> DEFINE t1 == Keep(text, 1, Selected)
    <3>1. Current(text) /\ Current(t1)
      BY KeepIsCurrent DEF TextInv, Files
    <3>2. Current(Keep(text, 2, Name2(Selected))) /\ Current(Keep(t1, 2, Name2(Selected)))
      BY <3>1, KeepIsCurrent DEF Files
    <3>3. text' \in {text, t1, Keep(text, 2, Name2(Selected)), Keep(t1, 2, Name2(Selected))}
      BY <1>1 DEF Draw
    <3> QED BY <3>1, <3>2, <3>3
  <2> QED BY <2>1, <2>2 DEF Current
<1>2. CASE Poll
  <2>1. text' = [s \in Files |-> PollText(pipe, s)]
    BY <1>2 DEF Poll
  <2>2. ASSUME NEW s \in Files
        PROVE  text'[s] \in Texts(s) /\ (pipe'[s].ctx => \A n \in NamesOf(s) : text'[s][n] # "fast")
    <3>1. CASE pipe[s].holds = "context"
      BY <2>1, <3>1, NoTextIsCurrent DEF PollText, NoText, Texts
    <3>2. CASE pipe[s].holds # "context"
      <4>1. text'[s] = text[s]
        BY <2>1, <3>2 DEF PollText
      <4>2. pipe'[s].ctx => pipe[s].ctx
        BY <1>2, <3>2, PollKeepsPipe DEF TextInv
      <4> QED BY <4>1, <4>2 DEF TextInv, Current
    <3> QED BY <3>1, <3>2
  <2> QED BY <2>1, <2>2 DEF Current
<1>3. CASE ToggleColors
  BY <1>3, NoTextIsCurrent DEF ToggleColors, Current
<1>4. CASE UNCHANGED text /\ ~Poll
  <2>1. \A s \in Files : pipe'[s].ctx = pipe[s].ctx
    BY <1>4, PipeSteps, EnsureKeepsPipe, BuildKeepsPipe DEF TextInv
  <2> QED BY <1>4, <2>1 DEF TextInv, Current
<1>5. Draw \/ Poll \/ ToggleColors \/ UNCHANGED text
  BY DEF Next, vars, Keys, SetView, AskForPipeline, OpenModules, Select, Search,
     DeepSearch, EnterGit, LeaveGit, ChangeGit, ToggleFold, Quit, Workers, Comparison,
     Compare, CompareFinish, GitWorker, Build, CompareDies, ComparePanics
<1> QED BY <1>1, <1>2, <1>3, <1>4, <1>5

(***************************************************************************)
(* What was decompiled without a file's pipeline is never kept beside it,   *)
(* whenever the pipeline arrives and whatever was drawn meanwhile.          *)
(***************************************************************************)
THEOREM NoStaleTexts == Spec => []TextKeepsUp
<1>1. Init => TextInv
  BY PipeInit, NoTextIsCurrent DEF Init, TextInv
<1>2. TextInv => TextKeepsUp
  BY DEF TextInv, Current, Texts, TextKeepsUp, Range
<1> QED BY <1>1, <1>2, TextStep, PTL DEF Spec

----------------------------------------------------------------------------
(* The list and the messages of the comparison. *)
StatusMaps == UNION {[D -> Statuses] : D \in SUBSET Names}

\* What one comparison says, and what the last message may say.
Found(n) == [done |-> FALSE, fn |-> n, status |-> [k \in {n} |-> Compared(k)]]
Founds == {Found(n) : n \in Names}

\* The lists the user can see, with the selection in range.
Lists == {l \in [names : SUBSET Names, status : StatusMaps, query : SUBSET Names,
                 shown : SUBSET Names, selected : Nat, analyzing : BOOLEAN, rx : BOOLEAN] :
            l.selected = 0 \/ l.selected < Cardinality(l.shown)}

Messages == {m \in [done : BOOLEAN, fn : Names \cup {None}, status : StatusMaps] :
               ~m.done => m.fn \in DOMAIN m.status}

LEMMA Counts == ASSUME NEW s \in SUBSET Names PROVE Cardinality(s) \in Nat
BY CodeAssumption, FS_Subset, FS_CardinalityType

LEMMA SearchIsInRange ==
  ASSUME NEW l \in [names : SUBSET Names, status : StatusMaps, query : SUBSET Names,
                    shown : SUBSET Names, selected : Nat, analyzing : BOOLEAN, rx : BOOLEAN]
  PROVE  UpdateSearch(l) \in Lists
<1> DEFINE shown == l.names \cap l.query
           selected == IF l.selected >= Cardinality(shown) THEN 0 ELSE l.selected
<1>1. shown \in SUBSET Names /\ Cardinality(shown) \in Nat
  BY Counts
<1>2. selected \in Nat /\ (selected = 0 \/ selected < Cardinality(shown))
  BY <1>1
<1>3. UpdateSearch(l) = [l EXCEPT !.shown = shown, !.selected = selected]
  BY DEF UpdateSearch
<1> HIDE DEF shown, selected
<1> QED BY <1>1, <1>2, <1>3 DEF Lists

LEMMA Overwrites ==
  ASSUME NEW f \in StatusMaps, NEW n \in Names, NEW v \in Statuses
  PROVE  /\ Put(f, n, v) \in StatusMaps
         /\ DOMAIN Put(f, n, v) = DOMAIN f \cup {n}
         /\ \A k \in DOMAIN f \cup {n} : Put(f, n, v)[k] = IF k = n THEN v ELSE f[k]
<1> DEFINE g == Put(f, n, v)
<1>1. g = [k \in DOMAIN f \cup {n} |-> IF k = n THEN v ELSE f[k]]
  BY DEF Put
<1>2. DOMAIN f \in SUBSET Names /\ \A k \in DOMAIN f : f[k] \in Statuses
  BY DEF StatusMaps
<1> HIDE DEF g
<1>3. g \in [DOMAIN f \cup {n} -> Statuses] /\ DOMAIN f \cup {n} \in SUBSET Names
  BY <1>1, <1>2
<1>4. g \in StatusMaps
  BY <1>3 DEF StatusMaps
<1> QED BY <1>1, <1>4 DEF g

LEMMA ReceivedIsList ==
  ASSUME NEW l \in Lists, NEW m \in Messages
  PROVE  Received(l, m) \in Lists
<1>1. CASE m.done
  <2> DEFINE l1 == [l EXCEPT !.status = m.status, !.names = DOMAIN m.status,
                             !.analyzing = FALSE, !.rx = FALSE]
  <2>1. m.status \in StatusMaps /\ DOMAIN m.status \in SUBSET Names
    BY DEF Messages, StatusMaps
  <2>2. l1 \in [names : SUBSET Names, status : StatusMaps, query : SUBSET Names,
                shown : SUBSET Names, selected : Nat, analyzing : BOOLEAN, rx : BOOLEAN]
    BY <2>1 DEF Lists
  <2>3. Received(l, m) = UpdateSearch(l1)
    BY <1>1 DEF Received
  <2> HIDE DEF l1
  <2> QED BY <2>2, <2>3, SearchIsInRange
<1>2. CASE ~m.done
  <2> DEFINE n == m.fn
             s == Put(l.status, n, m.status[n])
             l1 == [l EXCEPT !.status = s]
             l2 == [l1 EXCEPT !.names = @ \cup {n}]
  <2>1. m.status \in StatusMaps /\ n \in DOMAIN m.status
    BY <1>2 DEF Messages
  <2>2. n \in Names /\ m.status[n] \in Statuses
    BY <2>1 DEF StatusMaps
  <2>3. l.status \in StatusMaps
    BY DEF Lists
  <2>4. s \in StatusMaps
    <3> DEFINE f == l.status
               v == m.status[n]
               g == Put(f, n, v)
    <3>1. f \in StatusMaps /\ n \in Names /\ v \in Statuses
      BY <2>2, <2>3
    <3> HIDE DEF f, n, v
    <3>2. g \in StatusMaps
      BY <3>1, Overwrites
    <3> QED BY <3>2 DEF f, v
  <2>5. Received(l, m) = IF n \in l.names THEN l1 ELSE UpdateSearch(l2)
    BY <1>2 DEF Received
  <2> HIDE DEF s
  <2>6. l1 \in Lists
    BY <2>4 DEF Lists
  <2> HIDE DEF l1
  <2>7. l2 \in [names : SUBSET Names, status : StatusMaps, query : SUBSET Names,
                shown : SUBSET Names, selected : Nat, analyzing : BOOLEAN, rx : BOOLEAN]
    BY <2>2, <2>6 DEF Lists
  <2> HIDE DEF l2
  <2> QED BY <2>5, <2>6, <2>7, SearchIsInRange
<1> QED BY <1>1, <1>2

\* What the list becomes, message by message.
LEMMA ReceivedFold ==
  ASSUME NEW l \in Lists, NEW msgs \in Seq(Messages)
  PROVE  \E F \in [0..Len(msgs) -> Lists] :
           /\ F[0] = l
           /\ \A k \in 1..Len(msgs) : F[k] = Received(F[k - 1], msgs[k])
           /\ FoldLeft(Received, l, msgs) = F[Len(msgs)]
<1> DEFINE n == Len(msgs)
           D == DOMAIN msgs
           step == [p \in Lists \X (1..n) |-> Received(p[1], msgs[p[2]])]
           rec(g) == [s \in SUBSET D |-> IF s = {} THEN l
                                         ELSE Received(g[s \ {Max(s)}], msgs[Max(s)])]
           it == CHOOSE g : g = rec(g)
<1>1. n \in Nat /\ D = 1..n /\ \A k \in 1..n : msgs[k] \in Messages
  OBVIOUS
<1>2. step \in Steps(Lists, n)
  BY <1>1, ReceivedIsList DEF Steps
<1>3. FoldLeft(Received, l, msgs) = it[D]
  BY DEF FoldLeft, MapThenFoldSet
<1>4. ASSUME NEW s \in SUBSET (1..n), s # {} PROVE Max(s) \in 1..n
  BY <1>1, <1>4, MaxIn
<1>5. ASSUME NEW a \in Lists, NEW k \in 1..n PROVE step[<<a, k>>] = Received(a, msgs[k])
  OBVIOUS
<1> HIDE DEF step, D, it, n
<1>6. PICK h : IsFold(h, Lists, l, n, step)
  BY <1>1, <1>2, FoldExists
<1>7. h = rec(h)
  <2>1. ASSUME NEW s \in SUBSET (1..n), s # {} PROVE h[s \ {Max(s)}] \in Lists
    <3>1. s \ {Max(s)} \in SUBSET (1..n)
      OBVIOUS
    <3> QED BY <3>1, <1>6 DEF IsFold
  <2>2. h = [s \in SUBSET (1..n) |-> h[s]]
    BY <1>6 DEF IsFold
  <2>3. ASSUME NEW s \in SUBSET (1..n)
        PROVE  h[s] = IF s = {} THEN l ELSE Received(h[s \ {Max(s)}], msgs[Max(s)])
    BY <2>1, <1>4, <1>5, <1>6 DEF IsFold
  <2> QED BY <2>2, <2>3, <1>1
<1> HIDE DEF rec
<1>8. it = rec(it)
  BY <1>7 DEF it
<1>9. \A s \in SUBSET (1..n) :
        it[s] = IF s = {} THEN l ELSE Received(it[s \ {Max(s)}], msgs[Max(s)])
  BY <1>1, <1>8 DEF rec
<1>10. PICK F : IsRun(F, it, Lists, l, n, step)
  <2>1. ASSUME NEW s \in SUBSET (1..n), s # {}, it[s \ {Max(s)}] \in Lists
        PROVE  it[s] = step[<<it[s \ {Max(s)}], Max(s)>>]
    BY <2>1, <1>4, <1>5, <1>9
  <2>2. it[{}] = l
    BY <1>9
  <2> QED BY <1>1, <1>2, <2>1, <2>2, FoldRuns
<1>11. ASSUME NEW k \in 1..n PROVE F[k] = Received(F[k - 1], msgs[k])
  <2>1. k - 1 \in 0..n
    BY <1>1
  <2> QED BY <2>1, <1>5, <1>10 DEF IsRun
<1>12. n \in 0..n /\ F[n] = it[1..n]
  BY <1>1, <1>10 DEF IsRun
<1> QED BY <1>1, <1>3, <1>10, <1>11, <1>12 DEF IsRun, n

----------------------------------------------------------------------------
(* The comparison. *)

\* The maps the rename detection may use.
Renamings ==
  LET added == NamesWith(cmp.results, "added")
      codes == {Code[2][n] : n \in added} IN
  {by \in [codes -> added] : \A c \in codes : Code[2][by[c]] = c}

\* The list as the messages of the threads leave it, and as the last one does.
Plain(l) ==
  l.names = DOMAIN l.status /\ \A n \in l.names : l.status[n] = Compared(n)
Complete(l) == \E by \in Renamings :
                 l.names = DOMAIN l.status /\ l.status = Renamed(cmp.results, by)

\* A message that names a result, or the one that replaces the list.
IsFound(m) == m \in Founds /\ m.fn \in DOMAIN cmp.results
IsLast(m) == m.done /\ \E by \in Renamings : m.status = Renamed(cmp.results, by)

ListInv ==
  /\ list \in Lists
  /\ list.rx <=> list.analyzing
  /\ list.rx => /\ Plain(list)
                /\ \A n \in DOMAIN cmp.results :
                     n \in list.names \/ \E i \in 1..Len(cmp.sent) : cmp.sent[i] = Found(n)
  /\ ~list.rx => /\ cmp.gone
                 /\ Complete(list) \/ (Plain(list) /\ DOMAIN cmp.results \subseteq list.names)

\* No name is forgotten: it has a result, is still to do, or was lost with a thread.
\* A result is on its way to the list or in it; nothing is sent after the last message.
CmpInv ==
  /\ cmp \in [todo : SUBSET Names, results : StatusMaps, sent : Seq(Messages),
              gone : BOOLEAN]
  /\ lost \subseteq Names
  /\ DOMAIN cmp.results \cup cmp.todo \cup lost = Names
  /\ \A n \in DOMAIN cmp.results : cmp.results[n] = Compared(n)
  /\ cmp.gone => cmp.todo = {}
  /\ \A i \in 1..Len(cmp.sent) :
       \/ IsFound(cmp.sent[i])
       \/ IsLast(cmp.sent[i]) /\ i = Len(cmp.sent) /\ cmp.gone

ComparisonInv == ListInv /\ CmpInv

LEMMA ComparedIs ==
  ASSUME NEW n \in Names
  PROVE  Compared(n) \in Statuses /\ Compared(n).is # "renamed" /\ Compared(n).to = None
BY DEF Compared, Statuses

LEMMA FoundIs ==
  ASSUME NEW n \in Names
  PROVE  /\ Found(n) \in Messages /\ ~Found(n).done /\ Found(n).fn = n
         /\ Found(n).status[n] = Compared(n)
<1> DEFINE s == [k \in {n} |-> Compared(k)]
<1>1. s \in [{n} -> Statuses] /\ s[n] = Compared(n) /\ DOMAIN s = {n}
  BY ComparedIs
<1>2. s \in StatusMaps
  BY <1>1 DEF StatusMaps
<1>3. Found(n) = [done |-> FALSE, fn |-> n, status |-> s]
  BY DEF Found
<1> HIDE DEF s
<1> QED BY <1>1, <1>2, <1>3 DEF Messages

LEMMA ReceivedFound ==
  ASSUME NEW l \in Lists, Plain(l), NEW n \in Names, NEW r, r = Received(l, Found(n))
  PROVE  /\ Plain(r) /\ r.names = l.names \cup {n}
         /\ r.rx = l.rx /\ r.analyzing = l.analyzing
<1> DEFINE s == Put(l.status, n, Compared(n))
           l1 == [l EXCEPT !.status = s]
           l2 == [l1 EXCEPT !.names = @ \cup {n}]
<1>1. r = IF n \in l.names THEN l1 ELSE UpdateSearch(l2)
  <2> DEFINE m == Found(n)
  <2>1. ~m.done /\ m.fn = n /\ m.status[n] = Compared(n)
    BY FoundIs
  <2> HIDE DEF m
  <2>2. Put(l.status, m.fn, m.status[m.fn]) = s
    BY <2>1
  <2> DEFINE k == [l EXCEPT !.status = Put(@, m.fn, m.status[m.fn])]
  <2>3. Received(l, m) = IF m.fn \in l.names THEN k
                         ELSE UpdateSearch([k EXCEPT !.names = @ \cup {m.fn}])
    BY <2>1 DEF Received
  <2>4. k = l1
    BY <2>2
  <2> HIDE DEF k, l1
  <2> QED BY <2>1, <2>3, <2>4 DEF m
<1>2. DOMAIN s = DOMAIN l.status \cup {n}
      /\ \A k \in DOMAIN s : s[k] = IF k = n THEN Compared(n) ELSE l.status[k]
  BY DEF Put
<1> HIDE DEF s
<1>3. /\ l1.status = s /\ l1.names = l.names /\ l1.rx = l.rx
      /\ l1.analyzing = l.analyzing
  BY DEF Lists
<1>4. /\ UpdateSearch(l2).status = s /\ UpdateSearch(l2).names = l.names \cup {n}
      /\ UpdateSearch(l2).rx = l.rx /\ UpdateSearch(l2).analyzing = l.analyzing
  BY DEF Lists, UpdateSearch
<1> HIDE DEF l1, l2
<1>5. r.status = s /\ r.names = l.names \cup {n} /\ r.rx = l.rx /\ r.analyzing = l.analyzing
  BY <1>1, <1>3, <1>4
<1>6. Plain(r)
  BY <1>2, <1>5 DEF Plain
<1> QED BY <1>5, <1>6

LEMMA ReceivedLast ==
  ASSUME NEW l \in Lists, NEW m \in Messages, m.done, NEW r, r = Received(l, m)
  PROVE  r.names = DOMAIN m.status /\ r.status = m.status /\ ~r.rx /\ ~r.analyzing
<1> DEFINE l1 == [l EXCEPT !.status = m.status, !.names = DOMAIN m.status,
                           !.analyzing = FALSE, !.rx = FALSE]
<1>1. r = UpdateSearch(l1)
  BY DEF Received
<1>2. /\ l1.names = DOMAIN m.status /\ l1.status = m.status /\ l1.rx = FALSE
      /\ l1.analyzing = FALSE /\ l1 = [l1 EXCEPT !.rx = FALSE]
  BY DEF Lists
<1> QED BY <1>1 DEF UpdateSearch, Lists

LEMMA RenamedIs ==
  ASSUME CmpInv, NEW by \in Renamings
  PROVE  Renamed(cmp.results, by) \in StatusMaps
<1> DEFINE added == NamesWith(cmp.results, "added")
           moved == {n \in NamesWith(cmp.results, "removed") : Code[1][n] \in DOMAIN by}
           s == Renamed(cmp.results, by)
           D == DOMAIN cmp.results \ {by[Code[1][k]] : k \in moved}
<1>1. added \subseteq Names /\ DOMAIN cmp.results \subseteq Names
      /\ \A n \in DOMAIN cmp.results : cmp.results[n] \in Statuses
  BY DEF CmpInv, StatusMaps, NamesWith
<1>2. \A c \in DOMAIN by : by[c] \in Names
  BY <1>1 DEF Renamings
<1>3. s = [n \in D |-> IF n \in moved THEN [is |-> "renamed", to |-> by[Code[1][n]]]
                       ELSE cmp.results[n]]
  BY DEF Renamed
<1>4. D \in SUBSET Names
  BY <1>1
<1>5. \A n \in moved : by[Code[1][n]] \in Names
  BY <1>2
<1> HIDE DEF D, moved, s
<1>6. ASSUME NEW n \in D PROVE s[n] \in Statuses
  <2>1. n \in DOMAIN cmp.results
    BY DEF D
  <2> QED BY <1>1, <1>3, <1>5, <2>1 DEF Statuses
<1>7. s \in [D -> Statuses]
  BY <1>3, <1>6
<1> QED BY <1>4, <1>7 DEF StatusMaps, s

LEMMA ComparisonInit == Init => ComparisonInv
<1> SUFFICES ASSUME Init PROVE ComparisonInv
  OBVIOUS
<1>1. <<>> \in StatusMaps /\ DOMAIN <<>> = {}
  <2>1. <<>> \in [{} -> Statuses]
    OBVIOUS
  <2> QED BY <2>1 DEF StatusMaps
<1>2. ListInv
  BY <1>1, Counts DEF Init, ListInv, Lists, Plain
<1>3. CmpInv
  BY <1>1 DEF Init, CmpInv
<1> QED BY <1>2, <1>3 DEF ComparisonInv

LEMMA SentAreMessages ==
  ASSUME CmpInv, NEW i \in 1..Len(cmp.sent)
  PROVE  cmp.sent[i] \in Messages
BY DEF CmpInv

LEMMA CompareKeeps ==
  ASSUME ComparisonInv, NEW n \in Names, Compare(n)
  PROVE  ComparisonInv'
<1> DEFINE results == Put(cmp.results, n, Compared(n))
           sent == Append(cmp.sent, Found(n))
<1>1. n \in cmp.todo /\ cmp.todo # {}
  BY DEF Compare, IsNext
<1>2. /\ cmp.results \in StatusMaps /\ cmp.sent \in Seq(Messages) /\ ~cmp.gone
      /\ cmp.todo \subseteq Names
  BY <1>1 DEF ComparisonInv, CmpInv
<1>3. /\ cmp' = [cmp EXCEPT !.todo = @ \ {n}, !.results = results, !.sent = sent]
      /\ UNCHANGED <<list, lost>>
  BY DEF Compare, Found
<1>4. /\ results \in StatusMaps /\ DOMAIN results = DOMAIN cmp.results \cup {n}
      /\ \A k \in DOMAIN results : results[k] = IF k = n THEN Compared(n) ELSE cmp.results[k]
  <2>1. Compared(n) \in Statuses
    BY ComparedIs
  <2> DEFINE v == Compared(n)
             f == cmp.results
  <2>2. v \in Statuses /\ f \in StatusMaps
    BY <1>2, <2>1
  <2>3. results = Put(f, n, v)
    OBVIOUS
  <2> HIDE DEF v, f, results
  <2>4. /\ Put(f, n, v) \in StatusMaps /\ DOMAIN Put(f, n, v) = DOMAIN f \cup {n}
        /\ \A k \in DOMAIN f \cup {n} : Put(f, n, v)[k] = IF k = n THEN v ELSE f[k]
    BY <2>2, Overwrites
  <2>5. /\ results \in StatusMaps /\ DOMAIN results = DOMAIN f \cup {n}
        /\ \A k \in DOMAIN f \cup {n} : results[k] = IF k = n THEN v ELSE f[k]
    BY <2>3, <2>4
  <2>6. /\ results \in StatusMaps /\ DOMAIN results = DOMAIN cmp.results \cup {n}
        /\ \A k \in DOMAIN cmp.results \cup {n} :
             results[k] = IF k = n THEN Compared(n) ELSE cmp.results[k]
    BY <2>5 DEF v, f
  <2> HIDE DEF results
  <2> QED BY <2>6
<1>5. /\ sent \in Seq(Messages) /\ Len(sent) = Len(cmp.sent) + 1
      /\ \A i \in 1..Len(cmp.sent) : sent[i] = cmp.sent[i]
      /\ sent[Len(cmp.sent) + 1] = Found(n)
  BY <1>2, FoundIs, AppendProperties
<1> HIDE DEF results, sent
<1>6. cmp'.todo = cmp.todo \ {n} /\ cmp'.results = results /\ cmp'.sent = sent
      /\ cmp'.gone = cmp.gone
      /\ cmp' \in [todo : SUBSET Names, results : StatusMaps, sent : Seq(Messages),
                   gone : BOOLEAN]
  BY <1>3, <1>4, <1>5 DEF ComparisonInv, CmpInv
<1>7. \A i \in 1..Len(cmp.sent) : cmp.sent[i] \in Founds /\ cmp.sent[i].fn \in DOMAIN cmp.results
  BY <1>2 DEF ComparisonInv, CmpInv, IsFound
<1>8. CmpInv'
  <2>1. \A i \in 1..Len(cmp'.sent) : IsFound(cmp.sent[i])'
    <3>1. Found(n) \in Founds /\ Found(n).fn = n
      BY FoundIs DEF Founds
    <3>2. Len(cmp.sent) \in Nat
      BY <1>2
    <3>3. ASSUME NEW i \in 1..Len(sent)
          PROVE  sent[i] \in Founds /\ sent[i].fn \in DOMAIN results
      <4>1. CASE i = Len(cmp.sent) + 1
        BY <1>4, <1>5, <3>1, <4>1
      <4>2. CASE i \in 1..Len(cmp.sent)
        BY <1>4, <1>5, <1>7, <4>2
      <4> QED BY <3>2, <1>5, <4>1, <4>2
    <3> QED BY <1>6, <3>3 DEF IsFound
  <2>2. DOMAIN cmp'.results \cup cmp'.todo \cup lost' = Names
    BY <1>1, <1>2, <1>3, <1>4, <1>6 DEF ComparisonInv, CmpInv
  <2>3. \A k \in DOMAIN cmp'.results : cmp'.results[k] = Compared(k)
    BY <1>4, <1>6 DEF ComparisonInv, CmpInv
  <2>4. lost' \subseteq Names /\ ~cmp'.gone
    BY <1>2, <1>3, <1>6 DEF ComparisonInv, CmpInv
  <2> QED BY <1>6, <2>1, <2>2, <2>3, <2>4 DEF CmpInv
<1>9. ListInv'
  <2>1. list.rx /\ Plain(list) /\ list' = list
    BY <1>2, <1>3 DEF ComparisonInv, ListInv
  <2>2. ASSUME NEW k \in DOMAIN cmp'.results
        PROVE  k \in list.names \/ \E i \in 1..Len(cmp'.sent) : cmp'.sent[i] = Found(k)
    <3>1. Len(cmp.sent) \in Nat /\ Len(cmp'.sent) = Len(cmp.sent) + 1
      BY <1>2, <1>5, <1>6
    <3>2. CASE k = n
      <4>1. Len(cmp.sent) + 1 \in 1..Len(cmp'.sent)
        BY <3>1
      <4> QED BY <3>2, <4>1, <1>5, <1>6
    <3>3. CASE k # n
      <4>1. k \in list.names \/ \E i \in 1..Len(cmp.sent) : cmp.sent[i] = Found(k)
        BY <1>4, <1>6, <3>3, <2>1 DEF ComparisonInv, ListInv
      <4>2. \A i \in 1..Len(cmp.sent) : i \in 1..Len(cmp'.sent) /\ cmp'.sent[i] = cmp.sent[i]
        BY <3>1, <1>5, <1>6
      <4> QED BY <4>1, <4>2
    <3> QED BY <3>2, <3>3
  <2>3. Plain(list)'
    BY <2>1 DEF Plain
  <2> QED BY <2>1, <2>2, <2>3 DEF ComparisonInv, ListInv
<1> QED BY <1>8, <1>9 DEF ComparisonInv

\* As long as the results stay, so do the renamings that fit them.
LEMMA SameResults ==
  ASSUME cmp'.results = cmp.results
  PROVE  /\ Renamings' = Renamings
         /\ \A l : Complete(l)' <=> Complete(l)
         /\ \A m : (IsFound(m)' <=> IsFound(m)) /\ (IsLast(m)' <=> IsLast(m))
<1>1. Renamings' = Renamings
  BY DEF Renamings
<1> QED BY <1>1 DEF Complete, IsFound, IsLast

LEMMA PanicKeeps ==
  ASSUME ComparisonInv, NEW n \in Names, ComparePanics(n)
  PROVE  ComparisonInv'
<1>1. n \in cmp.todo /\ ~cmp.gone
  BY DEF ComparePanics, IsNext, ComparisonInv, CmpInv
<1>2. /\ cmp' = [cmp EXCEPT !.todo = @ \ ThreadNames(n)]
      /\ lost' = lost \cup (cmp.todo \cap ThreadNames(n)) /\ list' = list
  BY DEF ComparePanics
<1>3. /\ cmp' \in [todo : SUBSET Names, results : StatusMaps, sent : Seq(Messages),
                   gone : BOOLEAN]
      /\ cmp'.todo = cmp.todo \ ThreadNames(n) /\ cmp'.results = cmp.results
      /\ cmp'.sent = cmp.sent /\ cmp'.gone = cmp.gone
  BY <1>2 DEF ComparisonInv, CmpInv
<1>4. CmpInv'
  BY <1>1, <1>2, <1>3, SameResults DEF ComparisonInv, CmpInv
<1>5. ListInv'
  BY <1>1, <1>2, <1>3, SameResults DEF ComparisonInv, ListInv, Plain
<1> QED BY <1>4, <1>5 DEF ComparisonInv

LEMMA DiesKeeps ==
  ASSUME ComparisonInv, CompareDies
  PROVE  ComparisonInv'
<1>1. /\ cmp' \in [todo : SUBSET Names, results : StatusMaps, sent : Seq(Messages),
                   gone : BOOLEAN]
      /\ cmp'.todo = cmp.todo /\ cmp'.results = cmp.results
      /\ cmp'.sent = cmp.sent /\ cmp'.gone = TRUE /\ cmp.todo = {} /\ ~cmp.gone
      /\ UNCHANGED <<list, lost>>
  BY DEF ComparisonInv, CmpInv, CompareDies
<1>2. CmpInv'
  BY <1>1, SameResults DEF ComparisonInv, CmpInv
<1>3. ListInv'
  BY <1>1, SameResults DEF ComparisonInv, ListInv, Plain
<1> QED BY <1>2, <1>3 DEF ComparisonInv

LEMMA FinishKeeps ==
  ASSUME ComparisonInv, CompareFinish
  PROVE  ComparisonInv'
<1>1. PICK by \in Renamings :
        cmp' = [cmp EXCEPT !.gone = TRUE,
                           !.sent = Append(@, [done |-> TRUE, fn |-> None,
                                               status |-> Renamed(cmp.results, by)])]
  BY DEF CompareFinish, Renamings
<1> DEFINE last == [done |-> TRUE, fn |-> None, status |-> Renamed(cmp.results, by)]
           sent == Append(cmp.sent, last)
<1>2. cmp.todo = {} /\ ~cmp.gone /\ UNCHANGED <<list, lost>>
  BY DEF CompareFinish
<1>3. last \in Messages /\ last.done /\ IsLast(last)
  BY RenamedIs DEF ComparisonInv, Messages, IsLast
<1>4. cmp.sent \in Seq(Messages) /\ Len(cmp.sent) \in Nat
  BY DEF ComparisonInv, CmpInv
<1> HIDE DEF last
<1>5. /\ sent \in Seq(Messages) /\ Len(sent) = Len(cmp.sent) + 1
      /\ \A i \in 1..Len(cmp.sent) : sent[i] = cmp.sent[i]
      /\ sent[Len(cmp.sent) + 1] = last
  BY <1>3, <1>4, AppendProperties
<1>6. cmp' = [cmp EXCEPT !.gone = TRUE, !.sent = sent]
  BY <1>1 DEF last
<1> HIDE DEF sent
<1>7. /\ cmp' \in [todo : SUBSET Names, results : StatusMaps, sent : Seq(Messages),
                   gone : BOOLEAN]
      /\ cmp'.todo = cmp.todo /\ cmp'.results = cmp.results
      /\ cmp'.sent = sent /\ cmp'.gone = TRUE
  BY <1>5, <1>6 DEF ComparisonInv, CmpInv
<1>8. \A i \in 1..Len(cmp.sent) : IsFound(cmp.sent[i])
  BY <1>2 DEF ComparisonInv, CmpInv
<1>9. ASSUME NEW i \in 1..Len(sent)
      PROVE  IsFound(sent[i]) \/ (IsLast(sent[i]) /\ i = Len(sent))
  <2>1. CASE i = Len(cmp.sent) + 1
    BY <1>3, <1>5, <2>1
  <2>2. CASE i \in 1..Len(cmp.sent)
    BY <1>5, <1>8, <2>2
  <2> QED BY <1>4, <1>5, <2>1, <2>2
<1>10. CmpInv'
  BY <1>2, <1>7, <1>9, SameResults DEF ComparisonInv, CmpInv
<1>11. ListInv'
  <2>1. list.rx /\ list' = list
    BY <1>2 DEF ComparisonInv, ListInv
  <2>2. \A i \in 1..Len(cmp.sent) : i \in 1..Len(sent)
    BY <1>4, <1>5
  <2>3. ASSUME NEW k \in DOMAIN cmp.results
        PROVE  k \in list.names \/ \E i \in 1..Len(sent) : sent[i] = Found(k)
    BY <1>5, <2>1, <2>2 DEF ComparisonInv, ListInv
  <2> QED BY <1>7, <2>1, <2>3 DEF ComparisonInv, ListInv, Plain
<1> QED BY <1>10, <1>11 DEF ComparisonInv

\* The list after the first k messages of those read, while none was the last.
Follows(l, read, k) ==
  /\ Plain(l) /\ l.rx /\ l.analyzing
  /\ list.names \subseteq l.names
  /\ \A i \in 1..k : read[i].fn \in l.names

\* The list after the messages of one poll: the last one was read, or none was.
LEMMA PolledList ==
  ASSUME ComparisonInv, list.rx, NEW n \in Nat, n <= Len(cmp.sent), NEW read \in Seq(Messages),
         Len(read) = n, \A i \in 1..n : read[i] = cmp.sent[i],
         NEW l1, l1 = FoldLeft(Received, list, read)
  PROVE  /\ l1 \in Lists
         /\ \/ n = Len(cmp.sent) /\ cmp.gone /\ Complete(l1) /\ ~l1.rx /\ ~l1.analyzing
            \/ Follows(l1, read, n)
<1>1. list \in Lists /\ Plain(list) /\ list.analyzing
  BY DEF ComparisonInv, ListInv
<1>2. PICK F \in [0..n -> Lists] :
        /\ F[0] = list
        /\ \A k \in 1..n : F[k] = Received(F[k - 1], read[k])
        /\ l1 = F[n]
  BY <1>1, ReceivedFold
<1>3. l1 \in Lists
  BY <1>2
<1>4. ASSUME NEW i \in 1..n
      PROVE  \/ IsFound(read[i])
             \/ IsLast(read[i]) /\ i = n /\ n = Len(cmp.sent) /\ cmp.gone
  <2>1. i \in 1..Len(cmp.sent) /\ Len(cmp.sent) \in Nat
    BY DEF ComparisonInv, CmpInv
  <2> QED BY <2>1 DEF ComparisonInv, CmpInv
<1> DEFINE T == {k \in Nat : k <= n /\ (\A i \in 1..k : IsFound(read[i])) => Follows(F[k], read, k)}
<1>5. 0 \in T
  BY <1>1, <1>2 DEF Follows
<1>6. ASSUME NEW k \in Nat, k \in T PROVE k + 1 \in T
  <2> SUFFICES ASSUME k + 1 <= n, \A i \in 1..k + 1 : IsFound(read[i])
               PROVE  Follows(F[k + 1], read, k + 1)
    OBVIOUS
  <2>1. Follows(F[k], read, k) /\ k + 1 \in 1..n /\ k \in 0..n /\ F[k] \in Lists
    BY <1>2, <1>6
  <2>2. IsFound(read[k + 1])
    BY <2>1
  <2>3. PICK m \in Names : read[k + 1] = Found(m)
    BY <2>2 DEF IsFound, Founds
  <2>4. F[k + 1] = Received(F[k], Found(m)) /\ Found(m).fn = m
    BY <1>2, <2>1, <2>3, FoundIs
  <2>5. /\ Plain(F[k + 1]) /\ F[k + 1].names = F[k].names \cup {m}
        /\ F[k + 1].rx = F[k].rx /\ F[k + 1].analyzing = F[k].analyzing
    BY <2>1, <2>4, ReceivedFound DEF Follows
  <2>6. \A i \in 1..k + 1 : read[i].fn \in F[k + 1].names
    <3>1. \A i \in 1..k + 1 : i \in 1..k \/ i = k + 1
      OBVIOUS
    <3> QED BY <2>1, <2>3, <2>4, <2>5, <3>1 DEF Follows
  <2> QED BY <2>1, <2>5, <2>6 DEF Follows
<1> HIDE DEF T
<1>7. \A k \in Nat : k \in T
  BY <1>5, <1>6, NatInduct
<1>8. CASE \A i \in 1..n : IsFound(read[i])
  <2>1. Follows(F[n], read, n)
    BY <1>7, <1>8 DEF T
  <2> QED BY <1>2, <1>3, <2>1
<1>9. CASE \E i \in 1..n : ~IsFound(read[i])
  <2>1. n \in 1..n /\ IsLast(read[n]) /\ n = Len(cmp.sent) /\ cmp.gone
    BY <1>4, <1>9
  <2>2. l1 = Received(F[n - 1], read[n]) /\ F[n - 1] \in Lists /\ read[n] \in Messages
    BY <1>2, <2>1
  <2>3. read[n].done
    BY <2>1 DEF IsLast
  <2>4. l1.names = DOMAIN read[n].status /\ l1.status = read[n].status /\ ~l1.rx /\ ~l1.analyzing
    BY <2>2, <2>3, ReceivedLast
  <2>5. Complete(l1)
    BY <2>1, <2>4 DEF IsLast, Complete
  <2> QED BY <1>3, <2>1, <2>4, <2>5
<1> QED BY <1>8, <1>9

\* A poll that finds the worker gone closes the channel, and changes nothing else.
LEMMA Closed ==
  ASSUME NEW l \in Lists, NEW r, r = [l EXCEPT !.analyzing = FALSE, !.rx = FALSE]
  PROVE  /\ r \in Lists /\ r.names = l.names /\ r.status = l.status
         /\ ~r.rx /\ ~r.analyzing
BY DEF Lists

LEMMA PollKeeps ==
  ASSUME ComparisonInv, Poll, list.rx
  PROVE  ComparisonInv'
<1> DEFINE n == Min({MaxPerTick, Len(cmp.sent)})
           read == SubSeq(cmp.sent, 1, n)
           rest == SubSeq(cmp.sent, MaxPerTick + 1, Len(cmp.sent))
           l1 == FoldLeft(Received, list, read)
           closed == [l1 EXCEPT !.analyzing = FALSE, !.rx = FALSE]
<1>1. cmp.sent \in Seq(Messages) /\ Len(cmp.sent) \in Nat /\ MaxPerTick \in Nat
  BY CodeAssumption DEF ComparisonInv, CmpInv
<1>2. /\ n \in Nat /\ n <= Len(cmp.sent) /\ n <= MaxPerTick
      /\ (n < MaxPerTick => n = Len(cmp.sent))
      /\ read \in Seq(Messages) /\ Len(read) = n /\ \A i \in 1..n : read[i] = cmp.sent[i]
      /\ rest \in Seq(Messages) /\ Len(rest) = Len(cmp.sent) - n
      /\ \A i \in 1..Len(cmp.sent) - n : rest[i] = cmp.sent[i + n]
  <2>1. n = IF MaxPerTick <= Len(cmp.sent) THEN MaxPerTick ELSE Len(cmp.sent)
    BY <1>1, MinOfTwo
  <2>2. read = SubSeq(cmp.sent, 1, n) /\ rest = SubSeq(cmp.sent, MaxPerTick + 1, Len(cmp.sent))
    OBVIOUS
  <2> HIDE DEF n, read, rest
  <2>3. /\ n \in Nat /\ n <= Len(cmp.sent) /\ n <= MaxPerTick
        /\ (n < MaxPerTick => n = Len(cmp.sent))
    BY <1>1, <2>1
  <2>4. read \in Seq(Messages) /\ Len(read) = n /\ \A i \in 1..n : read[i] = cmp.sent[i]
    BY <1>1, <2>2, <2>3, Start
  <2>5. /\ rest \in Seq(Messages)
        /\ Len(rest) = IF MaxPerTick <= Len(cmp.sent) THEN Len(cmp.sent) - MaxPerTick ELSE 0
        /\ \A i \in 1..Len(cmp.sent) - MaxPerTick : rest[i] = cmp.sent[i + MaxPerTick]
    BY <1>1, <2>2, Rest
  <2>6. Len(rest) = Len(cmp.sent) - n
    BY <1>1, <2>1, <2>5
  <2>7. ASSUME NEW i \in 1..Len(cmp.sent) - n PROVE rest[i] = cmp.sent[i + n]
    <3>1. n = MaxPerTick
      BY <1>1, <2>1
    <3> QED BY <2>5, <3>1
  <2> QED BY <2>3, <2>4, <2>5, <2>6, <2>7, Zenon
<1>3. /\ list' = IF n < MaxPerTick /\ cmp.gone THEN closed ELSE l1
      /\ cmp' = [cmp EXCEPT !.sent = rest] /\ lost' = lost
  BY <1>2 DEF Poll, PollDiff
<1> HIDE DEF n, read, rest
<1>4. /\ l1 \in Lists
      /\ \/ n = Len(cmp.sent) /\ cmp.gone /\ Complete(l1) /\ ~l1.rx /\ ~l1.analyzing
         \/ Follows(l1, read, n)
  BY <1>2, PolledList
<1> HIDE DEF l1
<1>5. /\ closed \in Lists /\ closed.names = l1.names /\ closed.status = l1.status
      /\ ~closed.rx /\ ~closed.analyzing
  BY <1>4, Closed
<1> HIDE DEF closed
<1>6. /\ cmp' \in [todo : SUBSET Names, results : StatusMaps, sent : Seq(Messages),
                   gone : BOOLEAN]
      /\ cmp'.todo = cmp.todo /\ cmp'.results = cmp.results
      /\ cmp'.sent = rest /\ cmp'.gone = cmp.gone
  BY <1>2, <1>3 DEF ComparisonInv, CmpInv
<1>7. CmpInv'
  <2>1. ASSUME NEW i \in 1..Len(rest)
        PROVE  IsFound(rest[i]) \/ (IsLast(rest[i]) /\ i = Len(rest) /\ cmp.gone)
    <3>1. i + n \in 1..Len(cmp.sent) /\ rest[i] = cmp.sent[i + n]
          /\ (i + n = Len(cmp.sent) => i = Len(rest))
      BY <1>1, <1>2
    <3> QED BY <3>1 DEF ComparisonInv, CmpInv
  <2> QED BY <1>3, <1>6, <2>1, SameResults DEF ComparisonInv, CmpInv
\* Every result is in the list now, or further down the channel.
<1>8. ASSUME Follows(l1, read, n), NEW k \in DOMAIN cmp.results
      PROVE  k \in l1.names \/ \E i \in 1..Len(rest) : rest[i] = Found(k)
  <2>1. k \in list.names \/ \E i \in 1..Len(cmp.sent) : cmp.sent[i] = Found(k)
    BY DEF ComparisonInv, ListInv
  <2>2. CASE k \in list.names
    BY <1>8, <2>2 DEF Follows
  <2>3. ASSUME NEW i \in 1..Len(cmp.sent), cmp.sent[i] = Found(k)
        PROVE  k \in l1.names \/ \E j \in 1..Len(rest) : rest[j] = Found(k)
    <3>1. CASE i <= n
      <4>1. i \in 1..n /\ read[i] = Found(k)
        BY <1>2, <2>3, <3>1
      <4>2. Found(k).fn = k
        BY FoundIs DEF ComparisonInv, CmpInv, StatusMaps
      <4> QED BY <1>8, <4>1, <4>2 DEF Follows
    <3>2. CASE i > n
      <4>1. i - n \in 1..Len(rest) /\ (i - n) + n = i
        BY <1>1, <1>2, <3>2
      <4>2. rest[i - n] = cmp.sent[i]
        BY <1>2, <4>1
      <4> QED BY <2>3, <4>1, <4>2
    <3> QED BY <1>1, <1>2, <3>1, <3>2
  <2> QED BY <2>1, <2>2, <2>3
<1>9. ListInv'
  <2>1. CASE n = Len(cmp.sent) /\ cmp.gone /\ Complete(l1) /\ ~l1.rx /\ ~l1.analyzing
    <3>1. /\ list' \in Lists /\ ~list'.rx /\ ~list'.analyzing
          /\ list'.names = l1.names /\ list'.status = l1.status
      BY <1>3, <1>4, <1>5, <2>1
    <3>2. Complete(list)'
      BY <1>6, <2>1, <3>1, SameResults DEF Complete
    <3> QED BY <1>6, <2>1, <3>1, <3>2 DEF ListInv
  <2>2. CASE Follows(l1, read, n) /\ n < MaxPerTick /\ cmp.gone
    <3>1. /\ list' \in Lists /\ ~list'.rx /\ ~list'.analyzing
          /\ list'.names = l1.names /\ list'.status = l1.status
      BY <1>3, <1>5, <2>2
    <3>2. Len(rest) = 0
      BY <1>1, <1>2, <2>2
    <3>3. DOMAIN cmp.results \subseteq l1.names
      BY <1>8, <2>2, <3>2
    <3>4. Plain(list)'
      BY <2>2, <3>1 DEF Follows, Plain
    <3> QED BY <1>6, <2>2, <3>1, <3>3, <3>4 DEF ListInv
  <2>3. CASE Follows(l1, read, n) /\ ~(n < MaxPerTick /\ cmp.gone)
    <3>1. list' = l1
      BY <1>3, <2>3
    <3>2. Plain(list)' /\ list'.rx /\ list'.analyzing
      BY <2>3, <3>1 DEF Follows, Plain
    <3> QED BY <1>4, <1>6, <1>8, <2>3, <3>1, <3>2 DEF ListInv
  <2> QED BY <1>4, <2>1, <2>2, <2>3
<1> QED BY <1>7, <1>9 DEF ComparisonInv

\* What the keys change of the list: what is shown of it, and the selection.
LEMMA KeyKeeps ==
  ASSUME ComparisonInv, UNCHANGED <<cmp, lost>>, list' \in Lists,
         list'.names = list.names, list'.status = list.status,
         list'.rx = list.rx, list'.analyzing = list.analyzing
  PROVE  ComparisonInv'
<1>1. SUFFICES ListInv'
  BY SameResults DEF ComparisonInv, CmpInv
<1>2. Plain(list)' <=> Plain(list)
  BY DEF Plain
<1>3. Complete(list)' <=> Complete(list)
  BY SameResults DEF Complete
<1> QED BY <1>2, <1>3 DEF ComparisonInv, ListInv

LEMMA SelectKeeps ==
  ASSUME ComparisonInv, NEW i \in 0..Cardinality(Names) - 1, Select(i)
  PROVE  ComparisonInv'
<1>1. list' = [list EXCEPT !.selected = i] /\ i < Cardinality(list.shown)
      /\ UNCHANGED <<cmp, lost>> /\ i \in Nat
  BY Counts DEF Select, Key
<1>2. /\ list' \in Lists /\ list'.names = list.names /\ list'.status = list.status
      /\ list'.rx = list.rx /\ list'.analyzing = list.analyzing
  BY <1>1 DEF ComparisonInv, ListInv, Lists
<1> QED BY <1>1, <1>2, KeyKeeps

LEMMA SearchKeeps ==
  ASSUME ComparisonInv, NEW query \in Filters, Search(query)
  PROVE  ComparisonInv'
<1> DEFINE l == [list EXCEPT !.query = query]
<1>1. list' = UpdateSearch(l) /\ UNCHANGED <<cmp, lost>>
  BY DEF Search, Key
<1>2. /\ l \in [names : SUBSET Names, status : StatusMaps, query : SUBSET Names,
                shown : SUBSET Names, selected : Nat, analyzing : BOOLEAN, rx : BOOLEAN]
      /\ l.names = list.names /\ l.status = list.status /\ l.rx = list.rx
      /\ l.analyzing = list.analyzing
  BY CodeAssumption DEF ComparisonInv, ListInv, Lists
<1> HIDE DEF l
<1>3. list' \in Lists
  BY <1>1, <1>2, SearchIsInRange
<1>4. /\ list'.names = l.names /\ list'.status = l.status
      /\ list'.rx = l.rx /\ list'.analyzing = l.analyzing
  BY <1>1, <1>2 DEF UpdateSearch
<1> QED BY <1>1, <1>2, <1>3, <1>4, KeyKeeps

LEMMA DeepSearchKeeps ==
  ASSUME ComparisonInv, NEW found \in SUBSET NamesOf(1), DeepSearch(found)
  PROVE  ComparisonInv'
<1> DEFINE shown == list.shown \cup (found \cap list.names)
           selected == IF list.selected >= Cardinality(shown) THEN 0 ELSE list.selected
<1>1. list' = [list EXCEPT !.shown = shown, !.selected = selected]
      /\ UNCHANGED <<cmp, lost>>
  BY DEF DeepSearch, Key
<1>2. list \in Lists
  BY DEF ComparisonInv, ListInv
<1>3. shown \in SUBSET Names /\ Cardinality(shown) \in Nat /\ list.selected \in Nat
  BY <1>2, Counts DEF Lists
<1>4. selected \in Nat /\ (selected = 0 \/ selected < Cardinality(shown))
  BY <1>3
<1> HIDE DEF shown, selected
<1>5. /\ list' \in Lists /\ list'.names = list.names /\ list'.status = list.status
      /\ list'.rx = list.rx /\ list'.analyzing = list.analyzing
  BY <1>1, <1>2, <1>3, <1>4 DEF Lists
<1> QED BY <1>1, <1>5, KeyKeeps

LEMMA ComparisonSteps ==
  ASSUME [Next]_vars
  PROVE  \/ Poll
         \/ \E n \in Names : Compare(n) \/ ComparePanics(n)
         \/ CompareFinish \/ CompareDies
         \/ \E i \in 0..Cardinality(Names) - 1 : Select(i)
         \/ \E query \in Filters : Search(query)
         \/ \E found \in SUBSET NamesOf(1) : DeepSearch(found)
         \/ UNCHANGED <<list, cmp, lost>>
BY DEF Next, vars, Draw, Keys, Key, SetView, AskForPipeline, OpenModules, ToggleColors,
   EnterGit, LeaveGit, ChangeGit, ToggleFold, Quit, Workers, Comparison, GitWorker, Build

LEMMA ComparisonStep == ComparisonInv /\ [Next]_vars => ComparisonInv'
<1> SUFFICES ASSUME ComparisonInv, [Next]_vars PROVE ComparisonInv'
  OBVIOUS
<1>1. CASE UNCHANGED <<list, cmp, lost>>
  BY <1>1, KeyKeeps DEF ComparisonInv, ListInv
<1>2. CASE Poll /\ ~list.rx
  BY <1>1, <1>2 DEF Poll
<1>3. CASE Poll /\ list.rx
  BY <1>3, PollKeeps
<1> QED BY <1>1, <1>2, <1>3, CompareKeeps, PanicKeeps, FinishKeeps, DiesKeeps, SelectKeeps,
           SearchKeeps, DeepSearchKeeps, ComparisonSteps

LEMMA ComparisonHolds == Spec => []ComparisonInv
BY ComparisonInit, ComparisonStep, PTL DEF Spec

(***************************************************************************)
(* The selection names an entry that is shown, or is the first, whatever    *)
(* messages arrive between the user's searches.                             *)
(***************************************************************************)
THEOREM SelectionStaysInRange == Spec => []SelectionInRange
<1>1. ComparisonInv => SelectionInRange
  BY DEF ComparisonInv, ListInv, Lists, SelectionInRange
<1> QED BY <1>1, ComparisonHolds, PTL

LEMMA PlainIsListed ==
  ASSUME ComparisonInv, ~list.analyzing, Plain(list), DOMAIN cmp.results \subseteq list.names
  PROVE  EveryFunctionListed
<1>1. DOMAIN list.status \subseteq Names
  BY DEF ComparisonInv, ListInv, Lists, StatusMaps
<1>2. NoneTwice
  BY <1>1, ComparedIs DEF NoneTwice, Plain
<1>3. lost = {} => DOMAIN cmp.results = Names
  BY DEF ComparisonInv, ListInv, CmpInv
<1> QED BY <1>2, <1>3 DEF EveryFunctionListed

LEMMA CompleteIsListed ==
  ASSUME ComparisonInv, ~list.analyzing, Complete(list)
  PROVE  EveryFunctionListed
<1> DEFINE results == cmp.results
           added == NamesWith(results, "added")
           removed == NamesWith(results, "removed")
<1>1. PICK by \in Renamings :
        list.names = DOMAIN list.status /\ list.status = Renamed(results, by)
  BY DEF Complete
<1> DEFINE moved == {n \in removed : Code[1][n] \in DOMAIN by}
           left == {by[Code[1][k]] : k \in moved}
<1>2. \A c \in DOMAIN by : by[c] \in added /\ Code[2][by[c]] = c
  BY DEF Renamings
<1>3. left \subseteq added /\ added \cap removed = {}
  BY <1>2 DEF NamesWith
<1>4. /\ list.names = DOMAIN results \ left
      /\ \A n \in list.names :
           list.status[n] = IF n \in moved THEN [is |-> "renamed", to |-> by[Code[1][n]]]
                            ELSE results[n]
  BY <1>1 DEF Renamed
<1>5. DOMAIN results \subseteq Names /\ \A n \in DOMAIN results : results[n].is # "renamed"
  BY ComparedIs DEF ComparisonInv, CmpInv, StatusMaps
<1> HIDE DEF left, results, added, removed
<1>6. NoneTwice
  <2> SUFFICES ASSUME NEW k \in list.names, list.status[k].is = "renamed"
               PROVE  list.status[k].to \notin list.names
    BY DEF NoneTwice
  <2>1. k \in moved
    BY <1>4, <1>5
  <2>2. list.status[k].to \in left
    <3>1. list.status[k] = [is |-> "renamed", to |-> by[Code[1][k]]]
      BY <1>4, <2>1
    <3> QED BY <2>1, <3>1 DEF left
  <2> QED BY <1>4, <2>2
<1>7. ASSUME lost = {}, NEW n \in Names
      PROVE  \/ n \in list.names
             \/ \E k \in list.names \cap DOMAIN list.status :
                  /\ list.status[k] = [is |-> "renamed", to |-> n]
                  /\ Code[1][k] = Code[2][n]
  <2>1. n \in DOMAIN results
    BY <1>7 DEF ComparisonInv, ListInv, CmpInv, results
  <2>2. CASE n \in left
    <3>1. PICK k \in moved : n = by[Code[1][k]]
      BY <2>2 DEF left
    <3>2. k \in list.names /\ k \in DOMAIN list.status
      BY <1>1, <1>3, <1>4 DEF removed, NamesWith
    <3>3. Code[2][n] = Code[1][k]
      BY <1>2, <3>1
    <3>4. list.status[k] = [is |-> "renamed", to |-> n]
      BY <1>4, <3>1, <3>2
    <3> QED BY <3>2, <3>3, <3>4
  <2>3. CASE n \notin left
    BY <1>4, <2>1, <2>3
  <2> QED BY <2>2, <2>3
<1> QED BY <1>6, <1>7 DEF EveryFunctionListed

(***************************************************************************)
(* When the comparison is over and lost no name, every function of both      *)
(* files is in the list, or is the new name of one that is and has its code; *)
(* none is there twice.  For any number of threads, however many of them     *)
(* panic, and in whatever portions the messages are read.                    *)
(***************************************************************************)
THEOREM AllFunctionsListed == Spec => []EveryFunctionListed
<1>1. ASSUME ComparisonInv PROVE EveryFunctionListed
  <2>1. CASE list.analyzing
    BY <2>1 DEF EveryFunctionListed, NoneTwice
  <2>2. CASE ~list.analyzing
    BY <1>1, <2>2, PlainIsListed, CompleteIsListed DEF ComparisonInv, ListInv
  <2> QED BY <2>1, <2>2
<1> QED BY <1>1, ComparisonHolds, PTL

----------------------------------------------------------------------------
(* The order of the functions in the git diff. *)

LEMMA SortedNames ==
  ASSUME NEW S \in SUBSET Names
  PROVE  Sorted(S) \in Seq(Names)
<1>1. IsFiniteSet(S) /\ S \in SUBSET Nat /\ \A x \in S : x # 0
  BY CodeAssumption, FS_Subset DEF None
<1>2. PICK n \in Nat : \A x \in S : x <= n
  BY <1>1, HasBound
<1>3. S \in SUBSET (1..n)
  BY <1>1, <1>2
<1>4. Sorted(S) \in [1..Cardinality(S) -> S] /\ Cardinality(S) \in Nat
  BY <1>3, SortedIn, Upto
<1> QED BY <1>4, FunIsSeq

LEMMA GitNamesAre == GitNames \in Seq(Names)
<1>1. Sorted(NamesOf(1)) \in Seq(Names) /\ Sorted(NamesOf(2) \ NamesOf(1)) \in Seq(Names)
  BY SortedNames DEF Names
<1> QED BY <1>1, ConcatProperties DEF GitNames

----------------------------------------------------------------------------
(* The rows of the git diff. *)
Total == Len(GitNames)
Row(job, i) == [fn |-> GitNames[(i + 1) \div 2], head |-> i % 2 = 1, job |-> job]

\* The rows of the first k functions, and those of the functions after a up to b.
Part(job, k) == [i \in 1..2 * k |-> Row(job, i)]
Portion(job, a, b) == [i \in 1..2 * (b - a) |-> Row(job, 2 * a + i)]

LEMMA TotalIs == Total \in Nat
BY GitNamesAre DEF Total

LEMMA WholeIs ==
  ASSUME NEW job
  PROVE  RowsFor(GitNames, job) = Part(job, Total)
BY DEF RowsFor, Part, Row, Total

LEMMA RowIs ==
  ASSUME NEW job \in Jobs, NEW i \in 1..2 * Total
  PROVE  Row(job, i) \in Rows
<1>1. (i + 1) \div 2 \in 1..Total
  BY TotalIs
<1>2. GitNames[(i + 1) \div 2] \in Names
  BY <1>1, GitNamesAre DEF Total
<1> QED BY <1>2 DEF Row, Rows

LEMMA PartIs ==
  ASSUME NEW job \in Jobs, NEW k \in 0..Total
  PROVE  /\ Part(job, k) \in Seq(Rows) /\ Len(Part(job, k)) = 2 * k
         /\ \A i \in 1..2 * k : Part(job, k)[i] = Row(job, i)
<1>1. \A i \in 1..2 * k : Row(job, i) \in Rows
  BY RowIs, TotalIs
<1>2. 2 * k \in Nat /\ Part(job, k) \in [1..2 * k -> Rows]
  BY <1>1, TotalIs DEF Part
<1>3. \A i \in 1..2 * k : Part(job, k)[i] = Row(job, i)
  BY DEF Part
<1> QED BY <1>2, <1>3, FunIsSeq

LEMMA PortionIs ==
  ASSUME NEW job \in Jobs, NEW b \in 0..Total, NEW a \in 0..b
  PROVE  /\ Portion(job, a, b) \in Seq(Rows) /\ Len(Portion(job, a, b)) = 2 * (b - a)
         /\ DOMAIN Portion(job, a, b) = 1..2 * (b - a)
         /\ \A i \in 1..2 * (b - a) : Portion(job, a, b)[i] = Row(job, 2 * a + i)
<1>1. \A i \in 1..2 * (b - a) : 2 * a + i \in 1..2 * Total
  BY TotalIs
<1>2. 2 * (b - a) \in Nat /\ Portion(job, a, b) \in [1..2 * (b - a) -> Rows]
  BY <1>1, RowIs, TotalIs DEF Portion
<1>3. \A i \in 1..2 * (b - a) : Portion(job, a, b)[i] = Row(job, 2 * a + i)
  BY DEF Portion
<1> QED BY <1>2, <1>3, FunIsSeq

LEMMA PartGrows ==
  ASSUME NEW job \in Jobs, NEW b \in 0..Total, NEW a \in 0..b
  PROVE  Part(job, a) \o Portion(job, a, b) = Part(job, b)
<1> DEFINE p == Part(job, a)
           q == Portion(job, a, b)
           r == Part(job, b)
<1>1. a \in Nat /\ b \in Nat /\ a <= b /\ b <= Total /\ a \in 0..Total
  BY TotalIs
<1>2. /\ p \in Seq(Rows) /\ Len(p) = 2 * a /\ \A i \in 1..2 * a : p[i] = Row(job, i)
      /\ r \in Seq(Rows) /\ Len(r) = 2 * b /\ \A i \in 1..2 * b : r[i] = Row(job, i)
  BY <1>1, PartIs
<1>3. /\ q \in Seq(Rows) /\ Len(q) = 2 * (b - a)
      /\ \A i \in 1..2 * (b - a) : q[i] = Row(job, 2 * a + i)
  BY PortionIs
<1> HIDE DEF p, q, r
<1>4. /\ p \o q \in Seq(Rows) /\ Len(p \o q) = 2 * b
      /\ \A i \in 1..2 * b : (p \o q)[i] = IF i <= 2 * a THEN p[i] ELSE q[i - 2 * a]
  <2>1. Len(p) + Len(q) = 2 * b
    BY <1>1, <1>2, <1>3
  <2>2. /\ p \o q \in Seq(Rows) /\ Len(p \o q) = Len(p) + Len(q)
        /\ \A i \in 1..Len(p) + Len(q) :
             (p \o q)[i] = IF i <= Len(p) THEN p[i] ELSE q[i - Len(p)]
    BY <1>2, <1>3, ConcatProperties
  <2> QED BY <1>2, <2>1, <2>2
<1>5. ASSUME NEW i \in 1..2 * b PROVE (p \o q)[i] = r[i]
  <2>1. CASE i <= 2 * a
    BY <1>1, <1>2, <1>4, <2>1
  <2>2. CASE i > 2 * a
    <3>1. i - 2 * a \in 1..2 * (b - a) /\ 2 * a + (i - 2 * a) = i
      BY <1>1, <2>2
    <3>2. q[i - 2 * a] = Row(job, i)
      BY <1>3, <3>1
    <3> QED BY <1>1, <1>2, <1>4, <2>2, <3>2
  <2>3. i <= 2 * a \/ i > 2 * a
    BY <1>1
  <2> QED BY <2>1, <2>2, <2>3
<1>6. p \o q = r
  BY <1>2, <1>4, <1>5, SeqEqual
<1> QED BY <1>6 DEF p, q, r

LEMMA ChunkRows ==
  ASSUME NEW job \in Jobs, NEW b \in 0..Total, NEW a \in 0..b
  PROVE  RowsFor(SubSeq(GitNames, a + 1, b), job) = Portion(job, a, b)
<1> DEFINE names == SubSeq(GitNames, a + 1, b)
<1>1. a \in Nat /\ b \in Nat /\ a <= b /\ b <= Len(GitNames)
  BY TotalIs DEF Total
<1>2. Len(names) = b - a /\ \A j \in 1..b - a : names[j] = GitNames[j + a]
  BY <1>1, GitNamesAre, Rest
<1> HIDE DEF names
<1>3. ASSUME NEW i \in 1..2 * (b - a)
      PROVE  /\ names[(i + 1) \div 2] = GitNames[(2 * a + i + 1) \div 2]
             /\ (i % 2 = 1) = ((2 * a + i) % 2 = 1)
  <2>1. (i + 1) \div 2 \in 1..b - a /\ (2 * a + i + 1) \div 2 = (i + 1) \div 2 + a
    BY <1>1
  <2> QED BY <1>1, <1>2, <2>1
<1>4. RowsFor(names, job) = Portion(job, a, b)
  BY <1>2, <1>3 DEF RowsFor, Portion, Row
<1> QED BY <1>4 DEF names

----------------------------------------------------------------------------
(* The chunks of the worker. *)
\* Chunk k has the functions after Pos(k - 1) up to Pos(k).
Full == Total \div ChunkLen
Pos(k) == Min({k * ChunkLen, Total})

LEMMA FullIs ==
  /\ Full \in Nat /\ Full * ChunkLen <= Total /\ Total < (Full + 1) * ChunkLen
<1>1. Total \in Nat /\ ChunkLen \in Nat \ {0}
  BY TotalIs, CodeAssumption
<1>2. Full \in Nat /\ Total = (ChunkLen * Full) + (Total % ChunkLen)
      /\ Total % ChunkLen \in 0..ChunkLen - 1
  BY <1>1 DEF Full
<1>3. ChunkLen * Full = Full * ChunkLen /\ (Full + 1) * ChunkLen = Full * ChunkLen + ChunkLen
      /\ Full * ChunkLen \in Nat
  BY <1>1, <1>2
<1> QED BY <1>1, <1>2, <1>3

LEMMA Products ==
  ASSUME NEW j \in Nat, NEW k \in Nat, j <= k
  PROVE  /\ j * ChunkLen \in Nat /\ k * ChunkLen \in Nat /\ j * ChunkLen <= k * ChunkLen
         /\ (j + 1) * ChunkLen = j * ChunkLen + ChunkLen
<1>1. ChunkLen \in Nat
  BY CodeAssumption
<1> QED BY <1>1

LEMMA PosIs ==
  ASSUME NEW k \in 0..Full + 1
  PROVE  /\ Pos(k) \in 0..Total
         /\ k <= Full => Pos(k) = k * ChunkLen
         /\ k = Full + 1 => Pos(k) = Total
         /\ k # 0 => Pos(k - 1) <= Pos(k)
<1>1. /\ Full \in Nat /\ k \in Nat /\ k <= Full + 1 /\ Total \in Nat
      /\ Full * ChunkLen <= Total /\ Total < (Full + 1) * ChunkLen
  BY FullIs, TotalIs
<1>2. k * ChunkLen \in Nat
  BY <1>1, Products
<1>3. Pos(k) = IF k * ChunkLen <= Total THEN k * ChunkLen ELSE Total
  BY <1>1, <1>2, MinOfTwo DEF Pos
<1>4. CASE k <= Full
  <2>1. k * ChunkLen <= Total
    <3>1. k * ChunkLen <= Full * ChunkLen /\ Full * ChunkLen \in Nat
      BY <1>1, <1>4, Products
    <3> QED BY <1>1, <1>2, <3>1
  <2>2. Pos(k) = k * ChunkLen
    BY <1>3, <2>1
  <2>3. ASSUME k # 0 PROVE Pos(k - 1) <= Pos(k)
    <3>1. k - 1 \in Nat /\ k - 1 <= k
      BY <1>1, <2>3
    <3>2. (k - 1) * ChunkLen \in Nat /\ (k - 1) * ChunkLen <= k * ChunkLen
      BY <1>1, <3>1, Products
    <3>3. Pos(k - 1) = (k - 1) * ChunkLen
      <4>1. (k - 1) * ChunkLen <= Total
        BY <1>1, <1>2, <2>1, <3>2
      <4> QED BY <1>1, <3>2, <4>1, MinOfTwo DEF Pos
    <3> QED BY <2>2, <3>2, <3>3
  <2> QED BY <1>1, <1>2, <1>4, <2>1, <2>2, <2>3
<1>5. CASE k = Full + 1
  <2>1. Pos(k) = Total
    <3>1. ~(k * ChunkLen <= Total)
      BY <1>1, <1>2, <1>5
    <3> QED BY <1>3, <3>1
  <2>2. Pos(k - 1) <= Total
    <3>1. k - 1 = Full /\ Full * ChunkLen \in Nat
      BY <1>1, <1>5, Products
    <3>2. Pos(Full) = Full * ChunkLen
      BY <1>1, <3>1, MinOfTwo DEF Pos
    <3> QED BY <1>1, <3>1, <3>2
  <2> QED BY <1>1, <1>5, <2>1, <2>2
<1> QED BY <1>1, <1>4, <1>5

MessageAt(job, k) ==
  IF k <= Full + 1
  THEN [done |-> FALSE, rows |-> Portion(job, Pos(k - 1), Pos(k))]
  ELSE [done |-> TRUE, rows |-> <<>>]

\* What the worker puts together for its chunk is that message.
LEMMA ChunkIs ==
  ASSUME NEW job \in Jobs, NEW k \in 1..Full + 1, NEW from, NEW to,
         from = (k - 1) * ChunkLen + 1, to = Min({from + ChunkLen - 1, Total})
  PROVE  [done |-> FALSE, rows |-> RowsFor(SubSeq(GitNames, from, to), job)] = MessageAt(job, k)
<1>1. Full \in Nat /\ k \in Nat /\ k - 1 \in 0..Full /\ k \in 0..Full + 1 /\ k <= Full + 1
      /\ Total \in Nat /\ k - 1 \in Nat /\ (k - 1) + 1 = k /\ k - 1 <= k /\ k # 0
      /\ k - 1 \in 0..Full + 1 /\ k - 1 <= Full
  BY FullIs, TotalIs
<1>2. (k - 1) * ChunkLen \in Nat /\ k * ChunkLen = (k - 1) * ChunkLen + ChunkLen
      /\ k * ChunkLen \in Nat
  BY <1>1, Products
<1>3. from = Pos(k - 1) + 1
  BY <1>1, PosIs
<1>4. to = Pos(k)
  <2>1. from + ChunkLen - 1 = k * ChunkLen
    BY <1>2, CodeAssumption
  <2> QED BY <2>1 DEF Pos
<1>5. Pos(k) \in 0..Total /\ Pos(k - 1) \in 0..Pos(k)
  <2>1. Pos(k) \in 0..Total /\ Pos(k - 1) \in 0..Total /\ Pos(k - 1) <= Pos(k)
    BY <1>1, PosIs
  <2> QED BY <1>1, <2>1
<1>6. RowsFor(SubSeq(GitNames, Pos(k - 1) + 1, Pos(k)), job) = Portion(job, Pos(k - 1), Pos(k))
  BY <1>5, ChunkRows
<1> QED BY <1>1, <1>3, <1>4, <1>6 DEF MessageAt

----------------------------------------------------------------------------
(* What is visible. *)
Visible(k, folded) == {i \in 1..2 * k : i % 2 = 1 \/ i - 1 \notin folded}

\* The header above a row is the row itself, or the one before it.
LEMMA HeadIs ==
  ASSUME NEW job \in Jobs, NEW k \in 0..Total, NEW i \in 1..2 * k
  PROVE  Part(job, k)[i].head = (i % 2 = 1)
<1>1. Part(job, k)[i] = Row(job, i)
  BY PartIs
<1>2. Row(job, i).head = (i % 2 = 1)
  BY DEF Row
<1> QED BY <1>1, <1>2, Zenon

LEMMA HeaderIs ==
  ASSUME NEW job \in Jobs, NEW k \in 0..Total, NEW i \in 1..2 * k
  PROVE  Max({j \in 1..i : Part(job, k)[j].head}) = IF i % 2 = 1 THEN i ELSE i - 1
<1> DEFINE S == {j \in 1..i : Part(job, k)[j].head}
<1>1. k \in Nat /\ i \in Nat /\ i >= 1 /\ i <= 2 * k
  BY TotalIs
<1>2. \A j \in 1..i : j \in 1..2 * k
  BY <1>1
<1>3. \A j \in 1..i : Part(job, k)[j].head = (j % 2 = 1)
  BY <1>2, HeadIs
<1>4. S \in SUBSET Int /\ \A j \in 1..i : j \in S <=> j % 2 = 1
  <2>1. S \in SUBSET Int
    BY <1>1
  <2>2. \A j \in 1..i : j \in S <=> Part(job, k)[j].head
    OBVIOUS
  <2> HIDE DEF S
  <2> QED BY <1>3, <2>1, <2>2
<1>5. \A j \in S : j \in 1..i
  OBVIOUS
<1> HIDE DEF S
<1>6. CASE i % 2 = 1
  <2>1. i \in S /\ \A y \in S : i >= y
    BY <1>1, <1>4, <1>5, <1>6
  <2>2. Max(S) = i
    BY <1>4, <2>1, MaxIs
  <2> QED BY <1>6, <2>2 DEF S
<1>7. CASE i % 2 # 1
  <2>1. i - 1 \in 1..i /\ (i - 1) % 2 = 1
    BY <1>1, <1>7
  <2>2. i - 1 \in S
    BY <1>4, <2>1
  <2>3. ASSUME NEW y \in S PROVE i - 1 >= y
    <3>1. y # i
      BY <1>4, <1>5, <1>7
    <3> QED BY <1>1, <1>5, <3>1
  <2>4. Max(S) = i - 1
    BY <1>4, <2>2, <2>3, MaxIs
  <2> QED BY <1>7, <2>4 DEF S
<1> QED BY <1>6, <1>7

LEMMA VisibleIs ==
  ASSUME NEW job \in Jobs, NEW k \in 0..Total, NEW folded
  PROVE  VisibleRows(Part(job, k), folded) = Sorted(Visible(k, folded))
<1> DEFINE p == Part(job, k)
           S == {i \in DOMAIN p : p[i].head \/ Max({j \in 1..i : p[j].head}) \notin folded}
<1>1. DOMAIN p = 1..2 * k
  BY DEF Part
<1>2. ASSUME NEW i \in 1..2 * k
      PROVE  (p[i].head \/ Max({j \in 1..i : p[j].head}) \notin folded)
             <=> (i % 2 = 1 \/ i - 1 \notin folded)
  <2>1. p[i].head = (i % 2 = 1)
    BY HeadIs
  <2>2. Max({j \in 1..i : p[j].head}) = IF i % 2 = 1 THEN i ELSE i - 1
    BY HeaderIs
  <2> QED BY <2>1, <2>2
<1>3. S = Visible(k, folded)
  BY <1>1, <1>2 DEF Visible
<1> QED BY <1>3 DEF VisibleRows

LEMMA VisibleIn ==
  ASSUME NEW k \in Nat, NEW folded
  PROVE  /\ Visible(k, folded) \in SUBSET (1..2 * k) /\ 2 * k \in Nat
         /\ Sorted(Visible(k, folded)) \in Seq(Visible(k, folded))
         /\ Range(Sorted(Visible(k, folded))) \subseteq Visible(k, folded)
<1>1. Visible(k, folded) \in SUBSET (1..2 * k) /\ 2 * k \in Nat
  BY DEF Visible
<1>2. Sorted(Visible(k, folded)) \in [1..Cardinality(Visible(k, folded)) -> Visible(k, folded)]
      /\ Cardinality(Visible(k, folded)) \in Nat
  BY <1>1, SortedIn, Upto
<1> QED BY <1>1, <1>2, FunIsSeq DEF Range

\* Rows appended while all folded headers are above them are all visible, and last.
LEMMA VisibleGrows ==
  ASSUME NEW b \in Nat, NEW a \in 0..b, NEW folded \in SUBSET (1..2 * a)
  PROVE  Sorted(Visible(b, folded)) =
           Sorted(Visible(a, folded)) \o [i \in 1..2 * (b - a) |-> 2 * a + i]
<1> DEFINE A == Visible(a, folded)
           n == 2 * a
           k == 2 * (b - a)
           e == [i \in 1..k |-> n + i]
           c == Cardinality(A)
           s == Sorted(A)
           t == Sorted(Visible(b, folded))
<1>1. a \in Nat /\ n \in Nat /\ k \in Nat /\ n + k = 2 * b /\ a <= b
  OBVIOUS
<1>2. Visible(b, folded) = A \cup (n + 1..n + k)
  <2>1. \A i \in 1..2 * b : i \in 1..n \/ i \in n + 1..n + k
    OBVIOUS
  <2>2. \A i \in n + 1..n + k : i \in 1..2 * b /\ i \notin 1..n /\ (i % 2 = 1 \/ i - 1 \notin folded)
    <3> SUFFICES ASSUME NEW i \in n + 1..n + k, i % 2 # 1 PROVE i \in 1..2 * b /\ i - 1 \notin 1..2 * a
      OBVIOUS
    <3>1. i % 2 # 1 => i # 2 * a + 1
      OBVIOUS
    <3> QED BY <1>1, <3>1
  <2>3. \A i \in 1..n : i \in 1..2 * b
    OBVIOUS
  <2> HIDE DEF n, k
  <2> QED BY <2>1, <2>2, <2>3 DEF Visible, n
<1>3. A \in SUBSET (1..n) /\ s \in [1..c -> A] /\ c \in Nat
  <2>1. A \in SUBSET (1..n)
    BY <1>1, VisibleIn
  <2> HIDE DEF A, n
  <2> QED BY <1>1, <2>1, SortedIn, Upto
<1>4. t = [i \in 1..c + k |-> IF i <= c THEN s[i] ELSE n + (i - c)]
  <2>1. A \in SUBSET (1..n) /\ n \in Nat /\ k \in Nat
    BY <1>1, <1>3
  <2> HIDE DEF A, n, k
  <2> QED BY <1>2, <2>1, SortedAppends
<1> HIDE DEF A, s, t, c
<1>5. s \in Seq(Nat) /\ Len(s) = c
  <2>1. A \in SUBSET Nat
    <3>1. 1..n \in SUBSET Nat
      OBVIOUS
    <3> HIDE DEF n
    <3> QED BY <1>3, <3>1
  <2>2. s \in [1..c -> Nat]
    BY <1>3, <2>1
  <2> QED BY <1>3, <2>2, FunIsSeq
<1>6. e \in Seq(Nat) /\ Len(e) = k /\ \A i \in 1..k : e[i] = n + i
  <2>1. e \in [1..k -> Nat]
    BY <1>1
  <2>2. \A i \in 1..k : e[i] = n + i
    OBVIOUS
  <2> HIDE DEF e, k, n
  <2> QED BY <1>1, <2>1, <2>2, FunIsSeq
<1>7. t \in Seq(Nat) /\ Len(t) = c + k
  <2>1. t \in [1..c + k -> Nat] /\ c + k \in Nat
    <3> SUFFICES ASSUME NEW i \in 1..c + k PROVE (IF i <= c THEN s[i] ELSE n + (i - c)) \in Nat
      BY <1>1, <1>3, <1>4
    <3>1. CASE i <= c
      <4>1. i \in 1..c
        BY <1>3, <3>1
      <4>2. s[i] \in Nat
        BY <1>5, <4>1
      <4> QED BY <3>1, <4>2
    <3>2. CASE ~(i <= c)
      BY <1>1, <1>3, <3>2
    <3> QED BY <3>1, <3>2
  <2> QED BY <2>1, FunIsSeq
<1> HIDE DEF e, n, k
<1>8. s \o e \in Seq(Nat) /\ Len(s \o e) = c + k
      /\ \A i \in 1..c + k : (s \o e)[i] = IF i <= c THEN s[i] ELSE e[i - c]
  BY <1>5, <1>6, ConcatProperties
<1>9. ASSUME NEW i \in 1..c + k PROVE t[i] = (s \o e)[i]
  <2>1. CASE i <= c
    BY <1>4, <1>8, <2>1
  <2>2. CASE ~(i <= c)
    <3>1. i - c \in 1..k
      BY <1>1, <1>3, <2>2
    <3> QED BY <1>4, <1>6, <1>8, <2>2, <3>1
  <2> QED BY <2>1, <2>2
<1>10. t = s \o e
  BY <1>7, <1>8, <1>9, SeqEqual
<1> QED BY <1>10 DEF t, s, e, A, n, k

----------------------------------------------------------------------------
(* The git diff: what is shown, and what is in the channel.                 *)
GitMessages == [done : BOOLEAN, rows : Seq(Rows)]
Channels == [open : BOOLEAN, next : Nat, sent : Seq(GitMessages),
             phase : {"rows", "done", "gone"}, job : Jobs]
GitStates == [on : BOOLEAN, job : Jobs, rows : Seq(Rows), visible : Seq(Nat),
              folded : SUBSET Nat, computing : BOOLEAN, built : Kinds \cup {"nothing"},
              rx : Channels]

\* The rows of the first k functions are there, and those visible that should be.
Shows(g, k) ==
  /\ g.rows = Part(g.job, k) /\ g.folded \subseteq 1..2 * k
  /\ g.visible = Sorted(Visible(k, g.folded))

\* No worker: nothing has been built, or everything.
Idle(g) ==
  /\ g.rx = NoGitRx /\ ~g.computing
  /\ \/ g.built = "nothing" /\ Shows(g, 0)
     \/ g.built = g.job.kind /\ Shows(g, Total)

\* The first r chunks of a worker for the job that is chosen have been read.
Reads(g, r) ==
  /\ g.rx.open /\ g.computing /\ g.built = "nothing" /\ g.rx.job = g.job
  /\ Shows(g, Pos(r))

\* The channel holds the messages after those, and the worker is where they end.
Channel(rx, r) ==
  /\ \A i \in 1..Len(rx.sent) : rx.sent[i] = MessageAt(rx.job, r + i)
  /\ rx.phase = "rows" => rx.next = r + Len(rx.sent) + 1 /\ rx.next <= Full + 1
  /\ rx.phase = "done" => r + Len(rx.sent) = Full + 1
  /\ rx.phase = "gone" => r + Len(rx.sent) = Full + 2

Good(g) ==
  /\ g \in GitStates
  /\ Idle(g) \/ \E r \in 0..Full + 1 : Reads(g, r) /\ Channel(g.rx, r)

LEMMA MessageIs ==
  ASSUME NEW job \in Jobs, NEW k \in 1..Full + 2
  PROVE  /\ MessageAt(job, k) \in GitMessages
         /\ k <= Full + 1 => /\ ~MessageAt(job, k).done
                             /\ MessageAt(job, k).rows = Portion(job, Pos(k - 1), Pos(k))
         /\ k = Full + 2 => MessageAt(job, k).done
<1>1. Full \in Nat /\ Total \in Nat
  BY FullIs, TotalIs
<1>2. CASE k <= Full + 1
  <2>1. k \in 0..Full + 1 /\ k - 1 \in 0..Full + 1 /\ k # 0 /\ k # Full + 2
    BY <1>1, <1>2
  <2>2. Pos(k) \in 0..Total /\ Pos(k - 1) \in 0..Total /\ Pos(k - 1) <= Pos(k)
    BY <2>1, PosIs
  <2>3. Pos(k - 1) \in 0..Pos(k)
    BY <1>1, <2>2
  <2>4. Portion(job, Pos(k - 1), Pos(k)) \in Seq(Rows)
    BY <2>2, <2>3, PortionIs
  <2> QED BY <1>2, <2>1, <2>4 DEF MessageAt, GitMessages
<1>3. CASE k = Full + 2
  <2>1. ~(k <= Full + 1)
    BY <1>1, <1>3
  <2> QED BY <1>3, <2>1 DEF MessageAt, GitMessages
<1> QED BY <1>1, <1>2, <1>3

LEMMA GotIs ==
  ASSUME NEW g \in GitStates, NEW m \in GitMessages
  PROVE  GotRows(g, m) \in GitStates
<1>1. CASE m.done
  <2>1. NoGitRx \in Channels
    BY DEF NoGitRx, Channels, Jobs, Kinds
  <2>2. g.job.kind \in Kinds
    BY DEF GitStates, Jobs
  <2> QED BY <1>1, <2>1, <2>2 DEF GotRows, GitStates
<1>2. CASE ~m.done
  <2> DEFINE new == [i \in DOMAIN m.rows |-> Len(g.rows) + i]
  <2>1. m.rows \in Seq(Rows) /\ g.rows \in Seq(Rows) /\ g.visible \in Seq(Nat)
    BY DEF GitStates, GitMessages
  <2>2. new \in Seq(Nat)
    <3>1. Len(g.rows) \in Nat /\ Len(m.rows) \in Nat /\ DOMAIN m.rows = 1..Len(m.rows)
      BY <2>1
    <3>2. new \in [1..Len(m.rows) -> Nat]
      BY <3>1
    <3> HIDE DEF new
    <3> QED BY <3>1, <3>2, FunIsSeq
  <2> HIDE DEF new
  <2>3. g.rows \o m.rows \in Seq(Rows) /\ g.visible \o new \in Seq(Nat)
    BY <2>1, <2>2, ConcatProperties
  <2>4. GotRows(g, m) = [g EXCEPT !.rows = g.rows \o m.rows, !.visible = g.visible \o new]
    BY <1>2 DEF GotRows, new
  <2> QED BY <2>3, <2>4 DEF GitStates
<1> QED BY <1>1, <1>2

LEMMA GotFold ==
  ASSUME NEW g \in GitStates, NEW msgs \in Seq(GitMessages)
  PROVE  \E F \in [0..Len(msgs) -> GitStates] :
           /\ F[0] = g
           /\ \A k \in 1..Len(msgs) : F[k] = GotRows(F[k - 1], msgs[k])
           /\ FoldLeft(GotRows, g, msgs) = F[Len(msgs)]
<1> DEFINE n == Len(msgs)
           D == DOMAIN msgs
           step == [p \in GitStates \X (1..n) |-> GotRows(p[1], msgs[p[2]])]
           rec(f) == [s \in SUBSET D |-> IF s = {} THEN g
                                         ELSE GotRows(f[s \ {Max(s)}], msgs[Max(s)])]
           it == CHOOSE f : f = rec(f)
<1>1. n \in Nat /\ D = 1..n /\ \A k \in 1..n : msgs[k] \in GitMessages
  OBVIOUS
<1>2. step \in Steps(GitStates, n)
  BY <1>1, GotIs DEF Steps
<1>3. FoldLeft(GotRows, g, msgs) = it[D]
  BY DEF FoldLeft, MapThenFoldSet
<1>4. ASSUME NEW s \in SUBSET (1..n), s # {} PROVE Max(s) \in 1..n
  BY <1>1, <1>4, MaxIn
<1>5. ASSUME NEW a \in GitStates, NEW k \in 1..n PROVE step[<<a, k>>] = GotRows(a, msgs[k])
  OBVIOUS
<1> HIDE DEF step, D, it, n
<1>6. PICK h : IsFold(h, GitStates, g, n, step)
  BY <1>1, <1>2, FoldExists
<1>7. h = rec(h)
  <2>1. ASSUME NEW s \in SUBSET (1..n), s # {} PROVE h[s \ {Max(s)}] \in GitStates
    <3>1. s \ {Max(s)} \in SUBSET (1..n)
      OBVIOUS
    <3> QED BY <3>1, <1>6 DEF IsFold
  <2>2. h = [s \in SUBSET (1..n) |-> h[s]]
    BY <1>6 DEF IsFold
  <2>3. ASSUME NEW s \in SUBSET (1..n)
        PROVE  h[s] = IF s = {} THEN g ELSE GotRows(h[s \ {Max(s)}], msgs[Max(s)])
    BY <2>1, <1>4, <1>5, <1>6 DEF IsFold
  <2> QED BY <2>2, <2>3, <1>1
<1> HIDE DEF rec
<1>8. it = rec(it)
  BY <1>7 DEF it
<1>9. \A s \in SUBSET (1..n) :
        it[s] = IF s = {} THEN g ELSE GotRows(it[s \ {Max(s)}], msgs[Max(s)])
  BY <1>1, <1>8 DEF rec
<1>10. PICK F : IsRun(F, it, GitStates, g, n, step)
  <2>1. ASSUME NEW s \in SUBSET (1..n), s # {}, it[s \ {Max(s)}] \in GitStates
        PROVE  it[s] = step[<<it[s \ {Max(s)}], Max(s)>>]
    BY <2>1, <1>4, <1>5, <1>9
  <2>2. it[{}] = g
    BY <1>9
  <2> QED BY <1>1, <1>2, <2>1, <2>2, FoldRuns
<1>11. ASSUME NEW k \in 1..n PROVE F[k] = GotRows(F[k - 1], msgs[k])
  <2>1. k - 1 \in 0..n
    BY <1>1
  <2> QED BY <2>1, <1>5, <1>10 DEF IsRun
<1>12. n \in 0..n /\ F[n] = it[1..n]
  BY <1>1, <1>10 DEF IsRun
<1> QED BY <1>1, <1>3, <1>10, <1>11, <1>12 DEF IsRun, n

LEMMA NoneVisible == Sorted(Visible(0, {})) = <<>> /\ \A job : Part(job, 0) = <<>>
<1>1. Visible(0, {}) = {}
  BY DEF Visible
<1>2. Sorted({}) \in [1..0 -> {}]
  <2>1. {} \in SUBSET (1..0) /\ Cardinality({}) = 0
    BY FS_EmptySet
  <2> QED BY <2>1, SortedIn
<1>3. Sorted({}) \in Seq({}) /\ Len(Sorted({})) = 0
  BY <1>2, FunIsSeq
<1>4. \A job : Part(job, 0) = <<>>
  BY DEF Part
<1> QED BY <1>1, <1>3, <1>4, EmptySeq

\* A chunk that is read adds its rows, all of them visible.
LEMMA ReadsChunk ==
  ASSUME NEW g \in GitStates, NEW r \in 0..Full, Reads(g, r)
  PROVE  LET h == GotRows(g, MessageAt(g.job, r + 1)) IN
         h \in GitStates /\ Reads(h, r + 1) /\ h.rx = g.rx /\ h.job = g.job
<1> DEFINE m == MessageAt(g.job, r + 1)
           h == GotRows(g, m)
           a == Pos(r)
           b == Pos(r + 1)
           p == Portion(g.job, a, b)
<1>1. Full \in Nat /\ r \in Nat /\ r + 1 \in 0..Full + 1 /\ r \in 0..Full + 1 /\ r + 1 # 0
      /\ r + 1 \in 1..Full + 2 /\ r + 1 <= Full + 1 /\ (r + 1) - 1 = r /\ Total \in Nat
  BY FullIs, TotalIs
<1>2. g.job \in Jobs
  BY DEF GitStates
<1>3. b \in 0..Total /\ a \in 0..Total /\ a \in 0..b /\ b \in Nat /\ a \in Nat
  <2>1. b \in 0..Total /\ a \in 0..Total /\ Pos((r + 1) - 1) <= b
    BY <1>1, PosIs
  <2> QED BY <1>1, <2>1
<1>4. m \in GitMessages /\ ~m.done /\ m.rows = p
  BY <1>1, <1>2, MessageIs
<1>5. g.rows = Part(g.job, a) /\ g.folded \in SUBSET (1..2 * a)
      /\ g.visible = Sorted(Visible(a, g.folded))
      /\ g.rx.open /\ g.computing /\ g.built = "nothing" /\ g.rx.job = g.job
  BY DEF Reads, Shows
<1>6. Len(g.rows) = 2 * a /\ DOMAIN p = 1..2 * (b - a)
  BY <1>2, <1>3, <1>5, PartIs, PortionIs
<1> HIDE DEF m, a, b, p
<1>7. h = [g EXCEPT !.rows = g.rows \o p,
                    !.visible = g.visible \o [i \in 1..2 * (b - a) |-> 2 * a + i]]
  BY <1>4, <1>6 DEF GotRows
<1>8. g.rows \o p = Part(g.job, b)
  BY <1>2, <1>3, <1>5, PartGrows DEF p
<1>9. g.visible \o [i \in 1..2 * (b - a) |-> 2 * a + i] = Sorted(Visible(b, g.folded))
  BY <1>3, <1>5, VisibleGrows
<1>10. h = [g EXCEPT !.rows = Part(g.job, b), !.visible = Sorted(Visible(b, g.folded))]
  BY <1>7, <1>8, <1>9
<1>11. h \in GitStates
  BY <1>4, GotIs
<1>12. /\ h.rows = Part(g.job, b) /\ h.visible = Sorted(Visible(b, g.folded))
       /\ h.job = g.job /\ h.folded = g.folded /\ h.rx = g.rx /\ h.computing = g.computing
       /\ h.built = g.built
  BY <1>10 DEF GitStates
<1>13. g.folded \subseteq 1..2 * b
  BY <1>3, <1>5
<1> HIDE DEF h
<1>14. Reads(h, r + 1)
  BY <1>5, <1>12, <1>13 DEF Reads, Shows, b
<1> QED BY <1>11, <1>12, <1>14 DEF h, m

\* The end that is read finds the whole diff there.
LEMMA ReadsEnd ==
  ASSUME NEW g \in GitStates, Reads(g, Full + 1)
  PROVE  LET h == GotRows(g, MessageAt(g.job, Full + 2)) IN
         h \in GitStates /\ Idle(h) /\ h.built = h.job.kind
<1> DEFINE m == MessageAt(g.job, Full + 2)
           h == GotRows(g, m)
<1>1. Full \in Nat /\ Full + 2 \in 1..Full + 2 /\ Full + 1 \in 0..Full + 1
  BY FullIs
<1>2. g.job \in Jobs
  BY DEF GitStates
<1>3. m \in GitMessages /\ m.done
  BY <1>1, <1>2, MessageIs
<1>4. Pos(Full + 1) = Total
  BY <1>1, PosIs
<1> HIDE DEF m
<1>5. h = [g EXCEPT !.built = g.job.kind, !.computing = FALSE, !.rx = NoGitRx]
  BY <1>3 DEF GotRows
<1>6. h \in GitStates
  BY <1>3, GotIs
<1>7. /\ h.rows = g.rows /\ h.visible = g.visible /\ h.job = g.job /\ h.folded = g.folded
      /\ h.rx = NoGitRx /\ h.computing = FALSE /\ h.built = g.job.kind
  BY <1>5 DEF GitStates
<1> HIDE DEF h
<1>8. Shows(h, Total)
  BY <1>4, <1>7 DEF Reads, Shows
<1>9. Idle(h) /\ h.built = h.job.kind
  BY <1>7, <1>8 DEF Idle
<1> QED BY <1>6, <1>9 DEF h, m

\* A request starts a worker at its first chunk, or changes nothing.
LEMMA Requested ==
  ASSUME NEW g, Good(g)
  PROVE  Good(RequestGit(g))
<1>1. g \in GitStates
  BY DEF Good
<1>2. CASE ~g.on \/ g.computing \/ g.built = g.job.kind
  BY <1>2 DEF RequestGit
<1>3. CASE ~(~g.on \/ g.computing \/ g.built = g.job.kind)
  <2> DEFINE rx == [open |-> TRUE, job |-> g.job, next |-> 1, sent |-> <<>>, phase |-> "rows"]
             h == RequestGit(g)
  <2>1. h = [g EXCEPT !.rows = <<>>, !.visible = <<>>, !.folded = {}, !.computing = TRUE,
                      !.rx = rx]
    BY <1>3 DEF RequestGit
  <2>2. g.built = "nothing" /\ g.job \in Jobs
    BY <1>1, <1>3 DEF Good, Idle, Reads, GitStates
  <2>3. rx \in Channels /\ rx.open /\ rx.job = g.job /\ rx.next = 1 /\ rx.sent = <<>>
        /\ rx.phase = "rows" /\ Len(rx.sent) = 0
    BY <2>2 DEF Channels
  <2> HIDE DEF rx
  <2>4. h \in GitStates
    <3>1. <<>> \in Seq(Rows) /\ <<>> \in Seq(Nat)
      OBVIOUS
    <3> QED BY <1>1, <2>1, <2>3, <3>1 DEF GitStates
  <2>5. /\ h.rows = <<>> /\ h.visible = <<>> /\ h.folded = {} /\ h.computing /\ h.rx = rx
        /\ h.job = g.job /\ h.built = "nothing"
    BY <1>1, <2>1, <2>2 DEF GitStates
  <2> HIDE DEF h
  <2>6. Full \in Nat /\ 0 \in 0..Full + 1 /\ 0 <= Full /\ 1 <= Full + 1
    BY FullIs
  <2>7. Pos(0) = 0
    <3>1. Pos(0) = 0 * ChunkLen
      BY <2>6, PosIs
    <3> QED BY <3>1, CodeAssumption
  <2>8. Shows(h, Pos(0))
    BY <2>5, <2>7, NoneVisible DEF Shows
  <2>9. Reads(h, 0)
    BY <2>3, <2>5, <2>8 DEF Reads
  <2>10. Channel(rx, 0)
    BY <2>3, <2>6 DEF Channel
  <2> QED BY <2>4, <2>5, <2>6, <2>9, <2>10 DEF Good, h
<1> QED BY <1>2, <1>3

\* A fold that is toggled shows the rows that are not folded any more.
LEMMA Folds ==
  ASSUME NEW g, Good(g), NEW i \in Range(g.visible), NEW folded,
         folded = IF i \in g.folded THEN g.folded \ {i} ELSE g.folded \cup {i}
  PROVE  Good([g EXCEPT !.folded = folded, !.visible = VisibleRows(g.rows, folded)])
<1> DEFINE h == [g EXCEPT !.folded = folded, !.visible = VisibleRows(g.rows, folded)]
<1>1. g \in GitStates /\ g.job \in Jobs
  BY DEF Good, GitStates
<1>2. ASSUME NEW k \in 0..Total, Shows(g, k) PROVE h \in GitStates /\ Shows(h, k)
  <2>1. k \in Nat
    BY TotalIs
  <2>2. i \in 1..2 * k
    <3>1. Range(Sorted(Visible(k, g.folded))) \subseteq Visible(k, g.folded)
          /\ Visible(k, g.folded) \in SUBSET (1..2 * k)
      BY <2>1, VisibleIn
    <3> QED BY <1>2, <3>1 DEF Shows
  <2>3. folded \in SUBSET (1..2 * k)
    BY <1>2, <2>2 DEF Shows
  <2>4. VisibleRows(g.rows, folded) = Sorted(Visible(k, folded))
    BY <1>1, <1>2, VisibleIs DEF Shows
  <2>5. VisibleRows(g.rows, folded) \in Seq(Nat) /\ folded \in SUBSET Nat
    <3>1. Visible(k, folded) \in SUBSET (1..2 * k) /\ 1..2 * k \in SUBSET Nat
          /\ Sorted(Visible(k, folded)) \in Seq(Visible(k, folded))
      BY <2>1, VisibleIn
    <3>2. Sorted(Visible(k, folded)) \in Seq(Nat)
      BY <3>1, WiderSeq
    <3> QED BY <2>3, <2>4, <3>1, <3>2
  <2>6. h \in GitStates
    BY <1>1, <2>5 DEF GitStates
  <2>7. h.rows = g.rows /\ h.job = g.job /\ h.folded = folded
        /\ h.visible = VisibleRows(g.rows, folded)
    BY <1>1 DEF GitStates
  <2> HIDE DEF h
  <2> QED BY <1>2, <2>3, <2>4, <2>6, <2>7 DEF Shows
<1>3. /\ h.rx = g.rx /\ h.computing = g.computing /\ h.built = g.built /\ h.job = g.job
  BY <1>1 DEF GitStates
<1> HIDE DEF h
<1>4. CASE Idle(g)
  <2>1. 0 \in 0..Total /\ Total \in 0..Total
    BY TotalIs
  <2> QED BY <1>2, <1>3, <1>4, <2>1 DEF Idle, Good, h
<1>5. CASE \E r \in 0..Full + 1 : Reads(g, r) /\ Channel(g.rx, r)
  <2>1. PICK r \in 0..Full + 1 : Reads(g, r) /\ Channel(g.rx, r)
    BY <1>5
  <2>2. Pos(r) \in 0..Total
    BY PosIs
  <2>3. h \in GitStates /\ Reads(h, r)
    BY <1>2, <1>3, <2>1, <2>2 DEF Reads
  <2> QED BY <1>3, <2>1, <2>3 DEF Good, h
<1> QED BY <1>4, <1>5 DEF Good

\* Entering and leaving the diff do not touch what it shows.
LEMMA Switched ==
  ASSUME NEW g, Good(g), NEW on \in BOOLEAN
  PROVE  Good([g EXCEPT !.on = on])
<1> DEFINE h == [g EXCEPT !.on = on]
<1>1. g \in GitStates
  BY DEF Good
<1>2. h \in GitStates
  BY <1>1 DEF GitStates
<1>3. /\ h.rows = g.rows /\ h.visible = g.visible /\ h.folded = g.folded /\ h.rx = g.rx
      /\ h.computing = g.computing /\ h.built = g.built /\ h.job = g.job
  BY <1>1 DEF GitStates
<1> HIDE DEF h
<1>4. \A k : Shows(g, k) => Shows(h, k)
  BY <1>3 DEF Shows
<1>5. (Idle(g) => Idle(h)) /\ \A r : Reads(g, r) => Reads(h, r)
  BY <1>3, <1>4 DEF Idle, Reads
<1>6. Good(h)
  BY <1>2, <1>3, <1>5 DEF Good
<1> QED BY <1>6 DEF h

LEMMA NoGitRxIs == NoGitRx \in Channels /\ ~NoGitRx.open /\ NoGitRx.sent = <<>>
BY DEF NoGitRx, Channels, Jobs, Kinds

\* The diff of another job starts with nothing shown and no worker.
LEMMA Changed ==
  ASSUME NEW g, Good(g), NEW job \in Jobs
  PROVE  Good(InvalidateGit([g EXCEPT !.job = job]))
<1> DEFINE h == InvalidateGit([g EXCEPT !.job = job])
<1>1. g \in GitStates
  BY DEF Good
<1>2. h = [g EXCEPT !.job = job, !.rows = <<>>, !.visible = <<>>, !.folded = {},
                    !.built = "nothing", !.rx = NoGitRx, !.computing = FALSE]
  BY <1>1 DEF InvalidateGit, GitStates
<1>3. <<>> \in Seq(Rows) /\ <<>> \in Seq(Nat)
  OBVIOUS
<1>4. h \in GitStates
  BY <1>1, <1>2, <1>3, NoGitRxIs DEF GitStates
<1>5. /\ h.rows = <<>> /\ h.visible = <<>> /\ h.folded = {} /\ h.rx = NoGitRx
      /\ h.computing = FALSE /\ h.built = "nothing" /\ h.job = job
  BY <1>1, <1>2 DEF GitStates
<1> HIDE DEF h
<1>6. Shows(h, 0)
  BY <1>5, NoneVisible DEF Shows
<1>7. Idle(h)
  BY <1>5, <1>6 DEF Idle
<1>8. Good(h)
  BY <1>4, <1>7 DEF Good
<1> QED BY <1>8 DEF h

\* The worker's next message is the one that belongs there.
LEMMA Worked ==
  ASSUME Good(git), GitWorker
  PROVE  Good(git')
<1>1. git \in GitStates /\ git.rx \in Channels /\ git.job \in Jobs /\ git.rx.open
      /\ git.rx.phase \in {"rows", "done"}
  BY DEF Good, GitStates, GitWorker, Channels
<1>2. PICK r \in 0..Full + 1 : Reads(git, r) /\ Channel(git.rx, r)
  BY <1>1, NoGitRxIs DEF Good, Idle
<1> DEFINE rx == git.rx
           c == Len(rx.sent)
           k == r + c + 1
           up == git'.rx
<1>3. rx.sent \in Seq(GitMessages) /\ c \in Nat /\ rx.next \in Nat /\ rx.job \in Jobs
      /\ rx.job = git.job /\ Full \in Nat /\ r \in Nat
  BY <1>1, <1>2, FullIs DEF Channels, Reads
<1>4. /\ k \in 1..Full + 2
      /\ rx.phase = "rows" => k = rx.next /\ k <= Full + 1
      /\ rx.phase = "done" => k = Full + 2
  BY <1>1, <1>2, <1>3 DEF Channel
<1>5. /\ git' = [git EXCEPT !.rx = up] /\ up \in Channels
      /\ up.open /\ up.job = rx.job /\ up.sent = Append(rx.sent, MessageAt(rx.job, k))
      /\ rx.phase = "rows" => up.next = k + 1
      /\ up.phase = IF rx.phase = "rows" THEN IF k <= Full THEN "rows" ELSE "done" ELSE "gone"
  <2>1. CASE rx.phase = "rows"
    <3> DEFINE from == (k - 1) * ChunkLen + 1
               to == Min({from + ChunkLen - 1, Total})
               new == [done |-> FALSE, rows |-> RowsFor(SubSeq(GitNames, from, to), rx.job)]
               phase == IF k > Full THEN "done" ELSE "rows"
               n == k + 1
    <3>1. k = rx.next /\ k \in 1..Full + 1
      BY <1>3, <1>4, <2>1
    <3>2. new = MessageAt(rx.job, k)
      BY <1>3, <3>1, ChunkIs
    <3>3. new \in GitMessages
      BY <1>3, <1>4, <3>2, MessageIs
    <3>4. git' = [git EXCEPT !.rx = [git.rx EXCEPT !.sent = Append(rx.sent, new),
                                                    !.next = n, !.phase = phase]]
      BY <1>1, <2>1, <3>1 DEF GitWorker, Full, Total, GitStates
    <3>5. n \in Nat /\ Append(rx.sent, new) \in Seq(GitMessages)
      BY <1>3, <1>4, <3>3
    <3>6. (k > Full) = ~(k <= Full)
      BY <1>3, <1>4
    <3> HIDE DEF new, k, phase
    <3> QED BY <1>1, <2>1, <3>2, <3>4, <3>5, <3>6 DEF GitStates, Channels, phase
  <2>2. CASE rx.phase = "done"
    <3> DEFINE new == [done |-> TRUE, rows |-> <<>>]
    <3>1. new = MessageAt(rx.job, k)
      BY <1>3, <1>4, <2>2 DEF MessageAt
    <3>2. new \in GitMessages
      BY <1>3, <1>4, <3>1, MessageIs
    <3>3. git' = [git EXCEPT !.rx = [git.rx EXCEPT !.sent = Append(rx.sent, new),
                                                    !.phase = "gone"]]
      BY <1>1, <2>2 DEF GitWorker, GitStates
    <3>4. Append(rx.sent, new) \in Seq(GitMessages)
      BY <1>3, <3>2
    <3> HIDE DEF new, k
    <3> QED BY <1>1, <2>2, <3>1, <3>3, <3>4 DEF GitStates, Channels
  <2> QED BY <1>1, <2>1, <2>2
<1> HIDE DEF up, k
<1>6. /\ git' \in GitStates /\ git'.rows = git.rows /\ git'.visible = git.visible
      /\ git'.folded = git.folded /\ git'.rx = up /\ git'.computing = git.computing
      /\ git'.built = git.built /\ git'.job = git.job
  BY <1>1, <1>5 DEF GitStates
<1>7. Reads(git', r)
  BY <1>2, <1>5, <1>6 DEF Reads, Shows
<1>8. Channel(up, r)
  <2>1. Len(up.sent) = c + 1 /\ up.sent[c + 1] = MessageAt(rx.job, k)
        /\ \A i \in 1..c : up.sent[i] = rx.sent[i]
    BY <1>3, <1>5, AppendProperties
  <2>2. k = r + (c + 1)
    BY <1>3 DEF k
  <2>3. ASSUME NEW i \in 1..c + 1 PROVE up.sent[i] = MessageAt(up.job, r + i)
    <3>1. CASE i = c + 1
      BY <1>5, <2>1, <2>2, <3>1
    <3>2. CASE i \in 1..c
      BY <1>2, <1>5, <2>1, <3>2 DEF Channel
    <3> QED BY <1>3, <3>1, <3>2
  <2>4. up.phase = "rows" => up.next = r + (c + 1) + 1 /\ up.next <= Full + 1
    BY <1>3, <1>4, <1>5, <2>2
  <2>5. up.phase = "done" => r + (c + 1) = Full + 1
    BY SMTT(30), <1>1, <1>3, <1>4, <1>5, <2>2
  <2>6. up.phase = "gone" => r + (c + 1) = Full + 2
    BY <1>1, <1>3, <1>4, <1>5, <2>2
  <2> QED BY <2>1, <2>3, <2>4, <2>5, <2>6 DEF Channel
<1> QED BY <1>6, <1>7, <1>8 DEF Good

\* What one poll has read, and what it leaves in the channel.
Left(g, n) == [g EXCEPT !.rx.sent = SubSeq(@, n + 1, Len(@))]

LEMMA LeftIs ==
  ASSUME NEW g \in GitStates, NEW n \in Nat, n <= Len(g.rx.sent)
  PROVE  LET h == Left(g, n) IN
         /\ h \in GitStates
         /\ h.rows = g.rows /\ h.visible = g.visible /\ h.folded = g.folded
         /\ h.computing = g.computing /\ h.built = g.built /\ h.job = g.job
         /\ h.rx = [g.rx EXCEPT !.sent = SubSeq(g.rx.sent, n + 1, Len(g.rx.sent))]
         /\ h.rx \in Channels
<1>1. g.rx \in Channels /\ g.rx.sent \in Seq(GitMessages) /\ Len(g.rx.sent) \in Nat
  BY DEF GitStates, Channels
<1> DEFINE rest == SubSeq(g.rx.sent, n + 1, Len(g.rx.sent))
           rx == [g.rx EXCEPT !.sent = rest]
           h == Left(g, n)
<1>2. rest \in Seq(GitMessages)
  BY <1>1, Rest
<1>3. h = [g EXCEPT !.rx = rx]
  BY <1>1 DEF Left, GitStates
<1> HIDE DEF rest, h
<1>4. rx \in Channels
  BY <1>1, <1>2 DEF Channels
<1> HIDE DEF rx
<1>5. /\ h \in GitStates
      /\ h.rows = g.rows /\ h.visible = g.visible /\ h.folded = g.folded
      /\ h.computing = g.computing /\ h.built = g.built /\ h.job = g.job /\ h.rx = rx
  BY <1>3, <1>4 DEF GitStates
<1> QED BY <1>4, <1>5 DEF h, rx, rest

\* While no worker runs there is nothing to read.
LEMMA PolledIdle ==
  ASSUME NEW g \in GitStates, Idle(g)
  PROVE  LET h == FoldLeft(GotRows, Left(g, 0), SubSeq(g.rx.sent, 1, 0)) IN
         Good(h) /\ ~h.rx.open
<1> DEFINE h == Left(g, 0)
           none == SubSeq(g.rx.sent, 1, 0)
<1>1. g.rx = NoGitRx /\ g.rx.sent = <<>> /\ Len(g.rx.sent) = 0
  BY NoGitRxIs DEF Idle
<1>2. /\ h \in GitStates
      /\ h.rows = g.rows /\ h.visible = g.visible /\ h.folded = g.folded
      /\ h.computing = g.computing /\ h.built = g.built /\ h.job = g.job
      /\ h.rx = [g.rx EXCEPT !.sent = SubSeq(g.rx.sent, 1, 0)]
  <2>1. 0 \in Nat /\ 0 <= Len(g.rx.sent) /\ 0 + 1 = 1
    BY <1>1
  <2>2. /\ h \in GitStates
        /\ h.rows = g.rows /\ h.visible = g.visible /\ h.folded = g.folded
        /\ h.computing = g.computing /\ h.built = g.built /\ h.job = g.job
        /\ h.rx = [g.rx EXCEPT !.sent = SubSeq(g.rx.sent, 0 + 1, Len(g.rx.sent))]
    BY <2>1, LeftIs
  <2>3. SubSeq(g.rx.sent, 0 + 1, Len(g.rx.sent)) = SubSeq(g.rx.sent, 1, 0)
    BY <1>1, <2>1, Zenon
  <2> HIDE DEF h
  <2> QED BY <2>2, <2>3
<1>3. SubSeq(<<>>, 1, 0) = <<>>
  OBVIOUS
<1>4. h.rx = NoGitRx
  BY <1>1, <1>2, <1>3 DEF NoGitRx
<1>5. none \in Seq(GitMessages) /\ Len(none) = 0
  BY <1>1, <1>3
<1> HIDE DEF h, none
<1>6. PICK F \in [0..Len(none) -> GitStates] :
        /\ F[0] = h
        /\ \A k \in 1..Len(none) : F[k] = GotRows(F[k - 1], none[k])
        /\ FoldLeft(GotRows, h, none) = F[Len(none)]
  BY <1>2, <1>5, GotFold
<1>7. FoldLeft(GotRows, h, none) = h
  BY <1>5, <1>6
<1>8. \A k : Shows(g, k) => Shows(h, k)
  BY <1>2 DEF Shows
<1>9. Idle(h)
  BY <1>2, <1>4, <1>8 DEF Idle
<1> QED BY <1>2, <1>4, <1>7, <1>9, NoGitRxIs DEF Good, h, none

\* The messages that are read are those the worker put there, in their order.
LEMMA PolledRunning ==
  ASSUME NEW g \in GitStates, NEW r \in 0..Full + 1, Reads(g, r), Channel(g.rx, r),
         NEW n \in Nat, n <= Len(g.rx.sent)
  PROVE  LET h == FoldLeft(GotRows, Left(g, n), SubSeq(g.rx.sent, 1, n)) IN
         /\ Good(h)
         /\ (h.rx.open /\ h.rx.phase = "gone") => n < Len(g.rx.sent)
<1> DEFINE sent == g.rx.sent
           c == Len(sent)
           g0 == Left(g, n)
           read == SubSeq(sent, 1, n)
           job == g.job
<1>1. /\ sent \in Seq(GitMessages) /\ c \in Nat /\ n <= c /\ Full \in Nat /\ r \in Nat
      /\ r <= Full + 1 /\ g.rx.phase \in {"rows", "done", "gone"} /\ g.rx \in Channels
      /\ job \in Jobs /\ g.rx.job = job
  BY FullIs DEF GitStates, Channels, Reads
<1>2. /\ \A i \in 1..c : sent[i] = MessageAt(job, r + i)
      /\ r + c <= Full + 2 /\ (g.rx.phase = "gone" => r + c = Full + 2)
  BY <1>1 DEF Channel
<1>3. /\ g0 \in GitStates
      /\ g0.rows = g.rows /\ g0.visible = g.visible /\ g0.folded = g.folded
      /\ g0.computing = g.computing /\ g0.built = g.built /\ g0.job = job
      /\ g0.rx = [g.rx EXCEPT !.sent = SubSeq(sent, n + 1, c)]
  BY LeftIs
<1>4. /\ read \in Seq(GitMessages) /\ Len(read) = n
      /\ \A i \in 1..n : read[i] = sent[i]
  BY <1>1, Start
<1> HIDE DEF g0, read, sent, c, job
<1>5. PICK F \in [0..n -> GitStates] :
        /\ F[0] = g0
        /\ \A k \in 1..n : F[k] = GotRows(F[k - 1], read[k])
        /\ FoldLeft(GotRows, g0, read) = F[n]
  BY <1>3, <1>4, GotFold
<1>6. /\ g0.rx.open = g.rx.open /\ g0.rx.job = g.rx.job /\ g0.rx.phase = g.rx.phase
      /\ g0.rx.next = g.rx.next /\ g0.rx.sent = SubSeq(sent, n + 1, c)
  BY <1>1, <1>3 DEF Channels
<1>7. Reads(g0, r)
  BY <1>3, <1>6 DEF Reads, Shows, job
<1>8. ASSUME NEW i \in 1..n PROVE read[i] = MessageAt(job, r + i)
  <2>1. i \in 1..c
    BY <1>1
  <2> QED BY <1>2, <1>4, <2>1
<1> DEFINE T == {k \in Nat : k <= n /\ r + k <= Full + 1 =>
                   Reads(F[k], r + k) /\ F[k].rx = g0.rx /\ F[k].job = job}
<1>9. 0 \in T
  <2>1. r + 0 = r
    BY <1>1
  <2> QED BY <1>3, <1>5, <1>7, <2>1
<1>10. ASSUME NEW k \in Nat, k \in T PROVE k + 1 \in T
  <2> SUFFICES ASSUME k + 1 <= n, r + (k + 1) <= Full + 1
               PROVE  Reads(F[k + 1], r + (k + 1)) /\ F[k + 1].rx = g0.rx /\ F[k + 1].job = job
    OBVIOUS
  <2>1. k <= n /\ r + k <= Full + 1 /\ k + 1 \in 1..n /\ k \in 0..n /\ (k + 1) - 1 = k
        /\ r + k \in 0..Full /\ (r + k) + 1 = r + (k + 1)
    BY <1>1
  <2>2. Reads(F[k], r + k) /\ F[k].rx = g0.rx /\ F[k].job = job /\ F[k] \in GitStates
    BY <1>5, <1>10, <2>1
  <2>3. F[k + 1] = GotRows(F[k], MessageAt(F[k].job, (r + k) + 1))
    BY <1>5, <1>8, <2>1, <2>2
  <2> HIDE DEF T
  <2>4. Reads(F[k + 1], (r + k) + 1) /\ F[k + 1].rx = F[k].rx /\ F[k + 1].job = F[k].job
    BY <2>1, <2>2, <2>3, ReadsChunk
  <2> QED BY <2>1, <2>2, <2>4
<1> HIDE DEF T
<1>11. \A k \in Nat : k \in T
  BY <1>9, <1>10, NatInduct
<1>12. n \in 0..n /\ F[n] \in GitStates
  BY <1>5
<1>13. CASE r + n <= Full + 1
  <2>1. Reads(F[n], r + n) /\ F[n].rx = g0.rx /\ F[n].job = job
    BY <1>11, <1>13 DEF T
  <2>2. r + n \in 0..Full + 1
    BY <1>1, <1>13
  <2>3. Len(g0.rx.sent) = c - n /\ \A i \in 1..c - n : g0.rx.sent[i] = sent[i + n]
    BY <1>1, <1>6, Rest DEF c
  <2>4. Channel(g0.rx, r + n)
    <3>1. ASSUME NEW i \in 1..c - n PROVE g0.rx.sent[i] = MessageAt(g0.rx.job, (r + n) + i)
      <4>1. i + n \in 1..c /\ r + (i + n) = (r + n) + i
        BY <1>1
      <4> QED BY <1>1, <1>2, <1>6, <2>3, <4>1
    <3>2. (r + n) + (c - n) = r + c
      BY <1>1
    <3> QED BY <1>6, <2>3, <3>1, <3>2 DEF Channel, c, sent
  <2>5. Good(F[n])
    BY <1>12, <2>1, <2>2, <2>4 DEF Good
  <2>6. F[n].rx.phase = "gone" => n < c
    BY <1>1, <1>2, <1>6, <1>13, <2>1
  <2> QED BY <1>5, <2>5, <2>6 DEF g0, read, sent, c
<1>14. CASE ~(r + n <= Full + 1)
  <2>1. r + n = Full + 2 /\ n \in 1..n /\ n - 1 \in Nat /\ n - 1 \in 0..n
        /\ r + (n - 1) = Full + 1 /\ n - 1 <= n
    BY <1>1, <1>2, <1>14
  <2>2. Reads(F[n - 1], Full + 1) /\ F[n - 1].job = job /\ F[n - 1] \in GitStates
    BY <1>5, <1>11, <2>1 DEF T
  <2>3. F[n] = GotRows(F[n - 1], MessageAt(F[n - 1].job, Full + 2))
    BY <1>5, <1>8, <2>1, <2>2
  <2>4. Idle(F[n])
    BY <2>2, <2>3, ReadsEnd
  <2>5. Good(F[n]) /\ ~F[n].rx.open
    BY <1>12, <2>4, NoGitRxIs DEF Good, Idle
  <2> QED BY <1>5, <2>5 DEF g0, read, sent
<1> QED BY <1>13, <1>14

LEMMA PolledGit ==
  ASSUME NEW g, Good(g)
  PROVE  Good(PollGit(g))
<1> DEFINE n == Min({MaxPerTick, Len(g.rx.sent)})
           h == FoldLeft(GotRows, Left(g, n), SubSeq(g.rx.sent, 1, n))
<1>1. g \in GitStates /\ g.rx.sent \in Seq(GitMessages) /\ Len(g.rx.sent) \in Nat
      /\ MaxPerTick \in Nat
  BY CodeAssumption DEF Good, GitStates, Channels
<1>2. n = IF MaxPerTick <= Len(g.rx.sent) THEN MaxPerTick ELSE Len(g.rx.sent)
  BY <1>1, MinOfTwo
<1>3. PollGit(g) = RequestGit(IF h.rx.open /\ n < MaxPerTick /\ h.rx.phase = "gone"
                              THEN [h EXCEPT !.computing = FALSE, !.rx = NoGitRx] ELSE h)
  BY DEF PollGit, Left
<1> HIDE DEF n
<1>4. Good(h) /\ ~(h.rx.open /\ n < MaxPerTick /\ h.rx.phase = "gone")
  <2>1. CASE Idle(g)
    <3>1. n = 0
      BY <1>2, <2>1, NoGitRxIs, CodeAssumption DEF Idle
    <3> QED BY <1>1, <2>1, <3>1, PolledIdle
  <2>2. CASE \E r \in 0..Full + 1 : Reads(g, r) /\ Channel(g.rx, r)
    <3>1. PICK r \in 0..Full + 1 : Reads(g, r) /\ Channel(g.rx, r)
      BY <2>2
    <3>2. n \in Nat /\ n <= Len(g.rx.sent) /\ (n < MaxPerTick => ~(n < Len(g.rx.sent)))
      BY <1>1, <1>2
    <3>3. /\ Good(h)
          /\ (h.rx.open /\ h.rx.phase = "gone") => n < Len(g.rx.sent)
      BY <1>1, <3>1, <3>2, PolledRunning
    <3> QED BY <3>2, <3>3
  <2> QED BY <2>1, <2>2 DEF Good
<1>5. PollGit(g) = RequestGit(h)
  BY <1>3, <1>4
<1> QED BY <1>4, <1>5, Requested

GitInv == Good(git)

LEMMA GitInit == Init => GitInv
<1> SUFFICES ASSUME Init PROVE Good(git)
  BY DEF GitInv
<1>1. <<>> \in Seq(Rows) /\ <<>> \in Seq(Nat)
  OBVIOUS
<1>2. git \in GitStates
  BY <1>1, NoGitRxIs DEF Init, GitStates, Jobs, Kinds
<1>3. Shows(git, 0)
  BY NoneVisible DEF Init, Shows
<1> QED BY <1>2, <1>3 DEF Good, Idle, Init

LEMMA GitSteps ==
  ASSUME [Next]_vars
  PROVE  \/ Poll \/ EnterGit \/ LeaveGit \/ GitWorker
         \/ \E job \in Jobs : ChangeGit(job)
         \/ \E i \in 1..2 * Len(GitNames) : ToggleFold(i)
         \/ UNCHANGED git
BY DEF Next, vars, Draw, Keys, Key, SetView, AskForPipeline, OpenModules, ToggleColors,
   Select, Search, DeepSearch, Quit, Workers, Comparison, Compare, CompareFinish,
   CompareDies, ComparePanics, Build

LEMMA GitStep == GitInv /\ [Next]_vars => GitInv'
<1> SUFFICES ASSUME Good(git), [Next]_vars PROVE Good(git')
  BY DEF GitInv
<1>1. CASE Poll
  BY <1>1, PolledGit DEF Poll
<1>2. CASE EnterGit
  <2>1. Good([git EXCEPT !.on = TRUE])
    BY Switched
  <2> QED BY <1>2, <2>1, Requested DEF EnterGit
<1>3. CASE LeaveGit
  BY <1>3, Switched DEF LeaveGit
<1>4. CASE GitWorker
  BY <1>4, Worked
<1>5. ASSUME NEW job \in Jobs, ChangeGit(job) PROVE Good(git')
  <2>1. Good(InvalidateGit([git EXCEPT !.job = job]))
    BY Changed
  <2> QED BY <1>5, <2>1, Requested DEF ChangeGit
<1>6. ASSUME NEW i \in 1..2 * Len(GitNames), ToggleFold(i) PROVE Good(git')
  <2> DEFINE folded == IF i \in git.folded THEN git.folded \ {i} ELSE git.folded \cup {i}
  <2>1. i \in Range(git.visible)
        /\ git' = [git EXCEPT !.folded = folded, !.visible = VisibleRows(git.rows, folded)]
    BY <1>6 DEF ToggleFold
  <2>2. folded = IF i \in git.folded THEN git.folded \ {i} ELSE git.folded \cup {i}
    OBVIOUS
  <2> HIDE DEF folded
  <2> QED BY <2>1, <2>2, Folds
<1>7. CASE UNCHANGED git
  BY <1>7
<1> QED BY <1>1, <1>2, <1>3, <1>4, <1>5, <1>6, <1>7, GitSteps

LEMMA GitHolds == Spec => []GitInv
BY GitInit, GitStep, PTL DEF Spec

LEMMA GoodIsChosen == ASSUME GitInv PROVE RowsAreOfTheChosenKind
<1>1. git \in GitStates /\ git.job \in Jobs
  BY DEF GitInv, Good, GitStates
<1>2. PICK k \in 0..Total : Shows(git, k)
  <2>1. 0 \in 0..Total /\ Total \in 0..Total
    BY TotalIs
  <2>2. CASE Idle(git)
    BY <2>1, <2>2 DEF Idle
  <2>3. ASSUME NEW r \in 0..Full + 1, Reads(git, r) PROVE \E k \in 0..Total : Shows(git, k)
    <3>1. Pos(r) \in 0..Total /\ Shows(git, Pos(r))
      BY <2>3, PosIs DEF Reads
    <3> QED BY <3>1
  <2> QED BY <2>2, <2>3 DEF GitInv, Good
<1>3. git.visible = VisibleRows(git.rows, git.folded)
  BY <1>1, <1>2, VisibleIs DEF Shows
<1>4. ASSUME NEW i \in DOMAIN git.rows PROVE git.rows[i].job = git.job
  <2>1. i \in 1..2 * k /\ git.rows[i] = Row(git.job, i)
    BY <1>2 DEF Shows, Part
  <2> QED BY <2>1 DEF Row
<1>5. ASSUME git.built # "nothing"
      PROVE  git.built = git.job.kind /\ git.rows = RowsFor(GitNames, git.job)
  <2>1. git.built = git.job.kind /\ Shows(git, Total)
    BY <1>5 DEF GitInv, Good, Idle, Reads
  <2> QED BY <2>1, WholeIs DEF Shows
<1> QED BY <1>3, <1>4, <1>5 DEF RowsAreOfTheChosenKind

(***************************************************************************)
(* However often the job changes while chunks are on their way, the rows are *)
(* those of the job that is chosen, what is visible are the rows outside     *)
(* folded functions, and what is called built is the whole diff.             *)
(***************************************************************************)
THEOREM RowsStayOfTheChosenKind == Spec => []RowsAreOfTheChosenKind
BY GitHolds, GoodIsChosen, PTL
=============================================================================
