-------------------------- MODULE LspRefreshProofs --------------------------
(***************************************************************************)
(* A change of project inputs is never crossed off too early: RefreshKept, *)
(* for every set of documents, plugins and requests.                       *)
(***************************************************************************)
EXTENDS LspProxyProofs

\* The generations are numbers.
LEMMA Generations ==
    ASSUME TypeOK
    PROVE  /\ project \in Nat /\ refresh.gen \in Nat /\ task.gen \in Nat
           /\ up.project \in Nat /\ up.gen \in Nat
           /\ \A j \in jobs : j.project \in Nat /\ j.updated \subseteq Owners
BY DEF TypeOK, RefreshTypes, RefreshState, TaskState, PumpTypes, UpState, JobState

-----------------------------------------------------------------------------
(* How a step may move the publishers.                                     *)

\* No number is handed out: one job goes on under its own or ends.
LEMMA NumbersKept ==
    ASSUME TypeOK, Numbered, UNCHANGED <<project, up, task>>,
           refresh'.gen = refresh.gen, NEW j \in jobs, NEW k, k.project = j.project,
           jobs' \subseteq (jobs \ {j}) \cup {k}
    PROVE  Numbered'
BY Generations DEF Numbered

\* Inputs and numbers stay, and a refresh is crossed off only for what is fresh.
LEMMA StaleKept ==
    ASSUME TypeOK, RefreshInv, UNCHANGED <<input, project>>,
           refresh'.gen = refresh.gen,
           \A o \in Owners : Fresh(o) => Fresh(o)',
           \A o \in Owners : source[o] = input[o] => source'[o] = input[o],
           \A o \in Owners : Covered(o)' => Covered(o),
           \A o \in Owners : Covered(o) => Covered(o)' \/ Fresh(o),
           \A k \in jobs' : k \in jobs \/ (k.project >= refresh.gen => JobCurrent(k)')
    PROVE  StaleCovered' /\ JobsCurrent'
<1>1. StaleCovered'
  BY DEF RefreshInv, StaleCovered
<1>2. ASSUME NEW k \in jobs, k.project >= refresh.gen PROVE JobCurrent(k)'
  <2>1. JobCurrent(k) /\ k.updated \subseteq Owners
    BY <1>2, Generations DEF RefreshInv, JobsCurrent
  <2> QED  BY <2>1 DEF JobCurrent, Snapped
<1>3. JobsCurrent'
  BY <1>2 DEF JobsCurrent
<1> QED  BY <1>1, <1>3

\* The refresh task stays what it is while others publish.
LEMMA TaskKept ==
    ASSUME TypeOK, RefreshInv, UNCHANGED <<input, project, task>>,
           refresh'.gen = refresh.gen,
           \A o \in Owners : Fresh(o) => Fresh(o)',
           \A o \in Owners : source[o] = input[o] => source'[o] = input[o],
           \A o \in Owners : Covered(o)' => Covered(o),
           refresh'.pending => /\ refresh.pending /\ refresh'.all = refresh.all
                               /\ refresh'.owners \subseteq refresh.owners,
           project = refresh.gen => \A o \in Owners : Covered(o) => Covered(o)'
    PROVE  TaskCurrent'
<1>1. task.refreshed \subseteq Owners
  BY DEF TypeOK, RefreshTypes, TaskState
<1> QED  BY <1>1 DEF RefreshInv, TaskCurrent

\* Numbers may be handed out to jobs that have not computed yet; what is pending
\* stays.
LEMMA ArrivalKeeps ==
    ASSUME TypeOK, RefreshInv,
           UNCHANGED <<input, source, board, refresh, task>>,
           project' \in {project, project + 1},
           \A k \in jobs' : k \in jobs \/ k.at = "compute"
    PROVE  StaleCovered' /\ JobsCurrent' /\ TaskCurrent'
<1>1. \A k \in jobs' : Holding(k)' => k \in jobs /\ Holding(k)
  BY Generations DEF Holding, Snapped, RefreshInv, Numbered
<1>2. \A o \in Owners : (Fresh(o) => Fresh(o)') /\ Covered(o)' = Covered(o)
  BY <1>1 DEF Fresh, Covered
<1>3. StaleCovered'
  BY <1>2 DEF RefreshInv, StaleCovered
<1>4. ASSUME NEW k \in jobs', k.project >= refresh.gen PROVE JobCurrent(k)'
  <2>1. CASE k \in jobs
    <3>1. JobCurrent(k) /\ k.updated \subseteq Owners
      BY <1>4, <2>1, Generations DEF RefreshInv, JobsCurrent
    <3> QED  BY <1>2, <3>1 DEF JobCurrent, Snapped
  <2>2. CASE k.at = "compute"
    BY <2>2 DEF JobCurrent, Snapped
  <2> QED  BY <2>1, <2>2
<1>5. JobsCurrent'
  BY <1>4 DEF JobsCurrent
<1>6. TaskCurrent'
  <2>1. task.refreshed \subseteq Owners
    BY DEF TypeOK, RefreshTypes, TaskState
  <2>2. task.gen = project' => task.gen = project
    BY Generations DEF RefreshInv, Numbered
  <2> QED  BY <1>2, <2>1, <2>2 DEF RefreshInv, TaskCurrent
<1> QED  BY <1>3, <1>5, <1>6

\* A refresh under a new number outdates every publisher.
LEMMA RenumberKeeps ==
    ASSUME TypeOK, RefreshInv, UNCHANGED <<jobs, up, source, board>>,
           project' = project + 1, refresh'.gen = project + 1,
           task'.gen \in {0, task.gen},
           \A o \in Owners : \/ input'[o] = input[o] /\ (Covered(o) => Covered(o)')
                             \/ Covered(o)'
    PROVE  RefreshInv'
<1> USE Generations DEF RefreshInv, Numbered
<1>1. Numbered' /\ JobsCurrent' /\ TaskCurrent'
  BY DEF JobsCurrent, TaskCurrent
<1>2. \A k \in jobs : ~Holding(k)'
  BY DEF Holding
<1>3. StaleCovered'
  BY <1>2 DEF StaleCovered, Fresh
<1> QED  BY <1>1, <1>3

-----------------------------------------------------------------------------
(* Documents, publications of tsgo and watched inputs.                     *)

\* A document notification hands out at most a number.
LEMMA NotificationsKeepRefresh ==
    ASSUME TypeOK, RefreshInv,
           \/ \E d \in Docs : \/ DidChange(d) \/ DidSave(d) \/ DidOpenClean(d)
                              \/ DidOpenDirty(d) \/ DidClose(d) \/ Deleted(d)
           \/ ClearShown
           \/ \E r \in Reqs, kind \in Kinds, d \in Docs : Send(r, kind, d)
           \/ \E r \in Reqs : Cancel(r) \/ RequestStep(r)
    PROVE  RefreshInv'
<1> DEFINE AtMostANumber ==
             /\ UNCHANGED <<input, source, board, refresh, task, jobs, up>>
             /\ project' \in {project, project + 1}
<1>1. AtMostANumber
  <2>1. ASSUME NEW d \in Docs, DidChange(d) \/ DidOpenDirty(d) PROVE AtMostANumber
    BY <2>1 DEF DidChange, DidOpenDirty, MarkDirty, refreshVars
  <2>2. ASSUME NEW d \in Docs,
               DidSave(d) \/ DidOpenClean(d) \/ DidClose(d) \/ Deleted(d)
        PROVE  AtMostANumber
    BY <2>2 DEF DidSave, DidOpenClean, DidClose, Deleted, diagnosticsVars, refreshVars
  <2>3. CASE ClearShown
    BY <2>3 DEF ClearShown, refreshVars
  <2>4. ASSUME NEW r \in Reqs, \E kind \in Kinds, d \in Docs : Send(r, kind, d)
        PROVE  AtMostANumber
    BY <2>4 DEF Send, requestUnchanged, refreshVars
  <2>5. ASSUME NEW r \in Reqs, Cancel(r) \/ RequestStep(r) PROVE AtMostANumber
    BY <2>5 DEF Cancel, RequestStep, AugmentUpstream, ComputeAnswer, TakePending,
                WriteAnswer, requestUnchanged, refreshVars
  <2> QED  BY <2>1, <2>2, <2>3, <2>4, <2>5
<1>2. Numbered'
  BY <1>1, Generations DEF RefreshInv, Numbered
<1> QED  BY <1>1, <1>2, ArrivalKeeps DEF RefreshInv

\* A new job has a number of its own.
LEMMA PublicationsKeepRefresh ==
    ASSUME TypeOK, RefreshInv,
           \/ StartPublication \/ UpstreamStep
           \/ \E d \in Docs : UpstreamPublishes(d)
    PROVE  RefreshInv'
<1> USE Generations DEF RefreshInv
<1>1. CASE StartPublication
  <2>1. PICK n : n = Job(pump.doc, doc[pump.doc].diag + 1, project + 1)
    OBVIOUS
  <2>2. n.at = "compute" /\ n.project = project + 1
    BY <2>1 DEF Job
  <2>3. /\ jobs' = jobs \cup {n} /\ project' = project + 1
        /\ UNCHANGED <<input, source, board, refresh, task, up>>
    BY <1>1, <2>1 DEF StartPublication, NextGenerations, refreshVars
  <2>4. Numbered'
    BY <2>2, <2>3 DEF Numbered
  <2> QED  BY <2>2, <2>3, <2>4, ArrivalKeeps
<1>2. CASE \E d \in Docs : UpstreamPublishes(d)
  <2>1. /\ up'.gen = 0
        /\ UNCHANGED <<input, source, board, refresh, task, jobs, project>>
    BY <1>2 DEF UpstreamPublishes, UpIdle, diagnosticsVars, refreshVars
  <2>2. Numbered'
    BY <2>1 DEF Numbered
  <2> QED  BY <2>1, <2>2, ArrivalKeeps
<1>3. CASE UpstreamGenerations
  <2>1. /\ up'.project = project + 1 /\ project' = project + 1
        /\ UNCHANGED <<input, source, board, refresh, task, jobs>>
    BY <1>3 DEF UpstreamGenerations, NextGenerations, refreshVars
  <2>2. Numbered'
    BY <2>1 DEF Numbered
  <2> QED  BY <2>1, <2>2, ArrivalKeeps
<1>4. CASE UpstreamForward
  <2>1. PICK n : n = Job(up.doc, up.gen, up.project)
    OBVIOUS
  <2>2. n.at = "compute" /\ n.project = up.project
    BY <2>1 DEF Job
  <2>3. /\ jobs' = IF up.gen # 0 THEN jobs \cup {n} ELSE jobs
        /\ up'.gen = 0
        /\ UNCHANGED <<input, source, board, refresh, task, project>>
    BY <1>4, <2>1 DEF UpstreamForward, UpIdle, refreshVars
  <2>4. Numbered'
    BY <2>2, <2>3 DEF Numbered
  <2> QED  BY <2>2, <2>3, <2>4, ArrivalKeeps
<1> QED  BY <1>1, <1>2, <1>3, <1>4 DEF UpstreamStep

\* A changed owner is covered by the refresh that becomes pending with it.
LEMMA InputsKeepRefresh ==
    ASSUME TypeOK, RefreshInv, NEW changed \in SUBSET Owners, NEW all \in BOOLEAN,
           InputsChanged(changed, all)
    PROVE  RefreshInv'
<1>1. refresh \in RefreshState /\ input \in [Owners -> Nat]
  BY DEF TypeOK, RefreshTypes
<1>2. /\ UNCHANGED <<jobs, up, source, board, task>> /\ project' = project + 1
      /\ refresh'.gen = project + 1 /\ refresh'.pending
      /\ refresh'.all = (refresh.all \/ all)
      /\ refresh'.owners = IF all THEN {} ELSE IF refresh.all THEN refresh.owners
                           ELSE refresh.owners \cup changed
      /\ \A o \in Owners : ~all /\ o \notin changed => input'[o] = input[o]
  BY <1>1 DEF InputsChanged, RefreshState
<1>3. \A o \in Owners : \/ input'[o] = input[o] /\ (Covered(o) => Covered(o)')
                        \/ Covered(o)'
  BY <1>2 DEF Covered
<1> QED  BY <1>2, <1>3, RenumberKeeps

-----------------------------------------------------------------------------
(* The refresh task.                                                       *)

\* A run that ends leaves the pending refresh as it is, and a run that follows
\* has not selected anything yet.
LEMMA FinishLeaves ==
    ASSUME NEW r \in RefreshState, Finish(r)
    PROVE  /\ task'.gen = 0 /\ task'.at \in {"idle", "start"}
           /\ refresh'.gen = r.gen /\ refresh'.pending = r.pending
           /\ refresh'.all = r.all /\ refresh'.owners = r.owners
BY DEF Finish, NoTask, RefreshState

\* So does a run that starts; it selects what is pending.
LEMMA StartLeaves ==
    ASSUME NEW r \in RefreshState, Start(r)
    PROVE  /\ task'.at \in {"idle", "start", "compute"}
           /\ task'.gen \in {0, r.gen}
           /\ task'.at = "compute" => task'.all = r.all /\ task'.owners = r.owners
           /\ refresh'.gen = r.gen /\ refresh'.pending = r.pending
           /\ refresh'.all = r.all /\ refresh'.owners = r.owners
<1>1. CASE Finish(r)
  BY <1>1, FinishLeaves
<1>2. CASE ~Finish(r)
  BY <1>2 DEF Start, NoTask
<1> QED  BY <1>1, <1>2

\* A step of the task that publishes nothing.
LEMMA RunKeeps ==
    ASSUME TypeOK, RefreshInv, UNCHANGED <<input, source, board, jobs, up, project>>,
           refresh'.gen = refresh.gen, task'.gen <= refresh.gen,
           \A o \in Owners : Covered(o)' => Covered(o),
           \A o \in Owners : Covered(o) => Covered(o)' \/ Fresh(o),
           TaskCurrent'
    PROVE  RefreshInv'
<1>1. Numbered'
  BY DEF RefreshInv, Numbered
<1>2. \A o \in Owners : Fresh(o)' = Fresh(o)
  BY DEF Fresh, Holding, Snapped
<1> QED  BY <1>1, <1>2, StaleKept DEF RefreshInv

\* The timer and the start of a run.
LEMMA StartsKeepRefresh ==
    ASSUME TypeOK, RefreshInv, TaskStart \/ TimerFires PROVE RefreshInv'
<1>0. refresh \in RefreshState /\ task \in TaskState
  BY DEF TypeOK, RefreshTypes
<1> DEFINE fired == [refresh EXCEPT !.timer = FALSE, !.running = TRUE]
<1>1. /\ fired \in RefreshState
      /\ fired.gen = refresh.gen /\ fired.pending = refresh.pending
      /\ fired.all = refresh.all /\ fired.owners = refresh.owners
  BY <1>0 DEF RefreshState
<1>2. UNCHANGED <<input, source, board, jobs, up, project>>
  BY DEF TaskStart, TimerFires
<1>3. ASSUME NEW r \in RefreshState, Start(r), r.gen = refresh.gen,
             r.pending = refresh.pending, r.all = refresh.all, r.owners = refresh.owners
      PROVE  RefreshInv'
  <2>1. /\ refresh'.gen = refresh.gen /\ task'.gen <= refresh.gen
        /\ \A o \in Owners : Covered(o)' = Covered(o)
    BY <1>3, StartLeaves, Generations DEF Covered
  <2>2. TaskCurrent'
    BY <1>3, StartLeaves DEF TaskCurrent
  <2> QED  BY <1>2, <2>1, <2>2, RunKeeps
<1>4. CASE /\ refresh' = [refresh EXCEPT !.timer = FALSE, !.queued = TRUE]
           /\ UNCHANGED task
  <2>1. /\ refresh'.gen = refresh.gen /\ refresh'.pending = refresh.pending
        /\ refresh'.all = refresh.all /\ refresh'.owners = refresh.owners
    BY <1>0, <1>4 DEF RefreshState
  <2>2. \A o \in Owners : Covered(o)' = Covered(o) /\ Fresh(o)' = Fresh(o)
    BY <1>2, <2>1 DEF Covered, Fresh, Holding, Snapped
  <2>3. TaskCurrent'
    BY <1>2, <1>4, <2>1, <2>2, TaskKept
  <2>4. task'.gen <= refresh.gen
    BY <1>4 DEF RefreshInv, Numbered
  <2> QED  BY <1>2, <2>1, <2>2, <2>3, <2>4, RunKeeps
<1>5. CASE Start(refresh)
  BY <1>0, <1>3, <1>5
<1>6. CASE Start(fired)
  <2> HIDE DEF fired
  <2> QED  BY <1>1, <1>3, <1>6
<1> QED  BY <1>4, <1>5, <1>6 DEF TaskStart, TimerFires

\* The sources a plugin answered for are present; the others are covered.
LEMMA ComputeKeepsRefresh ==
    ASSUME TypeOK, RefreshInv, TaskCompute PROVE RefreshInv'
<1>0. /\ task \in TaskState /\ source \in [Owners -> Nat] /\ task.at = "compute"
      /\ UNCHANGED <<jobs, up, project, input, board, refresh>>
  BY DEF TypeOK, RefreshTypes, TaskCompute
<1> DEFINE selected == IF task.all THEN Owners ELSE task.owners
<1>1. CASE selected = {}
  <2>1. task' = [task EXCEPT !.at = "complete"] /\ UNCHANGED source
    BY <1>1 DEF TaskCompute
  <2>2. task'.at = "complete" /\ task'.gen = task.gen
    BY <1>0, <2>1 DEF TaskState
  <2>3. task.gen = refresh.gen => \A o \in Owners : ~Covered(o)
    BY <1>0, <1>1 DEF RefreshInv, TaskCurrent, Covered
  <2>4. TaskCurrent'
    BY <1>0, <2>2, <2>3 DEF TaskCurrent, Covered
  <2>5. \A o \in Owners : Covered(o)' = Covered(o)
    BY <1>0 DEF Covered
  <2> QED  BY <1>0, <2>1, <2>2, <2>4, <2>5, RunKeeps DEF RefreshInv, Numbered
<1>2. ASSUME NEW refreshed \in SUBSET selected, source' = Stored(refreshed),
             task' = [task EXCEPT !.at = "write", !.snap = source',
                                  !.refreshed = refreshed,
                                  !.done = (refreshed = selected)]
      PROVE  RefreshInv'
  <2>1. /\ task'.at = "write" /\ task'.gen = task.gen /\ task'.snap = source'
        /\ task'.refreshed = refreshed /\ task'.done = (refreshed = selected)
        /\ task'.all = task.all /\ task'.owners = task.owners
    BY <1>0, <1>2 DEF TaskState
  <2>2. refreshed \subseteq Owners
    BY <1>0 DEF TaskState
  <2>3. \A o \in Owners : /\ o \in refreshed => source'[o] = input[o]
                          /\ o \notin refreshed => source'[o] = source[o]
    BY <1>2 DEF Stored
  <2>4. \A o \in Owners : (Fresh(o) => Fresh(o)') /\ Covered(o)' = Covered(o)
    BY <1>0, <2>3 DEF Fresh, Covered, Holding, Snapped
  <2>5. \A o \in Owners : source'[o] # input[o] => Covered(o)
    BY <2>3 DEF RefreshInv, StaleCovered, Fresh
  <2>6. TaskCurrent'
    BY <1>0, <2>1, <2>2, <2>3, <2>4, <2>5 DEF RefreshInv, TaskCurrent
  <2>7. StaleCovered' /\ JobsCurrent'
    BY <1>0, <2>3, <2>4, StaleKept
  <2>8. Numbered'
    BY <1>0, <2>1 DEF RefreshInv, Numbered
  <2> QED  BY <2>6, <2>7, <2>8 DEF RefreshInv
<1> QED  BY <1>1, <1>2 DEF TaskCompute

\* An accepted write displays the sources as the plugins left them, under the
\* number of the refresh that still covers what they did not refresh.
LEMMA WriteKeepsRefresh ==
    ASSUME TypeOK, RefreshInv, TaskWrite PROVE RefreshInv'
<1>0. /\ task \in TaskState /\ task.at = "write" /\ task.refreshed \subseteq Owners
      /\ UNCHANGED <<jobs, up, project, input, source, refresh>>
  BY DEF TypeOK, RefreshTypes, TaskState, TaskWrite
<1> DEFINE current == project = task.gen /\ Dirty = {}
<1>1. /\ board' = IF current THEN task.snap ELSE board
      /\ task' = [task EXCEPT !.at = "written", !.accepted = current]
  BY DEF TaskWrite
<1>2. /\ task'.at = "written" /\ task'.gen = task.gen /\ task'.accepted = current
      /\ task'.all = task.all /\ task'.owners = task.owners
      /\ task'.refreshed = task.refreshed /\ task'.done = task.done
  BY <1>0, <1>1 DEF TaskState
<1>3. Numbered'
  BY <1>0, <1>2 DEF RefreshInv, Numbered
<1>4. \A o \in Owners : Covered(o)' = Covered(o)
  BY <1>0 DEF Covered
<1>5. CASE ~current
  <2>1. \A o \in Owners : Fresh(o)' = Fresh(o)
    BY <1>0, <1>1, <1>5 DEF Fresh, Holding, Snapped
  <2>2. TaskCurrent'
    BY <1>0, <1>2, <1>5, <2>1 DEF RefreshInv, TaskCurrent
  <2> QED  BY <1>0, <1>3, <1>4, <2>1, <2>2, StaleKept DEF RefreshInv
<1>6. CASE current
  <2>1. /\ board' = task.snap /\ project = task.gen /\ task.gen = refresh.gen
        /\ \A j \in jobs : j.project < refresh.gen
    BY <1>1, <1>6, Generations DEF RefreshInv, Numbered
  <2>2. StaleCovered'
    <3> SUFFICES ASSUME NEW o \in Owners, ~Fresh(o)' PROVE Covered(o)
      BY <1>4 DEF StaleCovered
    <3>1. CASE board'[o] # input[o]
      BY <1>0, <2>1, <3>1 DEF RefreshInv, TaskCurrent
    <3>2. CASE ~Fresh(o)
      BY <3>2 DEF RefreshInv, StaleCovered
    <3> QED  BY <1>0, <3>1, <3>2 DEF Fresh, Holding, Snapped
  <2>3. JobsCurrent'
    BY <1>0, <2>1, Generations DEF JobsCurrent
  <2>4. \A o \in task.refreshed : Fresh(o)'
    <3>1. \A j \in jobs : ~Holding(j)'
      BY <1>0, <2>1, Generations DEF Holding
    <3> QED  BY <1>0, <2>1, <3>1 DEF RefreshInv, TaskCurrent, Fresh
  <2>5. TaskCurrent'
    BY <1>0, <1>2, <2>4 DEF RefreshInv, TaskCurrent
  <2> QED  BY <1>3, <2>2, <2>3, <2>5 DEF RefreshInv
<1> QED  BY <1>5, <1>6

\* What striking owners off leaves of the pending refresh.
LEMMA RecordedLeaves ==
    ASSUME TypeOK, NEW g \in Nat, NEW S \in SUBSET Owners
    PROVE  /\ Recorded(g, S) \in RefreshState
           /\ Recorded(g, S).gen = refresh.gen
           /\ Recorded(g, S).pending = refresh.pending
           /\ Recorded(g, S).all = refresh.all
           /\ Recorded(g, S).owners = IF Recordable(g) THEN refresh.owners \ S
                                      ELSE refresh.owners
BY DEF TypeOK, RefreshTypes, RefreshState, Recorded

\* What the completion of a refresh leaves.
LEMMA CompletedLeaves ==
    ASSUME TypeOK, NEW g \in Nat
    PROVE  /\ Completed(g) \in RefreshState
           /\ Completed(g).gen = refresh.gen
           /\ IF refresh.pending /\ g >= refresh.gen THEN ~Completed(g).pending
              ELSE Completed(g) = refresh
BY DEF TypeOK, RefreshTypes, RefreshState, Completed

\* Only what the task refreshed is struck off, and only if it was displayed.
LEMMA WrittenKeepsRefresh ==
    ASSUME TypeOK, RefreshInv, TaskWritten PROVE RefreshInv'
<1> USE Generations
<1>0. /\ refresh \in RefreshState /\ task \in TaskState /\ task.at = "written"
      /\ task.refreshed \in SUBSET Owners
      /\ UNCHANGED <<jobs, up, input, source, board>>
  BY DEF TypeOK, RefreshTypes, TaskState, TaskWritten
<1>1. CASE Dirty # {}
  <2>1. Finish(refresh) /\ project' = project
    BY <1>1 DEF TaskWritten
  <2>2. /\ task'.gen = 0 /\ refresh'.gen = refresh.gen
        /\ \A o \in Owners : Covered(o)' = Covered(o)
    BY <1>0, <2>1, FinishLeaves DEF Covered
  <2>3. TaskCurrent'
    BY <1>0, <2>1, FinishLeaves DEF TaskCurrent
  <2> QED  BY <1>0, <2>1, <2>2, <2>3, RunKeeps
<1>2. CASE Dirty = {} /\ task.accepted
  <2> DEFINE left == IF task.all THEN refresh ELSE Recorded(task.gen, task.refreshed)
             whole == ~task.all /\ RecordedAll(task.gen, task.refreshed)
  <2>1. /\ left \in RefreshState /\ left.gen = refresh.gen
        /\ left.pending = refresh.pending /\ left.all = refresh.all
        /\ left.owners = IF ~task.all /\ Recordable(task.gen)
                         THEN refresh.owners \ task.refreshed ELSE refresh.owners
    BY <1>0, RecordedLeaves
  <2>2. /\ project' = project
        /\ \/ /\ task.done \/ whole
              /\ task' = [task EXCEPT !.at = "complete"] /\ refresh' = left
           \/ Finish(left)
    BY <1>2 DEF TaskWritten
  <2> HIDE DEF left
  <2>3. /\ refresh'.gen = refresh.gen /\ refresh'.pending = refresh.pending
        /\ refresh'.all = refresh.all /\ refresh'.owners = left.owners
    BY <2>1, <2>2, FinishLeaves
  <2>4. \A o \in Owners : Covered(o)' => Covered(o)
    BY <2>1, <2>3 DEF Covered
  <2>5. ASSUME NEW o \in Owners, Covered(o), ~Covered(o)' PROVE Fresh(o)
    <3>1. Recordable(task.gen) /\ o \in task.refreshed
      BY <2>1, <2>3, <2>5 DEF Covered
    <3>2. task.gen = refresh.gen
      BY <3>1 DEF Recordable, RefreshInv, Numbered
    <3> QED  BY <1>0, <1>2, <3>1, <3>2 DEF RefreshInv, TaskCurrent
  <2>6. TaskCurrent'
    <3>1. CASE Finish(left)
      BY <2>1, <3>1, FinishLeaves DEF TaskCurrent
    <3>2. CASE /\ task.done \/ whole
               /\ task' = [task EXCEPT !.at = "complete"] /\ refresh' = left
      <4>1. task'.at = "complete" /\ task'.gen = task.gen
        BY <1>0, <3>2 DEF TaskState
      <4>2. ASSUME NEW o \in Owners, task.gen = refresh.gen, Covered(o)'
            PROVE  Fresh(o)
        <5>1. Covered(o)
          BY <2>4, <4>2
        <5>2. CASE task.all
          <6>1. task.refreshed = Owners
            BY <1>0, <3>2, <4>2, <5>2 DEF RefreshInv, TaskCurrent
          <6> QED  BY <1>0, <1>2, <4>2, <6>1 DEF RefreshInv, TaskCurrent
        <5>3. CASE ~task.all
          <6>1. /\ refresh.pending /\ ~refresh.all /\ o \in refresh.owners
                /\ refresh.owners \subseteq task.owners
            BY <1>0, <4>2, <5>1, <5>3 DEF Covered, RefreshInv, TaskCurrent
          <6>2. Recordable(task.gen)
            BY <4>2, <6>1 DEF Recordable
          <6>3. o \notin task.refreshed
            BY <2>1, <2>3, <4>2, <5>3, <6>1, <6>2 DEF Covered
          <6>4. o \in task.refreshed
            BY <1>0, <3>2, <4>2, <5>3, <6>1 DEF RefreshInv, TaskCurrent, RecordedAll
          <6> QED  BY <6>3, <6>4
        <5> QED  BY <5>2, <5>3
      <4>3. \A o \in Owners : Fresh(o)' = Fresh(o)
        BY <1>0, <2>2 DEF Fresh, Holding, Snapped
      <4> QED  BY <2>3, <4>1, <4>2, <4>3 DEF TaskCurrent
    <3> QED  BY <2>2, <3>1, <3>2
  <2>7. task'.gen <= refresh.gen
    <3>1. task'.gen = 0 \/ task'.gen = task.gen
      BY <1>0, <2>1, <2>2, FinishLeaves DEF TaskState
    <3> QED  BY <3>1 DEF RefreshInv, Numbered
  <2> QED  BY <1>0, <2>2, <2>3, <2>4, <2>5, <2>6, <2>7, RunKeeps
<1>3. CASE Dirty = {} /\ ~task.accepted
  <2>1. project' = ResumedProject /\ Finish(Resumed)
    BY <1>3 DEF TaskWritten
  <2>2. Resumed \in RefreshState
    <3>1. CASE Resumes
      <4>1. Resumed = [refresh EXCEPT !.gen = project + 1, !.timer = TRUE]
        BY <3>1 DEF Resumed
      <4>2. project + 1 \in Nat
        BY Generations
      <4> QED  BY <1>0, <4>1, <4>2 DEF RefreshState
    <3>2. CASE ~Resumes
      BY <1>0, <3>2 DEF Resumed
    <3> QED  BY <3>1, <3>2
  <2>3. /\ task'.gen = 0 /\ task'.at \in {"idle", "start"}
        /\ refresh'.gen = Resumed.gen /\ refresh'.pending = Resumed.pending
        /\ refresh'.all = Resumed.all /\ refresh'.owners = Resumed.owners
    BY <2>1, <2>2, FinishLeaves
  <2>4. \A o \in Owners : Covered(o)' = Covered(o)
    BY <1>0, <2>3 DEF Covered, Resumed, RefreshState
  <2>5. CASE Resumes
    <3>1. refresh'.gen = project + 1 /\ project' = project + 1
      BY <1>0, <2>1, <2>3, <2>5 DEF Resumed, ResumedProject, RefreshState
    <3> QED  BY <1>0, <2>3, <2>4, <3>1, RenumberKeeps
  <2>6. CASE ~Resumes
    <3>1. refresh'.gen = refresh.gen /\ project' = project
      BY <2>1, <2>3, <2>6 DEF Resumed, ResumedProject
    <3>2. TaskCurrent'
      BY <2>3 DEF TaskCurrent
    <3> QED  BY <1>0, <2>3, <2>4, <3>1, <3>2, RunKeeps
  <2> QED  BY <2>5, <2>6
<1> QED  BY <1>1, <1>2, <1>3

\* What a completed refresh covered is fresh.
LEMMA CompleteKeepsRefresh ==
    ASSUME TypeOK, RefreshInv, TaskComplete PROVE RefreshInv'
<1> USE Generations
<1>0. /\ refresh \in RefreshState /\ task.at = "complete"
      /\ UNCHANGED <<jobs, up, project, input, source, board>>
      /\ Finish(Completed(task.gen))
  BY DEF TypeOK, RefreshTypes, TaskComplete
<1>1. /\ task'.gen = 0 /\ task'.at \in {"idle", "start"}
      /\ refresh'.gen = refresh.gen /\ refresh'.pending = Completed(task.gen).pending
      /\ refresh'.all = Completed(task.gen).all
      /\ refresh'.owners = Completed(task.gen).owners
  BY <1>0, FinishLeaves, CompletedLeaves
<1>2. \A o \in Owners : Covered(o)' => Covered(o)
  BY <1>1, CompletedLeaves DEF Covered
<1>3. ASSUME NEW o \in Owners, Covered(o), ~Covered(o)' PROVE Fresh(o)
  <2>1. refresh.pending /\ task.gen >= refresh.gen
    BY <1>1, <1>3, CompletedLeaves DEF Covered
  <2> QED  BY <1>0, <1>3, <2>1 DEF RefreshInv, Numbered, TaskCurrent
<1>4. TaskCurrent'
  BY <1>1 DEF TaskCurrent
<1> QED  BY <1>0, <1>1, <1>2, <1>3, <1>4, RunKeeps

\* The editor pump arms a pending refresh again.
LEMMA ResumeKeepsRefresh ==
    ASSUME TypeOK, RefreshInv, ResumeRefresh PROVE RefreshInv'
<1>0. /\ refresh \in RefreshState
      /\ refresh' = Resumed /\ project' = ResumedProject
      /\ UNCHANGED <<jobs, up, input, source, board, task>>
  BY DEF TypeOK, RefreshTypes, ResumeRefresh
<1>1. CASE Resumes
  <2>1. /\ refresh' = [refresh EXCEPT !.gen = project + 1, !.timer = TRUE]
        /\ project' = project + 1
    BY <1>0, <1>1 DEF Resumed, ResumedProject
  <2>2. /\ refresh'.gen = project + 1 /\ \A o \in Owners : Covered(o)' = Covered(o)
    BY <1>0, <2>1 DEF Covered, RefreshState
  <2> QED  BY <1>0, <2>1, <2>2, RenumberKeeps
<1>2. CASE ~Resumes
  <2>1. UNCHANGED <<refresh, project>>
    BY <1>0, <1>2 DEF Resumed, ResumedProject
  <2>2. Numbered'
    BY <1>0, <2>1 DEF RefreshInv, Numbered
  <2> QED  BY <1>0, <2>1, <2>2, ArrivalKeeps DEF RefreshInv
<1> QED  BY <1>1, <1>2

-----------------------------------------------------------------------------
(* The goroutines that publish findings.                                   *)

\* A job that goes on with the findings of its document, or ends.
LEMMA DocumentTurn ==
    ASSUME TypeOK, RefreshInv, NEW j \in jobs, Snapped(j),
           UNCHANGED <<input, project, source, board, refresh, task, up>>,
           \/ Project(j)
           \/ Becomes(j, [j EXCEPT !.at = "write"])
    PROVE  RefreshInv'
<1>0. j \in JobState
  BY DEF TypeOK
<1>1. PICK k : /\ jobs' \subseteq (jobs \ {j}) \cup {k}
               /\ k.at \in {"project", "write"} /\ k.project = j.project
               /\ k.updated = j.updated /\ k.snap = j.snap
  <2>1. CASE Ends(j)
    <3>1. PICK k : k = [j EXCEPT !.at = "write"]
      OBVIOUS
    <3> QED  BY <1>0, <2>1, <3>1 DEF Ends, JobState
  <2>2. CASE Becomes(j, [j EXCEPT !.at = "project", !.found = NoText])
    <3>1. PICK k : k = [j EXCEPT !.at = "project", !.found = NoText]
      OBVIOUS
    <3>2. /\ k.at = "project" /\ k.project = j.project
          /\ k.updated = j.updated /\ k.snap = j.snap
      BY <1>0, <3>1 DEF JobState
    <3> QED  BY <2>2, <3>1, <3>2 DEF Becomes
  <2>3. CASE Becomes(j, [j EXCEPT !.at = "write"])
    <3>1. PICK k : k = [j EXCEPT !.at = "write"]
      OBVIOUS
    <3> QED  BY <1>0, <2>3, <3>1 DEF Becomes, JobState
  <2> QED  BY <2>1, <2>2, <2>3 DEF Project
<1>2. Numbered'
  BY <1>1, NumbersKept DEF RefreshInv
<1>3. \A o \in Owners : (Fresh(o) => Fresh(o)') /\ Covered(o)' = Covered(o)
  BY <1>1 DEF Fresh, Holding, Snapped, Covered
<1>4. k.project >= refresh.gen => JobCurrent(k)'
  BY <1>1 DEF RefreshInv, JobsCurrent, JobCurrent, Snapped
<1>5. StaleCovered' /\ JobsCurrent'
  BY <1>1, <1>3, <1>4, StaleKept
<1>6. TaskCurrent'
  BY <1>3, TaskKept
<1> QED  BY <1>2, <1>5, <1>6 DEF RefreshInv

\* A job that gathers what the plugins say of the project has their present
\* inputs, unless it is outdated.
LEMMA JobComputeKeepsRefresh ==
    ASSUME TypeOK, RefreshInv, NEW j \in jobs, JobCompute(j) PROVE RefreshInv'
<1>0. /\ j \in JobState /\ j.at = "compute" /\ source \in [Owners -> Nat]
      /\ UNCHANGED <<input, project, board, refresh, task, up>>
  BY DEF TypeOK, RefreshTypes, JobCompute
<1>1. CASE Ends(j) /\ UNCHANGED source
  <2>1. Numbered'
    BY <1>0, <1>1 DEF Ends, RefreshInv, Numbered
  <2> QED  BY <1>0, <1>1, <2>1, ArrivalKeeps DEF Ends, RefreshInv
<1>2. ASSUME NEW found, NEW updated \in SUBSET Owners, source' = Stored(updated),
             Becomes(j, [j EXCEPT !.at = "prepare", !.found = found,
                                  !.updated = updated, !.snap = source'])
      PROVE  RefreshInv'
  <2>1. PICK k : k = [j EXCEPT !.at = "prepare", !.found = found,
                               !.updated = updated, !.snap = source']
    OBVIOUS
  <2>2. /\ k.at = "prepare" /\ k.project = j.project /\ k.updated = updated
        /\ k.snap = source' /\ jobs' = (jobs \ {j}) \cup {k}
    BY <1>0, <1>2, <2>1 DEF Becomes, JobState
  <2>3. \A o \in Owners : /\ o \in updated => source'[o] = input[o]
                          /\ o \notin updated => source'[o] = source[o]
    BY <1>2 DEF Stored
  <2>4. Numbered'
    BY <1>0, <2>2, NumbersKept DEF RefreshInv
  <2>5. \A o \in Owners : (Fresh(o) => Fresh(o)') /\ Covered(o)' = Covered(o)
    BY <1>0, <2>2, <2>3 DEF Fresh, Holding, Snapped, Covered
  <2>6. JobCurrent(k)'
    BY <1>0, <2>2, <2>3 DEF JobCurrent, Snapped
  <2>7. StaleCovered' /\ JobsCurrent'
    BY <1>0, <2>2, <2>3, <2>5, <2>6, StaleKept
  <2>8. TaskCurrent'
    BY <1>0, <2>3, <2>5, TaskKept
  <2> QED  BY <2>4, <2>7, <2>8 DEF RefreshInv
<1> QED  BY <1>1, <1>2 DEF JobCompute

\* The project diagnostics a job displays are outdated only where a refresh is
\* still pending.
LEMMA JobProjectKeepsRefresh ==
    ASSUME TypeOK, RefreshInv, NEW j \in jobs, JobProject(j) PROVE RefreshInv'
<1>0. /\ j \in JobState /\ j.at = "project" /\ j.updated \subseteq Owners
      /\ UNCHANGED <<input, project, source, refresh, task, up>>
  BY DEF TypeOK, JobState, JobProject
<1>1. CASE Ends(j) /\ UNCHANGED board
  <2>1. Numbered'
    BY <1>0, <1>1 DEF Ends, RefreshInv, Numbered
  <2> QED  BY <1>0, <1>1, <2>1, ArrivalKeeps DEF Ends, RefreshInv
<1>2. CASE /\ project = j.project /\ board' = j.snap
           /\ Becomes(j, [j EXCEPT !.at = "record"]) \/ Ends(j)
  <2>1. PICK k : k = [j EXCEPT !.at = "record"]
    OBVIOUS
  <2>2. /\ k.at = "record" /\ k.project = j.project /\ k.updated = j.updated
        /\ jobs' \subseteq (jobs \ {j}) \cup {k}
    BY <1>0, <1>2, <2>1 DEF Becomes, Ends, JobState
  <2>3. Numbered'
    BY <1>0, <2>2, NumbersKept DEF RefreshInv
  <2>4. Holding(j)
    BY <1>0, <1>2 DEF Holding, Snapped
  <2>5. \A o \in Owners : (Fresh(o) => Fresh(o)') /\ Covered(o)' = Covered(o)
    BY <1>0, <1>2, <2>2, <2>4 DEF Fresh, Holding, Snapped, Covered
  <2>6. \A i \in jobs' : ~Holding(i)'
    BY <1>0, <1>2, <2>2 DEF Holding, Snapped, RefreshInv, Numbered
  <2>7. k.project >= refresh.gen => JobCurrent(k)'
    <3> SUFFICES ASSUME j.project >= refresh.gen PROVE \A o \in j.updated : Fresh(o)'
      BY <2>2 DEF JobCurrent, Snapped
    <3>1. \A o \in j.updated : j.snap[o] = input[o] /\ source[o] = input[o]
      BY <1>0 DEF RefreshInv, JobsCurrent, JobCurrent, Snapped
    <3> QED  BY <1>0, <1>2, <2>6, <3>1 DEF Fresh
  <2>8. StaleCovered' /\ JobsCurrent'
    BY <1>0, <2>2, <2>5, <2>7, StaleKept
  <2>9. TaskCurrent'
    BY <1>0, <2>5, TaskKept
  <2> QED  BY <2>3, <2>8, <2>9 DEF RefreshInv
<1> QED  BY <1>1, <1>2 DEF JobProject

\* A job strikes off only what it displayed fresh.
LEMMA JobRecordKeepsRefresh ==
    ASSUME TypeOK, RefreshInv, NEW j \in jobs, JobRecord(j) PROVE RefreshInv'
<1> USE Generations
<1>0. /\ j \in JobState /\ j.at = "record" /\ j.updated \in SUBSET Owners
      /\ j.project \in Nat
      /\ UNCHANGED <<input, project, source, board, task, up>>
      /\ refresh' = Recorded(j.project, j.updated)
  BY DEF TypeOK, JobState, JobRecord
<1>1. /\ refresh'.gen = refresh.gen /\ refresh'.pending = refresh.pending
      /\ refresh'.all = refresh.all
      /\ refresh'.owners = IF Recordable(j.project) THEN refresh.owners \ j.updated
                           ELSE refresh.owners
  BY <1>0, RecordedLeaves
<1>2. PICK k : k = [j EXCEPT !.at = "complete"]
  OBVIOUS
<1>3. /\ k.at = "complete" /\ k.project = j.project /\ k.updated = j.updated
      /\ \/ RecordedAll(j.project, j.updated) /\ jobs' = (jobs \ {j}) \cup {k}
         \/ jobs' = jobs \ {j}
  BY <1>0, <1>2 DEF JobRecord, Becomes, Ends, JobState
<1>4. Numbered'
  BY <1>0, <1>1, <1>3, NumbersKept DEF RefreshInv
<1>5. \A o \in Owners : (Fresh(o) => Fresh(o)') /\ (Covered(o)' => Covered(o))
  BY <1>0, <1>1, <1>3 DEF Fresh, Holding, Snapped, Covered
<1>6. Recordable(j.project) => \A o \in j.updated : Fresh(o)
  BY <1>0 DEF Recordable, RefreshInv, JobsCurrent, JobCurrent
<1>7. \A o \in Owners : Covered(o) => Covered(o)' \/ Fresh(o)
  BY <1>1, <1>6 DEF Covered
<1>8. \A i \in jobs' : i \in jobs \/ (i.project >= refresh.gen => JobCurrent(i)')
  <2>1. RecordedAll(j.project, j.updated) => \A o \in Owners : ~Covered(o)'
    BY <1>1 DEF RecordedAll, Recordable, Covered
  <2> QED  BY <1>3, <2>1 DEF JobCurrent, Snapped
<1>9. StaleCovered' /\ JobsCurrent'
  BY <1>0, <1>1, <1>5, <1>7, <1>8, StaleKept
<1>10. project = refresh.gen => ~Recordable(j.project)
  BY <1>0 DEF Recordable, RefreshInv, Numbered
<1>11. TaskCurrent'
  BY <1>0, <1>1, <1>5, <1>10, TaskKept DEF Covered
<1> QED  BY <1>4, <1>9, <1>11 DEF RefreshInv

\* When a job completes the refresh nothing is covered by it any more.
LEMMA JobCompleteKeepsRefresh ==
    ASSUME TypeOK, RefreshInv, NEW j \in jobs, JobComplete(j) PROVE RefreshInv'
<1> USE Generations
<1>0. /\ j.at = "complete" /\ j.project \in Nat /\ jobs' = jobs \ {j}
      /\ UNCHANGED <<input, project, source, board, task, up>>
      /\ refresh' = Completed(j.project)
  BY DEF JobComplete, Ends
<1>1. /\ refresh'.gen = refresh.gen
      /\ IF refresh.pending /\ j.project >= refresh.gen THEN ~refresh'.pending
         ELSE refresh' = refresh
  BY <1>0, CompletedLeaves
<1>2. j.project >= refresh.gen => \A o \in Owners : ~Covered(o)
  BY <1>0 DEF RefreshInv, JobsCurrent, JobCurrent
<1>3. \A o \in Owners : (Fresh(o) => Fresh(o)') /\ Covered(o)' = Covered(o)
  BY <1>0, <1>1, <1>2 DEF Fresh, Holding, Snapped, Covered
<1>4. Numbered'
  BY <1>0, <1>1 DEF RefreshInv, Numbered
<1>5. StaleCovered' /\ JobsCurrent'
  BY <1>0, <1>1, <1>3, StaleKept
<1>6. TaskCurrent'
  BY <1>0, <1>1, <1>3, TaskKept
<1> QED  BY <1>4, <1>5, <1>6 DEF RefreshInv

\* The steps of a job.
LEMMA JobsKeepRefresh ==
    ASSUME TypeOK, RefreshInv, NEW j \in jobs, JobStep(j) PROVE RefreshInv'
<1>1. CASE JobPrepare(j) \/ JobWrite(j)
  <2>1. Snapped(j) /\ UNCHANGED <<input, project, source, board, refresh, task, up>>
    BY <1>1 DEF JobPrepare, JobWrite, Snapped, refreshVars
  <2>2. Project(j) \/ Becomes(j, [j EXCEPT !.at = "write"])
    BY <1>1 DEF JobPrepare, JobWrite
  <2> QED  BY <2>1, <2>2, DocumentTurn
<1> QED
  BY <1>1, JobComputeKeepsRefresh, JobProjectKeepsRefresh, JobRecordKeepsRefresh,
     JobCompleteKeepsRefresh DEF JobStep

-----------------------------------------------------------------------------
(* The invariant.                                                          *)

\* The bookkeeping of resumePendingProjectDiagnosticRefresh,
\* recordPendingProjectDiagnosticOwnersRefreshed and
\* completePendingProjectDiagnosticRefresh is inductive.
THEOREM ProxyRefreshInvariant == Spec => []RefreshInv
<1>1. Init => RefreshInv
  BY DEF Init, RefreshInv, Numbered, StaleCovered, JobsCurrent, TaskCurrent, Fresh,
         Covered, NoTask, UpIdle
<1>2. TypeOK /\ RefreshInv /\ [Next]_vars => RefreshInv'
  <2> SUFFICES ASSUME TypeOK, RefreshInv, [Next]_vars PROVE RefreshInv'
    OBVIOUS
  <2>1. CASE EditorEvent
    BY <2>1, NotificationsKeepRefresh, InputsKeepRefresh DEF EditorEvent
  <2>2. CASE (\E d \in Docs : UpstreamPublishes(d)) \/ UpstreamStep
    BY <2>2, PublicationsKeepRefresh
  <2>3. CASE PumpStep
    BY <2>3, NotificationsKeepRefresh, PublicationsKeepRefresh, ResumeKeepsRefresh
       DEF PumpStep
  <2>4. CASE TimerFires \/ TaskStep
    BY <2>4, StartsKeepRefresh, ComputeKeepsRefresh, WriteKeepsRefresh,
       WrittenKeepsRefresh, CompleteKeepsRefresh DEF TaskStep
  <2>5. CASE \E j \in jobs : JobStep(j)
    BY <2>5, JobsKeepRefresh
  <2>6. CASE \E r \in Reqs : RequestStep(r)
    BY <2>6, NotificationsKeepRefresh
  <2>7. CASE UNCHANGED vars
    <3>1. Numbered'
      BY <2>7, Generations DEF vars, RefreshInv, Numbered
    <3> QED  BY <2>7, <3>1, ArrivalKeeps DEF vars, RefreshInv
  <2> QED  BY <2>1, <2>2, <2>3, <2>4, <2>5, <2>6, <2>7 DEF Next, Progress
<1> QED  BY <1>1, <1>2, ProxyTypes, PTL DEF Spec

\* A change of project inputs that the editor does not see yet
\* keeps its refresh pending, whatever tasks, documents and owners publish.
THEOREM ProxyRefreshKept == Spec => []RefreshKept
<1>1. RefreshInv => RefreshKept
  BY DEF RefreshInv, StaleCovered, Fresh, Covered, RefreshKept
<1> QED  BY <1>1, ProxyRefreshInvariant, PTL
=============================================================================
