------------------------------ MODULE LspProxy ------------------------------
(***************************************************************************)
(* The language-server proxy of ttsc: one goroutine pumps frames from the  *)
(* editor to tsgo, a second one pumps tsgo's frames back, and every plugin *)
(* computation runs in a goroutine of its own.  They share the document    *)
(* state (diagnosticsMu), the pending-request registries (pendingMu), the  *)
(* pending project refresh (projectRefreshMu) and the editor's stream      *)
(* (writeMu).  A step of this module is one critical section together with *)
(* the code that touches nothing shared around it.                         *)
(*                                                                         *)
(* A text is identified by the documentGeneration that introduced it;      *)
(* findings, code actions and edits are identified by the text they were   *)
(* computed from.  What tsgo itself reports about a document is carried    *)
(* verbatim by the proxy and has no variable.                              *)
(***************************************************************************)
EXTENDS Integers

CONSTANTS
    Docs,         \* documents of the session
    Owners,       \* plugins that produce project diagnostics
    Reqs,         \* request ids of the editor
    NoDoc,        \* stands for no document
    MaxEvents,    \* bound: frames of the editor and publications of tsgo
    MaxJobs       \* bound: those among them that start background work

ASSUME ProxyAssumption ==
    /\ {MaxEvents, MaxJobs} \subseteq Nat
    /\ NoDoc \notin Docs

VARIABLES
    doc,      \* per document: the proxy's state of it
    shown,    \* per document: the text whose findings the editor shows
    jobs,     \* running publishMergedPluginDiagnostics goroutines
    pump,     \* where the editor pump is inside a handler
    up,       \* where the upstream pump is inside a publishDiagnostics frame
    project,  \* projectDiagnosticGeneration
    input,    \* per owner: the version of its project inputs on disk
    source,   \* per owner: the inputs its last stored publication was made of
    board,    \* per owner: the inputs the editor's project diagnostics reflect
    refresh,  \* the pending project refresh, its timer and its coalescer
    task,     \* the refreshProjectDiagnostics run in flight
    req,      \* per request id: the request
    failed,   \* history: a plugin failed to answer a project refresh
    events    \* how many events of each sort there were so far

vars == <<doc, shown, jobs, pump, up, project, input, source, board, refresh,
          task, req, failed, events>>

NoText == -1
Text == Nat \cup {NoText}
Kinds == {"local", "forward", "command", "format"}
UpIdle == [at |-> "read", doc |-> NoDoc, gen |-> 0, project |-> 0]
NoTask == [at |-> "idle", gen |-> 0, all |-> FALSE, owners |-> {},
           refreshed |-> {}, snap |-> [o \in Owners |-> 0], done |-> FALSE,
           accepted |-> FALSE]
Unsent == [at |-> "unsent", kind |-> "local", doc |-> NoDoc, base |-> NoText,
           gens |-> [d \in Docs |-> 0], edit |-> [d \in Docs |-> NoText],
           clean |-> {}, registry |-> "none", answers |-> 0,
           cancelled |-> FALSE]

-----------------------------------------------------------------------------
(***************************************************************************)
(* The session starts with every document open, equal to its file, and     *)
(* settled without findings.                                               *)
(***************************************************************************)
Init ==
    /\ doc = [d \in Docs |->
                [open |-> TRUE, dirty |-> FALSE, diag |-> 0, gen |-> 0,
                 text |-> 0, program |-> 0, plugin |-> NoText]]
    /\ shown = [d \in Docs |-> NoText]
    /\ jobs = {}
    /\ pump = [at |-> "read", doc |-> NoDoc, next |-> "read"]
    /\ up = UpIdle
    /\ project = 0
    /\ input = [o \in Owners |-> 0]
    /\ source = [o \in Owners |-> 0]
    /\ board = [o \in Owners |-> 0]
    /\ refresh = [pending |-> FALSE, gen |-> 0, all |-> FALSE, owners |-> {},
                  timer |-> FALSE, running |-> FALSE, queued |-> FALSE]
    /\ task = NoTask
    /\ req = [r \in Reqs |-> Unsent]
    /\ failed = FALSE
    /\ events = [all |-> 0, job |-> 0]

Dirty == {d \in Docs : doc[d].dirty}
IsCleanAt(d, gen) == ~doc[d].dirty /\ doc[d].gen = gen

\* The editor pump reads its next frame only when the last handler is done.
Event == /\ events.all < MaxEvents
         /\ events' = [events EXCEPT !.all = @ + 1]
JobEvent == /\ events.all < MaxEvents /\ events.job < MaxJobs
            /\ events' = [events EXCEPT !.all = @ + 1, !.job = @ + 1]
Reading == pump.at = "read"
Goto(at, d, next) == pump' = [at |-> at, doc |-> d, next |-> next]
Return == Goto("read", NoDoc, "read")

diagnosticsVars == <<jobs, project>>
refreshVars == <<board, source, refresh, task, failed>>

-----------------------------------------------------------------------------
(***************************************************************************)
(* Document notifications.                                                 *)
(***************************************************************************)

MarkDirty(d) ==
    /\ doc' = [doc EXCEPT ![d].open = TRUE, ![d].dirty = TRUE,
                          ![d].diag = @ + 1, ![d].gen = @ + 1,
                          ![d].text = doc[d].gen + 1, ![d].plugin = NoText]
    /\ project' = project + 1
    /\ IF doc[d].plugin = NoText THEN Return ELSE Goto("clear", d, "read")

\* didChange: the buffer leaves the disk; an empty publication follows when
\* the cache says that findings of the document are on display.
DidChange(d) ==
    /\ Reading /\ Event
    /\ doc[d].open
    /\ MarkDirty(d)
    /\ UNCHANGED <<shown, jobs, up, input, req, refreshVars>>

\* The clearing frame, written after diagnosticsMu was released.
ClearShown ==
    /\ pump.at = "clear"
    /\ shown' = [shown EXCEPT ![pump.doc] = NoText]
    /\ Return
    /\ UNCHANGED <<doc, jobs, up, project, input, refreshVars, req, events>>

\* didSave: the warm Program reads the saved text, the document is clean.
DidSave(d) ==
    /\ Reading /\ JobEvent
    /\ doc[d].open
    /\ doc' = [doc EXCEPT ![d].dirty = FALSE, ![d].program = doc[d].text]
    /\ Goto("generations", d, "resume")
    /\ UNCHANGED <<shown, up, input, req, diagnosticsVars, refreshVars>>

\* didOpen of a buffer that equals its file.
DidOpenClean(d) ==
    /\ Reading /\ JobEvent
    /\ ~doc[d].open
    /\ doc' = [doc EXCEPT ![d].open = TRUE, ![d].dirty = FALSE,
                          ![d].program = doc[d].text]
    /\ Goto("generations", d, "read")
    /\ UNCHANGED <<shown, up, input, req, diagnosticsVars, refreshVars>>

\* didOpen of a buffer that differs from its file.
DidOpenDirty(d) ==
    /\ Reading /\ Event
    /\ ~doc[d].open
    /\ MarkDirty(d)
    /\ UNCHANGED <<shown, jobs, up, input, req, refreshVars>>

\* A goroutine that computes and publishes the findings of a document.
Job(d, gen, projectGen) ==
    [at |-> "compute", doc |-> d, gen |-> gen, project |-> projectGen,
     found |-> NoText, updated |-> {}, snap |-> [o \in Owners |-> 0]]

NextGenerations(d) ==
    /\ doc' = [doc EXCEPT ![d].diag = @ + 1]
    /\ project' = project + 1

StartPublication ==
    /\ pump.at = "generations"
    /\ NextGenerations(pump.doc)
    /\ jobs' = jobs \cup {Job(pump.doc, doc[pump.doc].diag + 1, project + 1)}
    /\ Goto(pump.next, NoDoc, "read")
    /\ UNCHANGED <<shown, up, input, refreshVars, req, events>>

\* didClose: the buffer is discarded, the document is what the disk holds.
DidClose(d) ==
    /\ Reading /\ Event
    /\ doc[d].open
    /\ doc' = [doc EXCEPT ![d].open = FALSE, ![d].dirty = FALSE,
                          ![d].diag = @ + 1, ![d].gen = @ + 1,
                          ![d].text = doc[d].program, ![d].plugin = NoText]
    /\ Goto("resume", NoDoc, "read")
    /\ UNCHANGED <<shown, up, input, req, diagnosticsVars, refreshVars>>

\* A watched file is deleted: its findings are withdrawn under both locks.
Deleted(d) ==
    /\ Reading /\ Event
    /\ doc' = [doc EXCEPT ![d].diag = @ + 1, ![d].plugin = NoText]
    /\ shown' = IF doc[d].plugin = NoText THEN shown
                ELSE [shown EXCEPT ![d] = NoText]
    /\ UNCHANGED <<pump, up, input, req, diagnosticsVars, refreshVars>>

-----------------------------------------------------------------------------
(***************************************************************************)
(* The project refresh.                                                    *)
(***************************************************************************)

\* A watched change of project inputs: the inputs of the owners `changed`
\* moved, and their refresh becomes pending in one transaction with the
\* generation that invalidates every computation in flight.
InputsChanged(changed, all) ==
    /\ Reading /\ JobEvent
    /\ input' = [o \in Owners |-> IF all \/ o \in changed THEN input[o] + 1
                                  ELSE input[o]]
    /\ project' = project + 1
    /\ refresh' = [refresh EXCEPT
                     !.pending = TRUE, !.gen = project + 1, !.timer = TRUE,
                     !.all = @ \/ all,
                     !.owners = IF all THEN {}
                                ELSE IF refresh.all THEN @
                                ELSE @ \cup changed]
    /\ UNCHANGED <<doc, shown, jobs, pump, up, source, board, task, req,
                   failed>>

\* Defect: a refresh in flight is trusted to publish.
ResumesIdle == Dirty = {} /\ refresh.pending /\ ~refresh.running

\* resumePendingProjectDiagnosticRefresh: whether it arms the timer again
\* under a new generation, and the refresh it leaves.
Resumes == Dirty = {} /\ refresh.pending
Resumed == IF Resumes
           THEN [refresh EXCEPT !.gen = project + 1, !.timer = TRUE]
           ELSE refresh
ResumedProject == IF Resumes THEN project + 1 ELSE project

ResumeRefresh ==
    /\ pump.at = "resume"
    /\ refresh' = Resumed
    /\ project' = ResumedProject
    /\ Return
    /\ UNCHANGED <<doc, shown, jobs, up, input, source, board, task, req,
                   failed, events>>

\* The end of one run: one queued request is drained by the same goroutine.
\* `r` is the state of the refresh the run leaves.
Finish(r) ==
    IF r.queued
    THEN /\ refresh' = [r EXCEPT !.queued = FALSE]
         /\ task' = [NoTask EXCEPT !.at = "start"]
    ELSE /\ refresh' = [r EXCEPT !.running = FALSE]
         /\ task' = NoTask

\* A run reads what is pending, and has nothing to do while a buffer is dirty.
Start(r) ==
    IF ~r.pending \/ Dirty # {}
    THEN Finish(r)
    ELSE /\ task' = [NoTask EXCEPT !.at = "compute", !.gen = r.gen,
                                   !.all = r.all, !.owners = r.owners]
         /\ refresh' = r

TaskStart ==
    /\ task.at = "start"
    /\ Start(refresh)
    /\ UNCHANGED <<doc, shown, jobs, pump, up, project, input, source, board,
                   req, failed, events>>

\* The debounce timer hands the refresh to the coalescer: it runs now, or
\* once more after the run in flight.
TimerFires ==
    /\ refresh.timer
    /\ IF refresh.running
       THEN /\ refresh' = [refresh EXCEPT !.timer = FALSE, !.queued = TRUE]
            /\ UNCHANGED task
       ELSE Start([refresh EXCEPT !.timer = FALSE, !.running = TRUE])
    /\ UNCHANGED <<doc, shown, jobs, pump, up, project, input, source, board,
                   req, failed, events>>

Stored(owners) ==
    [o \in Owners |-> IF o \in owners THEN input[o] ELSE source[o]]

\* Every selected plugin is asked; one that fails keeps its last publication.
TaskCompute ==
    /\ task.at = "compute"
    /\ LET selected == IF task.all THEN Owners ELSE task.owners IN
       IF selected = {}
       THEN /\ task' = [task EXCEPT !.at = "complete"]
            /\ UNCHANGED <<source, failed>>
       ELSE \E refreshed \in SUBSET selected :
              /\ source' = Stored(refreshed)
              /\ failed' = (failed \/ refreshed # selected)
              /\ task' = [task EXCEPT !.at = "write", !.snap = source',
                                      !.refreshed = refreshed,
                                      !.done = (refreshed = selected)]
    /\ UNCHANGED <<doc, shown, jobs, pump, up, project, input, board, refresh,
                   req, events>>

\* writeProjectDiagnosticsIfCurrent with publishEmpty: accepted and written,
\* or rejected.
TaskWrite ==
    /\ task.at = "write"
    /\ LET current == project = task.gen /\ Dirty = {} IN
       /\ board' = IF current THEN task.snap ELSE board
       /\ task' = [task EXCEPT !.at = "written", !.accepted = current]
    /\ UNCHANGED <<doc, shown, jobs, pump, up, project, input, source,
                   refresh, req, failed, events>>

\* Defect: a publication from before the last change strikes owners off.
RecordableLate(gen) == refresh.pending /\ ~refresh.all /\ refresh.owners # {}

\* recordPendingProjectDiagnosticOwnersRefreshed: whether it accepts `gen`,
\* and the owners it leaves.
Recordable(gen) ==
    /\ refresh.pending /\ gen >= refresh.gen
    /\ ~refresh.all /\ refresh.owners # {}

Recorded(gen, owners) ==
    IF Recordable(gen) THEN [refresh EXCEPT !.owners = @ \ owners] ELSE refresh

RecordedAll(gen, owners) == Recordable(gen) /\ refresh.owners \subseteq owners

TaskWritten ==
    /\ task.at = "written"
    /\ \/ /\ Dirty # {}
          /\ Finish(refresh)
          /\ UNCHANGED project
       \/ /\ Dirty = {} /\ task.accepted
          /\ LET left == IF task.all THEN refresh
                         ELSE Recorded(task.gen, task.refreshed)
                 whole == ~task.all /\ RecordedAll(task.gen, task.refreshed)
             IN IF task.done \/ whole
                THEN /\ task' = [task EXCEPT !.at = "complete"]
                     /\ refresh' = left
                ELSE Finish(left)
          /\ UNCHANGED project
       \/ /\ Dirty = {} /\ ~task.accepted
          /\ project' = ResumedProject
          /\ Finish(Resumed)
    /\ UNCHANGED <<doc, shown, jobs, pump, up, input, source, board, req,
                   failed, events>>

\* Defect: any publication completes what is pending.
CompletedAny(gen) ==
    IF refresh.pending
    THEN [refresh EXCEPT !.pending = FALSE, !.all = FALSE, !.owners = {},
                         !.timer = FALSE]
    ELSE refresh

\* completePendingProjectDiagnosticRefresh
Completed(gen) ==
    IF refresh.pending /\ gen >= refresh.gen
    THEN [refresh EXCEPT !.pending = FALSE, !.all = FALSE, !.owners = {},
                         !.timer = FALSE]
    ELSE refresh

TaskComplete ==
    /\ task.at = "complete"
    /\ Finish(Completed(task.gen))
    /\ UNCHANGED <<doc, shown, jobs, pump, up, project, input, source, board,
                   req, failed, events>>

-----------------------------------------------------------------------------
(***************************************************************************)
(* publishMergedPluginDiagnostics, one goroutine per trigger.              *)
(***************************************************************************)

Becomes(j, k) == jobs' = (jobs \ {j}) \cup {k}
Ends(j) == jobs' = jobs \ {j}
\* After its document a job turns to the project if a plugin answered for it.
Project(j) == IF j.updated = {} THEN Ends(j)
              ELSE Becomes(j, [j EXCEPT !.at = "project", !.found = NoText])
Latest(j) == doc[j.doc].diag = j.gen /\ ~doc[j.doc].dirty

\* Early return, or the call of the plugins: the document has findings or
\* not, and the plugins in `updated` answered for the project as well.
JobCompute(j) ==
    /\ j.at = "compute"
    /\ \/ /\ ~Latest(j)
          /\ Ends(j)
          /\ UNCHANGED source
       \/ \E found \in {NoText, doc[j.doc].program}, updated \in SUBSET Owners :
            /\ Latest(j)
            /\ source' = Stored(updated)
            /\ Becomes(j, [j EXCEPT !.at = "prepare", !.found = found,
                                    !.updated = updated, !.snap = source'])
    /\ UNCHANGED <<doc, shown, pump, up, project, input, board, refresh, task,
                   req, failed, events>>

\* prepareMergedPluginDiagnostics: the cache takes the findings, and there is
\* something to write unless findings are and were absent.
JobPrepare(j) ==
    /\ j.at = "prepare"
    /\ IF Latest(j)
       THEN /\ doc' = [doc EXCEPT ![j.doc].plugin = j.found]
            /\ IF j.found = NoText /\ doc[j.doc].plugin = NoText
               THEN Project(j)
               ELSE Becomes(j, [j EXCEPT !.at = "write"])
       ELSE /\ Project(j)
            /\ UNCHANGED doc
    /\ UNCHANGED <<shown, pump, up, project, input, refreshVars, req, events>>

\* Defect: the check made when the cache was filled is trusted.
JobWriteUnchecked(j) ==
    /\ j.at = "write"
    /\ shown' = [shown EXCEPT ![j.doc] = j.found]
    /\ Project(j)
    /\ UNCHANGED <<doc, pump, up, project, input, refreshVars, req, events>>

\* writePublishDiagnosticsIfCurrent
JobWrite(j) ==
    /\ j.at = "write"
    /\ shown' = IF Latest(j) THEN [shown EXCEPT ![j.doc] = j.found] ELSE shown
    /\ Project(j)
    /\ UNCHANGED <<doc, pump, up, project, input, refreshVars, req, events>>

\* writeProjectDiagnosticsIfCurrent; an empty publication that replaces an
\* empty one is accepted without a frame, and then nothing is recorded.
JobProject(j) ==
    /\ j.at = "project"
    /\ IF Dirty = {} /\ project = j.project
       THEN /\ board' = j.snap
            /\ \/ Becomes(j, [j EXCEPT !.at = "record"])
               \/ Ends(j)
       ELSE /\ Ends(j)
            /\ UNCHANGED board
    /\ UNCHANGED <<doc, shown, pump, up, project, input, source, refresh,
                   task, req, failed, events>>

JobRecord(j) ==
    /\ j.at = "record"
    /\ refresh' = Recorded(j.project, j.updated)
    /\ IF RecordedAll(j.project, j.updated)
       THEN Becomes(j, [j EXCEPT !.at = "complete"])
       ELSE Ends(j)
    /\ UNCHANGED <<doc, shown, pump, up, project, input, source, board, task,
                   req, failed, events>>

JobComplete(j) ==
    /\ j.at = "complete"
    /\ refresh' = Completed(j.project)
    /\ Ends(j)
    /\ UNCHANGED <<doc, shown, pump, up, project, input, source, board, task,
                   req, failed, events>>

-----------------------------------------------------------------------------
(***************************************************************************)
(* publishDiagnostics of tsgo.  The frame is forwarded as it is, so it     *)
(* takes the plugin findings off the screen; a goroutine puts them back.   *)
(***************************************************************************)

UpstreamPublishes(d) ==
    /\ up.at = "read" /\ JobEvent
    /\ up' = [UpIdle EXCEPT !.doc = d, !.at = IF doc[d].dirty THEN "forward"
                                              ELSE "generations"]
    /\ UNCHANGED <<doc, shown, pump, input, req, diagnosticsVars, refreshVars>>

UpstreamGenerations ==
    /\ up.at = "generations"
    /\ NextGenerations(up.doc)
    /\ up' = [at |-> "forward", doc |-> up.doc, gen |-> doc[up.doc].diag + 1,
              project |-> project + 1]
    /\ UNCHANGED <<shown, jobs, pump, input, refreshVars, req, events>>

UpstreamForward ==
    /\ up.at = "forward"
    /\ shown' = [shown EXCEPT ![up.doc] = NoText]
    /\ jobs' = IF up.gen # 0
               THEN jobs \cup {Job(up.doc, up.gen, up.project)} ELSE jobs
    /\ up' = UpIdle
    /\ UNCHANGED <<doc, pump, project, input, refreshVars, req, events>>

-----------------------------------------------------------------------------
(***************************************************************************)
(* Requests of the editor.                                                 *)
(***************************************************************************)

requestUnchanged ==
    UNCHANGED <<doc, shown, jobs, pump, up, project, input, refreshVars>>

\* A request that is over keeps what the editor got of it.
Closed(q, at, answers, edit) ==
    [Unsent EXCEPT !.at = at, !.answers = answers, !.edit = edit,
                   !.clean = q.clean, !.cancelled = q.cancelled]

\* A request whose answer depends on plugins is registered and, when tsgo
\* has no part in it, handed to a goroutine; one that cannot be answered from
\* a dirty document is answered empty at once, or left to tsgo.
Send(r, kind, d) ==
    /\ Reading /\ Event
    /\ req[r].at = "unsent"
    /\ LET blocked == doc[d].dirty /\ kind # "format"
           sent == [Unsent EXCEPT
                      !.kind = kind, !.doc = d, !.base = doc[d].text,
                      !.gens = [x \in Docs |-> doc[x].gen],
                      !.clean = IF kind = "format" THEN Docs ELSE Docs \ Dirty]
       IN req' = [req EXCEPT ![r] =
            CASE blocked /\ kind # "forward" ->
                   Closed(sent, "done", 1, sent.edit)
              [] blocked /\ kind = "forward" ->
                   [sent EXCEPT !.at = "upstream"]
              [] ~blocked /\ kind = "forward" ->
                   [sent EXCEPT !.at = "upstream", !.registry = "actions"]
              [] ~blocked /\ kind = "local" ->
                   [sent EXCEPT !.at = "compute", !.registry = "local"]
              [] OTHER ->
                   [sent EXCEPT !.at = "compute", !.registry = "commands"]]
    /\ requestUnchanged

\* $/cancelRequest: forgetCancelledRequest empties every registry.
Cancel(r) ==
    /\ Reading
    /\ req[r].at # "unsent" /\ ~req[r].cancelled /\ req[r].answers = 0
    /\ req' = [req EXCEPT ![r].cancelled = TRUE, ![r].registry = "none"]
    /\ requestUnchanged /\ UNCHANGED events

\* Defect: the response is forwarded as well.
AugmentUpstreamTwice(r) ==
    /\ up.at = "read"
    /\ req[r].at = "upstream"
    /\ req' = [req EXCEPT ![r] =
                 IF @.registry = "actions"
                 THEN [@ EXCEPT !.at = "compute", !.registry = "augmenting",
                                !.answers = @ + 1]
                 ELSE Closed(@, "done", @.answers + 1, @.edit)]
    /\ requestUnchanged /\ UNCHANGED events

\* tsgo answers; a remembered code action is handed to a goroutine, any other
\* response is forwarded.
AugmentUpstream(r) ==
    /\ up.at = "read"
    /\ req[r].at = "upstream"
    /\ req' = [req EXCEPT ![r] =
                 IF @.registry = "actions"
                 THEN [@ EXCEPT !.at = "compute", !.registry = "augmenting"]
                 ELSE Closed(@, "done", @.answers + 1, @.edit)]
    /\ requestUnchanged /\ UNCHANGED events

\* The goroutine asks the plugins.  `targets` are the documents the answer
\* edits: none when the plugins fail or have nothing to say.
ComputeAnswer(r) ==
    /\ req[r].at = "compute"
    /\ LET q == req[r]
           scope == IF q.kind = "command" THEN SUBSET Docs
                    ELSE IF q.kind = "format" \/ IsCleanAt(q.doc, q.gens[q.doc])
                    THEN {{}, {q.doc}} ELSE {{}}
       IN \E targets \in scope :
            req' = [req EXCEPT
                      ![r].at = "take",
                      ![r].edit = [d \in Docs |->
                         IF d \notin targets THEN NoText
                         ELSE IF q.kind = "format" THEN q.base
                         ELSE doc[d].program]]
    /\ requestUnchanged /\ UNCHANGED events

\* Defect: code actions share one registry.
RegistryShared(kind) ==
    IF kind \in {"local", "forward"} THEN "local" ELSE "commands"

Registry(kind) == CASE kind = "local" -> "local"
                    [] kind = "forward" -> "augmenting"
                    [] OTHER -> "commands"

\* takePending...: the goroutine of a cancelled request returns silently.
TakePending(r) ==
    /\ req[r].at = "take"
    /\ req' = [req EXCEPT ![r] =
                 IF @.registry = Registry(@.kind)
                 THEN [@ EXCEPT !.at = "answer", !.registry = "none"]
                 ELSE Closed(@, "dropped", @.answers, Unsent.edit)]
    /\ requestUnchanged /\ UNCHANGED events

\* Defect: a clean document is taken for an unchanged one.
AnswerIsClean(q) ==
    \A d \in {q.doc} \cup {x \in Docs : q.edit[x] # NoText} :
        q.kind = "format" \/ ~doc[d].dirty

\* Whether the answer still describes the documents, decided under writeMu.
AnswerIsCurrent(q) ==
    CASE q.kind = "format" -> doc[q.doc].gen = q.gens[q.doc]
      [] q.kind = "command" ->
           \A d \in {q.doc} \cup {x \in Docs : q.edit[x] # NoText} :
              IsCleanAt(d, q.gens[d])
      [] OTHER -> IsCleanAt(q.doc, q.gens[q.doc])

WriteAnswer(r) ==
    /\ req[r].at = "answer"
    /\ req' = [req EXCEPT ![r] =
                 Closed(@, "done", @.answers + 1,
                        IF AnswerIsCurrent(@) THEN @.edit ELSE Unsent.edit)]
    /\ requestUnchanged /\ UNCHANGED events

-----------------------------------------------------------------------------
EditorEvent ==
    \/ \E d \in Docs : \/ DidChange(d) \/ DidSave(d) \/ DidOpenClean(d)
                       \/ DidOpenDirty(d) \/ DidClose(d) \/ Deleted(d)
    \/ \E changed \in SUBSET Owners \ {{}} : InputsChanged(changed, FALSE)
    \/ InputsChanged({}, TRUE)
    \/ \E r \in Reqs, kind \in Kinds, d \in Docs : Send(r, kind, d)
    \/ \E r \in Reqs : Cancel(r)

PumpStep == ClearShown \/ StartPublication \/ ResumeRefresh
UpstreamStep == UpstreamGenerations \/ UpstreamForward
TaskStep == TaskStart \/ TaskCompute \/ TaskWrite \/ TaskWritten
            \/ TaskComplete
JobStep(j) == JobCompute(j) \/ JobPrepare(j) \/ JobWrite(j) \/ JobProject(j)
              \/ JobRecord(j) \/ JobComplete(j)
RequestStep(r) == AugmentUpstream(r) \/ ComputeAnswer(r) \/ TakePending(r)
                  \/ WriteAnswer(r)

\* What the proxy's goroutines and tsgo do without another event.
Progress ==
    \/ PumpStep \/ UpstreamStep \/ TimerFires \/ TaskStep
    \/ \E j \in jobs : JobStep(j)
    \/ \E r \in Reqs : RequestStep(r)

Next == EditorEvent \/ (\E d \in Docs : UpstreamPublishes(d)) \/ Progress

Spec == Init /\ [][Next]_vars
FairSpec == Spec /\ WF_vars(Progress)

-----------------------------------------------------------------------------
DocState == [open : BOOLEAN, dirty : BOOLEAN, diag : Nat, gen : Nat,
             text : Nat, program : Nat, plugin : Text]
JobState == [at : {"compute", "prepare", "write", "project", "record",
                   "complete"},
             doc : Docs, gen : Nat, project : Nat, found : Text,
             updated : SUBSET Owners, snap : [Owners -> Nat]]
PumpState == [at : {"read", "clear", "generations", "resume"},
              doc : Docs \cup {NoDoc}, next : {"read", "resume"}]
UpState == [at : {"read", "generations", "forward"},
            doc : Docs \cup {NoDoc}, gen : Nat, project : Nat]
RefreshState == [pending : BOOLEAN, gen : Nat, all : BOOLEAN,
                 owners : SUBSET Owners, timer : BOOLEAN,
                 running : BOOLEAN, queued : BOOLEAN]
TaskState == [at : {"idle", "start", "compute", "write", "written",
                    "complete"},
              gen : Nat, all : BOOLEAN, owners : SUBSET Owners,
              refreshed : SUBSET Owners, snap : [Owners -> Nat],
              done : BOOLEAN, accepted : BOOLEAN]
ReqState == [at : {"unsent", "upstream", "compute", "take", "answer", "done",
                   "dropped"},
             kind : Kinds, doc : Docs \cup {NoDoc}, base : Text,
             gens : [Docs -> Nat], edit : [Docs -> Text], clean : SUBSET Docs,
             registry : {"none", "actions", "augmenting", "local", "commands"},
             answers : Nat, cancelled : BOOLEAN]

DocumentTypes == doc \in [Docs -> DocState] /\ shown \in [Docs -> Text]
PumpTypes ==
    /\ pump \in PumpState
    /\ pump.at \in {"clear", "generations"} => pump.doc \in Docs
    /\ up \in UpState
    /\ up.at # "read" => up.doc \in Docs
RefreshTypes ==
    /\ project \in Nat
    /\ input \in [Owners -> Nat]
    /\ source \in [Owners -> Nat]
    /\ board \in [Owners -> Nat]
    /\ refresh \in RefreshState
    /\ task \in TaskState
    /\ refresh.running <=> task.at # "idle"
    /\ failed \in BOOLEAN

\* Every variable of the proxy keeps its type, a pump inside a handler knows
\* its document, and the coalescer counts a run as running exactly while
\* there is one.
TypeOK ==
    /\ DocumentTypes
    /\ jobs \subseteq JobState
    /\ PumpTypes
    /\ RefreshTypes
    /\ req \in [Reqs -> ReqState]
    /\ events \in [all : 0..MaxEvents, job : 0..MaxJobs]

\* An id gets at most one answer whatever the two pumps, the goroutines and a
\* cancellation do, and a registry holds it only while somebody will still
\* take it out (lsp_proxy.go:546-549: the map cannot grow unbounded).
AnsweredOnce ==
    \A r \in Reqs :
        /\ req[r].answers <= 1
        /\ req[r].registry # "none" =>
              /\ req[r].answers = 0 /\ ~req[r].cancelled
              /\ req[r].at \in {"upstream", "compute", "take"}

\* Findings that appear on a document describe the text it has at that moment
\* and never a dirty buffer: the generation is checked where the cache is
\* filled and again under writeMu, whatever happens in between.
FindingsCurrent ==
    [][\A d \in Docs :
          shown'[d] # shown[d] /\ shown'[d] # NoText =>
             ~doc[d].dirty /\ shown'[d] = doc[d].text]_vars

\* An edit or a code action that reaches the editor was computed from the
\* text that each document it touches has when the answer is written.  It
\* speaks of the documents that were clean when the request arrived (for
\* formatting, which reads the buffer, of all): saving a buffer does not move
\* its documentGeneration, so a command that started while a document outside
\* its arguments was dirty may return an edit of that document's old file.
AnswersCurrent ==
    [][\A r \in Reqs : req'[r].answers > req[r].answers =>
          \A d \in req[r].clean :
             req'[r].edit[d] # NoText => req'[r].edit[d] = doc[d].text]_vars

\* A change of project inputs that the editor's project diagnostics do not
\* reflect yet keeps a refresh pending: no completed refresh, partial refresh
\* or document publication crosses it off too early.
RefreshKept ==
    \A o \in Owners : board[o] # input[o] =>
        refresh.pending /\ (refresh.all \/ o \in refresh.owners)

\* Every request is answered unless the editor cancels it.
RequestAnswered ==
    \A r \in Reqs : req[r].at # "unsent" ~>
                     (req[r].answers = 1 \/ req[r].cancelled)

\* Once no buffer is dirty any more the editor's project diagnostics reflect
\* every input, unless a plugin failed to answer: a refresh that was rejected
\* or skipped is armed again.
RefreshCatchesUp ==
    <>[](Dirty = {}) => <>[](board = input \/ failed)

\* lsp_proxy.go:1420-1422 on a buffer that differs from its file: the proxy
\* "publishes an empty set and reports nothing until the buffer reaches disk".
SuppressedWhileDirty ==
    \A d \in Docs : doc[d].dirty /\ pump.at # "clear" => shown[d] = NoText
-----------------------------------------------------------------------------
(***************************************************************************)
(* The inductive invariant behind RefreshKept.  A publisher is the refresh *)
(* task or a job; its number is the project generation it was given.       *)
(***************************************************************************)

Covered(o) == refresh.pending /\ (refresh.all \/ o \in refresh.owners)

Snapped(j) == j.at \in {"prepare", "write", "project"}

\* A job whose snapshot writeProjectDiagnosticsIfCurrent may still accept.
Holding(j) == Snapped(j) /\ j.project = project

\* What is stored and displayed for o, and what can be displayed next, was made
\* of its present inputs.
Fresh(o) == /\ source[o] = input[o] /\ board[o] = input[o]
            /\ \A j \in jobs : Holding(j) => j.snap[o] = input[o]

\* Generations are handed out once each, and to one publisher or refresh.
Numbered ==
    /\ task.gen <= refresh.gen /\ refresh.gen <= project
    /\ \A j \in jobs : j.project <= project /\ j.project # refresh.gen
    /\ \A j, k \in jobs : j.project = k.project => j = k
    /\ up.gen # 0 => /\ up.project <= project /\ up.project # refresh.gen
                     /\ \A j \in jobs : j.project # up.project

\* Whatever is displayed, stored or can be displayed next and is out of date is
\* covered by the pending refresh.
StaleCovered ==
    \A o \in Owners : ~Fresh(o) => Covered(o)

\* A job that nothing was invalidated under has present inputs of the owners it
\* asked, and has published them when it strikes them off.
JobCurrent(j) ==
    /\ Snapped(j) => \A o \in j.updated : j.snap[o] = input[o] /\ source[o] = input[o]
    /\ j.at = "record" => \A o \in j.updated : Fresh(o)
    /\ j.at = "complete" => \A o \in Owners : ~Covered(o)

JobsCurrent == \A j \in jobs : j.project >= refresh.gen => JobCurrent(j)

\* So has the refresh task, which was selected from what is still pending.
TaskCurrent ==
    task.gen = refresh.gen =>
        /\ task.at \in {"compute", "write", "written"} /\ refresh.pending =>
              refresh.all = task.all /\ refresh.owners \subseteq task.owners
        /\ task.at = "write" =>
              /\ \A o \in task.refreshed : task.snap[o] = input[o] /\ source[o] = input[o]
              /\ task.gen = project =>
                    \A o \in Owners : task.snap[o] # input[o] => Covered(o)
        /\ task.at \in {"write", "written"} /\ task.done =>
              task.refreshed = IF task.all THEN Owners ELSE task.owners
        /\ task.at = "written" /\ task.accepted => \A o \in task.refreshed : Fresh(o)
        /\ task.at = "complete" => \A o \in Owners : Covered(o) => Fresh(o)

RefreshInv == Numbered /\ StaleCovered /\ JobsCurrent /\ TaskCurrent

-----------------------------------------------------------------------------
(* The inductive invariant behind AnsweredOnce, FindingsCurrent and         *)
(* AnswersCurrent                                                          *)

\* A clean document is the file the warm Program read.
CleanIsProgram == \A d \in Docs : ~doc[d].dirty => doc[d].program = doc[d].text

\* A goroutine's generation is not ahead of its document's, and findings of
\* the latest generation describe the current text.
GoodJob(j) ==
    /\ j.gen <= doc[j.doc].diag
    /\ j.found # NoText /\ j.gen = doc[j.doc].diag => j.found = doc[j.doc].text
JobsGood == \A j \in jobs : GoodJob(j)
UpBehind == up.at = "forward" => up.gen <= doc[up.doc].diag

\* Where a request is decides whether it has an answer and a registry entry.
OneAnswer(q) ==
    /\ q.answers <= 1
    /\ q.at = "unsent" => ~q.cancelled
    /\ q.at # "done" => q.answers = 0
    /\ q.registry # "none" =>
         ~q.cancelled /\ q.at \in {"upstream", "compute", "take"}
    /\ q.at \notin {"unsent", "done", "dropped"} => q.doc \in Docs

\* While a generation lasts, a document that was clean when the request came
\* is clean, and what was computed for it is what it holds.
EditIsCurrent(q) ==
    q.at \notin {"unsent", "done", "dropped"} =>
      \A d \in q.clean :
        /\ q.gens[d] <= doc[d].gen
        /\ q.gens[d] = doc[d].gen =>
             /\ q.kind # "format" => ~doc[d].dirty
             /\ q.kind = "format" /\ d = q.doc => q.base = doc[d].text
             /\ q.at \in {"take", "answer"} /\ q.edit[d] # NoText =>
                  q.edit[d] = doc[d].text

\* There is an edit only once the plugins answered, and only a command edits
\* documents it was not asked about.
EditIsLocal(q) ==
    \A d \in Docs : q.edit[d] # NoText =>
        \/ q.at = "done"
        \/ q.at \in {"take", "answer"} /\ (d = q.doc \/ q.kind = "command")
RequestsHonest ==
    \A r \in Reqs : OneAnswer(req[r]) /\ EditIsCurrent(req[r])
                    /\ EditIsLocal(req[r])

\* What findings and answers rest on: every part is needed to keep another.
ProxyInv ==
    /\ TypeOK
    /\ CleanIsProgram
    /\ JobsGood
    /\ UpBehind
    /\ RequestsHonest
=============================================================================
