---------------------------- MODULE WatchSession ----------------------------
(***************************************************************************)
(* Watch mode of the launcher (runWatch), with the three parts it drives:  *)
(*                                                                         *)
(*   - the launcher's event loop: debounce timer, build cycles, settle     *)
(*     receipts, shutdown (runTtsc.ts, WatchSettlement.ts,                 *)
(*     PendingResidentCheckWatchChanges.ts);                               *)
(*   - the topology worker, a thread that owns the file watchers and       *)
(*     answers requests over two FIFO channels (AsyncWatchTopology.ts,     *)
(*     serveWatchTopologyWorker.ts, WatchTopology.ts);                     *)
(*   - the resident check session: sidecar processes that keep a Program   *)
(*     and are told only which paths changed (ResidentCheckWatchSession.ts,*)
(*     check_serve.go).                                                    *)
(*                                                                         *)
(* Inputs are a source file, whose changes are reported by path, and the   *)
(* compiler's file listing, whose changes reload the session.  A file's    *)
(* content is a version number.  The variables answer, cyc and settle hold *)
(* the continuations of the launcher's promises.                           *)
(***************************************************************************)
EXTENDS Integers, Sequences, FiniteSets

CONSTANTS
    Entries,      \* number of resident check plugins, in configured order
    MaxEdits,     \* bound on the changes made to the inputs
    Faults        \* whether the worker, the sidecars and the queries may fail

ASSUME EntriesAssumption == Entries \in Nat \ {0}
ASSUME MaxEditsAssumption == MaxEdits \in Nat
ASSUME FaultsAssumption == Faults \in BOOLEAN

Input == {"source", "listing"}
Cycle == {"c1", "c2"}
Entry == 1..Entries

\* Everybody who awaits an answer of the worker; each awaits one at a time.
Caller == Cycle \cup {"start", "settle", "close"}

Cold == [i \in Input |-> -1]        \* a sidecar without a Program
NoCycle == "none"

VARIABLES
    disk,       \* version of each input
    \* --- topology worker
    worker,     \* "up", "closing" (close handled), "dead"
    topo,       \* "new", "register" (watchers being installed), "live"
    base,       \* version of each input the worker last compared against
    owed,       \* inputs whose native event has not been delivered yet
    noted,      \* inputs with a pending notification
    barrier,    \* an idle barrier is being awaited in the worker
    inq, out,   \* requests to, and messages from, the worker
    \* --- launcher
    answer,     \* per caller: "none", "wait", "ok" or "err"
    failed,     \* AsyncWatchTopology.failed
    exited,     \* the worker's exit event was handled
    closed, running, rerun,
    timer,      \* a debounce timeout the variable `timer` refers to
    orphans,    \* timeouts that are armed although `timer` is null
    note,       \* PendingResidentCheckWatchChanges
    cyc,        \* the cycles under way
    active,     \* the cycle `active` refers to
    joined,     \* the cycle shutdown waits for
    settle,     \* state of the settle request
    done,       \* shutdown has finished
    \* --- resident check session
    selected,   \* an execution is selected
    buf,        \* pendingChanges per entry: "none", "empty", "changed"
    prog,       \* the versions each sidecar's Program was built from
    retiring,   \* a disposed sidecar has not exited yet
    \* --- history
    heard,      \* versions reported to the launcher
    idleAt,     \* versions reported when the worker last answered an idle query
    cover,      \* versions at the start of a cycle that has ended
    troubled,   \* a listing failed while a notification was decided
    overlapped, \* a cycle began during another, or before the first was due
    missed      \* a warm cycle failed before its changes were buffered

workerVars == <<worker, topo, base, owed, noted, barrier, inq, out>>
residentVars == <<selected, buf, prog, retiring>>
loopVars == <<closed, running, rerun, timer, orphans, note, active, joined, done>>
history == <<heard, idleAt, cover, troubled, overlapped, missed>>
vars == <<disk, workerVars, answer, failed, exited, loopVars, cyc, settle,
          residentVars, history>>

Version == 0..MaxEdits
Versions == [Input -> Version]
Off == [st |-> "off", change |-> {}, entry |-> 1, valid |-> TRUE,
        at |-> [i \in Input |-> 0]]

Message ==
    [kind : {"input", "topology"}, saw : Version]
        \cup [kind : {"reply"}, to : Caller, ok : BOOLEAN]
        \cup [kind : {"exit"}, clean : BOOLEAN]

\* Each variable has the values its comment lists.
TypeOK ==
    /\ {disk, base, heard, idleAt, cover} \subseteq Versions
    /\ worker \in {"up", "closing", "dead"}
    /\ topo \in {"new", "register", "live"}
    /\ owed \subseteq Input /\ noted \subseteq Input
    /\ inq \in Seq([m : {"refresh", "publish", "idle", "close"}, by : Caller])
    /\ out \in Seq(Message)
    /\ answer \in [Caller -> {"none", "wait", "ok", "err"}]
    /\ {barrier, failed, exited, closed, running, rerun, timer, done, selected,
        retiring, troubled, overlapped, missed} \subseteq BOOLEAN
    /\ orphans \in 0..2
    /\ note \subseteq {"source", "reload"}
    /\ cyc \in [Cycle -> [st : {"off", "begin", "publish", "check", "refresh"},
                          change : SUBSET {"source", "reload"},
                          entry : 1..Entries + 1, valid : BOOLEAN, at : Versions]]
    /\ {active, joined} \subseteq Cycle \cup {NoCycle}
    /\ settle \in {"none", "query", "moved", "waiting", "again", "sent", "gone"}
    /\ buf \in [Entry -> {"none", "empty", "changed"}]
    /\ prog \in [Entry -> Versions \cup {Cold}]

\* Everything is constructed, the worker starts and start() has asked it for its
\* first refresh.
Init ==
    /\ disk = [i \in Input |-> 0] /\ base = disk
    /\ worker = "up" /\ topo = "new" /\ owed = {} /\ noted = {}
    /\ barrier = FALSE
    /\ inq = <<[m |-> "refresh", by |-> "start"]>> /\ out = <<>>
    /\ answer = [x \in Caller |-> IF x = "start" THEN "wait" ELSE "none"]
    /\ failed = FALSE /\ exited = FALSE
    /\ closed = FALSE /\ running = FALSE /\ rerun = FALSE
    /\ timer = FALSE /\ orphans = 0 /\ note = {}
    /\ active = NoCycle /\ joined = NoCycle /\ done = FALSE
    /\ cyc = [c \in Cycle |-> Off]
    /\ settle = "none"
    /\ selected = FALSE /\ retiring = FALSE
    /\ buf = [e \in Entry |-> "none"] /\ prog = [e \in Entry |-> Cold]
    /\ heard = disk /\ idleAt = disk /\ cover = disk /\ troubled = FALSE
    /\ overlapped = FALSE /\ missed = FALSE

-----------------------------------------------------------------------------
(* The file system.                                                         *)

\* An input changes.  A registered watcher will hear of it; while watchers are
\* being installed the backend may not be ready to.
Edit(i) ==
    /\ ~closed /\ disk["source"] + disk["listing"] < MaxEdits
    /\ disk' = [disk EXCEPT ![i] = @ + 1]
    /\ \E hears \in IF topo = "new" \/ worker # "up" THEN {FALSE}
                    ELSE IF topo = "register" THEN BOOLEAN ELSE {TRUE} :
         owed' = IF hears THEN owed \cup {i} ELSE owed
    /\ UNCHANGED <<worker, topo, base, noted, barrier, inq, out, answer, failed,
                   exited, loopVars, cyc, settle, residentVars, history>>

-----------------------------------------------------------------------------
(* The topology worker: one thread, one message or callback at a time.      *)

Reply(x, ok) == [kind |-> "reply", to |-> x, ok |-> ok]

\* The messages a comparison of the given inputs posts: one for each that moved.
Reports(is) ==
    (IF "source" \in is /\ disk["source"] # base["source"]
     THEN <<[kind |-> "input", saw |-> disk["source"]]>> ELSE <<>>)
        \o (IF "listing" \in is /\ disk["listing"] # base["listing"]
            THEN <<[kind |-> "topology", saw |-> disk["listing"]]>> ELSE <<>>)

\* The baselines such a comparison leaves behind.
Stamped(is) == [i \in Input |-> IF i \in is THEN disk[i] ELSE base[i]]

WorkerFrame == UNCHANGED <<disk, answer, failed, exited, loopVars, cyc, settle,
                           residentVars, heard, cover, overlapped, missed>>

\* The head of the request queue, once the previous request has left the thread.
Serves(m) ==
    /\ worker \in {"up", "closing"} /\ topo # "register"
    /\ inq # <<>> /\ Head(inq).m = m
    /\ inq' = Tail(inq)

\* The first refresh lists the compiler's inputs and stamps the files it has no
\* stamp for, then installs the watchers.
FirstRefresh ==
    /\ Serves("refresh") /\ worker = "up" /\ topo = "new"
    /\ base' = Stamped(Input)
    /\ topo' = "register"
    /\ UNCHANGED <<worker, owed, noted, barrier, out, idleAt, troubled>>
    /\ WorkerFrame

\* The microtask after the registration compares every tracked file with the
\* stamp taken before it and resolves the listing again; its reports precede the
\* refresh's reply.
Reconcile ==
    /\ worker = "up" /\ topo = "register"
    /\ topo' = "live"
    /\ base' = Stamped(Input)
    /\ out' = out \o Reports(Input) \o <<Reply("start", TRUE)>>
    /\ UNCHANGED <<worker, owed, noted, barrier, inq, idleAt, troubled>>
    /\ WorkerFrame

\* A later refresh keeps the stamps of the files and reports a moved listing.
Refresh ==
    /\ Serves("refresh") /\ worker = "up" /\ topo = "live"
    /\ base' = Stamped({"listing"})
    /\ out' = out \o Reports({"listing"}) \o <<Reply(Head(inq).by, TRUE)>>
    /\ UNCHANGED <<worker, topo, owed, noted, barrier, idleAt, troubled>>
    /\ WorkerFrame

\* The listing fails: the request is answered with the error.
RefreshFails ==
    /\ Faults /\ Serves("refresh") /\ worker = "up"
    /\ out' = Append(out, Reply(Head(inq).by, FALSE))
    /\ UNCHANGED <<worker, topo, base, owed, noted, barrier, idleAt, troubled>>
    /\ WorkerFrame

\* setExtraInputs and setProjectInputs take their baselines and answer.  Both
\* publications of a cold cycle are one request here.
Publish ==
    /\ Serves("publish") /\ worker = "up"
    /\ \E ok \in {TRUE, ~Faults} :
         out' = Append(out, Reply(Head(inq).by, ok))
    /\ UNCHANGED <<worker, topo, base, owed, noted, barrier, idleAt, troubled>>
    /\ WorkerFrame

\* whenIdle yields to the event loop before it looks.
AwaitIdle ==
    /\ Serves("idle") /\ worker = "up"
    /\ barrier' = TRUE
    /\ UNCHANGED <<worker, topo, base, owed, noted, out, idleAt, troubled>>
    /\ WorkerFrame

\* No notification or reconciliation is scheduled, or the topology was closed.
AnswerIdle ==
    /\ barrier /\ worker \in {"up", "closing"} /\ topo # "register"
    /\ noted = {} \/ worker = "closing"
    /\ barrier' = FALSE
    /\ out' = Append(out, Reply("settle", TRUE))
    /\ idleAt' = base
    /\ UNCHANGED <<worker, topo, base, owed, noted, inq, troubled>>
    /\ WorkerFrame

\* close stops the topology; its watchers deliver nothing from here on.  No
\* request arrives after it: the launcher's request() rejects them itself.
CloseTopology ==
    /\ Serves("close") /\ worker = "up"
    /\ worker' = "closing"
    /\ owed' = {} /\ noted' = {}
    /\ \E ok \in {TRUE, ~Faults} : out' = Append(out, Reply("close", ok))
    /\ UNCHANGED <<topo, base, barrier, idleAt, troubled>>
    /\ WorkerFrame

\* Every answer is out: the port closes and the thread ends.
WorkerExit ==
    /\ worker = "closing" /\ ~barrier
    /\ worker' = "dead"
    /\ out' = Append(out, [kind |-> "exit", clean |-> TRUE])
    /\ inq' = <<>>
    /\ UNCHANGED <<topo, base, owed, noted, barrier, idleAt, troubled>>
    /\ WorkerFrame

\* The thread ends with an error and takes its queue with it.
WorkerDies ==
    /\ Faults /\ worker # "dead"
    /\ worker' = "dead"
    /\ out' = Append(out, [kind |-> "exit", clean |-> FALSE])
    /\ inq' = <<>> /\ owed' = {} /\ noted' = {} /\ barrier' = FALSE
    /\ UNCHANGED <<topo, base, idleAt, troubled>>
    /\ WorkerFrame

\* A native event reaches deferNotification, which schedules a decision.
Notify(i) ==
    /\ worker = "up" /\ topo = "live" /\ i \in owed
    /\ owed' = owed \ {i} /\ noted' = noted \cup {i}
    /\ UNCHANGED <<worker, topo, base, barrier, inq, out, idleAt, troubled>>
    /\ WorkerFrame

\* All pending notifications are decided together: a file is compared with its
\* stamp, a directory change resolves the listing again.
Decide ==
    /\ worker = "up" /\ topo = "live" /\ noted # {}
    /\ noted' = {}
    /\ \E is \in {noted} \cup (IF Faults THEN {noted \ {"listing"}} ELSE {}) :
         /\ base' = Stamped(is)
         /\ out' = out \o Reports(is)
         /\ troubled' = (troubled \/ is # noted)
    /\ UNCHANGED <<worker, topo, owed, barrier, inq, idleAt>>
    /\ WorkerFrame

WorkerStep ==
    \/ FirstRefresh \/ Reconcile \/ Refresh \/ Publish \/ AwaitIdle \/ AnswerIdle
    \/ CloseTopology \/ WorkerExit \/ Decide
    \/ \E i \in Input : Notify(i)

-----------------------------------------------------------------------------
(* The launcher.  A message, a timeout or a signal is handled only when the *)
(* continuations of the previous one have run.                              *)

Drained ==
    /\ \A x \in Caller : answer[x] \notin {"ok", "err"}
    /\ settle # "again"

\* Defect: parked waiters are not woken.
ChangedAsleep(s) == IF s = "query" THEN "moved" ELSE s

\* WatchSettlement.changed: a query under way has to be repeated and a parked
\* waiter is woken.  "moved" stands for a revision that no longer matches.
Changed(s) == CASE s = "query" -> "moved"
                [] s = "waiting" -> "again"
                [] OTHER -> s

\* AsyncWatchTopology.request: rejected at once after a failure or a close.
Asks(ans, x, m) ==
    LET accepted == ~failed /\ ~closed IN
    /\ answer' = [ans EXCEPT ![x] = IF accepted THEN "wait" ELSE "err"]
    /\ inq' = IF accepted /\ worker # "dead"
              THEN Append(inq, [m |-> m, by |-> x]) ELSE inq

\* ResidentCheckWatchSession.reset: the selection is dropped and every sidecar
\* disposed; cycles other than c belong to an older generation from here on.
Reset ==
    /\ selected' = FALSE
    /\ buf' = [e \in Entry |-> "none"]
    /\ prog' = [e \in Entry |-> Cold]
    /\ retiring' = (retiring \/ selected)

\* Defect: the active cycle is not joined.
ShutdownUnjoined(ans, s, lost) ==
    /\ closed' = TRUE /\ timer' = FALSE /\ joined' = NoCycle
    /\ settle' = Changed(s)
    /\ answer' = [ans EXCEPT !["close"] = IF lost THEN "err" ELSE "wait"]
    /\ inq' = IF lost \/ worker = "dead" THEN inq
              ELSE Append(inq, [m |-> "close", by |-> "close"])
    /\ Reset
    /\ UNCHANGED <<running, rerun, orphans, note, active, done, cyc>>

\* close, as finish calls it: `ans` and `s` are the answers and the settlement
\* the caller leaves, `lost` whether the worker has failed.
Shutdown(ans, s, lost) ==
    /\ closed' = TRUE /\ timer' = FALSE /\ joined' = active
    /\ settle' = Changed(s)
    /\ answer' = [ans EXCEPT !["close"] = IF lost THEN "err" ELSE "wait"]
    /\ inq' = IF lost \/ worker = "dead" THEN inq
              ELSE Append(inq, [m |-> "close", by |-> "close"])
    /\ Reset
    /\ UNCHANGED <<running, rerun, orphans, note, active, done, cyc>>

NoShutdown(ans, s) ==
    /\ answer' = ans /\ settle' = s
    /\ UNCHANGED <<inq, loopVars, residentVars, cyc>>

QueueFrame == UNCHANGED <<disk, worker, topo, base, owed, noted, barrier>>

\* SIGINT, SIGTERM, a stop message or a lost IPC channel.
Signal ==
    /\ Drained /\ ~closed
    /\ Shutdown(answer, settle, failed)
    /\ UNCHANGED <<out, failed, exited, history>> /\ QueueFrame

\* A change report reaches trigger: it is noted, and builds are debounced, or
\* repeated when one runs.
OnEvent ==
    LET msg == Head(out)
        i == IF msg.kind = "input" THEN "source" ELSE "listing" IN
    /\ Drained /\ out # <<>> /\ msg.kind \in {"input", "topology"}
    /\ out' = Tail(out)
    /\ heard' = [heard EXCEPT ![i] = msg.saw]
    /\ IF closed THEN UNCHANGED <<note, settle, rerun, timer>>
       ELSE /\ note' = IF i = "listing" THEN {"reload"}
                        ELSE IF "reload" \in note THEN note
                        ELSE note \cup {"source"}
            /\ settle' = Changed(settle)
            /\ rerun' = (rerun \/ running)
            /\ timer' = (timer \/ ~running)
    /\ UNCHANGED <<inq, answer, failed, exited, closed, running, orphans, active,
                   joined, done, cyc, residentVars, idleAt, cover, troubled,
                   overlapped, missed>>
    /\ QueueFrame

\* A reply settles the request it answers, if that is still pending.
OnReply ==
    LET msg == Head(out) IN
    /\ Drained /\ out # <<>> /\ msg.kind = "reply"
    /\ out' = Tail(out)
    /\ answer' = IF answer[msg.to] = "wait"
                 THEN [answer EXCEPT ![msg.to] = IF msg.ok THEN "ok" ELSE "err"]
                 ELSE answer
    /\ UNCHANGED <<inq, failed, exited, loopVars, cyc, settle, residentVars, history>>
    /\ QueueFrame

\* Defect: a failure leaves the pending requests pending.
OnExitForgets ==
    /\ Drained /\ out # <<>> /\ Head(out).kind = "exit"
    /\ out' = Tail(out)
    /\ exited' = TRUE /\ failed' = TRUE
    /\ IF closed THEN NoShutdown(answer, settle) ELSE Shutdown(answer, settle, TRUE)
    /\ UNCHANGED history /\ QueueFrame

\* The worker is gone.  Unless a close expected it, the topology has failed: all
\* pending requests are rejected and the session shuts down.
OnExit ==
    LET msg == Head(out)
        fails == ~failed /\ (~closed \/ ~msg.clean
                             \/ \E x \in Caller : answer[x] = "wait")
        rejected == [x \in Caller |-> IF fails /\ answer[x] = "wait"
                                      THEN "err" ELSE answer[x]] IN
    /\ Drained /\ out # <<>> /\ msg.kind = "exit"
    /\ out' = Tail(out)
    /\ exited' = TRUE /\ failed' = (failed \/ fails)
    /\ IF closed THEN NoShutdown(rejected, settle)
       ELSE Shutdown(rejected, settle, TRUE)
    /\ UNCHANGED history /\ QueueFrame

-----------------------------------------------------------------------------
(* Cycles.                                                                  *)

\* Defect: a timeout that fires stays armed.
LeftRearmed(fired) == orphans + 1

\* startRun: `timer` is set to null, the timeout it referred to is not cleared
\* (`left` are the timeouts that remain armed), and runOnce begins a cycle with
\* the changes noted so far.
StartRun(left) ==
    LET c == IF cyc["c1"].st = "off" THEN "c1" ELSE "c2" IN
    /\ timer' = FALSE /\ orphans' = left
    /\ IF closed THEN UNCHANGED <<running, note, active, cyc, settle>>
       ELSE /\ cyc[c].st = "off"
            /\ cyc' = [cyc EXCEPT ![c] = [st |-> "begin", change |-> note,
                                          entry |-> 1, valid |-> TRUE, at |-> disk]]
            /\ running' = TRUE /\ note' = {} /\ active' = c
            /\ settle' = Changed(settle)
    /\ overlapped' = (overlapped \/ (~closed /\ (running \/ answer["start"] = "wait")))
    /\ UNCHANGED <<closed, rerun, joined, done, residentVars, heard, idleAt, cover,
                   troubled, missed>>

Left(fired) == orphans - fired + IF timer THEN 1 ELSE 0

\* The first refresh has answered: start() runs the first cycle.
Started ==
    /\ answer["start"] = "ok"
    /\ answer' = [answer EXCEPT !["start"] = "none"]
    /\ StartRun(Left(0))
    /\ UNCHANGED <<inq, out, failed, exited>> /\ QueueFrame

\* The first refresh failed: the session ends.
StartFailed ==
    LET ans == [answer EXCEPT !["start"] = "none"] IN
    /\ answer["start"] = "err"
    /\ IF closed THEN NoShutdown(ans, settle) ELSE Shutdown(ans, settle, failed)
    /\ UNCHANGED <<out, failed, exited, history>> /\ QueueFrame

\* The debounce timeout expires.
TimerFires ==
    /\ Drained /\ timer
    /\ StartRun(orphans)
    /\ UNCHANGED <<inq, out, answer, failed, exited>> /\ QueueFrame

\* A timeout expires that `timer` no longer refers to.
OrphanFires ==
    /\ Drained /\ orphans > 0
    /\ StartRun(Left(1))
    /\ UNCHANGED <<inq, out, answer, failed, exited>> /\ QueueFrame

\* assertOpen: the session is not closed and no reset has retired the cycle.
Open(c) == ~closed /\ cyc[c].valid

\* Defect: a rerun asked for while the cycle ran is forgotten.
EndsForgets(c) ==
    /\ cyc' = [cyc EXCEPT ![c] = Off]
    /\ cover' = [i \in Input |-> IF cover[i] > cyc[c].at[i] THEN cover[i]
                                 ELSE cyc[c].at[i]]
    /\ running' = FALSE /\ rerun' = FALSE
    /\ settle' = Changed(settle) /\ UNCHANGED timer

\* runOnce after its build: the failure or completion marker is out, changes that
\* arrived meanwhile are debounced.
Ends(c) ==
    /\ cyc' = [cyc EXCEPT ![c] = Off]
    /\ cover' = [i \in Input |-> IF cover[i] > cyc[c].at[i] THEN cover[i]
                                 ELSE cyc[c].at[i]]
    /\ running' = FALSE /\ rerun' = FALSE
    /\ timer' = (timer \/ (rerun /\ ~closed))
    /\ settle' = Changed(settle)

\* runOnce whose build throws; a closed session says nothing more.  What a warm
\* cycle has taken and not buffered yet is lost.
Throws(c) ==
    /\ missed' = (missed \/ (selected /\ Open(c)))
    /\ IF ~closed THEN Ends(c)
       ELSE /\ cyc' = [cyc EXCEPT ![c] = Off] /\ running' = FALSE
            /\ UNCHANGED <<cover, rerun, timer, settle>>

CycleFrame ==
    /\ UNCHANGED <<out, failed, exited, closed, orphans, note, active, joined,
                   done, heard, idleAt, troubled, overlapped>>
    /\ QueueFrame

\* The cycle goes on without an effect on the launcher's loop.
Continues == UNCHANGED <<running, rerun, timer, settle, cover, missed>>

\* A reset made by cycle c retires every other cycle.
ResetBy(c, change) ==
    /\ Reset
    /\ cyc' = [x \in Cycle |->
                 IF x = c THEN [cyc[c] EXCEPT !.st = "begin", !.change = change]
                 ELSE [cyc[x] EXCEPT !.valid = cyc[x].st = "off"]]

\* run: wait for retired sidecars, obey a reload, then find the project's inputs
\* and publish them to the worker.
Begin(c) ==
    /\ cyc[c].st = "begin" /\ ~retiring
    /\ \/ /\ ~Open(c) \/ (Faults /\ "reload" \notin cyc[c].change)
          /\ Throws(c) /\ UNCHANGED <<answer, inq, residentVars>>
       \/ /\ Open(c) /\ "reload" \in cyc[c].change
          /\ ResetBy(c, cyc[c].change \ {"reload"})
          /\ Continues /\ UNCHANGED <<answer, inq>>
       \/ /\ Open(c) /\ "reload" \notin cyc[c].change
          /\ Asks(answer, c, "publish")
          /\ cyc' = [cyc EXCEPT ![c].st = "publish"]
          /\ Continues /\ UNCHANGED residentVars
    /\ CycleFrame

\* The publication is answered.  A warm cycle whose inputs moved starts over
\* cold; otherwise the change is buffered for every entry before any runs.
Published(c) ==
    /\ cyc[c].st = "publish" /\ answer[c] \in {"ok", "err"}
    /\ answer' = [answer EXCEPT ![c] = "none"] /\ UNCHANGED inq
    /\ \/ /\ answer[c] = "err" \/ ~Open(c)
          /\ Throws(c) /\ UNCHANGED residentVars
       \/ /\ answer[c] = "ok" /\ Open(c) /\ selected
          /\ ResetBy(c, {}) /\ Continues
       \/ /\ answer[c] = "ok" /\ Open(c)
          /\ selected' = TRUE
          /\ buf' = [e \in Entry |->
                       IF "source" \in cyc[c].change \/ buf[e] = "changed"
                       THEN "changed" ELSE "empty"]
          /\ cyc' = [cyc EXCEPT ![c].st = "check", ![c].entry = 1]
          /\ Continues /\ UNCHANGED <<prog, retiring>>
    /\ CycleFrame

\* What the sidecar of e checks: a cold one loads everything, a warm one applies
\* the paths it is told.
Applied(e) ==
    IF prog[e] = Cold THEN disk
    ELSE IF buf[e] = "changed" THEN [prog[e] EXCEPT !["source"] = disk["source"]]
    ELSE prog[e]

\* Defect: an entry's check consumes the changes buffered for the others.
AskConsumes(c) ==
    LET e == cyc[c].entry IN
    /\ cyc[c].st = "check" /\ e <= Entries /\ ~retiring /\ Open(c)
    /\ prog' = [prog EXCEPT ![e] = Applied(e)]
    /\ \E bad \in BOOLEAN :
         cyc' = [cyc EXCEPT ![c].entry = IF bad THEN Entries + 1 ELSE e + 1]
    /\ buf' = [x \in Entry |-> "none"]
    /\ Continues /\ UNCHANGED <<retiring, selected, answer, inq>>
    /\ CycleFrame

\* One entry's check.  A sidecar that cannot load has no Program; one whose
\* transport fails is disposed and its check runs once, outside.  An entry that
\* reports errors ends the cycle and leaves later entries their changes.
Ask(c) ==
    LET e == cyc[c].entry
        moves(bad) == [cyc EXCEPT ![c].entry = IF bad THEN Entries + 1 ELSE e + 1] IN
    /\ cyc[c].st = "check" /\ e <= Entries /\ ~retiring /\ Open(c)
    /\ \/ /\ buf[e] # "none"
          /\ \E p \in {Applied(e)} \cup ({prog[e]} \cap {Cold}), bad \in BOOLEAN :
               /\ p = Cold => bad
               /\ prog' = [prog EXCEPT ![e] = p]
               /\ cyc' = moves(bad)
          /\ UNCHANGED retiring
       \/ /\ Faults \/ buf[e] = "none"
          /\ prog' = [prog EXCEPT ![e] = Cold]
          /\ retiring' = TRUE
          /\ \E bad \in BOOLEAN : cyc' = moves(bad)
    /\ buf' = [buf EXCEPT ![e] = "none"]
    /\ Continues /\ UNCHANGED <<selected, answer, inq>>
    /\ CycleFrame

\* The checks are over, or the session was closed under them.
Checked(c) ==
    /\ cyc[c].st = "check" /\ ~retiring
    /\ \/ /\ ~Open(c)
          /\ Throws(c) /\ UNCHANGED <<answer, inq>>
       \/ /\ Open(c) /\ cyc[c].entry > Entries
          /\ Asks(answer, c, "refresh")
          /\ cyc' = [cyc EXCEPT ![c].st = "refresh"]
          /\ Continues
    /\ UNCHANGED residentVars
    /\ CycleFrame

\* The refresh after the build is answered; its failure is only reported.
Refreshed(c) ==
    /\ cyc[c].st = "refresh" /\ answer[c] \in {"ok", "err"}
    /\ answer' = [answer EXCEPT ![c] = "none"]
    /\ Ends(c)
    /\ UNCHANGED <<inq, residentVars, missed>>
    /\ CycleFrame

\* A disposed sidecar has exited.
Retired ==
    /\ retiring /\ retiring' = FALSE
    /\ UNCHANGED <<disk, workerVars, answer, failed, exited, loopVars, cyc, settle,
                   selected, buf, prog, history>>

-----------------------------------------------------------------------------
(* Settlement and the end of the session.                                   *)

\* A settle message, or a woken waiter: the idle query goes to the worker.
Query ==
    /\ \/ settle \in {"none", "sent"} /\ Drained /\ ~closed
       \/ settle = "again"
    /\ Asks(answer, "settle", "idle")
    /\ settle' = "query"
    /\ UNCHANGED <<out, failed, exited, loopVars, cyc, residentVars, history>>
    /\ QueueFrame

\* Defect: a build that is only scheduled does not count as work.
ObservedUnscheduled ==
    LET ans == [answer EXCEPT !["settle"] = "none"] IN
    /\ settle \in {"query", "moved"} /\ answer["settle"] \in {"ok", "err"}
    /\ IF answer["settle"] = "err" /\ ~closed THEN Shutdown(ans, "gone", failed)
       ELSE NoShutdown(ans, IF answer["settle"] = "err" \/ closed THEN "gone"
                            ELSE IF settle = "moved" THEN "again"
                            ELSE IF ~running THEN "sent" ELSE "waiting")
    /\ UNCHANGED <<out, failed, exited, history>> /\ QueueFrame

\* The query is answered: it is repeated if anything changed meanwhile, its
\* receipt is sent if the launcher is idle, and otherwise the waiter parks.
Observed ==
    LET ans == [answer EXCEPT !["settle"] = "none"]
        idle == ~running /\ ~rerun /\ ~timer IN
    /\ settle \in {"query", "moved"} /\ answer["settle"] \in {"ok", "err"}
    /\ IF answer["settle"] = "err" /\ ~closed THEN Shutdown(ans, "gone", failed)
       ELSE NoShutdown(ans, IF answer["settle"] = "err" \/ closed THEN "gone"
                            ELSE IF settle = "moved" THEN "again"
                            ELSE IF idle THEN "sent" ELSE "waiting")
    /\ UNCHANGED <<out, failed, exited, history>> /\ QueueFrame

\* The worker refused or never answered the close: the thread is terminated.
CloseFailed ==
    /\ answer["close"] = "err"
    /\ answer' = [answer EXCEPT !["close"] = "none"]
    /\ worker' = "dead"
    /\ out' = IF worker = "dead" THEN out
              ELSE Append(out, [kind |-> "exit", clean |-> TRUE])
    /\ inq' = <<>> /\ barrier' = FALSE
    /\ UNCHANGED <<disk, topo, base, owed, noted, failed, exited, loopVars, cyc,
                   settle, residentVars, history>>

\* The worker has closed the topology; its exit is awaited.
CloseAnswered ==
    /\ answer["close"] = "ok"
    /\ answer' = [answer EXCEPT !["close"] = "none"]
    /\ UNCHANGED <<disk, workerVars, failed, exited, loopVars, cyc, settle,
                   residentVars, history>>

\* Worker, sidecars and the active cycle are joined: finish reports the end.
Finish ==
    /\ closed /\ ~done /\ exited /\ answer["close"] = "none" /\ ~retiring
    /\ joined # NoCycle => cyc[joined].st = "off"
    /\ done' = TRUE
    /\ UNCHANGED <<disk, workerVars, answer, failed, exited, closed, running, rerun,
                   timer, orphans, note, active, joined, cyc, settle, residentVars,
                   history>>

LoopStep ==
    \/ OnEvent \/ OnReply \/ OnExit \/ Started \/ StartFailed \/ TimerFires
    \/ OrphanFires \/ Retired \/ Observed \/ CloseFailed \/ CloseAnswered \/ Finish
    \/ \E c \in Cycle : Begin(c) \/ Published(c) \/ Ask(c) \/ Checked(c) \/ Refreshed(c)

Next ==
    \/ \E i \in Input : Edit(i)
    \/ WorkerStep \/ RefreshFails \/ WorkerDies
    \/ Signal \/ Query \/ LoopStep

Spec == Init /\ [][Next]_vars

\* The worker's thread and the launcher's loop keep running, a woken waiter asks
\* again; nobody has to edit, to ask for a receipt or to stop the session.
Fairness ==
    /\ WF_vars(WorkerStep) /\ WF_vars(Decide) /\ \A i \in Input : WF_vars(Notify(i))
    /\ WF_vars(LoopStep)
    /\ WF_vars(settle = "again" /\ Query)

FairSpec == Spec /\ Fairness

-----------------------------------------------------------------------------
(* Properties.                                                              *)

\* The launcher still knows of a change to i: it is noted, taken by a cycle that
\* has not delivered it yet, or buffered for entry e.
Owing(e, i) ==
    \/ "reload" \in note \/ (i = "source" /\ i \in note)
    \/ i = "source" /\ buf[e] = "changed"
    \/ \E c \in Cycle : /\ cyc[c].st \in {"begin", "publish"}
                        /\ \/ "reload" \in cyc[c].change
                           \/ i = "source" /\ i \in cyc[c].change

\* ResidentCheckWatchSession: "a later sidecar must still receive every filesystem
\* transition when it resumes".  It is told only what changed: a warm Program is as
\* new as every report the launcher received, or the change is still owed to it.  A
\* loss would leave it stale for good, since it does not look at the disk itself.
ProgramsFollow ==
    \A e \in Entry, i \in Input :
        prog[e] = Cold \/ prog[e][i] >= heard[i] \/ closed \/ Owing(e, i)

\* ... and that is so, whatever fails, resets or interleaves, until cycles overlap or
\* a warm cycle fails before it has buffered its changes.
WarmProgramsFollow == ~overlapped /\ ~missed => ProgramsFollow

\* A settle receipt is honest: when it is sent no cycle runs, and every change the
\* worker had reported when it answered the idle query has been taken by a cycle
\* that has ended, and is known to every warm sidecar or buffered for it; again
\* until cycles overlap or a warm cycle fails before it has buffered its changes.
SettledHonest ==
    [][(~overlapped /\ ~missed /\ settle # "sent" /\ settle' = "sent") =>
         /\ \A c \in Cycle : cyc[c].st = "off"
         /\ \A i \in Input : cover[i] >= idleAt[i]
         /\ \A e \in Entry, i \in Input :
              \/ prog[e] = Cold \/ prog[e][i] >= idleAt[i]
              \/ i = "source" /\ buf[e] = "changed"]_vars

\* When shutdown reports its end nothing of the session is left: no cycle, no
\* sidecar, no topology worker and no request that waits for it.  Of cycles that
\* overlap it joins one.
ShutdownJoins ==
    done => /\ overlapped \/ \A c \in Cycle : cyc[c].st = "off"
            /\ \A e \in Entry : prog[e] = Cold
            /\ worker = "dead"
            /\ \A x \in Caller : answer[x] # "wait"

\* Shutdown ends although cycles, requests and sidecars are under way.
ShutdownEnds == <>[](closed => done)

\* No settle request waits for ever: it ends with its receipt or with the session,
\* although cycles begin and end around its queries and the worker may die.  No
\* transition between a query and the parking of the waiter is lost.
SettleEnds == []<>(settle \in {"none", "sent", "gone"})

\* In the end every change made after the watch began has been answered by a cycle
\* that started after it, also one made while watchers are installed or a cycle
\* runs, unless the session closes or the error of a listing was reported.
EditAnswered ==
    <>[](topo # "new" => \A i \in Input :
            closed \/ cover[i] >= disk[i] \/ (i = "listing" /\ troubled))

\* ResidentCheckWatchSession: "The watch launcher must serialize cycles", and
\* "callers must not run overlapping cycles".
SerialCycles ==
    \A c, d \in Cycle : c # d => cyc[c].st = "off" \/ cyc[d].st = "off"
-----------------------------------------------------------------------------
(* Why the safety properties hold: inductive invariants.                    *)

\* At most the timeout that was armed before the first cycle is orphaned.
Armed == orphans <= 1 /\ (answer["start"] # "none" => orphans = 0)

\* The worker's exit is its last word.  Once it is handled the session is closed
\* and nothing waits any more.
LastWord ==
    /\ \A j \in DOMAIN out : out[j].kind = "exit" =>
          j = Len(out) /\ worker = "dead" /\ ~exited
    /\ failed => exited
    /\ exited => worker = "dead" /\ closed /\ \A x \in Caller : answer[x] # "wait"

\* The launcher asks for a close only when it has closed the session itself.
Closing ==
    /\ worker = "closing" \/ answer["close"] # "none" => closed
    /\ \A j \in DOMAIN inq :
          /\ inq[j].m = "close" => closed
          /\ inq[j].m = "idle" <=> inq[j].by = "settle"
          /\ inq[j].by = "start" => inq[j].m = "refresh"

\* A session without a selection, or one that is closed, has no Programs; a cycle
\* that may still check has a selection.
Disposed ==
    /\ closed => ~selected
    /\ ~selected => \A e \in Entry : prog[e] = Cold
    /\ \A c \in Cycle : cyc[c].st = "check" /\ Open(c) => selected
    /\ done => closed /\ exited /\ (joined # NoCycle => cyc[joined].st = "off")

SessionInv == TypeOK /\ Armed /\ LastWord /\ Closing /\ Disposed

\* Until cycles overlap, the cycle that runs is the active one and no other is
\* under way; a timeout is armed only between cycles.
Serial ==
    /\ \A c \in Cycle : cyc[c].valid /\ (cyc[c].st # "off" => running /\ c = active)
    /\ running => ~timer /\ answer["start"] = "none"
    /\ closed => joined = active

\* The reports of i that are under way.
Kind(i) == IF i = "source" THEN "input" ELSE "topology"
About(i) == {j \in DOMAIN out : out[j].kind = Kind(i)}

\* The launcher hears of an input's versions in order, and of none that was not
\* on disk.
Told ==
    \A i \in Input :
        /\ heard[i] <= disk[i] /\ base[i] <= disk[i] /\ idleAt[i] <= disk[i]
        /\ \A j \in About(i) : heard[i] <= out[j].saw /\ out[j].saw <= disk[i]
        /\ \A j, k \in About(i) : j <= k => out[j].saw <= out[k].saw

\* The requests of x the worker has not handled, and the replies x has not seen.
Sent(x) == {j \in DOMAIN inq : inq[j].by = x}
Replied(x) == {j \in DOMAIN out : out[j].kind = "reply" /\ out[j].to = x}

\* A cycle has one request under way while it waits, and none otherwise.
Lone(c) ==
    /\ answer[c] # "none" => cyc[c].st \in {"publish", "refresh"}
    /\ answer[c] # "wait" => Sent(c) = {} /\ Replied(c) = {}
    /\ Sent(c) = {} \/ Replied(c) = {}
    /\ \A j, k \in Sent(c) : j = k
    /\ \A j, k \in Replied(c) : j = k
    /\ \A j \in Sent(c) : inq[j].m = cyc[c].st

\* A reload is obeyed before the publication.
Obeyed(c) == cyc[c].st = "publish" => "reload" \notin cyc[c].change

Following == ~closed => (\A c \in Cycle : Lone(c) /\ Obeyed(c)) /\ ProgramsFollow

FollowInv == SessionInv /\ Serial /\ Told /\ Following

\* The first refresh is answered before any settle query, and nothing was
\* selected before.
StartFirst ==
    /\ answer["start"] # "none" => ~selected
    /\ answer["start"] = "wait" =>
          \/ /\ ~barrier /\ Replied("settle") = {}
             /\ \/ inq # <<>> /\ Head(inq).by = "start"
                \/ topo = "register" \/ worker = "dead"
          \/ \E k \in Replied("start") : \A j \in Replied("settle") : k < j
    /\ \A k \in Replied("start") : out[k].ok => topo # "new"
    /\ topo = "new" => answer["start"] \in {"wait", "err"}

\* A settle request has one query under way while it waits, and none otherwise.
LoneQuery ==
    /\ answer["settle"] # "none" => settle \in {"query", "moved"}
    /\ answer["settle"] # "wait" => Sent("settle") = {} /\ Replied("settle") = {} /\ ~barrier
    /\ Sent("settle") = {} \/ (Replied("settle") = {} /\ ~barrier)
    /\ Replied("settle") = {} \/ ~barrier
    /\ \A j, k \in Sent("settle") : j = k
    /\ \A j, k \in Replied("settle") : j = k

\* A cycle that has begun since version v of i was there will have taken it.
Reached(i, v) ==
    /\ cover[i] >= v \/ \E c \in Cycle : cyc[c].st # "off" /\ cyc[c].at[i] >= v
    /\ \A e \in Entry : prog[e] = Cold \/ prog[e][i] >= v

\* Of version v of i the launcher has heard, or will hear before message n,
\* unless a cycle has reached it.
Known(i, v, n) ==
    heard[i] >= v \/ (\E j \in About(i) : j < n /\ out[j].saw >= v) \/ Reached(i, v)

\* What is heard is taken by a cycle, or a cycle is scheduled to take it.
Scheduled ==
    /\ note # {} => timer \/ rerun
    /\ rerun => running
    /\ \A i \in Input : \/ note # {} \/ cover[i] >= heard[i]
                        \/ \E c \in Cycle : cyc[c].st # "off" /\ cyc[c].at[i] >= heard[i]

Honest ==
    /\ answer["start"] = "none" =>
          /\ \A i \in Input : Known(i, base[i], Len(out) + 1)
          /\ \A j \in Replied("settle"), i \in Input : out[j].ok => Known(i, idleAt[i], j)
    /\ answer["settle"] = "ok" =>
          answer["start"] = "none" /\ \A i \in Input : Known(i, idleAt[i], 1)

HonestInv == FollowInv /\ (~closed => StartFirst /\ LoneQuery /\ Scheduled /\ Honest)

\* What holds always, until cycles overlap, and until a change is lost as well.
WatchInv ==
    /\ SessionInv
    /\ ~overlapped => Serial
    /\ ~overlapped /\ ~missed => HonestInv
=============================================================================
