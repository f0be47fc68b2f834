----------------------------- MODULE GoBuildCache -----------------------------
(***************************************************************************)
(* ttsc's own Go object cache: concurrent Go builds (withGoBuildCacheLease) *)
(* against opportunistic eviction (pruneGoBuildCacheRoot).  Builders share *)
(* the cache; a collector may delete objects only while nobody builds.     *)
(*                                                                         *)
(*   <root>/.ttsc-build-leases/<r>      one record per running build       *)
(*   <root>/.ttsc-maintenance/<r>       one record per running collector   *)
(*   <root>/.ttsc-native-retirements/*  guards of scoped Go commands       *)
(*                                                                         *)
(* There is no lock: each side publishes its record, then lists the other  *)
(* side's records.  A record is believed while its mtime is recent, so a   *)
(* record of a dead task stops counting after a grace period (one hour for *)
(* a lease, one minute for a maintenance intent).                          *)
(***************************************************************************)
EXTENDS Naturals

CONSTANTS
    Proc,        \* processes, each running at most one call at a time
    Rec,         \* record names, "<pid>-<random>.json"
    Scoped,      \* processes whose work runs in a SourceNativeRetirement scope
    Suspends,    \* a running task may miss its heartbeats for a whole grace period,
                 \* or the clock is set forward by as much
    Clock,       \* the 600 s budget of a withdrawn build may elapse
    Faults,      \* the filesystem or a heartbeat start may fail
    MaxCalls, MaxCrashes, MaxSkews,   \* bounds
    NoRec

ASSUME NoRecAssumption == NoRec \notin Rec
ASSUME ScopedAssumption == Scoped \subseteq Proc
ASSUME FlagAssumption == {Suspends, Clock, Faults} \subseteq BOOLEAN
ASSUME BoundAssumption == {MaxCalls, MaxCrashes, MaxSkews} \subseteq Nat

VARIABLES
    file,    \* file[r]: the record r: absent, by age, or marked complete
    dir,     \* dir[r]: the directory r was published in
    guard,   \* guard[r]: the native guard that names lease r
    child,   \* child[r]: the Go command started under lease r
    pc,      \* where p is
    call,    \* the call p runs
    mine,    \* mine[p]: the record of p's present attempt
    age,     \* age[p]: what the mtimes are worth at the `now` p has sampled
    behind,  \* processes whose `now` was sampled before the clock stepped back
    seen,    \* seen[p]: listed records p has still to inspect
    kept,    \* kept[p]: records p found under a guard
    live,    \* live[p]: p has found a live record
    fixing,  \* fixing[p]: the record whose bytes p read and is about to rewrite
    exit,    \* exit[p]: how p's payload ended
    beating, \* processes whose heartbeat runs
    result,  \* result[p]: what p's last call gave its caller
    timely,  \* history: no heartbeat has been late for a grace period, and the
             \* clock has not stepped back during a scan
    calls, crashes, skews

diskVars  == <<file, dir, guard, child>>
scanVars  == <<age, behind, seen, kept, live, fixing>>
bounds    == <<timely, calls, crashes, skews>>
vars == <<diskVars, scanVars, bounds, pc, call, mine, exit, beating, result>>

File  == {"none", "active", "stale", "future", "complete"}
Guard == {"none", "torn", "known"}
Child == {"none", "plain", "scoped"}
AgeAt == {"fresh", "stale", "future"}
Pc == {"idle", "start", "publish", "list", "protect", "scan", "rebase", "beat",
       "run", "open", "go", "check", "prune", "finish"}

DiskType ==
    /\ file \in [Rec -> File] /\ dir \in [Rec -> {"lease", "intent"}]
    /\ guard \in [Rec -> Guard] /\ child \in [Rec -> Child]

ScanType ==
    /\ age \in [Proc -> [Rec -> AgeAt]] /\ behind \subseteq Proc
    /\ seen \in [Proc -> SUBSET Rec] /\ kept \in [Proc -> SUBSET Rec]
    /\ live \in [Proc -> BOOLEAN]
    /\ fixing \in [Proc -> Rec \cup {NoRec}]

CallType ==
    /\ pc \in [Proc -> Pc] /\ call \in [Proc -> {"none", "build", "prune"}]
    /\ mine \in [Proc -> Rec \cup {NoRec}]
    /\ exit \in [Proc -> {"none", "ok", "fail", "retry"}]
    /\ beating \subseteq Proc /\ timely \in BOOLEAN
    /\ result \in [Proc -> {"none", "ok", "fail"}]
    /\ calls \in 0 .. MaxCalls /\ crashes \in 0 .. MaxCrashes
    /\ skews \in 0 .. MaxSkews

\* Every variable holds a value of its kind: in particular a caller is handed
\* an outcome, never the withdrawal of one attempt.
TypeOK == DiskType /\ ScanType /\ CallType

Init ==
    /\ file = [r \in Rec |-> "none"] /\ dir = [r \in Rec |-> "lease"]
    /\ guard = [r \in Rec |-> "none"] /\ child = [r \in Rec |-> "none"]
    /\ pc = [p \in Proc |-> "idle"] /\ call = [p \in Proc |-> "none"]
    /\ mine = [p \in Proc |-> NoRec] /\ fixing = [p \in Proc |-> NoRec]
    /\ age = [p \in Proc |-> [r \in Rec |-> "fresh"]]
    /\ seen = [p \in Proc |-> {}] /\ kept = [p \in Proc |-> {}]
    /\ live = [p \in Proc |-> FALSE]
    /\ exit = [p \in Proc |-> "none"]
    /\ beating = {} /\ behind = {} /\ timely = TRUE
    /\ result = [p \in Proc |-> "none"]
    /\ calls = 0 /\ crashes = 0 /\ skews = 0

-----------------------------------------------------------------------------
(* Observations                                                            *)

\* isProtected(root): a guard file exists.
Protected == \E r \in Rec : guard[r] # "none"

\* readGuards lists the guard directory, then reads each file: a guard that its
\* owner removes in between reads as malformed.
Vanishing(p) ==
    \E q \in Proc \ {p} :
        pc[q] = "go" /\ mine[q] # NoRec /\ guard[mine[q]] # "none"

\* protectedGenerations(root): every record when a guard cannot be read.
GuardedRecords ==
    IF \E r \in Rec : guard[r] = "torn" THEN Rec
    ELSE {r \in Rec : guard[r] # "none"}

\* assertReleasable(root, r): no guard names r and every guard can be read.
Releasable(r) == guard[r] = "none" /\ \A s \in Rec : guard[s] # "torn"

\* recordIsLive as p computes it: present, not complete, and within the grace
\* period at the time p sampled; a far-future mtime counts as live.
Live(p, r) == file[r] \notin {"none", "complete"} /\ age[p][r] # "stale"

\* p samples Date.now().  A record that grows old later is still fresh to p.
Sample(p) ==
    /\ age' = [age EXCEPT ![p] = [r \in Rec |->
                 IF file[r] \in {"stale", "future"} THEN file[r] ELSE "fresh"]]
    /\ behind' = behind \ {p}

\* p judges records, now or later, by a time it has already sampled.
Sampled(p) ==
    \/ call[p] = "prune" /\ pc[p] \in {"publish", "beat", "list", "protect", "scan",
                                       "rebase"}
    \/ call[p] = "build" /\ pc[p] \in {"scan", "rebase"}

\* The record r is given a new mtime.  To a process whose time is older than the
\* last step back of the clock, the new mtime may be a grace period ago.
Touch(r) ==
    /\ file' = [file EXCEPT ![r] = "active"]
    /\ \E old \in SUBSET behind :
         age' = [p \in Proc |->
                   [age[p] EXCEPT ![r] = IF p \in old THEN "stale" ELSE "fresh"]]

\* The time p has sampled is of no further use to it.
Forget(p) ==
    /\ age' = [age EXCEPT ![p] = [r \in Rec |-> "fresh"]]
    /\ behind' = behind \ {p}

\* The directory p publishes in, and the one the other side publishes in.
RecordDir(p) == IF call[p] = "build" THEN "lease" ELSE "intent"
Other(p) == IF call[p] = "build" THEN "intent" ELSE "lease"

Goto(p, l) == pc' = [pc EXCEPT ![p] = l]

\* The payload ends: finish() of the record comes next.
End(p, how) == Goto(p, "finish") /\ exit' = [exit EXCEPT ![p] = how]

\* The call returns or throws.
Leave(p, how) ==
    /\ Goto(p, "idle")
    /\ call' = [call EXCEPT ![p] = "none"]
    /\ mine' = [mine EXCEPT ![p] = NoRec]
    /\ exit' = [exit EXCEPT ![p] = "none"]
    /\ result' = [result EXCEPT ![p] = how]
    /\ Forget(p)
    /\ seen' = [seen EXCEPT ![p] = {}] /\ kept' = [kept EXCEPT ![p] = {}]
    /\ live' = [live EXCEPT ![p] = FALSE]
    /\ fixing' = [fixing EXCEPT ![p] = NoRec]

-----------------------------------------------------------------------------
(* Publication and the scan of the other side, common to both              *)

StartBuild(p) ==
    /\ pc[p] = "idle" /\ calls < MaxCalls
    /\ calls' = calls + 1
    /\ Goto(p, "publish") /\ call' = [call EXCEPT ![p] = "build"]
    /\ UNCHANGED <<diskVars, scanVars, timely, crashes, skews, mine, exit, beating,
                   result>>

StartPrune(p) ==
    /\ pc[p] = "idle" /\ calls < MaxCalls
    /\ calls' = calls + 1
    /\ Goto(p, "start") /\ call' = [call EXCEPT ![p] = "prune"]
    /\ UNCHANGED <<diskVars, scanVars, timely, crashes, skews, mine, exit, beating,
                   result>>

\* The collector leaves a guarded root, or one pruned within the day, alone.
\* The time it judges leases by is sampled here, before its intent is visible.
Admission(p) ==
    /\ pc[p] = "start"
    /\ \/ Leave(p, "ok")
       \/ /\ ~Protected /\ Goto(p, "publish") /\ Sample(p)
          /\ UNCHANGED <<seen, kept, live, fixing, call, mine, exit, result>>
    /\ UNCHANGED <<diskVars, bounds, beating>>

\* createGoBuildCacheCoordinationRecord under a name never used before.  A
\* build scans next; a collector starts its heartbeat first.
Unused(r) ==
    /\ file[r] = "none" /\ guard[r] = "none" /\ child[r] = "none"
    /\ \A q \in Proc : r \notin {mine[q], fixing[q]} \cup seen[q]

\* Defect: the record is written after the other side has been listed.
PublishLate(p) ==
    /\ pc[p] = "publish"
    /\ \E r \in Rec :
         /\ Unused(r)
         /\ mine' = [mine EXCEPT ![p] = r]
         /\ dir' = [dir EXCEPT ![r] = RecordDir(p)]
         /\ IF call[p] = "build" THEN UNCHANGED <<file, age>> ELSE Touch(r)
    /\ Goto(p, IF call[p] = "build" THEN "list" ELSE "beat")
    /\ UNCHANGED <<guard, child, behind, seen, kept, live, fixing, bounds, call,
                   exit, beating, result>>

Publish(p) ==
    /\ pc[p] = "publish"
    /\ \/ /\ \E r \in Rec :
               /\ Unused(r)
               /\ mine' = [mine EXCEPT ![p] = r]
               /\ dir' = [dir EXCEPT ![r] = RecordDir(p)]
               /\ Touch(r)
          /\ Goto(p, IF call[p] = "build" THEN "list" ELSE "beat")
          /\ UNCHANGED <<behind, seen, kept, live, fixing, call, exit, result>>
       \/ /\ Faults                        \* a build throws, a collector yields
          /\ Leave(p, IF call[p] = "build" THEN "fail" ELSE "ok")
          /\ UNCHANGED <<file, dir>>
    /\ UNCHANGED <<guard, child, bounds, beating>>

\* startHeartbeat: without one a build throws and a collector yields.
StartHeartbeat(p) ==
    /\ pc[p] = "beat"
    /\ \/ /\ beating' = beating \cup {p}
          /\ Goto(p, IF call[p] = "build" THEN "run" ELSE "list")
          /\ UNCHANGED exit
       \/ /\ Faults /\ UNCHANGED beating
          /\ End(p, IF call[p] = "build" THEN "fail" ELSE "ok")
    /\ UNCHANGED <<diskVars, scanVars, bounds, call, mine, result>>

\* readdirSync of the other side's directory; a build samples the time for it.
List(p) ==
    /\ pc[p] = "list"
    /\ seen' = [seen EXCEPT ![p] =
                  {r \in Rec : file[r] # "none" /\ dir[r] = Other(p)}]
    /\ IF call[p] = "build" THEN Sample(p) ELSE UNCHANGED <<age, behind>>
    /\ Goto(p, IF call[p] = "build" THEN "scan" ELSE "protect")
    /\ UNCHANGED <<diskVars, kept, live, fixing, bounds, call, mine, exit, beating,
                   result>>

\* The directory cannot be listed: a build throws, a collector yields.
ListFails(p) ==
    /\ Faults /\ pc[p] = "list"
    /\ End(p, IF call[p] = "build" THEN "fail" ELSE "ok")
    /\ UNCHANGED <<diskVars, scanVars, bounds, call, mine, beating, result>>

\* The collector snapshots the guarded leases after the listing.
Protect(p) ==
    /\ pc[p] = "protect"
    /\ \/ kept' = [kept EXCEPT ![p] = GuardedRecords]
       \/ Vanishing(p) /\ kept' = [kept EXCEPT ![p] = Rec]
    /\ Goto(p, "scan")
    /\ UNCHANGED <<diskVars, age, behind, seen, live, fixing, bounds, call, mine,
                   exit, beating, result>>

\* Defect: an old record still counts, as long as it is not complete.
InspectForever(p) ==
    /\ pc[p] = "scan"
    /\ \E r \in seen[p] :
         /\ seen' = [seen EXCEPT ![p] = @ \ {r}]
         /\ live' = [live EXCEPT ![p] = @ \/ file[r] \notin {"none", "complete"}]
    /\ UNCHANGED <<diskVars, age, behind, kept, fixing, bounds, pc, call, mine,
                   exit, beating, result>>

\* One listed record: it counts when a guard keeps it or its age says so; a
\* far-future mtime also counts and is to be rebased; any other is removed.
Inspect(p) ==
    /\ pc[p] = "scan"
    /\ \E r \in seen[p] :
         /\ seen' = [seen EXCEPT ![p] = @ \ {r}]
         /\ live' = [live EXCEPT ![p] = @ \/ r \in kept[p] \/ Live(p, r)]
         /\ IF r \notin kept[p] /\ Live(p, r) /\ age[p][r] = "future"
            THEN fixing' = [fixing EXCEPT ![p] = r] /\ Goto(p, "rebase")
            ELSE UNCHANGED <<fixing, pc>>
         /\ \/ (r \in kept[p] \/ Live(p, r) \/ Faults) /\ UNCHANGED file
            \/ /\ r \notin kept[p] /\ ~Live(p, r)
               /\ file' = [file EXCEPT ![r] = "none"]
    /\ UNCHANGED <<dir, guard, child, age, behind, kept, bounds, call, mine, exit,
                   beating, result>>

\* The bytes read a moment ago are written under the record's name with a new
\* mtime, even if its owner has finished and removed it in between.
Rebase(p) ==
    /\ pc[p] = "rebase"
    /\ \/ Touch(fixing[p])
       \/ Faults /\ UNCHANGED <<file, age>>
    /\ fixing' = [fixing EXCEPT ![p] = NoRec]
    /\ Goto(p, "scan")
    /\ UNCHANGED <<dir, guard, child, behind, seen, kept, live, bounds, call, mine,
                   exit, beating, result>>

\* The scan is over.  A build that found an intent withdraws and retries; a
\* collector that found a lease yields.
Scanned(p) ==
    /\ pc[p] = "scan" /\ seen[p] = {}
    /\ Forget(p)
    /\ kept' = [kept EXCEPT ![p] = {}]
    /\ live' = [live EXCEPT ![p] = FALSE]
    /\ IF live[p] THEN End(p, IF call[p] = "build" THEN "retry" ELSE "ok")
       ELSE /\ Goto(p, IF call[p] = "build" THEN "beat" ELSE "check")
            /\ UNCHANGED exit
    /\ UNCHANGED <<diskVars, seen, fixing, bounds, call, mine, beating, result>>

-----------------------------------------------------------------------------
(* The callback of a build: Go commands, each behind a guard when scoped    *)

\* A step of p's callback or deletion that touches no record.
Works(p, l) ==
    /\ pc[p] = l
    /\ UNCHANGED <<file, dir, scanVars, bounds, call, mine, beating, result>>

BeginGo(p) ==
    /\ Works(p, "run") /\ UNCHANGED exit
    /\ \/ /\ p \in Scoped /\ Goto(p, "open")
          /\ guard' = [guard EXCEPT ![mine[p]] = "torn"] /\ UNCHANGED child
       \/ /\ p \notin Scoped /\ Goto(p, "go")
          /\ child' = [child EXCEPT ![mine[p]] = "plain"] /\ UNCHANGED guard

\* The guard's bytes are written and the command admitted, or publication fails
\* and is rolled back as far as the filesystem lets it.
WriteGuard(p) ==
    /\ Works(p, "open")
    /\ \/ /\ guard' = [guard EXCEPT ![mine[p]] = "known"]
          /\ child' = [child EXCEPT ![mine[p]] = "scoped"]
          /\ Goto(p, "go") /\ UNCHANGED exit
       \/ /\ Faults /\ UNCHANGED child /\ End(p, "fail")
          /\ guard' \in {guard, [guard EXCEPT ![mine[p]] = "none"]}

\* The command has ended and the guard is removed; the callback goes on.
Join(p) ==
    /\ Works(p, "go")
    /\ child' = [child EXCEPT ![mine[p]] = "none"]
    /\ \/ /\ guard' = [guard EXCEPT ![mine[p]] = "none"]
          /\ Goto(p, "run") /\ UNCHANGED exit
       \/ Faults /\ p \in Scoped /\ UNCHANGED guard /\ End(p, "fail")

\* The relay loses track of a scoped command: the guard stays.
LoseGo(p) ==
    /\ Works(p, "go") /\ UNCHANGED <<guard, child>>
    /\ p \in Scoped /\ End(p, "fail")

\* The callback returns or throws, or a checkpoint finds the task cancelled.
EndRun(p) ==
    /\ Works(p, "run") /\ UNCHANGED <<guard, child>>
    /\ \/ End(p, "ok") \/ End(p, "fail")

\* A scoped build that is cancelled before its callback runs still finishes
\* the record it has published.
Cancel(p) ==
    /\ p \in Scoped /\ call[p] = "build"
    /\ \/ pc[p] = "publish" /\ Leave(p, "fail")
       \/ /\ pc[p] \in {"list", "beat"} /\ End(p, "fail")
          /\ UNCHANGED <<scanVars, call, mine, result>>
    /\ UNCHANGED <<diskVars, bounds, beating>>

-----------------------------------------------------------------------------
(* Eviction                                                                *)

\* Defect: the root is not checked for guards again after the scan.
CheckSkipped(p) ==
    /\ Works(p, "check") /\ UNCHANGED <<guard, child, exit>>
    /\ Goto(p, "prune")

\* isProtected once more before the first object is deleted.
Check(p) ==
    /\ Works(p, "check") /\ UNCHANGED <<guard, child>>
    /\ IF Protected THEN End(p, "ok") ELSE Goto(p, "prune") /\ UNCHANGED exit

\* pruneGoBuildCacheEntries deletes objects while p is at "prune"; a failure is
\* caught.
EndPrune(p) ==
    /\ Works(p, "prune") /\ UNCHANGED <<guard, child>> /\ End(p, "ok")

-----------------------------------------------------------------------------
(* finish                                                                  *)

\* What remains of the record: nothing, or a completion the unlink could not
\* remove, or an unchanged record when neither write succeeded.
Finished(r) ==
    {[file EXCEPT ![r] = "none"]}
      \cup IF Faults THEN {[file EXCEPT ![r] = "complete"], file} ELSE {}

\* Defect: a withdrawn build is not retried.
FinishGivesUp(p) ==
    /\ pc[p] = "finish"
    /\ beating' = beating \ {p}
    /\ Releasable(mine[p])
    /\ file' \in Finished(mine[p]) /\ Leave(p, exit[p])
    /\ UNCHANGED <<dir, guard, child, bounds>>

\* Defect: the record goes with the call, whatever its Go command does.
FinishUnguarded(p) ==
    /\ pc[p] = "finish"
    /\ beating' = beating \ {p}
    /\ file' \in Finished(mine[p])
    /\ Leave(p, IF exit[p] = "ok" THEN "ok" ELSE "fail")
    /\ UNCHANGED <<dir, guard, child, bounds>>

\* The heartbeat stops.  An unresolved native boundary of p's own defers the
\* rest; a guard that names the record, or any guard that cannot be read, makes
\* finish throw, and that error replaces the payload's outcome.
Finish(p) ==
    /\ pc[p] = "finish"
    /\ beating' = beating \ {p}
    /\ \/ /\ ~Releasable(mine[p]) \/ Vanishing(p)
          /\ Leave(p, "fail") /\ UNCHANGED file
       \/ /\ Releasable(mine[p]) /\ exit[p] # "retry"
          /\ file' \in Finished(mine[p]) /\ Leave(p, exit[p])
       \/ /\ Releasable(mine[p]) /\ exit[p] = "retry"
          /\ file' \in Finished(mine[p])
          /\ \/ Clock /\ Leave(p, "fail")
             \/ /\ Goto(p, "publish")
                /\ mine' = [mine EXCEPT ![p] = NoRec]
                /\ exit' = [exit EXCEPT ![p] = "none"]
                /\ UNCHANGED <<scanVars, call, result>>
    /\ UNCHANGED <<dir, guard, child, bounds>>

-----------------------------------------------------------------------------
(* Time, heartbeats, crashes                                               *)

\* A grace period passes without a heartbeat.  A running task keeps its record
\* fresh, which is the premise the code states, unless Suspends.
Age(r) ==
    /\ file[r] = "active"
    /\ Suspends \/ \A p \in Proc : mine[p] # r
    /\ file' = [file EXCEPT ![r] = "stale"]
    /\ timely' = (timely /\ \A p \in Proc : mine[p] # r)
    /\ UNCHANGED <<dir, guard, child, scanVars, calls, crashes, skews, pc, call,
                   mine, exit, beating, result>>

\* The clock steps back, a little or far: recent mtimes stay recent or lie in the
\* far future, and so does any old one that the step overtakes.  What has been
\* sampled is not sampled again.
ClockBack ==
    /\ skews < MaxSkews
    /\ skews' = skews + 1
    /\ \E to \in {"active", "future"}, old \in SUBSET Rec :
         file' = [r \in Rec |->
                    IF file[r] = "active" \/ (file[r] = "stale" /\ r \notin old)
                    THEN to ELSE file[r]]
    /\ behind' = behind \cup {p \in Proc : Sampled(p)}
    /\ timely' = (timely /\ \A p \in Proc : ~Sampled(p))
    /\ UNCHANGED <<dir, guard, child, age, seen, kept, live, fixing, calls, crashes,
                   pc, call, mine, exit, beating, result>>

\* utimesSync on a record that is still there.
Beat(p) ==
    /\ p \in beating /\ mine[p] # NoRec /\ file[mine[p]] # "none"
    /\ Touch(mine[p])
    /\ UNCHANGED <<dir, guard, child, behind, seen, kept, live, fixing, bounds, pc,
                   call, mine, exit, beating, result>>

\* The process is killed; its heartbeat ends with it, its Go command need not.
\* A finish that is cut short may have marked the record complete.
Crash(p) ==
    /\ pc[p] # "idle" /\ crashes < MaxCrashes
    /\ crashes' = crashes + 1
    /\ \/ UNCHANGED child
       \/ /\ mine[p] # NoRec /\ child[mine[p]] # "none"
          /\ child' = [child EXCEPT ![mine[p]] = "none"]
    /\ beating' = beating \ {p}
    /\ Leave(p, "none")
    /\ \/ UNCHANGED file
       \/ /\ pc[p] = "finish" /\ Releasable(mine[p])
          /\ file' = [file EXCEPT ![mine[p]] = "complete"]
    /\ UNCHANGED <<dir, guard, timely, calls, skews>>

\* A Go command nobody waits for ends.
OrphanExit(r) ==
    /\ child[r] # "none"
    /\ \A p \in Proc : ~(mine[p] = r /\ pc[p] = "go")
    /\ child' = [child EXCEPT ![r] = "none"]
    /\ UNCHANGED <<file, dir, guard, scanVars, bounds, pc, call, mine, exit,
                   beating, result>>

-----------------------------------------------------------------------------

Step(p) ==
    \/ Admission(p) \/ Publish(p) \/ StartHeartbeat(p) \/ List(p)
    \/ ListFails(p) \/ Protect(p) \/ Inspect(p) \/ Rebase(p) \/ Scanned(p) \/ BeginGo(p) \/ WriteGuard(p)
    \/ Join(p) \/ LoseGo(p) \/ EndRun(p) \/ Check(p) \/ EndPrune(p) \/ Finish(p)

Next ==
    \/ \E p \in Proc : \/ StartBuild(p) \/ StartPrune(p) \/ Cancel(p) \/ Step(p)
                       \/ Beat(p) \/ Crash(p)
    \/ \E r \in Rec : Age(r) \/ OrphanExit(r)
    \/ ClockBack

Spec == Init /\ [][Next]_vars

\* A running process keeps taking its steps, its callback runs finitely many Go
\* commands, and time passes for a record nobody refreshes.
Fairness ==
    /\ \A p \in Proc : WF_vars(Step(p)) /\ SF_vars(EndRun(p))
    /\ \A r \in Rec : WF_vars(Age(r))

FairSpec == Spec /\ Fairness

-----------------------------------------------------------------------------
(* Properties                                                              *)

Building == {"run", "open", "go"}

\* Objects are deleted only while no build runs its callback: whichever of the
\* two published its record second sees the other's and withdraws or yields,
\* whatever crashes and leftovers the scans meet.  So long, that is, as running
\* tasks refresh their records within the grace period, as the clock tells it,
\* and the clock does not step back while a scan judges by an earlier time.
Exclusion ==
    timely => \A p, q \in Proc : ~(pc[p] = "prune" /\ pc[q] \in Building)

\* "Never to delete under a possibly live Go", which the comment on clocks that
\* move backward states of a collector and a build that both keep their records
\* fresh.
NeverUnderLiveGo ==
    \A p, q \in Proc : ~(pc[p] = "prune" /\ pc[q] \in Building)

\* "Exact build leases survive age-based collection until qualified closure":
\* the lease of a scoped Go command that still runs, with or without its Node
\* parent, is not removed.  A guard published after the snapshot protects nothing
\* there, the age of its lease does: hence the same premise on time.
GuardedLeaseKept ==
    timely => \A r \in Rec : child[r] = "scoped" => file[r] # "none"

\* Deletion never starts while a scoped Go command runs, not even one whose
\* parent is dead or suspended for longer than the grace period.
NoPruneUnderChild ==
    [][\A p \in Proc : (pc[p] # "prune" /\ pc'[p] = "prune") =>
         \A r \in Rec : child[r] # "scoped"]_vars

\* A dead or forgotten collector does not hold builds up: every build that
\* publishes a lease gets to its callback, or its process dies.
BuildAdmitted ==
    \A p \in Proc :
        (pc[p] = "publish" /\ call[p] = "build") ~>
            (pc[p] = "run" \/ call[p] # "build")

\* A call whose payload succeeded, and which left no guard of its own, returns
\* its outcome: guards of independent builds of the shared cache are no reason
\* to fail it.
SiblingsIndependent ==
    [][\A p \in Proc :
         (/\ pc[p] = "finish" /\ exit[p] = "ok" /\ guard[mine[p]] = "none"
          /\ pc'[p] = "idle" /\ crashes' = crashes) => result'[p] = "ok"]_vars

-----------------------------------------------------------------------------
(* The inductive invariant behind Exclusion: its second half holds while     *)
(* tasks and clock are timely                                              *)

\* A task between Publish and Finish.
Published == Pc \ {"idle", "start", "publish"}

\* A call is at the steps of its own kind.
CallAt ==
    \A p \in Proc :
        /\ pc[p] # "idle" => call[p] \in {"build", "prune"}
        /\ pc[p] \in Building => call[p] = "build"
        /\ pc[p] \in {"start", "protect", "check", "prune"} => call[p] = "prune"
        /\ pc[p] = "rebase" => fixing[p] \in Rec

\* A published task has a record of its own in its side's directory.
RecordsOwn ==
    /\ \A p \in Proc : (pc[p] \in Published) <=> (mine[p] # NoRec)
    /\ \A p \in Proc : mine[p] # NoRec => dir[mine[p]] = RecordDir(p)
    /\ \A p, q \in Proc : mine[p] = mine[q] /\ mine[p] # NoRec => p = q

\* Nobody takes the record of a published task for an old or finished one.
RecordsCount ==
    \A p, q \in Proc : mine[p] # NoRec =>
        file[mine[p]] \in {"active", "future"} /\ age[q][mine[p]] # "stale"

\* A scan has something left to inspect, or has met a live record, only while
\* it lasts.
ScanLocal ==
    \A p \in Proc : pc[p] \notin {"protect", "scan", "rebase"} =>
        seen[p] = {} /\ live[p] = FALSE

\* p has listed the other side's directory and not withdrawn.
Listed(p) ==
    \/ call[p] = "build" /\ pc[p] \in {"scan", "rebase", "beat"} \cup Building
    \/ call[p] = "prune" /\ pc[p] \in {"protect", "scan", "rebase", "check", "prune"}

\* p will not pass q: it has found a live record or q's is still to inspect.
Meets(p, q) == live[p] \/ mine[q] \in seen[p]

\* Of a build and a collector that have both listed, one meets the other.
OneMeets ==
    \A p, q \in Proc :
        Listed(p) /\ Listed(q) /\ call[p] = "build" /\ call[q] = "prune" =>
            Meets(p, q) \/ Meets(q, p)

\* A scoped Go command runs behind a guard that names its lease; the command
\* of a task that is not waiting for one has ended.
ChildrenGuarded ==
    /\ \A r \in Rec : child[r] = "scoped" => guard[r] # "none"
    /\ \A p \in Proc : mine[p] # NoRec /\ child[mine[p]] = "scoped" =>
                          pc[p] \in {"go", "finish"}

\* A guarded lease is there, and a scan that has it left to inspect keeps it: it
\* is in the snapshot of the guards, or was fresh when the scan took its time.
GuardsKeep ==
    /\ \A r \in Rec : guard[r] # "none" =>
                         dir[r] = "lease" /\ file[r] \notin {"none", "complete"}
    /\ \A p \in Proc : \A r \in seen[p] :
         /\ dir[r] = Other(p)
         /\ guard[r] # "none" /\ pc[p] \in {"scan", "rebase"} =>
                r \in kept[p] \/ age[p][r] # "stale"

\* What publication and finish maintain, however long a task is suspended.
Ownership == CallAt /\ RecordsOwn

\* What listing, inspection and withdrawal maintain in time.
Meeting == RecordsCount /\ ScanLocal /\ OneMeets

\* What holds of scoped Go commands even under suspension.
GuardInv == TypeOK /\ Ownership /\ ChildrenGuarded

\* Nobody judges by a time from before a step back of the clock.
InTime == behind = {} /\ Meeting /\ GuardsKeep

\* The inductive invariant of createGoBuildCacheCoordinationRecord and
\* collectLiveGoBuildCacheCoordinationRecords as both sides use them.
CacheInv == GuardInv /\ (timely => InTime)
=============================================================================
