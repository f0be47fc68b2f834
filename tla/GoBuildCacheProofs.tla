------------------------- MODULE GoBuildCacheProofs -------------------------
(***************************************************************************)
(* Proofs about GoBuildCache, for every set of processes and records and   *)
(* every value of the bounds, with or without suspension and clock changes. *)
(***************************************************************************)
EXTENDS GoBuildCache, TLAPS

\* Steps no process takes.
Outside == ClockBack \/ \E r \in Rec : Age(r) \/ OrphanExit(r)

\* The invariant while tasks and clock are timely.
CacheNow == GuardInv /\ InTime

\* A step keeps the types of records, guards and Go commands.
LEMMA DiskTypeStep == ASSUME TypeOK, Next PROVE DiskType'
<1> USE DEF TypeOK, DiskType, File, Guard, Child
<1>1. ASSUME NEW p \in Proc, Publish(p) PROVE DiskType'
  BY <1>1 DEF Publish, Touch, RecordDir
<1>2. ASSUME NEW p \in Proc, Inspect(p) PROVE DiskType'
  BY <1>2 DEF Inspect
<1>3. ASSUME NEW p \in Proc, Rebase(p) PROVE DiskType'
  BY <1>3 DEF Rebase, Touch
<1>4. ASSUME NEW p \in Proc, BeginGo(p) PROVE DiskType'
  BY <1>4 DEF BeginGo, Works
<1>5. ASSUME NEW p \in Proc, WriteGuard(p) PROVE DiskType'
  BY <1>5 DEF WriteGuard, Works
<1>6. ASSUME NEW p \in Proc, Join(p) PROVE DiskType'
  BY <1>6 DEF Join, Works
<1>7. ASSUME NEW p \in Proc, Finish(p) PROVE DiskType'
  <2>1. file' = file \/ file' \in Finished(mine[p])
    BY <1>7 DEF Finish
  <2> QED  BY <1>7, <2>1 DEF Finish, Finished
<1>8. ASSUME NEW p \in Proc, Beat(p) PROVE DiskType'
  BY <1>8 DEF Beat, Touch
<1>9. ASSUME NEW p \in Proc, Crash(p) PROVE DiskType'
  BY <1>9 DEF Crash
<1>10. ASSUME Outside PROVE DiskType'
  BY <1>10 DEF Outside, Age, ClockBack, OrphanExit
<1>11. ASSUME UNCHANGED diskVars PROVE DiskType'
  BY <1>11 DEF diskVars
<1>12. ASSUME NEW p \in Proc,
              \/ StartBuild(p) \/ StartPrune(p) \/ Cancel(p) \/ Admission(p)
              \/ StartHeartbeat(p) \/ List(p) \/ Protect(p) \/ Scanned(p)
              \/ LoseGo(p) \/ EndRun(p) \/ Check(p) \/ EndPrune(p) \/ ListFails(p)
       PROVE  UNCHANGED diskVars
  BY <1>12 DEF ListFails, StartBuild, StartPrune, Cancel, Admission,
               StartHeartbeat, List,
               Protect, Scanned, LoseGo, EndRun, Check, EndPrune, Works, diskVars
<1> QED
  BY <1>1, <1>2, <1>3, <1>4, <1>5, <1>6, <1>7, <1>8, <1>9, <1>10, <1>11, <1>12
     DEF Next, Step, Outside

\* A call that ends leaves a well-typed scan.
LEMMA LeaveScan == ASSUME TypeOK, NEW p \in Proc, NEW how, Leave(p, how)
                   PROVE  ScanType'
BY DEF TypeOK, ScanType, Leave, Forget, AgeAt

\* Sampling the clock and giving a record a new mtime yield ages.
LEMMA AgesStay ==
    ASSUME TypeOK PROVE
    /\ \A p \in Proc : Sample(p) =>
           age' \in [Proc -> [Rec -> AgeAt]] /\ behind' \subseteq Proc
    /\ \A r : Touch(r) => age' \in [Proc -> [Rec -> AgeAt]]
<1>1. ASSUME NEW p \in Proc, Sample(p)
      PROVE  age' \in [Proc -> [Rec -> AgeAt]] /\ behind' \subseteq Proc
  <2> DEFINE row == [r \in Rec |->
                IF file[r] \in {"stale", "future"} THEN file[r] ELSE "fresh"]
  <2>1. row \in [Rec -> AgeAt]  BY DEF AgeAt
  <2>2. age' = [age EXCEPT ![p] = row] /\ behind' \subseteq behind
    BY <1>1 DEF Sample
  <2> HIDE DEF row
  <2> QED  BY <2>1, <2>2 DEF TypeOK, ScanType
<1>2. ASSUME NEW r, Touch(r) PROVE age' \in [Proc -> [Rec -> AgeAt]]
  <2>1. PICK old \in SUBSET behind :
            age' = [p \in Proc |->
                      [age[p] EXCEPT ![r] = IF p \in old THEN "stale" ELSE "fresh"]]
    BY <1>2 DEF Touch
  <2>2. ASSUME NEW p \in Proc, NEW a \in AgeAt PROVE [age[p] EXCEPT ![r] = a] \in [Rec -> AgeAt]
    BY <2>2 DEF TypeOK, ScanType
  <2> QED  BY <2>1, <2>2 DEF AgeAt
<1> QED  BY <1>1, <1>2

\* While nobody is behind, a record with a new mtime is recent for everyone.
LEMMA TouchFresh ==
    ASSUME InTime, NEW r, Touch(r)
    PROVE  /\ file' = [file EXCEPT ![r] = "active"]
           /\ age' = [p \in Proc |-> [age[p] EXCEPT ![r] = "fresh"]]
BY DEF InTime, Touch

\* A step keeps the types of samples and scans.
LEMMA ScanTypeStep == ASSUME TypeOK, Next PROVE ScanType'
<1> USE DEF TypeOK, ScanType
<1>1. ASSUME NEW p \in Proc, Publish(p) PROVE ScanType'
  <2>1. CASE \E r \in Rec : Touch(r) /\ UNCHANGED <<behind, seen, kept, live, fixing>>
    BY <2>1, AgesStay
  <2> QED  BY <1>1, <2>1, LeaveScan DEF Publish
<1>2. ASSUME NEW p \in Proc, Admission(p) PROVE ScanType'
  BY <1>2, LeaveScan, AgesStay DEF Admission
<1>3. ASSUME NEW p \in Proc, List(p) PROVE ScanType'
  BY <1>3, AgesStay DEF List
<1>4. ASSUME NEW p \in Proc, Protect(p) PROVE ScanType'
  BY <1>4 DEF Protect, GuardedRecords
<1>5. ASSUME NEW p \in Proc, Inspect(p) PROVE ScanType'
  <2>1. PICK r \in seen[p] :
            /\ seen' = [seen EXCEPT ![p] = @ \ {r}]
            /\ live' = [live EXCEPT ![p] = @ \/ r \in kept[p] \/ Live(p, r)]
            /\ \/ fixing' = [fixing EXCEPT ![p] = r] \/ fixing' = fixing
    BY <1>5 DEF Inspect
  <2>2. UNCHANGED <<age, behind, kept>>  BY <1>5 DEF Inspect
  <2>3. live' \in [Proc -> BOOLEAN]
    <3>1. CASE live[p] \/ r \in kept[p] \/ Live(p, r)
      <4>1. live' = [live EXCEPT ![p] = TRUE]  BY <2>1, <3>1
      <4> QED  BY <4>1
    <3>2. CASE ~(live[p] \/ r \in kept[p] \/ Live(p, r))
      <4>1. live' = [live EXCEPT ![p] = FALSE]  BY <2>1, <3>2
      <4> QED  BY <4>1
    <3> QED  BY <3>1, <3>2
  <2> QED  BY <2>1, <2>2, <2>3
<1>6. ASSUME NEW p \in Proc, Rebase(p) PROVE ScanType'
  BY <1>6, AgesStay DEF Rebase
<1>7. ASSUME NEW p \in Proc, Scanned(p) PROVE ScanType'
  BY <1>7 DEF Scanned, Forget, AgeAt
<1>8. ASSUME NEW p \in Proc, Cancel(p) PROVE ScanType'
  BY <1>8, LeaveScan DEF Cancel, scanVars
<1>9. ASSUME NEW p \in Proc, Finish(p) PROVE ScanType'
  BY <1>9, LeaveScan DEF Finish, scanVars
<1>10. ASSUME NEW p \in Proc, Beat(p) PROVE ScanType'
  BY <1>10, AgesStay DEF Beat
<1>11. ASSUME NEW p \in Proc, Crash(p) PROVE ScanType'
  BY <1>11, LeaveScan DEF Crash
<1>12. ASSUME UNCHANGED scanVars PROVE ScanType'
  BY <1>12 DEF scanVars
<1>13. ASSUME NEW p \in Proc,
              \/ StartBuild(p) \/ StartPrune(p) \/ StartHeartbeat(p)
              \/ BeginGo(p) \/ WriteGuard(p) \/ Join(p) \/ LoseGo(p)
              \/ EndRun(p) \/ Check(p) \/ EndPrune(p) \/ ListFails(p)
       PROVE  UNCHANGED scanVars
  BY <1>13 DEF ListFails, StartBuild, StartPrune, StartHeartbeat, BeginGo,
               WriteGuard, Join,
               LoseGo, EndRun, Check, EndPrune, Works, scanVars
<1>14. ASSUME Outside PROVE ScanType'
  BY <1>14 DEF Outside, Age, ClockBack, OrphanExit, scanVars
<1> QED
  BY <1>1, <1>2, <1>3, <1>4, <1>5, <1>6, <1>7, <1>8, <1>9, <1>10, <1>11, <1>12,
     <1>13, <1>14 DEF Next, Step, Outside

\* A call that ends hands an outcome to its caller.
LEMMA LeaveCall ==
    ASSUME TypeOK, NEW p \in Proc, NEW how \in {"none", "ok", "fail"},
           Leave(p, how), beating' \subseteq Proc, UNCHANGED bounds
    PROVE  CallType'
BY DEF TypeOK, CallType, Leave, Goto, Pc, bounds

\* Finish hands an outcome to the caller unless the attempt is to be retried.
LEMMA CallTypeStep == ASSUME TypeOK, Next PROVE CallType'
<1> USE BoundAssumption DEF TypeOK, CallType, Goto, End, Pc
<1>1. ASSUME NEW p \in Proc, StartBuild(p) \/ StartPrune(p) PROVE CallType'
  BY <1>1 DEF StartBuild, StartPrune
<1>2. ASSUME NEW p \in Proc, Admission(p) PROVE CallType'
  BY <1>2, LeaveCall DEF Admission, bounds
<1>3. ASSUME NEW p \in Proc, Publish(p) PROVE CallType'
  BY <1>3, LeaveCall DEF Publish, bounds
<1>4. ASSUME NEW p \in Proc, StartHeartbeat(p) \/ ListFails(p) PROVE CallType'
  BY <1>4 DEF StartHeartbeat, ListFails, bounds
<1>5. ASSUME NEW p \in Proc, List(p) \/ Protect(p) \/ Rebase(p) PROVE CallType'
  BY <1>5 DEF List, Protect, Rebase, bounds
<1>6. ASSUME NEW p \in Proc, Inspect(p) PROVE CallType'
  <2>1. pc' = pc \/ pc' = [pc EXCEPT ![p] = "rebase"]  BY <1>6 DEF Inspect
  <2> QED  BY <1>6, <2>1 DEF Inspect, bounds
<1>7. ASSUME NEW p \in Proc, Scanned(p) PROVE CallType'
  BY <1>7 DEF Scanned, bounds
<1>8. ASSUME NEW p \in Proc, BeginGo(p) \/ WriteGuard(p) \/ Join(p) PROVE CallType'
  BY <1>8 DEF BeginGo, WriteGuard, Join, Works, bounds
<1>9. ASSUME NEW p \in Proc, LoseGo(p) \/ EndRun(p) \/ Check(p) \/ EndPrune(p)
      PROVE  CallType'
  BY <1>9 DEF LoseGo, EndRun, Check, EndPrune, Works, bounds
<1>10. ASSUME NEW p \in Proc, Cancel(p) PROVE CallType'
  BY <1>10, LeaveCall DEF Cancel, bounds
<1>11. ASSUME NEW p \in Proc, Finish(p) PROVE CallType'
  <2>1. beating' \subseteq Proc /\ UNCHANGED bounds  BY <1>11 DEF Finish, bounds
  <2>2. CASE Leave(p, "fail")  BY <2>1, <2>2, LeaveCall
  <2>3. CASE exit[p] # "retry" /\ Leave(p, exit[p])
    <3>1. exit[p] \in {"none", "ok", "fail"}  BY <2>3
    <3> QED  BY <2>1, <2>3, <3>1, LeaveCall
  <2>4. CASE /\ Goto(p, "publish") /\ mine' = [mine EXCEPT ![p] = NoRec]
             /\ exit' = [exit EXCEPT ![p] = "none"] /\ UNCHANGED <<call, result>>
    BY <2>1, <2>4 DEF bounds
  <2> QED  BY <1>11, <2>2, <2>3, <2>4 DEF Finish
<1>12. ASSUME NEW p \in Proc, Beat(p) PROVE CallType'
  BY <1>12 DEF Beat, bounds
<1>13. ASSUME NEW p \in Proc, Crash(p) PROVE CallType'
  BY <1>13 DEF Crash, Leave
<1>14. ASSUME Outside PROVE CallType'
  <2>1. timely' \in BOOLEAN
    BY <1>14, Zenon DEF Outside, Age, ClockBack, OrphanExit, bounds
  <2> QED  BY <1>14, <2>1 DEF Outside, Age, ClockBack, OrphanExit, bounds
<1> QED
  BY <1>1, <1>2, <1>3, <1>4, <1>5, <1>6, <1>7, <1>8, <1>9, <1>10, <1>11, <1>12,
     <1>13, <1>14 DEF Next, Step, Outside

-----------------------------------------------------------------------------
(* Ownership of records, and guards of Go commands: no premise on time      *)

\* A step of p that leaves the records to their owners.
LEMMA StayOwns ==
    ASSUME TypeOK, Ownership, NEW p \in Proc, NEW l, Goto(p, l),
           UNCHANGED <<dir, call, mine>>, fixing' = fixing,
           pc[p] \in Published, l \in Published \ {"rebase"},
           l \in Building => call[p] = "build",
           l \in {"protect", "check", "prune"} => call[p] = "prune"
    PROVE  Ownership'
<1> USE DEF Ownership, TypeOK, CallType, Goto, Published, Pc
<1>1. CallAt'
  BY DEF CallAt, Building
<1>2. RecordsOwn'
  BY DEF RecordsOwn, RecordDir
<1> QED  BY <1>1, <1>2

\* A task that returns owns nothing.
LEMMA LeaveOwns ==
    ASSUME TypeOK, Ownership, NEW p \in Proc, NEW how, Leave(p, how), dir' = dir
    PROVE  Ownership'
<1> USE NoRecAssumption DEF Ownership, TypeOK, CallType, ScanType, Leave, Goto
<1>1. CallAt'
  BY DEF CallAt, Building
<1>2. RecordsOwn'
  BY DEF RecordsOwn, RecordDir, Published, Pc
<1> QED  BY <1>1, <1>2

\* A step of a task keeps ownership.
LEMMA StepOwns ==
    ASSUME TypeOK, Ownership, NEW p \in Proc, Step(p) \/ Cancel(p) PROVE Ownership'
<1> USE StayOwns, LeaveOwns DEF Published, Pc, Building, Ownership, CallAt,
                                diskVars,
        scanVars
<1>1. CASE Admission(p)
  <2>1. CASE Leave(p, "ok")  BY <1>1, <2>1 DEF Admission
  <2>2. CASE Goto(p, "publish")
    <3>1. CallAt'  BY <1>1, <2>2 DEF Admission, TypeOK, CallType, Goto, Leave
    <3>2. RecordsOwn'
      BY <1>1, <2>2 DEF Admission, TypeOK, CallType, Goto, Leave, RecordsOwn,
                        RecordDir
    <3> QED  BY <3>1, <3>2
  <2> QED  BY <1>1, <2>1, <2>2 DEF Admission
<1>2. CASE Publish(p)
  <2>1. CASE \E how : Leave(p, how) /\ dir' = dir  BY <1>2, <2>1
  <2>2. CASE \E r \in Rec :
                /\ Unused(r) /\ mine' = [mine EXCEPT ![p] = r]
                /\ dir' = [dir EXCEPT ![r] = RecordDir(p)]
                /\ Goto(p, IF call[p] = "build" THEN "list" ELSE "beat")
                /\ UNCHANGED <<fixing, call>>
    <3>1. pc[p] = "publish"  BY <1>2 DEF Publish
    <3>2. CallAt'  BY <2>2, <3>1 DEF TypeOK, CallType, Goto
    <3>3. RecordsOwn'
      BY <2>2, <3>1, NoRecAssumption
         DEF TypeOK, CallType, DiskType, Goto, RecordsOwn, RecordDir, Unused
    <3> QED  BY <3>2, <3>3
  <2> QED  BY <1>2, <2>1, <2>2 DEF Publish
<1>3. CASE StartHeartbeat(p) \/ ListFails(p)
  BY <1>3 DEF StartHeartbeat, ListFails, End
<1>4. CASE List(p) \/ Protect(p)
  BY <1>4 DEF List, Protect
<1>5. CASE Inspect(p)
  <2>1. \/ pc' = pc /\ fixing' = fixing
        \/ /\ pc' = [pc EXCEPT ![p] = "rebase"]
           /\ \E r \in Rec : fixing' = [fixing EXCEPT ![p] = r]
    BY <1>5 DEF Inspect, Goto, TypeOK, ScanType
  <2>2. CallAt'  BY <1>5, <2>1 DEF Inspect, TypeOK, CallType, ScanType
  <2>3. RecordsOwn'
    BY <1>5, <2>1 DEF Inspect, TypeOK, CallType, RecordsOwn, RecordDir
  <2> QED  BY <2>2, <2>3
<1>6. CASE Rebase(p)
  <2>1. CallAt'  BY <1>6 DEF Rebase, TypeOK, CallType, ScanType, Goto
  <2>2. RecordsOwn'
    BY <1>6 DEF Rebase, TypeOK, CallType, Goto, RecordsOwn, RecordDir
  <2> QED  BY <2>1, <2>2
<1>7. CASE Scanned(p)
  BY <1>7 DEF Scanned, End
<1>8. CASE BeginGo(p) \/ WriteGuard(p) \/ Join(p)
  BY <1>8 DEF BeginGo, WriteGuard, Join, Works, End
<1>9. CASE LoseGo(p) \/ EndRun(p) \/ Check(p) \/ EndPrune(p)
  BY <1>9 DEF LoseGo, EndRun, Check, EndPrune, Works, End
<1>10. CASE Finish(p)
  <2>1. CASE \E how : Leave(p, how)  BY <1>10, <2>1 DEF Finish
  <2>2. CASE Goto(p, "publish") /\ mine' = [mine EXCEPT ![p] = NoRec]
             /\ UNCHANGED <<scanVars, call>>
    <3>1. CallAt'  BY <1>10, <2>2 DEF Finish, TypeOK, CallType, Goto
    <3>2. RecordsOwn'
      BY <1>10, <2>2 DEF Finish, TypeOK, CallType, Goto, RecordsOwn, RecordDir
    <3> QED  BY <3>1, <3>2
  <2> QED  BY <1>10, <2>1, <2>2 DEF Finish
<1>11. CASE Cancel(p)
  BY <1>11 DEF Cancel, End
<1> QED
  BY <1>1, <1>2, <1>3, <1>4, <1>5, <1>6, <1>7, <1>8, <1>9, <1>10, <1>11 DEF Step

\* Starting a call, a heartbeat, a crash and the passing of time keep it too.
LEMMA OwnershipStep == ASSUME TypeOK, Ownership, Next PROVE Ownership'
<1>1. ASSUME UNCHANGED <<pc, call, mine, dir, fixing>> PROVE Ownership'
  BY <1>1 DEF Ownership, CallAt, RecordsOwn, RecordDir
<1>2. ASSUME NEW p \in Proc, StartBuild(p) \/ StartPrune(p) PROVE Ownership'
  <2> USE <1>2 DEF StartBuild, StartPrune, diskVars, scanVars, TypeOK, CallType,
                   Goto
  <2>1. CallAt'  BY DEF Ownership, CallAt, Building
  <2>2. RecordsOwn'  BY DEF Ownership, RecordsOwn, RecordDir, Published, Pc
  <2> QED  BY <2>1, <2>2 DEF Ownership
<1>3. ASSUME NEW p \in Proc, Beat(p) PROVE Ownership'
  BY <1>1, <1>3 DEF Beat
<1>4. ASSUME NEW p \in Proc, Crash(p) PROVE Ownership'
  BY <1>4, LeaveOwns DEF Crash
<1>5. ASSUME Outside PROVE Ownership'
  BY <1>1, <1>5 DEF Outside, Age, ClockBack, OrphanExit, scanVars
<1> QED  BY <1>2, <1>3, <1>4, <1>5, StepOwns DEF Next, Outside

\* A guard is written before its command is admitted and removed after the
\* command has ended.
LEMMA ChildrenStep ==
    ASSUME TypeOK, Ownership, ChildrenGuarded, Next PROVE ChildrenGuarded'
<1> USE NoRecAssumption DEF TypeOK, CallType, DiskType, Goto
<1>1. ASSUME UNCHANGED <<guard, child>>,
             \A p \in Proc : \/ mine'[p] = mine[p] /\ pc'[p] = pc[p]
                             \/ mine'[p] = NoRec
                             \/ pc'[p] \in {"go", "finish"}
                             \/ child[mine'[p]] # "scoped"
      PROVE  ChildrenGuarded'
  BY <1>1 DEF ChildrenGuarded
<1>2. ASSUME NEW p \in Proc, UNCHANGED <<guard, child>>,
             \/ \E how : Leave(p, how)
             \/ mine' = [mine EXCEPT ![p] = NoRec] /\ \E l : Goto(p, l)
             \/ /\ \E r \in Rec : Unused(r) /\ mine' = [mine EXCEPT ![p] = r]
                /\ \E l : Goto(p, l)
             \/ mine' = mine /\ pc[p] \notin {"go", "finish"} /\ \E l : Goto(p, l)
             \/ mine' = mine /\ Goto(p, "finish")
             \/ UNCHANGED <<mine, pc>>
      PROVE  ChildrenGuarded'
  <2> USE <1>1, <1>2
  <2>1. CASE \E how : Leave(p, how)  BY <2>1 DEF Leave
  <2>2. CASE mine' = [mine EXCEPT ![p] = NoRec] /\ \E l : Goto(p, l)  BY <2>2
  <2>3. CASE /\ \E r \in Rec : Unused(r) /\ mine' = [mine EXCEPT ![p] = r]
             /\ \E l : Goto(p, l)
    BY <2>3 DEF Unused
  <2>4. CASE mine' = mine /\ pc[p] \notin {"go", "finish"} /\ \E l : Goto(p, l)
    <3>1. ~(mine[p] # NoRec /\ child[mine[p]] = "scoped")
      BY <2>4 DEF ChildrenGuarded
    <3> QED  BY <2>4, <3>1
  <2>5. CASE mine' = mine /\ Goto(p, "finish")  BY <2>5
  <2>6. CASE UNCHANGED <<mine, pc>>  BY <2>6
  <2> QED  BY <2>1, <2>2, <2>3, <2>4, <2>5, <2>6
<1>3. ASSUME NEW p \in Proc,
             \/ Admission(p) \/ Publish(p) \/ StartHeartbeat(p) \/ List(p)
             \/ ListFails(p) \/ Protect(p) \/ Inspect(p) \/ Rebase(p) \/ Scanned(p)
             \/ LoseGo(p) \/ EndRun(p) \/ Check(p) \/ EndPrune(p) \/ Finish(p)
             \/ StartBuild(p) \/ StartPrune(p) \/ Cancel(p) \/ Beat(p)
      PROVE  ChildrenGuarded'
  BY <1>2, <1>3
     DEF Admission, Publish, StartHeartbeat, List, ListFails, Protect, Inspect,
         Rebase,
         Scanned, LoseGo, EndRun, Check, EndPrune, Finish, StartBuild, StartPrune,
         Cancel, Beat, Works, End, diskVars
<1>4. ASSUME NEW p \in Proc, BeginGo(p) \/ WriteGuard(p) \/ Join(p)
      PROVE  ChildrenGuarded'
  <2>1. mine[p] \in Rec /\ \A q \in Proc : mine[q] = mine[p] => q = p
    BY <1>4 DEF BeginGo, WriteGuard, Join, Works, Ownership, RecordsOwn, Published,
                Pc
  <2> QED  BY <1>4, <2>1 DEF BeginGo, WriteGuard, Join, Works, End, ChildrenGuarded
<1>5. ASSUME NEW p \in Proc, Crash(p) PROVE ChildrenGuarded'
  BY <1>5 DEF Crash, Leave, ChildrenGuarded
<1>6. ASSUME Outside
      PROVE  ChildrenGuarded'
  BY <1>6 DEF Outside, Age, ClockBack, OrphanExit, ChildrenGuarded
<1> QED  BY <1>3, <1>4, <1>5, <1>6 DEF Next, Step, Outside

-----------------------------------------------------------------------------
(* Steps that only move one process                                        *)

\* A call that ends leaves the records of the others alone.
LEMMA LeaveKeeps ==
    ASSUME CacheNow, NEW p \in Proc, NEW how, Leave(p, how),
           dir' = dir, \A r \in Rec : r # mine[p] => file'[r] = file[r]
    PROVE  Meeting'
<1> USE NoRecAssumption DEF CacheNow, InTime, GuardInv, Ownership, Meeting, TypeOK, CallType
<1>1. RecordsCount'
  <2>1. mine' = [mine EXCEPT ![p] = NoRec]
    BY DEF Leave
  <2>2. ASSUME NEW q \in Proc, NEW t \in Proc, mine'[q] # NoRec
        PROVE  file'[mine'[q]] \in {"active", "future"} /\ age'[t][mine'[q]] # "stale"
    <3>1. q # p /\ mine'[q] = mine[q] /\ mine[q] \in Rec
      BY <2>1, <2>2
    <3>2. mine[q] # mine[p]
      BY <2>2, <3>1 DEF RecordsOwn
    <3>3. file'[mine[q]] = file[mine[q]]
      BY <3>1, <3>2
    <3>4. file[mine[q]] \in {"active", "future"} /\ age[t][mine[q]] # "stale"
      BY <2>2, <3>1 DEF RecordsCount
    <3>5. age'[t][mine[q]] = age[t][mine[q]] \/ age'[t][mine[q]] = "fresh"
      BY <3>1 DEF Leave, Forget, ScanType
    <3> QED  BY <3>1, <3>3, <3>4, <3>5
  <2> QED  BY <2>2 DEF RecordsCount
<1>2. ScanLocal'
  BY DEF ScanLocal, Leave, Goto, ScanType
<1>3. OneMeets'
  BY DEF OneMeets, Listed, Meets, Leave, Goto, Building, ScanType
<1> QED  BY <1>1, <1>2, <1>3

\* The places of a task that is neither scanning nor about to publish.
Settled == Published \ {"protect", "scan", "rebase"}

\* A step from one such place to another that touches no record and skips no
\* scan.
LEMMA MoveKeeps ==
    ASSUME CacheNow, NEW p \in Proc, NEW l, Goto(p, l),
           UNCHANGED <<file, dir, scanVars, call, mine>>,
           pc[p] \in Settled, l \in Settled \ {"beat"},
           l \in Building => pc[p] \in Building
                           \/ (pc[p] = "beat" /\ call[p] = "build"),
           l \in {"check", "prune"} => pc[p] = "check"
    PROVE  Meeting'
<1> USE DEF CacheNow, InTime, GuardInv, Ownership, Meeting, TypeOK, CallType, Settled,
            scanVars, Goto
<1>1. RecordsCount'
  BY DEF RecordsCount
<1>2. ScanLocal'
  BY DEF ScanLocal
<1>3. OneMeets'
  BY DEF OneMeets, Listed, Meets, Building, CallAt, Published, Pc
<1> QED  BY <1>1, <1>2, <1>3

\* The callback, the heartbeat, eviction and cancellation are such steps.
LEMMA WorkKeeps ==
    ASSUME CacheNow, NEW p \in Proc,
           \/ StartHeartbeat(p) \/ ListFails(p) \/ BeginGo(p) \/ WriteGuard(p)
           \/ Join(p) \/ LoseGo(p) \/ EndRun(p) \/ Check(p) \/ EndPrune(p)
           \/ Cancel(p)
    PROVE  Meeting'
<1> USE MoveKeeps DEF Settled, Published, Pc, Building, CacheNow, InTime, GuardInv,
                      Ownership, Meeting, CallAt
<1>1. CASE StartHeartbeat(p) \/ ListFails(p)
  BY <1>1 DEF StartHeartbeat, ListFails, End, diskVars
<1>2. CASE BeginGo(p)
  BY <1>2 DEF BeginGo, Works
<1>3. CASE WriteGuard(p)
  BY <1>3 DEF WriteGuard, Works, End
<1>4. CASE Join(p)
  BY <1>4 DEF Join, Works, End
<1>5. CASE LoseGo(p) \/ EndRun(p)
  BY <1>5 DEF LoseGo, EndRun, Works, End
<1>6. CASE Check(p) \/ EndPrune(p)
  BY <1>6 DEF Check, EndPrune, Works, End
<1>7. CASE Cancel(p)
  BY <1>7, LeaveKeeps DEF Cancel, End, diskVars
<1> QED  BY <1>1, <1>2, <1>3, <1>4, <1>5, <1>6, <1>7

-----------------------------------------------------------------------------
(* The steps of the coordination itself                                    *)

\* A new call has no record yet.
LEMMA StartKeeps ==
    ASSUME CacheNow, NEW p \in Proc, StartBuild(p) \/ StartPrune(p)
    PROVE  Meeting'
<1> USE DEF CacheNow, InTime, GuardInv, Ownership, Meeting, TypeOK, CallType, StartBuild,
            StartPrune,
            diskVars, scanVars, Goto
<1>1. RecordsCount'
  BY DEF RecordsCount
<1>2. ScanLocal'
  BY DEF ScanLocal
<1>3. OneMeets'
  BY DEF OneMeets, Listed, Meets, Building
<1> QED  BY <1>1, <1>2, <1>3

\* A sample takes no record of a published task for an old one.
LEMMA SampleFresh ==
    ASSUME CacheNow, NEW p \in Proc, Sample(p), UNCHANGED <<file, mine>>
    PROVE  RecordsCount'
<1>1. ASSUME NEW q \in Proc, NEW t \in Proc, mine[q] # NoRec
      PROVE  age'[t][mine[q]] # "stale"
  <2>1. mine[q] \in Rec /\ file[mine[q]] \in {"active", "future"}
    BY <1>1 DEF CacheNow, InTime, GuardInv, Ownership, Meeting, RecordsCount, TypeOK,
                CallType
  <2>2. CASE t = p
    BY <2>1, <2>2 DEF Sample, CacheNow, InTime, GuardInv, TypeOK, ScanType
  <2>3. CASE t # p
    BY <1>1, <2>3 DEF Sample, CacheNow, InTime, GuardInv, Ownership, Meeting, RecordsCount,
                      TypeOK, ScanType
  <2> QED  BY <2>2, <2>3
<1> QED  BY <1>1 DEF CacheNow, InTime, GuardInv, Ownership, Meeting, RecordsCount

\* The collector's admission publishes nothing; its sample counts every published
\* lease as fresh.
LEMMA AdmissionKeeps ==
    ASSUME CacheNow, NEW p \in Proc, Admission(p) PROVE Meeting'
<1>1. CASE Leave(p, "ok")
  BY <1>1, LeaveKeeps DEF Admission, diskVars
<1>2. CASE /\ Goto(p, "publish") /\ Sample(p)
           /\ UNCHANGED <<seen, kept, live, fixing, call, mine>>
  <2> USE <1>2 DEF CacheNow, InTime, GuardInv, Ownership, Meeting, TypeOK, CallType, Goto
  <2>0. pc[p] = "start" /\ UNCHANGED diskVars  BY DEF Admission
  <2>1. RecordsCount'
    BY <2>0, SampleFresh DEF diskVars
  <2>2. ScanLocal'
    BY <2>0 DEF ScanLocal
  <2>3. OneMeets'
    BY <2>0 DEF OneMeets, Listed, Meets, Building
  <2> QED  BY <2>1, <2>2, <2>3
<1> QED  BY <1>1, <1>2 DEF Admission

\* A record with a new mtime counts for everyone.
LEMMA TouchKeeps ==
    ASSUME CacheNow, NEW r \in Rec, Touch(r), mine' = mine
    PROVE  RecordsCount'
BY TouchFresh
   DEF CacheNow, InTime, GuardInv, Ownership, Meeting, RecordsCount, TypeOK, CallType,
       DiskType, ScanType

\* The name is unused, so publication disturbs no other task, and the task has
\* not listed anything yet.
LEMMA PublishKeeps ==
    ASSUME CacheNow, NEW p \in Proc, Publish(p) PROVE Meeting'
<1>1. CASE \E how : Leave(p, how) /\ UNCHANGED <<file, dir>>
  BY <1>1, LeaveKeeps
<1>2. ASSUME NEW r \in Rec, Unused(r), Touch(r), mine' = [mine EXCEPT ![p] = r],
             dir' = [dir EXCEPT ![r] = RecordDir(p)],
             Goto(p, IF call[p] = "build" THEN "list" ELSE "beat"),
             UNCHANGED <<seen, kept, live, fixing, call>>
      PROVE  Meeting'
  <2> USE <1>2, NoRecAssumption DEF CacheNow, InTime, GuardInv, Ownership, Meeting, TypeOK,
                                    CallType, Goto
  <2>0. pc[p] = "publish"  BY DEF Publish
  <2>1. RecordsCount'
    BY DEF RecordsCount, Touch, Unused, DiskType, ScanType
  <2>2. ScanLocal'
    BY <2>0 DEF ScanLocal
  <2>3. OneMeets'
    BY <2>0 DEF OneMeets, Listed, Meets, Building
  <2> QED  BY <2>1, <2>2, <2>3
<1> QED  BY <1>1, <1>2 DEF Publish

\* The records of all tasks of the other side that have listed are in the
\* listing, so p meets each of them.
LEMMA ListKeeps ==
    ASSUME CacheNow, NEW p \in Proc, List(p) PROVE Meeting'
<1> USE DEF CacheNow, InTime, GuardInv, Ownership, Meeting, TypeOK, CallType, List, Goto,
            diskVars
<1>1. RecordsCount'
  <2>1. CASE age' = age  BY <2>1 DEF RecordsCount
  <2>2. CASE Sample(p)  BY <2>2, SampleFresh
  <2> QED  BY <2>1, <2>2
<1>2. ScanLocal'
  BY DEF ScanLocal
<1>3. OneMeets'
  <2>1. ASSUME NEW q \in Proc, Listed(q), call[q] # call[p] PROVE mine[q] \in seen'[p]
    <3>1. mine[q] \in Rec
      BY <2>1 DEF Listed, RecordsOwn, Published, Pc, Building
    <3>2. file[mine[q]] # "none" /\ dir[mine[q]] = RecordDir(q)
      BY <3>1, NoRecAssumption DEF RecordsCount, RecordsOwn
    <3>3. RecordDir(q) = Other(p)
      BY <2>1 DEF RecordDir, Other, Listed, CallAt
    <3> QED  BY <3>1, <3>2, <3>3 DEF ScanType
  <2>2. ASSUME NEW q \in Proc, q # p
        PROVE  /\ Listed(q)' <=> Listed(q)
               /\ \A t \in Proc : Meets(q, t)' <=> Meets(q, t)
    BY <2>2 DEF Listed, Meets, ScanType
  <2>3. call' = call /\ mine' = mine
    OBVIOUS
  <2> QED  BY <2>1, <2>2, <2>3 DEF OneMeets, Meets
<1> QED  BY <1>1, <1>2, <1>3

\* The guard snapshot leaves the records alone.
LEMMA ProtectKeeps ==
    ASSUME CacheNow, NEW p \in Proc, Protect(p) PROVE Meeting'
<1> USE DEF CacheNow, InTime, GuardInv, Ownership, Meeting, TypeOK, CallType, Protect,
            Goto, diskVars
<1>1. RecordsCount'
  BY DEF RecordsCount
<1>2. ScanLocal'
  BY DEF ScanLocal
<1>3. OneMeets'
  BY DEF OneMeets, Listed, Meets, Building, CallAt
<1> QED  BY <1>1, <1>2, <1>3

\* An inspected record of a published task counts, so the task that scans has
\* met it; the record stays.
LEMMA InspectKeeps ==
    ASSUME CacheNow, NEW p \in Proc, Inspect(p) PROVE Meeting'
<1> USE DEF CacheNow, InTime, GuardInv, Ownership, Meeting, TypeOK, CallType
<1>1. PICK r \in seen[p] :
          /\ seen' = [seen EXCEPT ![p] = @ \ {r}]
          /\ live' = [live EXCEPT ![p] = @ \/ r \in kept[p] \/ Live(p, r)]
          /\ \/ file' = file
             \/ ~Live(p, r) /\ file' = [file EXCEPT ![r] = "none"]
          /\ \/ UNCHANGED <<pc, fixing>>
             \/ /\ pc' = [pc EXCEPT ![p] = "rebase"]
                /\ fixing' = [fixing EXCEPT ![p] = r]
  BY DEF Inspect, Goto
<1>2. /\ pc[p] = "scan" /\ r \in Rec
      /\ UNCHANGED <<dir, age, call, mine>>
  BY DEF Inspect, ScanType
<1>3. \A q \in Proc : mine[q] = r => Live(p, r)
  BY <1>2, NoRecAssumption DEF RecordsCount, Live
<1>4. RecordsCount'
  BY <1>1, <1>2, <1>3 DEF RecordsCount, DiskType
<1>5. ScanLocal'
  BY <1>1, <1>2 DEF ScanLocal, ScanType
<1>6. ASSUME NEW q \in Proc PROVE Listed(q)' = Listed(q)
  BY <1>1, <1>2 DEF Listed, Building
<1>7. ASSUME NEW a \in Proc, NEW b \in Proc, Meets(a, b), mine[b] # NoRec
      PROVE  Meets(a, b)'
  <2>1. CASE a # p  BY <1>1, <1>2, <1>7, <2>1 DEF Meets, ScanType
  <2>2. CASE a = p /\ live[a]  BY <1>1, <2>2 DEF Meets, ScanType
  <2>3. CASE a = p /\ mine[b] = r  BY <1>1, <1>3, <2>3 DEF Meets, ScanType
  <2>4. CASE a = p /\ mine[b] \in seen[a] /\ mine[b] # r
    BY <1>1, <1>2, <2>4 DEF Meets, ScanType
  <2> QED  BY <1>7, <2>1, <2>2, <2>3, <2>4 DEF Meets
<1>8. ASSUME NEW q \in Proc, Listed(q) PROVE mine[q] # NoRec
  BY <1>8 DEF Listed, RecordsOwn, Published, Pc, Building
<1>9. OneMeets'
  BY <1>2, <1>6, <1>7, <1>8 DEF OneMeets
<1> QED  BY <1>4, <1>5, <1>9

\* A rebased record counts for everyone, whoever owns it.
LEMMA RebaseKeeps ==
    ASSUME CacheNow, NEW p \in Proc, Rebase(p) PROVE Meeting'
<1> USE DEF CacheNow, InTime, GuardInv, Ownership, Meeting, TypeOK, CallType, Goto
<1>0. /\ pc[p] = "rebase" /\ Goto(p, "scan") /\ fixing[p] \in Rec
      /\ fixing' = [fixing EXCEPT ![p] = NoRec]
      /\ Touch(fixing[p]) \/ UNCHANGED <<file, age>>
      /\ UNCHANGED <<dir, seen, live, call, mine>>
  BY DEF Rebase, CallAt
<1>1. RecordsCount'
  <2>1. CASE Touch(fixing[p])  BY <1>0, <2>1, TouchKeeps
  <2>2. CASE UNCHANGED <<file, age>>  BY <1>0, <2>2 DEF RecordsCount
  <2> QED  BY <1>0, <2>1, <2>2
<1>2. ScanLocal'
  BY <1>0 DEF ScanLocal
<1>3. OneMeets'
  BY <1>0 DEF OneMeets, Listed, Meets, Building
<1> QED  BY <1>1, <1>2, <1>3

\* A scan that ends without a live record has nothing left to inspect either, so
\* whoever else has listed must be the one that meets this task.
LEMMA ScannedKeeps ==
    ASSUME CacheNow, NEW p \in Proc, Scanned(p) PROVE Meeting'
<1> USE DEF CacheNow, InTime, GuardInv, Ownership, Meeting, TypeOK, CallType, Goto
<1>0. /\ pc[p] = "scan" /\ seen[p] = {}
      /\ live' = [live EXCEPT ![p] = FALSE]
      /\ Forget(p) /\ UNCHANGED <<file, dir, seen, fixing, call, mine>>
  BY DEF Scanned, diskVars
<1>1. \/ live[p] /\ pc' = [pc EXCEPT ![p] = "finish"]
      \/ ~live[p] /\ call[p] = "build" /\ pc' = [pc EXCEPT ![p] = "beat"]
      \/ ~live[p] /\ call[p] = "prune" /\ pc' = [pc EXCEPT ![p] = "check"]
  BY <1>0 DEF Scanned, End, CallAt
<1>2. RecordsCount'
  BY <1>0 DEF RecordsCount, Forget, ScanType
<1>3. ScanLocal'
  BY <1>0, <1>1 DEF ScanLocal, ScanType
<1>4. OneMeets'
  BY <1>0, <1>1 DEF OneMeets, Listed, Meets, Building, ScanType
<1> QED  BY <1>2, <1>3, <1>4

\* Finish removes the task's own record and nobody else's.
LEMMA FinishKeeps ==
    ASSUME CacheNow, NEW p \in Proc, Finish(p) PROVE Meeting'
<1> USE DEF CacheNow, InTime, GuardInv, Ownership, Meeting, TypeOK, CallType, Goto
<1>0. /\ pc[p] = "finish" /\ dir' = dir
      /\ file' = file \/ file' \in Finished(mine[p])
  BY DEF Finish
<1>1. \A r \in Rec : r # mine[p] => file'[r] = file[r]
  BY <1>0 DEF Finished, DiskType
<1>2. CASE \E how : Leave(p, how)
  BY <1>0, <1>1, <1>2, LeaveKeeps
<1>3. CASE /\ Goto(p, "publish") /\ mine' = [mine EXCEPT ![p] = NoRec]
           /\ UNCHANGED <<scanVars, call>>
  <2> USE <1>0, <1>1, <1>3 DEF scanVars
  <2>1. RecordsCount'
    BY DEF RecordsCount, RecordsOwn
  <2>2. ScanLocal'
    BY DEF ScanLocal
  <2>3. OneMeets'
    BY DEF OneMeets, Listed, Meets, Building
  <2> QED  BY <2>1, <2>2, <2>3
<1> QED  BY <1>2, <1>3 DEF Finish

\* Everything the tasks do not do themselves.  In time, a record that ages
\* belongs to no published task: this is where the heartbeat is relied on.
LEMMA OutsideKeeps ==
    ASSUME CacheNow, timely', Outside \/ \E p \in Proc : Beat(p) \/ Crash(p)
    PROVE  Meeting'
<1> USE DEF CacheNow, InTime, GuardInv, Ownership, Meeting, TypeOK, CallType
<1>1. ASSUME UNCHANGED <<pc, call, mine, dir, seen, live, fixing>>, RecordsCount'
      PROVE  Meeting'
  BY <1>1 DEF CallAt, RecordsOwn, RecordDir, ScanLocal, OneMeets, Listed, Meets
<1>2. ASSUME NEW p \in Proc, Beat(p) PROVE Meeting'
  BY <1>1, <1>2, TouchKeeps DEF Beat
<1>3. ASSUME NEW p \in Proc, Crash(p) PROVE Meeting'
  BY <1>3, LeaveKeeps DEF Crash, DiskType
<1>4. ASSUME NEW r \in Rec, Age(r) PROVE Meeting'
  <2>1. RecordsCount'
    BY <1>4 DEF Age, RecordsCount, DiskType, scanVars
  <2> QED  BY <1>1, <1>4, <2>1 DEF Age, scanVars
<1>5. ASSUME ClockBack PROVE Meeting'
  <2>1. RecordsCount'
    BY <1>5 DEF ClockBack, RecordsCount, DiskType
  <2> QED  BY <1>1, <1>5, <2>1 DEF ClockBack
<1>6. ASSUME NEW r \in Rec, OrphanExit(r) PROVE Meeting'
  <2>1. RecordsCount'
    BY <1>6 DEF OrphanExit, RecordsCount, scanVars
  <2> QED  BY <1>1, <1>6, <2>1 DEF OrphanExit, scanVars
<1> QED  BY <1>2, <1>3, <1>4, <1>5, <1>6 DEF Outside

-----------------------------------------------------------------------------
(* Guarded leases under the scans                                          *)

\* A step that adds no guard and no listed record, and under which guarded
\* records stay and scans neither begin nor judge a record older than before.
LEMMA GuardsFrame ==
    ASSUME GuardsKeep, UNCHANGED dir,
           \A r \in Rec : guard'[r] # "none" =>
               guard[r] # "none" /\ file'[r] \notin {"none", "complete"},
           \A p \in Proc : \A r \in seen'[p] :
               /\ r \in seen[p] /\ call'[p] = call[p]
               /\ guard'[r] # "none" /\ pc'[p] \in {"scan", "rebase"} =>
                      r \in kept'[p] \/ age'[p][r] # "stale",
           seen' \in [Proc -> SUBSET Rec]
    PROVE  GuardsKeep'
BY DEF GuardsKeep, Other

\* A record with a new mtime is there and counts for every scan.
LEMMA TouchGuards ==
    ASSUME TypeOK, InTime, NEW t \in Rec, Touch(t), UNCHANGED <<dir, guard, call>>,
           NEW p \in Proc, NEW l, UNCHANGED pc \/ Goto(p, l),
           l \in {"scan", "rebase"} => pc[p] \in {"scan", "rebase"},
           \A q \in Proc : seen'[q] \subseteq seen[q] /\ kept'[q] = kept[q]
    PROVE  GuardsKeep'
<1> USE TouchFresh DEF TypeOK, InTime, DiskType, ScanType, CallType, Goto
<1>1. \A r \in Rec : guard'[r] # "none" =>
          dir'[r] = "lease" /\ file'[r] \notin {"none", "complete"}
  BY DEF GuardsKeep
<1>2. ASSUME NEW q \in Proc, NEW r \in seen'[q] PROVE dir'[r] = Other(q)'
  BY <1>2 DEF GuardsKeep, Other
<1>3. ASSUME NEW q \in Proc, NEW r \in seen'[q], guard'[r] # "none",
             pc'[q] \in {"scan", "rebase"}
      PROVE  r \in kept'[q] \/ age'[q][r] # "stale"
  <2>1. r \in Rec /\ r \in seen[q] /\ pc[q] \in {"scan", "rebase"}  BY <1>3
  <2>2. CASE r = t  BY <2>1, <2>2
  <2>3. CASE r # t  BY <1>3, <2>1, <2>3 DEF GuardsKeep
  <2> QED  BY <2>2, <2>3
<1> QED  BY <1>1, <1>2, <1>3 DEF GuardsKeep

\* A call that ends scans no more; of the records only its own may go, and only
\* when nothing guards it.
LEMMA LeaveGuards ==
    ASSUME TypeOK, GuardsKeep, NEW p \in Proc, NEW how, Leave(p, how),
           UNCHANGED <<dir, guard>>,
           \A r \in Rec : file'[r] = file[r] \/ guard[r] = "none"
    PROVE  GuardsKeep'
BY DEF TypeOK, DiskType, ScanType, CallType, GuardsKeep, Other, Leave, Forget, Goto

\* A guard is opened for the fresh lease of the build itself.
LEMMA GoGuards ==
    ASSUME CacheNow, NEW p \in Proc, BeginGo(p) \/ WriteGuard(p) \/ Join(p)
    PROVE  GuardsKeep'
<1> USE DEF CacheNow, InTime, GuardInv, TypeOK, DiskType, ScanType, CallType
<1>0. pc[p] \in Building
  BY DEF BeginGo, WriteGuard, Join, Works, Building
<1>1. /\ mine[p] \in Rec /\ mine[p] # NoRec /\ dir[mine[p]] = "lease"
      /\ file[mine[p]] \notin {"none", "complete"}
      /\ \A q \in Proc : age[q][mine[p]] # "stale"
  <2>1. call[p] = "build" /\ pc[p] \in Published
    BY <1>0 DEF Ownership, CallAt, Building, Published, Pc
  <2>2. mine[p] \in Rec /\ mine[p] # NoRec /\ dir[mine[p]] = "lease"
    BY <2>1 DEF Ownership, RecordsOwn, RecordDir
  <2> QED  BY <2>2 DEF Meeting, RecordsCount
<1>2. /\ UNCHANGED <<file, dir, scanVars, call>>
      /\ \A r \in Rec : guard'[r] # "none" => guard[r] # "none" \/ r = mine[p]
      /\ \A q \in Proc : pc'[q] \in {"scan", "rebase"} => pc[q] \in {"scan", "rebase"}
  BY DEF BeginGo, WriteGuard, Join, Works, End, Goto
<1>3. \A r \in Rec : guard'[r] # "none" => dir'[r] = "lease" /\ file'[r] \notin {"none", "complete"}
  BY <1>1, <1>2 DEF GuardsKeep
<1>4. \A q \in Proc : \A r \in seen'[q] : r \in Rec /\ dir'[r] = Other(q)'
  BY <1>2 DEF GuardsKeep, Other, scanVars
<1>5. ASSUME NEW q \in Proc, NEW r \in seen'[q], guard'[r] # "none",
             pc'[q] \in {"scan", "rebase"}
      PROVE  r \in kept'[q] \/ age'[q][r] # "stale"
  <2>1. r \in seen[q] /\ pc[q] \in {"scan", "rebase"} /\ r \in Rec
    BY <1>2, <1>4, <1>5 DEF scanVars
  <2>2. CASE r = mine[p]  BY <1>1, <1>2, <2>2 DEF scanVars
  <2>3. CASE guard[r] # "none"  BY <1>2, <2>1, <2>3 DEF GuardsKeep, scanVars
  <2> QED  BY <1>2, <1>5, <2>1, <2>2, <2>3
<1> QED  BY <1>3, <1>4, <1>5 DEF GuardsKeep

\* A new name is guarded by nothing and listed by nobody.
LEMMA PublishGuards ==
    ASSUME CacheNow, NEW p \in Proc, Publish(p) PROVE GuardsKeep'
<1> USE DEF CacheNow, InTime, GuardInv, TypeOK, DiskType, ScanType, CallType
<1>1. CASE \E how : Leave(p, how) /\ UNCHANGED <<file, dir, guard>>
  BY <1>1, LeaveGuards
<1>2. ASSUME NEW t \in Rec, Unused(t), Touch(t), dir' = [dir EXCEPT ![t] = RecordDir(p)],
             Goto(p, IF call[p] = "build" THEN "list" ELSE "beat"),
             UNCHANGED <<seen, kept, call, guard>>
      PROVE  GuardsKeep'
  <2>1. \A r \in Rec : guard'[r] # "none" =>
            dir'[r] = "lease" /\ file'[r] \notin {"none", "complete"}
    BY <1>2 DEF GuardsKeep, Unused, Touch
  <2>2. ASSUME NEW q \in Proc, NEW r \in seen'[q]
        PROVE  /\ dir'[r] = Other(q)'
               /\ guard'[r] # "none" /\ pc'[q] \in {"scan", "rebase"} =>
                      r \in kept'[q] \/ age'[q][r] # "stale"
    <3>1. r \in Rec /\ r # t /\ r \in seen[q]  BY <1>2 DEF Unused
    <3>2. pc'[q] \in {"scan", "rebase"} => pc[q] \in {"scan", "rebase"}
      BY <1>2 DEF Goto
    <3> QED  BY <1>2, <3>1, <3>2 DEF GuardsKeep, Other, Touch
  <2> QED  BY <2>1, <2>2 DEF GuardsKeep
<1> QED  BY <1>1, <1>2 DEF Publish

\* A build lists the intents, none of which a guard names; a collector lists the
\* leases and then snapshots the guards; a scan removes what neither keeps.
LEMMA ScanGuards ==
    ASSUME CacheNow, NEW p \in Proc,
           \/ Admission(p) \/ List(p) \/ Protect(p) \/ Inspect(p) \/ Rebase(p)
           \/ Scanned(p)
    PROVE  GuardsKeep'
<1> USE DEF CacheNow, InTime, GuardInv, TypeOK, DiskType, ScanType, CallType, Goto
<1>1. CASE Admission(p)
  <2>1. CASE Leave(p, "ok")  BY <1>1, <2>1, LeaveGuards DEF Admission, diskVars
  <2>2. CASE Goto(p, "publish") /\ Sample(p) /\ UNCHANGED <<seen, kept, call>>
    <3>1. seen[p] = {}  BY <1>1 DEF Admission, Meeting, ScanLocal
    <3>2. \A q \in Proc \ {p} : age'[q] = age[q] /\ pc'[q] = pc[q]
      BY <2>2 DEF Sample
    <3> QED  BY <1>1, <2>2, <3>1, <3>2 DEF Admission, diskVars, GuardsKeep, Other
  <2> QED  BY <1>1, <2>1, <2>2 DEF Admission
<1>2. CASE List(p)
  <2>1. /\ pc[p] = "list" /\ UNCHANGED <<diskVars, kept, call>>
        /\ seen' = [seen EXCEPT ![p] =
                      {r \in Rec : file[r] # "none" /\ dir[r] = Other(p)}]
        /\ pc' = [pc EXCEPT ![p] = IF call[p] = "build" THEN "scan" ELSE "protect"]
    BY <1>2 DEF List
  <2>2. \A q \in Proc \ {p} : age'[q] = age[q]
    BY <1>2 DEF List, Sample
  <2>3. ASSUME NEW q \in Proc, NEW r \in seen'[q]
        PROVE  /\ dir'[r] = Other(q)'
               /\ guard'[r] # "none" /\ pc'[q] \in {"scan", "rebase"} =>
                      r \in kept'[q] \/ age'[q][r] # "stale"
    <3>1. CASE q # p  BY <2>1, <2>2, <2>3, <3>1 DEF GuardsKeep, Other, diskVars
    <3>2. CASE q = p
      <4>1. r \in Rec /\ dir[r] = Other(p)  BY <2>1, <2>3, <3>2
      <4>2. pc'[p] \in {"scan", "rebase"} => dir[r] = "intent"
        BY <2>1, <4>1 DEF Other
      <4> QED  BY <2>1, <3>2, <4>1, <4>2 DEF GuardsKeep, Other, diskVars
    <3> QED  BY <3>1, <3>2
  <2> QED  BY <2>1, <2>3 DEF GuardsKeep, diskVars
<1>3. CASE Protect(p)
  <2>1. \A r \in Rec : guard[r] # "none" => r \in kept'[p]
    BY <1>3 DEF Protect, GuardedRecords
  <2>2. \A q \in Proc \ {p} : kept'[q] = kept[q] /\ pc'[q] = pc[q]
    BY <1>3 DEF Protect
  <2> QED  BY <1>3, <2>1, <2>2 DEF Protect, GuardsKeep, Other, diskVars
<1>4. CASE Inspect(p)
  <2>1. PICK t \in seen[p] :
            /\ seen' = [seen EXCEPT ![p] = @ \ {t}]
            /\ \/ file' = file
               \/ /\ t \notin kept[p] /\ ~Live(p, t)
                  /\ file' = [file EXCEPT ![t] = "none"]
    BY <1>4 DEF Inspect
  <2>2. pc[p] = "scan" /\ UNCHANGED <<dir, guard, age, kept, call>>
    BY <1>4 DEF Inspect
  <2>3. \A q \in Proc : pc'[q] \in {"scan", "rebase"} => pc[q] \in {"scan", "rebase"}
    BY <1>4 DEF Inspect
  <2>4. t \notin kept[p] /\ ~Live(p, t) => guard[t] = "none"
    BY <2>2 DEF GuardsKeep, Live
  <2>5. \A r \in Rec : guard'[r] # "none" =>
            guard[r] # "none" /\ file'[r] \notin {"none", "complete"}
    BY <2>1, <2>2, <2>4 DEF GuardsKeep
  <2>6. seen' \in [Proc -> SUBSET Rec] /\ \A q \in Proc : seen'[q] \subseteq seen[q]
    BY <2>1
  <2> QED  BY <2>2, <2>3, <2>5, <2>6, GuardsFrame DEF GuardsKeep
<1>5. CASE Rebase(p)
  <2>1. CASE Touch(fixing[p])
    BY <1>5, <2>1, TouchGuards DEF Rebase, Ownership, CallAt
  <2>2. CASE UNCHANGED <<file, age>>
    <3>1. \A q \in Proc : pc'[q] \in {"scan", "rebase"} => pc[q] \in {"scan", "rebase"}
      BY <1>5 DEF Rebase
    <3> QED  BY <1>5, <2>2, <3>1 DEF Rebase, GuardsKeep, Other
  <2> QED  BY <1>5, <2>1, <2>2 DEF Rebase
<1>6. CASE Scanned(p)
  <2>1. \A q \in Proc : pc'[q] \in {"scan", "rebase"} => pc[q] \in {"scan", "rebase"}
    BY <1>6 DEF Scanned, End
  <2>2. \A q \in Proc \ {p} : kept'[q] = kept[q] /\ age'[q] = age[q]
    BY <1>6 DEF Scanned, Forget
  <2> QED  BY <1>6, <2>1, <2>2 DEF Scanned, diskVars, GuardsKeep, Other
<1> QED  BY <1>1, <1>2, <1>3, <1>4, <1>5, <1>6

\* The other steps start or end no scan, add no guard and take away no record
\* that one names.
LEMMA GuardsStep == ASSUME CacheNow, Next PROVE GuardsKeep'
<1> USE DEF CacheNow, InTime, GuardInv, TypeOK, DiskType, ScanType, CallType, Goto
<1>1. ASSUME UNCHANGED <<file, dir, seen, kept, age>>,
             \A r \in Rec : guard'[r] # "none" => guard[r] # "none",
             \A q \in Proc : pc'[q] \in {"scan", "rebase"} => pc[q] \in {"scan", "rebase"},
             \A q \in Proc : seen[q] # {} => call'[q] = call[q]
      PROVE  GuardsKeep'
  BY <1>1, GuardsFrame DEF GuardsKeep
<1>2. ASSUME NEW p \in Proc,
             \/ StartHeartbeat(p) \/ ListFails(p) \/ LoseGo(p) \/ EndRun(p)
             \/ Check(p) \/ EndPrune(p)
      PROVE  GuardsKeep'
  BY <1>1, <1>2
     DEF StartHeartbeat, ListFails, LoseGo, EndRun, Check, EndPrune, Works, End,
         diskVars, scanVars
<1>3. ASSUME NEW p \in Proc, StartBuild(p) \/ StartPrune(p) PROVE GuardsKeep'
  <2>1. seen[p] = {}  BY <1>3 DEF StartBuild, StartPrune, Meeting, ScanLocal
  <2> QED  BY <1>1, <1>3, <2>1 DEF StartBuild, StartPrune, diskVars, scanVars
<1>4. ASSUME NEW p \in Proc, Cancel(p) PROVE GuardsKeep'
  <2>1. CASE Leave(p, "fail")  BY <1>4, <2>1, LeaveGuards DEF Cancel, diskVars
  <2>2. CASE End(p, "fail") /\ UNCHANGED <<scanVars, call>>
    BY <1>1, <1>4, <2>2 DEF Cancel, End, diskVars, scanVars
  <2> QED  BY <1>4, <2>1, <2>2 DEF Cancel
<1>5. ASSUME NEW p \in Proc, Finish(p) PROVE GuardsKeep'
  <2>1. /\ pc[p] = "finish" /\ UNCHANGED <<dir, guard>>
        /\ \/ file' = file
           \/ file' \in Finished(mine[p]) /\ guard[mine[p]] = "none"
    BY <1>5 DEF Finish, Releasable
  <2>2. \A r \in Rec : file'[r] = file[r] \/ guard[r] = "none"
    BY <2>1 DEF Finished
  <2>3. CASE \E how : Leave(p, how)  BY <2>1, <2>2, <2>3, LeaveGuards
  <2>4. CASE Goto(p, "publish") /\ UNCHANGED <<scanVars, call>>
    <3>1. \A q \in Proc : pc'[q] \in {"scan", "rebase"} => pc[q] \in {"scan", "rebase"}
      BY <2>4
    <3> QED  BY <2>1, <2>2, <2>4, <3>1, GuardsFrame DEF scanVars, GuardsKeep
  <2> QED  BY <1>5, <2>3, <2>4 DEF Finish
<1>6. ASSUME NEW p \in Proc, Beat(p) PROVE GuardsKeep'
  BY <1>6, TouchGuards, NoRecAssumption DEF Beat
<1>7. ASSUME NEW p \in Proc, Crash(p) PROVE GuardsKeep'
  BY <1>7, LeaveGuards DEF Crash, Releasable
<1>8. ASSUME ClockBack \/ \E r \in Rec : Age(r) PROVE GuardsKeep'
  BY <1>8, GuardsFrame DEF Age, ClockBack, scanVars, GuardsKeep
<1>9. ASSUME NEW r \in Rec, OrphanExit(r) PROVE GuardsKeep'
  BY <1>1, <1>9 DEF OrphanExit, scanVars
<1> QED
  BY <1>2, <1>3, <1>4, <1>5, <1>6, <1>7, <1>8, <1>9, GoGuards, PublishGuards, ScanGuards
     DEF Next, Step

-----------------------------------------------------------------------------
(* Theorems                                                                *)

\* Every variable of the Go cache protocol keeps its type: in particular no
\* caller of withGoBuildCacheLease is handed the withdrawal of one attempt.
THEOREM CacheTypes == Spec => []TypeOK
<1>1. Init => TypeOK
  BY BoundAssumption
     DEF Init, TypeOK, DiskType, ScanType, CallType, File, Guard, Child, AgeAt, Pc
<1>2. TypeOK /\ [Next]_vars => TypeOK'
  <2>1. TypeOK /\ Next => TypeOK'
    BY DiskTypeStep, ScanTypeStep, CallTypeStep DEF TypeOK
  <2>2. TypeOK /\ UNCHANGED vars => TypeOK'
    BY DEF vars, diskVars, scanVars, bounds, TypeOK, DiskType, ScanType, CallType
  <2> QED  BY <2>1, <2>2
<1> QED  BY <1>1, <1>2, PTL DEF Spec

\* However long a task is suspended, whatever crashes and whatever is left behind,
\* a scoped Go command that runs has a guard on disk.
THEOREM ScopedChildrenGuarded == Spec => []GuardInv
<1>1. Init => GuardInv
  BY BoundAssumption
     DEF Init, GuardInv, TypeOK, DiskType, ScanType, CallType, File, Guard, Child,
         AgeAt, Pc, Ownership, CallAt, RecordsOwn, ChildrenGuarded, Building, Published
<1>2. GuardInv /\ [Next]_vars => GuardInv'
  <2>1. GuardInv /\ Next => GuardInv'
    BY DiskTypeStep, ScanTypeStep, CallTypeStep, OwnershipStep, ChildrenStep
       DEF GuardInv, TypeOK
  <2>2. GuardInv /\ UNCHANGED vars => GuardInv'
    BY DEF vars, diskVars, scanVars, bounds, GuardInv, TypeOK, DiskType, ScanType,
           CallType, Ownership, CallAt, RecordsOwn, RecordDir, ChildrenGuarded
  <2> QED  BY <2>1, <2>2
<1> QED  BY <1>1, <1>2, PTL DEF Spec

\* isProtected is asked once more after the scan, so deletion never starts while a
\* scoped Go command runs, not even one whose parent is dead or suspended.
THEOREM CacheNoPruneUnderChild == Spec => NoPruneUnderChild
<1>1. ASSUME GuardInv, [Next]_vars
      PROVE  \A p \in Proc : (pc[p] # "prune" /\ pc'[p] = "prune") =>
               \A r \in Rec : child[r] # "scoped"
  <2> SUFFICES ASSUME Next, NEW p \in Proc, pc[p] # "prune", pc'[p] = "prune"
               PROVE  \A r \in Rec : child[r] # "scoped"
    BY <1>1 DEF vars
  <2> USE DEF GuardInv, TypeOK, CallType, Goto
  <2>1. ASSUME NEW q \in Proc, NEW l, Goto(q, l) PROVE p = q /\ l = "prune"
    BY <2>1
  <2>2. ASSUME NEW q \in Proc, NEW how, Leave(q, how) PROVE FALSE
    <3>1. Goto(q, "idle")  BY <2>2 DEF Leave
    <3> QED  BY <2>1, <3>1
  <2>3. ASSUME NEW q \in Proc, Check(q) PROVE ~Protected
    BY <2>1, <2>3 DEF Check, End
  <2>4. pc' # pc
    OBVIOUS
  <2>5. ASSUME NEW q \in Proc, Step(q), ~Check(q) PROVE FALSE
    BY <2>1, <2>2, <2>4, <2>5
       DEF Step, Admission, Publish, StartHeartbeat, List, ListFails, Protect,
           Inspect,
           Rebase, Scanned, BeginGo, WriteGuard, Join, LoseGo, EndRun, EndPrune, Finish,
           Works, End
  <2>6. ASSUME NEW q \in Proc,
               StartBuild(q) \/ StartPrune(q) \/ Cancel(q) \/ Beat(q) \/ Crash(q)
        PROVE  FALSE
    BY <2>1, <2>2, <2>4, <2>6 DEF StartBuild, StartPrune, Cancel, Beat, Crash, End
  <2>7. ASSUME Outside PROVE FALSE
    BY <2>4, <2>7 DEF Outside, Age, ClockBack, OrphanExit
  <2>8. ~Protected
    BY <2>3, <2>5, <2>6, <2>7 DEF Next, Outside
  <2> QED  BY <1>1, <2>8 DEF Protected, ChildrenGuarded
<1>2. GuardInv /\ [Next]_vars =>
        [\A p \in Proc : (pc[p] # "prune" /\ pc'[p] = "prune") =>
           \A r \in Rec : child[r] # "scoped"]_vars
  BY <1>1
<1> QED  BY <1>2, ScopedChildrenGuarded, PTL DEF Spec, NoPruneUnderChild

\* Lateness is never forgotten, and in time nobody falls behind the clock.
LEMMA TimeStep ==
    ASSUME Next PROVE /\ timely' => timely
                      /\ timely' /\ behind = {} => behind' = {}
<1>1. CASE ClockBack
  BY <1>1 DEF ClockBack
<1>2. CASE \E r \in Rec : Age(r) \/ OrphanExit(r)
  <2>1. ASSUME NEW r \in Rec, Age(r) PROVE (timely' => timely) /\ behind' = behind
    BY <2>1 DEF Age, scanVars
  <2>2. ASSUME NEW r \in Rec, OrphanExit(r) PROVE timely' = timely /\ behind' = behind
    BY <2>2 DEF OrphanExit, scanVars, bounds
  <2> QED  BY <1>2, <2>1, <2>2
<1>3. ASSUME NEW p \in Proc,
             \/ StartBuild(p) \/ StartPrune(p) \/ Cancel(p) \/ Beat(p) \/ Crash(p)
             \/ Admission(p) \/ Publish(p) \/ List(p) \/ Scanned(p) \/ Finish(p)
      PROVE  timely' = timely /\ behind' \subseteq behind
  BY <1>3 DEF StartBuild, StartPrune, Cancel, Beat, Crash, Admission, Publish, List,
              Scanned, Finish, Leave, Forget, Sample, scanVars, bounds
<1>4. ASSUME NEW p \in Proc,
             \/ StartHeartbeat(p) \/ ListFails(p) \/ Protect(p) \/ Inspect(p)
             \/ Rebase(p) \/ BeginGo(p) \/ WriteGuard(p) \/ Join(p) \/ LoseGo(p)
             \/ EndRun(p) \/ Check(p) \/ EndPrune(p)
      PROVE  timely' = timely /\ behind' = behind
  BY <1>4 DEF StartHeartbeat, ListFails, Protect, Inspect, Rebase, BeginGo,
              WriteGuard, Join, LoseGo, EndRun, Check, EndPrune, Works, scanVars,
              bounds
<1> QED  BY <1>1, <1>2, <1>3, <1>4 DEF Next, Step

\* What the records in the two directories promise is invariant.  While running
\* tasks refresh their records within the grace period and the clock steps back
\* under no scan, a published task's record is there and counts for everybody, of
\* a build and a collector that have both listed one meets the other, and a
\* guarded lease survives the scans.
THEOREM CacheInvariant == Spec => []CacheInv
<1>1. Init => CacheInv
  BY NoRecAssumption, BoundAssumption
     DEF Init, CacheInv, InTime, GuardInv, TypeOK, DiskType, ScanType, CallType,
         File, Guard, Child, AgeAt, Pc, Ownership, Meeting, CallAt, RecordsOwn,
         RecordsCount, ScanLocal, OneMeets, Listed, Meets, Building, Published,
         ChildrenGuarded, GuardsKeep
<1>2. CacheInv /\ [Next]_vars => CacheInv'
  <2> SUFFICES ASSUME CacheInv, [Next]_vars PROVE CacheInv'
    OBVIOUS
  <2>1. CASE Next
    <3>1. GuardInv'
      BY <2>1, DiskTypeStep, ScanTypeStep, CallTypeStep, OwnershipStep, ChildrenStep
         DEF CacheInv, GuardInv, TypeOK
    <3>2. ASSUME timely' PROVE InTime'
      <4>1. CacheNow /\ behind' = {}
        BY <2>1, <3>2, TimeStep DEF CacheInv, CacheNow, InTime
      <4>2. Meeting'
        BY <2>1, <3>2, <4>1, StartKeeps, AdmissionKeeps, PublishKeeps, WorkKeeps,
           ListKeeps, ProtectKeeps, InspectKeeps, RebaseKeeps, ScannedKeeps,
           FinishKeeps, OutsideKeeps DEF Next, Step, Outside
      <4>3. GuardsKeep'
        BY <2>1, <4>1, GuardsStep
      <4> QED  BY <4>1, <4>2, <4>3 DEF InTime
    <3> QED  BY <3>1, <3>2 DEF CacheInv
  <2>2. CASE UNCHANGED vars
    BY <2>2 DEF vars, diskVars, scanVars, bounds, CacheInv, InTime, GuardInv, TypeOK,
                DiskType, ScanType, CallType, Ownership, Meeting, CallAt, RecordsOwn,
                RecordDir, RecordsCount, ScanLocal, OneMeets, Listed, Meets,
                ChildrenGuarded, GuardsKeep, Other
  <2> QED  BY <2>1, <2>2
<1> QED  BY <1>1, <1>2, PTL DEF Spec

\* While tasks and clock are timely, the lease of a scoped Go command that still
\* runs survives age-based collection, with or without its Node parent.
THEOREM CacheGuardedLeaseKept == Spec => []GuardedLeaseKept
<1>1. CacheInv => GuardedLeaseKept
  BY DEF CacheInv, InTime, GuardInv, ChildrenGuarded, GuardsKeep, GuardedLeaseKept
<1> QED  BY <1>1, CacheInvariant, PTL

\* While tasks and clock are timely, no object is deleted while a build runs its
\* callback.
THEOREM CacheExclusion == Spec => []Exclusion
<1>1. CacheInv => Exclusion
  <2> SUFFICES ASSUME CacheInv, timely, NEW p \in Proc, NEW q \in Proc,
                      pc[p] = "prune", pc[q] \in Building
               PROVE  FALSE
    BY DEF Exclusion
  <2>1. call[p] = "prune" /\ call[q] = "build"
    BY DEF CacheInv, GuardInv, Ownership, CallAt
  <2>2. Meets(q, p) \/ Meets(p, q)
    BY <2>1 DEF CacheInv, InTime, Meeting, OneMeets, Listed
  <2>3. ~Meets(q, p) /\ ~Meets(p, q)
    BY DEF CacheInv, InTime, Meeting, ScanLocal, Meets, Building
  <2> QED  BY <2>2, <2>3
<1> QED  BY <1>1, CacheInvariant, PTL
=============================================================================
