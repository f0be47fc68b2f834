------------------------ MODULE PluginBuildLockProofs ------------------------
(***************************************************************************)
(* Proofs about PluginBuildLock, for every set of processes, hosts and     *)
(* generations and every value of the bounds.                              *)
(***************************************************************************)
EXTENDS PluginBuildLock, TLAPS

USE DEF InspectPc, FencePc, PayloadPc, Pc, Task, Guard, Token,
        lockVars, guardVars, entryVars, procVars, bounds,
        Goto, As, Drop, Keep, Leave, Return, Skip, Throw, Continue, Refused, Released,
        Active, Abandoned, Inspects, Works, End

(***************************************************************************)
(* Type correctness, one part of the state at a time.                      *)
(***************************************************************************)

\* The initial state is well typed.
LEMMA InitType == Init => TypeOK
<1> SUFFICES ASSUME Init PROVE TypeOK
  OBVIOUS
<1>1. LockType
  BY Zenon DEF Init, LockType
<1>2. EntryType
  BY Zenon DEF Init, EntryType
<1>3. ProcType
  BY BoundAssumption DEF Init, ProcType
<1>4. LocalType
  BY Zenon DEF Init, LocalType
<1> QED
  BY <1>1, <1>2, <1>3, <1>4 DEF TypeOK

\* Only seven steps write the lock tree.
LEMMA LockFrame ==
  ASSUME NEW p \in Proc,
         \/ StartBuild(p) \/ StartPrune(p) \/ Expire(p) \/ Cancel(p)
         \/ Crash(p) \/ Restart(p) \/ LoopTop(p) \/ Wait(p) \/ ReadGeneration(p)
         \/ ConfirmObserver(p) \/ ReadOwner(p) \/ RereadGeneration(p)
         \/ ConfirmMissing(p)
         \/ ProbeOwner(p) \/ Qualify(p) \/ Payload(p) \/ CheckUnfinished(p)
         \/ CheckUsers(p) \/ RemoveEntry(p) \/ SweepOne(p) \/ SweepDone(p)
  PROVE  UNCHANGED lockVars
  BY DEF StartBuild, StartPrune, Expire, Cancel, Crash, Restart, LoopTop, Wait,
         ReadGeneration, ConfirmMissing, ConfirmObserver, ReadOwner, RereadGeneration,
         ProbeOwner, Qualify, Payload, Recheck, BeginNative, WriteGuard, Join,
         LoseNative, Publish, Retain, WriteToken, CheckUnfinished, CheckUsers,
         RemoveEntry, SweepOne, SweepDone

\* A step keeps the types of the lock tree.
LEMMA LockTypeStep == ASSUME TypeOK, Next PROVE LockType'
<1> USE DEF TypeOK, LockType
<1>1. ASSUME NEW p \in Proc, Admit(p) PROVE LockType'
  BY <1>1 DEF Admit
<1>2. ASSUME NEW p \in Proc, Acquire(p) PROVE LockType'
  BY <1>2 DEF Acquire
<1>3. ASSUME NEW p \in Proc, RegisterObserver(p) PROVE LockType'
  BY <1>3 DEF RegisterObserver
<1>4. ASSUME NEW p \in Proc, Reclaim(p) PROVE LockType'
  BY <1>4 DEF Reclaim, Retire
<1>5. ASSUME NEW p \in Proc, Release(p) PROVE LockType'
  BY <1>5 DEF Release, Retire
<1>6. ASSUME NEW p \in Proc, Complete(p) PROVE LockType'
  BY <1>6 DEF Complete, OwnTombstone
<1>7. ASSUME NEW p \in Proc, Unlink(p) PROVE LockType'
  BY <1>7 DEF Unlink
<1>8. ASSUME UNCHANGED lockVars PROVE LockType'
  BY <1>8
<1>9. ASSUME NEW g \in Gen, OrphanExit(g) \/ OperatorConfirm(g)
      PROVE  UNCHANGED lockVars
  BY <1>9 DEF OrphanExit, OperatorConfirm
<1> QED
  BY <1>1, <1>2, <1>3, <1>4, <1>5, <1>6, <1>7, <1>8, <1>9, LockFrame
     DEF Next, Step, Inspect, Collect

\* A step keeps the types of guards, children, binary and reader tokens.  The
\* generation a payload writes about is its lease, which LocalsSet says it has.
LEMMA EntryTypeStep == ASSUME TypeOK, LocalsSet, Next PROVE EntryType'
<1> USE DEF TypeOK, EntryType
<1>1. ASSUME NEW p \in Proc, Payload(p) PROVE EntryType'
  <2>1. ASSUME Recheck(p) PROVE EntryType'
    BY <2>1 DEF Recheck
  <2>2. ASSUME BeginNative(p) PROVE EntryType'
    BY <2>2 DEF BeginNative, LocalType, LocalsSet
  <2>3. ASSUME WriteGuard(p) PROVE EntryType'
    BY <2>3 DEF WriteGuard, LocalType, LocalsSet
  <2>4. ASSUME Join(p) PROVE EntryType'
    BY <2>4 DEF Join
  <2>5. ASSUME LoseNative(p) PROVE EntryType'
    BY <2>5 DEF LoseNative
  <2>6. ASSUME Publish(p) PROVE EntryType'
    BY <2>6 DEF Publish
  <2>7. ASSUME Retain(p) PROVE EntryType'
    BY <2>7 DEF Retain, Swept
  <2>8. ASSUME WriteToken(p) PROVE EntryType'
    BY <2>8 DEF WriteToken
  <2> QED
    BY <1>1, <2>1, <2>2, <2>3, <2>4, <2>5, <2>6, <2>7, <2>8 DEF Payload
<1>2. ASSUME NEW p \in Proc, Collect(p) PROVE EntryType'
  <2>1. ASSUME CheckUsers(p) PROVE EntryType'
    BY <2>1 DEF CheckUsers, Swept
  <2>2. ASSUME RemoveEntry(p) PROVE EntryType'
    BY <2>2 DEF RemoveEntry
  <2>3. ASSUME CheckUnfinished(p) \/ SweepOne(p) \/ Unlink(p) \/ SweepDone(p)
        PROVE  EntryType'
    BY <2>3 DEF CheckUnfinished, SweepOne, Unlink, SweepDone
  <2> QED
    BY <1>2, <2>1, <2>2, <2>3 DEF Collect
<1>3. ASSUME NEW p \in Proc,
             \/ StartBuild(p) \/ StartPrune(p) \/ Expire(p) \/ Cancel(p)
             \/ Restart(p) \/ LoopTop(p) \/ Admit(p) \/ Acquire(p) \/ Wait(p)
             \/ Inspect(p) \/ Qualify(p) \/ Reclaim(p) \/ Release(p) \/ Complete(p)
      PROVE  UNCHANGED <<guardVars, entryVars>>
  BY <1>3 DEF StartBuild, StartPrune, Expire, Cancel, Restart, LoopTop, Admit,
     Acquire, Wait, Inspect, ReadGeneration, ConfirmMissing, RegisterObserver, ConfirmObserver,
     ReadOwner, RereadGeneration, ProbeOwner, Qualify, Reclaim, Release, Complete
<1>4. ASSUME NEW p \in Proc, Crash(p) PROVE EntryType'
  BY <1>4 DEF Crash
<1>5. ASSUME NEW g \in Gen, OrphanExit(g) \/ OperatorConfirm(g) PROVE EntryType'
  BY <1>5 DEF OrphanExit, OperatorConfirm
<1>6. ASSUME UNCHANGED <<guardVars, entryVars>> PROVE EntryType'
  BY <1>6
<1> QED
  BY <1>1, <1>2, <1>3, <1>4, <1>5, <1>6 DEF Next, Step

\* A step keeps the types of the process sets and of the bounded counters.
LEMMA ProcTypeStep == ASSUME TypeOK, Next PROVE ProcType'
<1> USE DEF TypeOK, ProcType
<1>1. ASSUME NEW p \in Proc, StartBuild(p) \/ StartPrune(p) PROVE ProcType'
  BY <1>1, BoundAssumption DEF StartBuild, StartPrune
<1>2. ASSUME NEW p \in Proc, Crash(p) PROVE ProcType'
  BY <1>2, BoundAssumption DEF Crash
<1>3. ASSUME NEW p \in Proc,
             \/ Expire(p) \/ Cancel(p) \/ Restart(p) \/ LoopTop(p) \/ Admit(p)
             \/ Acquire(p) \/ Wait(p) \/ Inspect(p) \/ Qualify(p) \/ Reclaim(p)
             \/ Release(p) \/ Complete(p)
      PROVE  ProcType'
  BY <1>3 DEF Expire, Cancel, Restart, LoopTop, Admit, Acquire, Wait, Inspect,
     ReadGeneration, ConfirmMissing, RegisterObserver, ConfirmObserver, ReadOwner,
     RereadGeneration, ProbeOwner, Qualify, Reclaim, Release, Complete
<1>4. ASSUME NEW p \in Proc, Payload(p) \/ Collect(p) PROVE ProcType'
  BY <1>4 DEF Payload, Recheck, BeginNative, WriteGuard, Join, LoseNative,
     Publish, Retain, WriteToken, Collect, CheckUnfinished, CheckUsers,
     RemoveEntry, SweepOne, Unlink, SweepDone
<1>5. ASSUME NEW g \in Gen, OrphanExit(g) \/ OperatorConfirm(g) PROVE ProcType'
  BY <1>5 DEF OrphanExit, OperatorConfirm
<1> QED
  BY <1>1, <1>2, <1>3, <1>4, <1>5 DEF Next, Step

\* A step of p sets at most its own locals, each to a value of its kind.
Moves(p) ==
    /\ (\E l \in Pc : Goto(p, l)) \/ UNCHANGED pc
    /\ (\E t \in Task : As(p, t)) \/ UNCHANGED task
    /\ (\E g \in Gen \cup {NoGen} : gen' = [gen EXCEPT ![p] = g]) \/ UNCHANGED gen
    /\ (\E q \in Proc \cup {NoProc} : who' = [who EXCEPT ![p] = q]) \/ UNCHANGED who
    /\ (\E b \in BOOLEAN : ok' = [ok EXCEPT ![p] = b]) \/ UNCHANGED ok
    /\ (\E g \in Gen \cup {NoGen} : lease' = [lease EXCEPT ![p] = g]) \/ UNCHANGED lease

\* Such a step keeps the types of the locals.
LEMMA MovesTyped ==
  ASSUME LocalType, NEW p \in Proc, Moves(p) PROVE LocalType'
<1>1. pc' \in [Proc -> Pc] /\ task' \in [Proc -> Task]
  <2> HIDE DEF Pc, Task
  <2> QED
    BY DEF LocalType, Moves
<1>2. gen' \in [Proc -> Gen \cup {NoGen}] /\ lease' \in [Proc -> Gen \cup {NoGen}]
  BY DEF LocalType, Moves
<1>3. who' \in [Proc -> Proc \cup {NoProc}] /\ ok' \in [Proc -> BOOLEAN]
  BY DEF LocalType, Moves
<1> QED
  BY <1>1, <1>2, <1>3 DEF LocalType

\* Every step of a process is of that kind.
LEMMA StepMoves ==
  ASSUME TypeOK, NEW p \in Proc,
         \/ StartBuild(p) \/ StartPrune(p) \/ Expire(p) \/ Cancel(p)
         \/ Step(p) \/ Crash(p) \/ Restart(p)
  PROVE  Moves(p)
<1>1. ASSUME \/ StartBuild(p) \/ StartPrune(p) \/ Expire(p) \/ Cancel(p)
             \/ Crash(p) \/ Restart(p)
      PROVE  Moves(p)
  <2>1. CASE StartBuild(p)
    BY <2>1 DEF Moves, StartBuild
  <2>2. CASE StartPrune(p)
    BY <2>2 DEF Moves, StartPrune
  <2>3. CASE Expire(p)
    BY <2>3 DEF Moves, Expire
  <2>4. CASE Cancel(p)
    BY <2>4 DEF Moves, Cancel
  <2>5. CASE Crash(p)
    BY <2>5 DEF Moves, Crash
  <2>6. CASE Restart(p)
    BY <2>6 DEF Moves, Restart
  <2> QED
    BY <1>1, <2>1, <2>2, <2>3, <2>4, <2>5, <2>6
<1>2. ASSUME LoopTop(p) \/ Admit(p) \/ Acquire(p) \/ Wait(p) PROVE Moves(p)
  <2>1. CASE LoopTop(p)
    BY <2>1 DEF Moves, LoopTop
  <2>2. CASE Admit(p)
    BY <2>2 DEF Moves, Admit
  <2>3. CASE Acquire(p)
    BY <2>3 DEF Moves, Acquire
  <2>4. CASE Wait(p)
    BY <2>4 DEF Moves, Wait
  <2> QED
    BY <1>2, <2>1, <2>2, <2>3, <2>4
<1>3. ASSUME Inspect(p) \/ Qualify(p) \/ Reclaim(p) PROVE Moves(p)
  <2>1. CASE ReadGeneration(p)
    BY <2>1 DEF Moves, ReadGeneration, TypeOK, LockType
  <2>2. CASE ConfirmMissing(p)
    BY <2>2 DEF Moves, ConfirmMissing
  <2>3. CASE RegisterObserver(p)
    BY <2>3 DEF Moves, RegisterObserver
  <2>4. CASE ConfirmObserver(p)
    BY <2>4 DEF Moves, ConfirmObserver
  <2>5. CASE ReadOwner(p)
    BY <2>5 DEF Moves, ReadOwner, TypeOK, LockType
  <2>6. CASE RereadGeneration(p)
    BY <2>6 DEF Moves, RereadGeneration
  <2>7. CASE ProbeOwner(p)
    <3>1. UNCHANGED lease
      BY <2>7 DEF ProbeOwner
    <3>2. Abandoned(p) \/ Active(p)
      BY <2>7, Zenon DEF ProbeOwner
    <3>3. CASE Abandoned(p)
      BY <3>1, <3>3 DEF Moves
    <3>4. CASE Active(p)
      BY <3>1, <3>4 DEF Moves
    <3> QED
      BY <3>2, <3>3, <3>4
  <2>8. CASE Qualify(p)
    BY <2>8 DEF Moves, Qualify
  <2>9. CASE Reclaim(p)
    BY <2>9 DEF Moves, Reclaim
  <2> QED
    BY <1>3, <2>1, <2>2, <2>3, <2>4, <2>5, <2>6, <2>7, <2>8, <2>9 DEF Inspect
<1>4. ASSUME Payload(p) \/ Release(p) \/ Complete(p) PROVE Moves(p)
  <2>1. CASE Recheck(p)
    BY <2>1 DEF Moves, Recheck
  <2>2. CASE BeginNative(p)
    BY <2>2 DEF Moves, BeginNative
  <2>3. CASE WriteGuard(p)
    BY <2>3 DEF Moves, WriteGuard
  <2>4. CASE Join(p)
    BY <2>4 DEF Moves, Join
  <2>5. CASE LoseNative(p)
    BY <2>5 DEF Moves, LoseNative
  <2>6. CASE Publish(p)
    BY <2>6 DEF Moves, Publish
  <2>7. CASE Retain(p)
    BY <2>7 DEF Moves, Retain
  <2>8. CASE WriteToken(p)
    BY <2>8 DEF Moves, WriteToken
  <2>9. CASE Release(p)
    <3>1. lease[p] \in Gen \cup {NoGen}
      BY DEF TypeOK, LocalType
    <3> QED
      BY <2>9, <3>1 DEF Moves, Release
  <2>10. CASE Complete(p)
    BY <2>10 DEF Moves, Complete
  <2> QED
    BY <1>4, <2>1, <2>2, <2>3, <2>4, <2>5, <2>6, <2>7, <2>8, <2>9, <2>10 DEF Payload
<1>5. ASSUME Collect(p) PROVE Moves(p)
  <2>1. CASE CheckUnfinished(p)
    BY <2>1 DEF Moves, CheckUnfinished
  <2>2. CASE CheckUsers(p)
    BY <2>2 DEF Moves, CheckUsers
  <2>3. CASE RemoveEntry(p)
    BY <2>3 DEF Moves, RemoveEntry
  <2>4. CASE SweepOne(p)
    BY <2>4 DEF Moves, SweepOne
  <2>5. CASE Unlink(p)
    BY <2>5 DEF Moves, Unlink
  <2>6. CASE SweepDone(p)
    BY <2>6 DEF Moves, SweepDone
  <2> QED
    BY <1>5, <2>1, <2>2, <2>3, <2>4, <2>5, <2>6 DEF Collect
<1> QED
  BY <1>1, <1>2, <1>3, <1>4, <1>5 DEF Step

\* A step keeps the types of the locals.
LEMMA LocalTypeStep == ASSUME TypeOK, Next PROVE LocalType'
<1>1. ASSUME NEW p \in Proc,
             \/ StartBuild(p) \/ StartPrune(p) \/ Expire(p) \/ Cancel(p)
             \/ Step(p) \/ Crash(p) \/ Restart(p)
      PROVE  LocalType'
  BY <1>1, StepMoves, MovesTyped DEF TypeOK
<1>2. ASSUME NEW g \in Gen, OrphanExit(g) \/ OperatorConfirm(g) PROVE LocalType'
  BY <1>2 DEF OrphanExit, OperatorConfirm, TypeOK, LocalType
<1> QED
  BY <1>1, <1>2 DEF Next

(***************************************************************************)
(* The inductive invariant.  Most steps move one process without touching  *)
(* the lock tree, any lease or any observation: one lemma covers them all. *)
(***************************************************************************)

\* The steps at which a process has fixed a generation in gen[p].
FixedPc == ObservedPc \cup {"register", "confirm", "unlink"}

\* p moves to l, forgets or keeps the generation it handled, and neither the
\* lock tree, a lease nor the set of running processes changes.
Quiet(p, l) ==
    /\ p \in up
    /\ UNCHANGED <<current, retired, owner, observers, lease, up>>
    /\ pc' = [pc EXCEPT ![p] = l] /\ l \notin FixedPc
    /\ l \in PayloadPc \cup {"release"} => lease[p] # NoGen
    /\ \A q \in Proc \ {p} : gen'[q] = gen[q] /\ who'[q] = who[q]
    /\ gen'[p] \in {gen[p], NoGen}

\* A quiet step keeps the invariant.
LEMMA QuietStep ==
  ASSUME LockInv, TypeOK', NEW p \in Proc, NEW l \in Pc, Quiet(p, l)
  PROVE  LockInv'
<1> USE DEF LockInv, Quiet, FixedPc, ObservedPc, TypeOK, LocalType
<1>1. (LeaseIsCurrent /\ TombstonesHonest /\ OnePlace /\ LeaseOwned)'
  BY DEF LeaseIsCurrent, TombstonesHonest, OnePlace, LeaseOwned
<1>2. Drawn'
  BY DEF Drawn
<1>3. DownIsIdle' /\ LocalsSet'
  BY DEF DownIsIdle, LocalsSet
<1>4. FenceObserved'
  BY DEF FenceObserved
<1>5. OwnerRead'
  BY DEF OwnerRead
<1>6. FenceDead' /\ UnlinkUnused'
  BY DEF FenceDead, UnlinkUnused
<1> QED
  BY <1>1, <1>2, <1>3, <1>4, <1>5, <1>6

\* The steps of a task outside the lock tree are quiet.
LEMMA TaskStepsQuiet ==
  ASSUME LockInv, NEW p \in Proc,
         \/ StartBuild(p) \/ StartPrune(p) \/ Expire(p) \/ Cancel(p)
         \/ LoopTop(p) \/ Admit(p) \/ Wait(p) \/ Complete(p) \/ SweepDone(p)
  PROVE  \E l \in Pc : Quiet(p, l)
<1> USE DEF LockInv, Quiet, FixedPc, ObservedPc, TypeOK, LocalType
<1>1. CASE StartBuild(p)
  BY <1>1 DEF StartBuild
<1>2. CASE StartPrune(p)
  BY <1>2 DEF StartPrune
<1>3. CASE Expire(p)
  BY <1>3 DEF Expire
<1>4. CASE Cancel(p)
  BY <1>4 DEF Cancel
<1>5. CASE LoopTop(p)
  BY <1>5 DEF LoopTop
<1>6. CASE Admit(p)
  BY <1>6 DEF Admit
<1>7. CASE Wait(p)
  BY <1>7 DEF Wait
<1>8. CASE Complete(p)
  BY <1>8 DEF Complete
<1>9. CASE SweepDone(p)
  BY <1>9 DEF SweepDone
<1> QED
  BY <1>1, <1>2, <1>3, <1>4, <1>5, <1>6, <1>7, <1>8, <1>9

\* The payload of a build, and the collector's checks of an entry, are quiet.
LEMMA PayloadStepsQuiet ==
  ASSUME LockInv, NEW p \in Proc,
         Payload(p) \/ CheckUnfinished(p) \/ CheckUsers(p) \/ RemoveEntry(p)
  PROVE  \E l \in Pc : Quiet(p, l)
<1> USE DEF LockInv, LocalsSet, Quiet, FixedPc, ObservedPc, TypeOK, LocalType
<1>1. CASE Recheck(p)
  BY <1>1 DEF Recheck
<1>2. CASE BeginNative(p)
  BY <1>2 DEF BeginNative
<1>3. CASE WriteGuard(p)
  BY <1>3 DEF WriteGuard
<1>4. CASE Join(p)
  BY <1>4 DEF Join
<1>5. CASE LoseNative(p)
  BY <1>5 DEF LoseNative
<1>6. CASE Publish(p)
  BY <1>6 DEF Publish
<1>7. CASE Retain(p)
  BY <1>7 DEF Retain
<1>8. CASE WriteToken(p)
  BY <1>8 DEF WriteToken
<1>9. CASE CheckUnfinished(p) \/ CheckUsers(p) \/ RemoveEntry(p)
  BY <1>9 DEF CheckUnfinished, CheckUsers, RemoveEntry
<1> QED
  BY <1>1, <1>2, <1>3, <1>4, <1>5, <1>6, <1>7, <1>8, <1>9 DEF Payload

(***************************************************************************)
(* The steps that do write the lock tree, take or drop a lease, or fix a   *)
(* generation.                                                             *)
(***************************************************************************)

\* A new generation was never drawn, so no lease, tombstone, inspection or fence
\* is about it.
LEMMA AcquireStep ==
  ASSUME LockInv, TypeOK', NEW p \in Proc, Acquire(p)
  PROVE  LockInv'
<1> USE DEF LockInv, ObservedPc, TypeOK, LockType, LocalType
<1>1. CASE current # NoGen
  <2>1. \E l \in Pc : Quiet(p, l)
    BY <1>1 DEF Acquire, Quiet, FixedPc
  <2> QED
    BY <2>1, QuietStep
<1>2. CASE current = NoGen
  <2>1. PICK g \in Gen :
           /\ owner[g] = NoProc /\ current' = g
           /\ owner' = [owner EXCEPT ![g] = p]
           /\ lease' = [lease EXCEPT ![p] = g]
    BY <1>2 DEF Acquire
  <2>2. /\ UNCHANGED <<retired, observers, up, gen, who>>
        /\ \E l \in {"held", "unfinished"} : pc' = [pc EXCEPT ![p] = l]
        /\ p \in up
    BY <1>2 DEF Acquire
  <2>3. \A q \in Proc : lease[q] = NoGen
    BY <1>2 DEF LeaseIsCurrent
  <2>4. (\A q \in Proc : gen[q] # g) /\ retired[g] = NoGen
    BY <2>1, NoGenAssumption DEF Drawn
  <2>5. p # NoProc
    BY NoProcAssumption
  <2>6. LeaseIsCurrent' /\ TombstonesHonest' /\ LeaseOwned'
    BY <2>1, <2>2, <2>3 DEF LeaseIsCurrent, TombstonesHonest, LeaseOwned
  <2>7. Drawn' /\ OnePlace'
    BY <2>1, <2>2, <2>4, <2>5 DEF Drawn, OnePlace
  <2>8. DownIsIdle' /\ LocalsSet'
    BY <2>1, <2>2, NoGenAssumption DEF DownIsIdle, LocalsSet
  <2>9. FenceObserved'
    BY <1>2, <2>1, <2>2, <2>4 DEF FenceObserved, LocalsSet
  <2>10. OwnerRead'
    BY <1>2, <2>1, <2>2, <2>4 DEF OwnerRead
  <2>11. FenceDead' /\ UnlinkUnused'
    BY <2>1, <2>2, <2>4 DEF FenceDead, UnlinkUnused
  <2> QED
    BY <2>6, <2>7, <2>8, <2>9, <2>10, <2>11
<1> QED
  BY <1>1, <1>2

\* ReadGeneration fixes the generation at `current`, which was drawn.
LEMMA ReadGenerationStep ==
  ASSUME LockInv, TypeOK', NEW p \in Proc, ReadGeneration(p)
  PROVE  LockInv'
<1> USE DEF LockInv, ObservedPc, TypeOK, LockType, LocalType
<1>1. CASE Throw(p) \/ Released(p) \/ (Continue(p, "missing") /\ Keep)
  <2>1. \E l \in Pc : Quiet(p, l)
    BY <1>1 DEF ReadGeneration, Quiet, FixedPc
  <2> QED
    BY <2>1, QuietStep
<1>2. CASE /\ current # NoGen /\ gen' = [gen EXCEPT ![p] = current]
           /\ Continue(p, "register") /\ UNCHANGED who
  <2>1. UNCHANGED <<current, retired, owner, observers, lease, up>> /\ p \in up
    BY DEF ReadGeneration
  <2>2. (LeaseIsCurrent /\ TombstonesHonest /\ OnePlace /\ LeaseOwned)'
    BY <2>1 DEF LeaseIsCurrent, TombstonesHonest, OnePlace, LeaseOwned
  <2>3. Drawn'
    BY <1>2, <2>1 DEF Drawn
  <2>4. DownIsIdle' /\ LocalsSet'
    BY <1>2, <2>1 DEF DownIsIdle, LocalsSet
  <2>5. FenceObserved' /\ OwnerRead' /\ FenceDead' /\ UnlinkUnused'
    BY <1>2, <2>1 DEF FenceObserved, OwnerRead, FenceDead, UnlinkUnused
  <2> QED
    BY <2>2, <2>3, <2>4, <2>5
<1> QED
  BY <1>1, <1>2 DEF ReadGeneration

\* The second lookup of a missing generation reads only.
LEMMA ConfirmMissingStep ==
  ASSUME LockInv, TypeOK', NEW p \in Proc, ConfirmMissing(p)
  PROVE  LockInv'
<1> USE DEF LockInv, ObservedPc, TypeOK, LockType, LocalType
<1>1. \E l \in Pc : Quiet(p, l)
  <2>1. CASE Released(p)
    BY <2>1 DEF ConfirmMissing, Quiet, FixedPc
  <2>2. CASE Throw(p)
    BY <2>2 DEF ConfirmMissing, Quiet, FixedPc
  <2> QED
    BY <2>1, <2>2 DEF ConfirmMissing
<1> QED
  BY <1>1, QuietStep

\* The record of RegisterObserver goes to the generation at `current`; only if
\* that is still the one that was read does the inspection go on.
LEMMA RegisterObserverStep ==
  ASSUME LockInv, TypeOK', NEW p \in Proc, RegisterObserver(p)
  PROVE  LockInv'
<1> USE DEF LockInv, ObservedPc, TypeOK, LockType, LocalType
<1>1. CASE Released(p) /\ UNCHANGED observers
  <2>1. \E l \in Pc : Quiet(p, l)
    BY <1>1 DEF RegisterObserver, Quiet, FixedPc
  <2> QED
    BY <2>1, QuietStep
<1>2. CASE /\ current # NoGen
           /\ observers' = [observers EXCEPT ![current] = @ \cup {p}]
           /\ Continue(p, "confirm") /\ Keep
  <2>1. /\ UNCHANGED <<current, retired, owner, lease, up>> /\ p \in up
        /\ pc[p] = "register"
    BY DEF RegisterObserver
  <2>2. \A g \in Gen : observers[g] \subseteq observers'[g]
    BY <1>2
  <2>3. (LeaseIsCurrent /\ TombstonesHonest /\ OnePlace /\ LeaseOwned /\ Drawn)'
    BY <1>2, <2>1 DEF LeaseIsCurrent, TombstonesHonest, OnePlace, LeaseOwned, Drawn
  <2>4. DownIsIdle' /\ LocalsSet'
    BY <1>2, <2>1 DEF DownIsIdle, LocalsSet
  <2>5. FenceObserved'
    BY <1>2, <2>1, <2>2 DEF FenceObserved, LocalsSet
  <2>6. OwnerRead' /\ FenceDead' /\ UnlinkUnused'
    BY <1>2, <2>1 DEF OwnerRead, FenceDead, UnlinkUnused
  <2> QED
    BY <2>3, <2>4, <2>5, <2>6
<1> QED
  BY <1>1, <1>2 DEF RegisterObserver

\* A confirmed observation is about the held generation, which no sweep has
\* chosen for removal.
LEMMA ConfirmObserverStep ==
  ASSUME LockInv, TypeOK', NEW p \in Proc, ConfirmObserver(p)
  PROVE  LockInv'
<1> USE DEF LockInv, ObservedPc, TypeOK, LockType, LocalType
<1>1. CASE current # gen[p]
  <2>1. \E l \in Pc : Quiet(p, l)
    BY <1>1 DEF ConfirmObserver, Quiet, FixedPc
  <2> QED
    BY <2>1, QuietStep
<1>2. CASE current = gen[p]
  <2>1. /\ UNCHANGED <<current, retired, owner, observers, lease, up, gen, who>>
        /\ pc[p] = "confirm" /\ pc' = [pc EXCEPT ![p] = "owner"] /\ p \in up
    BY <1>2 DEF ConfirmObserver
  <2>2. (LeaseIsCurrent /\ TombstonesHonest /\ OnePlace /\ LeaseOwned /\ Drawn)'
    BY <2>1 DEF LeaseIsCurrent, TombstonesHonest, OnePlace, LeaseOwned, Drawn
  <2>3. DownIsIdle' /\ LocalsSet'
    BY <2>1 DEF DownIsIdle, LocalsSet
  <2>4. FenceObserved'
    BY <1>2, <2>1 DEF FenceObserved
  <2>5. OwnerRead' /\ FenceDead'
    BY <2>1 DEF OwnerRead, FenceDead
  <2>6. UnlinkUnused'
    BY <1>2, <2>1 DEF UnlinkUnused
  <2> QED
    BY <2>2, <2>3, <2>4, <2>5, <2>6
<1> QED
  BY <1>1, <1>2

\* The owner record is read through `current`; it counts only if the generation
\* is re-read unchanged.
LEMMA ReadOwnerStep ==
  ASSUME LockInv, TypeOK', NEW p \in Proc, ReadOwner(p)
  PROVE  LockInv'
<1> USE DEF LockInv, ObservedPc, TypeOK, LockType, LocalType
<1>1. /\ UNCHANGED <<current, retired, owner, observers, lease, up, gen>>
      /\ pc[p] = "owner" /\ pc' = [pc EXCEPT ![p] = "reread"] /\ p \in up
      /\ who' = [who EXCEPT ![p] = IF current = NoGen THEN NoProc
                                   ELSE owner[current]]
  BY DEF ReadOwner
<1>2. (LeaseIsCurrent /\ TombstonesHonest /\ OnePlace /\ LeaseOwned /\ Drawn)'
  BY <1>1 DEF LeaseIsCurrent, TombstonesHonest, OnePlace, LeaseOwned, Drawn
<1>3. DownIsIdle' /\ LocalsSet'
  BY <1>1 DEF DownIsIdle, LocalsSet
<1>4. FenceObserved' /\ FenceDead' /\ UnlinkUnused'
  BY <1>1 DEF FenceObserved, FenceDead, UnlinkUnused
<1>5. OwnerRead'
  BY <1>1 DEF OwnerRead, LocalsSet
<1> QED
  BY <1>2, <1>3, <1>4, <1>5

\* The generation is re-read.
LEMMA RereadStep ==
  ASSUME LockInv, TypeOK', NEW p \in Proc, RereadGeneration(p)
  PROVE  LockInv'
<1> USE DEF LockInv, ObservedPc, TypeOK, LockType, LocalType
<1>1. CASE current # gen[p]
  <2>1. \E l \in Pc : Quiet(p, l)
    BY <1>1 DEF RereadGeneration, Quiet, FixedPc
  <2> QED
    BY <2>1, QuietStep
<1>2. CASE current = gen[p]
  <2>1. /\ UNCHANGED <<current, retired, owner, observers, lease, up, gen, who>>
        /\ pc[p] = "reread" /\ pc' = [pc EXCEPT ![p] = "probe"] /\ p \in up
    BY <1>2 DEF RereadGeneration
  <2>2. (LeaseIsCurrent /\ TombstonesHonest /\ OnePlace /\ LeaseOwned /\ Drawn)'
    BY <2>1 DEF LeaseIsCurrent, TombstonesHonest, OnePlace, LeaseOwned, Drawn
  <2>3. DownIsIdle' /\ LocalsSet'
    BY <2>1 DEF DownIsIdle, LocalsSet
  <2>4. FenceObserved' /\ FenceDead' /\ UnlinkUnused'
    BY <2>1 DEF FenceObserved, FenceDead, UnlinkUnused
  <2>5. OwnerRead'
    BY <1>2, <2>1 DEF OwnerRead
  <2> QED
    BY <2>2, <2>3, <2>4, <2>5
<1> QED
  BY <1>1, <1>2

\* A generation is found abandoned only if the process its owner record names
\* is down, and a process that is down holds no lease.
LEMMA ProbeOwnerStep ==
  ASSUME LockInv, TypeOK', NEW p \in Proc, ProbeOwner(p)
  PROVE  LockInv'
<1> USE DEF LockInv, ObservedPc, TypeOK, LockType, LocalType
<1>1. /\ UNCHANGED <<current, retired, owner, observers, lease, up>>
      /\ pc[p] = "probe" /\ p \in up
  BY DEF ProbeOwner
<1>2. CASE Active(p) \/ (Abandoned(p) /\ task[p] = "survey")
  <2>1. \E l \in Pc : Quiet(p, l)
    BY <1>2 DEF ProbeOwner, Quiet, FixedPc
  <2> QED
    BY <2>1, QuietStep
<1>3. CASE who[p] # NoProc /\ Gone(p, who[p]) /\ Abandoned(p) /\ task[p] # "survey"
  <2>1. /\ \E l \in FencePc : pc' = [pc EXCEPT ![p] = l]
        /\ gen' = gen /\ who' = [who EXCEPT ![p] = NoProc]
    BY <1>3
  <2>2. who[p] = owner[gen[p]] /\ gen[p] # NoGen
    BY <1>1 DEF OwnerRead, LocalsSet
  <2>3. \A q \in Proc : lease[q] # gen[p]
    BY <1>3, <2>2 DEF Gone, LeaseOwned, DownIsIdle
  <2>4. (LeaseIsCurrent /\ TombstonesHonest /\ OnePlace /\ LeaseOwned /\ Drawn)'
    BY <1>1, <2>1 DEF LeaseIsCurrent, TombstonesHonest, OnePlace, LeaseOwned, Drawn
  <2>5. DownIsIdle' /\ LocalsSet'
    BY <1>1, <2>1, <2>2 DEF DownIsIdle, LocalsSet
  <2>6. FenceObserved' /\ UnlinkUnused'
    BY <1>1, <2>1 DEF FenceObserved, UnlinkUnused
  <2>7. OwnerRead'
    BY <1>1, <2>1 DEF OwnerRead
  <2>8. FenceDead'
    BY <1>1, <2>1, <2>3 DEF FenceDead
  <2> QED
    BY <2>4, <2>5, <2>6, <2>7, <2>8
<1> QED
  BY <1>2, <1>3 DEF ProbeOwner

\* The collector's second look moves from one fence step to the next.
LEMMA QualifyStep ==
  ASSUME LockInv, TypeOK', NEW p \in Proc, Qualify(p)
  PROVE  LockInv'
<1> USE DEF LockInv, ObservedPc, TypeOK, LockType, LocalType
<1>1. CASE Skip(p)
  <2>1. \E l \in Pc : Quiet(p, l)
    BY <1>1 DEF Qualify, Quiet, FixedPc
  <2> QED
    BY <2>1, QuietStep
<1>2. CASE Continue(p, "reclaim") /\ Keep
  <2>1. /\ UNCHANGED <<current, retired, owner, observers, lease, up, gen, who>>
        /\ pc[p] = "qualify" /\ pc' = [pc EXCEPT ![p] = "reclaim"] /\ p \in up
    BY <1>2 DEF Qualify
  <2>2. (LeaseIsCurrent /\ TombstonesHonest /\ OnePlace /\ LeaseOwned /\ Drawn)'
    BY <2>1 DEF LeaseIsCurrent, TombstonesHonest, OnePlace, LeaseOwned, Drawn
  <2>3. DownIsIdle' /\ LocalsSet' /\ OwnerRead'
    BY <2>1 DEF DownIsIdle, LocalsSet, OwnerRead
  <2>4. FenceObserved' /\ FenceDead' /\ UnlinkUnused'
    BY <2>1 DEF FenceObserved, FenceDead, UnlinkUnused
  <2> QED
    BY <2>2, <2>3, <2>4
<1> QED
  BY <1>1, <1>2 DEF Qualify

\* Moving the held generation g, which nobody leases any more, to its own free
\* tombstone keeps what the invariant says of every other process.
LEMMA RetireKeeps ==
  ASSUME LockInv, NEW g \in Gen, current = g, Retire(g),
         UNCHANGED <<owner, observers, up>>,
         \A q \in Proc : lease'[q] = NoGen
  PROVE  /\ (LeaseIsCurrent /\ TombstonesHonest /\ OnePlace /\ LeaseOwned)'
         /\ \A n \in Gen : retired'[n] # NoGen => owner'[n] # NoProc
         /\ \A h \in Gen : (current = h \/ retired[h] = h) =>
                              retired'[h] = h
<1> USE DEF LockInv, TypeOK, LockType, LocalType, Retire
<1>1. (LeaseIsCurrent /\ TombstonesHonest /\ OnePlace /\ LeaseOwned)'
  BY NoGenAssumption DEF LeaseIsCurrent, TombstonesHonest, OnePlace, LeaseOwned
<1>2. \A n \in Gen : retired'[n] # NoGen => owner'[n] # NoProc
  BY NoGenAssumption DEF Drawn
<1>3. \A h \in Gen : (current = h \/ retired[h] = h) => retired'[h] = h
  OBVIOUS
<1> QED
  BY <1>1, <1>2, <1>3

\* A fence that finds its tombstone name free has the abandoned generation
\* itself at `current`: it retires no other, and nobody holds it.
LEMMA ReclaimStep ==
  ASSUME LockInv, TypeOK', NEW p \in Proc, Reclaim(p)
  PROVE  LockInv'
<1> USE DEF LockInv, ObservedPc, TypeOK, LockType, LocalType
<1>1. CASE UNCHANGED <<current, retired>>
  <2>1. \E l \in Pc : Quiet(p, l)
    BY <1>1 DEF Reclaim, Quiet, FixedPc
  <2> QED
    BY <2>1, QuietStep
<1>2. CASE CanRetire(gen[p]) /\ Retire(gen[p])
  <2>1. /\ UNCHANGED <<owner, observers, lease, up>>
        /\ pc[p] = "reclaim" /\ p \in up
        /\ \E l \in {"top", "admit", "idle", "sweep"} : pc' = [pc EXCEPT ![p] = l]
        /\ gen' = [gen EXCEPT ![p] = NoGen] /\ who' = [who EXCEPT ![p] = NoProc]
    BY <1>2 DEF Reclaim
  <2>2. gen[p] \in Gen /\ current = gen[p]
    BY <1>2, <2>1 DEF CanRetire, FenceObserved, LocalsSet
  <2>3. \A q \in Proc : lease'[q] = NoGen
    BY <2>1, <2>2 DEF FenceDead, LeaseIsCurrent
  <2>4. /\ (LeaseIsCurrent /\ TombstonesHonest /\ OnePlace /\ LeaseOwned)'
        /\ \A n \in Gen : retired'[n] # NoGen => owner'[n] # NoProc
        /\ \A h \in Gen : (current = h \/ retired[h] = h) => retired'[h] = h
    BY <1>2, <2>1, <2>2, <2>3, RetireKeeps
  <2>5. Drawn'
    BY <1>2, <2>1, <2>4 DEF Drawn, Retire
  <2>6. DownIsIdle' /\ LocalsSet'
    BY <2>1 DEF DownIsIdle, LocalsSet
  <2>7. FenceObserved'
    BY <1>2, <2>1, <2>4 DEF FenceObserved, LocalsSet, Retire
  <2>8. OwnerRead'
    BY <1>2, <2>1 DEF OwnerRead, LocalsSet, Retire
  <2>9. FenceDead'
    BY <2>1 DEF FenceDead
  <2>10. UnlinkUnused'
    BY <1>2, <2>1 DEF UnlinkUnused, LocalsSet, Retire
  <2> QED
    BY <2>4, <2>5, <2>6, <2>7, <2>8, <2>9, <2>10
<1> QED
  BY <1>1, <1>2 DEF Reclaim

\* A holder releases exactly its own generation: its lease is the held one, and
\* the held one has no tombstone yet.
LEMMA ReleaseStep ==
  ASSUME LockInv, TypeOK', NEW p \in Proc, Release(p)
  PROVE  LockInv'
<1> USE DEF LockInv, ObservedPc, TypeOK, LockType, LocalType
<1>1. CASE UNCHANGED <<current, retired, lease, gen>>
  <2>1. \E l \in Pc : Quiet(p, l)
    BY <1>1 DEF Release, Quiet, FixedPc
  <2> QED
    BY <2>1, QuietStep
<1>2. CASE /\ IF CanRetire(lease[p]) THEN Retire(lease[p])
                                     ELSE UNCHANGED <<current, retired>>
           /\ gen' = [gen EXCEPT ![p] = lease[p]]
           /\ lease' = [lease EXCEPT ![p] = NoGen]
  <2>1. /\ UNCHANGED <<owner, observers, up, who>>
        /\ pc[p] = "release" /\ p \in up
        /\ pc' = [pc EXCEPT ![p] = "complete"]
    BY DEF Release
  <2>2. lease[p] \in Gen /\ current = lease[p] /\ retired[lease[p]] = NoGen
    BY <2>1 DEF LocalsSet, LeaseIsCurrent, OnePlace
  <2>3. Retire(lease[p])
    BY <1>2, <2>2, NoGenAssumption DEF CanRetire
  <2>4. \A q \in Proc : lease'[q] = NoGen
    BY <1>2, <2>2 DEF LeaseIsCurrent, LeaseOwned
  <2>5. /\ (LeaseIsCurrent /\ TombstonesHonest /\ OnePlace /\ LeaseOwned)'
        /\ \A n \in Gen : retired'[n] # NoGen => owner'[n] # NoProc
        /\ \A h \in Gen : (current = h \/ retired[h] = h) => retired'[h] = h
    BY <2>1, <2>2, <2>3, <2>4, RetireKeeps
  <2>6. owner[lease[p]] # NoProc
    BY <2>2, NoGenAssumption, NoProcAssumption DEF LeaseOwned
  <2>7. Drawn'
    BY <1>2, <2>1, <2>3, <2>5, <2>6 DEF Drawn, Retire
  <2>8. DownIsIdle' /\ LocalsSet'
    BY <1>2, <2>1 DEF DownIsIdle, LocalsSet
  <2>9. FenceObserved'
    BY <1>2, <2>1, <2>3, <2>5 DEF FenceObserved, LocalsSet, Retire
  <2>10. OwnerRead'
    BY <1>2, <2>1, <2>3 DEF OwnerRead, LocalsSet, Retire
  <2>11. FenceDead'
    BY <1>2, <2>1, <2>4 DEF FenceDead, LocalsSet
  <2>12. UnlinkUnused'
    BY <1>2, <2>1, <2>3 DEF UnlinkUnused, LocalsSet, Retire
  <2> QED
    BY <2>5, <2>7, <2>8, <2>9, <2>10, <2>11, <2>12
<1> QED
  BY <1>1, <1>2 DEF Release

\* A tombstone whose observers are all down is no running process's fence: a
\* process that fences it has recorded itself there.
LEMMA SweepOneStep ==
  ASSUME LockInv, TypeOK', NEW p \in Proc, SweepOne(p)
  PROVE  LockInv'
<1> USE DEF LockInv, ObservedPc, TypeOK, LockType, LocalType
<1>1. PICK n \in Gen :
         /\ retired[n] # NoGen /\ \A q \in observers[n] : q \notin up
         /\ gen' = [gen EXCEPT ![p] = n]
  BY DEF SweepOne, Gone
<1>2. /\ UNCHANGED <<current, retired, owner, observers, lease, up, who>>
      /\ pc[p] = "sweep" /\ pc' = [pc EXCEPT ![p] = "unlink"] /\ p \in up
  BY DEF SweepOne
<1>3. \A q \in Proc : pc[q] \in ObservedPc => gen[q] # n
  BY <1>1 DEF FenceObserved, DownIsIdle
<1>4. (LeaseIsCurrent /\ TombstonesHonest /\ OnePlace /\ LeaseOwned)'
  BY <1>2 DEF LeaseIsCurrent, TombstonesHonest, OnePlace, LeaseOwned
<1>5. Drawn'
  BY <1>1, <1>2 DEF Drawn
<1>6. DownIsIdle' /\ LocalsSet'
  BY <1>1, <1>2, NoGenAssumption DEF DownIsIdle, LocalsSet
<1>7. FenceObserved' /\ OwnerRead' /\ FenceDead'
  BY <1>1, <1>2 DEF FenceObserved, OwnerRead, FenceDead
<1>8. UnlinkUnused'
  BY <1>1, <1>2, <1>3, NoGenAssumption DEF UnlinkUnused, OnePlace
<1> QED
  BY <1>4, <1>5, <1>6, <1>7, <1>8

\* Removing a tombstone nobody fences frees a name nobody will rename onto.
LEMMA UnlinkStep ==
  ASSUME LockInv, TypeOK', NEW p \in Proc, Unlink(p)
  PROVE  LockInv'
<1> USE DEF LockInv, ObservedPc, TypeOK, LockType, LocalType
<1>1. /\ UNCHANGED <<current, owner, observers, lease, up, who>>
      /\ gen' = [gen EXCEPT ![p] = NoGen]
      /\ retired' \in {retired, [retired EXCEPT ![gen[p]] = NoGen]}
      /\ pc[p] = "unlink" /\ pc' = [pc EXCEPT ![p] = "sweep"] /\ p \in up
  BY DEF Unlink
<1>2. gen[p] \in Gen
  BY <1>1 DEF LocalsSet
<1>3. (LeaseIsCurrent /\ TombstonesHonest /\ OnePlace /\ LeaseOwned /\ Drawn)'
  BY <1>1, <1>2 DEF LeaseIsCurrent, TombstonesHonest, OnePlace, LeaseOwned, Drawn
<1>4. DownIsIdle' /\ LocalsSet'
  BY <1>1 DEF DownIsIdle, LocalsSet
<1>5. FenceObserved'
  <2> SUFFICES ASSUME NEW q \in Proc
               PROVE  /\ (pc[q] = "confirm" /\ current = gen[q])' =>
                              (q \in observers[gen[q]])'
                      /\ (pc[q] \in ObservedPc)' =>
                           /\ (q \in observers[gen[q]])'
                           /\ (current = gen[q] \/ retired[gen[q]] = gen[q])'
    BY DEF FenceObserved
  <2>1. CASE q = p
    BY <1>1, <2>1
  <2>2. CASE q # p
    <3>1. pc'[q] = pc[q] /\ gen'[q] = gen[q]
      BY <1>1, <2>2
    <3>2. pc[q] \in ObservedPc => retired'[gen[q]] = retired[gen[q]]
      BY <1>1, <1>2 DEF UnlinkUnused, LocalsSet
    <3> QED
      BY <1>1, <3>1, <3>2 DEF FenceObserved
  <2> QED
    BY <2>1, <2>2
<1>6. OwnerRead' /\ FenceDead' /\ UnlinkUnused'
  BY <1>1 DEF OwnerRead, FenceDead, UnlinkUnused
<1> QED
  BY <1>3, <1>4, <1>5, <1>6

\* A process that dies drops its lease and its fence; its files stay.
LEMMA CrashStep ==
  ASSUME LockInv, TypeOK', NEW p \in Proc, Crash(p)
  PROVE  LockInv'
<1> USE DEF LockInv, ObservedPc, TypeOK, LockType, LocalType
<1>1. /\ UNCHANGED <<current, retired, owner, observers>>
      /\ up' = up \ {p} /\ lease' = [lease EXCEPT ![p] = NoGen]
      /\ gen' = [gen EXCEPT ![p] = NoGen] /\ who' = [who EXCEPT ![p] = NoProc]
      /\ pc' = [pc EXCEPT ![p] = "idle"]
  BY DEF Crash
<1>2. (LeaseIsCurrent /\ TombstonesHonest /\ OnePlace /\ LeaseOwned /\ Drawn)'
  BY <1>1 DEF LeaseIsCurrent, TombstonesHonest, OnePlace, LeaseOwned, Drawn
<1>3. DownIsIdle' /\ LocalsSet'
  BY <1>1 DEF DownIsIdle, LocalsSet
<1>4. FenceObserved' /\ OwnerRead'
  BY <1>1 DEF FenceObserved, OwnerRead
<1>5. FenceDead' /\ UnlinkUnused'
  BY <1>1 DEF FenceDead, UnlinkUnused, LocalsSet
<1> QED
  BY <1>2, <1>3, <1>4, <1>5

\* Nothing in the invariant depends on a process that is down and idle being
\* up, nor on guards and native children.
LEMMA OutsideStep ==
  ASSUME LockInv, TypeOK',
         UNCHANGED <<current, retired, owner, observers, lease, pc, gen, who>>,
         up \subseteq up'
  PROVE  LockInv'
<1> USE DEF LockInv
<1>1. (LeaseIsCurrent /\ TombstonesHonest /\ OnePlace /\ LeaseOwned /\ Drawn)'
  BY DEF LeaseIsCurrent, TombstonesHonest, OnePlace, LeaseOwned, Drawn
<1>2. DownIsIdle' /\ LocalsSet'
  BY DEF DownIsIdle, LocalsSet, ObservedPc
<1>3. FenceObserved' /\ OwnerRead' /\ FenceDead' /\ UnlinkUnused'
  BY DEF FenceObserved, OwnerRead, FenceDead, UnlinkUnused, ObservedPc
<1> QED
  BY <1>1, <1>2, <1>3

(***************************************************************************)
(* The invariant holds initially, and every step keeps it.                 *)
(***************************************************************************)

\* Nothing is held, retired, leased or handled in the initial state.
LEMMA LockInvInit == Init => LockInv
<1> SUFFICES ASSUME Init PROVE LockInv
  OBVIOUS
<1>1. TypeOK
  BY InitType
<1>2. LeaseIsCurrent /\ TombstonesHonest /\ OnePlace /\ LeaseOwned /\ Drawn
  BY DEF Init, LeaseIsCurrent, TombstonesHonest, OnePlace, LeaseOwned, Drawn
<1>3. DownIsIdle /\ LocalsSet
  BY DEF Init, DownIsIdle, LocalsSet, ObservedPc
<1>4. FenceObserved /\ OwnerRead /\ FenceDead /\ UnlinkUnused
  BY DEF Init, FenceObserved, OwnerRead, FenceDead, UnlinkUnused, ObservedPc
<1> QED
  BY <1>1, <1>2, <1>3, <1>4 DEF LockInv

\* LockInv is inductive.
LEMMA LockInvStep == LockInv /\ [Next]_vars => LockInv'
<1> SUFFICES ASSUME LockInv, [Next]_vars PROVE LockInv'
  OBVIOUS
<1>1. CASE Next
  <2>1. TypeOK'
    BY <1>1, LockTypeStep, EntryTypeStep, ProcTypeStep, LocalTypeStep
       DEF LockInv, TypeOK
  <2>2. ASSUME NEW p \in Proc, \E l \in Pc : Quiet(p, l) PROVE LockInv'
    BY <2>1, <2>2, QuietStep
  <2>3. ASSUME NEW p \in Proc, Inspect(p) \/ Qualify(p) PROVE LockInv'
    BY <2>1, <2>3, ReadGenerationStep, ConfirmMissingStep, RegisterObserverStep,
       ConfirmObserverStep, ReadOwnerStep, RereadStep, ProbeOwnerStep,
       QualifyStep DEF Inspect
  <2>4. ASSUME NEW p \in Proc, Payload(p) PROVE LockInv'
    BY <2>2, <2>4, PayloadStepsQuiet
  <2>5. ASSUME NEW p \in Proc, Collect(p) PROVE LockInv'
    BY <2>1, <2>2, <2>5, PayloadStepsQuiet, TaskStepsQuiet, SweepOneStep,
       UnlinkStep DEF Collect
  <2>6. ASSUME NEW p \in Proc, Step(p) PROVE LockInv'
    BY <2>1, <2>2, <2>3, <2>4, <2>5, <2>6, TaskStepsQuiet, AcquireStep,
       ReclaimStep, ReleaseStep DEF Step
  <2>7. ASSUME NEW p \in Proc,
               StartBuild(p) \/ StartPrune(p) \/ Expire(p) \/ Cancel(p)
        PROVE  LockInv'
    BY <2>2, <2>7, TaskStepsQuiet
  <2>8. ASSUME NEW p \in Proc, Restart(p) PROVE LockInv'
    BY <2>1, <2>8, OutsideStep DEF Restart
  <2>9. ASSUME NEW g \in Gen, OrphanExit(g) \/ OperatorConfirm(g)
        PROVE  LockInv'
    BY <2>1, <2>9, OutsideStep DEF OrphanExit, OperatorConfirm
  <2> QED
    BY <1>1, <2>1, <2>6, <2>7, <2>8, <2>9, CrashStep DEF Next
<1>2. CASE UNCHANGED vars
  <2>1. TypeOK'
    BY <1>2 DEF vars, LockInv, TypeOK, LockType, EntryType, ProcType, LocalType
  <2> QED
    BY <1>2, <2>1, OutsideStep DEF vars
<1> QED
  BY <1>1, <1>2

\* The inductive invariant holds in every reachable state of the lock protocol.
THEOREM LockInvariant == Spec => []LockInv
  BY LockInvInit, LockInvStep, PTL DEF Spec

\* Every variable keeps its type, for any processes, generations and bounds.
THEOREM TypeCorrect == Spec => []TypeOK
<1>1. LockInv => TypeOK
  BY DEF LockInv
<1> QED
  BY <1>1, LockInvariant, PTL

\* Mutual exclusion of acquirePluginBuildLock: an unreleased lease is always
\* the generation at `current`.
THEOREM LeaseExclusion == Spec => []LeaseIsCurrent
<1>1. LockInv => LeaseIsCurrent
  BY DEF LockInv
<1> QED
  BY <1>1, LockInvariant, PTL

\* No reclaim and no release ever retires a generation under another's name.
THEOREM HonestTombstones == Spec => []TombstonesHonest
<1>1. LockInv => TombstonesHonest
  BY DEF LockInv
<1> QED
  BY <1>1, LockInvariant, PTL

\* The name a reclaimer renames onto is never freed by the collector while the
\* reclaimer runs.
THEOREM ReservedFences == Spec => []FencesReserved
<1>1. LockInv => FencesReserved
  BY DEF LockInv, FenceObserved, FencesReserved, ObservedPc
<1> QED
  BY <1>1, LockInvariant, PTL

(***************************************************************************)
(* Native children and completion markers.  Most steps leave the lock tree *)
(* alone, start no child and write no marker: one lemma covers them all.   *)
(***************************************************************************)

\* The steps at which gen[p] may hold a generation.
HandlingPc == ObservedPc \cup {"register", "confirm", "unlink", "complete"}

\* p moves to l; leases and native children at most go away, a guard goes away
\* only when its child does, and gen[p] is set only for a step that uses it.
NativeQuiet(p, l) ==
    /\ UNCHANGED <<current, owner, complete>>
    /\ native' \subseteq native
    /\ \A g \in native' : guard'[g] = "none" => guard[g] = "none"
    /\ lease' \in {lease, [lease EXCEPT ![p] = NoGen]}
    /\ pc' = [pc EXCEPT ![p] = l]
    /\ l \in ChildlessPc(p) => lease'[p] \notin native'
    /\ \A q \in Proc \ {p} : gen'[q] = gen[q]
    /\ gen'[p] # NoGen => l \in HandlingPc \ {"complete"}

\* A quiet step keeps what NativeInv says.
LEMMA NativeQuietStep ==
  ASSUME LockInv, NativeInv, TypeOK', NEW p \in Proc, NEW l \in Pc, NativeQuiet(p, l)
  PROVE  NativeInv'
<1> USE DEF NativeInv, NativeQuiet, HandlingPc, TypeOK, LocalType
<1> HIDE DEF InspectPc, FencePc, PayloadPc, Pc
<1>0. native \subseteq Gen /\ complete \subseteq Gen /\ native' \subseteq Gen
  BY DEF LockInv, LockType, EntryType
<1>1. Childless'
  <2> SUFFICES ASSUME NEW q \in Proc, pc'[q] \in ChildlessPc(q)
               PROVE  lease'[q] \notin native'
    BY DEF Childless, ChildlessPc
  <2>1. CASE q = p
    BY <2>1 DEF LockInv
  <2>2. CASE q # p
    BY <2>2 DEF LockInv, Childless
  <2> QED
    BY <2>1, <2>2
<1>2. NativeDrawn' /\ NativeGuarded' /\ NativeKeepsKey'
  BY DEF NativeDrawn, NativeGuarded, NativeKeepsKey
<1>3. Handled'
  BY DEF LockInv, Handled
<1>4. Finishing'
  BY DEF LockInv, Finishing
<1>5. CompletionCertified'
  BY <1>0, NoGenAssumption DEF LockInv, CompletionCertified
<1> QED
  BY <1>1, <1>2, <1>3, <1>4, <1>5

\* The steps of a task outside the payload are quiet, except for the drawing of
\* a generation, its retirement and its completion marker.
LEMMA TaskStepsChildless ==
  ASSUME LockInv, NativeInv, NEW p \in Proc,
         \/ StartBuild(p) \/ StartPrune(p) \/ Expire(p) \/ Cancel(p)
         \/ LoopTop(p) \/ Admit(p) \/ Wait(p) \/ SweepDone(p)
         \/ SweepOne(p) \/ Unlink(p) \/ (Acquire(p) /\ current # NoGen)
  PROVE  \E l \in Pc : NativeQuiet(p, l)
<1> USE DEF LockInv, NativeInv, Handled, ObservedPc, NativeQuiet, HandlingPc,
            ChildlessPc, TypeOK, LocalType
<1>1. CASE StartBuild(p) \/ StartPrune(p)
  BY <1>1 DEF StartBuild, StartPrune
<1>2. CASE Expire(p) \/ Cancel(p)
  BY <1>2 DEF Expire, Cancel
<1>3. CASE LoopTop(p)
  BY <1>3 DEF LoopTop
<1>4. CASE Admit(p)
  BY <1>4 DEF Admit
<1>5. CASE Wait(p)
  BY <1>5 DEF Wait
<1>6. CASE Acquire(p) /\ current # NoGen
  BY <1>6 DEF Acquire
<1>7. CASE SweepOne(p) \/ Unlink(p) \/ SweepDone(p)
  BY <1>7 DEF SweepOne, Unlink, SweepDone
<1> QED
  BY <1>1, <1>2, <1>3, <1>4, <1>5, <1>6, <1>7

\* So are an inspection and the collector's second look, which only read.
LEMMA InspectionsChildless ==
  ASSUME LockInv, NativeInv, NEW p \in Proc, Inspect(p) \/ Qualify(p)
  PROVE  \E l \in Pc : NativeQuiet(p, l)
<1> USE DEF LockInv, NativeInv, Handled, ObservedPc, NativeQuiet, HandlingPc,
            ChildlessPc, TypeOK, LocalType
<1>1. CASE ReadGeneration(p)
  BY <1>1 DEF ReadGeneration
<1>2. CASE ConfirmMissing(p)
  BY <1>2 DEF ConfirmMissing
<1>3. CASE RegisterObserver(p)
  BY <1>3 DEF RegisterObserver
<1>4. CASE ConfirmObserver(p)
  BY <1>4 DEF ConfirmObserver
<1>5. CASE ReadOwner(p)
  BY <1>5 DEF ReadOwner
<1>6. CASE RereadGeneration(p)
  BY <1>6 DEF RereadGeneration
<1>7. CASE ProbeOwner(p)
  BY <1>7 DEF ProbeOwner
<1>8. CASE Qualify(p)
  BY <1>8 DEF Qualify
<1> QED
  BY <1>1, <1>2, <1>3, <1>4, <1>5, <1>6, <1>7, <1>8 DEF Inspect

\* So are the steps of a payload that start no child: a guard that is rolled
\* back never had one, and one that is removed goes with its child.
LEMMA PayloadStepsChildless ==
  ASSUME LockInv, NativeInv, NEW p \in Proc,
         \/ Recheck(p) \/ (BeginNative(p) /\ p \in Scoped)
         \/ (WriteGuard(p) /\ UNCHANGED native)
         \/ Join(p) \/ LoseNative(p) \/ Publish(p) \/ Retain(p) \/ WriteToken(p)
         \/ CheckUnfinished(p) \/ CheckUsers(p) \/ RemoveEntry(p)
  PROVE  \E l \in Pc : NativeQuiet(p, l)
<1> USE DEF LockInv, NativeInv, Handled, Childless, LocalsSet, ObservedPc, NativeQuiet,
            HandlingPc, ChildlessPc, Works, TypeOK, LocalType, EntryType
<1>1. CASE Recheck(p)
  BY <1>1 DEF Recheck
<1>2. CASE BeginNative(p) /\ p \in Scoped
  BY <1>2 DEF BeginNative
<1>3. CASE WriteGuard(p) /\ UNCHANGED native
  BY <1>3 DEF WriteGuard
<1>4. CASE Join(p)
  BY <1>4 DEF Join
<1>5. CASE LoseNative(p)
  BY <1>5 DEF LoseNative
<1>6. CASE Publish(p)
  BY <1>6 DEF Publish
<1>7. CASE Retain(p)
  BY <1>7 DEF Retain
<1>8. CASE WriteToken(p)
  BY <1>8 DEF WriteToken
<1>9. CASE CheckUnfinished(p) \/ CheckUsers(p) \/ RemoveEntry(p)
  BY <1>9 DEF CheckUnfinished, CheckUsers, RemoveEntry
<1> QED
  BY <1>1, <1>2, <1>3, <1>4, <1>5, <1>6, <1>7, <1>8, <1>9

\* A new generation has no child and no marker: both were about drawn ones.
LEMMA DrawChildless ==
  ASSUME LockInv, NativeInv, TypeOK', NEW p \in Proc, Acquire(p), current = NoGen
  PROVE  NativeInv'
<1> USE DEF LockInv, NativeInv, ObservedPc, TypeOK, LockType, LocalType, EntryType
<1>1. PICK g \in Gen :
         /\ owner[g] = NoProc /\ current' = g
         /\ owner' = [owner EXCEPT ![g] = p]
         /\ lease' = [lease EXCEPT ![p] = g]
  BY DEF Acquire
<1>2. /\ UNCHANGED <<native, complete, guard, gen>>
      /\ \E l \in {"held", "unfinished"} : pc' = [pc EXCEPT ![p] = l]
      /\ pc[p] = "acquire"
  BY DEF Acquire
<1>3. g \notin native \cup complete /\ \A q \in Proc : gen[q] # g
  BY <1>1, NoGenAssumption DEF NativeDrawn, Drawn
<1>4. p # NoProc
  BY NoProcAssumption
<1>5. native = {} \/ \A h \in native : owner[h] \notin Scoped
  BY NoGenAssumption DEF NativeKeepsKey
<1>6. Childless'
  BY <1>1, <1>2, <1>3 DEF Childless, ChildlessPc
<1>7. (NativeDrawn /\ NativeGuarded /\ NativeKeepsKey)'
  BY <1>1, <1>2, <1>3, <1>4, <1>5
     DEF NativeDrawn, NativeGuarded, NativeKeepsKey
<1>8. Handled' /\ Finishing'
  BY <1>1, <1>2, <1>3 DEF Handled, Finishing
<1>9. CompletionCertified'
  BY <1>1, <1>2, <1>3 DEF CompletionCertified
<1> QED
  BY <1>6, <1>7, <1>8, <1>9

\* A child is started under a lease, which is the held generation: one that no
\* marker certifies, that nobody is finishing, and, for a scoped build, under a
\* guard that is written first.
LEMMA StartChild ==
  ASSUME LockInv, NativeInv, TypeOK', NEW p \in Proc,
         (BeginNative(p) /\ p \notin Scoped) \/ (WriteGuard(p) /\ native' # native)
  PROVE  NativeInv'
<1> USE DEF LockInv, NativeInv, ObservedPc, TypeOK, LockType, LocalType, EntryType
<1>1. /\ UNCHANGED <<current, owner, complete, lease, gen>>
      /\ native' = native \cup {lease[p]}
      /\ pc[p] \in {"begin", "open"} /\ pc' = [pc EXCEPT ![p] = "native"]
      /\ p \in Scoped => guard' = [guard EXCEPT ![lease[p]] = "pending"]
      /\ p \notin Scoped => guard' \in {guard, [guard EXCEPT ![lease[p]] = "pending"]}
  BY DEF BeginNative, WriteGuard, Works
<1>2. /\ lease[p] \in Gen /\ owner[lease[p]] = p /\ current = lease[p] /\ p # NoProc
      /\ \A q \in Proc \ {p} : lease[q] # lease[p]
  BY <1>1, NoProcAssumption DEF LocalsSet, LeaseOwned, LeaseIsCurrent
<1>3. Childless'
  BY <1>1, <1>2 DEF Childless, ChildlessPc
<1>4. (NativeDrawn /\ NativeGuarded /\ NativeKeepsKey)'
  BY <1>1, <1>2 DEF NativeDrawn, NativeGuarded, NativeKeepsKey
<1>5. Handled'
  BY <1>1 DEF Handled
<1>6. Finishing'
  <2> SUFFICES ASSUME NEW q \in Proc, pc'[q] = "complete", gen[q] # NoGen
               PROVE  owner[gen[q]] = q /\ gen[q] \notin native'
    BY <1>1 DEF Finishing
  <2>1. q # p /\ pc[q] = "complete"
    BY <1>1
  <2> QED
    BY <1>1, <1>2, <2>1 DEF Finishing
<1>7. CompletionCertified'
  BY <1>1, <1>2 DEF CompletionCertified
<1> QED
  BY <1>3, <1>4, <1>5, <1>6, <1>7

\* A generation that is retired has no guard, hence no child of a scoped build.
LEMMA ReclaimChildless ==
  ASSUME LockInv, NativeInv, TypeOK', NEW p \in Proc, Reclaim(p)
  PROVE  NativeInv'
<1> USE DEF LockInv, NativeInv, ObservedPc, TypeOK, LockType, LocalType, EntryType
<1>1. CASE UNCHANGED <<current, retired>>
  <2>1. \E l \in Pc : NativeQuiet(p, l)
    BY <1>1 DEF Reclaim, NativeQuiet, HandlingPc, ChildlessPc
  <2> QED
    BY <2>1, NativeQuietStep
<1>2. CASE Releasable(gen[p]) /\ CanRetire(gen[p]) /\ Retire(gen[p])
  <2>1. /\ UNCHANGED <<owner, lease, native, complete, guard>>
        /\ pc[p] = "reclaim"
        /\ \E l \in {"top", "admit", "idle", "sweep"} : pc' = [pc EXCEPT ![p] = l]
        /\ gen' = [gen EXCEPT ![p] = NoGen]
    BY <1>2 DEF Reclaim
  <2>2. gen[p] \in Gen /\ current = gen[p] /\ current' = NoGen
    BY <1>2, <2>1 DEF CanRetire, Retire, FenceObserved, LocalsSet
  <2>3. \A g \in native : owner[g] \notin Scoped
    BY <1>2, <2>2 DEF Releasable, NativeGuarded, NativeKeepsKey
  <2>4. Childless'
    BY <2>1 DEF Childless, ChildlessPc
  <2>5. (NativeDrawn /\ NativeGuarded /\ NativeKeepsKey)'
    BY <2>1, <2>3 DEF NativeDrawn, NativeGuarded, NativeKeepsKey
  <2>6. Handled' /\ Finishing'
    BY <2>1 DEF Handled, Finishing
  <2>7. CompletionCertified'
    BY <2>1, <2>2, NoGenAssumption DEF CompletionCertified
  <2> QED
    BY <2>4, <2>5, <2>6, <2>7
<1> QED
  BY <1>1, <1>2 DEF Reclaim

\* A release retires a generation whose child has ended.
LEMMA ReleaseChildless ==
  ASSUME LockInv, NativeInv, TypeOK', NEW p \in Proc, Release(p)
  PROVE  NativeInv'
<1> USE DEF LockInv, NativeInv, ObservedPc, TypeOK, LockType, LocalType, EntryType
<1>1. /\ UNCHANGED <<owner, native, complete, guard>>
      /\ pc[p] = "release" /\ pc' = [pc EXCEPT ![p] = "complete"]
  BY DEF Release
<1>2. gen[p] = NoGen
  BY <1>1 DEF Handled
<1>3. CASE UNCHANGED <<current, retired, lease, gen>>
  <2>1. Childless' /\ Handled' /\ Finishing'
    BY <1>1, <1>2, <1>3 DEF Childless, ChildlessPc, Handled, Finishing
  <2>2. (NativeDrawn /\ NativeGuarded /\ NativeKeepsKey /\ CompletionCertified)'
    BY <1>1, <1>3 DEF NativeDrawn, NativeGuarded, NativeKeepsKey, CompletionCertified
  <2> QED
    BY <2>1, <2>2
<1>4. CASE /\ Releasable(lease[p])
           /\ IF CanRetire(lease[p]) THEN Retire(lease[p])
                                     ELSE UNCHANGED <<current, retired>>
           /\ gen' = [gen EXCEPT ![p] = lease[p]]
           /\ lease' = [lease EXCEPT ![p] = NoGen]
  <2>1. lease[p] \in Gen /\ current = lease[p] /\ owner[lease[p]] = p
    BY <1>1 DEF LocalsSet, LeaseIsCurrent, LeaseOwned
  <2>2. lease[p] \notin native
    BY <1>1, <1>4, <2>1 DEF Releasable, NativeGuarded, Childless, ChildlessPc
  <2>3. current' = NoGen
    BY <1>4, <2>1, NoGenAssumption DEF Retire, CanRetire, OnePlace
  <2>4. Childless'
    BY <1>1, <1>4 DEF Childless, ChildlessPc
  <2>5. (NativeDrawn /\ NativeGuarded /\ NativeKeepsKey)'
    BY <1>1, <2>1, <2>2 DEF NativeDrawn, NativeGuarded, NativeKeepsKey
  <2>6. Handled' /\ Finishing'
    BY <1>1, <1>4, <2>1, <2>2 DEF Handled, Finishing
  <2>7. CompletionCertified'
    BY <1>1, <1>4, <2>3, NoGenAssumption DEF CompletionCertified
  <2> QED
    BY <2>4, <2>5, <2>6, <2>7
<1> QED
  BY <1>3, <1>4 DEF Release

\* The marker goes to a tombstone, whose generation is neither held nor leased,
\* and which the process that writes it has just released without a child.
LEMMA CompleteChildless ==
  ASSUME LockInv, NativeInv, TypeOK', NEW p \in Proc, Complete(p)
  PROVE  NativeInv'
<1> USE DEF LockInv, NativeInv, ObservedPc, TypeOK, LockType, LocalType, EntryType
<1>1. /\ UNCHANGED <<current, retired, owner, native, guard, lease>>
      /\ pc[p] = "complete" /\ gen' = [gen EXCEPT ![p] = NoGen]
      /\ \E l \in {"idle", "sweep"} : pc' = [pc EXCEPT ![p] = l]
  BY DEF Complete
<1>2. Childless' /\ Handled' /\ Finishing'
  BY <1>1 DEF Childless, ChildlessPc, Handled, Finishing
<1>3. NativeGuarded' /\ NativeKeepsKey'
  BY <1>1 DEF NativeGuarded, NativeKeepsKey
<1>4. CASE UNCHANGED complete
  BY <1>1, <1>2, <1>3, <1>4 DEF NativeDrawn, CompletionCertified
<1>5. CASE OwnTombstone(p, gen[p]) /\ complete' = complete \cup {gen[p]}
  <2>1. /\ gen[p] \in Gen /\ owner[gen[p]] = p /\ retired[gen[p]] # NoGen
        /\ gen[p] \notin native
    BY <1>1, <1>5, NoGenAssumption DEF OwnTombstone, Finishing
  <2>2. current # gen[p] /\ \A q \in Proc : lease[q] # gen[p]
    BY <2>1, NoGenAssumption DEF OnePlace, LeaseIsCurrent
  <2>3. NativeDrawn'
    BY <1>1, <1>5, <2>1, NoProcAssumption DEF NativeDrawn
  <2>4. CompletionCertified'
    BY <1>1, <1>5, <2>1, <2>2 DEF CompletionCertified
  <2> QED
    BY <1>2, <1>3, <2>3, <2>4
<1> QED
  BY <1>4, <1>5 DEF Complete

\* Children also end on their own or with the process that started them, and an
\* operator removes a guard only when its child has ended.
LEMMA OutsideChildless ==
  ASSUME LockInv, NativeInv, TypeOK',
         \/ \E p \in Proc : Crash(p) \/ Restart(p)
         \/ \E g \in Gen : OrphanExit(g) \/ OperatorConfirm(g)
  PROVE  NativeInv'
<1> USE DEF LockInv, NativeInv, ObservedPc, TypeOK, LockType, LocalType, EntryType
<1>1. ASSUME NEW p \in Proc, Crash(p) PROVE NativeInv'
  <2>1. NativeQuiet(p, "idle")
    BY <1>1 DEF Crash, NativeQuiet, ChildlessPc
  <2> QED
    BY <2>1, NativeQuietStep
<1>2. ASSUME /\ UNCHANGED <<current, owner, complete, lease, pc, gen>>
             /\ native' \subseteq native
             /\ \A g \in native' : guard'[g] = guard[g]
      PROVE  NativeInv'
  <2>1. (Childless /\ NativeDrawn /\ NativeGuarded /\ Handled)'
    BY <1>2 DEF Childless, ChildlessPc, NativeDrawn, NativeGuarded, Handled
  <2>2. (Finishing /\ NativeKeepsKey /\ CompletionCertified)'
    BY <1>2 DEF Finishing, NativeKeepsKey, CompletionCertified
  <2> QED
    BY <2>1, <2>2
<1>3. ASSUME NEW p \in Proc, Restart(p) PROVE NativeInv'
  BY <1>2, <1>3 DEF Restart
<1>4. ASSUME NEW g \in Gen, OrphanExit(g) \/ OperatorConfirm(g) PROVE NativeInv'
  BY <1>2, <1>4 DEF OrphanExit, OperatorConfirm
<1> QED
  BY <1>1, <1>3, <1>4

\* NativeInv is inductive relative to LockInv.
LEMMA NativeInvStep ==
  ASSUME LockInv, NativeInv, TypeOK', Next PROVE NativeInv'
<1>1. ASSUME NEW p \in Proc, \E l \in Pc : NativeQuiet(p, l) PROVE NativeInv'
  BY <1>1, NativeQuietStep
<1>2. ASSUME NEW p \in Proc,
             StartBuild(p) \/ StartPrune(p) \/ Expire(p) \/ Cancel(p)
      PROVE  NativeInv'
  BY <1>1, <1>2, TaskStepsChildless
<1>3. ASSUME NEW p \in Proc, Payload(p) \/ Collect(p) PROVE NativeInv'
  BY <1>1, <1>3, TaskStepsChildless, PayloadStepsChildless, StartChild
     DEF Payload, Collect
<1>4. ASSUME NEW p \in Proc, Inspect(p) \/ Qualify(p) PROVE NativeInv'
  BY <1>1, <1>4, InspectionsChildless
<1>5. ASSUME NEW p \in Proc, Step(p) PROVE NativeInv'
  BY <1>1, <1>3, <1>4, <1>5, TaskStepsChildless, DrawChildless, ReclaimChildless,
     ReleaseChildless, CompleteChildless DEF Step
<1> QED
  BY <1>2, <1>5, OutsideChildless DEF Next

(***************************************************************************)
(* Readers.  Only four steps of a payload write a token, a reservation or  *)
(* the binary, each under the lease; all others are quiet.                 *)
(***************************************************************************)

\* p moves to l; tokens of processes without a reservation may be removed, and
\* only a process with a reservation is handed the binary or succeeds.
ReaderQuiet(p, l) ==
    /\ UNCHANGED <<binary, reserved>>
    /\ up \subseteq up'
    /\ using' \subseteq reserved
    /\ \A q \in Proc : token'[q] \in {token[q], "none"}
    /\ \A q \in reserved : token'[q] = token[q]
    /\ pc' = [pc EXCEPT ![p] = l]
    /\ l \notin {"token", "remove"}
    /\ l = "retain" => binary
    /\ \A q \in Proc : ok'[q] => q \in reserved

\* A quiet step keeps what ReaderInv says.
LEMMA ReaderQuietStep ==
  ASSUME TypeOK, ReaderInv, NEW p \in Proc, NEW l \in Pc, ReaderQuiet(p, l)
  PROVE  ReaderInv'
<1> USE DEF ReaderInv, ReaderQuiet, TypeOK, ProcType, LocalType
<1>1. ReadersRegistered'
  BY DEF ReadersRegistered
<1>2. ReadersBacked'
  BY DEF ReadersBacked
<1>3. RetainOutcome'
  BY DEF RetainOutcome
<1>4. RemovalUnread'
  BY DEF RemovalUnread
<1> QED
  BY <1>1, <1>2, <1>3, <1>4

\* The steps outside the payload are quiet.
LEMMA TaskStepsReadless ==
  ASSUME TypeOK, ReaderInv, NEW p \in Proc,
         \/ StartBuild(p) \/ StartPrune(p) \/ Expire(p) \/ Cancel(p)
         \/ LoopTop(p) \/ Admit(p) \/ Acquire(p) \/ Wait(p)
         \/ Reclaim(p) \/ Release(p) \/ Complete(p)
         \/ SweepOne(p) \/ Unlink(p) \/ SweepDone(p)
  PROVE  \E l \in Pc : ReaderQuiet(p, l)
<1> USE DEF ReaderInv, ReadersRegistered, ReadersBacked, RetainOutcome, ReaderQuiet,
            TypeOK, ProcType, EntryType, LocalType
<1>1. CASE StartBuild(p) \/ StartPrune(p)
  BY <1>1 DEF StartBuild, StartPrune
<1>2. CASE Expire(p) \/ Cancel(p)
  BY <1>2 DEF Expire, Cancel
<1>3. CASE LoopTop(p)
  BY <1>3 DEF LoopTop, Holds
<1>4. CASE Admit(p)
  BY <1>4 DEF Admit
<1>5. CASE Acquire(p)
  BY <1>5 DEF Acquire
<1>6. CASE Wait(p)
  BY <1>6 DEF Wait
<1>7. CASE Reclaim(p)
  BY <1>7 DEF Reclaim
<1>8. CASE Release(p)
  BY <1>8 DEF Release
<1>9. CASE Complete(p)
  BY <1>9 DEF Complete
<1>10. CASE SweepOne(p) \/ Unlink(p) \/ SweepDone(p)
  BY <1>10 DEF SweepOne, Unlink, SweepDone
<1> QED
  BY <1>1, <1>2, <1>3, <1>4, <1>5, <1>6, <1>7, <1>8, <1>9, <1>10

\* So are an inspection and the collector's second look.
LEMMA InspectionsReadless ==
  ASSUME TypeOK, ReaderInv, NEW p \in Proc, Inspect(p) \/ Qualify(p)
  PROVE  \E l \in Pc : ReaderQuiet(p, l)
<1> USE DEF ReaderInv, ReadersRegistered, ReadersBacked, RetainOutcome, ReaderQuiet,
            Inspects, TypeOK, ProcType, EntryType, LocalType
<1>1. CASE ReadGeneration(p)
  BY <1>1 DEF ReadGeneration
<1>2. CASE ConfirmMissing(p)
  BY <1>2 DEF ConfirmMissing
<1>3. CASE RegisterObserver(p)
  BY <1>3 DEF RegisterObserver
<1>4. CASE ConfirmObserver(p)
  BY <1>4 DEF ConfirmObserver
<1>5. CASE ReadOwner(p)
  BY <1>5 DEF ReadOwner
<1>6. CASE RereadGeneration(p)
  BY <1>6 DEF RereadGeneration
<1>7. CASE ProbeOwner(p)
  BY <1>7 DEF ProbeOwner
<1>8. CASE Qualify(p)
  BY <1>8 DEF Qualify
<1> QED
  BY <1>1, <1>2, <1>3, <1>4, <1>5, <1>6, <1>7, <1>8 DEF Inspect

\* So are the steps of a payload before its binary is published, and the checks
\* of the collector that find the entry in use.
LEMMA PayloadStepsReadless ==
  ASSUME TypeOK, ReaderInv, NEW p \in Proc,
         \/ Recheck(p) \/ BeginNative(p) \/ WriteGuard(p) \/ Join(p) \/ LoseNative(p)
         \/ CheckUnfinished(p) \/ (CheckUsers(p) /\ pc'[p] # "remove")
  PROVE  \E l \in Pc : ReaderQuiet(p, l)
<1> USE DEF ReaderInv, ReadersRegistered, ReadersBacked, RetainOutcome, ReaderQuiet,
            Works, TypeOK, ProcType, EntryType, LocalType
<1>1. CASE Recheck(p)
  BY <1>1 DEF Recheck
<1>2. CASE BeginNative(p) \/ WriteGuard(p)
  BY <1>2 DEF BeginNative, WriteGuard
<1>3. CASE Join(p) \/ LoseNative(p)
  BY <1>3 DEF Join, LoseNative
<1>4. CASE CheckUnfinished(p)
  BY <1>4 DEF CheckUnfinished
<1>5. CASE CheckUsers(p) /\ pc'[p] # "remove"
  <2>1. \A q \in Proc : /\ Swept(p)[q] \in {token[q], "none"}
                        /\ q \in reserved => Swept(p)[q] = token[q]
    BY DEF Swept, Gone
  <2> QED
    BY <1>5, <2>1 DEF CheckUsers
<1> QED
  BY <1>1, <1>2, <1>3, <1>4, <1>5

\* Two processes are never both in their payloads: each has a lease, both leases
\* are the held generation, and its owner record names one process.
LEMMA OnePayload ==
  ASSUME LockInv, NEW p \in Proc, NEW q \in Proc,
         pc[p] \in PayloadPc \cup {"release"}, pc[q] \in PayloadPc \cup {"release"}
  PROVE  p = q
  BY DEF LockInv, LocalsSet, LeaseIsCurrent, LeaseOwned

\* The sweep of dead readers removes no token of a running reader.
LEMMA SweptKeepsReaders ==
  ASSUME TypeOK, ReaderInv, NEW p \in Proc, NEW q \in Proc
  PROVE  /\ Swept(p)[q] \in {token[q], "none"}
         /\ q \in up => Swept(p)[q] = token[q]
         /\ q \in reserved => Swept(p)[q] = token[q]
  BY DEF Swept, Gone, ReaderInv, ReadersRegistered

\* The reader is registered under the lease, while the binary is there.
LEMMA RegisterReader ==
  ASSUME LockInv, ReaderInv, TypeOK', NEW p \in Proc, Retain(p) \/ WriteToken(p)
  PROVE  ReaderInv'
<1> USE DEF LockInv, TypeOK, ProcType, EntryType, LocalType
<1>1. /\ UNCHANGED <<binary, up, using>> /\ p \in up
      /\ pc[p] \in {"retain", "token"}
      /\ pc' \in {[pc EXCEPT ![p] = "release"], [pc EXCEPT ![p] = "token"]}
      /\ pc[p] = "token" => pc' = [pc EXCEPT ![p] = "release"]
  BY DEF Retain, WriteToken, Works
<1>2. binary
  BY <1>1 DEF ReaderInv, ReadersBacked
<1>3. \A q \in Proc : pc[q] \in {"retain", "token", "remove"} => q = p
  BY <1>1, OnePayload
<1>4. /\ reserved' \in {reserved, reserved \cup {p}}
      /\ p \in reserved' => token'[p] = "owned"
      /\ pc'[p] = "token" => p \notin reserved'
      /\ ok' = [ok EXCEPT ![p] = ok'[p]] /\ (ok'[p] => p \in reserved')
      /\ \A q \in reserved \ {p} : token'[q] = token[q]
  <2>1. CASE Retain(p)
    BY <2>1, SweptKeepsReaders
       DEF Retain, Works, Holds, ReaderInv, ReadersRegistered, RetainOutcome
  <2>2. CASE WriteToken(p)
    BY <2>2 DEF WriteToken, Works, ReaderInv, RetainOutcome
  <2> QED
    BY <2>1, <2>2
<1>5. ReadersRegistered'
  BY <1>1, <1>4 DEF ReaderInv, ReadersRegistered
<1>6. ReadersBacked'
  BY <1>1, <1>2 DEF ReadersBacked
<1>7. RetainOutcome'
  BY <1>1, <1>3, <1>4 DEF ReaderInv, RetainOutcome
<1>8. RemovalUnread'
  BY <1>1, <1>3 DEF RemovalUnread
<1> QED
  BY <1>5, <1>6, <1>7, <1>8 DEF ReaderInv

\* The binary appears under the lease, and goes only when the collector has
\* found no token: then nobody has a reservation.
LEMMA ReplaceBinary ==
  ASSUME LockInv, ReaderInv, TypeOK', NEW p \in Proc,
         Publish(p) \/ (CheckUsers(p) /\ pc'[p] = "remove") \/ RemoveEntry(p)
  PROVE  ReaderInv'
<1> USE DEF LockInv, TypeOK, ProcType, EntryType, LocalType
<1>1. /\ UNCHANGED <<reserved, up, using>>
      /\ pc[p] \in {"publish", "users", "remove"}
      /\ \E l \in {"retain", "release", "remove"} : pc' = [pc EXCEPT ![p] = l]
      /\ ok' \in {ok, [ok EXCEPT ![p] = FALSE]}
  BY DEF Publish, CheckUsers, RemoveEntry, Works
<1>2. \A q \in Proc : pc[q] \in {"retain", "token", "remove"} => q = p
  BY <1>1, OnePayload
<1>3. /\ \A q \in reserved : token'[q] = token[q]
      /\ pc'[p] = "remove" => \A q \in Proc : token'[q] = "none"
      /\ pc'[p] = "retain" => binary'
      /\ binary' \/ binary' = binary \/ \A q \in Proc : token[q] = "none"
  BY SweptKeepsReaders DEF Publish, CheckUsers, RemoveEntry, Works, ReaderInv, RemovalUnread
<1>4. ReadersRegistered'
  BY <1>1, <1>3 DEF ReaderInv, ReadersRegistered
<1>5. reserved # {} => binary'
  BY <1>3 DEF ReaderInv, ReadersRegistered, ReadersBacked
<1>6. ReadersBacked'
  BY <1>1, <1>2, <1>3, <1>5 DEF ReadersBacked
<1>7. RetainOutcome'
  BY <1>1, <1>2 DEF ReaderInv, RetainOutcome
<1>8. RemovalUnread'
  BY <1>1, <1>2, <1>3 DEF RemovalUnread
<1> QED
  BY <1>4, <1>6, <1>7, <1>8 DEF ReaderInv

\* A process that dies takes its reservation with it and leaves its token.
LEMMA CrashReader ==
  ASSUME TypeOK, ReaderInv, NEW p \in Proc, Crash(p)
  PROVE  ReaderInv'
<1> USE DEF TypeOK, ProcType, EntryType, LocalType, ReaderInv
<1>1. /\ UNCHANGED <<binary, token>>
      /\ up' = up \ {p} /\ reserved' = reserved \ {p} /\ using' = using \ {p}
      /\ pc' = [pc EXCEPT ![p] = "idle"] /\ ok' = [ok EXCEPT ![p] = FALSE]
  BY DEF Crash
<1>2. ReadersRegistered' /\ ReadersBacked'
  BY <1>1 DEF ReadersRegistered, ReadersBacked
<1>3. RetainOutcome' /\ RemovalUnread'
  BY <1>1 DEF RetainOutcome, RemovalUnread
<1> QED
  BY <1>2, <1>3

\* ReaderInv is inductive relative to LockInv.
LEMMA ReaderInvStep ==
  ASSUME LockInv, ReaderInv, TypeOK', Next PROVE ReaderInv'
<1>0. TypeOK
  BY DEF LockInv
<1>1. ASSUME NEW p \in Proc, \E l \in Pc : ReaderQuiet(p, l) PROVE ReaderInv'
  BY <1>0, <1>1, ReaderQuietStep
<1>2. ASSUME NEW p \in Proc,
             StartBuild(p) \/ StartPrune(p) \/ Expire(p) \/ Cancel(p)
      PROVE  ReaderInv'
  BY <1>0, <1>1, <1>2, TaskStepsReadless
<1>3. ASSUME NEW p \in Proc, Payload(p) \/ Collect(p) PROVE ReaderInv'
  BY <1>0, <1>1, <1>3, TaskStepsReadless, PayloadStepsReadless, RegisterReader,
     ReplaceBinary DEF Payload, Collect
<1>4. ASSUME NEW p \in Proc, Inspect(p) \/ Qualify(p) PROVE ReaderInv'
  BY <1>0, <1>1, <1>4, InspectionsReadless
<1>5. ASSUME NEW p \in Proc, Step(p) PROVE ReaderInv'
  BY <1>0, <1>1, <1>3, <1>4, <1>5, TaskStepsReadless DEF Step
<1>6. ASSUME UNCHANGED <<binary, token, reserved, using, pc, ok>>, up \subseteq up'
      PROVE  ReaderInv'
  BY <1>6 DEF ReaderInv, ReadersRegistered, ReadersBacked, RetainOutcome,
     RemovalUnread
<1>7. ASSUME NEW p \in Proc, Restart(p) PROVE ReaderInv'
  BY <1>6, <1>7 DEF Restart
<1>8. ASSUME NEW g \in Gen, OrphanExit(g) \/ OperatorConfirm(g) PROVE ReaderInv'
  BY <1>6, <1>8 DEF OrphanExit, OperatorConfirm
<1> QED
  BY <1>0, <1>2, <1>5, <1>7, <1>8, CrashReader DEF Next

\* Neither children nor readers exist in the initial state.
LEMMA KeyInvInit == Init => KeyInv
<1> SUFFICES ASSUME Init PROVE KeyInv
  OBVIOUS
<1>1. LockInv
  BY LockInvInit
<1>2. Childless /\ NativeDrawn /\ NativeGuarded /\ NativeKeepsKey
  BY DEF Init, Childless, ChildlessPc, NativeDrawn, NativeGuarded, NativeKeepsKey
<1>3. Handled /\ Finishing /\ CompletionCertified
  BY DEF Init, Handled, Finishing, CompletionCertified
<1>4. ReadersRegistered /\ ReadersBacked /\ RetainOutcome /\ RemovalUnread
  BY DEF Init, ReadersRegistered, ReadersBacked, RetainOutcome, RemovalUnread
<1> QED
  BY <1>1, <1>2, <1>3, <1>4 DEF KeyInv, NativeInv, ReaderInv

\* KeyInv is inductive.
LEMMA KeyInvStep == KeyInv /\ [Next]_vars => KeyInv'
<1> SUFFICES ASSUME KeyInv, [Next]_vars PROVE KeyInv'
  OBVIOUS
<1>1. LockInv'
  BY LockInvStep DEF KeyInv
<1>2. CASE Next
  BY <1>1, <1>2, NativeInvStep, ReaderInvStep DEF KeyInv, LockInv
<1>3. CASE UNCHANGED vars
  <2>1. (Childless /\ NativeDrawn /\ NativeGuarded /\ NativeKeepsKey)'
    BY <1>3 DEF vars, KeyInv, NativeInv, Childless, ChildlessPc, NativeDrawn,
       NativeGuarded, NativeKeepsKey
  <2>2. (Handled /\ Finishing /\ CompletionCertified)'
    BY <1>3 DEF vars, KeyInv, NativeInv, Handled, Finishing, CompletionCertified,
       ObservedPc
  <2>3. ReaderInv'
    BY <1>3 DEF vars, KeyInv, ReaderInv, ReadersRegistered, ReadersBacked,
       RetainOutcome, RemovalUnread
  <2> QED
    BY <1>1, <2>1, <2>2, <2>3 DEF KeyInv, NativeInv
<1> QED
  BY <1>2, <1>3

\* The lock tree, the native children and the readers of one key keep their
\* invariants together, with faults, kills and reused process ids.
THEOREM KeyInvariant == Spec => []KeyInv
  BY KeyInvInit, KeyInvStep, PTL DEF Spec

\* While the native child of a scoped build runs, its generation keeps the key,
\* however its Node process fares.
THEOREM NativeHoldsKey == Spec => []NativeKeepsKey
<1>1. KeyInv => NativeKeepsKey
  BY DEF KeyInv, NativeInv
<1> QED
  BY <1>1, KeyInvariant, PTL

\* A completion marker is only ever about a retired generation whose native
\* child has ended.
THEOREM CompletionHonest == Spec => []CompletionCertified
<1>1. KeyInv => CompletionCertified
  BY DEF KeyInv, NativeInv
<1> QED
  BY <1>1, KeyInvariant, PTL

\* Eviction never removes the binary of a process that was handed its path.
THEOREM ReadersSafe == Spec => []ReadersKeepBinary
<1>1. KeyInv => ReadersKeepBinary
  BY DEF KeyInv, ReaderInv, ReadersRegistered, ReadersBacked, ReadersKeepBinary
<1> QED
  BY <1>1, KeyInvariant, PTL

(***************************************************************************)
(* The files implement the abstract key.                                   *)
(***************************************************************************)

\* Holder, of given contents of `current` and of the leases.
HolderOf(c, l) ==
    IF c = NoGen THEN NoGen
    ELSE IF \E p \in Proc : l[p] = c THEN CHOOSE p \in Proc : l[p] = c ELSE NoProc

\* Holder is that, before and after a step.
LEMMA HolderIs ==
  Holder = HolderOf(current, lease) /\ Holder' = HolderOf(current', lease')
<1>1. Holder = HolderOf(current, lease)
  BY Zenon DEF Holder, HolderOf
<1>2. Holder' = HolderOf(current', lease')
  BY Zenon DEF Holder, HolderOf
<1> QED
  BY <1>1, <1>2

\* If one process leases the held generation, it is the holder.
LEMMA LeaseHolds ==
  ASSUME NEW c, NEW l, NEW p \in Proc, c # NoGen, l[p] = c,
         \A q \in Proc : l[q] = c => q = p
  PROVE  HolderOf(c, l) = p
  BY DEF HolderOf

\* If none does, the key is free or its holder is dead.
LEMMA NoLeaseHolds ==
  ASSUME NEW c, NEW l, \A q \in Proc : l[q] # c
  PROVE  HolderOf(c, l) = IF c = NoGen THEN NoGen ELSE NoProc
  BY DEF HolderOf

\* A process that has a lease is the holder; otherwise it is not.
LEMMA HolderLeases ==
  ASSUME LockInv, NEW p \in Proc
  PROVE  /\ lease[p] # NoGen => Holder = p
         /\ lease[p] = NoGen => Holder # p
<1> USE DEF LockInv, TypeOK, LockType, LocalType
<1>1. Holder = HolderOf(current, lease)
  BY HolderIs
<1>2. \A q \in Proc : lease[q] # NoGen => current = lease[q] /\ owner[current] = q
  BY DEF LeaseIsCurrent, LeaseOwned
<1>3. \A q \in Proc : lease[q] # NoGen => Holder = q
  BY <1>1, <1>2, LeaseHolds
<1>4. ASSUME lease[p] = NoGen PROVE Holder # p
  <2>1. CASE \E q \in Proc : lease[q] # NoGen
    BY <1>3, <1>4, <2>1
  <2>2. CASE \A q \in Proc : lease[q] = NoGen
    <3>1. Holder \in {NoGen, NoProc}
      BY <1>1, <2>2 DEF HolderOf
    <3> QED
      BY <3>1, SentinelAssumption, NoProcAssumption
  <2> QED
    BY <2>1, <2>2
<1> QED
  BY <1>3, <1>4

\* The registered readers are the processes with a reservation.
LEMMA ReadersReserve ==
  ASSUME KeyInv, KeyInv'
  PROVE  /\ {p \in Proc : Holds(p)} = reserved
         /\ {p \in Proc : Holds(p)}' = reserved'
<1>1. reserved \subseteq Proc /\ \A p \in reserved : token[p] = "owned"
  BY DEF KeyInv, LockInv, TypeOK, ProcType, ReaderInv, ReadersRegistered
<1>2. reserved' \subseteq Proc /\ \A p \in reserved' : token'[p] = "owned"
  BY DEF KeyInv, LockInv, TypeOK, ProcType, ReaderInv, ReadersRegistered
<1>3. {p \in Proc : Holds(p)} = reserved
  BY <1>1 DEF Holds
<1>4. {p \in Proc : Holds(p)}' = reserved'
  BY <1>2 DEF Holds
<1> QED
  BY <1>3, <1>4

\* A step that takes or drops no lease keeps the holder.
LEMMA HolderKept ==
  ASSUME UNCHANGED <<current, lease>> PROVE UNCHANGED Holder
  BY DEF Holder

\* Drawing a generation takes the key.
LEMMA AcquireTakes ==
  ASSUME KeyInv, KeyInv', NEW p \in Proc, Acquire(p), current = NoGen
  PROVE  Key!Take(p)
<1>1. PICK g \in Gen : current' = g /\ lease' = [lease EXCEPT ![p] = g]
  BY DEF Acquire
<1>2. UNCHANGED <<binary, reserved>>
  BY DEF Acquire
<1>3. \A q \in Proc : lease[q] = NoGen
  BY DEF KeyInv, LockInv, LeaseIsCurrent
<1>4. lease \in [Proc -> Gen \cup {NoGen}]
  BY DEF KeyInv, LockInv, TypeOK, LocalType
<1>5. lease'[p] = g /\ \A q \in Proc : lease'[q] = g => q = p
  BY <1>1, <1>3, <1>4, NoGenAssumption
<1>6. current' = g /\ g # NoGen
  BY <1>1, NoGenAssumption
<1>7. HolderOf(current', lease') = p
  BY <1>5, <1>6, LeaseHolds
<1>8. Holder' = p
  BY <1>7, HolderIs
<1>9. Holder = NoGen
  BY DEF Holder
<1> QED
  BY <1>2, <1>8, <1>9, ReadersReserve DEF Key!Take

\* A release drops the key of the process that held it, or changes nothing.
LEMMA ReleaseDrops ==
  ASSUME KeyInv, KeyInv', NEW p \in Proc, Release(p)
  PROVE  Key!Drop(p) \/ UNCHANGED Key!keyVars
<1> USE DEF KeyInv, LockInv, TypeOK, LockType, LocalType
<1>1. UNCHANGED <<binary, reserved>> /\ pc[p] = "release"
  BY DEF Release
<1>2. CASE UNCHANGED <<current, lease>>
  BY <1>1, <1>2, HolderKept, ReadersReserve DEF Key!keyVars
<1>3. CASE IF CanRetire(lease[p]) THEN Retire(lease[p])
                                  ELSE UNCHANGED <<current, retired>>
  <2>1. lease[p] # NoGen /\ lease[p] \in Gen /\ current = lease[p]
    BY <1>1 DEF LocalsSet, LeaseIsCurrent
  <2>2. Holder = p
    BY <2>1, HolderLeases
  <2>3. current' = NoGen
    BY <1>3, <2>1 DEF CanRetire, Retire, OnePlace
  <2>4. Holder' = NoGen
    BY <2>3 DEF Holder
  <2> QED
    BY <1>1, <2>2, <2>4, ReadersReserve DEF Key!Drop
<1> QED
  BY <1>2, <1>3 DEF Release

\* A fence breaks a key whose holder is dead, or changes nothing.
LEMMA ReclaimBreaks ==
  ASSUME KeyInv, KeyInv', NEW p \in Proc, Reclaim(p)
  PROVE  Key!Break \/ UNCHANGED Key!keyVars
<1> USE DEF KeyInv, LockInv, TypeOK, LockType, LocalType
<1>1. UNCHANGED <<binary, reserved, lease>> /\ pc[p] = "reclaim"
  BY DEF Reclaim
<1>2. CASE UNCHANGED current
  BY <1>1, <1>2, HolderKept, ReadersReserve DEF Key!keyVars
<1>3. CASE CanRetire(gen[p]) /\ Retire(gen[p])
  <2>1. current = gen[p] /\ current # NoGen /\ current' = NoGen
    BY <1>1, <1>3 DEF CanRetire, Retire, FenceObserved, LocalsSet, ObservedPc
  <2>2. \A q \in Proc : lease[q] # current
    BY <1>1, <2>1 DEF FenceDead
  <2>3. Holder = NoProc /\ Holder' = NoGen
    BY <2>1, <2>2 DEF Holder
  <2> QED
    BY <1>1, <2>3, ReadersReserve DEF Key!Break
<1> QED
  BY <1>2, <1>3 DEF Reclaim

\* A payload step publishes, registers a reader or evicts, each as the holder,
\* or changes nothing.
LEMMA PayloadAllowed ==
  ASSUME KeyInv, KeyInv', NEW p \in Proc,
         Payload(p) \/ CheckUnfinished(p) \/ CheckUsers(p) \/ RemoveEntry(p)
  PROVE  \/ Key!Publish(p) \/ Key!Register(p) \/ Key!Evict(p)
         \/ UNCHANGED Key!keyVars
<1>1. /\ UNCHANGED <<current, lease>>
      /\ pc[p] \in PayloadPc
  BY DEF Payload, Recheck, BeginNative, WriteGuard, Join, LoseNative, Publish,
     Retain, WriteToken, CheckUnfinished, CheckUsers, RemoveEntry, Works
<1>2. Holder = p /\ UNCHANGED Holder
  BY <1>1, HolderLeases, HolderKept DEF KeyInv, LockInv, LocalsSet
<1>3. CASE UNCHANGED <<binary, reserved>>
  BY <1>2, <1>3, ReadersReserve DEF Key!keyVars
<1>4. CASE Publish(p)
  BY <1>2, <1>3, <1>4, ReadersReserve DEF Publish, Key!Publish
<1>5. CASE Retain(p) \/ WriteToken(p)
  <2>1. binary /\ binary' /\ reserved' \in {reserved, reserved \cup {p}}
    BY <1>5 DEF Retain, WriteToken, Works, KeyInv, ReaderInv, ReadersBacked
  <2>2. UNCHANGED binary
    BY <1>5 DEF Retain, WriteToken
  <2> QED
    BY <1>2, <1>3, <2>1, <2>2, ReadersReserve DEF Key!Register
<1>6. CASE RemoveEntry(p)
  <2>1. reserved = {} /\ UNCHANGED reserved
    BY <1>6 DEF RemoveEntry, Works, KeyInv, LockInv, TypeOK, ProcType, ReaderInv,
       ReadersRegistered, RemovalUnread
  <2> QED
    BY <1>2, <1>3, <1>6, <2>1, ReadersReserve DEF RemoveEntry, Key!Evict
<1>7. CASE \/ Recheck(p) \/ BeginNative(p) \/ WriteGuard(p) \/ Join(p)
           \/ LoseNative(p) \/ CheckUnfinished(p) \/ CheckUsers(p)
  BY <1>3, <1>7 DEF Recheck, BeginNative, WriteGuard, Join, LoseNative,
     CheckUnfinished, CheckUsers
<1> QED
  BY <1>4, <1>5, <1>6, <1>7 DEF Payload

\* A crash leaves the key of a holder dead, and ends a reader.
LEMMA CrashExits ==
  ASSUME KeyInv, KeyInv', NEW p \in Proc, Crash(p)
  PROVE  Key!Exit(p)
<1> USE DEF KeyInv, LockInv, TypeOK, LockType, LocalType
<1>1. /\ UNCHANGED <<binary, current>> /\ reserved' = reserved \ {p}
      /\ lease' = [lease EXCEPT ![p] = NoGen]
  BY DEF Crash
<1>2. CASE lease[p] = NoGen
  <2>1. UNCHANGED lease
    BY <1>1, <1>2
  <2> QED
    BY <1>1, <1>2, <2>1, HolderKept, HolderLeases, ReadersReserve DEF Key!Exit
<1>3. CASE lease[p] # NoGen
  <2>1. current = lease[p] /\ \A q \in Proc : lease'[q] # current
    BY <1>1, <1>3 DEF LeaseIsCurrent, LeaseOwned
  <2>2. Holder' = NoProc
    BY <1>1, <1>3, <2>1 DEF Holder
  <2>3. Holder = p
    BY <1>3, HolderLeases
  <2> QED
    BY <1>1, <2>2, <2>3, ReadersReserve DEF Key!Exit
<1> QED
  BY <1>2, <1>3

\* All other steps are invisible to the abstract key.
LEMMA OthersStutter ==
  ASSUME KeyInv, KeyInv',
         \/ UNCHANGED vars
         \/ \E g \in Gen : OrphanExit(g) \/ OperatorConfirm(g)
         \/ \E p \in Proc :
              \/ StartBuild(p) \/ StartPrune(p) \/ Expire(p) \/ Cancel(p)
              \/ Restart(p) \/ LoopTop(p) \/ Admit(p) \/ Wait(p) \/ Inspect(p)
              \/ Qualify(p) \/ Complete(p) \/ SweepOne(p) \/ Unlink(p) \/ SweepDone(p)
              \/ Acquire(p) /\ current # NoGen
  PROVE  UNCHANGED Key!keyVars
<1> DEFINE Same == UNCHANGED <<current, lease, binary, reserved>>
<1>1. ASSUME Same PROVE UNCHANGED Key!keyVars
  BY <1>1, HolderKept, ReadersReserve DEF Key!keyVars
<1>2. ASSUME UNCHANGED vars PROVE Same
  BY <1>2 DEF vars
<1>3. ASSUME NEW g \in Gen, OrphanExit(g) \/ OperatorConfirm(g) PROVE Same
  BY <1>3 DEF OrphanExit, OperatorConfirm
<1>4. ASSUME NEW p \in Proc,
             \/ StartBuild(p) \/ StartPrune(p) \/ Expire(p) \/ Cancel(p)
             \/ Restart(p) \/ LoopTop(p) \/ Admit(p) \/ Wait(p)
      PROVE  Same
  BY <1>4 DEF StartBuild, StartPrune, Expire, Cancel, Restart, LoopTop, Admit, Wait
<1>5. ASSUME NEW p \in Proc, Inspect(p) \/ Qualify(p) PROVE Same
  BY <1>5 DEF Inspect, Inspects, ReadGeneration, ConfirmMissing, RegisterObserver,
     ConfirmObserver, ReadOwner, RereadGeneration, ProbeOwner, Qualify
<1>6. ASSUME NEW p \in Proc,
             \/ Complete(p) \/ SweepOne(p) \/ Unlink(p) \/ SweepDone(p)
             \/ (Acquire(p) /\ current # NoGen)
      PROVE  Same
  BY <1>6 DEF Complete, SweepOne, Unlink, SweepDone, Acquire
<1> HIDE DEF Same
<1> QED
  BY <1>1, <1>2, <1>3, <1>4, <1>5, <1>6

\* Every step of the protocol is a step of the abstract key, or none of its.
LEMMA KeyStep ==
  KeyInv /\ KeyInv' /\ [Next]_vars => [Key!Next]_(Key!keyVars)
<1> SUFFICES ASSUME KeyInv, KeyInv', [Next]_vars
             PROVE  Key!Next \/ UNCHANGED Key!keyVars
  OBVIOUS
<1>1. ASSUME NEW p \in Proc, Payload(p) \/ Collect(p)
      PROVE  Key!Next \/ UNCHANGED Key!keyVars
  BY <1>1, PayloadAllowed, OthersStutter DEF Collect, Key!Next
<1>2. ASSUME NEW p \in Proc, Step(p)
      PROVE  Key!Next \/ UNCHANGED Key!keyVars
  BY <1>1, <1>2, AcquireTakes, ReleaseDrops, ReclaimBreaks, OthersStutter
     DEF Step, Key!Next
<1>3. ASSUME NEW p \in Proc, Crash(p) PROVE Key!Next
  BY <1>3, CrashExits DEF Key!Next
<1> QED
  BY <1>2, <1>3, OthersStutter DEF Next

\* Whatever builders, waiters, reclaimers and collectors do with the files, in
\* whatever order, with faults and kills, is a behaviour of the abstract key.
THEOREM KeyImplemented == Spec => ImplementsKey
<1>1. Init => Key!Init
  BY DEF Init, Key!Init, Holder, Holds
<1> QED
  BY <1>1, KeyInvariant, KeyStep, PTL DEF Spec, ImplementsKey, Key!Spec
=============================================================================
