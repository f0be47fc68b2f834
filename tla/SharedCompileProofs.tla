------------------------- MODULE SharedCompileProofs -------------------------
(***************************************************************************)
(* The claims of the shared compile: type correctness, the partial writes  *)
(* of live writers, and, while every process runs, one compile at a time   *)
(* and none of what is published, for every set of claims.                 *)
(***************************************************************************)
EXTENDS SharedCompile, TLAPS

-----------------------------------------------------------------------------
(* Every variable keeps its kind.                                          *)

\* The actions by the steps of the code they belong to.
ClaimStep(c) == Start(c) \/ Read(c) \/ Mkdir(c) \/ Name(c) \/ Reread(c)
PublishStep(c) == Compiled(c) \/ CheckOwner(c) \/ Rename(c) \/ Replace(c)
ReleaseStep(c) == Release(c) \/ UnlinkOwner(c) \/ Rmdir(c) \/ RemovalRefused(c)
ReclaimStep(c) == Stat(c) \/ Judge(c) \/ Move(c) \/ PutBack(c) \/ Discard(c)
PruneStep(c) == Evict(c) \/ Sweep(c)
ProcessStep(c) == BeatCheck(c) \/ BeatTouch(c) \/ LateVerdict(c) \/ Exit(c)

\* A step is one of a claim that runs, of its process, or of time.
LEMMA StepCases ==
    ASSUME Next
    PROVE  \/ \E c \in Claim \ gone :
                 ClaimStep(c) \/ PublishStep(c) \/ ReleaseStep(c) \/ ReclaimStep(c)
                 \/ PruneStep(c)
           \/ \E c \in Claim : ProcessStep(c)
           \/ Age
<1>1. ASSUME NEW c \in Claim, Start(c) PROVE c \notin gone
  BY <1>1 DEF Start
<1> QED  BY <1>1 DEF Next, Step, ClaimStep, PublishStep, ReleaseStep, ReclaimStep,
                     PruneStep, ProcessStep

\* The types hold at first.
LEMMA TypesInit ==
    ASSUME Init PROVE TypeOK
BY LapseAssumption DEF Init, TypeOK, Dir, NoDir, Pc

\* Every step keeps the types.
LEMMA TypesNext ==
    ASSUME TypeOK, [Next]_vars PROVE TypeOK'
<1> USE DEF TypeOK, Dir, Pc, Goto, storeVars
<1>1. ASSUME NEW c \in Claim, ClaimStep(c) PROVE TypeOK'
  <2>1. CASE Start(c)
    BY <2>1 DEF Start
  <2>2. CASE Read(c)
    BY <2>2 DEF Read
  <2>3. CASE Mkdir(c)
    <3>1. [there |-> TRUE, owner |-> NoOne, old |-> FALSE] \in Dir
      OBVIOUS
    <3>2. lock' \in Dir
      BY <2>3, <3>1 DEF Mkdir
    <3> QED  BY <2>3, <3>2 DEF Mkdir
  <2>4. CASE Name(c)
    BY <2>4 DEF Name, Supersede
  <2>5. CASE Reread(c)
    BY <2>5 DEF Reread
  <2> QED  BY <1>1, <2>1, <2>2, <2>3, <2>4, <2>5 DEF ClaimStep
<1>2. ASSUME NEW c \in Claim, PublishStep(c) PROVE TypeOK'
  <2>1. CASE Compiled(c)
    BY <2>1 DEF Compiled
  <2>2. CASE CheckOwner(c)
    BY <2>2 DEF CheckOwner
  <2>3. CASE Rename(c)
    BY <2>3 DEF Rename
  <2>4. CASE Replace(c)
    BY <2>4 DEF Replace
  <2> QED  BY <1>2, <2>1, <2>2, <2>3, <2>4 DEF PublishStep
<1>3. ASSUME NEW c \in Claim, ReleaseStep(c) PROVE TypeOK'
  <2>1. CASE Release(c)
    BY <2>1 DEF Release
  <2>2. CASE UnlinkOwner(c)
    BY <2>2 DEF UnlinkOwner
  <2>3. CASE Rmdir(c)
    BY <2>3 DEF Rmdir, NoDir
  <2>4. CASE RemovalRefused(c)
    BY <2>4, LapseAssumption DEF RemovalRefused, Lapse
  <2> QED  BY <1>3, <2>1, <2>2, <2>3, <2>4 DEF ReleaseStep
<1>4. ASSUME NEW c \in Claim, ReclaimStep(c) PROVE TypeOK'
  <2>1. CASE Stat(c)
    BY <2>1 DEF Stat, Resume
  <2>2. CASE Judge(c)
    BY <2>2 DEF Judge, Verdict, Resume
  <2>3. CASE Move(c)
    BY <2>3 DEF Move, Resume, NoDir
  <2>4. CASE PutBack(c)
    <3>1. lock' \in Dir
      BY <2>4 DEF PutBack
    <3>2. NoDir \in Dir
      BY DEF NoDir
    <3>3. aside' \in [Claim -> Dir]
      BY <2>4, <3>2 DEF PutBack
    <3> QED  BY <2>4, <3>1, <3>3 DEF PutBack, Resume
  <2>5. CASE Discard(c)
    BY <2>5 DEF Discard, Resume, NoDir
  <2> QED  BY <1>4, <2>1, <2>2, <2>3, <2>4, <2>5 DEF ReclaimStep
<1>5. ASSUME NEW c \in Claim, PruneStep(c) PROVE TypeOK'
  <2>1. CASE Evict(c)
    BY <2>1 DEF Evict
  <2>2. CASE Sweep(c)
    BY <2>2 DEF Sweep, NoDir
  <2> QED  BY <1>5, <2>1, <2>2 DEF PruneStep
<1>6. ASSUME NEW c \in Claim, ProcessStep(c) PROVE TypeOK'
  <2>1. CASE BeatCheck(c)
    BY <2>1 DEF BeatCheck
  <2>2. CASE BeatTouch(c)
    BY <2>2 DEF BeatTouch
  <2>3. CASE LateVerdict(c)
    BY <2>3, LapseAssumption DEF LateVerdict, Lapse
  <2>4. CASE Exit(c)
    BY <2>4, LapseAssumption DEF Exit, Lapse
  <2> QED  BY <1>6, <2>1, <2>2, <2>3, <2>4 DEF ProcessStep
<1>7. CASE Age
  <2>1. lock' \in Dir
    BY <1>7 DEF Age
  <2>2. lapses' \in 0 .. MaxLapses
    BY <1>7, LapseAssumption DEF Age, Lapse
  <2> QED  BY <1>7, <2>1, <2>2 DEF Age
<1>8. CASE UNCHANGED vars
  BY <1>8 DEF vars
<1> QED  BY <1>1, <1>2, <1>3, <1>4, <1>5, <1>6, <1>7, <1>8, StepCases

\* Every variable holds a value of its kind; a lock that is moved aside belongs
\* to one reclaimer (claimSharedCompile).
THEOREM SharedTypes == Spec => []TypeOK
BY TypesInit, TypesNext, PTL DEF Spec

-----------------------------------------------------------------------------
(* What live writers need is kept.                                         *)

\* No step takes a partial from where its writer put it.
LEMMA PartialsNext ==
    ASSUME TypeOK, Located, PartialsKept, [Next]_vars PROVE Located' /\ PartialsKept'
<1> USE DEF TypeOK, Located, PartialsKept, Goto, storeVars
<1>1. ASSUME NEW c \in Claim \ gone, ClaimStep(c) PROVE Located' /\ PartialsKept'
  BY <1>1 DEF ClaimStep, Start, Read, Mkdir, Name, Reread
<1>2. ASSUME NEW c \in Claim \ gone, PublishStep(c) PROVE Located' /\ PartialsKept'
  BY <1>2 DEF PublishStep, Compiled, CheckOwner, Rename, Replace
<1>3. ASSUME NEW c \in Claim \ gone, ReleaseStep(c) PROVE Located' /\ PartialsKept'
  BY <1>3 DEF ReleaseStep, Release, UnlinkOwner, Rmdir, RemovalRefused
<1>4. ASSUME NEW c \in Claim \ gone, ReclaimStep(c) PROVE Located' /\ PartialsKept'
  BY <1>4 DEF ReclaimStep, Stat, Judge, Verdict, Move, PutBack, Discard, Resume
<1>5. ASSUME NEW c \in Claim \ gone, PruneStep(c) PROVE Located' /\ PartialsKept'
  BY <1>5 DEF PruneStep, Evict, Sweep, ProcessGone
<1>6. ASSUME NEW c \in Claim, ProcessStep(c) PROVE Located' /\ PartialsKept'
  BY <1>6 DEF ProcessStep, BeatCheck, BeatTouch, LateVerdict, Exit
<1>7. CASE Age
  BY <1>7 DEF Age
<1>8. CASE UNCHANGED vars
  BY <1>8 DEF vars
<1> QED  BY <1>1, <1>2, <1>3, <1>4, <1>5, <1>6, <1>7, <1>8, StepCases

-----------------------------------------------------------------------------
(* While every process runs.                                               *)

\* A holder may change the lock and the publication, another claim neither.
LEMMA HolderKeeps ==
    ASSUME Undisturbed, NEW c \in Claim,
           \A d \in Claim \ {c} : /\ pc'[d] = pc[d] /\ (d \in pruning' <=> d \in pruning)
                                  /\ (d \in gone => d \in gone')
                                  /\ (d \in unread => d \in unread'),
           \A d \in Claim : ~old'[d],
           pc'[c] \notin {"move", "putback", "discard"},
           Holds(c)' <=> Holds(c), Holds(c) => HeldBy(c)',
           Compiling(c)' /\ c \notin unread' => ~Usable(c)',
           ~Holds(c) => UNCHANGED <<lock, publication>>
    PROVE  Undisturbed'
<1> USE DEF Undisturbed
<1>1. \A d \in Claim : Holds(d)' <=> Holds(d)
  BY DEF Holds
<1>2. \A d \in Claim : Compiling(d) => Holds(d)
  BY DEF Compiling, Holds
<1>3. OneHolder'
  BY <1>1 DEF OneHolder
<1>4. ASSUME NEW d \in Claim, d # c, Holds(d) PROVE HeldBy(d)'
  <2>1. ~Holds(c) /\ HeldBy(d)
    BY <1>4 DEF OneHolder, HoldersLock
  <2> QED  BY <1>4, <2>1 DEF HeldBy
<1>5. HoldersLock'
  BY <1>1, <1>4 DEF HoldersLock, NoDir
<1>6. ASSUME NEW d \in Claim, d # c, Compiling(d)', d \notin unread' PROVE ~Usable(d)'
  <2>1. Compiling(d) /\ Holds(d) /\ d \notin unread
    BY <1>2, <1>6 DEF Compiling
  <2>2. ~Holds(c) /\ ~Usable(d)
    BY <1>6, <2>1 DEF OneHolder, NoneRepeated
  <2> QED  BY <2>2 DEF Usable
<1>7. NoneAbandoned' /\ NoneRepeated'
  BY <1>6 DEF NoneAbandoned, NoneRepeated
<1> QED  BY <1>3, <1>5, <1>7

\* A claim takes the lock, names it, and reads again.
LEMMA ClaimsUndisturbed ==
    ASSUME TypeOK, Located, Undisturbed, NEW c \in Claim \ gone, ClaimStep(c)
    PROVE  Undisturbed'
<1> USE DEF TypeOK, Goto, storeVars, NoneAbandoned
<1>1. CASE Start(c) \/ Read(c)
  BY <1>1, HolderKeeps DEF Start, Read, Located, Holds, Compiling, Undisturbed
<1>2. CASE Mkdir(c) /\ lock' = lock
  BY <1>2, HolderKeeps DEF Mkdir, Located, Holds, Compiling, Undisturbed
<1>3. CASE Mkdir(c) /\ lock' # lock
  <2>1. /\ ~lock.there /\ pc' = [pc EXCEPT ![c] = "name"] /\ UNCHANGED <<old, pruning, gone>>
        /\ lock' = [there |-> TRUE, owner |-> NoOne, old |-> FALSE]
    BY <1>3 DEF Mkdir
  <2>2. \A d \in Claim : ~Holds(d) /\ (Holds(d)' <=> d = c)
    BY <2>1 DEF Undisturbed, HoldersLock, HeldBy, Holds
  <2>3. HeldBy(c)'
    BY <2>1 DEF HeldBy
  <2>4. \A d \in Claim : ~Compiling(d)'
    BY <2>1, <2>2 DEF Compiling, Holds
  <2> QED  BY <2>1, <2>2, <2>3, <2>4 DEF Undisturbed, OneHolder, HoldersLock, NoneRepeated
<1>4. CASE Name(c)
  <2>1. Holds(c) /\ HeldBy(c)
    BY <1>4 DEF Name, Holds, Undisturbed, HoldersLock
  <2>2. HeldBy(c)'
    BY <1>4, <2>1 DEF Name, HeldBy, Dir
  <2> QED  BY <1>4, <2>1, <2>2, HolderKeeps DEF Name, Holds, Compiling, Undisturbed
<1>5. CASE Reread(c)
  <2>1. Holds(c) /\ HeldBy(c)
    BY <1>5 DEF Reread, Holds, Undisturbed, HoldersLock
  <2>2. HeldBy(c)' /\ (Compiling(c)' /\ c \notin unread' => ~Usable(c)')
    BY <1>5, <2>1 DEF Reread, HeldBy, Compiling, Usable
  <2>3. /\ UNCHANGED <<lock, publication, old, pruning, gone>>
        /\ pc[c] = "reread" /\ unread \subseteq unread'
        /\ \E l \in {"release", "held"} : pc' = [pc EXCEPT ![c] = l]
    BY <1>5 DEF Reread
  <2>4. /\ \A d \in Claim \ {c} : pc'[d] = pc[d]
        /\ pc'[c] \in {"release", "held"} /\ \A d \in Claim : ~old'[d]
    BY <2>3 DEF Undisturbed
  <2>5. Holds(c)'
    BY <2>4 DEF Holds
  <2>6. \A d \in Claim \ {c} :
            /\ pc'[d] = pc[d] /\ (d \in pruning' <=> d \in pruning)
            /\ (d \in gone => d \in gone') /\ (d \in unread => d \in unread')
    BY <2>3, <2>4
  <2>7. pc'[c] \notin {"move", "putback", "discard"}
    BY <2>4
  <2> QED  BY <2>1, <2>2, <2>4, <2>5, <2>6, <2>7, HolderKeeps
<1> QED  BY <1>1, <1>2, <1>3, <1>4, <1>5 DEF ClaimStep

\* A holder publishes and releases; only it writes the publication.
LEMMA HoldersUndisturbed ==
    ASSUME TypeOK, Located, Undisturbed, lapses' = 0, NEW c \in Claim \ gone,
           PublishStep(c) \/ ReleaseStep(c)
    PROVE  Undisturbed'
<1> USE DEF TypeOK, Goto, storeVars, NoneAbandoned, Undisturbed
<1>1. Holds(c) /\ HeldBy(c)
  <2>1. pc[c] \in {"held", "check", "rename", "replace", "release", "unlink", "rmdir"}
    BY DEF PublishStep, ReleaseStep, Compiled, CheckOwner, Rename, Replace, Release,
           UnlinkOwner, Rmdir, RemovalRefused
  <2> QED  BY <2>1 DEF Holds, HoldersLock
<1>2. Compiling(c) /\ c \notin unread => ~Usable(c)
  BY DEF NoneRepeated
<1>3. CASE PublishStep(c)
  <2>1. /\ lock' = lock /\ UNCHANGED <<old, pruning, gone, unread>>
        /\ \E l \in {"check", "release", "evict", "rename", "replace"} :
              pc' = [pc EXCEPT ![c] = l]
    BY <1>3 DEF PublishStep, Compiled, CheckOwner, Rename, Replace
  <2>2. HeldBy(c)' /\ Holds(c)'
    BY <1>1, <1>3, <2>1 DEF HeldBy, Holds, PublishStep, Compiled, CheckOwner, Rename, Replace
  <2>3. Compiling(c)' /\ c \notin unread' => ~Usable(c)'
    BY <1>2, <1>3, <2>1
       DEF PublishStep, Compiled, CheckOwner, Rename, Replace, Compiling, Usable
  <2> QED  BY <1>1, <2>1, <2>2, <2>3, HolderKeeps
<1>4. CASE Release(c)
  <2>1. pc' = [pc EXCEPT ![c] = "unlink"]
    BY <1>1, <1>4 DEF Release, HeldBy, Owns
  <2> QED  BY <1>1, <1>4, <2>1, HolderKeeps DEF Release, Holds, HeldBy, Compiling
<1>5. CASE UnlinkOwner(c)
  <2>1. HeldBy(c)'
    BY <1>1, <1>5 DEF UnlinkOwner, HeldBy, Dir
  <2> QED  BY <1>1, <1>5, <2>1, HolderKeeps DEF UnlinkOwner, Holds, Compiling
<1>6. CASE Rmdir(c)
  <2>1. lock' = NoDir /\ \A d \in Claim : ~Holds(d)'
    BY <1>1, <1>6 DEF Rmdir, HeldBy, Holds, OneHolder, Located
  <2>2. \A d \in Claim : ~Compiling(d)'
    BY <2>1 DEF Compiling, Holds
  <2> QED  BY <1>6, <2>1, <2>2 DEF Rmdir, OneHolder, HoldersLock, NoneRepeated
<1>7. CASE RemovalRefused(c)
  BY <1>7, LapseAssumption DEF RemovalRefused, Lapse
<1> QED  BY <1>3, <1>4, <1>5, <1>6, <1>7 DEF ReleaseStep

\* No lock is judged abandoned: its owner runs and keeps it young.
LEMMA WaitersUndisturbed ==
    ASSUME TypeOK, Located, Undisturbed, NEW c \in Claim \ gone,
           ReclaimStep(c) \/ PruneStep(c)
    PROVE  Undisturbed'
<1> USE DEF TypeOK, Goto, storeVars, Undisturbed
<1>1. ~lock.old /\ lock.owner \notin gone
  <2>1. CASE \A d \in Claim : ~Holds(d)
    BY <2>1, ClaimAssumption DEF HoldersLock, NoDir
  <2>2. ASSUME NEW d \in Claim, Holds(d) PROVE ~lock.old /\ lock.owner \notin gone
    BY <2>2, ClaimAssumption DEF HoldersLock, HeldBy, Holds, Located
  <2> QED  BY <2>1, <2>2
<1>2. CASE Stat(c)
  BY <1>1, <1>2, HolderKeeps
     DEF Stat, Resume, Holds, HoldersLock, HeldBy, Compiling, NoneAbandoned
<1>3. CASE Judge(c)
  <2>1. pc' = [pc EXCEPT ![c] = Resume(c)] /\ old' = [old EXCEPT ![c] = FALSE]
    BY <1>1, <1>3 DEF Judge, Verdict, ProcessGone, NoneAbandoned
  <2> QED  BY <1>3, <2>1, HolderKeeps
           DEF Judge, Resume, Holds, HoldersLock, HeldBy, Compiling, NoneAbandoned
<1>4. CASE Move(c) \/ PutBack(c) \/ Discard(c)
  BY <1>4 DEF Move, PutBack, Discard, NoneAbandoned
<1>5. CASE Evict(c)
  <2>1. Holds(c) /\ HeldBy(c)
    BY <1>5 DEF Evict, Holds, HoldersLock
  <2> QED  BY <1>5, <2>1, HolderKeeps DEF Evict, Holds, HeldBy, Compiling, NoneAbandoned
<1>6. CASE Sweep(c)
  <2>1. Holds(c) /\ HeldBy(c)
    BY <1>6 DEF Sweep, Holds, HoldersLock
  <2> QED  BY <1>6, <2>1, HolderKeeps DEF Sweep, Holds, HeldBy, Compiling, NoneAbandoned
<1> QED  BY <1>2, <1>3, <1>4, <1>5, <1>6 DEF ReclaimStep, PruneStep

\* A lock that is held is tended, so it grows old in no time that counts.
LEMMA ProcessesUndisturbed ==
    ASSUME TypeOK, Located, Undisturbed, lapses' = 0,
           Age \/ \E c \in Claim : ProcessStep(c)
    PROVE  Undisturbed'
<1> USE DEF TypeOK, Goto, storeVars, Undisturbed, NoneAbandoned
<1>1. CASE Age
  <2>1. PICK c \in Claim : Holds(c)
    BY <1>1 DEF Age, HoldersLock, NoDir
  <2>2. HeldBy(c) /\ c \notin gone
    BY <2>1 DEF HoldersLock, Located, Holds
  <2>3. Tended
    BY <2>1, <2>2 DEF Tended, Beats, Holds, HeldBy
  <2> QED  BY <1>1, <2>3, LapseAssumption DEF Age, Lapse
<1>2. ASSUME NEW c \in Claim, ProcessStep(c) PROVE Undisturbed'
  <2>1. CASE BeatCheck(c)
    BY <2>1, HolderKeeps DEF BeatCheck, Holds, HoldersLock, HeldBy, Compiling, NoneRepeated,
                             Usable
  <2>2. CASE BeatTouch(c)
    <3>1. lock.there => ~lock.old
      BY DEF HoldersLock, HeldBy, NoDir
    <3>2. lock' = lock
      BY <2>2, <3>1 DEF BeatTouch, Dir
    <3> QED  BY <2>2, <3>2, HolderKeeps DEF BeatTouch, Holds, HoldersLock, HeldBy, Compiling,
                                            NoneRepeated, Usable
  <2>3. CASE LateVerdict(c)
    BY <2>3, LapseAssumption DEF LateVerdict, Lapse
  <2>4. CASE Exit(c)
    <3>1. pc[c] = "done"
      BY <2>4, LapseAssumption DEF Exit, Lapse
    <3>2. c \notin pruning
      BY <3>1 DEF Located
    <3> QED  BY <2>4, <3>1, <3>2, HolderKeeps DEF Exit, Holds, Compiling
  <2> QED  BY <1>2, <2>1, <2>2, <2>3, <2>4 DEF ProcessStep
<1> QED  BY <1>1, <1>2

\* No step takes a lapse back.
LEMMA LapsesGrow ==
    ASSUME TypeOK, [Next]_vars, lapses' = 0 PROVE lapses = 0
<1> USE LapseAssumption DEF TypeOK
<1>1. ASSUME NEW c \in Claim, ClaimStep(c) \/ PublishStep(c) \/ ReleaseStep(c)
      PROVE  lapses = 0
  BY <1>1 DEF ClaimStep, Start, Read, Mkdir, Name, Reread, PublishStep, Compiled, CheckOwner,
              Rename, Replace, ReleaseStep, Release, UnlinkOwner, Rmdir, RemovalRefused, Lapse
<1>2. ASSUME NEW c \in Claim, ReclaimStep(c) \/ PruneStep(c) \/ ProcessStep(c)
      PROVE  lapses = 0
  BY <1>2 DEF ReclaimStep, Stat, Judge, Move, PutBack, Discard, PruneStep, Evict, Sweep,
              ProcessStep, BeatCheck, BeatTouch, LateVerdict, Exit, Lapse
<1>3. CASE Age
  BY <1>3 DEF Age, Lapse
<1>4. CASE UNCHANGED vars
  BY <1>4 DEF vars
<1> QED  BY <1>1, <1>2, <1>3, <1>4, StepCases

\* The inductive invariant.
LEMMA SharedInvInit ==
    ASSUME Init PROVE SharedInv
<1>1. Located /\ PartialsKept
  BY DEF Init, Located, PartialsKept
<1>2. \A c \in Claim : ~Holds(c) /\ ~Compiling(c)
  BY DEF Init, Holds, Compiling
<1>3. Undisturbed
  BY <1>2 DEF Init, Undisturbed, OneHolder, HoldersLock, NoneAbandoned, NoneRepeated
<1> QED  BY <1>1, <1>3, TypesInit DEF SharedInv

\* Every step keeps the invariant.
LEMMA SharedInvNext ==
    ASSUME SharedInv, [Next]_vars PROVE SharedInv'
<1> USE DEF SharedInv
<1>1. TypeOK' /\ Located' /\ PartialsKept'
  BY TypesNext, PartialsNext
<1>2. ASSUME lapses' = 0 PROVE Undisturbed'
  <2>1. Undisturbed
    BY <1>2, LapsesGrow
  <2>2. CASE UNCHANGED vars
    BY <2>1, <2>2 DEF vars, storeVars, Undisturbed, OneHolder, HoldersLock, NoneAbandoned,
                      NoneRepeated, Holds, HeldBy, Compiling, Usable
  <2> QED  BY <1>2, <2>1, <2>2, StepCases, ClaimsUndisturbed, HoldersUndisturbed,
              WaitersUndisturbed, ProcessesUndisturbed
<1> QED  BY <1>1, <1>2

\* What the claims of one lock path know of each other (claimSharedCompile):
\* partial writes and moved locks of live processes stay; and while nothing is
\* killed or suspended and no removal of a lock is refused, a lock has one holder, is not
\* taken for abandoned, and its holder compiles nothing that is published unless its
\* read under the lock was refused.
THEOREM SharedInvariant == Spec => []SharedInv
BY SharedInvInit, SharedInvNext, PTL DEF Spec

\* "A live writer's is left to it": whatever is pruned meanwhile, a publisher
\* finds its partial write and a reclaimer the lock it moved (prunePublications).
THEOREM SharedPartialsKept == Spec => []PartialsKept
<1>1. SharedInv => PartialsKept
  BY DEF SharedInv
<1> QED  BY <1>1, SharedInvariant, PTL

\* Nobody compiles what another worker is compiling (acquire, abandoned).
THEOREM SharedOneCompile == Spec => []OneCompile
<1>1. SharedInv => OneCompile
  BY DEF SharedInv, Undisturbed, OneHolder, OneCompile, Compiling, Holds
<1> QED  BY <1>1, SharedInvariant, PTL

\* Nobody compiles what has been published, unless its read under the lock is
\* refused (readPublication).
THEOREM SharedNoDuplicate == Spec => []NoDuplicateCompile
<1>1. SharedInv => NoDuplicateCompile
  BY DEF SharedInv, Undisturbed, NoneRepeated, NoDuplicateCompile
<1> QED  BY <1>1, SharedInvariant, PTL
=============================================================================
