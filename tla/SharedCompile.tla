---------------------------- MODULE SharedCompile ----------------------------
(***************************************************************************)
(* The store through which the workers of a bundler share one compile      *)
(* (claimSharedCompile).  One (identity, state) pair of the store:         *)
(*                                                                         *)
(*   <name>.json               the publication                             *)
(*   <name>.lock/owner         the lock: a directory with its owner's name *)
(*   <name>.lock.*.retired     a lock a reclaimer has moved aside          *)
(*   <name>.json.*.tmp         a publication that is being written         *)
(*                                                                         *)
(* Every lookup goes through these path names; a lock can be replaced      *)
(* between any two of them.  A claim is one call of claimSharedCompile in  *)
(* a worker process of its own, with the compile, publish and release that *)
(* captureTransformGeneration runs on it.                                  *)
(***************************************************************************)
EXTENDS Naturals, FiniteSets

CONSTANTS
    Claim,      \* claims; a claim also stands for its owner token
    Rejecting,  \* claims whose caller has refuted the publication Old before
    Reused,     \* claims whose process id another program takes once they are gone
    Faults,     \* the filesystem may refuse a call
    MaxLapses,  \* bound: kills, suspensions and refused removals
    NoOne,      \* no owner file
    NoPub, Old  \* no usable publication, and one of an earlier session

ASSUME ClaimAssumption == {NoOne, NoPub, Old} \cap Claim = {}
ASSUME SubsetAssumption == Rejecting \subseteq Claim /\ Reused \subseteq Claim
ASSUME LapseAssumption == Faults \in BOOLEAN /\ MaxLapses \in Nat

VARIABLES
    lock,        \* the directory at <name>.lock
    aside,       \* aside[c]: the directory c has moved aside
    temp,        \* claims whose partial write exists
    publication, \* what <name>.json holds: the claim that compiled it
    pc,          \* where c is
    old,         \* old[c]: the lock c has statted is past ABANDONED_MS
    stale,       \* stale[c]: the owner c has judged abandoned
    pruning,     \* claims that reclaim for prunePublications, not to lock
    beating,     \* heartbeats between their ownership check and their utimes
    gone,        \* claims whose process has ended
    superseded,  \* history: claims whose lock named another owner since they
                 \* took it, and outside the final rename of their publication
    unread,      \* history: compiling claims whose read under the lock was refused
                 \* although there was a publication for them
    lapses

storeVars == <<lock, aside, temp, publication>>
vars == <<storeVars, pc, old, stale, pruning, beating, gone, superseded, unread, lapses>>

Dir == [there: BOOLEAN, owner: Claim \cup {NoOne}, old: BOOLEAN]
NoDir == [there |-> FALSE, owner |-> NoOne, old |-> FALSE]

Pc == {"idle", "read", "mkdir", "name", "reread", "held", "check",
       "rename", "replace", "evict", "stat", "owner", "move", "putback",
       "discard", "sweep", "release", "unlink", "rmdir", "done"}

\* Every variable holds a value of its kind; in particular a lock that is moved
\* aside belongs to one reclaimer.
TypeOK ==
    /\ lock \in Dir /\ aside \in [Claim -> Dir]
    /\ temp \subseteq Claim /\ publication \in Claim \cup {NoPub, Old}
    /\ pc \in [Claim -> Pc]
    /\ old \in [Claim -> BOOLEAN] /\ stale \in [Claim -> Claim \cup {NoOne}]
    /\ pruning \subseteq Claim /\ beating \subseteq Claim /\ gone \subseteq Claim
    /\ superseded \subseteq Claim /\ unread \subseteq Claim /\ lapses \in 0 .. MaxLapses

Init ==
    /\ lock = NoDir /\ aside = [c \in Claim |-> NoDir] /\ temp = {}
    /\ publication \in {NoPub, Old}
    /\ pc = [c \in Claim |-> "idle"]
    /\ old = [c \in Claim |-> FALSE] /\ stale = [c \in Claim |-> NoOne]
    /\ pruning = {} /\ beating = {} /\ gone = {} /\ superseded = {}
    /\ unread = {}
    /\ lapses = 0

-----------------------------------------------------------------------------
(* What a claim observes                                                   *)

\* readPublication and the comparison with rejectedPublication.
Usable(c) ==
    /\ publication # NoPub
    /\ publication = Old => c \notin Rejecting

\* owns(lock, token)
Owns(c) == lock.owner = c

\* processGone: a process id in use again counts as alive.
ProcessGone(c) == c \in gone \ Reused

\* The heartbeat of holdLock runs until release clears it.
Beats(c) ==
    /\ c \notin gone
    /\ \/ pc[c] \in {"reread", "held", "check", "rename", "replace",
                     "evict", "sweep", "release"}
       \/ c \in pruning

\* A lock that is refreshed, named or removed in time by a running process.
Tended ==
    \E c \in Claim \ gone :
        \/ lock.owner = c /\ Beats(c)
        \/ pc[c] \in {"name", "unlink", "rmdir"}

Goto(c, l) == pc' = [pc EXCEPT ![c] = l]

\* Where abandoned and reclaim return to: the claim's loop or prunePublications.
Resume(c) == IF c \in pruning THEN "sweep" ELSE "read"

\* Defect: the verdict hands over the lock where reclaim expects its owner's token.
VerdictOfLock(c, isAbandoned) ==
    /\ stale' = [stale EXCEPT ![c] = IF isAbandoned THEN lock ELSE NoOne]
    /\ old' = [old EXCEPT ![c] = FALSE]
    /\ Goto(c, IF isAbandoned THEN "move" ELSE Resume(c))

\* The verdict of abandoned: the token to reclaim, or nothing to do.
Verdict(c, isAbandoned) ==
    /\ stale' = [stale EXCEPT ![c] = IF isAbandoned THEN lock.owner ELSE NoOne]
    /\ old' = [old EXCEPT ![c] = FALSE]
    /\ Goto(c, IF isAbandoned THEN "move" ELSE Resume(c))

\* A new owner at the path supersedes the holder that was there before, unless
\* that holder is already in the rename its last check allowed.
Supersede(c) ==
    superseded' = superseded \cup
        {d \in Claim \ {c} : d \notin gone /\ pc[d] \in {"reread", "held", "check"}}

Lapse == lapses < MaxLapses /\ lapses' = lapses + 1

-----------------------------------------------------------------------------
(* claimSharedCompile: read, lock, read again                              *)

Start(c) ==
    /\ pc[c] = "idle" /\ c \notin gone
    /\ Goto(c, "read")
    /\ UNCHANGED <<storeVars, old, stale, pruning, beating, gone, superseded,
                   unread, lapses>>

\* Adopt what is published.  A publication that cannot be read counts as none.
\* markUsed only moves the publication's place in the eviction order.
Read(c) ==
    /\ pc[c] = "read"
    /\ \/ Usable(c) /\ Goto(c, "done")
       \/ (~Usable(c) \/ Faults) /\ Goto(c, "mkdir")
    /\ UNCHANGED <<storeVars, old, stale, pruning, beating, gone, superseded, unread,
                   lapses>>

\* acquire: the directory is the lock.  Another error than EEXIST makes the
\* claim undefined.
Mkdir(c) ==
    /\ pc[c] = "mkdir"
    /\ \/ /\ ~lock.there
          /\ lock' = [there |-> TRUE, owner |-> NoOne, old |-> FALSE]
          /\ Goto(c, "name")
       \/ lock.there /\ Goto(c, "stat") /\ UNCHANGED lock
       \/ Faults /\ Goto(c, "done") /\ UNCHANGED lock
    /\ UNCHANGED <<aside, temp, publication, old, stale, pruning, beating, gone,
                   superseded, unread, lapses>>

\* acquire: writing the owner's name goes to whatever directory is at the path.
\* When there is none any more the path is cleaned and the claim is undefined.
Name(c) ==
    /\ pc[c] = "name"
    /\ \/ /\ lock.there
          /\ lock' = [lock EXCEPT !.owner = c,
                                  !.old = IF lock.owner = NoOne THEN FALSE ELSE @]
          /\ Goto(c, "reread") /\ Supersede(c)
       \/ /\ ~lock.there \/ Faults
          /\ Goto(c, "unlink") /\ UNCHANGED <<lock, superseded>>
    /\ UNCHANGED <<aside, temp, publication, old, stale, pruning, beating, gone,
                   unread, lapses>>

\* Defect: what was published before the lock was taken is missed.
RereadSkipped(c) ==
    /\ pc[c] = "reread"
    /\ Goto(c, "held")
    /\ UNCHANGED <<storeVars, old, stale, pruning, beating, gone, superseded,
                   unread, lapses>>

\* A holder may have published between the first read and the lock.  Here, too,
\* a publication that cannot be read counts as none.
Reread(c) ==
    /\ pc[c] = "reread"
    /\ \/ Usable(c) /\ Goto(c, "release") /\ UNCHANGED unread
       \/ ~Usable(c) /\ Goto(c, "held") /\ UNCHANGED unread
       \/ Faults /\ Usable(c) /\ Goto(c, "held") /\ unread' = unread \cup {c}
    /\ UNCHANGED <<storeVars, old, stale, pruning, beating, gone, superseded, lapses>>

-----------------------------------------------------------------------------
(* The compile claim: publish and release                                  *)

\* captureTransformGeneration compiled and publishes: the partial write.  It
\* withholds a result that is not reusable, throws, or fails to write; a result
\* over the byte budget only prunes.
Compiled(c) ==
    /\ pc[c] = "held"
    /\ \/ Goto(c, "check") /\ temp' = temp \cup {c}
       \/ Goto(c, "release") /\ UNCHANGED temp
       \/ Goto(c, "evict") /\ UNCHANGED temp
    /\ UNCHANGED <<lock, aside, publication, old, stale, pruning, beating, gone,
                   superseded, unread, lapses>>

\* The last ownership check, right before the rename.
CheckOwner(c) ==
    /\ pc[c] = "check"
    /\ IF Owns(c) THEN Goto(c, "rename") /\ UNCHANGED temp
                  ELSE Goto(c, "release") /\ temp' = temp \ {c}
    /\ UNCHANGED <<lock, aside, publication, old, stale, pruning, beating, gone,
                   superseded, unread, lapses>>

\* The rename into place.  Refused (a reader has the file open on Windows, or
\* the partial write is missing), the publication is removed first.
Rename(c) ==
    /\ pc[c] = "rename"
    /\ \/ /\ c \in temp
          /\ publication' = c /\ temp' = temp \ {c} /\ Goto(c, "evict")
       \/ /\ Faults \/ c \notin temp
          /\ publication' = NoPub /\ Goto(c, "replace") /\ UNCHANGED temp
    /\ UNCHANGED <<lock, aside, old, stale, pruning, beating, gone, superseded,
                   unread, lapses>>

\* The second rename; a failure removes the partial write.
Replace(c) ==
    /\ pc[c] = "replace"
    /\ \/ c \in temp /\ publication' = c /\ Goto(c, "evict")
       \/ /\ Faults \/ c \notin temp
          /\ UNCHANGED publication /\ Goto(c, "release")
    /\ temp' = temp \ {c}
    /\ UNCHANGED <<lock, aside, old, stale, pruning, beating, gone, superseded,
                   unread, lapses>>

\* release: the lock is removed when the owner file still names this claim.
Release(c) ==
    /\ pc[c] = "release"
    /\ Goto(c, IF Owns(c) THEN "unlink" ELSE "done")
    /\ superseded' = superseded \ {c} /\ unread' = unread \ {c}
    /\ UNCHANGED <<storeVars, old, stale, pruning, beating, gone, lapses>>

\* rmSync(lock): the entries of the directory at the path, then the directory.
UnlinkOwner(c) ==
    /\ pc[c] = "unlink"
    /\ lock' = IF lock.owner # NoOne
               THEN [lock EXCEPT !.owner = NoOne, !.old = FALSE] ELSE lock
    /\ Goto(c, "rmdir")
    /\ UNCHANGED <<aside, temp, publication, old, stale, pruning, beating, gone,
                   superseded, unread, lapses>>

Rmdir(c) ==
    /\ pc[c] = "rmdir"
    /\ lock' = IF lock.there /\ lock.owner = NoOne THEN NoDir ELSE lock
    /\ Goto(c, "done")
    /\ UNCHANGED <<aside, temp, publication, old, stale, pruning, beating, gone,
                   superseded, unread, lapses>>

\* A refused removal is suppressed and leaves the lock behind.
RemovalRefused(c) ==
    /\ Faults /\ pc[c] \in {"unlink", "rmdir"} /\ Lapse
    /\ Goto(c, "done")
    /\ UNCHANGED <<storeVars, old, stale, pruning, beating, gone, superseded,
                   unread>>

-----------------------------------------------------------------------------
(* abandoned and reclaim                                                   *)

Stat(c) ==
    /\ pc[c] = "stat"
    /\ old' = [old EXCEPT ![c] = lock.old]
    /\ Goto(c, IF lock.there THEN "owner" ELSE Resume(c))
    /\ UNCHANGED <<storeVars, stale, pruning, beating, gone, superseded, unread,
                   lapses>>

\* Defect: every lock without an owner is taken for an abandoned one.
JudgeUnnamed(c) ==
    /\ pc[c] = "owner"
    /\ Verdict(c, old[c] \/ lock.owner = NoOne \/ ProcessGone(lock.owner))
    /\ UNCHANGED <<storeVars, pruning, beating, gone, superseded, unread, lapses>>

\* Defect: only a lock with a named owner is ever taken for abandoned.
JudgeNamed(c) ==
    /\ pc[c] = "owner"
    /\ Verdict(c, lock.owner # NoOne /\ (old[c] \/ ProcessGone(lock.owner)))
    /\ UNCHANGED <<storeVars, pruning, beating, gone, superseded, unread, lapses>>

\* The owner is read after the stat; a live lock is waited for (the sleep).
Judge(c) ==
    /\ pc[c] = "owner"
    /\ Verdict(c, old[c] \/ ProcessGone(lock.owner))
    /\ UNCHANGED <<storeVars, pruning, beating, gone, superseded, unread, lapses>>

\* reclaim: the lock at the path is moved aside, whoever's it is by now, and the
\* owner in it compared with the one judged abandoned.
Move(c) ==
    /\ pc[c] = "move"
    /\ aside' = [aside EXCEPT ![c] = lock]
    /\ lock' = NoDir
    /\ Goto(c, CASE ~lock.there -> Resume(c)
                 [] lock.there /\ lock.owner = stale[c] -> "discard"
                 [] OTHER -> "putback")
    /\ UNCHANGED <<temp, publication, old, stale, pruning, beating, gone,
                   superseded, unread, lapses>>

\* A fresh lock is put back.  rename fails on a directory with an owner; on an
\* empty one it replaces it (POSIX) or fails (Windows).
PutBack(c) ==
    /\ pc[c] = "putback"
    /\ \/ /\ ~lock.there \/ lock.owner = NoOne
          /\ lock' = aside[c] /\ aside' = [aside EXCEPT ![c] = NoDir]
          /\ Goto(c, Resume(c))
       \/ lock.there /\ Goto(c, "discard") /\ UNCHANGED <<lock, aside>>
    /\ UNCHANGED <<temp, publication, old, stale, pruning, beating, gone,
                   superseded, unread, lapses>>

Discard(c) ==
    /\ pc[c] = "discard"
    /\ aside' = [aside EXCEPT ![c] = NoDir]
    /\ Goto(c, Resume(c))
    /\ UNCHANGED <<lock, temp, publication, old, stale, pruning, beating, gone,
                   superseded, unread, lapses>>

-----------------------------------------------------------------------------
(* prunePublications                                                       *)

\* The count and byte budgets may evict this publication; then a lock that was
\* listed is inspected like a waiter's.
Evict(c) ==
    /\ pc[c] = "evict"
    /\ publication' \in {publication, NoPub}
    /\ \/ Goto(c, "stat") /\ pruning' = pruning \cup {c}
       \/ Goto(c, "sweep") /\ UNCHANGED pruning
    /\ UNCHANGED <<lock, aside, temp, old, stale, beating, gone, superseded,
                   unread, lapses>>

\* Defect: nobody asks whether the writer still runs.
SweepAll(c) ==
    /\ pc[c] = "sweep"
    /\ \E s \in SUBSET Claim :
         /\ temp' = temp \ s
         /\ aside' = [d \in Claim |-> IF d \in s THEN NoDir ELSE aside[d]]
    /\ pruning' = pruning \ {c}
    /\ Goto(c, "release")
    /\ UNCHANGED <<lock, publication, old, stale, beating, gone, superseded,
                   unread, lapses>>

\* Partial writes and moved locks, among those listed, whose process is gone.
Sweep(c) ==
    /\ pc[c] = "sweep"
    /\ \E s \in SUBSET {d \in Claim : ProcessGone(d)} :
         /\ temp' = temp \ s
         /\ aside' = [d \in Claim |-> IF d \in s THEN NoDir ELSE aside[d]]
    /\ pruning' = pruning \ {c}
    /\ Goto(c, "release")
    /\ UNCHANGED <<lock, publication, old, stale, beating, gone, superseded,
                   unread, lapses>>

-----------------------------------------------------------------------------
(* Heartbeats, time and processes                                          *)

BeatCheck(c) ==
    /\ Beats(c) /\ Owns(c)
    /\ beating' = beating \cup {c}
    /\ UNCHANGED <<storeVars, pc, old, stale, pruning, gone, superseded, unread,
                   lapses>>

\* utimes goes to the path, also when the lock there has another owner by now.
BeatTouch(c) ==
    /\ c \in beating
    /\ beating' = beating \ {c}
    /\ lock' = IF lock.there THEN [lock EXCEPT !.old = FALSE] ELSE lock
    /\ UNCHANGED <<aside, temp, publication, pc, old, stale, pruning, gone,
                   superseded, unread, lapses>>

\* Fifteen seconds pass without a touch.  For a lock that is tended it takes a
\* suspended process.
Age ==
    /\ lock.there /\ ~lock.old
    /\ lock' = [lock EXCEPT !.old = TRUE]
    /\ IF Tended THEN Lapse ELSE UNCHANGED lapses
    /\ UNCHANGED <<aside, temp, publication, pc, old, stale, pruning, beating,
                   gone, superseded, unread>>

\* A waiter is suspended between the stat and its look at the clock.
LateVerdict(c) ==
    /\ pc[c] = "owner" /\ ~old[c] /\ Lapse
    /\ old' = [old EXCEPT ![c] = TRUE]
    /\ UNCHANGED <<storeVars, pc, stale, pruning, beating, gone, superseded,
                   unread>>

\* The process of c ends: killed anywhere, or some time after its claim.  What it
\* had in memory is lost.
Exit(c) ==
    /\ pc[c] # "idle" /\ c \notin gone
    /\ IF pc[c] = "done" THEN UNCHANGED lapses ELSE Lapse
    /\ gone' = gone \cup {c} /\ beating' = beating \ {c}
    /\ pruning' = pruning \ {c} /\ superseded' = superseded \ {c}
    /\ unread' = unread \ {c}
    /\ old' = [old EXCEPT ![c] = FALSE] /\ stale' = [stale EXCEPT ![c] = NoOne]
    /\ Goto(c, "done")
    /\ UNCHANGED storeVars

-----------------------------------------------------------------------------

\* One step of the claim's own code.
Step(c) ==
    /\ c \notin gone
    /\ \/ Read(c) \/ Mkdir(c) \/ Name(c) \/ Reread(c) \/ Compiled(c)
       \/ CheckOwner(c) \/ Rename(c) \/ Replace(c)
       \/ Release(c) \/ UnlinkOwner(c) \/ Rmdir(c) \/ RemovalRefused(c)
       \/ Stat(c) \/ Judge(c) \/ Move(c) \/ PutBack(c) \/ Discard(c)
       \/ Evict(c) \/ Sweep(c)

Next ==
    \/ \E c \in Claim : \/ Start(c) \/ Step(c) \/ BeatCheck(c) \/ BeatTouch(c)
                        \/ LateVerdict(c) \/ Exit(c)
    \/ Age

Spec == Init /\ [][Next]_vars

\* A running worker keeps going, its compile ends, and time passes.
Fairness == (\A c \in Claim : WF_vars(Step(c))) /\ WF_vars(~Tended /\ Age)

FairSpec == Spec /\ Fairness

-----------------------------------------------------------------------------
(* Properties                                                              *)

\* A claim that answered "compile" and has not given its result away.
Compiling(c) ==
    c \notin gone /\ pc[c] \in {"held", "check", "rename", "replace"}

\* Sharing works as long as every process keeps running: nobody compiles what
\* another worker is compiling, however acquisitions, releases, inspections and
\* prunes of the one lock path interleave.
OneCompile ==
    lapses = 0 => \A c, d \in Claim : Compiling(c) /\ Compiling(d) => c = d

\* ... and nobody compiles what has been published already: the second read
\* under the lock leaves no gap, unless that very read is refused.
NoDuplicateCompile ==
    lapses = 0 => \A c \in Claim \ unread : Compiling(c) => ~Usable(c)

\* "A live writer's is left to it": a publisher that reaches its rename finds
\* its partial write, and a reclaimer the lock it moved, whatever prunes ran
\* meanwhile; so the path that removes the publication first is taken only when
\* the filesystem refuses the rename.
PartialsKept ==
    \A c \in Claim \ gone :
        /\ pc[c] \in {"check", "rename", "replace"} => c \in temp
        /\ pc[c] = "putback" => aside[c].there

\* Waiting has no deadline, and still every claim comes to its end (adopted,
\* compiled and released, or given up): a lock whose holder died, stopped, lost
\* it or failed to remove it is eventually reclaimed.
ClaimEnds ==
    \A c \in Claim : pc[c] = "read" ~> (pc[c] = "done" \/ c \in gone)

\* "A holder that lost the lock while it compiled no longer speaks for the
\* store": it never replaces what its successor may have published, the final
\* rename itself excepted.
SupersededSilent ==
    [][\A c \in superseded :
         publication \in Claim \ {c} => publication' # c]_vars

-----------------------------------------------------------------------------
(* Why the safety properties hold: an inductive invariant                  *)

\* A process ends at the end of a claim; a prune inspects one lock.
Located ==
    /\ \A c \in gone : pc[c] = "done"
    /\ \A c \in pruning :
          pc[c] \in {"stat", "owner", "move", "putback", "discard", "sweep"}

\* From the mkdir that made the lock to the rmdir that removes it.
Holds(c) ==
    \/ pc[c] \in {"name", "reread", "held", "check", "rename", "replace",
                  "evict", "sweep", "release", "unlink", "rmdir"}
    \/ c \in pruning

\* The lock as its holder left it.
HeldBy(c) ==
    /\ lock.there /\ ~lock.old
    /\ lock.owner = NoOne \/ lock.owner = c
    /\ pc[c] \in {"name", "rmdir"} => lock.owner = NoOne
    /\ pc[c] \notin {"name", "unlink", "rmdir"} => lock.owner = c

\* While every process runs, the lock at the path belongs to one claim at most ...
OneHolder == \A c, d \in Claim : Holds(c) /\ Holds(d) => c = d
HoldersLock ==
    /\ \A c \in Claim : Holds(c) => HeldBy(c)
    /\ (\A c \in Claim : ~Holds(c)) => lock = NoDir

\* ... it is never taken for abandoned ...
NoneAbandoned ==
    \A c \in Claim : ~old[c] /\ pc[c] \notin {"move", "putback", "discard"}

\* ... and nobody compiles what is published and its read has found.
NoneRepeated == \A c \in Claim \ unread : Compiling(c) => ~Usable(c)

Undisturbed == OneHolder /\ HoldersLock /\ NoneAbandoned /\ NoneRepeated

SharedInv ==
    TypeOK /\ Located /\ PartialsKept /\ (lapses = 0 => Undisturbed)
=============================================================================
