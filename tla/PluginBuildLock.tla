--------------------------- MODULE PluginBuildLock ---------------------------
(***************************************************************************)
(* One source-plugin cache key of ttsc: the v3 build lock, the cached      *)
(* binary it protects, the readers that run the binary and the collector   *)
(* that evicts it.  Cooperating Node processes share nothing but a         *)
(* directory tree, so a step of this specification is one call that other  *)
(* processes can observe: a rename, a marker write, or one read of the     *)
(* mutable path `current`.                                                 *)
(*                                                                         *)
(*   <key>.lock.v3/current             the held generation                 *)
(*   <key>.lock.v3/retired/<name>      tombstones                          *)
(*   <key>.lock.v3/.ttsc-native-retirements/*   native guards              *)
(*   <key>/plugin, <key>/.binary-users/<token>  binary and reader tokens   *)
(*                                                                         *)
(* A member of Proc is a process id on a host.  Restart(p) starts a new    *)
(* program under an id an earlier program used, which is what makes a      *)
(* liveness probe by process id inconclusive.                              *)
(*                                                                         *)
(* The pre-v2 path <key>.lock and the v2 directory never exist here: the   *)
(* code keeps both as separate namespaces for executables older than this  *)
(* repository.                                                             *)
(***************************************************************************)
EXTENDS Naturals, FiniteSets

CONSTANTS
    Proc,        \* process ids, each on one host
    Gen,         \* the random 32-hex-digit generations a run may draw
    Host,        \* Host[p]: os.hostname() of the processes that use id p
    Scoped,      \* ids whose work runs in a SourceNativeRetirement scope
    Managed,     \* the default cache root: a cold build ends with a prune pass
    Reuse,       \* an id may be used again by a later program
    Clock,       \* the 600 s wait budget may elapse
    Faults,      \* the filesystem may refuse a write, a removal or a rename
    MaxTasks,    \* bound: builds and prune passes started
    MaxCrashes,  \* bound: processes killed
    NoGen, NoProc

ASSUME NoGenAssumption == NoGen \notin Gen
ASSUME NoProcAssumption == NoProc \notin Proc
ASSUME SentinelAssumption == NoGen \notin Proc
ASSUME ScopedAssumption == Scoped \subseteq Proc
ASSUME FlagAssumption == {Managed, Reuse, Clock, Faults} \subseteq BOOLEAN
ASSUME BoundAssumption == MaxTasks \in Nat /\ MaxCrashes \in Nat

VARIABLES
    protocol,   \* <key>.lock.v3 with its marker exists
    current,    \* the generation directory at `current`, or NoGen
    retired,    \* retired[n]: the generation directory at retired/<n>, or NoGen
    owner,      \* owner[g]: the id in owner.json of generation directory g
    observers,  \* observers[g]: the ids recorded in g/observers
    complete,   \* generation directories holding a task-complete marker
    guard,      \* guard[g]: the native guard file that names g
    native,     \* generations whose native child process runs
    binary,     \* the plugin binary exists
    token,      \* token[p]: the reader token of id p
    up,         \* ids of running processes
    reserved,   \* ids whose process-local reservation map holds the key
    using,      \* ids of running processes that were handed the binary's path
    pc, task,   \* where p is, and for which operation
    lease,      \* lease[p]: the generation p holds and has not released
    gen,        \* gen[p]: the generation p read, fences or completes
    who,        \* who[p]: the owner record p read
    ok,         \* ok[p]: p's payload succeeded
    expired,    \* ids whose wait budget has elapsed
    started, crashes

lockVars  == <<protocol, current, retired, owner, observers, complete>>
guardVars == <<guard, native>>
entryVars == <<binary, token>>
procVars  == <<up, reserved, using, expired>>
bounds    == <<started, crashes>>
vars == <<lockVars, guardVars, entryVars, procVars, bounds,
          pc, task, lease, gen, who, ok>>

InspectPc == {"read", "missing", "register", "confirm", "owner", "reread", "probe"}
FencePc   == {"qualify", "reclaim"}
PayloadPc == {"held", "begin", "open", "native", "publish", "retain", "token",
              "unfinished", "users", "remove"}
Pc == {"idle", "top", "admit", "acquire", "wait", "release", "complete", "sweep",
       "unlink"} \cup InspectPc \cup FencePc \cup PayloadPc

Task == {"none", "build", "survey", "evict", "retry", "sweep"}
Guard == {"none", "torn", "pending", "unknown"}
Token == {"none", "bare", "owned"}

LockType ==
    /\ protocol \in BOOLEAN
    /\ current \in Gen \cup {NoGen}
    /\ retired \in [Gen -> Gen \cup {NoGen}]
    /\ owner \in [Gen -> Proc \cup {NoProc}]
    /\ observers \in [Gen -> SUBSET Proc]
    /\ complete \subseteq Gen

EntryType ==
    /\ guard \in [Gen -> Guard] /\ native \subseteq Gen
    /\ binary \in BOOLEAN /\ token \in [Proc -> Token]

ProcType ==
    /\ up \subseteq Proc /\ reserved \subseteq Proc
    /\ using \subseteq Proc /\ expired \subseteq Proc
    /\ started \in 0 .. MaxTasks /\ crashes \in 0 .. MaxCrashes

LocalType ==
    /\ pc \in [Proc -> Pc] /\ task \in [Proc -> Task]
    /\ lease \in [Proc -> Gen \cup {NoGen}]
    /\ gen \in [Proc -> Gen \cup {NoGen}]
    /\ who \in [Proc -> Proc \cup {NoProc}]
    /\ ok \in [Proc -> BOOLEAN]

\* Every variable holds a value of its kind: in particular an inspection
\* records a process id and a generation, never one for the other.
TypeOK == LockType /\ EntryType /\ ProcType /\ LocalType

Init ==
    /\ protocol = FALSE /\ current = NoGen
    /\ retired = [g \in Gen |-> NoGen]
    /\ owner = [g \in Gen |-> NoProc]
    /\ observers = [g \in Gen |-> {}]
    /\ complete = {} /\ native = {}
    /\ guard = [g \in Gen |-> "none"]
    /\ binary = FALSE
    /\ token = [p \in Proc |-> "none"]
    /\ up = Proc /\ reserved = {} /\ using = {} /\ expired = {}
    /\ pc = [p \in Proc |-> "idle"] /\ task = [p \in Proc |-> "none"]
    /\ lease = [p \in Proc |-> NoGen]
    /\ gen = [p \in Proc |-> NoGen]
    /\ who = [p \in Proc |-> NoProc]
    /\ ok = [p \in Proc |-> FALSE]
    /\ started = 0 /\ crashes = 0

-----------------------------------------------------------------------------
(* Observations of the shared tree                                         *)

\* Defect: the host name of the record is not compared, so an id of another
\* machine is looked up among the local processes.
GoneOnAnyHost(p, q) == Host[q] # Host[p] \/ q \notin up

\* PluginBuildLockOwner.gone as p computes it for the recorded id q: same
\* host, and signal zero finds no such process.
Gone(p, q) == Host[q] = Host[p] /\ q \notin up

\* assertAvailable: an unknown or unreadable guard refuses admission.
Available == \A g \in Gen : guard[g] \in {"none", "pending"}

\* readGuards lists the guard directory and then reads each file: a guard that
\* its owner removes in between reads as malformed.
Vanishing ==
    \E q \in Proc : pc[q] = "native" /\ lease[q] # NoGen /\ guard[lease[q]] # "none"

\* assertAvailable may throw.
MayRefuse == ~Available \/ Vanishing

\* isProtected(root): some guard file is present.
Protected == \E g \in Gen : guard[g] # "none"

\* assertReleasable(root, g): no guard names g and none is unreadable.
Releasable(g) ==
    /\ guard[g] = "none"
    /\ \A h \in Gen : guard[h] # "torn"

\* PluginBinaryUse.holds: the process-local map and the token on disk agree.
Holds(p) == p \in reserved /\ token[p] # "none"

\* readQualifiedPluginCacheTaskOwner and gone, for the directory `dir` looked
\* up under the name n: its generation file says n and its owner is dead.
QualifiedGone(p, dir, n) == dir = n /\ Gone(p, owner[n])

\* retireLockDirectory(current, retired/g): rename by name.  It refuses a
\* missing source and an occupied destination, and nothing else: whatever
\* generation is at `current` at that moment is moved.
CanRetire(g) == current # NoGen /\ retired[g] = NoGen

Retire(g) ==
    /\ retired' = [retired EXCEPT ![g] = current]
    /\ current' = NoGen

-----------------------------------------------------------------------------
(* Control flow of one process                                             *)

Goto(p, l) == pc' = [pc EXCEPT ![p] = l]
As(p, t) == task' = [task EXCEPT ![p] = t]
Drop(p) == /\ gen' = [gen EXCEPT ![p] = NoGen]
           /\ who' = [who EXCEPT ![p] = NoProc]
Keep == UNCHANGED <<gen, who>>

\* The build returns or throws: back to the caller.
Leave(p) ==
    /\ Goto(p, "idle") /\ As(p, "none") /\ Drop(p)
    /\ ok' = [ok EXCEPT ![p] = FALSE]
    /\ expired' = expired \ {p}

\* The collector gives this entry up and goes on to the tombstones.
Skip(p) ==
    /\ Goto(p, "sweep") /\ As(p, "sweep") /\ Drop(p)
    /\ ok' = [ok EXCEPT ![p] = FALSE]
    /\ UNCHANGED expired

\* The build has the binary's path for its caller.  A managed root is pruned
\* first, with this key's entry excluded.
Return(p) ==
    IF Managed
    THEN /\ Goto(p, "sweep") /\ As(p, "sweep") /\ Drop(p)
         /\ ok' = [ok EXCEPT ![p] = FALSE]
         /\ expired' = expired \ {p}
    ELSE Leave(p)

\* A thrown error: a build propagates it, a prune pass catches it.
Throw(p) == IF task[p] = "build" THEN Leave(p) ELSE Skip(p)

Continue(p, l) ==
    Goto(p, l) /\ UNCHANGED <<task, ok, expired>>

\* buildSourcePlugin: enter the loop of buildUnderPluginLock.
StartBuild(p) ==
    /\ p \in up /\ pc[p] = "idle" /\ started < MaxTasks
    /\ started' = started + 1
    /\ Goto(p, "top") /\ As(p, "build")
    /\ UNCHANGED <<lockVars, guardVars, entryVars, procVars, crashes,
                   lease, gen, who, ok>>

\* prunePluginCacheRoot, run by a build of another key or by the daily pass.
\* The age and size policy either leaves this entry alone or makes it a
\* candidate, which is surveyed for an active build first.
StartPrune(p) ==
    /\ p \in up /\ pc[p] = "idle" /\ started < MaxTasks
    /\ started' = started + 1
    /\ \/ Goto(p, "sweep") /\ As(p, "sweep")
       \/ Goto(p, "read") /\ As(p, "survey")
    /\ UNCHANGED <<lockVars, guardVars, entryVars, procVars, crashes,
                   lease, gen, who, ok>>

\* The monotonic budget elapses; it is sampled at the loop head and before
\* each inspection of the waiter.
Expire(p) ==
    /\ Clock /\ p \in up \ expired /\ pc[p] \in {"top", "wait"}
    /\ expired' = expired \cup {p}
    /\ UNCHANGED <<lockVars, guardVars, entryVars, up, reserved, using, bounds,
                   pc, task, lease, gen, who, ok>>

-----------------------------------------------------------------------------
(* acquirePluginBuildLock                                                  *)

\* The head of buildUnderPluginLock's loop: a process that already holds a
\* reader token returns at once (validateAdoption may still throw), here or at
\* the same test in front of the loop, which skips the pruning; a spent budget
\* throws, anything else acquires.
LoopTop(p) ==
    LET held == ~Protected /\ binary /\ Holds(p) IN
    /\ p \in up /\ pc[p] = "top"
    /\ \/ (MayRefuse \/ held \/ p \in expired) /\ Leave(p) /\ UNCHANGED using
       \/ /\ Available /\ held /\ using' = using \cup {p}
          /\ Leave(p) \/ Return(p)
       \/ /\ Available /\ ~held /\ p \notin expired
          /\ Continue(p, "admit") /\ Keep /\ UNCHANGED using
    /\ UNCHANGED <<lockVars, guardVars, entryVars, up, reserved, bounds, lease>>

\* What a null lease means to the caller.
Refused(p) ==
    \/ task[p] = "build" /\ Continue(p, "wait") /\ Drop(p)
    \/ task[p] = "evict" /\ Continue(p, "read") /\ Drop(p)
    \/ task[p] = "retry" /\ Skip(p)

\* Guards first, then the protocol directory: a candidate renamed into place,
\* where losing to a peer's complete directory is success.  A refused write of
\* either candidate directory throws with nothing published.
Admit(p) ==
    /\ p \in up /\ pc[p] = "admit"
    /\ \/ (MayRefuse \/ Faults) /\ Throw(p) /\ UNCHANGED protocol
       \/ Available /\ Protected /\ Refused(p) /\ UNCHANGED protocol
       \/ ~Protected /\ protocol' = TRUE /\ Continue(p, "acquire") /\ Keep
    /\ UNCHANGED <<current, retired, owner, observers, complete, guardVars,
                   entryVars, up, reserved, using, bounds, lease>>

\* A complete candidate directory, with its generation and owner, is renamed
\* to `current`; rename cannot replace a non-empty directory.
Acquire(p) ==
    /\ p \in up /\ pc[p] = "acquire"
    /\ \/ current # NoGen /\ Refused(p) /\ UNCHANGED <<current, owner, lease>>
       \/ /\ current = NoGen
          /\ \E g \in Gen :
               /\ owner[g] = NoProc
               /\ current' = g
               /\ owner' = [owner EXCEPT ![g] = p]
               /\ lease' = [lease EXCEPT ![p] = g]
          /\ Continue(p, IF task[p] = "build" THEN "held" ELSE "unfinished")
          /\ Keep
    /\ UNCHANGED <<protocol, retired, observers, complete, guardVars,
                   entryVars, up, reserved, using, bounds>>

-----------------------------------------------------------------------------
(* waitForPluginBinary and inspectPluginBuildLock                          *)

\* Defect: publication is taken for admission and the path is returned
\* without a reader token.
WaitAdopts(p) ==
    /\ p \in up /\ pc[p] = "wait"
    /\ \/ Available /\ binary /\ Leave(p) /\ using' = using \cup {p}
       \/ Available /\ ~binary /\ Continue(p, "read") /\ Keep /\ UNCHANGED using
    /\ UNCHANGED <<lockVars, guardVars, entryVars, up, reserved, bounds, lease>>

\* One poll of the waiter.  "published" and "released" both send the build
\* back to the loop head, where it must still acquire the key to be admitted
\* as a reader; only an inspection can end in a fence.
Wait(p) ==
    /\ p \in up /\ pc[p] = "wait"
    /\ \/ MayRefuse /\ Leave(p)
       \/ Available /\ ~Protected /\ binary /\ Continue(p, "top") /\ Keep
       \/ /\ Available /\ (Protected \/ ~binary)
          /\ Continue(p, "read") /\ Keep
    /\ UNCHANGED <<lockVars, guardVars, entryVars, up, reserved, using, bounds,
                   lease>>

\* The three answers of an inspection and what each caller does with them.
Released(p) ==
    /\ Drop(p) /\ UNCHANGED <<ok, expired>>
    /\ \/ task[p] = "build" /\ Goto(p, "top") /\ UNCHANGED task
       \/ task[p] = "survey" /\ Goto(p, "admit") /\ As(p, "evict")
       \/ task[p] = "evict" /\ Goto(p, "sweep") /\ As(p, "sweep")

\* Defect: the wait budget is only looked at by the loop head.
ActiveUnbounded(p) ==
    \/ task[p] = "build" /\ Continue(p, "wait") /\ Drop(p)
    \/ task[p] # "build" /\ Skip(p)

Active(p) ==
    \/ task[p] = "build" /\ p \in expired /\ Leave(p)
    \/ task[p] = "build" /\ p \notin expired /\ Continue(p, "wait") /\ Drop(p)
    \/ task[p] # "build" /\ Skip(p)

Abandoned(p) ==
    /\ UNCHANGED <<ok, expired>>
    /\ \/ task[p] = "build" /\ Goto(p, "reclaim") /\ UNCHANGED <<task, gen>>
       \/ task[p] = "evict" /\ Goto(p, "qualify") /\ UNCHANGED <<task, gen>>
       \/ /\ task[p] = "survey" /\ Goto(p, "admit") /\ As(p, "evict")
          /\ gen' = [gen EXCEPT ![p] = NoGen]
    /\ who' = [who EXCEPT ![p] = NoProc]

\* Every step of an inspection reads the lock tree and changes at most the
\* observer records in it.
Inspects(p, l) ==
    /\ p \in up /\ pc[p] = l
    /\ UNCHANGED <<protocol, current, retired, owner, complete, guardVars,
                   entryVars, up, reserved, using, bounds, lease>>

ReadGeneration(p) ==
    /\ Inspects(p, "read") /\ UNCHANGED observers
    /\ \/ MayRefuse /\ Throw(p)
       \/ Available /\ ~protocol /\ Released(p)
       \/ Available /\ protocol /\ current = NoGen /\ Continue(p, "missing") /\ Keep
       \/ /\ Available /\ current # NoGen
          /\ gen' = [gen EXCEPT ![p] = current]
          /\ Continue(p, "register") /\ UNCHANGED who

\* A generation that could not be read is only "released" when a second lookup
\* finds no directory; one that a peer has renamed into place in between is
\* taken for a lock without a valid generation file.
ConfirmMissing(p) ==
    /\ Inspects(p, "missing") /\ UNCHANGED observers
    /\ IF current = NoGen THEN Released(p) ELSE Throw(p)

\* Defect: the observer record is best effort and may be left out.
RegisterObserverMaybe(p) ==
    /\ Inspects(p, "register")
    /\ \/ UNCHANGED observers
       \/ /\ current # NoGen
          /\ observers' = [observers EXCEPT ![current] = @ \cup {p}]
    /\ Continue(p, "confirm") /\ Keep

\* registerPluginBuildLockObserver publishes through the path `current`, so the
\* record may land in a successor of the generation just read; it may also miss
\* it, when the successor has no observers directory yet.
RegisterObserver(p) ==
    /\ Inspects(p, "register")
    /\ \/ /\ current # gen[p] /\ UNCHANGED observers /\ Released(p)
       \/ /\ current # NoGen
          /\ observers' = [observers EXCEPT ![current] = @ \cup {p}]
          /\ Continue(p, "confirm") /\ Keep

ConfirmObserver(p) ==
    /\ Inspects(p, "confirm") /\ UNCHANGED observers
    /\ IF current = gen[p] THEN Continue(p, "owner") /\ Keep ELSE Released(p)

ReadOwner(p) ==
    /\ Inspects(p, "owner") /\ UNCHANGED observers
    /\ who' = [who EXCEPT ![p] = IF current = NoGen THEN NoProc
                                 ELSE owner[current]]
    /\ Continue(p, "reread") /\ UNCHANGED gen

RereadGeneration(p) ==
    /\ Inspects(p, "reread") /\ UNCHANGED observers
    /\ IF current = gen[p] THEN Continue(p, "probe") /\ Keep ELSE Released(p)

\* Defect: any generation but one's own counts as abandoned.
ProbeOwnerSteals(p) ==
    /\ Inspects(p, "probe") /\ UNCHANGED observers
    /\ IF who[p] # p /\ ~Protected THEN Abandoned(p) ELSE Active(p)

\* Defect: a dead owner is reported as active.
ProbeOwnerTrusts(p) ==
    /\ Inspects(p, "probe") /\ UNCHANGED observers
    /\ Active(p)

ProbeOwner(p) ==
    /\ Inspects(p, "probe") /\ UNCHANGED observers
    /\ IF who[p] # NoProc /\ Gone(p, who[p]) /\ ~Protected
       THEN Abandoned(p) ELSE Active(p)

-----------------------------------------------------------------------------
(* reclaimPluginBuildLock                                                  *)

\* removeCacheEntry re-reads the qualified owner through `current` before it
\* retires a generation it found abandoned.
Qualify(p) ==
    /\ Inspects(p, "qualify") /\ UNCHANGED observers
    /\ IF current # NoGen /\ QualifiedGone(p, current, gen[p])
       THEN Continue(p, "reclaim") /\ Keep
       ELSE Skip(p)

Reclaim(p) ==
    /\ p \in up /\ pc[p] = "reclaim"
    /\ \/ /\ ~Releasable(gen[p]) \/ Vanishing
          /\ Throw(p) /\ UNCHANGED <<current, retired>>
       \/ /\ Releasable(gen[p])
          /\ IF CanRetire(gen[p]) THEN Retire(gen[p])
                                  ELSE UNCHANGED <<current, retired>>
          /\ \/ task[p] = "build" /\ Continue(p, "top") /\ Drop(p)
             \/ /\ task[p] = "evict" /\ CanRetire(gen[p])
                /\ Goto(p, "admit") /\ As(p, "retry") /\ Drop(p)
                /\ UNCHANGED <<ok, expired>>
             \/ task[p] = "evict" /\ ~CanRetire(gen[p]) /\ Skip(p)
    /\ UNCHANGED <<protocol, owner, observers, complete, guardVars, entryVars,
                   up, reserved, using, bounds, lease>>

\* OwnedSynchronousProcess.checkpoint: a scoped caller may be cancelled while it
\* waits; nothing of the holder is retired.
Cancel(p) ==
    /\ p \in up \cap Scoped /\ pc[p] \in {"top", "wait"}
    /\ Leave(p)
    /\ UNCHANGED <<lockVars, guardVars, entryVars, up, reserved, using, bounds,
                   lease>>

-----------------------------------------------------------------------------
(* The payload of a build: adopt or compile, publish, register the reader   *)

\* A step of p's payload that leaves the lock tree alone.
Works(p, l) ==
    /\ p \in up /\ pc[p] = l
    /\ UNCHANGED <<lockVars, up, using, expired, bounds, task, lease, gen, who>>

\* The payload ends: the finally of runHoldingLock releases next.
End(p, success) ==
    Goto(p, "release") /\ ok' = [ok EXCEPT ![p] = success]

\* Under the lock the binary is looked for again.
Recheck(p) ==
    /\ Works(p, "held") /\ UNCHANGED <<guardVars, entryVars, reserved>>
    /\ \/ binary /\ Goto(p, "retain") /\ UNCHANGED ok
       \/ ~binary /\ Goto(p, "begin") /\ UNCHANGED ok
       \/ End(p, FALSE)             \* validateAdoption or checkpoint throws

\* Defect: the command is admitted before its guard is published.
BeginNativeUnguarded(p) ==
    /\ Works(p, "begin") /\ UNCHANGED <<entryVars, reserved, ok, guard>>
    /\ native' = native \cup {lease[p]}
    /\ Goto(p, IF p \in Scoped THEN "open" ELSE "native")

\* SourceNativeRetirement.begin opens the guard file before it writes it: in
\* between the file is there and cannot be parsed.  Without a scope the Go
\* command is spawned with no guard.
BeginNative(p) ==
    /\ Works(p, "begin") /\ UNCHANGED <<entryVars, reserved, ok>>
    /\ \/ /\ p \in Scoped
          /\ guard' = [guard EXCEPT ![lease[p]] = "torn"]
          /\ Goto(p, "open") /\ UNCHANGED native
       \/ /\ p \notin Scoped
          /\ native' = native \cup {lease[p]}
          /\ Goto(p, "native") /\ UNCHANGED guard

\* The record is written and the command admitted, or publication fails and is
\* rolled back; a refused rollback leaves the unreadable file behind.
WriteGuard(p) ==
    /\ Works(p, "open") /\ UNCHANGED <<entryVars, reserved>>
    /\ \/ /\ guard' = [guard EXCEPT ![lease[p]] = "pending"]
          /\ native' = native \cup {lease[p]}
          /\ Goto(p, "native") /\ UNCHANGED ok
       \/ /\ Faults
          /\ guard' \in {guard, [guard EXCEPT ![lease[p]] = "none"]}
          /\ End(p, FALSE) /\ UNCHANGED native

\* The command has ended and its owner certifies it: settle(joined) removes the
\* guard.  The compile then succeeds or fails; a guard that cannot be removed
\* fails it.
Join(p) ==
    /\ Works(p, "native") /\ UNCHANGED <<entryVars, reserved>>
    /\ native' = native \ {lease[p]}
    /\ \/ /\ guard' = [guard EXCEPT ![lease[p]] = "none"]
          /\ \/ Goto(p, "publish") /\ UNCHANGED ok
             \/ End(p, FALSE)
       \/ Faults /\ p \in Scoped /\ UNCHANGED guard /\ End(p, FALSE)

\* The relay breaks before it certifies the outcome: settle(unknown).  The
\* record is replaced atomically, and a failed replacement leaves it pending.
LoseNative(p) ==
    /\ Works(p, "native") /\ UNCHANGED <<entryVars, reserved, native>>
    /\ p \in Scoped
    /\ \/ guard' = [guard EXCEPT ![lease[p]] = "unknown"]
       \/ Faults /\ UNCHANGED guard
    /\ End(p, FALSE)

\* publishBuiltBinary: a same-directory rename.
Publish(p) ==
    /\ Works(p, "publish") /\ UNCHANGED <<guardVars, token, reserved>>
    /\ \/ binary' = TRUE /\ Goto(p, "retain") /\ UNCHANGED ok
       \/ Faults /\ UNCHANGED binary /\ End(p, FALSE)

\* hasLiveOwners removes the tokens whose recorded process is gone; a token
\* without an owner record is never provably dead.
Swept(p) ==
    [q \in Proc |-> IF token[q] = "owned" /\ Gone(p, q) THEN "none"
                    ELSE token[q]]

\* PluginBinaryUse.retain, up to the creation of the token directory.  A token
\* an earlier process with this id left is adopted, or refused when its owner
\* record is missing.
Retain(p) ==
    /\ Works(p, "retain") /\ UNCHANGED <<guardVars, binary>>
    /\ IF Holds(p) THEN End(p, TRUE) /\ UNCHANGED <<token, reserved>>
       ELSE \/ /\ token[p] = "owned" /\ token' = Swept(p)
               /\ reserved' = reserved \cup {p} /\ End(p, TRUE)
            \/ /\ token[p] = "bare" /\ token' = Swept(p)
               /\ End(p, FALSE) /\ UNCHANGED reserved
            \/ /\ token[p] = "none"
               /\ token' = [Swept(p) EXCEPT ![p] = "bare"]
               /\ Goto(p, "token") /\ UNCHANGED <<reserved, ok>>

\* The owner record is written; when it cannot be, the token is removed if
\* possible and the build throws.
WriteToken(p) ==
    /\ Works(p, "token") /\ UNCHANGED <<guardVars, binary>>
    /\ \/ /\ token' = [token EXCEPT ![p] = "owned"]
          /\ reserved' = reserved \cup {p} /\ End(p, TRUE)
       \/ /\ Faults
          /\ token' \in {token, [token EXCEPT ![p] = "none"]}
          /\ UNCHANGED reserved /\ End(p, FALSE)

-----------------------------------------------------------------------------
(* releasePluginBuildLock                                                  *)

\* Defect: completion is recorded although the release was deferred.
ReleaseCertifiesEarly(p) ==
    /\ p \in up /\ pc[p] = "release"
    /\ \/ /\ Releasable(lease[p]) /\ CanRetire(lease[p]) /\ Retire(lease[p])
          /\ gen' = [gen EXCEPT ![p] = lease[p]]
          /\ lease' = [lease EXCEPT ![p] = NoGen]
       \/ ~Releasable(lease[p]) /\ UNCHANGED <<current, retired, lease, gen>>
    /\ complete' = complete \cup {lease[p]}
    /\ Goto(p, "complete")
    /\ UNCHANGED <<protocol, owner, observers, guardVars, entryVars,
                   procVars, bounds, task, who, ok>>

\* An unsettled boundary defers the release, a guard file that is still there
\* makes it throw, and the filesystem may refuse the rename: in each case the
\* generation stays held while the outcome of the payload stands.
Release(p) ==
    /\ p \in up /\ pc[p] = "release"
    /\ \/ /\ Releasable(lease[p])
          /\ IF CanRetire(lease[p]) THEN Retire(lease[p])
                                    ELSE UNCHANGED <<current, retired>>
          /\ gen' = [gen EXCEPT ![p] = lease[p]]
          /\ lease' = [lease EXCEPT ![p] = NoGen]
       \/ /\ Faults \/ ~Releasable(lease[p])
          /\ UNCHANGED <<current, retired, lease, gen>>
    /\ Goto(p, "complete")
    /\ UNCHANGED <<protocol, owner, observers, complete, guardVars, entryVars,
                   procVars, bounds, task, who, ok>>

\* recordPluginBuildLockTaskCompletion: the directory at retired/<g> is g, and
\* its owner record names this process.
OwnTombstone(p, g) == g \in Gen /\ retired[g] = g /\ owner[g] = p

\* The completion marker goes into retired/<generation> when the directory
\* there is the one this process owned; then the caller's operation returns.
Complete(p) ==
    /\ p \in up /\ pc[p] = "complete"
    /\ \/ /\ OwnTombstone(p, gen[p])
          /\ complete' = complete \cup {gen[p]}
       \/ /\ Faults \/ ~OwnTombstone(p, gen[p])
          /\ UNCHANGED complete
    /\ IF task[p] = "build"
       THEN /\ using' = IF ok[p] THEN using \cup {p} ELSE using
            /\ IF ok[p] THEN Return(p) ELSE Leave(p)
       ELSE Skip(p) /\ UNCHANGED using
    /\ UNCHANGED <<protocol, current, retired, owner, observers, guardVars,
                   entryVars, up, reserved, bounds, lease>>

-----------------------------------------------------------------------------
(* removeCacheEntry and pruneRetiredLockGenerations                        *)

\* pluginCacheEntryHasUnfinishedRetiredTask over every tombstone.
Unfinished(p) ==
    \E n \in Gen :
        /\ retired[n] # NoGen
        /\ ~(retired[n] = n /\ n \in complete)
        /\ ~QualifiedGone(p, retired[n], n)

CheckUnfinished(p) ==
    /\ Works(p, "unfinished") /\ UNCHANGED <<guardVars, entryVars, reserved>>
    /\ IF Unfinished(p) THEN End(p, FALSE) ELSE Goto(p, "users") /\ UNCHANGED ok

\* Defect: the collector trusts a released key and skips the reader tokens.
CheckUsersSkipped(p) ==
    /\ Works(p, "users") /\ UNCHANGED <<guardVars, entryVars, reserved, ok>>
    /\ Goto(p, "remove")

CheckUsers(p) ==
    /\ Works(p, "users") /\ UNCHANGED <<guardVars, binary, reserved>>
    /\ token' = Swept(p)
    /\ IF \E q \in Proc : Swept(p)[q] # "none"
       THEN End(p, FALSE) ELSE Goto(p, "remove") /\ UNCHANGED ok

\* The whole entry goes, or the removal fails part-way and the binary stays.
RemoveEntry(p) ==
    /\ Works(p, "remove") /\ UNCHANGED <<guardVars, reserved>>
    /\ UNCHANGED token /\ End(p, FALSE)
    /\ \/ ~Protected /\ binary' = FALSE
       \/ (Protected \/ Faults) /\ UNCHANGED binary

\* Defect: a tombstone is collected once its owner is gone.
SweepOneUnobserved(p) ==
    /\ p \in up /\ pc[p] = "sweep"
    /\ \E n \in Gen :
         /\ retired[n] # NoGen
         /\ QualifiedGone(p, retired[n], n)
         /\ gen' = [gen EXCEPT ![p] = n]
    /\ Goto(p, "unlink")
    /\ UNCHANGED <<lockVars, guardVars, entryVars, procVars, bounds,
                   task, lease, who, ok>>

\* One tombstone whose owner and observers are all provably gone.
SweepOne(p) ==
    /\ p \in up /\ pc[p] = "sweep"
    /\ \E n \in Gen :
         /\ retired[n] # NoGen
         /\ QualifiedGone(p, retired[n], n)
         /\ \A q \in observers[n] : Gone(p, q)
         /\ gen' = [gen EXCEPT ![p] = n]
    /\ Goto(p, "unlink")
    /\ UNCHANGED <<lockVars, guardVars, entryVars, procVars, bounds,
                   task, lease, who, ok>>

Unlink(p) ==
    /\ p \in up /\ pc[p] = "unlink"
    /\ \/ ~Protected /\ retired' = [retired EXCEPT ![gen[p]] = NoGen]
       \/ (Protected \/ Faults) /\ UNCHANGED retired
    /\ gen' = [gen EXCEPT ![p] = NoGen]
    /\ Goto(p, "sweep")
    /\ UNCHANGED <<protocol, current, owner, observers, complete, guardVars,
                   entryVars, procVars, bounds, task, lease, who, ok>>

SweepDone(p) ==
    /\ p \in up /\ pc[p] = "sweep"
    /\ Leave(p)
    /\ UNCHANGED <<lockVars, guardVars, entryVars, up, reserved, using, bounds,
                   lease>>

-----------------------------------------------------------------------------
(* Processes and native children come and go                               *)

\* The process is killed between any two of its steps.  Its files stay; its
\* native child may outlive it.
Crash(p) ==
    /\ p \in up /\ crashes < MaxCrashes
    /\ crashes' = crashes + 1
    /\ up' = up \ {p} /\ reserved' = reserved \ {p} /\ using' = using \ {p}
    /\ native' \in {native, native \ {lease[p]}}
    /\ lease' = [lease EXCEPT ![p] = NoGen]
    /\ Leave(p)
    /\ UNCHANGED <<lockVars, guard, entryVars, started>>

\* A later program is given an id that was in use before.
Restart(p) ==
    /\ Reuse /\ p \notin up
    /\ up' = up \cup {p}
    /\ UNCHANGED <<lockVars, guardVars, entryVars, reserved, using, expired,
                   bounds, pc, task, lease, gen, who, ok>>

\* A native child nobody waits for any more ends.
OrphanExit(g) ==
    /\ g \in native
    /\ \A p \in Proc : ~(lease[p] = g /\ pc[p] = "native")
    /\ native' = native \ {g}
    /\ UNCHANGED <<lockVars, guard, entryVars, procVars, bounds,
                   pc, task, lease, gen, who, ok>>

\* An operator removes a guard after confirming, outside the protocol, that
\* the native work is closed.
OperatorConfirm(g) ==
    /\ guard[g] # "none" /\ g \notin native
    /\ \A p \in Proc :
          ~(lease[p] = g /\ pc[p] \in {"open", "native", "release"})
    /\ guard' = [guard EXCEPT ![g] = "none"]
    /\ UNCHANGED <<lockVars, native, entryVars, procVars, bounds,
                   pc, task, lease, gen, who, ok>>

-----------------------------------------------------------------------------

Inspect(p) == \/ ReadGeneration(p) \/ ConfirmMissing(p) \/ RegisterObserver(p)
              \/ ConfirmObserver(p) \/ ReadOwner(p) \/ RereadGeneration(p)
              \/ ProbeOwner(p)

Payload(p) == \/ Recheck(p) \/ BeginNative(p) \/ WriteGuard(p) \/ Join(p)
              \/ LoseNative(p) \/ Publish(p) \/ Retain(p) \/ WriteToken(p)

Collect(p) == \/ CheckUnfinished(p) \/ CheckUsers(p) \/ RemoveEntry(p)
              \/ SweepOne(p) \/ Unlink(p) \/ SweepDone(p)

\* Everything p does by running.
Step(p) == \/ LoopTop(p) \/ Admit(p) \/ Acquire(p) \/ Wait(p) \/ Inspect(p)
           \/ Qualify(p) \/ Reclaim(p) \/ Payload(p) \/ Release(p)
           \/ Complete(p) \/ Collect(p)

Next == \/ \E p \in Proc : \/ StartBuild(p) \/ StartPrune(p) \/ Expire(p)
                           \/ Cancel(p) \/ Step(p) \/ Crash(p) \/ Restart(p)
        \/ \E g \in Gen : OrphanExit(g) \/ OperatorConfirm(g)

Spec == Init /\ [][Next]_vars

\* A running process keeps taking its steps (the code never blocks outside its
\* polling loop, and its native command ends); a prune pass is a loop over one
\* directory listing, so it finishes; and time passes for a waiter that polls
\* for ever.
Fairness == \A p \in Proc : /\ WF_vars(Step(p))
                            /\ SF_vars(SweepDone(p))
                            /\ SF_vars(Expire(p))

FairSpec == Spec /\ Fairness

-----------------------------------------------------------------------------
(* Properties                                                              *)

\* Every lease a running process has not released is the generation at
\* `current`.  So two processes are never both between acquirePluginBuildLock
\* and releasePluginBuildLock, whatever inspections, reclaims, sweeps and
\* crashes interleave with them.
LeaseIsCurrent ==
    \A p \in Proc : lease[p] # NoGen => current = lease[p]

\* retireLockDirectory renames whatever is at `current` onto the tombstone of
\* the generation the caller names.  A tombstone nevertheless only ever holds
\* its own generation: no stale fence or finalizer retires a successor.
TombstonesHonest ==
    \A n \in Gen : retired[n] \in {NoGen, n}

\* The collector never frees a tombstone name onto which a running process can
\* still rename: an abandoned generation that p is about to reclaim is either
\* still held or still occupies its tombstone.
FencesReserved ==
    \A p \in Proc : pc[p] \in FencePc =>
        current = gen[p] \/ retired[gen[p]] = gen[p]

\* A process that was handed the binary's path can run it for the rest of its
\* life: eviction never removes an entry with a live reader.
ReadersKeepBinary ==
    using # {} => binary

\* While the native child of a scoped build runs, its generation keeps the key
\* and nobody publishes, adopts or evicts under another lease, even after the
\* Node process that started it has died or lost track of it.
NativeKeepsKey ==
    \A g \in native : owner[g] \in Scoped => current = g

\* A completion marker certifies that the recorded task has ended: its
\* generation is retired for good, unheld, and has no native child.
CompletionCertified ==
    \A g \in complete : /\ g # current /\ g \notin native
                        /\ \A p \in Proc : lease[p] # g

\* The protocol implements the abstract key: the holder is the process whose
\* lease is at `current`, a generation without one is Dead, and a reader is a
\* running process that holds a token it registered itself.
Holder ==
    IF current = NoGen THEN NoGen
    ELSE IF \E p \in Proc : lease[p] = current
         THEN CHOOSE p \in Proc : lease[p] = current
         ELSE NoProc

Key == INSTANCE PluginKey WITH
           Free <- NoGen, Dead <- NoProc,
           holder <- Holder, present <- binary,
           readers <- {p \in Proc : Holds(p)}

\* Every behaviour of the files is a behaviour of the abstract key: builders,
\* waiters, reclaimers and collectors only ever take, drop, break, publish,
\* register and evict as it allows.
ImplementsKey == Key!Spec

\* Every build and every prune pass comes to an end: it returns, throws, or
\* its process dies.  Nobody waits for a dead holder for ever, and no reclaim
\* loop or sweep runs on.
TaskEnds ==
    \A p \in Proc : pc[p] # "idle" ~> pc[p] = "idle"

\* A generation whose holder died, with no native guard to protect it, while a
\* build of the key is polling.
Stranded(g) ==
    /\ current = g /\ owner[g] \notin up /\ ~Protected
    /\ \E p \in up : pc[p] = "wait"

\* A holder that dies before it publishes does not hold the key up: a waiting
\* build retires exactly its generation.
DeadHolderReclaimed ==
    \A g \in Gen : (Stranded(g) /\ ~binary) ~> current # g

\* The same for a holder that dies, or exits after a failed release, once the
\* binary is published.  The architecture notes say of such a generation that
\* it "is reclaimed as abandoned once its owner exits".
LeftGenerationReclaimed ==
    \A g \in Gen : Stranded(g) ~> current # g

\* A build refuses a key as quarantined only for a guard whose native outcome is
\* unknown, or whose writer stopped half-way; a pending guard makes it wait.
\* This is what acquirePluginBuildLock documents for "pending native guards".
QuarantineJustified ==
    [][\A p \in Proc :
         (pc[p] \in {"top", "admit", "wait", "read"} /\ ~Available
            /\ pc'[p] = "idle" /\ p \in up') =>
         \E g \in Gen :
            \/ guard[g] = "unknown"
            \/ /\ guard[g] = "torn"
               /\ \A q \in Proc : ~(lease[q] = g /\ pc[q] = "open")]_vars

\* An inspection that meets a replaced generation goes on: without native guards
\* in the way, an observation of the lock never fails a build.
\* inspectPluginBuildLock documents it: "A replaced generation causes
\* re-observation or a released handoff".
ReplacementObserved ==
    [][\A p \in Proc :
         (/\ pc[p] \in {"read", "missing", "register", "confirm", "owner", "reread"}
          /\ ~Protected /\ p \in up') => pc'[p] # "idle"]_vars

-----------------------------------------------------------------------------
(* The inductive invariant behind LeaseIsCurrent, TombstonesHonest and      *)
(* FencesReserved                                                          *)

\* After ConfirmObserver an inspection is known to have recorded itself in the
\* generation it is about.
ObservedPc == {"owner", "reread", "probe"} \cup FencePc

\* A generation that is held, retired, leased or being handled was drawn.
Drawn ==
    /\ current # NoGen => owner[current] # NoProc
    /\ \A n \in Gen : retired[n] # NoGen => owner[n] # NoProc
    /\ \A p \in Proc : gen[p] # NoGen => owner[gen[p]] # NoProc

\* The held generation has no tombstone.
OnePlace == current # NoGen => retired[current] = NoGen

\* A lease belongs to the process its owner record names.
LeaseOwned == \A p \in Proc : lease[p] # NoGen => owner[lease[p]] = p

\* A dead process is at no step and holds no lease.
DownIsIdle == \A p \in Proc \ up : pc[p] = "idle" /\ lease[p] = NoGen

\* Steps that use a lease, a fence or a tombstone name have one.
LocalsSet ==
    \A p \in Proc :
        /\ pc[p] \in PayloadPc \cup {"release"} => lease[p] # NoGen
        /\ pc[p] \in ObservedPc \cup {"register", "confirm", "unlink"} =>
              gen[p] # NoGen

\* A confirmed inspection is on record in its generation, and that generation
\* is still held or still occupies its tombstone.
FenceObserved ==
    \A p \in Proc :
        /\ pc[p] = "confirm" /\ current = gen[p] => p \in observers[gen[p]]
        /\ pc[p] \in ObservedPc =>
              /\ p \in observers[gen[p]]
              /\ current = gen[p] \/ retired[gen[p]] = gen[p]

\* The owner an inspection judges is the owner of the generation it fences.
OwnerRead ==
    \A p \in Proc :
        /\ pc[p] = "reread" /\ current = gen[p] => who[p] = owner[gen[p]]
        /\ pc[p] = "probe" => who[p] = owner[gen[p]]

\* Nobody running holds a generation that has been found abandoned.
FenceDead ==
    \A p \in Proc : pc[p] \in FencePc =>
        \A q \in Proc : lease[q] # gen[p]

\* A tombstone chosen for removal is nobody's fence.
UnlinkUnused ==
    \A p \in Proc : pc[p] = "unlink" =>
        /\ current # gen[p]
        /\ \A q \in Proc : pc[q] \in ObservedPc => gen[q] # gen[p]

\* What acquire, inspect, reclaim, release and the tombstone sweep maintain
\* between them: each part is kept by every step only because the others hold.
LockInv ==
    /\ TypeOK
    /\ LeaseIsCurrent /\ TombstonesHonest
    /\ Drawn /\ OnePlace /\ LeaseOwned /\ DownIsIdle /\ LocalsSet
    /\ FenceObserved /\ OwnerRead /\ FenceDead /\ UnlinkUnused

-----------------------------------------------------------------------------
(* What it takes, on top of LockInv, for NativeKeepsKey and                 *)
(* CompletionCertified: when a native child can run, and under which guard  *)

\* Steps at which no native child runs under the lease: before the command of a
\* build, and at every step of a collector or of an unscoped build but the one
\* that waits for the command.
ChildlessPc(p) ==
    {"held", "begin", "open"} \cup
    (IF p \in Scoped THEN {}
     ELSE {"publish", "retain", "token", "unfinished", "users", "remove", "release"})

Childless ==
    \A p \in Proc : pc[p] \in ChildlessPc(p) => lease[p] \notin native

\* A generation with a native child or a completion marker was drawn, so it is
\* never drawn again.
NativeDrawn ==
    \A g \in Gen : g \in native \cup complete => owner[g] # NoProc

\* The child of a scoped build has a guard on disk for as long as it runs.
NativeGuarded ==
    \A g \in native : owner[g] \in Scoped => guard[g] # "none"

\* A generation is remembered only by an inspection, a fence, a sweep, or the
\* holder that has just released it.
Handled ==
    \A p \in Proc : gen[p] # NoGen =>
        pc[p] \in ObservedPc \cup {"register", "confirm", "unlink", "complete"}

\* What the holder that has just released writes its marker about: its own
\* generation, whose child has ended: a guard would have deferred the release.
Finishing ==
    \A p \in Proc : (pc[p] = "complete" /\ gen[p] # NoGen) =>
        owner[gen[p]] = p /\ gen[p] \notin native

NativeInv ==
    /\ Childless /\ NativeDrawn /\ NativeGuarded /\ Handled /\ Finishing
    /\ NativeKeepsKey /\ CompletionCertified

-----------------------------------------------------------------------------
(* And for ReadersKeepBinary: what a reader token and a reservation stand for *)

\* A process that runs the binary has reserved the key, and a reservation is
\* backed by a complete token of a running process.
ReadersRegistered ==
    /\ using \subseteq reserved /\ reserved \subseteq up
    /\ \A p \in reserved : token[p] = "owned"

\* A reservation exists only while the binary does, and so does the step that
\* is about to make one.
ReadersBacked ==
    /\ reserved # {} => binary
    /\ \A p \in Proc : pc[p] \in {"retain", "token"} => binary

\* A successful payload has reserved the key; a token being written has not.
RetainOutcome ==
    \A p \in Proc : /\ ok[p] => p \in reserved
                    /\ pc[p] = "token" => p \notin reserved

\* The collector removes an entry in which it has found no token, and nobody
\* adds one under the collector's lease.
RemovalUnread ==
    \A p \in Proc : pc[p] = "remove" => \A q \in Proc : token[q] = "none"

ReaderInv == ReadersRegistered /\ ReadersBacked /\ RetainOutcome /\ RemovalUnread

\* Everything the steps of one key maintain between them.
KeyInv == LockInv /\ NativeInv /\ ReaderInv
=============================================================================
