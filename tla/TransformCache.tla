---------------------------- MODULE TransformCache ----------------------------
(***************************************************************************)
(* The transform cache of the bundler plugin (runTransformTtsc): the        *)
(* compile of one project, one key of the cache, is shared by the modules   *)
(* the host asks for.  A generation is one captured compile.  Requests      *)
(* interleave at every await; programs edit the project's files at any      *)
(* time.                                                                    *)
(*                                                                         *)
(* An input is represented by its version on disk.  Delivered text is a     *)
(* version of the module's own file, or Rewritten by a plugin that ran      *)
(* before.  Edits change contents; membership of the program stays.         *)
(***************************************************************************)
EXTENDS Naturals, FiniteSets

CONSTANTS
    Requests,   \* callers of transformTtsc, each with one call at a time
    Prepares,   \* those that may call for TtscPrecompilation, before the host
    Inputs,     \* source files
    Modules,    \* the inputs the host asks for
    Asks,       \* Asks[r]: those r asks for
    Deps,       \* Deps[f]: the inputs f's output depends on, itself included
    Volatile,   \* modules whose output reads state no witness records
    Watching,   \* those whose host watches: it cannot take an unobserved result
    Watched,    \* native notifications are trusted (no polling declared)
    Rewritten,  \* text that is not a version of the file
    MaxEvents   \* bound: calls, edits, passes opened, withdrawals, failing
                \* compiles, unobserved inputs, failing watchers, all together

ASSUME RequestAssumption == IsFiniteSet(Requests) /\ Prepares \subseteq Requests
ASSUME ProjectAssumption ==
    /\ Modules \subseteq Inputs /\ Modules # {} /\ Asks \in [Requests -> SUBSET Modules]
    /\ Volatile \subseteq Modules
    /\ Deps \in [Modules -> SUBSET Inputs] /\ \A f \in Modules : f \in Deps[f]
ASSUME HostAssumption == Watching \subseteq Requests /\ Watched \in BOOLEAN
ASSUME BoundAssumption == MaxEvents \in Nat
ASSUME RewrittenAssumption == Rewritten \notin Nat

VARIABLES
    disk,     \* disk[i]: the version of input i
    epoch,    \* the delivery pass, 0 outside one (TRANSFORM_CACHE_EPOCHS)
    cache,    \* the generation cached under the key
    gens,     \* gens[g]: the generation in slot g
    req,      \* req[r]: where request r is
    opened,   \* history: the disk when the pass was opened
    compiled, \* history: captures since there was a reason for one, up to 2
    events

vars == <<disk, epoch, cache, gens, req, opened, compiled, events>>

\* A slot is reused when its generation is neither cached nor awaited.
Slots == 1 .. Cardinality(Requests)
NoGen == 0

Disk == [Inputs -> 0 .. MaxEvents]
Epochs == 0 .. MaxEvents
Waiting == {"await", "settle", "admit", "confirm"}
Ends == {"served", "failed", "replayed", "rejected", "none"}
\* What a finished generation may be used for: everything it can prove; the
\* compiler's own snapshot; a result some input of which was not observed; a
\* diagnostic of a moving project; nothing, because it never held still or threw.
Kinds == {"complete", "snapshot", "fresh", "diagnostic", "unstable", "rejected"}

\* A generation: its progress; kind and result; deliveryEpoch; the walk before
\* the compile and what the compile (of an unstable generation: the walk after
\* it) read; unobs, an input could not be observed; moved, attempts lost to
\* movement; servedFiles; the retained terminal verdict and its pass; retained
\* trackers with their unverified flag, the changes they were told of and still
\* have to be told of, and their drain; withdrawn (history), the host withdrew it.
Generation ==
    [at: {"none", "compile", "walk", "done"}, kind: Kinds,
     result: {"success", "failure"}, epoch: Epochs, before: Disk, inputs: Disk,
     unobs: BOOLEAN, moved: 0 .. 1, served: SUBSET Modules,
     verdict: {"none", "pass", "unstable"}, vepoch: Epochs,
     track: BOOLEAN, unverified: BOOLEAN, heard: SUBSET Inputs,
     owed: SUBSET Inputs,
     drain: [on: BOOLEAN, need: SUBSET Inputs, since: Disk], withdrawn: BOOLEAN]

Version0 == [i \in Inputs |-> 0]
NoDrain == [on |-> FALSE, need |-> {}, since |-> Version0]

Blank ==
    [at |-> "none", kind |-> "complete", result |-> "success", epoch |-> 0,
     before |-> Version0, inputs |-> Version0, unobs |-> FALSE, moved |-> 0,
     served |-> {}, verdict |-> "none", vepoch |-> 0, track |-> FALSE,
     unverified |-> FALSE, heard |-> {}, owed |-> {}, drain |-> NoDrain,
     withdrawn |-> FALSE]

New(e) ==
    [Blank EXCEPT !.at = "compile", !.epoch = e, !.before = disk, !.inputs = disk]

\* A call: its file and delivered text, the pass it is examined in, the
\* generation it waits for or was answered from, own if it captured that one,
\* preparing.  History: floor, the disk it has to be answered for, of its pass or of
\* its arrival; joined, it takes the word of a drain it did not start, and asof, the
\* disk when that drain was started.
Request ==
    [pc: {"idle"} \cup Waiting \cup Ends, file: Modules,
     text: (0 .. MaxEvents) \cup {Rewritten}, epoch: Epochs, floor: Disk,
     joined: BOOLEAN, asof: Disk,
     gen: {NoGen} \cup Slots, own: BOOLEAN,
     preparing: BOOLEAN]

Idle ==
    [pc |-> "idle", file |-> CHOOSE f \in Modules : TRUE, text |-> 0,
     epoch |-> 0, floor |-> Version0, joined |-> FALSE, asof |-> Version0,
     gen |-> NoGen, own |-> FALSE, preparing |-> FALSE]

\* Every variable holds a value of its kind.
TypeOK ==
    /\ disk \in Disk /\ opened \in Disk /\ epoch \in Epochs
    /\ cache \in {NoGen} \cup Slots
    /\ gens \in [Slots -> Generation] /\ req \in [Requests -> Request]
    /\ compiled \in 0 .. 2
    /\ events \in 0 .. MaxEvents

\* n of the bounded events.
Happens(n) == events' = events + n /\ events' <= MaxEvents

Init ==
    /\ disk = Version0 /\ opened = Version0
    /\ epoch = 0 /\ cache = NoGen
    /\ gens = [g \in Slots |-> Blank]
    /\ req = [r \in Requests |-> Idle]
    /\ compiled = 0 /\ events = 0

-----------------------------------------------------------------------------
(* Requests: finding a generation                                          *)

\* Generations nobody can reach any more are forgotten.
Kept(new) ==
    [g \in Slots |->
        IF g = cache' \/ \E r \in Requests : req'[r].pc \in Waiting /\ req'[r].gen = g
        THEN new[g] ELSE Blank]

\* The end of a request, with the generation it was answered from; what a
\* preparation finds is reported to nobody.
End(r, q, outcome) ==
    req' = [req EXCEPT ![r] =
               IF q.preparing THEN [Idle EXCEPT !.pc = "none"]
               ELSE [Idle EXCEPT !.pc = outcome, !.gen = q.gen]]

\* No request but r waits for what is in slot g.
Free(r, g) ==
    \A s \in Requests \ {r} : req[s].pc \in Waiting => req[s].gen # g

\* transformProject, started and cached in one turn, after n captures.
Capture(r, q, n) ==
    LET g == CHOOSE x \in Slots : Free(r, x)
    IN  /\ cache' = g
        /\ req' = [req EXCEPT ![r] = [q EXCEPT !.pc = "await", !.gen = g, !.own = TRUE,
                                               !.joined = FALSE, !.asof = Version0]]
        /\ gens' = Kept([gens EXCEPT ![g] = New(q.epoch)])
        /\ compiled' = IF n = 0 THEN 1 ELSE 2

\* A request waits for the cached generation, or confirms its unstable verdict.
Join(r, q, l) ==
    /\ req' = [req EXCEPT ![r] =
                  [q EXCEPT !.pc = l, !.gen = cache, !.own = FALSE]]
    /\ UNCHANGED <<cache, compiled>>
    /\ gens' = Kept(gens)

\* A pass verdict answers for the pass that produced it and no other.
PassReplays(q) ==
    /\ gens[cache].verdict = "pass"
    /\ q.epoch # 0 /\ gens[cache].vepoch = q.epoch

Entered(q) ==
    [q EXCEPT !.epoch = epoch, !.floor = IF epoch = 0 THEN disk ELSE opened,
              !.joined = FALSE, !.asof = Version0]

\* One turn of the loop, up to its first await.
Enter(r, q0) ==
    LET q == Entered(q0)
    IN  \/ cache = NoGen /\ Capture(r, q, compiled)
        \/ /\ cache # NoGen /\ gens[cache].verdict = "none"
           /\ Join(r, q, "await")
        \/ /\ cache # NoGen /\ gens[cache].verdict = "unstable"
           /\ Join(r, q, "confirm")
        \/ /\ cache # NoGen /\ PassReplays(q)
           /\ End(r, [q EXCEPT !.gen = cache], "failed")
           /\ UNCHANGED <<cache, compiled>>
           /\ gens' = Kept(gens)
        \/ /\ cache # NoGen /\ gens[cache].verdict = "pass" /\ ~PassReplays(q)
           /\ Capture(r, q, 0)

\* A call: a module of the host, or an entry prepared in its text on disk.
Arrive(r) ==
    /\ req[r].pc \notin Waiting /\ Happens(1)
    /\ \E f \in Asks[r], preparing \in BOOLEAN :
       /\ preparing => r \in Prepares
       /\ \E text \in IF preparing THEN {disk[f]} ELSE {disk[f], Rewritten} :
             Enter(r, [Idle EXCEPT !.file = f, !.text = text, !.preparing = preparing])
    /\ UNCHANGED <<disk, epoch, opened>>

\* Defect: what a request has awaited is taken as the cached generation.
SupersededNever(r) == FALSE

\* The generation a request has awaited is no longer the cached one.
Superseded(r) == cache # req[r].gen

Leave(r) ==
    \/ /\ req[r].preparing
       /\ End(r, req[r], "none") /\ UNCHANGED <<cache, compiled>>
       /\ gens' = Kept(gens)
    \/ ~req[r].preparing /\ Enter(r, req[r])

-----------------------------------------------------------------------------
(* Capture of a generation: compile, then walk the project again           *)

\* The compiler reads every input at some moment since the first walk.
Compile(g) ==
    /\ gens[g].at = "compile"
    /\ \E read \in {d \in Disk :
                       \A i \in Inputs : gens[g].before[i] <= d[i] /\ d[i] <= disk[i]},
          result \in {"success", "failure"}, unobs \in BOOLEAN :
          /\ Happens((IF result = "failure" THEN 1 ELSE 0) + (IF unobs THEN 1 ELSE 0))
          /\ gens' = [gens EXCEPT ![g].at = "walk", ![g].inputs = read,
                                  ![g].result = result, ![g].unobs = unobs]
    /\ UNCHANGED <<disk, epoch, cache, req, opened, compiled>>

\* What a finished capture keeps.
Finish(g, kind, inputs) ==
    gens' = [gens EXCEPT ![g] =
                [@ EXCEPT !.at = "done", !.kind = kind, !.inputs = inputs,
                          !.before = Version0, !.moved = 0, !.unobs = FALSE,
                          !.track = kind = "complete" /\ gens[g].epoch = 0 /\ Watched]]

\* The compiler process, or the capture around it, throws.
Throws(g) ==
    /\ gens[g].at = "compile" /\ Happens(1)
    /\ Finish(g, "rejected", gens[g].inputs)
    /\ UNCHANGED <<disk, epoch, cache, req, opened, compiled>>

\* The project held still: the capture proves everything, unless an input could
\* not be observed.  Trackers are retained for a cache that is not in a pass.
WalkStill(g) ==
    /\ disk = gens[g].before
    /\ Finish(g, IF gens[g].unobs THEN "fresh" ELSE "complete", gens[g].inputs)

\* It moved, but the compiler reports a coherent snapshot of what it read.
WalkSnapshot(g) ==
    /\ disk # gens[g].before
    /\ gens[g].result = "success" /\ ~gens[g].unobs
    /\ Finish(g, "snapshot", gens[g].inputs)

\* Defect: an attempt lost to movement is always made again.
WalkRetriesForever(g) ==
    /\ disk # gens[g].before
    /\ gens' = [gens EXCEPT ![g] =
                   [New(gens[g].epoch) EXCEPT !.moved = gens[g].moved + 1]]

\* It moved once: the attempt is disposed and made again.
WalkRetries(g) ==
    /\ disk # gens[g].before /\ gens[g].moved = 0
    /\ gens' = [gens EXCEPT ![g] =
                   [New(gens[g].epoch) EXCEPT !.moved = gens[g].moved + 1,
                                        !.withdrawn = gens[g].withdrawn]]

\* It moved twice: a diagnostic is returned, a success is given up.
WalkEnds(g) ==
    /\ disk # gens[g].before /\ gens[g].moved = 1
    /\ IF gens[g].result = "success"
       THEN Finish(g, "unstable", disk)
       ELSE Finish(g, IF gens[g].unobs THEN "fresh" ELSE "diagnostic", gens[g].inputs)

Walk(g) ==
    /\ gens[g].at = "walk"
    /\ WalkStill(g) \/ WalkSnapshot(g) \/ WalkRetries(g) \/ WalkEnds(g)
    /\ UNCHANGED <<disk, epoch, cache, req, opened, compiled, events>>

-----------------------------------------------------------------------------
(* Delivery (deliverCachedTransform)                                       *)

\* A result with an unobserved input stays cached only inside its own pass.
Retained(r, q, x) ==
    x.kind = "fresh" =>
        r \notin Watching /\ q.epoch # 0 /\ x.epoch = q.epoch /\ x.result = "success"

Refused(r, x) == x.kind = "fresh" /\ x.result = "success" /\ r \in Watching

\* markCachedSourceServed, or the verdict retainPassVerdict keeps.
Marked(q, x) ==
    CASE x.result = "success" -> [x EXCEPT !.served = @ \cup {q.file}]
      [] x.result = "failure" /\ x.verdict = "none" ->
             [x EXCEPT !.verdict = "pass", !.vepoch = q.epoch]
      [] OTHER -> x

\* The answer of generation q.gen, in the state x its admission left it in.
Deliver(r, q, x) ==
    LET kept == Retained(r, q, x) /\ (x.result = "failure" => q.epoch # 0)
    IN  /\ cache' = IF kept THEN cache ELSE NoGen
        /\ End(r, q, IF Refused(r, x) THEN "rejected"
                     ELSE IF x.result = "failure" THEN "failed" ELSE "served")
        /\ gens' = Kept([gens EXCEPT ![q.gen] = Marked(q, x)])
        /\ compiled' = IF kept THEN compiled ELSE 0

-----------------------------------------------------------------------------
(* Requests: awaiting, admission                                           *)

\* The request that captured a generation is the first to be resumed by it.
First(r) ==
    req[r].own \/ \A s \in Requests :
        ~(req[s].pc = "await" /\ req[s].own /\ req[s].gen = req[r].gen)

\* awaitOrEvict, when the generation was rejected.
AwaitRejected(r) ==
    LET g == req[r].gen IN
    /\ gens[g].kind \in {"unstable", "rejected"}
    /\ End(r, req[r], "rejected")
    /\ cache' = IF gens[g].kind = "rejected" /\ cache = g THEN NoGen ELSE cache
    /\ gens' = Kept(IF gens[g].kind = "unstable" /\ cache = g
                    THEN [gens EXCEPT ![g].verdict = "unstable"] ELSE gens)
    /\ compiled' = IF gens[g].kind = "rejected" /\ cache = g THEN 0 ELSE compiled

AwaitOwn(r) ==
    /\ req[r].own /\ ~Superseded(r)
    /\ IF req[r].preparing
       THEN End(r, req[r], "none") /\ UNCHANGED <<cache, compiled>> /\ gens' = Kept(gens)
       ELSE Deliver(r, req[r], gens[req[r].gen])

\* settleMutationTrackers: outside a pass a request joins the drain of the
\* trackers that is under way, or starts one.
AwaitOther(r) ==
    LET q == req[r]
        drain == gens[q.gen].drain
    IN
    /\ ~q.own /\ ~Superseded(r)
    /\ IF q.epoch = 0 /\ gens[q.gen].track
       THEN IF drain.on
            THEN /\ req' = [req EXCEPT ![r].pc = "settle", ![r].joined = TRUE,
                                       ![r].asof = drain.since]
                 /\ UNCHANGED gens
            ELSE /\ req' = [req EXCEPT ![r].pc = "settle"]
                 /\ gens' = [gens EXCEPT ![q.gen].drain =
                       [on |-> TRUE, need |-> gens[q.gen].owed, since |-> disk]]
       ELSE req' = [req EXCEPT ![r].pc = "admit"] /\ UNCHANGED gens
    /\ UNCHANGED <<cache, compiled>>

Await(r) ==
    /\ req[r].pc = "await" /\ gens[req[r].gen].at = "done" /\ First(r)
    /\ \/ AwaitRejected(r)
       \/ /\ gens[req[r].gen].kind \notin {"unstable", "rejected"}
          /\ \/ Superseded(r) /\ Leave(r)
             \/ AwaitOwn(r)
             \/ AwaitOther(r)
    /\ UNCHANGED <<disk, epoch, opened, events>>

\* A drain has ended; it held only if what it waited for was delivered.
Drained(g, held) ==
    /\ gens[g].drain.on
    /\ held => gens[g].drain.need \cap gens[g].owed = {}
    /\ gens' = [gens EXCEPT ![g].drain = NoDrain,
                            ![g].unverified = @ \/ ~held]
    /\ req' = [r \in Requests |->
                  IF req[r].pc = "settle" /\ req[r].gen = g
                  THEN [req[r] EXCEPT !.pc = "admit"] ELSE req[r]]
    /\ UNCHANGED <<disk, epoch, cache, opened, compiled, events>>

\* TtscGenerationProof.sharesPass: a first delivery in the generation's own pass.
SharesPass(q, x) ==
    /\ q.epoch # 0 /\ x.epoch = q.epoch /\ q.file \notin x.served
    /\ \/ x.kind \in {"complete", "snapshot"}
       \/ x.kind = "fresh" /\ x.result = "success"

\* Defect: delivered text must be the text that was compiled.
TextHoldsCompiled(q, x) == q.text = x.inputs[q.file]

\* Delivered text that differs from what was compiled changes nothing while the
\* disk still holds what was compiled.
TextHolds(q, x) ==
    q.text = x.inputs[q.file] \/ disk[q.file] = x.inputs[q.file]

\* matchesCompleteInputSnapshot
WholeHolds(x) == x.kind = "complete" /\ disk = x.inputs

\* A result settled against an earlier pass is proven once for this one.
NeedsPassProof(q, x) == q.epoch # 0 /\ x.kind = "complete" /\ x.epoch # q.epoch

\* Notifications can stand for reading an input.
Narrow(x) ==
    x.kind = "complete" /\ x.result = "success" /\ x.track /\ ~x.unverified

\* matchesNarrowPersistentInputs: an input is read only if a change was heard.
NarrowHolds(q, x) ==
    \A i \in Deps[q.file] : i \in x.heard => disk[i] = x.inputs[i]

\* The validation that decides when the pass does not.
Proves(q, x) ==
    IF Narrow(x) /\ ~NeedsPassProof(q, x) THEN NarrowHolds(q, x) ELSE WholeHolds(x)

\* matchesCachedSource
Matches(q, x) ==
    /\ q.file \notin Volatile
    /\ x.kind \in {"snapshot", "fresh"} => SharesPass(q, x)
    /\ x.kind # "snapshot" => TextHolds(q, x)
    /\ SharesPass(q, x) \/ Proves(q, x)

\* What the proof records: the pass it was made in, and that reading the whole
\* project made up for what the trackers may have missed.
Proven(q, x) ==
    IF SharesPass(q, x) THEN x
    ELSE IF NeedsPassProof(q, x)
    THEN [x EXCEPT !.epoch = q.epoch, !.served = {}, !.unverified = FALSE]
    ELSE IF Narrow(x) THEN x ELSE [x EXCEPT !.unverified = FALSE]

\* Results the code means to compile again for another delivery.
SingleUse(q, x) == q.file \in Volatile \/ x.kind = "fresh"

\* No await between this observation and the delivery.
Admit(r) ==
    LET q == req[r]
        x == gens[q.gen]
    IN
    /\ q.pc = "admit"
    /\ \/ Superseded(r) /\ Leave(r)
       \/ /\ ~Superseded(r) /\ Matches(q, x)
          /\ IF req[r].preparing
             THEN /\ End(r, req[r], "none") /\ UNCHANGED <<cache, compiled>>
                  /\ gens' = Kept([gens EXCEPT ![q.gen] = Proven(q, x)])
             ELSE Deliver(r, q, Proven(q, x))
       \/ /\ ~Superseded(r) /\ ~Matches(q, x)
          /\ Capture(r, q, IF SingleUse(q, x) THEN 0 ELSE compiled)
    /\ UNCHANGED <<disk, epoch, opened, events>>

\* An unstable verdict is replayed in its own pass while its environment stands.
Confirm(r) ==
    LET q == req[r]
        x == gens[q.gen]
        replays == (q.epoch # 0 => x.epoch = q.epoch) /\ disk = x.inputs
    IN
    /\ q.pc = "confirm"
    /\ \/ Superseded(r) /\ Leave(r)
       \/ /\ ~Superseded(r) /\ replays
          /\ End(r, q, "replayed") /\ UNCHANGED <<cache, compiled>>
          /\ gens' = Kept(gens)
       \/ ~Superseded(r) /\ ~replays /\ Capture(r, q, compiled)
    /\ UNCHANGED <<disk, epoch, opened, events>>

-----------------------------------------------------------------------------
(* The host, the watchers and the programs that edit files                 *)

BeginBuild ==
    /\ Happens(1)
    /\ epoch' = epoch + 1 /\ opened' = disk
    /\ UNCHANGED <<disk, cache, gens, req, compiled>>

\* resetTtscTransformCache; pass numbers start again.
Reset ==
    /\ Happens(1)
    /\ cache' = NoGen /\ epoch' = 0 /\ opened' = Version0 /\ compiled' = 0
    /\ UNCHANGED <<disk, req>>
    /\ gens' = Kept([g \in Slots |-> [gens[g] EXCEPT !.withdrawn = TRUE]])

Edit(i) ==
    /\ Happens(1)
    /\ disk' = [disk EXCEPT ![i] = @ + 1] /\ compiled' = 0
    /\ gens' = [g \in Slots |-> IF gens[g].track THEN [gens[g] EXCEPT !.owed = @ \cup {i}]
                                ELSE gens[g]]
    /\ UNCHANGED <<epoch, cache, req, opened>>

Hear(g, i) ==
    /\ i \in gens[g].owed
    /\ gens' = [gens EXCEPT ![g].owed = @ \ {i}, ![g].heard = @ \cup {i}]
    /\ UNCHANGED <<disk, epoch, cache, req, opened, compiled, events>>

\* A failed tracker proves nothing from now on.
WatcherFails(g) ==
    /\ gens[g].track /\ Happens(1)
    /\ gens' = [gens EXCEPT ![g].track = FALSE]
    /\ UNCHANGED <<disk, epoch, cache, req, opened, compiled>>

Step(r) == Await(r) \/ Admit(r) \/ Confirm(r)
Work(g) == Compile(g) \/ Throws(g) \/ Walk(g) \/ \E held \in BOOLEAN : Drained(g, held)

Next ==
    \/ \E r \in Requests : Arrive(r) \/ Step(r)
    \/ \E g \in Slots : Work(g) \/ WatcherFails(g) \/ \E i \in Inputs : Hear(g, i)
    \/ BeginBuild \/ Reset
    \/ \E i \in Inputs : Edit(i)

Spec == Init /\ [][Next]_vars

-----------------------------------------------------------------------------
(* Properties                                                              *)

\* A request as the pass it was answered in examined it.
Examined(r) ==
    IF req[r].pc \in Waiting /\ req[r].gen = req'[r].gen THEN req[r] ELSE Entered(req[r])

\* What q relies on: the disk it has to be answered for, or an older one of the
\* moment the drain it joined was started.
Reaches(q) ==
    [i \in Inputs |-> IF q.joined /\ q.asof[i] <= q.floor[i] THEN q.asof[i]
                      ELSE q.floor[i]]

\* What q may be answered from.
FreshFor(q, x, served) ==
    /\ \A i \in (IF served THEN Deps[q.file] ELSE Inputs) : x.inputs[i] >= Reaches(q)[i]
    /\ served /\ x.kind # "snapshot" /\ q.text # Rewritten => x.inputs[q.file] >= q.text
    /\ ~x.withdrawn

AnsweredFresh(r) ==
    req'[r] # req[r] /\ req'[r].pc \in {"served", "failed", "replayed"} =>
    FreshFor(Examined(r), gens[req'[r].gen], req'[r].pc = "served")

\* deliverCachedTransform, matchesCachedSource: an answer is computed from
\* inputs no older than the opening of the pass it is given in; outside a pass, than
\* the request, or than the start of the drain of notifications the request joined,
\* where that is earlier.  No module is answered from text older than its host has
\* read, unless from the compiler's snapshot of a project that moves, in its own
\* pass; nor from a generation the host has withdrawn.  A diagnostic is about the
\* whole program.
AnswersFresh == [][\A r \in Requests : AnsweredFresh(r)]_vars

\* settleProjectMutationEvents: without the drain "a delivery could validate against
\* a tracker that has not been told yet"; with it, a module asked for outside a pass
\* is answered from dependencies no older than the request, a joined drain or not.
DrainCoversRequest ==
    [][\A r \in Requests :
          LET q == Examined(r)
              x == gens[req'[r].gen]
          IN  req'[r] # req[r] /\ req'[r].pc = "served" /\ q.epoch = 0 =>
              \A i \in Deps[q.file] : x.inputs[i] >= q.floor[i]]_vars

\* beginTtscTransformBuild, retainPassVerdict: the project is compiled once,
\* whatever requests, passes and rewritten texts follow, until there is a reason
\* to compile it again: an edit, a withdrawal, a compile that threw or failed
\* outside a pass, a failure of an earlier pass, or a result for one use only.
CompiledOnce == compiled <= 1

-----------------------------------------------------------------------------
(* Why the safety properties hold: an inductive invariant                  *)

\* No input in d is older than in e.
NoOlder(d, e) == \A i \in Inputs : e[i] <= d[i]

\* Versions and passes are numbered by events.
Counted ==
    /\ epoch <= events /\ \A i \in Inputs : disk[i] <= events
    /\ NoOlder(disk, opened)

\* A capture reads between its first walk and now; only one that was given up
\* is remembered as unstable, and only one that ended is drained.
Captured(x) ==
    /\ NoOlder(disk, x.inputs)
    /\ x.at = "compile" => x.inputs = x.before
    /\ x.at = "walk" => NoOlder(x.inputs, x.before)
    /\ x.verdict = "unstable" => x.at = "done" /\ x.kind = "unstable"
    /\ x.drain.on => x.at = "done"

\* What trackers are not and will not be told of is as it was compiled; nor had
\* it changed when the drain under way was asked for, unless that waits for it.
Observed(x) ==
    x.track =>
    /\ x.at = "done" /\ x.kind = "complete"
    /\ \A i \in Inputs \ (x.owed \cup x.heard) : x.inputs[i] = disk[i]
    /\ x.drain.on =>
          /\ x.drain.need \subseteq x.owed \cup x.heard
          /\ \A i \in Inputs \ (x.drain.need \cup x.heard) :
                x.inputs[i] = x.drain.since[i]

\* Proof and verdicts of this pass are about what the pass allows; a withdrawn
\* generation may carry the number of a pass to come.
InPass(x, e) ==
    ~x.withdrawn => e <= epoch /\ (e = epoch /\ e # 0 => NoOlder(x.inputs, opened))

Dated(x) == InPass(x, x.epoch) /\ (x.verdict = "pass" => InPass(x, x.vepoch))

Generations == \A g \in Slots :
    Captured(gens[g]) /\ Observed(gens[g]) /\ Dated(gens[g])

\* What is cached was never withdrawn.
Cached == cache # NoGen => gens[cache].at # "none" /\ ~gens[cache].withdrawn

\* Text and floor of a request are not of the future; it joins drains outside a pass,
\* and relies on them until it captures.
Asked(q) ==
    /\ NoOlder(disk, q.floor) /\ (q.text # Rewritten => q.text <= disk[q.file])
    /\ q.joined => q.epoch = 0 /\ q.pc \in {"settle", "admit"}

\* The generation a request awaits, as far as the request has come with it.
Awaited(q, x) ==
    /\ x.at # "none"
    /\ q.pc \in {"settle", "admit"} => x.at = "done" /\ x.kind \notin {"unstable", "rejected"}
    /\ q.pc = "confirm" => x.verdict = "unstable"

\* The pass of a request, unless its host has withdrawn what it awaits.
Passing(q, x) ==
    ~x.withdrawn =>
    /\ q.epoch <= epoch /\ (q.epoch = epoch /\ epoch # 0 => q.floor = opened)
    /\ x.epoch = q.epoch /\ q.epoch # 0 => NoOlder(x.inputs, q.floor)

\* What the capture of a request, or the drain it has joined, promises it.
Promised(q, x) ==
    /\ q.pc = "await" /\ q.own =>
          NoOlder(x.inputs, q.floor) /\ (q.text # Rewritten => q.text <= x.inputs[q.file])
    /\ q.pc = "settle" => x.drain.on /\ NoOlder(x.drain.since, Reaches(q))
    /\ q.pc = "admit" /\ q.epoch = 0 /\ x.track /\ ~x.unverified =>
          \A i \in Inputs \ x.heard : Reaches(q)[i] <= x.inputs[i]

Waits(q, x) == Asked(q) /\ Awaited(q, x) /\ Passing(q, x) /\ Promised(q, x)

Waiters == \A r \in Requests :
    req[r].pc \in Waiting => req[r].gen \in Slots /\ Waits(req[r], gens[req[r].gen])

\* While there is no reason to compile again, what is cached is, or will be, what
\* is on disk.
Current(x) ==
    /\ x.at \in {"compile", "walk"} => x.before = disk
    /\ x.at = "done" => \/ x.kind \in {"complete", "fresh"} /\ x.inputs = disk
                        \/ x.kind = "rejected"

Reasoned == compiled # 0 => compiled = 1 /\ cache # NoGen /\ Current(gens[cache])

TransformInv == TypeOK /\ Counted /\ Generations /\ Cached /\ Waiters /\ Reasoned
=============================================================================
