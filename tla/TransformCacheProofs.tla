------------------------ MODULE TransformCacheProofs ------------------------
(***************************************************************************)
(* The transform cache of the bundler plugin: answers are as fresh as their *)
(* pass allows and nothing is compiled twice without a reason, for every    *)
(* set of requests, inputs and dependencies.                                *)
(***************************************************************************)
EXTENDS TransformCache, FiniteSetTheorems, TLAPS

-----------------------------------------------------------------------------
(* Slots and generations.                                                  *)

\* What the invariant says of one generation.
Sound(x) == x \in Generation /\ Captured(x) /\ Observed(x) /\ Dated(x)

\* The bounds are not empty.
LEMMA Numbers ==
    /\ 0 \in 0 .. MaxEvents /\ Version0 \in Disk /\ NoGen \notin Slots
BY BoundAssumption DEF Version0, Disk, NoGen, Slots

\* A slot without a generation.
LEMMA BlankFields ==
    /\ Blank.at = "none" /\ Blank.kind = "complete" /\ Blank.result = "success"
    /\ Blank.epoch = 0 /\ Blank.before = Version0 /\ Blank.inputs = Version0
    /\ Blank.moved = 0 /\ Blank.served = {} /\ Blank.verdict = "none" /\ Blank.vepoch = 0
    /\ ~Blank.unobs /\ ~Blank.track /\ ~Blank.unverified /\ Blank.heard = {}
    /\ Blank.owed = {} /\ Blank.drain = NoDrain /\ ~Blank.withdrawn
    /\ Blank \in Generation
BY Numbers DEF Blank, Generation, NoDrain, Kinds, Epochs

\* Nothing is known of a slot that is empty.
LEMMA BlankSound ==
    ASSUME TypeOK PROVE Sound(Blank)
<1>1. \A i \in Inputs : Version0[i] = 0 /\ disk[i] \in Nat
  BY DEF Version0, TypeOK, Disk
<1>2. epoch \in Nat
  BY DEF TypeOK, Epochs
<1> QED  BY <1>1, <1>2, BlankFields
         DEF NoDrain, Sound, Captured, Observed, Dated, InPass, NoOlder

\* A generation that is captured.
LEMMA NewFields ==
    ASSUME TypeOK, NEW e \in Epochs
    PROVE  /\ New(e) \in Generation /\ New(e).at = "compile" /\ New(e).epoch = e
           /\ New(e).before = disk /\ New(e).inputs = disk /\ New(e).moved = 0
           /\ New(e).verdict = "none" /\ ~New(e).track /\ ~New(e).withdrawn
           /\ ~New(e).drain.on
<1>1. New(e).drain = NoDrain
  BY BlankFields DEF New, Generation
<1>2. ~NoDrain.on
  BY DEF NoDrain
<1> QED  BY <1>1, <1>2, BlankFields DEF New, Generation, TypeOK

\* A capture that starts reads what is on disk, and no pass allows less.
LEMMA NewSound ==
    ASSUME TypeOK, Counted, NEW e \in Epochs, e <= epoch
    PROVE  Sound(New(e))
<1>1. \A i \in Inputs : disk[i] \in Nat
  BY DEF TypeOK, Disk
<1> QED  BY <1>1, NewFields
         DEF Sound, Captured, Observed, Dated, InPass, NoOlder, Counted

\* Some slot is free for a capture: the others wait for one slot each.
LEMMA FreeSlot ==
    ASSUME NEW r \in Requests PROVE \E g \in Slots : Free(r, g)
<1> DEFINE n == Cardinality(Requests)
           S == Requests \ {r}
           f == [s \in S |-> req[s].gen]
           T == {f[s] : s \in S}
<1>1. n \in Nat /\ IsFiniteSet(S) /\ Cardinality(S) = n - 1
  BY RequestAssumption, FS_CardinalityType, FS_RemoveElement
<1>2. IsFiniteSet(T) /\ Cardinality(T) <= n - 1
  <2>1. f \in Surjection(S, T)
    BY DEF Surjection
  <2> HIDE DEF f, T
  <2> QED  BY <1>1, <2>1, FS_Surjection
<1>3. IsFiniteSet(Slots) /\ Cardinality(Slots) = n
  BY <1>1, FS_Interval DEF Slots
<1>4. SUFFICES ASSUME \A g \in Slots : ~Free(r, g) PROVE FALSE
  OBVIOUS
<1>5. Slots \subseteq T
  BY <1>4 DEF Free
<1>6. Cardinality(Slots) <= Cardinality(T)
  BY <1>2, <1>5, FS_Subset
<1>7. Cardinality(T) \in Nat
  BY <1>2, FS_CardinalityType
<1> QED  BY <1>1, <1>2, <1>3, <1>6, <1>7

\* The slots hold what is in new, but for what nobody can reach.
Leaves(new) ==
    /\ gens' = [g \in Slots |-> gens'[g]]
    /\ \A g \in Slots : gens'[g] \in {new[g], Blank}
    /\ \A g \in Slots :
          g = cache' \/ (\E s \in Requests : req'[s].pc \in Waiting /\ req'[s].gen = g)
          => gens'[g] = new[g]

\* Generations are kept or dropped.
LEMMA KeptLeaves ==
    ASSUME NEW new, gens' = Kept(new) PROVE Leaves(new)
BY DEF Kept, Leaves

\* Generations are all kept.
LEMMA SameLeaves ==
    ASSUME NEW new, new = [g \in Slots |-> new[g]], gens' = new PROVE Leaves(new)
BY DEF Leaves

\* What a request relies on is no newer than what it has to be answered for, and no
\* newer than the start of a drain it joined.
LEMMA ReachesOrder ==
    ASSUME NEW q \in Request
    PROVE  /\ Reaches(q) \in Disk /\ NoOlder(q.floor, Reaches(q))
           /\ q.joined => NoOlder(q.asof, Reaches(q))
           /\ ~q.joined => Reaches(q) = q.floor
<1>1. q.floor \in Disk /\ q.asof \in Disk
  BY DEF Request
<1>2. \A i \in Inputs : q.floor[i] \in 0 .. MaxEvents /\ q.asof[i] \in 0 .. MaxEvents
  BY <1>1 DEF Disk
<1>3. Reaches(q) \in Disk
  BY <1>2 DEF Reaches, Disk
<1>4. ~q.joined => Reaches(q) = q.floor
  BY <1>1 DEF Reaches, Disk
<1>5. NoOlder(q.floor, Reaches(q)) /\ (q.joined => NoOlder(q.asof, Reaches(q)))
  BY <1>2 DEF Reaches, NoOlder
<1> QED  BY <1>3, <1>4, <1>5

\* What is as new as a request asks is as new as what it relies on.
LEMMA FloorReaches ==
    ASSUME NEW q \in Request, NEW d \in Disk, NoOlder(d, q.floor)
    PROVE  NoOlder(d, Reaches(q))
<1>1. \A i \in Inputs : d[i] \in Nat /\ q.floor[i] \in Nat /\ Reaches(q)[i] \in Nat
  BY ReachesOrder DEF Disk, Request
<1> QED  BY <1>1, ReachesOrder DEF NoOlder

-----------------------------------------------------------------------------
(* Steps of one request.  The disk and the pass stay.                      *)

Stays == UNCHANGED <<disk, epoch, opened>> /\ events' \in events .. MaxEvents

\* What was known of a generation still is.
LEMMA StaysKnown ==
    ASSUME Stays, NEW x, NEW q
    PROVE  Sound(x)' = Sound(x) /\ Waits(q, x)' = Waits(q, x) /\ Current(x)' = Current(x)
BY DEF Stays, Sound, Captured, Observed, Dated, InPass, Waits, Asked, Awaited, Passing,
       Promised, Current, NoOlder

\* The requests are where req' has them and the generations what is in new.
LEMMA GenerationsKeep ==
    ASSUME TransformInv, Stays, req' \in [Requests -> Request],
           NEW new, Leaves(new), \A g \in Slots : Sound(new[g]),
           \A s \in Requests : req'[s].pc \in Waiting =>
              req'[s].gen \in Slots /\ Waits(req'[s], new[req'[s].gen]),
           cache' \in {NoGen} \cup Slots,
           cache' # NoGen => new[cache'].at # "none" /\ ~new[cache'].withdrawn,
           compiled' \in {0, 1}, compiled' = 1 => cache' # NoGen /\ Current(new[cache'])
    PROVE  TransformInv'
<1> USE DEF TransformInv
<1>1. \A g \in Slots : gens'[g] \in {new[g], Blank}
  BY DEF Leaves
<1>2. \A g \in Slots : Sound(gens'[g])
  BY <1>1, BlankSound
<1>3. cache' # NoGen => gens'[cache'] = new[cache']
  BY DEF Leaves
<1>4. \A s \in Requests : req'[s].pc \in Waiting =>
         req'[s].gen \in Slots /\ Waits(req'[s], gens'[req'[s].gen])
  <2> TAKE s \in Requests
  <2> HAVE req'[s].pc \in Waiting
  <2>1. gens'[req'[s].gen] = new[req'[s].gen]
    BY DEF Leaves
  <2> QED  BY <2>1
<1>5. TypeOK'
  <2>1. gens' \in [Slots -> Generation]
    BY <1>2 DEF Sound, Leaves
  <2>2. events' \in 0 .. MaxEvents
    BY BoundAssumption DEF Stays, TypeOK
  <2> QED  BY <2>1, <2>2 DEF TypeOK, Stays
<1>6. Counted'
  BY BoundAssumption DEF Counted, Stays, TypeOK, Epochs, Disk, NoOlder
<1>7. Generations'
  <2>1. (\A g \in Slots : Sound(gens[g]))'
    BY <1>2, StaysKnown
  <2> QED  BY <2>1 DEF Generations, Sound
<1>8. Cached'
  BY <1>3 DEF Cached
<1>9. Waiters'
  BY <1>4, StaysKnown DEF Waiters
<1>10. Reasoned'
  BY <1>3, StaysKnown DEF Reasoned
<1> QED  BY <1>5, <1>6, <1>7, <1>8, <1>9, <1>10

\* A request goes on as p and leaves the generations as they are in new.
LEMMA RequestKeeps ==
    ASSUME TransformInv, Stays, NEW r \in Requests, NEW p \in Request,
           req' = [req EXCEPT ![r] = p],
           NEW new, Leaves(new), \A g \in Slots : Sound(new[g]),
           \A s \in Requests \ {r} :
              req[s].pc \in Waiting => Waits(req[s], new[req[s].gen]),
           p.pc \in Waiting => p.gen \in Slots /\ Waits(p, new[p.gen]),
           cache' \in {NoGen} \cup Slots,
           cache' # NoGen => new[cache'].at # "none" /\ ~new[cache'].withdrawn,
           compiled' \in {0, 1}, compiled' = 1 => cache' # NoGen /\ Current(new[cache'])
    PROVE  TransformInv'
<1>1. req' \in [Requests -> Request] /\ \A s \in Requests : req'[s] = IF s = r THEN p ELSE req[s]
  BY DEF TransformInv, TypeOK
<1>2. \A s \in Requests : req'[s].pc \in Waiting =>
         req'[s].gen \in Slots /\ Waits(req'[s], new[req'[s].gen])
  BY <1>1 DEF TransformInv, Waiters
<1> QED  BY <1>1, <1>2, GenerationsKeep

\* A request at rest, and at its end.
LEMMA IdleTyped ==
    /\ Idle \in Request /\ Idle.pc = "idle" /\ Idle.floor = Version0 /\ ~Idle.own
    /\ ~Idle.joined
    /\ \A pc \in {"idle"} \cup Ends, g \in {NoGen} \cup Slots :
          /\ [Idle EXCEPT !.pc = pc] \in Request /\ [Idle EXCEPT !.pc = pc].pc = pc
          /\ [Idle EXCEPT !.pc = pc, !.gen = g] \in Request
          /\ [Idle EXCEPT !.pc = pc, !.gen = g].pc = pc
BY Numbers, ProjectAssumption DEF Idle, Request, Epochs

\* What every slot of generations satisfies.
LEMMA SoundSlots ==
    ASSUME TransformInv, NEW g \in Slots PROVE Sound(gens[g])
BY DEF TransformInv, TypeOK, Generations, Sound

\* A request in a pass that is current, or in that of what it awaits.
Entering(q) ==
    /\ q \in Request /\ Asked(q) /\ q.epoch <= epoch
    /\ q.epoch = epoch /\ epoch # 0 => q.floor = opened

\* A capture starts when there is a reason for one.
LEMMA CaptureKeeps ==
    ASSUME TransformInv, Stays, NEW r \in Requests, NEW q, Entering(q), Capture(r, q, 0)
    PROVE  TransformInv'
<1>0. PICK g \in Slots :
        /\ Free(r, g) /\ cache' = g /\ compiled' = 1
        /\ req' = [req EXCEPT ![r] = [q EXCEPT !.pc = "await", !.gen = g, !.own = TRUE,
                                               !.joined = FALSE, !.asof = Version0]]
        /\ gens' = Kept([gens EXCEPT ![g] = New(q.epoch)])
  BY FreeSlot DEF Capture
<1> DEFINE p == [q EXCEPT !.pc = "await", !.gen = g, !.own = TRUE,
                      !.joined = FALSE, !.asof = Version0]
           new == [gens EXCEPT ![g] = New(q.epoch)]
<1>1. /\ p \in Request /\ p.pc = "await" /\ p.gen = g /\ p.own /\ p.epoch = q.epoch
      /\ p.floor = q.floor /\ p.text = q.text /\ p.file = q.file /\ ~p.joined
  BY Numbers DEF Entering, Request, Waiting
<1>2. q.epoch \in Epochs /\ q.epoch <= epoch
  BY DEF Entering, Request
<1>3. \A h \in Slots : new[h] = IF h = g THEN New(q.epoch) ELSE gens[h]
  BY DEF TransformInv, TypeOK
<1>4. Sound(New(q.epoch))
  BY <1>2, NewSound DEF TransformInv
<1>5. \A h \in Slots : Sound(new[h])
  BY <1>3, <1>4, SoundSlots
<1>6. \A s \in Requests \ {r} : req[s].pc \in Waiting => Waits(req[s], new[req[s].gen])
  BY <1>0, <1>3 DEF Free, TransformInv, Waiters
<1>7. Waits(p, new[g])
  <2>1. Asked(p)
    BY <1>1 DEF Entering, Asked
  <2>2. New(q.epoch).at = "compile" /\ New(q.epoch).inputs = disk
    BY <1>2, NewFields DEF TransformInv
  <2>3. q.text # Rewritten => q.text <= disk[q.file]
    BY DEF Entering, Asked
  <2> QED  BY <1>1, <1>3, <2>1, <2>2, <2>3
           DEF Waits, Awaited, Passing, Promised, Asked, Entering
<1>8. new[g].at # "none" /\ ~new[g].withdrawn /\ Current(new[g])
  BY <1>2, <1>3, NewFields DEF Current, TransformInv
<1>9. g # NoGen
  BY Numbers
<1> HIDE DEF p, new
<1>10. \A s \in Requests \ {r} : req[s].pc \in Waiting => Waits(req[s], new[req[s].gen])
  BY <1>6
<1>11. req' = [req EXCEPT ![r] = p] /\ gens' = Kept(new)
  BY <1>0 DEF p, new
<1> QED  BY <1>0, <1>1, <1>5, <1>7, <1>8, <1>9, <1>10, <1>11, KeptLeaves, RequestKeeps

\* A request that ends, or goes on waiting, and leaves the generations alone.
LEMMA GenerationsLeft ==
    ASSUME TransformInv, Stays, NEW r \in Requests, NEW p \in Request,
           req' = [req EXCEPT ![r] = p], Leaves(gens),
           p.pc \in Waiting => p.gen \in Slots /\ Waits(p, gens[p.gen]),
           \/ cache' = cache /\ compiled' = compiled
           \/ cache' = NoGen /\ compiled' = 0
    PROVE  TransformInv'
<1>1. \A g \in Slots : Sound(gens[g])
  BY SoundSlots
<1>2. \A s \in Requests \ {r} : req[s].pc \in Waiting => Waits(req[s], gens[req[s].gen])
  BY DEF TransformInv, Waiters
<1>3. /\ cache' \in {NoGen} \cup Slots
      /\ cache' # NoGen => gens[cache'].at # "none" /\ ~gens[cache'].withdrawn
      /\ compiled' \in {0, 1} /\ (compiled' = 1 => cache' # NoGen /\ Current(gens[cache']))
  BY DEF TransformInv, Cached, Reasoned, TypeOK
<1> QED  BY <1>1, <1>2, <1>3, RequestKeeps

\* A request that ends is at an end.
LEMMA EndsIn ==
    ASSUME NEW r, NEW q \in Request, NEW outcome \in Ends, End(r, q, outcome)
    PROVE  \E p \in Request : p.pc \in Ends /\ req' = [req EXCEPT ![r] = p]
<1>1. q.gen \in {NoGen} \cup Slots
  BY DEF Request
<1> QED  BY <1>1, IdleTyped DEF End, Ends

\* A request that ends without touching a generation keeps the invariant.
LEMMA EndLeaves ==
    ASSUME TransformInv, Stays, NEW r \in Requests, NEW q \in Request,
           NEW outcome \in Ends, End(r, q, outcome), gens' = Kept(gens),
           \/ cache' = cache /\ compiled' = compiled
           \/ cache' = NoGen /\ compiled' = 0
    PROVE  TransformInv'
<1>1. \E p \in Request : p.pc \in Ends /\ req' = [req EXCEPT ![r] = p]
  BY EndsIn
<1> QED  BY <1>1, KeptLeaves, GenerationsLeft DEF Ends, Waiting

\* A request joins the generation in the cache.
LEMMA JoinKeeps ==
    ASSUME TransformInv, Stays, NEW r \in Requests, NEW q, Entering(q), cache # NoGen,
           q.epoch = epoch, ~q.joined, NEW l, Join(r, q, l),
           l = "await" \/ (l = "confirm" /\ gens[cache].verdict = "unstable")
    PROVE  TransformInv'
<1> DEFINE p == [q EXCEPT !.pc = l, !.gen = cache, !.own = FALSE]
<1>0. cache \in Slots
  BY DEF TransformInv, TypeOK
<1>1. /\ p \in Request /\ p.pc = l /\ p.gen = cache /\ ~p.own /\ p.epoch = q.epoch
      /\ p.floor = q.floor /\ p.text = q.text /\ p.file = q.file /\ ~p.joined
  BY <1>0 DEF Entering, Request, Waiting
<1>2. Asked(p)
  BY <1>1 DEF Entering, Asked
<1>3. Passing(p, gens[cache])
  <2>1. Dated(gens[cache])
    BY <1>0 DEF TransformInv, Generations
  <2> QED  BY <1>1, <2>1 DEF Passing, Dated, InPass, Entering
<1>4. Waits(p, gens[cache])
  BY <1>1, <1>2, <1>3 DEF Waits, Awaited, Promised, TransformInv, Cached
<1> HIDE DEF p
<1>5. req' = [req EXCEPT ![r] = p] /\ gens' = Kept(gens) /\ UNCHANGED <<cache, compiled>>
  BY DEF Join, p
<1> QED  BY <1>0, <1>1, <1>4, <1>5, KeptLeaves, GenerationsLeft

\* One turn of the loop.
LEMMA EnterKeeps ==
    ASSUME TransformInv, Stays, NEW r \in Requests, NEW q0 \in Request,
           q0.text # Rewritten => q0.text <= disk[q0.file], Enter(r, q0)
    PROVE  TransformInv'
<1> DEFINE q == Entered(q0)
<1>1. Entering(q) /\ q.epoch = epoch /\ ~q.joined
  <2>1. /\ q \in Request /\ q.epoch = epoch /\ q.text = q0.text /\ q.file = q0.file
        /\ q.floor = (IF epoch = 0 THEN disk ELSE opened) /\ ~q.joined
    BY Numbers DEF TransformInv, TypeOK, Entered, Request
  <2>2. epoch \in Nat /\ \A i \in Inputs : disk[i] \in Nat
    BY DEF TransformInv, TypeOK, Epochs, Disk
  <2>3. Asked(q)
    BY <2>1, <2>2 DEF Asked, NoOlder, TransformInv, Counted
  <2> QED  BY <2>1, <2>2, <2>3 DEF Entering
<1> HIDE DEF q
<1>2. CASE cache = NoGen /\ Capture(r, q, compiled)
  <2>1. compiled = 0
    BY <1>2 DEF TransformInv, Reasoned
  <2> QED  BY <1>1, <1>2, <2>1, CaptureKeeps
<1>3. CASE cache # NoGen /\ Join(r, q, "await")
  BY <1>1, <1>3, JoinKeeps
<1>4. CASE cache # NoGen /\ gens[cache].verdict = "unstable" /\ Join(r, q, "confirm")
  BY <1>1, <1>4, JoinKeeps
<1>5. CASE /\ cache # NoGen /\ End(r, [q EXCEPT !.gen = cache], "failed")
           /\ UNCHANGED <<cache, compiled>> /\ gens' = Kept(gens)
  <2>1. [q EXCEPT !.gen = cache] \in Request
    BY <1>1, <1>5 DEF Entering, Request, TransformInv, TypeOK
  <2> QED  BY <1>5, <2>1, EndLeaves DEF Ends
<1>6. CASE Capture(r, q, 0)
  BY <1>1, <1>6, CaptureKeeps
<1> QED  BY <1>2, <1>3, <1>4, <1>5, <1>6 DEF Enter, q

-----------------------------------------------------------------------------
(* Delivery.                                                               *)

\* y is x with more proof than a request that waits for x may know of.
Extends(y, x) ==
    /\ y \in Generation /\ y.at = x.at /\ y.kind = x.kind /\ y.result = x.result
    /\ y.withdrawn = x.withdrawn /\ y.before = x.before /\ y.inputs = x.inputs
    /\ y.track = x.track /\ x.heard \subseteq y.heard
    /\ x.verdict = "unstable" => y.verdict = "unstable"
    /\ x.drain.on => y.drain = x.drain
    /\ y.epoch = x.epoch \/ x.inputs = disk
    /\ ~y.unverified => ~x.unverified \/ x.inputs = disk

\* What trackers saw stays right when the answers to them are left alone.
LEMMA ExtendsObserved ==
    ASSUME NEW x, NEW y, Extends(y, x), Observed(x),
           y.owed = x.owed, y.heard = x.heard, y.drain = x.drain
    PROVE  Observed(y)
<1>1. y.track = x.track /\ y.at = x.at /\ y.kind = x.kind /\ y.inputs = x.inputs
  BY DEF Extends
<1> QED  BY <1>1 DEF Observed

\* What a request waits for may grow.
LEMMA ExtendsWaits ==
    ASSUME TypeOK, NEW q \in Request, NEW x, NEW y, Extends(y, x), Waits(q, x)
    PROVE  Waits(q, y)
<1>1. Asked(q) /\ Awaited(q, y)
  BY DEF Waits, Awaited, Extends
<1>2. Passing(q, y)
  BY DEF Waits, Passing, Extends, Asked
<1>3. NoOlder(disk, Reaches(q))
  BY FloorReaches DEF TypeOK, Waits, Asked
<1>4. Promised(q, y)
  BY <1>3 DEF Waits, Promised, Extends, Asked, NoOlder
<1> QED  BY <1>1, <1>2, <1>4 DEF Waits

\* A generation that grows stays current.
LEMMA ExtendsCurrent ==
    ASSUME NEW x, NEW y, Extends(y, x), Current(x) PROVE Current(y)
BY DEF Current, Extends

\* A delivery marks its module as served, or keeps its failure for its pass.
LEMMA MarkedFields ==
    ASSUME NEW q \in Request, NEW x \in Generation
    PROVE  LET y == Marked(q, x)
           IN  /\ y \in Generation /\ Extends(y, x)
               /\ y.epoch = x.epoch /\ y.owed = x.owed /\ y.heard = x.heard
               /\ y.drain = x.drain /\ y.unverified = x.unverified
               /\ \/ y.verdict = x.verdict /\ y.vepoch = x.vepoch
                  \/ x.result = "failure" /\ y.verdict = "pass" /\ y.vepoch = q.epoch
<1>1. CASE x.result = "success"
  <2>1. Marked(q, x) = [x EXCEPT !.served = x.served \cup {q.file}]
    BY <1>1 DEF Marked
  <2>2. x.served \cup {q.file} \subseteq Modules
    BY DEF Request, Generation
  <2> QED  BY <2>1, <2>2 DEF Generation, Extends
<1>2. CASE x.result = "failure" /\ x.verdict = "none"
  <2>1. Marked(q, x) = [x EXCEPT !.verdict = "pass", !.vepoch = q.epoch]
    BY <1>2 DEF Marked
  <2>2. q.epoch \in Epochs
    BY DEF Request
  <2> QED  BY <1>2, <2>1, <2>2 DEF Generation, Extends
<1>3. CASE x.result = "failure" /\ x.verdict # "none"
  <2>1. Marked(q, x) = x
    BY <1>3 DEF Marked
  <2> QED  BY <2>1 DEF Extends
<1> QED  BY <1>1, <1>2, <1>3 DEF Generation

\* How a delivery ends for its request.
LEMMA DeliverOutcome ==
    ASSUME NEW r, NEW q, NEW x, Deliver(r, q, x)
    PROVE  \E outcome \in Ends :
              /\ End(r, q, outcome) /\ outcome # "replayed"
              /\ outcome = "served" => x.result # "failure"
              /\ outcome = "failed" => x.result = "failure"
<1> DEFINE o == IF Refused(r, x) THEN "rejected"
                ELSE IF x.result = "failure" THEN "failed" ELSE "served"
<1>1. End(r, q, o)
  BY DEF Deliver
<1>2. CASE Refused(r, x)
  <2>1. o = "rejected"
    BY <1>2 DEF Refused
  <2> HIDE DEF o
  <2> QED  BY <1>1, <2>1 DEF Ends
<1>3. CASE ~Refused(r, x) /\ x.result = "failure"
  <2>1. o = "failed"
    BY <1>3
  <2> HIDE DEF o
  <2> QED  BY <1>1, <1>3, <2>1 DEF Ends
<1>4. CASE ~Refused(r, x) /\ x.result # "failure"
  <2>1. o = "served"
    BY <1>4
  <2> HIDE DEF o
  <2> QED  BY <1>1, <1>4, <2>1 DEF Ends
<1> QED  BY <1>2, <1>3, <1>4

\* The answer of a generation that its admission left as x.
LEMMA DeliverKeeps ==
    ASSUME TransformInv, Stays, NEW r \in Requests, req[r].pc \in Waiting,
           cache = req[r].gen, NEW x, Deliver(r, req[r], x), Sound(x),
           Extends(x, gens[req[r].gen]), compiled # 0 => Current(x),
           x.result = "failure" => NoOlder(x.inputs, Reaches(req[r]))
    PROVE  TransformInv'
<1> DEFINE q == req[r]
           y == Marked(q, x)
           new == [gens EXCEPT ![q.gen] = y]
<1>0. /\ q \in Request /\ q.gen \in Slots /\ cache # NoGen /\ Waits(q, gens[q.gen])
      /\ x \in Generation /\ x.at # "none" /\ ~x.withdrawn
  BY Numbers DEF TransformInv, TypeOK, Waiters, Waits, Awaited, Extends, Cached
<1>1. /\ y \in Generation /\ Extends(y, x)
      /\ y.epoch = x.epoch /\ y.owed = x.owed /\ y.heard = x.heard
      /\ y.drain = x.drain /\ y.unverified = x.unverified
      /\ \/ y.verdict = x.verdict /\ y.vepoch = x.vepoch
         \/ x.result = "failure" /\ y.verdict = "pass" /\ y.vepoch = q.epoch
  BY <1>0, MarkedFields
<1>2. \A h \in Slots : new[h] = IF h = q.gen THEN y ELSE gens[h]
  BY DEF TransformInv, TypeOK
<1> HIDE DEF y, new
<1>3. Sound(y)
  <2>1. Captured(y)
    BY <1>1 DEF Captured, Sound, Extends
  <2>2. Observed(y)
    BY <1>1, ExtendsObserved DEF Sound
  <2>3. x.result = "failure" => InPass(y, q.epoch)
    <3>1. q.epoch # 0 => Reaches(q) = q.floor
      BY <1>0, ReachesOrder DEF Waits, Asked
    <3> QED  BY <1>0, <1>1, <3>1 DEF InPass, Extends, Waits, Passing
  <2>4. Dated(y)
    BY <1>1, <2>3 DEF Dated, InPass, Sound, Extends
  <2> QED  BY <1>1, <2>1, <2>2, <2>4 DEF Sound
<1>4. \A h \in Slots : Sound(new[h])
  BY <1>2, <1>3, SoundSlots
<1>5. \A s \in Requests \ {r} : req[s].pc \in Waiting => Waits(req[s], new[req[s].gen])
  <2> TAKE s \in Requests \ {r}
  <2> HAVE req[s].pc \in Waiting
  <2>1. req[s].gen \in Slots /\ Waits(req[s], gens[req[s].gen])
    BY DEF TransformInv, Waiters
  <2>2. req[s].gen = q.gen => Waits(req[s], y)
    BY <1>1, <2>1, ExtendsWaits DEF TransformInv, TypeOK
  <2> QED  BY <1>2, <2>1, <2>2
<1>6. \/ cache' = cache /\ compiled' = compiled
      \/ cache' = NoGen /\ compiled' = 0
  BY DEF Deliver
<1>7. y.at # "none" /\ ~y.withdrawn /\ (compiled # 0 => Current(y))
  BY <1>0, <1>1, ExtendsCurrent DEF Extends
<1>8. /\ cache' \in {NoGen} \cup Slots
      /\ cache' # NoGen => new[cache'].at # "none" /\ ~new[cache'].withdrawn
      /\ compiled' \in {0, 1} /\ (compiled' = 1 => cache' # NoGen /\ Current(new[cache']))
  BY <1>0, <1>2, <1>6, <1>7 DEF TransformInv, Reasoned
<1>9. \E p \in Request : p.pc \in Ends /\ req' = [req EXCEPT ![r] = p]
  BY <1>0, DeliverOutcome, EndsIn
<1>10. gens' = Kept(new)
  BY DEF Deliver, new, y
<1> QED  BY <1>4, <1>5, <1>8, <1>9, <1>10, KeptLeaves, RequestKeeps DEF Ends, Waiting

-----------------------------------------------------------------------------
(* Awaiting and admission.                                                 *)

\* What a waiting request and the generation it awaits are.
LEMMA WaiterKnows ==
    ASSUME TransformInv, NEW r \in Requests, req[r].pc \in Waiting
    PROVE  /\ req[r] \in Request /\ req[r].gen \in Slots /\ req[r].gen # NoGen
           /\ Waits(req[r], gens[req[r].gen]) /\ Sound(gens[req[r].gen])
           /\ cache = req[r].gen =>
                 /\ ~gens[req[r].gen].withdrawn /\ Entering(req[r])
                 /\ compiled # 0 => Current(gens[req[r].gen])
<1>1. /\ req[r] \in Request /\ req[r].gen \in Slots /\ req[r].gen # NoGen
      /\ Waits(req[r], gens[req[r].gen])
  BY Numbers DEF TransformInv, TypeOK, Waiters
<1>2. Sound(gens[req[r].gen])
  BY <1>1, SoundSlots
<1>3. cache = req[r].gen => /\ ~gens[req[r].gen].withdrawn
                            /\ compiled # 0 => Current(gens[req[r].gen])
  BY <1>1 DEF TransformInv, Cached, Reasoned
<1>4. cache = req[r].gen => Entering(req[r])
  BY <1>1, <1>3 DEF Waits, Passing, Entering
<1> QED  BY <1>1, <1>2, <1>3, <1>4

\* A generation that stays as it is grows.
LEMMA ExtendsItself ==
    ASSUME NEW x \in Generation PROVE Extends(x, x)
BY DEF Extends

\* A request leaves the generation it waits for.
LEMMA LeaveKeeps ==
    ASSUME TransformInv, Stays, NEW r \in Requests, req[r].pc \in Waiting, Leave(r)
    PROVE  TransformInv'
<1>1. req[r] \in Request /\ Asked(req[r])
  BY WaiterKnows DEF Waits
<1>2. CASE /\ End(r, req[r], "none") /\ UNCHANGED <<cache, compiled>>
           /\ gens' = Kept(gens)
  BY <1>1, <1>2, EndLeaves DEF Ends
<1>3. CASE Enter(r, req[r])
  BY <1>1, <1>3, EnterKeeps DEF Asked
<1> QED  BY <1>2, <1>3 DEF Leave

\* The compile a request awaits has thrown.
LEMMA RejectedKeeps ==
    ASSUME TransformInv, Stays, NEW r \in Requests, req[r].pc = "await",
           gens[req[r].gen].at = "done", AwaitRejected(r)
    PROVE  TransformInv'
<1> DEFINE g == req[r].gen
           y == [gens[g] EXCEPT !.verdict = "unstable"]
           new == [gens EXCEPT ![g].verdict = "unstable"]
<1>0. req[r].pc \in Waiting
  BY DEF Waiting
<1>1. /\ req[r] \in Request /\ g \in Slots /\ g # NoGen /\ Waits(req[r], gens[g])
      /\ Sound(gens[g]) /\ End(r, req[r], "rejected") /\ "rejected" \in Ends
  BY <1>0, WaiterKnows DEF AwaitRejected, Ends
<1>2. CASE gens[g].kind = "rejected" \/ cache # g
  <2>1. gens' = Kept(gens)
    BY <1>2 DEF AwaitRejected
  <2>2. \/ cache' = cache /\ compiled' = compiled
        \/ cache' = NoGen /\ compiled' = 0
    BY <1>2 DEF AwaitRejected
  <2> QED  BY <1>1, <2>1, <2>2, EndLeaves
<1>3. CASE gens[g].kind = "unstable" /\ cache = g
  <2>1. gens' = Kept(new) /\ cache' = cache /\ compiled' = compiled
    BY <1>3 DEF AwaitRejected
  <2>2. Extends(y, gens[g])
    BY <1>1 DEF Extends, Sound, Generation
  <2>3. /\ y.verdict = "unstable" /\ y.epoch = gens[g].epoch /\ y.owed = gens[g].owed
        /\ y.heard = gens[g].heard /\ y.drain = gens[g].drain
    BY <1>1 DEF Sound, Generation
  <2>4. \A h \in Slots : new[h] = IF h = g THEN y ELSE gens[h]
    BY DEF TransformInv, TypeOK
  <2> HIDE DEF y, new
  <2>5. Sound(y)
    BY <1>1, <1>3, <2>2, <2>3
       DEF Sound, Captured, Observed, Dated, InPass, Extends
  <2>6. \A h \in Slots : Sound(new[h])
    BY <2>4, <2>5, SoundSlots
  <2>7. \A s \in Requests \ {r} : req[s].pc \in Waiting => Waits(req[s], new[req[s].gen])
    <3> TAKE s \in Requests \ {r}
    <3> HAVE req[s].pc \in Waiting
    <3>1. req[s].gen \in Slots /\ Waits(req[s], gens[req[s].gen])
      BY WaiterKnows
    <3> QED  BY <2>2, <2>4, <3>1, ExtendsWaits DEF TransformInv, TypeOK
  <2>8. /\ new[cache'].at # "none" /\ ~new[cache'].withdrawn
        /\ compiled' \in {0, 1} /\ (compiled' = 1 => Current(new[cache']))
    BY <1>1, <1>3, <2>1, <2>2, <2>4, ExtendsCurrent
       DEF TransformInv, Cached, Reasoned, Extends
  <2>9. \E p \in Request : p.pc \in Ends /\ req' = [req EXCEPT ![r] = p]
    BY <1>1, EndsIn
  <2> QED  BY <1>1, <1>3, <2>1, <2>6, <2>7, <2>8, <2>9, KeptLeaves, RequestKeeps DEF Ends, Waiting
<1> QED  BY <1>2, <1>3 DEF AwaitRejected

\* What the request that captured a generation gets is as fresh as it asked.
LEMMA OwnKeeps ==
    ASSUME TransformInv, Stays, NEW r \in Requests, req[r].pc = "await", AwaitOwn(r)
    PROVE  TransformInv'
<1>0. req[r].pc \in Waiting
  BY DEF Waiting
<1>1. CASE End(r, req[r], "none") /\ UNCHANGED <<cache, compiled>> /\ gens' = Kept(gens)
  BY <1>0, <1>1, WaiterKnows, EndLeaves DEF Ends
<1>2. CASE Deliver(r, req[r], gens[req[r].gen])
  <2> DEFINE x == gens[req[r].gen]
  <2>1. cache = req[r].gen /\ req[r].own
    BY DEF AwaitOwn, Superseded
  <2>2. NoOlder(x.inputs, Reaches(req[r]))
    BY <1>0, <2>1, WaiterKnows, ReachesOrder DEF Waits, Promised, Asked
  <2>3. Sound(x) /\ (compiled # 0 => Current(x))
    BY <1>0, <2>1, WaiterKnows
  <2>4. Extends(x, gens[req[r].gen])
    BY <2>3, ExtendsItself DEF Sound
  <2>5. Deliver(r, req[r], x)
    BY <1>2
  <2> HIDE DEF x
  <2> QED  BY <1>0, <2>1, <2>2, <2>3, <2>4, <2>5, DeliverKeeps
<1> QED  BY <1>1, <1>2 DEF AwaitOwn

\* A request joins the drain of the trackers, or starts one.
LEMMA OtherKeeps ==
    ASSUME TransformInv, Stays, NEW r \in Requests, req[r].pc = "await",
           gens[req[r].gen].at = "done",
           gens[req[r].gen].kind \notin {"unstable", "rejected"}, AwaitOther(r)
    PROVE  TransformInv'
<1> DEFINE q == req[r]
           x == gens[q.gen]
<1>0. q.pc \in Waiting /\ "settle" \in Waiting /\ "admit" \in Waiting
  BY DEF Waiting
<1>1. /\ q \in Request /\ q.gen \in Slots /\ Waits(q, x) /\ Sound(x)
      /\ UNCHANGED <<cache, compiled>>
  BY <1>0, WaiterKnows DEF AwaitOther
<1>2. gens = [g \in Slots |-> gens[g]] /\ disk \in Disk
  BY DEF TransformInv, TypeOK
<1>3. CASE q.epoch = 0 /\ x.track /\ x.drain.on
  <2> DEFINE p == [q EXCEPT !.pc = "settle", !.joined = TRUE, !.asof = x.drain.since]
  <2>1. /\ p \in Request /\ p.pc = "settle" /\ p.gen = q.gen /\ p.epoch = q.epoch
        /\ p.text = q.text /\ p.file = q.file /\ p.floor = q.floor /\ p.joined
        /\ p.asof = x.drain.since
    BY <1>1 DEF Request, Waiting, Sound, Generation
  <2>2. NoOlder(x.drain.since, Reaches(p))
    BY <2>1, ReachesOrder
  <2> HIDE DEF p
  <2>4. Waits(p, x)
    <3>1. Asked(p)
      BY <1>1, <1>3, <2>1 DEF Waits, Asked
    <3>2. Awaited(p, x)
      BY <1>1, <2>1 DEF Waits, Awaited
    <3>3. Passing(p, x)
      BY <1>1, <1>3, <2>1 DEF Waits, Passing
    <3> QED  BY <1>3, <2>1, <2>2, <3>1, <3>2, <3>3 DEF Waits, Promised
  <2>5. req' = [req EXCEPT ![r] = p] /\ gens' = gens
    BY <1>3 DEF AwaitOther, TransformInv, TypeOK, p
  <2> QED  BY <1>0, <1>1, <1>2, <2>1, <2>4, <2>5, SameLeaves, GenerationsLeft
<1>4. CASE q.epoch = 0 /\ x.track /\ ~x.drain.on
  <2> DEFINE p == [q EXCEPT !.pc = "settle"]
             d == [on |-> TRUE, need |-> x.owed, since |-> disk]
             y == [x EXCEPT !.drain = d]
             new == [gens EXCEPT ![q.gen].drain = d]
  <2>1. /\ p \in Request /\ p.pc = "settle" /\ p.gen = q.gen /\ p.epoch = q.epoch
        /\ p.text = q.text /\ p.file = q.file /\ p.floor = q.floor /\ ~p.joined
    BY <1>1 DEF Request, Waiting, Waits, Asked
  <2>2. x \in Generation /\ d.on /\ d.need = x.owed /\ d.since = disk
    BY <1>1 DEF Sound
  <2>3. d \in [on: BOOLEAN, need: SUBSET Inputs, since: Disk]
    BY <1>2, <2>2 DEF Generation
  <2> HIDE DEF d
  <2>4. /\ Extends(y, x) /\ y.drain = d /\ y.owed = x.owed /\ y.heard = x.heard
        /\ y.epoch = x.epoch /\ y.verdict = x.verdict /\ y.vepoch = x.vepoch
    BY <1>4, <2>2, <2>3 DEF Extends, Generation
  <2>5. \A h \in Slots : new[h] = IF h = q.gen THEN y ELSE gens[h]
    BY <1>1, <1>2
  <2>6. req' = [req EXCEPT ![r] = p] /\ gens' = new /\ new = [h \in Slots |-> new[h]]
    BY <1>2, <1>4 DEF AwaitOther, TransformInv, TypeOK, d
  <2> HIDE DEF p, y, new
  <2>7. Sound(y)
    <3>1. Captured(y)
      BY <1>1, <2>4 DEF Sound, Captured, Extends
    <3>2. Observed(y)
      <4>1. y.at = x.at /\ y.kind = x.kind /\ y.inputs = x.inputs /\ x.heard = y.heard
        BY <2>4 DEF Extends
      <4>2. /\ x.at = "done" /\ x.kind = "complete"
            /\ \A i \in Inputs \ (x.owed \cup x.heard) : x.inputs[i] = disk[i]
        BY <1>1, <1>4 DEF Sound, Observed
      <4>3. /\ y.at = "done" /\ y.kind = "complete" /\ y.owed = x.owed
            /\ \A i \in Inputs \ (y.owed \cup y.heard) : y.inputs[i] = disk[i]
        BY <2>4, <4>1, <4>2
      <4>4. y.drain.need = x.owed /\ y.drain.since = disk
        BY <2>2, <2>4
      <4> QED  BY <4>1, <4>2, <4>3, <4>4 DEF Observed
    <3>3. Dated(y)
      BY <1>1, <2>4 DEF Sound, Dated, InPass, Extends
    <3> QED  BY <2>4, <3>1, <3>2, <3>3 DEF Sound, Extends
  <2>8. \A h \in Slots : Sound(new[h])
    BY <2>5, <2>7, SoundSlots
  <2>9. \A s \in Requests \ {r} : req[s].pc \in Waiting => Waits(req[s], new[req[s].gen])
    <3> TAKE s \in Requests \ {r}
    <3> HAVE req[s].pc \in Waiting
    <3>1. req[s].gen \in Slots /\ Waits(req[s], gens[req[s].gen])
      BY WaiterKnows
    <3> QED  BY <2>4, <2>5, <3>1, ExtendsWaits DEF TransformInv, TypeOK
  <2>10. Waits(p, y)
    <3>1. Waits(q, y)
      BY <1>1, <2>4, ExtendsWaits DEF TransformInv, TypeOK
    <3>2. Asked(p) /\ Passing(p, y)
      BY <2>1, <3>1 DEF Waits, Asked, Passing
    <3>3. Awaited(p, y)
      BY <1>1, <2>1, <2>4 DEF Waits, Awaited, Extends
    <3>4. Reaches(p) = p.floor
      BY <2>1, ReachesOrder
    <3> QED  BY <2>1, <2>2, <2>4, <3>2, <3>3, <3>4 DEF Waits, Promised, Asked
  <2>11. p.pc \in Waiting => p.gen \in Slots /\ Waits(p, new[p.gen])
    BY <1>1, <2>1, <2>5, <2>10
  <2>12. \A h \in Slots : new[h].at = gens[h].at /\ new[h].withdrawn = gens[h].withdrawn
                          /\ (Current(gens[h]) => Current(new[h]))
    BY <2>4, <2>5, ExtendsCurrent DEF Extends
  <2>13. /\ cache' \in {NoGen} \cup Slots
         /\ cache' # NoGen => new[cache'].at # "none" /\ ~new[cache'].withdrawn
         /\ compiled' \in {0, 1} /\ (compiled' = 1 => cache' # NoGen /\ Current(new[cache']))
    BY <1>1, <2>12 DEF TransformInv, TypeOK, Cached, Reasoned
  <2>14. Leaves(new)
    BY <2>6, SameLeaves
  <2> QED  BY <2>1, <2>6, <2>8, <2>9, <2>11, <2>13, <2>14, RequestKeeps
<1>5. CASE ~(q.epoch = 0 /\ x.track)
  <2> DEFINE p == [q EXCEPT !.pc = "admit"]
  <2>1. /\ p \in Request /\ p.pc = "admit" /\ p.gen = q.gen /\ p.epoch = q.epoch
        /\ p.text = q.text /\ p.file = q.file /\ p.floor = q.floor /\ ~p.joined
    BY <1>1 DEF Request, Waiting, Waits, Asked
  <2>2. Waits(p, x)
    BY <1>1, <1>5, <2>1 DEF Waits, Asked, Awaited, Passing, Promised
  <2>3. req' = [req EXCEPT ![r] = p] /\ gens' = gens
    BY <1>5 DEF AwaitOther
  <2> HIDE DEF p
  <2> QED  BY <1>0, <1>1, <1>2, <2>1, <2>2, <2>3, SameLeaves, GenerationsLeft
<1> QED  BY <1>3, <1>4, <1>5

\* Unless notifications stand for reading them, the inputs were read.
LEMMA ProvesRead ==
    ASSUME NEW q, NEW x, Proves(q, x), ~Narrow(x) \/ NeedsPassProof(q, x)
    PROVE  x.inputs = disk
BY DEF Proves, WholeHolds

\* A match is no older than the request may be answered from.
LEMMA MatchesFresh ==
    ASSUME TransformInv, NEW q \in Request, q.pc = "admit", NEW x, Sound(x), Waits(q, x),
           ~x.withdrawn, Matches(q, x)
    PROVE  /\ x.result = "failure" => NoOlder(x.inputs, Reaches(q))
           /\ \A i \in Deps[q.file] : Reaches(q)[i] <= x.inputs[i]
           /\ x.kind # "snapshot" /\ q.text # Rewritten => q.text <= x.inputs[q.file]
<1>1. Deps[q.file] \subseteq Inputs
  BY ProjectAssumption DEF Request
<1>2. x.kind # "snapshot" /\ q.text # Rewritten => q.text <= x.inputs[q.file]
  <2>1. CASE q.text = x.inputs[q.file] /\ q.text # Rewritten
    BY <2>1 DEF Request
  <2>2. CASE disk[q.file] = x.inputs[q.file]
    BY <2>2 DEF Waits, Asked
  <2> QED  BY <2>1, <2>2 DEF Matches, TextHolds
<1>0. x.inputs \in Disk /\ disk \in Disk /\ NoOlder(disk, Reaches(q))
  BY FloorReaches DEF Sound, Generation, Waits, Asked, TransformInv, TypeOK
<1>3. CASE q.epoch # 0 /\ x.epoch = q.epoch
  <2>1. NoOlder(x.inputs, Reaches(q))
    BY <1>0, <1>3, FloorReaches DEF Waits, Passing
  <2> QED  BY <1>1, <1>2, <2>1 DEF NoOlder
<1>4. CASE x.inputs = disk
  BY <1>0, <1>1, <1>2, <1>4 DEF NoOlder
<1>5. CASE ~(q.epoch # 0 /\ x.epoch = q.epoch) /\ x.inputs # disk
  <2>1. Proves(q, x)
    BY <1>5 DEF Matches, SharesPass
  <2>2. Narrow(x) /\ ~NeedsPassProof(q, x) /\ NarrowHolds(q, x)
    BY <1>5, <2>1, ProvesRead DEF Proves
  <2>3. q.epoch = 0 /\ x.track /\ ~x.unverified /\ x.result # "failure"
    BY <1>5, <2>2 DEF Narrow, NeedsPassProof
  <2>4. \A i \in Inputs \ x.heard : Reaches(q)[i] <= x.inputs[i]
    BY <2>3 DEF Waits, Promised
  <2>5. \A i \in Deps[q.file] : i \in x.heard => Reaches(q)[i] <= x.inputs[i]
    BY <1>0, <1>1, <2>2 DEF NarrowHolds, NoOlder
  <2> QED  BY <1>1, <1>2, <2>3, <2>4, <2>5
<1> QED  BY <1>3, <1>4, <1>5

\* What a match proves may be recorded.
LEMMA ProvenExtends ==
    ASSUME TransformInv, NEW q \in Request, NEW x, Sound(x), Waits(q, x), ~x.withdrawn,
           Matches(q, x)
    PROVE  Extends(Proven(q, x), x) /\ Sound(Proven(q, x))
<1>1. CASE Proven(q, x) = x
  BY <1>1, ExtendsItself DEF Sound
<1>2. ASSUME x.inputs = disk, NEW y \in Generation, Extends(y, x), y.owed = x.owed,
             y.heard = x.heard, y.drain = x.drain, y.verdict = x.verdict, y.vepoch = x.vepoch,
             y.epoch = x.epoch \/ y.epoch = q.epoch
      PROVE  Sound(y)
  <2>1. Captured(y)
    BY <1>2 DEF Sound, Captured, Extends
  <2>2. Observed(y)
    BY <1>2, ExtendsObserved DEF Sound
  <2>3. q.epoch <= epoch /\ NoOlder(disk, opened)
    BY DEF Waits, Passing, TransformInv, Counted
  <2>4. Dated(y)
    BY <1>2, <2>3 DEF Sound, Dated, InPass, Extends
  <2> QED  BY <1>2, <2>1, <2>2, <2>4 DEF Sound
<1>3. CASE ~SharesPass(q, x) /\ NeedsPassProof(q, x)
  <2> DEFINE y == [x EXCEPT !.epoch = q.epoch, !.served = {}, !.unverified = FALSE]
  <2>1. x.inputs = disk /\ Proven(q, x) = y
    BY <1>3, ProvesRead DEF Matches, Proven
  <2>2. /\ y \in Generation /\ Extends(y, x) /\ y.owed = x.owed /\ y.heard = x.heard
        /\ y.drain = x.drain /\ y.verdict = x.verdict /\ y.vepoch = x.vepoch
        /\ y.epoch = q.epoch
    BY <2>1 DEF Sound, Generation, Extends, Request
  <2> HIDE DEF y
  <2> QED  BY <1>2, <2>1, <2>2
<1>4. CASE ~SharesPass(q, x) /\ ~NeedsPassProof(q, x) /\ ~Narrow(x)
  <2> DEFINE y == [x EXCEPT !.unverified = FALSE]
  <2>1. x.inputs = disk /\ Proven(q, x) = y
    BY <1>4, ProvesRead DEF Matches, Proven
  <2>2. /\ y \in Generation /\ Extends(y, x) /\ y.owed = x.owed /\ y.heard = x.heard
        /\ y.drain = x.drain /\ y.verdict = x.verdict /\ y.vepoch = x.vepoch
        /\ y.epoch = x.epoch
    BY <2>1 DEF Sound, Generation, Extends
  <2> HIDE DEF y
  <2> QED  BY <1>2, <2>1, <2>2
<1> QED  BY <1>1, <1>3, <1>4 DEF Proven

\* What is current is not compiled again, unless it is for one use.
LEMMA CurrentMatches ==
    ASSUME NEW q, NEW x, Current(x), x.at = "done", x.kind \notin {"unstable", "rejected"},
           ~SingleUse(q, x)
    PROVE  Matches(q, x)
<1>1. x.kind = "complete" /\ x.inputs = disk /\ q.file \notin Volatile
  BY DEF Current, SingleUse
<1>2. TextHolds(q, x) /\ Proves(q, x)
  BY <1>1 DEF TextHolds, Proves, NarrowHolds, WholeHolds
<1> QED  BY <1>1, <1>2 DEF Matches

\* A request is admitted to a generation.
LEMMA AdmitKeeps ==
    ASSUME TransformInv, Stays, NEW r \in Requests, Admit(r)
    PROVE  TransformInv'
<1> DEFINE q == req[r]
           x == gens[q.gen]
<1>0. q.pc = "admit" /\ q.pc \in Waiting
  BY DEF Admit, Waiting
<1>1. /\ q \in Request /\ q.gen \in Slots /\ Waits(q, x) /\ Sound(x)
      /\ cache = q.gen => ~x.withdrawn /\ Entering(q) /\ (compiled # 0 => Current(x))
  BY <1>0, WaiterKnows
<1>2. CASE Superseded(r) /\ Leave(r)
  BY <1>0, <1>2, LeaveKeeps
<1>3. CASE /\ ~Superseded(r) /\ Matches(q, x)
           /\ IF req[r].preparing
              THEN /\ End(r, req[r], "none") /\ UNCHANGED <<cache, compiled>>
                   /\ gens' = Kept([gens EXCEPT ![q.gen] = Proven(q, x)])
              ELSE Deliver(r, q, Proven(q, x))
  <2> DEFINE y == Proven(q, x)
             new == [gens EXCEPT ![q.gen] = y]
  <2>1. cache = q.gen /\ ~x.withdrawn
    BY <1>1, <1>3 DEF Superseded
  <2>2. Extends(y, x) /\ Sound(y)
    BY <1>1, <1>3, <2>1, ProvenExtends
  <2>3. compiled # 0 => Current(y)
    BY <1>1, <2>1, <2>2, ExtendsCurrent
  <2>4. x.result = "failure" => NoOlder(x.inputs, Reaches(q))
    BY <1>0, <1>1, <1>3, <2>1, MatchesFresh
  <2>5. CASE Deliver(r, q, y)
    <3>1. y.result = "failure" => NoOlder(y.inputs, Reaches(q))
      BY <2>2, <2>4 DEF Extends
    <3> HIDE DEF y
    <3> QED  BY <1>0, <2>1, <2>2, <2>3, <2>5, <3>1, DeliverKeeps
  <2>6. CASE /\ End(r, req[r], "none") /\ UNCHANGED <<cache, compiled>>
             /\ gens' = Kept(new)
    <3>1. \A h \in Slots : new[h] = IF h = q.gen THEN y ELSE gens[h]
      BY DEF TransformInv, TypeOK
    <3> HIDE DEF y, new
    <3>2. \A h \in Slots : Sound(new[h])
      BY <2>2, <3>1, SoundSlots
    <3>3. \A s \in Requests \ {r} : req[s].pc \in Waiting => Waits(req[s], new[req[s].gen])
      <4> TAKE s \in Requests \ {r}
      <4> HAVE req[s].pc \in Waiting
      <4>1. req[s].gen \in Slots /\ Waits(req[s], gens[req[s].gen])
        BY WaiterKnows
      <4> QED  BY <2>2, <3>1, <4>1, ExtendsWaits DEF TransformInv, TypeOK
    <3>4. /\ cache' \in {NoGen} \cup Slots
          /\ cache' # NoGen => new[cache'].at # "none" /\ ~new[cache'].withdrawn
          /\ compiled' \in {0, 1} /\ (compiled' = 1 => cache' # NoGen /\ Current(new[cache']))
      BY <1>1, <2>1, <2>2, <2>3, <2>6, <3>1
         DEF TransformInv, TypeOK, Cached, Reasoned, Extends
    <3>5. \E p \in Request : p.pc \in Ends /\ req' = [req EXCEPT ![r] = p]
      BY <1>1, <2>6, EndsIn DEF Ends
    <3> QED  BY <2>6, <3>2, <3>3, <3>4, <3>5, KeptLeaves, RequestKeeps DEF Ends, Waiting
  <2> QED  BY <1>3, <2>5, <2>6
<1>4. CASE /\ ~Superseded(r) /\ ~Matches(q, x)
           /\ Capture(r, q, IF SingleUse(q, x) THEN 0 ELSE compiled)
  <2>1. cache = q.gen /\ Entering(q)
    BY <1>1, <1>4 DEF Superseded
  <2>2. x.at = "done" /\ x.kind \notin {"unstable", "rejected"}
    BY <1>0, <1>1 DEF Waits, Awaited
  <2>3. ~SingleUse(q, x) => compiled = 0
    BY <1>1, <1>4, <2>1, <2>2, CurrentMatches
  <2>4. Capture(r, q, 0)
    BY <1>4, <2>3
  <2> QED  BY <2>1, <2>4, CaptureKeeps
<1> QED  BY <1>2, <1>3, <1>4 DEF Admit

\* A request looks at the disk before it reuses an unstable generation.
LEMMA ConfirmKeeps ==
    ASSUME TransformInv, Stays, NEW r \in Requests, Confirm(r)
    PROVE  TransformInv'
<1> DEFINE q == req[r]
           x == gens[q.gen]
<1>0. q.pc = "confirm" /\ q.pc \in Waiting
  BY DEF Confirm, Waiting
<1>1. /\ q \in Request /\ q.gen \in Slots /\ Waits(q, x) /\ Sound(x)
      /\ cache = q.gen => Entering(q) /\ (compiled # 0 => Current(x))
  BY <1>0, WaiterKnows
<1>2. CASE Superseded(r) /\ Leave(r)
  BY <1>0, <1>2, LeaveKeeps
<1>3. CASE End(r, q, "replayed") /\ UNCHANGED <<cache, compiled>> /\ gens' = Kept(gens)
  BY <1>1, <1>3, EndLeaves DEF Ends
<1>4. CASE ~Superseded(r) /\ Capture(r, q, compiled)
  <2>1. cache = q.gen /\ Entering(q)
    BY <1>1, <1>4 DEF Superseded
  <2>2. x.at = "done" /\ x.kind = "unstable"
    BY <1>0, <1>1 DEF Waits, Awaited, Sound, Captured
  <2>3. compiled = 0
    BY <1>1, <2>1, <2>2 DEF Current
  <2> QED  BY <1>4, <2>1, <2>3, CaptureKeeps
<1> QED  BY <1>2, <1>3, <1>4 DEF Confirm

\* The compile a request awaits is over.
LEMMA AwaitKeeps ==
    ASSUME TransformInv, Stays, NEW r \in Requests, Await(r)
    PROVE  TransformInv'
<1>1. req[r].pc = "await" /\ req[r].pc \in Waiting /\ gens[req[r].gen].at = "done"
  BY DEF Await, Waiting
<1> QED  BY <1>1, RejectedKeeps, LeaveKeeps, OwnKeeps, OtherKeeps DEF Await

\* A call asks with a text the disk holds or has held.
LEMMA ArriveKeeps ==
    ASSUME TransformInv, NEW r \in Requests, Arrive(r)
    PROVE  TransformInv'
<1>1. Stays
  BY DEF Arrive, Happens, Stays, TransformInv, TypeOK
<1>2. PICK f \in Asks[r], preparing \in BOOLEAN : \E text \in {disk[f], Rewritten} :
        Enter(r, [Idle EXCEPT !.file = f, !.text = text, !.preparing = preparing])
  BY DEF Arrive
<1>3. PICK text \in {disk[f], Rewritten} :
        Enter(r, [Idle EXCEPT !.file = f, !.text = text, !.preparing = preparing])
  BY <1>2
<1> DEFINE q0 == [Idle EXCEPT !.file = f, !.text = text, !.preparing = preparing]
<1>4. f \in Modules /\ f \in Inputs
  BY ProjectAssumption
<1>5. q0 \in Request /\ q0.text = text /\ q0.file = f
  <2>1. text \in (0 .. MaxEvents) \cup {Rewritten}
    BY <1>4 DEF TransformInv, TypeOK, Disk
  <2> QED  BY <1>4, <2>1, IdleTyped DEF Request
<1>6. text # Rewritten => text <= disk[f]
  BY <1>4 DEF TransformInv, TypeOK, Disk
<1> HIDE DEF q0
<1>7. Enter(r, q0)
  BY <1>3 DEF q0
<1> QED  BY <1>1, <1>5, <1>6, <1>7, EnterKeeps

\* The steps of a request keep the invariant.
LEMMA StepKeeps ==
    ASSUME TransformInv, NEW r \in Requests, Arrive(r) \/ Step(r)
    PROVE  TransformInv'
<1>1. Step(r) => Stays
  BY BoundAssumption DEF Step, Await, Admit, Confirm, Stays, TransformInv, TypeOK
<1> QED  BY <1>1, ArriveKeeps, AwaitKeeps, AdmitKeeps, ConfirmKeeps DEF Step

-----------------------------------------------------------------------------
(* Captures at work.                                                       *)

\* One generation changes.
LEMMA OneChanges ==
    ASSUME TransformInv, Stays, UNCHANGED <<cache, req, compiled>>,
           NEW g \in Slots, NEW y, gens' = [gens EXCEPT ![g] = y], Sound(y),
           gens[g].at # "none" => y.at # "none", y.withdrawn = gens[g].withdrawn,
           \A q \in Request :
              q.pc \in Waiting /\ Waits(q, gens[g]) => Waits(q, y),
           cache = g /\ compiled # 0 => Current(y)
    PROVE  TransformInv'
<1> DEFINE new == [gens EXCEPT ![g] = y]
<1>1. /\ \A h \in Slots : new[h] = IF h = g THEN y ELSE gens[h]
      /\ new = [h \in Slots |-> new[h]]
  BY DEF TransformInv, TypeOK
<1> HIDE DEF new
<1>2. \A h \in Slots : Sound(new[h])
  BY <1>1, SoundSlots
<1>3. req' \in [Requests -> Request] /\ cache' \in {NoGen} \cup Slots
  BY DEF TransformInv, TypeOK
<1>4. \A s \in Requests : req'[s].pc \in Waiting =>
         req'[s].gen \in Slots /\ Waits(req'[s], new[req'[s].gen])
  BY <1>1 DEF TransformInv, TypeOK, Waiters
<1>5. /\ cache' # NoGen => new[cache'].at # "none" /\ ~new[cache'].withdrawn
      /\ compiled' \in {0, 1} /\ (compiled' = 1 => cache' # NoGen /\ Current(new[cache']))
  BY <1>1, <1>3 DEF TransformInv, Cached, Reasoned
<1>6. Leaves(new)
  BY <1>1, SameLeaves DEF new
<1> QED  BY <1>2, <1>3, <1>4, <1>5, <1>6, GenerationsKeep

\* A capture under way only comes to newer inputs.
Grows(y, x) ==
    /\ y \in Generation /\ x.at \in {"compile", "walk"} /\ y.at # "none"
    /\ y.withdrawn = x.withdrawn /\ y.epoch = x.epoch
    /\ y.verdict = "none" \/ (y.verdict = x.verdict /\ y.vepoch = x.vepoch)
    /\ NoOlder(y.inputs, x.inputs)

\* A generation that grows keeps the invariant.
LEMMA GrowsKeeps ==
    ASSUME TransformInv, Stays, UNCHANGED <<cache, req, compiled>>,
           NEW g \in Slots, NEW y, gens' = [gens EXCEPT ![g] = y], Grows(y, gens[g]),
           Captured(y), Observed(y), cache = g /\ compiled # 0 => Current(y)
    PROVE  TransformInv'
<1> DEFINE x == gens[g]
<1>1. Sound(x) /\ Captured(x)
  BY SoundSlots DEF Sound
<1>2. \A i \in Inputs : x.inputs[i] \in Nat /\ y.inputs[i] \in Nat /\ opened[i] \in Nat
  BY <1>1 DEF Grows, Sound, Generation, Disk, TransformInv, TypeOK
<1>3. ASSUME NEW d \in Disk, NoOlder(x.inputs, d) PROVE NoOlder(y.inputs, d)
  BY <1>2, <1>3 DEF Grows, NoOlder, Disk
<1>4. NoOlder(x.inputs, opened) => NoOlder(y.inputs, opened)
  BY <1>3 DEF TransformInv, TypeOK
<1>5. Dated(y)
  BY <1>1, <1>4 DEF Grows, Sound, Dated, InPass
<1>6. ASSUME NEW q \in Request, q.pc \in Waiting, Waits(q, x) PROVE Waits(q, y)
  <2>1. q.pc = "await" /\ Asked(q) /\ Passing(q, x) /\ Promised(q, x)
    BY <1>1, <1>6 DEF Grows, Waits, Awaited, Captured, Waiting
  <2>2. NoOlder(x.inputs, q.floor) => NoOlder(y.inputs, q.floor)
    BY <1>3 DEF Request
  <2>3. q.text # Rewritten /\ q.text <= x.inputs[q.file] => q.text <= y.inputs[q.file]
    BY <1>2, ProjectAssumption DEF Request, Grows, NoOlder
  <2> QED  BY <2>1, <2>2, <2>3 DEF Grows, Waits, Awaited, Passing, Promised
<1> QED  BY <1>5, <1>6, OneChanges DEF Sound, Grows

\* The record a finished capture leaves.
Finished(x, kind, inputs) ==
    [x EXCEPT !.at = "done", !.kind = kind, !.inputs = inputs,
              !.before = Version0, !.moved = 0, !.unobs = FALSE,
              !.track = kind = "complete" /\ x.epoch = 0 /\ Watched]

\* A generation whose compile has ended.
LEMMA FinishedFields ==
    ASSUME NEW x \in Generation, NEW kind \in Kinds, NEW inputs \in Disk
    PROVE  LET y == Finished(x, kind, inputs)
           IN  /\ y \in Generation /\ y.at = "done" /\ y.kind = kind /\ y.inputs = inputs
               /\ y.track = (kind = "complete" /\ x.epoch = 0 /\ Watched)
               /\ y.withdrawn = x.withdrawn /\ y.epoch = x.epoch /\ y.verdict = x.verdict
               /\ y.vepoch = x.vepoch /\ y.drain = x.drain /\ y.result = x.result
<1>1. ASSUME NEW t \in BOOLEAN
      PROVE  LET y == [x EXCEPT !.at = "done", !.kind = kind, !.inputs = inputs,
                                !.before = Version0, !.moved = 0, !.unobs = FALSE, !.track = t]
             IN  /\ y \in Generation /\ y.at = "done" /\ y.kind = kind /\ y.inputs = inputs
                 /\ y.track = t
                 /\ y.withdrawn = x.withdrawn /\ y.epoch = x.epoch /\ y.verdict = x.verdict
                 /\ y.vepoch = x.vepoch /\ y.drain = x.drain /\ y.result = x.result
  <2> DEFINE w == [x EXCEPT !.at = "done", !.kind = kind, !.inputs = inputs,
                            !.before = Version0]
             v == [w EXCEPT !.moved = 0]
             z == [v EXCEPT !.unobs = FALSE]
             y == [z EXCEPT !.track = t]
  <2>1. /\ w \in Generation /\ w.at = "done" /\ w.kind = kind /\ w.inputs = inputs
        /\ w.withdrawn = x.withdrawn /\ w.epoch = x.epoch /\ w.verdict = x.verdict
        /\ w.vepoch = x.vepoch /\ w.drain = x.drain /\ w.result = x.result
    BY Numbers DEF Generation
  <2> HIDE DEF w
  <2>2. /\ v \in Generation /\ v.at = w.at /\ v.kind = w.kind /\ v.inputs = w.inputs
        /\ v.withdrawn = w.withdrawn /\ v.epoch = w.epoch /\ v.verdict = w.verdict
        /\ v.vepoch = w.vepoch /\ v.drain = w.drain /\ v.result = w.result
    BY <2>1 DEF Generation
  <2> HIDE DEF v
  <2>3. /\ z \in Generation /\ z.at = v.at /\ z.kind = v.kind /\ z.inputs = v.inputs
        /\ z.withdrawn = v.withdrawn /\ z.epoch = v.epoch /\ z.verdict = v.verdict
        /\ z.vepoch = v.vepoch /\ z.drain = v.drain /\ z.result = v.result
    BY <2>2 DEF Generation
  <2> HIDE DEF z
  <2>4. /\ y \in Generation /\ y.at = z.at /\ y.kind = z.kind /\ y.inputs = z.inputs
        /\ y.withdrawn = z.withdrawn /\ y.epoch = z.epoch /\ y.verdict = z.verdict
        /\ y.vepoch = z.vepoch /\ y.drain = z.drain /\ y.result = z.result
        /\ y.track = t
    BY <2>3 DEF Generation
  <2>5. y = [x EXCEPT !.at = "done", !.kind = kind, !.inputs = inputs,
                      !.before = Version0, !.moved = 0, !.unobs = FALSE, !.track = t]
    BY DEF w, v, z
  <2> HIDE DEF y
  <2> QED  BY <2>1, <2>2, <2>3, <2>4, <2>5
<1> QED  BY <1>1 DEF Finished

\* A capture finishes with inputs read since its first walk; what it may prove
\* completely, or while nothing calls for a compile, is on disk.
LEMMA FinishKeeps ==
    ASSUME TransformInv, Stays, UNCHANGED <<cache, req, compiled>>, NEW g \in Slots,
           gens[g].at \in {"compile", "walk"}, NEW kind \in Kinds, NEW inputs \in Disk,
           Finish(g, kind, inputs), NoOlder(inputs, gens[g].inputs), NoOlder(disk, inputs),
           kind = "complete" => inputs = disk,
           cache = g /\ compiled # 0 =>
              kind = "rejected" \/ (kind \in {"complete", "fresh"} /\ inputs = disk)
    PROVE  TransformInv'
<1> DEFINE x == gens[g]
           y == Finished(x, kind, inputs)
<1>1. Sound(x) /\ x \in Generation
  BY SoundSlots DEF Sound
<1>2. /\ y \in Generation /\ y.at = "done" /\ y.kind = kind /\ y.inputs = inputs
      /\ y.track = (kind = "complete" /\ x.epoch = 0 /\ Watched)
      /\ y.withdrawn = x.withdrawn /\ y.epoch = x.epoch /\ y.verdict = x.verdict
      /\ y.vepoch = x.vepoch /\ y.drain = x.drain
  BY <1>1, FinishedFields
<1>3. gens' = [gens EXCEPT ![g] = y]
  BY DEF Finish, Finished
<1> HIDE DEF y
<1>4. Captured(y) /\ Observed(y)
  BY <1>1, <1>2 DEF Sound, Captured, Observed
<1>5. Grows(y, x)
  BY <1>2 DEF Grows
<1>6. cache = g /\ compiled # 0 => Current(y)
  BY <1>2 DEF Current
<1> QED  BY <1>3, <1>4, <1>5, <1>6, GrowsKeeps

\* The compile of a generation ends.
LEMMA CompileKeeps ==
    ASSUME TransformInv, NEW g \in Slots, Compile(g)
    PROVE  TransformInv'
<1> DEFINE x == gens[g]
<1>1. Sound(x) /\ x \in Generation /\ x.at = "compile" /\ x.inputs = x.before
  BY SoundSlots DEF Sound, Compile, Captured
<1>2. Stays /\ UNCHANGED <<cache, req, compiled>>
  BY DEF Compile, Happens, Stays, TransformInv, TypeOK
<1>3. PICK read \in Disk, result \in {"success", "failure"}, unobs \in BOOLEAN :
        /\ \A i \in Inputs : x.before[i] <= read[i] /\ read[i] <= disk[i]
        /\ gens' = [gens EXCEPT ![g].at = "walk", ![g].inputs = read,
                                ![g].result = result, ![g].unobs = unobs]
  BY DEF Compile
<1> DEFINE y == [x EXCEPT !.at = "walk", !.inputs = read, !.result = result, !.unobs = unobs]
<1>4. /\ y \in Generation /\ y.at = "walk" /\ y.inputs = read /\ y.before = x.before
      /\ y.withdrawn = x.withdrawn /\ y.epoch = x.epoch /\ y.verdict = x.verdict
      /\ y.vepoch = x.vepoch /\ y.track = x.track /\ y.drain = x.drain
  BY <1>1 DEF Generation
<1>5. gens' = [gens EXCEPT ![g] = y]
  BY <1>3 DEF TransformInv, TypeOK
<1> HIDE DEF y
<1>6. Captured(y) /\ Observed(y)
  BY <1>1, <1>3, <1>4 DEF Sound, Captured, Observed, NoOlder
<1>7. Grows(y, x)
  BY <1>1, <1>3, <1>4 DEF Grows, NoOlder
<1>8. cache = g /\ compiled # 0 => Current(y)
  BY <1>1, <1>4 DEF Current, TransformInv, Reasoned
<1> QED  BY <1>2, <1>5, <1>6, <1>7, <1>8, GrowsKeeps

\* The compile of a generation throws.
LEMMA ThrowsKeeps ==
    ASSUME TransformInv, NEW g \in Slots, Throws(g)
    PROVE  TransformInv'
<1>1. Stays /\ UNCHANGED <<cache, req, compiled>> /\ gens[g].at \in {"compile", "walk"}
  BY DEF Throws, Happens, Stays, TransformInv, TypeOK
<1>2. gens[g].inputs \in Disk /\ NoOlder(disk, gens[g].inputs)
  BY SoundSlots DEF Sound, Captured, Generation
<1>3. NoOlder(gens[g].inputs, gens[g].inputs)
  BY <1>2 DEF NoOlder, Disk
<1>4. Finish(g, "rejected", gens[g].inputs) /\ "rejected" \in Kinds /\ "rejected" # "complete"
  BY DEF Throws, Kinds
<1> QED  BY <1>1, <1>2, <1>3, <1>4, FinishKeeps

\* A capture whose project held still has read what is on disk.
LEMMA WalkKeeps ==
    ASSUME TransformInv, NEW g \in Slots, Walk(g)
    PROVE  TransformInv'
<1> DEFINE x == gens[g]
<1>1. Sound(x) /\ x \in Generation /\ x.at = "walk"
  BY SoundSlots DEF Sound, Walk
<1>2. Stays /\ UNCHANGED <<cache, req, compiled>>
  BY BoundAssumption DEF Walk, Stays, TransformInv, TypeOK
<1>3. x.inputs \in Disk /\ disk \in Disk /\ NoOlder(disk, x.inputs) /\ NoOlder(x.inputs, x.before)
  BY <1>1 DEF Sound, Captured, Generation, TransformInv, TypeOK
<1>4. disk = x.before => x.inputs = disk
  <2>1. ASSUME disk = x.before, NEW i \in Inputs PROVE x.inputs[i] = disk[i]
    BY <1>3, <2>1 DEF NoOlder, Disk
  <2> QED  BY <1>3, <2>1 DEF Disk
<1>5. cache = g /\ compiled # 0 => disk = x.before
  BY <1>1 DEF TransformInv, Reasoned, Current
<1>6. NoOlder(x.inputs, x.inputs) /\ NoOlder(disk, disk) /\ x.at \in {"compile", "walk"}
  BY <1>1, <1>3 DEF NoOlder, Disk
<1>7. {"complete", "fresh", "snapshot", "unstable", "diagnostic"} \subseteq Kinds
  BY DEF Kinds
<1>8. CASE WalkStill(g)
  <2>1. PICK kind \in {"complete", "fresh"} : Finish(g, kind, x.inputs)
    BY <1>8 DEF WalkStill
  <2>2. x.inputs = disk
    BY <1>4, <1>8 DEF WalkStill
  <2> QED  BY <1>2, <1>3, <1>6, <1>7, <2>1, <2>2, FinishKeeps
<1>9. CASE disk # x.before /\ \E kind \in {"fresh", "snapshot", "diagnostic"} :
                                 Finish(g, kind, x.inputs)
  BY <1>2, <1>3, <1>5, <1>6, <1>7, <1>9, FinishKeeps
<1>10. CASE disk # x.before /\ Finish(g, "unstable", disk)
  BY <1>2, <1>3, <1>5, <1>6, <1>7, <1>10, FinishKeeps
<1>11. CASE WalkRetries(g)
  <2> DEFINE n == New(x.epoch)
             m == x.moved + 1
             y == [n EXCEPT !.moved = m, !.withdrawn = x.withdrawn]
  <2>1. x.epoch \in Epochs /\ m \in 0 .. 1 /\ x.withdrawn \in BOOLEAN
    BY <1>1, <1>11 DEF Generation, WalkRetries
  <2>2. /\ n \in Generation /\ n.at = "compile" /\ n.epoch = x.epoch
        /\ n.before = disk /\ n.inputs = disk /\ n.moved = 0
        /\ n.verdict = "none" /\ ~n.track /\ ~n.drain.on
    BY <2>1, NewFields DEF TransformInv
  <2>3. gens' = [gens EXCEPT ![g] = y]
    BY <1>11 DEF WalkRetries
  <2> HIDE DEF n, m
  <2>4. /\ y \in Generation /\ y.at = "compile" /\ y.epoch = x.epoch
        /\ y.before = disk /\ y.inputs = disk /\ y.withdrawn = x.withdrawn
        /\ y.verdict = "none" /\ ~y.track /\ ~y.drain.on
    BY <2>1, <2>2 DEF Generation
  <2> HIDE DEF y
  <2>5. Captured(y) /\ Observed(y) /\ Grows(y, x) /\ Current(y)
    BY <1>3, <1>6, <2>4 DEF Captured, Observed, Grows, Current
  <2> QED  BY <1>2, <2>3, <2>5, GrowsKeeps
<1>12. CASE WalkEnds(g)
  BY <1>9, <1>10, <1>12 DEF WalkEnds
<1>13. CASE WalkSnapshot(g)
  BY <1>9, <1>13 DEF WalkSnapshot
<1> QED  BY <1>8, <1>11, <1>12, <1>13 DEF Walk
\* The steps of a generation keep the invariant.
LEMMA WorkKeeps ==
    ASSUME TransformInv, NEW g \in Slots, Compile(g) \/ Throws(g) \/ Walk(g)
    PROVE  TransformInv'
BY CompileKeeps, ThrowsKeeps, WalkKeeps

-----------------------------------------------------------------------------
(* Trackers.                                                               *)

\* A drain that held has been told of every change that was owed when it was
\* asked for: what it has not heard of is as it was then.
LEMMA DrainedKeeps ==
    ASSUME TransformInv, NEW g \in Slots, NEW held \in BOOLEAN, Drained(g, held)
    PROVE  TransformInv'
<1> DEFINE x == gens[g]
           u == x.unverified \/ ~held
           y == [x EXCEPT !.drain = NoDrain, !.unverified = u]
           new == [gens EXCEPT ![g] = y]
<1>1. Stays /\ UNCHANGED <<cache, compiled>>
  BY BoundAssumption DEF Drained, Stays, TransformInv, TypeOK
<1>2. Sound(x) /\ x \in Generation /\ x.drain.on /\ x.at = "done"
  BY SoundSlots DEF Sound, Drained, Captured
<1>3. u \in BOOLEAN /\ (~u => ~x.unverified /\ x.drain.need \cap x.owed = {})
  BY <1>2 DEF Drained, Generation
<1>4. gens' = new
  BY DEF Drained, TransformInv, TypeOK
<1> HIDE DEF u
<1>5. /\ y \in Generation /\ y.at = x.at /\ y.kind = x.kind /\ y.inputs = x.inputs
      /\ y.before = x.before /\ y.withdrawn = x.withdrawn /\ y.epoch = x.epoch
      /\ y.verdict = x.verdict /\ y.vepoch = x.vepoch /\ y.track = x.track
      /\ y.owed = x.owed /\ y.heard = x.heard /\ y.unverified = u /\ ~y.drain.on
  <2>1. NoDrain \in [on: BOOLEAN, need: SUBSET Inputs, since: Disk] /\ ~NoDrain.on
    BY Numbers DEF NoDrain
  <2> HIDE DEF y
  <2>2. y = [x EXCEPT !.drain = NoDrain, !.unverified = u]
    BY DEF y
  <2> QED  BY <1>2, <1>3, <2>1, <2>2 DEF Generation
<1>6. /\ \A h \in Slots : new[h] = IF h = g THEN y ELSE gens[h]
      /\ new = [h \in Slots |-> new[h]]
  BY DEF TransformInv, TypeOK
<1> HIDE DEF y, new
<1>7. Sound(y)
  BY <1>2, <1>5 DEF Sound, Captured, Observed, Dated, InPass
<1>8. \A h \in Slots : Sound(new[h])
  BY <1>6, <1>7, SoundSlots
<1>9. \A s \in Requests :
         \/ req[s].pc = "settle" /\ req[s].gen = g /\ req'[s] = [req[s] EXCEPT !.pc = "admit"]
         \/ ~(req[s].pc = "settle" /\ req[s].gen = g) /\ req'[s] = req[s]
  BY DEF Drained
<1>10. req' \in [Requests -> Request]
  <2>1. \A s \in Requests : req[s] \in Request /\ [req[s] EXCEPT !.pc = "admit"] \in Request
    BY DEF TransformInv, TypeOK, Request, Waiting
  <2>2. req' = [s \in Requests |-> req'[s]]
    BY DEF Drained
  <2> QED  BY <1>9, <2>1, <2>2
<1>11. ASSUME NEW s \in Requests, req'[s].pc \in Waiting
       PROVE  req'[s].gen \in Slots /\ Waits(req'[s], new[req'[s].gen])
  <2> DEFINE q == req[s]
  <2>0. q \in Request /\ {"settle", "admit"} \subseteq Waiting
    BY DEF TransformInv, TypeOK, Waiting
  <2>1. CASE q.pc = "settle" /\ q.gen = g /\ req'[s] = [q EXCEPT !.pc = "admit"]
    <3> DEFINE p == [q EXCEPT !.pc = "admit"]
    <3>1. /\ p.pc = "admit" /\ p.gen = g /\ p.epoch = q.epoch /\ p.own = q.own
          /\ p.text = q.text /\ p.file = q.file /\ p.floor = q.floor
          /\ p.joined = q.joined /\ Reaches(p) = Reaches(q)
      BY <2>0, <2>1 DEF Request, Reaches
    <3>2. Waits(q, x)
      BY <2>0, <2>1, WaiterKnows
    <3> HIDE DEF p
    <3>3. Asked(p) /\ Awaited(p, y) /\ Passing(p, y)
      BY <1>5, <2>1, <3>1, <3>2 DEF Waits, Asked, Awaited, Passing
    <3>4. ASSUME x.track, ~u, NEW i \in Inputs \ x.heard PROVE Reaches(q)[i] <= x.inputs[i]
      <4>1. i \notin x.drain.need
        BY <1>2, <1>3, <3>4 DEF Sound, Observed
      <4>2. x.inputs[i] = x.drain.since[i]
        BY <1>2, <3>4, <4>1 DEF Sound, Observed
      <4> QED  BY <2>1, <3>2, <4>2 DEF Waits, Promised, NoOlder
    <3>5. Promised(p, y)
      BY <1>5, <3>1, <3>4 DEF Promised
    <3>6. req'[s] = p
      BY <2>1 DEF p
    <3> QED  BY <1>6, <3>1, <3>3, <3>5, <3>6 DEF Waits
  <2>2. CASE ~(q.pc = "settle" /\ q.gen = g) /\ req'[s] = q
    <3>1. q.gen \in Slots /\ Waits(q, gens[q.gen])
      BY <1>11, <2>2, WaiterKnows
    <3>2. q.gen = g => Waits(q, y)
      BY <1>3, <1>5, <2>2, <3>1 DEF Waits, Awaited, Passing, Promised
    <3> QED  BY <1>6, <2>2, <3>1, <3>2
  <2> QED  BY <1>9, <2>1, <2>2
<1>12. /\ cache' \in {NoGen} \cup Slots
       /\ cache' # NoGen => new[cache'].at # "none" /\ ~new[cache'].withdrawn
       /\ compiled' \in {0, 1} /\ (compiled' = 1 => cache' # NoGen /\ Current(new[cache']))
  BY <1>1, <1>5, <1>6 DEF TransformInv, TypeOK, Cached, Reasoned, Current
<1> QED  BY <1>1, <1>4, <1>6, <1>8, <1>10, <1>11, <1>12, SameLeaves, GenerationsKeep

\* A change that is heard of is no longer owed.
LEMMA HearKeeps ==
    ASSUME TransformInv, NEW g \in Slots, NEW i \in Inputs, Hear(g, i)
    PROVE  TransformInv'
<1> DEFINE x == gens[g]
           y == [x EXCEPT !.owed = x.owed \ {i}, !.heard = x.heard \cup {i}]
<1>1. Stays /\ UNCHANGED <<cache, req, compiled>>
  BY BoundAssumption DEF Hear, Stays, TransformInv, TypeOK
<1>2. Sound(x) /\ x \in Generation /\ i \in x.owed
  BY SoundSlots DEF Sound, Hear
<1>3. gens' = [gens EXCEPT ![g] = y]
  BY DEF Hear, TransformInv, TypeOK
<1>4. /\ y \in Generation /\ y.at = x.at /\ y.kind = x.kind /\ y.inputs = x.inputs
      /\ y.before = x.before /\ y.withdrawn = x.withdrawn /\ y.epoch = x.epoch
      /\ y.verdict = x.verdict /\ y.vepoch = x.vepoch /\ y.track = x.track
      /\ y.owed = x.owed \ {i} /\ y.heard = x.heard \cup {i} /\ y.drain = x.drain
      /\ y.unverified = x.unverified /\ y.result = x.result
  <2> HIDE DEF y
  <2>1. y = [x EXCEPT !.owed = x.owed \ {i}, !.heard = x.heard \cup {i}]
    BY DEF y
  <2>2. x.owed \ {i} \subseteq Inputs /\ x.heard \cup {i} \subseteq Inputs
    BY <1>2 DEF Generation
  <2> QED  BY <1>2, <2>1, <2>2 DEF Generation
<1> HIDE DEF y
<1>5. Sound(y)
  BY <1>2, <1>4 DEF Sound, Captured, Observed, Dated, InPass
<1>6. Extends(y, x)
  BY <1>4 DEF Extends
<1> QED  BY <1>1, <1>3, <1>4, <1>5, <1>6, ExtendsWaits, ExtendsCurrent, OneChanges
         DEF TransformInv, Reasoned

\* A tracker that failed is promised nothing for.
LEMMA WatcherFailsKeeps ==
    ASSUME TransformInv, NEW g \in Slots, WatcherFails(g)
    PROVE  TransformInv'
<1> DEFINE x == gens[g]
           y == [x EXCEPT !.track = FALSE]
<1>1. Stays /\ UNCHANGED <<cache, req, compiled>>
  BY DEF WatcherFails, Happens, Stays, TransformInv, TypeOK
<1>2. Sound(x) /\ x \in Generation
  BY SoundSlots DEF Sound
<1>3. gens' = [gens EXCEPT ![g] = y]
  BY DEF WatcherFails, TransformInv, TypeOK
<1>4. /\ y \in Generation /\ y.at = x.at /\ y.kind = x.kind /\ y.inputs = x.inputs
      /\ y.before = x.before /\ y.withdrawn = x.withdrawn /\ y.epoch = x.epoch
      /\ y.verdict = x.verdict /\ y.vepoch = x.vepoch /\ ~y.track /\ y.drain = x.drain
  BY <1>2 DEF Generation
<1> HIDE DEF y
<1>5. Sound(y)
  BY <1>2, <1>4 DEF Sound, Captured, Observed, Dated, InPass
<1>6. \A q \in Request : q.pc \in Waiting /\ Waits(q, x) => Waits(q, y)
  BY <1>4 DEF Waits, Awaited, Passing, Promised
<1>7. Current(x) => Current(y)
  BY <1>4 DEF Current
<1> QED  BY <1>1, <1>3, <1>4, <1>5, <1>6, <1>7, OneChanges DEF TransformInv, Reasoned

-----------------------------------------------------------------------------
(* The host and the programs that edit files.                              *)

\* A pass that opens is one nobody has asked in.
LEMMA BeginBuildKeeps ==
    ASSUME TransformInv, BeginBuild
    PROVE  TransformInv'
<1> USE DEF BeginBuild, Happens
<1>1. /\ epoch \in Nat /\ events \in Nat /\ epoch <= events /\ disk \in Disk
      /\ opened \in Disk
  BY BoundAssumption DEF TransformInv, TypeOK, Epochs, Counted
<1>2. TypeOK'
  BY <1>1, BoundAssumption DEF TransformInv, TypeOK, Epochs
<1>3. Counted'
  BY <1>1, BoundAssumption DEF TransformInv, Counted, NoOlder, Disk
<1>4. ASSUME NEW x, NEW e \in Epochs, InPass(x, e) PROVE InPass(x, e)'
  BY <1>1, <1>4, BoundAssumption DEF InPass, Epochs
<1>5. Generations'
  <2> SUFFICES ASSUME NEW g \in Slots
               PROVE  (Captured(gens[g]) /\ Observed(gens[g]) /\ Dated(gens[g]))'
    BY DEF Generations
  <2>1. gens[g].epoch \in Epochs /\ gens[g].vepoch \in Epochs
    BY DEF TransformInv, TypeOK, Generation
  <2>2. Captured(gens[g]) /\ Observed(gens[g]) /\ Dated(gens[g])
    BY DEF TransformInv, Generations
  <2>3. Captured(gens[g])' /\ Observed(gens[g])'
    BY <2>2 DEF Captured, Observed, NoOlder
  <2>4. InPass(gens[g], gens[g].epoch)'
    BY <1>4, <2>1, <2>2 DEF Dated
  <2>5. (gens[g].verdict = "pass" => InPass(gens[g], gens[g].vepoch))'
    BY <1>4, <2>1, <2>2 DEF Dated
  <2> QED  BY <2>3, <2>4, <2>5 DEF Dated
<1>6. Waiters'
  <2> SUFFICES ASSUME NEW r \in Requests, req[r].pc \in Waiting
               PROVE  req[r].gen \in Slots /\ Waits(req[r], gens[req[r].gen])'
    BY DEF Waiters
  <2> DEFINE q == req[r]
             x == gens[q.gen]
  <2>1. q \in Request /\ q.gen \in Slots /\ Waits(q, x) /\ q.epoch \in Nat
    BY WaiterKnows, BoundAssumption DEF Request, Epochs
  <2>2. Passing(q, x)'
    BY <1>1, <2>1 DEF Waits, Passing, NoOlder
  <2>3. Asked(q)' /\ Awaited(q, x)' /\ Promised(q, x)'
    BY <2>1 DEF Waits, Asked, Awaited, Promised, NoOlder
  <2> QED  BY <2>1, <2>2, <2>3 DEF Waits
<1>7. Cached' /\ Reasoned'
  BY DEF TransformInv, Cached, Reasoned, Current
<1> QED  BY <1>2, <1>3, <1>5, <1>6, <1>7 DEF TransformInv

\* Nothing is claimed of the passes of what the host has withdrawn.
LEMMA ResetKeeps ==
    ASSUME TransformInv, Reset
    PROVE  TransformInv'
<1> DEFINE new == [g \in Slots |-> [gens[g] EXCEPT !.withdrawn = TRUE]]
<1>1. /\ events' <= MaxEvents /\ events' \in Nat /\ events <= events' /\ disk \in Disk
      /\ cache' = NoGen /\ epoch' = 0 /\ opened' = Version0 /\ compiled' = 0
      /\ UNCHANGED <<disk, req>> /\ gens' = Kept(new)
  BY BoundAssumption DEF Reset, Happens, TransformInv, TypeOK
<1>2. \A g \in Slots :
         /\ new[g] \in Generation /\ new[g].withdrawn /\ new[g].at = gens[g].at
         /\ new[g].kind = gens[g].kind /\ new[g].inputs = gens[g].inputs
         /\ new[g].before = gens[g].before /\ new[g].verdict = gens[g].verdict
         /\ new[g].track = gens[g].track /\ new[g].owed = gens[g].owed
         /\ new[g].heard = gens[g].heard /\ new[g].drain = gens[g].drain
         /\ new[g].unverified = gens[g].unverified
  <2> TAKE g \in Slots
  <2> DEFINE x == gens[g]
             y == [x EXCEPT !.withdrawn = TRUE]
  <2>1. x \in Generation
    BY DEF TransformInv, TypeOK
  <2>2. /\ y \in Generation /\ y.withdrawn /\ y.at = x.at /\ y.kind = x.kind
        /\ y.inputs = x.inputs /\ y.before = x.before /\ y.verdict = x.verdict
        /\ y.track = x.track /\ y.owed = x.owed /\ y.heard = x.heard
        /\ y.drain = x.drain /\ y.unverified = x.unverified
    BY <2>1 DEF Generation
  <2> HIDE DEF x
  <2>3. new[g] = y
    BY DEF x
  <2> HIDE DEF y, new
  <2> QED  BY <2>2, <2>3 DEF x
<1> HIDE DEF new
<1>3. Leaves(new)
  BY <1>1, KeptLeaves
<1>4. \A i \in Inputs : Version0[i] = 0
  BY DEF Version0
<1>5. \A g \in Slots : gens'[g] \in Generation
  BY <1>2, <1>3, BlankFields DEF Leaves
<1>6. TypeOK'
  <2>1. gens' \in [Slots -> Generation]
    BY <1>3, <1>5 DEF Leaves
  <2> QED  BY <1>1, <2>1, Numbers DEF TransformInv, TypeOK, Epochs
<1>7. Counted'
  <2>1. \A i \in Inputs : disk[i] \in Nat /\ disk[i] <= events /\ events \in Nat
    BY <1>1, BoundAssumption DEF TransformInv, TypeOK, Counted, Disk
  <2>2. 0 <= events' /\ \A i \in Inputs : disk[i] <= events'
    BY <1>1, <2>1
  <2> QED  BY <1>1, <1>4, <2>1, <2>2 DEF Counted, NoOlder
<1>8. Generations'
  <2> SUFFICES ASSUME NEW g \in Slots
               PROVE  (Captured(gens[g]) /\ Observed(gens[g]) /\ Dated(gens[g]))'
    BY DEF Generations
  <2>1. Captured(gens[g]) /\ Observed(gens[g])
    BY DEF TransformInv, Generations
  <2>2. CASE gens'[g] = new[g]
    <3>1. Captured(gens[g])' /\ Observed(gens[g])'
      BY <1>1, <1>2, <2>1, <2>2 DEF Captured, Observed, NoOlder
    <3>2. Dated(gens[g])'
      BY <1>2, <2>2 DEF Dated, InPass
    <3> QED  BY <3>1, <3>2
  <2>3. CASE gens'[g] = Blank
    <3>1. Captured(gens[g])' /\ Observed(gens[g])' /\ Dated(gens[g])'
      BY <1>1, <1>4, <2>3, BlankFields
         DEF Captured, Observed, Dated, InPass, NoOlder, NoDrain, Disk
    <3> QED  BY <3>1
  <2> QED  BY <1>3, <2>2, <2>3 DEF Leaves
<1>9. Waiters'
  <2> SUFFICES ASSUME NEW r \in Requests, req[r].pc \in Waiting
               PROVE  req[r].gen \in Slots /\ (Waits(req[r], gens[req[r].gen]))'
    BY <1>1 DEF Waiters
  <2> DEFINE q == req[r]
             g == q.gen
  <2>1. q \in Request /\ g \in Slots /\ Waits(q, gens[g])
    BY WaiterKnows
  <2>2. gens'[g] = new[g]
    BY <1>1, <1>3, <2>1 DEF Leaves
  <2>3. Passing(req[r], gens[g])' /\ Asked(req[r])'
    BY <1>1, <1>2, <2>1, <2>2 DEF Waits, Asked, Passing, NoOlder
  <2>4. Awaited(req[r], gens[g])'
    BY <1>1, <1>2, <2>1, <2>2 DEF Waits, Awaited
  <2>5. Promised(req[r], gens[g])'
    <3>1. /\ gens'[g].inputs = gens[g].inputs /\ gens'[g].drain = gens[g].drain
          /\ gens'[g].track = gens[g].track /\ gens'[g].heard = gens[g].heard
          /\ gens'[g].unverified = gens[g].unverified
      BY <1>2, <2>1, <2>2
    <3>2. req'[r] = req[r] /\ Promised(req[r], gens[g])
      BY <1>1, <2>1 DEF Waits
    <3> QED  BY <3>1, <3>2 DEF Promised, NoOlder
  <2> QED  BY <1>1, <2>1, <2>3, <2>4, <2>5 DEF Waits
<1>10. Cached' /\ Reasoned'
  BY <1>1 DEF Cached, Reasoned
<1> QED  BY <1>6, <1>7, <1>8, <1>9, <1>10 DEF TransformInv

\* The trackers owe word of an edit from the moment it is made.
LEMMA EditKeeps ==
    ASSUME TransformInv, NEW i \in Inputs, Edit(i)
    PROVE  TransformInv'
<1>1. /\ events' = events + 1 /\ events' <= MaxEvents /\ events \in Nat
      /\ disk' = [disk EXCEPT ![i] = @ + 1] /\ compiled' = 0
      /\ UNCHANGED <<epoch, cache, req, opened>>
  BY BoundAssumption DEF Edit, Happens, TransformInv, TypeOK
<1>2. /\ disk \in Disk /\ \A j \in Inputs : disk[j] \in Nat /\ disk[j] <= events
      /\ epoch <= events
  BY DEF TransformInv, TypeOK, Disk, Counted
<1>3. /\ disk' \in Disk
      /\ \A j \in Inputs : disk[j] <= disk'[j] /\ disk'[j] <= events'
                           /\ (j # i => disk'[j] = disk[j])
  <2>1. \A j \in Inputs : disk'[j] = IF j = i THEN disk[i] + 1 ELSE disk[j]
    BY <1>1, <1>2 DEF Disk
  <2>2. \A j \in Inputs : disk'[j] \in 0 .. MaxEvents
    BY <1>1, <1>2, <2>1, BoundAssumption DEF Disk
  <2> QED  BY <1>1, <1>2, <2>1, <2>2 DEF Disk
<1>4. ASSUME NEW d \in Disk, NoOlder(disk, d) PROVE NoOlder(disk', d)
  <2>1. \A j \in Inputs : d[j] \in Nat /\ disk'[j] \in Nat
    BY <1>3 DEF Disk
  <2> QED  BY <1>2, <1>3, <1>4, <2>1 DEF NoOlder
<1>5. /\ gens' = [g \in Slots |-> gens'[g]]
      /\ \A g \in Slots :
           /\ gens'[g] \in Generation /\ gens'[g].withdrawn = gens[g].withdrawn
           /\ gens'[g].at = gens[g].at
           /\ gens'[g].kind = gens[g].kind /\ gens'[g].inputs = gens[g].inputs
           /\ gens'[g].before = gens[g].before /\ gens'[g].verdict = gens[g].verdict
           /\ gens'[g].epoch = gens[g].epoch /\ gens'[g].vepoch = gens[g].vepoch
           /\ gens'[g].track = gens[g].track /\ gens'[g].heard = gens[g].heard
           /\ gens'[g].drain = gens[g].drain /\ gens'[g].unverified = gens[g].unverified
           /\ gens[g].owed \subseteq gens'[g].owed /\ (gens[g].track => i \in gens'[g].owed)
  <2>1. gens' = [g \in Slots |-> IF gens[g].track
                                 THEN [gens[g] EXCEPT !.owed = gens[g].owed \cup {i}]
                                 ELSE gens[g]]
    BY DEF Edit
  <2>2. gens' = [g \in Slots |-> gens'[g]]
    BY <2>1
  <2>3. ASSUME NEW x \in Generation
        PROVE  LET y == [x EXCEPT !.owed = x.owed \cup {i}]
               IN  /\ y \in Generation /\ y.withdrawn = x.withdrawn /\ y.at = x.at
                   /\ y.kind = x.kind /\ y.inputs = x.inputs /\ y.before = x.before
                   /\ y.verdict = x.verdict /\ y.epoch = x.epoch /\ y.vepoch = x.vepoch
                   /\ y.track = x.track /\ y.heard = x.heard /\ y.drain = x.drain
                   /\ y.unverified = x.unverified /\ y.owed = x.owed \cup {i}
    BY DEF Generation
  <2>4. \A g \in Slots : gens[g] \in Generation
    BY DEF TransformInv, TypeOK
  <2>5. ASSUME NEW g \in Slots, gens[g].track
        PROVE  gens'[g] = [gens[g] EXCEPT !.owed = gens[g].owed \cup {i}]
    BY <2>1, <2>5
  <2>6. ASSUME NEW g \in Slots, ~gens[g].track PROVE gens'[g] = gens[g]
    BY <2>1, <2>6
  <2>7. ASSUME NEW g \in Slots
        PROVE  LET x == gens[g]
                   y == gens'[g]
               IN  /\ y \in Generation /\ y.withdrawn = x.withdrawn /\ y.at = x.at
                   /\ y.kind = x.kind /\ y.inputs = x.inputs /\ y.before = x.before
                   /\ y.verdict = x.verdict /\ y.epoch = x.epoch /\ y.vepoch = x.vepoch
                   /\ y.track = x.track /\ y.heard = x.heard /\ y.drain = x.drain
                   /\ y.unverified = x.unverified /\ x.owed \subseteq y.owed
                   /\ x.track => i \in y.owed
    <3> DEFINE x == gens[g]
               y == [x EXCEPT !.owed = x.owed \cup {i}]
    <3>1. CASE x.track
      <4>1. gens'[g] = y
        BY <1>1, <2>5, <3>1
      <4> HIDE DEF y
      <4>2. /\ y \in Generation /\ y.withdrawn = x.withdrawn /\ y.at = x.at
            /\ y.kind = x.kind /\ y.inputs = x.inputs /\ y.before = x.before
            /\ y.verdict = x.verdict /\ y.epoch = x.epoch /\ y.vepoch = x.vepoch
            /\ y.track = x.track /\ y.heard = x.heard /\ y.drain = x.drain
            /\ y.unverified = x.unverified /\ y.owed = x.owed \cup {i}
        BY <2>3, <2>4 DEF y
      <4> QED  BY <4>1, <4>2
    <3>2. CASE ~x.track
      BY <2>4, <2>6, <3>2
    <3> QED  BY <3>1, <3>2
  <2> QED  BY <2>2, <2>7
<1>6. TypeOK'
  BY <1>1, <1>3, <1>5 DEF TransformInv, TypeOK
<1>7. Counted'
  <2>1. NoOlder(disk', opened)
    BY <1>4 DEF TransformInv, TypeOK, Counted
  <2>2. epoch \in Nat /\ epoch <= events'
    BY <1>1, <1>2, BoundAssumption DEF TransformInv, TypeOK, Epochs
  <2> QED  BY <1>1, <1>3, <2>1, <2>2 DEF Counted, NoOlder
<1>8. Generations'
  <2> SUFFICES ASSUME NEW g \in Slots
               PROVE  (Captured(gens[g]) /\ Observed(gens[g]) /\ Dated(gens[g]))'
    BY DEF Generations
  <2>1. Sound(gens[g]) /\ gens[g].inputs \in Disk
    BY SoundSlots DEF Sound, Generation
  <2>2. Captured(gens[g])'
    BY <1>4, <1>5, <2>1 DEF Sound, Captured, NoOlder
  <2>3. Observed(gens[g])'
    <3> SUFFICES ASSUME gens[g].track PROVE Observed(gens[g])'
      BY <1>5 DEF Observed
    <3>1. /\ gens[g].at = "done" /\ gens[g].kind = "complete"
          /\ \A j \in Inputs \ (gens[g].owed \cup gens[g].heard) :
                gens[g].inputs[j] = disk[j]
      BY <2>1 DEF Sound, Observed
    <3>2. \A j \in Inputs \ (gens'[g].owed \cup gens'[g].heard) :
             gens'[g].inputs[j] = disk'[j]
      BY <1>3, <1>5, <3>1
    <3>3. gens'[g].drain.on =>
             /\ gens'[g].drain.need \subseteq gens'[g].owed \cup gens'[g].heard
             /\ \A j \in Inputs \ (gens'[g].drain.need \cup gens'[g].heard) :
                   gens'[g].inputs[j] = gens'[g].drain.since[j]
      BY <1>5, <2>1 DEF Sound, Observed
    <3> QED  BY <1>5, <3>1, <3>2, <3>3 DEF Observed
  <2>4. Dated(gens[g])'
    BY <1>1, <1>5, <2>1 DEF Sound, Dated, InPass, NoOlder
  <2> QED  BY <2>2, <2>3, <2>4
<1>9. Waiters'
  <2> SUFFICES ASSUME NEW r \in Requests, req[r].pc \in Waiting
               PROVE  req[r].gen \in Slots /\ (Waits(req[r], gens[req[r].gen]))'
    BY <1>1 DEF Waiters
  <2> DEFINE g == req[r].gen
  <2>1. req[r] \in Request /\ g \in Slots /\ Waits(req[r], gens[g])
    BY WaiterKnows
  <2>2. Asked(req[r])'
    <3>1. req[r].file \in Inputs /\ req[r].floor \in Disk
      BY <2>1, ProjectAssumption DEF Request
    <3>2. NoOlder(disk', req[r].floor)
      BY <1>4, <2>1, <3>1 DEF Waits, Asked
    <3>3. req[r].text # Rewritten => req[r].text <= disk'[req[r].file]
      BY <1>2, <1>3, <2>1, <3>1 DEF Waits, Asked, Request, Disk
    <3>4. req[r].joined => req[r].epoch = 0 /\ req[r].pc \in {"settle", "admit"}
      BY <2>1 DEF Waits, Asked
    <3> QED  BY <1>1, <3>2, <3>3, <3>4 DEF Asked, NoOlder
  <2>3. Passing(req[r], gens[g])' /\ Awaited(req[r], gens[g])' /\ Promised(req[r], gens[g])'
    <3>1. Passing(req[r], gens[g])'
      BY <1>1, <1>5, <2>1 DEF Waits, Passing, NoOlder
    <3>2. Awaited(req[r], gens[g])'
      BY <1>1, <1>5, <2>1 DEF Waits, Awaited
    <3>3. Promised(req[r], gens[g])'
      BY <1>1, <1>5, <2>1 DEF Waits, Promised, NoOlder
    <3> QED  BY <3>1, <3>2, <3>3
  <2> QED  BY <1>1, <2>1, <2>2, <2>3 DEF Waits
<1>10. Cached' /\ Reasoned'
  BY <1>1, <1>5 DEF TransformInv, TypeOK, Cached, Reasoned
<1> QED  BY <1>6, <1>7, <1>8, <1>9, <1>10 DEF TransformInv

-----------------------------------------------------------------------------
(* The invariant.                                                          *)

\* The invariant holds at first.
LEMMA InitInv ==
    ASSUME Init PROVE TransformInv
<1> USE DEF Init
<1>1. TypeOK
  <2>1. gens \in [Slots -> Generation] /\ req \in [Requests -> Request]
    BY BlankFields, IdleTyped
  <2>2. compiled \in 0 .. 2 /\ cache \in {NoGen} \cup Slots
    OBVIOUS
  <2> HIDE DEF Init
  <2>3. disk = Version0 /\ opened = Version0 /\ epoch = 0 /\ events = 0
    BY DEF Init
  <2> QED  BY <2>1, <2>2, <2>3, Numbers DEF TypeOK, Epochs
<1>2. Counted
  BY DEF Counted, NoOlder, Version0
<1>3. Generations
  BY <1>1, BlankSound DEF Generations, Sound
<1>4. Cached /\ Reasoned
  BY DEF Cached, Reasoned
<1>5. Waiters
  BY IdleTyped DEF Waiters, Waiting
<1> QED  BY <1>1, <1>2, <1>3, <1>4, <1>5 DEF TransformInv

\* A stutter keeps the invariant.
LEMMA StutterKeeps ==
    ASSUME TransformInv, UNCHANGED vars PROVE TransformInv'
<1> USE DEF TransformInv, vars
<1>1. TypeOK' /\ Counted' /\ Cached' /\ Reasoned'
  BY DEF TypeOK, Counted, Cached, Reasoned, NoOlder, Current
<1>2. Generations'
  BY DEF Generations, Captured, Observed, Dated, InPass, NoOlder
<1>3. Waiters'
  BY DEF Waiters, Waits, Asked, Awaited, Passing, Promised, NoOlder
<1> QED  BY <1>1, <1>2, <1>3

\* Every step keeps the invariant.
LEMMA NextKeeps ==
    ASSUME TransformInv, [Next]_vars PROVE TransformInv'
<1>1. ASSUME NEW r \in Requests, Arrive(r) \/ Step(r) PROVE TransformInv'
  BY <1>1, StepKeeps
<1>2. ASSUME NEW g \in Slots, Work(g) PROVE TransformInv'
  BY <1>2, WorkKeeps, DrainedKeeps DEF Work
<1>3. ASSUME NEW g \in Slots, WatcherFails(g) PROVE TransformInv'
  BY <1>3, WatcherFailsKeeps
<1>4. ASSUME NEW g \in Slots, NEW i \in Inputs, Hear(g, i) PROVE TransformInv'
  BY <1>4, HearKeeps
<1> QED  BY <1>1, <1>2, <1>3, <1>4, BeginBuildKeeps, ResetKeeps, EditKeeps, StutterKeeps DEF Next

-----------------------------------------------------------------------------
(* Freshness of the answers.                                               *)

\* A request that ends is answered from the generation it ends with.
LEMMA EndAnswers ==
    ASSUME TypeOK, NEW r \in Requests, NEW q \in Request, NEW outcome \in Ends,
           End(r, q, outcome)
    PROVE  req'[r].pc = "none" \/ (req'[r].pc = outcome /\ req'[r].gen = q.gen)
<1>1. q.gen \in {NoGen} \cup Slots
  BY DEF Request
<1>2. /\ [Idle EXCEPT !.pc = "none"].pc = "none"
      /\ [Idle EXCEPT !.pc = outcome, !.gen = q.gen].pc = outcome
      /\ [Idle EXCEPT !.pc = outcome, !.gen = q.gen].gen = q.gen
  BY <1>1, IdleTyped DEF Request
<1>3. CASE q.preparing
  <2>1. req'[r] = [Idle EXCEPT !.pc = "none"]
    BY <1>3 DEF End, TypeOK
  <2> QED  BY <1>2, <2>1
<1>4. CASE ~q.preparing
  <2>1. req'[r] = [Idle EXCEPT !.pc = outcome, !.gen = q.gen]
    BY <1>4 DEF End, TypeOK
  <2> QED  BY <1>2, <2>1
<1> QED  BY <1>3, <1>4

\* A capture answers nobody yet.
LEMMA CaptureWaits ==
    ASSUME TypeOK, NEW r \in Requests, NEW q \in Request, NEW n, Capture(r, q, n)
    PROVE  req'[r].pc = "await"
BY DEF Capture, TypeOK, Request

\* A turn of the loop answers at once only with a failure of its own pass.
LEMMA EnterFresh ==
    ASSUME TransformInv, NEW r \in Requests, NEW q0 \in Request, Enter(r, q0),
           req[r].pc \in Waiting => Superseded(r)
    PROVE  AnsweredFresh(r)
<1> DEFINE q == Entered(q0)
<1>1. /\ q \in Request /\ q.epoch = epoch
      /\ Entered(req[r]).floor = (IF epoch = 0 THEN disk ELSE opened)
      /\ Entered(req[r]) \in Request /\ ~Entered(req[r]).joined
  BY Numbers DEF TransformInv, TypeOK, Entered, Request
<1>2. CASE \E n \in Nat : Capture(r, q, n)
  BY <1>1, <1>2, CaptureWaits DEF AnsweredFresh, TransformInv
<1>3. CASE \E l \in {"await", "confirm"} : Join(r, q, l)
  <2>1. req'[r].pc \in {"await", "confirm"}
    BY <1>1, <1>3 DEF Join, Request, TransformInv, TypeOK
  <2> QED  BY <2>1 DEF AnsweredFresh
<1>4. CASE /\ cache # NoGen /\ PassReplays(q)
           /\ End(r, [q EXCEPT !.gen = cache], "failed")
  <2>1. cache \in Slots /\ [q EXCEPT !.gen = cache] \in Request
        /\ [q EXCEPT !.gen = cache].gen = cache
    BY <1>1, <1>4 DEF Request, TransformInv, TypeOK
  <2>2. req'[r].pc \in {"none", "failed"} /\ (req'[r].pc = "failed" => req'[r].gen = cache)
    BY <1>4, <2>1, EndAnswers DEF Ends, TransformInv
  <2>3. ~gens[cache].withdrawn /\ Dated(gens[cache])
    BY <1>4, <2>1 DEF TransformInv, Cached, Generations
  <2>4. epoch # 0 /\ NoOlder(gens[cache].inputs, opened)
    BY <1>1, <1>4, <2>3 DEF PassReplays, Dated, InPass
  <2>5. ~(req[r].pc \in Waiting /\ req[r].gen = cache)
    BY DEF Superseded
  <2>6. \A i \in Inputs : gens[cache].inputs[i] \in Nat /\ opened[i] \in Nat
    BY <2>1 DEF TransformInv, TypeOK, Generation, Disk
  <2>7. FreshFor(Entered(req[r]), gens[cache], FALSE)
    BY <1>1, <2>3, <2>4, <2>6, ReachesOrder DEF FreshFor, NoOlder
  <2> QED  BY <2>2, <2>5, <2>7 DEF AnsweredFresh, Examined
<1>5. compiled \in Nat /\ 0 \in Nat
  BY DEF TransformInv, TypeOK
<1> HIDE DEF q
<1>6. \/ \E n \in Nat : Capture(r, q, n)
      \/ \E l \in {"await", "confirm"} : Join(r, q, l)
      \/ cache # NoGen /\ PassReplays(q) /\ End(r, [q EXCEPT !.gen = cache], "failed")
  BY <1>5 DEF Enter, q
<1> QED  BY <1>2, <1>3, <1>4, <1>6

\* A request that is answered when it arrives is answered fresh.
LEMMA ArriveFresh ==
    ASSUME TransformInv, NEW r \in Requests, Arrive(r)
    PROVE  AnsweredFresh(r)
<1>1. PICK f \in Asks[r], preparing \in BOOLEAN : \E text \in {disk[f], Rewritten} :
        Enter(r, [Idle EXCEPT !.file = f, !.text = text, !.preparing = preparing])
  BY DEF Arrive
<1>2. PICK text \in {disk[f], Rewritten} :
        Enter(r, [Idle EXCEPT !.file = f, !.text = text, !.preparing = preparing])
  BY <1>1
<1> DEFINE q0 == [Idle EXCEPT !.file = f, !.text = text, !.preparing = preparing]
<1>3. f \in Modules /\ f \in Inputs
  BY ProjectAssumption
<1>4. q0 \in Request
  <2>1. text \in (0 .. MaxEvents) \cup {Rewritten}
    BY <1>3 DEF TransformInv, TypeOK, Disk
  <2> QED  BY <1>3, <2>1, IdleTyped DEF Request
<1> HIDE DEF q0
<1>5. Enter(r, q0)
  BY <1>2 DEF q0
<1>6. req[r].pc \notin Waiting
  BY DEF Arrive
<1> QED  BY <1>4, <1>5, <1>6, EnterFresh

\* A request that was superseded is answered fresh or not at all.
LEMMA LeaveFresh ==
    ASSUME TransformInv, NEW r \in Requests, req[r].pc \in Waiting, Superseded(r), Leave(r)
    PROVE  AnsweredFresh(r)
<1>1. req[r] \in Request
  BY DEF TransformInv, TypeOK
<1>2. CASE End(r, req[r], "none")
  <2>1. req'[r].pc = "none"
    BY <1>1, <1>2, EndAnswers DEF Ends, TransformInv
  <2> QED  BY <2>1 DEF AnsweredFresh
<1>3. CASE Enter(r, req[r])
  BY <1>1, <1>3, EnterFresh
<1> QED  BY <1>2, <1>3 DEF Leave

\* A delivery of x, in the state y its admission left it in.
LEMMA DeliverFresh ==
    ASSUME TransformInv, NEW r \in Requests, req[r].pc \in Waiting,
           NEW y, Deliver(r, req[r], y), y.result = gens[req[r].gen].result,
           y.result = "failure" => FreshFor(req[r], gens[req[r].gen], FALSE),
           y.result # "failure" => FreshFor(req[r], gens[req[r].gen], TRUE)
    PROVE  AnsweredFresh(r)
<1>1. PICK outcome \in Ends :
        /\ End(r, req[r], outcome) /\ outcome # "replayed"
        /\ outcome = "served" => y.result # "failure"
        /\ outcome = "failed" => y.result = "failure"
  BY DeliverOutcome
<1>2. req[r] \in Request
  BY DEF TransformInv, TypeOK
<1>3. req'[r].pc = "none" \/ (req'[r].pc = outcome /\ req'[r].gen = req[r].gen)
  BY <1>1, <1>2, EndAnswers DEF TransformInv
<1>4. CASE req'[r].pc = "served"
  BY <1>1, <1>3, <1>4 DEF AnsweredFresh, Examined
<1>5. CASE req'[r].pc = "failed"
  BY <1>1, <1>3, <1>5 DEF AnsweredFresh, Examined
<1>6. CASE req'[r].pc \notin {"served", "failed"}
  BY <1>1, <1>3, <1>6 DEF AnsweredFresh
<1> QED  BY <1>4, <1>5, <1>6

\* What was captured for a request is as fresh as it asked.
LEMMA AwaitFresh ==
    ASSUME TransformInv, NEW r \in Requests, Await(r)
    PROVE  AnsweredFresh(r)
<1> DEFINE q == req[r]
           x == gens[q.gen]
<1>0. q.pc = "await" /\ q.pc \in Waiting
  BY DEF Await, Waiting
<1>1. q \in Request /\ q.gen \in Slots /\ Waits(q, x) /\ Sound(x)
  BY <1>0, WaiterKnows
<1>2. CASE AwaitRejected(r)
  <2>1. req'[r].pc \in {"none", "rejected"}
    BY <1>1, <1>2, EndAnswers DEF AwaitRejected, Ends, TransformInv
  <2> QED  BY <2>1 DEF AnsweredFresh
<1>3. CASE Superseded(r) /\ Leave(r)
  BY <1>0, <1>3, LeaveFresh
<1>4. CASE AwaitOwn(r)
  <2>1. CASE End(r, q, "none")
    <3>1. req'[r].pc = "none"
      BY <1>1, <2>1, EndAnswers DEF Ends, TransformInv
    <3> QED  BY <3>1 DEF AnsweredFresh
  <2>2. CASE Deliver(r, q, x)
    <3>1. q.own /\ cache = q.gen
      BY <1>4 DEF AwaitOwn, Superseded
    <3>2. ~x.withdrawn
      BY <1>0, <3>1, WaiterKnows
    <3>3. NoOlder(x.inputs, Reaches(q)) /\ (q.text # Rewritten => q.text <= x.inputs[q.file])
      BY <1>0, <1>1, <3>1, ReachesOrder DEF Waits, Promised, Asked
    <3>4. \A i \in Inputs : x.inputs[i] \in Nat /\ Reaches(q)[i] \in Nat
      BY <1>1, ReachesOrder DEF Sound, Generation, Disk
    <3>5. /\ q.file \in Inputs /\ Deps[q.file] \subseteq Inputs
          /\ q.text # Rewritten => q.text \in Nat
      BY <1>1, ProjectAssumption DEF Request
    <3>6. FreshFor(q, x, FALSE) /\ FreshFor(q, x, TRUE)
      BY <3>2, <3>3, <3>4, <3>5 DEF FreshFor, NoOlder
    <3> QED  BY <1>0, <2>2, <3>6, DeliverFresh
  <2> QED  BY <1>4, <2>1, <2>2 DEF AwaitOwn
<1>5. CASE AwaitOther(r)
  <2>1. req'[r].pc \in {"settle", "admit"}
    BY <1>1, <1>5 DEF AwaitOther, TransformInv, TypeOK, Request
  <2> QED  BY <2>1 DEF AnsweredFresh
<1> QED  BY <1>2, <1>3, <1>4, <1>5 DEF Await

\* What is admitted for a request is as fresh as its pass, or itself, asks.
LEMMA AdmitFresh ==
    ASSUME TransformInv, NEW r \in Requests, Admit(r)
    PROVE  AnsweredFresh(r)
<1> DEFINE q == req[r]
           x == gens[q.gen]
<1>0. q.pc = "admit" /\ q.pc \in Waiting
  BY DEF Admit, Waiting
<1>1. q \in Request /\ q.gen \in Slots /\ Waits(q, x) /\ Sound(x)
  BY <1>0, WaiterKnows
<1>2. CASE Superseded(r) /\ Leave(r)
  BY <1>0, <1>2, LeaveFresh
<1>3. CASE End(r, q, "none")
  <2>1. req'[r].pc = "none"
    BY <1>1, <1>3, EndAnswers DEF Ends, TransformInv
  <2> QED  BY <2>1 DEF AnsweredFresh
<1>4. CASE ~Superseded(r) /\ Matches(q, x) /\ Deliver(r, q, Proven(q, x))
  <2>1. ~x.withdrawn
    BY <1>0, <1>4, WaiterKnows DEF Superseded
  <2>2. /\ x.result = "failure" => NoOlder(x.inputs, Reaches(q))
        /\ \A i \in Deps[q.file] : Reaches(q)[i] <= x.inputs[i]
        /\ x.kind # "snapshot" /\ q.text # Rewritten => q.text <= x.inputs[q.file]
    BY <1>0, <1>1, <1>4, <2>1, MatchesFresh
  <2>3. \A i \in Inputs : x.inputs[i] \in Nat /\ Reaches(q)[i] \in Nat
    BY <1>1, ReachesOrder DEF Sound, Generation, Disk
  <2>4. /\ q.file \in Inputs /\ Deps[q.file] \subseteq Inputs
        /\ q.text # Rewritten => q.text \in Nat
    BY <1>1, ProjectAssumption DEF Request
  <2>5. FreshFor(q, x, TRUE) /\ (x.result = "failure" => FreshFor(q, x, FALSE))
    BY <2>1, <2>2, <2>3, <2>4 DEF FreshFor, NoOlder
  <2>6. Proven(q, x).result = x.result
    BY <1>1, <1>4, <2>1, ProvenExtends DEF Extends
  <2> QED  BY <1>0, <1>4, <2>5, <2>6, DeliverFresh
<1>5. CASE \E n \in {0, compiled} : Capture(r, q, n)
  BY <1>1, <1>5, CaptureWaits DEF AnsweredFresh, TransformInv
<1> QED  BY <1>2, <1>3, <1>4, <1>5 DEF Admit

\* An unstable verdict is replayed over the disk it was given for.
LEMMA ConfirmFresh ==
    ASSUME TransformInv, NEW r \in Requests, Confirm(r)
    PROVE  AnsweredFresh(r)
<1> DEFINE q == req[r]
           x == gens[q.gen]
<1>0. q.pc = "confirm" /\ q.pc \in Waiting
  BY DEF Confirm, Waiting
<1>1. q \in Request /\ q.gen \in Slots /\ Waits(q, x) /\ Sound(x)
  BY <1>0, WaiterKnows
<1>2. CASE Superseded(r) /\ Leave(r)
  BY <1>0, <1>2, LeaveFresh
<1>3. CASE ~Superseded(r) /\ disk = x.inputs /\ End(r, q, "replayed")
  <2>1. ~x.withdrawn
    BY <1>0, <1>3, WaiterKnows DEF Superseded
  <2>2. req'[r].pc = "none" \/ (req'[r].pc = "replayed" /\ req'[r].gen = q.gen)
    BY <1>1, <1>3, EndAnswers DEF Ends, TransformInv
  <2>3. \A i \in Inputs : x.inputs[i] \in Nat /\ Reaches(q)[i] \in Nat
    BY <1>1, ReachesOrder DEF Sound, Generation, Disk
  <2>4. FreshFor(q, x, FALSE)
    <3>1. NoOlder(x.inputs, Reaches(q))
      BY <1>1, <1>3, FloorReaches DEF Sound, Generation, Waits, Asked
    <3> QED  BY <2>1, <2>3, <3>1 DEF FreshFor, NoOlder
  <2> QED  BY <1>0, <2>2, <2>4 DEF AnsweredFresh, Examined
<1>4. CASE Capture(r, q, compiled)
  BY <1>1, <1>4, CaptureWaits DEF AnsweredFresh, TransformInv
<1> QED  BY <1>2, <1>3, <1>4 DEF Confirm

\* No step but those of a request answers it.
LEMMA OthersAnswerNobody ==
    ASSUME TransformInv, NEW r \in Requests, NEW s \in Requests, s # r,
           Arrive(s) \/ Step(s)
    PROVE  req'[r] = req[r]
<1>1. \A q, o : End(s, q, o) => req'[r] = req[r]
  BY DEF End, TransformInv, TypeOK
<1>2. \A q, n : Capture(s, q, n) => req'[r] = req[r]
  BY DEF Capture, TransformInv, TypeOK
<1>3. \A q : Enter(s, q) => req'[r] = req[r]
  BY <1>1, <1>2 DEF Enter, Join, TransformInv, TypeOK
<1>4. \A q, x : Deliver(s, q, x) => req'[r] = req[r]
  BY <1>1, DeliverOutcome
<1>5. Leave(s) => req'[r] = req[r]
  BY <1>1, <1>3 DEF Leave
<1>6. Arrive(s) => req'[r] = req[r]
  BY <1>3 DEF Arrive
<1>7. Await(s) => req'[r] = req[r]
  BY <1>1, <1>4, <1>5 DEF Await, AwaitRejected, AwaitOwn, AwaitOther, TransformInv, TypeOK
<1>8. Admit(s) => req'[r] = req[r]
  BY <1>1, <1>2, <1>4, <1>5 DEF Admit
<1>9. Confirm(s) => req'[r] = req[r]
  BY <1>1, <1>2, <1>5 DEF Confirm
<1> QED  BY <1>6, <1>7, <1>8, <1>9 DEF Step

\* Every step answers fresh.
LEMMA NextFresh ==
    ASSUME TransformInv, [Next]_vars, NEW r \in Requests PROVE AnsweredFresh(r)
<1>1. ASSUME NEW s \in Requests, Arrive(s) \/ Step(s) PROVE AnsweredFresh(r)
  <2>1. CASE s = r
    BY <1>1, <2>1, ArriveFresh, AwaitFresh, AdmitFresh, ConfirmFresh DEF Step
  <2>2. CASE s # r
    BY <1>1, <2>2, OthersAnswerNobody DEF AnsweredFresh
  <2> QED  BY <2>1, <2>2
<1>2. ASSUME NEW g \in Slots, NEW held \in BOOLEAN, Drained(g, held) PROVE AnsweredFresh(r)
  <2>1. req'[r] = req[r] \/ req'[r] = [req[r] EXCEPT !.pc = "admit"]
    BY <1>2 DEF Drained
  <2>2. req[r] \in Request
    BY DEF TransformInv, TypeOK
  <2>3. [req[r] EXCEPT !.pc = "admit"].pc = "admit"
    BY <2>2 DEF Request
  <2> QED  BY <2>1, <2>3 DEF AnsweredFresh
<1>3. ASSUME UNCHANGED req PROVE AnsweredFresh(r)
  BY <1>3 DEF AnsweredFresh
<1>4. ASSUME NEW g \in Slots, Work(g) PROVE AnsweredFresh(r)
  BY <1>2, <1>3, <1>4 DEF Work, Compile, Throws, Walk
<1> QED  BY <1>1, <1>3, <1>4
         DEF Next, WatcherFails, Hear, BeginBuild, Reset, Edit, vars

-----------------------------------------------------------------------------
(* Theorems.                                                               *)

\* The inductive invariant of transform.ts: what each request has been promised
\* of the generation it waits for, what trackers stand for, what a pass allows.
THEOREM TransformInvariant == Spec => []TransformInv
<1>1. Init => TransformInv
  BY InitInv
<1>2. TransformInv /\ [Next]_vars => TransformInv'
  BY NextKeeps
<1> QED  BY <1>1, <1>2, PTL DEF Spec

\* Every variable of the cache holds a value of its kind.
THEOREM TransformTypes == Spec => []TypeOK
<1>1. TransformInv => TypeOK
  BY DEF TransformInv
<1> QED  BY <1>1, TransformInvariant, PTL

\* beginTtscTransformBuild, retainPassVerdict, deliverCachedTransform: however
\* many requests, passes and rewritten texts follow, the project is compiled
\* once until there is a reason to compile it again.
THEOREM TransformCompiledOnce == Spec => []CompiledOnce
<1>1. TransformInv => CompiledOnce
  BY DEF TransformInv, Reasoned, CompiledOnce, TypeOK
<1> QED  BY <1>1, TransformInvariant, PTL

\* deliverCachedTransform, matchesCachedSource: no request is answered from
\* inputs older than the opening of its pass; outside one, older than itself and
\* than the drain it joined; from text older than its host has read, unless from a
\* snapshot in its own pass; or from a generation the host has withdrawn.
THEOREM TransformAnswersFresh == Spec => AnswersFresh
<1>1. TransformInv /\ [Next]_vars => \A r \in Requests : AnsweredFresh(r)
  BY NextFresh
<1> QED  BY <1>1, TransformInvariant, PTL DEF Spec, AnswersFresh
=============================================================================
