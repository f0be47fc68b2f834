-------------------------- MODULE WatchSettleProofs --------------------------
(***************************************************************************)
(* Watch mode: settle receipts are honest, for any number of resident      *)
(* check plugins and edits.  The argument follows what the worker tells     *)
(* the launcher: the first refresh is answered before any settle query, a   *)
(* query is alone on its way, and ahead of its answer go the reports of     *)
(* what the answer vouches for.                                             *)
(***************************************************************************)
EXTENDS WatchSessionProofs

-----------------------------------------------------------------------------
(* What a step does to the messages under way.                             *)

\* What is on the channel stays there.
Grows ==
    /\ Len(out) \in Nat /\ Len(out') \in Nat /\ Len(out) <= Len(out')
    /\ DOMAIN out = 1 .. Len(out) /\ DOMAIN out' = 1 .. Len(out')
    /\ \A j \in DOMAIN out : j \in DOMAIN out' /\ out'[j] = out[j]

\* An input that differed from its baseline is reported.
Tells(is) ==
    \A i \in is : disk[i] # base[i] => \E j \in About(i)' : out'[j].saw = disk[i]

\* The replies to x: those there were, and k.
AlsoReplied(x, k) == Replied(x)' = Replied(x) \cup k

\* What posting adds to the channel.
LEMMA Growing ==
    ASSUME TypeOK, NEW is \in SUBSET Input, NEW ms \in Seq(Message), Len(ms) <= 1, Posts(is, ms)
    PROVE  /\ Grows /\ Len(out) + Len(ms) <= Len(out') /\ Tells(is)
           /\ \A x : AlsoReplied(x, IF Len(ms) = 1 /\ ms[1].kind = "reply" /\ ms[1].to = x
                                    THEN {Len(out')} ELSE {})
           /\ Len(ms) = 1 => out'[Len(out')] = ms[1]
<1>1. Grows /\ Len(out) + Len(ms) <= Len(out')
  <2>1. Len(ms) \in Nat
    BY LenProperties
  <2>2. /\ Len(out) + Len(ms) <= Len(out') /\ DOMAIN out' = 1 .. Len(out') /\ Len(out') \in Nat
        /\ \A j \in DOMAIN out : j \in DOMAIN out' /\ out'[j] = out[j]
    BY PostsFields
  <2>3. Len(out) \in Nat /\ DOMAIN out = 1 .. Len(out)
    BY Types
  <2> QED  BY <2>1, <2>2, <2>3 DEF Grows
<1>2. Tells(is)
  <2> SUFFICES ASSUME NEW i \in is, disk[i] # base[i]
               PROVE  \E j \in About(i)' : out'[j].saw = disk[i]
    BY DEF Tells
  <2>1. PICK j \in Fresh : IsReport(out'[j], i)
    BY PostsFields
  <2>2. j \in About(i)'
    BY <2>1 DEF Fresh, About, IsReport
  <2> QED  BY <2>1, <2>2 DEF IsReport
<1>3. ASSUME NEW x
      PROVE  AlsoReplied(x, IF Len(ms) = 1 /\ ms[1].kind = "reply" /\ ms[1].to = x
                            THEN {Len(out')} ELSE {})
  <2>1. ASSUME NEW j \in Replied(x)' PROVE \/ j \in Replied(x)
                                           \/ /\ Len(ms) = 1 /\ ms[1].kind = "reply" /\ ms[1].to = x
                                              /\ j = Len(out')
    <3>1. j \in DOMAIN out' /\ out'[j].kind = "reply" /\ out'[j].to = x
      BY <2>1 DEF Replied
    <3>2. CASE j \in DOMAIN out
      BY <3>1, <3>2, PostsFields DEF Replied
    <3>3. CASE j \in Fresh
      <4>1. \/ \E i \in is : IsReport(out'[j], i)
            \/ Len(ms) = 1 /\ j = Len(out') /\ out'[j] = ms[1]
        BY <3>3, PostsFields
      <4>2. \A i \in is : ~IsReport(out'[j], i)
        BY <3>1, Kinds DEF IsReport
      <4> QED  BY <3>1, <4>1, <4>2
    <3> QED  BY <3>1, <3>2, <3>3 DEF Fresh
  <2>2. ASSUME NEW j \in Replied(x) PROVE j \in Replied(x)'
    BY <1>1, <2>2 DEF Replied, Grows
  <2>3. Len(ms) = 1 /\ ms[1].kind = "reply" /\ ms[1].to = x => Len(out') \in Replied(x)'
    BY PostsFields DEF Replied, Fresh
  <2> QED  BY <2>1, <2>2, <2>3 DEF AlsoReplied
<1>4. Len(ms) = 1 => out'[Len(out')] = ms[1]
  BY PostsFields
<1> QED  BY <1>1, <1>2, <1>3, <1>4

\* With and without a message of its own.
LEMMA GrowingPosts ==
    ASSUME TypeOK, NEW is \in SUBSET Input
    PROVE  /\ PostsNone(is) => Grows /\ Tells(is) /\ \A x : AlsoReplied(x, {})
           /\ \A to \in Caller, ok \in BOOLEAN : PostsOne(is, Reply(to, ok)) =>
                 /\ Grows /\ Tells(is) /\ Len(out) < Len(out')
                 /\ AlsoReplied(to, {Len(out')}) /\ out'[Len(out')].ok = ok
                 /\ \A x : x # to => AlsoReplied(x, {})
           /\ \A clean : PostsOne(is, [kind |-> "exit", clean |-> clean]) =>
                 Grows /\ Tells(is) /\ \A x : AlsoReplied(x, {})
<1>1. ASSUME PostsNone(is) PROVE Grows /\ Tells(is) /\ \A x : AlsoReplied(x, {})
  <2>1. PICK ms \in Seq(Message) : Len(ms) = 0 /\ Posts(is, ms)
    BY <1>1 DEF PostsNone
  <2>2. Len(ms) <= 1 /\ Len(ms) # 1
    BY <2>1
  <2> QED  BY <2>1, <2>2, Growing
<1>2. ASSUME NEW msg, PostsOne(is, msg)
      PROVE  /\ Grows /\ Tells(is) /\ Len(out) < Len(out') /\ out'[Len(out')] = msg
             /\ \A x : AlsoReplied(x, IF msg.kind = "reply" /\ msg.to = x
                                      THEN {Len(out')} ELSE {})
  <2>1. PICK ms \in Seq(Message) : Len(ms) = 1 /\ ms[1] = msg /\ Posts(is, ms)
    BY <1>2 DEF PostsOne
  <2>2. Len(ms) <= 1
    BY <2>1
  <2>3. /\ Grows /\ Tells(is) /\ Len(out) + Len(ms) <= Len(out') /\ out'[Len(out')] = msg
        /\ \A x : AlsoReplied(x, IF msg.kind = "reply" /\ msg.to = x THEN {Len(out')} ELSE {})
    BY <2>1, <2>2, Growing
  <2> QED  BY <2>1, <2>3 DEF Grows
<1>3. ASSUME NEW to \in Caller, NEW ok \in BOOLEAN, PostsOne(is, Reply(to, ok))
      PROVE  /\ Grows /\ Tells(is) /\ Len(out) < Len(out')
             /\ AlsoReplied(to, {Len(out')}) /\ out'[Len(out')].ok = ok
             /\ \A x : x # to => AlsoReplied(x, {})
  <2> DEFINE msg == Reply(to, ok)
  <2>1. msg.kind = "reply" /\ msg.to = to /\ msg.ok = ok /\ PostsOne(is, msg)
    BY <1>3, MessageFields
  <2> HIDE DEF msg
  <2> QED  BY <1>2, <2>1
<1>4. ASSUME NEW clean, PostsOne(is, [kind |-> "exit", clean |-> clean])
      PROVE  Grows /\ Tells(is) /\ \A x : AlsoReplied(x, {})
  <2> DEFINE msg == [kind |-> "exit", clean |-> clean]
  <2>1. msg.kind # "reply" /\ PostsOne(is, msg)
    BY <1>4
  <2> HIDE DEF msg
  <2> QED  BY <1>2, <2>1
<1> QED  BY <1>1, <1>3, <1>4

\* The launcher takes a message: the others move up.
LEMMA Shifts ==
    ASSUME TypeOK, out # <<>>, out' = Tail(out)
    PROVE  /\ Len(out') = Len(out) - 1 /\ Len(out) \in Nat /\ Len(out) > 0
           /\ \A x : \A j \in Replied(x)' : j \in Nat /\ j + 1 \in Replied(x) /\ out'[j] = out[j + 1]
           /\ \A x : \A j \in Replied(x) :
                 /\ j \in Nat /\ j >= 1
                 /\ j # 1 => j - 1 \in Replied(x)' /\ out'[j - 1] = out[j]
           /\ \A i \in Input : \A j \in About(i) :
                 /\ j \in Nat /\ j >= 1
                 /\ j # 1 => j - 1 \in About(i)' /\ out'[j - 1] = out[j]
<1>1. /\ Len(out') = Len(out) - 1 /\ DOMAIN out' = 1 .. Len(out') /\ DOMAIN out = 1 .. Len(out)
      /\ Len(out) \in Nat /\ 1 \in DOMAIN out
      /\ \A j \in DOMAIN out' : j + 1 \in DOMAIN out /\ out'[j] = out[j + 1]
      /\ \A j \in DOMAIN out : j > 1 => j - 1 \in DOMAIN out' /\ out'[j - 1] = out[j]
  BY TakesFields, Types
<1>2. ASSUME NEW x, NEW j \in Replied(x)'
      PROVE  j \in Nat /\ j + 1 \in Replied(x) /\ out'[j] = out[j + 1]
  <2>1. j \in DOMAIN out'
    BY <1>2 DEF Replied
  <2> QED  BY <1>1, <1>2, <2>1 DEF Replied
<1>3. ASSUME NEW x, NEW j \in Replied(x)
      PROVE  j \in Nat /\ j >= 1 /\ (j # 1 => j - 1 \in Replied(x)' /\ out'[j - 1] = out[j])
  <2>1. j \in DOMAIN out
    BY <1>3 DEF Replied
  <2>2. j \in Nat /\ j >= 1 /\ (j # 1 => j > 1)
    BY <1>1, <2>1
  <2> QED  BY <1>1, <1>3, <2>1, <2>2 DEF Replied
<1>4. ASSUME NEW i \in Input, NEW j \in About(i)
      PROVE  j \in Nat /\ j >= 1 /\ (j # 1 => j - 1 \in About(i)' /\ out'[j - 1] = out[j])
  <2>1. j \in DOMAIN out
    BY <1>4 DEF About
  <2>2. j \in Nat /\ j >= 1 /\ (j # 1 => j > 1)
    BY <1>1, <2>1
  <2>3. j # 1 => j - 1 \in DOMAIN out' /\ out'[j - 1] = out[j]
    BY <1>1, <2>1, <2>2
  <2>4. ASSUME j # 1 PROVE j - 1 \in About(i)'
    <3> DEFINE k == j - 1
    <3>1. k \in DOMAIN out' /\ out'[k].kind = Kind(i)
      BY <1>4, <2>3, <2>4 DEF About
    <3> HIDE DEF k
    <3>2. k \in About(i)'
      BY <3>1 DEF About
    <3> QED  BY <3>2 DEF k
  <2> QED  BY <2>2, <2>3, <2>4
<1>5. Len(out) > 0
  BY <1>1
<1> QED  BY <1>1, <1>2, <1>3, <1>4, <1>5, Zenon

-----------------------------------------------------------------------------
(* The first refresh is answered before any settle query.                  *)

\* Nothing but the first refresh was asked of the worker, or the worker is dead.
Unheard ==
    /\ ~barrier /\ Replied("settle") = {}
    /\ \/ inq # <<>> /\ Head(inq).by = "start"
       \/ topo = "register" \/ worker = "dead"

\* The answer to the first refresh is on its way, ahead of those to settle.
Ahead == \E k \in Replied("start") : \A j \in Replied("settle") : k < j

\* The parts of StartFirst.
LEMMA StartFirstFolded ==
    /\ StartFirst <=> /\ answer["start"] # "none" => ~selected
                      /\ answer["start"] = "wait" => Unheard \/ Ahead
                      /\ \A k \in Replied("start") : out[k].ok => topo # "new"
                      /\ topo = "new" => answer["start"] \in {"wait", "err"}
    /\ StartFirst' <=> /\ answer'["start"] # "none" => ~selected'
                       /\ answer'["start"] = "wait" => Unheard' \/ Ahead'
                       /\ \A k \in Replied("start")' : out'[k].ok => topo' # "new"
                       /\ topo' = "new" => answer'["start"] \in {"wait", "err"}
BY DEF StartFirst, Unheard, Ahead

\* What the worker adds to the channel comes after the answer under way.
LEMMA StartFirstGrows ==
    ASSUME StartFirst, UNCHANGED <<answer, selected>>, topo' = topo \/ topo' # "new",
           NEW ks, NEW kt, Grows, AlsoReplied("start", ks), AlsoReplied("settle", kt),
           \A j \in kt : j = Len(out') /\ Len(out) < Len(out'),
           \A k \in ks : out'[k].ok => topo' # "new",
           Unheard => Unheard' \/ (ks # {} /\ kt = {})
    PROVE  StartFirst'
<1>1. /\ \A k \in Replied("start") : k \in Replied("start")' /\ k \in DOMAIN out /\ out'[k] = out[k]
      /\ \A k \in Replied("start")' : k \in Replied("start") \/ k \in ks
      /\ \A j \in Replied("settle")' : j \in Replied("settle") \/ j \in kt
      /\ \A k \in ks : k \in Replied("start")'
      /\ \A j \in Replied("settle") : j \in DOMAIN out
  BY DEF AlsoReplied, Replied, Grows
<1>2. ASSUME Ahead PROVE Ahead'
  <2>1. PICK k \in Replied("start") : \A j \in Replied("settle") : k < j
    BY <1>2 DEF Ahead
  <2>2. \A j \in kt : k < j
    BY <1>1, <2>1 DEF Grows
  <2>3. k \in Replied("start")' /\ \A j \in Replied("settle")' : k < j
    BY <1>1, <2>1, <2>2
  <2> QED  BY <2>3 DEF Ahead
<1>3. ASSUME Unheard, ks # {}, kt = {} PROVE Ahead'
  <2>1. PICK k : k \in ks
    BY <1>3
  <2>2. k \in Replied("start")' /\ Replied("settle")' = {}
    BY <1>1, <1>3, <2>1 DEF Unheard
  <2> QED  BY <2>2 DEF Ahead
<1>4. \A k \in Replied("start")' : out'[k].ok => topo' # "new"
  BY <1>1, StartFirstFolded
<1> QED  BY <1>2, <1>3, <1>4, StartFirstFolded

\* The worker's steps.
LEMMA StartFirstWorker ==
    ASSUME SessionInv, ~closed, StartFirst, WorkerStep \/ RefreshFails \/ WorkerDies
    PROVE  StartFirst'
<1>0. /\ TypeOK /\ Closing /\ WorkerFrame /\ UNCHANGED <<answer, selected>>
      /\ {"start", "settle"} \subseteq Caller /\ {} \in SUBSET Input
  BY WorkerRests, Domains DEF SessionInv, WorkerFrame, residentVars
<1>1. ASSUME out' = out, topo' = topo \/ topo' # "new", Unheard => Unheard' PROVE StartFirst'
  <2>1. Grows /\ AlsoReplied("start", {}) /\ AlsoReplied("settle", {})
    BY <1>0, <1>1, Types DEF Grows, AlsoReplied, Replied
  <2> QED  BY <1>0, <1>1, <2>1, StartFirstGrows
<1>2. ASSUME NEW m, Serves(m) PROVE Unheard => Head(inq).by = "start"
  BY <1>2 DEF Serves, Unheard
<1>3. ASSUME NEW m, Serves(m)
      PROVE  /\ Head(inq).by \in Caller /\ (m = "idle" <=> Head(inq).by = "settle")
             /\ (Head(inq).by = "start" => m = "refresh")
  BY <1>0, <1>3, ServesFields DEF Closing
<1>4. CASE FirstRefresh
  <2>1. Replied("settle")' = Replied("settle")
    BY <1>4 DEF FirstRefresh, Replied
  <2> QED  BY <1>1, <1>4, <2>1 DEF FirstRefresh, Unheard
<1>5. CASE AwaitIdle
  <2>1. ~Unheard
    BY <1>2, <1>3, <1>5 DEF AwaitIdle
  <2> QED  BY <1>1, <1>5, <2>1 DEF AwaitIdle
<1>6. CASE \E i \in Input : Notify(i)
  <2>1. /\ UNCHANGED <<out, topo, worker, barrier, inq>>
    BY <1>6 DEF Notify
  <2> QED  BY <1>1, <2>1 DEF Unheard, Replied
<1>7. ASSUME NEW is \in SUBSET Input, NEW x \in Caller, NEW ok \in BOOLEAN,
             PostsOne(is, Reply(x, ok)), topo' = topo \/ topo' # "new",
             x # "settle" \/ ~Unheard, x = "start" => ok = FALSE \/ topo' # "new",
             Unheard => Unheard' \/ x = "start"
      PROVE  StartFirst'
  <2>1. Grows /\ Len(out) < Len(out') /\ out'[Len(out')].ok = ok
    BY <1>0, <1>7, GrowingPosts
  <2>2. /\ AlsoReplied("start", IF x = "start" THEN {Len(out')} ELSE {})
        /\ AlsoReplied("settle", IF x = "settle" THEN {Len(out')} ELSE {})
    BY <1>0, <1>7, GrowingPosts
  <2> QED  BY <1>0, <1>7, <2>1, <2>2, StartFirstGrows
<1>8. CASE Reconcile
  BY <1>0, <1>7, <1>8, WorkerPosts DEF Reconcile
<1>9. CASE Refresh
  <2>1. PostsOne({"listing"}, Reply(Head(inq).by, TRUE)) /\ {"listing"} \in SUBSET Input
    BY <1>0, <1>9, WorkerPosts, Domains
  <2>2. Serves("refresh") /\ topo = "live" /\ topo' = topo
    BY <1>9 DEF Refresh
  <2> QED  BY <1>2, <1>3, <1>7, <2>1, <2>2
<1>10. CASE RefreshFails
  <2>1. PostsOne({}, Reply(Head(inq).by, FALSE)) /\ Serves("refresh") /\ topo' = topo
    BY <1>0, <1>10, WorkerPosts DEF RefreshFails
  <2> QED  BY <1>0, <1>2, <1>3, <1>7, <2>1
<1>11. CASE Publish
  <2>1. PICK ok \in {TRUE, ~Faults} :
           PostsOne({}, Reply(Head(inq).by, ok))
    BY <1>0, <1>11, WorkerPosts
  <2>2. Serves("publish") /\ topo' = topo /\ ok \in BOOLEAN
    BY <1>11, <2>1 DEF Publish
  <2> DEFINE x == Head(inq).by
  <2>3. x \in Caller /\ x # "start" /\ x # "settle" /\ ~Unheard /\ PostsOne({}, Reply(x, ok))
    BY <1>2, <1>3, <2>1, <2>2
  <2> HIDE DEF x
  <2> QED  BY <1>0, <1>7, <2>2, <2>3
<1>12. CASE AnswerIdle
  <2>1. PostsOne({}, Reply("settle", TRUE)) /\ topo' = topo /\ ~Unheard
    BY <1>0, <1>12, WorkerPosts DEF AnswerIdle, Unheard
  <2> QED  BY <1>0, <1>7, <2>1
<1>13. CASE CloseTopology \/ WorkerExit
  BY <1>0, <1>13, ServingLeaves DEF CloseTopology, WorkerExit, Closing
<1>14. ASSUME Grows, AlsoReplied("start", {}), AlsoReplied("settle", {}),
              topo' = topo, Unheard => Unheard'
       PROVE  StartFirst'
  BY <1>0, <1>14, StartFirstGrows
<1>15. CASE WorkerDies
  <2>1. Grows /\ \A x : AlsoReplied(x, {})
    BY <1>0, <1>15, WorkerPosts, GrowingPosts
  <2>2. Unheard => Unheard'
    BY <1>15, <2>1 DEF WorkerDies, Unheard, AlsoReplied
  <2> QED  BY <1>14, <1>15, <2>1, <2>2 DEF WorkerDies
<1>16. CASE Decide
  <2>1. Grows /\ \A x : AlsoReplied(x, {})
    BY <1>0, <1>16, WorkerPosts, GrowingPosts
  <2>2. Unheard => Unheard'
    BY <1>16, <2>1 DEF Decide, Unheard, AlsoReplied
  <2> QED  BY <1>14, <1>16, <2>1, <2>2 DEF Decide
<1> QED  BY <1>4, <1>5, <1>6, <1>8, <1>9, <1>10, <1>11, <1>12, <1>13, <1>15, <1>16 DEF WorkerStep

-----------------------------------------------------------------------------
(* What a session that stays open does.                                    *)

CycleStep(c) == Begin(c) \/ Published(c) \/ Ask(c) \/ Checked(c) \/ Refreshed(c)

\* The answer to the idle query is taken.
Observes ==
    /\ Observed /\ answer["settle"] = "ok"
    /\ NoShutdown([answer EXCEPT !["settle"] = "none"], Outcome)

\* The steps that do not close the session.
LEMMA OpenSteps ==
    ASSUME SessionInv, ~closed, ~closed', Next
    PROVE  \/ \E i \in Input : Edit(i)
           \/ WorkerStep \/ RefreshFails \/ WorkerDies
           \/ OnEvent \/ OnReply \/ Started \/ TimerFires \/ OrphanFires
           \/ Query \/ Observes \/ Retired \/ \E c \in Cycle : CycleStep(c)
<1>1. ~Signal /\ ~OnExit /\ ~StartFailed /\ ~Finish
  BY DEF Signal, OnExit, StartFailed, Shutdown, Finish
<1>2. ~CloseFailed /\ ~CloseAnswered
  BY DEF SessionInv, Closing, CloseFailed, CloseAnswered
<1>3. Observed => Observes
  <2> SUFFICES ASSUME Observed PROVE Observes
    OBVIOUS
  <2>1. answer["settle"] \in {"ok", "err"} /\ ~Shutdown([answer EXCEPT !["settle"] = "none"], "gone", failed)
    BY DEF Observed, Shutdown
  <2>2. answer["settle"] = "ok"
    BY <2>1 DEF Observed
  <2>3. NoShutdown([answer EXCEPT !["settle"] = "none"], Outcome)
    BY <2>2 DEF Observed, Outcome, Idle
  <2> QED  BY <2>2, <2>3 DEF Observes
<1> QED  BY <1>1, <1>2, <1>3 DEF Next, LoopStep, CycleStep

\* A request is added behind the others.
LEMMA AskBehind ==
    ASSUME TypeOK, NEW ans, NEW x, NEW m, Asks(ans, x, m), inq # <<>>
    PROVE  inq' # <<>> /\ Head(inq') = Head(inq)
BY Types DEF Asks

\* A cycle under way: start() is over, and of the launcher's requests only its
\* own may change.
LEMMA CycleSteps ==
    ASSUME FollowInv, NEW c \in Cycle, CycleStep(c), ~closed
    PROVE  /\ CycleFrame /\ cyc[c].st # "off" /\ running /\ answer["start"] = "none" /\ ~failed
           /\ answer'["start"] = answer["start"] /\ answer'["settle"] = answer["settle"]
           /\ inq' = inq \/ \E m \in {"publish", "refresh"} : Asks(answer, c, m)
<1>1. CycleFrame /\ cyc[c].st # "off" /\ c # "start" /\ c # "settle"
  BY Domains DEF CycleStep, Begin, Published, Ask, Checked, Refreshed
<1>2. running /\ answer["start"] = "none" /\ ~failed
  BY <1>1 DEF FollowInv, Serial, SessionInv, LastWord
<1>3. inq' = inq \/ \E m \in {"publish", "refresh"} : Asks(answer, c, m)
  BY DEF CycleStep, Begin, Published, Ask, Checked, Refreshed
<1>4. answer \in [Caller -> Status] /\ {"start", "settle"} \subseteq Caller
  BY LoopTypes, Domains DEF FollowInv, SessionInv
<1>5. \/ answer' = answer \/ answer' = [answer EXCEPT ![c] = "none"]
      \/ \E m : Asks(answer, c, m)
  BY DEF CycleStep, Begin, Published, Ask, Checked, Refreshed
<1>6. answer'["start"] = answer["start"] /\ answer'["settle"] = answer["settle"]
  BY <1>1, <1>4, <1>5 DEF Asks
<1> QED  BY <1>1, <1>2, <1>3, <1>6

\* Steps that leave worker and channel alone.
LEMMA StartFirstRests ==
    ASSUME StartFirst, UNCHANGED <<topo, worker, barrier, out>>,
           answer'["start"] = answer["start"],
           selected' = selected \/ answer["start"] = "none",
           inq # <<>> => inq' # <<>> /\ Head(inq') = Head(inq)
    PROVE  StartFirst'
<1>1. Replied("start")' = Replied("start") /\ Replied("settle")' = Replied("settle")
  BY DEF Replied
<1>2. (Unheard => Unheard') /\ (Ahead => Ahead')
  BY <1>1 DEF Unheard, Ahead
<1>3. \A k \in Replied("start")' : out'[k].ok => topo' # "new"
  BY <1>1, StartFirstFolded
<1> QED  BY <1>2, <1>3, StartFirstFolded

\* The launcher takes a message.
LEMMA StartFirstTakes ==
    ASSUME SessionInv, StartFirst, OnEvent \/ OnReply
    PROVE  StartFirst'
<1>0. /\ TypeOK /\ out # <<>> /\ out' = Tail(out)
      /\ UNCHANGED <<selected, barrier, inq, topo, worker>>
  BY DEF SessionInv, OnEvent, OnReply, QueueFrame, residentVars
<1>1. Head(out) = out[1] /\ 1 \in DOMAIN out /\ Head(out) \in Message
  BY <1>0, TakesFields
<1>2. \A k \in Replied("start")' : out'[k].ok => topo' # "new"
  BY <1>0, Shifts, StartFirstFolded
<1>3. ASSUME answer'["start"] = answer["start"], 1 \notin Replied("start") \/ answer["start"] # "wait"
      PROVE  StartFirst'
  <2>1. ASSUME Unheard PROVE Unheard'
    <3>1. Replied("settle")' = {}
      BY <1>0, <2>1, Shifts DEF Unheard
    <3> QED  BY <1>0, <2>1, <3>1 DEF Unheard
  <2>2. ASSUME Ahead, 1 \notin Replied("start") PROVE Ahead'
    <3>1. PICK k \in Replied("start") : \A j \in Replied("settle") : k < j
      BY <2>2 DEF Ahead
    <3>2. k \in Nat /\ k - 1 \in Replied("start")'
      BY <1>0, <2>2, <3>1, Shifts
    <3>3. ASSUME NEW j \in Replied("settle")' PROVE k - 1 < j
      <4>1. j \in Nat /\ k < j + 1
        BY <1>0, <3>1, Shifts
      <4> QED  BY <3>2, <4>1
    <3> QED  BY <3>2, <3>3 DEF Ahead
  <2> QED  BY <1>0, <1>2, <1>3, <2>1, <2>2, StartFirstFolded
<1>4. CASE OnEvent
  <2>1. answer' = answer /\ 1 \notin Replied("start")
    BY <1>1, <1>4 DEF OnEvent, Replied
  <2> QED  BY <1>3, <2>1
<1>5. CASE OnReply
  <2> DEFINE msg == Head(out)
  <2>1. /\ msg.kind = "reply" /\ msg.to \in Caller /\ msg.ok \in BOOLEAN /\ msg = out[1]
        /\ answer' = IF answer[msg.to] = "wait"
                     THEN [answer EXCEPT ![msg.to] = IF msg.ok THEN "ok" ELSE "err"]
                     ELSE answer
    BY <1>1, <1>5, MessageFields DEF OnReply
  <2> HIDE DEF msg
  <2>2. answer \in [Caller -> Status] /\ "start" \in Caller
    BY <1>0, LoopTypes, Domains
  <2>3. CASE msg.to # "start" \/ answer["start"] # "wait"
    <3>1. answer'["start"] = answer["start"]
      BY <2>1, <2>2, <2>3
    <3>2. 1 \notin Replied("start") \/ answer["start"] # "wait"
      BY <2>1, <2>3 DEF Replied
    <3> QED  BY <1>3, <3>1, <3>2
  <2>4. CASE msg.to = "start" /\ answer["start"] = "wait"
    <3>1. answer'["start"] = IF msg.ok THEN "ok" ELSE "err"
      BY <2>1, <2>2, <2>4
    <3>2. msg.ok => topo # "new"
      BY <1>1, <2>1, <2>4, StartFirstFolded DEF Replied
    <3>3. ~selected
      BY <2>4, StartFirstFolded
    <3> QED  BY <1>0, <1>2, <3>1, <3>2, <3>3, StartFirstFolded
  <2> QED  BY <2>3, <2>4
<1> QED  BY <1>4, <1>5

\* The steps of a session that stays open.
LEMMA StartFirstNext ==
    ASSUME FollowInv, ~closed, ~closed', StartFirst, Next
    PROVE  StartFirst'
<1>0. SessionInv /\ TypeOK /\ answer \in [Caller -> Status] /\ {"start", "settle"} \subseteq Caller
  BY LoopTypes, Domains DEF FollowInv, SessionInv
<1>1. CASE (\E i \in Input : Edit(i)) \/ Retired
  BY <1>1, StartFirstRests DEF Edit, Retired, workerVars, residentVars
<1>2. CASE TimerFires \/ OrphanFires
  <2>1. UNCHANGED <<topo, worker, barrier, out, answer, inq>>
    BY <1>2 DEF TimerFires, OrphanFires, QueueFrame
  <2>2. selected' = selected
    BY <1>2, StartRunFields DEF TimerFires, OrphanFires, residentVars
  <2> QED  BY <2>1, <2>2, StartFirstRests
<1>3. CASE Observes
  <2>1. UNCHANGED <<topo, worker, barrier, out, inq, selected>> /\ answer'["start"] = answer["start"]
    BY <1>0, <1>3 DEF Observes, Observed, NoShutdown, QueueFrame, residentVars
  <2> QED  BY <2>1, StartFirstRests
<1>4. CASE Query
  <2>1. UNCHANGED <<topo, worker, barrier, out, selected>> /\ answer'["start"] = answer["start"]
    BY <1>0, <1>4 DEF Query, Asks, QueueFrame, residentVars
  <2> QED  BY <1>0, <1>4, <2>1, AskBehind, StartFirstRests DEF Query
<1>5. ASSUME NEW c \in Cycle, CycleStep(c) PROVE StartFirst'
  <2>1. UNCHANGED <<topo, worker, barrier, out>>
    BY <1>5, CycleSteps DEF CycleFrame, QueueFrame
  <2> QED  BY <1>0, <1>5, <2>1, CycleSteps, AskBehind, StartFirstRests
<1>6. CASE Started
  <2>1. UNCHANGED <<topo, worker, barrier, out>> /\ answer["start"] = "ok" /\ answer'["start"] = "none"
    BY <1>0, <1>6 DEF Started, QueueFrame
  <2>2. Replied("start")' = Replied("start")
    BY <2>1 DEF Replied
  <2> QED  BY <2>1, <2>2, StartFirstFolded
<1> QED  BY <1>0, <1>1, <1>2, <1>3, <1>4, <1>5, <1>6, OpenSteps, StartFirstWorker, StartFirstTakes

-----------------------------------------------------------------------------
(* A settle query is alone on its way.                                     *)

\* Steps that may move the settlement but leave its query where it is.
Unanswered ==
    /\ answer'["settle"] = answer["settle"]
    /\ settle \in {"query", "moved"} => settle' \in {"query", "moved"}

\* Request and reply of settle are where they were, or have come nearer.
LEMMA LoneQueryRests ==
    ASSUME LoneQuery, SentKept("settle"), RepliedKept("settle"), ~barrier' \/ barrier' = barrier,
           Unanswered
    PROVE  LoneQuery'
<1>1. \A j \in Sent("settle")' : \E k \in Sent("settle") : TRUE
  BY DEF SentKept
<1>2. \A j \in Replied("settle")' : \E k \in Replied("settle") : TRUE
  BY DEF RepliedKept
<1>3. ASSUME NEW j \in Sent("settle")', NEW k \in Sent("settle")' PROVE j = k
  <2>1. PICK d \in {0, 1} : \A l \in Sent("settle")' : l \in Nat /\ l + d \in Sent("settle")
    BY DEF SentKept
  <2>2. j + d = k + d
    BY <2>1 DEF LoneQuery
  <2> QED  BY <2>1, <2>2
<1>4. ASSUME NEW j \in Replied("settle")', NEW k \in Replied("settle")' PROVE j = k
  <2>1. PICK d \in {0, 1} : \A l \in Replied("settle")' : l \in Nat /\ l + d \in Replied("settle")
    BY DEF RepliedKept
  <2>2. j + d = k + d
    BY <2>1 DEF LoneQuery
  <2> QED  BY <2>1, <2>2
<1>5. (Sent("settle") = {} => Sent("settle")' = {}) /\ (Replied("settle") = {} => Replied("settle")' = {})
  BY <1>1, <1>2
<1>6. /\ answer'["settle"] # "none" => settle' \in {"query", "moved"}
      /\ answer'["settle"] # "wait" => Sent("settle")' = {} /\ Replied("settle")' = {} /\ ~barrier'
  BY <1>5 DEF LoneQuery, Unanswered
<1>7. /\ Sent("settle")' = {} \/ (Replied("settle")' = {} /\ ~barrier')
      /\ Replied("settle")' = {} \/ ~barrier'
  BY <1>5 DEF LoneQuery
<1> QED  BY <1>3, <1>4, <1>6, <1>7 DEF LoneQuery

\* The worker's steps.
LEMMA LoneQueryWorker ==
    ASSUME SessionInv, ~closed, LoneQuery, WorkerStep \/ RefreshFails \/ WorkerDies
    PROVE  LoneQuery'
<1>0. /\ TypeOK /\ TypeOK' /\ Closing /\ WorkerFrame /\ Unanswered
      /\ "settle" \in Caller /\ {} \in SUBSET Input /\ {"listing"} \in SUBSET Input
  BY WorkerRests, WorkerSteps, Domains DEF SessionInv, WorkerFrame, Unanswered
<1>1. ASSUME NEW m, Serves(m)
      PROVE  Head(inq).by \in Caller /\ (m = "idle" <=> Head(inq).by = "settle") /\ SentKept("settle")
  BY <1>0, <1>1, ServesFields, Kept DEF Closing
<1>2. ASSUME NEW is \in SUBSET Input, NEW x \in Caller, x # "settle", NEW ok \in BOOLEAN,
             PostsOne(is, Reply(x, ok))
      PROVE  RepliedKept("settle")
  <2> DEFINE msg == Reply(x, ok)
  <2>1. PostsOne(is, msg) /\ msg.kind = "reply" /\ msg.to # "settle"
    BY <1>2, MessageFields
  <2> HIDE DEF msg
  <2> QED  BY <1>0, <2>1, RepliedFields
<1>3. out' = out => RepliedKept("settle")
  BY <1>0, OutSteps, Kept
<1>4. inq' = inq \/ inq' = <<>> => SentKept("settle")
  BY <1>0, Kept
<1>5. CASE FirstRefresh
  BY <1>0, <1>1, <1>3, <1>5, LoneQueryRests DEF FirstRefresh
<1>6. CASE Reconcile
  <2>1. RepliedKept("settle")
    BY <1>0, <1>2, <1>6, WorkerPosts, Domains
  <2> QED  BY <1>0, <1>4, <1>6, <2>1, LoneQueryRests DEF Reconcile
<1>7. CASE Refresh
  <2>1. Serves("refresh") /\ barrier' = barrier
    BY <1>7 DEF Refresh
  <2>2. Head(inq).by \in Caller /\ Head(inq).by # "settle" /\ SentKept("settle")
    BY <1>1, <2>1
  <2>3. PostsOne({"listing"}, Reply(Head(inq).by, TRUE))
    BY <1>0, <1>7, WorkerPosts
  <2>4. RepliedKept("settle")
    BY <1>0, <1>2, <2>2, <2>3
  <2> QED  BY <1>0, <2>1, <2>2, <2>4, LoneQueryRests
<1>8. CASE RefreshFails
  <2>1. Serves("refresh") /\ barrier' = barrier
    BY <1>8 DEF RefreshFails
  <2>2. Head(inq).by \in Caller /\ Head(inq).by # "settle" /\ SentKept("settle")
    BY <1>1, <2>1
  <2>3. PostsOne({}, Reply(Head(inq).by, FALSE))
    BY <1>0, <1>8, WorkerPosts
  <2>4. RepliedKept("settle")
    BY <1>0, <1>2, <2>2, <2>3
  <2> QED  BY <1>0, <2>1, <2>2, <2>4, LoneQueryRests
<1>9. CASE Publish
  <2>1. Serves("publish") /\ barrier' = barrier
    BY <1>9 DEF Publish
  <2>2. PICK ok \in {TRUE, ~Faults} :
           PostsOne({}, Reply(Head(inq).by, ok))
    BY <1>0, <1>9, WorkerPosts
  <2>3. ok \in BOOLEAN
    BY <2>2
  <2>4. RepliedKept("settle")
    BY <1>0, <1>1, <1>2, <2>1, <2>2, <2>3
  <2> QED  BY <1>0, <1>1, <2>1, <2>4, LoneQueryRests
<1>10. CASE AwaitIdle
  <2>1. Serves("idle") /\ barrier' = TRUE /\ out' = out
    BY <1>10 DEF AwaitIdle
  <2>2. 1 \in Sent("settle")
    BY <1>0, <1>1, <2>1, ServesFields DEF Sent
  <2>3. answer["settle"] = "wait" /\ Replied("settle") = {}
    BY <2>2 DEF LoneQuery
  <2>4. Sent("settle")' = {}
    <3> SUFFICES ASSUME NEW j \in Sent("settle")' PROVE FALSE
      OBVIOUS
    <3>1. j \in DOMAIN inq' /\ inq'[j].by = "settle"
      BY DEF Sent
    <3>2. DOMAIN inq' = 1 .. Len(inq') /\ j + 1 \in DOMAIN inq /\ inq'[j] = inq[j + 1]
      BY <1>0, <2>1, <3>1, ServesFields
    <3>3. j + 1 \in Sent("settle")
      BY <3>1, <3>2 DEF Sent
    <3>4. j \in Int /\ j + 1 = 1 /\ j >= 1
      BY <2>2, <3>1, <3>2, <3>3 DEF LoneQuery
    <3> QED  BY <3>4
  <2>5. Replied("settle")' = {}
    BY <2>1, <2>3 DEF Replied
  <2> QED  BY <1>0, <2>3, <2>4, <2>5 DEF LoneQuery, Unanswered
<1>11. CASE AnswerIdle
  <2>1. barrier /\ barrier' = FALSE /\ inq' = inq
    BY <1>11 DEF AnswerIdle
  <2>2. answer["settle"] = "wait" /\ Replied("settle") = {} /\ Sent("settle") = {}
    BY <2>1 DEF LoneQuery
  <2>3. \A j \in Replied("settle")' : j = Len(out')
    BY <1>0, <1>11, <2>2, WorkerPosts, GrowingPosts DEF AlsoReplied
  <2>4. Sent("settle")' = {}
    BY <2>1, <2>2 DEF Sent
  <2> QED  BY <1>0, <2>1, <2>2, <2>3, <2>4 DEF LoneQuery, Unanswered
<1>12. CASE CloseTopology \/ WorkerExit
  BY <1>0, <1>12, ServingLeaves DEF CloseTopology, WorkerExit, Closing
<1>13. CASE WorkerDies
  <2>1. inq' = <<>> /\ barrier' = FALSE
    BY <1>13 DEF WorkerDies
  <2>2. PICK clean \in BOOLEAN : PostsOne({}, [kind |-> "exit", clean |-> clean])
    BY <1>0, <1>13, WorkerPosts
  <2> DEFINE msg == [kind |-> "exit", clean |-> clean]
  <2>3. msg.kind = "exit" /\ PostsOne({}, msg)
    BY <2>2
  <2> HIDE DEF msg
  <2>4. RepliedKept("settle")
    BY <1>0, <2>3, RepliedFields
  <2> QED  BY <1>0, <1>4, <2>1, <2>4, LoneQueryRests
<1>14. CASE \E i \in Input : Notify(i)
  BY <1>0, <1>3, <1>4, <1>14, LoneQueryRests DEF Notify
<1>15. CASE Decide
  <2>1. RepliedKept("settle")
    BY <1>0, <1>15, WorkerPosts, RepliedFields
  <2> QED  BY <1>0, <1>4, <1>15, <2>1, LoneQueryRests DEF Decide
<1> QED  BY <1>5, <1>6, <1>7, <1>8, <1>9, <1>10, <1>11, <1>12, <1>13, <1>14, <1>15 DEF WorkerStep

\* A change moves the settlement, or leaves it.
Stirs == settle' = settle \/ settle' = Changed(settle)

\* The steps of a cycle, and startRun, can only stir it; so its query is not lost.
LEMMA Stirring ==
    ASSUME TypeOK
    PROVE  /\ Stirs /\ answer'["settle"] = answer["settle"] => Unanswered
           /\ \A c \in Cycle : CycleStep(c) => Stirs
           /\ \A left : StartRun(left) => Stirs
<1>1. settle \in Settling
  BY LoopTypes
<1>2. Stirs /\ answer'["settle"] = answer["settle"] => Unanswered
  BY <1>1, ChangedFields DEF Stirs, Unanswered
<1>3. ASSUME NEW c \in Cycle PROVE CycleStep(c) => Stirs
  <2>1. (Ends(c) => Stirs) /\ (Throws(c) => Stirs) /\ (Continues => Stirs)
    BY DEF Ends, Throws, Continues, Stirs
  <2> QED  BY <2>1 DEF CycleStep, Begin, Published, Ask, Checked, Refreshed
<1>4. \A left : StartRun(left) => Stirs
  BY DEF StartRun, Stirs
<1> QED  BY <1>2, <1>3, <1>4

\* The steps of a session that stays open.
LEMMA LoneQueryNext ==
    ASSUME FollowInv, TypeOK', ~closed, ~closed', LoneQuery, Next
    PROVE  LoneQuery'
<1>0. /\ SessionInv /\ TypeOK /\ answer \in [Caller -> Status] /\ settle \in Settling
      /\ {"start", "settle"} \subseteq Caller
  BY LoopTypes, Domains DEF FollowInv, SessionInv
<1>1. out' = out => RepliedKept("settle")
  BY <1>0, OutSteps, Kept
<1>2. inq' = inq => SentKept("settle")
  BY <1>0, Kept
<1>3. ASSUME UNCHANGED <<inq, out, barrier>>, Unanswered PROVE LoneQuery'
  BY <1>1, <1>2, <1>3, LoneQueryRests
<1>4. CASE (\E i \in Input : Edit(i)) \/ Retired
  BY <1>3, <1>4 DEF Edit, Retired, workerVars, Unanswered
<1>5. CASE TimerFires \/ OrphanFires
  <2>1. UNCHANGED <<inq, out, barrier, answer>> /\ Stirs
    BY <1>0, <1>5, Stirring DEF TimerFires, OrphanFires, QueueFrame
  <2> QED  BY <1>0, <1>3, <2>1, Stirring
<1>6. CASE Started
  <2>1. UNCHANGED <<inq, out, barrier>> /\ Stirs /\ answer'["settle"] = answer["settle"]
    BY <1>0, <1>6, Stirring DEF Started, QueueFrame
  <2> QED  BY <1>0, <1>3, <2>1, Stirring
<1>7. CASE OnEvent
  <2>1. UNCHANGED <<inq, barrier, answer>> /\ Stirs /\ out # <<>> /\ out' = Tail(out)
    BY <1>7 DEF OnEvent, QueueFrame, Stirs
  <2>2. RepliedKept("settle") /\ Unanswered
    BY <1>0, <2>1, OutSteps, Kept, Stirring
  <2> QED  BY <1>2, <2>1, <2>2, LoneQueryRests
<1>8. CASE OnReply
  <2>1. UNCHANGED <<inq, barrier, settle>> /\ out # <<>> /\ out' = Tail(out)
    BY <1>8 DEF OnReply, QueueFrame
  <2>2. RepliedKept("settle")
    BY <1>0, <2>1, OutSteps, Kept
  <2>3. Head(out) = out[1] /\ 1 \in DOMAIN out /\ Head(out) \in Message
    BY <1>0, <2>1, TakesFields
  <2> DEFINE msg == Head(out)
  <2>4. /\ msg.kind = "reply" /\ msg.to \in Caller /\ msg = out[1]
        /\ answer' = IF answer[msg.to] = "wait"
                     THEN [answer EXCEPT ![msg.to] = IF msg.ok THEN "ok" ELSE "err"]
                     ELSE answer
    BY <1>8, <2>3, MessageFields DEF OnReply
  <2> HIDE DEF msg
  <2>5. CASE answer'["settle"] = answer["settle"]
    BY <1>2, <2>1, <2>2, <2>5, LoneQueryRests DEF Unanswered
  <2>6. CASE answer'["settle"] # answer["settle"]
    <3>1. msg.to = "settle" /\ answer["settle"] = "wait"
      BY <1>0, <2>4, <2>6
    <3>2. 1 \in Replied("settle")
      BY <2>3, <2>4, <3>1 DEF Replied
    <3>3. Sent("settle") = {} /\ ~barrier
      BY <3>2 DEF LoneQuery
    <3>4. Replied("settle")' = {}
      <4> SUFFICES ASSUME NEW j \in Replied("settle")' PROVE FALSE
        OBVIOUS
      <4>1. j \in Nat /\ j + 1 \in Replied("settle") /\ j \in DOMAIN out' /\ DOMAIN out' = 1 .. Len(out')
        BY <1>0, <2>1, Shifts, TakesFields DEF Replied
      <4>2. j + 1 = 1 /\ j >= 1
        BY <3>2, <4>1 DEF LoneQuery
      <4> QED  BY <4>1, <4>2
    <3>5. Sent("settle")' = {} /\ ~barrier' /\ settle' \in {"query", "moved"}
      BY <2>1, <3>1, <3>3 DEF Sent, LoneQuery
    <3> QED  BY <3>4, <3>5 DEF LoneQuery
  <2> QED  BY <2>5, <2>6
<1>9. CASE Query
  <2>1. /\ Asks(answer, "settle", "idle") /\ settle' = "query" /\ UNCHANGED <<out, barrier>>
        /\ settle \notin {"query", "moved"}
    BY <1>9 DEF Query, QueueFrame
  <2>2. answer["settle"] = "none"
    BY <2>1 DEF LoneQuery
  <2>3. Sent("settle") = {} /\ Replied("settle") = {} /\ ~barrier
    BY <2>2 DEF LoneQuery
  <2>4. ~failed
    BY <1>0 DEF SessionInv, LastWord
  <2>5. answer'["settle"] = "wait" /\ \A j, k \in Sent("settle")' : j = k
    BY <1>0, <2>1, <2>3, <2>4, AskedFields, AsksFields
  <2>6. Replied("settle")' = {} /\ ~barrier'
    BY <2>1, <2>3 DEF Replied
  <2> QED  BY <2>1, <2>5, <2>6 DEF LoneQuery
<1>10. CASE Observes
  <2>1. /\ answer["settle"] = "ok" /\ UNCHANGED <<inq, out, barrier>>
        /\ answer'["settle"] = "none"
    BY <1>0, <1>10 DEF Observes, Observed, NoShutdown, QueueFrame
  <2>2. Sent("settle") = {} /\ Replied("settle") = {} /\ ~barrier
    BY <2>1 DEF LoneQuery
  <2>3. Sent("settle")' = {} /\ Replied("settle")' = {} /\ ~barrier'
    BY <2>1, <2>2 DEF Sent, Replied
  <2> QED  BY <2>1, <2>3 DEF LoneQuery
<1>11. ASSUME NEW c \in Cycle, CycleStep(c) PROVE LoneQuery'
  <2>1. /\ UNCHANGED <<barrier, out>> /\ answer'["settle"] = answer["settle"]
        /\ inq' = inq \/ \E m \in {"publish", "refresh"} : Asks(answer, c, m)
    BY <1>11, CycleSteps DEF CycleFrame, QueueFrame
  <2>2. SentKept("settle")
    BY <1>0, <1>2, <2>1, AskedFields, Domains
  <2> QED  BY <1>0, <1>1, <1>11, <2>1, <2>2, Stirring, LoneQueryRests
<1> QED  BY <1>0, <1>4, <1>5, <1>6, <1>7, <1>8, <1>9, <1>10, <1>11, OpenSteps, LoneQueryWorker

-----------------------------------------------------------------------------
(* What was heard is scheduled.                                            *)

\* A cycle goes on, and the others with it.
Marches ==
    /\ Continues
    /\ \A d \in Cycle : cyc[d].st # "off" => cyc'[d].st # "off" /\ cyc'[d].at = cyc[d].at

\* A Program stays, is dropped, loaded, or told of the source.
Applies == \A e \in Entry :
    \/ prog'[e] \in {prog[e], Cold, disk}
    \/ prog[e] # Cold /\ prog'[e] = [prog[e] EXCEPT !["source"] = disk["source"]]

\* A step of a cycle ends it and leaves the Programs, or takes it further.
LEMMA CycleMoves ==
    ASSUME FollowInv, ~closed, NEW c \in Cycle, CycleStep(c)
    PROVE  (Ends(c) /\ prog' = prog) \/ (Marches /\ Applies)
<1>0. /\ TypeOK /\ cyc \in [Cycle -> CycleState] /\ cyc[c] \in CycleState /\ cyc[c].st # "off"
      /\ cyc[c].change \subseteq {"source", "reload"} /\ prog \in [Entry -> Versions \cup {Cold}]
  BY LoopTypes, CycleSteps DEF FollowInv, SessionInv
<1>1. Throws(c) => Ends(c)
  BY DEF Throws
<1>2. ASSUME NEW change \in SUBSET {"source", "reload"}, ResetBy(c, change), Continues
      PROVE  Marches /\ Applies
  <2>1. ResetTo(c, change)
    BY <1>0, <1>2, ResetByFields
  <2> QED  BY <1>2, <2>1 DEF ResetTo, Marches, Applies
<1>3. ASSUME NEW st \in {"publish", "check", "refresh"}, cyc' = [cyc EXCEPT ![c].st = st],
             Continues, prog' = prog
      PROVE  Marches /\ Applies
  <2>1. cyc'[c].at = cyc[c].at /\ cyc'[c].st = st /\ \A d \in Cycle : d # c => cyc'[d] = cyc[d]
    BY <1>0, <1>3 DEF CycleState
  <2> QED  BY <1>3, <2>1 DEF Marches, Applies
<1>4. CASE Begin(c)
  <2> DEFINE ch == cyc[c].change \ {"reload"}
  <2>1. ch \in SUBSET {"source", "reload"}
    BY <1>0
  <2>2. \/ Throws(c) /\ prog' = prog
        \/ ResetBy(c, ch) /\ Continues
        \/ cyc' = [cyc EXCEPT ![c].st = "publish"] /\ Continues /\ prog' = prog
    BY <1>4 DEF Begin, residentVars
  <2> HIDE DEF ch
  <2> QED  BY <1>1, <1>2, <1>3, <2>1, <2>2
<1>5. CASE Published(c)
  <2>1. \/ Throws(c) /\ prog' = prog
        \/ ResetBy(c, {}) /\ Continues
        \/ cyc' = [cyc EXCEPT ![c].st = "check", ![c].entry = 1] /\ Continues /\ prog' = prog
    BY <1>5 DEF Published, residentVars
  <2>2. CASE cyc' = [cyc EXCEPT ![c].st = "check", ![c].entry = 1] /\ Continues /\ prog' = prog
    <3>1. cyc'[c].at = cyc[c].at /\ cyc'[c].st = "check" /\ \A d \in Cycle : d # c => cyc'[d] = cyc[d]
      BY <1>0, <2>2 DEF CycleState
    <3> QED  BY <2>2, <3>1 DEF Marches, Applies
  <2> QED  BY <1>1, <1>2, <2>1, <2>2
<1>6. CASE Ask(c)
  <2>1. Continues /\ cyc[c].entry \in Entry
    BY <1>0, <1>6, EntriesAssumption DEF Ask, CycleState, Entry
  <2>2. PICK n : cyc' = [cyc EXCEPT ![c].entry = n]
    BY <1>6 DEF Ask
  <2>3. cyc'[c].at = cyc[c].at /\ cyc'[c].st = cyc[c].st /\ \A d \in Cycle : d # c => cyc'[d] = cyc[d]
    BY <1>0, <2>2 DEF CycleState
  <2>4. \E p \in {Applied(cyc[c].entry), Cold} : prog' = [prog EXCEPT ![cyc[c].entry] = p]
    BY <1>6 DEF Ask
  <2>5. Applies
    BY <1>0, <2>1, <2>4 DEF Applies, Applied
  <2> QED  BY <2>1, <2>3, <2>5 DEF Marches
<1>7. CASE Checked(c)
  <2>1. \/ Throws(c)
        \/ cyc' = [cyc EXCEPT ![c].st = "refresh"] /\ Continues
    BY <1>7 DEF Checked
  <2>2. prog' = prog
    BY <1>7 DEF Checked, residentVars
  <2> QED  BY <1>1, <1>3, <2>1, <2>2
<1>8. CASE Refreshed(c)
  BY <1>8 DEF Refreshed, residentVars
<1> QED  BY <1>4, <1>5, <1>6, <1>7, <1>8 DEF CycleStep

\* Steps that neither report, nor begin or end a cycle.
LEMMA ScheduledRests ==
    ASSUME Scheduled, UNCHANGED <<note, timer, rerun, running, heard, cover>>,
           \A d \in Cycle : cyc[d].st # "off" => cyc'[d].st # "off" /\ cyc'[d].at = cyc[d].at
    PROVE  Scheduled'
BY DEF Scheduled

\* The steps of a session that stays open.
LEMMA ScheduledNext ==
    ASSUME FollowInv, ~closed, ~closed', Scheduled, Next
    PROVE  Scheduled'
<1>0. /\ SessionInv /\ TypeOK /\ Told /\ cyc \in [Cycle -> CycleState]
      /\ {running, rerun, timer} \subseteq BOOLEAN
  BY LoopTypes DEF FollowInv, SessionInv, TypeOK
<1>1. ASSUME UNCHANGED <<loopVars, cyc, heard, cover>> PROVE Scheduled'
  BY <1>1, ScheduledRests DEF loopVars
<1>2. CASE WorkerStep \/ RefreshFails \/ WorkerDies
  BY <1>1, <1>2, WorkerRests DEF WorkerFrame
<1>3. CASE (\E i \in Input : Edit(i)) \/ Query \/ OnReply \/ Observes
  BY <1>1, <1>3 DEF Edit, Query, OnReply, Observes, Observed, NoShutdown, history
<1>4. CASE Retired
  BY <1>1, <1>4 DEF Retired, history
<1>5. CASE OnEvent
  <2>1. /\ note' # {} /\ rerun' = (rerun \/ running) /\ timer' = (timer \/ ~running)
        /\ running' = running
    BY <1>5 DEF OnEvent
  <2>2. rerun => running
    BY DEF Scheduled
  <2> QED  BY <1>0, <2>1, <2>2 DEF Scheduled
<1>6. CASE Started \/ TimerFires \/ OrphanFires
  <2>1. PICK left : StartRun(left)
    BY <1>6 DEF Started, TimerFires, OrphanFires
  <2>2. PICK c \in Cycle : Begins(c)
    BY <2>1, StartRunFields
  <2>3. cyc'[c].st = "begin" /\ cyc'[c].at = disk /\ note' = {} /\ running'
    BY <1>0, <2>2, BeginsFields DEF Begins
  <2>4. heard' = heard /\ \A i \in Input : heard'[i] <= disk[i]
    BY <1>0, <2>1, StartRunFields DEF Told
  <2>5. \A i \in Input : \E d \in Cycle : cyc'[d].st # "off" /\ cyc'[d].at[i] >= heard'[i]
    <3> SUFFICES ASSUME NEW i \in Input PROVE cyc'[c].st # "off" /\ cyc'[c].at[i] >= heard'[i]
      OBVIOUS
    <3>1. disk[i] \in Int /\ heard'[i] \in Int
      BY <1>0, <2>4, Versed
    <3> QED  BY <2>3, <2>4, <3>1
  <2> QED  BY <2>3, <2>5 DEF Scheduled
<1>7. ASSUME NEW c \in Cycle, CycleStep(c) PROVE Scheduled'
  <2>1. UNCHANGED <<note, heard>>
    BY <1>7, CycleSteps DEF CycleFrame
  <2>2. CASE Ends(c)
    <3>1. timer' = (timer \/ rerun) /\ rerun' = FALSE /\ running' = FALSE
      BY <1>0, <2>2 DEF Ends
    <3>2. note' # {} => timer'
      BY <2>1, <3>1 DEF Scheduled
    <3>3. ASSUME NEW i \in Input PROVE note' # {} \/ cover'[i] >= heard'[i]
      <4>1. cover'[i] = IF cover[i] > cyc[c].at[i] THEN cover[i] ELSE cyc[c].at[i]
        BY <2>2 DEF Ends
      <4>2. cover[i] \in Int /\ cyc[c].at[i] \in Int /\ heard[i] \in Int
        BY <1>0, Versed, LoopTypes DEF Versions, Version
      <4>3. \A d \in Cycle : d # c => cyc[d].st = "off"
        BY <1>7, CycleSteps, CycleAlone
      <4>4. \/ note # {} \/ cover[i] >= heard[i] \/ cyc[c].at[i] >= heard[i]
        BY <4>3 DEF Scheduled
      <4> QED  BY <2>1, <4>1, <4>2, <4>4
    <3> QED  BY <3>1, <3>2, <3>3 DEF Scheduled
  <2>3. CASE Marches
    BY <2>1, <2>3, ScheduledRests DEF Marches, Continues
  <2> QED  BY <1>7, <2>2, <2>3, CycleMoves
<1> QED  BY <1>0, <1>2, <1>3, <1>4, <1>5, <1>6, <1>7, OpenSteps

-----------------------------------------------------------------------------
(* What the worker vouches for is known, or on its way.                     *)

\* Reached and Known, of the next state.
ReachedThen(i, v) ==
    /\ cover'[i] >= v \/ \E c \in Cycle : cyc'[c].st # "off" /\ cyc'[c].at[i] >= v
    /\ \A e \in Entry : prog'[e] = Cold \/ prog'[e][i] >= v
KnownThen(i, v, n) ==
    heard'[i] >= v \/ (\E j \in About(i)' : j < n /\ out'[j].saw >= v) \/ ReachedThen(i, v)

\* The parts of Honest.
LEMMA HonestFolded ==
    Honest' <=>
        /\ answer'["start"] = "none" =>
              /\ \A i \in Input : KnownThen(i, base'[i], Len(out') + 1)
              /\ \A j \in Replied("settle")', i \in Input :
                    out'[j].ok => KnownThen(i, idleAt'[i], j)
        /\ answer'["settle"] = "ok" =>
              answer'["start"] = "none" /\ \A i \in Input : KnownThen(i, idleAt'[i], 1)
BY DEF Honest, Known, Reached, KnownThen, ReachedThen

\* What a cycle has reached stays reached.
Keeping == \A i \in Input, v \in Nat : v <= disk[i] /\ Reached(i, v) => ReachedThen(i, v)

\* The worker's steps, and those of the launcher outside cycles.
LEMMA KeepingRests ==
    ASSUME UNCHANGED <<cover, prog>>,
           \A d \in Cycle : cyc[d].st # "off" => cyc'[d].st # "off" /\ cyc'[d].at = cyc[d].at
    PROVE  Keeping
BY DEF Keeping, Reached, ReachedThen

\* The steps of a cycle: an end is recorded, and a Program that is told or loaded
\* is at the disk's version.
LEMMA KeepingCycle ==
    ASSUME FollowInv, ~closed, NEW c \in Cycle, CycleStep(c)
    PROVE  Keeping
<1> SUFFICES ASSUME NEW i \in Input, NEW v \in Nat, v <= disk[i], Reached(i, v)
             PROVE  ReachedThen(i, v)
  BY DEF Keeping
<1>0. /\ TypeOK /\ disk[i] \in Int /\ cover[i] \in Int /\ cyc[c].at[i] \in Int
      /\ "source" \in Input /\ disk \in Versions
      /\ \A d \in Cycle : d # c => cyc[d].st = "off"
      /\ \A e \in Entry : prog[e] \in Versions \cup {Cold}
  <2>1. TypeOK
    BY DEF FollowInv, SessionInv
  <2>2. cyc[c].at \in Versions /\ disk \in Versions
    BY <2>1, LoopTypes, Types
  <2>3. cyc[c].at[i] \in Int
    BY <2>2 DEF Versions, Version
  <2>4. \A d \in Cycle : d # c => cyc[d].st = "off"
    BY CycleSteps, CycleAlone
  <2> QED  BY <2>1, <2>2, <2>3, <2>4, Versed, LoopTypes, Domains
<1>1. CASE Ends(c) /\ prog' = prog
  <2>1. cover'[i] = IF cover[i] > cyc[c].at[i] THEN cover[i] ELSE cyc[c].at[i]
    BY <1>1 DEF Ends
  <2>2. cover[i] >= v \/ cyc[c].at[i] >= v
    BY <1>0 DEF Reached
  <2>3. cover'[i] >= v
    BY <1>0, <2>1, <2>2
  <2> QED  BY <1>1, <2>3 DEF Reached, ReachedThen
<1>2. CASE Marches /\ Applies
  <2>1. cover' = cover
    BY <1>2 DEF Marches, Continues
  <2>2. cover'[i] >= v \/ \E d \in Cycle : cyc'[d].st # "off" /\ cyc'[d].at[i] >= v
    BY <1>2, <2>1 DEF Reached, Marches
  <2>3. ASSUME NEW e \in Entry PROVE prog'[e] = Cold \/ prog'[e][i] >= v
    <3>1. prog[e] = Cold \/ prog[e][i] >= v
      BY DEF Reached
    <3>2. CASE prog'[e] \in {prog[e], Cold, disk}
      BY <1>0, <3>1, <3>2
    <3>3. CASE prog[e] # Cold /\ prog'[e] = [prog[e] EXCEPT !["source"] = disk["source"]]
      <4>1. prog[e] \in [Input -> Version]
        BY <1>0, <3>3 DEF Versions
      <4>2. prog'[e][i] = IF i = "source" THEN disk["source"] ELSE prog[e][i]
        BY <1>0, <3>3, <4>1
      <4> QED  BY <1>0, <3>1, <3>3, <4>2
    <3> QED  BY <1>2, <3>2, <3>3 DEF Applies
  <2> QED  BY <2>2, <2>3 DEF ReachedThen
<1> QED  BY <1>1, <1>2, CycleMoves

\* What the worker adds comes after what is known.
LEMMA KnownGrows ==
    ASSUME Grows, heard' = heard, Keeping, NEW i \in Input, NEW v \in Nat, v <= disk[i],
           NEW n \in Int, NEW m \in Int, n <= m, Known(i, v, n)
    PROVE  KnownThen(i, v, m)
<1>1. CASE heard[i] >= v
  BY <1>1 DEF KnownThen
<1>2. CASE Reached(i, v)
  BY <1>2 DEF Keeping, KnownThen
<1>3. ASSUME NEW j \in About(i), j < n, out[j].saw >= v
      PROVE  KnownThen(i, v, m)
  <2>1. j \in DOMAIN out /\ out[j].kind = Kind(i)
    BY <1>3 DEF About
  <2>2. j \in Int /\ j \in DOMAIN out' /\ out'[j] = out[j]
    BY <2>1 DEF Grows
  <2>3. j \in About(i)' /\ out'[j].saw >= v
    BY <1>3, <2>1, <2>2 DEF About
  <2>4. j < m
    BY <1>3, <2>2
  <2> QED  BY <2>3, <2>4 DEF KnownThen
<1> QED  BY <1>1, <1>2, <1>3 DEF Known

\* The launcher takes a message; a report is heard.
LEMMA KnownShifts ==
    ASSUME TypeOK, Told, OnEvent \/ OnReply, Keeping, NEW i \in Input, NEW v \in Nat, v <= disk[i],
           NEW n \in Int, NEW m \in Int, n <= m + 1, Known(i, v, n)
    PROVE  KnownThen(i, v, m)
<1>0. /\ out # <<>> /\ out' = Tail(out) /\ Head(out) = out[1] /\ 1 \in DOMAIN out
      /\ heard[i] \in Int /\ (\A j \in About(i) : out[j].saw \in Int)
  BY TakesFields, Versed DEF OnEvent, OnReply
<1>1. heard'[i] = IF 1 \in About(i) THEN out[1].saw ELSE heard[i]
  <2>1. CASE OnEvent
    <3>1. heard \in [Input -> Version]
      BY Types DEF Versions
    <3>2. out[1].kind \in {"input", "topology"}
      BY <1>0, <2>1 DEF OnEvent
    <3>3. 1 \in About(i) <=> i = IF out[1].kind = "input" THEN "source" ELSE "listing"
      BY <1>0, <3>2, Domains DEF About, Kind
    <3> QED  BY <1>0, <2>1, <3>1, <3>3 DEF OnEvent
  <2>2. CASE OnReply
    <3>1. out[1].kind = "reply" /\ heard' = heard
      BY <1>0, <2>2 DEF OnReply, history
    <3>2. 1 \notin About(i)
      BY <3>1, Kinds DEF About
    <3> QED  BY <3>1, <3>2
  <2> QED  BY <2>1, <2>2
<1>2. heard'[i] >= heard[i]
  BY <1>0, <1>1 DEF Told
<1>3. CASE heard[i] >= v
  <2>1. heard'[i] \in Int
    BY <1>0, <1>1
  <2> QED  BY <1>0, <1>2, <1>3, <2>1 DEF KnownThen
<1>4. CASE Reached(i, v)
  BY <1>4 DEF Keeping, KnownThen
<1>5. ASSUME NEW j \in About(i), j < n, out[j].saw >= v
      PROVE  KnownThen(i, v, m)
  <2>1. CASE j = 1
    BY <1>1, <1>5, <2>1 DEF KnownThen
  <2>2. CASE j # 1
    <3>1. j \in Nat /\ j - 1 \in About(i)' /\ out'[j - 1] = out[j]
      BY <1>0, <2>2, Shifts
    <3>2. j - 1 < m
      BY <1>5, <3>1
    <3> QED  BY <1>5, <3>1, <3>2 DEF KnownThen
  <2> QED  BY <2>1, <2>2
<1> QED  BY <1>3, <1>4, <1>5 DEF Known

\* The baselines and what an idle query is told are versions the disk has had.
LEMMA Vouched ==
    ASSUME TypeOK, Told, NEW i \in Input
    PROVE  /\ base[i] \in Nat /\ base[i] <= disk[i] /\ disk[i] \in Nat /\ disk[i] <= disk[i]
           /\ idleAt[i] \in Nat /\ idleAt[i] <= disk[i]
BY Versed DEF Told

\* A baseline that moved was reported.
Stamping ==
    \A i \in Input : \/ base'[i] = base[i]
                     \/ base'[i] = disk[i] /\ \E j \in About(i)' : out'[j].saw = disk[i]

\* Comparisons report what they stamp.
LEMMA StampingTells ==
    ASSUME TypeOK, NEW is \in SUBSET Input, base' = Stamped(is), Tells(is)
    PROVE  Stamping
<1>1. \A i \in Input : base'[i] = IF i \in is THEN disk[i] ELSE base[i]
  BY StampedTyped
<1> QED  BY <1>1 DEF Stamping, Tells

\* Steps that leave the launcher alone or only let it wait.
LEMMA HonestGrows ==
    ASSUME TypeOK, Told, Honest, Grows, AlsoReplied("settle", {}), Keeping,
           heard' = heard, idleAt' = idleAt, answer'["start"] = answer["start"],
           answer'["settle"] = "ok" => answer["settle"] = "ok",
           answer["start"] = "none" => Stamping
    PROVE  Honest'
<1>0. Len(out) \in Nat /\ Len(out') \in Nat /\ Len(out) <= Len(out')
  BY DEF Grows
<1>1. ASSUME answer'["start"] = "none", NEW i \in Input PROVE KnownThen(i, base'[i], Len(out') + 1)
  <2>1. CASE base'[i] = base[i]
    <3>1. Known(i, base[i], Len(out) + 1)
      BY <1>1 DEF Honest
    <3>2. KnownThen(i, base[i], Len(out') + 1)
      BY <1>0, <3>1, Vouched, KnownGrows
    <3> QED  BY <2>1, <3>2
  <2>2. ASSUME base'[i] = disk[i], NEW j \in About(i)', out'[j].saw = disk[i]
        PROVE  KnownThen(i, base'[i], Len(out') + 1)
    <3>1. j \in 1 .. Len(out')
      BY <2>2 DEF About, Grows
    <3>2. j < Len(out') + 1 /\ out'[j].saw >= base'[i]
      BY <1>0, <2>2, <3>1, Vouched
    <3> QED  BY <2>2, <3>2 DEF KnownThen
  <2> QED  BY <1>1, <2>1, <2>2 DEF Stamping
<1>2. ASSUME answer'["start"] = "none", NEW j \in Replied("settle")', NEW i \in Input, out'[j].ok
      PROVE  KnownThen(i, idleAt'[i], j)
  <2>1. j \in Replied("settle")
    BY <1>2 DEF AlsoReplied
  <2>2. j \in DOMAIN out /\ j \in Int /\ out'[j] = out[j]
    BY <2>1 DEF Replied, Grows
  <2>3. Known(i, idleAt[i], j)
    BY <1>2, <2>1, <2>2 DEF Honest
  <2> QED  BY <2>2, <2>3, Vouched, KnownGrows
<1>3. ASSUME answer'["settle"] = "ok", NEW i \in Input
      PROVE  answer'["start"] = "none" /\ KnownThen(i, idleAt'[i], 1)
  <2>1. answer["start"] = "none" /\ Known(i, idleAt[i], 1)
    BY <1>3 DEF Honest
  <2> QED  BY <2>1, Vouched, KnownGrows
<1>4. answer'["settle"] = "ok" => answer'["start"] = "none"
  BY DEF Honest
<1> QED  BY <1>1, <1>2, <1>3, <1>4, HonestFolded

\* The worker's steps.
LEMMA HonestWorker ==
    ASSUME FollowInv, ~closed, StartFirst, LoneQuery, Honest,
           WorkerStep \/ RefreshFails \/ WorkerDies
    PROVE  Honest'
<1>0. /\ SessionInv /\ TypeOK /\ Told /\ Closing /\ WorkerFrame /\ Keeping
      /\ "settle" \in Caller /\ {} \in SUBSET Input /\ {"listing"} \in SUBSET Input
  <2>1. WorkerFrame
    BY WorkerRests
  <2>2. Keeping
    BY <2>1, KeepingRests DEF WorkerFrame, residentVars
  <2> QED  BY <2>1, <2>2, Domains DEF FollowInv, SessionInv
<1>1. ASSUME Grows, AlsoReplied("settle", {}), idleAt' = idleAt, answer["start"] = "none" => Stamping
      PROVE  Honest'
  BY <1>0, <1>1, HonestGrows DEF WorkerFrame
<1>2. base' = base => Stamping
  BY DEF Stamping
<1>3. out' = out => Grows /\ AlsoReplied("settle", {})
  BY <1>0, Types DEF Grows, AlsoReplied, Replied
<1>4. CASE FirstRefresh
  <2>1. answer["start"] # "none" /\ out' = out /\ idleAt' = idleAt
    BY <1>4, StartFirstFolded DEF FirstRefresh
  <2> QED  BY <1>1, <1>3, <2>1
<1>5. CASE Reconcile
  <2>1. PostsOne(Input, Reply("start", TRUE)) /\ Input \in SUBSET Input /\ "start" \in Caller
    BY <1>0, <1>5, WorkerPosts, Domains
  <2>2. Grows /\ Tells(Input) /\ AlsoReplied("settle", {})
    BY <1>0, <2>1, GrowingPosts
  <2>3. base' = Stamped(Input) /\ idleAt' = idleAt
    BY <1>5 DEF Reconcile
  <2> QED  BY <1>0, <1>1, <2>1, <2>2, <2>3, StampingTells
<1>6. ASSUME NEW m \in {"refresh", "publish"}, Serves(m)
      PROVE  Head(inq).by \in Caller /\ Head(inq).by # "settle"
  BY <1>0, <1>6, ServesFields DEF Closing
<1>7. CASE Refresh
  <2>1. PostsOne({"listing"}, Reply(Head(inq).by, TRUE))
    BY <1>0, <1>7, WorkerPosts
  <2>2. Head(inq).by \in Caller /\ Head(inq).by # "settle"
    BY <1>6, <1>7 DEF Refresh
  <2>3. Grows /\ Tells({"listing"}) /\ AlsoReplied("settle", {})
    BY <1>0, <2>1, <2>2, GrowingPosts
  <2>4. base' = Stamped({"listing"}) /\ idleAt' = idleAt
    BY <1>7 DEF Refresh
  <2> QED  BY <1>0, <1>1, <2>3, <2>4, StampingTells
<1>8. CASE RefreshFails
  <2>1. PostsOne({}, Reply(Head(inq).by, FALSE))
    BY <1>0, <1>8, WorkerPosts
  <2>2. Head(inq).by \in Caller /\ Head(inq).by # "settle"
    BY <1>6, <1>8 DEF RefreshFails
  <2>3. Grows /\ AlsoReplied("settle", {})
    BY <1>0, <2>1, <2>2, GrowingPosts
  <2>4. base' = base /\ idleAt' = idleAt
    BY <1>8 DEF RefreshFails
  <2> QED  BY <1>1, <1>2, <2>3, <2>4
<1>9. CASE Publish
  <2>1. PICK ok \in {TRUE, ~Faults} :
           PostsOne({}, Reply(Head(inq).by, ok))
    BY <1>0, <1>9, WorkerPosts
  <2>2. Head(inq).by \in Caller /\ Head(inq).by # "settle" /\ ok \in BOOLEAN
    BY <1>6, <1>9, <2>1 DEF Publish
  <2>3. Grows /\ AlsoReplied("settle", {})
    BY <1>0, <2>1, <2>2, GrowingPosts
  <2>4. base' = base /\ idleAt' = idleAt
    BY <1>9 DEF Publish
  <2> QED  BY <1>1, <1>2, <2>3, <2>4
<1>10. CASE AwaitIdle \/ \E i \in Input : Notify(i)
  <2>1. out' = out /\ base' = base /\ idleAt' = idleAt
    BY <1>10 DEF AwaitIdle, Notify
  <2> QED  BY <1>1, <1>2, <1>3, <2>1
<1>11. CASE AnswerIdle
  <2>1. /\ barrier /\ idleAt' = base /\ base' = base
        /\ PostsOne({}, Reply("settle", TRUE))
    BY <1>0, <1>11, WorkerPosts DEF AnswerIdle
  <2>2. answer["settle"] = "wait" /\ Replied("settle") = {}
    BY <2>1 DEF LoneQuery
  <2>3. Grows /\ Len(out) < Len(out') /\ AlsoReplied("settle", {Len(out')})
    BY <1>0, <2>1, GrowingPosts
  <2>4. Len(out) \in Nat /\ Len(out') \in Nat /\ Len(out) + 1 <= Len(out')
    BY <2>3 DEF Grows
  <2>5. answer' = answer /\ heard' = heard
    BY <1>0 DEF WorkerFrame
  <2>6. ASSUME answer'["start"] = "none", NEW i \in Input
        PROVE  KnownThen(i, base[i], Len(out')) /\ KnownThen(i, base[i], Len(out') + 1)
    <3>1. Known(i, base[i], Len(out) + 1)
      BY <2>5, <2>6 DEF Honest
    <3> QED  BY <1>0, <2>3, <2>4, <2>5, <3>1, Vouched, KnownGrows
  <2>7. \A j \in Replied("settle")' : j = Len(out')
    BY <2>2, <2>3 DEF AlsoReplied
  <2>8. answer'["settle"] # "ok"
    BY <2>2, <2>5
  <2> QED  BY <2>1, <2>6, <2>7, <2>8, HonestFolded
<1>12. CASE CloseTopology \/ WorkerExit
  BY <1>0, <1>12, ServingLeaves DEF CloseTopology, WorkerExit, Closing
<1>13. CASE WorkerDies
  <2>1. Grows /\ AlsoReplied("settle", {})
    BY <1>0, <1>13, WorkerPosts, GrowingPosts
  <2>2. base' = base /\ idleAt' = idleAt
    BY <1>13 DEF WorkerDies
  <2> QED  BY <1>1, <1>2, <2>1, <2>2
<1>14. CASE Decide
  <2>1. PICK is \in SUBSET Input : base' = Stamped(is) /\ PostsNone(is)
    BY <1>0, <1>14, WorkerPosts
  <2>2. Grows /\ Tells(is) /\ AlsoReplied("settle", {})
    BY <1>0, <2>1, GrowingPosts
  <2>3. idleAt' = idleAt
    BY <1>14 DEF Decide
  <2> QED  BY <1>0, <1>1, <2>1, <2>2, <2>3, StampingTells
<1> QED  BY <1>4, <1>5, <1>7, <1>8, <1>9, <1>10, <1>11, <1>12, <1>13, <1>14 DEF WorkerStep

\* The launcher takes a message: the answer to an idle query was preceded by the
\* reports it vouches for, and by the answer to the first refresh.
LEMMA HonestTakes ==
    ASSUME FollowInv, ~closed, StartFirst, LoneQuery, Honest, OnEvent \/ OnReply
    PROVE  Honest'
<1>0. /\ SessionInv /\ TypeOK /\ Told /\ out # <<>> /\ out' = Tail(out) /\ Drained
      /\ UNCHANGED <<base, idleAt>>
      /\ answer \in [Caller -> Status] /\ {"start", "settle"} \subseteq Caller
  BY LoopTypes, Domains DEF FollowInv, SessionInv, OnEvent, OnReply, QueueFrame, history
<1>1. answer["start"] \in {"none", "wait"} /\ answer["settle"] \in {"none", "wait"}
  BY <1>0 DEF Drained, Status
<1>2. Keeping
  BY KeepingRests DEF OnEvent, OnReply, residentVars, history
<1>3. Len(out') = Len(out) - 1 /\ Len(out) \in Nat
  BY <1>0, Shifts
<1>4. ASSUME answer["start"] = "none", NEW i \in Input
      PROVE  /\ KnownThen(i, base'[i], Len(out') + 1)
             /\ \A j \in Replied("settle")' : out'[j].ok => KnownThen(i, idleAt'[i], j)
  <2>1. KnownThen(i, base[i], Len(out') + 1)
    <3>1. Known(i, base[i], Len(out) + 1)
      BY <1>4 DEF Honest
    <3>2. Len(out) + 1 <= (Len(out') + 1) + 1 /\ Len(out) + 1 \in Int /\ Len(out') + 1 \in Int
      BY <1>3
    <3> QED  BY <1>0, <1>2, <3>1, <3>2, Vouched, KnownShifts
  <2>2. ASSUME NEW j \in Replied("settle")', out'[j].ok PROVE KnownThen(i, idleAt[i], j)
    <3>1. j \in Nat /\ j + 1 \in Replied("settle") /\ out'[j] = out[j + 1]
      BY <1>0, Shifts
    <3>2. Known(i, idleAt[i], j + 1)
      BY <1>4, <2>2, <3>1 DEF Honest
    <3> QED  BY <1>0, <1>2, <3>1, <3>2, Vouched, KnownShifts
  <2> QED  BY <1>0, <2>1, <2>2
<1>5. ASSUME answer'["settle"] = "ok"
      PROVE  answer'["start"] = "none" /\ \A i \in Input : KnownThen(i, idleAt'[i], 1)
  <2>1. OnReply
    BY <1>1, <1>5 DEF OnEvent
  <2> DEFINE msg == Head(out)
  <2>2. /\ msg.kind = "reply" /\ msg.to \in Caller /\ msg = out[1] /\ 1 \in DOMAIN out
        /\ answer' = IF answer[msg.to] = "wait"
                     THEN [answer EXCEPT ![msg.to] = IF msg.ok THEN "ok" ELSE "err"]
                     ELSE answer
    BY <1>0, <2>1, TakesFields, MessageFields DEF OnReply
  <2> HIDE DEF msg
  <2>3. msg.to = "settle" /\ msg.ok /\ answer'["start"] = answer["start"]
    BY <1>0, <1>1, <1>5, <2>2
  <2>4. 1 \in Replied("settle") /\ out[1].ok
    BY <2>2, <2>3 DEF Replied
  <2>5. answer["start"] = "none"
    <3> SUFFICES ASSUME answer["start"] = "wait" PROVE FALSE
      BY <1>1
    <3>1. Ahead
      BY <2>4, StartFirstFolded DEF Unheard
    <3>2. PICK k \in Replied("start") : k < 1
      BY <2>4, <3>1 DEF Ahead
    <3>3. k \in Nat /\ k >= 1
      BY <1>0, <3>2, Shifts
    <3> QED  BY <3>2, <3>3
  <2>6. ASSUME NEW i \in Input PROVE KnownThen(i, idleAt[i], 1)
    <3>1. Known(i, idleAt[i], 1)
      BY <2>4, <2>5 DEF Honest
    <3> QED  BY <1>0, <1>2, <3>1, Vouched, KnownShifts
  <2> QED  BY <1>0, <2>3, <2>5, <2>6
<1>6. answer'["start"] = "none" => answer["start"] = "none"
  <2>1. CASE OnEvent
    BY <2>1 DEF OnEvent
  <2>2. CASE OnReply
    BY <1>0, <2>2 DEF OnReply
  <2> QED  BY <2>1, <2>2
<1> QED  BY <1>4, <1>5, <1>6, HonestFolded

\* The steps of a session that stays open.
LEMMA HonestNext ==
    ASSUME FollowInv, ~closed, ~closed', StartFirst, LoneQuery, Honest, Next
    PROVE  Honest'
<1>0. /\ SessionInv /\ TypeOK /\ Told /\ answer \in [Caller -> Status]
      /\ {"start", "settle"} \subseteq Caller
  BY LoopTypes, Domains DEF FollowInv, SessionInv
<1>1. ASSUME UNCHANGED <<out, heard, base, idleAt>>, Keeping, answer'["start"] = answer["start"],
             answer'["settle"] = "ok" => answer["settle"] = "ok"
      PROVE  Honest'
  <2>1. Grows /\ AlsoReplied("settle", {}) /\ Stamping
    BY <1>0, <1>1, Types DEF Grows, AlsoReplied, Replied, Stamping
  <2> QED  BY <1>0, <1>1, <2>1, HonestGrows
<1>2. CASE \E i \in Input : Edit(i)
  <2>1. UNCHANGED <<out, heard, base, idleAt, answer, cover, prog, cyc>>
    BY <1>2 DEF Edit, residentVars, history
  <2> QED  BY <1>1, <2>1, KeepingRests
<1>3. CASE Retired
  <2>1. UNCHANGED <<out, heard, base, idleAt, answer, cover, prog, cyc>>
    BY <1>3 DEF Retired, workerVars, history
  <2> QED  BY <1>1, <2>1, KeepingRests
<1>4. CASE Query
  <2>1. UNCHANGED <<out, heard, base, idleAt, cover, prog, cyc>>
    BY <1>4 DEF Query, QueueFrame, residentVars, history
  <2>2. answer'["start"] = answer["start"] /\ answer'["settle"] # "ok"
    BY <1>0, <1>4 DEF Query, Asks
  <2> QED  BY <1>1, <2>1, <2>2, KeepingRests
<1>5. CASE Observes
  <2>1. /\ UNCHANGED <<out, heard, base, idleAt, cover, prog, cyc>>
        /\ answer' = [answer EXCEPT !["settle"] = "none"]
    BY <1>5 DEF Observes, Observed, NoShutdown, QueueFrame, residentVars, history
  <2> QED  BY <1>0, <1>1, <2>1, KeepingRests
<1>6. ASSUME NEW c \in Cycle, Begins(c), UNCHANGED <<cover, prog>> PROVE Keeping
  <2>1. cyc[c].st = "off" /\ \A d \in Cycle : d # c => cyc'[d] = cyc[d]
    BY <1>0, <1>6, BeginsFields DEF Begins
  <2>2. \A d \in Cycle : cyc[d].st # "off" => cyc'[d].st # "off" /\ cyc'[d].at = cyc[d].at
    BY <2>1
  <2> QED  BY <1>6, <2>2, KeepingRests
<1>7. CASE TimerFires \/ OrphanFires
  <2>1. PICK left : StartRun(left)
    BY <1>7 DEF TimerFires, OrphanFires
  <2>2. PICK c \in Cycle : Begins(c)
    BY <2>1, StartRunFields
  <2>3. UNCHANGED <<heard, idleAt, cover, prog>>
    BY <2>1, StartRunFields DEF residentVars
  <2>4. UNCHANGED <<out, base, answer>>
    BY <1>7 DEF TimerFires, OrphanFires, QueueFrame
  <2>5. Keeping
    BY <1>6, <2>2, <2>3
  <2> QED  BY <1>1, <2>3, <2>4, <2>5
<1>8. CASE Started
  <2>1. /\ answer["start"] = "ok" /\ UNCHANGED <<out, base>>
        /\ answer' = [answer EXCEPT !["start"] = "none"]
        /\ StartRun(Left(0))
    BY <1>8 DEF Started, QueueFrame
  <2>2. PICK c \in Cycle : Begins(c)
    BY <2>1, StartRunFields
  <2>3. UNCHANGED <<heard, idleAt, cover, prog>>
    BY <2>1, StartRunFields DEF residentVars
  <2>4. cyc'[c].st # "off" /\ cyc'[c].at = disk
    BY <1>0, <2>2, BeginsFields
  <2>5. \A e \in Entry : prog[e] = Cold
    BY <1>0, <2>1, StartFirstFolded DEF SessionInv, Disposed
  <2>6. ASSUME NEW i \in Input, NEW v \in Nat, v <= disk[i] PROVE ReachedThen(i, v)
    <3>1. disk[i] \in Nat /\ disk[i] >= v
      BY <1>0, <2>6, Versed
    <3> QED  BY <2>3, <2>4, <2>5, <3>1 DEF ReachedThen
  <2>7. ASSUME NEW i \in Input, NEW n PROVE KnownThen(i, base[i], n) /\ KnownThen(i, idleAt[i], n)
    BY <1>0, <2>6, Vouched DEF KnownThen
  <2>8. answer'["settle"] # "ok"
    BY <1>0, <2>1 DEF Honest
  <2> QED  BY <2>1, <2>3, <2>7, <2>8, HonestFolded
<1>9. ASSUME NEW c \in Cycle, CycleStep(c) PROVE Honest'
  <2>1. UNCHANGED <<out, heard, base, idleAt>>
    BY <1>9, CycleSteps DEF CycleFrame, QueueFrame
  <2>2. answer'["start"] = answer["start"] /\ answer'["settle"] = answer["settle"]
    BY <1>9, CycleSteps
  <2>3. Keeping
    BY <1>9, KeepingCycle
  <2> QED  BY <1>1, <2>1, <2>2, <2>3
<1> QED  BY <1>0, <1>2, <1>3, <1>4, <1>5, <1>7, <1>8, <1>9, OpenSteps, HonestWorker, HonestTakes

-----------------------------------------------------------------------------
(* Receipts.                                                               *)

\* A closed session stays closed.
LEMMA ClosedStays ==
    ASSUME closed, Next
    PROVE  closed'
<1>1. closed => (WorkerStep \/ RefreshFails \/ WorkerDies => closed')
  BY WorkerRests DEF WorkerFrame, loopVars
<1>2. \A i \in Input : Edit(i) => closed'
  BY DEF Edit
<1>3. Signal \/ Query \/ OnEvent \/ OnReply \/ Retired => closed'
  BY DEF Signal, Query, OnEvent, OnReply, Retired, loopVars
<1>4. Started \/ TimerFires \/ OrphanFires => closed'
  BY DEF Started, TimerFires, OrphanFires, StartRun
<1>5. OnExit \/ StartFailed \/ Observed => closed'
  BY DEF OnExit, StartFailed, Observed, NoShutdown, loopVars
<1>6. CloseFailed \/ CloseAnswered \/ Finish => closed'
  BY DEF CloseFailed, CloseAnswered, Finish, loopVars
<1>7. ASSUME NEW c \in Cycle, CycleStep(c) PROVE closed'
  BY <1>7 DEF CycleStep, Begin, Published, Ask, Checked, Refreshed, CycleFrame
<1> QED  BY <1>1, <1>2, <1>3, <1>4, <1>5, <1>6, <1>7 DEF Next, LoopStep, CycleStep

\* A receipt is sent only when the query of an open session is answered.
LEMMA OnlyReceipt ==
    ASSUME SessionInv, [Next]_vars, settle # "sent", settle' = "sent"
    PROVE  Observed /\ ~closed /\ answer["settle"] = "ok" /\ Outcome = "sent"
<1>0. TypeOK /\ settle \in Settling /\ "gone" \in Settling
  BY LoopTypes DEF SessionInv, Settling
<1>1. \A s \in Settling : s # "sent" => Changed(s) # "sent"
  BY ChangedFields
<1>2. ~Stirs
  BY <1>0, <1>1 DEF Stirs
<1>3. ~UNCHANGED vars
  BY DEF vars
<1>4. ~(WorkerStep \/ RefreshFails \/ WorkerDies) /\ ~(\E i \in Input : Edit(i))
  BY WorkerRests DEF WorkerFrame, Edit
<1>5. \A ans, lost : ~Shutdown(ans, settle, lost) /\ ~Shutdown(ans, "gone", lost) /\ ~NoShutdown(ans, settle)
  BY <1>0, <1>1 DEF Shutdown, NoShutdown
<1>6. ~Signal /\ ~OnExit /\ ~StartFailed
  BY <1>5 DEF Signal, OnExit, StartFailed
<1>7. ~Query /\ ~OnEvent /\ ~OnReply /\ ~Retired /\ ~CloseFailed /\ ~CloseAnswered /\ ~Finish
  BY <1>2 DEF Query, OnEvent, OnReply, Retired, CloseFailed, CloseAnswered, Finish, Stirs
<1>8. ~Started /\ ~TimerFires /\ ~OrphanFires /\ ~(\E c \in Cycle : CycleStep(c))
  BY <1>0, <1>2, Stirring DEF Started, TimerFires, OrphanFires
<1>9. Observed
  BY <1>3, <1>4, <1>6, <1>7, <1>8 DEF Next, LoopStep, CycleStep
<1>10. answer["settle"] \in {"ok", "err"} /\ settle' = Outcome
  BY <1>5, <1>9 DEF Observed, NoShutdown, Outcome, Idle
<1> QED  BY <1>9, <1>10, OutcomeFields

\* What a session that is open keeps, besides FollowInv.
Vouching == StartFirst /\ LoneQuery /\ Scheduled /\ Honest

\* At first nothing was asked but the first refresh, and nothing heard.
LEMMA VouchingInit ==
    ASSUME Init
    PROVE  Vouching
<1>1. /\ answer["start"] = "wait" /\ answer["settle"] = "none"
      /\ inq # <<>> /\ Head(inq).by = "start" /\ inq = <<[m |-> "refresh", by |-> "start"]>>
      /\ out = <<>> /\ topo = "new" /\ barrier = FALSE /\ selected = FALSE
      /\ note = {} /\ rerun = FALSE /\ heard = cover
  BY Domains DEF Init
<1>2. (\A x : Replied(x) = {}) /\ Sent("settle") = {}
  BY <1>1 DEF Replied, Sent
<1>3. StartFirst
  BY <1>1, <1>2 DEF StartFirst
<1>4. LoneQuery
  BY <1>1, <1>2 DEF LoneQuery
<1>5. Scheduled
  <2>1. \A i \in Input : cover[i] = 0 /\ heard[i] = 0
    BY DEF Init
  <2> QED  BY <1>1, <2>1 DEF Scheduled
<1>6. Honest
  BY <1>1 DEF Honest
<1> QED  BY <1>3, <1>4, <1>5, <1>6 DEF Vouching

\* Every step of an open session keeps it; a session that is closed stays closed.
LEMMA VouchingNext ==
    ASSUME FollowInv, TypeOK', ~closed => Vouching, [Next]_vars
    PROVE  ~closed' => Vouching'
<1> SUFFICES ASSUME ~closed' PROVE Vouching'
  OBVIOUS
<1>1. CASE UNCHANGED vars
  <2>1. UNCHANGED <<disk, workerVars, answer, loopVars, cyc, settle, residentVars, history>>
    BY <1>1 DEF vars
  <2>2. ~closed
    BY <2>1 DEF loopVars
  <2>3. StartFirst'
    BY <2>1, <2>2 DEF Vouching, StartFirst, Replied, workerVars, residentVars
  <2>4. LoneQuery'
    BY <2>1, <2>2 DEF Vouching, LoneQuery, Replied, Sent, workerVars
  <2>5. Scheduled'
    BY <2>1, <2>2, ScheduledRests DEF Vouching, loopVars, history
  <2>6. Honest'
    BY <2>1, <2>2 DEF Vouching, Honest, Known, Reached, Replied, About, workerVars, history, residentVars
  <2> QED  BY <2>3, <2>4, <2>5, <2>6 DEF Vouching
<1>2. CASE Next
  <2>1. ~closed
    BY <1>2, ClosedStays
  <2> QED  BY <1>2, <2>1, StartFirstNext, LoneQueryNext, ScheduledNext, HonestNext DEF Vouching
<1> QED  BY <1>1, <1>2

\* The receipt is sent only when the launcher is idle, and then what was vouched
\* for has been heard, taken by a cycle that ended, and delivered.
LEMMA ReceiptHonest ==
    ASSUME FollowInv, ~closed => Vouching, [Next]_vars, settle # "sent", settle' = "sent"
    PROVE  /\ \A c \in Cycle : cyc[c].st = "off"
           /\ \A i \in Input : cover[i] >= idleAt[i]
           /\ \A e \in Entry, i \in Input :
                \/ prog[e] = Cold \/ prog[e][i] >= idleAt[i]
                \/ i = "source" /\ buf[e] = "changed"
<1>0. SessionInv /\ TypeOK /\ Told /\ Serial /\ settle \in Settling
  BY LoopTypes DEF FollowInv, SessionInv
<1>1. Observed /\ ~closed /\ answer["settle"] = "ok" /\ Outcome = "sent"
  BY <1>0, OnlyReceipt
<1>2. Idle
  BY <1>1, OutcomeFields
<1>3. Vouching
  BY <1>1
<1>4. \A c \in Cycle : cyc[c].st = "off"
  BY <1>0, <1>2 DEF Serial, Idle
<1>5. note = {}
  BY <1>2, <1>3 DEF Vouching, Scheduled, Idle
<1>6. ASSUME NEW i \in Input PROVE heard[i] >= idleAt[i] \/ Reached(i, idleAt[i])
  <2>1. Known(i, idleAt[i], 1)
    BY <1>1, <1>3, <1>6 DEF Vouching, Honest
  <2>2. \A j \in About(i) : ~(j < 1)
    BY <1>0, Types DEF About
  <2> QED  BY <2>1, <2>2 DEF Known
<1>7. ASSUME NEW i \in Input PROVE cover[i] >= idleAt[i]
  <2>1. CASE heard[i] >= idleAt[i]
    <3>1. cover[i] >= heard[i]
      BY <1>3, <1>4, <1>5 DEF Vouching, Scheduled
    <3> QED  BY <1>0, <2>1, <3>1, Versed
  <2>2. CASE Reached(i, idleAt[i])
    BY <1>4, <2>2 DEF Reached
  <2> QED  BY <1>6, <2>1, <2>2
<1>8. ASSUME NEW e \in Entry, NEW i \in Input
      PROVE  \/ prog[e] = Cold \/ prog[e][i] >= idleAt[i]
             \/ i = "source" /\ buf[e] = "changed"
  <2>1. CASE heard[i] >= idleAt[i]
    <3>1. prog[e] = Cold \/ prog[e][i] >= heard[i] \/ (i = "source" /\ buf[e] = "changed")
      BY <1>1, <1>4, <1>5 DEF FollowInv, Following, ProgramsFollow, Owing
    <3>2. heard[i] \in Int /\ idleAt[i] \in Int
      BY <1>0, Versed
    <3>3. prog[e] = Cold \/ prog[e][i] \in Int
      BY <1>0, LoopTypes DEF Versions, Version
    <3> QED  BY <2>1, <3>1, <3>2, <3>3
  <2>2. CASE Reached(i, idleAt[i])
    BY <2>2 DEF Reached
  <2> QED  BY <1>6, <2>1, <2>2
<1> QED  BY <1>4, <1>7, <1>8

\* What SettledHonest asks of a step.
Receipt ==
    ~overlapped /\ ~missed /\ settle # "sent" /\ settle' = "sent" =>
        /\ \A c \in Cycle : cyc[c].st = "off"
        /\ \A i \in Input : cover[i] >= idleAt[i]
        /\ \A e \in Entry, i \in Input :
             \/ prog[e] = Cold \/ prog[e][i] >= idleAt[i]
             \/ i = "source" /\ buf[e] = "changed"

\* The bookkeeping of a session holds always; cycles are serial until they overlap;
\* and until then, or until a warm cycle loses its changes, warm Programs miss no
\* report and what the worker vouches for is known to the launcher or on its way.
THEOREM WatchVouching == Spec => []WatchInv
<1>1. HonestInv <=> FollowInv /\ (~closed => Vouching)
  BY DEF HonestInv, Vouching
<1>2. Init => WatchInv
  BY <1>1, SessionInit, SerialInit, FollowInvInit, VouchingInit DEF WatchInv
<1>3. WatchInv /\ [Next]_vars => WatchInv'
  <2> SUFFICES ASSUME WatchInv, [Next]_vars PROVE WatchInv'
    OBVIOUS
  <2>1. SessionInv' /\ (overlapped => overlapped') /\ (missed => missed')
    BY SessionNext, HistoryGrows DEF WatchInv
  <2>2. ~overlapped' => Serial'
    BY <2>1, SerialNext DEF WatchInv
  <2>3. ASSUME ~overlapped', ~missed' PROVE HonestInv'
    <3>1. HonestInv
      BY <2>1, <2>3 DEF WatchInv
    <3>2. FollowInv' /\ TypeOK'
      BY <1>1, <2>3, <3>1, FollowInvNext DEF FollowInv, SessionInv
    <3>3. ~closed' => Vouching'
      BY <1>1, <3>1, <3>2, VouchingNext
    <3> QED  BY <3>2, <3>3 DEF HonestInv, Vouching
  <2> QED  BY <2>1, <2>2, <2>3 DEF WatchInv
<1> QED  BY <1>2, <1>3, PTL DEF Spec

\* A settle receipt is honest: when it is sent no cycle runs, and every change the
\* worker had reported when it answered the idle query has been taken by a cycle
\* that has ended, and is known to every warm sidecar or buffered for it; until
\* cycles overlap or a warm cycle fails before it has buffered its changes.
THEOREM WatchSettledHonest == Spec => SettledHonest
<1>1. WatchInv /\ [Next]_vars => [Receipt]_vars
  <2> SUFFICES ASSUME WatchInv, [Next]_vars, ~overlapped, ~missed,
                      settle # "sent", settle' = "sent"
               PROVE  /\ \A c \in Cycle : cyc[c].st = "off"
                      /\ \A i \in Input : cover[i] >= idleAt[i]
                      /\ \A e \in Entry, i \in Input :
                           \/ prog[e] = Cold \/ prog[e][i] >= idleAt[i]
                           \/ i = "source" /\ buf[e] = "changed"
    BY DEF Receipt
  <2>1. FollowInv /\ (~closed => Vouching)
    BY DEF WatchInv, HonestInv, Vouching
  <2> QED  BY <2>1, ReceiptHonest
<1>2. [][Receipt]_vars <=> SettledHonest
  BY PTL DEF Receipt, SettledHonest
<1> QED  BY <1>1, <1>2, WatchVouching, PTL DEF Spec

=============================================================================
