-------------------------- MODULE WatchSessionProofs --------------------------
(***************************************************************************)
(* Watch mode: shutdown joins everything and warm Programs miss no report,  *)
(* for any number of resident check plugins and edits.  That settle         *)
(* receipts are honest is proved in WatchSettleProofs, from these facts.    *)
(***************************************************************************)
EXTENDS WatchSession, SequenceTheorems, TLAPS

-----------------------------------------------------------------------------
(* The two channels.                                                       *)

\* A report that i is at its version on disk.
IsReport(msg, i) == msg.kind = Kind(i) /\ msg.saw = disk[i]

\* The worker posts the reports of a comparison, then the messages ms.
Posts(is, ms) == out' = (out \o Reports(is)) \o ms

\* What TypeOK says of the channels and the versions.
LEMMA Types ==
    ASSUME TypeOK
    PROVE  /\ disk \in Versions /\ base \in Versions /\ heard \in Versions
           /\ idleAt \in Versions /\ cover \in Versions
           /\ out \in Seq(Message) /\ Len(out) \in Nat
           /\ inq \in Seq([m : {"refresh", "publish", "idle", "close"}, by : Caller])
           /\ Len(inq) \in Nat
           /\ DOMAIN out = 1 .. Len(out) /\ DOMAIN inq = 1 .. Len(inq)
BY DEF TypeOK

\* What the messages of the worker are made of.
LEMMA MessageFields ==
    /\ \A saw \in Version, kind \in {"input", "topology"} :
          [kind |-> kind, saw |-> saw] \in Message
    /\ \A x \in Caller, ok \in BOOLEAN :
          /\ Reply(x, ok) \in Message /\ Reply(x, ok).kind = "reply"
          /\ Reply(x, ok).to = x /\ Reply(x, ok).ok = ok
    /\ \A clean \in BOOLEAN : [kind |-> "exit", clean |-> clean] \in Message
    /\ \A msg \in Message :
          /\ msg.kind \in {"input", "topology"} => msg.saw \in Version
          /\ msg.kind = "reply" => msg.to \in Caller /\ msg.ok \in BOOLEAN
          /\ msg.kind \in {"input", "topology", "reply", "exit"}
BY DEF Message, Reply

\* A comparison reports what moved, once.
LEMMA ReportsFields ==
    ASSUME TypeOK, NEW is \in SUBSET Input
    PROVE  /\ Reports(is) \in Seq(Message)
           /\ \A j \in DOMAIN Reports(is) : \E i \in is : IsReport(Reports(is)[j], i)
           /\ \A i \in is : disk[i] # base[i] =>
                 \E j \in DOMAIN Reports(is) : IsReport(Reports(is)[j], i)
<1> DEFINE a == [kind |-> "input", saw |-> disk["source"]]
           b == [kind |-> "topology", saw |-> disk["listing"]]
           s == IF "source" \in is /\ disk["source"] # base["source"] THEN <<a>> ELSE <<>>
           l == IF "listing" \in is /\ disk["listing"] # base["listing"] THEN <<b>> ELSE <<>>
<1>1. "source" \in Input /\ "listing" \in Input /\ \A i \in Input : i \in {"source", "listing"}
  BY DEF Input
<1>2. disk["source"] \in Version /\ disk["listing"] \in Version
  BY <1>1, Types DEF Versions
<1>3. a \in Message /\ b \in Message
  BY <1>2, MessageFields
<1>4. IsReport(a, "source") /\ IsReport(b, "listing")
  BY DEF IsReport, Kind
<1>5. Reports(is) = s \o l
  BY DEF Reports
<1> HIDE DEF a, b
<1>6. \/ Len(s) = 0
      \/ "source" \in is /\ Len(s) = 1 /\ s[1] = a
  OBVIOUS
<1>7. \/ Len(l) = 0
      \/ "listing" \in is /\ Len(l) = 1 /\ l[1] = b
  OBVIOUS
<1>8. /\ "source" \in is /\ disk["source"] # base["source"] => Len(s) = 1
      /\ "listing" \in is /\ disk["listing"] # base["listing"] => Len(l) = 1
  OBVIOUS
<1> HIDE DEF s, l
<1>9. s \in Seq(Message) /\ l \in Seq(Message)
  BY <1>3 DEF s, l
<1>10. /\ s \o l \in Seq(Message) /\ Len(s \o l) = Len(s) + Len(l)
       /\ \A j \in 1 .. Len(s) + Len(l) :
             (s \o l)[j] = IF j <= Len(s) THEN s[j] ELSE l[j - Len(s)]
       /\ DOMAIN (s \o l) = 1 .. Len(s) + Len(l)
  BY <1>9
<1>11. ASSUME NEW j \in DOMAIN (s \o l) PROVE \E i \in is : IsReport((s \o l)[j], i)
  BY <1>4, <1>6, <1>7, <1>10
<1>12. ASSUME NEW i \in is, disk[i] # base[i]
       PROVE  \E j \in DOMAIN (s \o l) : IsReport((s \o l)[j], i)
  <2>1. CASE i = "source"
    <3>1. Len(s) = 1 /\ s[1] = a /\ Len(l) \in Nat
      BY <1>6, <1>7, <1>8, <1>12, <2>1
    <3>2. 1 \in DOMAIN (s \o l) /\ (s \o l)[1] = a
      BY <1>10, <3>1
    <3> QED  BY <1>4, <2>1, <3>2
  <2>2. CASE i = "listing"
    <3>1. Len(l) = 1 /\ l[1] = b /\ Len(s) \in Nat
      BY <1>6, <1>7, <1>8, <1>12, <2>2
    <3>2. Len(s) + 1 \in DOMAIN (s \o l) /\ (s \o l)[Len(s) + 1] = b
      BY <1>10, <3>1
    <3> QED  BY <1>4, <2>2, <3>2
  <2> QED  BY <1>1, <2>1, <2>2
<1> QED  BY <1>5, <1>10, <1>11, <1>12

\* What is new in the channel after the worker has posted.
Fresh == DOMAIN out' \ DOMAIN out

\* What is on the channel after a post: what was there, in place, then reports
\* of the present versions, then the message.
LEMMA PostsFields ==
    ASSUME TypeOK, NEW is \in SUBSET Input, NEW ms \in Seq(Message), Len(ms) <= 1, Posts(is, ms)
    PROVE  /\ out' \in Seq(Message) /\ Len(out) + Len(ms) <= Len(out')
           /\ DOMAIN out' = 1 .. Len(out') /\ Len(out') \in Nat
           /\ \A j \in DOMAIN out : j \in DOMAIN out' /\ out'[j] = out[j]
           /\ \A j \in Fresh : j > Len(out) /\
                 \/ \E i \in is : IsReport(out'[j], i)
                 \/ Len(ms) = 1 /\ j = Len(out') /\ out'[j] = ms[1]
           /\ \A i \in is : disk[i] # base[i] =>
                 \E j \in Fresh : IsReport(out'[j], i) /\ j <= Len(out') - Len(ms)
           /\ Len(ms) = 1 => Len(out') \in Fresh /\ out'[Len(out')] = ms[1]
<1> DEFINE n == Len(out)
           rs == Reports(is)
           k == Len(rs)
           mid == out \o rs
<1>1. /\ out \in Seq(Message) /\ n \in Nat /\ DOMAIN out = 1 .. n
      /\ Len(ms) \in {0, 1}
  <2>1. Len(ms) \in Nat
    BY LenProperties
  <2>2. Len(ms) \in {0, 1}
    BY <2>1
  <2> QED  BY <2>2, Types
<1>2. rs \in Seq(Message) /\ k \in Nat /\ DOMAIN rs = 1 .. k
  BY ReportsFields
<1>3. /\ mid \in Seq(Message) /\ Len(mid) = n + k
      /\ \A j \in 1 .. n + k : mid[j] = IF j <= n THEN out[j] ELSE rs[j - n]
  BY <1>1, <1>2
<1>4. out' = mid \o ms
  BY DEF Posts
<1> HIDE DEF mid
<1>5. /\ out' \in Seq(Message) /\ Len(out') = n + k + Len(ms)
      /\ \A j \in 1 .. n + k + Len(ms) :
            out'[j] = IF j <= n + k THEN mid[j] ELSE ms[j - (n + k)]
  BY <1>1, <1>2, <1>3, <1>4
<1>6. DOMAIN out' = 1 .. n + k + Len(ms)
  BY <1>1, <1>2, <1>5
<1> HIDE DEF rs, k, n
<1>7. \A j \in DOMAIN out : j \in DOMAIN out' /\ out'[j] = out[j]
  BY <1>1, <1>2, <1>3, <1>5, <1>6
<1>8. Fresh = n + 1 .. n + k + Len(ms)
  BY <1>1, <1>2, <1>6 DEF Fresh
<1>9. ASSUME NEW j \in Fresh, j <= n + k PROVE \E i \in is : IsReport(out'[j], i)
  <2>1. out'[j] = rs[j - n] /\ j - n \in DOMAIN rs
    BY <1>1, <1>2, <1>3, <1>5, <1>8, <1>9
  <2>2. \A h \in DOMAIN rs : \E i \in is : IsReport(rs[h], i)
    BY ReportsFields DEF rs
  <2>3. PICK i \in is : IsReport(rs[j - n], i)
    BY <2>1, <2>2
  <2> QED  BY <2>1, <2>3 DEF IsReport
<1>10. ASSUME NEW j \in Fresh, ~(j <= n + k)
       PROVE  Len(ms) = 1 /\ j = n + k + Len(ms) /\ out'[j] = ms[1]
  <2>1. Len(ms) = 1 /\ j = n + k + 1
    BY <1>1, <1>2, <1>8, <1>10
  <2>2. out'[j] = ms[j - (n + k)]
    BY <1>1, <1>2, <1>5, <1>10, <2>1
  <2>3. j - (n + k) = 1
    BY <1>1, <1>2, <2>1
  <2> QED  BY <2>1, <2>2, <2>3
<1>11. ASSUME NEW i \in is, disk[i] # base[i]
       PROVE  \E j \in Fresh : IsReport(out'[j], i) /\ j <= n + k
  <2>1. PICK h \in DOMAIN rs : IsReport(rs[h], i)
    BY <1>11, ReportsFields DEF rs
  <2>2. h \in Nat /\ 1 <= h /\ h <= k
    BY <1>1, <1>2, <2>1
  <2>3. n + h <= n + k /\ (n + h) - n = h /\ n + h \in 1 .. n + k
    BY <1>1, <1>2, <2>2
  <2>4. n + h \in Fresh
    BY <1>1, <1>2, <1>8, <2>2
  <2>5. n + h \in Fresh /\ n + h <= n + k /\ (n + h) - n = h /\ n + h \in 1 .. n + k
    BY <2>3, <2>4
  <2>6. n + h \in 1 .. n + k + Len(ms)
    BY <1>1, <1>2, <2>2
  <2>7. out'[n + h] = mid[n + h]
    BY <1>5, <2>5, <2>6
  <2>8. ~(n + h <= n)
    BY <1>1, <2>2
  <2>9. mid[n + h] = rs[(n + h) - n]
    BY <1>3, <2>5, <2>8
  <2>10. out'[n + h] = rs[h]
    BY <2>5, <2>7, <2>9
  <2>11. IsReport(out'[n + h], i)
    BY <2>1, <2>10
  <2> QED  BY <2>5, <2>11
<1>12. Len(ms) = 1 => Len(out') \in Fresh /\ out'[Len(out')] = ms[1]
  <2> SUFFICES ASSUME Len(ms) = 1 PROVE n + k + 1 \in Fresh /\ ~(n + k + 1 <= n + k)
    BY <1>5, <1>10
  <2> QED  BY <1>1, <1>2, <1>8
<1> QED  BY <1>1, <1>2, <1>5, <1>6, <1>7, <1>8, <1>9, <1>10, <1>11, <1>12 DEF n

\* A message of its own is posted.
LEMMA AppendPosts ==
    ASSUME TypeOK, NEW msg \in Message, out' = Append(out, msg)
    PROVE  Posts({}, <<msg>>) /\ <<msg>> \in Seq(Message) /\ Len(<<msg>>) = 1 /\ <<msg>>[1] = msg
<1>1. Reports({}) = <<>>
  <2>1. Reports({}) \in Seq(Message) /\ \A j \in DOMAIN Reports({}) : FALSE
    BY ReportsFields
  <2> DEFINE rs == Reports({})
  <2> HIDE DEF rs
  <2>2. Len(rs) \in Nat /\ DOMAIN rs = 1 .. Len(rs)
    BY <2>1, LenProperties DEF rs
  <2>3. ASSUME Len(rs) # 0 PROVE FALSE
    <3>1. 1 \in DOMAIN rs
      BY <2>2, <2>3
    <3> QED  BY <2>1, <3>1 DEF rs
  <2> QED  BY <2>1, <2>3, EmptySeq DEF rs
<1>2. out \o <<>> = out
  BY Types, ConcatEmptySeq
<1>3. Append(out, msg) = out \o <<msg>>
  BY Types, AppendIsConcat
<1> QED  BY <1>1, <1>2, <1>3 DEF Posts

\* The launcher takes the first message.
LEMMA TakesFields ==
    ASSUME TypeOK, out # <<>>, out' = Tail(out)
    PROVE  /\ 1 \in DOMAIN out /\ Head(out) = out[1] /\ Head(out) \in Message
           /\ out' \in Seq(Message) /\ Len(out') = Len(out) - 1 /\ DOMAIN out' = 1 .. Len(out')
           /\ \A j \in DOMAIN out' : j + 1 \in DOMAIN out /\ out'[j] = out[j + 1]
           /\ \A j \in DOMAIN out : j > 1 => j - 1 \in DOMAIN out' /\ out'[j - 1] = out[j]
BY Types

\* The worker takes the first request.
LEMMA ServesFields ==
    ASSUME TypeOK, NEW m, Serves(m)
    PROVE  /\ 1 \in DOMAIN inq /\ Head(inq) = inq[1] /\ inq[1].m = m /\ inq[1].by \in Caller
           /\ inq' \in Seq([m : {"refresh", "publish", "idle", "close"}, by : Caller])
           /\ Len(inq') = Len(inq) - 1 /\ DOMAIN inq' = 1 .. Len(inq')
           /\ \A j \in DOMAIN inq' : j + 1 \in DOMAIN inq /\ inq'[j] = inq[j + 1]
<1> DEFINE R == [m : {"refresh", "publish", "idle", "close"}, by : Caller]
<1>1. inq \in Seq(R) /\ inq # <<>> /\ inq' = Tail(inq) /\ Head(inq).m = m
  BY Types DEF Serves
<1>2. \A q \in R : q.by \in Caller
  OBVIOUS
<1> HIDE DEF R
<1>3. /\ 1 \in DOMAIN inq /\ Head(inq) = inq[1] /\ inq[1] \in R
      /\ inq' \in Seq(R) /\ Len(inq') = Len(inq) - 1 /\ DOMAIN inq' = 1 .. Len(inq')
      /\ \A j \in DOMAIN inq' : j + 1 \in DOMAIN inq /\ inq'[j] = inq[j + 1]
  BY <1>1
<1> QED  BY <1>1, <1>2, <1>3 DEF R

\* The launcher sends a request.
LEMMA SendFields ==
    ASSUME TypeOK, NEW m \in {"refresh", "publish", "idle", "close"}, NEW x \in Caller,
           inq' = Append(inq, [m |-> m, by |-> x])
    PROVE  /\ inq' \in Seq([m : {"refresh", "publish", "idle", "close"}, by : Caller])
           /\ Len(inq') = Len(inq) + 1 /\ DOMAIN inq' = 1 .. Len(inq')
           /\ \A j \in DOMAIN inq : j \in DOMAIN inq' /\ inq'[j] = inq[j]
           /\ Len(inq') \notin DOMAIN inq
           /\ inq'[Len(inq')].m = m /\ inq'[Len(inq')].by = x
           /\ \A j \in DOMAIN inq' : j \in DOMAIN inq \/ j = Len(inq')
BY Types

-----------------------------------------------------------------------------
(* Every step of the session: types, the worker's last word, disposal.     *)

Status == {"none", "wait", "ok", "err"}
Settling == {"none", "query", "moved", "waiting", "again", "sent", "gone"}
Request == [m : {"refresh", "publish", "idle", "close"}, by : Caller]
CycleState ==
    [st : {"off", "begin", "publish", "check", "refresh"},
     change : SUBSET {"source", "reload"}, entry : 1 .. Entries + 1,
     valid : BOOLEAN, at : Versions]

\* The members of the small sets, and which of them differ.
LEMMA Domains ==
    /\ "c1" \in Cycle /\ "c2" \in Cycle /\ NoCycle \notin Cycle
    /\ Cycle \subseteq Caller /\ {"start", "settle", "close"} \subseteq Caller
    /\ {"start", "settle", "close"} \cap Cycle = {}
    /\ "source" \in Input /\ "listing" \in Input /\ Input \subseteq {"source", "listing"}
    /\ 0 \in Version /\ 1 \in 1 .. Entries + 1 /\ Entries + 1 \in 1 .. Entries + 1
    /\ \A e \in Entry : e \in 1 .. Entries + 1 /\ e + 1 \in 1 .. Entries + 1
BY EntriesAssumption, MaxEditsAssumption DEF Cycle, Caller, Input, NoCycle, Version, Entry

\* A change moves a query and wakes a waiter.
LEMMA ChangedFields ==
    ASSUME NEW s \in Settling
    PROVE  /\ Changed(s) \in Settling
           /\ s \notin {"query", "waiting"} => Changed(s) = s
           /\ s = "query" => Changed(s) = "moved"
           /\ s = "waiting" => Changed(s) = "again"
BY DEF Changed, Settling

\* An empty place for a cycle.
LEMMA OffTyped == Off \in CycleState /\ Off.st = "off" /\ Off.valid
BY Domains DEF Off, CycleState, Versions

\* Baselines are versions.
LEMMA StampedTyped ==
    ASSUME TypeOK, NEW is
    PROVE  /\ Stamped(is) \in Versions
           /\ \A i \in Input : Stamped(is)[i] = IF i \in is THEN disk[i] ELSE base[i]
BY Types DEF Stamped, Versions

\* The worker posts reports and at most one message, its exit only when it ends.
Speaks == \E is \in SUBSET Input, ms \in Seq(Message) :
    /\ Len(ms) <= 1 /\ Posts(is, ms)
    /\ Len(ms) = 1 => ms[1].kind \in {"reply", "exit"}
    /\ Len(ms) = 1 /\ ms[1].kind = "exit" => worker' = "dead"

\* Its queue holds requests that were there before.
Leaves == inq' \in Seq(Request) /\ \A j \in DOMAIN inq' : \E k \in DOMAIN inq : inq'[j] = inq[k]

\* What a step of the worker may assign to its own variables.
WorkerTyped ==
    /\ worker' \in {"up", "closing", "dead"} /\ (worker' = "closing" => closed)
    /\ topo' \in {"new", "register", "live"} /\ base' \in Versions /\ idleAt' \in Versions
    /\ owed' \subseteq Input /\ noted' \subseteq Input /\ barrier' \in BOOLEAN
    /\ troubled' \in BOOLEAN

\* A worker that posts keeps the launcher invariant.
LEMMA SpeaksKeeps ==
    ASSUME SessionInv, WorkerFrame, worker # "dead", Speaks, Leaves, WorkerTyped
    PROVE  SessionInv'
<1> USE DEF SessionInv
<1>0. PICK is \in SUBSET Input, ms \in Seq(Message) :
         /\ Len(ms) <= 1 /\ Posts(is, ms)
         /\ Len(ms) = 1 /\ ms[1].kind = "exit" => worker' = "dead"
  BY DEF Speaks
<1>1. /\ out' \in Seq(Message) /\ Len(out') \in Nat /\ DOMAIN out' = 1 .. Len(out')
      /\ \A j \in DOMAIN out : out'[j] = out[j]
      /\ \A j \in Fresh : \/ \E i \in is : IsReport(out'[j], i)
                          \/ Len(ms) = 1 /\ j = Len(out') /\ out'[j] = ms[1]
  BY <1>0, PostsFields
<1>2. TypeOK'
  BY <1>1 DEF TypeOK, WorkerFrame, WorkerTyped, Leaves, loopVars, residentVars, Request
<1>3. ~exited /\ ~failed /\ \A j \in DOMAIN out : out[j].kind # "exit"
  BY DEF LastWord
<1>4. \A j \in DOMAIN out' : out'[j].kind = "exit" => j = Len(out') /\ worker' = "dead"
  <2>1. \A i : Kind(i) # "exit"
    BY DEF Kind
  <2> QED  BY <1>0, <1>1, <1>3, <2>1 DEF Fresh, IsReport
<1>5. LastWord'
  BY <1>3, <1>4 DEF LastWord, WorkerFrame
<1>6. Armed' /\ Disposed'
  BY DEF Armed, Disposed, Open, WorkerFrame, loopVars, residentVars
<1>7. Closing'
  BY DEF Closing, WorkerFrame, WorkerTyped, Leaves, loopVars
<1> QED  BY <1>2, <1>5, <1>6, <1>7

\* The worker posts nothing.
LEMMA SilentKeeps ==
    ASSUME SessionInv, WorkerFrame, UNCHANGED <<worker, out>>, Leaves, WorkerTyped
    PROVE  SessionInv'
<1> USE DEF SessionInv
<1>1. TypeOK'
  BY DEF TypeOK, WorkerFrame, WorkerTyped, Leaves, loopVars, residentVars, Request
<1>2. Armed' /\ Disposed' /\ LastWord'
  BY DEF Armed, Disposed, LastWord, Open, WorkerFrame, loopVars, residentVars
<1>3. Closing'
  BY DEF Closing, WorkerFrame, Leaves, WorkerTyped, loopVars
<1> QED  BY <1>1, <1>2, <1>3

\* The reports of a comparison, followed by one message or by none.
PostsOne(is, msg) == \E ms \in Seq(Message) : Len(ms) = 1 /\ ms[1] = msg /\ Posts(is, ms)
PostsNone(is) == \E ms \in Seq(Message) : Len(ms) = 0 /\ Posts(is, ms)

\* What each step of the worker posts.
LEMMA WorkerPosts ==
    ASSUME TypeOK, Closing
    PROVE  /\ Reconcile => PostsOne(Input, Reply("start", TRUE))
           /\ Refresh => PostsOne({"listing"}, Reply(Head(inq).by, TRUE))
           /\ RefreshFails => PostsOne({}, Reply(Head(inq).by, FALSE))
           /\ Publish => \E ok \in {TRUE, ~Faults} :
                            PostsOne({}, Reply(Head(inq).by, ok))
           /\ AnswerIdle => PostsOne({}, Reply("settle", TRUE))
           /\ CloseTopology => \E ok \in BOOLEAN : PostsOne({}, Reply("close", ok))
           /\ WorkerExit \/ WorkerDies =>
                 \E clean \in BOOLEAN : PostsOne({}, [kind |-> "exit", clean |-> clean])
           /\ Decide => \E is \in SUBSET Input : base' = Stamped(is) /\ PostsNone(is)
<1>1. \A x \in Caller, ok \in BOOLEAN : Reply(x, ok) \in Message
  BY MessageFields
<1>2. \A m : Serves(m) => Head(inq).by \in Caller
  BY ServesFields
<1>3. ASSUME NEW is \in SUBSET Input, NEW msg \in Message, out' = out \o Reports(is) \o <<msg>>
      PROVE  PostsOne(is, msg)
  <2> DEFINE ms == <<msg>>
  <2>1. ms \in Seq(Message) /\ Len(ms) = 1 /\ ms[1] = msg /\ Posts(is, ms)
    BY <1>3 DEF Posts
  <2> HIDE DEF ms
  <2> QED  BY <2>1 DEF PostsOne
<1>4. ASSUME NEW msg \in Message, out' = Append(out, msg) PROVE PostsOne({}, msg)
  <2> DEFINE ms == <<msg>>
  <2>1. ms \in Seq(Message) /\ Len(ms) = 1 /\ ms[1] = msg /\ Posts({}, ms)
    BY <1>4, AppendPosts
  <2> HIDE DEF ms
  <2> QED  BY <2>1 DEF PostsOne
<1>5. ASSUME Reconcile PROVE PostsOne(Input, Reply("start", TRUE))
  <2> DEFINE msg == Reply("start", TRUE)
  <2>1. msg \in Message /\ out' = out \o Reports(Input) \o <<msg>>
    BY <1>1, <1>5, Domains DEF Reconcile
  <2> HIDE DEF msg
  <2>2. PostsOne(Input, msg)
    BY <1>3, <2>1
  <2> QED  BY <2>2 DEF msg
<1>6. ASSUME Refresh PROVE PostsOne({"listing"}, Reply(Head(inq).by, TRUE))
  <2> DEFINE msg == Reply(Head(inq).by, TRUE)
             is == {"listing"}
  <2>1. msg \in Message /\ is \in SUBSET Input /\ out' = out \o Reports(is) \o <<msg>>
    BY <1>1, <1>2, <1>6, Domains DEF Refresh
  <2> HIDE DEF msg, is
  <2>2. PostsOne(is, msg)
    BY <1>3, <2>1
  <2> QED  BY <2>2 DEF msg, is
<1>7. ASSUME RefreshFails PROVE PostsOne({}, Reply(Head(inq).by, FALSE))
  <2> DEFINE msg == Reply(Head(inq).by, FALSE)
  <2>1. msg \in Message /\ out' = Append(out, msg)
    BY <1>1, <1>2, <1>7 DEF RefreshFails
  <2> HIDE DEF msg
  <2>2. PostsOne({}, msg)
    BY <1>4, <2>1
  <2> QED  BY <2>2 DEF msg
<1>8. ASSUME Publish
      PROVE  \E ok \in {TRUE, ~Faults} :
                PostsOne({}, Reply(Head(inq).by, ok))
  <2>1. PICK ok \in {TRUE, ~Faults} :
           out' = Append(out, Reply(Head(inq).by, ok))
    BY <1>8 DEF Publish
  <2> DEFINE msg == Reply(Head(inq).by, ok)
  <2>2. msg \in Message /\ out' = Append(out, msg)
    BY <1>1, <1>2, <1>8, <2>1 DEF Publish
  <2> HIDE DEF msg
  <2>3. PostsOne({}, msg)
    BY <1>4, <2>2
  <2> QED  BY <2>3 DEF msg
<1>9. ASSUME AnswerIdle PROVE PostsOne({}, Reply("settle", TRUE))
  <2> DEFINE msg == Reply("settle", TRUE)
  <2>1. msg \in Message /\ out' = Append(out, msg)
    BY <1>1, <1>9, Domains DEF AnswerIdle
  <2> HIDE DEF msg
  <2>2. PostsOne({}, msg)
    BY <1>4, <2>1
  <2> QED  BY <2>2 DEF msg
<1>10. ASSUME CloseTopology PROVE \E ok \in BOOLEAN : PostsOne({}, Reply("close", ok))
  <2>1. PICK ok \in BOOLEAN : out' = Append(out, Reply("close", ok))
    BY <1>10 DEF CloseTopology
  <2> DEFINE msg == Reply("close", ok)
  <2>2. msg \in Message /\ out' = Append(out, msg)
    BY <1>1, <2>1, Domains
  <2> HIDE DEF msg
  <2>3. PostsOne({}, msg)
    BY <1>4, <2>2
  <2> QED  BY <2>3 DEF msg
<1>11. ASSUME WorkerExit \/ WorkerDies
       PROVE  \E clean \in BOOLEAN : PostsOne({}, [kind |-> "exit", clean |-> clean])
  <2>1. PICK clean \in BOOLEAN : out' = Append(out, [kind |-> "exit", clean |-> clean])
    BY <1>11 DEF WorkerExit, WorkerDies
  <2> DEFINE msg == [kind |-> "exit", clean |-> clean]
  <2>2. msg \in Message /\ out' = Append(out, msg)
    BY <2>1, MessageFields
  <2> HIDE DEF msg
  <2>3. PostsOne({}, msg)
    BY <1>4, <2>2
  <2> QED  BY <2>3 DEF msg
<1>12. ASSUME Decide PROVE \E is \in SUBSET Input : base' = Stamped(is) /\ PostsNone(is)
  <2>1. PICK is \in SUBSET Input : base' = Stamped(is) /\ out' = out \o Reports(is)
    BY <1>12 DEF Decide, TypeOK
  <2> DEFINE ms == <<>>
  <2>2. Posts(is, ms)
    <3>1. Reports(is) \in Seq(Message) /\ out \in Seq(Message)
      BY ReportsFields, Types
    <3>2. out \o Reports(is) \in Seq(Message)
      BY <3>1, ConcatProperties
    <3> QED  BY <2>1, <3>2, ConcatEmptySeq DEF Posts
  <2>3. Len(ms) = 0 /\ ms \in Seq(Message)
    OBVIOUS
  <2> HIDE DEF ms
  <2> QED  BY <2>1, <2>2, <2>3 DEF PostsNone
<1> QED  BY <1>5, <1>6, <1>7, <1>8, <1>9, <1>10, <1>11, <1>12

\* One message after the reports is all the worker says.
LEMMA Spoken ==
    ASSUME NEW is \in SUBSET Input
    PROVE  /\ PostsNone(is) => Speaks
           /\ \A msg : /\ PostsOne(is, msg) /\ msg.kind \in {"reply", "exit"}
                       /\ msg.kind = "exit" => worker' = "dead"
                       => Speaks
<1>1. ASSUME PostsNone(is) PROVE Speaks
  <2>1. PICK ms \in Seq(Message) : Len(ms) = 0 /\ Posts(is, ms)
    BY <1>1 DEF PostsNone
  <2>2. Len(ms) <= 1 /\ Len(ms) # 1
    BY <2>1
  <2> QED  BY <2>1, <2>2 DEF Speaks
<1>2. ASSUME NEW msg, PostsOne(is, msg), msg.kind \in {"reply", "exit"},
             msg.kind = "exit" => worker' = "dead"
      PROVE  Speaks
  <2>1. PICK ms \in Seq(Message) : Len(ms) = 1 /\ ms[1] = msg /\ Posts(is, ms)
    BY <1>2 DEF PostsOne
  <2>2. Len(ms) <= 1
    BY <2>1
  <2> QED  BY <1>2, <2>1, <2>2 DEF Speaks
<1> QED  BY <1>1, <1>2

\* Every step of the worker that posts does so in that form.
LEMMA WorkerSpeaks ==
    ASSUME TypeOK, Closing,
           \/ Reconcile \/ Refresh \/ RefreshFails \/ Publish \/ AnswerIdle \/ CloseTopology
           \/ WorkerExit \/ WorkerDies \/ Decide
    PROVE  Speaks
<1>1. \A x \in Caller, ok \in BOOLEAN : Reply(x, ok).kind = "reply"
  BY MessageFields
<1>2. \A m : Serves(m) => Head(inq).by \in Caller
  BY ServesFields
<1>3. {} \in SUBSET Input /\ {"listing"} \in SUBSET Input /\ Input \in SUBSET Input
  BY Domains
<1>4. \A is \in SUBSET Input : \A msg : PostsOne(is, msg) /\ msg.kind = "reply" => Speaks
  BY Spoken
<1>5. CASE Reconcile
  BY <1>1, <1>3, <1>4, <1>5, WorkerPosts, Domains
<1>6. CASE Refresh
  BY <1>1, <1>2, <1>3, <1>4, <1>6, WorkerPosts DEF Refresh
<1>7. CASE RefreshFails
  BY <1>1, <1>2, <1>3, <1>4, <1>7, WorkerPosts DEF RefreshFails
<1>8. CASE Publish
  BY <1>1, <1>2, <1>3, <1>4, <1>8, WorkerPosts DEF Publish
<1>9. CASE AnswerIdle
  BY <1>1, <1>3, <1>4, <1>9, WorkerPosts, Domains
<1>10. CASE CloseTopology
  BY <1>1, <1>3, <1>4, <1>10, WorkerPosts, Domains
<1>11. CASE WorkerExit \/ WorkerDies
  <2>1. PICK clean \in BOOLEAN : PostsOne({}, [kind |-> "exit", clean |-> clean])
    BY <1>11, WorkerPosts
  <2>2. [kind |-> "exit", clean |-> clean].kind = "exit" /\ worker' = "dead"
    BY <1>11 DEF WorkerExit, WorkerDies
  <2> QED  BY <1>3, <2>1, <2>2, Spoken
<1>12. CASE Decide
  BY <1>12, WorkerPosts, Spoken
<1> QED  BY <1>5, <1>6, <1>7, <1>8, <1>9, <1>10, <1>11, <1>12

\* A serving worker takes a request away.
LEMMA ServingLeaves ==
    ASSUME TypeOK, Closing, NEW m, Serves(m)
    PROVE  Leaves /\ worker # "dead" /\ Head(inq).by \in Caller /\ (m = "close" => closed)
<1>1. /\ 1 \in DOMAIN inq /\ Head(inq) = inq[1] /\ inq[1].m = m /\ inq[1].by \in Caller
      /\ inq' \in Seq(Request)
      /\ \A j \in DOMAIN inq' : j + 1 \in DOMAIN inq /\ inq'[j] = inq[j + 1]
  BY ServesFields DEF Request
<1> QED  BY <1>1 DEF Serves, Closing, Leaves

\* The queue of requests stays or is emptied.
LEMMA Staying ==
    ASSUME TypeOK
    PROVE  (inq' = inq => Leaves) /\ (inq' = <<>> => Leaves)
<1>1. inq \in Seq(Request)
  BY Types DEF Request
<1>2. inq' = <<>> => inq' \in Seq(Request) /\ \A j \in DOMAIN inq' : FALSE
  OBVIOUS
<1> QED  BY <1>1, <1>2 DEF Leaves

\* Each step of the worker.
LEMMA WorkerSteps ==
    ASSUME SessionInv, WorkerStep \/ RefreshFails \/ WorkerDies
    PROVE  SessionInv'
<1>0. TypeOK /\ Closing
  BY DEF SessionInv
<1>1. /\ worker \in {"up", "closing", "dead"} /\ (worker = "closing" => closed)
      /\ topo \in {"new", "register", "live"} /\ base \in Versions /\ idleAt \in Versions
      /\ owed \subseteq Input /\ noted \subseteq Input /\ barrier \in BOOLEAN
      /\ troubled \in BOOLEAN
  BY <1>0 DEF TypeOK, Closing
<1>2. \A is : Stamped(is) \in Versions
  BY <1>0, StampedTyped
<1>3. CASE FirstRefresh
  <2>1. Leaves
    BY <1>0, <1>3, ServingLeaves DEF FirstRefresh
  <2>2. WorkerTyped
    BY <1>1, <1>2, <1>3 DEF FirstRefresh, WorkerTyped
  <2> QED  BY <1>3, <2>1, <2>2, SilentKeeps DEF FirstRefresh
<1>4. CASE Reconcile
  <2>1. WorkerTyped
    BY <1>1, <1>2, <1>4 DEF Reconcile, WorkerTyped
  <2> QED  BY <1>0, <1>4, <2>1, Staying, WorkerSpeaks, SpeaksKeeps DEF Reconcile
<1>5. CASE Refresh
  <2>1. Leaves
    BY <1>0, <1>5, ServingLeaves DEF Refresh
  <2>2. WorkerTyped
    BY <1>1, <1>2, <1>5 DEF Refresh, WorkerTyped
  <2> QED  BY <1>0, <1>5, <2>1, <2>2, WorkerSpeaks, SpeaksKeeps DEF Refresh
<1>6. CASE RefreshFails \/ Publish
  <2>1. Leaves
    BY <1>0, <1>6, ServingLeaves DEF RefreshFails, Publish
  <2>2. WorkerTyped
    BY <1>1, <1>6 DEF RefreshFails, Publish, WorkerTyped
  <2> QED  BY <1>0, <1>6, <2>1, <2>2, WorkerSpeaks, SpeaksKeeps DEF RefreshFails, Publish
<1>7. CASE AwaitIdle
  <2>1. Leaves
    BY <1>0, <1>7, ServingLeaves DEF AwaitIdle
  <2>2. WorkerTyped
    BY <1>1, <1>7 DEF AwaitIdle, WorkerTyped
  <2> QED  BY <1>7, <2>1, <2>2, SilentKeeps DEF AwaitIdle
<1>8. CASE AnswerIdle
  <2>1. WorkerTyped
    BY <1>1, <1>8 DEF AnswerIdle, WorkerTyped
  <2> QED  BY <1>0, <1>8, <2>1, Staying, WorkerSpeaks, SpeaksKeeps DEF AnswerIdle
<1>9. CASE CloseTopology
  <2>1. Leaves /\ closed
    BY <1>0, <1>9, ServingLeaves DEF CloseTopology
  <2>2. WorkerTyped
    BY <1>1, <1>9, <2>1 DEF CloseTopology, WorkerTyped
  <2> QED  BY <1>0, <1>9, <2>1, <2>2, WorkerSpeaks, SpeaksKeeps DEF CloseTopology
<1>10. CASE WorkerExit \/ WorkerDies
  <2>1. WorkerTyped
    BY <1>1, <1>10 DEF WorkerExit, WorkerDies, WorkerTyped
  <2> QED  BY <1>0, <1>10, <2>1, Staying, WorkerSpeaks, SpeaksKeeps DEF WorkerExit, WorkerDies
<1>11. CASE Decide
  <2>1. WorkerTyped
    BY <1>1, <1>2, <1>11 DEF Decide, WorkerTyped
  <2> QED  BY <1>0, <1>11, <2>1, Staying, WorkerSpeaks, SpeaksKeeps DEF Decide
<1>12. ASSUME NEW i \in Input, Notify(i) PROVE SessionInv'
  <2>1. WorkerTyped
    BY <1>1, <1>12 DEF Notify, WorkerTyped
  <2> QED  BY <1>0, <1>12, <2>1, Staying, SilentKeeps DEF Notify
<1> QED  BY <1>3, <1>4, <1>5, <1>6, <1>7, <1>8, <1>9, <1>10, <1>11, <1>12
         DEF WorkerStep

\* The launcher's sequence of typed values: its answers and its cycles.
LEMMA LoopTypes ==
    ASSUME TypeOK
    PROVE  /\ answer \in [Caller -> Status] /\ settle \in Settling
           /\ cyc \in [Cycle -> CycleState]
           /\ \A c \in Cycle :
                 /\ cyc[c] \in CycleState /\ cyc[c].entry \in 1 .. Entries + 1
                 /\ cyc[c].st \in {"off", "begin", "publish", "check", "refresh"}
                 /\ cyc[c].change \subseteq {"source", "reload"}
                 /\ cyc[c].valid \in BOOLEAN /\ cyc[c].at \in Versions
           /\ buf \in [Entry -> {"none", "empty", "changed"}]
           /\ prog \in [Entry -> Versions \cup {Cold}]
BY DEF TypeOK, Status, Settling, CycleState

\* A cycle comes to another stage.
LEMMA StageTyped ==
    ASSUME TypeOK, NEW c \in Cycle, NEW st \in {"begin", "publish", "check", "refresh"},
           cyc' = [cyc EXCEPT ![c].st = st]
    PROVE  /\ cyc' \in [Cycle -> CycleState] /\ cyc'[c].st = st
           /\ \A d \in Cycle : d # c => cyc'[d] = cyc[d]
<1> DEFINE r == [cyc[c] EXCEPT !.st = st]
<1>1. r \in CycleState /\ r.st = st
  BY LoopTypes DEF CycleState
<1>2. cyc' = [cyc EXCEPT ![c] = r] /\ cyc \in [Cycle -> CycleState]
  BY LoopTypes
<1> HIDE DEF r
<1> QED  BY <1>1, <1>2

\* TypeOK in terms of the sets named above.
LEMMA TypeFolded ==
    TypeOK' <=>
        /\ {disk', base', heard', idleAt', cover'} \subseteq Versions
        /\ worker' \in {"up", "closing", "dead"}
        /\ topo' \in {"new", "register", "live"}
        /\ owed' \subseteq Input /\ noted' \subseteq Input
        /\ inq' \in Seq(Request) /\ out' \in Seq(Message)
        /\ answer' \in [Caller -> Status]
        /\ {barrier', failed', exited', closed', running', rerun', timer', done', selected',
            retiring', troubled', overlapped', missed'} \subseteq BOOLEAN
        /\ orphans' \in 0 .. 2 /\ note' \subseteq {"source", "reload"}
        /\ cyc' \in [Cycle -> CycleState]
        /\ {active', joined'} \subseteq Cycle \cup {NoCycle}
        /\ settle' \in Settling
        /\ buf' \in [Entry -> {"none", "empty", "changed"}]
        /\ prog' \in [Entry -> Versions \cup {Cold}]
BY DEF TypeOK, Status, Settling, CycleState, Request

\* An input changes.
LEMMA EditKeeps ==
    ASSUME SessionInv, NEW i \in Input, Edit(i)
    PROVE  SessionInv'
<1> USE DEF SessionInv
<1>1. disk' \in Versions
  <2>1. disk \in Versions /\ disk["source"] + disk["listing"] < MaxEdits
    BY Types DEF Edit
  <2>2. \A k \in Input : disk[k] \in Nat /\ disk[k] <= MaxEdits
    BY <2>1, MaxEditsAssumption DEF Versions, Version
  <2>3. disk[i] + 1 \in Version
    BY <2>1, <2>2, Domains, MaxEditsAssumption DEF Version
  <2> QED  BY <2>1, <2>3 DEF Edit, Versions
<1>2. owed' \subseteq Input
  BY DEF Edit, TypeOK
<1>3. TypeOK'
  BY <1>1, <1>2 DEF TypeOK, Edit, loopVars, residentVars, history
<1>4. Armed' /\ LastWord' /\ Closing' /\ Disposed'
  BY DEF Edit, Armed, LastWord, Closing, Disposed, Open, loopVars, residentVars
<1> QED  BY <1>3, <1>4

\* The session is closed: everything is disposed and the worker is asked to close.
LEMMA ShutdownKeeps ==
    ASSUME SessionInv, ~closed, NEW ans \in [Caller -> Status], NEW s \in Settling,
           NEW lost \in BOOLEAN, Shutdown(ans, s, lost), QueueFrame, UNCHANGED history,
           ans["start"] # "none" => answer["start"] # "none",
           out' \in Seq(Message), failed' \in BOOLEAN, exited' \in BOOLEAN, LastWord'
    PROVE  SessionInv'
<1> USE DEF SessionInv
<1>1. inq' \in Seq(Request) /\
      \A j \in DOMAIN inq' : \/ j \in DOMAIN inq /\ inq'[j] = inq[j]
                             \/ inq'[j].m = "close" /\ inq'[j].by = "close"
  <2>1. inq \in Seq(Request)
    BY Types DEF Request
  <2>2. CASE inq' = inq
    BY <2>1, <2>2
  <2>3. CASE inq' = Append(inq, [m |-> "close", by |-> "close"])
    BY <2>3, SendFields, Domains DEF Request
  <2> QED  BY <2>2, <2>3 DEF Shutdown
<1>2. answer' \in [Caller -> Status] /\ answer'["start"] = ans["start"]
  BY Domains DEF Shutdown, Status
<1>3. selected' = FALSE /\ \A e \in Entry : prog'[e] = Cold
  BY DEF Shutdown, Reset
<1>4. /\ buf' \in [Entry -> {"none", "empty", "changed"}] /\ prog' \in [Entry -> Versions \cup {Cold}]
      /\ retiring' \in BOOLEAN
  BY DEF Shutdown, Reset, TypeOK
<1>5. settle' \in Settling /\ cyc' \in [Cycle -> CycleState]
  BY ChangedFields, LoopTypes DEF Shutdown
<1>6. TypeOK'
  <2>1. /\ {disk', base', heard', idleAt', cover'} \subseteq Versions
        /\ worker' \in {"up", "closing", "dead"} /\ topo' \in {"new", "register", "live"}
        /\ owed' \subseteq Input /\ noted' \subseteq Input
    BY DEF TypeOK, QueueFrame, history
  <2>2. {barrier', running', rerun', selected', troubled', overlapped', missed'} \subseteq BOOLEAN
    BY <1>3 DEF TypeOK, Shutdown, QueueFrame, history
  <2>3. /\ {closed', timer', done'} \subseteq BOOLEAN
        /\ orphans' \in 0 .. 2 /\ note' \subseteq {"source", "reload"}
        /\ {active', joined'} \subseteq Cycle \cup {NoCycle}
    BY DEF TypeOK, Shutdown
  <2> QED  BY <1>1, <1>2, <1>4, <1>5, <2>1, <2>2, <2>3, TypeFolded
<1>7. Armed'
  BY <1>2 DEF Armed, Shutdown
<1>8. Closing'
  BY <1>1 DEF Closing, Shutdown
<1>9. Disposed'
  BY <1>3 DEF Disposed, Open, Shutdown
<1> QED  BY <1>6, <1>7, <1>8, <1>9

\* A signal.
LEMMA SignalKeeps ==
    ASSUME SessionInv, Signal
    PROVE  SessionInv'
<1>1. answer \in [Caller -> Status] /\ settle \in Settling
  BY LoopTypes DEF SessionInv
<1>2. ~closed /\ failed \in BOOLEAN /\ exited \in BOOLEAN /\ out \in Seq(Message)
  BY DEF SessionInv, TypeOK, Signal
<1>3. LastWord'
  BY <1>2 DEF SessionInv, LastWord, Signal, QueueFrame
<1> QED  BY <1>1, <1>2, <1>3, ShutdownKeeps DEF Signal

\* A report is handled.
LEMMA OnEventKeeps ==
    ASSUME SessionInv, OnEvent
    PROVE  SessionInv'
<1> USE DEF SessionInv
<1> DEFINE msg == Head(out)
           i == IF msg.kind = "input" THEN "source" ELSE "listing"
<1>1. /\ msg \in Message /\ msg.kind \in {"input", "topology"} /\ out' = Tail(out)
      /\ heard' = [heard EXCEPT ![i] = msg.saw] /\ out # <<>>
  BY TakesFields DEF OnEvent
<1>2. msg.saw \in Version /\ i \in Input
  BY <1>1, MessageFields, Domains
<1> HIDE DEF msg, i
<1>3. heard' \in Versions
  BY <1>1, <1>2, Types DEF Versions
<1>4. /\ out' \in Seq(Message) /\ Len(out') = Len(out) - 1 /\ DOMAIN out' = 1 .. Len(out')
      /\ Len(out) \in Nat
      /\ \A j \in DOMAIN out' : j + 1 \in DOMAIN out /\ out'[j] = out[j + 1]
  BY <1>1, TakesFields, Types
<1>5. /\ note' \subseteq {"source", "reload"} /\ settle' \in Settling
      /\ rerun' \in BOOLEAN /\ timer' \in BOOLEAN
  <2>1. /\ note \subseteq {"source", "reload"} /\ settle \in Settling /\ rerun \in BOOLEAN
        /\ timer \in BOOLEAN /\ running \in BOOLEAN
    BY LoopTypes DEF TypeOK
  <2>2. CASE closed
    BY <2>1, <2>2 DEF OnEvent
  <2>3. CASE ~closed
    <3>1. note' \in {{"reload"}, note, note \cup {"source"}}
      BY <2>3 DEF OnEvent
    <3>2. settle' = Changed(settle) /\ rerun' = (rerun \/ running) /\ timer' = (timer \/ ~running)
      BY <2>3 DEF OnEvent
    <3> QED  BY <2>1, <3>1, <3>2, ChangedFields
  <2> QED  BY <2>2, <2>3
<1>6. TypeOK'
  BY <1>3, <1>4, <1>5, TypeFolded, LoopTypes
     DEF TypeOK, OnEvent, QueueFrame, residentVars, Request
<1>7. LastWord'
  BY <1>4 DEF LastWord, OnEvent, QueueFrame
<1>8. Armed' /\ Closing' /\ Disposed'
  BY DEF Armed, Closing, Disposed, Open, OnEvent, QueueFrame, residentVars
<1> QED  BY <1>6, <1>7, <1>8

\* A reply is handled.
LEMMA OnReplyKeeps ==
    ASSUME SessionInv, OnReply
    PROVE  SessionInv'
<1> USE DEF SessionInv
<1> DEFINE msg == Head(out)
<1>1. out # <<>> /\ msg \in Message /\ msg.kind = "reply" /\ out' = Tail(out)
  BY TakesFields DEF OnReply
<1>2. /\ answer' \in [Caller -> Status]
      /\ \A x \in Caller : answer'[x] # "none" => answer[x] # "none"
      /\ \A x \in Caller : answer'[x] = "wait" => answer[x] = "wait"
  BY <1>1, LoopTypes, MessageFields DEF OnReply, Status
<1>3. /\ out' \in Seq(Message) /\ Len(out') = Len(out) - 1 /\ DOMAIN out' = 1 .. Len(out')
      /\ Len(out) \in Nat
      /\ \A j \in DOMAIN out' : j + 1 \in DOMAIN out /\ out'[j] = out[j + 1]
  BY <1>1, TakesFields, Types
<1>4. TypeOK'
  BY <1>2, <1>3, TypeFolded, LoopTypes
     DEF TypeOK, OnReply, QueueFrame, residentVars, loopVars, history, Request
<1>5. LastWord'
  BY <1>2, <1>3 DEF LastWord, OnReply, QueueFrame, loopVars
<1>6. Armed' /\ Closing'
  BY <1>2, Domains DEF Armed, Closing, OnReply, QueueFrame, loopVars
<1>7. Disposed'
  BY DEF Disposed, Open, OnReply, QueueFrame, loopVars, residentVars
<1> QED  BY <1>4, <1>5, <1>6, <1>7

\* The worker's exit is handled.
LEMMA OnExitKeeps ==
    ASSUME SessionInv, OnExit
    PROVE  SessionInv'
<1> USE DEF SessionInv
<1> DEFINE msg == Head(out)
           fails == ~failed /\ (~closed \/ ~msg.clean
                                \/ \E x \in Caller : answer[x] = "wait")
           rejected == [x \in Caller |-> IF fails /\ answer[x] = "wait"
                                         THEN "err" ELSE answer[x]]
<1>1. /\ out # <<>> /\ out' = Tail(out) /\ out[1] = msg /\ out[1].kind = "exit"
      /\ 1 \in DOMAIN out /\ Len(out) \in Nat
      /\ out' \in Seq(Message) /\ Len(out') = Len(out) - 1 /\ DOMAIN out' = 1 .. Len(out')
  BY TakesFields, Types DEF OnExit
<1>2. worker = "dead" /\ ~exited /\ ~failed /\ Len(out) = 1
  BY <1>1 DEF LastWord
<1>3. /\ exited' = TRUE /\ failed' = (failed \/ fails)
      /\ IF closed THEN NoShutdown(rejected, settle) ELSE Shutdown(rejected, settle, TRUE)
      /\ UNCHANGED history /\ QueueFrame
  BY DEF OnExit
<1>4. rejected \in [Caller -> Status] /\ \A x \in Caller :
         /\ rejected[x] # "wait" /\ (rejected[x] # "none" => answer[x] # "none")
  BY <1>2, LoopTypes DEF Status
<1>5. DOMAIN out' = {}
  BY <1>1, <1>2
<1> HIDE DEF rejected, msg
<1>6. failed' \in BOOLEAN
  BY <1>2, <1>3
<1> HIDE DEF fails
<1>7. CASE ~closed
  <2>1. LastWord'
    BY <1>2, <1>3, <1>4, <1>5, <1>7 DEF LastWord, Shutdown, QueueFrame
  <2> QED  BY <1>1, <1>3, <1>4, <1>6, <1>7, <2>1, LoopTypes, ShutdownKeeps, Domains
<1>8. CASE closed
  <2>1. NoShutdown(rejected, settle)
    BY <1>3, <1>8
  <2>2. LastWord'
    BY <1>2, <1>3, <1>4, <1>5, <1>8, <2>1 DEF LastWord, NoShutdown, QueueFrame, loopVars
  <2>3. TypeOK'
    BY <1>1, <1>3, <1>4, <1>6, <2>1, TypeFolded, LoopTypes
       DEF TypeOK, NoShutdown, QueueFrame, residentVars, loopVars, history, Request
  <2>4. Armed' /\ Closing'
    BY <1>3, <1>4, <1>8, <2>1, Domains DEF Armed, Closing, NoShutdown, QueueFrame, loopVars
  <2>5. Disposed'
    BY <1>3, <1>8, <2>1 DEF Disposed, Open, NoShutdown, QueueFrame, loopVars, residentVars
  <2> QED  BY <2>2, <2>3, <2>4, <2>5
<1> QED  BY <1>7, <1>8

\* request() rejects at once or sends.
LEMMA AsksFields ==
    ASSUME SessionInv, NEW ans \in [Caller -> Status], NEW x \in Caller,
           NEW m \in {"refresh", "publish", "idle", "close"}, Asks(ans, x, m)
    PROVE  /\ answer' \in [Caller -> Status] /\ \A y \in Caller : y # x => answer'[y] = ans[y]
           /\ answer'[x] \in {"wait", "err"} /\ (answer'[x] = "wait" <=> ~failed /\ ~closed)
           /\ inq' \in Seq(Request)
           /\ \A j \in DOMAIN inq' : \/ j \in DOMAIN inq /\ inq'[j] = inq[j]
                                     \/ inq'[j].m = m /\ inq'[j].by = x
<1> USE DEF SessionInv
<1>1. /\ answer' \in [Caller -> Status] /\ \A y \in Caller : y # x => answer'[y] = ans[y]
      /\ answer'[x] \in {"wait", "err"} /\ (answer'[x] = "wait" <=> ~failed /\ ~closed)
  BY DEF Asks, Status
<1>2. inq \in Seq(Request)
  BY Types DEF Request
<1>3. CASE inq' = inq
  BY <1>1, <1>2, <1>3
<1>4. CASE inq' = Append(inq, [m |-> m, by |-> x])
  <2>1. inq' \in Seq(Request)
    BY <1>4, SendFields DEF Request
  <2>2. \A j \in DOMAIN inq' : \/ j \in DOMAIN inq /\ inq'[j] = inq[j]
                               \/ inq'[j].m = m /\ inq'[j].by = x
    BY <1>4, SendFields
  <2> QED  BY <1>1, <2>1, <2>2
<1> QED  BY <1>3, <1>4 DEF Asks

\* A cycle has ended.
LEMMA EndsFields ==
    ASSUME TypeOK, NEW c \in Cycle, Ends(c) \/ Throws(c)
    PROVE  /\ cyc' = [cyc EXCEPT ![c] = Off] /\ cyc' \in [Cycle -> CycleState]
           /\ cyc'[c] = Off /\ \A d \in Cycle : d # c => cyc'[d] = cyc[d]
           /\ running' = FALSE /\ rerun' \in BOOLEAN /\ timer' \in BOOLEAN
           /\ settle' \in Settling /\ cover' \in Versions
           /\ Throws(c) => missed' \in BOOLEAN
<1>1. cyc' = [cyc EXCEPT ![c] = Off] /\ running' = FALSE
  BY DEF Ends, Throws
<1>2. cyc' \in [Cycle -> CycleState] /\ cyc'[c] = Off /\ \A d \in Cycle : d # c => cyc'[d] = cyc[d]
  BY <1>1, LoopTypes, OffTyped
<1>3. rerun' \in BOOLEAN /\ timer' \in BOOLEAN
  BY DEF Ends, Throws, TypeOK
<1>4. settle' \in Settling
  BY ChangedFields, LoopTypes DEF Ends, Throws
<1>5. cover' \in Versions
  <2>1. cover \in Versions /\ cyc[c].at \in Versions
    BY Types, LoopTypes
  <2> QED  BY <2>1 DEF Ends, Throws, Versions
<1>6. Throws(c) => missed' \in BOOLEAN
  BY DEF Throws, TypeOK
<1> QED  BY <1>1, <1>2, <1>3, <1>4, <1>5, <1>6

\* A cycle resets the session.
ResetTo(c, change) ==
    /\ cyc' \in [Cycle -> CycleState]
    /\ cyc'[c].st = "begin" /\ cyc'[c].change = change /\ cyc'[c].valid = cyc[c].valid
    /\ cyc'[c].at = cyc[c].at
    /\ \A d \in Cycle : d # c =>
          /\ cyc'[d].st = cyc[d].st /\ cyc'[d].at = cyc[d].at /\ cyc'[d].change = cyc[d].change
          /\ cyc'[d].valid => cyc[d].st = "off"
          /\ cyc[d].st = "off" => cyc'[d].valid
    /\ selected' = FALSE /\ buf' = [e \in Entry |-> "none"]
    /\ prog' = [e \in Entry |-> Cold] /\ retiring' = (retiring \/ selected)

\* ResetBy does what ResetTo says.
LEMMA ResetByFields ==
    ASSUME TypeOK, NEW c \in Cycle, NEW change \in SUBSET {"source", "reload"},
           ResetBy(c, change)
    PROVE  ResetTo(c, change)
<1>1. cyc[c] \in CycleState /\ \A d \in Cycle : cyc[d] \in CycleState
  BY LoopTypes
<1> DEFINE n == [cyc[c] EXCEPT !.st = "begin", !.change = change]
           o(d) == [cyc[d] EXCEPT !.valid = cyc[d].st = "off"]
<1>2. /\ n \in CycleState /\ n.st = "begin" /\ n.change = change /\ n.valid = cyc[c].valid
      /\ n.at = cyc[c].at
  BY <1>1 DEF CycleState
<1>3. \A d \in Cycle : /\ o(d) \in CycleState /\ o(d).st = cyc[d].st /\ o(d).at = cyc[d].at
                       /\ o(d).change = cyc[d].change /\ o(d).valid = (cyc[d].st = "off")
  BY <1>1 DEF CycleState
<1>4. cyc' = [d \in Cycle |-> IF d = c THEN n ELSE o(d)]
  BY DEF ResetBy
<1> HIDE DEF n, o
<1>5. cyc' \in [Cycle -> CycleState] /\ cyc'[c] = n /\ \A d \in Cycle : d # c => cyc'[d] = o(d)
  BY <1>2, <1>3, <1>4
<1>6. /\ selected' = FALSE /\ buf' = [e \in Entry |-> "none"]
      /\ prog' = [e \in Entry |-> Cold] /\ retiring' = (retiring \/ selected)
  BY DEF ResetBy, Reset
<1> QED  BY <1>2, <1>3, <1>5, <1>6 DEF ResetTo

\* What a step of a cycle may do.
CycleTyped ==
    /\ answer' \in [Caller -> Status] /\ inq' \in Seq(Request)
    /\ cyc' \in [Cycle -> CycleState]
    /\ {running', rerun', timer', selected', retiring', missed'} \subseteq BOOLEAN
    /\ settle' \in Settling /\ cover' \in Versions
    /\ buf' \in [Entry -> {"none", "empty", "changed"}]
    /\ prog' \in [Entry -> Versions \cup {Cold}]

\* It asks the worker nothing but what its own state says, and while open only.
CycleAsks ==
    /\ \A x \in Caller : answer'[x] = "wait" => answer[x] = "wait" \/ ~closed
    /\ \A x \in {"start", "close"} : answer'[x] = answer[x]
    /\ \A j \in DOMAIN inq' : \/ j \in DOMAIN inq /\ inq'[j] = inq[j]
                              \/ inq'[j].m \in {"publish", "refresh"} /\ inq'[j].by \in Cycle

\* A step of a cycle keeps the bookkeeping of selections in order.
LEMMA CycleKeeps ==
    ASSUME SessionInv, CycleFrame, CycleTyped, CycleAsks,
           closed => ~selected', ~selected' => \A e \in Entry : prog'[e] = Cold,
           \A d \in Cycle : cyc'[d].st = "check" /\ cyc'[d].valid /\ ~closed => selected',
           \A d \in Cycle : cyc[d].st = "off" => cyc'[d].st = "off"
    PROVE  SessionInv'
<1> USE DEF SessionInv
<1>1. TypeOK'
  BY TypeFolded, LoopTypes DEF TypeOK, CycleTyped, CycleFrame, QueueFrame
<1>2. LastWord'
  BY DEF LastWord, CycleFrame, QueueFrame, CycleAsks
<1>3. Armed'
  BY DEF Armed, CycleFrame, CycleAsks
<1>4. Closing'
  BY Domains DEF Closing, CycleFrame, QueueFrame, CycleAsks
<1>5. Disposed'
  <2>1. done' = done /\ closed' = closed /\ exited' = exited /\ joined' = joined
    BY DEF CycleFrame
  <2>2. joined \in Cycle \cup {NoCycle}
    BY DEF TypeOK
  <2> QED  BY <2>1, <2>2 DEF Disposed, Open
<1> QED  BY <1>1, <1>2, <1>3, <1>4, <1>5

\* A cycle begins its work.
LEMMA BeginKeeps ==
    ASSUME SessionInv, NEW c \in Cycle, Begin(c)
    PROVE  SessionInv'
<1> USE DEF SessionInv
<1>0. CycleFrame
  BY DEF Begin
<1>1. /\ answer \in [Caller -> Status] /\ inq \in Seq(Request) /\ cyc \in [Cycle -> CycleState]
      /\ {running, rerun, timer, selected, retiring, missed} \subseteq BOOLEAN
      /\ settle \in Settling /\ cover \in Versions
      /\ buf \in [Entry -> {"none", "empty", "changed"}]
      /\ prog \in [Entry -> Versions \cup {Cold}]
      /\ cyc[c].change \subseteq {"source", "reload"} /\ c \in Caller
  BY LoopTypes, Types, Domains DEF TypeOK, Request
<1>2. CASE Throws(c) /\ UNCHANGED <<answer, inq, residentVars>>
  <2>1. CycleTyped /\ CycleAsks
    BY <1>1, <1>2, EndsFields DEF CycleTyped, CycleAsks, residentVars
  <2>2. \A d \in Cycle : cyc'[d] = cyc[d] \/ cyc'[d].st = "off"
    BY <1>2, EndsFields, OffTyped
  <2> QED  BY <1>0, <1>2, <2>1, <2>2, CycleKeeps DEF Disposed, Open, residentVars
<1>3. CASE /\ Open(c) /\ ResetBy(c, cyc[c].change \ {"reload"})
           /\ cyc[c].st = "begin" /\ Continues /\ UNCHANGED <<answer, inq>>
  <2> DEFINE ch == cyc[c].change \ {"reload"}
  <2>1. ResetBy(c, ch) /\ ch \in SUBSET {"source", "reload"}
    BY <1>1, <1>3
  <2> HIDE DEF ch
  <2>2. ResetTo(c, ch)
    BY <2>1, ResetByFields
  <2>3. CycleTyped /\ CycleAsks
    BY <1>1, <1>3, <2>2 DEF CycleTyped, CycleAsks, Continues, ResetTo
  <2>4. /\ ~selected' /\ \A e \in Entry : prog'[e] = Cold
        /\ \A d \in Cycle : cyc'[d].st = "check" => ~cyc'[d].valid
        /\ \A d \in Cycle : cyc[d].st = "off" => cyc'[d].st = "off"
    BY <1>3, <2>2 DEF ResetTo
  <2> QED  BY <1>0, <2>3, <2>4, CycleKeeps
<1>4. CASE /\ Asks(answer, c, "publish") /\ cyc[c].st = "begin"
           /\ cyc' = [cyc EXCEPT ![c].st = "publish"]
           /\ Continues /\ UNCHANGED residentVars
  <2>1. /\ cyc' \in [Cycle -> CycleState] /\ cyc'[c].st = "publish"
        /\ \A d \in Cycle : d # c => cyc'[d] = cyc[d]
    BY <1>4, StageTyped
  <2>2. /\ answer' \in [Caller -> Status] /\ \A y \in Caller : y # c => answer'[y] = answer[y]
        /\ (answer'[c] = "wait" <=> ~failed /\ ~closed)
        /\ inq' \in Seq(Request)
        /\ \A j \in DOMAIN inq' : \/ j \in DOMAIN inq /\ inq'[j] = inq[j]
                                  \/ inq'[j].m = "publish" /\ inq'[j].by = c
    BY <1>1, <1>4, AsksFields
  <2>3. CycleTyped
    BY <1>1, <1>4, <2>1, <2>2 DEF CycleTyped, Continues, residentVars
  <2>4. CycleAsks
    BY <2>2, Domains DEF CycleAsks
  <2> QED  BY <1>0, <1>4, <2>1, <2>3, <2>4, CycleKeeps DEF Disposed, Open, residentVars
<1> QED  BY <1>2, <1>3, <1>4 DEF Begin

\* The publication of a cycle is answered.
LEMMA PublishedKeeps ==
    ASSUME SessionInv, NEW c \in Cycle, Published(c)
    PROVE  SessionInv'
<1> USE DEF SessionInv
<1>0. CycleFrame /\ answer' = [answer EXCEPT ![c] = "none"] /\ inq' = inq /\ cyc[c].st = "publish"
  BY DEF Published
<1>1. /\ answer' \in [Caller -> Status] /\ inq \in Seq(Request) /\ cyc \in [Cycle -> CycleState]
      /\ {running, rerun, timer, selected, retiring, missed} \subseteq BOOLEAN
      /\ settle \in Settling /\ cover \in Versions
      /\ buf \in [Entry -> {"none", "empty", "changed"}]
      /\ prog \in [Entry -> Versions \cup {Cold}]
  BY <1>0, LoopTypes, Types DEF TypeOK, Request, Status
<1>2. CycleAsks
  BY <1>0, LoopTypes, Domains DEF CycleAsks
<1>3. CASE Throws(c) /\ UNCHANGED residentVars
  <2>1. CycleTyped
    BY <1>0, <1>1, <1>3, EndsFields DEF CycleTyped, residentVars
  <2>2. \A d \in Cycle : cyc'[d] = cyc[d] \/ cyc'[d].st = "off"
    BY <1>3, EndsFields, OffTyped
  <2> QED  BY <1>0, <1>2, <1>3, <2>1, <2>2, CycleKeeps DEF Disposed, Open, residentVars
<1>4. CASE ResetBy(c, {}) /\ Continues
  <2>1. ResetTo(c, {})
    BY <1>4, ResetByFields
  <2>2. CycleTyped
    BY <1>0, <1>1, <1>4, <2>1 DEF CycleTyped, Continues, ResetTo
  <2>3. /\ ~selected' /\ \A e \in Entry : prog'[e] = Cold
        /\ \A d \in Cycle : cyc'[d].st = "check" => ~cyc'[d].valid
        /\ \A d \in Cycle : cyc[d].st = "off" => cyc'[d].st = "off"
    BY <1>0, <2>1 DEF ResetTo
  <2> QED  BY <1>0, <1>2, <2>2, <2>3, CycleKeeps
<1>5. CASE /\ Open(c) /\ selected' = TRUE
           /\ buf' = [e \in Entry |->
                        IF "source" \in cyc[c].change \/ buf[e] = "changed"
                        THEN "changed" ELSE "empty"]
           /\ cyc' = [cyc EXCEPT ![c].st = "check", ![c].entry = 1]
           /\ Continues /\ UNCHANGED <<prog, retiring>>
  <2>1. cyc' \in [Cycle -> CycleState] /\ \A d \in Cycle : d # c => cyc'[d] = cyc[d]
    <3> DEFINE n == [cyc[c] EXCEPT !.st = "check", !.entry = 1]
    <3>1. n \in CycleState
      <4>1. cyc[c] \in CycleState /\ 1 \in 1 .. Entries + 1
        BY LoopTypes, Domains
      <4> QED  BY <4>1 DEF CycleState
    <3>2. cyc' = [cyc EXCEPT ![c] = n]
      BY <1>1, <1>5
    <3> HIDE DEF n
    <3> QED  BY <1>1, <3>1, <3>2
  <2>2. CycleTyped
    BY <1>0, <1>1, <1>5, <2>1 DEF CycleTyped, Continues
  <2> QED  BY <1>0, <1>2, <1>5, <2>1, <2>2, CycleKeeps DEF Disposed, Open
<1> QED  BY <1>3, <1>4, <1>5 DEF Published

\* What an entry's check leaves in the sidecar's Program.
LEMMA AppliedTyped ==
    ASSUME TypeOK, NEW e \in Entry
    PROVE  Applied(e) \in Versions \cup {Cold}
<1>1. disk \in Versions /\ prog[e] \in Versions \cup {Cold}
  BY Types, LoopTypes
<1>2. CASE prog[e] = Cold
  BY <1>1, <1>2 DEF Applied
<1>3. CASE prog[e] # Cold
  <2>1. prog[e] \in Versions
    BY <1>1, <1>3
  <2>2. [prog[e] EXCEPT !["source"] = disk["source"]] \in Versions
    BY <1>1, <2>1, Domains DEF Versions
  <2> QED  BY <1>3, <2>1, <2>2 DEF Applied
<1> QED  BY <1>2, <1>3

\* An entry is checked.
LEMMA AskKeeps ==
    ASSUME SessionInv, NEW c \in Cycle, Ask(c)
    PROVE  SessionInv'
<1> USE DEF SessionInv
<1> DEFINE e == cyc[c].entry
<1>0. /\ CycleFrame /\ Continues /\ UNCHANGED <<selected, answer, inq>>
      /\ cyc[c].st = "check" /\ e \in Entry /\ Open(c) /\ selected
  BY LoopTypes, EntriesAssumption DEF Ask, Entry, Disposed
<1>1. /\ answer \in [Caller -> Status] /\ inq \in Seq(Request) /\ cyc \in [Cycle -> CycleState]
      /\ {running, rerun, timer, selected, retiring, missed} \subseteq BOOLEAN
      /\ settle \in Settling /\ cover \in Versions
      /\ buf \in [Entry -> {"none", "empty", "changed"}]
      /\ prog \in [Entry -> Versions \cup {Cold}]
  BY LoopTypes, Types DEF TypeOK, Request
<1>2. PICK n \in 1 .. Entries + 1 : cyc' = [cyc EXCEPT ![c].entry = n]
  BY <1>0, Domains DEF Ask
<1>3. cyc' \in [Cycle -> CycleState]
  <2> DEFINE r == [cyc[c] EXCEPT !.entry = n]
  <2>1. r \in CycleState
    BY LoopTypes DEF CycleState
  <2>2. cyc' = [cyc EXCEPT ![c] = r]
    BY <1>1, <1>2
  <2> HIDE DEF r
  <2> QED  BY <1>1, <2>1, <2>2
<1>4. PICK p \in Versions \cup {Cold} : prog' = [prog EXCEPT ![e] = p]
  BY <1>0, AppliedTyped DEF Ask
<1>5. buf' = [buf EXCEPT ![e] = "none"] /\ retiring' \in BOOLEAN
  BY <1>1 DEF Ask
<1> HIDE DEF e
<1>6. CycleTyped
  BY <1>0, <1>1, <1>3, <1>4, <1>5 DEF CycleTyped, Continues
<1>7. CycleAsks
  BY <1>0, <1>1 DEF CycleAsks
<1>8. \A d \in Cycle : cyc'[d].st = cyc[d].st
  BY <1>1, <1>2 DEF CycleState
<1> QED  BY <1>0, <1>6, <1>7, <1>8, CycleKeeps DEF Open

\* The checks of a cycle are over.
LEMMA CheckedKeeps ==
    ASSUME SessionInv, NEW c \in Cycle, Checked(c)
    PROVE  SessionInv'
<1> USE DEF SessionInv
<1>0. CycleFrame /\ UNCHANGED residentVars /\ cyc[c].st = "check" /\ c \in Caller
  BY Domains DEF Checked
<1>1. /\ answer \in [Caller -> Status] /\ inq \in Seq(Request) /\ cyc \in [Cycle -> CycleState]
      /\ {running, rerun, timer, selected, retiring, missed} \subseteq BOOLEAN
      /\ settle \in Settling /\ cover \in Versions
      /\ buf \in [Entry -> {"none", "empty", "changed"}]
      /\ prog \in [Entry -> Versions \cup {Cold}]
  BY LoopTypes, Types DEF TypeOK, Request
<1>2. CASE Throws(c) /\ UNCHANGED <<answer, inq>>
  <2>1. CycleTyped /\ CycleAsks
    BY <1>0, <1>1, <1>2, EndsFields DEF CycleTyped, CycleAsks, residentVars
  <2>2. \A d \in Cycle : cyc'[d] = cyc[d] \/ cyc'[d].st = "off"
    BY <1>2, EndsFields, OffTyped
  <2> QED  BY <1>0, <2>1, <2>2, CycleKeeps DEF Disposed, Open, residentVars
<1>3. CASE /\ Asks(answer, c, "refresh") /\ cyc' = [cyc EXCEPT ![c].st = "refresh"]
           /\ Continues
  <2>1. /\ cyc' \in [Cycle -> CycleState] /\ cyc'[c].st = "refresh"
        /\ \A d \in Cycle : d # c => cyc'[d] = cyc[d]
    BY <1>3, StageTyped
  <2>2. /\ answer' \in [Caller -> Status] /\ \A y \in Caller : y # c => answer'[y] = answer[y]
        /\ (answer'[c] = "wait" <=> ~failed /\ ~closed)
        /\ inq' \in Seq(Request)
        /\ \A j \in DOMAIN inq' : \/ j \in DOMAIN inq /\ inq'[j] = inq[j]
                                  \/ inq'[j].m = "refresh" /\ inq'[j].by = c
    BY <1>0, <1>1, <1>3, AsksFields
  <2>3. CycleTyped
    BY <1>0, <1>1, <1>3, <2>1, <2>2 DEF CycleTyped, Continues, residentVars
  <2>4. CycleAsks
    BY <2>2, Domains DEF CycleAsks
  <2> QED  BY <1>0, <2>1, <2>3, <2>4, CycleKeeps DEF Disposed, Open, residentVars
<1> QED  BY <1>2, <1>3 DEF Checked

\* The refresh after the build is answered.
LEMMA RefreshedKeeps ==
    ASSUME SessionInv, NEW c \in Cycle, Refreshed(c)
    PROVE  SessionInv'
<1> USE DEF SessionInv
<1>0. /\ CycleFrame /\ Ends(c) /\ UNCHANGED <<inq, residentVars, missed>> /\ c \in Caller
      /\ answer' = [answer EXCEPT ![c] = "none"]
  BY Domains DEF Refreshed
<1>1. /\ answer' \in [Caller -> Status] /\ inq \in Seq(Request) /\ cyc \in [Cycle -> CycleState]
      /\ {selected, retiring, missed} \subseteq BOOLEAN /\ missed' = missed
      /\ buf \in [Entry -> {"none", "empty", "changed"}]
      /\ prog \in [Entry -> Versions \cup {Cold}]
  BY <1>0, LoopTypes, Types DEF TypeOK, Request, Status
<1>2. CycleTyped
  BY <1>0, <1>1, EndsFields DEF CycleTyped, residentVars
<1>3. CycleAsks
  BY <1>0, LoopTypes, Domains DEF CycleAsks
<1>4. \A d \in Cycle : cyc'[d] = cyc[d] \/ cyc'[d].st = "off"
  BY <1>0, EndsFields, OffTyped
<1> QED  BY <1>0, <1>2, <1>3, <1>4, CycleKeeps DEF Disposed, Open, residentVars

\* startRun begins a cycle in a free place, or finds the session closed.
Begins(c) ==
    /\ cyc[c].st = "off"
    /\ cyc' = [cyc EXCEPT ![c] = [st |-> "begin", change |-> note, entry |-> 1,
                                  valid |-> TRUE, at |-> disk]]
    /\ running' = TRUE /\ note' = {} /\ active' = c /\ settle' = Changed(settle)

\* The cycle that begins, and the others.
LEMMA BeginsFields ==
    ASSUME TypeOK, NEW c \in Cycle, Begins(c)
    PROVE  /\ cyc' \in [Cycle -> CycleState] /\ \A d \in Cycle : d # c => cyc'[d] = cyc[d]
           /\ cyc'[c].st = "begin" /\ cyc'[c].change = note /\ cyc'[c].valid
           /\ cyc'[c].at = disk
<1> DEFINE n == [st |-> "begin", change |-> note, entry |-> 1, valid |-> TRUE, at |-> disk]
<1>1. n \in CycleState
  BY Types, Domains DEF CycleState, TypeOK
<1>2. n.st = "begin" /\ n.change = note /\ n.valid /\ n.at = disk
  OBVIOUS
<1>3. cyc \in [Cycle -> CycleState] /\ cyc' = [cyc EXCEPT ![c] = n]
  BY LoopTypes DEF Begins
<1> HIDE DEF n
<1> QED  BY <1>1, <1>2, <1>3

\* What startRun changes.
LEMMA StartRunFields ==
    ASSUME NEW left, StartRun(left)
    PROVE  /\ timer' = FALSE /\ orphans' = left
           /\ UNCHANGED <<closed, rerun, joined, done, residentVars, heard, idleAt, cover,
                          troubled, missed>>
           /\ overlapped' = (overlapped \/ (~closed /\ (running \/ answer["start"] = "wait")))
           /\ closed => UNCHANGED <<running, note, active, cyc, settle>>
           /\ ~closed => \E c \in Cycle : Begins(c)
BY Domains DEF StartRun, Begins

\* startRun keeps the invariant.
LEMMA StartRunKeeps ==
    ASSUME SessionInv, NEW left \in 0 .. 1, StartRun(left), QueueFrame,
           UNCHANGED <<inq, out, failed, exited>>,
           answer' \in [Caller -> Status], \A x \in Caller : answer'[x] # "none" => answer'[x] = answer[x],
           answer'["start"] # "none" => left = 0
    PROVE  SessionInv'
<1> USE DEF SessionInv
<1>0. /\ timer' = FALSE /\ orphans' = left
      /\ UNCHANGED <<closed, rerun, joined, done, residentVars, heard, idleAt, cover,
                     troubled, missed>>
      /\ overlapped' = (overlapped \/ (~closed /\ (running \/ answer["start"] = "wait")))
  BY DEF StartRun
<1>1. /\ cyc' \in [Cycle -> CycleState] /\ running' \in BOOLEAN
      /\ note' \subseteq {"source", "reload"} /\ active' \in Cycle \cup {NoCycle}
      /\ settle' \in Settling
      /\ \A d \in Cycle : cyc'[d] = cyc[d] \/ (~closed /\ cyc'[d].st = "begin")
  <2>1. CASE closed
    BY <2>1, StartRunFields, LoopTypes DEF TypeOK
  <2>2. CASE ~closed
    <3>1. PICK c \in Cycle : Begins(c)
      BY <2>2, StartRunFields
    <3> QED  BY <2>2, <3>1, BeginsFields, LoopTypes, ChangedFields DEF Begins
  <2> QED  BY <2>1, <2>2
<1>2. TypeOK'
  <2>1. inq \in Seq(Request) /\ out \in Seq(Message)
    BY Types DEF Request
  <2>2. orphans' \in 0 .. 2 /\ overlapped' \in BOOLEAN
    BY <1>0 DEF TypeOK
  <2>3. /\ {disk', base', heard', idleAt', cover'} \subseteq Versions
        /\ worker' \in {"up", "closing", "dead"} /\ topo' \in {"new", "register", "live"}
        /\ owed' \subseteq Input /\ noted' \subseteq Input /\ joined' \in Cycle \cup {NoCycle}
        /\ {barrier', failed', exited', closed', rerun', timer', done', troubled', missed'}
              \subseteq BOOLEAN
    BY <1>0 DEF TypeOK, QueueFrame
  <2>4. /\ selected' \in BOOLEAN /\ retiring' \in BOOLEAN
        /\ buf' \in [Entry -> {"none", "empty", "changed"}]
        /\ prog' \in [Entry -> Versions \cup {Cold}]
    BY <1>0 DEF TypeOK, residentVars
  <2> QED  BY <1>1, <2>1, <2>2, <2>3, <2>4, TypeFolded
<1>3. Armed'
  BY <1>0 DEF Armed
<1>4. LastWord'
  BY StartRunFields DEF LastWord, QueueFrame
<1>5. Closing'
  BY StartRunFields, Domains DEF Closing, QueueFrame
<1>6. Disposed'
  <2>1. UNCHANGED <<closed, joined, done, selected, prog, exited>> /\ (closed => cyc' = cyc)
    BY StartRunFields DEF residentVars
  <2> QED  BY <1>1, <2>1 DEF Disposed, Open
<1> QED  BY <1>2, <1>3, <1>4, <1>5, <1>6

\* The first refresh or a timeout starts a run.
LEMMA RunKeeps ==
    ASSUME SessionInv, Started \/ TimerFires \/ OrphanFires
    PROVE  SessionInv'
<1> USE DEF SessionInv
<1>0. /\ orphans \in Nat /\ orphans <= 1 /\ timer \in BOOLEAN
      /\ (answer["start"] # "none" => orphans = 0) /\ answer \in [Caller -> Status]
  BY LoopTypes DEF TypeOK, Armed
<1>1. CASE Started
  <2> DEFINE left == Left(0)
  <2>1. left \in 0 .. 1
    BY <1>0, <1>1 DEF Started, Left
  <2> HIDE DEF left
  <2>2. /\ StartRun(left) /\ QueueFrame /\ UNCHANGED <<inq, out, failed, exited>>
        /\ answer' = [answer EXCEPT !["start"] = "none"]
    BY <1>1 DEF Started, left
  <2>3. /\ answer' \in [Caller -> Status] /\ answer'["start"] = "none"
        /\ \A x \in Caller : answer'[x] # "none" => answer'[x] = answer[x]
    BY <1>0, <2>2, Domains DEF Status
  <2> QED  BY <2>1, <2>2, <2>3, StartRunKeeps
<1>2. CASE TimerFires
  <2> DEFINE left == orphans
  <2>1. left \in 0 .. 1 /\ (answer["start"] # "none" => left = 0)
    BY <1>0
  <2>2. /\ StartRun(left) /\ QueueFrame /\ UNCHANGED <<inq, out, answer, failed, exited>>
    BY <1>2 DEF TimerFires
  <2> HIDE DEF left
  <2> QED  BY <1>0, <2>1, <2>2, StartRunKeeps
<1>3. CASE OrphanFires
  <2> DEFINE left == Left(1)
  <2>1. left \in 0 .. 1 /\ answer["start"] = "none"
    BY <1>0, <1>3 DEF OrphanFires, Left
  <2> HIDE DEF left
  <2>2. /\ StartRun(left) /\ QueueFrame /\ UNCHANGED <<inq, out, answer, failed, exited>>
    BY <1>3 DEF OrphanFires, left
  <2> QED  BY <1>0, <2>1, <2>2, StartRunKeeps
<1> QED  BY <1>1, <1>2, <1>3

\* An answer is consumed: the session is closed, or only the settlement changes.
LEMMA ConsumesKeeps ==
    ASSUME SessionInv, NEW x \in {"start", "settle"}, NEW s \in Settling, NEW ans,
           ans = [answer EXCEPT ![x] = "none"],
           \/ ~closed /\ Shutdown(ans, s, failed)
           \/ NoShutdown(ans, s),
           UNCHANGED <<out, failed, exited, history>>, QueueFrame
    PROVE  SessionInv'
<1> USE DEF SessionInv
<1>1. /\ ans \in [Caller -> Status] /\ \A y \in Caller : ans[y] # "none" => ans[y] = answer[y]
      /\ \A y \in Caller : ans[y] # answer[y] => ans[y] = "none"
  BY LoopTypes, Domains DEF Status
<1>2. failed \in BOOLEAN /\ exited \in BOOLEAN /\ out \in Seq(Message) /\ inq \in Seq(Request)
  BY Types DEF TypeOK, Request
<1>3. CASE ~closed /\ Shutdown(ans, s, failed)
  <2>1. LastWord'
    BY <1>3 DEF LastWord, QueueFrame
  <2>2. "start" \in Caller /\ (ans["start"] # "none" => answer["start"] # "none")
        /\ ans \in [Caller -> Status]
    BY <1>1, Domains
  <2>3. ~closed /\ Shutdown(ans, s, failed) /\ out' \in Seq(Message) /\ failed \in BOOLEAN
        /\ failed' \in BOOLEAN /\ exited' \in BOOLEAN
    BY <1>2, <1>3
  <2> QED  BY <2>1, <2>2, <2>3, ShutdownKeeps
<1>4. CASE NoShutdown(ans, s)
  <2>0. answer' = ans /\ settle' = s /\ UNCHANGED <<inq, loopVars, residentVars, cyc>>
    BY <1>4 DEF NoShutdown
  <2>1. TypeOK'
    BY <1>1, <1>2, <2>0, TypeFolded, LoopTypes
       DEF TypeOK, QueueFrame, loopVars, residentVars, history
  <2>2. LastWord'
    BY <1>1, <2>0 DEF LastWord, QueueFrame, loopVars
  <2>3. Armed' /\ Closing'
    BY <1>1, <2>0, Domains DEF Armed, Closing, QueueFrame, loopVars
  <2>4. Disposed'
    BY <2>0 DEF Disposed, Open, loopVars, residentVars
  <2> QED  BY <2>1, <2>2, <2>3, <2>4
<1> QED  BY <1>3, <1>4

\* The first refresh failed.
LEMMA StartFailedKeeps ==
    ASSUME SessionInv, StartFailed
    PROVE  SessionInv'
<1>1. settle \in Settling
  BY LoopTypes DEF SessionInv
<1> DEFINE ans == [answer EXCEPT !["start"] = "none"]
<1>2. /\ \/ ~closed /\ Shutdown(ans, settle, failed)
         \/ NoShutdown(ans, settle)
      /\ UNCHANGED <<out, failed, exited, history>> /\ QueueFrame
  BY DEF StartFailed
<1>3. ans = [answer EXCEPT !["start"] = "none"]
  OBVIOUS
<1> HIDE DEF ans
<1> QED  BY <1>1, <1>2, <1>3, ConsumesKeeps

\* What becomes of the settlement when its query is answered.
Idle == ~running /\ ~rerun /\ ~timer
Outcome ==
    IF answer["settle"] = "err" \/ closed THEN "gone"
    ELSE IF settle = "moved" THEN "again"
    ELSE IF Idle THEN "sent" ELSE "waiting"

\* The states a settle request can be left in.
LEMMA OutcomeFields ==
    /\ Outcome \in Settling
    /\ answer["settle"] # "err" /\ ~closed =>
          /\ settle = "moved" => Outcome = "again"
          /\ Outcome = "sent" => settle # "moved" /\ Idle
    /\ answer["settle"] = "err" \/ closed => Outcome = "gone"
    /\ Outcome # "query" /\ Outcome # "moved"
BY DEF Outcome, Settling

\* The idle query of a settle request is answered.
LEMMA ObservedKeeps ==
    ASSUME SessionInv, Observed
    PROVE  SessionInv'
<1> DEFINE ans == [answer EXCEPT !["settle"] = "none"]
<1>1. /\ \/ ~closed /\ Shutdown(ans, "gone", failed)
         \/ NoShutdown(ans, Outcome)
      /\ UNCHANGED <<out, failed, exited, history>> /\ QueueFrame
  BY DEF Observed, Outcome, Idle
<1>2. Outcome \in Settling /\ "gone" \in Settling
  BY OutcomeFields DEF Settling
<1>3. ans = [answer EXCEPT !["settle"] = "none"]
  OBVIOUS
<1> HIDE DEF ans
<1> QED  BY <1>1, <1>2, <1>3, ConsumesKeeps

\* A settle request asks.
LEMMA QueryKeeps ==
    ASSUME SessionInv, Query
    PROVE  SessionInv'
<1> USE DEF SessionInv
<1>1. /\ answer' \in [Caller -> Status] /\ \A y \in Caller : y # "settle" => answer'[y] = answer[y]
      /\ (answer'["settle"] = "wait" => ~closed)
      /\ inq' \in Seq(Request)
      /\ \A j \in DOMAIN inq' : \/ j \in DOMAIN inq /\ inq'[j] = inq[j]
                                \/ inq'[j].m = "idle" /\ inq'[j].by = "settle"
  BY AsksFields, LoopTypes, Domains DEF Query
<1>2. /\ settle' = "query" /\ QueueFrame
      /\ UNCHANGED <<out, failed, exited, loopVars, cyc, residentVars, history>>
  BY DEF Query
<1>3. TypeOK'
  BY <1>1, <1>2, TypeFolded, LoopTypes
     DEF TypeOK, QueueFrame, loopVars, residentVars, history, Settling
<1>4. LastWord'
  BY <1>1, <1>2 DEF LastWord, QueueFrame, loopVars
<1>5. Armed' /\ Closing'
  BY <1>1, <1>2, Domains DEF Armed, Closing, QueueFrame, loopVars
<1>6. Disposed'
  BY <1>2 DEF Disposed, Open, loopVars, residentVars
<1> QED  BY <1>3, <1>4, <1>5, <1>6

\* The thread is terminated.
LEMMA CloseFailedKeeps ==
    ASSUME SessionInv, CloseFailed
    PROVE  SessionInv'
<1> USE DEF SessionInv
<1>1. answer' \in [Caller -> Status] /\ answer'["close"] = "none"
      /\ \A y \in Caller : y # "close" => answer'[y] = answer[y]
  BY LoopTypes, Domains DEF CloseFailed, Status
<1>2. inq' \in Seq(Request) /\ DOMAIN inq' = {}
  BY DEF CloseFailed
<1>3. closed
  BY DEF CloseFailed, Closing
<1>4. /\ out' \in Seq(Message)
      /\ worker # "dead" => \A j \in DOMAIN out' : j = Len(out') \/ (j \in DOMAIN out /\ out'[j] = out[j])
  <2>1. CASE worker = "dead"
    BY <2>1, Types DEF CloseFailed
  <2>2. CASE worker # "dead"
    <3> DEFINE msg == [kind |-> "exit", clean |-> TRUE]
    <3>1. msg \in Message /\ out' = Append(out, msg)
      BY <2>2, MessageFields DEF CloseFailed
    <3> HIDE DEF msg
    <3> QED  BY <3>1, Types
  <2> QED  BY <2>1, <2>2
<1>5. TypeOK'
  BY <1>1, <1>2, <1>4, TypeFolded, LoopTypes
     DEF TypeOK, CloseFailed, loopVars, residentVars, history
<1>6. LastWord'
  <2>1. CASE worker = "dead"
    BY <1>1, <2>1, Domains DEF LastWord, CloseFailed, loopVars
  <2>2. CASE worker # "dead"
    BY <1>1, <1>4, <2>2 DEF LastWord, CloseFailed, loopVars
  <2> QED  BY <2>1, <2>2
<1>7. Armed' /\ Closing'
  BY <1>1, <1>2, Domains DEF Armed, Closing, CloseFailed, loopVars
<1>8. Disposed'
  BY DEF Disposed, Open, CloseFailed, loopVars, residentVars
<1> QED  BY <1>5, <1>6, <1>7, <1>8

\* A close is answered, a sidecar has exited, the end is reported.
LEMMA QuietSteps ==
    ASSUME SessionInv, CloseAnswered \/ Finish \/ Retired
    PROVE  SessionInv'
<1> USE DEF SessionInv
<1>1. CASE CloseAnswered
  <2>1. answer' \in [Caller -> Status] /\ answer'["close"] = "none"
        /\ \A y \in Caller : y # "close" => answer'[y] = answer[y]
    BY <1>1, LoopTypes, Domains DEF CloseAnswered, Status
  <2>2. UNCHANGED <<disk, workerVars, failed, exited, loopVars, cyc, settle, residentVars, history>>
    BY <1>1 DEF CloseAnswered
  <2>3. TypeOK'
    BY <2>1, <2>2, TypeFolded, LoopTypes, Types
       DEF TypeOK, workerVars, loopVars, residentVars, history, Request
  <2>4. Armed' /\ LastWord'
    BY <2>1, <2>2, Domains DEF Armed, LastWord, workerVars, loopVars
  <2>5. Closing' /\ Disposed'
    BY <2>1, <2>2, Domains DEF Closing, Disposed, Open, workerVars, loopVars, residentVars
  <2> QED  BY <2>3, <2>4, <2>5
<1>2. CASE Finish
  <2>1. TypeOK'
    BY <1>2 DEF TypeOK, Finish, workerVars, residentVars, history
  <2>2. Armed' /\ LastWord' /\ Closing' /\ Disposed'
    BY <1>2 DEF Armed, LastWord, Closing, Disposed, Open, Finish, workerVars, residentVars
  <2> QED  BY <2>1, <2>2
<1>3. CASE Retired
  <2>1. TypeOK'
    BY <1>3 DEF TypeOK, Retired, workerVars, loopVars, history
  <2>2. Armed' /\ LastWord' /\ Closing' /\ Disposed'
    BY <1>3 DEF Armed, LastWord, Closing, Disposed, Open, Retired, workerVars, loopVars
  <2> QED  BY <2>1, <2>2
<1> QED  BY <1>1, <1>2, <1>3

\* The invariant holds at first.
LEMMA SessionInit ==
    ASSUME Init
    PROVE  SessionInv
<1>1. [i \in Input |-> 0] \in Versions
  BY Domains DEF Versions
<1>2. cyc \in [Cycle -> CycleState] /\ \A c \in Cycle : cyc[c] = Off
  BY OffTyped DEF Init
<1>3. /\ inq \in Seq(Request) /\ DOMAIN inq = {1} /\ inq[1].m = "refresh" /\ inq[1].by = "start"
  <2> DEFINE r == [m |-> "refresh", by |-> "start"]
  <2>1. r \in Request /\ r.m = "refresh" /\ r.by = "start" /\ inq = <<r>>
    BY Domains DEF Request, Init
  <2> HIDE DEF r
  <2> QED  BY <2>1
<1>4. out \in Seq(Message) /\ DOMAIN out = {}
  BY DEF Init
<1>5. /\ answer \in [Caller -> Status] /\ answer["start"] = "wait"
      /\ \A x \in Caller : x # "start" => answer[x] = "none"
  BY Domains DEF Init, Status
<1>6. \A e \in Entry : prog[e] = Cold
  BY DEF Init
<1>7. TypeOK
  <2>1. {disk, base, heard, idleAt, cover} \subseteq Versions
    BY <1>1 DEF Init
  <2>2. buf \in [Entry -> {"none", "empty", "changed"}] /\ prog \in [Entry -> Versions \cup {Cold}]
    BY DEF Init
  <2>3. /\ {barrier, failed, exited, closed, running, rerun, timer, done, selected,
            retiring, troubled, overlapped, missed} \subseteq BOOLEAN
        /\ note \subseteq {"source", "reload"}
        /\ owed \subseteq Input /\ noted \subseteq Input
        /\ {active, joined} \subseteq Cycle \cup {NoCycle}
    BY DEF Init
  <2>4. /\ orphans \in 0 .. 2 /\ worker \in {"up", "closing", "dead"} /\ topo \in {"new", "register", "live"}
        /\ settle \in {"none", "query", "moved", "waiting", "again", "sent", "gone"}
    BY DEF Init
  <2> QED  BY <1>2, <1>3, <1>4, <1>5, <2>1, <2>2, <2>3, <2>4
           DEF TypeOK, Request, Status, CycleState
<1>8. Armed /\ LastWord
  BY <1>4 DEF Armed, LastWord, Init
<1>9. Closing
  BY <1>3, <1>5, Domains DEF Closing, Init
<1>10. Disposed
  BY <1>2, <1>6, OffTyped DEF Disposed, Init
<1> QED  BY <1>7, <1>8, <1>9, <1>10 DEF SessionInv

\* Every step keeps the invariant.
LEMMA SessionNext ==
    ASSUME SessionInv, [Next]_vars
    PROVE  SessionInv'
<1>1. CASE Next
  BY <1>1, EditKeeps, WorkerSteps, SignalKeeps, QueryKeeps, OnEventKeeps, OnReplyKeeps, OnExitKeeps,
     RunKeeps, StartFailedKeeps, QuietSteps, ObservedKeeps, CloseFailedKeeps, BeginKeeps,
     PublishedKeeps, AskKeeps, CheckedKeeps, RefreshedKeeps DEF Next, LoopStep
<1>2. CASE UNCHANGED vars
  <2>1. TypeOK'
    BY <1>2 DEF SessionInv, TypeOK, vars, workerVars, residentVars, loopVars, history
  <2>2. Armed' /\ LastWord' /\ Closing' /\ Disposed'
    BY <1>2 DEF SessionInv, Armed, LastWord, Closing, Disposed, Open,
                vars, workerVars, residentVars, loopVars, history
  <2> QED  BY <2>1, <2>2 DEF SessionInv
<1> QED  BY <1>1, <1>2

\* The state of launcher, worker and sidecars is well formed after every sequence of
\* steps, also when cycles overlap and queries fail: the worker's exit is its last
\* message, nobody waits for a worker whose exit was handled, and a session without
\* a selection keeps no Program.
THEOREM WatchSessionSound == Spec => []SessionInv
BY SessionInit, SessionNext, PTL DEF Spec

\* Every variable of the session stays within its values.
THEOREM WatchTypes == Spec => []TypeOK
<1>1. SessionInv => TypeOK
  BY DEF SessionInv
<1> QED  BY <1>1, WatchSessionSound, PTL

-----------------------------------------------------------------------------
(* Until cycles overlap they are serial, and shutdown joins everything.     *)

\* The loop's own state stays, and nobody asks for the first refresh again.
LoopRests ==
    /\ UNCHANGED <<closed, running, timer, active, joined, cyc>>
    /\ answer'["start"] # "none" => answer["start"] # "none"

\* Nothing the order of cycles depends on changes.
LEMMA SerialRests ==
    ASSUME Serial, LoopRests
    PROVE  Serial'
BY DEF Serial, LoopRests

\* No step of the worker touches the launcher.
LEMMA WorkerRests ==
    ASSUME WorkerStep \/ RefreshFails \/ WorkerDies
    PROVE  WorkerFrame
BY DEF WorkerStep, RefreshFails, WorkerDies, FirstRefresh, Reconcile, Refresh, Publish, AwaitIdle,
       AnswerIdle, CloseTopology, WorkerExit, Decide, Notify

\* Steps that leave the loop alone.
LEMMA OthersRest ==
    ASSUME SessionInv, \/ \E i \in Input : Edit(i)
                       \/ WorkerStep \/ RefreshFails \/ WorkerDies
                       \/ Query \/ OnReply \/ CloseFailed \/ CloseAnswered \/ Finish \/ Retired
    PROVE  LoopRests
<1> USE DEF SessionInv, LoopRests
<1>0. answer \in [Caller -> Status] /\ "start" \in Caller /\ "settle" \in Caller /\ "close" \in Caller
  BY LoopTypes, Domains
<1>1. CASE \E i \in Input : Edit(i)
  BY <1>1 DEF Edit, loopVars
<1>2. CASE WorkerStep \/ RefreshFails \/ WorkerDies
  BY <1>2, WorkerRests DEF WorkerFrame, loopVars
<1>3. CASE Query
  BY <1>0, <1>3 DEF Query, Asks, loopVars
<1>4. CASE OnReply
  BY <1>0, <1>4 DEF OnReply, loopVars
<1>5. CASE CloseFailed
  BY <1>0, <1>5 DEF CloseFailed, loopVars
<1>6. CASE CloseAnswered
  BY <1>0, <1>6 DEF CloseAnswered, loopVars
<1>7. CASE Finish \/ Retired
  BY <1>7 DEF Finish, Retired, loopVars
<1> QED  BY <1>1, <1>2, <1>3, <1>4, <1>5, <1>6, <1>7

\* Steps that close the session or find it closed.
LEMMA ShutdownSerial ==
    ASSUME Serial, NEW ans, NEW s, NEW lost,
           \/ Shutdown(ans, s, lost)
           \/ NoShutdown(ans, s),
           answer \in [Caller -> Status], ans \in [Caller -> Status],
           ans["start"] # "none" => answer["start"] # "none"
    PROVE  Serial'
<1>1. CASE Shutdown(ans, s, lost)
  <2>1. answer'["start"] = ans["start"]
    BY <1>1, Domains DEF Shutdown
  <2> QED  BY <1>1, <2>1 DEF Serial, Shutdown
<1>2. CASE NoShutdown(ans, s)
  BY <1>2 DEF Serial, NoShutdown, loopVars
<1> QED  BY <1>1, <1>2

\* Steps that may close the session.
LEMMA ShuttersSerial ==
    ASSUME SessionInv, Serial, Signal \/ OnExit \/ StartFailed \/ Observed
    PROVE  Serial'
<1>0. answer \in [Caller -> Status] /\ "start" \in Caller /\ "settle" \in Caller
  BY LoopTypes, Domains DEF SessionInv
<1>1. CASE Signal
  BY <1>0, <1>1, ShutdownSerial DEF Signal
<1>2. CASE OnExit
  <2> DEFINE fails == ~failed /\ (~closed \/ ~Head(out).clean
                                  \/ \E x \in Caller : answer[x] = "wait")
             ans == [x \in Caller |-> IF fails /\ answer[x] = "wait" THEN "err" ELSE answer[x]]
  <2>1. Shutdown(ans, settle, TRUE) \/ NoShutdown(ans, settle)
    BY <1>2 DEF OnExit
  <2> HIDE DEF fails
  <2>2. ans \in [Caller -> Status] /\ (ans["start"] # "none" => answer["start"] # "none")
    BY <1>0 DEF Status
  <2> HIDE DEF ans
  <2> QED  BY <1>0, <2>1, <2>2, ShutdownSerial
<1>3. CASE StartFailed
  <2> DEFINE ans == [answer EXCEPT !["start"] = "none"]
  <2>1. Shutdown(ans, settle, failed) \/ NoShutdown(ans, settle)
    BY <1>3 DEF StartFailed
  <2>2. ans \in [Caller -> Status] /\ ans["start"] = "none"
    BY <1>0 DEF Status
  <2> HIDE DEF ans
  <2> QED  BY <1>0, <2>1, <2>2, ShutdownSerial
<1>4. CASE Observed
  <2> DEFINE ans == [answer EXCEPT !["settle"] = "none"]
  <2>1. Shutdown(ans, "gone", failed) \/ NoShutdown(ans, Outcome)
    BY <1>4 DEF Observed, Outcome, Idle
  <2>2. ans \in [Caller -> Status] /\ ans["start"] = answer["start"]
    BY <1>0, Domains DEF Status
  <2> HIDE DEF ans
  <2> QED  BY <1>0, <2>1, <2>2, ShutdownSerial
<1> QED  BY <1>1, <1>2, <1>3, <1>4

\* What was seen of overlapping cycles and of lost changes stays seen.
LEMMA HistoryGrows ==
    ASSUME SessionInv, [Next]_vars
    PROVE  (overlapped => overlapped') /\ (missed => missed')
<1>0. {overlapped, missed, overlapped', missed'} \subseteq BOOLEAN
  BY SessionNext DEF SessionInv, TypeOK
<1>1. ASSUME NEW c \in Cycle, Begin(c) \/ Published(c) \/ Ask(c) \/ Checked(c) \/ Refreshed(c)
      PROVE  overlapped' = overlapped /\ (missed => missed')
  <2>1. overlapped' = overlapped
    BY <1>1 DEF Begin, Published, Ask, Checked, Refreshed, CycleFrame
  <2>2. (missed' = missed) \/ Throws(c)
    BY <1>1 DEF Begin, Published, Ask, Checked, Refreshed, Continues
  <2>3. Throws(c) => missed' = (missed \/ (selected /\ Open(c)))
    BY DEF Throws
  <2> QED  BY <1>0, <2>1, <2>2, <2>3
<1>2. CASE WorkerStep \/ RefreshFails \/ WorkerDies
  BY <1>2, WorkerRests DEF WorkerFrame
<1>3. CASE Started \/ TimerFires \/ OrphanFires
  <2>1. \A left : StartRun(left) => missed' = missed /\ (overlapped => overlapped')
    BY DEF StartRun
  <2> QED  BY <1>3, <2>1 DEF Started, TimerFires, OrphanFires
<1>4. CASE \/ \E i \in Input : Edit(i)
           \/ Signal \/ Query \/ OnEvent \/ OnReply \/ OnExit \/ StartFailed \/ Retired
           \/ Observed \/ CloseFailed \/ CloseAnswered \/ Finish \/ UNCHANGED vars
  <2>1. UNCHANGED <<overlapped, missed>>
    BY <1>4 DEF Edit, Signal, Query, OnEvent, OnReply, OnExit, StartFailed, Retired, Observed,
                CloseFailed, CloseAnswered, Finish, vars, history
  <2> QED  BY <2>1
<1> QED  BY <1>1, <1>2, <1>3, <1>4 DEF Next, LoopStep

\* A cycle that begins without an overlap begins when no other runs.
LEMMA RunSerial ==
    ASSUME SessionInv, Serial, ~overlapped', Started \/ TimerFires \/ OrphanFires
    PROVE  Serial' /\ (~closed => ~running)
<1>0. answer \in [Caller -> Status] /\ "start" \in Caller
  BY LoopTypes, Domains DEF SessionInv
<1>1. PICK left : StartRun(left)
  BY DEF Started, TimerFires, OrphanFires
<1>2. ~closed => ~running /\ answer["start"] # "wait"
  BY <1>1, StartRunFields
<1>3. answer'["start"] = "none" \/ answer'["start"] = answer["start"]
  BY <1>0 DEF Started, TimerFires, OrphanFires
<1>4. CASE closed
  <2>1. UNCHANGED <<closed, joined, running, active, cyc>> /\ timer' = FALSE
    BY <1>1, <1>4, StartRunFields
  <2> QED  BY <1>3, <1>4, <2>1 DEF Serial
<1>5. CASE ~closed
  <2>0. answer'["start"] = "none"
    <3>1. Started => answer'["start"] = "none"
      BY <1>0 DEF Started
    <3>2. TimerFires \/ OrphanFires => answer' = answer /\ answer["start"] \notin {"ok", "err"}
      BY <1>0 DEF TimerFires, OrphanFires, Drained
    <3> QED  BY <1>0, <1>2, <1>5, <3>1, <3>2 DEF Status
  <2>1. PICK c \in Cycle : Begins(c)
    BY <1>1, <1>5, StartRunFields
  <2>2. /\ cyc'[c].valid /\ \A d \in Cycle : d # c => cyc'[d] = cyc[d]
    BY <2>1, BeginsFields DEF SessionInv
  <2>3. active' = c /\ running' = TRUE /\ timer' = FALSE /\ closed' = closed
    BY <1>1, <2>1, StartRunFields DEF Begins
  <2> QED  BY <1>2, <1>5, <2>0, <2>2, <2>3 DEF Serial
<1> QED  BY <1>2, <1>4, <1>5

\* A cycle's steps, and its end.
LEMMA CycleSerial ==
    ASSUME SessionInv, Serial, NEW c \in Cycle,
           Begin(c) \/ Published(c) \/ Ask(c) \/ Checked(c) \/ Refreshed(c)
    PROVE  Serial'
<1>0. /\ running /\ c = active /\ ~timer /\ answer["start"] = "none"
      /\ \A d \in Cycle : d # c => cyc[d].st = "off"
      /\ cyc[c].valid /\ CycleFrame
  BY DEF Serial, Begin, Published, Ask, Checked, Refreshed
<1>1. answer'["start"] = "none" /\ closed' = closed /\ active' = active /\ joined' = joined
  <2>1. answer \in [Caller -> Status] /\ c \in Caller /\ c # "start" /\ "start" \in Caller
    BY LoopTypes, Domains DEF SessionInv
  <2>2. answer' = answer \/ \E v : answer' = [answer EXCEPT ![c] = v]
    BY DEF Begin, Published, Ask, Checked, Refreshed, Asks
  <2>3. UNCHANGED <<closed, active, joined>>
    BY <1>0 DEF CycleFrame
  <2> QED  BY <1>0, <2>1, <2>2, <2>3
<1>2. CASE Ends(c) \/ Throws(c)
  <2>1. /\ cyc'[c] = Off /\ \A d \in Cycle : d # c => cyc'[d] = cyc[d]
        /\ running' = FALSE
    BY <1>2, EndsFields DEF SessionInv
  <2> QED  BY <1>0, <1>1, <2>1, OffTyped DEF Serial
<1>3. ASSUME NEW change \in SUBSET {"source", "reload"}, ResetBy(c, change), Continues
      PROVE  Serial'
  <2>1. ResetTo(c, change)
    BY <1>3, ResetByFields DEF SessionInv
  <2>2. /\ cyc'[c].valid
        /\ \A d \in Cycle : d # c => cyc'[d].valid /\ cyc'[d].st = "off"
    BY <1>0, <2>1 DEF ResetTo
  <2>3. running' = running /\ timer' = timer
    BY <1>3 DEF Continues
  <2> QED  BY <1>0, <1>1, <2>2, <2>3 DEF Serial
<1>4. ASSUME cyc'[c].valid = cyc[c].valid, \A d \in Cycle : d # c => cyc'[d] = cyc[d], Continues
      PROVE  Serial'
  BY <1>0, <1>1, <1>4 DEF Serial, Continues
<1>5. cyc \in [Cycle -> CycleState] /\ cyc[c] \in CycleState
  BY LoopTypes DEF SessionInv
<1>6. \A st, n : /\ cyc' = [cyc EXCEPT ![c].st = st] =>
                      cyc'[c].valid = cyc[c].valid /\ \A d \in Cycle : d # c => cyc'[d] = cyc[d]
                 /\ cyc' = [cyc EXCEPT ![c].entry = n] =>
                      cyc'[c].valid = cyc[c].valid /\ \A d \in Cycle : d # c => cyc'[d] = cyc[d]
                 /\ cyc' = [cyc EXCEPT ![c].st = st, ![c].entry = n] =>
                      cyc'[c].valid = cyc[c].valid /\ \A d \in Cycle : d # c => cyc'[d] = cyc[d]
  BY <1>5 DEF CycleState
<1>7. CASE Begin(c)
  <2>1. cyc[c].change \ {"reload"} \in SUBSET {"source", "reload"}
    BY LoopTypes DEF SessionInv
  <2> QED  BY <1>2, <1>3, <1>4, <1>6, <1>7, <2>1 DEF Begin
<1>8. CASE Published(c)
  BY <1>2, <1>3, <1>4, <1>6, <1>8 DEF Published
<1>9. CASE Ask(c)
  <2>1. Continues /\ \E n : cyc' = [cyc EXCEPT ![c].entry = n]
    BY <1>9 DEF Ask
  <2> QED  BY <1>4, <1>6, <2>1
<1>10. CASE Checked(c)
  BY <1>2, <1>4, <1>6, <1>10 DEF Checked
<1>11. CASE Refreshed(c)
  BY <1>2, <1>11 DEF Refreshed
<1> QED  BY <1>7, <1>8, <1>9, <1>10, <1>11

\* No cycle at first.
LEMMA SerialInit == Init => Serial
BY OffTyped DEF Init, Serial

\* Every step without an overlap keeps the cycles apart.
LEMMA SerialNext ==
    ASSUME SessionInv, Serial, ~overlapped', [Next]_vars
    PROVE  Serial'
<1>1. CASE Next
  <2>1. CASE OnEvent
    BY <2>1 DEF Serial, OnEvent
  <2> QED  BY <1>1, <2>1, OthersRest, SerialRests, ShuttersSerial, RunSerial, CycleSerial
           DEF Next, LoopStep
<1>2. CASE UNCHANGED vars
  BY <1>2 DEF Serial, vars, loopVars
<1> QED  BY <1>1, <1>2

\* When shutdown reports its end no sidecar, no worker and no pending request is
\* left, and no cycle unless cycles have overlapped: until then one cycle runs at a
\* time, and shutdown has joined it.
THEOREM WatchShutdownJoins == Spec => []ShutdownJoins
<1> DEFINE Inv == SessionInv /\ (~overlapped => Serial)
<1>1. Init => Inv
  BY SessionInit, SerialInit
<1>2. Inv /\ [Next]_vars => Inv'
  BY SessionNext, SerialNext, HistoryGrows
<1>3. Inv => ShutdownJoins
  <2> SUFFICES ASSUME SessionInv, ~overlapped => Serial, done
               PROVE  /\ overlapped \/ \A c \in Cycle : cyc[c].st = "off"
                      /\ \A e \in Entry : prog[e] = Cold
                      /\ worker = "dead"
                      /\ \A x \in Caller : answer[x] # "wait"
    BY DEF ShutdownJoins
  <2>1. closed /\ exited /\ ~selected /\ (joined # NoCycle => cyc[joined].st = "off")
    BY DEF SessionInv, Disposed
  <2>2. ~overlapped => \A c \in Cycle : cyc[c].st # "off" => c = joined /\ joined # NoCycle
    BY <2>1, Domains DEF Serial
  <2> QED  BY <2>1, <2>2 DEF SessionInv, Disposed, LastWord
<1> HIDE DEF Inv
<1> QED  BY <1>1, <1>2, <1>3, PTL DEF Spec

-----------------------------------------------------------------------------
(* Reports arrive in order.                                                *)

\* The channel loses at most its head.
OutKept == \E d \in {0, 1} : \A j \in DOMAIN out' : j + d \in DOMAIN out /\ out'[j] = out[j + d]

\* Each kind of report is about one input.
LEMMA Kinds ==
    /\ \A i \in Input : Kind(i) \in {"input", "topology"}
    /\ \A i, k \in Input : Kind(i) = Kind(k) => i = k
BY Domains DEF Kind, Input

\* Versions are numbers.
LEMMA Versed ==
    ASSUME TypeOK
    PROVE  /\ \A i \in Input : /\ disk[i] \in Nat /\ base[i] \in Nat /\ heard[i] \in Nat
                               /\ idleAt[i] \in Nat /\ cover[i] \in Nat
           /\ \A i \in Input : \A j \in About(i) : out[j] \in Message /\ out[j].saw \in Nat
<1>1. \A v \in Versions, i \in Input : v[i] \in Nat
  BY MaxEditsAssumption DEF Versions, Version
<1>2. \A v \in Version : v \in Nat
  BY MaxEditsAssumption DEF Version
<1>3. ASSUME NEW i \in Input, NEW j \in About(i) PROVE out[j] \in Message /\ out[j].saw \in Nat
  <2>1. out[j] \in Message /\ out[j].kind \in {"input", "topology"}
    BY <1>3, Kinds, Types DEF About
  <2> QED  BY <1>2, <2>1, MessageFields
<1> QED  BY <1>1, <1>3, Types

\* Reports that are delivered or stay keep their order.
LEMMA ToldKept ==
    ASSUME TypeOK, TypeOK', Told, OutKept, heard' = heard,
           \A i \in Input : disk[i] <= disk'[i] /\ base'[i] <= disk'[i] /\ idleAt'[i] <= disk'[i]
    PROVE  Told'
<1>1. PICK d \in {0, 1} : \A j \in DOMAIN out' : j + d \in DOMAIN out /\ out'[j] = out[j + d]
  BY DEF OutKept
<1>2. \A i \in Input : /\ disk[i] \in Nat /\ disk'[i] \in Nat /\ heard[i] \in Nat
  BY Versed DEF TypeOK, Versions, Version
<1>3. ASSUME NEW i \in Input, NEW j \in About(i)'
      PROVE  j \in Nat /\ j + d \in About(i) /\ out'[j] = out[j + d]
  <2>1. out' \in Seq(Message)
    BY DEF TypeOK
  <2>2. DOMAIN out' = 1 .. Len(out') /\ Len(out') \in Nat
    BY <2>1, LenProperties
  <2>3. j \in DOMAIN out' /\ out'[j].kind = Kind(i)
    BY <1>3 DEF About
  <2> QED  BY <1>1, <2>2, <2>3 DEF About
<1>4. ASSUME NEW i \in Input, NEW j \in About(i)'
      PROVE  heard'[i] <= out'[j].saw /\ out'[j].saw <= disk'[i]
  <2>1. heard[i] <= out[j + d].saw /\ out[j + d].saw <= disk[i] /\ out[j + d].saw \in Nat
    BY <1>3, <1>4, Versed DEF Told
  <2>2. disk[i] <= disk'[i]
    OBVIOUS
  <2> QED  BY <1>2, <1>3, <1>4, <2>1, <2>2
<1>5. ASSUME NEW i \in Input, NEW j \in About(i)', NEW k \in About(i)', j <= k
      PROVE  out'[j].saw <= out'[k].saw
  <2>1. j + d \in About(i) /\ k + d \in About(i) /\ j + d <= k + d
    BY <1>3, <1>5
  <2> QED  BY <1>3, <1>5, <2>1 DEF Told
<1>6. \A i \in Input : heard'[i] <= disk'[i]
  <2> SUFFICES ASSUME NEW i \in Input PROVE heard[i] <= disk'[i]
    OBVIOUS
  <2>1. heard[i] <= disk[i] /\ disk[i] <= disk'[i]
    BY DEF Told
  <2> QED  BY <1>2, <2>1
<1> QED  BY <1>4, <1>5, <1>6 DEF Told

\* The worker posts only what is on disk, so nothing older follows.
LEMMA ToldSpeaks ==
    ASSUME TypeOK, Told, Speaks, UNCHANGED <<disk, heard>>,
           \A i \in Input : base'[i] <= disk[i] /\ idleAt'[i] <= disk[i]
    PROVE  Told'
<1>0. PICK is \in SUBSET Input, ms \in Seq(Message) :
         /\ Len(ms) <= 1 /\ Posts(is, ms) /\ (Len(ms) = 1 => ms[1].kind \in {"reply", "exit"})
  BY DEF Speaks
<1>1. /\ \A j \in DOMAIN out : j \in DOMAIN out' /\ out'[j] = out[j]
      /\ \A j \in Fresh : /\ j > Len(out)
                          /\ \/ \E i \in is : IsReport(out'[j], i)
                             \/ Len(ms) = 1 /\ out'[j] = ms[1]
      /\ DOMAIN out' \subseteq Nat
  <2>1. DOMAIN out' = 1 .. Len(out') /\ Len(out') \in Nat
    BY <1>0, PostsFields
  <2> QED  BY <1>0, <2>1, PostsFields
<1>2. ASSUME NEW i \in Input, NEW j \in About(i)'
      PROVE  \/ j \in About(i) /\ out'[j] = out[j]
             \/ j \in Fresh /\ out'[j].saw = disk[i]
  <2>1. j \in DOMAIN out' /\ out'[j].kind = Kind(i)
    BY <1>2 DEF About
  <2>2. CASE j \in DOMAIN out
    BY <1>1, <2>1, <2>2 DEF About
  <2>3. CASE j \in Fresh
    <3>1. PICK h \in is : IsReport(out'[j], h)
      BY <1>0, <1>1, <2>1, <2>3, Kinds
    <3> QED  BY <1>0, <2>1, <2>3, <3>1, Kinds DEF IsReport
  <2> QED  BY <2>1, <2>2, <2>3 DEF Fresh
<1>3. \A i \in Input : disk[i] \in Nat /\ heard[i] \in Nat /\ heard[i] <= disk[i]
  BY Versed DEF Told
<1>4. ASSUME NEW i \in Input, NEW j \in About(i)'
      PROVE  /\ heard[i] <= out'[j].saw /\ out'[j].saw <= disk[i]
  BY <1>2, <1>3, <1>4 DEF Told
<1>5. ASSUME NEW i \in Input, NEW j \in About(i)', NEW k \in About(i)', j <= k
      PROVE  out'[j].saw <= out'[k].saw
  <2>1. CASE k \in Fresh /\ out'[k].saw = disk[i]
    BY <1>4, <1>5, <2>1
  <2>2. CASE k \in About(i) /\ out'[k] = out[k]
    <3>1. k \in 1 .. Len(out) /\ Len(out) \in Nat /\ j \in Nat /\ (j \in Fresh => j > Len(out))
      BY <1>1, <1>5, <2>2, Types DEF About
    <3>2. j \notin Fresh
      BY <1>5, <3>1
    <3>3. j \in About(i) /\ out'[j] = out[j]
      BY <1>2, <1>5, <3>2
    <3> QED  BY <1>5, <2>2, <3>3 DEF Told
  <2> QED  BY <1>2, <1>5, <2>1, <2>2
<1> QED  BY <1>3, <1>4, <1>5 DEF Told

\* The launcher hears the oldest report.
LEMMA ToldHears ==
    ASSUME TypeOK, Told, OnEvent
    PROVE  Told'
<1> DEFINE msg == Head(out)
           h == IF msg.kind = "input" THEN "source" ELSE "listing"
<1>1. /\ out # <<>> /\ msg.kind \in {"input", "topology"} /\ out' = Tail(out)
      /\ heard' = [heard EXCEPT ![h] = msg.saw]
      /\ UNCHANGED <<disk, base, idleAt>>
  BY DEF OnEvent, QueueFrame
<1>2. /\ 1 \in DOMAIN out /\ msg = out[1] /\ h \in Input /\ msg.kind = Kind(h)
  BY <1>1, TakesFields, Domains DEF Kind
<1>3. 1 \in About(h)
  BY <1>1, <1>2 DEF About
<1>4. \A j \in DOMAIN out' : j \in Nat /\ j + 1 \in DOMAIN out /\ out'[j] = out[j + 1]
  BY <1>1, TakesFields
<1> HIDE DEF msg, h
<1>5. /\ heard'[h] = out[1].saw /\ \A i \in Input : i # h => heard'[i] = heard[i]
  BY <1>1, <1>2, Types DEF Versions
<1>6. ASSUME NEW i \in Input, NEW j \in About(i)'
      PROVE  j \in Nat /\ j + 1 \in About(i) /\ out'[j] = out[j + 1]
  BY <1>4, <1>6 DEF About
<1>7. \A i \in Input : heard'[i] <= disk[i]
  BY <1>3, <1>5 DEF Told
<1>8. ASSUME NEW i \in Input, NEW j \in About(i)'
      PROVE  /\ heard'[i] <= out'[j].saw /\ out'[j].saw <= disk[i]
  <2>1. j + 1 \in About(i) /\ out'[j] = out[j + 1] /\ 1 <= j + 1
    BY <1>6, <1>8
  <2>2. CASE i = h
    BY <1>3, <1>5, <2>1, <2>2 DEF Told
  <2>3. CASE i # h
    BY <1>5, <2>1, <2>3 DEF Told
  <2> QED  BY <2>2, <2>3
<1>9. ASSUME NEW i \in Input, NEW j \in About(i)', NEW k \in About(i)', j <= k
      PROVE  out'[j].saw <= out'[k].saw
  <2>1. j + 1 \in About(i) /\ k + 1 \in About(i) /\ j + 1 <= k + 1
    BY <1>6, <1>9
  <2> QED  BY <1>6, <1>9, <2>1 DEF Told
<1> QED  BY <1>1, <1>7, <1>8, <1>9 DEF Told

\* What the launcher's and the worker's other steps do to the channel.
LEMMA OutSteps ==
    ASSUME TypeOK
    PROVE  /\ out' = out => OutKept
           /\ out # <<>> /\ out' = Tail(out) => OutKept
<1>1. ASSUME out' = out PROVE OutKept
  <2>1. \A j \in DOMAIN out' : j + 0 \in DOMAIN out /\ out'[j] = out[j + 0]
    BY <1>1, Types
  <2> QED  BY <2>1 DEF OutKept
<1>2. ASSUME out # <<>>, out' = Tail(out) PROVE OutKept
  <2>1. \A j \in DOMAIN out' : j + 1 \in DOMAIN out /\ out'[j] = out[j + 1]
    BY <1>2, TakesFields
  <2> QED  BY <2>1 DEF OutKept
<1> QED  BY <1>1, <1>2

\* Every step keeps the order of reports.
LEMMA ToldSteps ==
    ASSUME SessionInv, Told, Next
    PROVE  Told'
<1>0. TypeOK /\ Closing /\ TypeOK'
  BY SessionNext DEF SessionInv
<1>1. \A i \in Input : /\ disk[i] \in Nat /\ disk[i] <= disk[i] /\ base[i] <= disk[i]
                       /\ idleAt[i] <= disk[i]
                       /\ \A is : Stamped(is)[i] <= disk[i]
  <2>1. \A i \in Input : disk[i] \in Nat /\ base[i] <= disk[i] /\ idleAt[i] <= disk[i]
    BY <1>0, Versed DEF Told
  <2>2. \A i \in Input : disk[i] <= disk[i]
    BY <2>1
  <2> QED  BY <1>0, <2>1, <2>2, StampedTyped
<1>2. ASSUME OutKept, UNCHANGED <<heard, disk, idleAt>>, base' = base \/ \E is : base' = Stamped(is)
      PROVE  Told'
  BY <1>0, <1>1, <1>2, ToldKept
<1>3. ASSUME Speaks, UNCHANGED <<heard, disk>>, base' = base \/ \E is : base' = Stamped(is),
             idleAt' \in {idleAt, base}
      PROVE  Told'
  BY <1>0, <1>1, <1>3, ToldSpeaks
<1>4. ASSUME NEW i \in Input, Edit(i) PROVE Told'
  <2>1. disk' = [disk EXCEPT ![i] = @ + 1] /\ UNCHANGED <<base, heard, idleAt, out>>
    BY <1>4 DEF Edit, history
  <2>2. \A k \in Input : disk'[k] \in {disk[k], disk[k] + 1}
    BY <1>0, <2>1, Types DEF Versions
  <2>3. \A k \in Input : disk[k] <= disk'[k] /\ base'[k] <= disk'[k] /\ idleAt'[k] <= disk'[k]
    <3> SUFFICES ASSUME NEW k \in Input
                 PROVE  disk[k] <= disk'[k] /\ base[k] <= disk'[k] /\ idleAt[k] <= disk'[k]
      BY <2>1
    <3>1. /\ disk[k] \in Nat /\ base[k] \in Nat /\ idleAt[k] \in Nat
          /\ base[k] <= disk[k] /\ idleAt[k] <= disk[k]
      BY <1>0, <1>1, Versed
    <3> QED  BY <2>2, <3>1
  <2> QED  BY <1>0, <2>1, <2>3, ToldKept, OutSteps
<1>5. CASE FirstRefresh \/ AwaitIdle \/ \E i \in Input : Notify(i)
  BY <1>0, <1>2, <1>5, OutSteps DEF FirstRefresh, AwaitIdle, Notify, WorkerFrame
<1>6. CASE \/ Reconcile \/ Refresh \/ RefreshFails \/ Publish \/ AnswerIdle \/ CloseTopology
           \/ WorkerExit \/ WorkerDies \/ Decide
  <2>1. Speaks
    BY <1>0, <1>6, WorkerSpeaks
  <2>2. /\ UNCHANGED <<heard, disk>> /\ (base' = base \/ \E is : base' = Stamped(is))
        /\ idleAt' \in {idleAt, base}
    BY <1>6 DEF Reconcile, Refresh, RefreshFails, Publish, AnswerIdle, CloseTopology, WorkerExit,
                WorkerDies, Decide, WorkerFrame
  <2> QED  BY <1>3, <2>1, <2>2
<1>7. CASE OnEvent
  BY <1>0, <1>7, ToldHears
<1>8. CASE OnReply \/ OnExit
  <2>1. out # <<>> /\ out' = Tail(out) /\ UNCHANGED <<heard, disk, idleAt, base>>
    BY <1>8 DEF OnReply, OnExit, QueueFrame, history
  <2> QED  BY <1>0, <1>2, <2>1, OutSteps
<1>9. CASE CloseFailed
  <2>1. UNCHANGED <<heard, disk, idleAt, base>> /\ worker' = "dead"
    BY <1>9 DEF CloseFailed, history
  <2>2. CASE out' = out
    BY <1>0, <1>2, <2>1, <2>2, OutSteps
  <2>3. CASE out' = Append(out, [kind |-> "exit", clean |-> TRUE])
    <3> DEFINE msg == [kind |-> "exit", clean |-> TRUE]
    <3>1. msg \in Message /\ msg.kind = "exit" /\ out' = Append(out, msg)
      BY <2>3, MessageFields
    <3> HIDE DEF msg
    <3>2. PostsOne({}, msg)
      <4> DEFINE ms == <<msg>>
      <4>1. ms \in Seq(Message) /\ Len(ms) = 1 /\ ms[1] = msg /\ Posts({}, ms)
        BY <1>0, <3>1, AppendPosts
      <4> HIDE DEF ms
      <4> QED  BY <4>1 DEF PostsOne
    <3>3. Speaks
      BY <2>1, <3>1, <3>2, Spoken
    <3> QED  BY <1>3, <2>1, <3>3
  <2> QED  BY <1>9, <2>2, <2>3 DEF CloseFailed
<1>10. CASE Signal \/ Query \/ StartFailed \/ Observed \/ CloseAnswered \/ Finish \/ Retired
  <2>1. UNCHANGED <<out, disk, base, heard, idleAt>>
    BY <1>10 DEF Signal, Query, StartFailed, Observed, CloseAnswered, Finish, Retired,
                 QueueFrame, history, workerVars
  <2> QED  BY <1>0, <1>2, <2>1, OutSteps
<1>11. CASE Started \/ TimerFires \/ OrphanFires
  <2>1. UNCHANGED <<out, disk, base, heard, idleAt>>
    BY <1>11 DEF Started, TimerFires, OrphanFires, StartRun, QueueFrame, history
  <2> QED  BY <1>0, <1>2, <2>1, OutSteps
<1>12. ASSUME NEW c \in Cycle, Begin(c) \/ Published(c) \/ Ask(c) \/ Checked(c) \/ Refreshed(c)
       PROVE  Told'
  <2>1. UNCHANGED <<out, disk, base, heard, idleAt>>
    BY <1>12 DEF Begin, Published, Ask, Checked, Refreshed, CycleFrame, QueueFrame
  <2> QED  BY <1>0, <1>2, <2>1, OutSteps
<1> QED  BY <1>4, <1>5, <1>6, <1>7, <1>8, <1>9, <1>10, <1>11, <1>12 DEF Next, LoopStep, WorkerStep

\* Nothing is reported at first.
LEMMA ToldInit ==
    ASSUME Init
    PROVE  Told
<1>1. \A i \in Input : disk[i] = 0 /\ heard[i] = 0 /\ base[i] = 0 /\ idleAt[i] = 0
  BY DEF Init
<1>2. \A i \in Input : About(i) = {}
  BY DEF Init, About
<1>3. 0 <= 0
  OBVIOUS
<1> QED  BY <1>1, <1>2, <1>3 DEF Told

-----------------------------------------------------------------------------
(* One request at a time.                                                  *)

\* Of the requests and replies of x, the channels lose at most the oldest.
SentKept(x) ==
    \E d \in {0, 1} : \A j \in Sent(x)' : j \in Nat /\ j + d \in Sent(x) /\ inq'[j] = inq[j + d]
RepliedKept(x) ==
    \E d \in {0, 1} : \A j \in Replied(x)' : j \in Nat /\ j + d \in Replied(x) /\ out'[j] = out[j + d]

\* Steps that deliver, serve or leave the channels alone.
LEMMA Kept ==
    ASSUME TypeOK, TypeOK', NEW x
    PROVE  /\ OutKept => RepliedKept(x)
           /\ inq' = inq => SentKept(x)
           /\ inq' = <<>> => SentKept(x)
           /\ \A m : Serves(m) => SentKept(x)
<1>1. DOMAIN out' \subseteq Nat /\ DOMAIN inq' \subseteq Nat
  <2>1. out' \in Seq(Message) /\ inq' \in Seq(Request)
    BY TypeFolded
  <2> QED  BY <2>1, LenProperties
<1>2. ASSUME OutKept PROVE RepliedKept(x)
  <2>1. PICK d \in {0, 1} : \A j \in DOMAIN out' : j + d \in DOMAIN out /\ out'[j] = out[j + d]
    BY <1>2 DEF OutKept
  <2>2. \A j \in Replied(x)' : j \in Nat /\ j + d \in Replied(x) /\ out'[j] = out[j + d]
    BY <1>1, <2>1 DEF Replied
  <2> QED  BY <2>2 DEF RepliedKept
<1>3. ASSUME inq' = inq PROVE SentKept(x)
  <2>1. \A j \in Sent(x)' : j \in Nat /\ j + 0 \in Sent(x) /\ inq'[j] = inq[j + 0]
    BY <1>1, <1>3 DEF Sent
  <2> QED  BY <2>1 DEF SentKept
<1>4. ASSUME inq' = <<>> PROVE SentKept(x)
  <2>1. DOMAIN inq' = {}
    BY <1>4
  <2>2. \A j \in Sent(x)' : FALSE
    BY <2>1 DEF Sent
  <2> QED  BY <2>2 DEF SentKept
<1>5. ASSUME NEW m, Serves(m) PROVE SentKept(x)
  <2>1. \A j \in DOMAIN inq' : j + 1 \in DOMAIN inq /\ inq'[j] = inq[j + 1]
    BY <1>5, ServesFields
  <2>2. \A j \in Sent(x)' : j \in Nat /\ j + 1 \in Sent(x) /\ inq'[j] = inq[j + 1]
    BY <1>1, <2>1 DEF Sent
  <2> QED  BY <2>2 DEF SentKept
<1> QED  BY <1>2, <1>3, <1>4, <1>5

\* What the launcher asks.
LEMMA AskedFields ==
    ASSUME SessionInv, NEW ans \in [Caller -> Status], NEW x \in Caller,
           NEW m \in {"refresh", "publish", "idle", "close"}, Asks(ans, x, m)
    PROVE  /\ \A y : y # x => SentKept(y)
           /\ Sent(x) = {} => /\ \A j \in Sent(x)' : inq'[j].m = m
                              /\ \A j, k \in Sent(x)' : j = k
<1> USE DEF SessionInv
<1>1. CASE inq' = inq
  <2>1. \A y : Sent(y)' = Sent(y) /\ \A j \in Sent(y)' : j \in Nat /\ j + 0 = j
    BY <1>1, Types DEF Sent
  <2>2. \A y : SentKept(y)
    <3> SUFFICES ASSUME NEW y PROVE SentKept(y)
      OBVIOUS
    <3>1. \A j \in Sent(y)' : j \in Nat /\ j + 0 \in Sent(y) /\ inq'[j] = inq[j + 0]
      BY <1>1, <2>1
    <3> QED  BY <3>1 DEF SentKept
  <2> QED  BY <2>1, <2>2
<1>2. CASE inq' = Append(inq, [m |-> m, by |-> x])
  <2>1. /\ DOMAIN inq' \subseteq Nat
        /\ \A j \in DOMAIN inq' : j \in DOMAIN inq \/ j = Len(inq')
        /\ \A j \in DOMAIN inq : inq'[j] = inq[j]
        /\ inq'[Len(inq')].m = m /\ inq'[Len(inq')].by = x
    <3>1. DOMAIN inq' = 1 .. Len(inq') /\ Len(inq') \in Nat
      BY <1>2, SendFields, Types
    <3>2. DOMAIN inq' \subseteq Nat
      BY <3>1
    <3> QED  BY <1>2, <3>2, SendFields
  <2>2. ASSUME NEW y, y # x PROVE SentKept(y)
    <3>1. \A j \in Sent(y)' : j \in Nat /\ j \in Sent(y) /\ inq'[j] = inq[j]
      BY <2>1, <2>2 DEF Sent
    <3>2. \A j \in Sent(y)' : j \in Nat /\ j + 0 \in Sent(y) /\ inq'[j] = inq[j + 0]
      BY <3>1
    <3> QED  BY <3>2 DEF SentKept
  <2>3. ASSUME Sent(x) = {} PROVE \A j \in Sent(x)' : j = Len(inq')
    BY <2>1, <2>3 DEF Sent
  <2> QED  BY <2>1, <2>2, <2>3
<1> QED  BY <1>1, <1>2 DEF Asks

\* What the worker replies.
LEMMA RepliedFields ==
    ASSUME TypeOK, NEW x, NEW is \in SUBSET Input
    PROVE  /\ PostsNone(is) => RepliedKept(x)
           /\ \A msg : /\ PostsOne(is, msg) /\ (msg.kind = "exit" \/ (msg.kind = "reply" /\ msg.to # x))
                       => RepliedKept(x)
           /\ \A msg : PostsOne(is, msg) /\ Replied(x) = {} =>
                 \A j \in Replied(x)' : j = Len(out') /\ out'[j] = msg
<1>1. ASSUME NEW ms \in Seq(Message), Len(ms) <= 1, Posts(is, ms), NEW j \in Replied(x)'
      PROVE  /\ j \in Nat
             /\ \/ j \in Replied(x) /\ out'[j] = out[j]
                \/ Len(ms) = 1 /\ j = Len(out') /\ out'[j] = ms[1] /\ ms[1].kind = "reply" /\ ms[1].to = x
  <2>1. j \in DOMAIN out' /\ out'[j].kind = "reply" /\ out'[j].to = x
    BY <1>1 DEF Replied
  <2>2. j \in Nat
    BY <1>1, <2>1, PostsFields
  <2>3. CASE j \in DOMAIN out
    BY <1>1, <2>1, <2>2, <2>3, PostsFields DEF Replied
  <2>4. CASE j \in Fresh
    BY <1>1, <2>1, <2>2, <2>4, PostsFields, Kinds DEF IsReport
  <2> QED  BY <2>1, <2>3, <2>4 DEF Fresh
<1>2. ASSUME \A j \in Replied(x)' : j \in Nat /\ j \in Replied(x) /\ out'[j] = out[j]
      PROVE  RepliedKept(x)
  <2>1. \A j \in Replied(x)' : j \in Nat /\ j + 0 \in Replied(x) /\ out'[j] = out[j + 0]
    BY <1>2
  <2> QED  BY <2>1 DEF RepliedKept
<1>3. ASSUME PostsNone(is) PROVE RepliedKept(x)
  <2>1. PICK ms \in Seq(Message) : Len(ms) = 0 /\ Posts(is, ms)
    BY <1>3 DEF PostsNone
  <2>2. Len(ms) <= 1 /\ Len(ms) # 1
    BY <2>1
  <2> QED  BY <1>1, <1>2, <2>1, <2>2
<1>4. ASSUME NEW msg, PostsOne(is, msg)
      PROVE  \A j \in Replied(x)' :
                /\ j \in Nat
                /\ \/ j \in Replied(x) /\ out'[j] = out[j]
                   \/ j = Len(out') /\ out'[j] = msg /\ msg.kind = "reply" /\ msg.to = x
  <2>1. PICK ms \in Seq(Message) : Len(ms) = 1 /\ ms[1] = msg /\ Posts(is, ms)
    BY <1>4 DEF PostsOne
  <2>2. Len(ms) <= 1
    BY <2>1
  <2> QED  BY <1>1, <2>1, <2>2
<1>5. ASSUME NEW msg, PostsOne(is, msg),
             msg.kind = "exit" \/ (msg.kind = "reply" /\ msg.to # x)
      PROVE  RepliedKept(x)
  <2>1. \A j \in Replied(x)' : j \in Nat /\ j \in Replied(x) /\ out'[j] = out[j]
    BY <1>4, <1>5
  <2> QED  BY <1>2, <2>1
<1>6. ASSUME NEW msg, PostsOne(is, msg), Replied(x) = {}
      PROVE  \A j \in Replied(x)' : j = Len(out') /\ out'[j] = msg
  BY <1>4, <1>6
<1> QED  BY <1>3, <1>5, <1>6

\* Places that are shifted by the same distance stay apart.
LEMMA Shifted == \A j, k \in Nat, d \in {0, 1} : j + d = k + d => j = k
OBVIOUS

\* A cycle that is not concerned.
LEMMA LoneRests ==
    ASSUME TypeOK, NEW c \in Cycle, Lone(c), Obeyed(c), SentKept(c), RepliedKept(c),
           answer'[c] = answer[c], cyc'[c].st = cyc[c].st, cyc'[c].change = cyc[c].change
    PROVE  Lone(c)' /\ Obeyed(c)'
<1>1. PICK d \in {0, 1} : \A j \in Sent(c)' : j \in Nat /\ j + d \in Sent(c) /\ inq'[j] = inq[j + d]
  BY DEF SentKept
<1>2. PICK e \in {0, 1} : \A j \in Replied(c)' : j \in Nat /\ j + e \in Replied(c) /\ out'[j] = out[j + e]
  BY DEF RepliedKept
<1>3. \A j, k \in Sent(c)' : j = k
  <2> SUFFICES ASSUME NEW j \in Sent(c)', NEW k \in Sent(c)' PROVE j = k
    OBVIOUS
  <2>1. j + d = k + d /\ j \in Nat /\ k \in Nat
    BY <1>1 DEF Lone
  <2> QED  BY <2>1, Shifted
<1>4. \A j, k \in Replied(c)' : j = k
  <2> SUFFICES ASSUME NEW j \in Replied(c)', NEW k \in Replied(c)' PROVE j = k
    OBVIOUS
  <2>1. j + e = k + e /\ j \in Nat /\ k \in Nat
    BY <1>2 DEF Lone
  <2> QED  BY <2>1, Shifted
<1>5. /\ Sent(c) = {} => Sent(c)' = {}
      /\ Replied(c) = {} => Replied(c)' = {}
  BY <1>1, <1>2
<1>6. \A j \in Sent(c)' : inq'[j].m = cyc'[c].st
  BY <1>1 DEF Lone
<1>7. Lone(c)'
  BY <1>3, <1>4, <1>5, <1>6 DEF Lone
<1>8. Obeyed(c)'
  BY <1>2 DEF Obeyed
<1> QED  BY <1>7, <1>8

\* The worker answers the request of a cycle.
LEMMA LoneServed ==
    ASSUME TypeOK, TypeOK', NEW c \in Cycle, Lone(c), Obeyed(c), NEW m, Serves(m),
           NEW is \in SUBSET Input, NEW ok \in BOOLEAN, PostsOne(is, Reply(Head(inq).by, ok)),
           UNCHANGED <<answer, cyc>>
    PROVE  Lone(c)' /\ Obeyed(c)'
<1>1. 1 \in DOMAIN inq /\ Head(inq) = inq[1] /\ inq[1].m = m /\ inq[1].by \in Caller
  BY ServesFields
<1>2. SentKept(c)
  BY Kept
<1> DEFINE msg == Reply(Head(inq).by, ok)
<1>3. msg.kind = "reply" /\ msg.to = inq[1].by /\ msg.ok = ok /\ PostsOne(is, msg)
  BY <1>1, MessageFields
<1> HIDE DEF msg
<1>4. CASE inq[1].by # c
  <2>1. RepliedKept(c)
    BY <1>3, <1>4, RepliedFields
  <2> QED  BY <1>2, <2>1, LoneRests
<1>5. CASE inq[1].by = c
  <2>1. 1 \in Sent(c) /\ \A j \in Sent(c) : j = 1
    BY <1>1, <1>5 DEF Sent, Lone
  <2>2. Replied(c) = {} /\ answer[c] = "wait" /\ cyc[c].st = m
    BY <1>1, <2>1 DEF Lone
  <2>3. Sent(c)' = {}
    <3>1. \A j \in DOMAIN inq' : j \in Nat /\ j # 0 /\ j + 1 \in DOMAIN inq /\ inq'[j] = inq[j + 1]
      <4>1. DOMAIN inq' = 1 .. Len(inq') /\ inq' \in Seq(Request)
        BY ServesFields DEF Request
      <4>2. \A j \in DOMAIN inq' : j \in Nat /\ j # 0
        BY <4>1
      <4> QED  BY <4>2, ServesFields
    <3>2. ASSUME NEW j \in Sent(c)' PROVE FALSE
      <4>1. j + 1 \in Sent(c) /\ j \in Nat /\ j # 0
        BY <3>1, <3>2 DEF Sent
      <4>2. j + 1 = 1
        BY <2>1, <4>1
      <4> QED  BY <4>1, <4>2
    <3> QED  BY <3>2
  <2>4. \A j \in Replied(c)' : j = Len(out') /\ out'[j] = msg
    BY <1>3, <2>2, RepliedFields
  <2>5. Lone(c)'
    BY <2>2, <2>3, <2>4 DEF Lone
  <2>6. Obeyed(c)'
    BY <1>3, <2>2, <2>4 DEF Obeyed
  <2> QED  BY <2>5, <2>6
<1> QED  BY <1>4, <1>5

\* The worker's other steps.
LEMMA LoneWorker ==
    ASSUME SessionInv, ~closed, NEW c \in Cycle, Lone(c), Obeyed(c),
           WorkerStep \/ RefreshFails \/ WorkerDies
    PROVE  Lone(c)' /\ Obeyed(c)'
<1>0. /\ TypeOK /\ Closing /\ TypeOK' /\ WorkerFrame /\ UNCHANGED <<answer, cyc, selected>>
      /\ c \notin {"start", "settle", "close"}
  BY WorkerSteps, WorkerRests, Domains DEF SessionInv, WorkerFrame, residentVars
<1>1. ASSUME SentKept(c), RepliedKept(c) PROVE Lone(c)' /\ Obeyed(c)'
  BY <1>0, <1>1, LoneRests
<1>2. CASE FirstRefresh \/ AwaitIdle \/ \E i \in Input : Notify(i)
  BY <1>0, <1>1, <1>2, Kept, OutSteps DEF FirstRefresh, AwaitIdle, Notify
<1>3. ASSUME NEW is \in SUBSET Input, NEW x \in Caller, x # c, PostsOne(is, Reply(x, TRUE))
      PROVE  RepliedKept(c)
  <2> DEFINE msg == Reply(x, TRUE)
  <2>1. msg.kind = "reply" /\ msg.to = x /\ PostsOne(is, msg)
    BY <1>3, MessageFields
  <2> HIDE DEF msg
  <2> QED  BY <1>0, <1>3, <2>1, RepliedFields
<1>4. CASE Reconcile \/ AnswerIdle
  <2>1. RepliedKept(c)
    BY <1>0, <1>3, <1>4, WorkerPosts, Domains
  <2>2. SentKept(c)
    BY <1>0, <1>4, Kept DEF Reconcile, AnswerIdle
  <2> QED  BY <1>1, <2>1, <2>2
<1>5. CASE Refresh
  <2>1. PostsOne({"listing"}, Reply(Head(inq).by, TRUE)) /\ {"listing"} \in SUBSET Input
        /\ Serves("refresh")
    BY <1>0, <1>5, WorkerPosts, Domains DEF Refresh
  <2> DEFINE is == {"listing"}
             ok == TRUE
  <2>2. is \in SUBSET Input /\ ok \in BOOLEAN /\ PostsOne(is, Reply(Head(inq).by, ok)) /\ ok
    BY <2>1
  <2> HIDE DEF is, ok
  <2> QED  BY <1>0, <2>1, <2>2, LoneServed
<1>6. CASE RefreshFails
  <2>1. PostsOne({}, Reply(Head(inq).by, FALSE)) /\ {} \in SUBSET Input /\ Serves("refresh")
    BY <1>0, <1>6, WorkerPosts DEF RefreshFails
  <2> DEFINE m == "refresh"
             ok == FALSE
  <2>2. m # "publish" /\ ok \in BOOLEAN /\ PostsOne({}, Reply(Head(inq).by, ok)) /\ Serves(m)
    BY <2>1
  <2> HIDE DEF ok, m
  <2> QED  BY <1>0, <2>1, <2>2, LoneServed
<1>7. CASE Publish
  <2>1. PICK ok \in {TRUE, ~Faults} :
           PostsOne({}, Reply(Head(inq).by, ok))
    BY <1>0, <1>7, WorkerPosts
  <2>2. ok \in BOOLEAN /\ Serves("publish") /\ {} \in SUBSET Input
    BY <1>7, <2>1 DEF Publish
  <2> QED  BY <1>0, <2>1, <2>2, LoneServed
<1>8. CASE CloseTopology \/ WorkerExit
  BY <1>0, <1>8, ServingLeaves DEF CloseTopology, WorkerExit, Closing
<1>9. CASE WorkerDies
  <2>1. PICK clean \in BOOLEAN : PostsOne({}, [kind |-> "exit", clean |-> clean])
    BY <1>0, <1>9, WorkerPosts
  <2> DEFINE msg == [kind |-> "exit", clean |-> clean]
  <2>2. msg.kind = "exit" /\ {} \in SUBSET Input /\ PostsOne({}, msg)
    BY <2>1
  <2> HIDE DEF msg
  <2>3. RepliedKept(c)
    BY <1>0, <2>2, RepliedFields
  <2>4. SentKept(c)
    BY <1>0, <1>9, Kept DEF WorkerDies
  <2> QED  BY <1>1, <2>3, <2>4
<1>10. CASE Decide
  <2>1. RepliedKept(c)
    BY <1>0, <1>10, WorkerPosts, RepliedFields
  <2>2. SentKept(c)
    BY <1>0, <1>10, Kept DEF Decide
  <2> QED  BY <1>1, <2>1, <2>2
<1> QED  BY <1>2, <1>4, <1>5, <1>6, <1>7, <1>8, <1>9, <1>10 DEF WorkerStep

-----------------------------------------------------------------------------
(* Warm Programs follow the reports.                                       *)

\* Nothing a warm Program depends on changes.
LEMMA ProgramsRest ==
    ASSUME ProgramsFollow, UNCHANGED <<prog, heard, note, buf, closed>>,
           \A c \in Cycle : cyc'[c].st = cyc[c].st /\ cyc'[c].change = cyc[c].change
    PROVE  ProgramsFollow'
BY DEF ProgramsFollow, Owing

\* The worker changes no Program and notes nothing.
LEMMA FollowingWorker ==
    ASSUME FollowInv, WorkerStep \/ RefreshFails \/ WorkerDies
    PROVE  Following'
<1>1. WorkerFrame
  BY WorkerRests
<1>2. SUFFICES ASSUME ~closed
               PROVE  (\A c \in Cycle : Lone(c)' /\ Obeyed(c)') /\ ProgramsFollow'
  BY <1>1 DEF Following, WorkerFrame, loopVars
<1>3. (\A c \in Cycle : Lone(c) /\ Obeyed(c)) /\ ProgramsFollow /\ SessionInv
  BY <1>2 DEF FollowInv, Following
<1>4. \A c \in Cycle : Lone(c)' /\ Obeyed(c)'
  BY <1>2, <1>3, LoneWorker
<1>5. ProgramsFollow'
  BY <1>1, <1>3, ProgramsRest DEF WorkerFrame, loopVars, residentVars
<1> QED  BY <1>4, <1>5

\* A report is noted.
LEMMA FollowingEvent ==
    ASSUME FollowInv, OnEvent
    PROVE  Following'
<1>0. TypeOK /\ TypeOK' /\ closed' = closed
  BY OnEventKeeps DEF FollowInv, SessionInv, OnEvent
<1>1. SUFFICES ASSUME ~closed
               PROVE  (\A c \in Cycle : Lone(c)' /\ Obeyed(c)') /\ ProgramsFollow'
  BY <1>0 DEF Following
<1>2. (\A c \in Cycle : Lone(c) /\ Obeyed(c)) /\ ProgramsFollow
  BY <1>1 DEF FollowInv, Following
<1>3. out # <<>> /\ out' = Tail(out) /\ UNCHANGED <<inq, answer, cyc, selected, prog, buf>>
  BY DEF OnEvent, residentVars
<1>4. \A c \in Cycle : Lone(c)' /\ Obeyed(c)'
  <2>1. \A c \in Cycle : SentKept(c) /\ RepliedKept(c)
    BY <1>0, <1>3, OutSteps, Kept
  <2> QED  BY <1>0, <1>2, <1>3, <2>1, LoneRests
<1>5. ProgramsFollow'
  <2> DEFINE msg == Head(out)
             h == IF msg.kind = "input" THEN "source" ELSE "listing"
  <2>1. /\ heard' = [heard EXCEPT ![h] = msg.saw]
        /\ h = "listing" => note' = {"reload"}
        /\ h # "listing" => note' = IF "reload" \in note THEN note ELSE note \cup {"source"}
    BY <1>1 DEF OnEvent
  <2> HIDE DEF msg, h
  <2>2. CASE h = "listing"
    <3>1. \A e \in Entry, i \in Input : Owing(e, i)'
      BY <2>1, <2>2 DEF Owing
    <3> QED  BY <3>1 DEF ProgramsFollow
  <2>3. CASE h # "listing"
    <3>1. "reload" \in note' \/ ("source" \in note' /\ "reload" \notin note)
      BY <2>1, <2>3
    <3>2. \A i \in Input : i # h => heard'[i] = heard[i]
      BY <2>1, <1>0, Types DEF Versions
    <3>3. h = "source"
      BY <2>3 DEF h
    <3>4. ASSUME NEW e \in Entry, NEW i \in Input, ~Owing(e, i)'
          PROVE  i # "source" /\ ~Owing(e, i)
      <4>1. i # "source"
        BY <3>1, <3>4 DEF Owing
      <4>2. "reload" \in note => "reload" \in note'
        BY <2>1, <2>3
      <4> QED  BY <1>3, <3>4, <4>1, <4>2 DEF Owing
    <3> QED  BY <1>0, <1>2, <1>3, <3>2, <3>3, <3>4 DEF ProgramsFollow
  <2> QED  BY <2>2, <2>3
<1> QED  BY <1>4, <1>5

\* A reply reaches the one who waits for it.
LEMMA FollowingReply ==
    ASSUME FollowInv, OnReply
    PROVE  Following'
<1>0. TypeOK /\ TypeOK' /\ closed' = closed
  BY OnReplyKeeps DEF FollowInv, SessionInv, OnReply, loopVars
<1>1. SUFFICES ASSUME ~closed
               PROVE  (\A c \in Cycle : Lone(c)' /\ Obeyed(c)') /\ ProgramsFollow'
  BY <1>0 DEF Following
<1>2. (\A c \in Cycle : Lone(c) /\ Obeyed(c)) /\ ProgramsFollow
  BY <1>1 DEF FollowInv, Following
<1> DEFINE msg == Head(out)
<1>3. /\ out # <<>> /\ out' = Tail(out) /\ msg.kind = "reply"
      /\ answer' = IF answer[msg.to] = "wait"
                   THEN [answer EXCEPT ![msg.to] = IF msg.ok THEN "ok" ELSE "err"]
                   ELSE answer
      /\ UNCHANGED <<inq, cyc, selected, prog, buf, heard, note>>
  BY DEF OnReply, residentVars, history, loopVars
<1>4. msg \in Message /\ msg = out[1] /\ 1 \in DOMAIN out /\ msg.to \in Caller /\ msg.ok \in BOOLEAN
  BY <1>0, <1>3, TakesFields, MessageFields
<1> HIDE DEF msg
<1>5. ASSUME NEW c \in Cycle PROVE Lone(c)' /\ Obeyed(c)'
  <2>1. SentKept(c) /\ RepliedKept(c)
    BY <1>0, <1>3, OutSteps, Kept
  <2>2. CASE msg.to # c
    <3>1. answer'[c] = answer[c]
      BY <1>0, <1>3, <1>4, <2>2, LoopTypes, Domains
    <3> QED  BY <1>0, <1>2, <1>3, <2>1, <3>1, LoneRests
  <2>3. CASE msg.to = c
    <3>1. 1 \in Replied(c)
      BY <1>3, <1>4, <2>3 DEF Replied
    <3>2. /\ answer[c] = "wait" /\ Sent(c) = {} /\ \A j \in Replied(c) : j = 1
          /\ cyc[c].st \in {"publish", "refresh"}
      BY <1>2, <3>1 DEF Lone
    <3>3. answer'[c] = IF msg.ok THEN "ok" ELSE "err"
      BY <1>0, <1>3, <1>4, <2>3, <3>2, LoopTypes
    <3>4. Sent(c)' = {}
      BY <1>3, <3>2 DEF Sent
    <3>5. Replied(c)' = {}
      <4>1. ASSUME NEW j \in Replied(c)' PROVE FALSE
        <5>1. j \in DOMAIN out' /\ j \in Nat /\ j # 0
          <6>1. DOMAIN out' = 1 .. Len(out') /\ Len(out') \in Nat
            BY <1>0, <1>3, TakesFields, Types
          <6>2. j \in DOMAIN out'
            BY <4>1 DEF Replied
          <6> QED  BY <6>1, <6>2
        <5>2. j + 1 \in Replied(c)
          BY <1>0, <1>3, <4>1, TakesFields DEF Replied
        <5>3. j + 1 = 1
          BY <3>2, <5>2
        <5> QED  BY <5>1, <5>3
      <4> QED  BY <4>1
    <3>6. Lone(c)'
      BY <1>3, <3>2, <3>3, <3>4, <3>5 DEF Lone
    <3>7. Obeyed(c)'
      BY <1>2, <1>3, <1>4, <3>1, <3>3, <3>5 DEF Obeyed
    <3> QED  BY <3>6, <3>7
  <2> QED  BY <2>2, <2>3
<1>6. ProgramsFollow'
  BY <1>0, <1>2, <1>3, ProgramsRest
<1> QED  BY <1>5, <1>6

\* Nothing the cycles depend on changes.
LEMMA FollowingRests ==
    ASSUME FollowInv, TypeOK', ~closed, closed' = closed, UNCHANGED <<out, cyc, heard, note, residentVars>>,
           \A c \in Cycle : answer'[c] = answer[c] /\ SentKept(c)
    PROVE  Following'
<1>1. (\A c \in Cycle : Lone(c) /\ Obeyed(c)) /\ ProgramsFollow /\ TypeOK
  BY DEF FollowInv, Following, SessionInv
<1>2. \A c \in Cycle : RepliedKept(c)
  BY <1>1, OutSteps, Kept
<1>3. \A c \in Cycle : Lone(c)' /\ Obeyed(c)'
  BY <1>1, <1>2, LoneRests DEF residentVars
<1>4. ProgramsFollow'
  BY <1>1, ProgramsRest DEF residentVars
<1> QED  BY <1>3, <1>4 DEF Following

\* The launcher's other steps between cycles.
LEMMA FollowingOthers ==
    ASSUME FollowInv, \/ \E i \in Input : Edit(i)
                      \/ Signal \/ Query \/ OnExit \/ StartFailed \/ Retired \/ Observed
                      \/ CloseFailed \/ CloseAnswered \/ Finish
    PROVE  Following'
<1>0. SessionInv /\ TypeOK /\ TypeOK' /\ answer \in [Caller -> Status]
  BY SessionNext, LoopTypes DEF FollowInv, SessionInv, Next, LoopStep
<1>1. CASE \/ Signal \/ OnExit \/ StartFailed \/ CloseFailed \/ CloseAnswered \/ Finish
  <2>1. closed'
    BY <1>0, <1>1 DEF SessionInv, Closing, Signal, OnExit, StartFailed, CloseFailed, CloseAnswered,
                      Finish, Shutdown, NoShutdown, loopVars
  <2> QED  BY <2>1 DEF Following
<1>2. CASE (\E i \in Input : Edit(i)) \/ Retired
  <2>1. UNCHANGED <<out, inq, cyc, heard, note, selected, prog, buf, answer, closed>>
    BY <1>2 DEF Edit, Retired, workerVars, loopVars, residentVars, history
  <2>2. \A c \in Cycle : SentKept(c)
    BY <1>0, <2>1, Kept
  <2>3. CASE closed
    BY <2>1, <2>3 DEF Following
  <2>4. CASE ~closed
    <3>1. (\A c \in Cycle : Lone(c) /\ Obeyed(c)) /\ ProgramsFollow
      BY <2>4 DEF FollowInv, Following
    <3>2. \A c \in Cycle : RepliedKept(c)
      BY <1>0, <2>1, OutSteps, Kept
    <3>3. \A c \in Cycle : Lone(c)' /\ Obeyed(c)'
      BY <1>0, <2>1, <2>2, <3>1, <3>2, LoneRests
    <3>4. ProgramsFollow'
      BY <2>1, <3>1, ProgramsRest
    <3> QED  BY <3>3, <3>4 DEF Following
  <2> QED  BY <2>3, <2>4
<1>3. CASE Query
  <2>1. UNCHANGED <<out, cyc, heard, note, residentVars>> /\ closed' = closed
    BY <1>3 DEF Query, loopVars, history
  <2>2. \A c \in Cycle : answer'[c] = answer[c] /\ SentKept(c)
    <3>1. \A y \in Caller : y # "settle" => answer'[y] = answer[y]
      BY <1>0, <1>3, AsksFields, Domains DEF Query
    <3>2. \A y : y # "settle" => SentKept(y)
      BY <1>0, <1>3, AskedFields, Domains DEF Query
    <3> QED  BY <3>1, <3>2, Domains
  <2>3. CASE closed
    BY <2>1, <2>3 DEF Following
  <2> QED  BY <1>0, <2>1, <2>2, <2>3, FollowingRests
<1>4. CASE Observed
  <2> DEFINE ans == [answer EXCEPT !["settle"] = "none"]
  <2>1. \A c \in Cycle : ans[c] = answer[c]
    BY <1>0, Domains
  <2>2. UNCHANGED <<out, heard>> /\ (closed' \/ NoShutdown(ans, Outcome))
    BY <1>4 DEF Observed, Outcome, Idle, Shutdown, history
  <2> HIDE DEF ans
  <2>3. CASE closed'
    BY <2>3 DEF Following
  <2>4. CASE ~closed' /\ NoShutdown(ans, Outcome)
    <3>1. UNCHANGED <<out, cyc, heard, note, residentVars, inq, closed>> /\ answer' = ans
      BY <2>2, <2>4 DEF NoShutdown, loopVars
    <3> QED  BY <1>0, <2>1, <2>4, <3>1, Kept, FollowingRests
  <2> QED  BY <2>2, <2>3, <2>4
<1> QED  BY <1>1, <1>2, <1>3, <1>4


\* A cycle takes over what was noted.
LEMMA FollowingRuns ==
    ASSUME FollowInv, Started \/ TimerFires \/ OrphanFires
    PROVE  Following'
<1>0. SessionInv /\ TypeOK /\ TypeOK' /\ answer \in [Caller -> Status]
  BY RunKeeps, LoopTypes DEF FollowInv, SessionInv
<1>1. PICK left : StartRun(left)
  BY DEF Started, TimerFires, OrphanFires
<1>2. UNCHANGED <<inq, out>> /\ \A c \in Cycle : answer'[c] = answer[c]
  BY <1>0, Domains DEF Started, TimerFires, OrphanFires
<1>3. UNCHANGED <<closed, selected, buf, prog, heard>>
  BY <1>1, StartRunFields DEF residentVars, history
<1>4. CASE closed
  BY <1>3, <1>4 DEF Following
<1>5. CASE ~closed
  <2>1. (\A d \in Cycle : Lone(d) /\ Obeyed(d)) /\ ProgramsFollow
    BY <1>5 DEF FollowInv, Following
  <2>2. PICK c \in Cycle : Begins(c)
    BY <1>1, <1>5, StartRunFields
  <2>3. /\ \A d \in Cycle : d # c => cyc'[d] = cyc[d]
        /\ cyc'[c].st = "begin" /\ cyc'[c].change = note /\ note' = {} /\ cyc[c].st = "off"
    BY <1>0, <2>2, BeginsFields DEF Begins
  <2>4. \A d \in Cycle : SentKept(d) /\ RepliedKept(d)
    BY <1>0, <1>2, OutSteps, Kept
  <2>5. \A d \in Cycle \ {c} : Lone(d)' /\ Obeyed(d)'
    BY <1>0, <1>2, <1>3, <2>1, <2>3, <2>4, LoneRests
  <2>6. Lone(c)' /\ Obeyed(c)'
    <3>1. answer[c] = "none" /\ Sent(c) = {} /\ Replied(c) = {}
      BY <1>0, <2>1, <2>3 DEF Lone
    <3>2. answer'[c] = "none" /\ Sent(c)' = {} /\ Replied(c)' = {}
      BY <1>2, <3>1 DEF Sent, Replied
    <3> QED  BY <2>3, <3>2 DEF Lone, Obeyed
  <2>7. ProgramsFollow'
    <3>1. ASSUME NEW e \in Entry, NEW i \in Input, Owing(e, i)
          PROVE  Owing(e, i)'
      BY <1>3, <2>3, <3>1 DEF Owing
    <3> QED  BY <1>3, <2>1, <3>1 DEF ProgramsFollow
  <2> QED  BY <2>5, <2>6, <2>7 DEF Following
<1> QED  BY <1>4, <1>5

\* What a step of a cycle has to leave for the others.
LEMMA FollowingFolded ==
    ASSUME FollowInv, ~closed, NEW c \in Cycle, CycleFrame, TypeOK', ProgramsFollow',
           Lone(c)', Obeyed(c)',
           \A d \in Cycle : d # c => /\ cyc[d].st = "off" /\ cyc'[d].st = "off"
                                     /\ answer'[d] = answer[d] /\ SentKept(d)
    PROVE  Following'
<1>1. (\A d \in Cycle : Lone(d) /\ Obeyed(d)) /\ TypeOK
  BY DEF FollowInv, Following, SessionInv
<1>2. out' = out
  BY DEF CycleFrame
<1>3. \A d \in Cycle : RepliedKept(d)
  BY <1>1, <1>2, OutSteps, Kept
<1>4. ASSUME NEW d \in Cycle, d # c PROVE Lone(d)' /\ Obeyed(d)'
  <2>1. answer'[d] = "none" /\ Sent(d) = {} /\ Replied(d) = {} /\ SentKept(d)
    BY <1>1, <1>4 DEF Lone
  <2>2. Sent(d)' = {} /\ Replied(d)' = {}
    BY <1>3, <2>1 DEF SentKept, RepliedKept
  <2> QED  BY <1>4, <2>1, <2>2 DEF Lone, Obeyed
<1> QED  BY <1>4 DEF Following


\* A cycle that steps is alone, and was not retired.
LEMMA CycleAlone ==
    ASSUME FollowInv, ~closed, NEW c \in Cycle, cyc[c].st # "off"
    PROVE  /\ SessionInv /\ TypeOK /\ Open(c) /\ ~failed /\ c \in Caller
           /\ \A d \in Cycle : d # c => cyc[d].st = "off"
           /\ Lone(c) /\ Obeyed(c) /\ ProgramsFollow
           /\ answer \in [Caller -> Status] /\ cyc \in [Cycle -> CycleState]
           /\ cyc[c] \in CycleState
           /\ (~selected => \A e \in Entry : prog[e] = Cold)
           /\ (answer[c] # "wait" => Sent(c) = {} /\ Replied(c) = {})
<1>1. SessionInv /\ TypeOK /\ Serial /\ LastWord /\ Disposed
  BY DEF FollowInv, SessionInv
<1>2. Open(c) /\ \A d \in Cycle : d # c => cyc[d].st = "off"
  BY <1>1 DEF Serial, Open
<1>3. ~failed /\ (~selected => \A e \in Entry : prog[e] = Cold)
  BY <1>1 DEF LastWord, Disposed
<1>4. Lone(c) /\ Obeyed(c) /\ ProgramsFollow
  BY DEF FollowInv, Following
<1>5. answer[c] # "wait" => Sent(c) = {} /\ Replied(c) = {}
  BY <1>4 DEF Lone
<1>6. /\ answer \in [Caller -> Status] /\ cyc \in [Cycle -> CycleState]
      /\ cyc[c] \in CycleState /\ c \in Caller
  BY <1>1, LoopTypes, Domains
<1> QED  BY <1>1, <1>2, <1>3, <1>4, <1>5, <1>6

\* A cycle ends while what it took was delivered, or no Program is warm.
LEMMA FollowingEnds ==
    ASSUME FollowInv, ~closed, NEW c \in Cycle, cyc[c].st # "off", CycleFrame, TypeOK',
           Ends(c) \/ Throws(c), UNCHANGED <<inq, residentVars>>, answer[c] # "wait",
           answer'[c] = "none", \A d \in Cycle : d # c => answer'[d] = answer[d],
           cyc[c].st \in {"begin", "publish"} => ~selected
    PROVE  Following'
<1>1. /\ TypeOK /\ Sent(c) = {} /\ Replied(c) = {} /\ ProgramsFollow
      /\ \A d \in Cycle : d # c => cyc[d].st = "off"
      /\ (~selected => \A e \in Entry : prog[e] = Cold)
  BY CycleAlone
<1>2. cyc'[c] = Off /\ \A d \in Cycle : d # c => cyc'[d] = cyc[d]
  BY <1>1, EndsFields
<1>3. UNCHANGED <<out, heard, note, closed, selected, buf, prog>>
  BY DEF CycleFrame, residentVars
<1>4. Lone(c)' /\ Obeyed(c)'
  <2>1. Sent(c)' = {} /\ Replied(c)' = {}
    BY <1>1, <1>3 DEF Sent, Replied
  <2> QED  BY <1>2, <2>1, OffTyped DEF Lone, Obeyed
<1>5. ProgramsFollow'
  <2>1. CASE ~selected
    BY <1>1, <1>3, <2>1 DEF ProgramsFollow
  <2>2. CASE cyc[c].st \notin {"begin", "publish"}
    <3>1. ASSUME NEW e \in Entry, NEW i \in Input, Owing(e, i)
          PROVE  Owing(e, i)'
      BY <1>1, <1>3, <2>2, <3>1 DEF Owing
    <3> QED  BY <1>1, <1>3, <3>1 DEF ProgramsFollow
  <2> QED  BY <2>1, <2>2
<1>6. \A d \in Cycle : SentKept(d)
  BY <1>1, Kept
<1> QED  BY <1>1, <1>2, <1>4, <1>5, <1>6, FollowingFolded

\* A cycle asks the worker.
LEMMA FollowingAsks ==
    ASSUME FollowInv, ~closed, NEW c \in Cycle, CycleFrame, TypeOK',
           NEW m \in {"publish", "refresh"},
           cyc[c].st = (IF m = "publish" THEN "begin" ELSE "check"),
           m = "publish" => "reload" \notin cyc[c].change,
           Asks(answer, c, m), cyc' = [cyc EXCEPT ![c].st = m], UNCHANGED residentVars
    PROVE  Following'
<1>0. cyc[c].st # "off" /\ cyc[c].st \notin {"publish", "refresh"}
  OBVIOUS
<1>1. /\ SessionInv /\ TypeOK /\ ~failed /\ Lone(c) /\ ProgramsFollow
      /\ cyc \in [Cycle -> CycleState] /\ c \in Caller /\ answer \in [Caller -> Status]
      /\ \A d \in Cycle : d # c => cyc[d].st = "off"
  BY <1>0, CycleAlone
<1>2. /\ cyc'[c].st = m /\ cyc'[c].change = cyc[c].change
      /\ \A d \in Cycle : d # c => cyc'[d] = cyc[d]
  BY <1>1 DEF CycleState
<1>3. UNCHANGED <<out, heard, note, closed, selected, buf, prog>>
  BY DEF CycleFrame, residentVars
<1>4. answer[c] = "none" /\ Sent(c) = {} /\ Replied(c) = {}
  BY <1>0, <1>1 DEF Lone
<1>5. answer'[c] = "wait" /\ \A d \in Cycle : d # c => answer'[d] = answer[d]
  BY <1>1, AsksFields, Domains
<1>6. /\ \A d \in Cycle : d # c => SentKept(d)
      /\ \A j \in Sent(c)' : inq'[j].m = m
      /\ \A j, k \in Sent(c)' : j = k
  BY <1>1, <1>4, AskedFields
<1>7. Lone(c)' /\ Obeyed(c)'
  <2>1. Replied(c)' = {}
    BY <1>3, <1>4 DEF Replied
  <2> QED  BY <1>2, <1>5, <1>6, <2>1 DEF Lone, Obeyed
<1>8. ProgramsFollow'
  <2>1. ASSUME NEW e \in Entry, NEW i \in Input, Owing(e, i)
        PROVE  Owing(e, i)'
    <3>1. CASE \E d \in Cycle : /\ cyc[d].st \in {"begin", "publish"}
                                /\ \/ "reload" \in cyc[d].change
                                   \/ i = "source" /\ i \in cyc[d].change
      <4>1. cyc[c].st = "begin" /\ ("reload" \in cyc[c].change \/ (i = "source" /\ i \in cyc[c].change))
        BY <1>0, <1>1, <3>1
      <4> QED  BY <1>2, <4>1 DEF Owing
    <3> QED  BY <1>3, <2>1, <3>1 DEF Owing
  <2> QED  BY <1>1, <1>3, <2>1 DEF ProgramsFollow
<1> QED  BY <1>0, <1>1, <1>2, <1>5, <1>6, <1>7, <1>8, FollowingFolded

\* A cycle resets the session: no Program is warm.
LEMMA FollowingReset ==
    ASSUME FollowInv, ~closed, NEW c \in Cycle, cyc[c].st # "off", CycleFrame, TypeOK',
           NEW change \in SUBSET {"source", "reload"}, ResetBy(c, change), inq' = inq,
           answer[c] # "wait", answer'[c] = "none",
           \A d \in Cycle : d # c => answer'[d] = answer[d]
    PROVE  Following'
<1>1. /\ TypeOK /\ Sent(c) = {} /\ Replied(c) = {}
      /\ \A d \in Cycle : d # c => cyc[d].st = "off"
  BY CycleAlone
<1>2. ResetTo(c, change)
  BY <1>1, ResetByFields
<1>3. out' = out
  BY DEF CycleFrame
<1>4. cyc'[c].st = "begin" /\ \A d \in Cycle : d # c => cyc'[d].st = "off"
  BY <1>1, <1>2 DEF ResetTo
<1>5. Lone(c)' /\ Obeyed(c)'
  <2>1. Sent(c)' = {} /\ Replied(c)' = {}
    BY <1>1, <1>3 DEF Sent, Replied
  <2> QED  BY <1>4, <2>1 DEF Lone, Obeyed
<1>6. ProgramsFollow'
  BY <1>2 DEF ResetTo, ProgramsFollow
<1>7. \A d \in Cycle : SentKept(d)
  BY <1>1, Kept
<1> QED  BY <1>1, <1>4, <1>5, <1>6, <1>7, FollowingFolded


\* Begin loses no change while nothing is selected, obeys a reload or publishes.
LEMMA FollowingBegin ==
    ASSUME FollowInv, ~closed, ~missed', NEW c \in Cycle, Begin(c)
    PROVE  Following'
<1>0. cyc[c].st = "begin" /\ cyc[c].st # "off" /\ CycleFrame
  BY DEF Begin
<1>1. /\ SessionInv /\ TypeOK' /\ Open(c) /\ Lone(c) /\ answer \in [Caller -> Status]
      /\ cyc[c].change \subseteq {"source", "reload"}
  BY <1>0, CycleAlone, BeginKeeps, LoopTypes DEF SessionInv
<1>2. answer[c] = "none"
  BY <1>0, <1>1 DEF Lone
<1>3. CASE Throws(c) /\ UNCHANGED <<answer, inq, residentVars>>
  <2>1. ~selected
    BY <1>1, <1>3 DEF Throws
  <2> QED  BY <1>0, <1>1, <1>2, <1>3, <2>1, FollowingEnds
<1>4. CASE ResetBy(c, cyc[c].change \ {"reload"}) /\ UNCHANGED <<answer, inq>>
  <2>1. cyc[c].change \ {"reload"} \in SUBSET {"source", "reload"}
    BY <1>1
  <2> QED  BY <1>0, <1>1, <1>2, <1>4, <2>1, FollowingReset
<1>5. CASE /\ "reload" \notin cyc[c].change /\ Asks(answer, c, "publish")
           /\ cyc' = [cyc EXCEPT ![c].st = "publish"] /\ UNCHANGED residentVars
  <2> DEFINE m == "publish"
  <2>1. /\ m \in {"publish", "refresh"} /\ cyc[c].st = (IF m = "publish" THEN "begin" ELSE "check")
        /\ (m = "publish" => "reload" \notin cyc[c].change)
        /\ Asks(answer, c, m) /\ cyc' = [cyc EXCEPT ![c].st = m]
    BY <1>0, <1>5
  <2> HIDE DEF m
  <2> QED  BY <1>0, <1>1, <1>5, <2>1, FollowingAsks
<1> QED  BY <1>3, <1>4, <1>5 DEF Begin

\* Published loses no change while nothing is selected, and buffers what the cycle
\* took for every entry.
LEMMA FollowingPublished ==
    ASSUME FollowInv, ~closed, ~missed', NEW c \in Cycle, Published(c)
    PROVE  Following'
<1>0. /\ cyc[c].st = "publish" /\ cyc[c].st # "off" /\ CycleFrame /\ inq' = inq
      /\ answer[c] \in {"ok", "err"} /\ answer' = [answer EXCEPT ![c] = "none"]
  BY DEF Published
<1>1. /\ SessionInv /\ TypeOK /\ TypeOK' /\ Open(c) /\ Obeyed(c) /\ ProgramsFollow
      /\ answer \in [Caller -> Status] /\ cyc \in [Cycle -> CycleState] /\ cyc[c] \in CycleState
      /\ Sent(c) = {} /\ Replied(c) = {}
      /\ \A d \in Cycle : d # c => cyc[d].st = "off"
      /\ (~selected => \A e \in Entry : prog[e] = Cold)
  BY <1>0, CycleAlone, PublishedKeeps DEF SessionInv
<1>2. /\ answer[c] # "wait" /\ answer'[c] = "none"
      /\ \A d \in Cycle : d # c => answer'[d] = answer[d]
  BY <1>0, <1>1, Domains
<1>3. CASE (answer[c] = "err" \/ ~Open(c)) /\ Throws(c) /\ UNCHANGED residentVars
  <2>1. ~selected
    BY <1>1, <1>3 DEF Throws
  <2> QED  BY <1>0, <1>1, <1>2, <1>3, <2>1, FollowingEnds
<1>4. CASE ResetBy(c, {})
  BY <1>0, <1>1, <1>2, <1>4, FollowingReset
<1>5. CASE /\ buf' = [e \in Entry |->
                        IF "source" \in cyc[c].change \/ buf[e] = "changed"
                        THEN "changed" ELSE "empty"]
           /\ cyc' = [cyc EXCEPT ![c].st = "check", ![c].entry = 1]
           /\ UNCHANGED <<prog, retiring>>
  <2>1. cyc'[c].st = "check" /\ \A d \in Cycle : d # c => cyc'[d] = cyc[d]
    BY <1>1, <1>5 DEF CycleState
  <2>2. UNCHANGED <<out, heard, note, closed, prog>>
    BY <1>0, <1>5 DEF CycleFrame
  <2>3. Lone(c)' /\ Obeyed(c)'
    <3>1. Sent(c)' = {} /\ Replied(c)' = {}
      BY <1>0, <1>1, <2>2 DEF Sent, Replied
    <3> QED  BY <1>2, <2>1, <3>1 DEF Lone, Obeyed
  <2>4. ProgramsFollow'
    <3>1. ASSUME NEW e \in Entry, NEW i \in Input, Owing(e, i)
          PROVE  Owing(e, i)'
      <4>1. /\ "source" \in cyc[c].change => buf'[e] = "changed"
            /\ buf[e] = "changed" => buf'[e] = "changed"
        BY <1>5
      <4>2. "reload" \notin cyc[c].change
        BY <1>0, <1>1 DEF Obeyed
      <4>3. CASE \E d \in Cycle : /\ cyc[d].st \in {"begin", "publish"}
                                  /\ \/ "reload" \in cyc[d].change
                                     \/ i = "source" /\ i \in cyc[d].change
        <5>1. i = "source" /\ i \in cyc[c].change
          BY <1>1, <4>2, <4>3
        <5> QED  BY <4>1, <5>1 DEF Owing
      <4> QED  BY <2>2, <3>1, <4>1, <4>3 DEF Owing
    <3> QED  BY <1>1, <2>2, <3>1 DEF ProgramsFollow
  <2>5. \A d \in Cycle : SentKept(d)
    BY <1>0, <1>1, Kept
  <2> QED  BY <1>0, <1>1, <1>2, <2>1, <2>3, <2>4, <2>5, FollowingFolded
<1> QED  BY <1>3, <1>4, <1>5 DEF Published

\* A check applies what is buffered for its entry, or leaves it cold.
LEMMA FollowingAsk ==
    ASSUME FollowInv, ~closed, NEW c \in Cycle, Ask(c)
    PROVE  Following'
<1> DEFINE e == cyc[c].entry
<1>0. /\ cyc[c].st = "check" /\ cyc[c].st # "off" /\ CycleFrame /\ e \in Entry
      /\ UNCHANGED <<selected, answer, inq>> /\ buf' = [buf EXCEPT ![e] = "none"]
  BY LoopTypes, EntriesAssumption DEF Ask, Entry, FollowInv, SessionInv
<1>1. /\ SessionInv /\ TypeOK /\ TypeOK' /\ Lone(c) /\ ProgramsFollow
      /\ answer \in [Caller -> Status] /\ cyc \in [Cycle -> CycleState] /\ cyc[c] \in CycleState
      /\ \A d \in Cycle : d # c => cyc[d].st = "off"
  BY <1>0, CycleAlone, AskKeeps DEF SessionInv
<1>2. answer[c] = "none" /\ Sent(c) = {} /\ Replied(c) = {}
  BY <1>0, <1>1 DEF Lone
<1>3. \E n : cyc' = [cyc EXCEPT ![c].entry = n]
  BY DEF Ask
<1>4. cyc'[c].st = "check" /\ \A d \in Cycle : d # c => cyc'[d] = cyc[d]
  BY <1>0, <1>1, <1>3 DEF CycleState
<1>5. PICK p \in {Applied(e), Cold} : prog' = [prog EXCEPT ![e] = p]
  BY DEF Ask
<1>6. UNCHANGED <<out, heard, note, closed>>
  BY <1>0 DEF CycleFrame
<1> HIDE DEF e
<1>7. Lone(c)' /\ Obeyed(c)'
  <2>1. Sent(c)' = {} /\ Replied(c)' = {}
    BY <1>0, <1>2, <1>6 DEF Sent, Replied
  <2> QED  BY <1>0, <1>2, <1>4, <2>1 DEF Lone, Obeyed
<1>8. ProgramsFollow'
  <2>1. \A x \in Entry, i \in Input : Owing(x, i) =>
           \/ "reload" \in note \/ (i = "source" /\ i \in note)
           \/ i = "source" /\ buf[x] = "changed"
    BY <1>0, <1>1 DEF Owing
  <2>2. /\ prog \in [Entry -> Versions \cup {Cold}] /\ disk \in [Input -> Nat]
        /\ heard \in [Input -> Nat] /\ buf \in [Entry -> {"none", "empty", "changed"}]
    BY <1>1, LoopTypes, Types DEF Versions, Version
  <2>3. \A i \in Input : disk[i] >= heard[i]
    BY <2>2 DEF FollowInv, Told
  <2>4. ASSUME NEW x \in Entry, NEW i \in Input
        PROVE  prog'[x] = Cold \/ prog'[x][i] >= heard'[i] \/ Owing(x, i)'
    <3>1. CASE x # e
      <4>1. prog'[x] = prog[x] /\ buf'[x] = buf[x]
        BY <1>0, <1>5, <2>2, <3>1
      <4> QED  BY <1>1, <1>6, <2>1, <4>1 DEF ProgramsFollow, Owing
    <3>2. CASE x = e /\ prog[e] = Cold
      <4>1. prog'[x] \in {disk, Cold}
        BY <1>5, <2>2, <3>2 DEF Applied
      <4> QED  BY <1>6, <2>3, <4>1
    <3>3. CASE x = e /\ prog[e] # Cold /\ buf[e] = "changed"
      <4> DEFINE q == [prog[e] EXCEPT !["source"] = disk["source"]]
      <4>1. prog[e] \in Versions
        BY <1>0, <2>2, <3>3
      <4>2. q["source"] = disk["source"] /\ \A k \in Input : k # "source" => q[k] = prog[e][k]
        BY <4>1, Domains DEF Versions
      <4>3. prog'[x] \in {q, Cold}
        BY <1>5, <2>2, <3>3 DEF Applied
      <4> HIDE DEF q
      <4>4. CASE i = "source"
        BY <1>6, <2>3, <4>2, <4>3, <4>4
      <4>5. CASE i # "source"
        BY <1>1, <1>6, <2>1, <3>3, <4>2, <4>3, <4>5 DEF ProgramsFollow, Owing
      <4> QED  BY <4>4, <4>5
    <3>4. CASE x = e /\ prog[e] # Cold /\ buf[e] # "changed"
      <4>1. prog'[x] \in {prog[x], Cold}
        BY <1>5, <2>2, <3>4 DEF Applied
      <4> QED  BY <1>1, <1>6, <2>1, <3>4, <4>1 DEF ProgramsFollow, Owing
    <3> QED  BY <3>1, <3>2, <3>3, <3>4
  <2> QED  BY <2>4 DEF ProgramsFollow
<1>9. \A d \in Cycle : SentKept(d)
  BY <1>0, <1>1, Kept
<1> QED  BY <1>0, <1>1, <1>4, <1>7, <1>8, <1>9, FollowingFolded

\* The checks are over, or the refresh that follows them.
LEMMA FollowingChecked ==
    ASSUME FollowInv, ~closed, NEW c \in Cycle, Checked(c) \/ Refreshed(c)
    PROVE  Following'
<1>1. /\ SessionInv /\ TypeOK' /\ Open(c) /\ answer \in [Caller -> Status] /\ CycleFrame
      /\ cyc[c].st \in {"check", "refresh"} /\ cyc[c].st # "off" /\ UNCHANGED residentVars
  BY CycleAlone, CheckedKeeps, RefreshedKeeps DEF SessionInv, Checked, Refreshed
<1>2. CASE Checked(c)
  <2> DEFINE m == "refresh"
  <2>1. /\ m \in {"publish", "refresh"} /\ cyc[c].st = (IF m = "publish" THEN "begin" ELSE "check")
        /\ (m = "publish" => "reload" \notin cyc[c].change)
        /\ Asks(answer, c, m) /\ cyc' = [cyc EXCEPT ![c].st = m]
    BY <1>1, <1>2 DEF Checked
  <2> HIDE DEF m
  <2> QED  BY <1>1, <2>1, FollowingAsks
<1>3. CASE Refreshed(c)
  <2>1. /\ answer[c] # "wait" /\ answer'[c] = "none" /\ inq' = inq /\ Ends(c)
        /\ \A d \in Cycle : d # c => answer'[d] = answer[d]
    BY <1>1, <1>3, Domains DEF Refreshed
  <2>2. cyc[c].st \notin {"begin", "publish"}
    BY <1>1
  <2> QED  BY <1>1, <2>1, <2>2, FollowingEnds
<1> QED  BY <1>2, <1>3

\* No cycle and no Program at first.
LEMMA FollowingInit == Init => Following
<1> SUFFICES ASSUME Init PROVE Following
  OBVIOUS
<1>1. \A c \in Cycle : answer[c] = "none" /\ cyc[c].st = "off"
  BY OffTyped, Domains DEF Init
<1>2. \A c \in Cycle : Sent(c) = {} /\ Replied(c) = {}
  <2>1. DOMAIN inq = {1} /\ inq[1].by = "start" /\ DOMAIN out = {}
    BY DEF Init
  <2> QED  BY <2>1, Domains DEF Sent, Replied
<1>3. ProgramsFollow
  BY DEF Init, ProgramsFollow
<1> QED  BY <1>1, <1>2, <1>3 DEF Following, Lone, Obeyed

\* Every step that loses no change keeps warm Programs in touch.
LEMMA FollowingNext ==
    ASSUME FollowInv, ~missed', [Next]_vars
    PROVE  Following'
<1>1. CASE Next
  <2>1. ASSUME NEW c \in Cycle, Begin(c) \/ Published(c) \/ Ask(c) \/ Checked(c) \/ Refreshed(c)
        PROVE  Following'
    <3>1. CASE closed
      <4>1. closed'
        BY <2>1, <3>1 DEF Begin, Published, Ask, Checked, Refreshed, CycleFrame
      <4> QED  BY <4>1 DEF Following
    <3> QED  BY <2>1, <3>1, FollowingBegin, FollowingPublished, FollowingAsk, FollowingChecked
  <2> QED  BY <1>1, <2>1, FollowingWorker, FollowingEvent, FollowingReply, FollowingRuns,
              FollowingOthers DEF Next, LoopStep
<1>2. CASE UNCHANGED vars
  <2>1. UNCHANGED <<inq, out, answer, cyc, heard, note, closed, residentVars>>
    BY <1>2 DEF vars, workerVars, loopVars, history
  <2>2. \A c \in Cycle : answer'[c] = answer[c] /\ Sent(c)' = Sent(c) /\ Replied(c)' = Replied(c)
    BY <2>1 DEF Sent, Replied
  <2>3. ProgramsFollow' <=> ProgramsFollow
    BY <2>1 DEF ProgramsFollow, Owing, residentVars
  <2> QED  BY <2>1, <2>2, <2>3 DEF FollowInv, Following, Lone, Obeyed, residentVars
<1> QED  BY <1>1, <1>2

\* The conjunction holds at first.
LEMMA FollowInvInit == Init => FollowInv
BY SessionInit, SerialInit, ToldInit, FollowingInit DEF FollowInv

\* Every step without an overlap or a loss keeps it.
LEMMA FollowInvNext ==
    ASSUME FollowInv, ~overlapped', ~missed', [Next]_vars
    PROVE  FollowInv'
<1>1. Told /\ UNCHANGED vars => Told'
  BY DEF Told, About, vars, workerVars, history
<1> QED  BY <1>1, SessionNext, SerialNext, ToldSteps, FollowingNext DEF FollowInv

\* A change that was reported is never lost on its way to a sidecar's Program: each
\* warm Program has it, or the launcher still owes it, until cycles overlap or a warm
\* cycle fails before it has buffered its changes.
THEOREM WatchProgramsFollow == Spec => []WarmProgramsFollow
<1> DEFINE Inv == SessionInv /\ (~overlapped => Serial)
                    /\ (~overlapped /\ ~missed => FollowInv)
<1>1. Init => Inv
  BY SessionInit, SerialInit, FollowInvInit
<1>2. Inv /\ [Next]_vars => Inv'
  BY SessionNext, SerialNext, FollowInvNext, HistoryGrows
<1>3. Inv => WarmProgramsFollow
  BY DEF FollowInv, Following, ProgramsFollow, WarmProgramsFollow
<1> HIDE DEF Inv
<1> QED  BY <1>1, <1>2, <1>3, PTL DEF Spec
=============================================================================
