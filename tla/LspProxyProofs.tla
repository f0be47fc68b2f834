--------------------------- MODULE LspProxyProofs ---------------------------
(***************************************************************************)
(* What the language-server proxy guarantees for every set of documents,   *)
(* plugins and requests: its types, one answer per request, and that       *)
(* findings and edits reach the editor only for the text they describe.    *)
(***************************************************************************)
EXTENDS LspProxy, TLAPS

-----------------------------------------------------------------------------
(* How a step may move a document.                                         *)

\* Generations grow; a clean document is its file; a text, and a clean state,
\* change only under a new generation.
DocMoves ==
    /\ doc' \in [Docs -> DocState]
    /\ \A d \in Docs :
         /\ doc'[d].diag >= doc[d].diag
         /\ doc'[d].gen >= doc[d].gen
         /\ ~doc'[d].dirty => doc'[d].program = doc'[d].text
         /\ doc'[d].diag = doc[d].diag => doc'[d].text = doc[d].text
         /\ doc'[d].gen = doc[d].gen =>
              doc'[d].text = doc[d].text /\ (doc'[d].dirty => doc[d].dirty)

\* Requests stay routed while generations only move forward.
LEMMA MovesKeepRequests ==
  ASSUME ProxyInv, DocMoves, UNCHANGED req
  PROVE  RequestsHonest'
<1> SUFFICES ASSUME NEW r \in Reqs
             PROVE  OneAnswer(req[r])' /\ EditIsCurrent(req[r])'
                    /\ EditIsLocal(req[r])'
  BY DEF RequestsHonest
<1> DEFINE q == req[r]
<1>1. q' = q /\ q \in ReqState /\ OneAnswer(q) /\ EditIsCurrent(q)
      /\ EditIsLocal(q)
  BY DEF ProxyInv, TypeOK, RequestsHonest
<1>2. doc \in [Docs -> DocState]
  BY DEF ProxyInv, TypeOK, DocumentTypes
<1>3. OneAnswer(q)' /\ EditIsLocal(q)'
  BY <1>1 DEF OneAnswer, EditIsLocal
<1>4. EditIsCurrent(q)'
  <2> SUFFICES ASSUME q.at \notin {"unsent", "done", "dropped"},
                      NEW d \in q.clean
               PROVE  /\ q.gens[d] <= doc'[d].gen
                      /\ q.gens[d] = doc'[d].gen =>
                           /\ q.kind # "format" => ~doc'[d].dirty
                           /\ q.kind = "format" /\ d = q.doc =>
                                q.base = doc'[d].text
                           /\ q.at \in {"take", "answer"} /\ q.edit[d] # NoText
                                => q.edit[d] = doc'[d].text
    BY <1>1 DEF EditIsCurrent
  <2>1. d \in Docs /\ q.gens[d] \in Nat
    BY <1>1 DEF ReqState
  <2>2. doc[d].gen \in Nat /\ doc'[d].gen \in Nat /\ doc'[d].gen >= doc[d].gen
    BY <1>2, <2>1 DEF DocMoves, DocState
  <2>3. q.gens[d] <= doc[d].gen
    BY <1>1 DEF EditIsCurrent
  <2>4. q.gens[d] = doc'[d].gen => doc'[d].gen = doc[d].gen
    BY <2>1, <2>2, <2>3
  <2>5. doc'[d].gen = doc[d].gen =>
          doc'[d].text = doc[d].text /\ (doc'[d].dirty => doc[d].dirty)
    BY <2>1 DEF DocMoves
  <2> QED
    BY <1>1, <2>1, <2>2, <2>3, <2>4, <2>5 DEF EditIsCurrent
<1> QED
  BY <1>1, <1>3, <1>4

\* Queued work stays valid while generations only move forward.
LEMMA MovesKeepJobs ==
  ASSUME ProxyInv, DocMoves
  PROVE  /\ CleanIsProgram'
         /\ \A j \in jobs : GoodJob(j)'
         /\ UNCHANGED up => UpBehind'
<1>1. doc \in [Docs -> DocState] /\ jobs \subseteq JobState
  BY DEF ProxyInv, TypeOK, DocumentTypes
<1>2. CleanIsProgram'
  BY DEF DocMoves, CleanIsProgram
<1>3. ASSUME NEW j \in jobs PROVE GoodJob(j)'
  <2>1. j.doc \in Docs /\ j.gen \in Nat /\ GoodJob(j)
    BY <1>1 DEF JobState, ProxyInv, JobsGood
  <2>2. /\ doc[j.doc].diag \in Nat /\ doc'[j.doc].diag \in Nat
        /\ doc'[j.doc].diag >= doc[j.doc].diag
        /\ doc'[j.doc].diag = doc[j.doc].diag =>
             doc'[j.doc].text = doc[j.doc].text
    BY <1>1, <2>1 DEF DocMoves, DocState
  <2> QED
    BY <2>1, <2>2 DEF GoodJob
<1>4. ASSUME UNCHANGED up PROVE UpBehind'
  <2> SUFFICES ASSUME up.at = "forward" PROVE up.gen <= doc'[up.doc].diag
    BY <1>4 DEF UpBehind
  <2>1. up.doc \in Docs /\ up.gen \in Nat /\ up.gen <= doc[up.doc].diag
    BY DEF ProxyInv, TypeOK, PumpTypes, UpState, UpBehind
  <2>2. /\ doc[up.doc].diag \in Nat /\ doc'[up.doc].diag \in Nat
        /\ doc'[up.doc].diag >= doc[up.doc].diag
    BY <1>1, <2>1 DEF DocMoves, DocState
  <2> QED
    BY <2>1, <2>2
<1> QED
  BY <1>2, <1>3, <1>4

\* A step that leaves the documents alone is a move.
LEMMA StillMoves ==
  ASSUME ProxyInv, UNCHANGED doc
  PROVE  DocMoves
<1>1. doc \in [Docs -> DocState] /\ CleanIsProgram
  BY DEF ProxyInv, TypeOK, DocumentTypes
<1> QED
  BY <1>1 DEF DocMoves, DocState, CleanIsProgram

\* What is left of a step once its move, its types, its new jobs, the upstream
\* pump and the requests are settled.
LEMMA Assemble ==
  ASSUME ProxyInv, DocMoves, TypeOK', UpBehind', RequestsHonest',
         \A j \in jobs' : j \in jobs \/ GoodJob(j)'
  PROVE  ProxyInv'
<1>1. CleanIsProgram' /\ \A j \in jobs : GoodJob(j)'
  BY MovesKeepJobs
<1>2. JobsGood'
  BY <1>1 DEF JobsGood
<1> QED
  BY <1>1, <1>2 DEF ProxyInv

\* A step that leaves the requests alone, from what it does to the rest.
LEMMA StepKeeps ==
  ASSUME ProxyInv, DocMoves, PumpTypes', RefreshTypes', UpBehind',
         UNCHANGED req, shown' \in [Docs -> Text],
         events' \in [all : 0..MaxEvents, job : 0..MaxJobs],
         \A j \in jobs' : j \in jobs \/ (j \in JobState /\ GoodJob(j)')
  PROVE  ProxyInv'
<1>1. jobs \subseteq JobState /\ req \in [Reqs -> ReqState]
  BY DEF ProxyInv, TypeOK
<1>2. DocumentTypes'
  BY DEF DocMoves, DocumentTypes
<1>3. (jobs \subseteq JobState)' /\ (req \in [Reqs -> ReqState])'
  BY <1>1
<1>4. TypeOK'
  BY <1>2, <1>3 DEF TypeOK
<1>5. RequestsHonest'
  BY MovesKeepRequests
<1> QED
  BY <1>4, <1>5, Assemble

\* What events are made of.
LEMMA EventTypes ==
  ASSUME ProxyInv, Event \/ JobEvent
  PROVE  events' \in [all : 0..MaxEvents, job : 0..MaxJobs]
<1>1. /\ events \in [all : 0..MaxEvents, job : 0..MaxJobs]
      /\ MaxEvents \in Nat /\ MaxJobs \in Nat
  BY ProxyAssumption DEF ProxyInv, TypeOK
<1>2. events.all < MaxEvents => events.all + 1 \in 0..MaxEvents
  BY <1>1
<1>3. events.job < MaxJobs => events.job + 1 \in 0..MaxJobs
  BY <1>1
<1>4. CASE Event
  BY <1>1, <1>2, <1>4 DEF Event
<1>5. CASE JobEvent
  BY <1>1, <1>2, <1>3, <1>5 DEF JobEvent
<1> QED
  BY <1>4, <1>5

-----------------------------------------------------------------------------
(* Document notifications.                                                 *)

\* A notification touches documents, the screen, the pump and the project
\* generation only.
LEMMA NotificationKeeps ==
  ASSUME ProxyInv, DocMoves, UNCHANGED <<jobs, up, input, req, refreshVars>>,
         shown' \in [Docs -> Text], project' \in Nat, pump' \in PumpState,
         pump'.at \in {"clear", "generations"} => pump'.doc \in Docs,
         events' \in [all : 0..MaxEvents, job : 0..MaxJobs]
  PROVE  ProxyInv'
<1>1. TypeOK'
  <2>1. DocumentTypes' /\ (jobs \subseteq JobState)' /\ (req \in [Reqs -> ReqState])'
    BY DEF DocMoves, DocumentTypes, ProxyInv, TypeOK
  <2>2. PumpTypes'
    BY DEF PumpTypes, ProxyInv, TypeOK
  <2>3. RefreshTypes'
    BY DEF RefreshTypes, refreshVars, ProxyInv, TypeOK
  <2> QED
    BY <2>1, <2>2, <2>3 DEF TypeOK
<1>2. UpBehind' /\ RequestsHonest'
  BY MovesKeepJobs, MovesKeepRequests
<1> QED
  BY <1>1, <1>2, Assemble

\* A dirty mark moves the generations forward.
LEMMA MarkDirtyMoves ==
  ASSUME ProxyInv, NEW d \in Docs, MarkDirty(d)
  PROVE  /\ DocMoves
         /\ project' \in Nat
         /\ pump' \in PumpState
         /\ pump'.at \in {"clear", "generations"} => pump'.doc \in Docs
<1>1. doc \in [Docs -> DocState] /\ project \in Nat /\ CleanIsProgram
  BY DEF ProxyInv, TypeOK, DocumentTypes, RefreshTypes
<1>2. /\ doc' \in [Docs -> DocState]
      /\ \A e \in Docs \ {d} : doc'[e] = doc[e]
      /\ doc'[d].dirty /\ doc'[d].diag = doc[d].diag + 1
      /\ doc'[d].gen = doc[d].gen + 1
  BY <1>1 DEF MarkDirty, DocState, Text, NoText
<1>3. \A e \in Docs : doc[e].diag \in Nat /\ doc[e].gen \in Nat
  BY <1>1 DEF DocState
<1>4. DocMoves
  BY <1>1, <1>2, <1>3 DEF DocMoves, CleanIsProgram
<1> QED
  BY <1>1, <1>4 DEF MarkDirty, Return, Goto, PumpState

\* Notifications about documents keep the invariant.
LEMMA DocumentSteps ==
  ASSUME ProxyInv, NEW d \in Docs,
         \/ DidChange(d) \/ DidOpenDirty(d) \/ DidSave(d) \/ DidOpenClean(d)
         \/ DidClose(d) \/ Deleted(d) \/ ClearShown
  PROVE  ProxyInv'
<1>1. /\ doc \in [Docs -> DocState] /\ shown \in [Docs -> Text]
      /\ project \in Nat /\ CleanIsProgram /\ NoText \in Text
      /\ events \in [all : 0..MaxEvents, job : 0..MaxJobs]
  BY DEF ProxyInv, TypeOK, DocumentTypes, RefreshTypes, Text
<1>2. \A e \in Docs : doc[e].diag \in Nat /\ doc[e].gen \in Nat
  BY <1>1 DEF DocState
<1>3. CASE DidChange(d) \/ DidOpenDirty(d)
  BY <1>1, <1>3, MarkDirtyMoves, EventTypes, NotificationKeeps
     DEF DidChange, DidOpenDirty
<1>4. CASE DidSave(d) \/ DidOpenClean(d)
  <2>1. /\ doc' \in [Docs -> DocState]
        /\ \A e \in Docs \ {d} : doc'[e] = doc[e]
        /\ ~doc'[d].dirty /\ doc'[d].diag = doc[d].diag
        /\ doc'[d].gen = doc[d].gen /\ doc'[d].text = doc[d].text
        /\ doc'[d].program = doc[d].text
    <3>1. CASE DidSave(d)
      BY <1>1, <3>1 DEF DidSave, DocState
    <3>2. CASE DidOpenClean(d)
      BY <1>1, <3>2 DEF DidOpenClean, DocState
    <3> QED
      BY <1>4, <3>1, <3>2
  <2>2. DocMoves
    BY <1>1, <1>2, <2>1 DEF DocMoves, CleanIsProgram
  <2>3. pump' \in PumpState /\ pump'.doc \in Docs
    BY <1>4 DEF DidSave, DidOpenClean, Goto, PumpState
  <2> QED
    BY <1>1, <1>4, <2>2, <2>3, EventTypes, NotificationKeeps
       DEF DidSave, DidOpenClean, diagnosticsVars
<1>5. CASE DidClose(d)
  <2>1. /\ doc' \in [Docs -> DocState]
        /\ \A e \in Docs \ {d} : doc'[e] = doc[e]
        /\ doc'[d].diag = doc[d].diag + 1 /\ doc'[d].gen = doc[d].gen + 1
        /\ doc'[d].program = doc'[d].text
    BY <1>1, <1>5 DEF DidClose, DocState, Text, NoText
  <2>2. DocMoves
    BY <1>1, <1>2, <2>1 DEF DocMoves, CleanIsProgram
  <2>3. pump' \in PumpState /\ pump'.at = "resume"
    BY <1>5 DEF DidClose, Goto, PumpState
  <2> QED
    BY <1>1, <1>5, <2>2, <2>3, EventTypes, NotificationKeeps
       DEF DidClose, diagnosticsVars
<1>6. CASE Deleted(d)
  <2>1. doc[d] \in DocState /\ doc[d].diag + 1 \in Nat
    BY <1>1, <1>2
  <2>2. doc' = [doc EXCEPT ![d] = [doc[d] EXCEPT !.diag = doc[d].diag + 1,
                                                 !.plugin = NoText]]
    BY <1>6 DEF Deleted
  <2>3. [doc[d] EXCEPT !.diag = doc[d].diag + 1, !.plugin = NoText] \in DocState
    BY <1>1, <2>1 DEF DocState
  <2>4. doc' \in [Docs -> DocState] /\ \A e \in Docs \ {d} : doc'[e] = doc[e]
    BY <1>1, <2>2, <2>3
  <2>5. doc'[d] = [doc[d] EXCEPT !.diag = doc[d].diag + 1, !.plugin = NoText]
    BY <1>1, <2>2
  <2>6. /\ doc'[d].diag = doc[d].diag + 1 /\ doc'[d].gen = doc[d].gen
        /\ doc'[d].text = doc[d].text /\ doc'[d].program = doc[d].program
    BY <2>1, <2>5 DEF DocState
  <2>7. doc'[d].dirty = doc[d].dirty
    BY <2>1, <2>5 DEF DocState
  <2>8. DocMoves
    BY <1>1, <1>2, <2>4, <2>6, <2>7 DEF DocMoves, CleanIsProgram
  <2>9. shown' \in [Docs -> Text]
    BY <1>1, <1>6 DEF Deleted
  <2> QED
    BY <1>1, <1>6, <2>8, <2>9, EventTypes, NotificationKeeps
       DEF Deleted, diagnosticsVars, ProxyInv, TypeOK, PumpTypes
<1>7. CASE ClearShown
  <2>1. DocMoves
    BY <1>7, StillMoves DEF ClearShown
  <2>2. shown' \in [Docs -> Text] /\ pump' \in PumpState /\ pump'.at = "read"
    BY <1>1, <1>7 DEF ClearShown, Return, Goto, PumpState
  <2> QED
    BY <1>1, <1>7, <2>1, <2>2, NotificationKeeps DEF ClearShown
<1> QED
  BY <1>3, <1>4, <1>5, <1>6, <1>7

-----------------------------------------------------------------------------
(* Publications start.                                                     *)

\* What queued work is made of.
LEMMA JobTyped ==
  ASSUME NEW d \in Docs, NEW g \in Nat, NEW n \in Nat
  PROVE  /\ Job(d, g, n) \in JobState
         /\ Job(d, g, n).doc = d /\ Job(d, g, n).gen = g
         /\ Job(d, g, n).found = NoText
BY DEF Job, JobState, Text, NoText

\* Generations move forward only.
LEMMA GenerationsMove ==
  ASSUME ProxyInv, NEW d \in Docs, NextGenerations(d)
  PROVE  /\ DocMoves
         /\ doc'[d].diag = doc[d].diag + 1 /\ doc[d].diag \in Nat
         /\ project' = project + 1 /\ project' \in Nat
<1>1. doc \in [Docs -> DocState] /\ CleanIsProgram /\ project \in Nat
  BY DEF ProxyInv, TypeOK, DocumentTypes, RefreshTypes
<1>2. \A e \in Docs : doc[e].diag \in Nat /\ doc[e].gen \in Nat
  BY <1>1 DEF DocState
<1>3. doc' = [doc EXCEPT ![d] = [doc[d] EXCEPT !.diag = doc[d].diag + 1]]
  BY DEF NextGenerations
<1>4. [doc[d] EXCEPT !.diag = doc[d].diag + 1] \in DocState
  BY <1>1, <1>2 DEF DocState
<1>5. doc' \in [Docs -> DocState] /\ \A e \in Docs \ {d} : doc'[e] = doc[e]
  BY <1>1, <1>3, <1>4
<1>6. doc[d] \in DocState
      /\ doc'[d] = [doc[d] EXCEPT !.diag = doc[d].diag + 1]
  BY <1>1, <1>3
<1>7. /\ doc'[d].diag = doc[d].diag + 1 /\ doc'[d].gen = doc[d].gen
      /\ doc'[d].text = doc[d].text /\ doc'[d].program = doc[d].program
  BY <1>6 DEF DocState
<1>8. doc'[d].dirty = doc[d].dirty
  BY <1>6 DEF DocState
<1>9. DocMoves
  BY <1>1, <1>2, <1>5, <1>7, <1>8 DEF DocMoves, CleanIsProgram
<1> QED
  BY <1>1, <1>2, <1>7, <1>9 DEF NextGenerations

\* Publications keep the invariant.
LEMMA PublicationSteps ==
  ASSUME ProxyInv, NEW d \in Docs,
         \/ StartPublication \/ UpstreamPublishes(d)
         \/ UpstreamGenerations \/ UpstreamForward
  PROVE  ProxyInv'
<1>1. /\ TypeOK /\ DocumentTypes /\ PumpTypes /\ RefreshTypes
      /\ doc \in [Docs -> DocState] /\ shown \in [Docs -> Text]
      /\ jobs \subseteq JobState /\ NoText \in Text
      /\ events \in [all : 0..MaxEvents, job : 0..MaxJobs]
  BY DEF ProxyInv, TypeOK, DocumentTypes, Text
<1>2. CASE StartPublication
  <2>1. pump.doc \in Docs /\ NextGenerations(pump.doc)
    BY <1>1, <1>2 DEF StartPublication, PumpTypes
  <2>2. /\ DocMoves /\ doc'[pump.doc].diag = doc[pump.doc].diag + 1
        /\ doc[pump.doc].diag \in Nat /\ project' \in Nat
        /\ project + 1 \in Nat
    BY <2>1, GenerationsMove
  <2>3. PICK k : k = Job(pump.doc, doc[pump.doc].diag + 1, project + 1)
    OBVIOUS
  <2>4. /\ k \in JobState /\ k.doc = pump.doc /\ k.found = NoText
        /\ k.gen = doc[pump.doc].diag + 1
    <3>1. PICK g : g = doc[pump.doc].diag + 1
      OBVIOUS
    <3>2. PICK n : n = project + 1
      OBVIOUS
    <3>3. pump.doc \in Docs /\ g \in Nat /\ n \in Nat
      BY <2>1, <2>2, <3>1, <3>2
    <3>4. /\ Job(pump.doc, g, n) \in JobState
          /\ Job(pump.doc, g, n).doc = pump.doc
          /\ Job(pump.doc, g, n).gen = g
          /\ Job(pump.doc, g, n).found = NoText
      BY <3>3, JobTyped
    <3> QED
      BY <2>3, <3>1, <3>2, <3>4
  <2>5. UpBehind' /\ shown' = shown /\ UNCHANGED req /\ UNCHANGED events
    BY <1>2, <2>2, MovesKeepJobs DEF StartPublication
  <2>6. pump' \in PumpState /\ pump'.at \in {"read", "resume"}
    BY <1>1, <1>2 DEF StartPublication, Goto, PumpTypes, PumpState
  <2>7. PumpTypes'
    BY <1>1, <1>2, <2>6 DEF StartPublication, PumpTypes
  <2>8. RefreshTypes'
    BY <1>1, <1>2, <2>2 DEF StartPublication, RefreshTypes, refreshVars
  <2>9. GoodJob(k)'
    BY <2>2, <2>4 DEF GoodJob
  <2>10. \A j \in jobs' : j \in jobs \/ (j \in JobState /\ GoodJob(j)')
    BY <1>2, <2>3, <2>4, <2>9 DEF StartPublication
  <2> QED
    BY <1>1, <2>2, <2>5, <2>7, <2>8, <2>10, StepKeeps
<1>3. CASE UpstreamPublishes(d)
  <2>1. DocMoves
    BY <1>3, StillMoves DEF UpstreamPublishes
  <2>2. up' \in UpState /\ up'.doc = d /\ up'.gen = 0
    BY <1>3 DEF UpstreamPublishes, UpIdle, UpState
  <2>3. events' \in [all : 0..MaxEvents, job : 0..MaxJobs]
    BY <1>3, EventTypes DEF UpstreamPublishes
  <2>4. TypeOK'
    BY <1>1, <1>3, <2>2, <2>3
       DEF UpstreamPublishes, TypeOK, DocumentTypes, PumpTypes, RefreshTypes,
           refreshVars, diagnosticsVars
  <2>5. UpBehind'
    BY <1>1, <1>3, <2>2 DEF UpBehind, UpstreamPublishes, DocState
  <2>6. RequestsHonest'
    BY <1>3, <2>1, MovesKeepRequests DEF UpstreamPublishes
  <2>7. \A j \in jobs' : j \in jobs
    BY <1>3 DEF UpstreamPublishes, diagnosticsVars
  <2> QED
    BY <2>1, <2>4, <2>5, <2>6, <2>7, Assemble
<1>4. CASE UpstreamGenerations
  <2>1. up.doc \in Docs /\ NextGenerations(up.doc)
    BY <1>1, <1>4 DEF UpstreamGenerations, PumpTypes
  <2>2. /\ DocMoves /\ doc'[up.doc].diag = doc[up.doc].diag + 1
        /\ doc[up.doc].diag \in Nat /\ project' = project + 1
        /\ project' \in Nat
    BY <2>1, GenerationsMove
  <2>3. /\ up' = [at |-> "forward", doc |-> up.doc,
                  gen |-> doc[up.doc].diag + 1, project |-> project + 1]
    BY <1>4 DEF UpstreamGenerations
  <2>4. /\ up' \in UpState /\ up'.doc = up.doc
        /\ up'.gen = doc[up.doc].diag + 1
    BY <2>1, <2>2, <2>3 DEF UpState
  <2>5. TypeOK'
    BY <1>1, <1>4, <2>1, <2>2, <2>4
       DEF UpstreamGenerations, TypeOK, DocumentTypes, PumpTypes, RefreshTypes,
           refreshVars, DocMoves
  <2>6. UpBehind'
    BY <2>2, <2>4 DEF UpBehind
  <2>7. RequestsHonest' /\ jobs' = jobs
    BY <1>4, <2>2, MovesKeepRequests DEF UpstreamGenerations
  <2> QED
    BY <2>2, <2>5, <2>6, <2>7, Assemble
<1>5. CASE UpstreamForward
  <2>1. DocMoves
    BY <1>5, StillMoves DEF UpstreamForward
  <2>2. /\ up.doc \in Docs /\ up.gen \in Nat /\ up.project \in Nat
        /\ up.gen <= doc[up.doc].diag
    BY <1>1, <1>5 DEF UpstreamForward, PumpTypes, UpState, ProxyInv, UpBehind
  <2>3. PICK k : k = Job(up.doc, up.gen, up.project)
    OBVIOUS
  <2>4. /\ k \in JobState /\ k.doc = up.doc /\ k.found = NoText
        /\ k.gen = up.gen
    BY <2>2, <2>3, JobTyped
  <2>5. up' \in UpState /\ up'.at = "read" /\ shown' \in [Docs -> Text]
    BY <1>1, <1>5 DEF UpstreamForward, UpIdle, UpState
  <2>6. UpBehind' /\ UNCHANGED req /\ UNCHANGED events
    BY <1>5, <2>5 DEF UpBehind, UpstreamForward
  <2>7. PumpTypes' /\ RefreshTypes'
    BY <1>1, <1>5, <2>5
       DEF UpstreamForward, PumpTypes, RefreshTypes, refreshVars
  <2>8. GoodJob(k)'
    BY <1>5, <2>2, <2>4 DEF GoodJob, UpstreamForward
  <2>9. \A j \in jobs' : j \in jobs \/ (j \in JobState /\ GoodJob(j)')
    BY <1>5, <2>3, <2>4, <2>8 DEF UpstreamForward
  <2> QED
    BY <1>1, <2>1, <2>5, <2>6, <2>7, <2>9, StepKeeps
<1> QED
  BY <1>2, <1>3, <1>4, <1>5

-----------------------------------------------------------------------------
(* The project refresh.                                                    *)

\* A step that touches neither documents, requests, goroutines nor pumps.
LEMMA QuietStep ==
  ASSUME ProxyInv, UNCHANGED <<doc, shown, jobs, up, req>>, PumpTypes',
         RefreshTypes', events' \in [all : 0..MaxEvents, job : 0..MaxJobs]
  PROVE  ProxyInv'
<1>1. DocMoves
  BY StillMoves
<1>2. shown' \in [Docs -> Text] /\ UpBehind'
  BY DEF ProxyInv, TypeOK, DocumentTypes, UpBehind
<1> QED
  BY <1>1, <1>2, StepKeeps

\* A proxy without a task.
LEMMA NoTaskTyped == NoTask \in TaskState /\ NoTask.at = "idle"
  BY DEF NoTask, TaskState

\* Ending a run leaves the coalescer running exactly when it starts another.
LEMMA FinishTypes ==
  ASSUME NEW r \in RefreshState, r.running, Finish(r)
  PROVE  /\ refresh' \in RefreshState /\ task' \in TaskState
         /\ refresh'.running <=> task'.at # "idle"
<1>1. CASE r.queued
  <2>1. refresh' \in RefreshState /\ refresh'.running
    BY <1>1 DEF Finish, RefreshState
  <2>2. task' \in TaskState /\ task'.at = "start"
    BY <1>1, NoTaskTyped DEF Finish, TaskState
  <2> QED
    BY <2>1, <2>2
<1>2. CASE ~r.queued
  BY <1>2, NoTaskTyped DEF Finish, RefreshState, TaskState
<1> QED
  BY <1>1, <1>2

\* What a task starts with.
LEMMA StartTypes ==
  ASSUME NEW r \in RefreshState, r.running, Start(r)
  PROVE  /\ refresh' \in RefreshState /\ task' \in TaskState
         /\ refresh'.running <=> task'.at # "idle"
<1>1. CASE ~r.pending \/ Dirty # {}
  BY <1>1, FinishTypes DEF Start
<1>2. CASE ~(~r.pending \/ Dirty # {})
  <2>1. r.gen \in Nat /\ r.all \in BOOLEAN /\ r.owners \in SUBSET Owners
    BY DEF RefreshState
  <2>2. refresh' = r /\ task' = [NoTask EXCEPT !.at = "compute", !.gen = r.gen,
                                   !.all = r.all, !.owners = r.owners]
    BY <1>2 DEF Start
  <2>3. task' \in TaskState /\ task'.at = "compute"
    BY <2>1, <2>2, NoTaskTyped DEF TaskState
  <2> QED
    BY <2>2, <2>3
<1> QED
  BY <1>1, <1>2

\* What the operators on the pending refresh return.
LEMMA RefreshOperators ==
  ASSUME ProxyInv, NEW g \in Nat, NEW S \in SUBSET Owners
  PROVE  /\ Resumed \in RefreshState /\ Resumed.running = refresh.running
         /\ ResumedProject \in Nat
         /\ Recorded(g, S) \in RefreshState
         /\ Recorded(g, S).running = refresh.running
         /\ Completed(g) \in RefreshState
         /\ Completed(g).running = refresh.running
         /\ Stored(S) \in [Owners -> Nat]
<1>1. /\ refresh \in RefreshState /\ project \in Nat
      /\ input \in [Owners -> Nat] /\ source \in [Owners -> Nat]
  BY DEF ProxyInv, TypeOK, RefreshTypes
<1>2. Resumed \in RefreshState /\ Resumed.running = refresh.running
  <2>1. CASE Resumes
    <3>1. project + 1 \in Nat
      BY <1>1
    <3>2. Resumed = [refresh EXCEPT !.gen = project + 1, !.timer = TRUE]
      BY <2>1 DEF Resumed
    <3> QED
      BY <1>1, <3>1, <3>2 DEF RefreshState
  <2>2. CASE ~Resumes
    BY <1>1, <2>2 DEF Resumed
  <2> QED
    BY <2>1, <2>2
<1>3. ResumedProject \in Nat
  BY <1>1 DEF ResumedProject
<1>4. /\ Recorded(g, S) \in RefreshState
      /\ Recorded(g, S).running = refresh.running
  BY <1>1 DEF Recorded, RefreshState
<1>5. Completed(g) \in RefreshState /\ Completed(g).running = refresh.running
  BY <1>1 DEF Completed, RefreshState
<1>6. Stored(S) \in [Owners -> Nat]
  BY <1>1 DEF Stored
<1> QED
  BY <1>2, <1>3, <1>4, <1>5, <1>6

\* A refresh keeps the invariant.
LEMMA RefreshSteps ==
  ASSUME ProxyInv,
         \/ \E S \in SUBSET Owners, all \in BOOLEAN : InputsChanged(S, all)
         \/ ResumeRefresh \/ TimerFires \/ TaskStep
  PROVE  ProxyInv'
<1>1. /\ RefreshTypes /\ PumpTypes
      /\ refresh \in RefreshState /\ task \in TaskState /\ project \in Nat
      /\ input \in [Owners -> Nat] /\ source \in [Owners -> Nat]
      /\ board \in [Owners -> Nat] /\ failed \in BOOLEAN
      /\ refresh.running <=> task.at # "idle"
      /\ events \in [all : 0..MaxEvents, job : 0..MaxJobs]
  BY DEF ProxyInv, TypeOK, RefreshTypes
<1>2. /\ task.gen \in Nat /\ task.owners \in SUBSET Owners
      /\ task.refreshed \in SUBSET Owners /\ task.snap \in [Owners -> Nat]
  BY <1>1 DEF TaskState
<1>3. ASSUME NEW S \in SUBSET Owners, NEW all \in BOOLEAN,
             InputsChanged(S, all)
      PROVE  ProxyInv'
  <2>1. input' \in [Owners -> Nat] /\ project' \in Nat
    <3>1. /\ input' = [o \in Owners |-> IF all \/ o \in S THEN input[o] + 1
                                       ELSE input[o]]
          /\ project' = project + 1
      BY <1>3, Zenon DEF InputsChanged
    <3> QED
      BY <1>1, <3>1
  <2>2. /\ refresh.all \in BOOLEAN /\ refresh.owners \in SUBSET Owners
        /\ project + 1 \in Nat
    BY <1>1 DEF RefreshState
  <2> DEFINE b == refresh.all \/ all
             T == IF all THEN {} ELSE IF refresh.all THEN refresh.owners
                  ELSE refresh.owners \cup S
  <2>3. /\ b \in BOOLEAN /\ T \in SUBSET Owners
        /\ refresh' = [refresh EXCEPT !.pending = TRUE, !.gen = project + 1,
                                      !.timer = TRUE, !.all = b, !.owners = T]
    <3>1. b \in BOOLEAN
      OBVIOUS
    <3>2. T \in SUBSET Owners
      BY <2>2
    <3> QED
      BY <1>3, <3>1, <3>2 DEF InputsChanged
  <2> HIDE DEF b, T
  <2>4. refresh' \in RefreshState /\ refresh'.running = refresh.running
    BY <1>1, <2>2, <2>3 DEF RefreshState
  <2>5. RefreshTypes'
    BY <1>1, <1>3, <2>1, <2>4 DEF InputsChanged, RefreshTypes
  <2>6. PumpTypes'
    BY <1>1, <1>3 DEF InputsChanged, PumpTypes
  <2>7. events' \in [all : 0..MaxEvents, job : 0..MaxJobs]
    BY <1>3, EventTypes DEF InputsChanged
  <2> QED
    BY <1>3, <2>5, <2>6, <2>7, QuietStep DEF InputsChanged
<1>4. CASE ResumeRefresh
  <2>1. PumpTypes'
    BY <1>1, <1>4 DEF ResumeRefresh, Return, Goto, PumpTypes, PumpState
  <2>2. /\ refresh' \in RefreshState /\ refresh'.running = refresh.running
        /\ project' \in Nat
    BY <1>2, <1>4, RefreshOperators DEF ResumeRefresh
  <2>3. RefreshTypes'
    BY <1>1, <1>4, <2>2 DEF ResumeRefresh, RefreshTypes
  <2> QED
    BY <1>1, <1>4, <2>1, <2>3, QuietStep DEF ResumeRefresh
<1>5. CASE TaskStart
  <2>1. /\ refresh' \in RefreshState /\ task' \in TaskState
        /\ refresh'.running <=> task'.at # "idle"
    BY <1>1, <1>5, StartTypes DEF TaskStart
  <2>2. RefreshTypes' /\ PumpTypes'
    BY <1>1, <1>5, <2>1 DEF TaskStart, RefreshTypes, PumpTypes
  <2> QED
    BY <1>1, <1>5, <2>2, QuietStep DEF TaskStart
<1>6. CASE TimerFires
  <2>1. /\ refresh' \in RefreshState /\ task' \in TaskState
        /\ refresh'.running <=> task'.at # "idle"
    <3>1. CASE refresh.running
      BY <1>1, <1>6, <3>1 DEF TimerFires, RefreshState
    <3>2. CASE ~refresh.running
      <4>1. /\ [refresh EXCEPT !.timer = FALSE, !.running = TRUE]
                  \in RefreshState
            /\ [refresh EXCEPT !.timer = FALSE, !.running = TRUE].running
        BY <1>1 DEF RefreshState
      <4>2. Start([refresh EXCEPT !.timer = FALSE, !.running = TRUE])
        BY <1>6, <3>2 DEF TimerFires
      <4> QED
        BY <4>1, <4>2, StartTypes
    <3> QED
      BY <3>1, <3>2
  <2>2. RefreshTypes' /\ PumpTypes'
    BY <1>1, <1>6, <2>1 DEF TimerFires, RefreshTypes, PumpTypes
  <2> QED
    BY <1>1, <1>6, <2>2, QuietStep DEF TimerFires
<1>7. CASE TaskCompute
  <2> DEFINE selected == IF task.all THEN Owners ELSE task.owners
  <2>0. selected \in SUBSET Owners
    BY <1>2
  <2>1. source' \in [Owners -> Nat] /\ failed' \in BOOLEAN
    <3>1. failed' \in BOOLEAN
      BY <1>1, <1>7, Zenon DEF TaskCompute
    <3>2. source' = source \/ \E T \in SUBSET selected : source' = Stored(T)
      BY <1>7, Zenon DEF TaskCompute
    <3>3. \A T \in SUBSET Owners : Stored(T) \in [Owners -> Nat]
      BY <1>1 DEF Stored
    <3> QED
      BY <1>1, <2>0, <3>1, <3>2, <3>3
  <2>2. task' \in TaskState /\ task'.at # "idle"
    <3>2. CASE selected = {}
      <4>1. task' = [task EXCEPT !.at = "complete"]
        BY <1>7, <3>2 DEF TaskCompute
      <4> QED
        BY <1>1, <4>1 DEF TaskState
    <3>3. CASE selected # {}
      <4>1. \E T \in SUBSET selected :
              /\ source' = Stored(T)
              /\ failed' = (failed \/ T # selected)
              /\ task' = [task EXCEPT !.at = "write", !.snap = source',
                                      !.refreshed = T, !.done = (T = selected)]
        BY <1>7, <3>3, Zenon DEF TaskCompute
      <4> PICK T \in SUBSET selected :
            task' = [task EXCEPT !.at = "write", !.snap = source',
                                 !.refreshed = T, !.done = (T = selected)]
        BY <4>1, Zenon
      <4>2. T \in SUBSET Owners /\ (T = selected) \in BOOLEAN
        BY <2>0
      <4> QED
        BY <1>1, <2>1, <4>2 DEF TaskState
    <3> QED
      BY <3>2, <3>3
  <2>3. RefreshTypes' /\ PumpTypes'
    BY <1>1, <1>7, <2>1, <2>2 DEF TaskCompute, RefreshTypes, PumpTypes
  <2> QED
    BY <1>1, <1>7, <2>3, QuietStep DEF TaskCompute
<1>8. CASE TaskWrite
  <2>1. PICK b \in BOOLEAN : task' = [task EXCEPT !.at = "written",
                                                  !.accepted = b]
    BY <1>8 DEF TaskWrite
  <2>2. task' \in TaskState /\ task'.at # "idle"
    BY <1>1, <2>1 DEF TaskState
  <2>3. board' \in [Owners -> Nat]
    BY <1>1, <1>2, <1>8 DEF TaskWrite
  <2>4. RefreshTypes' /\ PumpTypes'
    BY <1>1, <1>8, <2>2, <2>3 DEF TaskWrite, RefreshTypes, PumpTypes
  <2> QED
    BY <1>1, <1>8, <2>4, QuietStep DEF TaskWrite
<1>9. CASE TaskWritten
  <2>1. refresh.running
    BY <1>1, <1>9 DEF TaskWritten
  <2>2. /\ project' \in Nat
        /\ refresh' \in RefreshState /\ task' \in TaskState
        /\ refresh'.running <=> task'.at # "idle"
    <3>1. CASE Dirty # {} /\ Finish(refresh) /\ UNCHANGED project
      BY <1>1, <2>1, <3>1, FinishTypes
    <3> DEFINE left == IF task.all THEN refresh
                       ELSE Recorded(task.gen, task.refreshed)
    <3>2. left \in RefreshState /\ left.running
      BY <1>1, <1>2, <2>1, RefreshOperators
    <3>3. CASE UNCHANGED project /\ Finish(left)
      BY <1>1, <3>2, <3>3, FinishTypes
    <3>4. CASE /\ UNCHANGED project /\ refresh' = left
               /\ task' = [task EXCEPT !.at = "complete"]
      BY <1>1, <3>2, <3>4 DEF TaskState
    <3>5. CASE project' = ResumedProject /\ Finish(Resumed)
      BY <1>2, <2>1, <3>5, RefreshOperators, FinishTypes
    <3> QED
      BY <1>9, <3>1, <3>3, <3>4, <3>5 DEF TaskWritten
  <2>3. RefreshTypes' /\ PumpTypes'
    BY <1>1, <1>9, <2>2 DEF TaskWritten, RefreshTypes, PumpTypes
  <2> QED
    BY <1>1, <1>9, <2>3, QuietStep DEF TaskWritten
<1>10. CASE TaskComplete
  <2>1. Completed(task.gen) \in RefreshState /\ Completed(task.gen).running
    BY <1>1, <1>2, <1>10, RefreshOperators DEF TaskComplete
  <2>2. /\ refresh' \in RefreshState /\ task' \in TaskState
        /\ refresh'.running <=> task'.at # "idle"
    BY <1>10, <2>1, FinishTypes DEF TaskComplete
  <2>3. RefreshTypes' /\ PumpTypes'
    BY <1>1, <1>10, <2>2 DEF TaskComplete, RefreshTypes, PumpTypes
  <2> QED
    BY <1>1, <1>10, <2>3, QuietStep DEF TaskComplete
<1> QED
  BY <1>3, <1>4, <1>5, <1>6, <1>7, <1>8, <1>9, <1>10 DEF TaskStep

-----------------------------------------------------------------------------
(* The goroutines that publish findings.                                   *)

\* A goroutine's next state is good when it keeps or drops the findings.
LEMMA HeirIsGood ==
  ASSUME ProxyInv, DocMoves, NEW j \in jobs, NEW k,
         k.doc = j.doc, k.gen = j.gen, k.found \in {NoText, j.found}
  PROVE  GoodJob(k)'
<1>1. GoodJob(j)'
  BY MovesKeepJobs
<1> QED
  BY <1>1 DEF GoodJob

\* Queued work that projects its result stays valid.
LEMMA ProjectTurn ==
  ASSUME ProxyInv, DocMoves, NEW j \in jobs, Project(j)
  PROVE  \A k \in jobs' : k \in jobs \/ (k \in JobState /\ GoodJob(k)')
<1>1. j \in JobState /\ NoText \in Text
  BY DEF ProxyInv, TypeOK, Text
<1>2. PICK k : k = [j EXCEPT !.at = "project", !.found = NoText]
  OBVIOUS
<1>3. k \in JobState /\ k.doc = j.doc /\ k.gen = j.gen /\ k.found = NoText
  BY <1>1, <1>2 DEF JobState
<1>4. GoodJob(k)'
  BY <1>3, HeirIsGood
<1> QED
  BY <1>2, <1>3, <1>4 DEF Project, Ends, Becomes

\* Queued work in its next phase stays valid.
LEMMA PhaseTurn ==
  ASSUME ProxyInv, DocMoves, NEW j \in jobs,
         NEW a \in {"compute", "prepare", "write", "project", "record",
                    "complete"},
         Becomes(j, [j EXCEPT !.at = a])
  PROVE  \A k \in jobs' : k \in jobs \/ (k \in JobState /\ GoodJob(k)')
<1>1. j \in JobState
  BY DEF ProxyInv, TypeOK
<1>2. PICK k : k = [j EXCEPT !.at = a]
  OBVIOUS
<1>3. k \in JobState /\ k.doc = j.doc /\ k.gen = j.gen /\ k.found = j.found
  BY <1>1, <1>2 DEF JobState
<1>4. GoodJob(k)'
  BY <1>3, HeirIsGood
<1> QED
  BY <1>2, <1>3, <1>4 DEF Becomes

\* Queued work that runs keeps the invariant.
LEMMA JobSteps ==
  ASSUME ProxyInv, NEW j \in jobs, JobStep(j)
  PROVE  ProxyInv'
<1> DEFINE NewJobsGood ==
             \A k \in jobs' : k \in jobs \/ (k \in JobState /\ GoodJob(k)')
<1>1. /\ RefreshTypes /\ PumpTypes /\ CleanIsProgram /\ NoText \in Text
      /\ doc \in [Docs -> DocState] /\ shown \in [Docs -> Text]
      /\ board \in [Owners -> Nat] /\ refresh \in RefreshState
      /\ source \in [Owners -> Nat]
      /\ refresh.running <=> task.at # "idle"
      /\ events \in [all : 0..MaxEvents, job : 0..MaxJobs]
  BY DEF ProxyInv, TypeOK, DocumentTypes, RefreshTypes, Text
<1>2. /\ j \in JobState /\ j.doc \in Docs /\ j.gen \in Nat /\ j.found \in Text
      /\ j.project \in Nat /\ j.updated \in SUBSET Owners
      /\ j.snap \in [Owners -> Nat] /\ GoodJob(j)
  BY DEF ProxyInv, TypeOK, JobState, JobsGood
<1>3. \A d \in Docs : /\ doc[d].diag \in Nat /\ doc[d].gen \in Nat
                       /\ doc[d].program \in Nat
  BY <1>1 DEF DocState
<1>4. UNCHANGED doc => DocMoves
  BY StillMoves
<1>5. Ends(j) => NewJobsGood
  BY DEF Ends
<1>6. UNCHANGED <<pump, up>> => PumpTypes' /\ (DocMoves => UpBehind')
  BY <1>1, MovesKeepJobs DEF PumpTypes
<1>7. CASE JobCompute(j)
  <2>1. NewJobsGood
    <3>1. CASE Ends(j)
      BY <1>5, <3>1
    <3>2. ASSUME NEW found \in {NoText, doc[j.doc].program},
                 NEW updated \in SUBSET Owners, Latest(j),
                 source' = Stored(updated),
                 Becomes(j, [j EXCEPT !.at = "prepare", !.found = found,
                                      !.updated = updated, !.snap = source'])
          PROVE  NewJobsGood
      <4>1. PICK k : k = [j EXCEPT !.at = "prepare", !.found = found,
                                   !.updated = updated, !.snap = source']
        OBVIOUS
      <4>2. source' \in [Owners -> Nat] /\ found \in Text
        BY <1>2, <1>3, <3>2, RefreshOperators DEF Text
      <4>3. /\ k \in JobState /\ k.doc = j.doc /\ k.gen = j.gen
            /\ k.found = found
        BY <1>2, <4>1, <4>2 DEF JobState
      <4>4. found # NoText => found = doc[j.doc].text
        BY <1>1, <1>2, <3>2 DEF Latest, CleanIsProgram
      <4>5. GoodJob(k)'
        BY <1>2, <1>7, <4>3, <4>4 DEF GoodJob, JobCompute
      <4> QED
        BY <3>2, <4>1, <4>3, <4>5 DEF Becomes
    <3> QED
      BY <1>7, <3>1, <3>2 DEF JobCompute
  <2>2. source' \in [Owners -> Nat]
    BY <1>1, <1>7, <1>2, RefreshOperators DEF JobCompute
  <2>3. RefreshTypes'
    BY <1>1, <1>7, <2>2 DEF JobCompute, RefreshTypes
  <2> QED
    BY <1>1, <1>4, <1>6, <1>7, <2>1, <2>3, StepKeeps DEF JobCompute
<1>8. CASE JobPrepare(j)
  <2>1. doc' = doc \/ doc' = [doc EXCEPT ![j.doc].plugin = j.found]
    BY <1>8 DEF JobPrepare
  <2>2. DocMoves
    <3> SUFFICES ASSUME doc' = [doc EXCEPT ![j.doc] =
                                 [doc[j.doc] EXCEPT !.plugin = j.found]]
                 PROVE  DocMoves
      BY <1>4, <2>1
    <3>1. doc[j.doc] \in DocState
          /\ [doc[j.doc] EXCEPT !.plugin = j.found] \in DocState
      BY <1>1, <1>2 DEF DocState
    <3>2. /\ doc' \in [Docs -> DocState]
          /\ \A d \in Docs \ {j.doc} : doc'[d] = doc[d]
          /\ doc'[j.doc] = [doc[j.doc] EXCEPT !.plugin = j.found]
      BY <1>1, <1>2, <3>1
    <3>3. /\ doc'[j.doc].diag = doc[j.doc].diag
          /\ doc'[j.doc].gen = doc[j.doc].gen
          /\ doc'[j.doc].text = doc[j.doc].text
          /\ doc'[j.doc].program = doc[j.doc].program
      BY <3>1, <3>2 DEF DocState
    <3>4. doc'[j.doc].dirty = doc[j.doc].dirty
      BY <3>1, <3>2 DEF DocState
    <3> QED
      BY <1>1, <1>3, <3>2, <3>3, <3>4 DEF DocMoves, CleanIsProgram
  <2>3. NewJobsGood
    <3>1. Project(j) => NewJobsGood
      BY <2>2, ProjectTurn
    <3>2. Becomes(j, [j EXCEPT !.at = "write"]) => NewJobsGood
      BY <2>2, PhaseTurn
    <3> QED
      BY <1>8, <3>1, <3>2 DEF JobPrepare
  <2>4. RefreshTypes'
    BY <1>1, <1>8 DEF JobPrepare, RefreshTypes, refreshVars
  <2> QED
    BY <1>1, <1>6, <1>8, <2>2, <2>3, <2>4, StepKeeps DEF JobPrepare
<1>9. CASE JobWrite(j)
  <2>1. DocMoves /\ NewJobsGood
    BY <1>4, <1>9, ProjectTurn DEF JobWrite
  <2>2. shown' \in [Docs -> Text]
    BY <1>1, <1>2, <1>9 DEF JobWrite
  <2>3. RefreshTypes'
    BY <1>1, <1>9 DEF JobWrite, RefreshTypes, refreshVars
  <2> QED
    BY <1>1, <1>6, <1>9, <2>1, <2>2, <2>3, StepKeeps DEF JobWrite
<1>10. CASE JobProject(j)
  <2>1. DocMoves /\ NewJobsGood
    BY <1>4, <1>5, <1>10, PhaseTurn DEF JobProject
  <2>2. board' \in [Owners -> Nat]
    BY <1>1, <1>2, <1>10 DEF JobProject
  <2>3. RefreshTypes'
    BY <1>1, <1>10, <2>2 DEF JobProject, RefreshTypes
  <2> QED
    BY <1>1, <1>6, <1>10, <2>1, <2>3, StepKeeps DEF JobProject
<1>11. CASE JobRecord(j)
  <2>1. DocMoves /\ NewJobsGood
    BY <1>4, <1>5, <1>11, PhaseTurn DEF JobRecord
  <2>2. refresh' \in RefreshState /\ refresh'.running = refresh.running
    BY <1>2, <1>11, RefreshOperators DEF JobRecord
  <2>3. RefreshTypes'
    BY <1>1, <1>11, <2>2 DEF JobRecord, RefreshTypes
  <2> QED
    BY <1>1, <1>6, <1>11, <2>1, <2>3, StepKeeps DEF JobRecord
<1>12. CASE JobComplete(j)
  <2>1. DocMoves /\ NewJobsGood
    BY <1>4, <1>5, <1>12 DEF JobComplete
  <2>2. refresh' \in RefreshState /\ refresh'.running = refresh.running
    BY <1>2, <1>12, RefreshOperators DEF JobComplete
  <2>3. RefreshTypes'
    BY <1>1, <1>12, <2>2 DEF JobComplete, RefreshTypes
  <2> QED
    BY <1>1, <1>6, <1>12, <2>1, <2>3, StepKeeps DEF JobComplete
<1> QED
  BY <1>7, <1>8, <1>9, <1>10, <1>11, <1>12 DEF JobStep

-----------------------------------------------------------------------------
(* Requests.                                                               *)

\* A step that replaces one request by an honest one.
LEMMA RequestKeeps ==
  ASSUME ProxyInv, requestUnchanged, NEW r \in Reqs, NEW q \in ReqState,
         req' = [req EXCEPT ![r] = q],
         OneAnswer(q), EditIsCurrent(q), EditIsLocal(q),
         events' \in [all : 0..MaxEvents, job : 0..MaxJobs]
  PROVE  ProxyInv'
<1>1. DocMoves
  BY StillMoves DEF requestUnchanged
<1>2. req \in [Reqs -> ReqState] /\ RequestsHonest
  BY DEF ProxyInv, TypeOK
<1>3. EditIsCurrent(q)' /\ \A x \in Reqs : EditIsCurrent(req[x]) /\ UNCHANGED req[x]
                                      => EditIsCurrent(req[x])'
  BY DEF EditIsCurrent, requestUnchanged
<1>4. RequestsHonest'
  <2> SUFFICES ASSUME NEW x \in Reqs
               PROVE  OneAnswer(req'[x]) /\ EditIsCurrent(req[x])'
                      /\ EditIsLocal(req'[x])
    BY DEF RequestsHonest, OneAnswer, EditIsLocal
  <2>1. CASE x = r
    <3>1. req'[x] = q
      BY <1>2, <2>1
    <3> QED
      BY <1>3, <3>1
  <2>2. CASE x # r
    <3>1. req'[x] = req[x]
      BY <1>2, <2>2
    <3> QED
      BY <1>2, <1>3, <3>1 DEF RequestsHonest
  <2> QED
    BY <2>1, <2>2
<1>5. DocumentTypes' /\ PumpTypes' /\ RefreshTypes' /\ (jobs \subseteq JobState)'
  BY DEF ProxyInv, TypeOK, DocumentTypes, PumpTypes, RefreshTypes,
         requestUnchanged, refreshVars
<1>6. TypeOK'
  BY <1>2, <1>5 DEF TypeOK
<1>7. UpBehind' /\ jobs' = jobs
  BY DEF ProxyInv, UpBehind, requestUnchanged
<1> QED
  BY <1>1, <1>4, <1>6, <1>7, Assemble

\* Requests that are not sent yet.
LEMMA UnsentTyped ==
  /\ Unsent \in ReqState /\ Unsent.answers = 0 /\ Unsent.registry = "none"
  /\ Unsent.at = "unsent" /\ ~Unsent.cancelled
  /\ \A d \in Docs : Unsent.edit[d] = NoText
BY DEF Unsent, ReqState, Kinds, Text, NoText

\* A request that is over is honest when it was answered at most once, and a
\* dropped one has neither answer nor edit.
LEMMA ClosedHonest ==
  ASSUME ProxyInv, NEW q \in ReqState, NEW n \in Nat, NEW e \in [Docs -> Text],
         NEW a \in {"done", "dropped"}, n <= 1,
         a = "dropped" => n = 0 /\ \A d \in Docs : e[d] = NoText
  PROVE  /\ Closed(q, a, n, e) \in ReqState
         /\ Closed(q, a, n, e).answers = n /\ Closed(q, a, n, e).edit = e
         /\ OneAnswer(Closed(q, a, n, e)) /\ EditIsCurrent(Closed(q, a, n, e))
         /\ EditIsLocal(Closed(q, a, n, e))
<1>1. q.clean \in SUBSET Docs /\ q.cancelled \in BOOLEAN
  BY DEF ReqState
<1>2. PICK z : z = [Unsent EXCEPT !.at = a, !.answers = n, !.edit = e,
                                  !.clean = q.clean, !.cancelled = q.cancelled]
  OBVIOUS
<1>3. /\ z \in ReqState /\ z.at = a /\ z.answers = n /\ z.edit = e
      /\ z.registry = "none"
  BY <1>1, <1>2, UnsentTyped DEF ReqState
<1>4. OneAnswer(z) /\ EditIsCurrent(z) /\ EditIsLocal(z)
  BY <1>3 DEF OneAnswer, EditIsCurrent, EditIsLocal
<1> QED
  BY <1>2, <1>3, <1>4 DEF Closed

\* A request is sent.
LEMMA SendStep ==
  ASSUME ProxyInv, NEW r \in Reqs, NEW kind \in Kinds, NEW d \in Docs,
         Send(r, kind, d)
  PROVE  ProxyInv'
<1>1. /\ doc \in [Docs -> DocState]
      /\ \A x \in Docs : doc[x].gen \in Nat /\ doc[x].text \in Text
  BY DEF ProxyInv, TypeOK, DocumentTypes, DocState, Text
<1>2. events' \in [all : 0..MaxEvents, job : 0..MaxJobs] /\ requestUnchanged
  BY EventTypes DEF Send
<1> DEFINE blocked == doc[d].dirty /\ kind # "format"
<1>3. PICK sent : sent = [Unsent EXCEPT
                      !.kind = kind, !.doc = d, !.base = doc[d].text,
                      !.gens = [x \in Docs |-> doc[x].gen],
                      !.clean = IF kind = "format" THEN Docs ELSE Docs \ Dirty]
  OBVIOUS
<1>4. /\ sent \in ReqState /\ sent.kind = kind /\ sent.doc = d
      /\ sent.base = doc[d].text /\ sent.gens = [x \in Docs |-> doc[x].gen]
      /\ sent.clean = (IF kind = "format" THEN Docs ELSE Docs \ Dirty)
      /\ sent.edit = Unsent.edit /\ sent.answers = 0
      /\ sent.registry = "none" /\ ~sent.cancelled
  BY <1>1, <1>3, UnsentTyped DEF ReqState
<1>5. req' = [req EXCEPT ![r] =
            CASE blocked /\ kind # "forward" ->
                   Closed(sent, "done", 1, sent.edit)
              [] blocked /\ kind = "forward" ->
                   [sent EXCEPT !.at = "upstream"]
              [] ~blocked /\ kind = "forward" ->
                   [sent EXCEPT !.at = "upstream", !.registry = "actions"]
              [] ~blocked /\ kind = "local" ->
                   [sent EXCEPT !.at = "compute", !.registry = "local"]
              [] OTHER ->
                   [sent EXCEPT !.at = "compute", !.registry = "commands"]]
  BY <1>3 DEF Send
<1>6. ASSUME NEW a \in {"upstream", "compute"},
             NEW g \in {"none", "actions", "local", "commands"},
             req' = [req EXCEPT ![r] = [sent EXCEPT !.at = a, !.registry = g]]
      PROVE  ProxyInv'
  <2>1. PICK q : q = [sent EXCEPT !.at = a, !.registry = g]
    OBVIOUS
  <2>2. /\ q \in ReqState /\ q.at = a /\ q.registry = g /\ q.kind = kind
        /\ q.doc = d /\ q.base = sent.base /\ q.gens = sent.gens
        /\ q.clean = sent.clean /\ q.edit = Unsent.edit /\ q.answers = 0
        /\ ~q.cancelled
    BY <1>4, <2>1 DEF ReqState
  <2>3. OneAnswer(q) /\ EditIsLocal(q)
    BY <2>2, UnsentTyped DEF OneAnswer, EditIsLocal
  <2>4. EditIsCurrent(q)
    BY <1>1, <1>4, <2>2 DEF EditIsCurrent, Dirty
  <2> QED
    BY <1>2, <1>6, <2>1, <2>2, <2>3, <2>4, RequestKeeps
<1>7. CASE blocked /\ kind # "forward"
  <2>1. PICK q : q = Closed(sent, "done", 1, sent.edit)
    OBVIOUS
  <2>2. /\ q \in ReqState /\ OneAnswer(q) /\ EditIsCurrent(q)
        /\ EditIsLocal(q)
    <3>1. sent.edit \in [Docs -> Text] /\ 1 \in Nat
      BY <1>4 DEF ReqState
    <3> QED
      BY <1>4, <2>1, <3>1, ClosedHonest
  <2>3. req' = [req EXCEPT ![r] = q]
    BY <1>5, <1>7, <2>1
  <2> QED
    BY <1>2, <2>2, <2>3, RequestKeeps
<1>8. CASE blocked /\ kind = "forward"
  <2>1. req' = [req EXCEPT ![r] = [sent EXCEPT !.at = "upstream"]]
    BY <1>5, <1>8
  <2>2. [sent EXCEPT !.at = "upstream"]
          = [sent EXCEPT !.at = "upstream", !.registry = "none"]
    BY <1>4 DEF ReqState
  <2> QED
    BY <1>6, <2>1, <2>2
<1>9. CASE ~blocked
  BY <1>5, <1>6, <1>9 DEF Kinds
<1> QED
  BY <1>7, <1>8, <1>9

\* Requests and their answers keep the invariant.
LEMMA RequestSteps ==
  ASSUME ProxyInv, NEW r \in Reqs, Cancel(r) \/ RequestStep(r)
  PROVE  ProxyInv'
<1>1. /\ requestUnchanged /\ UNCHANGED events
      /\ events' \in [all : 0..MaxEvents, job : 0..MaxJobs]
  BY DEF Cancel, RequestStep, AugmentUpstream, ComputeAnswer, TakePending,
         WriteAnswer, ProxyInv, TypeOK
<1>2. /\ req \in [Reqs -> ReqState] /\ req[r] \in ReqState
      /\ OneAnswer(req[r]) /\ EditIsCurrent(req[r]) /\ EditIsLocal(req[r])
      /\ req[r].edit \in [Docs -> Text] /\ req[r].answers \in Nat
      /\ req[r].base \in Text
  BY DEF ProxyInv, TypeOK, RequestsHonest, ReqState
<1>3. ASSUME NEW q, q \in ReqState, req' = [req EXCEPT ![r] = q],
             OneAnswer(q), EditIsCurrent(q), EditIsLocal(q)
      PROVE  ProxyInv'
  BY <1>1, <1>3, RequestKeeps
<1>4. ASSUME req[r].answers = 0,
             req' = [req EXCEPT ![r] = Closed(req[r], "done",
                                              req[r].answers + 1, req[r].edit)]
             \/ req' = [req EXCEPT ![r] = Closed(req[r], "done",
                                              req[r].answers + 1, Unsent.edit)]
             \/ req' = [req EXCEPT ![r] = Closed(req[r], "dropped",
                                              req[r].answers, Unsent.edit)]
      PROVE  ProxyInv'
  <2>1. Unsent.edit \in [Docs -> Text]
    BY UnsentTyped DEF ReqState
  <2>2. CASE req' = [req EXCEPT ![r] = Closed(req[r], "done",
                                              req[r].answers + 1, req[r].edit)]
    <3>1. PICK q : q = Closed(req[r], "done", req[r].answers + 1, req[r].edit)
      OBVIOUS
    <3>2. /\ q \in ReqState /\ OneAnswer(q) /\ EditIsCurrent(q)
          /\ EditIsLocal(q)
      BY <1>2, <1>4, <3>1, ClosedHonest
    <3> QED
      BY <1>3, <2>2, <3>1, <3>2
  <2>3. CASE req' = [req EXCEPT ![r] = Closed(req[r], "done",
                                              req[r].answers + 1, Unsent.edit)]
    <3>1. PICK q : q = Closed(req[r], "done", req[r].answers + 1, Unsent.edit)
      OBVIOUS
    <3>2. /\ q \in ReqState /\ OneAnswer(q) /\ EditIsCurrent(q)
          /\ EditIsLocal(q)
      BY <1>2, <1>4, <2>1, <3>1, ClosedHonest
    <3> QED
      BY <1>3, <2>3, <3>1, <3>2
  <2>4. CASE req' = [req EXCEPT ![r] = Closed(req[r], "dropped",
                                              req[r].answers, Unsent.edit)]
    <3>1. PICK q : q = Closed(req[r], "dropped", req[r].answers, Unsent.edit)
      OBVIOUS
    <3>2. /\ q \in ReqState /\ OneAnswer(q) /\ EditIsCurrent(q)
          /\ EditIsLocal(q)
      BY <1>2, <1>4, <2>1, <3>1, UnsentTyped, ClosedHonest
    <3> QED
      BY <1>3, <2>4, <3>1, <3>2
  <2> QED
    BY <1>4, <2>2, <2>3, <2>4
<1>5. CASE Cancel(r)
  <2>1. PICK q : q = [req[r] EXCEPT !.cancelled = TRUE, !.registry = "none"]
    OBVIOUS
  <2>2. /\ q \in ReqState /\ q.at = req[r].at /\ q.kind = req[r].kind
        /\ q.doc = req[r].doc /\ q.base = req[r].base
        /\ q.gens = req[r].gens /\ q.clean = req[r].clean
        /\ q.edit = req[r].edit /\ q.answers = req[r].answers
        /\ q.registry = "none"
    BY <1>2, <2>1 DEF ReqState
  <2>3. req' = [req EXCEPT ![r] = q] /\ req[r].at # "unsent"
    BY <1>2, <1>5, <2>1 DEF Cancel
  <2>4. OneAnswer(q) /\ EditIsCurrent(q) /\ EditIsLocal(q)
    BY <1>2, <2>2, <2>3 DEF OneAnswer, EditIsCurrent, EditIsLocal
  <2> QED
    BY <1>3, <2>2, <2>3, <2>4
<1>6. CASE AugmentUpstream(r)
  <2>1. req[r].at = "upstream" /\ req[r].answers = 0
    BY <1>2, <1>6 DEF AugmentUpstream, OneAnswer
  <2>2. CASE req[r].registry = "actions"
    <3>1. PICK q : q = [req[r] EXCEPT !.at = "compute",
                                      !.registry = "augmenting"]
      OBVIOUS
    <3>2. /\ q \in ReqState /\ q.at = "compute" /\ q.kind = req[r].kind
          /\ q.doc = req[r].doc /\ q.base = req[r].base
          /\ q.gens = req[r].gens /\ q.clean = req[r].clean
          /\ q.edit = req[r].edit /\ q.answers = 0
          /\ q.cancelled = req[r].cancelled
      BY <1>2, <2>1, <3>1 DEF ReqState
    <3>3. req' = [req EXCEPT ![r] = q]
      BY <1>2, <1>6, <2>2, <3>1 DEF AugmentUpstream
    <3>4. OneAnswer(q) /\ EditIsCurrent(q) /\ EditIsLocal(q)
      BY <1>2, <2>1, <2>2, <3>2 DEF OneAnswer, EditIsCurrent, EditIsLocal
    <3> QED
      BY <1>3, <3>2, <3>3, <3>4
  <2>3. CASE req[r].registry # "actions"
    BY <1>2, <1>4, <1>6, <2>1, <2>3 DEF AugmentUpstream
  <2> QED
    BY <2>2, <2>3
<1>7. CASE ComputeAnswer(r)
  <2> DEFINE scope == IF req[r].kind = "command" THEN SUBSET Docs
                ELSE IF req[r].kind = "format"
                        \/ IsCleanAt(req[r].doc, req[r].gens[req[r].doc])
                THEN {{}, {req[r].doc}} ELSE {{}}
  <2>1. PICK T \in scope :
          req' = [req EXCEPT ![r].at = "take",
                             ![r].edit = [d \in Docs |->
                                IF d \notin T THEN NoText
                                ELSE IF req[r].kind = "format" THEN req[r].base
                                ELSE doc[d].program]]
    BY <1>7 DEF ComputeAnswer
  <2>2. PICK e : e = [d \in Docs |-> IF d \notin T THEN NoText
                                ELSE IF req[r].kind = "format" THEN req[r].base
                                ELSE doc[d].program]
    OBVIOUS
  <2>3. PICK q : q = [req[r] EXCEPT !.at = "take", !.edit = e]
    OBVIOUS
  <2>4. /\ e \in [Docs -> Text]
        /\ \A d \in Docs : e[d] # NoText =>
             /\ d \in T
             /\ e[d] = IF req[r].kind = "format" THEN req[r].base
                       ELSE doc[d].program
    <3>1. \A d \in Docs : doc[d].program \in Text
      BY DEF ProxyInv, TypeOK, DocumentTypes, DocState, Text
    <3> QED
      BY <1>2, <2>2, <3>1 DEF Text
  <2>5. /\ q \in ReqState /\ q.at = "take" /\ q.kind = req[r].kind
        /\ q.doc = req[r].doc /\ q.base = req[r].base
        /\ q.gens = req[r].gens /\ q.clean = req[r].clean
        /\ q.edit = e /\ q.answers = req[r].answers
        /\ q.cancelled = req[r].cancelled /\ q.registry = req[r].registry
    BY <1>2, <2>3, <2>4 DEF ReqState
  <2>6. req' = [req EXCEPT ![r] = q] /\ req[r].at = "compute"
    BY <1>2, <1>7, <2>1, <2>2, <2>3 DEF ComputeAnswer
  <2>7. T \subseteq {req[r].doc} \/ req[r].kind = "command"
    OBVIOUS
  <2>8. OneAnswer(q) /\ EditIsLocal(q)
    BY <1>2, <2>4, <2>5, <2>6, <2>7 DEF OneAnswer, EditIsLocal
  <2>9. EditIsCurrent(q)
    <3>1. \A d \in Docs : ~doc[d].dirty => doc[d].program = doc[d].text
      BY DEF ProxyInv, CleanIsProgram
    <3>2. q.clean \subseteq Docs
      BY <2>5 DEF ReqState
    <3> QED
      BY <1>2, <2>4, <2>5, <2>6, <2>7, <3>1, <3>2 DEF EditIsCurrent
  <2> QED
    BY <1>3, <2>5, <2>6, <2>8, <2>9
<1>8. CASE TakePending(r)
  <2>1. req[r].at = "take" /\ req[r].answers = 0
    BY <1>2, <1>8 DEF TakePending, OneAnswer
  <2>2. CASE req[r].registry = Registry(req[r].kind)
    <3>1. PICK q : q = [req[r] EXCEPT !.at = "answer", !.registry = "none"]
      OBVIOUS
    <3>2. /\ q \in ReqState /\ q.at = "answer" /\ q.kind = req[r].kind
          /\ q.doc = req[r].doc /\ q.base = req[r].base
          /\ q.gens = req[r].gens /\ q.clean = req[r].clean
          /\ q.edit = req[r].edit /\ q.answers = 0
          /\ q.cancelled = req[r].cancelled /\ q.registry = "none"
      BY <1>2, <2>1, <3>1 DEF ReqState
    <3>3. req' = [req EXCEPT ![r] = q]
      BY <1>2, <1>8, <2>2, <3>1 DEF TakePending
    <3>4. OneAnswer(q) /\ EditIsCurrent(q) /\ EditIsLocal(q)
      BY <1>2, <2>1, <3>2 DEF OneAnswer, EditIsCurrent, EditIsLocal
    <3> QED
      BY <1>3, <3>2, <3>3, <3>4
  <2>3. CASE req[r].registry # Registry(req[r].kind)
    BY <1>2, <1>4, <1>8, <2>1, <2>3 DEF TakePending
  <2> QED
    BY <2>2, <2>3
<1>9. CASE WriteAnswer(r)
  <2>1. req[r].at = "answer" /\ req[r].answers = 0
    BY <1>2, <1>9 DEF WriteAnswer, OneAnswer
  <2>2. CASE AnswerIsCurrent(req[r])
    BY <1>2, <1>4, <1>9, <2>1, <2>2 DEF WriteAnswer
  <2>3. CASE ~AnswerIsCurrent(req[r])
    BY <1>2, <1>4, <1>9, <2>1, <2>3 DEF WriteAnswer
  <2> QED
    BY <2>2, <2>3
<1> QED
  BY <1>5, <1>6, <1>7, <1>8, <1>9 DEF RequestStep

-----------------------------------------------------------------------------
(* The invariant, and what follows from it.                                *)

\* The invariant holds at first.
LEMMA InitInv == Init => ProxyInv
<1> SUFFICES ASSUME Init PROVE ProxyInv
  OBVIOUS
<1>1. DocumentTypes /\ CleanIsProgram
  BY DEF Init, DocumentTypes, CleanIsProgram, DocState, Text, NoText
<1>2. PumpTypes /\ UpBehind
  BY DEF Init, PumpTypes, PumpState, UpState, UpIdle, UpBehind
<1>3. RefreshTypes
  BY NoTaskTyped DEF Init, RefreshTypes, RefreshState
<1>4. jobs = {} /\ req \in [Reqs -> ReqState]
  BY UnsentTyped DEF Init
<1>5. events \in [all : 0..MaxEvents, job : 0..MaxJobs]
  BY ProxyAssumption DEF Init
<1>6. RequestsHonest
  <2> SUFFICES ASSUME NEW r \in Reqs
               PROVE  OneAnswer(req[r]) /\ EditIsCurrent(req[r])
                      /\ EditIsLocal(req[r])
    BY DEF RequestsHonest
  <2>1. req[r] = Unsent
    BY DEF Init
  <2> QED
    BY <2>1, UnsentTyped DEF OneAnswer, EditIsCurrent, EditIsLocal
<1> QED
  BY <1>1, <1>2, <1>3, <1>4, <1>5, <1>6 DEF ProxyInv, TypeOK, JobsGood

\* Every step keeps the invariant.
LEMMA StepInv == ProxyInv /\ [Next]_vars => ProxyInv'
<1> SUFFICES ASSUME ProxyInv, [Next]_vars PROVE ProxyInv'
  OBVIOUS
<1>1. CASE EditorEvent
  <2>1. CASE \E d \in Docs : \/ DidChange(d) \/ DidSave(d) \/ DidOpenClean(d)
                             \/ DidOpenDirty(d) \/ DidClose(d) \/ Deleted(d)
    BY <2>1, DocumentSteps
  <2>2. CASE \/ \E changed \in SUBSET Owners \ {{}} :
                  InputsChanged(changed, FALSE)
             \/ InputsChanged({}, TRUE)
    BY <2>2, RefreshSteps
  <2>3. CASE \E r \in Reqs, kind \in Kinds, d \in Docs : Send(r, kind, d)
    BY <2>3, SendStep
  <2>4. CASE \E r \in Reqs : Cancel(r)
    BY <2>4, RequestSteps
  <2> QED
    BY <1>1, <2>1, <2>2, <2>3, <2>4 DEF EditorEvent
<1>2. CASE \E d \in Docs : UpstreamPublishes(d)
  BY <1>2, PublicationSteps
<1>3. CASE PumpStep \/ UpstreamStep
  <2>1. CASE ClearShown
    <3>1. pump.doc \in Docs
      BY <2>1 DEF ClearShown, ProxyInv, TypeOK, PumpTypes
    <3> QED
      BY <2>1, <3>1, DocumentSteps
  <2>2. CASE StartPublication \/ UpstreamStep
    <3>1. \E d \in Docs : TRUE
      BY <2>2 DEF StartPublication, UpstreamStep, UpstreamGenerations,
                  UpstreamForward, ProxyInv, TypeOK, PumpTypes
    <3> QED
      BY <2>2, <3>1, PublicationSteps DEF UpstreamStep
  <2>3. CASE ResumeRefresh
    BY <2>3, RefreshSteps
  <2> QED
    BY <1>3, <2>1, <2>2, <2>3 DEF PumpStep
<1>4. CASE TimerFires \/ TaskStep
  BY <1>4, RefreshSteps
<1>5. CASE \E j \in jobs : JobStep(j)
  BY <1>5, JobSteps
<1>6. CASE \E r \in Reqs : RequestStep(r)
  BY <1>6, RequestSteps
<1>7. CASE UNCHANGED vars
  <2>1. PumpTypes' /\ RefreshTypes'
    BY <1>7 DEF vars, ProxyInv, TypeOK, PumpTypes, RefreshTypes
  <2>2. events' \in [all : 0..MaxEvents, job : 0..MaxJobs]
    BY <1>7 DEF vars, ProxyInv, TypeOK
  <2> QED
    BY <1>7, <2>1, <2>2, QuietStep DEF vars
<1> QED
  BY <1>1, <1>2, <1>3, <1>4, <1>5, <1>6, <1>7 DEF Next, Progress

\* What findings and answers rest on holds in every reachable state of the proxy,
\* however notifications, goroutines and frames of tsgo interleave.
THEOREM ProxyInvariant == Spec => []ProxyInv
<1> QED
  BY InitInv, StepInv, PTL DEF Spec

\* Every variable keeps its type and the coalescer counts its run, whatever
\* the numbers of documents, plugins and requests.
THEOREM ProxyTypes == Spec => []TypeOK
<1>1. ProxyInv => TypeOK
  BY DEF ProxyInv
<1> QED
  BY <1>1, ProxyInvariant, PTL

\* lsp_proxy.go:705-812: no id is answered twice, and a registry holds an id
\* only while a goroutine or tsgo will still bring its answer.
THEOREM ProxyAnswersOnce == Spec => []AnsweredOnce
<1>1. ProxyInv => AnsweredOnce
  BY DEF ProxyInv, RequestsHonest, OneAnswer, AnsweredOnce
<1> QED
  BY <1>1, ProxyInvariant, PTL

\* What JobWrite does is the only way findings get on display.
LEMMA ShownByJobs ==
  ASSUME ProxyInv, [Next]_vars, NEW d \in Docs,
         shown'[d] # shown[d], shown'[d] # NoText
  PROVE  \E j \in jobs : JobWrite(j)
<1>1. shown \in [Docs -> Text]
  BY DEF ProxyInv, TypeOK, DocumentTypes
<1>2. CASE EditorEvent
  BY <1>1, <1>2 DEF EditorEvent, DidChange, DidSave, DidOpenClean,
     DidOpenDirty, DidClose, Deleted, InputsChanged, Send, Cancel,
     requestUnchanged
<1>3. CASE \E x \in Docs : UpstreamPublishes(x)
  BY <1>3 DEF UpstreamPublishes
<1>4. CASE PumpStep \/ UpstreamStep
  BY <1>1, <1>4 DEF PumpStep, UpstreamStep, ClearShown, StartPublication,
     ResumeRefresh, UpstreamGenerations, UpstreamForward
<1>5. CASE TimerFires \/ TaskStep
  BY <1>5 DEF TimerFires, TaskStep, TaskStart, TaskCompute, TaskWrite,
     TaskWritten, TaskComplete
<1>6. ASSUME NEW j \in jobs, JobStep(j) PROVE JobWrite(j)
  BY <1>6 DEF JobStep, JobCompute, JobPrepare, JobProject, JobRecord,
     JobComplete
<1>7. CASE \E r \in Reqs : RequestStep(r)
  BY <1>7 DEF RequestStep, AugmentUpstream, ComputeAnswer, TakePending,
     WriteAnswer, requestUnchanged
<1>8. CASE UNCHANGED vars
  BY <1>8 DEF vars
<1> QED
  BY <1>2, <1>3, <1>4, <1>5, <1>6, <1>7, <1>8 DEF Next, Progress

\* lsp_proxy.go:1463-1475: whatever happens between the computation, the
\* cache and the write, findings reach the editor only for the current text
\* of a clean document.
THEOREM ProxyFindingsCurrent == Spec => FindingsCurrent
<1>1. ASSUME ProxyInv, [Next]_vars
      PROVE  \A d \in Docs :
               shown'[d] # shown[d] /\ shown'[d] # NoText =>
                 ~doc[d].dirty /\ shown'[d] = doc[d].text
  <2> SUFFICES ASSUME NEW d \in Docs, shown'[d] # shown[d], shown'[d] # NoText
               PROVE  ~doc[d].dirty /\ shown'[d] = doc[d].text
    OBVIOUS
  <2>1. PICK j \in jobs : JobWrite(j)
    BY <1>1, ShownByJobs
  <2>2. shown \in [Docs -> Text] /\ j.doc \in Docs /\ GoodJob(j)
    BY <1>1 DEF ProxyInv, TypeOK, DocumentTypes, JobState, JobsGood
  <2>3. Latest(j) /\ d = j.doc /\ shown'[d] = j.found
    BY <2>1, <2>2 DEF JobWrite
  <2> QED
    BY <2>2, <2>3 DEF Latest, GoodJob
<1>2. ProxyInv /\ [Next]_vars =>
        [\A d \in Docs : shown'[d] # shown[d] /\ shown'[d] # NoText =>
            ~doc[d].dirty /\ shown'[d] = doc[d].text]_vars
  BY <1>1
<1> QED
  BY <1>2, ProxyInvariant, PTL DEF Spec, FindingsCurrent

\* Only three steps answer a request, and two of them carry no edit.
LEMMA AnsweredBy ==
  ASSUME ProxyInv, [Next]_vars, NEW r \in Reqs,
         req'[r].answers > req[r].answers
  PROVE  \/ WriteAnswer(r)
         \/ \A d \in Docs : req'[r].edit[d] = NoText
<1>1. /\ req \in [Reqs -> ReqState]
      /\ \A x \in Reqs : req[x].answers \in Nat
  BY DEF ProxyInv, TypeOK, ReqState
<1>2. req' # req
  BY <1>1
<1>3. PICK x \in Reqs :
         \/ \E kind \in Kinds, d \in Docs : Send(x, kind, d)
         \/ Cancel(x) \/ RequestStep(x)
  <2>1. \/ \E x \in Reqs, kind \in Kinds, d \in Docs : Send(x, kind, d)
        \/ \E x \in Reqs : Cancel(x) \/ RequestStep(x)
    <3>1. CASE EditorEvent
      BY <1>2, <3>1 DEF EditorEvent, DidChange, DidSave, DidOpenClean,
         DidOpenDirty, DidClose, Deleted, InputsChanged
    <3>2. CASE \E x \in Docs : UpstreamPublishes(x)
      BY <1>2, <3>2 DEF UpstreamPublishes
    <3>3. CASE PumpStep \/ UpstreamStep
      BY <1>2, <3>3 DEF PumpStep, UpstreamStep, ClearShown, StartPublication,
         ResumeRefresh, UpstreamGenerations, UpstreamForward
    <3>4. CASE TimerFires \/ TaskStep
      BY <1>2, <3>4 DEF TimerFires, TaskStep, TaskStart, TaskCompute,
         TaskWrite, TaskWritten, TaskComplete
    <3>5. CASE \E j \in jobs : JobStep(j)
      BY <1>2, <3>5 DEF JobStep, JobCompute, JobPrepare, JobWrite, JobProject,
         JobRecord, JobComplete
    <3>6. CASE UNCHANGED vars
      BY <1>2, <3>6 DEF vars
    <3> QED
      BY <3>1, <3>2, <3>3, <3>4, <3>5, <3>6 DEF Next, Progress
  <2> QED
    BY <2>1
<1>4. x = r
  <2> SUFFICES ASSUME x # r PROVE req'[r] = req[r]
    BY <1>1
  <2>1. CASE \E kind \in Kinds, d \in Docs : Send(x, kind, d)
    <3>1. PICK kind \in Kinds, d \in Docs : Send(x, kind, d)
      BY <2>1
    <3>2. PICK v : req' = [req EXCEPT ![x] = v]
      BY <3>1, Zenon DEF Send
    <3> QED
      BY <1>1, <3>2
  <2>2. CASE Cancel(x)
    BY <1>1, <2>2 DEF Cancel
  <2>3. CASE RequestStep(x)
    <3>1. CASE AugmentUpstream(x)
      BY <1>1, <3>1, Zenon DEF AugmentUpstream
    <3>2. CASE ComputeAnswer(x)
      BY <1>1, <3>2 DEF ComputeAnswer
    <3>3. CASE TakePending(x)
      BY <1>1, <3>3, Zenon DEF TakePending
    <3>4. CASE WriteAnswer(x)
      BY <1>1, <3>4, Zenon DEF WriteAnswer
    <3> QED
      BY <2>3, <3>1, <3>2, <3>3, <3>4 DEF RequestStep
  <2> QED
    BY <1>3, <2>1, <2>2, <2>3
<1>5. PICK e : e = req[r] /\ e \in ReqState /\ OneAnswer(e) /\ EditIsLocal(e)
  BY <1>1 DEF ProxyInv, RequestsHonest
<1>6. CASE RequestStep(r)
  <2>1. ~ComputeAnswer(r)
    <3> SUFFICES ASSUME ComputeAnswer(r) PROVE req'[r].answers = e.answers
      BY <1>1, <1>5
    <3>1. PICK f : req' = [req EXCEPT ![r] = [e EXCEPT !.at = "take",
                                                       !.edit = f]]
      BY <1>1, <1>5 DEF ComputeAnswer
    <3> QED
      BY <1>1, <1>5, <3>1 DEF ReqState
  <2>2. ~TakePending(r)
    <3> SUFFICES ASSUME TakePending(r) PROVE req'[r].answers = e.answers
      BY <1>1, <1>5
    <3>1. \/ req'[r] = [e EXCEPT !.at = "answer", !.registry = "none"]
          \/ req'[r] = Closed(e, "dropped", e.answers, Unsent.edit)
      BY <1>1, <1>5 DEF TakePending
    <3>2. [e EXCEPT !.at = "answer", !.registry = "none"].answers = e.answers
      BY <1>5 DEF ReqState
    <3>3. Closed(e, "dropped", e.answers, Unsent.edit).answers = e.answers
      BY UnsentTyped DEF Closed, Unsent
    <3> QED
      BY <3>1, <3>2, <3>3
  <2>3. CASE AugmentUpstream(r)
    <3>1. e.edit \in [Docs -> Text]
      BY <1>5 DEF ReqState
    <3>2. req'[r] = Closed(e, "done", e.answers + 1, e.edit)
      BY <1>1, <1>5, <2>3 DEF AugmentUpstream
    <3>3. \A d \in Docs : e.edit[d] = NoText
      BY <1>5, <2>3 DEF AugmentUpstream, EditIsLocal
    <3>4. req'[r].edit = e.edit
      BY <1>1, <1>5, <2>3, <3>1, <3>2, ClosedHonest
         DEF AugmentUpstream, OneAnswer
    <3> QED
      BY <3>3, <3>4
  <2> QED
    BY <1>6, <2>1, <2>2, <2>3 DEF RequestStep
<1>7. ~Cancel(r)
  <2> SUFFICES ASSUME Cancel(r) PROVE req'[r].answers = e.answers
    BY <1>1, <1>5
  <2>1. req'[r] = [e EXCEPT !.cancelled = TRUE, !.registry = "none"]
    BY <1>1, <1>5 DEF Cancel
  <2> QED
    BY <1>5, <2>1 DEF ReqState
<1>8. ASSUME NEW kind \in Kinds, NEW d \in Docs, Send(r, kind, d)
      PROVE  \A y \in Docs : req'[r].edit[y] = NoText
  <2>1. PICK sent :
          /\ sent = [Unsent EXCEPT
                      !.kind = kind, !.doc = d, !.base = doc[d].text,
                      !.gens = [x1 \in Docs |-> doc[x1].gen],
                      !.clean = IF kind = "format" THEN Docs ELSE Docs \ Dirty]
    OBVIOUS
  <2>2. sent.edit = Unsent.edit
    BY <2>1 DEF Unsent
  <2>3. \/ req'[r] = Closed(sent, "done", 1, sent.edit)
        \/ req'[r] = [sent EXCEPT !.at = "upstream"]
        \/ req'[r] = [sent EXCEPT !.at = "upstream", !.registry = "actions"]
        \/ req'[r] = [sent EXCEPT !.at = "compute", !.registry = "local"]
        \/ req'[r] = [sent EXCEPT !.at = "compute", !.registry = "commands"]
    BY <1>1, <1>8, <2>1 DEF Send
  <2>4. req'[r].edit = sent.edit
    <3>1. Closed(sent, "done", 1, sent.edit).edit = sent.edit
      BY DEF Closed, Unsent
    <3>2. \A a \in {"upstream", "compute"}, g \in {"actions", "local", "commands"} :
            /\ [sent EXCEPT !.at = a].edit = sent.edit
            /\ [sent EXCEPT !.at = a, !.registry = g].edit = sent.edit
      BY <2>1 DEF Unsent
    <3> QED
      BY <2>3, <3>1, <3>2
  <2> QED
    BY <2>2, <2>4, UnsentTyped
<1> QED
  BY <1>3, <1>4, <1>6, <1>7, <1>8

\* lsp_proxy.go:1559-1581, 3167-3180: an edit the editor receives was
\* computed from the text its document has at that moment.
THEOREM ProxyAnswersCurrent == Spec => AnswersCurrent
<1>1. ASSUME ProxyInv, [Next]_vars, NEW r \in Reqs,
             req'[r].answers > req[r].answers, NEW d \in req[r].clean,
             req'[r].edit[d] # NoText
      PROVE  req'[r].edit[d] = doc[d].text
  <2>1. /\ req \in [Reqs -> ReqState] /\ req[r] \in ReqState /\ d \in Docs
        /\ EditIsCurrent(req[r]) /\ EditIsLocal(req[r]) /\ OneAnswer(req[r])
    BY <1>1 DEF ProxyInv, TypeOK, RequestsHonest, ReqState
  <2>2. WriteAnswer(r)
    BY <1>1, <2>1, AnsweredBy
  <2>3. Unsent.edit \in [Docs -> Text] /\ Unsent.edit[d] = NoText
    BY <2>1, UnsentTyped DEF ReqState
  <2>4. PICK q : q = req[r]
    OBVIOUS
  <2>5. q.at = "answer" /\ q.answers = 0 /\ q.edit \in [Docs -> Text]
    BY <2>1, <2>2, <2>4 DEF WriteAnswer, OneAnswer, ReqState
  <2>6. PICK e \in {q.edit, Unsent.edit} :
          /\ req'[r] = Closed(q, "done", 1, e)
          /\ e = q.edit => AnswerIsCurrent(q) \/ e = Unsent.edit
    BY <2>1, <2>2, <2>4, <2>5 DEF WriteAnswer
  <2>7. req'[r].edit = e
    BY <1>1, <2>1, <2>3, <2>4, <2>5, <2>6, ClosedHonest
  <2>8. AnswerIsCurrent(q) /\ e = q.edit /\ q.edit[d] # NoText
    BY <1>1, <2>3, <2>6, <2>7
  <2>9. d = q.doc \/ q.kind = "command"
    BY <2>1, <2>4, <2>5, <2>8 DEF EditIsLocal
  <2>10. q.gens[d] = doc[d].gen
    BY <2>1, <2>8, <2>9 DEF AnswerIsCurrent, IsCleanAt
  <2>11. q.edit[d] = doc[d].text
    BY <1>1, <2>1, <2>4, <2>5, <2>8, <2>10 DEF EditIsCurrent
  <2> QED
    BY <2>7, <2>8, <2>11
<1>2. ProxyInv /\ [Next]_vars =>
        [\A r \in Reqs : req'[r].answers > req[r].answers =>
            \A d \in req[r].clean :
              req'[r].edit[d] # NoText => req'[r].edit[d] = doc[d].text]_vars
  BY <1>1
<1> QED
  BY <1>2, ProxyInvariant, PTL DEF Spec, AnswersCurrent
=============================================================================
