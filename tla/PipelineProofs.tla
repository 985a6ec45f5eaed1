--------------------------- MODULE PipelineProofs ---------------------------
(***************************************************************************)
(* Theorems about Pipeline, for every set of documents and clients, every  *)
(* queue length and any number of requests, faults and crashes.            *)
(***************************************************************************)
EXTENDS Pipeline, TLAPS

-----------------------------------------------------------------------------
(* What the operators return. *)

\* The tags the worker writes by name are tags.
LEMMA NamedTags ==
    /\ {"ai-error", "ai-propagated", "ai-propagation-error", "ai-duplicate"} \subseteq Tag
    /\ UNTRUSTED_SOURCE_TAGS \subseteq Tag
BY DEF Tag, LIFECYCLE_TAGS, AUXILIARY_TAGS, UNTRUSTED_SOURCE_TAGS

\* What the gate decides is a set of tags.
LEMMA RouteTyped ==
    ASSUME NEW x, NEW u PROVE routeLifecycleTags(x, u) \subseteq Tag
BY DEF routeLifecycleTags, pending, Tag, LIFECYCLE_TAGS, AUXILIARY_TAGS

\* What a request plans is a set of tags.
LEMMA PlanTyped ==
    ASSUME NEW current \in SUBSET Tag, NEW op \in AllOps
    PROVE  planTagSwap(current, KnownTags, SwapRemove[op], SwapAdd[op]) \in SUBSET Tag
BY KnownTagsAssumption DEF planTagSwap

\* What the propagator computes is a set of tags.
LEMMA NewTagSetTyped ==
    ASSUME NEW d \in Docs, NEW seen \in SUBSET Tag, NEW dups
    PROVE  newTagSet(d, seen, dups) \in SUBSET Tag
BY SuggestedAssumption, NamedTags DEF newTagSet, splitSuggestedTags

-----------------------------------------------------------------------------
(* Type correctness. *)

\* A PATCH with a typed list leaves Paperless typed.
LEMMA PatchTyped ==
    ASSUME PaperlessTyped, NEW d \in Docs, NEW new \in SUBSET Tag, PatchTags(d, new)
    PROVE  PaperlessTyped'
BY DEF PaperlessTyped, PatchTags, LateAfter

\* Enqueueing a document keeps the worker's queues typed.
LEMMA EnqueueTyped ==
    ASSUME QueuesTyped, NEW t, NEW d \in Docs, Enqueue(t, d) \/ NotTriggered
    PROVE  QueuesTyped'
<1>1. /\ Append(extractionQueue, d) \in Seq(Docs)
      /\ Append(propagationQueue, d) \in Seq(Docs)
    BY DEF QueuesTyped
<1>. QED
    BY <1>1 DEF QueuesTyped, Enqueue, NotTriggered

\* Taking the first document off a queue.
LEMMA TakeTyped ==
    ASSUME NEW queue \in Seq(Docs), queue # <<>>
    PROVE  Head(queue) \in Docs /\ Tail(queue) \in Seq(Docs)
OBVIOUS

\* The bounds are numbers.
LEMMA BoundsTyped ==
    /\ MaxTransient \in Nat \ {0}
    /\ MaxAttempts \in Nat \ {0}
    /\ MaxOps \in Nat /\ MaxFaults \in Nat /\ MaxCrashes \in Nat
BY BoundsAssumption

\* The bounds hold after a fault and after a call that succeeded.
LEMMA FaultTyped ==
    ASSUME budget \in Budget, Fault \/ NoFault
    PROVE  budget' \in Budget
BY BoundsTyped DEF Budget, Fault, NoFault

\* The extraction consumer drops its document, or keeps it and goes somewhere.
LEMMA ExtMovesTyped ==
    ASSUME ExtTyped, ext.pc # "idle",
           transient' \in [Docs -> 0 .. MaxTransient - 1],
           ExtIdles \/ ExtGoes("errGet")
    PROVE  ExtTyped'
<1>1. IdleExt \in ExtSlot /\ IdleExt.pc = "idle"
    BY DEF IdleExt, ExtSlot
<1>2. LET e == [IdleExt EXCEPT !.pc = "errGet", !.doc = ext.doc]
      IN  e \in ExtSlot /\ e.doc \in Docs
    BY DEF IdleExt, ExtSlot, ExtTyped
<1>. QED
    BY <1>1, <1>2 DEF ExtTyped, ExtIdles, ExtGoes

LEMMA ClearTransientTyped ==
    ASSUME ExtTyped, ClearTransient
    PROVE  transient' \in [Docs -> 0 .. MaxTransient - 1]
<1>1. 0 \in 0 .. MaxTransient - 1
    BY BoundsTyped
<1>. QED
    BY <1>1 DEF ExtTyped, ClearTransient

\* A client's new request is all that has to be typed.
LEMMA ReqIsTyped ==
    ASSUME ReqTyped, NEW c \in Clients, NEW r \in Request, ReqIs(c, r),
           r.pc # "idle" => r.doc \in Docs
    PROVE  ReqTyped'
BY DEF ReqTyped, ReqIs

\* The state nobody touches stays typed.
LEMMA UnchangedTyped ==
    ASSUME TypeOK
    PROVE  /\ UNCHANGED paperless => PaperlessTyped'
           /\ UNCHANGED <<extractionQueue, propagationQueue, indexJobs>> => QueuesTyped'
           /\ UNCHANGED <<ext, transient>> => ExtTyped'
           /\ UNCHANGED prop => PropTyped'
           /\ UNCHANGED req => ReqTyped'
           /\ UNCHANGED budget => (budget \in Budget)'
           /\ UNCHANGED approvedBy => (approvedBy \in [Docs -> SUBSET {"user", "rules"}])'
<1>1. UNCHANGED paperless => PaperlessTyped'
    BY DEF TypeOK, PaperlessTyped, paperless
<1>2. UNCHANGED <<extractionQueue, propagationQueue, indexJobs>> => QueuesTyped'
    BY DEF TypeOK, QueuesTyped
<1>3. UNCHANGED <<ext, transient>> => ExtTyped'
    BY DEF TypeOK, ExtTyped
<1>4. UNCHANGED prop => PropTyped'
    BY DEF TypeOK, PropTyped
<1>5. UNCHANGED req => ReqTyped'
    BY DEF TypeOK, ReqTyped
<1>. QED
    BY <1>1, <1>2, <1>3, <1>4, <1>5 DEF TypeOK

LEMMA InitTyped == Init => TypeOK
<1> SUFFICES ASSUME Init
             PROVE  TypeOK
    OBVIOUS
<1> USE DEF Init
<1>1. PaperlessTyped
    BY SourceAssumption, NamedTags DEF PaperlessTyped, SourceTags
<1>2. QueuesTyped
    BY DEF QueuesTyped
<1>3. ExtTyped
    BY BoundsTyped DEF ExtTyped, ExtSlot, IdleExt
<1>4. PropTyped
    BY DEF PropTyped, PropSlot, IdleProp
<1>5. ReqTyped
    BY BoundsTyped DEF ReqTyped, Request, IdleReq, AllOps
<1>6. approvedBy \in [Docs -> SUBSET {"user", "rules"}]
    OBVIOUS
<1>7. budget \in Budget
    BY BoundsTyped DEF Budget
<1>. QED
    BY <1>1, <1>2, <1>3, <1>4, <1>5, <1>6, <1>7 DEF TypeOK

(***************************************************************************)
(* One lemma per actor: Paperless and the pollers, the extraction          *)
(* consumer, the propagation consumer, the API.                            *)
(***************************************************************************)
LEMMA ArrivalTyped ==
    ASSUME TypeOK, NEW d \in Docs, Consume(d) \/ PollUnprocessed(d) \/ PollApproved(d)
    PROVE  TypeOK'
<1> USE DEF TypeOK
<1>1. CASE Consume(d)
  <2>1. PaperlessTyped'
      BY <1>1, NamedTags DEF Consume, PaperlessTyped, SourceTags
  <2>2. QueuesTyped'
      BY <1>1, EnqueueTyped DEF Consume
  <2>. QED
      BY <1>1, <2>1, <2>2, UnchangedTyped DEF Consume
<1>2. CASE PollUnprocessed(d) \/ PollApproved(d)
    BY <1>2, EnqueueTyped, UnchangedTyped DEF PollUnprocessed, PollApproved
<1>. QED
    BY <1>1, <1>2

LEMMA ExtStepTyped ==
    ASSUME TypeOK, ExtStep
    PROVE  TypeOK'
<1> USE DEF TypeOK
<1>1. CASE ExtTake
  <2>1. ExtTyped'
      BY <1>1, TakeTyped DEF ExtTake, ExtTyped, ExtSlot, IdleExt, QueuesTyped
  <2>2. QueuesTyped'
      BY <1>1, TakeTyped DEF ExtTake, QueuesTyped
  <2>. QED
      BY <1>1, <2>1, <2>2, UnchangedTyped DEF ExtTake
<1>2. CASE ExtFetch
  <2>1. PaperlessTyped'
      BY <1>2 DEF ExtFetch, PaperlessTyped
  <2>2. ExtTyped'
    <3>1. CASE ExtIdles \/ ExtGoes("errGet")
        BY <1>2, <3>1, ExtMovesTyped DEF ExtFetch, ExtTyped
    <3>2. CASE ext' = [ext EXCEPT !.pc = "llm", !.seen = tags[ext.doc]]
        BY <1>2, <3>2 DEF ExtFetch, ExtTyped, ExtSlot, PaperlessTyped
    <3>. QED
        BY <1>2, <3>1, <3>2 DEF ExtFetch
  <2>3. budget' \in Budget
      BY <1>2, FaultTyped DEF ExtFetch
  <2>. QED
      BY <1>2, <2>1, <2>2, <2>3, UnchangedTyped DEF ExtFetch
<1>3. CASE ExtWriteFails
  <2>1. ExtTyped'
      BY <1>3, ExtMovesTyped, ClearTransientTyped DEF ExtWriteFails
  <2>2. budget' \in Budget
      BY <1>3, FaultTyped DEF ExtWriteFails
  <2>. QED
      BY <1>3, <2>1, <2>2, UnchangedTyped DEF ExtWriteFails
<1>4. CASE ExtDefer
  <2>1. transient' \in [Docs -> 0 .. MaxTransient - 1]
      BY <1>4, BoundsTyped DEF ExtDefer, ExtTyped
  <2>2. ExtTyped'
      BY <1>4, <2>1, ExtMovesTyped DEF ExtDefer
  <2>. QED
      BY <1>4, <2>2, UnchangedTyped DEF ExtDefer
<1>5. CASE ExtGiveUp
  <2>1. ExtTyped'
      BY <1>5, ExtMovesTyped, ClearTransientTyped DEF ExtGiveUp
  <2>. QED
      BY <1>5, <2>1, UnchangedTyped DEF ExtGiveUp
<1>6. CASE ExtPut
  <2>1. PaperlessTyped'
      BY <1>6, PatchTyped, UnchangedTyped DEF ExtPut, ExtTyped, ExtSlot
  <2>2. ExtTyped'
      BY <1>6, ExtMovesTyped DEF ExtPut, ExtTyped
  <2>3. budget' \in Budget
      BY <1>6, FaultTyped DEF ExtPut
  <2>. QED
      BY <1>6, <2>1, <2>2, <2>3, UnchangedTyped DEF ExtPut
<1>7. CASE ExtErrGet
  <2>1. ExtTyped'
    <3>1. CASE ExtIdles
        BY <1>7, <3>1, ExtMovesTyped DEF ExtErrGet, ExtTyped
    <3>2. CASE ext' = [ext EXCEPT !.pc = "errPut", !.seen = tags[ext.doc]]
        BY <1>7, <3>2 DEF ExtErrGet, ExtTyped, ExtSlot, PaperlessTyped
    <3>. QED
        BY <1>7, <3>1, <3>2 DEF ExtErrGet
  <2>2. budget' \in Budget
      BY <1>7, FaultTyped DEF ExtErrGet
  <2>. QED
      BY <1>7, <2>1, <2>2, UnchangedTyped DEF ExtErrGet
<1>8. CASE ExtErrPut
  <2>1. PaperlessTyped'
      BY <1>8, PatchTyped, UnchangedTyped, NamedTags DEF ExtErrPut, ExtTyped, ExtSlot
  <2>2. ExtTyped'
      BY <1>8, ExtMovesTyped DEF ExtErrPut, ExtTyped
  <2>3. budget' \in Budget
      BY <1>8, FaultTyped DEF ExtErrPut
  <2>. QED
      BY <1>8, <2>1, <2>2, <2>3, UnchangedTyped DEF ExtErrPut
<1>9. ASSUME NEW x \in Extraction, ExtRoute(x)
      PROVE  TypeOK'
  <2>1. ExtTyped'
    <3> DEFINE add == routeLifecycleTags(x, isUntrustedSource(ext.seen))
               e == [ext EXCEPT !.pc = "put", !.seen = tags[ext.doc], !.add = add]
    <3>1. ext' = e /\ ext.pc = "llm"
        BY <1>9 DEF ExtRoute
    <3>2. add \subseteq Tag
        BY RouteTyped
    <3> HIDE DEF add
    <3>3. e \in ExtSlot /\ e.doc \in Docs
        BY <3>1, <3>2 DEF ExtTyped, ExtSlot, PaperlessTyped
    <3>. QED
        BY <1>9, <3>1, <3>3, ClearTransientTyped DEF ExtRoute, ExtTyped
  <2>2. approvedBy' \in [Docs -> SUBSET {"user", "rules"}]
      BY <1>9 DEF ExtRoute
  <2>. QED
      BY <1>9, <2>1, <2>2, UnchangedTyped DEF ExtRoute, NoFault
<1>. QED
    BY <1>1, <1>2, <1>3, <1>4, <1>5, <1>6, <1>7, <1>8, <1>9 DEF ExtStep

LEMMA PropStepTyped ==
    ASSUME TypeOK, PropStep
    PROVE  TypeOK'
<1> USE DEF TypeOK
<1>1. CASE PropTake
  <2>1. PropTyped'
      BY <1>1, TakeTyped DEF PropTake, PropTyped, PropSlot, IdleProp, QueuesTyped
  <2>2. QueuesTyped'
      BY <1>1, TakeTyped DEF PropTake, QueuesTyped
  <2>. QED
      BY <1>1, <2>1, <2>2, UnchangedTyped DEF PropTake
<1>2. CASE PropFetch
  <2>1. PropTyped'
    <3>1. CASE PropIdles
        BY <3>1 DEF PropIdles, IdleProp, PropTyped, PropSlot
    <3>2. CASE prop' = [prop EXCEPT !.pc = "search", !.seen = tags[prop.doc]]
        BY <1>2, <3>2 DEF PropFetch, PropTyped, PropSlot, PaperlessTyped
    <3>. QED
        BY <1>2, <3>1, <3>2 DEF PropFetch
  <2>2. budget' \in Budget
      BY <1>2, FaultTyped DEF PropFetch
  <2>. QED
      BY <1>2, <2>1, <2>2, UnchangedTyped DEF PropFetch
<1>8. CASE PropSearch
  <2>1. findDuplicateIds(prop.doc, prop.seen) \in SUBSET Docs
      BY DEF findDuplicateIds, PaperlessTyped
  <2>2. PropTyped'
    <3>1. CASE prop' = [prop EXCEPT !.pc = "put",
                                    !.dups = findDuplicateIds(prop.doc, prop.seen)]
        BY <1>8, <2>1, <3>1 DEF PropSearch, PropTyped, PropSlot
    <3>2. ASSUME NEW pc \in {"put", "recover"}, prop' = [prop EXCEPT !.pc = pc]
          PROVE  PropTyped'
        BY <1>8, <3>2 DEF PropSearch, PropTyped, PropSlot
    <3>. QED
        BY <1>8, <3>1, <3>2 DEF PropSearch
  <2>3. budget' \in Budget
      BY <1>8, FaultTyped DEF PropSearch
  <2>. QED
      BY <1>8, <2>2, <2>3, UnchangedTyped DEF PropSearch
<1>3. CASE PropPut
  <2>1. PaperlessTyped'
      BY <1>3, PatchTyped, UnchangedTyped, NewTagSetTyped DEF PropPut, PropTyped, PropSlot
  <2>2. PropTyped'
      BY <1>3 DEF PropPut, PropTyped, PropSlot
  <2>3. budget' \in Budget
      BY <1>3, FaultTyped DEF PropPut
  <2>. QED
      BY <1>3, <2>1, <2>2, <2>3, UnchangedTyped DEF PropPut
<1>4. ASSUME NEW m \in Docs, PropDupGet(m)
      PROVE  TypeOK'
  <2>1. PropTyped'
    <3> DEFINE skip == [prop EXCEPT !.dups = @ \ {m}]
               go == [prop EXCEPT !.pc = "dupPut", !.match = m, !.matchSeen = tags[m]]
    <3>1. prop' \in {skip, go}
        BY <1>4 DEF PropDupGet
    <3>2. prop \in PropSlot /\ prop.pc = "dups" /\ prop.doc \in Docs
        BY <1>4 DEF PropDupGet, PropTyped
    <3>3. skip \in PropSlot /\ skip.pc = "dups" /\ skip.doc \in Docs
        BY <3>2 DEF PropSlot
    <3>4. tags[m] \in SUBSET Tag
        BY DEF PaperlessTyped
    <3>5. go \in PropSlot /\ go.doc \in Docs /\ go.match \in Docs
        BY <3>2, <3>4 DEF PropSlot
    <3> HIDE DEF skip, go
    <3>. QED
        BY <3>1, <3>3, <3>5 DEF PropTyped
  <2>2. budget' \in Budget
      BY <1>4, FaultTyped DEF PropDupGet
  <2>. QED
      BY <1>4, <2>1, <2>2, UnchangedTyped DEF PropDupGet
<1>5. CASE PropDupPut
  <2>1. PaperlessTyped'
      BY <1>5, PatchTyped, UnchangedTyped, NamedTags DEF PropDupPut, PropTyped, PropSlot
  <2>2. PropTyped'
      BY <1>5 DEF PropDupPut, PropTyped, PropSlot
  <2>3. budget' \in Budget
      BY <1>5, FaultTyped DEF PropDupPut
  <2>. QED
      BY <1>5, <2>1, <2>2, <2>3, UnchangedTyped DEF PropDupPut
<1>6. CASE PropFinish
  <2>1. PropTyped'
      BY <1>6 DEF PropFinish, PropTyped, PropSlot, PropIdles, IdleProp
  <2>2. QueuesTyped'
      BY <1>6 DEF PropFinish, QueuesTyped, PropTyped
  <2>. QED
      BY <1>6, <2>1, <2>2, UnchangedTyped DEF PropFinish
<1>7. CASE PropRecover
  <2>1. PaperlessTyped'
      BY <1>7, PatchTyped, UnchangedTyped, NamedTags
      DEF PropRecover, recoverySet, PropTyped, PropSlot
  <2>2. PropTyped'
      BY <1>7 DEF PropRecover, PropTyped, PropSlot, PropIdles, IdleProp
  <2>3. budget' \in Budget
      BY <1>7, FaultTyped DEF PropRecover
  <2>. QED
      BY <1>7, <2>1, <2>2, <2>3, UnchangedTyped DEF PropRecover
<1>. QED
    BY <1>1, <1>2, <1>3, <1>4, <1>5, <1>6, <1>7, <1>8 DEF PropStep

LEMMA ReqStepTyped ==
    ASSUME TypeOK, NEW c \in Clients,
           ReqStep(c) \/ \E op \in Ops, d \in Docs : ReqStart(c, op, d)
    PROVE  TypeOK'
<1> USE DEF TypeOK
<1>1. req[c] \in Request /\ (req[c].pc # "idle" => req[c].doc \in Docs)
    BY DEF ReqTyped
<1>2. IdleReq \in Request
    BY BoundsTyped DEF IdleReq, Request, AllOps
<1>3. ASSUME NEW op \in Ops, NEW d \in Docs, ReqStart(c, op, d)
      PROVE  TypeOK'
  <2> DEFINE r == [IdleReq EXCEPT !.pc = "get", !.doc = d, !.op = op]
  <2>1. r \in Request /\ r.doc \in Docs
      BY <1>2, OpsAssumption DEF IdleReq, Request
  <2>2. ReqTyped'
      BY <1>3, <2>1, ReqIsTyped DEF ReqStart
  <2>3. approvedBy' \in [Docs -> SUBSET {"user", "rules"}]
      BY <1>3 DEF ReqStart
  <2>4. budget' \in Budget
    <3>1. /\ budget \in Budget /\ budget.ops < MaxOps
          /\ budget' = [budget EXCEPT !.ops = @ + 1]
        BY <1>3 DEF ReqStart
    <3>. QED
        BY <3>1, BoundsTyped DEF Budget
  <2>. QED
      BY <1>3, <2>2, <2>3, <2>4, UnchangedTyped DEF ReqStart, worker
<1>4. CASE ReqGet(c)
  <2> DEFINE d == req[c].doc
             plan == planTagSwap(tags[d], KnownTags, SwapRemove[req[c].op],
                                 SwapAdd[req[c].op])
             r == [req[c] EXCEPT !.pc = IF plan = tags[d] THEN "ping" ELSE "put",
                                 !.plan = IF plan = tags[d] THEN {} ELSE plan]
  <2>1. d \in Docs /\ tags[d] \in SUBSET Tag /\ req[c].op \in AllOps
      BY <1>1, <1>4 DEF ReqGet, PaperlessTyped, Request
  <2>2. plan \in SUBSET Tag
      BY <2>1, PlanTyped
  <2> HIDE DEF plan
  <2>3. r \in Request /\ r.doc \in Docs
      BY <1>1, <2>1, <2>2 DEF Request
  <2> USE DEF plan
  <2>4. ReqTyped'
    <3>1. ReqIs(c, r)
        BY <1>4 DEF ReqGet
    <3> HIDE DEF r
    <3>. QED
        BY <2>3, <3>1, ReqIsTyped
  <2>. QED
      BY <1>4, <2>4, UnchangedTyped DEF ReqGet, worker
<1>5. CASE ReqPut(c)
  <2> DEFINE r == [req[c] EXCEPT !.pc = "verify"]
  <2>1. r \in Request /\ r.doc \in Docs
      BY <1>1, <1>5 DEF ReqPut, Request
  <2>2. ReqTyped'
      BY <1>5, <2>1, ReqIsTyped DEF ReqPut
  <2>3. PaperlessTyped'
      BY <1>1, <1>5, PatchTyped DEF ReqPut, Request
  <2>. QED
      BY <1>5, <2>2, <2>3, UnchangedTyped DEF ReqPut, worker
<1>6. CASE ReqVerify(c)
  <2> DEFINE done == [req[c] EXCEPT !.pc = "ping", !.plan = {}]
             again == [req[c] EXCEPT !.pc = "get", !.plan = {}, !.attempt = @ + 1]
  <2>1. done \in Request /\ done.doc \in Docs
      BY <1>1, <1>6 DEF ReqVerify, Request
  <2>2. req[c].attempt + 1 < MaxAttempts => again \in Request /\ again.doc \in Docs
    <3>1. req[c] \in Request /\ req[c].doc \in Docs
        BY <1>1, <1>6 DEF ReqVerify
    <3>2. req[c].attempt \in 0 .. MaxAttempts - 1
        BY <3>1 DEF Request
    <3>3. ASSUME req[c].attempt + 1 < MaxAttempts
          PROVE  req[c].attempt + 1 \in 0 .. MaxAttempts - 1
        BY <3>2, <3>3, BoundsTyped
    <3>. QED
        BY <3>1, <3>3 DEF Request
  <2>3. \/ ReqIs(c, done)
        \/ req[c].attempt + 1 < MaxAttempts /\ ReqIs(c, again)
        \/ ReqIs(c, IdleReq)
      BY <1>6 DEF ReqVerify
  <2>4. IdleReq.pc = "idle"
      BY DEF IdleReq
  <2> HIDE DEF done, again
  <2>5. ReqTyped'
      BY <1>2, <2>1, <2>2, <2>3, <2>4, ReqIsTyped
  <2>. QED
      BY <1>6, <2>5, UnchangedTyped DEF ReqVerify, worker
<1>7. CASE ReqPing(c)
  <2>1. ReqTyped'
      BY <1>2, <1>7, ReqIsTyped DEF ReqPing, IdleReq
  <2>2. QueuesTyped'
      BY <1>1, <1>7, EnqueueTyped DEF ReqPing
  <2>. QED
      BY <1>7, <2>1, <2>2, UnchangedTyped DEF ReqPing
<1>8. CASE ReqFail(c)
  <2>1. ReqTyped'
      BY <1>2, <1>8, ReqIsTyped DEF ReqFail, IdleReq
  <2>2. budget' \in Budget
      BY <1>8, FaultTyped DEF ReqFail
  <2>. QED
      BY <1>8, <2>1, <2>2, UnchangedTyped DEF ReqFail, worker
<1>. QED
    BY <1>3, <1>4, <1>5, <1>6, <1>7, <1>8 DEF ReqStep

LEMMA CrashTyped ==
    ASSUME TypeOK, Crash
    PROVE  TypeOK'
<1> USE DEF TypeOK, Crash
<1>1. ExtTyped'
    BY BoundsTyped DEF ExtTyped, ExtSlot, IdleExt
<1>2. PropTyped'
    BY DEF PropTyped, PropSlot, IdleProp
<1>3. QueuesTyped'
    BY DEF QueuesTyped
<1>4. budget' \in Budget
    BY BoundsTyped DEF Budget
<1>. QED
    BY <1>1, <1>2, <1>3, <1>4, UnchangedTyped

LEMMA NextTyped == TypeOK /\ [Next]_vars => TypeOK'
<1> SUFFICES ASSUME TypeOK, [Next]_vars
             PROVE  TypeOK'
    OBVIOUS
<1>1. CASE UNCHANGED vars
    BY <1>1, UnchangedTyped DEF vars, TypeOK, paperless
<1>. QED
    BY <1>1, ArrivalTyped, ExtStepTyped, PropStepTyped, ReqStepTyped, CrashTyped DEF Next

(***************************************************************************)
(* Every variable keeps its type, and a busy slot or request always has a  *)
(* document.                                                               *)
(***************************************************************************)
THEOREM TypeCorrect == Spec => []TypeOK
BY InitTyped, NextTyped, PTL DEF Spec

-----------------------------------------------------------------------------
(***************************************************************************)
(* The inductive invariant behind the safety properties.  A property about *)
(* tags alone is not inductive, because tags come back from snapshots:     *)
(* every copy of a tag list that somebody is going to write back has to be *)
(* as good as the list on the document.                                    *)
(***************************************************************************)

\* A tag list that may be written to d, given who has approved d.
Sound(d, by, S) ==
    /\ d \in Untrusted => UNTRUSTED_SOURCE_TAGS \subseteq S
    /\ {"ai-approved", "ai-propagated"} \cap S # {} => Approved(d, by)

TagsSound ==
    /\ \A d \in Docs : IF d \in consumed THEN Sound(d, approvedBy[d], tags[d])
                       ELSE tags[d] = {}
    /\ \A d \in Untrusted : "rules" \notin approvedBy[d]

QueuesSound ==
    /\ extractionQueue \in Seq(consumed)
    /\ propagationQueue \in Seq(consumed)

ExtSound ==
    /\ ext.pc # "idle" => ext.doc \in consumed
    /\ ext.pc \in {"llm", "put", "errPut"} =>
            Sound(ext.doc, approvedBy[ext.doc], ext.seen)
    /\ ext.pc = "put" => Sound(ext.doc, approvedBy[ext.doc], ext.seen \cup ext.add)

\* What landed during the LLM call is on the document, then in the merged list.
LateSound ==
    /\ ext.pc = "llm" => late \subseteq tags[ext.doc]
    /\ ext.pc = "put" => late \subseteq ext.seen

PropSound ==
    /\ prop.pc # "idle" => prop.doc \in consumed
    /\ prop.dups \subseteq consumed
    /\ prop.pc \notin {"idle", "fetch"} =>
            /\ Sound(prop.doc, approvedBy[prop.doc], prop.seen)
            /\ "ai-approved" \in prop.seen
    /\ prop.pc = "dupPut" =>
            /\ prop.match \in consumed
            /\ Sound(prop.match, approvedBy[prop.match], prop.matchSeen)

\* A tag list that does what a request asked for.
Fulfils(S, op) ==
    /\ SwapAdd[op] \cap KnownTags \subseteq S
    /\ SwapRemove[op] \cap KnownTags \cap S = {}

RequestSound(r, docs, approvals) ==
    /\ r.pc # "idle" =>
            /\ r.doc \in docs
            /\ r.op = "approve" => "user" \in approvals[r.doc]
    /\ r.pc \in {"put", "verify"} =>
            /\ Sound(r.doc, approvals[r.doc], r.plan)
            /\ Fulfils(r.plan, r.op)

ReqSound == \A c \in Clients : RequestSound(req[c], consumed, approvedBy)

IInv ==
    /\ TypeOK
    /\ TagsSound
    /\ QueuesSound
    /\ ExtSound
    /\ LateSound
    /\ PropSound
    /\ ReqSound

-----------------------------------------------------------------------------
(* Lemmas about tag lists. *)

\* An approval never makes a list worse.
LEMMA SoundMonotone ==
    ASSUME NEW d, NEW by, NEW by2, NEW S, Sound(d, by, S), by \subseteq by2
    PROVE  Sound(d, by2, S)
BY DEF Sound, Approved

\* Adding tags that neither approve nor file keeps a list sound.
LEMMA SoundUnion ==
    ASSUME NEW d, NEW by, NEW S, NEW add, Sound(d, by, S),
           {"ai-approved", "ai-propagated"} \cap add = {}
    PROVE  Sound(d, by, S \cup add)
BY DEF Sound

\* What extraction adds: an approval only by an enabled rule, and never for mail.
LEMMA RouteSound ==
    ASSUME NEW d, NEW by, NEW by2, NEW S, NEW x, NEW seen, Sound(d, by, S),
           by \subseteq by2, d \in Untrusted => UNTRUSTED_SOURCE_TAGS \subseteq seen,
           LET add == routeLifecycleTags(x, isUntrustedSource(seen))
           IN  "ai-approved" \in add => "rules" \in by2
    PROVE  /\ Sound(d, by2, S \cup routeLifecycleTags(x, isUntrustedSource(seen)))
           /\ d \in Untrusted =>
                 "ai-approved" \notin routeLifecycleTags(x, isUntrustedSource(seen))
<1> DEFINE add == routeLifecycleTags(x, isUntrustedSource(seen))
<1>1. "ai-propagated" \notin add
    BY DEF routeLifecycleTags, pending
<1>2. d \in Untrusted => "ai-approved" \notin add
    BY DEF routeLifecycleTags, pending, isUntrustedSource, UNTRUSTED_SOURCE_TAGS
<1> HIDE DEF add
<1>3. Sound(d, by2, S \cup add)
    BY <1>1, <1>2 DEF Sound, Approved, add
<1>. QED
    BY <1>2, <1>3 DEF add

\* The propagator files what was approved, and keeps the mark of its source.
LEMMA NewTagSetSound ==
    ASSUME NEW d, NEW by, NEW seen, NEW dups, Sound(d, by, seen), "ai-approved" \in seen
    PROVE  /\ Sound(d, by, newTagSet(d, seen, dups))
           /\ Sound(d, by, recoverySet(seen))
<1>1. UNTRUSTED_SOURCE_TAGS \subseteq seen =>
          /\ UNTRUSTED_SOURCE_TAGS \subseteq newTagSet(d, seen, dups)
          /\ UNTRUSTED_SOURCE_TAGS \subseteq recoverySet(seen)
    BY DEF newTagSet, recoverySet, UNTRUSTED_SOURCE_TAGS
<1>. QED
    BY <1>1 DEF Sound

\* A plan keeps the mark of the source, approves only for an approval, and fulfils.
LEMMA PlanSound ==
    ASSUME NEW d, NEW by, NEW current, NEW op \in AllOps, Sound(d, by, current),
           op = "approve" => "user" \in by
    PROVE  LET plan == planTagSwap(current, KnownTags, SwapRemove[op], SwapAdd[op])
           IN  Sound(d, by, plan) /\ Fulfils(plan, op)
<1> DEFINE plan == planTagSwap(current, KnownTags, SwapRemove[op], SwapAdd[op])
<1>1. UNTRUSTED_SOURCE_TAGS \cap SwapRemove[op] = {}
    BY DEF AllOps, SwapRemove, UNTRUSTED_SOURCE_TAGS, REPROCESS_REMOVE, LIFECYCLE_TAGS
<1>2. SwapAdd[op] \cap SwapRemove[op] = {}
    BY DEF AllOps, SwapRemove, SwapAdd, REPROCESS_REMOVE, LIFECYCLE_TAGS
<1>3. /\ "ai-propagated" \notin SwapAdd[op]
      /\ op # "approve" => "ai-approved" \notin SwapAdd[op]
    BY DEF AllOps, SwapAdd
<1>4. Fulfils(plan, op)
    BY <1>2 DEF Fulfils, planTagSwap
<1>5. Sound(d, by, plan)
    BY <1>1, <1>3 DEF Sound, Approved, planTagSwap
<1>. QED
    BY <1>4, <1>5

-----------------------------------------------------------------------------
(* Steps. *)

\* Documents stay consumed and approvals are not taken back.
Monotone ==
    /\ consumed \subseteq consumed'
    /\ \A d \in Docs : approvedBy[d] \subseteq approvedBy'[d]

LEMMA RequestMonotone ==
    ASSUME TypeOK, Monotone, NEW r, RequestSound(r, consumed, approvedBy)
    PROVE  RequestSound(r, consumed', approvedBy')
BY SoundMonotone DEF RequestSound, Monotone, TypeOK, PaperlessTyped

\* The parts of the invariant nobody touches.
LEMMA UnchangedSound ==
    ASSUME TypeOK, TypeOK', IInv, Monotone
    PROVE  /\ UNCHANGED <<consumed, tags, approvedBy>> => TagsSound'
           /\ UNCHANGED <<extractionQueue, propagationQueue>> => QueuesSound'
           /\ UNCHANGED ext => ExtSound'
           /\ UNCHANGED prop => PropSound'
           /\ UNCHANGED req => ReqSound'
           /\ UNCHANGED <<ext, late, tags>> => LateSound'
<1>1. UNCHANGED <<consumed, tags, approvedBy>> => TagsSound'
    BY DEF IInv, TagsSound
<1>2. UNCHANGED <<extractionQueue, propagationQueue>> => QueuesSound'
  <2>1. ASSUME NEW queue \in Seq(consumed)
        PROVE  queue \in Seq(consumed')
      BY <2>1 DEF Monotone
  <2>. QED
      BY <2>1 DEF IInv, QueuesSound
<1>3. UNCHANGED ext => ExtSound'
    BY SoundMonotone DEF IInv, ExtSound, Monotone, TypeOK, PaperlessTyped
<1>4. UNCHANGED prop => PropSound'
    BY SoundMonotone DEF IInv, PropSound, Monotone, TypeOK, PaperlessTyped
<1>5. UNCHANGED req => ReqSound'
    BY RequestMonotone DEF IInv, ReqSound
<1>6. UNCHANGED <<ext, late, tags>> => LateSound'
    BY DEF IInv, LateSound
<1>. QED
    BY <1>1, <1>2, <1>3, <1>4, <1>5, <1>6

\* A PATCH with a sound list by somebody other than extraction.
LEMMA PatchSound ==
    ASSUME IInv, NEW d \in consumed, NEW new, Sound(d, approvedBy[d], new),
           PatchTags(d, new), UNCHANGED approvedBy
    PROVE  /\ TagsSound'
           /\ UNCHANGED ext => LateSound'
<1>1. TagsSound'
    BY DEF IInv, TagsSound, PatchTags, TypeOK, PaperlessTyped
<1>2. UNCHANGED ext => LateSound'
    BY DEF IInv, LateSound, PatchTags, LateAfter, TypeOK, PaperlessTyped, ExtSound
<1>. QED
    BY <1>1, <1>2

LEMMA TakeSound ==
    ASSUME NEW queue \in Seq(consumed), queue # <<>>
    PROVE  Head(queue) \in consumed /\ Tail(queue) \in Seq(consumed)
OBVIOUS

LEMMA EnqueueSound ==
    ASSUME QueuesSound, NEW t, NEW d \in consumed', consumed \subseteq consumed',
           Enqueue(t, d) \/ NotTriggered
    PROVE  QueuesSound'
<1>1. /\ extractionQueue \in Seq(consumed')
      /\ propagationQueue \in Seq(consumed')
  <2>1. ASSUME NEW queue \in Seq(consumed)
        PROVE  queue \in Seq(consumed')
      BY <2>1
  <2>. QED
      BY <2>1 DEF QueuesSound
<1>2. /\ Append(extractionQueue, d) \in Seq(consumed')
      /\ Append(propagationQueue, d) \in Seq(consumed')
    BY <1>1
<1>. QED
    BY <1>1, <1>2 DEF QueuesSound, Enqueue, NotTriggered

LEMMA NextMonotone ==
    ASSUME TypeOK, [Next]_vars
    PROVE  Monotone
<1>1. CASE UNCHANGED <<consumed, approvedBy>>
    BY <1>1 DEF Monotone
<1>2. ASSUME NEW d \in Docs, Consume(d)
      PROVE  Monotone
    BY <1>2 DEF Consume, Monotone
<1>3. ASSUME NEW x \in Extraction, ExtRoute(x)
      PROVE  Monotone
    BY <1>3 DEF ExtRoute, paperless, Monotone, TypeOK
<1>4. ASSUME NEW c \in Clients, NEW op \in Ops, NEW d \in Docs, ReqStart(c, op, d)
      PROVE  Monotone
    BY <1>4 DEF ReqStart, paperless, Monotone, TypeOK
<1>5. ASSUME NEW d \in Docs, NEW new, PatchTags(d, new)
      PROVE  UNCHANGED consumed
    BY <1>5 DEF PatchTags
<1>6. CASE \E d \in Docs : PollUnprocessed(d) \/ PollApproved(d)
    BY <1>1, <1>6 DEF PollUnprocessed, PollApproved, paperless
<1>7. CASE ExtStep /\ ~ \E x \in Extraction : ExtRoute(x)
    BY <1>1, <1>7
    DEF ExtStep, ExtTake, ExtFetch, ExtWriteFails, ExtDefer, ExtGiveUp, ExtPut, ExtErrGet,
        ExtErrPut, PatchTags, paperless
<1>8. CASE PropStep
    BY <1>1, <1>8
    DEF PropStep, PropTake, PropFetch, PropSearch, PropPut, PropDupGet, PropDupPut,
        PropFinish, PropRecover, PatchTags, paperless
<1>9. CASE \E c \in Clients : ReqStep(c)
    BY <1>1, <1>9
    DEF ReqStep, ReqGet, ReqPut, ReqVerify, ReqPing, ReqFail, PatchTags, paperless
<1>10. CASE Crash
    BY <1>1, <1>10 DEF Crash, paperless
<1>11. CASE UNCHANGED vars
    BY <1>1, <1>11 DEF vars
<1>. QED
    BY <1>2, <1>3, <1>4, <1>6, <1>7, <1>8, <1>9, <1>10, <1>11 DEF Next

LEMMA InitSound == Init => IInv
<1> SUFFICES ASSUME Init
             PROVE  IInv
    OBVIOUS
<1> USE DEF Init
<1>1. TypeOK
    BY InitTyped
<1>2. TagsSound
  <2>1. ASSUME NEW d \in Filed
        PROVE  Sound(d, approvedBy[d], tags[d])
      BY SourceAssumption DEF Sound, Approved, SourceTags
  <2>2. \A d \in Docs \ Filed : tags[d] = {}
      OBVIOUS
  <2>3. \A d \in Untrusted : "rules" \notin approvedBy[d]
      BY SourceAssumption
  <2>. QED
      BY <2>1, <2>2, <2>3 DEF TagsSound
<1>3. QueuesSound
    BY DEF QueuesSound
<1>4. ExtSound /\ LateSound
    BY DEF ExtSound, LateSound, IdleExt
<1>5. PropSound
    BY DEF PropSound, IdleProp
<1>6. ReqSound
    BY DEF ReqSound, RequestSound, IdleReq
<1>. QED
    BY <1>1, <1>2, <1>3, <1>4, <1>5, <1>6 DEF IInv

\* Where the extraction consumer goes.
LEMMA ExtMoves ==
    ASSUME ExtIdles \/ ExtGoes("errGet")
    PROVE  ext'.pc = "idle" \/ (ext'.pc = "errGet" /\ ext'.doc = ext.doc)
<1>1. CASE ExtIdles
    BY <1>1 DEF ExtIdles, IdleExt
<1>2. CASE ExtGoes("errGet")
    BY <1>2 DEF ExtGoes, IdleExt
<1>. QED
    BY <1>1, <1>2

LEMMA ArrivalSound ==
    ASSUME IInv, TypeOK', Monotone, NEW d \in Docs,
           Consume(d) \/ PollUnprocessed(d) \/ PollApproved(d)
    PROVE  IInv'
<1> USE DEF IInv
<1>1. CASE Consume(d)
  <2>1. TagsSound'
      BY <1>1 DEF Consume, TagsSound, TypeOK, PaperlessTyped, Sound, SourceTags,
                  UNTRUSTED_SOURCE_TAGS
  <2>2. QueuesSound'
      BY <1>1, EnqueueSound DEF Consume
  <2>3. LateSound'
      BY <1>1 DEF Consume, LateSound, ExtSound, TypeOK, PaperlessTyped
  <2>. QED
      BY <1>1, <2>1, <2>2, <2>3, UnchangedSound DEF Consume
<1>2. CASE PollUnprocessed(d) \/ PollApproved(d)
  <2>1. d \in consumed /\ UNCHANGED paperless
      BY <1>2 DEF PollUnprocessed, PollApproved, Unprocessed
  <2>2. QueuesSound'
      BY <1>2, <2>1, EnqueueSound DEF PollUnprocessed, PollApproved, paperless
  <2>. QED
      BY <1>2, <2>1, <2>2, UnchangedSound DEF PollUnprocessed, PollApproved, paperless
<1>. QED
    BY <1>1, <1>2

LEMMA ExtStepSound ==
    ASSUME IInv, TypeOK', Monotone, ExtStep
    PROVE  IInv'
<1> USE DEF IInv
<1>1. CASE ExtTake
  <2>1. Head(extractionQueue) \in consumed /\ Tail(extractionQueue) \in Seq(consumed)
      BY <1>1, TakeSound DEF ExtTake, QueuesSound
  <2>2. ext'.doc \in consumed /\ ext'.pc = "fetch"
      BY <1>1, <2>1 DEF ExtTake, IdleExt
  <2>3. ExtSound' /\ LateSound'
      BY <1>1, <2>2 DEF ExtTake, ExtSound, LateSound, paperless
  <2>4. QueuesSound'
      BY <1>1, <2>1 DEF ExtTake, QueuesSound, paperless
  <2>. QED
      BY <1>1, <2>3, <2>4, UnchangedSound DEF ExtTake, paperless
<1>2. CASE ExtFetch
  <2>1. /\ ext.doc \in consumed /\ ext.doc \in Docs
        /\ Sound(ext.doc, approvedBy[ext.doc], tags[ext.doc])
        /\ UNCHANGED <<consumed, tags, approvedBy>>
      BY <1>2 DEF ExtFetch, ExtSound, TagsSound, TypeOK, PaperlessTyped
  <2>2. \/ ext'.pc = "idle"
        \/ ext'.pc = "errGet" /\ ext'.doc = ext.doc
        \/ ext'.pc = "llm" /\ ext'.doc = ext.doc /\ ext'.seen = tags[ext.doc]
    <3>1. CASE ext' = [ext EXCEPT !.pc = "llm", !.seen = tags[ext.doc]]
        BY <3>1 DEF TypeOK, ExtTyped, ExtSlot
    <3>. QED
        BY <1>2, <3>1, ExtMoves DEF ExtFetch
  <2>4. ExtSound'
      BY <2>1, <2>2 DEF ExtSound
  <2>5. LateSound'
      BY <1>2, <2>2 DEF ExtFetch, LateSound
  <2>. QED
      BY <1>2, <2>1, <2>4, <2>5, UnchangedSound DEF ExtFetch
<1>3. CASE ExtWriteFails \/ ExtDefer \/ ExtGiveUp
  <2>1. ext'.pc = "idle" \/ (ext'.pc = "errGet" /\ ext'.doc = ext.doc)
      BY <1>3, ExtMoves DEF ExtWriteFails, ExtDefer, ExtGiveUp
  <2>2. ext.doc \in consumed /\ UNCHANGED <<paperless, approvedBy>>
      BY <1>3 DEF ExtWriteFails, ExtDefer, ExtGiveUp, ExtSound
  <2>3. ExtSound' /\ LateSound'
      BY <2>1, <2>2 DEF ExtSound, LateSound, paperless
  <2>. QED
      BY <1>3, <2>2, <2>3, UnchangedSound
      DEF ExtWriteFails, ExtDefer, ExtGiveUp, paperless
<1>4. CASE ExtPut
  <2>1. /\ ext.doc \in consumed
        /\ Sound(ext.doc, approvedBy[ext.doc], ext.seen \cup ext.add)
        /\ UNCHANGED approvedBy
      BY <1>4 DEF ExtPut, ExtSound
  <2>2. ext'.pc = "idle" \/ (ext'.pc = "errGet" /\ ext'.doc = ext.doc)
      BY <1>4, ExtMoves DEF ExtPut
  <2>3. PatchTags(ext.doc, ext.seen \cup ext.add) \/ UNCHANGED paperless
      BY <1>4 DEF ExtPut
  <2>4. TagsSound' /\ UNCHANGED consumed
      BY <2>1, <2>3, PatchSound, UnchangedSound DEF PatchTags, paperless
  <2>5. ExtSound' /\ LateSound'
      BY <2>1, <2>2, <2>4 DEF ExtSound, LateSound
  <2>. QED
      BY <1>4, <2>4, <2>5, UnchangedSound DEF ExtPut
<1>5. CASE ExtErrGet
  <2>1. /\ ext.doc \in consumed /\ ext.doc \in Docs
        /\ Sound(ext.doc, approvedBy[ext.doc], tags[ext.doc])
        /\ UNCHANGED <<paperless, approvedBy>>
      BY <1>5 DEF ExtErrGet, ExtSound, TagsSound, TypeOK, PaperlessTyped
  <2>2. \/ ext'.pc = "idle"
        \/ ext'.pc = "errPut" /\ ext'.doc = ext.doc /\ ext'.seen = tags[ext.doc]
    <3>1. CASE ext' = [ext EXCEPT !.pc = "errPut", !.seen = tags[ext.doc]]
        BY <3>1 DEF TypeOK, ExtTyped, ExtSlot
    <3>2. CASE ExtIdles
        BY <3>2 DEF ExtIdles, IdleExt
    <3>. QED
        BY <1>5, <3>1, <3>2 DEF ExtErrGet
  <2>3. ExtSound' /\ LateSound'
      BY <2>1, <2>2 DEF ExtSound, LateSound, paperless
  <2>. QED
      BY <1>5, <2>1, <2>3, UnchangedSound DEF ExtErrGet, paperless
<1>6. CASE ExtErrPut
  <2>1. /\ ext.doc \in consumed
        /\ Sound(ext.doc, approvedBy[ext.doc], ext.seen \cup {"ai-error"})
        /\ UNCHANGED approvedBy
      BY <1>6, SoundUnion DEF ExtErrPut, ExtSound
  <2>2. ext'.pc = "idle"
      BY <1>6 DEF ExtErrPut, ExtIdles, IdleExt
  <2>3. PatchTags(ext.doc, ext.seen \cup {"ai-error"}) \/ UNCHANGED paperless
      BY <1>6 DEF ExtErrPut
  <2>4. TagsSound' /\ UNCHANGED consumed
      BY <2>1, <2>3, PatchSound, UnchangedSound DEF PatchTags, paperless
  <2>5. ExtSound' /\ LateSound'
      BY <2>2 DEF ExtSound, LateSound
  <2>. QED
      BY <1>6, <2>4, <2>5, UnchangedSound DEF ExtErrPut
<1>7. ASSUME NEW x \in Extraction, ExtRoute(x)
      PROVE  IInv'
  <2> DEFINE d == ext.doc
             add == routeLifecycleTags(x, isUntrustedSource(ext.seen))
  <2>1. /\ d \in consumed /\ d \in Docs
        /\ Sound(d, approvedBy[d], ext.seen)
        /\ Sound(d, approvedBy[d], tags[d])
        /\ UNCHANGED <<paperless, extractionQueue, propagationQueue, prop, req>>
      BY <1>7 DEF ExtRoute, ExtSound, TagsSound, TypeOK, PaperlessTyped
  <2>2. /\ ext'.pc = "put" /\ ext'.doc = d
        /\ ext'.seen = tags[d] /\ ext'.add = add
      BY <1>7 DEF ExtRoute, TypeOK, ExtTyped, ExtSlot
  <2>3. /\ approvedBy[d] \subseteq approvedBy'[d]
        /\ "ai-approved" \in add => "rules" \in approvedBy'[d]
        /\ \A e \in Docs : e # d \/ "ai-approved" \notin add =>
              approvedBy'[e] = approvedBy[e]
      BY <1>7, <2>1 DEF ExtRoute, TypeOK
  <2>4. d \in Untrusted => UNTRUSTED_SOURCE_TAGS \subseteq ext.seen
      BY <2>1 DEF Sound
  <2>5. /\ Sound(d, approvedBy'[d], tags[d] \cup add)
        /\ d \in Untrusted => "ai-approved" \notin add
      BY <2>1, <2>3, <2>4, RouteSound
  <2> HIDE DEF add
  <2>6. TagsSound'
    <3>1. \A e \in Untrusted : "rules" \notin approvedBy'[e]
        BY <2>3, <2>5, SourceAssumption DEF TagsSound
    <3>2. ASSUME NEW e \in Docs
          PROVE  IF e \in consumed THEN Sound(e, approvedBy'[e], tags[e]) ELSE tags[e] = {}
        BY SoundMonotone DEF TagsSound, Monotone
    <3>. QED
        BY <2>1, <3>1, <3>2 DEF TagsSound, paperless
  <2>7. ExtSound'
      BY <2>1, <2>2, <2>3, <2>5, SoundMonotone DEF ExtSound, paperless
  <2>8. LateSound'
      BY <1>7, <2>1, <2>2 DEF ExtRoute, LateSound, paperless
  <2>. QED
      BY <2>1, <2>6, <2>7, <2>8, UnchangedSound
<1>. QED
    BY <1>1, <1>2, <1>3, <1>4, <1>5, <1>6, <1>7 DEF ExtStep

LEMMA PropStepSound ==
    ASSUME IInv, TypeOK', Monotone, PropStep
    PROVE  IInv'
<1> USE DEF IInv
<1>1. CASE PropTake
  <2>1. Head(propagationQueue) \in consumed /\ Tail(propagationQueue) \in Seq(consumed)
      BY <1>1, TakeSound DEF PropTake, QueuesSound
  <2>2. prop'.doc \in consumed /\ prop'.pc = "fetch" /\ prop'.dups = {}
      BY <1>1, <2>1 DEF PropTake, IdleProp
  <2>3. PropSound'
      BY <1>1, <2>2 DEF PropTake, PropSound, paperless
  <2>4. QueuesSound'
      BY <1>1, <2>1 DEF PropTake, QueuesSound, paperless
  <2>. QED
      BY <1>1, <2>3, <2>4, UnchangedSound DEF PropTake, paperless
<1>2. CASE PropFetch
  <2>1. /\ prop.doc \in consumed
        /\ prop.dups \subseteq consumed
        /\ Sound(prop.doc, approvedBy[prop.doc], tags[prop.doc])
        /\ UNCHANGED <<paperless, approvedBy>>
      BY <1>2 DEF PropFetch, PropSound, TagsSound, TypeOK, PaperlessTyped
  <2>2. \/ prop'.pc = "idle" /\ prop'.dups = {}
        \/ /\ prop'.pc = "search" /\ prop'.doc = prop.doc /\ prop'.dups = prop.dups
           /\ prop'.seen = tags[prop.doc] /\ "ai-approved" \in tags[prop.doc]
    <3>1. CASE PropIdles
        BY <3>1 DEF PropIdles, IdleProp
    <3>2. ASSUME prop' = [prop EXCEPT !.pc = "search", !.seen = tags[prop.doc]]
          PROVE  /\ prop'.pc = "search" /\ prop'.doc = prop.doc
                 /\ prop'.seen = tags[prop.doc] /\ prop'.dups = prop.dups
        BY <3>2 DEF TypeOK, PropTyped, PropSlot
    <3>. QED
        BY <1>2, <3>1, <3>2 DEF PropFetch
  <2>3. PropSound'
      BY <2>1, <2>2 DEF PropSound, paperless
  <2>. QED
      BY <1>2, <2>1, <2>3, UnchangedSound DEF PropFetch, paperless
<1>8. CASE PropSearch
  <2>1. /\ prop.doc \in consumed
        /\ prop.dups \subseteq consumed
        /\ Sound(prop.doc, approvedBy[prop.doc], prop.seen)
        /\ "ai-approved" \in prop.seen
        /\ UNCHANGED <<paperless, approvedBy>>
      BY <1>8 DEF PropSearch, PropSound
  <2>2. findDuplicateIds(prop.doc, prop.seen) \subseteq consumed
      BY DEF findDuplicateIds
  <2>3. /\ prop'.pc \in {"put", "recover"}
        /\ prop'.doc = prop.doc /\ prop'.seen = prop.seen
        /\ prop'.dups \in {findDuplicateIds(prop.doc, prop.seen), prop.dups}
    <3>1. ASSUME NEW pc \in {"put", "recover"}, prop' = [prop EXCEPT !.pc = pc]
          PROVE  /\ prop'.pc = pc /\ prop'.doc = prop.doc
                 /\ prop'.seen = prop.seen /\ prop'.dups = prop.dups
        BY <3>1 DEF TypeOK, PropTyped, PropSlot
    <3>2. ASSUME prop' = [prop EXCEPT !.pc = "put",
                                      !.dups = findDuplicateIds(prop.doc, prop.seen)]
          PROVE  /\ prop'.pc = "put" /\ prop'.doc = prop.doc /\ prop'.seen = prop.seen
                 /\ prop'.dups = findDuplicateIds(prop.doc, prop.seen)
        BY <3>2 DEF TypeOK, PropTyped, PropSlot
    <3>. QED
        BY <1>8, <3>1, <3>2 DEF PropSearch
  <2>4. PropSound'
      BY <2>1, <2>2, <2>3 DEF PropSound, paperless
  <2>. QED
      BY <1>8, <2>1, <2>4, UnchangedSound DEF PropSearch, paperless
<1>3. CASE PropPut
  <2> DEFINE new == newTagSet(prop.doc, prop.seen, prop.dups)
  <2>1. /\ prop.doc \in consumed /\ prop.dups \subseteq consumed
        /\ Sound(prop.doc, approvedBy[prop.doc], prop.seen)
        /\ "ai-approved" \in prop.seen
        /\ UNCHANGED approvedBy
      BY <1>3 DEF PropPut, PropSound
  <2>2. Sound(prop.doc, approvedBy[prop.doc], new)
      BY <2>1, NewTagSetSound
  <2>3. /\ prop'.pc \in {"dups", "recover"} /\ prop'.doc = prop.doc
        /\ prop'.dups \in {prop.dups, {}} /\ prop'.seen = prop.seen
      BY <1>3 DEF PropPut, TypeOK, PropTyped, PropSlot
  <2>4. PatchTags(prop.doc, new) \/ UNCHANGED paperless
      BY <1>3 DEF PropPut
  <2> HIDE DEF new
  <2>5. TagsSound' /\ UNCHANGED consumed
      BY <2>1, <2>2, <2>4, PatchSound, UnchangedSound DEF PatchTags, paperless
  <2>6. PropSound'
      BY <2>1, <2>3, <2>5 DEF PropSound
  <2>7. LateSound'
      BY <1>3, <2>1, <2>2, <2>4, PatchSound, UnchangedSound DEF PropPut, paperless
  <2>. QED
      BY <1>3, <2>5, <2>6, <2>7, UnchangedSound DEF PropPut
<1>4. ASSUME NEW m \in Docs, PropDupGet(m)
      PROVE  IInv'
  <2>1. /\ prop.doc \in consumed /\ prop.dups \subseteq consumed /\ m \in consumed
        /\ Sound(prop.doc, approvedBy[prop.doc], prop.seen)
        /\ "ai-approved" \in prop.seen
        /\ Sound(m, approvedBy[m], tags[m])
        /\ UNCHANGED <<paperless, approvedBy>>
      BY <1>4 DEF PropDupGet, PropSound, TagsSound
  <2>2. /\ prop'.doc = prop.doc /\ prop'.seen = prop.seen
        /\ prop'.dups \subseteq prop.dups
        /\ \/ prop'.pc = "dups"
           \/ prop'.pc = "dupPut" /\ prop'.match = m /\ prop'.matchSeen = tags[m]
    <3>1. CASE prop' = [prop EXCEPT !.dups = @ \ {m}]
        BY <1>4, <3>1 DEF PropDupGet, TypeOK, PropTyped, PropSlot
    <3>2. CASE prop' = [prop EXCEPT !.pc = "dupPut", !.match = m, !.matchSeen = tags[m]]
        BY <1>4, <3>2 DEF PropDupGet, TypeOK, PropTyped, PropSlot
    <3>. QED
        BY <1>4, <3>1, <3>2 DEF PropDupGet
  <2>3. PropSound'
      BY <2>1, <2>2 DEF PropSound, paperless
  <2>. QED
      BY <1>4, <2>1, <2>3, UnchangedSound DEF PropDupGet, paperless
<1>5. CASE PropDupPut
  <2>1. /\ prop.doc \in consumed /\ prop.dups \subseteq consumed /\ prop.match \in consumed
        /\ Sound(prop.match, approvedBy[prop.match], prop.matchSeen \cup {"ai-duplicate"})
        /\ Sound(prop.doc, approvedBy[prop.doc], prop.seen)
        /\ "ai-approved" \in prop.seen
        /\ UNCHANGED approvedBy
      BY <1>5, SoundUnion DEF PropDupPut, PropSound
  <2>2. /\ prop'.pc = "dups" /\ prop'.doc = prop.doc /\ prop'.seen = prop.seen
        /\ prop'.dups \subseteq prop.dups
      BY <1>5 DEF PropDupPut, TypeOK, PropTyped, PropSlot
  <2>3. PatchTags(prop.match, prop.matchSeen \cup {"ai-duplicate"}) \/ UNCHANGED paperless
      BY <1>5 DEF PropDupPut
  <2>4. TagsSound' /\ UNCHANGED consumed
      BY <2>1, <2>3, PatchSound, UnchangedSound DEF PatchTags, paperless
  <2>5. PropSound'
      BY <2>1, <2>2, <2>4 DEF PropSound
  <2>6. LateSound'
      BY <1>5, <2>1, <2>3, PatchSound, UnchangedSound DEF PropDupPut, paperless
  <2>. QED
      BY <1>5, <2>4, <2>5, <2>6, UnchangedSound DEF PropDupPut
<1>6. CASE PropFinish
  <2>1. PropSound'
      BY <1>6 DEF PropFinish, PropSound, PropIdles, IdleProp
  <2>. QED
      BY <1>6, <2>1, UnchangedSound DEF PropFinish, paperless
<1>7. CASE PropRecover
  <2>1. /\ prop.doc \in consumed
        /\ Sound(prop.doc, approvedBy[prop.doc], recoverySet(prop.seen))
        /\ UNCHANGED approvedBy
      BY <1>7, NewTagSetSound DEF PropRecover, PropSound
  <2>2. PatchTags(prop.doc, recoverySet(prop.seen)) \/ UNCHANGED paperless
      BY <1>7 DEF PropRecover
  <2>3. TagsSound'
      BY <2>1, <2>2, PatchSound, UnchangedSound DEF paperless
  <2>4. PropSound'
      BY <1>7 DEF PropRecover, PropSound, PropIdles, IdleProp
  <2>5. LateSound'
      BY <1>7, <2>1, <2>2, PatchSound, UnchangedSound DEF PropRecover, paperless
  <2>. QED
      BY <1>7, <2>3, <2>4, <2>5, UnchangedSound DEF PropRecover
<1>. QED
    BY <1>1, <1>2, <1>3, <1>4, <1>5, <1>6, <1>7, <1>8 DEF PropStep

\* A client's new request is all that has to be sound.
LEMMA ReqIsSound ==
    ASSUME IInv, Monotone, NEW c \in Clients, NEW r, ReqIs(c, r),
           RequestSound(r, consumed', approvedBy')
    PROVE  ReqSound'
BY RequestMonotone DEF ReqSound, ReqIs, IInv, TypeOK, ReqTyped

LEMMA ReqStepSound ==
    ASSUME IInv, TypeOK', Monotone, NEW c \in Clients,
           ReqStep(c) \/ \E op \in Ops, d \in Docs : ReqStart(c, op, d)
    PROVE  IInv'
<1> USE DEF IInv
<1>1. /\ req[c] \in Request
      /\ RequestSound(req[c], consumed, approvedBy)
      /\ RequestSound(req[c], consumed', approvedBy')
    BY RequestMonotone DEF TypeOK, ReqTyped, ReqSound
<1>2. \A docs, approvals : RequestSound(IdleReq, docs, approvals)
    BY DEF RequestSound, IdleReq
<1>3. ASSUME NEW op \in Ops, NEW d \in Docs, ReqStart(c, op, d)
      PROVE  IInv'
  <2> DEFINE r == [IdleReq EXCEPT !.pc = "get", !.doc = d, !.op = op]
  <2>1. r.pc = "get" /\ r.doc = d /\ r.op = op
      BY DEF IdleReq
  <2>2. /\ d \in consumed' /\ ReqIs(c, r)
        /\ op = "approve" => "user" \in approvedBy'[d]
        /\ op # "approve" => UNCHANGED approvedBy
        /\ \A e \in Docs : approvedBy'[e] \subseteq approvedBy[e] \cup {"user"}
        /\ UNCHANGED <<worker, paperless>>
      BY <1>3 DEF ReqStart, paperless, TypeOK
  <2> HIDE DEF r
  <2>3. ReqSound'
      BY <2>1, <2>2, ReqIsSound DEF RequestSound
  <2>4. TagsSound'
    <3>1. \A e \in Untrusted : "rules" \notin approvedBy'[e]
        BY <2>2, SourceAssumption DEF TagsSound
    <3>2. ASSUME NEW e \in Docs
          PROVE  IF e \in consumed THEN Sound(e, approvedBy'[e], tags[e]) ELSE tags[e] = {}
        BY SoundMonotone DEF TagsSound, Monotone
    <3>. QED
        BY <2>2, <3>1, <3>2 DEF TagsSound, paperless
  <2>. QED
      BY <2>2, <2>3, <2>4, UnchangedSound DEF worker, paperless
<1>4. CASE ReqGet(c)
  <2> DEFINE d == req[c].doc
             plan == planTagSwap(tags[d], KnownTags, SwapRemove[req[c].op],
                                 SwapAdd[req[c].op])
             ping == [req[c] EXCEPT !.pc = "ping", !.plan = {}]
             put == [req[c] EXCEPT !.pc = "put", !.plan = plan]
  <2>1. /\ d \in consumed /\ d \in Docs /\ req[c].op \in AllOps
        /\ Sound(d, approvedBy[d], tags[d])
        /\ req[c].op = "approve" => "user" \in approvedBy[d]
        /\ UNCHANGED <<worker, paperless, approvedBy>>
      BY <1>1, <1>4 DEF ReqGet, RequestSound, Request, TagsSound, TypeOK, PaperlessTyped
  <2>2. Sound(d, approvedBy[d], plan) /\ Fulfils(plan, req[c].op)
      BY <2>1, PlanSound
  <2>3. ReqIs(c, ping) \/ ReqIs(c, put)
      BY <1>4 DEF ReqGet
  <2> HIDE DEF plan
  <2>4. RequestSound(ping, consumed', approvedBy')
      BY <1>1, <2>1 DEF RequestSound, Request, paperless
  <2>5. RequestSound(put, consumed', approvedBy')
      BY <1>1, <2>1, <2>2 DEF RequestSound, Request, paperless
  <2> HIDE DEF ping, put
  <2>6. ReqSound'
      BY <2>3, <2>4, <2>5, ReqIsSound
  <2>. QED
      BY <2>1, <2>6, UnchangedSound DEF worker, paperless
<1>5. CASE ReqPut(c)
  <2> DEFINE r == [req[c] EXCEPT !.pc = "verify"]
  <2>1. /\ req[c].doc \in consumed
        /\ Sound(req[c].doc, approvedBy[req[c].doc], req[c].plan)
        /\ ReqIs(c, r) /\ PatchTags(req[c].doc, req[c].plan)
        /\ UNCHANGED <<worker, approvedBy>>
      BY <1>1, <1>5 DEF ReqPut, RequestSound
  <2>2. RequestSound(r, consumed', approvedBy')
      BY <1>1, <1>5 DEF ReqPut, RequestSound, Request
  <2> HIDE DEF r
  <2>3. ReqSound'
      BY <2>1, <2>2, ReqIsSound
  <2>4. TagsSound' /\ LateSound'
      BY <2>1, PatchSound DEF worker
  <2>. QED
      BY <2>1, <2>3, <2>4, UnchangedSound DEF worker
<1>6. CASE ReqVerify(c)
  <2> DEFINE done == [req[c] EXCEPT !.pc = "ping", !.plan = {}]
             again == [req[c] EXCEPT !.pc = "get", !.plan = {}, !.attempt = @ + 1]
  <2>1. /\ ReqIs(c, done) \/ ReqIs(c, again) \/ ReqIs(c, IdleReq)
        /\ UNCHANGED <<worker, paperless, approvedBy>>
        /\ req[c].pc = "verify"
      BY <1>6 DEF ReqVerify
  <2>2. RequestSound(done, consumed', approvedBy')
      BY <1>1, <2>1 DEF RequestSound, Request
  <2>3. RequestSound(again, consumed', approvedBy')
      BY <1>1, <2>1 DEF RequestSound, Request
  <2> HIDE DEF done, again
  <2>4. ReqSound'
      BY <1>2, <2>1, <2>2, <2>3, ReqIsSound
  <2>. QED
      BY <2>1, <2>4, UnchangedSound DEF worker, paperless
<1>7. CASE ReqPing(c)
  <2>1. req[c].doc \in consumed /\ UNCHANGED <<paperless, ext, prop, approvedBy>>
      BY <1>1, <1>7 DEF ReqPing, RequestSound
  <2>2. ReqSound'
      BY <1>2, <1>7, ReqIsSound DEF ReqPing
  <2>3. QueuesSound'
      BY <1>7, <2>1, EnqueueSound DEF ReqPing, paperless
  <2>. QED
      BY <2>1, <2>2, <2>3, UnchangedSound DEF paperless
<1>8. CASE ReqFail(c)
  <2>1. ReqSound' /\ UNCHANGED <<worker, paperless, approvedBy>>
      BY <1>2, <1>8, ReqIsSound DEF ReqFail
  <2>. QED
      BY <2>1, UnchangedSound DEF worker, paperless
<1>. QED
    BY <1>3, <1>4, <1>5, <1>6, <1>7, <1>8 DEF ReqStep

LEMMA CrashSound ==
    ASSUME IInv, TypeOK', Monotone, Crash
    PROVE  IInv'
<1> USE DEF Crash, IInv
<1>1. QueuesSound'
    BY DEF QueuesSound
<1>2. ExtSound' /\ LateSound'
    BY DEF ExtSound, LateSound, IdleExt
<1>3. PropSound'
    BY DEF PropSound, IdleProp
<1>. QED
    BY <1>1, <1>2, <1>3, UnchangedSound DEF paperless

(***************************************************************************)
(* The invariant behind the safety theorems, inductive for any step.       *)
(***************************************************************************)
THEOREM Invariance == Spec => []IInv
<1>1. Init => IInv
    BY InitSound
<1>2. IInv /\ [Next]_vars => IInv'
  <2> SUFFICES ASSUME IInv, [Next]_vars
               PROVE  IInv'
      OBVIOUS
  <2>1. TypeOK /\ TypeOK' /\ Monotone
      BY NextTyped, NextMonotone DEF IInv
  <2>2. CASE UNCHANGED vars
      BY <2>1, <2>2, UnchangedSound DEF vars, IInv
  <2>. QED
      BY <2>1, <2>2, ArrivalSound, ExtStepSound, PropStepSound, ReqStepSound, CrashSound
      DEF Next
<1>. QED
    BY <1>1, <1>2, PTL DEF Spec

(***************************************************************************)
(* Nothing is filed without an approval, and nothing that came by mail     *)
(* without the user's.                                                     *)
(***************************************************************************)
THEOREM FiledOnlyAfterApproval == Spec => []FiledOnlyIfApproved
<1>1. IInv => FiledOnlyIfApproved
    BY DEF IInv, TagsSound, Sound, FiledOnlyIfApproved
<1>. QED
    BY <1>1, Invariance, PTL

(***************************************************************************)
(* The mark of an untrusted source is never lost, and no rule approves a   *)
(* document that carries it.                                               *)
(***************************************************************************)
THEOREM ProvenanceIsKept == Spec => []ProvenanceKept
<1>1. IInv => ProvenanceKept
    BY SourceAssumption DEF IInv, TagsSound, Sound, ProvenanceKept
<1>. QED
    BY <1>1, Invariance, PTL

(***************************************************************************)
(* Extraction never loses a tag that landed during the LLM call: what it   *)
(* writes was merged onto a later read.                                    *)
(***************************************************************************)
THEOREM MergeKeepsLateTags == Spec => LateTagsSurvive
<1>1. IInv /\ [Next]_vars => (ext.pc = "put" /\ ext'.pc # "put" /\ tags' # tags
                                => late \subseteq tags'[ext.doc])
  <2> SUFFICES ASSUME IInv, [Next]_vars, ext.pc = "put", ext'.pc # "put", tags' # tags
               PROVE  late \subseteq tags'[ext.doc]
      OBVIOUS
  <2>1. ExtPut
      BY DEF Next, vars, paperless, worker, Consume, PollUnprocessed, PollApproved, ExtStep,
         ExtTake, ExtFetch, ExtWriteFails, ExtDefer, ExtGiveUp, ExtErrGet, ExtErrPut,
         ExtRoute, PropStep, PropTake, PropFetch, PropSearch, PropPut, PropDupGet, PropDupPut,
         PropFinish, PropRecover, ReqStep, ReqGet, ReqPut, ReqVerify, ReqPing, ReqFail,
         ReqStart, Crash
  <2>2. tags' = [tags EXCEPT ![ext.doc] = ext.seen \cup ext.add]
      BY <2>1 DEF ExtPut, PatchTags, paperless
  <2>. QED
      BY <2>2 DEF IInv, LateSound, TypeOK, ExtTyped, PaperlessTyped
<1>. QED
    BY <1>1, Invariance, PTL DEF Spec, LateTagsSurvive

(***************************************************************************)
(* A swap is acknowledged only while the document carries what the request *)
(* adds and nothing it removes.                                            *)
(***************************************************************************)
THEOREM AcknowledgedIsTrue == Spec => AcknowledgedSwapHolds
<1> DEFINE Ack(c) == req[c].pc # "ping" /\ req'[c].pc = "ping" =>
                        Fulfils(tags'[req[c].doc], req[c].op)
<1>1. ASSUME IInv, [Next]_vars, NEW c \in Clients
      PROVE  Ack(c)
  <2> SUFFICES ASSUME req[c].pc # "ping", req'[c].pc = "ping"
               PROVE  Fulfils(tags'[req[c].doc], req[c].op)
      OBVIOUS
  <2>1. req[c] \in Request /\ RequestSound(req[c], consumed, approvedBy)
      BY <1>1 DEF IInv, TypeOK, ReqTyped, ReqSound
  <2>2. req'[c] # req[c]
      OBVIOUS
  <2>3. ASSUME NEW e \in Clients, NEW r, ReqIs(e, r)
        PROVE  e = c /\ r.pc = "ping"
      BY <1>1, <2>2, <2>3 DEF ReqIs, IInv, TypeOK, ReqTyped
  <2>4. \/ \E e \in Clients : ReqStep(e)
        \/ \E e \in Clients, op \in Ops, d \in Docs : ReqStart(e, op, d)
      BY <1>1, <2>2
      DEF Next, vars, Consume, PollUnprocessed, PollApproved, ExtStep, ExtTake, ExtFetch,
          ExtWriteFails, ExtDefer, ExtGiveUp, ExtPut, ExtErrGet, ExtErrPut, ExtRoute,
          PropStep, PropTake, PropFetch, PropSearch, PropPut, PropDupGet, PropDupPut, PropFinish,
          PropRecover, Crash
  <2>5. IdleReq.pc = "idle"
      BY DEF IdleReq
  <2>6. ASSUME NEW e \in Clients, NEW op \in Ops, NEW d \in Docs, ReqStart(e, op, d)
        PROVE  FALSE
    <3>1. [IdleReq EXCEPT !.pc = "get", !.doc = d, !.op = op].pc = "get"
        BY DEF IdleReq
    <3>. QED
        BY <2>3, <2>6, <3>1 DEF ReqStart
  <2>7. ASSUME NEW e \in Clients, ReqPut(e) \/ ReqPing(e) \/ ReqFail(e)
        PROVE  FALSE
    <3>1. ASSUME ReqPut(e)
          PROVE  FALSE
      <4> DEFINE r == [req[e] EXCEPT !.pc = "verify"]
      <4>1. e = c /\ r.pc = "ping"
          BY <2>3, <3>1 DEF ReqPut
      <4>2. r.pc = "verify"
          BY <2>1, <4>1 DEF Request
      <4>. QED
          BY <4>1, <4>2
    <3>. QED
        BY <2>3, <2>5, <2>7, <3>1 DEF ReqPing, ReqFail
  <2>8. ReqGet(c) \/ ReqVerify(c)
    <3>1. ASSUME NEW e \in Clients, ReqGet(e) \/ ReqVerify(e)
          PROVE  e = c
        BY <2>3, <3>1 DEF ReqGet, ReqVerify
    <3>. QED
        BY <2>4, <2>6, <2>7, <3>1 DEF ReqStep
  <2>9. CASE ReqGet(c)
    <3> DEFINE d == req[c].doc
               plan == planTagSwap(tags[d], KnownTags, SwapRemove[req[c].op],
                                   SwapAdd[req[c].op])
               r == [req[c] EXCEPT !.pc = IF plan = tags[d] THEN "ping" ELSE "put",
                                   !.plan = IF plan = tags[d] THEN {} ELSE plan]
    <3>1. /\ d \in consumed /\ d \in Docs /\ req[c].op \in AllOps /\ UNCHANGED tags
          /\ Sound(d, approvedBy[d], tags[d])
          /\ req[c].op = "approve" => "user" \in approvedBy[d]
        BY <1>1, <2>1, <2>9
        DEF ReqGet, RequestSound, Request, paperless, IInv, TagsSound, TypeOK, PaperlessTyped
    <3>2. Fulfils(plan, req[c].op)
        BY <3>1, PlanSound
    <3>3. r.pc = "ping"
        BY <2>3, <2>9 DEF ReqGet
    <3> HIDE DEF plan
    <3>4. plan = tags[d]
        BY <2>1, <3>3 DEF Request
    <3>. QED
        BY <3>1, <3>2, <3>4
  <2>10. CASE ReqVerify(c)
    <3> DEFINE again == [req[c] EXCEPT !.pc = "get", !.plan = {}, !.attempt = @ + 1]
    <3>1. again.pc = "get"
        BY <2>1 DEF Request
    <3>2. tags[req[c].doc] = req[c].plan /\ UNCHANGED tags
        BY <2>3, <2>5, <2>10, <3>1 DEF ReqVerify, paperless
    <3>3. Fulfils(req[c].plan, req[c].op)
        BY <2>1, <2>10 DEF RequestSound, ReqVerify
    <3>. QED
        BY <3>2, <3>3
  <2>. QED
      BY <2>8, <2>9, <2>10
<1>2. IInv /\ [Next]_vars => \A c \in Clients : Ack(c)
    BY <1>1
<1>. QED
    BY <1>2, Invariance, PTL DEF Spec, AcknowledgedSwapHolds, Fulfils
=============================================================================
