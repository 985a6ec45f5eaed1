---------------------------- MODULE IndexerProofs ----------------------------
(***************************************************************************)
(* Proofs about the search index, for every set of documents and every     *)
(* bound: its state is well typed, the payload a search filters by is      *)
(* current while no call fails and the worker stays up, and no indexing    *)
(* takes a star away.                                                      *)
(***************************************************************************)
EXTENDS Indexer, TLAPS

-----------------------------------------------------------------------------
(* The inductive invariant. *)

Quiet == budget.faults + budget.crashes = 0

\* Without a failed call there is no error tag, and nobody about to write one.
NoErrorYet ==
    budget.faults = 0 =>
        /\ \A d \in Docs : "ai-index-error" \notin tags[d]
        /\ "ai-index-error" \notin ix.seen
        /\ ix.pc \notin {"errGet", "errPut"}

OnlyTrashLeaves == \A d \in Docs : place[d] # "live" => d \in trashed

\* The tail of indexDocument is for documents with text.
BlankHasNoChunks ==
    /\ indexed \cap Blank = {}
    /\ ix.pc \in {"embed", "delete", "upsert"} => ix.doc \notin Blank

\* The tags the consumer will write for d are those of d, or d is read again.
JobCurrent(d) ==
    ix.doc = d =>
        /\ ix.pc = "content" => WithUser(ix.seen) = WithUser(tags[d])
        /\ ix.pc \in {"setPayload", "embed", "delete", "upsert"} =>
                WithUser(ix.meta) = WithUser(tags[d])

InHand(d) ==
    ix.doc = d /\ ix.pc \in {"content", "setPayload", "embed", "delete", "upsert"}

ChunksCurrent(d) ==
    d \in indexed => WithUser(payload[d]) = WithUser(tags[d]) \/ InHand(d)

\* Also of documents without chunks: a job in hand may be about to write them.
WorkCurrent ==
    Quiet => \A d \in Docs \ trashed : Due(d) \/ (JobCurrent(d) /\ ChunksCurrent(d))

Inv == TypeOK /\ NoErrorYet /\ OnlyTrashLeaves /\ BlankHasNoChunks /\ WorkCurrent

-----------------------------------------------------------------------------
(* The operators. *)

LEMMA TagsAreUserTagsOrNot ==
    /\ filterUserTags({}) = {}
    /\ \A s : WithUser(filterUserTags(s)) = WithUser(s)
    /\ \A s : WithUser(s \cup {"ai-propagated"}) = WithUser(s)
    /\ \A s : WithUser(s \ REPROCESS_REMOVE) = WithUser(s)
    /\ \A s : WithUser(s \ {"ai-index-error"}) = WithUser(s)
BY DEF WithUser, USER_TAGS, filterUserTags, LIFECYCLE_TAGS, REPROCESS_REMOVE

LEMMA TagNames ==
    /\ {"ai-propagated", "ai-index-error", "wichtig"} \subseteq Tag
    /\ \A s \in SUBSET Tag : filterUserTags(s) \in SUBSET Tag
BY DEF Tag, LIFECYCLE_TAGS, AUXILIARY_TAGS, USER_TAGS, filterUserTags

LEMMA NoDocIsNoDoc == NoDoc \notin Docs
BY DocsAssumption DEF NoDoc

\* A push appends one job of the given document.
LEMMA PushAppends ==
    ASSUME TypeOK, NEW kind \in {"full", "metadata"}, NEW d \in Docs, Push(kind, d)
    PROVE  /\ queue' \in Seq(Job)
           /\ Len(queue') \leq MaxQueue
           /\ \A i \in DOMAIN queue : i \in DOMAIN queue' /\ queue'[i] = queue[i]
           /\ \E i \in DOMAIN queue' : queue'[i].doc = d
<1> DEFINE job == [kind |-> kind, doc |-> d]
<1>1. job \in Job /\ job.doc = d
    BY DEF Job
<1>2. queue \in Seq(Job) /\ queue' = Append(queue, job) /\ Len(queue) < MaxQueue
    BY DEF TypeOK, Push
<1>3. MaxQueue \in Nat
    BY BoundsAssumption
<1> HIDE DEF job
<1>4. /\ queue' \in Seq(Job)
      /\ Len(queue') = Len(queue) + 1
      /\ Len(queue) \in Nat
      /\ \A i \in 1 .. Len(queue) : queue'[i] = queue[i]
      /\ queue'[Len(queue) + 1] = job
    BY <1>1, <1>2
<1>5. DOMAIN queue = 1 .. Len(queue) /\ DOMAIN queue' = 1 .. Len(queue')
    BY <1>2, <1>4
<1> QED BY <1>1, <1>2, <1>3, <1>4, <1>5

\* Every job but the head stays in the queue when the head is taken.
LEMMA TailKeeps ==
    ASSUME TypeOK, queue # <<>>, queue' = Tail(queue)
    PROVE  /\ queue' \in Seq(Job)
           /\ Len(queue') \leq MaxQueue
           /\ Head(queue) \in Job
           /\ \A d : (\E i \in DOMAIN queue : queue[i].doc = d)
                        => \/ Head(queue).doc = d
                           \/ \E i \in DOMAIN queue' : queue'[i].doc = d
<1>1. queue \in Seq(Job) /\ Len(queue) \leq MaxQueue /\ MaxQueue \in Nat
    BY BoundsAssumption DEF TypeOK
<1>2. /\ queue' \in Seq(Job)
      /\ Len(queue') = Len(queue) - 1
      /\ Len(queue) \in Nat \ {0}
      /\ Head(queue) = queue[1]
      /\ Head(queue) \in Job
      /\ \A i \in 1 .. Len(queue') : queue'[i] = queue[i + 1]
    BY <1>1
<1>3. DOMAIN queue = 1 .. Len(queue) /\ DOMAIN queue' = 1 .. Len(queue')
    BY <1>1, <1>2
<1>4. ASSUME NEW d, NEW i \in DOMAIN queue, queue[i].doc = d, Head(queue).doc # d
      PROVE  \E j \in DOMAIN queue' : queue'[j].doc = d
    <2>1. i # 1
        BY <1>2, <1>4
    <2>2. i - 1 \in 1 .. Len(queue')
        BY <1>2, <1>3, <2>1
    <2>3. queue'[i - 1] = queue[i]
        BY <1>2, <1>3, <2>2
    <2> QED BY <1>3, <1>4, <2>2, <2>3
<1> QED BY <1>1, <1>2, <1>4

-----------------------------------------------------------------------------
(* Types. *)

LEMMA InitTypeOK == Init => TypeOK
<1> SUFFICES ASSUME Init PROVE TypeOK
    OBVIOUS
<1>1. StartRecon \in [pc : {"list", "count", "done"}, left : SUBSET Docs,
                      attempt : 1 .. MaxAttempts]
    BY BoundsAssumption DEF StartRecon
<1>2. /\ IdleIx \in [pc : IxPc, doc : Docs \cup {NoDoc}, seen : SUBSET Tag, meta : SUBSET Tag]
      /\ IdleIx.pc = "idle"
      /\ IdleIx.doc \notin Docs
    BY NoDocIsNoDoc DEF IdleIx, IxPc
<1>3. <<>> \in Seq(Job) /\ Len(<<>>) \leq MaxQueue
    BY BoundsAssumption
<1>4. budget \in [ops : 0 .. MaxOps, faults : 0 .. MaxFaults, crashes : 0 .. MaxCrashes]
    BY BoundsAssumption DEF Init
<1> QED BY <1>1, <1>2, <1>3, <1>4 DEF Init, TypeOK

\* The part of TypeOK about the consumer's slot.
IxOK(x) ==
    /\ x \in [pc : IxPc, doc : Docs \cup {NoDoc}, seen : SUBSET Tag, meta : SUBSET Tag]
    /\ x.pc # "idle" <=> x.doc \in Docs

LEMMA SlotTypes ==
    /\ IxOK(IdleIx)
    /\ \A d \in Docs : \A pc \in IxPc \ {"idle"} : IxOK([IdleIx EXCEPT !.pc = pc, !.doc = d])
    /\ IxOK(ix) /\ ix.pc # "idle" =>
            \A pc \in IxPc \ {"idle"} :
                /\ IxOK([ix EXCEPT !.pc = pc])
                /\ IxOK([ix EXCEPT !.pc = pc, !.seen = {}, !.meta = {}])
                /\ \A s \in SUBSET Tag : IxOK([ix EXCEPT !.pc = pc, !.meta = s])
                /\ \A s \in SUBSET Tag : IxOK([ix EXCEPT !.pc = pc, !.seen = s])
<1>1. IxOK(IdleIx)
    BY NoDocIsNoDoc DEF IxOK, IdleIx, IxPc
<1>2. ASSUME NEW d \in Docs, NEW pc \in IxPc \ {"idle"}
      PROVE  IxOK([IdleIx EXCEPT !.pc = pc, !.doc = d])
    BY <1>2 DEF IxOK, IdleIx
<1>3. ASSUME IxOK(ix), ix.pc # "idle", NEW pc \in IxPc \ {"idle"}
      PROVE  /\ IxOK([ix EXCEPT !.pc = pc])
             /\ IxOK([ix EXCEPT !.pc = pc, !.seen = {}, !.meta = {}])
             /\ \A s \in SUBSET Tag : IxOK([ix EXCEPT !.pc = pc, !.meta = s])
             /\ \A s \in SUBSET Tag : IxOK([ix EXCEPT !.pc = pc, !.seen = s])
    BY <1>3 DEF IxOK
<1> QED BY <1>1, <1>2, <1>3

BudgetOK(b) == b \in [ops : 0 .. MaxOps, faults : 0 .. MaxFaults, crashes : 0 .. MaxCrashes]

\* Faults and crashes are counted and never forgotten.
LEMMA BudgetGrows ==
    ASSUME BudgetOK(budget),
           \/ Fault \/ NoFault \/ \E op \in Ops : Request(op)
           \/ Crash
    PROVE  /\ BudgetOK(budget')
           /\ budget'.faults \geq budget.faults
           /\ budget'.crashes \geq budget.crashes
           /\ Fault => budget'.faults > 0
           /\ Crash => budget'.crashes > 0
BY BoundsAssumption DEF BudgetOK, Fault, NoFault, Request, Crash

\* What Paperless and Qdrant hold stays typed under the writes of the model.
LEMMA WritesTyped ==
    ASSUME TypeOK, NEW d \in Docs
    PROVE  /\ \A s \in SUBSET Tag : PatchTags(d, s) => tags' \in [Docs -> SUBSET Tag]
           /\ Delete(d) => /\ indexed' \subseteq Docs
                           /\ payload' \in [Docs -> SUBSET Tag]
                           /\ \A e \in Docs \ indexed' : payload'[e] = {}
<1>1. ASSUME NEW s \in SUBSET Tag, PatchTags(d, s) PROVE tags' \in [Docs -> SUBSET Tag]
    BY <1>1 DEF TypeOK, PatchTags
<1>2. ASSUME Delete(d)
      PROVE  /\ indexed' \subseteq Docs
             /\ payload' \in [Docs -> SUBSET Tag]
             /\ \A e \in Docs \ indexed' : payload'[e] = {}
    BY <1>2 DEF TypeOK, Delete
<1> QED BY <1>1, <1>2

LEMMA IndexTypeOK == ASSUME TypeOK, IndexStep PROVE TypeOK'
<1>1. IxOK(ix) /\ BudgetOK(budget)
    BY DEF TypeOK, IxOK, BudgetOK
<1>2. ASSUME IxOK(ix'), BudgetOK(budget'), UNCHANGED <<filing, recon, api, place, trashed, purged>>,
             tags' \in [Docs -> SUBSET Tag],
             queue' \in Seq(Job), Len(queue') \leq MaxQueue,
             indexed' \subseteq Docs,
             payload' \in [Docs -> SUBSET Tag],
             \A d \in Docs \ indexed' : payload'[d] = {}
      PROVE  TypeOK'
    BY <1>2 DEF TypeOK, IxOK, BudgetOK, api
<1>3. Fault \/ NoFault => BudgetOK(budget')
    BY <1>1, BudgetGrows
<1>4. /\ \A s : UNCHANGED paperless => tags' \in [Docs -> SUBSET Tag]
      /\ UNCHANGED <<indexed, payload>> => /\ indexed' \subseteq Docs
                                           /\ payload' \in [Docs -> SUBSET Tag]
                                           /\ \A d \in Docs \ indexed' : payload'[d] = {}
      /\ UNCHANGED queue => queue' \in Seq(Job) /\ Len(queue') \leq MaxQueue
    BY DEF TypeOK, paperless
<1>5. /\ UNCHANGED paperless => UNCHANGED <<tags, place, trashed>>
      /\ UNCHANGED qdrant => UNCHANGED <<indexed, payload, purged>>
      /\ IxKeeps => UNCHANGED <<filing, recon, api>>
      /\ \A d, s : PatchTags(d, s) => UNCHANGED <<place, trashed>>
    BY DEF paperless, qdrant, IxKeeps, PatchTags
<1>6. /\ IxIdles => IxOK(ix')
      /\ ix.pc # "idle" => /\ ix.doc \in Docs
                           /\ ix.seen \in SUBSET Tag
                           /\ ix.meta \in SUBSET Tag
                           /\ tags[ix.doc] \in SUBSET Tag
                           /\ IxFails => IxOK(ix')
                           /\ \A pc \in IxPc \ {"idle"} : IxGoes(pc) => IxOK(ix')
    <2>1. CASE ix.pc = "idle"
        BY <2>1, SlotTypes DEF IxIdles
    <2>2. CASE ix.pc # "idle"
        <3>1. ix.doc \in Docs /\ ix.seen \in SUBSET Tag /\ ix.meta \in SUBSET Tag
            BY <1>1, <2>2 DEF IxOK
        <3>2. tags[ix.doc] \in SUBSET Tag
            BY <3>1 DEF TypeOK
        <3>3. {} \in SUBSET Tag /\ "errGet" \in IxPc \ {"idle"}
            BY DEF IxPc
        <3>4. IxFails => IxOK(ix')
            BY <1>1, <2>2, <3>3, SlotTypes DEF IxFails
        <3>5. ASSUME NEW pc \in IxPc \ {"idle"}, IxGoes(pc) PROVE IxOK(ix')
            BY <1>1, <2>2, <3>1, <3>5, SlotTypes DEF IxGoes
        <3> QED BY <3>1, <3>2, <3>4, <3>5, SlotTypes DEF IxIdles
    <2> QED BY <2>1, <2>2
<1>7. \A s \in SUBSET Tag : \A pc \in IxPc \ {"idle"} :
            ix.pc # "idle" /\ resolvePayloadMetadata(s, pc) => IxOK(ix') /\ BudgetOK(budget')
    <2> SUFFICES ASSUME NEW s \in SUBSET Tag, NEW pc \in IxPc \ {"idle"},
                        ix.pc # "idle", resolvePayloadMetadata(s, pc)
                 PROVE  IxOK(ix') /\ BudgetOK(budget')
        OBVIOUS
    <2>1. filterUserTags(s) \in SUBSET Tag /\ ix.seen \in SUBSET Tag
        BY <1>6, TagNames
    <2>2. CASE NoFault /\ ix' = [ix EXCEPT !.pc = pc, !.meta = filterUserTags(s)]
        BY <1>1, <1>3, <2>1, <2>2, SlotTypes
    <2>3. CASE Fault /\ IxGoes(pc)
        BY <1>3, <1>6, <2>3
    <2> QED BY <2>2, <2>3 DEF resolvePayloadMetadata
<1>8. {"count", "refetch", "setPayload", "fetch", "content", "embed", "delete",
       "upsert", "wipe", "clear", "errGet", "errPut"} = IxPc \ {"idle"}
    BY DEF IxPc
<1>a. CASE IxTake
    <2>1. /\ queue' \in Seq(Job)
          /\ Len(queue') \leq MaxQueue
          /\ Head(queue).doc \in Docs
        BY <1>a, TailKeeps DEF IxTake, Job
    <2>2. IxOK(ix')
        <3>1. CASE Head(queue).kind = "full"
            BY <1>a, <2>1, <3>1, <1>8, SlotTypes DEF IxTake
        <3>2. CASE Head(queue).kind # "full"
            BY <1>a, <2>1, <3>2, <1>8, SlotTypes DEF IxTake
        <3> QED BY <3>1, <3>2
    <2>3. UNCHANGED <<filing, recon, api, place, trashed, purged, indexed, payload, tags>>
          /\ NoFault
        BY <1>a, <1>5 DEF IxTake, NoFault
    <2> QED BY <1>2, <1>3, <1>4, <2>1, <2>2, <2>3 DEF paperless
<1>b. CASE IxCount
    <2>1. IxOK(ix')
        BY <1>b, <1>6, <1>8 DEF IxCount
    <2> QED BY <1>b, <1>2, <1>3, <1>4, <1>5, <2>1 DEF IxCount
<1>c. CASE IxRefetch
    <2>1. IxOK(ix') /\ BudgetOK(budget')
        BY <1>c, <1>3, <1>6, <1>7, <1>8 DEF IxRefetch
    <2> QED BY <1>c, <1>2, <1>4, <1>5, <2>1 DEF IxRefetch
<1>d. CASE IxSetPayload
    <2>1. IxOK(ix') /\ BudgetOK(budget') /\ ix.doc \in Docs /\ ix.meta \in SUBSET Tag
        BY <1>d, <1>3, <1>6 DEF IxSetPayload
    <2>2. /\ indexed' \subseteq Docs
          /\ payload' \in [Docs -> SUBSET Tag]
          /\ \A d \in Docs \ indexed' : payload'[d] = {}
        BY <1>d, <2>1 DEF IxSetPayload, TypeOK
    <2> QED BY <1>d, <1>2, <1>4, <1>5, <2>1, <2>2 DEF IxSetPayload
<1>e. CASE IxFetch
    <2>1. IxOK(ix') /\ BudgetOK(budget')
        <3>1. ix.pc # "idle" /\ tags[ix.doc] \in SUBSET Tag
            BY <1>e, <1>6 DEF IxFetch
        <3>2. ix' = [ix EXCEPT !.pc = "content", !.seen = tags[ix.doc]] => IxOK(ix')
            <4>1. "content" \in IxPc \ {"idle"}
                BY <1>8
            <4> QED BY <1>1, <3>1, <4>1, SlotTypes
        <3> QED BY <1>e, <1>3, <1>6, <3>2 DEF IxFetch
    <2> QED BY <1>e, <1>2, <1>4, <1>5, <2>1 DEF IxFetch
<1>f. CASE IxContent
    <2>1. IxOK(ix') /\ BudgetOK(budget')
        BY <1>f, <1>3, <1>6, <1>7, <1>8 DEF IxContent
    <2> QED BY <1>f, <1>2, <1>4, <1>5, <2>1 DEF IxContent
<1>g. CASE IxEmbed
    <2>1. IxOK(ix') /\ BudgetOK(budget')
        BY <1>g, <1>3, <1>6, <1>8 DEF IxEmbed
    <2> QED BY <1>g, <1>2, <1>4, <1>5, <2>1 DEF IxEmbed
<1>h. CASE IxDelete
    <2>1. IxOK(ix') /\ BudgetOK(budget') /\ ix.doc \in Docs
        BY <1>h, <1>3, <1>6, <1>8 DEF IxDelete
    <2> QED BY <1>h, <1>2, <1>4, <1>5, <2>1, WritesTyped DEF IxDelete
<1>i. CASE IxWipe
    <2>1. IxOK(ix') /\ BudgetOK(budget') /\ ix.doc \in Docs
        BY <1>i, <1>3, <1>6, <1>8 DEF IxWipe
    <2> QED BY <1>i, <1>2, <1>4, <1>5, <2>1, WritesTyped DEF IxWipe
<1>j. CASE IxUpsert
    <2>1. /\ IxOK(ix') /\ BudgetOK(budget')
          /\ ix.doc \in Docs /\ ix.meta \in SUBSET Tag
        BY <1>j, <1>3, <1>6, <1>8 DEF IxUpsert
    <2>2. Upsert => /\ indexed' \subseteq Docs
                    /\ payload' \in [Docs -> SUBSET Tag]
                    /\ \A d \in Docs \ indexed' : payload'[d] = {}
        BY <2>1 DEF Upsert, TypeOK
    <2> QED BY <1>j, <1>2, <1>4, <1>5, <2>1, <2>2 DEF IxUpsert
<1>k. CASE IxClear
    <2>1. /\ IxOK(ix') /\ BudgetOK(budget')
          /\ ix.doc \in Docs /\ ix.seen \in SUBSET Tag
        BY <1>k, <1>3, <1>6 DEF IxClear
    <2>2. tags' \in [Docs -> SUBSET Tag]
        BY <1>k, <1>4, <2>1, WritesTyped DEF IxClear
    <2> QED BY <1>k, <1>2, <1>4, <1>5, <2>1, <2>2 DEF IxClear
<1>l. CASE IxErrGet
    <2>1. IxOK(ix') /\ BudgetOK(budget')
        <3>1. ix.pc # "idle" /\ tags[ix.doc] \in SUBSET Tag
            BY <1>l, <1>6 DEF IxErrGet
        <3>2. ix' = [ix EXCEPT !.pc = "errPut", !.seen = tags[ix.doc]] => IxOK(ix')
            <4>1. "errPut" \in IxPc \ {"idle"}
                BY <1>8
            <4> QED BY <1>1, <3>1, <4>1, SlotTypes
        <3> QED BY <1>l, <1>3, <1>6, <3>2 DEF IxErrGet
    <2> QED BY <1>l, <1>2, <1>4, <1>5, <2>1 DEF IxErrGet
<1>m. CASE IxErrPut
    <2>1. /\ IxOK(ix') /\ BudgetOK(budget')
          /\ ix.doc \in Docs /\ ix.seen \in SUBSET Tag
        BY <1>m, <1>3, <1>6 DEF IxErrPut
    <2>2. tags' \in [Docs -> SUBSET Tag]
        BY <1>m, <1>4, <2>1, WritesTyped, TagNames DEF IxErrPut
    <2> QED BY <1>m, <1>2, <1>4, <1>5, <2>1, <2>2 DEF IxErrPut
<1> QED BY <1>a, <1>b, <1>c, <1>d, <1>e, <1>f, <1>g, <1>h, <1>i, <1>j, <1>k, <1>l, <1>m
        DEF IndexStep

LEMMA OthersTypeOK ==
    ASSUME TypeOK, [Next]_vars, ~IndexStep
    PROVE  TypeOK'
<1>1. BudgetOK(budget)
    BY DEF TypeOK, BudgetOK
<1>2. BudgetOK(budget') => budget' \in [ops : 0 .. MaxOps, faults : 0 .. MaxFaults,
                                         crashes : 0 .. MaxCrashes]
    BY DEF BudgetOK
<1> DEFINE r == [pc : {"list", "count", "done"}, left : SUBSET Docs, attempt : 1 .. MaxAttempts]
<1>3. StartRecon \in r
    BY BoundsAssumption DEF StartRecon
<1>a. ASSUME NEW d \in Docs, File(d) PROVE TypeOK'
    <2>1. tags[d] \cup {"ai-propagated"} \in SUBSET Tag
        BY TagNames DEF TypeOK
    <2> QED BY <1>a, <2>1, WritesTyped DEF File, TypeOK, qdrant, api, PatchTags
<1>b. CASE HandOver
    <2>1. filing \in Docs
        BY <1>b DEF HandOver, TypeOK
    <2>2. queue' \in Seq(Job) /\ Len(queue') \leq MaxQueue
        BY <1>b, <2>1, PushAppends DEF HandOver
    <2> QED BY <1>b, <2>2 DEF HandOver, TypeOK, paperless, qdrant, api
<1>c. CASE ReconFails
    <2>1. recon' \in r
        <3>1. recon.attempt \in 1 .. MaxAttempts /\ recon \in r /\ MaxAttempts \in Nat
            BY BoundsAssumption DEF TypeOK
        <3>2. CASE recon.attempt < MaxAttempts
            <4>1. recon.attempt + 1 \in 1 .. MaxAttempts
                BY <3>1, <3>2
            <4>2. recon' = [StartRecon EXCEPT !.attempt = recon.attempt + 1]
                BY <1>c, <3>2 DEF ReconFails, ReconIs
            <4> QED BY <1>3, <4>1, <4>2 DEF StartRecon
        <3>3. CASE ~(recon.attempt < MaxAttempts)
            <4>1. recon' = [recon EXCEPT !.pc = "done", !.left = {}]
                BY <1>c, <3>3 DEF ReconFails, ReconIs
            <4> QED BY <3>1, <4>1
        <3> QED BY <3>2, <3>3
    <2>2. BudgetOK(budget')
        BY <1>c, <1>1, BudgetGrows DEF ReconFails
    <2>3. TypeOK /\ UNCHANGED <<queue, paperless, qdrant, filing, ix, api>>
        BY <1>c DEF ReconFails, ReconKeeps
    <2> QED BY <2>1, <2>2, <2>3, <1>2 DEF TypeOK, paperless, qdrant, api
<1>d. CASE ReconList
    <2>1. recon' \in r
        BY <1>d DEF ReconList, ReconIs, TypeOK
    <2> QED BY <1>d, <2>1 DEF ReconList, ReconKeeps, TypeOK, paperless, qdrant, api
<1>e. CASE ReconDone
    <2>1. recon' \in r
        BY <1>e DEF ReconDone, ReconIs, TypeOK
    <2> QED BY <1>e, <2>1 DEF ReconDone, ReconKeeps, TypeOK, paperless, qdrant, api
<1>f. ASSUME NEW d \in Docs, ReconCount(d) PROVE TypeOK'
    <2>1. recon' \in r
        BY <1>f DEF ReconCount, ReconIs, TypeOK
    <2>2. queue' \in Seq(Job) /\ Len(queue') \leq MaxQueue
        BY <1>f, PushAppends DEF ReconCount, TypeOK
    <2> QED BY <1>f, <2>1, <2>2 DEF ReconCount, ReconKeeps, TypeOK, paperless, qdrant, api
<1>g. CASE Crash
    <2>1. <<>> \in Seq(Job) /\ Len(<<>>) \leq MaxQueue /\ IxOK(IdleIx) /\ BudgetOK(budget')
        <3>1. <<>> \in Seq(Job) /\ Len(<<>>) \leq MaxQueue
            BY BoundsAssumption
        <3> QED BY <1>g, <1>1, <3>1, BudgetGrows, SlotTypes
    <2>2. ix' \in [pc : IxPc, doc : Docs \cup {NoDoc}, seen : SUBSET Tag, meta : SUBSET Tag]
          /\ (ix'.pc # "idle" <=> ix'.doc \in Docs)
        BY <1>g, <2>1 DEF Crash, IxOK
    <2> QED BY <1>g, <2>1, <2>2, <1>2, <1>3 DEF Crash, TypeOK, paperless, qdrant, api
<1>h. ASSUME NEW d \in Docs, UserStep(d) PROVE TypeOK'
    <2>1. \A s \in SUBSET Tag : PatchTags(d, s) => tags' \in [Docs -> SUBSET Tag]
        BY WritesTyped
    <2>2. /\ tags[d] \cup {"wichtig"} \in SUBSET Tag
          /\ tags[d] \ {"wichtig"} \in SUBSET Tag
          /\ tags[d] \ REPROCESS_REMOVE \in SUBSET Tag
        BY TagNames DEF TypeOK
    <2>3. \A op : Request(op) => BudgetOK(budget')
        <3> SUFFICES ASSUME NEW op, Request(op) PROVE BudgetOK(budget')
            OBVIOUS
        <3> QED BY <1>1, BudgetGrows DEF Request
    <2>4. CASE Star(d) \/ Unstar(d) \/ Reprocess(d)
        <3>1. /\ tags' \in [Docs -> SUBSET Tag]
              /\ BudgetOK(budget')
              /\ pings' \subseteq Docs
              /\ UNCHANGED <<place, trashed, qdrant, queue, filing, ix, recon, purges>>
            BY <2>1, <2>2, <2>3, <2>4 DEF Star, Unstar, Reprocess, Request, PatchTags, api, TypeOK
        <3> QED BY <3>1, <1>2 DEF TypeOK, qdrant
    <2>5. CASE Trash(d) \/ restore(d) \/ deleteForever(d)
        <3>1. /\ place' \in [Docs -> {"live", "trash", "gone"}]
              /\ BudgetOK(budget')
              /\ trashed' \subseteq Docs /\ purges' \subseteq Docs
              /\ UNCHANGED <<tags, qdrant, queue, filing, ix, recon, pings>>
            BY <2>3, <2>5 DEF Trash, restore, deleteForever, Request, api, TypeOK
        <3> QED BY <3>1, <1>2 DEF TypeOK, qdrant
    <2> QED BY <1>h, <2>4, <2>5 DEF UserStep
<1>i. ASSUME NEW d \in Docs, Ping(d) PROVE TypeOK'
    <2>1. BudgetOK(budget') /\ queue' \in Seq(Job) /\ Len(queue') \leq MaxQueue
        BY <1>i, <1>1, BudgetGrows, PushAppends DEF Ping, TypeOK
    <2> QED BY <1>i, <2>1, <1>2 DEF Ping, TypeOK, paperless, qdrant
<1>j. ASSUME NEW d \in Docs, purgeChunks(d) PROVE TypeOK'
    <2>1. BudgetOK(budget') /\ purged' \subseteq Docs
        BY <1>j, <1>1, BudgetGrows DEF purgeChunks, TypeOK, qdrant
    <2>2. /\ indexed' \subseteq Docs
          /\ payload' \in [Docs -> SUBSET Tag]
          /\ \A e \in Docs \ indexed' : payload'[e] = {}
        BY <1>j, WritesTyped DEF purgeChunks, TypeOK, qdrant
    <2> QED BY <1>j, <2>1, <2>2, <1>2 DEF purgeChunks, TypeOK, paperless
<1>k. CASE UNCHANGED vars
    BY <1>k DEF vars, TypeOK
<1> QED BY <1>a, <1>b, <1>c, <1>d, <1>e, <1>f, <1>g, <1>h, <1>i, <1>j, <1>k
        DEF Next, Reconcile

LEMMA NextTypeOK == TypeOK /\ [Next]_vars => TypeOK'
BY IndexTypeOK, OthersTypeOK

\* The state of the index, the worker and the API around them is well typed.
THEOREM IndexerTypeCorrect == Spec => []TypeOK
<1>1. Init => TypeOK
    BY InitTypeOK
<1>2. TypeOK /\ [Next]_vars => TypeOK'
    BY NextTypeOK
<1> QED BY <1>1, <1>2, PTL DEF Spec

-----------------------------------------------------------------------------
(* The invariant. *)

\* What a move of the consumer leaves of its slot.
LEMMA SlotMoves ==
    ASSUME TypeOK
    PROVE  /\ \A pc \in IxPc : IxGoes(pc) =>
                 /\ ix'.pc = pc /\ ix'.doc = ix.doc
                 /\ ix'.seen = ix.seen /\ ix'.meta = ix.meta
           /\ \A pc \in IxPc : \A s : ix' = [ix EXCEPT !.pc = pc, !.seen = s] =>
                 ix'.pc = pc /\ ix'.doc = ix.doc /\ ix'.seen = s
           /\ \A pc \in IxPc : \A s : ix' = [ix EXCEPT !.pc = pc, !.meta = s] =>
                 ix'.pc = pc /\ ix'.doc = ix.doc /\ ix'.seen = ix.seen /\ ix'.meta = s
           /\ IxFails => ix'.pc = "errGet" /\ ix'.doc = ix.doc /\ ix'.seen = {}
           /\ IxIdles => ix'.pc = "idle" /\ ix'.doc = NoDoc /\ ix'.seen = {}
<1>1. ix \in [pc : IxPc, doc : Docs \cup {NoDoc}, seen : SUBSET Tag, meta : SUBSET Tag]
    BY DEF TypeOK
<1>2. ASSUME NEW pc \in IxPc, IxGoes(pc)
      PROVE  /\ ix'.pc = pc /\ ix'.doc = ix.doc
             /\ ix'.seen = ix.seen /\ ix'.meta = ix.meta
    BY <1>1, <1>2 DEF IxGoes
<1>3. ASSUME NEW pc \in IxPc, NEW s, ix' = [ix EXCEPT !.pc = pc, !.seen = s]
      PROVE  ix'.pc = pc /\ ix'.doc = ix.doc /\ ix'.seen = s
    BY <1>1, <1>3
<1>4. ASSUME NEW pc \in IxPc, NEW s, ix' = [ix EXCEPT !.pc = pc, !.meta = s]
      PROVE  ix'.pc = pc /\ ix'.doc = ix.doc /\ ix'.seen = ix.seen /\ ix'.meta = s
    BY <1>1, <1>4
<1>5. IxFails => ix'.pc = "errGet" /\ ix'.doc = ix.doc /\ ix'.seen = {}
    BY <1>1 DEF IxFails
<1>6. IxIdles => ix'.pc = "idle" /\ ix'.doc = NoDoc /\ ix'.seen = {}
    BY DEF IxIdles, IdleIx
<1> QED BY <1>2, <1>3, <1>4, <1>5, <1>6

\* A taken job is counted or fetched, with nothing seen yet.
LEMMA TakeFields ==
    ASSUME TypeOK, IxTake
    PROVE  /\ ix'.pc \in {"fetch", "count"}
           /\ ix'.doc = Head(queue).doc
           /\ ix'.seen = {}
<1>1. CASE Head(queue).kind = "full"
    BY <1>1 DEF IxTake, IdleIx
<1>2. CASE Head(queue).kind # "full"
    BY <1>2 DEF IxTake, IdleIx
<1> QED BY <1>1, <1>2

\* Bounds only grow, so that a quiet state follows quiet states only.
LEMMA NextGrows ==
    ASSUME TypeOK, [Next]_vars
    PROVE  /\ budget.faults \in Nat /\ budget'.faults \in Nat
           /\ budget.crashes \in Nat /\ budget'.crashes \in Nat
           /\ budget'.faults \geq budget.faults
           /\ budget'.crashes \geq budget.crashes
           /\ Fault => budget'.faults > 0
           /\ Crash => budget'.crashes > 0
<1>1. BudgetOK(budget) /\ BudgetOK(budget')
    BY NextTypeOK DEF TypeOK, BudgetOK
<1>2. \/ Fault \/ NoFault \/ Crash
      \/ \E op \in Ops : Request(op)
    <2>1. ASSUME NEW op, Request(op) PROVE \E o \in Ops : Request(o)
        BY <2>1 DEF Request
    <2>2. UNCHANGED vars => NoFault
        BY DEF vars, NoFault
    <2>3. IndexStep => Fault \/ NoFault
        BY DEF IndexStep, IxTake, IxCount, IxRefetch, IxSetPayload, IxFetch, IxContent, IxEmbed,
               IxDelete, IxWipe, IxUpsert, IxClear, IxErrGet, IxErrPut,
               resolvePayloadMetadata, NoFault
    <2>4. Reconcile \/ HandOver => Fault \/ NoFault
        BY DEF Reconcile, ReconFails, ReconList, ReconDone, ReconCount, HandOver, NoFault
    <2>5. ASSUME NEW d \in Docs, File(d) \/ Ping(d) \/ purgeChunks(d) PROVE Fault \/ NoFault
        BY <2>5 DEF File, Ping, purgeChunks, NoFault
    <2>6. ASSUME NEW d \in Docs, UserStep(d) PROVE \E o \in Ops : Request(o)
        BY <2>1, <2>6 DEF UserStep, Star, Unstar, Reprocess, Trash, restore, deleteForever
    <2> QED BY <2>2, <2>3, <2>4, <2>5, <2>6 DEF Next
<1>3. /\ budget'.faults \geq budget.faults
      /\ budget'.crashes \geq budget.crashes
      /\ Fault => budget'.faults > 0
      /\ Crash => budget'.crashes > 0
    BY <1>1, <1>2, BudgetGrows
<1> QED BY <1>1, <1>3, BoundsAssumption DEF BudgetOK

LEMMA NoErrorNext ==
    ASSUME TypeOK, NoErrorYet, [Next]_vars
    PROVE  NoErrorYet'
<1> SUFFICES ASSUME budget'.faults = 0
             PROVE  /\ \A d \in Docs : "ai-index-error" \notin tags'[d]
                    /\ "ai-index-error" \notin ix'.seen
                    /\ ix'.pc \notin {"errGet", "errPut"}
    BY DEF NoErrorYet
<1>1. ~Fault /\ budget.faults = 0
    BY NextGrows
<1>2. /\ \A d \in Docs : "ai-index-error" \notin tags[d]
      /\ "ai-index-error" \notin ix.seen
      /\ ix.pc \notin {"errGet", "errPut"}
    BY <1>1 DEF NoErrorYet
<1>3. tags \in [Docs -> SUBSET Tag] /\ (ix.pc # "idle" => ix.doc \in Docs)
    BY DEF TypeOK
<1>4. ASSUME NEW d \in Docs, NEW s, PatchTags(d, s), "ai-index-error" \notin s
      PROVE  \A e \in Docs : "ai-index-error" \notin tags'[e]
    BY <1>2, <1>3, <1>4 DEF PatchTags
<1>5. UNCHANGED tags /\ UNCHANGED ix => /\ \A d \in Docs : "ai-index-error" \notin tags'[d]
                                       /\ "ai-index-error" \notin ix'.seen
                                       /\ ix'.pc \notin {"errGet", "errPut"}
    BY <1>2
<1>a. CASE IxTake
    BY <1>a, <1>2, TakeFields DEF IxTake, paperless
<1>b. CASE IndexStep /\ ~IxTake
    <2>1. /\ ix'.pc \in IxPc \ {"errGet", "errPut"}
          /\ "ai-index-error" \notin ix'.seen
        <3>1. ASSUME NEW s, NEW pc \in {"setPayload", "embed"}, resolvePayloadMetadata(s, pc)
              PROVE  ix'.pc = pc /\ ix'.seen = ix.seen
            BY <1>1, <3>1, SlotMoves DEF resolvePayloadMetadata, IxPc
        <3>2. CASE IxCount \/ IxRefetch \/ IxSetPayload
            BY <1>1, <1>2, <3>1, <3>2, SlotMoves
            DEF IxCount, IxRefetch, IxSetPayload, IxPc
        <3>3. CASE IxFetch
            <4>1. \/ ix' = [ix EXCEPT !.pc = "content", !.seen = tags[ix.doc]]
                  \/ IxIdles
                BY <1>1, <3>3 DEF IxFetch
            <4>2. "content" \in IxPc /\ "idle" \in IxPc /\ "ai-index-error" \notin tags[ix.doc]
                BY <1>2, <1>3, <3>3 DEF IxFetch, IxPc
            <4>3. \/ ix'.pc = "content" /\ ix'.seen = tags[ix.doc]
                  \/ ix'.pc = "idle" /\ ix'.seen = {}
                BY <4>1, <4>2, SlotMoves
            <4> QED BY <4>2, <4>3
        <3>4. CASE IxContent \/ IxEmbed \/ IxDelete
            BY <1>1, <1>2, <3>1, <3>4, SlotMoves DEF IxContent, IxEmbed, IxDelete, IxPc
        <3>5. CASE IxWipe \/ IxUpsert \/ IxClear
            BY <1>1, <1>2, <3>5, SlotMoves DEF IxWipe, IxUpsert, IxClear, IxPc
        <3>6. ~IxErrGet /\ ~IxErrPut
            BY <1>2 DEF IxErrGet, IxErrPut
        <3> QED BY <1>b, <3>2, <3>3, <3>4, <3>5, <3>6 DEF IndexStep
    <2>2. UNCHANGED tags
        BY <1>b, <1>1, <1>2
        DEF IndexStep, IxCount, IxRefetch, IxSetPayload, IxFetch, IxContent, IxEmbed,
            IxDelete, IxWipe, IxUpsert, IxClear, IxErrGet, IxErrPut, paperless
    <2> QED BY <1>2, <2>1, <2>2
<1>c. CASE HandOver \/ Reconcile \/ UNCHANGED vars
    BY <1>5, <1>c DEF HandOver, Reconcile, ReconFails, ReconList, ReconDone, ReconCount,
                      ReconKeeps, paperless, vars
<1>d. CASE Crash
    BY <1>2, <1>d DEF Crash, IdleIx, paperless
<1>e. ASSUME NEW d \in Docs, File(d) \/ UserStep(d) \/ Ping(d) \/ purgeChunks(d)
      PROVE  /\ \A e \in Docs : "ai-index-error" \notin tags'[e]
             /\ UNCHANGED ix
    <2>1. CASE File(d)
        BY <1>2, <1>4, <2>1 DEF File
    <2>2. CASE Star(d) \/ Unstar(d) \/ Reprocess(d)
        BY <1>2, <1>4, <2>2 DEF Star, Unstar, Reprocess, Request
    <2>3. CASE Trash(d) \/ restore(d) \/ deleteForever(d) \/ Ping(d) \/ purgeChunks(d)
        BY <1>2, <2>3 DEF Trash, restore, deleteForever, Ping, purgeChunks, Request, paperless
    <2> QED BY <1>e, <2>1, <2>2, <2>3 DEF UserStep
<1> QED BY <1>2, <1>a, <1>b, <1>c, <1>d, <1>e DEF Next

LEMMA OnlyTrashLeavesNext ==
    ASSUME TypeOK, OnlyTrashLeaves, [Next]_vars
    PROVE  OnlyTrashLeaves' /\ trashed \subseteq trashed'
<1>1. IndexStep => UNCHANGED <<place, trashed>>
    BY DEF IndexStep, IxTake, IxCount, IxRefetch, IxSetPayload, IxFetch, IxContent, IxEmbed,
           IxDelete, IxWipe, IxUpsert, IxClear, IxErrGet, IxErrPut, paperless, PatchTags
<1>2. HandOver \/ Reconcile \/ Crash \/ UNCHANGED vars => UNCHANGED <<place, trashed>>
    BY DEF HandOver, Reconcile, ReconFails, ReconList, ReconDone, ReconCount, ReconKeeps,
           Crash, paperless, vars
<1>3. ASSUME NEW d \in Docs, File(d) \/ Ping(d) \/ purgeChunks(d)
      PROVE  UNCHANGED <<place, trashed>>
    BY <1>3 DEF File, Ping, purgeChunks, paperless, PatchTags
<1>4. ASSUME NEW d \in Docs, UserStep(d)
      PROVE  OnlyTrashLeaves' /\ trashed \subseteq trashed'
    <2>1. CASE Star(d) \/ Unstar(d) \/ Reprocess(d)
        BY <2>1 DEF Star, Unstar, Reprocess, PatchTags, OnlyTrashLeaves
    <2>2. CASE Trash(d) \/ restore(d) \/ deleteForever(d)
        BY <2>2 DEF Trash, restore, deleteForever, OnlyTrashLeaves, TypeOK
    <2> QED BY <1>4, <2>1, <2>2 DEF UserStep
<1> QED BY <1>1, <1>2, <1>3, <1>4 DEF Next, OnlyTrashLeaves

LEMMA BlankNext ==
    ASSUME TypeOK, BlankHasNoChunks, [Next]_vars
    PROVE  BlankHasNoChunks'
<1> DEFINE writing(x) == x \in {"embed", "delete", "upsert"}
<1>1. UNCHANGED <<indexed, ix>> => BlankHasNoChunks'
    BY DEF BlankHasNoChunks
<1>2. ASSUME indexed' \subseteq indexed, ~writing(ix'.pc) PROVE BlankHasNoChunks'
    BY <1>2 DEF BlankHasNoChunks
<1>3. /\ IxIdles => ~writing(ix'.pc)
      /\ IxFails => ~writing(ix'.pc)
      /\ \A pc \in IxPc : IxGoes(pc) => ix'.pc = pc /\ ix'.doc = ix.doc
      /\ \A pc \in IxPc : \A s : resolvePayloadMetadata(s, pc) => ix'.pc = pc /\ ix'.doc = ix.doc
    BY SlotMoves DEF resolvePayloadMetadata
<1>4. {"idle", "count", "refetch", "setPayload", "fetch", "content", "embed", "delete",
       "upsert", "wipe", "clear", "errGet", "errPut"} = IxPc
    BY DEF IxPc
<1>a. CASE IxTake
    BY <1>2, <1>a, TakeFields DEF IxTake, qdrant
<1>b. CASE IxCount \/ IxRefetch
    <2>1. ~writing(ix'.pc)
        BY <1>b, <1>3, <1>4 DEF IxCount, IxRefetch
    <2> QED BY <1>b, <1>2, <2>1 DEF IxCount, IxRefetch, qdrant
<1>c. CASE IxSetPayload
    BY <1>c, <1>2, <1>3 DEF IxSetPayload
<1>d. CASE IxFetch
    <2>1. CASE IxIdles
        BY <1>d, <1>2, <1>3, <2>1 DEF IxFetch, qdrant
    <2>2. CASE ix' = [ix EXCEPT !.pc = "content", !.seen = tags[ix.doc]]
        <3>1. ix'.pc = "content"
            BY <2>2 DEF TypeOK
        <3> QED BY <1>d, <1>2, <3>1 DEF IxFetch, qdrant
    <2> QED BY <1>d, <2>1, <2>2 DEF IxFetch
<1>e. CASE IxContent
    <2>1. CASE ix.doc \notin Blank /\ resolvePayloadMetadata(ix.seen, "embed")
        BY <1>e, <1>3, <1>4, <2>1 DEF IxContent, BlankHasNoChunks, qdrant
    <2>2. CASE IxGoes("wipe")
        BY <1>e, <1>2, <1>3, <1>4, <2>2 DEF IxContent, qdrant
    <2> QED BY <1>e, <2>1, <2>2 DEF IxContent
<1>f. CASE IxEmbed
    <2>1. CASE IxGoes("delete")
        BY <1>f, <1>3, <1>4, <2>1 DEF IxEmbed, BlankHasNoChunks, qdrant
    <2>2. CASE IxFails
        BY <1>f, <1>2, <1>3, <2>2 DEF IxEmbed, qdrant
    <2> QED BY <1>f, <2>1, <2>2 DEF IxEmbed
<1>g. CASE IxDelete
    <2>1. CASE IxGoes("upsert")
        BY <1>g, <1>3, <1>4, <2>1 DEF IxDelete, BlankHasNoChunks, Delete
    <2>2. CASE IxFails
        BY <1>g, <1>2, <1>3, <2>2 DEF IxDelete, Delete
    <2> QED BY <1>g, <2>1, <2>2 DEF IxDelete
<1>h. CASE IxWipe
    <2>1. ~writing(ix'.pc)
        BY <1>h, <1>3, <1>4 DEF IxWipe
    <2> QED BY <1>h, <1>2, <2>1 DEF IxWipe, Delete
<1>i. CASE IxUpsert
    <2>1. ~writing(ix'.pc) /\ ix.doc \notin Blank
        BY <1>i, <1>3, <1>4 DEF IxUpsert, BlankHasNoChunks
    <2> QED BY <1>i, <2>1 DEF IxUpsert, Upsert, BlankHasNoChunks
<1>j. CASE IxClear
    BY <1>j, <1>2, <1>3 DEF IxClear, qdrant
<1>k. CASE IxErrGet
    <2>1. CASE IxIdles
        BY <1>k, <1>2, <1>3, <2>1 DEF IxErrGet, qdrant
    <2>2. CASE ix' = [ix EXCEPT !.pc = "errPut", !.seen = tags[ix.doc]]
        <3>1. ix'.pc = "errPut"
            BY <2>2 DEF TypeOK
        <3> QED BY <1>k, <1>2, <3>1 DEF IxErrGet, qdrant
    <2> QED BY <1>k, <2>1, <2>2 DEF IxErrGet
<1>l. CASE IxErrPut
    BY <1>l, <1>2, <1>3 DEF IxErrPut, qdrant
<1>m. CASE HandOver \/ Reconcile \/ UNCHANGED vars
    BY <1>1, <1>m DEF HandOver, Reconcile, ReconFails, ReconList, ReconDone, ReconCount,
                      ReconKeeps, qdrant, vars
<1>n. CASE Crash
    BY <1>2, <1>n DEF Crash, IdleIx, qdrant
<1>o. ASSUME NEW d \in Docs, File(d) \/ UserStep(d) \/ Ping(d)
      PROVE  UNCHANGED <<indexed, ix>>
    BY <1>o DEF File, UserStep, Star, Unstar, Reprocess, Trash, restore, deleteForever,
                Request, Ping, qdrant
<1>p. ASSUME NEW d \in Docs, purgeChunks(d)
      PROVE  UNCHANGED ix /\ indexed' \subseteq indexed
    BY <1>p DEF purgeChunks, Delete, qdrant
<1>q. ASSUME UNCHANGED ix, indexed' \subseteq indexed PROVE BlankHasNoChunks'
    BY <1>q DEF BlankHasNoChunks
<1> QED BY <1>1, <1>a, <1>b, <1>c, <1>d, <1>e, <1>f, <1>g, <1>h, <1>i, <1>j, <1>k, <1>l,
           <1>m, <1>n, <1>o, <1>p, <1>q DEF Next, IndexStep

\* What is still to be read stays so, until the consumer reads it.
LEMMA DueUntilRead ==
    ASSUME TypeOK, [Next]_vars, ~Fault, ~Crash, NEW d \in Docs, Due(d),
           ~(ix.doc = d /\ (IxRefetch \/ IxFetch))
    PROVE  Due(d)'
<1>1. /\ d \in pings => d \in pings' \/ Ping(d)
      /\ filing = d => filing' = d \/ HandOver
    BY NoDocIsNoDoc
    DEF Next, File, HandOver, IndexStep, IxTake, IxCount, IxRefetch, IxSetPayload, IxFetch,
        IxContent, IxEmbed, IxDelete, IxWipe, IxUpsert, IxClear, IxErrGet, IxErrPut, IxKeeps,
        Reconcile, ReconFails, ReconList, ReconDone, ReconCount, ReconKeeps, UserStep, Star,
        Unstar, Reprocess, Trash, restore, deleteForever, Request, Ping, purgeChunks, api, vars
<1>2. CASE Ping(d)
    BY <1>2, PushAppends DEF Ping, Due
<1>3. CASE HandOver /\ filing = d
    BY <1>3, PushAppends DEF HandOver, Due
<1>4. ASSUME NEW i \in DOMAIN queue, queue[i].doc = d PROVE Due(d)'
    <2>1. CASE IxTake
        <3>1. \/ Head(queue).doc = d
              \/ \E j \in DOMAIN queue' : queue'[j].doc = d
            BY <1>4, <2>1, TailKeeps DEF IxTake
        <3> QED BY <2>1, <3>1, TakeFields DEF Due
    <2>2. CASE ~IxTake
        <3>1. \/ UNCHANGED queue
              \/ \E kind \in {"full", "metadata"}, e \in Docs : Push(kind, e)
            BY <2>2
            DEF Next, File, HandOver, IndexStep, IxCount, IxRefetch, IxSetPayload, IxFetch,
                IxContent, IxEmbed, IxDelete, IxWipe, IxUpsert, IxClear, IxErrGet, IxErrPut,
                Reconcile, ReconFails, ReconList, ReconDone, ReconCount, UserStep, Star,
                Unstar, Reprocess, Trash, restore, deleteForever, Request, Ping, purgeChunks,
                vars, TypeOK
        <3> QED BY <1>4, <3>1, PushAppends DEF Due
    <2> QED BY <2>1, <2>2
<1>5. ASSUME ix.doc = d, ix.pc \in {"count", "refetch", "fetch"} PROVE Due(d)'
    <2>1. CASE IxCount
        <3>1. ix' = [ix EXCEPT !.pc = "refetch"] \/ ix' = [ix EXCEPT !.pc = "fetch"]
            BY <2>1 DEF IxCount, IxGoes
        <3>2. ix'.doc = d /\ ix'.pc \in {"refetch", "fetch"}
            BY <1>5, <3>1 DEF TypeOK
        <3> QED BY <3>2 DEF Due
    <2>2. CASE ~IxCount
        <3>1. UNCHANGED ix
            BY <1>5, <2>2
            DEF Next, File, HandOver, IndexStep, IxTake, IxSetPayload,
                IxContent, IxEmbed, IxDelete, IxWipe, IxUpsert, IxClear, IxErrGet, IxErrPut,
                Reconcile, ReconFails, ReconList, ReconDone, ReconCount, ReconKeeps, UserStep,
                Star, Unstar, Reprocess, Trash, restore, deleteForever, Request, Ping,
                purgeChunks, vars
        <3> QED BY <1>5, <3>1 DEF Due
    <2> QED BY <2>1, <2>2
<1> QED BY <1>1, <1>2, <1>3, <1>4, <1>5 DEF Due

\* While no call has failed the consumer writes no tags at all.
LEMMA QuietIndexing ==
    ASSUME TypeOK, NoErrorYet, IndexStep, budget'.faults = 0
    PROVE  UNCHANGED tags
<1>1. ~Fault /\ budget.faults = 0
    BY NextGrows DEF Next
<1> QED
    BY <1>1
    DEF NoErrorYet, IndexStep, IxTake, IxCount, IxRefetch, IxSetPayload, IxFetch, IxContent,
        IxEmbed, IxDelete, IxWipe, IxUpsert, IxClear, IxErrGet, IxErrPut, paperless

\* A document whose job is not still to be read, at a step of the consumer.
LEMMA IndexCurrent ==
    ASSUME TypeOK, NoErrorYet, BlankHasNoChunks, IndexStep, budget'.faults = 0,
           NEW d \in Docs, place[d] = "live", ~Due(d), JobCurrent(d), ChunksCurrent(d)
    PROVE  Due(d)' \/ (JobCurrent(d) /\ ChunksCurrent(d))'
<1>1. ~Fault /\ budget.faults = 0
    BY NextGrows DEF Next
<1>2. UNCHANGED tags
    BY QuietIndexing
<1>3. CASE IxTake
    <2>1. Head(queue).doc # d
        BY <1>3, TailKeeps DEF IxTake, TypeOK, Due
    <2>2. ix.pc = "idle" /\ UNCHANGED <<indexed, payload>>
        BY <1>3 DEF IxTake, qdrant
    <2> QED BY <1>2, <1>3, <2>1, <2>2, TakeFields DEF JobCurrent, ChunksCurrent, InHand
<1>4. CASE ~IxTake /\ ix.doc # d
    <2>1. ix.doc \in Docs
        BY <1>4 DEF TypeOK, IndexStep, IxCount, IxRefetch, IxSetPayload, IxFetch, IxContent,
                    IxEmbed, IxDelete, IxWipe, IxUpsert, IxClear, IxErrGet, IxErrPut
    <2>2. ix'.doc # d
        <3>1. ix'.doc = ix.doc \/ ix' = IdleIx
            BY <1>4
            DEF TypeOK, IndexStep, IxCount, IxRefetch, IxSetPayload, IxFetch, IxContent, IxEmbed,
                IxDelete, IxWipe, IxUpsert, IxClear, IxErrGet, IxErrPut, IxGoes, IxFails, IxIdles,
                resolvePayloadMetadata
        <3> QED BY <1>4, <3>1, NoDocIsNoDoc DEF IdleIx
    <2>3. d \in indexed' <=> d \in indexed
        BY <1>4
        DEF IndexStep, IxCount, IxRefetch, IxSetPayload, IxFetch, IxContent, IxEmbed, IxDelete,
            IxWipe, IxUpsert, IxClear, IxErrGet, IxErrPut, Delete, Upsert, qdrant
    <2>4. payload'[d] = payload[d]
        BY <1>4, <2>1
        DEF TypeOK, IndexStep, IxCount, IxRefetch, IxSetPayload, IxFetch, IxContent, IxEmbed,
            IxDelete, IxWipe, IxUpsert, IxClear, IxErrGet, IxErrPut, Delete, Upsert, qdrant
    <2> QED BY <1>2, <1>4, <2>2, <2>3, <2>4 DEF JobCurrent, ChunksCurrent, InHand
<1>5. CASE ~IxTake /\ ix.doc = d
    <2> USE <1>1, <1>2, <1>5
    <2>1. ~IxCount /\ ~IxRefetch /\ ~IxFetch
        BY DEF Due, IxCount, IxRefetch, IxFetch
    <2>2. ~IxErrGet /\ ~IxErrPut
        BY DEF NoErrorYet, IxErrGet, IxErrPut
    <2>3. CASE IxSetPayload
        <3>1. /\ ix' = IdleIx /\ UNCHANGED indexed
              /\ d \in indexed => payload'[d] = ix.meta
              /\ WithUser(ix.meta) = WithUser(tags[d])
            BY <2>3 DEF IxSetPayload, IxIdles, JobCurrent, TypeOK
        <3> QED BY <3>1 DEF JobCurrent, ChunksCurrent, InHand, IdleIx
    <2>4. CASE IxContent
        <3>1. CASE d \notin Blank
            <4>1. ix' = [ix EXCEPT !.pc = "embed", !.meta = filterUserTags(ix.seen)]
                BY <2>4, <3>1 DEF IxContent, resolvePayloadMetadata
            <4>2. /\ ix'.pc = "embed" /\ ix'.doc = d
                  /\ ix'.meta = filterUserTags(ix.seen)
                BY <4>1 DEF TypeOK
            <4>3. WithUser(ix'.meta) = WithUser(tags[d])
                BY <2>4, <4>2, TagsAreUserTagsOrNot DEF JobCurrent, IxContent
            <4> QED BY <4>2, <4>3 DEF JobCurrent, ChunksCurrent, InHand
        <3>2. CASE d \in Blank
            <4>1. ix' = [ix EXCEPT !.pc = "wipe"] /\ d \notin indexed'
                BY <2>4, <3>2 DEF IxContent, IxGoes, BlankHasNoChunks, qdrant
            <4>2. ix'.pc = "wipe"
                BY <4>1 DEF TypeOK
            <4> QED BY <4>1, <4>2 DEF JobCurrent, ChunksCurrent
        <3> QED BY <3>1, <3>2
    <2>5. CASE IxEmbed
        <3>1. ix' = [ix EXCEPT !.pc = "delete"] /\ WithUser(ix.meta) = WithUser(tags[d])
            BY <2>5 DEF IxEmbed, IxGoes, JobCurrent
        <3>2. ix'.pc = "delete" /\ ix'.doc = d /\ ix'.meta = ix.meta
            BY <3>1 DEF TypeOK
        <3> QED BY <3>1, <3>2 DEF JobCurrent, ChunksCurrent, InHand
    <2>6. CASE IxDelete
        <3>1. /\ ix' = [ix EXCEPT !.pc = "upsert"] /\ WithUser(ix.meta) = WithUser(tags[d])
            BY <2>6 DEF IxDelete, IxGoes, JobCurrent
        <3>2. ix'.pc = "upsert" /\ ix'.doc = d /\ ix'.meta = ix.meta
            BY <3>1 DEF TypeOK
        <3> QED BY <3>1, <3>2 DEF JobCurrent, ChunksCurrent, InHand
    <2>7. CASE IxWipe
        <3>1. ix' = [ix EXCEPT !.pc = "clear"] /\ d \notin indexed'
            BY <2>7 DEF IxWipe, IxGoes, Delete
        <3>2. ix'.pc = "clear"
            BY <3>1 DEF TypeOK
        <3> QED BY <3>1, <3>2 DEF JobCurrent, ChunksCurrent
    <2>8. CASE IxUpsert
        <3>1. /\ ix' = [ix EXCEPT !.pc = "clear"]
              /\ payload'[d] = ix.meta
              /\ WithUser(ix.meta) = WithUser(tags[d])
            BY <2>8 DEF IxUpsert, IxGoes, Upsert, JobCurrent, TypeOK
        <3>2. ix'.pc = "clear"
            BY <3>1 DEF TypeOK
        <3> QED BY <3>1, <3>2 DEF JobCurrent, ChunksCurrent
    <2>9. CASE IxClear
        <3>1. ix' = IdleIx /\ ix.pc = "clear" /\ UNCHANGED <<indexed, payload>>
            BY <2>9 DEF IxClear, IxIdles, NoErrorYet, qdrant
        <3> QED BY <3>1 DEF JobCurrent, ChunksCurrent, InHand, IdleIx
    <2> QED BY <2>1, <2>2, <2>3, <2>4, <2>5, <2>6, <2>7, <2>8, <2>9 DEF IndexStep
<1> QED BY <1>3, <1>4, <1>5

LEMMA CurrentNext ==
    ASSUME TypeOK, NoErrorYet, OnlyTrashLeaves, BlankHasNoChunks, WorkCurrent, [Next]_vars
    PROVE  WorkCurrent'
<1> SUFFICES ASSUME Quiet', NEW d \in Docs \ trashed'
             PROVE  Due(d)' \/ (JobCurrent(d) /\ ChunksCurrent(d))'
    BY DEF WorkCurrent
<1>1. /\ ~Fault /\ ~Crash
      /\ Quiet
      /\ budget'.faults = 0
    BY NextGrows DEF Quiet
<1>2. d \in Docs \ trashed /\ place[d] = "live"
    BY OnlyTrashLeavesNext DEF OnlyTrashLeaves
<1>3. CASE ix.doc = d /\ (IxRefetch \/ IxFetch)
    <2>1. IndexStep /\ tags' = tags
        BY <1>1, <1>3, QuietIndexing DEF IndexStep
    <2>2. CASE IxRefetch
        <3>1. ix' = [ix EXCEPT !.pc = "setPayload", !.meta = filterUserTags(tags[d])]
            BY <1>1, <1>2, <1>3, <2>2 DEF IxRefetch, resolvePayloadMetadata
        <3>2. /\ ix'.pc = "setPayload" /\ ix'.doc = d
              /\ ix'.meta = filterUserTags(tags[d])
            BY <1>3, <3>1 DEF TypeOK
        <3>3. WithUser(ix'.meta) = WithUser(tags[d])
            BY <3>2, TagsAreUserTagsOrNot
        <3> QED BY <2>1, <3>2, <3>3 DEF JobCurrent, ChunksCurrent, InHand
    <2>3. CASE IxFetch
        <3>1. ix' = [ix EXCEPT !.pc = "content", !.seen = tags[d]]
            BY <1>1, <1>2, <1>3, <2>3 DEF IxFetch
        <3>2. ix'.pc = "content" /\ ix'.doc = d /\ ix'.seen = tags[d]
            BY <1>3, <3>1 DEF TypeOK
        <3> QED BY <2>1, <3>2 DEF JobCurrent, ChunksCurrent, InHand
    <2> QED BY <1>3, <2>2, <2>3
<1>4. CASE Due(d) /\ ~(ix.doc = d /\ (IxRefetch \/ IxFetch))
    BY <1>1, <1>4, DueUntilRead
<1>5. CASE ~Due(d)
    <2>1. JobCurrent(d) /\ ChunksCurrent(d)
        BY <1>1, <1>2, <1>5 DEF WorkCurrent
    <2>2. ASSUME UNCHANGED <<ix, indexed, payload>>, WithUser(tags'[d]) = WithUser(tags[d])
          PROVE  (JobCurrent(d) /\ ChunksCurrent(d))'
        BY <2>1, <2>2 DEF JobCurrent, ChunksCurrent, InHand
    <2>3. CASE IndexStep
        BY <1>1, <1>2, <1>5, <2>1, <2>3, IndexCurrent
    <2>4. CASE HandOver \/ Reconcile \/ UNCHANGED vars
        BY <2>2, <2>4 DEF HandOver, Reconcile, ReconFails, ReconList, ReconDone, ReconCount,
                          ReconKeeps, paperless, qdrant, vars
    <2>5. ASSUME NEW e \in Docs, File(e) PROVE Due(d)' \/ (JobCurrent(d) /\ ChunksCurrent(d))'
        <3>1. UNCHANGED <<ix, indexed, payload>>
            BY <2>5 DEF File, qdrant
        <3>2. WithUser(tags'[d]) = WithUser(tags[d])
            BY <2>5, TagsAreUserTagsOrNot DEF File, PatchTags, TypeOK
        <3> QED BY <2>2, <3>1, <3>2
    <2>6. ASSUME NEW e \in Docs, Star(e) \/ Unstar(e)
          PROVE  Due(d)' \/ (JobCurrent(d) /\ ChunksCurrent(d))'
        <3>1. UNCHANGED <<ix, indexed, payload>> /\ pings' = pings \cup {e}
            BY <2>6 DEF Star, Unstar, Request, qdrant
        <3>2. CASE d = e
            BY <3>1, <3>2 DEF Due
        <3>3. CASE d # e
            <4>1. tags'[d] = tags[d]
                BY <2>6, <3>3 DEF Star, Unstar, PatchTags, TypeOK
            <4> QED BY <2>2, <3>1, <4>1
        <3> QED BY <3>2, <3>3
    <2>7. ASSUME NEW e \in Docs, Reprocess(e) PROVE (JobCurrent(d) /\ ChunksCurrent(d))'
        <3>1. UNCHANGED <<ix, indexed, payload>>
            BY <2>7 DEF Reprocess, Request, qdrant
        <3>2. WithUser(tags'[d]) = WithUser(tags[d])
            BY <2>7, TagsAreUserTagsOrNot DEF Reprocess, PatchTags, TypeOK
        <3> QED BY <2>2, <3>1, <3>2
    <2>8. ASSUME NEW e \in Docs, Trash(e) \/ restore(e) \/ deleteForever(e) \/ Ping(e)
          PROVE  (JobCurrent(d) /\ ChunksCurrent(d))'
        BY <2>2, <2>8 DEF Trash, restore, deleteForever, Ping, Request, paperless, qdrant
    <2>9. ASSUME NEW e \in Docs, purgeChunks(e) PROVE (JobCurrent(d) /\ ChunksCurrent(d))'
        <3>1. /\ UNCHANGED <<ix, tags>>
              /\ d \in indexed' => d \in indexed /\ payload'[d] = payload[d]
            BY <2>9 DEF purgeChunks, Delete, TypeOK, paperless, qdrant
        <3> QED BY <2>1, <3>1 DEF JobCurrent, ChunksCurrent, InHand
    <2> QED BY <1>1, <2>3, <2>4, <2>5, <2>6, <2>7, <2>8, <2>9 DEF Next, UserStep
<1> QED BY <1>3, <1>4, <1>5

LEMMA InitInv == Init => Inv
<1> SUFFICES ASSUME Init PROVE Inv
    OBVIOUS
<1>1. NoErrorYet /\ OnlyTrashLeaves /\ BlankHasNoChunks
    BY DEF Init, IdleIx, NoErrorYet, OnlyTrashLeaves, BlankHasNoChunks
<1>2. WorkCurrent
    BY DEF Init, IdleIx, WorkCurrent, JobCurrent, ChunksCurrent
<1> QED BY <1>1, <1>2, InitTypeOK DEF Inv

LEMMA NextInv == Inv /\ [Next]_vars => Inv'
BY NextTypeOK, NoErrorNext, OnlyTrashLeavesNext, BlankNext, CurrentNext DEF Inv

(***************************************************************************)
(* While no call has failed and the worker has stayed up, the star a       *)
(* search filters by is the document's, or some job is still to read the   *)
(* document, or the consumer is about to write what Paperless has: no      *)
(* interleaving of stars, jobs, the propagation loop and the startup       *)
(* reconcile leaves it stale for good.                                     *)
(***************************************************************************)
THEOREM PayloadStaysCurrent == Spec => []PayloadCurrent
<1>1. Init => Inv
    BY InitInv
<1>2. Inv /\ [Next]_vars => Inv'
    BY NextInv
<1>3. Inv => PayloadCurrent
    <2> SUFFICES ASSUME Inv, Quiet, NEW d \in indexed \ trashed
                 PROVE  \/ WithUser(payload[d]) = WithUser(tags[d])
                        \/ Due(d)
                        \/ /\ ix.doc = d
                           /\ ix.pc = "content"
                           /\ WithUser(ix.seen) = WithUser(tags[d])
                        \/ /\ ix.doc = d
                           /\ ix.pc \in {"setPayload", "embed", "delete", "upsert"}
                           /\ WithUser(ix.meta) = WithUser(tags[d])
        BY DEF PayloadCurrent, Quiet
    <2>1. d \in Docs \ trashed
        BY DEF Inv, TypeOK
    <2> QED BY <2>1 DEF Inv, WorkCurrent, JobCurrent, ChunksCurrent, InHand
<1> QED BY <1>1, <1>2, <1>3, PTL DEF Spec

\* As long as no call has failed, no step of the indexer takes a user's tag away.
THEOREM IndexingKeepsStars == Spec => StarSurvivesIndexing
<1>1. Init => Inv
    BY InitInv
<1>2. Inv /\ [Next]_vars => Inv'
    BY NextInv
<1>3. Inv /\ [Next]_vars =>
        [budget'.faults = 0 /\ IndexStep =>
            \A d \in Docs : WithUser(tags[d]) \subseteq WithUser(tags'[d])]_vars
    <2> SUFFICES ASSUME Inv, budget'.faults = 0, IndexStep
                 PROVE  \A d \in Docs : WithUser(tags[d]) \subseteq WithUser(tags'[d])
        OBVIOUS
    <2>1. tags' = tags
        BY QuietIndexing DEF Inv
    <2> QED BY <2>1
<1> QED BY <1>1, <1>2, <1>3, PTL DEF Spec, StarSurvivesIndexing

=============================================================================
