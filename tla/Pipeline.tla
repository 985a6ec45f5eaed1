------------------------------ MODULE Pipeline ------------------------------
(***************************************************************************)
(* The document pipeline: Paperless holds the tags, the auto-tagger worker *)
(* classifies and files documents, the API changes tags on behalf of the   *)
(* user.  Paperless offers no transaction: whoever changes tags reads the  *)
(* document (GET), computes a complete new tag list and writes it back     *)
(* (PATCH).  Every GET and every PATCH is an action of its own here, so    *)
(* all the interleavings of the two worker loops and the API requests are  *)
(* behaviours of the specification.                                        *)
(*                                                                         *)
(* Custom fields, the Qdrant index and the second LLM pass do not touch    *)
(* tags and are left to other modules; the hand-over to the indexer is the *)
(* set indexJobs.                                                          *)
(***************************************************************************)
EXTENDS Naturals, Sequences, FiniteSets, Tags

CONSTANTS
    Docs,          \* documents, identified by their Paperless ids
    Filed,         \* documents filed before the behaviour starts
    Clients,       \* API requests that can be in flight at the same time
    Untrusted,     \* documents that arrive by mail, tagged email-ingested
    Empty,         \* documents whose OCR text is blank
    Suggested,     \* Suggested[d]: ai_suggested_tags of d, split at commas
    Cluster,       \* Cluster[d]: the documents findDuplicates matches with d
    KnownTags,     \* names in the tag cache of the API
    Ops,           \* the requests users send
    BatchSize,     \* BATCH_SIZE of the pollers
    MaxTransient,  \* maxAttempts of the TransientFailureTracker
    MaxAttempts,   \* attempts of swapLifecycleTag
    MaxCopies,     \* bound: queue entries per document (the code has none)
    MaxOps,        \* bound: user requests in a behaviour
    MaxFaults,     \* bound: failing or unanswered HTTP calls in a behaviour
    MaxCrashes     \* bound: worker restarts in a behaviour

NoDoc == 0

ASSUME DocsAssumption == Docs \subseteq Nat \ {NoDoc}
ASSUME SourceAssumption == {Filed, Untrusted, Empty} \subseteq SUBSET Docs
ASSUME SuggestedAssumption == Suggested \in [Docs -> SUBSET Tag]
ASSUME ClusterAssumption == Cluster \in [Docs -> SUBSET Docs]
ASSUME KnownTagsAssumption == KnownTags \subseteq Tag
ASSUME BoundsAssumption ==
    /\ MaxTransient \in Nat \ {0}
    /\ MaxAttempts \in Nat \ {0}
    /\ {BatchSize, MaxCopies, MaxOps, MaxFaults, MaxCrashes} \subseteq Nat

-----------------------------------------------------------------------------
\* What each endpoint asks of swapLifecycleTag, and the trigger it pings.
AllOps == {"approve", "reject", "reprocess", "star", "unstar", "dismiss"}

ASSUME OpsAssumption == Ops \subseteq AllOps

SwapRemove ==
    [approve   |-> {"ai-pending", "ai-low-confidence"},
     reject    |-> {"ai-pending", "ai-low-confidence"},
     reprocess |-> REPROCESS_REMOVE,
     star      |-> {},
     unstar    |-> {"wichtig"},
     dismiss   |-> {"ai-duplicate"}]

SwapAdd ==
    [approve   |-> {"ai-approved"},
     reject    |-> {"ai-rejected"},
     reprocess |-> {},
     star      |-> {"wichtig"},
     unstar    |-> {},
     dismiss   |-> {"ai-duplicate-dismissed"}]

Trigger ==
    [approve   |-> "propagate",
     reject    |-> "none",
     reprocess |-> "extract",
     star      |-> "reindex-metadata",
     unstar    |-> "reindex-metadata",
     dismiss   |-> "none"]

\* The tag that makes the SPA offer the button for an operation, if it needs one.
OfferedBy ==
    [approve   |-> {"ai-pending"},
     reject    |-> {"ai-pending"},
     reprocess |-> {},
     star      |-> {},
     unstar    |-> {"wichtig"},
     dismiss   |-> {"ai-duplicate"}]

Offering == {"ai-pending", "ai-duplicate", "wichtig"}

VARIABLES
    consumed,          \* documents Paperless has consumed
    tags,              \* Paperless: the tags of each document
    extractionQueue,   \* worker: AsyncQueue<number> of the extraction loop
    propagationQueue,  \* worker: AsyncQueue<number> of the propagation loop
    indexJobs,         \* worker: documents handed to the indexing queue
    ext,               \* worker: the extraction consumer
    prop,              \* worker: the propagation consumer
    transient,         \* worker: TransientFailureTracker.counts
    req,               \* API: the request each client has in flight
    approvedBy,        \* history: who approved a document
    shown,             \* history: offering tags a page may still display
    late,              \* history: tags that landed on ext.doc during the LLM call
    budget             \* bounds: requests, faults and crashes used so far

worker == <<extractionQueue, propagationQueue, indexJobs, ext, prop, transient>>
paperless == <<consumed, tags, shown, late>>
vars == <<consumed, tags, extractionQueue, propagationQueue, indexJobs, ext, prop,
          transient, req, approvedBy, shown, late, budget>>

IdleExt == [pc |-> "idle", doc |-> NoDoc, seen |-> {}, add |-> {}]
IdleProp == [pc |-> "idle", doc |-> NoDoc, seen |-> {}, dups |-> {}, match |-> NoDoc,
             matchSeen |-> {}]
IdleReq == [pc |-> "idle", doc |-> NoDoc, op |-> "star", plan |-> {}, attempt |-> 0]

SourceTags(d) == IF d \in Untrusted THEN UNTRUSTED_SOURCE_TAGS ELSE {}

Init ==
    /\ consumed = Filed
    /\ tags = [d \in Docs |-> IF d \in Filed THEN {"ai-propagated"} \cup SourceTags(d)
                              ELSE {}]
    /\ extractionQueue = <<>>
    /\ propagationQueue = <<>>
    /\ indexJobs = {}
    /\ ext = IdleExt
    /\ prop = IdleProp
    /\ transient = [d \in Docs |-> 0]
    /\ req = [c \in Clients |-> IdleReq]
    /\ approvedBy = [d \in Docs |-> IF d \in Filed THEN {"user"} ELSE {}]
    /\ shown = [d \in Docs |-> {}]
    /\ late = {}
    /\ budget = [ops |-> 0, faults |-> 0, crashes |-> 0]

(***************************************************************************)
(* The slots of the two consumers, the request of a client, the bounds.  A *)
(* busy slot holds a document, and so does a match about to be tagged.     *)
(***************************************************************************)
ExtSlot == [pc : {"idle", "fetch", "llm", "put", "errGet", "errPut"},
            doc : Docs \cup {NoDoc}, seen : SUBSET Tag, add : SUBSET Tag]

PropSlot == [pc : {"idle", "fetch", "search", "put", "dups", "dupPut", "recover"},
             doc : Docs \cup {NoDoc}, seen : SUBSET Tag, dups : SUBSET Docs,
             match : Docs \cup {NoDoc}, matchSeen : SUBSET Tag]

Request == [pc : {"idle", "get", "put", "verify", "ping"},
            doc : Docs \cup {NoDoc}, op : AllOps, plan : SUBSET Tag,
            attempt : 0 .. MaxAttempts - 1]

Budget == [ops : 0 .. MaxOps, faults : 0 .. MaxFaults, crashes : 0 .. MaxCrashes]

PaperlessTyped ==
    /\ consumed \subseteq Docs
    /\ tags \in [Docs -> SUBSET Tag]
    /\ shown \in [Docs -> SUBSET Offering]
    /\ late \subseteq Tag

QueuesTyped ==
    /\ extractionQueue \in Seq(Docs)
    /\ propagationQueue \in Seq(Docs)
    /\ indexJobs \subseteq Docs

ExtTyped ==
    /\ ext \in ExtSlot
    /\ ext.pc # "idle" => ext.doc \in Docs
    /\ transient \in [Docs -> 0 .. MaxTransient - 1]

PropTyped ==
    /\ prop \in PropSlot
    /\ prop.pc # "idle" => prop.doc \in Docs
    /\ prop.pc = "dupPut" => prop.match \in Docs

ReqTyped ==
    /\ req \in [Clients -> Request]
    /\ \A c \in Clients : req[c].pc # "idle" => req[c].doc \in Docs

TypeOK ==
    /\ PaperlessTyped
    /\ QueuesTyped
    /\ ExtTyped
    /\ PropTyped
    /\ ReqTyped
    /\ approvedBy \in [Docs -> SUBSET {"user", "rules"}]
    /\ budget \in Budget

-----------------------------------------------------------------------------
\* History: the tags that landed on the document being extracted, still there.
LateAfter(d, new) ==
    IF ext.pc \notin {"llm", "put"} THEN {}
    ELSE IF ext.doc # d THEN late
    ELSE IF ext.pc = "llm" THEN (late \cup (new \ tags[d])) \cap new
    ELSE late \cap new

(***************************************************************************)
(* Paperless applies a PATCH of the tags array: the list replaces whatever *)
(* the document carries.                                                   *)
(***************************************************************************)
PatchTags(d, new) ==
    /\ tags' = [tags EXCEPT ![d] = new]
    /\ shown' = [shown EXCEPT ![d] = @ \cup (new \cap Offering)]
    /\ late' = LateAfter(d, new)
    /\ UNCHANGED consumed

\* One HTTP call fails or stays unanswered.
Fault ==
    /\ budget.faults < MaxFaults
    /\ budget' = [budget EXCEPT !.faults = @ + 1]

NoFault == UNCHANGED budget

Room(queue, d) == Cardinality({i \in DOMAIN queue : queue[i] = d}) < MaxCopies

\* POST /trigger/<t> reaches the worker.
Enqueue(t, d) ==
    \/ /\ t = "extract"
       /\ Room(extractionQueue, d)
       /\ extractionQueue' = Append(extractionQueue, d)
       /\ UNCHANGED <<propagationQueue, indexJobs>>
    \/ /\ t = "propagate"
       /\ Room(propagationQueue, d)
       /\ propagationQueue' = Append(propagationQueue, d)
       /\ UNCHANGED <<extractionQueue, indexJobs>>
    \/ /\ t = "reindex-metadata"
       /\ indexJobs' = indexJobs \cup {d}
       /\ UNCHANGED <<extractionQueue, propagationQueue>>

NotTriggered == UNCHANGED <<extractionQueue, propagationQueue, indexJobs>>

-----------------------------------------------------------------------------
(***************************************************************************)
(* Paperless consumes a document (the mail rule tags it on the way) and    *)
(* runs the post-consume hook, whose webhook call is best effort.          *)
(***************************************************************************)
Consume(d) ==
    /\ d \notin consumed
    /\ consumed' = consumed \cup {d}
    /\ tags' = [tags EXCEPT ![d] = SourceTags(d)]
    /\ Enqueue("extract", d) \/ NotTriggered
    /\ UNCHANGED <<ext, prop, transient, req, approvedBy, shown, late, budget>>

\* The poller enqueues the first BATCH_SIZE documents without a lifecycle tag.
Unprocessed == {d \in consumed : tags[d] \cap LIFECYCLE_TAGS = {}}

PollUnprocessed(d) ==
    /\ d \in Unprocessed
    /\ Cardinality({e \in Unprocessed : e < d}) < BatchSize
    /\ Enqueue("extract", d)
    /\ UNCHANGED <<paperless, ext, prop, transient, req, approvedBy, budget>>

\* The propagation poller enqueues documents tagged ai-approved, the ones least
\* recently modified first: any of them may be in the batch.
PollApproved(d) ==
    /\ d \in consumed
    /\ "ai-approved" \in tags[d]
    /\ BatchSize > 0
    /\ Enqueue("propagate", d)
    /\ UNCHANGED <<paperless, ext, prop, transient, req, approvedBy, budget>>

-----------------------------------------------------------------------------
(* The extraction consumer: one document at a time. *)

ExtGoes(pc) == ext' = [IdleExt EXCEPT !.pc = pc, !.doc = ext.doc]
ExtIdles == ext' = IdleExt

ExtTake ==
    /\ ext.pc = "idle"
    /\ extractionQueue # <<>>
    /\ ext' = [IdleExt EXCEPT !.pc = "fetch", !.doc = Head(extractionQueue)]
    /\ extractionQueue' = Tail(extractionQueue)
    /\ UNCHANGED <<paperless, propagationQueue, indexJobs, prop, transient, req,
                   approvedBy, budget>>

\* getDocument, the skip of documents already processed, and getDocumentContent.
ExtFetch ==
    /\ ext.pc = "fetch"
    /\ late' = {}
    /\ \/ Fault /\ ExtIdles
       \/ NoFault /\ lifecycleTagsOn(tags[ext.doc]) # {} /\ ExtIdles
       \/ /\ NoFault
          /\ lifecycleTagsOn(tags[ext.doc]) = {}
          /\ IF ext.doc \in Empty THEN ExtGoes("errGet")
             ELSE ext' = [ext EXCEPT !.pc = "llm", !.seen = tags[ext.doc]]
    /\ UNCHANGED <<consumed, tags, shown, extractionQueue, propagationQueue, indexJobs,
                   prop, transient, req, approvedBy>>

ClearTransient == transient' = [transient EXCEPT ![ext.doc] = 0]

\* Mutant: the lifecycle tags are merged onto the document fetched at dequeue.
ExtRouteStale(x) ==
    LET add == routeLifecycleTags(x, isUntrustedSource(ext.seen)) IN
    /\ ext.pc = "llm"
    /\ ext' = [ext EXCEPT !.pc = "put", !.add = add]
    /\ ClearTransient
    /\ approvedBy' = IF "ai-approved" \in add
                     THEN [approvedBy EXCEPT ![ext.doc] = @ \cup {"rules"}]
                     ELSE approvedBy
    /\ NoFault
    /\ UNCHANGED <<paperless, extractionQueue, propagationQueue, indexJobs, prop, req>>

(***************************************************************************)
(* The LLM answered, the AI fields were written, the extraction was routed *)
(* on the source tags seen at dequeue, and applyTags re-read the document. *)
(***************************************************************************)
ExtRoute(x) ==
    LET add == routeLifecycleTags(x, isUntrustedSource(ext.seen)) IN
    /\ ext.pc = "llm"
    /\ ext' = [ext EXCEPT !.pc = "put", !.seen = tags[ext.doc], !.add = add]
    /\ ClearTransient
    /\ approvedBy' = IF "ai-approved" \in add
                     THEN [approvedBy EXCEPT ![ext.doc] = @ \cup {"rules"}]
                     ELSE approvedBy
    /\ NoFault
    /\ UNCHANGED <<paperless, extractionQueue, propagationQueue, indexJobs, prop, req>>

\* The LLM answered, but one of the Paperless calls before the tag PATCH failed.
ExtWriteFails ==
    /\ ext.pc = "llm"
    /\ Fault
    /\ ClearTransient
    /\ ExtGoes("errGet")
    /\ UNCHANGED <<paperless, extractionQueue, propagationQueue, indexJobs, prop, req,
                   approvedBy>>

\* Mutant: one attempt too many is deferred.
ExtDeferLate ==
    /\ ext.pc = "llm"
    /\ transient[ext.doc] < MaxTransient
    /\ transient' = [transient EXCEPT ![ext.doc] = @ + 1]
    /\ ExtIdles
    /\ UNCHANGED <<paperless, extractionQueue, propagationQueue, indexJobs, prop, req,
                   approvedBy, budget>>

\* Mutant: failures are deferred but not counted.
ExtDeferForever ==
    /\ ext.pc = "llm"
    /\ ExtIdles
    /\ UNCHANGED <<paperless, extractionQueue, propagationQueue, indexJobs, prop, req,
                   approvedBy, transient, budget>>

\* A refused, timed-out or overloaded LLM leaves the document to the poller.
ExtDefer ==
    /\ ext.pc = "llm"
    /\ transient[ext.doc] + 1 < MaxTransient
    /\ transient' = [transient EXCEPT ![ext.doc] = @ + 1]
    /\ ExtIdles
    /\ UNCHANGED <<paperless, extractionQueue, propagationQueue, indexJobs, prop, req,
                   approvedBy, budget>>

\* Any other LLM failure, or the MaxTransient-th transient one.
ExtGiveUp ==
    /\ ext.pc = "llm"
    /\ ClearTransient
    /\ ExtGoes("errGet")
    /\ UNCHANGED <<paperless, extractionQueue, propagationQueue, indexJobs, prop, req,
                   approvedBy, budget>>

\* applyTags writes the merged list; a PATCH that timed out may have been applied.
ExtPut ==
    /\ ext.pc = "put"
    /\ \/ NoFault /\ ExtIdles /\ PatchTags(ext.doc, ext.seen \cup ext.add)
       \/ /\ Fault
          /\ ExtGoes("errGet")
          /\ PatchTags(ext.doc, ext.seen \cup ext.add) \/ UNCHANGED paperless
    /\ UNCHANGED <<extractionQueue, propagationQueue, indexJobs, prop, transient, req,
                   approvedBy>>

\* addTagToDocument(ai-error): read, then write unless the tag is there.
ExtErrGet ==
    /\ ext.pc = "errGet"
    /\ \/ Fault /\ ExtIdles
       \/ NoFault /\ "ai-error" \in tags[ext.doc] /\ ExtIdles
       \/ /\ NoFault
          /\ "ai-error" \notin tags[ext.doc]
          /\ ext' = [ext EXCEPT !.pc = "errPut", !.seen = tags[ext.doc]]
    /\ UNCHANGED <<paperless, extractionQueue, propagationQueue, indexJobs, prop,
                   transient, req, approvedBy>>

ExtErrPut ==
    /\ ext.pc = "errPut"
    /\ ExtIdles
    /\ \/ Fault /\ UNCHANGED paperless
       \/ (Fault \/ NoFault) /\ PatchTags(ext.doc, ext.seen \cup {"ai-error"})
    /\ UNCHANGED <<extractionQueue, propagationQueue, indexJobs, prop, transient, req,
                   approvedBy>>

ExtStep ==
    \/ ExtTake \/ ExtFetch \/ ExtWriteFails \/ ExtDefer \/ ExtGiveUp
    \/ ExtPut \/ ExtErrGet \/ ExtErrPut
    \/ \E x \in Extraction : ExtRoute(x)

-----------------------------------------------------------------------------
(* The propagation consumer: one document at a time. *)

PropIdles == prop' = IdleProp

PropTake ==
    /\ prop.pc = "idle"
    /\ propagationQueue # <<>>
    /\ prop' = [IdleProp EXCEPT !.pc = "fetch", !.doc = Head(propagationQueue)]
    /\ propagationQueue' = Tail(propagationQueue)
    /\ UNCHANGED <<paperless, extractionQueue, indexJobs, ext, transient, req,
                   approvedBy, budget>>

\* The tags read at dequeue are what the whole run of the handler works from.
PropFetch ==
    /\ prop.pc = "fetch"
    /\ \/ Fault /\ PropIdles
       \/ NoFault /\ "ai-approved" \notin tags[prop.doc] /\ PropIdles
       \/ /\ NoFault
          /\ "ai-approved" \in tags[prop.doc]
          /\ prop' = [prop EXCEPT !.pc = "search", !.seen = tags[prop.doc]]
    /\ UNCHANGED <<paperless, extractionQueue, propagationQueue, indexJobs, ext,
                   transient, req, approvedBy>>

(***************************************************************************)
(* Filed documents findDuplicateIds returns for d, read with the tags      *)
(* seen: none once the user has dismissed d, and never a candidate the     *)
(* user has dismissed.                                                     *)
(***************************************************************************)
findDuplicateIds(d, seen) ==
    IF "ai-duplicate-dismissed" \in seen THEN {}
    ELSE {e \in (Cluster[d] \cap consumed) \ {d} :
            /\ "ai-propagated" \in tags[e]
            /\ "ai-duplicate-dismissed" \notin tags[e]}

\* A search that fails finds none; any other call that fails leads to recovery.
PropSearch ==
    /\ prop.pc = "search"
    /\ \/ /\ NoFault
          /\ prop' = [prop EXCEPT !.pc = "put",
                                  !.dups = findDuplicateIds(prop.doc, prop.seen)]
       \/ Fault /\ prop' = [prop EXCEPT !.pc = "put"]
       \/ Fault /\ prop' = [prop EXCEPT !.pc = "recover"]
    /\ UNCHANGED <<paperless, extractionQueue, propagationQueue, indexJobs, ext,
                   transient, req, approvedBy>>

\* Mutant: the list is built from scratch instead of from the document's tags.
newTagSetFresh(d, seen, dups) ==
    {"ai-propagated"} \cup splitSuggestedTags(Suggested[d])
        \cup (IF dups # {} THEN {"ai-duplicate"} ELSE {})

newTagSet(d, seen, dups) ==
    (seen \ {"ai-approved"}) \cup {"ai-propagated"} \cup splitSuggestedTags(Suggested[d])
        \cup (IF dups # {} THEN {"ai-duplicate"} ELSE {})

\* The one PATCH of the native fields and the tags.
PropPut ==
    LET new == newTagSet(prop.doc, prop.seen, prop.dups) IN
    /\ prop.pc = "put"
    /\ \/ NoFault /\ prop' = [prop EXCEPT !.pc = "dups"] /\ PatchTags(prop.doc, new)
       \/ /\ Fault
          /\ prop' = [prop EXCEPT !.pc = "recover", !.dups = {}]
          /\ PatchTags(prop.doc, new) \/ UNCHANGED paperless
    /\ UNCHANGED <<extractionQueue, propagationQueue, indexJobs, ext, transient, req,
                   approvedBy>>

\* addTagToDocument(matched, ai-duplicate) for each match; a failure is logged.
PropDupGet(m) ==
    /\ prop.pc = "dups"
    /\ m \in prop.dups
    /\ \/ /\ Fault
          /\ prop' = [prop EXCEPT !.dups = @ \ {m}]
       \/ /\ NoFault
          /\ "ai-duplicate" \in tags[m]
          /\ prop' = [prop EXCEPT !.dups = @ \ {m}]
       \/ /\ NoFault
          /\ "ai-duplicate" \notin tags[m]
          /\ prop' = [prop EXCEPT !.pc = "dupPut", !.match = m, !.matchSeen = tags[m]]
    /\ UNCHANGED <<paperless, extractionQueue, propagationQueue, indexJobs, ext,
                   transient, req, approvedBy>>

PropDupPut ==
    /\ prop.pc = "dupPut"
    /\ prop' = [prop EXCEPT !.pc = "dups", !.dups = @ \ {prop.match},
                            !.match = NoDoc, !.matchSeen = {}]
    /\ \/ Fault /\ UNCHANGED paperless
       \/ (Fault \/ NoFault) /\ PatchTags(prop.match, prop.matchSeen \cup {"ai-duplicate"})
    /\ UNCHANGED <<extractionQueue, propagationQueue, indexJobs, ext, transient, req,
                   approvedBy>>

\* The filed document goes to the indexer; nothing after the PATCH can throw.
PropFinish ==
    /\ prop.pc = "dups"
    /\ prop.dups = {}
    /\ indexJobs' = indexJobs \cup {prop.doc}
    /\ PropIdles
    /\ UNCHANGED <<paperless, extractionQueue, propagationQueue, ext, transient, req,
                   approvedBy, budget>>

recoverySet(seen) == (seen \ {"ai-approved"}) \cup {"ai-propagation-error"}

PropRecover ==
    /\ prop.pc = "recover"
    /\ PropIdles
    /\ \/ Fault /\ UNCHANGED paperless
       \/ (Fault \/ NoFault) /\ PatchTags(prop.doc, recoverySet(prop.seen))
    /\ UNCHANGED <<extractionQueue, propagationQueue, indexJobs, ext, transient, req,
                   approvedBy>>

PropStep ==
    \/ PropTake \/ PropFetch \/ PropSearch \/ PropPut \/ PropDupPut \/ PropFinish \/ PropRecover
    \/ \E m \in Docs : PropDupGet(m)

-----------------------------------------------------------------------------
(***************************************************************************)
(* The API: InboxService and DocumentsService call swapLifecycleTag, which *)
(* reads, plans, writes, reads back, and starts over when the read-back    *)
(* differs from the plan.  No endpoint looks at the current lifecycle tag; *)
(* what keeps users from approving just anything is the page, which offers *)
(* a button for a tag it has seen, however long ago.                       *)
(***************************************************************************)
ReqIs(c, r) == req' = [req EXCEPT ![c] = r]

ReqStart(c, op, d) ==
    /\ req[c].pc = "idle"
    /\ budget.ops < MaxOps
    /\ budget' = [budget EXCEPT !.ops = @ + 1]
    /\ d \in consumed
    /\ OfferedBy[op] \subseteq shown[d]
    /\ ReqIs(c, [IdleReq EXCEPT !.pc = "get", !.doc = d, !.op = op])
    /\ approvedBy' = IF op = "approve" THEN [approvedBy EXCEPT ![d] = @ \cup {"user"}]
                     ELSE approvedBy
    /\ UNCHANGED <<worker, paperless>>

\* The plan; a plan that changes nothing is acknowledged at once.
ReqGet(c) ==
    LET d == req[c].doc
        plan == planTagSwap(tags[d], KnownTags, SwapRemove[req[c].op], SwapAdd[req[c].op])
    IN  /\ req[c].pc = "get"
        /\ ReqIs(c, [req[c] EXCEPT !.pc = IF plan = tags[d] THEN "ping" ELSE "put",
                                   !.plan = IF plan = tags[d] THEN {} ELSE plan])
        /\ UNCHANGED <<worker, paperless, approvedBy, budget>>

ReqPut(c) ==
    /\ req[c].pc = "put"
    /\ ReqIs(c, [req[c] EXCEPT !.pc = "verify"])
    /\ PatchTags(req[c].doc, req[c].plan)
    /\ UNCHANGED <<worker, approvedBy, budget>>

\* Mutant: the read-back is not compared with the plan.
ReqVerifyBlind(c) ==
    /\ req[c].pc = "verify"
    /\ ReqIs(c, [req[c] EXCEPT !.pc = "ping", !.plan = {}])
    /\ UNCHANGED <<worker, paperless, approvedBy, budget>>

\* The read-back: done, start over, or PaperlessConflictError on the last attempt.
ReqVerify(c) ==
    /\ req[c].pc = "verify"
    /\ \/ /\ tags[req[c].doc] = req[c].plan
          /\ ReqIs(c, [req[c] EXCEPT !.pc = "ping", !.plan = {}])
       \/ /\ tags[req[c].doc] # req[c].plan
          /\ req[c].attempt + 1 < MaxAttempts
          /\ ReqIs(c, [req[c] EXCEPT !.pc = "get", !.plan = {}, !.attempt = @ + 1])
       \/ /\ tags[req[c].doc] # req[c].plan
          /\ req[c].attempt + 1 = MaxAttempts
          /\ ReqIs(c, IdleReq)
    /\ UNCHANGED <<worker, paperless, approvedBy, budget>>

\* AutoTaggerClient.ping, best effort, and the answer to the user.
ReqPing(c) ==
    /\ req[c].pc = "ping"
    /\ ReqIs(c, IdleReq)
    /\ Enqueue(Trigger[req[c].op], req[c].doc) \/ NotTriggered
    /\ UNCHANGED <<paperless, ext, prop, transient, approvedBy, budget>>

\* A call fails, its answer is lost, or the API restarts: the user sees an error.
ReqFail(c) ==
    /\ req[c].pc \in {"get", "put", "verify"}
    /\ Fault
    /\ ReqIs(c, IdleReq)
    /\ UNCHANGED <<worker, paperless, approvedBy>>

ReqStep(c) == ReqGet(c) \/ ReqPut(c) \/ ReqVerify(c) \/ ReqPing(c) \/ ReqFail(c)

-----------------------------------------------------------------------------
\* The worker restarts: queues, slots and the failure counts are in memory only.
Crash ==
    /\ budget.crashes < MaxCrashes
    /\ budget' = [budget EXCEPT !.crashes = @ + 1]
    /\ extractionQueue' = <<>>
    /\ propagationQueue' = <<>>
    /\ indexJobs' = {}
    /\ ext' = IdleExt
    /\ prop' = IdleProp
    /\ transient' = [d \in Docs |-> 0]
    /\ UNCHANGED <<paperless, req, approvedBy>>

Next ==
    \/ \E d \in Docs : Consume(d) \/ PollUnprocessed(d) \/ PollApproved(d)
    \/ ExtStep
    \/ PropStep
    \/ \E c \in Clients : ReqStep(c)
    \/ \E c \in Clients, op \in Ops, d \in Docs : ReqStart(c, op, d)
    \/ Crash

Spec == Init /\ [][Next]_vars

(***************************************************************************)
(* The worker's loops and pollers run for as long as the process does, and *)
(* every HTTP call ends, by its answer or by its timeout.  Nobody has to   *)
(* upload or to click, and nothing has to fail or crash.                   *)
(***************************************************************************)
Fairness ==
    /\ WF_vars(ExtStep)
    /\ WF_vars(PropStep)
    /\ \A d \in Docs : WF_vars(PollUnprocessed(d)) /\ WF_vars(PollApproved(d))
    /\ \A c \in Clients : WF_vars(ReqStep(c))

FairSpec == Spec /\ Fairness

-----------------------------------------------------------------------------
(* Properties. *)

\* Whether the approvals "by" of a document entitle the worker to file it.
Approved(d, by) == IF d \in Untrusted THEN "user" \in by ELSE by # {}

(***************************************************************************)
(* Nothing is filed behind the user's back: a document tagged              *)
(* ai-propagated was approved, by the user or by an auto-approve rule, and *)
(* one that came by mail was approved by the user.  The tag lists the      *)
(* worker and the API write back are snapshots, some of them stale, so a   *)
(* lifecycle tag may well come back; it must never come from nowhere.      *)
(***************************************************************************)
FiledOnlyIfApproved ==
    \A d \in Docs :
        "ai-propagated" \in tags[d] => Approved(d, approvedBy[d])

(***************************************************************************)
(* The mark of an untrusted source survives every complete rewrite of the  *)
(* tag list, whoever writes it, and the gate that reads it never lets a    *)
(* rule approve the document (applyTags, processApprovedDocument,          *)
(* addTagToDocument, swapLifecycleTag, isUntrustedSource).                 *)
(***************************************************************************)
ProvenanceKept ==
    \A d \in consumed \cap Untrusted :
        /\ UNTRUSTED_SOURCE_TAGS \subseteq tags[d]
        /\ "rules" \notin approvedBy[d]

(***************************************************************************)
(* A tag that landed on a document while the LLM was reading it is still   *)
(* there after extraction has written its lifecycle tags: applyTags merges *)
(* onto a fresh read, not onto the document fetched at dequeue.            *)
(***************************************************************************)
LateTagsSurvive ==
    [][ext.pc = "put" /\ ext'.pc # "put" /\ tags' # tags => late \subseteq tags'[ext.doc]]_vars

(***************************************************************************)
(* What the API acknowledges has happened: when a swap reports success,    *)
(* the document carries what the request adds and nothing it removes,      *)
(* although the worker may have rewritten the list after the PATCH.        *)
(***************************************************************************)
AcknowledgedSwapHolds ==
    [][\A c \in Clients :
        req[c].pc # "ping" /\ req'[c].pc = "ping" =>
            /\ SwapAdd[req[c].op] \cap KnownTags \subseteq tags'[req[c].doc]
            /\ SwapRemove[req[c].op] \cap KnownTags \cap tags'[req[c].doc] = {}]_vars

(***************************************************************************)
(* Once faults, crashes and clicks have ended, every consumed document     *)
(* with or without a delivered webhook is classified or marked as an       *)
(* error, and stays so.                                                    *)
(***************************************************************************)
EventuallyClassified ==
    \A d \in Docs : <>[](d \in consumed => tags[d] \cap LIFECYCLE_TAGS # {})

\* An approval is always carried out, or ends in an error tag or another request.
ApprovedIsHandled ==
    \A d \in Docs : "ai-approved" \in tags[d] ~> "ai-approved" \notin tags[d]

(***************************************************************************)
(* docs/workflow.md: "ai-rejected -> you rejected, no propagation will     *)
(* happen".  While no request is in flight, the propagation loop never     *)
(* goes to work on a document it has read to be rejected.                  *)
(***************************************************************************)
RejectedIsNotPropagated ==
    [][/\ \A c \in Clients : req[c].pc = "idle"
       /\ prop.pc = "fetch"
       /\ prop'.pc = "search"
       => "ai-rejected" \notin prop'.seen]_vars

(***************************************************************************)
(* docs/workflow.md: ai-duplicate-dismissed is a "sticky flag".  No        *)
(* request removes it, so once the dismissal has been acknowledged no step *)
(* of anybody removes it.                                                  *)
(***************************************************************************)
DismissalSticks ==
    [][\A d \in Docs :
        /\ "ai-duplicate-dismissed" \in tags[d]
        /\ \A c \in Clients : req[c].pc = "idle"
        => "ai-duplicate-dismissed" \in tags'[d]]_vars
=============================================================================
