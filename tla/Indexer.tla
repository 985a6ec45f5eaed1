------------------------------- MODULE Indexer -------------------------------
(***************************************************************************)
(* The search index: the indexing consumer of the worker keeps the chunks  *)
(* of every filed document in Qdrant, with a copy of its tags as payload.  *)
(* The propagation loop hands documents over, the API asks for a refresh   *)
(* when a user stars or unstars a document and purges the chunks of        *)
(* deleted ones, and a restarted worker looks for documents that have no   *)
(* chunks.  Every call to Paperless, Ollama or Qdrant is a step.           *)
(*                                                                         *)
(* How a document comes to be filed is the subject of Pipeline; File is    *)
(* its last PATCH.  The OCR text never changes, and the chunks of a        *)
(* document are written and deleted together.                              *)
(***************************************************************************)
EXTENDS Naturals, Sequences, FiniteSets, Tags

CONSTANTS
    Docs,          \* documents, identified by their Paperless ids
    Blank,         \* documents without OCR text
    Ops,           \* what users do
    MaxAttempts,   \* attempts of retryUntilSuccess
    MaxQueue,      \* bound: jobs in the queue (the code has none)
    MaxOps,        \* bound: user requests in a behaviour
    MaxFaults,     \* bound: failing or unanswered calls in a behaviour
    MaxCrashes     \* bound: worker restarts in a behaviour

NoDoc == 0

AllOps == {"star", "unstar", "reprocess", "trash", "restore", "delete"}

ASSUME DocsAssumption == Docs \subseteq Nat \ {NoDoc}
ASSUME BlankAssumption == Blank \subseteq Docs
ASSUME OpsAssumption == Ops \subseteq AllOps
ASSUME BoundsAssumption ==
    /\ MaxAttempts \in Nat \ {0}
    /\ {MaxQueue, MaxOps, MaxFaults, MaxCrashes} \subseteq Nat

VARIABLES
    place,     \* Paperless: "live", in the "trash", or "gone"
    tags,      \* Paperless: the tags of each document
    indexed,   \* Qdrant: documents that have chunks
    payload,   \* Qdrant: the tags in the payload of a document's chunks
    queue,     \* worker: AsyncQueue<IndexJob>
    filing,    \* worker: document filed by the propagation loop, not yet handed over
    ix,        \* worker: the indexing consumer
    recon,     \* worker: the startup reconcile
    pings,     \* API: starred or unstarred documents, worker not yet told
    purges,    \* API: deleted documents, chunks not yet purged
    purged,    \* history: documents whose purge has succeeded
    trashed,   \* history: documents that have been in the trash
    budget     \* bounds: requests, faults and crashes used so far

paperless == <<place, tags, trashed>>
qdrant == <<indexed, payload, purged>>
api == <<pings, purges>>
vars == <<place, tags, indexed, payload, queue, filing, ix, recon, pings, purges,
          purged, trashed, budget>>

IdleIx == [pc |-> "idle", doc |-> NoDoc, seen |-> {}, meta |-> {}]
StartRecon == [pc |-> "list", left |-> {}, attempt |-> 1]

Init ==
    /\ place = [d \in Docs |-> "live"]
    /\ tags = [d \in Docs |-> {}]
    /\ indexed = {}
    /\ payload = [d \in Docs |-> {}]
    /\ queue = <<>>
    /\ filing = NoDoc
    /\ ix = IdleIx
    /\ recon = StartRecon
    /\ pings = {}
    /\ purges = {}
    /\ purged = {}
    /\ trashed = {}
    /\ budget = [ops |-> 0, faults |-> 0, crashes |-> 0]

Job == [kind : {"full", "metadata"}, doc : Docs]

IxPc == {"idle", "count", "refetch", "setPayload", "fetch", "content", "embed", "delete",
         "upsert", "wipe", "clear", "errGet", "errPut"}

TypeOK ==
    /\ place \in [Docs -> {"live", "trash", "gone"}]
    /\ tags \in [Docs -> SUBSET Tag]
    /\ indexed \subseteq Docs
    /\ payload \in [Docs -> SUBSET Tag]
    /\ \A d \in Docs \ indexed : payload[d] = {}
    /\ queue \in Seq(Job)
    /\ Len(queue) \leq MaxQueue
    /\ filing \in Docs \cup {NoDoc}
    /\ ix \in [pc : IxPc, doc : Docs \cup {NoDoc}, seen : SUBSET Tag, meta : SUBSET Tag]
    /\ ix.pc # "idle" <=> ix.doc \in Docs
    /\ recon \in [pc : {"list", "count", "done"}, left : SUBSET Docs,
                  attempt : 1 .. MaxAttempts]
    /\ pings \subseteq Docs
    /\ purges \cup purged \cup trashed \subseteq Docs
    /\ budget \in [ops : 0 .. MaxOps, faults : 0 .. MaxFaults, crashes : 0 .. MaxCrashes]

-----------------------------------------------------------------------------
\* One call fails or stays unanswered.
Fault ==
    /\ budget.faults < MaxFaults
    /\ budget' = [budget EXCEPT !.faults = @ + 1]

NoFault == UNCHANGED budget

PatchTags(d, new) == tags' = [tags EXCEPT ![d] = new] /\ UNCHANGED <<place, trashed>>

Delete(d) ==
    /\ indexed' = indexed \ {d}
    /\ payload' = [payload EXCEPT ![d] = {}]

Push(kind, d) ==
    /\ Len(queue) < MaxQueue
    /\ queue' = Append(queue, [kind |-> kind, doc |-> d])

-----------------------------------------------------------------------------
(* The propagation loop, seen from the indexer. *)

\* The PATCH that files an approved document, possibly for the second time.
File(d) ==
    /\ filing = NoDoc
    /\ place[d] = "live"
    /\ "ai-propagated" \notin tags[d]
    /\ filing' = d
    /\ PatchTags(d, tags[d] \cup {"ai-propagated"})
    /\ UNCHANGED <<qdrant, queue, ix, recon, api, budget>>

HandOver ==
    /\ filing # NoDoc
    /\ filing' = NoDoc
    /\ Push("full", filing)
    /\ UNCHANGED <<paperless, qdrant, ix, recon, api, budget>>

-----------------------------------------------------------------------------
(* The indexing consumer. *)

IxGoes(pc) == ix' = [ix EXCEPT !.pc = pc]
IxIdles == ix' = IdleIx
IxKeeps == UNCHANGED <<filing, recon, api>>

\* The error branch of indexDocument starts with addTagToDocument's read.
IxFails == ix' = [ix EXCEPT !.pc = "errGet", !.seen = {}, !.meta = {}]

IxTake ==
    /\ ix.pc = "idle"
    /\ queue # <<>>
    /\ ix' = [IdleIx EXCEPT !.pc = IF Head(queue).kind = "full" THEN "fetch" ELSE "count",
                            !.doc = Head(queue).doc]
    /\ queue' = Tail(queue)
    /\ UNCHANGED <<paperless, qdrant, budget>> /\ IxKeeps

\* Neither lifecycle tags nor two of the auxiliary ones reach the payload.
filterUserTags(seen) == seen \ (LIFECYCLE_TAGS \cup {"ai-low-confidence", "ai-index-error"})

\* Without the entity maps the payload is resolved without tags.
resolvePayloadMetadata(seen, pc) ==
    \/ NoFault /\ ix' = [ix EXCEPT !.pc = pc, !.meta = filterUserTags(seen)]
    \/ Fault /\ IxGoes(pc)

(***************************************************************************)
(* reindexMetadata: a document without chunks is indexed instead; a call   *)
(* that fails, or finds the document gone, ends the job.                   *)
(***************************************************************************)
IxCount ==
    /\ ix.pc = "count"
    /\ \/ NoFault /\ IxGoes(IF ix.doc \in indexed THEN "refetch" ELSE "fetch")
       \/ Fault /\ IxIdles
    /\ UNCHANGED <<paperless, qdrant, queue>> /\ IxKeeps

IxRefetch ==
    /\ ix.pc = "refetch"
    /\ \/ place[ix.doc] = "live" /\ resolvePayloadMetadata(tags[ix.doc], "setPayload")
       \/ place[ix.doc] # "live" /\ NoFault /\ IxIdles
       \/ Fault /\ IxIdles
    /\ UNCHANGED <<paperless, qdrant, queue>> /\ IxKeeps

\* Mutant: the payload is merged into the tags of the chunks.
IxSetPayloadMerges ==
    /\ ix.pc = "setPayload"
    /\ IxIdles
    /\ NoFault
    /\ payload' = [payload EXCEPT ![ix.doc] =
                        IF ix.doc \in indexed THEN @ \cup ix.meta ELSE @]
    /\ UNCHANGED <<paperless, indexed, purged, queue>> /\ IxKeeps

\* Mutant: the payload is written although the document has no chunks.
IxSetPayloadBlind ==
    /\ ix.pc = "setPayload"
    /\ IxIdles
    /\ NoFault
    /\ payload' = [payload EXCEPT ![ix.doc] = ix.meta]
    /\ UNCHANGED <<paperless, indexed, purged, queue>> /\ IxKeeps

\* setPayload replaces the four keys of every chunk the document has, if any.
IxSetPayload ==
    /\ ix.pc = "setPayload"
    /\ IxIdles
    /\ \/ Fault /\ UNCHANGED payload
       \/ /\ NoFault
          /\ payload' = [payload EXCEPT ![ix.doc] =
                            IF ix.doc \in indexed THEN ix.meta ELSE @]
    /\ UNCHANGED <<paperless, indexed, purged, queue>> /\ IxKeeps

\* indexDocument: getDocument; when it fails the job just ends.
IxFetch ==
    /\ ix.pc = "fetch"
    /\ \/ /\ NoFault
          /\ place[ix.doc] = "live"
          /\ ix' = [ix EXCEPT !.pc = "content", !.seen = tags[ix.doc]]
       \/ NoFault /\ place[ix.doc] # "live" /\ IxIdles
       \/ Fault /\ IxIdles
    /\ UNCHANGED <<paperless, qdrant, queue>> /\ IxKeeps

\* getDocumentContent, and the payload: a content that cannot be read counts as empty.
IxContent ==
    /\ ix.pc = "content"
    /\ \/ /\ place[ix.doc] = "live"
          /\ ix.doc \notin Blank
          /\ resolvePayloadMetadata(ix.seen, "embed")
       \/ (place[ix.doc] # "live" \/ ix.doc \in Blank) /\ NoFault /\ IxGoes("wipe")
       \/ Fault /\ IxGoes("wipe")
    /\ UNCHANGED <<paperless, qdrant, queue>> /\ IxKeeps

IxEmbed ==
    /\ ix.pc = "embed"
    /\ \/ NoFault /\ IxGoes("delete")
       \/ Fault /\ IxFails
    /\ UNCHANGED <<paperless, qdrant, queue>> /\ IxKeeps

\* deleteByDocId; a call that timed out may have been carried out.
IxDelete ==
    /\ ix.pc = "delete"
    /\ \/ NoFault /\ Delete(ix.doc) /\ IxGoes("upsert")
       \/ Fault /\ IxFails /\ (Delete(ix.doc) \/ UNCHANGED <<indexed, payload>>)
    /\ UNCHANGED <<paperless, purged, queue>> /\ IxKeeps

\* deleteByDocId of a document that has no text.
IxWipe ==
    /\ ix.pc = "wipe"
    /\ \/ NoFault /\ Delete(ix.doc) /\ IxGoes("clear")
       \/ Fault /\ IxFails /\ (Delete(ix.doc) \/ UNCHANGED <<indexed, payload>>)
    /\ UNCHANGED <<paperless, purged, queue>> /\ IxKeeps

Upsert ==
    /\ indexed' = indexed \cup {ix.doc}
    /\ payload' = [payload EXCEPT ![ix.doc] = ix.meta]

IxUpsert ==
    /\ ix.pc = "upsert"
    /\ \/ NoFault /\ Upsert /\ IxGoes("clear")
       \/ Fault /\ IxFails /\ (Upsert \/ UNCHANGED <<indexed, payload>>)
    /\ UNCHANGED <<paperless, purged, queue>> /\ IxKeeps

\* Mutant: the list seen at the fetch is written back whether or not it has the tag.
IxClearAlways ==
    /\ ix.pc = "clear"
    /\ place[ix.doc] = "live"
    /\ IxIdles
    /\ NoFault
    /\ PatchTags(ix.doc, ix.seen \ {"ai-index-error"})
    /\ UNCHANGED <<qdrant, queue>> /\ IxKeeps

(***************************************************************************)
(* clearIndexErrorTagIfPresent writes the tags seen at the fetch, without  *)
(* the error tag; if the tag was not among them it writes nothing.         *)
(***************************************************************************)
IxClear ==
    /\ ix.pc = "clear"
    /\ \/ /\ "ai-index-error" \notin ix.seen
          /\ NoFault /\ IxIdles /\ UNCHANGED paperless
       \/ /\ "ai-index-error" \in ix.seen
          /\ place[ix.doc] = "live"
          /\ NoFault /\ IxIdles /\ PatchTags(ix.doc, ix.seen \ {"ai-index-error"})
       \/ /\ "ai-index-error" \in ix.seen
          /\ place[ix.doc] # "live"
          /\ NoFault /\ IxFails /\ UNCHANGED paperless
       \/ Fault /\ IxFails /\ UNCHANGED paperless
    /\ UNCHANGED <<qdrant, queue>> /\ IxKeeps

\* addTagToDocument(ai-index-error): read, then write unless the tag is there.
IxErrGet ==
    /\ ix.pc = "errGet"
    /\ \/ /\ NoFault
          /\ place[ix.doc] = "live"
          /\ "ai-index-error" \notin tags[ix.doc]
          /\ ix' = [ix EXCEPT !.pc = "errPut", !.seen = tags[ix.doc]]
       \/ /\ NoFault
          /\ place[ix.doc] # "live" \/ "ai-index-error" \in tags[ix.doc]
          /\ IxIdles
       \/ Fault /\ IxIdles
    /\ UNCHANGED <<paperless, qdrant, queue>> /\ IxKeeps

IxErrPut ==
    /\ ix.pc = "errPut"
    /\ IxIdles
    /\ \/ /\ NoFault \/ Fault
          /\ place[ix.doc] = "live"
          /\ PatchTags(ix.doc, ix.seen \cup {"ai-index-error"})
       \/ NoFault /\ place[ix.doc] # "live" /\ UNCHANGED paperless
       \/ Fault /\ UNCHANGED paperless
    /\ UNCHANGED <<qdrant, queue>> /\ IxKeeps

IndexStep ==
    \/ IxTake \/ IxCount \/ IxRefetch \/ IxSetPayload \/ IxFetch \/ IxContent \/ IxEmbed
    \/ IxDelete \/ IxWipe \/ IxUpsert \/ IxClear \/ IxErrGet \/ IxErrPut

-----------------------------------------------------------------------------
(* enqueueUnindexedDocuments under retryUntilSuccess, once per process. *)

ReconIs(r) == recon' = r
ReconKeeps == UNCHANGED <<paperless, qdrant, filing, ix, api>>

\* A call fails: the whole run starts over, until the attempts are used up.
ReconFails ==
    /\ recon.pc # "done"
    /\ Fault
    /\ IF recon.attempt < MaxAttempts
       THEN ReconIs([StartRecon EXCEPT !.attempt = recon.attempt + 1])
       ELSE ReconIs([recon EXCEPT !.pc = "done", !.left = {}])
    /\ UNCHANGED queue /\ ReconKeeps

ReconList ==
    /\ recon.pc = "list"
    /\ ReconIs([recon EXCEPT !.pc = "count",
                             !.left = {d \in Docs : /\ place[d] = "live"
                                                    /\ "ai-propagated" \in tags[d]}])
    /\ UNCHANGED <<queue, budget>> /\ ReconKeeps

\* Mutant: documents that have chunks are enqueued, the others are not.
ReconCountIndexed(d) ==
    /\ recon.pc = "count"
    /\ d \in recon.left
    /\ ReconIs([recon EXCEPT !.left = @ \ {d}])
    /\ IF d \in indexed THEN Push("full", d) ELSE UNCHANGED queue
    /\ UNCHANGED budget /\ ReconKeeps

ReconCount(d) ==
    /\ recon.pc = "count"
    /\ d \in recon.left
    /\ ReconIs([recon EXCEPT !.left = @ \ {d}])
    /\ IF d \notin indexed THEN Push("full", d) ELSE UNCHANGED queue
    /\ UNCHANGED budget /\ ReconKeeps

ReconDone ==
    /\ recon.pc = "count"
    /\ recon.left = {}
    /\ ReconIs([recon EXCEPT !.pc = "done"])
    /\ UNCHANGED <<queue, budget>> /\ ReconKeeps

Reconcile == ReconFails \/ ReconList \/ ReconDone \/ \E d \in Docs : ReconCount(d)

\* The worker restarts: its queue, its slots and a hand-over under way are lost.
Crash ==
    /\ budget.crashes < MaxCrashes
    /\ budget' = [budget EXCEPT !.crashes = @ + 1]
    /\ queue' = <<>>
    /\ filing' = NoDoc
    /\ ix' = IdleIx
    /\ recon' = StartRecon
    /\ UNCHANGED <<paperless, qdrant, api>>

-----------------------------------------------------------------------------
(* Users, through the API. *)

Request(op) ==
    /\ op \in Ops
    /\ budget.ops < MaxOps
    /\ budget' = [budget EXCEPT !.ops = @ + 1]
    /\ UNCHANGED <<qdrant, queue, filing, ix, recon>>

\* star and unstar: the swap of Pipeline, here in one step, then the ping.
Star(d) ==
    /\ Request("star")
    /\ place[d] = "live"
    /\ PatchTags(d, tags[d] \cup {"wichtig"})
    /\ pings' = pings \cup {d}
    /\ UNCHANGED purges

Unstar(d) ==
    /\ Request("unstar")
    /\ place[d] = "live"
    /\ "wichtig" \in tags[d]
    /\ PatchTags(d, tags[d] \ {"wichtig"})
    /\ pings' = pings \cup {d}
    /\ UNCHANGED purges

Ping(d) ==
    /\ d \in pings
    /\ pings' = pings \ {d}
    /\ \/ NoFault /\ Push("metadata", d)
       \/ Fault /\ UNCHANGED queue
    /\ UNCHANGED <<paperless, qdrant, filing, ix, recon, purges>>

\* reprocess keeps the chunks; the document may be approved and filed again.
Reprocess(d) ==
    /\ Request("reprocess")
    /\ place[d] = "live"
    /\ PatchTags(d, tags[d] \ REPROCESS_REMOVE)
    /\ UNCHANGED api

Trash(d) ==
    /\ Request("trash")
    /\ place[d] = "live"
    /\ place' = [place EXCEPT ![d] = "trash"]
    /\ trashed' = trashed \cup {d}
    /\ UNCHANGED <<tags, api>>

restore(d) ==
    /\ Request("restore")
    /\ place[d] = "trash"
    /\ place' = [place EXCEPT ![d] = "live"]
    /\ UNCHANGED <<tags, trashed, api>>

\* deleteForever, and empty for each document of its list: delete, then purge.
deleteForever(d) ==
    /\ Request("delete")
    /\ place[d] = "trash"
    /\ place' = [place EXCEPT ![d] = "gone"]
    /\ purges' = purges \cup {d}
    /\ UNCHANGED <<tags, trashed, pings>>

purgeChunks(d) ==
    /\ d \in purges
    /\ purges' = purges \ {d}
    /\ \/ NoFault /\ Delete(d) /\ purged' = purged \cup {d}
       \/ Fault /\ UNCHANGED qdrant
    /\ UNCHANGED <<paperless, queue, filing, ix, recon, pings>>

UserStep(d) ==
    Star(d) \/ Unstar(d) \/ Reprocess(d) \/ Trash(d) \/ restore(d) \/ deleteForever(d)

Next ==
    \/ \E d \in Docs : File(d) \/ UserStep(d) \/ Ping(d) \/ purgeChunks(d)
    \/ HandOver
    \/ IndexStep
    \/ Reconcile
    \/ Crash

Spec == Init /\ [][Next]_vars

(***************************************************************************)
(* The worker's loops go on, calls end, and the API carries out what it    *)
(* does after a request's main call.  Nobody has to file or to click.      *)
(***************************************************************************)
Fairness ==
    /\ WF_vars(HandOver)
    /\ WF_vars(IndexStep)
    /\ WF_vars(ReconList \/ ReconDone)
    /\ \A d \in Docs : WF_vars(ReconCount(d)) /\ WF_vars(Ping(d)) /\ WF_vars(purgeChunks(d))

FairSpec == Spec /\ Fairness

-----------------------------------------------------------------------------
(* Properties. *)

WithUser(s) == s \cap USER_TAGS

\* Work on d that is still to be read from Paperless.
Due(d) ==
    \/ d \in pings
    \/ filing = d
    \/ \E i \in DOMAIN queue : queue[i].doc = d
    \/ ix.doc = d /\ ix.pc \in {"count", "refetch", "fetch"}

(***************************************************************************)
(* The payload a search filters by is current: whenever the star of an     *)
(* indexed document differs between Paperless and Qdrant, some job is      *)
(* still to read the document, or the consumer is about to write what      *)
(* Paperless has (star, unstar, reindexMetadata, indexDocument).  A ping   *)
(* that fails, a restart, and a stay in the trash may leave it stale.      *)
(***************************************************************************)
PayloadCurrent ==
    budget.faults + budget.crashes = 0 =>
        \A d \in indexed \ trashed :
            \/ WithUser(payload[d]) = WithUser(tags[d])
            \/ Due(d)
            \/ /\ ix.doc = d
               /\ ix.pc = "content"
               /\ WithUser(ix.seen) = WithUser(tags[d])
            \/ /\ ix.doc = d
               /\ ix.pc \in {"setPayload", "embed", "delete", "upsert"}
               /\ WithUser(ix.meta) = WithUser(tags[d])

(***************************************************************************)
(* Indexing a document never takes the user's star away: as long as no     *)
(* call has failed, only unstar does, although the indexer holds a list of *)
(* the tags that may be old by the time it is done.                        *)
(***************************************************************************)
StarSurvivesIndexing ==
    [][budget'.faults = 0 /\ IndexStep =>
        \A d \in Docs : WithUser(tags[d]) \subseteq WithUser(tags'[d])]_vars

(***************************************************************************)
(* A filed document with text ends up in the index, although the worker    *)
(* may have crashed after filing it, in the queue, or between deleting old *)
(* chunks and writing new ones (startup reconcile).  Calls that fail and   *)
(* a stay in the trash may leave it out.                                   *)
(***************************************************************************)
FiledIsIndexed ==
    \A d \in Docs \ Blank :
        <>[]("ai-propagated" \in tags[d] =>
                \/ d \in indexed
                \/ d \in trashed
                \/ budget.faults > 0)

(***************************************************************************)
(* openspec: "The indexer SHALL compute embeddings before deleting a       *)
(* document's existing chunks."  The consumer deletes the chunks of a      *)
(* document that has text only when it is about to write new ones.         *)
(***************************************************************************)
EmbedBeforeDelete ==
    [][\A d \in indexed \ (Blank \cup indexed') :
        ix.doc = d /\ place[d] = "live" => ix.pc = "delete"]_vars

(***************************************************************************)
(* docs/api-reference.md: a hard delete "ALSO purges the doc's Qdrant      *)
(* chunks": once the purge has succeeded the document stays out of the     *)
(* index.                                                                  *)
(***************************************************************************)
PurgedStaysPurged == purged \cap indexed = {}
=============================================================================
