# aktenraum in TLA+

aktenraum is a self-hosted document archive built around Paperless-ngx. A
worker (`services/auto-tagger`) reads every new document with an LLM and files
it once a user, or an auto-approve rule, has agreed. An API
(`services/aktenraum-api`) serves the web application. Neither owns the
documents: the state of a document is the **set of tags it carries in
Paperless**, and every component is code that watches for one tag and writes
another. `docs/workflow.md` calls those tags the single source of truth.

Paperless has no transactions and no conditional update. Whoever changes tags
reads the document, computes a complete new list, and writes it back. The
worker runs three loops, the API any number of requests, all of them doing this
to the same lists; queues live in memory and vanish with the process. What can
go wrong is therefore in the interleavings, the stale snapshots, the calls that
fail half way, and the restarts. These are what the modules here describe.

## 1. The system: inventory

| Component | State | Operations | Correct when |
|---|---|---|---|
| Extraction loop (`main.ts`, `extract.ts`, `routing.ts`, `transient.ts`) | in-memory queue, slot, failure counts; tags in Paperless | consume, poll, skip processed, LLM, route, merge tags, mark errors | every document is classified; the routing gate never lets a rule approve mail; late tags survive |
| Propagation loop (`main.ts`, `propagate.ts`) | queue, slot, snapshot of the tags | guard on `ai-approved`, look-ups, duplicate search, one PATCH, mark matches, hand over, recover | nothing is filed without an approval; an approval is carried out or ends in an error tag |
| Queue, consumer, poller, shutdown (`queue.ts`, `loops.ts`, `processing-state.ts`) | items, waiters, closed, slot | push, pop, close, run, sleep, retry | FIFO, nothing lost or doubled, no lost wakeup, SIGTERM ends all loops |
| Indexing loop (`indexer.ts`, `rag/vectorStore.ts`) | queue, slot; chunks and payload in Qdrant | full and metadata jobs, error tag, startup reconcile | filed documents are searchable, the payload is current, deleted ones are gone |
| Lifecycle actions of the API (`inbox.service.ts`, `documents.service.ts`, `paperless.gateway.ts`, `auto-tagger.client.ts`) | requests in flight, a tag cache | approve, reject, reprocess, star, unstar, dismiss: plan, PATCH, read back, retry, ping | what is acknowledged has happened; what the user decided holds |
| Review (`review-form.ts`, `ReviewTab.vue`, `pages/inbox`, `useHydratedForm.ts`) | query cache, form, selection, cursor of the bulk approval | load pages, refetch, fill and refill the form, edit, approve, approve many | no document stays hidden; only what was typed is sent as an edit |
| Trash (`trash.service.ts`, `pages/trash.vue`) | Paperless' trash | delete, restore, delete for good, empty page by page, purge chunks | emptied means emptied, and nothing goes that no request named |
| Custom fields (`client.ts`, `paperless.gateway.ts`) | the `custom_fields` array | AI fields, error message, user edits: read, merge, replace | no writer loses another's field |
| Paperless client caches (`client.ts`, `paperless.gateway.ts`) | tag ids, name maps, with a time to live | look up, create, invalidate | an id is the name's; a row created here is seen here |
| Auto-approve rules, active model (`auto-approve-config.ts`, `active-model.ts`, `settings.service.ts`) | cache with a time to live, in-flight load; rows in Postgres | get, load, fall back; replace, reconcile, round | fail closed when cold, never older than allowed when warm; the page shows what is compared |
| Type-specific fields (`type-fields.ts`, `type-fields.service.ts`) | a row per document | second LLM pass, upsert, page | the row has the fields of one type |
| Duplicate detection (`dedup.ts`, `propagate.ts`, `documents.service.ts`) | marks on documents | compare, search twice with two codes, mark, dismiss | the panels agree with each other and with the marks |
| Question answering (`ai.service.ts`, `retrieval.ts`, `useAnswerStream.ts`) | a stream of records, the page's answer | filter, search, retrieve, prompt, generate; stop, ask again, cut | a half answer never looks whole; the sources were read; every question comes to rest |
| LLM backends (`ollamaBackend.ts`, `anthropicBackend.ts`) | attempts | ask, repair, recover keys, ask again | the rescue does not alter what the model said |
| Upload and ingest (`upload.service.ts`, `ingest.service.ts`, `useUpload.ts`, `utils/ingest.ts`) | rows by file name, consume tasks, polls | send, forward, record, follow | a row tells of a file of its name; settled is final |
| Library (`library.service.ts`, `status-tags.ts`, `pages/library`) | none; URL, navigation, timer in the page | filter, page, pin, facet; click, type, navigate | the pages hold the matches, each once; the URL moves one thing at a time |
| Live counts (`events.controller.ts`, `useLiveCounts.ts`) | last record of each connection, retry timer, cache | poll, send, retry, fall back | the bar comes to show the numbers |
| Authentication (`auth/*`, `useAuth.ts`) | user row, failures, cookie, the page's memory | bootstrap, login, throttle, guard, change of the password, logout | a session is of the password in force |
| Chunker, embedder, reranker, normalisers, prompts | none | pure functions and HTTP calls | - |

Interaction: the post-consume hook of Paperless and the API *ping* the worker
(`POST /trigger/...`, best effort, pushes a queue entry); pollers find by tag
what a ping has missed; the propagation loop pushes to the indexing queue; the
worker asks the API for rules and the active model; the API purges chunks in
Qdrant itself. The web application asks the API and keeps copies: query caches,
forms, the URL, a stream of counts, a stream of an answer. There are no callbacks
and no shared memory between processes.

The hard behaviours are listed one by one, at their lines, under `hazards` in
`PROJECT.json`.

## 2. The modules

    Tags ------------+--> Pipeline --> PipelineProofs (TLAPS)
                     |        |------> MCPipeline (TLC)
                     |        '------> Documents --> DocumentsProofs (TLAPS)
                     |                      '------> MCDocuments (TLC, with MCPipeline)
                     |--> Indexer -------> IndexerProofs (TLAPS)
                     |--> AutoApprove ---> AutoApproveProofs (TLAPS)
                     '--> Library
    Listings --------> Trash, Session
    Mailbox <-refines- WorkerLoop -------> WorkerLoopProofs (TLAPS)
                            '------------> Services --> ServicesProofs (TLAPS)
                                               '------> MCServices (TLC)
    CustomFields --> DocumentData -------> DocumentDataProofs (TLAPS)
                            '------------> MCFields (TLC)
    Session -----------------------------> SessionProofs (TLAPS)

    Documents     instantiates  Uploads, Trash, ReviewForm, Library, LibraryPage,
                                Settings, Session
    Services      instantiates  AnswerStream, LiveCounts, ReviewList, Completion
    DocumentData  instantiates  TypeFields, Names, Duplicates

**Tags** holds the vocabulary and the pure functions on tag sets:
`planTagSwap`, `routeLifecycleTags`, `splitSuggestedTags`,
`lifecycleTagsOn`, `isUntrustedSource`. An extraction is seen through the four
comparisons the gate makes on it. A name and its id are identified.

**Pipeline** is the core: documents, both worker loops, the API.

| Variable | Code |
|---|---|
| `consumed`, `tags` | the documents of Paperless and their tags |
| `extractionQueue`, `propagationQueue` | the `AsyncQueue`s of `main.ts` |
| `indexJobs` | documents pushed to the indexing queue (consumed by `Indexer`) |
| `ext`, `prop` | where the two serial consumers are, with the locals they hold: the tags read (`seen`), the tags to add, the matches |
| `transient` | `TransientFailureTracker.counts` |
| `req` | for each client the request in flight: operation, plan, attempt |
| `approvedBy`, `shown`, `late` | history: who approved; tags a page may still show; tags that landed during the LLM call |
| `budget` | how many requests, faults and restarts the behaviour has used |

One action per handler step between two HTTP calls that matter: every read of a
tag list and every write of one is an action of its own, reads that nothing can
tell apart are merged. `ExtTake ExtFetch ExtRoute/ExtWriteFails/ExtDefer/ExtGiveUp
ExtPut ExtErrGet ExtErrPut` is `runQueueConsumer` around `processDocument`;
`PropTake PropFetch PropSearch PropPut PropDupGet PropDupPut PropFinish
PropRecover` is it around `processApprovedDocument`; `ReqStart ReqGet ReqPut
ReqVerify ReqPing ReqFail` is an endpoint calling `swapLifecycleTag` and `ping`.
`Fault` makes any call fail; a PATCH that fails may have been applied, at once
or not at all. `Crash` empties everything the worker keeps in memory. Document
ids stand for the `created` order of the extraction poller; a poll enqueues one
document of its batch at a time.

**Mailbox** and **WorkerLoop**. `WorkerLoop` is one stage of the worker at the
granularity of the event loop: `AsyncQueue`, `runQueueConsumer`, `runInterval`,
the webhook, SIGTERM. `Mailbox` is what such a stage promises: documents are
handled one at a time, in order, each as often as it was put, and none is
forgotten before the stage is told to stop. `WorkerLoop` implements it under

    pending  <- the item of a resolved promise, then the stored items
    handling <- the slot while the handler runs
    phase    <- open, closing after SIGTERM, stopped

This is also why `Pipeline` and `Indexer` may treat their queues as sequences
with `Head` and `Tail`.

**Indexer** is the third loop with its surroundings: full jobs (fetch, content,
embed, delete, upsert, clear the error tag), metadata jobs (count, fetch, set
payload), the error branch, the startup reconcile under `retryUntilSuccess`,
star and unstar with their best-effort pings, the trash and its purge. `File` is
the last PATCH of `Pipeline`'s propagation. A document's chunks are written and
deleted together; `indexed` says whether it has any and `payload` which tags they
carry.

**AutoApprove** follows the rules from the settings page to a decision. The
table `rules` is written by saves (`SaveBegin`, one `SaveRow` per upsert,
`SaveEnd`, which may come early when the database refuses a row) and completed when
the API starts (`reconcileMissingRules`). The worker's extraction consumer `c` goes
through `getRules` (cache young enough, or a load), `listRules` (the SELECT on
the other side), `LoadOk` or `LoadFails` (`fallback`: warm rules, or the closed
ones) and `Route`, which is `routeLifecycleTags` of `Tags`. `clock` ticks; a load in
progress holds it back at `Timeout`, as the abort does. Confidences are whole
percents, `low` is left out: it decides no approval. `stamp` stands for the
columns `updated_at` and `updated_by`, `hist` records the tables there have been.
There is one consumer, hence no second caller to join `inFlight`.

**CustomFields** is the array of one document and its writers: the three loops
(`loop`: the AI fields, the error message), the edit requests of the API (`edit`),
and the user who edits fields of their own in Paperless. Each writer reads
(`LoopRead`, `EditRead`), merges in its own way (`mergeAiFields`,
`mergeErrorMessage`, `mergeCustomFields`) and writes the whole array (`LoopWrite`,
`EditWrite`); any of the calls may fail, a write also after it was applied. A value is
who wrote it and when. A missing entry and one with the value null are both
`Absent`.

### Around the pipeline

The modules above follow a document through the worker. Those below are what
users and their pages do with it, and the services they call. Each is small enough to be
checked and proved about as a part of a sum (see section 3), which also states the
assumptions on its constants.

**Uploads**: a batch of files (`send`), forwarded one by one by the API
(`FileRefused`, `FileAccepted`, which also `recorded`s the consume task), the rows
of the page, found by *file name*, which each file's `tracker` patches (`PollTask`,
`PollStatus`, `GiveUp`), and `activity`, the list of all tasks whose page polls
until `activitySettled`. The same name may be sent twice in two batches.

**ReviewForm**: the form of a document. `detail` is the query cache, refilled by
`Fetched` at any time, also while a save is on its way; `mergeHydration` refills the
form field by field against `hydrated`; `buildDirtyPatch` is what goes out with an
approval or a save. `Normal` stands for `normaliseFieldValues`. **ReviewList** is the
list before it: pages loaded one after another (`nextPageParam`), the selection,
and the bulk approval, whose lanes share a cursor (`TakeNext`).

**Library** is a pure projection, written as operators on the tags there are
(`statusFilter`, `listLibrary`, `listTagFacet`, `project`) under every change of the
tags (`Retag`) and of what the worker is busy with (`Process`). A page of the listing is
the set of documents whose rank, the number of hits before them, lies on it: `top` are the
pinned ones, `rest` what Paperless returned. **LibraryPage** is the
page in front of it: `route` is the URL in force, `nav` the asynchronous navigation
that a later one cancels (`syncUrl`), `timer` the debounce of the search text,
`armed` and `bulk` the two clicks of the bulk reprocess.

**Trash**: `library` and `trash` of Paperless, the request `call` of each user as the
API carries it out (`listAllTrashedIds` page by page, `emptyTrash`, `purgeChunks`) and
the page with its confirming clicks. `due` is history: what a request that empties
the trash must destroy. **Listings** has what is left of a list when some of it is gone,
for the trash and for the throttle of `Session`.

**Settings**: the singleton `row` (`Select`, `Insert`, `Update` of a request are
separate steps: two first requests may collide), one threshold in thousandths of
which the table keeps hundredths, the page's query data, and the worker's model
cache (`getModel`, `Loaded`, `LoadFails`). `AutoApprove` has the table of rules.

**Session**: the user's row, the throttle, and for each browser its cookie, what it
remembers of itself (`me`), its page and its request. A login reads the row, hashes,
and answers in three steps; so does a change of the password. Hashing and signing
are perfect: a hash is the number of the change that made it.

**TypeFields**: the row of type-specific fields with its writers, the worker's
second pass and the pages; `Read` and `Write` of a request are separate and the
document's type may change between them. **Names**: ids by name and lists of names
of one process, `side` says whether the worker's client or the API's gateway, with
`OthersCreate` for everybody else; a look-up, a creation and a list of several pages
are sequences of calls, each cache may expire at any time. **Duplicates**: the
comparison (`typesAgree`, `refsMatch`, `amountMatches`, `findDuplicates`), the search of
the worker while it files a document, and that of the API for the page, which has code
of its own and searches by the native correspondent.

**AnswerStream**: a question. `srv` and `job` are the generator `streamAnswerEvents`
with its locals, `wire` the records on their way, `end` how the response ended, `run`
and `shown` the composable in the browser, which aborts a question for the next one.
**Completion**: one structured reply of an LLM as a sequence of the characters that
matter to JSON, `repairTruncatedJson` as a fold over them, `recoverKeysForSchema` on
the object, and the loop that asks again. **LiveCounts**: the connection with the last
record the API sent on it, the browser's retry timer, the cached number of documents
in work, and the polled counts the bar falls back to; one document stands for all.

## 3. What TLC checks

| Run | Module | Shows |
|---|---|---|
| `pipeline_safety` | `MCDocuments`, 2.3 million states | `FiledOnlyIfApproved`, `ProvenanceKept`, `LateTagsSurvive`, `AcknowledgedSwapHolds`, and for the parts beside it `RowsTellOfTheirName`, `SettledIsFinal` (uploads), `EmptiedAll`, `LostAsAsked` (trash), `EditsWereTyped` (form), `ListsTheMatches` (library), `OtherFiltersFirstPage` (its page), `SavedModelKept`, `ReadersFollowTables` (settings), `SessionIsOfThePassword` |
| `pipeline_live` | `MCPipeline`, 0.5 million | `EventuallyClassified`, `ApprovedIsHandled` |
| `pipeline_reject` | `MCPipeline` | `RejectedIsNotPropagated` is violated |
| `pipeline_dismiss` | `MCPipeline` | `DismissalSticks` is violated |
| `worker_loop` | `MCServices`, 92 000 | `NoLostWakeup`, `MailboxServed` (the refinement, with fairness), `ShutdownCompletes`, and beside the loop `ShownIsTheAnswer`, `SourcesWereRead`, `AnswerSettles` (answers), `RescueKeepsTheReply` (LLM), `NothingWithheld` (list to review), `BarSettles` (live counts) |
| `indexer` | `Indexer`, 0.45 million | `PayloadCurrent`, `StarSurvivesIndexing`, `FiledIsIndexed` |
| `indexer_wipe` | `Indexer` | `EmbedBeforeDelete` is violated |
| `indexer_purge` | `Indexer` | `PurgedStaysPurged` is violated |
| `auto_approve` | `AutoApprove`, 2.6 million | `RoutedByRecentRules` |
| `auto_approve_save` | `AutoApprove` | `SavesAreTransactional` is violated |
| `custom_fields` | `MCFields`, 1.6 million | `NoMixedExtractions`, `OwnFieldsFromUser`, and beside the array `FieldsOfOneType` (type-specific fields), `IdIsOfTheName`, `CreatedIsVisible` (names), `PanelsAgree` (duplicates) |
| `custom_fields_keep` | `CustomFields` | `AiWritesKeepOthers` is violated |

Every passing safety run checks the type invariant too (`TypeOK`, or `PartsTypeOK` where
there are parts).

*Parts.* `Documents`, `Services` and `DocumentData` are disjoint sums: a behaviour picks
one part in its initial state, takes that part's steps, and leaves the variables of
the others as they began, so the states of the parts add up and do not multiply.
The parts have no state in common in the code either, at the level they are modelled:
where two of them meet (a page and the tags the worker moves, say) the other one's
doing is an action of the module, such as `WorkerMoves`, `OthersWrite`, `OthersCreate`
or `Move`. A part's formula is the module's own, through its instance.

*Bounds.* `MaxOps`, `MaxFaults`, `MaxCrashes`, `MaxCopies` and `MaxQueue` bound
what the environment does; the code has no such bounds. `MaxTransient` (3 in
the code) and `MaxAttempts` (3 for a swap, 10 for the reconcile) are parameters
of the code, set to 2: one attempt that is retried and one that is the last. In
`pipeline_safety` there are two documents, one by mail and one filed and blank, each the
other's likely duplicate, one client, two requests, one fault and one restart. Two
requests suffice for a user to act against a stale page, and for the second
to meet the worker's reaction to the first; one fault or restart at every point
is what the recovery code is written for. Both loops and the client interfere
through one document; the second document is there for the duplicate marking,
the only step in which one document's handler writes another. `pipeline_live` has
the same two documents and one request. `indexer` has one document, three requests,
one fault, one restart and three jobs.

In `auto_approve` four ticks let a cache expire, a reload fail and a decision
follow; 60 s and 5 s are in the proportion that matters, a load ends well within a
time to live. Two types are what a half-written save needs; the confidence lies
just below the default minimum and may be a rule's own. In `custom_fields` two
extractions are needed for one to be mixed with the other, and two AI fields for
the mixture to show; the error message lets each loop put an old array back.

The parts are given what their properties need. *Uploads*: two files, two names, two
batches, so that two files of one name follow each other. *Trash*: three documents,
one user and pages of one document, so that what others delete and restore shifts the
pages. *Form*: two documents, one field, three texts
apart from none, one of them with a blank that is trimmed and one that Paperless is
given in another form. *Library*: two documents of two types, nine tag sets (every badge,
errors with and without one, two lifecycle tags at once), pages of one. *Its page*: two texts, a type, a status, two
pages. *Settings*: two models, one administrator beside the worker, two saves, two ticks,
a threshold of three digits. *Session*: two browsers, two passwords, two changes, two
failures until the throttle, a cookie that expires. *Answers*: two documents, two
questions, two chunks, one of them left out of the prompt. *Live counts*: one
move, two broken connections, the user leaving and coming back. *List to review*: two
documents, pages of one, two lanes. *LLM*: two keys and two garbled ones, replies of three
characters, two attempts.
*Type-specific fields*: two types that share a field, one page beside the worker. *Names*:
two names that differ in case only, two callers, two tags, one tag on a page. *Duplicates*: two documents, three changes, five
contents that differ in case, blanks, type, references and amount.

*Deadlock* is not checked: behaviours end when the bounds are used up, and a
worker that was told to stop has stopped.

*Fairness.* Weak fairness of the consumers (`ExtStep`, `PropStep`, `IndexStep`,
`Consumer`): the loops run while the process does, and every HTTP call ends, if
only by the timeout the client sets. Weak fairness of the pollers: timers fire.
Weak fairness of the requests in flight and of the steps after them. None for
uploads, clicks, faults or restarts. Since faults and restarts are bounded, the
liveness properties say what happens once they have ceased. For an answer
(`Progress`): calls to Paperless and Qdrant have timeouts, the LLM ends its text or its
connection, and the browser reads what has arrived; `AnswerSettles` needs no more. For the
live counts: the polls of the connection and of the bar run on timers, what was sent
is read, the retry timer fires, the cached number expires; moves, broken connections and
sign-ins are bounded, a stream that a proxy blocks for good is not fair to anybody
and is the case the polled numbers are for.

### Where the code does not do what the documents say

* `RejectedIsNotPropagated`. No endpoint looks at the current lifecycle tag.
  Approve a document, then reject it from a page loaded earlier: the document
  carries `ai-rejected` and `ai-approved`, and the propagator asks only for the
  latter. `docs/workflow.md:131` says "you rejected, no propagation will happen".
* `DismissalSticks`. A loop that read the tags before a dismissal writes them
  back afterwards. `docs/workflow.md:144` calls the flag sticky.
* `EmbedBeforeDelete`. A content that cannot be read counts as empty, and the
  chunks of an indexed document are deleted with no embeddings and no error
  tag. The specification of the worker's resilience says "The indexer SHALL
  compute embeddings before deleting a document's existing chunks".
* `PurgedStaysPurged`. A document deleted for good while it is being embedded
  gets its chunks back after the purge. `docs/api-reference.md:217` says a hard
  delete also purges them.

* `SavesAreTransactional`. `replaceRules` upserts row by row, each a transaction of
  its own: an error or a stop in between leaves rules of two saves.
  `docs/api-reference.md:245` says "Replaces the rule set (transactional)".
* `AiWritesKeepOthers`. The write of the AI fields takes back what a user changed in
  another field since the read. The specification of the worker's resilience
  says it "SHALL keep every other custom field on the document unchanged".

Met while modelling; no run claims these, the properties allow for them:

* The design of the auto-approve rules
  (`openspec/changes/auto-approve-rules-ui/design.md:82`) has an outage of more than 60 s
  close the gate; the code goes on with warm rules for as long as the API is down and
  closes it only for a cold worker.
* `filterUserTags` (`indexer.ts:43`) lets `ai-duplicate`, `ai-auto-approved` and
  `email-ingested` into the payload although its comment excludes every auxiliary tag.
* `client.ts:615` promises that a row created here is visible to the next read; a map that
  was being fetched meanwhile is stored without it for a minute (`client.ts:359`).
  `CreatedIsVisible` excepts exactly that.
* A swap whose tag the gateway cannot find is acknowledged though nothing was added
  (`paperless.gateway.ts:80`).
* The first request for a row that two writers create at once fails with a 500
  (`settings.service.ts:41`, and the upsert of the type-specific fields).
* A typed type-specific value is gone when the section is refetched
  (`TypeFieldsSection.vue:17`). The rules page saves every rule of the table it
  loaded (`AutoApprove.vue:53`), so it takes back what somebody else saved since.
* A filter whose document type is unknown filters nothing (`library.service.ts:94`), one whose
  status tag is unknown finds nothing.
* Two quick filter clicks: the second is computed from the URL in force and cancels the
  first; the armed bulk button stays armed over another list.
* The list to review skips documents when others are approved between two page loads
  (hence `calm` in `NothingWithheld`). An approval answered late leads away from the
  document opened since (`pages/inbox/[id].vue:45`).
* A sign-out while `/auth/me` is on its way lets the page believe in the user again until
  the next request (`useAuth.ts`); the API does not.
* A reply cut right after a backslash stays unterminated (`CutInEscape`). A connection that
  breaks after the final record shows an error beside a complete answer
  (`useAnswerStream.ts:48`).
* Bad credentials in the middle of a batch lose the results of the files already
  accepted (`upload.service.ts:114`).
* The last record of a live-counts stream shadows the polled counts while the stream is down.

## 4. What is proved

`PipelineProofs` proves, for every set of documents and clients, every value of
the bounds, every assignment of suggestions and duplicates:

* `TypeCorrect`: `Spec => []TypeOK`. Among other things the failure counter stays
  below its maximum although duplicates of a document share it.
* `FiledOnlyAfterApproval`, `ProvenanceIsKept`, `MergeKeepsLateTags`,
  `AcknowledgedIsTrue`: the four properties of the safety run.

The invariant behind them is `IInv`. The properties speak of what documents
carry, but any tag list may be overwritten by an older one, so none of them is
inductive: a snapshot held by a loop or a request could smuggle anything in.
`IInv` therefore says that *every tag list in existence is sound*: the tags of each
document, the snapshot of the extraction consumer together with the tags it
is about to add, the snapshot of the propagation consumer, of its match, and the
plan of each request. Sound means: it has the mark of an untrusted source if the
document does, and it contains `ai-approved` or `ai-propagated` only if
somebody entitled has approved (approvals are never taken back, so soundness of a
list persists while it is held). `QueuesSound` and the rest record that whoever
holds a list holds it for a consumed document. `ReqSound` adds that a plan
contains what its operation adds and nothing it removes, `LateSound` that the
tags that landed during the LLM call are still on the document. Each action then
preserves the invariant because it combines sound lists in a way that keeps them
sound; there is one lemma or step per action.

`WorkerLoopProofs` proves `LoopTypeCorrect`, `WakeupsAreKept` and
`StageIsMailbox` (`Spec => MailboxImplemented`), for any set of documents and any
bound on the queue. The refinement needs `NoLostWakeup`: an item handed past the
store to a waiter overtakes nothing only because nothing is stored then.

`AutoApproveProofs` proves `RulesTypeCorrect` and `DecisionsFollowRecentRules` for
any types, confidences, times and bounds. `RoutedByRecentRules` speaks of the
finished decision; the invariant (`Sound`) follows the rules on their way: the
table is in `hist` as of now (`TableRecorded`), an answer is a table not older than
its question (`AnswerSound`), the cache one not older than `loadedAt` and of this
process (`CacheSound`), and what the consumer decides by is one of these or the
closed rules of a cold worker (`DecideSound`). That the cache is dated by the
question and not by the answer only makes it expire earlier.

`IndexerProofs` proves `IndexerTypeCorrect`, `PayloadStaysCurrent` and
`IndexingKeepsStars`, for any documents and bounds. `PayloadCurrent` excuses a stale
payload while there is work for the document; `Inv` says which work counts. While no call
has failed and the worker has stayed up, each document that was never in the trash either
is `Due` (a request has yet to ping, the propagation loop has yet to hand it over, a job is
in the queue, the consumer has yet to read the tags), or what the consumer has read of it
and what its chunks carry agree with its tags (`JobCurrent`, `ChunksCurrent`). This is required
of documents without chunks too, since a job in hand may be about to write them. That a
snapshot goes stale is no harm: whoever changed the tags has made the document due.

`SessionProofs` proves `SessionsFollowThePassword`: `Spec => []SessionIsOfThePassword` for
any browsers and passwords, any times and any number of changes. The property is
about the cookies a browser holds now, but a login that has read the row is going to make
one, after a change of the password perhaps. `Inv` therefore asks the same of both
(`CookiesSound`, `CallsSound`): a hash somebody holds is older than the row's, or equal to
it and then held together with the row's password (`Of`). A change makes a new hash, which
nobody holds, so it keeps `Of` for all hashes held; that is why a cookie needs the
fingerprint and not only an expiry.

`DocumentsProofs` proves the properties of the parts of `Documents`, for any number of
files, documents, users, pages, models, administrators and browsers:

* `RowsKeepToTheirName`, `SettledStaysSettled` (uploads): what a row claims of a name is
  true of some file of that name, and so is what each poll, each answer and each record is
  about to patch into it; a task or tag never goes back.
* `EmptyingLeavesNothing`, `NothingLostUnasked` (trash): what a request must destroy is in
  its list or on the pages it has yet to read, then in the list it sends, and once that is
  carried out nowhere (`Knows`). The pages shift while it reads them, as others delete and
  restore: a document put into the trash moves others to later pages only, one that leaves
  it may move one to a page already read, and nobody can say any more what the request owes
  (`Leaves`).
* `ReviewersEditsOnly` (form): the form holds what it was filled with or what was typed
  (`FilledOrTyped`), and what it was filled with is the detail, for every `Trim` and
  `Normal` of texts.
* `SavedModelsStay`, `ReadersFollow` (settings): the page and every request know only what was
  once in a table (`TablesHeld`); what the worker was answered, caches and gives was active when
  it asked, or later (`WorkerRecent`).
* `FiltersStartAtPageOne` (the library's page): the navigation under way already
  satisfies it against the URL it will replace, since a later one cancels it.
* `SignedInWithThePassword`: the theorem of `SessionProofs`, for the part.
* `LibraryListsTheMatches`: what a query asks of Paperless finds just the documents its badge,
  type and tags name (`MatchesAreWanted`). The ranks of the hits are numbers below how many
  there are, pages are disjoint intervals of numbers that cover them (`OnAPage`, `OnOnePage`),
  and so each document is on one page (`LibraryPages`). The statuses with one tag are
  promised of documents with one lifecycle tag: a stale page can leave a document with two,
  which then answers to both filters and shows one badge.
* `DocumentsTypeCorrect`: the types of every part, the pipeline's included, in one invariant
  (`TypesInv`). Three of them are more than types. A document is in the trash once: what a
  request takes away keeps a list injective (`WithoutKeepsTheRest`), what is deleted was not
  in it (`InsertedOnce`). A file is followed only when it was accepted (`NamedInv`). And the
  throttle of logins remembers fewer failures than `MaxFailures` plus the number of browsers:
  a login passes before its password is hashed and its failure counts after, so the
  invariant adds up failures and logins that are being hashed (`SessionTyped`).

`DocumentDataProofs` proves, besides `DocumentDataTypeCorrect`:

* `FieldsTypeCorrect`, `OneExtractionAtATime`, `OwnFieldsAreTheUsers`, for any fields,
  editors and bounds. As with the tags, an old array may be written back at any time, so
  both properties are required of every array somebody holds: each loop's snapshot and new
  values (`LoopsSound`), each edit's snapshot (`EditsSound`), whose values must never pass
  for an extraction. `AiMerge`, `ErrorMerge` and `EditMerge` say what the merges keep.
* `RowsOfOneType` (`TypeFieldsInv`): the row in the table and each row a writer has read have
  fields of their own type only, and what a writer brings has those of the type it names.
* `IdsAreOfTheirNames`, `CreatedTagsAreVisible` (`NamesInv`): every id somebody holds, in a
  cache, an answer or a call, is of its name or of a tag deleted since; every list held has
  the tags the process created before the list was asked for; and while the pages of a
  list are read, those of the owed tags whose place is on a page already read are in it.
  Paperless lists tags in the order of their names (`Order`), so a tag created meanwhile
  moves others to later pages, never to earlier ones.
* `PanelsAlwaysAgree` (`TwinsInv`): the comparison is symmetric, and what the worker found for
  the document it filed last is still what a search would find (`FiledMatches`).

`ServicesProofs` proves, besides `ServicesTypeCorrect`:

* `TheAnswerIsShown`, `SourcesAreRead` (`AskInv`): the records on the wire are a part of the
  answer to the latest question, and a final one carries sources out of a prompt that no
  longer changes.
* `ListIsComplete` (`ListInv`): while nothing has come or gone (`calm`), each page loaded and the
  one on its way is what would be listed now. The pages are defined by *rank*, how many
  documents come before; that they are disjoint and together everything is an induction
  over the number of pages.
* `RepliesAreRescued` (`LlmInv`): `repairTruncatedJson` closes the open brackets, the innermost
  first, wherever the text was cut; the lemmas on `Walk` follow the scan character by
  character. `recoverKeysForSchema` moves no value already under a key of the schema.

**Induction.** The library's induction theorems take an operator as a parameter, which the
provers here cannot instantiate. Where a proof needs induction over numbers it uses the
form with a *set*, `NatSetInduction` in `DocumentsProofs`: a set of numbers with 0 that is
closed under successors has them all, by the least number outside it. Recursive *functions*
(`Walk`, counting, pages) can be reasoned about this way, first that the function exists.
`RECURSIVE` operators and the folds of the community modules cannot, which is why modules
with theorems have none where a theorem needs to look inside.

**Assumptions**, each named where it stands, and evaluated by TLC in every run. Documents are
positive numbers, constants have their types, `Null` is no value it stands beside. Beyond
that, and why the code justifies it:

* `SettingsAssumption`: the worker's request (`AbortSignal.timeout(5_000)`) gives up before a
  cached model is too old (`CACHE_TTL_SECONDS = 60`, `active-model.ts`); a threshold is
  between 0 and 1 (`settings.schemas.ts:47`).
* `TrashAssumption`, `InboxAssumption`, `LibraryAssumption`: there are finitely many documents
  and a page has room; the lack of a document type is no type.
* `PageAssumption`: the filters of the library's URL may be empty.
* `NamesAssumption`: Paperless lists names in one order, each at a place of its own (they are
  unique).
* `AnswerAssumption`: `ANSWER_CONTEXT_SIZE` is 15 (`ai.service.ts:27`), `RAG_RERANK_TOP_K` lies
  between 1 and 50 (`settings.ts:85`).
* `SchemaAssumption`: `MAX_ATTEMPTS` is 2, and a schema is a list of keys.
* `SessionAssumption` (in `SessionProofs` the hypothesis `ConstantsOK` of its theorem): the
  bootstrap password is a password or `Null`; there are finitely many browsers, and the
  throttle lets one failure pass (`LOGIN_MAX_FAILURES = 10`, `login-throttle.ts:1`).

**Only model-checked.** Liveness and `ENABLED` are beyond the prover's reach:
`EventuallyClassified`, `ApprovedIsHandled`, `ShutdownCompletes`, `FiledIsIndexed`, `AnswerSettles`,
`BarSettles`, and the fairness in `MailboxServed` (its safety part is `StageIsMailbox`).
Every invariant and every action property of the passing runs is stated by a theorem.

## 5. What is not modelled

*Pure text and numbers*: the chunker, the embedder and the reranker; the parsers and
normalisers of dates and amounts (`ReviewForm`, `TypeFields` and `Duplicates` know their results); prompts and
synthesizers; how a question is classified and turned into a filter; text search,
dates and sorting of the library, which Paperless does. What they compute has no state and
no order, and tests reach it. *Input and output*: presentation, previews and downloads, the
deployment, bootstrap and backup scripts, the evaluation harness. *Cryptography* is
perfect in `Session`.

*Cut off*: `Pipeline` leaves out the native metadata, which decide nothing later, and sees
the tag cache of the API as the constant `KnownTags`, the rules' outcome as
nondeterministic (narrower in `AutoApprove`), the duplicate detector as the constant
`Cluster` (narrower in `Duplicates`). `Indexer` leaves out the pages of the reconcile and the
manual backfill. `Duplicates` has all of a correspondent's documents among the candidates; the
code looks at 200. A write that timed out is assumed to be applied at once or never.
Several worker processes are not considered: the deployment runs one. Paperless, Qdrant,
Postgres and the LLM are seen through the calls made to them. `PROJECT.json` lists every
component with its reason.

## 6. Plan

1. *Done.* `Tags`, `Pipeline`, `Mailbox`, `WorkerLoop`, `Indexer`, `CustomFields`,
   `AutoApprove`.
2. *Done.* The modules around the pipeline and their three sums.
3. *Done.* Proofs of the action properties and safety invariants of every part (section 4).
4. Next: abstract specifications of the trash and of the cache of names, shown to be
   implemented as `Mailbox` is by the queue; the bound of the login throttle, which is a part
   of `DocumentsTypeCorrect` so far, as a property of its own.
5. Larger instances of the parts one by one; a second administrator in `Settings`, a
   second user in `Trash`: the theorems hold for them already.
