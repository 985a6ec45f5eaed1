----------------------------- MODULE ReviewList -----------------------------
(***************************************************************************)
(* The list of documents to review: pages loaded one after the other while *)
(* documents come and go, a selection over what is loaded, and the bulk    *)
(* approval of the selection by a few lanes that share one cursor.         *)
(***************************************************************************)
EXTENDS Naturals, Sequences, SequencesExt, FiniteSetsExt, Functions

CONSTANTS
    Docs,         \* documents, the newest first
    PageSize,     \* pageSize
    Concurrency,  \* BULK_APPROVE_CONCURRENCY
    Null

VARIABLES
    pending,   \* Paperless: documents with ai-pending
    pages,     \* the pages loaded: documents and total
    loading,   \* a page on its way, or Null: number, documents, total, pages before it
    selected,  \* the user's selection
    bulk,      \* the bulk approval under way, or Null
    calm       \* no document has come or gone since the first page was read

vars == <<pending, pages, loading, selected, bulk, calm>>

Init ==
    /\ pending \in SUBSET Docs
    /\ pages = <<>>
    /\ loading = Null
    /\ selected = {}
    /\ bulk = Null
    /\ calm = FALSE

visibleIds == UNION {pages[i].docs : i \in DOMAIN pages}

-----------------------------------------------------------------------------
(* useInboxListInfinite *)

\* InboxService.listPending: the documents with the tag, cut into pages.
Before(d) == {e \in pending : e < d}
listPending(page) ==
    [page |-> page, total |-> Cardinality(pending),
     docs |-> {d \in pending : Cardinality(Before(d)) \in (page - 1) * PageSize..page * PageSize - 1}]

loadedRows(loaded) ==
    LET upTo[n \in 0..Len(loaded)] ==
            IF n = 0 THEN 0 ELSE upTo[n - 1] + Cardinality(loaded[n].docs)
    IN  upTo[Len(loaded)]

\* Mutant: the last document is not worth a page.
nextPageParamShort(loaded) ==
    IF loadedRows(loaded) + 1 >= Last(loaded).total THEN Null ELSE Last(loaded).page + 1

nextPageParam(loaded) ==
    IF loadedRows(loaded) >= Last(loaded).total THEN Null ELSE Last(loaded).page + 1

\* A fetch of the first page begins a new list; one after an invalidation then reads as
\* many pages as were loaded.
Load(n, before, upTo) ==
    /\ loading' = [got |-> listPending(n), before |-> before, upTo |-> upTo]
    /\ calm' = IF n = 1 THEN TRUE ELSE calm

\* At first, after every change the page knows of, and when the window gets the focus.
Refetch ==
    /\ Load(1, <<>>, IF pages = <<>> THEN 1 ELSE Len(pages))
    /\ UNCHANGED <<pending, pages, selected, bulk>>

loadMore ==
    /\ loading = Null /\ pages # <<>> /\ nextPageParam(pages) # Null
    /\ Load(nextPageParam(pages), pages, Len(pages) + 1)
    /\ UNCHANGED <<pending, pages, selected, bulk>>

\* The pages become visible together.
Loaded ==
    /\ loading # Null
    /\ LET got == Append(loading.before, loading.got) IN
       IF Len(got) < loading.upTo /\ nextPageParam(got) # Null
       THEN Load(nextPageParam(got), got, loading.upTo) /\ UNCHANGED pages
       ELSE pages' = got /\ loading' = Null /\ UNCHANGED calm
    /\ UNCHANGED <<pending, selected, bulk>>

LoadFails ==
    /\ loading # Null
    /\ loading' = Null
    /\ calm' = FALSE
    /\ UNCHANGED <<pending, pages, selected, bulk>>

-----------------------------------------------------------------------------
(* The selection *)

\* Documents that have left the list are not selected any more; an empty list keeps all.
pruneSelection == IF visibleIds = {} THEN selected ELSE selected \cap visibleIds

toggleOne ==
    /\ \E d \in visibleIds : selected' = SymDiff(selected, {d})
    /\ UNCHANGED <<pending, pages, loading, bulk, calm>>

toggleAll ==
    /\ visibleIds # {}
    /\ selected' = IF visibleIds \subseteq pruneSelection THEN {} ELSE visibleIds
    /\ UNCHANGED <<pending, pages, loading, bulk, calm>>

clearSelection ==
    /\ selected # {} /\ bulk = Null
    /\ selected' = {}
    /\ UNCHANGED <<pending, pages, loading, bulk, calm>>

-----------------------------------------------------------------------------
(* The bulk approval *)

\* The documents in the order they were selected in.
onBulkApprove ==
    /\ bulk = Null /\ visibleIds # {} /\ pruneSelection # {}
    /\ \E ids \in [1..Cardinality(pruneSelection) -> pruneSelection] :
        /\ IsInjective(ids)
        /\ bulk' = [ids |-> ids, cursor |-> 1, running |-> {}, ok |-> {}]
    /\ UNCHANGED <<pending, pages, loading, selected, calm>>

lanes == IF Len(bulk.ids) < Concurrency THEN Len(bulk.ids) ELSE Concurrency

\* A lane takes the document at the cursor and moves the cursor on, in one go.
TakeNext ==
    /\ bulk # Null /\ bulk.cursor <= Len(bulk.ids) /\ Cardinality(bulk.running) < lanes
    /\ bulk' = [bulk EXCEPT !.cursor = @ + 1, !.running = @ \cup {bulk.ids[bulk.cursor]}]
    /\ UNCHANGED <<pending, pages, loading, selected, calm>>

\* The API approves, or does not; an approval whose answer is lost counts as failed.
Approve ==
    /\ bulk # Null
    /\ \E d \in bulk.running :
        \/ /\ pending' = pending \ {d}
           /\ calm' = (calm /\ d \notin pending)
           /\ \E ok \in {{}, {d}} :
                bulk' = [bulk EXCEPT !.running = @ \ {d}, !.ok = @ \cup ok]
        \/ /\ bulk' = [bulk EXCEPT !.running = @ \ {d}]
           /\ UNCHANGED <<pending, calm>>
    /\ UNCHANGED <<pages, loading, selected>>

\* What succeeded leaves the selection as it is by then.
BulkEnds ==
    /\ bulk # Null /\ bulk.cursor > Len(bulk.ids) /\ bulk.running = {}
    /\ selected' = selected \ bulk.ok
    /\ bulk' = Null
    /\ UNCHANGED <<pending, pages, loading, calm>>

\* The worker finishes an extraction; a reviewer elsewhere decides.
OthersMove ==
    /\ \E d \in Docs : pending' = SymDiff(pending, {d})
    /\ calm' = FALSE
    /\ UNCHANGED <<pages, loading, selected, bulk>>

Next ==
    \/ Refetch \/ loadMore \/ Loaded \/ LoadFails
    \/ toggleOne \/ toggleAll \/ clearSelection
    \/ onBulkApprove \/ TakeNext \/ Approve \/ BulkEnds
    \/ OthersMove

Spec == Init /\ [][Next]_vars
-----------------------------------------------------------------------------
Pages == [page : Nat \ {0}, total : Nat, docs : SUBSET Docs]
Loads == [got : Pages, before : Seq(Pages), upTo : Nat]

TypeOK ==
    /\ pages \in Seq(Pages)
    /\ loading \in Loads \cup {Null}
    /\ pending \subseteq Docs /\ selected \subseteq Docs
    /\ bulk # Null => bulk.running \cup bulk.ok \subseteq ToSet(bulk.ids)

\* When nothing has come or gone since the first page and no more is offered, all there is
\* to review is shown, however pages were loaded, refetched and lost
\* (review-form.ts: nextPageParam; useInfiniteQuery).
NothingWithheld ==
    calm /\ loading = Null /\ pages # <<>> /\ nextPageParam(pages) = Null => visibleIds = pending
=============================================================================
