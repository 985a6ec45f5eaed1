------------------------------- MODULE Library -------------------------------
(***************************************************************************)
(* The library: one page of the documents that match the filters, with the *)
(* documents the worker is busy with on top, and the cloud of tags offered *)
(* as filters.  Paperless filters by tag ids, which the API finds by name  *)
(* among the tags that exist.                                              *)
(*                                                                         *)
(* Text, dates and ordering are handed to Paperless as they are and are    *)
(* left out; a correspondent is filtered like a document type, except that *)
(* an unknown one is searched for in the text.                             *)
(***************************************************************************)
EXTENDS Integers, FiniteSets, Tags

CONSTANTS
    Docs,      \* numbers, in the order of Paperless' lists
    TypeOf,    \* TypeOf[d]: the native document type
    Types,     \* document types that exist
    TagSets,   \* sets of tags a document may carry
    PAGE_SIZE,
    NoType

VARIABLES
    tagsOf,    \* tags of each document
    existing,  \* tags that exist in Paperless
    inFlight   \* documents the worker processes

vars == <<tagsOf, existing, inFlight>>

ERROR_TAGS == {"ai-error", "ai-propagation-error", "ai-index-error"}
LIBRARY_STATUSES == {"error", "unprocessed", "approved", "done", "rejected"}
BADGE_TAGS == (LIFECYCLE_TAGS \ {"ai-pending"}) \cup {"ai-auto-approved", "ai-duplicate"}
INTERNAL_TAGS ==
    LIFECYCLE_TAGS \cup {"ai-low-confidence", "ai-auto-approved", "ai-duplicate",
                         "ai-duplicate-dismissed", "ai-index-error"}
FACET_MIN_COUNT == 2

Init ==
    /\ tagsOf = [d \in Docs |-> {}]
    /\ existing = {}
    /\ inFlight = {}

\* What Paperless is asked for: tags of which one, none, and all must be there.
Ask(one, none, all) == [one |-> one, none |-> none, all |-> all]

SINGLE_TAG_STATUS ==
    [approved |-> "ai-approved", done |-> "ai-propagated", rejected |-> "ai-rejected"]

\* Mutant: a status whose tag does not exist asks for nothing in particular.
statusUnfiltered(status) ==
    CASE status = "" -> {Ask({}, {}, {})}
      [] status = "unprocessed" -> {Ask({}, LIFECYCLE_TAGS \cap existing, {})}
      [] status = "error" -> {Ask(ERROR_TAGS \cap existing, {}, {})}
      [] OTHER -> {Ask({}, {}, {SINGLE_TAG_STATUS[status]} \cap existing)}

\* Empty when the status cannot match anything because its tag does not exist yet.
statusFilter(status) ==
    CASE status = "" -> {Ask({}, {}, {})}
      [] status = "unprocessed" -> {Ask({}, LIFECYCLE_TAGS \cap existing, {})}
      [] status = "error" -> {Ask(one, {}, {}) : one \in {ERROR_TAGS \cap existing} \ {{}}}
      [] OTHER -> {Ask({}, {}, {tag}) : tag \in {SINGLE_TAG_STATUS[status]} \cap existing}

\* The documents Paperless finds.  A type that does not exist filters nothing.
searchDocuments(ask, type) ==
    {d \in Docs : /\ ask.one = {} \/ tagsOf[d] \cap ask.one # {}
                  /\ tagsOf[d] \cap ask.none = {}
                  /\ ask.all \subseteq tagsOf[d]
                  /\ type \in Types => TypeOf[d] = type}

totalPages(total) == IF total = 0 THEN 1 ELSE (total + PAGE_SIZE - 1) \div PAGE_SIZE

\* Paperless cuts its list into pages.
pageOf(hits, page) ==
    {d \in hits : Cardinality({e \in hits : e < d})
                     \in (page - 1) * PAGE_SIZE .. page * PAGE_SIZE - 1}

\* What the filters of q find; nothing when a status or a tag asked for does not exist.
matches(q) ==
    IF ~(q.tags \subseteq existing) THEN {}
    ELSE UNION {searchDocuments(Ask(ask.one, ask.none \cup ({"ai-pending"} \cap existing),
                                    ask.all \cup q.tags), q.type) : ask \in statusFilter(q.status)}

\* Documents in work are put on top of the first page, whatever the filters but the status.
pinned(q, page) ==
    IF page = 1 /\ q.status = "" /\ q.tags \subseteq existing THEN inFlight ELSE {}

listLibrary(q, page) ==
    [top |-> pinned(q, page), rest |-> pageOf(matches(q), page) \ pinned(q, page)]

\* The badge: what its label says of the document.
classify(lifecycle) ==
    IF lifecycle \cap {"ai-error", "ai-propagation-error"} # {} THEN "error"
    ELSE IF "ai-rejected" \in lifecycle THEN "rejected"
    ELSE IF "ai-pending" \in lifecycle THEN "review"
    ELSE IF "ai-approved" \in lifecycle THEN "approved"   \* auto-approved or not
    ELSE IF "ai-propagated" \in lifecycle THEN "done"
    ELSE IF "ai-auto-approved" \in lifecycle THEN "auto-approved"
    ELSE IF "ai-low-confidence" \in lifecycle THEN "low confidence"
    ELSE "unprocessed"

project(d) == [badge |-> classify(tagsOf[d] \cap BADGE_TAGS), tags |-> tagsOf[d] \ INTERNAL_TAGS]

listTagFacet ==
    LET sample == {d \in Docs : "ai-pending" \notin tagsOf[d]}
    IN {t \in (UNION {tagsOf[d] : d \in sample}) \ INTERNAL_TAGS :
            Cardinality({d \in sample : t \in tagsOf[d]}) >= FACET_MIN_COUNT}

listTypeFacet == {type \in Types : \E d \in Docs : TypeOf[d] = type}

-----------------------------------------------------------------------------
\* The worker, a reviewer or the user changes the tags of a document.
Retag(d) ==
    /\ \E tags \in TagSets :
        /\ tagsOf' = [tagsOf EXCEPT ![d] = tags]
        /\ existing' = existing \cup tags
    /\ UNCHANGED inFlight

Process(d) ==
    /\ inFlight' = IF d \in inFlight THEN inFlight \ {d} ELSE inFlight \cup {d}
    /\ UNCHANGED <<tagsOf, existing>>

Next == \E d \in Docs : Retag(d) \/ Process(d)

Spec == Init /\ [][Next]_vars

-----------------------------------------------------------------------------
TypeOK ==
    /\ tagsOf \in [Docs -> SUBSET existing] /\ existing \subseteq Tag
    /\ inFlight \subseteq Docs

Queries ==
    [status : LIBRARY_STATUSES \cup {""}, type : Types \cup {NoType}, tags : SUBSET USER_TAGS]

\* What a user who set the filters of q expects to find.
Wanted(q) ==
    {d \in Docs : /\ "ai-pending" \notin tagsOf[d]
                  /\ q.type # NoType => TypeOf[d] = q.type
                  /\ q.tags \subseteq project(d).tags
                  /\ \/ q.status = "" \/ q.status = project(d).badge
                     \/ q.status = "error" /\ "ai-index-error" \in tagsOf[d]}

\* One lifecycle tag at most, and approved by a rule only if approved.  A stale page may leave
\* a document with two: each of their filters finds it, and its badge is one of them.
InOneState(d) ==
    /\ \A s, t \in tagsOf[d] \cap LIFECYCLE_TAGS : s = t
    /\ "ai-auto-approved" \in tagsOf[d] => tagsOf[d] \cap LIFECYCLE_TAGS # {}

\* The pages of a filter together hold exactly the documents whose badge, type and tags it
\* names (a failed indexing counts as an error though no badge says so), each on one page and
\* once; only the documents in work, on top of the first page, are there whatever they are.
\* And a tag of the cloud finds as many documents as it must have to be there
\* (library.service.ts: listLibrary, listTagFacet; status-tags.ts: statusFilter; badge.ts).
ListsTheMatches ==
    /\ \A q \in Queries :
        LET pages == 1..totalPages(Cardinality(matches(q)))
            listed == UNION {listLibrary(q, page).rest : page \in pages}
        IN /\ \A d \in Docs \ listLibrary(q, 1).top :
                q.status \in {"", "error"} \/ InOneState(d) => (d \in listed <=> d \in Wanted(q))
           /\ \A page \in pages :
                /\ listLibrary(q, page).top \cap listLibrary(q, page).rest = {}
                /\ \A other \in pages \ {page} :
                        listLibrary(q, page).rest \cap listLibrary(q, other).rest = {}
    /\ \A t \in listTagFacet :
        Cardinality(Wanted([status |-> "", type |-> NoType, tags |-> {t}])) >= FACET_MIN_COUNT
=============================================================================
