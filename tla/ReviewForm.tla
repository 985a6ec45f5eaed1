----------------------------- MODULE ReviewForm -----------------------------
(***************************************************************************)
(* The form of the review page and of the document page.  It is filled     *)
(* from the detail the query cache holds, refilled field by field when     *)
(* that changes, and what differs from the detail is sent: to approve the  *)
(* document, or to save it.  The worker and other users change the fields  *)
(* meanwhile, fetches overtake saves, and an answer may arrive when the    *)
(* user has moved on to another document.                                  *)
(***************************************************************************)
CONSTANTS
    Docs,    \* documents of the list
    Fields,  \* FORM_FIELDS
    Values,  \* texts, with "" for none
    Trim,    \* a text without blanks around it
    Normal,  \* what Paperless is given for a text (normaliseFieldValues)
    Null

VARIABLES
    stored,    \* Paperless: the fields, by document
    detail,    \* query cache: the fields last received, by document, or Null
    fetching,  \* the detail on its way: document and fields, or Null
    open,      \* the document of the page, or Null
    form,      \* the texts in the form
    hydrated,  \* lastHydrated, or Null
    request,   \* the approval, rejection or save under way, or Null
    typed      \* texts the user has typed since the page opened or the form was reset

vars == <<stored, detail, fetching, open, form, hydrated, request, typed>>

EMPTY_FORM == [f \in Fields |-> ""]
Untouched == [f \in Fields |-> Null]

Init ==
    /\ stored \in [Docs -> [Fields -> {Normal[v] : v \in Values}]]
    /\ detail = [d \in Docs |-> Null]
    /\ fetching = Null
    /\ open = Null
    /\ form = EMPTY_FORM
    /\ hydrated = Null
    /\ request = Null
    /\ typed = Untouched

-----------------------------------------------------------------------------
(* useHydratedForm *)

\* Mutant: only an empty form is filled.
mergeNothing(current, last, next) == IF last = Null THEN next ELSE current

\* A field follows the detail unless it differs from what it was last filled with.
mergeHydration(current, last, next) ==
    IF last = Null THEN next
    ELSE [f \in Fields |-> IF current[f] = last[f] THEN next[f] ELSE current[f]]

\* The cache has a detail of document d.
Receive(d, fields) ==
    /\ detail' = [detail EXCEPT ![d] = fields]
    /\ IF d = open
       THEN form' = mergeHydration(form, hydrated, fields) /\ hydrated' = fields
       ELSE UNCHANGED <<form, hydrated>>

\* What is sent: the texts that differ, trimmed, from the detail.
buildDirtyPatch ==
    IF open = Null \/ detail[open] = Null THEN <<>>
    ELSE [f \in {f \in Fields : Trim[form[f]] # Trim[detail[open][f]]} |-> Trim[form[f]]]

dirty == DOMAIN buildDirtyPatch # {}

\* A page of its own for every document, filled at once from the cache.
OpenPage(d) ==
    /\ open' = d
    /\ LET known == IF d = Null THEN Null ELSE detail'[d] IN
        /\ form' = IF known = Null THEN EMPTY_FORM ELSE known
        /\ hydrated' = known
    /\ typed' = Untouched

-----------------------------------------------------------------------------
(* The user *)

\* From a list, or with the keys for the next and the previous document.
Open ==
    /\ \E d \in Docs \cup {Null} : d # open /\ UNCHANGED detail /\ OpenPage(d)
    /\ UNCHANGED <<stored, fetching, request>>

\* The form is shown once there is a detail.
setField ==
    /\ hydrated # Null
    /\ \E f \in Fields, v \in Values :
        /\ v # form[f]
        /\ form' = [form EXCEPT ![f] = v]
        /\ typed' = [typed EXCEPT ![f] = v]
    /\ UNCHANGED <<stored, detail, fetching, open, hydrated, request>>

reset ==
    /\ dirty /\ request = Null
    /\ form' = detail[open]
    /\ typed' = Untouched
    /\ UNCHANGED <<stored, detail, fetching, open, hydrated, request>>

Request(kind, patch) ==
    /\ request = Null
    /\ request' = [kind |-> kind, doc |-> open, patch |-> patch, at |-> "sent"]
    /\ UNCHANGED <<stored, detail, fetching, open, form, hydrated, typed>>

onSave == dirty /\ Request("save", buildDirtyPatch)

onApprove == hydrated # Null /\ Request("review", buildDirtyPatch)

onReject == hydrated # Null /\ Request("review", <<>>)

-----------------------------------------------------------------------------
(* The API and its answers *)

\* applyFieldUpdate, approve, reject: the fields of the patch are merged into the rest.
Apply ==
    /\ request # Null /\ request.at = "sent"
    /\ LET fields == [f \in Fields |-> IF f \in DOMAIN request.patch
                                       THEN Normal[request.patch[f]] ELSE stored[request.doc][f]]
       IN  /\ stored' = [stored EXCEPT ![request.doc] = fields]
           /\ request' = [request EXCEPT !.at = "applied", !.patch = fields]
    /\ UNCHANGED <<detail, fetching, open, form, hydrated, typed>>

\* The answer of a save is the new detail.
Saved ==
    /\ request # Null /\ request.at = "applied" /\ request.kind = "save"
    /\ Receive(request.doc, request.patch)
    /\ request' = Null
    /\ UNCHANGED <<stored, fetching, open, typed>>

\* After an approval or a rejection the next document of the list is opened, wherever
\* the user is by then.
Reviewed ==
    /\ request # Null /\ request.at = "applied" /\ request.kind = "review"
    /\ UNCHANGED detail
    /\ \E d \in (Docs \cup {Null}) \ {request.doc} : OpenPage(d)
    /\ request' = Null
    /\ UNCHANGED <<stored, fetching>>

\* The page stays as it is, also when the request has been carried out.
Failed ==
    /\ request # Null
    /\ request' = Null
    /\ UNCHANGED <<stored, detail, fetching, open, form, hydrated, typed>>

\* getDetail; a detail is fetched again after every change the page knows of.
FetchStarts ==
    /\ fetching = Null
    /\ \E d \in Docs : fetching' = [doc |-> d, fields |-> stored[d]]
    /\ UNCHANGED <<stored, detail, open, form, hydrated, request, typed>>

Fetched ==
    /\ fetching # Null
    /\ \/ Receive(fetching.doc, fetching.fields)
       \/ UNCHANGED <<detail, form, hydrated>>
    /\ fetching' = Null
    /\ UNCHANGED <<stored, open, request, typed>>

\* The worker, another tab.
OthersWrite ==
    /\ \E d \in Docs, f \in Fields, v \in Values : stored' = [stored EXCEPT ![d][f] = Normal[v]]
    /\ UNCHANGED <<detail, fetching, open, form, hydrated, request, typed>>

Next ==
    \/ Open \/ setField \/ reset \/ onSave \/ onApprove \/ onReject
    \/ Apply \/ Saved \/ Reviewed \/ Failed \/ FetchStarts \/ Fetched \/ OthersWrite

Spec == Init /\ [][Next]_vars

-----------------------------------------------------------------------------
Texts == [Fields -> Values]

TypeOK ==
    /\ stored \in [Docs -> Texts]
    /\ detail \in [Docs -> Texts \cup {Null}]
    /\ open \in Docs \cup {Null}
    /\ form \in Texts /\ hydrated \in Texts \cup {Null}
    /\ open # Null => hydrated = detail[open]

\* Nothing goes out as the reviewer's edit that the reviewer has not typed, however often
\* the detail changes under the form (mergeHydration and buildDirtyPatch: a field left
\* alone follows the detail, so it is never sent back over a newer value).
EditsWereTyped ==
    \A f \in DOMAIN buildDirtyPatch : typed[f] # Null /\ buildDirtyPatch[f] = Trim[typed[f]]
=============================================================================
