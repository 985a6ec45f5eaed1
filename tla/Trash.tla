-------------------------------- MODULE Trash --------------------------------
(***************************************************************************)
(* The trash: documents a user deleted stay in Paperless' trash until they *)
(* are restored, deleted forever one by one, or the trash is emptied.      *)
(* Emptying lists the trash page by page, sends the list back, and then    *)
(* removes each document's chunks from the vector store; other users       *)
(* delete and restore documents meanwhile.                                 *)
(***************************************************************************)
EXTENDS Naturals, SequencesExt, Listings

CONSTANTS
    Docs,
    Users,     \* one browser page each
    PageSize,  \* documents on a page of the API's listing
    Null

VARIABLES
    library,  \* documents in the library
    trash,    \* documents in the trash, in the order Paperless lists them
    chunks,   \* documents with chunks in the vector store
    call,     \* the user's request, as the API handles it
    rows,     \* page: rows of the last listing
    confirm,  \* page: the row, or "all", that asks for a second click
    due       \* history: what the user's request must destroy, as far as that is known

vars == <<library, trash, chunks, call, rows, confirm, due>>
page == <<rows, confirm>>

Idle == [stage |-> "idle", ids |-> <<>>, page |-> 1]

Init ==
    /\ library \in SUBSET Docs
    /\ trash \in SetToSeqs(Docs \ library)
    /\ chunks = Docs
    /\ call = [u \in Users |-> Idle]
    /\ rows = [u \in Users |-> {}]
    /\ confirm = [u \in Users |-> Null]
    /\ due = [u \in Users |-> {}]

Enter(u, stage, ids) == call' = [call EXCEPT ![u] = [stage |-> stage, ids |-> ids, page |-> 1]]

\* What an empty() that still lists will destroy is unknown once a document has left the trash.
Leaves == due' = [u \in Users |-> IF call[u].stage = "listing" THEN {} ELSE due[u]]

-----------------------------------------------------------------------------
(* Other requests, and the page *)

\* Paperless moves the document to the trash; the chunks stay.
deleteDocument(d) ==
    /\ d \in library
    /\ library' = library \ {d}
    /\ \E i \in 1..Len(trash) + 1 : trash' = InsertAt(trash, i, d)
    /\ UNCHANGED <<chunks, call, page, due>>

\* In Paperless' own interface.
RestoredElsewhere(d) ==
    /\ Contains(trash, d)
    /\ trash' = Without(trash, {d})
    /\ library' = library \cup {d}
    /\ Leaves
    /\ UNCHANGED <<chunks, call, page>>

listTrashed(u) ==
    /\ rows' = [rows EXCEPT ![u] = ToSet(trash)]
    /\ UNCHANGED <<library, trash, chunks, call, confirm, due>>

onRestore(u, d) ==
    /\ call[u] = Idle /\ d \in rows[u]
    /\ Enter(u, "restore", <<d>>)
    /\ UNCHANGED <<library, trash, chunks, page, due>>

\* The first click asks for a second one.
onDelete(u, d) ==
    /\ call[u] = Idle /\ d \in rows[u]
    /\ IF confirm[u] # d
       THEN confirm' = [confirm EXCEPT ![u] = d] /\ UNCHANGED <<call, due>>
       ELSE /\ confirm' = [confirm EXCEPT ![u] = Null]
            /\ Enter(u, "destroy", <<d>>)
            /\ due' = [due EXCEPT ![u] = {d}]
    /\ UNCHANGED <<library, trash, chunks, rows>>

onEmpty(u) ==
    /\ call[u] = Idle /\ rows[u] # {}
    /\ IF confirm[u] # "all"
       THEN confirm' = [confirm EXCEPT ![u] = "all"] /\ UNCHANGED <<call, due>>
       ELSE /\ confirm' = [confirm EXCEPT ![u] = Null]
            /\ Enter(u, "listing", <<>>)
            /\ due' = [due EXCEPT ![u] = ToSet(trash)]
    /\ UNCHANGED <<library, trash, chunks, rows>>

-----------------------------------------------------------------------------
(* TrashService *)

restore(u) ==
    /\ call[u].stage = "restore"
    /\ Enter(u, "idle", <<>>)
    /\ LET d == call[u].ids[1] IN
       IF Contains(trash, d)
       THEN /\ trash' = Without(trash, {d})
            /\ library' = library \cup {d}
            /\ Leaves
       ELSE UNCHANGED <<trash, library, due>>  \* "Document not in trash"
    /\ UNCHANGED <<chunks, page>>

\* Mutant: the first page is taken for all of them.
listFirstPage(u) ==
    /\ call[u].stage = "listing"
    /\ LET ids == SubSeq(trash, 1, IF Len(trash) < PageSize THEN Len(trash) ELSE PageSize)
       IN Enter(u, IF ids = <<>> THEN "idle" ELSE "destroy", ids)
    /\ UNCHANGED <<library, trash, chunks, page, due>>

\* Mutant: the list is sent whatever it holds.
listAndSend(u) ==
    /\ call[u].stage = "listing" /\ Len(trash) <= call[u].page * PageSize
    /\ Enter(u, "destroy", call[u].ids \o SubSeq(trash, (call[u].page - 1) * PageSize + 1, Len(trash)))
    /\ UNCHANGED <<library, trash, chunks, page, due>>

\* One page; the next one only while Paperless names one.  An empty trash ends the request:
\* to Paperless an empty list means every document.
listAllTrashedIds(u) ==
    /\ call[u].stage = "listing"
    /\ LET from == (call[u].page - 1) * PageSize
           to == from + PageSize
           ids == call[u].ids \o SubSeq(trash, from + 1, IF to < Len(trash) THEN to ELSE Len(trash))
       IN IF to < Len(trash)
          THEN call' = [call EXCEPT ![u].ids = ids, ![u].page = @ + 1]
          ELSE Enter(u, IF ids = <<>> THEN "idle" ELSE "destroy", ids)
    /\ UNCHANGED <<library, trash, chunks, page, due>>

\* Paperless reads an empty list as every document, and takes a list in order: it refuses
\* the list at a document that is not, or no longer, in the trash.
Taken(ids) ==
    LET fits(n) == n = 0 \/ (ids[n] \in ToSet(trash) /\ \A i \in 1..(n - 1) : ids[i] # ids[n])
    IN CHOOSE n \in 0..Len(ids) :
           (\A i \in 1..n : fits(i)) /\ (n = Len(ids) \/ ~fits(n + 1))

emptyTrash(u) ==
    /\ call[u].stage = "destroy"
    /\ LET ids == IF call[u].ids = <<>> THEN trash ELSE call[u].ids
           left == ToSet(SubSeq(ids, 1, Taken(ids)))
       IN /\ IF left = {} THEN UNCHANGED <<trash, due>> ELSE trash' = Without(trash, left) /\ Leaves
          /\ IF Taken(ids) = Len(ids) THEN Enter(u, "purge", call[u].ids) ELSE Enter(u, "idle", <<>>)
    /\ UNCHANGED <<library, chunks, page>>

\* One document; a failure of the store is logged.
purgeChunks(u) ==
    /\ call[u].stage = "purge"
    /\ chunks' \in {chunks, chunks \ {call[u].ids[1]}}
    /\ LET rest == Tail(call[u].ids) IN Enter(u, IF rest = <<>> THEN "idle" ELSE "purge", rest)
    /\ UNCHANGED <<library, trash, page, due>>

\* A request to Paperless fails; a destroying one may have been carried out before its answer
\* was lost.
RequestFails(u) ==
    /\ call[u].stage \in {"restore", "listing", "destroy"}
    /\ Enter(u, "idle", <<>>)
    /\ \/ UNCHANGED <<trash, due>>
       \/ /\ call[u].stage = "destroy" /\ Taken(call[u].ids) = Len(call[u].ids)
          /\ trash' = Without(trash, ToSet(call[u].ids))
          /\ Leaves
    /\ UNCHANGED <<library, chunks, page>>

Next ==
    \/ \E d \in Docs : deleteDocument(d) \/ RestoredElsewhere(d)
    \/ \E u \in Users :
        \/ listTrashed(u) \/ onEmpty(u)
        \/ \E d \in Docs : onRestore(u, d) \/ onDelete(u, d)
        \/ restore(u) \/ listAllTrashedIds(u) \/ emptyTrash(u) \/ purgeChunks(u)
        \/ RequestFails(u)

Spec == Init /\ [][Next]_vars

-----------------------------------------------------------------------------
TypeOK ==
    /\ library \subseteq Docs /\ chunks \subseteq Docs
    /\ ToSet(trash) \subseteq Docs \ library /\ IsInjective(trash)
    /\ \A u \in Users :
        /\ call[u].stage \in {"idle", "restore", "listing", "destroy", "purge"}
        /\ ToSet(call[u].ids) \subseteq Docs
        /\ rows[u] \subseteq Docs
        /\ confirm[u] \in Docs \cup {"all", Null}
        /\ due[u] \subseteq Docs

\* When empty() or deleteForever() has been carried out, nothing it was to destroy is left:
\* every document that was in the trash when empty() began, unless one left the trash while
\* it listed (trash.service.ts: listAllTrashedIds follows every page; documents trashed
\* meanwhile shift the pages, which repeats documents and makes Paperless refuse the list).
EmptiedAll ==
    \A u \in Users :
        call[u].stage = "purge" => due[u] \cap (ToSet(trash) \cup library) = {}

\* Nothing is lost that no request named: a document leaves Paperless only while a request
\* holds its id, and its chunks go only once it has left (trash.service.ts: purgeChunks comes
\* after emptyTrash, and an empty list is never sent).
AsAsked ==
    \A d \in Docs :
        /\ d \in library \cup ToSet(trash) /\ d \notin library' \cup ToSet(trash')
            => \E u \in Users : Contains(call[u].ids, d)
        /\ d \in chunks \ chunks' => d \notin library \cup ToSet(trash)

LostAsAsked == [][AsAsked]_vars

=============================================================================
