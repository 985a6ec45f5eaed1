----------------------------- MODULE Duplicates ------------------------------
(***************************************************************************)
(* Documents that look like duplicates.  The worker compares a document    *)
(* it files with those already filed and marks both sides of a match; the  *)
(* page of a marked document asks the API, which searches anew, with the   *)
(* tags, fields and correspondents of that moment.  Users dismiss a mark,  *)
(* correct fields, and delete documents in between.                        *)
(***************************************************************************)
EXTENDS Naturals

CONSTANTS
    Docs,
    Contents,    \* AI fields: correspondent, issueDate, documentType, refs, amount
    Trim,        \* Trim[t]: a text without blanks around it
    Lower,       \* Lower[t]: a trimmed text without regard to case
    Close,       \* pairs of amounts that AMOUNT_TOLERANCE takes for equal
    MaxChanges,  \* bound: what users and extractions do
    Null

VARIABLES
    fields,   \* AI fields of each document
    native,   \* its correspondent in Paperless, or Null
    tags,     \* its tags
    trashed,  \* documents in the trash
    prop,     \* the worker filing a document: step, tags read, matches; or Null
    filed,    \* history: the last document filed and its matches, until anything else changes
    changes   \* bound: changes so far

vars == <<fields, native, tags, trashed, prop, filed, changes>>

Init ==
    /\ fields \in [Docs -> Contents]
    /\ native = [d \in Docs |-> Null]
    /\ tags = [d \in Docs |-> {"ai-approved"}]
    /\ trashed = {}
    /\ prop = Null
    /\ filed = Null
    /\ changes = 0

Present == Docs \ trashed

-----------------------------------------------------------------------------
(* dedup.ts *)

normText(text) == Lower[Trim[text]]

\* Equal, or so close that the difference of the binary fractions is within the tolerance.
amountMatches(a, b) == a # Null /\ b # Null /\ (a = b \/ {a, b} \in Close)

\* References are sets, without blanks, case and empty entries.
refsMatch(a, b) == a \cap b # {}

\* Mutant: a document without a type is compared with one of any type only as the candidate.
typesAgreeOneWay(new, cand) ==
    normText(new) = "" \/ normText(new) = normText(cand)

\* A missing type agrees with every type.
typesAgree(new, cand) ==
    "" \in {normText(new), normText(cand)} \/ normText(new) = normText(cand)

findDuplicates(new, candidates) ==
    {e \in candidates :
        /\ normText(new.correspondent) # "" /\ new.issueDate # ""
        /\ normText(fields[e].correspondent) = normText(new.correspondent)
        /\ fields[e].issueDate = new.issueDate
        /\ typesAgree(new.documentType, fields[e].documentType)
        /\ amountMatches(new.amount, fields[e].amount) \/ refsMatch(new.refs, fields[e].refs)}

\* The filed documents of a correspondent that nobody has declared to be no duplicates.
candidates(d, correspondent) ==
    {e \in Present \ {d} : /\ native[e] = correspondent
                           /\ "ai-propagated" \in tags[e]
                           /\ "ai-duplicate-dismissed" \notin tags[e]}

-----------------------------------------------------------------------------
(* The worker *)

\* Correspondents are found or created by the exact name.
correspondentOf(d) == LET name == Trim[fields[d].correspondent] IN IF name = "" THEN Null ELSE name

findDuplicateIds(d) ==
    IF correspondentOf(d) = Null \/ "ai-duplicate-dismissed" \in tags[d] THEN {}
    ELSE findDuplicates(fields[d], candidates(d, correspondentOf(d)))

\* processApprovedDocument up to the search, which may fail: then there are no matches.
Search(d) ==
    /\ prop = Null
    /\ d \in Present /\ "ai-approved" \in tags[d]
    /\ \E found \in {{}, findDuplicateIds(d)} :
          /\ prop' = [doc |-> d, seen |-> tags[d], native |-> correspondentOf(d),
                      matches |-> found, left |-> found, step |-> "patch"]
          /\ filed' = IF found = findDuplicateIds(d) THEN [doc |-> d, matches |-> found] ELSE Null
    /\ UNCHANGED <<fields, native, tags, trashed, changes>>

\* The PATCH of the native fields.
File ==
    /\ prop # Null /\ prop.step = "patch"
    /\ native' = [native EXCEPT ![prop.doc] = prop.native]
    /\ tags' = [tags EXCEPT ![prop.doc] =
                   (prop.seen \ {"ai-approved"}) \cup {"ai-propagated"}
                       \cup IF prop.matches = {} THEN {} ELSE {"ai-duplicate"}]
    /\ prop' = [prop EXCEPT !.step = "mark"]
    /\ UNCHANGED <<fields, trashed, filed, changes>>

\* addTagToDocument for one match; a failure is logged.
MarkMatch(e) ==
    /\ prop # Null /\ prop.step = "mark" /\ e \in prop.left
    /\ prop' = [prop EXCEPT !.left = @ \ {e}]
    /\ \/ tags' = [tags EXCEPT ![e] = @ \cup {"ai-duplicate"}]
       \/ UNCHANGED tags
    /\ UNCHANGED <<fields, native, trashed, filed, changes>>

\* The document is done, or a call failed on the way.
PropagationEnds ==
    /\ prop # Null /\ (prop.step = "mark" => prop.left = {})
    /\ prop' = Null
    /\ filed' = IF prop.step = "patch" THEN Null ELSE filed
    /\ UNCHANGED <<fields, native, tags, trashed, changes>>

-----------------------------------------------------------------------------
(* The API and its users *)

\* What the panel of a document lists.
duplicateCandidates(d) ==
    IF native[d] = Null \/ "ai-duplicate-dismissed" \in tags[d] THEN {}
    ELSE findDuplicates(fields[d], candidates(d, native[d]))

Change == changes < MaxChanges /\ changes' = changes + 1 /\ filed' = Null

\* In the panel of a marked document.
dismissDuplicate(d) ==
    /\ Change
    /\ d \in Present /\ "ai-duplicate" \in tags[d]
    /\ tags' = [tags EXCEPT ![d] = (@ \ {"ai-duplicate"}) \cup {"ai-duplicate-dismissed"}]
    /\ UNCHANGED <<fields, native, trashed, prop>>

\* A user corrects the fields of a document, filed or not.
FieldsEdited(d) ==
    /\ Change
    /\ \E c \in Contents \ {fields[d]} : fields' = [fields EXCEPT ![d] = c]
    /\ UNCHANGED <<native, tags, trashed, prop>>

TrashedOrRestored(d) ==
    /\ Change
    /\ trashed' = IF d \in trashed THEN trashed \ {d} ELSE trashed \cup {d}
    /\ UNCHANGED <<fields, native, tags, prop>>

Next ==
    \/ \E d \in Docs : Search(d) \/ MarkMatch(d)
    \/ File \/ PropagationEnds
    \/ \E d \in Docs : dismissDuplicate(d) \/ FieldsEdited(d) \/ TrashedOrRestored(d)

Spec == Init /\ [][Next]_vars

-----------------------------------------------------------------------------
(* Properties. *)

TwinTags == {"ai-approved", "ai-propagated", "ai-duplicate", "ai-duplicate-dismissed"}

Filing ==
    [doc : Docs, seen : SUBSET TwinTags, native : {Trim[c.correspondent] : c \in Contents} \cup {Null},
     matches : SUBSET Docs, left : SUBSET Docs, step : {"patch", "mark"}]

TypeOK ==
    /\ fields \in [Docs -> Contents]
    /\ tags \in [Docs -> SUBSET TwinTags]
    /\ trashed \subseteq Docs
    /\ prop # Null => prop \in Filing /\ prop.left \subseteq prop.matches

(***************************************************************************)
(* The panels agree with each other and with the worker: of two filed      *)
(* documents either both panels name the other or none does, and a         *)
(* document just filed is shown the matches the worker marked, although    *)
(* the API searches by the native correspondent and the worker by the      *)
(* extracted one (dedup.ts; propagate.ts: findDuplicateIds;                *)
(* documents.service.ts: duplicateCandidates).                             *)
(***************************************************************************)
PanelsAgree ==
    /\ \A d, e \in {x \in Present : "ai-propagated" \in tags[x]} :
          e \in duplicateCandidates(d) => d \in duplicateCandidates(e)
    /\ filed # Null /\ "ai-propagated" \in tags[filed.doc] =>
          duplicateCandidates(filed.doc) = filed.matches
=============================================================================
