-------------------------------- MODULE Tags --------------------------------
(***************************************************************************)
(* The vocabulary of the pipeline: every state of a document is a set of   *)
(* Paperless tags, and every component is code that watches for one tag    *)
(* and writes another.  A tag id and its name are identified; the name     *)
(* stands for the row of /api/tags/ it resolves to.                        *)
(***************************************************************************)

\* packages/aktenraum-core/src/paperless/client.ts
LIFECYCLE_TAGS == {"ai-pending", "ai-approved", "ai-rejected",
                   "ai-propagated", "ai-propagation-error", "ai-error"}

\* services/aktenraum-api/src/documents/documents.service.ts
REPROCESS_REMOVE == LIFECYCLE_TAGS \cup {"ai-low-confidence", "ai-auto-approved"}

\* services/auto-tagger/src/routing.ts
UNTRUSTED_SOURCE_TAGS == {"email-ingested"}

AUXILIARY_TAGS == {"ai-low-confidence", "ai-auto-approved", "ai-duplicate",
                   "ai-duplicate-dismissed", "ai-index-error", "email-ingested"}

\* "wichtig" is the user's star, "Strom" stands for any tag of the user's own.
USER_TAGS == {"wichtig", "Strom"}

Tag == LIFECYCLE_TAGS \cup AUXILIARY_TAGS \cup USER_TAGS

-----------------------------------------------------------------------------
(***************************************************************************)
(* The API's plan for a swap.  A name its tag cache does not know is       *)
(* skipped silently, on both sides.                                        *)
(***************************************************************************)
planTagSwap(current, known, remove, add) ==
    (current \ (remove \cap known)) \cup (add \cap known)

(***************************************************************************)
(* The routing gate.  An extraction is seen through the four comparisons   *)
(* the gate makes on it: whether the rules could be loaded at all, whether *)
(* the rule of its document type is enabled, whether its confidence        *)
(* reaches that rule's minimum, and whether it is below                    *)
(* LOW_CONFIDENCE_THRESHOLD.                                               *)
(***************************************************************************)
Extraction == [failClosed : BOOLEAN, enabled : BOOLEAN,
               meetsMin : BOOLEAN, low : BOOLEAN]

pending(x) ==
    {"ai-pending"} \cup (IF x.low THEN {"ai-low-confidence"} ELSE {})

\* Mutant: the gate forgets where the document came from.
routeAnySource(x, untrustedSource) ==
    IF ~x.failClosed /\ x.enabled /\ x.meetsMin
    THEN {"ai-approved", "ai-auto-approved"}
    ELSE pending(x)

routeLifecycleTags(x, untrustedSource) ==
    IF /\ ~x.failClosed
       /\ ~untrustedSource
       /\ x.enabled
       /\ x.meetsMin
    THEN {"ai-approved", "ai-auto-approved"}
    ELSE pending(x)

\* Mutant: every suggestion is taken.
splitUnfiltered(suggested) == suggested

\* Lifecycle names in the model's suggestions never reach the document.
splitSuggestedTags(suggested) == suggested \ LIFECYCLE_TAGS

lifecycleTagsOn(seen) == seen \cap LIFECYCLE_TAGS

isUntrustedSource(seen) == seen \cap UNTRUSTED_SOURCE_TAGS # {}
=============================================================================
