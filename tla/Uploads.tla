------------------------------- MODULE Uploads -------------------------------
(***************************************************************************)
(* Uploading files and following them.  The page sends a batch of files;   *)
(* the API passes each one to Paperless and records the consume task; the  *)
(* page then polls the task and the lifecycle tags of the new document.    *)
(* The activity page lists all consume tasks and polls until everything    *)
(* on it has settled.                                                      *)
(*                                                                         *)
(* Rows of the page are found by file name, and a second batch may be sent *)
(* while the first one is under way, possibly with the same names.         *)
(***************************************************************************)
EXTENDS Naturals

CONSTANTS
    Files,    \* files a user may pick
    Names,    \* names of files
    Batches,  \* bound: numbers of the batches sent
    Null

VARIABLES
    nameOf,    \* name of each file; several may share one
    rows,      \* page: FileState by name
    batch,     \* batch each file was sent in
    calls,     \* batches whose request is under way
    result,    \* API: UploadResult of each file
    recorded,  \* API: table upload_tasks
    tracker,   \* page: what track() of a file polls
    task,      \* Paperless: consume task of a file
    tag        \* Paperless: lifecycle tag of the file's document

vars == <<nameOf, rows, batch, calls, result, recorded, tracker, task, tag>>
page == <<rows, tracker>>
api == <<nameOf, batch, calls, result, recorded>>

Init ==
    /\ nameOf \in [Files -> Names]
    /\ rows = <<>>
    /\ batch = [f \in Files |-> Null]
    /\ calls = {}
    /\ result = [f \in Files |-> "none"]
    /\ recorded = {}
    /\ tracker = [f \in Files |-> "none"]
    /\ task = [f \in Files |-> "none"]
    /\ tag = [f \in Files |-> "none"]

In(b) == {f \in Files : batch[f] = b}

-----------------------------------------------------------------------------
(* UploadService *)

\* Refused for its type or size, or by Paperless; an answer of Paperless that is lost
\* refuses a file that will be consumed.
FileRefused(f) ==
    /\ result[f] = "queued" /\ batch[f] \in calls
    /\ result' = [result EXCEPT ![f] = "error"]
    /\ \/ UNCHANGED task
       \/ task' = [task EXCEPT ![f] = "started"]
    /\ UNCHANGED <<nameOf, page, batch, calls, recorded, tag>>

\* Accepted; recording the task may fail and changes nothing about that.
FileAccepted(f) ==
    /\ result[f] = "queued" /\ batch[f] \in calls
    /\ result' = [result EXCEPT ![f] = "accepted"]
    /\ task' = [task EXCEPT ![f] = "started"]
    /\ recorded' \in {recorded, recorded \cup {f}}
    /\ UNCHANGED <<nameOf, page, batch, calls, tag>>

-----------------------------------------------------------------------------
(* useUploadTracker *)

\* Mutant: the patch goes to every row.
updateAll(name, phase, doc) ==
    [n \in DOMAIN rows |->
        [phase |-> phase, doc |-> IF doc = Null THEN rows[n].doc ELSE doc]]

update(name, phase, doc) ==
    [n \in DOMAIN rows |->
        IF n = name THEN [phase |-> phase, doc |-> IF doc = Null THEN rows[n].doc ELSE doc]
        ELSE rows[n]]

\* Dropped or picked.
Pickable == {f \in Files : batch[f] = Null}

\* New files on the page, whatever it still waits for.
send(b) ==
    /\ \A f \in Files : batch[f] # b
    /\ \E picked \in (SUBSET Pickable) \ {{}} :
          /\ batch' = [f \in Files |-> IF f \in picked THEN b ELSE batch[f]]
          /\ result' = [f \in Files |-> IF f \in picked THEN "queued" ELSE result[f]]
          /\ rows' = [n \in {nameOf[f] : f \in picked} |-> [phase |-> "uploading", doc |-> Null]]
    /\ calls' = calls \cup {b}
    /\ UNCHANGED <<nameOf, recorded, tracker, task, tag>>

\* Each result patches the row of its name; the last one of a name stays.
Answered(b) ==
    /\ b \in calls
    /\ \A f \in In(b) : result[f] # "queued"
    /\ calls' = calls \ {b}
    /\ \E last \in [DOMAIN rows -> In(b)] :
          /\ \A n \in DOMAIN rows : nameOf[last[n]] = n \/ \A f \in In(b) : nameOf[f] # n
          /\ rows' = [n \in DOMAIN rows |->
                        IF nameOf[last[n]] # n THEN rows[n]
                        ELSE [rows[n] EXCEPT !.phase =
                                IF result[last[n]] = "error" THEN "error" ELSE "consuming"]]
    /\ tracker' = [f \in Files |->
                     IF f \in In(b) /\ result[f] = "accepted" THEN "task" ELSE tracker[f]]
    /\ UNCHANGED <<nameOf, batch, result, recorded, task, tag>>

\* The request fails, or Paperless refuses the credentials half way through the batch:
\* every row on the page becomes an error.
CallFails(b) ==
    /\ b \in calls
    /\ calls' = calls \ {b}
    /\ rows' = [n \in DOMAIN rows |-> [rows[n] EXCEPT !.phase = "error"]]
    /\ UNCHANGED <<nameOf, batch, result, recorded, tracker, task, tag>>

phaseFromTags(t) ==
    CASE t \in {"ai-error", "ai-propagation-error"} -> "error"
      [] t = "ai-pending" -> "inbox"
      [] t \in {"ai-propagated", "ai-approved", "ai-rejected"} -> "library"
      [] OTHER -> Null

PollTask(f) ==
    /\ tracker[f] = "task"
    /\ \/ /\ task[f] = "success"
          /\ rows' = update(nameOf[f], "classifying", f)
          /\ tracker' = [tracker EXCEPT ![f] = "status"]
       \/ /\ task[f] = "failure"
          /\ rows' = update(nameOf[f], "error", Null)
          /\ tracker' = [tracker EXCEPT ![f] = "done"]
    /\ UNCHANGED <<api, task, tag>>

PollStatus(f) ==
    /\ tracker[f] = "status"
    /\ phaseFromTags(tag[f]) # Null
    /\ rows' = update(nameOf[f], phaseFromTags(tag[f]), Null)
    /\ tracker' = [tracker EXCEPT ![f] = "done"]
    /\ UNCHANGED <<api, task, tag>>

\* POLL_CEILING_MS have passed; the row stays as it is.
GiveUp(f) ==
    /\ tracker[f] \in {"task", "status"}
    /\ tracker' = [tracker EXCEPT ![f] = "done"]
    /\ UNCHANGED <<rows, api, task, tag>>

-----------------------------------------------------------------------------
(* The activity page *)

classifyOutcome(f) ==
    CASE task[f] = "success" -> "new"
      [] task[f] = "failure" -> "failed"
      [] OTHER -> "running"

classifySource(f) == IF f \in recorded THEN "upload" ELSE "email"

\* One item per consume task.
activity ==
    [f \in {g \in Files : task[g] # "none"} |->
        [outcome |-> classifyOutcome(f), source |-> classifySource(f), tag |-> tag[f]]]

FINAL_TAGS == {"ai-pending", "ai-propagated", "ai-rejected", "ai-error", "ai-propagation-error"}

\* Mutant: any tag will do.
settledByAnyTag(items) ==
    \A f \in DOMAIN items :
        /\ items[f].outcome # "running"
        /\ items[f].outcome = "new" => items[f].tag # "none"

activitySettled(items) ==
    \A f \in DOMAIN items :
        /\ items[f].outcome # "running"
        /\ items[f].outcome = "new" => items[f].tag \in FINAL_TAGS

-----------------------------------------------------------------------------
(* Paperless, the worker and the reviewer *)

TaskEnds(f) ==
    /\ task[f] = "started"
    /\ \E s \in {"success", "failure"} : task' = [task EXCEPT ![f] = s]
    /\ UNCHANGED <<page, api, tag>>

Moves == {<<"none", "ai-pending">>, <<"none", "ai-approved">>, <<"none", "ai-error">>,
          <<"ai-approved", "ai-propagated">>, <<"ai-approved", "ai-propagation-error">>}

WorkerMoves(f) ==
    /\ task[f] = "success"
    /\ \E t \in {m[2] : m \in {x \in Moves : x[1] = tag[f]}} : tag' = [tag EXCEPT ![f] = t]
    /\ UNCHANGED <<page, api, task>>

ReviewerMoves(f) ==
    /\ tag[f] = "ai-pending"
    /\ \E t \in {"ai-approved", "ai-rejected"} : tag' = [tag EXCEPT ![f] = t]
    /\ UNCHANGED <<page, api, task>>

Next ==
    \/ \E b \in Batches : send(b) \/ Answered(b) \/ CallFails(b)
    \/ \E f \in Files :
          \/ FileRefused(f) \/ FileAccepted(f)
          \/ PollTask(f) \/ PollStatus(f) \/ GiveUp(f)
          \/ TaskEnds(f) \/ WorkerMoves(f) \/ ReviewerMoves(f)

Spec == Init /\ [][Next]_vars

-----------------------------------------------------------------------------
(* Properties. *)

TypeOK ==
    /\ nameOf \in [Files -> Names]
    /\ \A n \in DOMAIN rows :
          /\ n \in Names
          /\ rows[n].phase \in {"uploading", "consuming", "classifying", "inbox", "library", "error"}
          /\ rows[n].doc \in Files \cup {Null}
    /\ calls \subseteq Batches
    /\ \A f \in Files :
          /\ result[f] \in {"none", "queued", "accepted", "error"}
          /\ tracker[f] \in {"none", "task", "status", "done"}
          /\ tracker[f] # "none" => result[f] = "accepted"
    /\ recorded \subseteq {f \in Files : result[f] = "accepted"}

(***************************************************************************)
(* A row never promises what did not happen to a file of its name: it      *)
(* links to a document made from such a file, and says "inbox" or          *)
(* "library" only when one has been classified, although answers of older  *)
(* batches still patch the rows (useUploadTracker: update by name).        *)
(***************************************************************************)
RowsTellOfTheirName ==
    \A n \in DOMAIN rows :
        /\ rows[n].doc # Null => nameOf[rows[n].doc] = n /\ task[rows[n].doc] = "success"
        /\ rows[n].phase \in {"inbox", "library"} =>
              \E f \in Files : /\ nameOf[f] = n
                               /\ result[f] = "accepted"
                               /\ tag[f] \notin {"none", "ai-error"}

(***************************************************************************)
(* utils/ingest.ts: the activity page stops polling "once nothing on the   *)
(* page can still change on its own".  While it counts as settled, neither *)
(* Paperless nor the worker takes a step that changes an item's outcome or *)
(* lifecycle tag; only users do.                                           *)
(***************************************************************************)
OnlyUsersMoveSettled ==
    \A f \in DOMAIN activity : TaskEnds(f) \/ WorkerMoves(f) => ~activitySettled(activity)

SettledIsFinal == [][OnlyUsersMoveSettled]_vars
=============================================================================
