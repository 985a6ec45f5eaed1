---------------------------- MODULE CustomFields ----------------------------
(***************************************************************************)
(* The custom fields of one document.  A PATCH replaces the whole array,   *)
(* so everybody who changes a field reads the array, merges and writes it  *)
(* back: the extraction loop its AI fields, all three loops the error      *)
(* message, the API the edits of a user.  Documents do not share fields,   *)
(* and the three loops may work on one document at a time: the indexer     *)
(* still on the last version while a reprocess is being extracted.         *)
(***************************************************************************)
EXTENDS Naturals, FiniteSets

CONSTANTS
    AI_FIELD_NAMES,  \* the fields an extraction fills
    UserFields,      \* fields of the user's own
    Editors,         \* edit requests to the API that may overlap
    MaxExtractions,  \* bound: extractions in a behaviour
    MaxWrites        \* bound: error messages, and values typed by users

Loops == {"extraction", "propagation", "indexing"}
Error == "ai_error_message"
Field == AI_FIELD_NAMES \cup UserFields \cup {Error}

ASSUME FieldsAssumption ==
    /\ AI_FIELD_NAMES \cap UserFields = {}
    /\ Error \notin AI_FIELD_NAMES \cup UserFields
ASSUME BoundsAssumption == {MaxExtractions, MaxWrites} \subseteq Nat

\* A value is who wrote it, and in which extraction or as which number.
Value == [by : {"nobody", "extraction", "user", "worker"}, n : Nat]
Absent == [by |-> "nobody", n |-> 0]
Extracted(n) == [by |-> "extraction", n |-> n]
Typed(n) == [by |-> "user", n |-> n]
Message(n) == [by |-> "worker", n |-> n]

VARIABLES
    fields,     \* Paperless: the document's custom_fields
    loop,       \* worker: what each loop is writing
    edit,       \* API: the requests in progress
    count,      \* bounds: extractions, messages and typed values so far
    given       \* history: the values users have given to their own fields

vars == <<fields, loop, edit, count, given>>

NoFields == [f \in Field |-> Absent]
IdleLoop == [pc |-> "idle", task |-> "none", new |-> NoFields, snap |-> NoFields]
IdleEdit == [pc |-> "idle", touched |-> {}, new |-> NoFields, snap |-> NoFields]

\* The user has filled in a field before the document is first extracted.
Init ==
    /\ fields = [f \in Field |-> IF f \in UserFields THEN Typed(0) ELSE Absent]
    /\ loop = [l \in Loops |-> IdleLoop]
    /\ edit = [e \in Editors |-> IdleEdit]
    /\ count = [extractions |-> 0, messages |-> 0, typed |-> 0]
    /\ given = [f \in UserFields |-> {Typed(0)}]

Array == [Field -> Value]

TypeOK ==
    /\ fields \in Array
    /\ loop \in [Loops -> [pc : {"idle", "read", "write"}, task : {"none", "ai", "error"},
                           new : Array, snap : Array]]
    /\ edit \in [Editors -> [pc : {"idle", "read", "write"}, touched : SUBSET AI_FIELD_NAMES,
                             new : Array, snap : Array]]
    /\ count \in [extractions : 0 .. MaxExtractions, messages : 0 .. MaxWrites,
                  typed : 0 .. MaxWrites]
    /\ given \in [UserFields -> SUBSET Value]
    /\ \A l \in Loops : loop[l].task = "ai" => l = "extraction"
    /\ \A l \in Loops : loop[l].pc # "idle" <=> loop[l].task # "none"

-----------------------------------------------------------------------------
(* The three merges. *)

\* Mutant: fields the model left empty keep their old value.
keepStaleAiFields(snap, new) ==
    [f \in Field |-> IF f \in AI_FIELD_NAMES /\ new[f] # Absent THEN new[f] ELSE snap[f]]

\* Mutant: the array consists of the new values.
replaceAll(snap, new) == new

\* patchDocumentAiFields: an AI field the model left empty disappears.
mergeAiFields(snap, new) ==
    [f \in Field |-> IF f \in AI_FIELD_NAMES THEN new[f] ELSE snap[f]]

\* setErrorMessage; no message, or an empty one, removes the entry.
mergeErrorMessage(snap, new) == [snap EXCEPT ![Error] = new[Error]]

\* The API: a touched field gets what the user typed, or is cleared.
mergeCustomFields(snap, touched, new) ==
    [f \in Field |-> IF f \in touched THEN new[f] ELSE snap[f]]

-----------------------------------------------------------------------------
(* The worker. *)

\* An extraction has come back with values for some of the fields.
ExtractionDone ==
    /\ loop["extraction"].pc = "idle"
    /\ count.extractions < MaxExtractions
    /\ count' = [count EXCEPT !.extractions = @ + 1]
    /\ \E found \in SUBSET AI_FIELD_NAMES :
          loop' = [loop EXCEPT !["extraction"] =
                      [pc |-> "read", task |-> "ai", snap |-> NoFields,
                       new |-> [f \in Field |->
                                  IF f \in found THEN Extracted(count.extractions + 1)
                                  ELSE Absent]]]
    /\ UNCHANGED <<fields, edit, given>>

ErrorTask(new) == [pc |-> "read", task |-> "error", snap |-> NoFields, new |-> new]

\* A stage reports a failure.
SetErrorMessage(l) ==
    /\ loop[l].pc = "idle"
    /\ count.messages < MaxWrites
    /\ count' = [count EXCEPT !.messages = @ + 1]
    /\ loop' = [loop EXCEPT ![l] = ErrorTask([NoFields EXCEPT ![Error] =
                                                Message(count.messages + 1)])]
    /\ UNCHANGED <<fields, edit, given>>

\* A filed or indexed document has no error.
ClearErrorMessage(l) ==
    /\ l # "extraction"
    /\ loop[l].pc = "idle"
    /\ loop' = [loop EXCEPT ![l] = ErrorTask(NoFields)]
    /\ UNCHANGED <<fields, edit, count, given>>

LoopRead(l) ==
    /\ loop[l].pc = "read"
    /\ loop' = [loop EXCEPT ![l].pc = "write", ![l].snap = fields]
    /\ UNCHANGED <<fields, edit, count, given>>

merged(r) == IF r.task = "ai" THEN mergeAiFields(r.snap, r.new)
                              ELSE mergeErrorMessage(r.snap, r.new)

\* Mutant: the task is not taken off the loop.
LoopWriteKeepsTask(l) ==
    /\ loop[l].pc = "write"
    /\ fields' = merged(loop[l])
    /\ loop' = [loop EXCEPT ![l].pc = "idle"]
    /\ UNCHANGED <<edit, count, given>>

LoopWrite(l) ==
    /\ loop[l].pc = "write"
    /\ fields' = merged(loop[l])
    /\ loop' = [loop EXCEPT ![l] = IdleLoop]
    /\ UNCHANGED <<edit, count, given>>

\* A call fails, the PATCH possibly after it was applied.  A failed write of the AI
\* fields is reported; a failed report is logged.
LoopFails(l) ==
    /\ loop[l].pc # "idle"
    /\ \/ fields' = fields
       \/ loop[l].pc = "write" /\ fields' = merged(loop[l])
    /\ IF loop[l].task = "ai" /\ count.messages < MaxWrites
       THEN /\ count' = [count EXCEPT !.messages = @ + 1]
            /\ loop' = [loop EXCEPT ![l] = ErrorTask([NoFields EXCEPT ![Error] =
                                                        Message(count.messages + 1)])]
       ELSE /\ loop' = [loop EXCEPT ![l] = IdleLoop]
            /\ UNCHANGED count
    /\ UNCHANGED <<edit, given>>

WorkerRestart ==
    /\ loop' = [l \in Loops |-> IdleLoop]
    /\ UNCHANGED <<fields, edit, count, given>>

-----------------------------------------------------------------------------
(* Users. *)

\* PATCH /api/documents/{id}/fields, or the edits sent along with an approval.
EditBegin(e) ==
    /\ edit[e].pc = "idle"
    /\ count.typed < MaxWrites
    /\ count' = [count EXCEPT !.typed = @ + 1]
    /\ \E touched \in (SUBSET AI_FIELD_NAMES) \ {{}} :
          \E cleared \in SUBSET touched :
             edit' = [edit EXCEPT ![e] =
                         [pc |-> "read", touched |-> touched, snap |-> NoFields,
                          new |-> [f \in Field |-> IF f \in touched \ cleared
                                                   THEN Typed(count.typed + 1)
                                                   ELSE Absent]]]
    /\ UNCHANGED <<fields, loop, given>>

\* The document is fetched, and handed on as prefetchedDoc.
EditRead(e) ==
    /\ edit[e].pc = "read"
    /\ edit' = [edit EXCEPT ![e].pc = "write", ![e].snap = fields]
    /\ UNCHANGED <<fields, loop, count, given>>

EditWrite(e) ==
    /\ edit[e].pc = "write"
    /\ fields' = mergeCustomFields(edit[e].snap, edit[e].touched, edit[e].new)
    /\ edit' = [edit EXCEPT ![e] = IdleEdit]
    /\ UNCHANGED <<loop, count, given>>

\* The request fails, possibly after the PATCH was applied.
EditFails(e) ==
    /\ edit[e].pc # "idle"
    /\ \/ fields' = fields
       \/ /\ edit[e].pc = "write"
          /\ fields' = mergeCustomFields(edit[e].snap, edit[e].touched, edit[e].new)
    /\ edit' = [edit EXCEPT ![e] = IdleEdit]
    /\ UNCHANGED <<loop, count, given>>

\* The user's own fields are edited in Paperless.
OwnFieldEdited ==
    /\ count.typed < MaxWrites
    /\ count' = [count EXCEPT !.typed = @ + 1]
    /\ \E f \in UserFields, v \in {Typed(count.typed + 1), Absent} :
          /\ fields' = [fields EXCEPT ![f] = v]
          /\ given' = [given EXCEPT ![f] = @ \cup {v}]
    /\ UNCHANGED <<loop, edit>>

-----------------------------------------------------------------------------
Next ==
    \/ ExtractionDone
    \/ \E l \in Loops : \/ SetErrorMessage(l) \/ ClearErrorMessage(l)
                        \/ LoopRead(l) \/ LoopWrite(l) \/ LoopFails(l)
    \/ WorkerRestart
    \/ \E e \in Editors : EditBegin(e) \/ EditRead(e) \/ EditWrite(e) \/ EditFails(e)
    \/ OwnFieldEdited

Spec == Init /\ [][Next]_vars

-----------------------------------------------------------------------------
(* Properties. *)

(***************************************************************************)
(* What the AI says about a document comes from one extraction, however    *)
(* many writers put old arrays back: a value of an earlier one never stays *)
(* beside a later one (patchDocumentAiFields, setErrorMessage and          *)
(* mergeCustomFields together).                                            *)
(***************************************************************************)
FromOneExtraction(array) ==
    \A f, g \in AI_FIELD_NAMES :
        array[f].by = "extraction" /\ array[g].by = "extraction" => array[f] = array[g]

NoMixedExtractions == FromOneExtraction(fields)

\* A field of the user's own only ever has a value that a user gave it: no writer of
\* the system drops it, or moves a value into it.
OwnFieldsFromUser == \A f \in UserFields : fields[f] \in given[f]

\* Writing the AI fields keeps every other field of the document as it is.
AiWritesKeepOthers ==
    [][ (loop["extraction"].task = "ai" /\ fields' # fields /\ loop' # loop)
          => \A f \in Field \ AI_FIELD_NAMES : fields'[f] = fields[f] ]_vars
=============================================================================
