------------------------ MODULE DocumentDataProofs ------------------------
(***************************************************************************)
(* Type correctness of the parts of DocumentData, and what they guarantee  *)
(* for any documents, fields, types, names, texts and callers: the merges  *)
(* of custom fields, the fields by type, the duplicates and the tags.      *)
(***************************************************************************)
EXTENDS DocumentData, FiniteSetTheorems, Sequences, TLAPS

(***************************************************************************)
(* Any writer may put back an array it read long ago, so the properties of *)
(* the document are required of every array that is held somewhere: of the *)
(* snapshots, and of the values about to be merged into them.              *)
(***************************************************************************)
OwnFieldsOf(array) == \A f \in UserFields : array[f] \in given[f]

LoopsSound ==
    \A l \in Loops :
        /\ FromOneExtraction(loop[l].snap)
        /\ FromOneExtraction(loop[l].new)
        /\ loop[l].pc = "write" => OwnFieldsOf(loop[l].snap)

EditsSound ==
    \A e \in Editors :
        /\ FromOneExtraction(edit[e].snap)
        /\ \A f \in AI_FIELD_NAMES : edit[e].new[f].by # "extraction"
        /\ edit[e].pc = "write" => OwnFieldsOf(edit[e].snap)

Inv == TypeOK /\ NoMixedExtractions /\ OwnFieldsFromUser /\ LoopsSound /\ EditsSound

-----------------------------------------------------------------------------
(* Values and arrays. *)

LEMMA Values ==
    /\ Absent \in Value /\ Absent.by = "nobody"
    /\ NoFields \in Array /\ FromOneExtraction(NoFields)
    /\ \A n \in Nat : /\ Extracted(n) \in Value /\ Typed(n) \in Value /\ Message(n) \in Value
                      /\ Typed(n).by = "user"
  BY DEF Absent, Extracted, Typed, Message, Value, NoFields, Array, FromOneExtraction, Field

\* patchDocumentAiFields: the AI fields are the new ones, all others the snapshot's.
LEMMA AiMerge ==
    ASSUME NEW snap \in Array, NEW new \in Array
    PROVE  /\ mergeAiFields(snap, new) \in Array
           /\ FromOneExtraction(new) => FromOneExtraction(mergeAiFields(snap, new))
           /\ \A f \in UserFields : mergeAiFields(snap, new)[f] = snap[f]
  BY FieldsAssumption DEF mergeAiFields, Array, FromOneExtraction, Field

\* setErrorMessage: nothing but the message changes.
LEMMA ErrorMerge ==
    ASSUME NEW snap \in Array, NEW new \in Array
    PROVE  /\ mergeErrorMessage(snap, new) \in Array
           /\ FromOneExtraction(snap) => FromOneExtraction(mergeErrorMessage(snap, new))
           /\ \A f \in UserFields : mergeErrorMessage(snap, new)[f] = snap[f]
  BY FieldsAssumption DEF mergeErrorMessage, Array, FromOneExtraction, Field

\* The API's merge: an edit adds nothing that could pass for an extraction.
LEMMA EditMerge ==
    ASSUME NEW snap \in Array, NEW new \in Array, NEW touched \in SUBSET AI_FIELD_NAMES,
           \A f \in AI_FIELD_NAMES : new[f].by # "extraction"
    PROVE  /\ mergeCustomFields(snap, touched, new) \in Array
           /\ FromOneExtraction(snap) =>
                FromOneExtraction(mergeCustomFields(snap, touched, new))
           /\ \A f \in UserFields : mergeCustomFields(snap, touched, new)[f] = snap[f]
  BY FieldsAssumption DEF mergeCustomFields, Array, FromOneExtraction, Field

\* What a loop is about to write is sound if its snapshot and its values are.
LEMMA LoopMerge ==
    ASSUME Inv, NEW l \in Loops, loop[l].pc = "write"
    PROVE  /\ merged(loop[l]) \in Array
           /\ FromOneExtraction(merged(loop[l]))
           /\ OwnFieldsOf(merged(loop[l]))
  <1>1. loop[l].snap \in Array /\ loop[l].new \in Array BY DEF Inv, TypeOK
  <1> QED BY <1>1, AiMerge, ErrorMerge DEF merged, Inv, LoopsSound, OwnFieldsOf

\* An edit never fills in the message or a field of the user's own.
LEMMA EditWritten ==
    ASSUME Inv, NEW e \in Editors, edit[e].pc = "write",
           fields' = mergeCustomFields(edit[e].snap, edit[e].touched, edit[e].new)
    PROVE  /\ fields' \in Array
           /\ FromOneExtraction(fields')
           /\ OwnFieldsOf(fields')
  <1>1. /\ edit[e].snap \in Array /\ edit[e].new \in Array
        /\ edit[e].touched \in SUBSET AI_FIELD_NAMES
    BY DEF Inv, TypeOK
  <1> QED BY <1>1, EditMerge DEF Inv, EditsSound, OwnFieldsOf

-----------------------------------------------------------------------------
(* The parts of a step. *)

LoopRec == [pc : {"idle", "read", "write"}, task : {"none", "ai", "error"},
            new : Array, snap : Array]

EditRec == [pc : {"idle", "read", "write"}, touched : SUBSET AI_FIELD_NAMES,
            new : Array, snap : Array]

\* A loop may go on to any sound record.
LoopOK(l, r) ==
    /\ r \in LoopRec
    /\ r.task = "ai" => l = "extraction"
    /\ r.pc # "idle" <=> r.task # "none"
    /\ FromOneExtraction(r.snap)
    /\ FromOneExtraction(r.new)
    /\ r.pc = "write" => OwnFieldsOf(r.snap)

LEMMA LoopStep ==
    ASSUME Inv, NEW l \in Loops, NEW r, LoopOK(l, r), loop' = [loop EXCEPT ![l] = r],
           UNCHANGED <<edit, given>>, count' \in [extractions : 0 .. MaxExtractions,
               messages : 0 .. MaxWrites, typed : 0 .. MaxWrites],
           fields' \in Array, FromOneExtraction(fields'), OwnFieldsOf(fields')
    PROVE  Inv'
  <1>1. loop' \in [Loops -> LoopRec] BY DEF Inv, TypeOK, LoopRec, LoopOK
  <1>2. \A k \in Loops : LoopOK(k, loop'[k])
    BY DEF Inv, TypeOK, LoopsSound, LoopOK, LoopRec
  <1>3. TypeOK' BY <1>1, <1>2 DEF Inv, TypeOK, LoopRec, LoopOK
  <1>4. LoopsSound' BY <1>2 DEF LoopsSound, LoopOK, OwnFieldsOf
  <1>5. EditsSound' BY DEF Inv, EditsSound, OwnFieldsOf
  <1> QED BY <1>3, <1>4, <1>5 DEF Inv, NoMixedExtractions, OwnFieldsFromUser, OwnFieldsOf

EditOK(r) ==
    /\ r \in EditRec
    /\ FromOneExtraction(r.snap)
    /\ \A f \in AI_FIELD_NAMES : r.new[f].by # "extraction"
    /\ r.pc = "write" => OwnFieldsOf(r.snap)

LEMMA EditStep ==
    ASSUME Inv, NEW e \in Editors, NEW r, EditOK(r), edit' = [edit EXCEPT ![e] = r],
           UNCHANGED <<loop, given>>, count' \in [extractions : 0 .. MaxExtractions,
               messages : 0 .. MaxWrites, typed : 0 .. MaxWrites],
           fields' \in Array, FromOneExtraction(fields'), OwnFieldsOf(fields')
    PROVE  Inv'
  <1>1. edit' \in [Editors -> EditRec] BY DEF Inv, TypeOK, EditRec, EditOK
  <1>2. \A k \in Editors : EditOK(edit'[k])
    BY DEF Inv, TypeOK, EditsSound, EditOK, EditRec
  <1>3. TypeOK' BY <1>1 DEF Inv, TypeOK, EditRec
  <1>4. EditsSound' BY <1>2 DEF EditsSound, EditOK, OwnFieldsOf
  <1>5. LoopsSound' BY DEF Inv, LoopsSound, OwnFieldsOf
  <1> QED BY <1>3, <1>4, <1>5 DEF Inv, NoMixedExtractions, OwnFieldsFromUser, OwnFieldsOf

\* The document as it is satisfies what is asked of a written array.
LEMMA Unwritten ==
    ASSUME Inv, fields' = fields
    PROVE  fields' \in Array /\ FromOneExtraction(fields') /\ OwnFieldsOf(fields')
  BY DEF Inv, TypeOK, NoMixedExtractions, OwnFieldsFromUser, OwnFieldsOf

LEMMA IdleOK ==
    /\ \A l \in Loops : LoopOK(l, IdleLoop)
    /\ EditOK(IdleEdit)
  BY Values DEF LoopOK, LoopRec, IdleLoop, EditOK, EditRec, IdleEdit, NoFields, Field

\* Reporting or clearing an error.
LEMMA ErrorTaskOK ==
    ASSUME NEW l \in Loops, NEW v \in Value
    PROVE  LoopOK(l, ErrorTask([NoFields EXCEPT ![Error] = v])) /\ LoopOK(l, ErrorTask(NoFields))
  <1>1. [NoFields EXCEPT ![Error] = v] \in Array BY Values DEF Array
  <1>2. FromOneExtraction([NoFields EXCEPT ![Error] = v])
    BY FieldsAssumption, Values DEF FromOneExtraction, NoFields, Field
  <1> QED BY <1>1, <1>2, Values DEF LoopOK, LoopRec, ErrorTask

-----------------------------------------------------------------------------
THEOREM InitInv == Init => Inv
  <1> SUFFICES ASSUME Init PROVE Inv OBVIOUS
  <1>1. fields \in Array /\ FromOneExtraction(fields)
    BY Values, FieldsAssumption DEF Init, Array, FromOneExtraction, Typed, Value, Field
  <1>2. OwnFieldsFromUser BY FieldsAssumption DEF Init, OwnFieldsFromUser, Field
  <1>3. given \in [UserFields -> SUBSET Value] BY Values DEF Init
  <1>4. count \in [extractions : 0 .. MaxExtractions, messages : 0 .. MaxWrites,
                   typed : 0 .. MaxWrites]
    BY BoundsAssumption DEF Init
  <1>5. TypeOK
    BY <1>1, <1>3, <1>4, IdleOK DEF Init, TypeOK, LoopOK, LoopRec, EditOK, EditRec
  <1>6. LoopsSound /\ EditsSound
    BY IdleOK DEF Init, LoopsSound, EditsSound, LoopOK, EditOK
  <1> QED BY <1>1, <1>2, <1>5, <1>6 DEF Inv, NoMixedExtractions

THEOREM NextInv == Inv /\ [Next]_vars => Inv'
  <1> SUFFICES ASSUME Inv, [Next]_vars PROVE Inv' OBVIOUS
  <1> DEFINE Count == [extractions : 0 .. MaxExtractions, messages : 0 .. MaxWrites,
                       typed : 0 .. MaxWrites]
  <1>0. count \in Count /\ MaxExtractions \in Nat /\ MaxWrites \in Nat
    BY BoundsAssumption DEF Inv, TypeOK
  <1>1. CASE ExtractionDone
    <2>1. PICK found \in SUBSET AI_FIELD_NAMES :
             loop' = [loop EXCEPT !["extraction"] =
                         [pc |-> "read", task |-> "ai", snap |-> NoFields,
                          new |-> [f \in Field |->
                                     IF f \in found THEN Extracted(count.extractions + 1)
                                     ELSE Absent]]]
      BY <1>1 DEF ExtractionDone
    <2> DEFINE new == [f \in Field |-> IF f \in found
                                       THEN Extracted(count.extractions + 1) ELSE Absent]
    <2>2. new \in Array BY <1>0, Values DEF Array
    <2>3. FromOneExtraction(new) BY Values DEF FromOneExtraction, Field, Absent
    <2>4. LoopOK("extraction", [pc |-> "read", task |-> "ai", snap |-> NoFields, new |-> new])
      BY <2>2, <2>3, Values DEF LoopOK, LoopRec
    <2>5. count' \in Count BY <1>0, <1>1 DEF ExtractionDone
    <2>6. "extraction" \in Loops BY DEF Loops
    <2> HIDE DEF new
    <2> QED BY <1>1, <2>1, <2>4, <2>5, <2>6, LoopStep, Unwritten DEF ExtractionDone, new
  <1>2. ASSUME NEW l \in Loops, SetErrorMessage(l) PROVE Inv'
    <2>1. count' \in Count BY <1>0, <1>2 DEF SetErrorMessage
    <2>2. Message(count.messages + 1) \in Value BY <1>0, Values
    <2> QED BY <1>2, <2>1, <2>2, ErrorTaskOK, LoopStep, Unwritten DEF SetErrorMessage
  <1>3. ASSUME NEW l \in Loops, ClearErrorMessage(l) PROVE Inv'
    <2>1. LoopOK(l, ErrorTask(NoFields)) BY ErrorTaskOK, Values
    <2> QED BY <1>0, <1>3, <2>1, LoopStep, Unwritten DEF ClearErrorMessage
  <1>4. ASSUME NEW l \in Loops, LoopRead(l) PROVE Inv'
    <2> DEFINE r == [loop[l] EXCEPT !.pc = "write", !.snap = fields]
    <2>1. loop' = [loop EXCEPT ![l] = r] BY <1>4 DEF LoopRead, Inv, TypeOK
    <2>2. LoopOK(l, r)
      BY <1>4 DEF LoopRead, Inv, TypeOK, LoopsSound, LoopOK, LoopRec, NoMixedExtractions,
                  OwnFieldsFromUser, OwnFieldsOf
    <2> HIDE DEF r
    <2> QED BY <1>0, <1>4, <2>1, <2>2, LoopStep, Unwritten DEF LoopRead
  <1>5. ASSUME NEW l \in Loops, LoopWrite(l) PROVE Inv'
    BY <1>0, <1>5, IdleOK, LoopMerge, LoopStep DEF LoopWrite
  <1>6. ASSUME NEW l \in Loops, LoopFails(l) PROVE Inv'
    <2>1. fields' \in Array /\ FromOneExtraction(fields') /\ OwnFieldsOf(fields')
      BY <1>6, LoopMerge, Unwritten DEF LoopFails
    <2>2. CASE loop[l].task = "ai" /\ count.messages < MaxWrites
      <3>1. count' \in Count BY <1>0, <1>6, <2>2 DEF LoopFails
      <3>2. Message(count.messages + 1) \in Value BY <1>0, Values
      <3> QED BY <1>6, <2>1, <2>2, <3>1, <3>2, ErrorTaskOK, LoopStep DEF LoopFails
    <2>3. CASE ~(loop[l].task = "ai" /\ count.messages < MaxWrites)
      BY <1>0, <1>6, <2>1, <2>3, IdleOK, LoopStep DEF LoopFails
    <2> QED BY <2>2, <2>3
  <1>7. CASE WorkerRestart
    <2>1. TypeOK' BY <1>7, IdleOK DEF WorkerRestart, Inv, TypeOK, LoopOK, LoopRec
    <2>2. LoopsSound' BY <1>7, IdleOK DEF WorkerRestart, LoopsSound, LoopOK, OwnFieldsOf, IdleLoop
    <2>3. EditsSound' BY <1>7 DEF WorkerRestart, Inv, EditsSound, OwnFieldsOf
    <2> QED BY <1>7, <2>1, <2>2, <2>3 DEF WorkerRestart, Inv, NoMixedExtractions, OwnFieldsFromUser
  <1>8. ASSUME NEW e \in Editors, EditBegin(e) PROVE Inv'
    <2>1. PICK touched \in SUBSET AI_FIELD_NAMES, cleared \in SUBSET AI_FIELD_NAMES :
             edit' = [edit EXCEPT ![e] =
                         [pc |-> "read", touched |-> touched, snap |-> NoFields,
                          new |-> [f \in Field |-> IF f \in touched \ cleared
                                                   THEN Typed(count.typed + 1)
                                                   ELSE Absent]]]
      BY <1>8 DEF EditBegin
    <2> DEFINE new == [f \in Field |-> IF f \in touched \ cleared
                                       THEN Typed(count.typed + 1) ELSE Absent]
    <2>2. new \in Array BY <1>0, Values DEF Array
    <2>3. \A f \in AI_FIELD_NAMES : new[f].by # "extraction" BY <1>0, Values DEF Field
    <2>4. EditOK([pc |-> "read", touched |-> touched, snap |-> NoFields, new |-> new])
      BY <2>2, <2>3, Values DEF EditOK, EditRec
    <2>5. count' \in Count BY <1>0, <1>8 DEF EditBegin
    <2> HIDE DEF new
    <2> QED BY <1>8, <2>1, <2>4, <2>5, EditStep, Unwritten DEF EditBegin, new
  <1>9. ASSUME NEW e \in Editors, EditRead(e) PROVE Inv'
    <2> DEFINE r == [edit[e] EXCEPT !.pc = "write", !.snap = fields]
    <2>1. edit' = [edit EXCEPT ![e] = r] BY <1>9 DEF EditRead, Inv, TypeOK
    <2>2. EditOK(r)
      BY <1>9 DEF EditRead, Inv, TypeOK, EditsSound, EditOK, EditRec, NoMixedExtractions,
                  OwnFieldsFromUser, OwnFieldsOf
    <2> HIDE DEF r
    <2> QED BY <1>0, <1>9, <2>1, <2>2, EditStep, Unwritten DEF EditRead
  <1>10. ASSUME NEW e \in Editors, EditWrite(e) PROVE Inv'
    BY <1>0, <1>10, IdleOK, EditWritten, EditStep DEF EditWrite
  <1>11. ASSUME NEW e \in Editors, EditFails(e) PROVE Inv'
    <2>1. fields' \in Array /\ FromOneExtraction(fields') /\ OwnFieldsOf(fields')
      BY <1>11, EditWritten, Unwritten DEF EditFails
    <2> QED BY <1>0, <1>11, <2>1, IdleOK, EditStep DEF EditFails
  <1>12. CASE OwnFieldEdited
    <2>1. PICK f \in UserFields, v \in {Typed(count.typed + 1), Absent} :
             /\ fields' = [fields EXCEPT ![f] = v]
             /\ given' = [given EXCEPT ![f] = @ \cup {v}]
      BY <1>12 DEF OwnFieldEdited
    <2>2. v \in Value /\ count' \in Count BY <1>0, <1>12, Values DEF OwnFieldEdited
    <2>3. f \in Field /\ f \notin AI_FIELD_NAMES BY FieldsAssumption DEF Field
    <2>4. \A g \in UserFields : given[g] \subseteq given'[g] BY <2>1 DEF Inv, TypeOK
    <2>5. TypeOK'
      BY <1>12, <2>1, <2>2, <2>3 DEF OwnFieldEdited, Inv, TypeOK, Array
    <2>6. NoMixedExtractions'
      BY <2>1, <2>3 DEF Inv, TypeOK, NoMixedExtractions, FromOneExtraction, Array
    <2>7. OwnFieldsFromUser'
      BY <2>1, <2>3, <2>4 DEF Inv, TypeOK, OwnFieldsFromUser, Array
    <2>8. LoopsSound' /\ EditsSound'
      BY <1>12, <2>4 DEF OwnFieldEdited, Inv, LoopsSound, EditsSound, OwnFieldsOf
    <2> QED BY <2>5, <2>6, <2>7, <2>8 DEF Inv
  <1>13. CASE UNCHANGED vars
    BY <1>13 DEF vars, Inv, TypeOK, NoMixedExtractions, OwnFieldsFromUser, LoopsSound,
                 EditsSound, OwnFieldsOf
  <1> QED BY <1>1, <1>2, <1>3, <1>4, <1>5, <1>6, <1>7, <1>8, <1>9, <1>10, <1>11, <1>12,
             <1>13 DEF Next

\* A loop that works has a task, and only the extraction loop writes AI fields.
THEOREM FieldsTypeCorrect == Spec => []TypeOK
  BY InitInv, NextInv, PTL DEF Spec, Inv

\* The AI fields of a document never stem from two extractions.
THEOREM OneExtractionAtATime == Spec => []NoMixedExtractions
  BY InitInv, NextInv, PTL DEF Spec, Inv

\* The user's own fields hold only what a user gave them.
THEOREM OwnFieldsAreTheUsers == Spec => []OwnFieldsFromUser
  BY InitInv, NextInv, PTL DEF Spec, Inv

-----------------------------------------------------------------------------
(* What is kept of a document, one part at a time. *)

LEMMA PartsBegin == SumInit => Init /\ ByType!Init /\ Tagged!Init /\ Twins!Init
BY DEF SumInit

LEMMA PartsMove ==
    ASSUME [SumNext]_sumVars
    PROVE  [Next]_vars /\ [ByType!Next]_byType /\ [Tagged!Next]_names /\ [Twins!Next]_twins
BY DEF SumNext, sumVars, custom, vars

-----------------------------------------------------------------------------
(* The fields by type. *)

TypeNames == ByType!Names
Writing == ByType!Text \cup {Null}
Partly(S, V) == ByType!Partial(S, V)

LEMMA PartialFunctions ==
    ASSUME NEW S, NEW V, NEW f
    PROVE  f \in Partly(S, V) <=> /\ f = [n \in DOMAIN f |-> f[n]]
                                  /\ DOMAIN f \subseteq S
                                  /\ \A n \in DOMAIN f : f[n] \in V
<1>1. ASSUME f \in Partly(S, V)
      PROVE  f = [n \in DOMAIN f |-> f[n]] /\ DOMAIN f \subseteq S /\ \A n \in DOMAIN f : f[n] \in V
    <2>1. PICK D \in SUBSET S : f \in [D -> V]
        BY <1>1 DEF Partly, ByType!Partial
    <2> QED BY <2>1
<1>2. ASSUME f = [n \in DOMAIN f |-> f[n]], DOMAIN f \subseteq S, \A n \in DOMAIN f : f[n] \in V
      PROVE  f \in Partly(S, V)
    <2>1. f \in [DOMAIN f -> V]
        BY <1>2
    <2> QED BY <1>2, <2>1 DEF Partly, ByType!Partial
<1> QED BY <1>1, <1>2

\* A row as the table should have it.
StoredRow ==
    {r \in [type : ByType!Types, fields : Partly(TypeNames, {"canonical"})] :
        DOMAIN r.fields \subseteq TypeFieldNames[r.type]}

PatchRecord ==
    [pc : {"none", "sent", "read"}, type : ByType!Types \cup {Null},
     fields : Partly(TypeNames, Writing), existing : StoredRow \cup {Null}]

SeenRecord == [type : ByType!Types, values : Partly(TypeNames, {"canonical"})]

\* What a request may carry: the fields of its type, and once normalised nothing loose.
PatchOK(p) ==
    /\ p.pc # "none" => p.type \in ByType!Types
    /\ p.pc = "read" => /\ DOMAIN p.fields \subseteq TypeFieldNames[p.type]
                        /\ \A n \in DOMAIN p.fields : p.fields[n] \in {Null, "canonical"}

(***************************************************************************)
(* Every row that is held somewhere has the fields of one type: the one in *)
(* the table, and those the writers have read and are about to merge into. *)
(***************************************************************************)
TypeFieldsInv ==
    /\ docType \in ByType!Types
    /\ row \in StoredRow \cup {Null}
    /\ patch \in [ByType!Writers -> PatchRecord]
    /\ \A w \in ByType!Writers : PatchOK(patch[w])
    /\ seen \in [Pages -> SeenRecord \cup {Null}]
    /\ draft \in [Pages -> Partly(TypeNames, ByType!Text)]
    /\ \A p \in Pages : seen[p] # Null => DOMAIN draft[p] = TypeFieldNames[seen[p].type]

LEMMA NoFieldsYet ==
    /\ \A S, V : <<>> \in Partly(S, V)
    /\ ByType!NoPatch \in PatchRecord /\ PatchOK(ByType!NoPatch)
<1>1. ASSUME NEW S, NEW V PROVE <<>> \in Partly(S, V)
    <2>1. <<>> = [n \in DOMAIN <<>> |-> <<>>[n]] /\ DOMAIN <<>> = {}
        OBVIOUS
    <2> QED BY <2>1, PartialFunctions
<1>2. ByType!NoPatch \in PatchRecord /\ PatchOK(ByType!NoPatch)
    BY <1>1 DEF ByType!NoPatch, PatchRecord, PatchOK
<1> QED BY <1>1, <1>2

LEMMA NamesOfType == \A t \in ByType!Types : TypeFieldNames[t] \subseteq TypeNames
BY DEF TypeNames, ByType!Names

LEMMA TypeFieldsInit == ByType!Init => TypeFieldsInv
BY NoFieldsYet DEF ByType!Init, TypeFieldsInv

\* The table and the drafts stay while a request goes on to any sound state.
LEMMA PatchMoves ==
    ASSUME TypeFieldsInv, NEW w \in ByType!Writers, NEW p \in PatchRecord, PatchOK(p),
           patch' = [patch EXCEPT ![w] = p], docType' \in ByType!Types,
           row' \in StoredRow \cup {Null}, UNCHANGED <<seen, draft>>
    PROVE  TypeFieldsInv'
<1>1. patch' \in [ByType!Writers -> PatchRecord]
    BY DEF TypeFieldsInv
<1>2. \A v \in ByType!Writers : PatchOK(patch'[v])
    BY DEF TypeFieldsInv
<1> QED BY <1>1, <1>2 DEF TypeFieldsInv

\* Merging keeps to the fields of the type that is stored with them.
LEMMA MergeKeepsToType ==
    ASSUME NEW existing \in [type : ByType!Types, fields : Partly(TypeNames, {"canonical"})],
           DOMAIN existing.fields \subseteq TypeFieldNames[existing.type],
           NEW t \in ByType!Types, NEW new \in Partly(TypeNames, Writing),
           DOMAIN new \subseteq TypeFieldNames[t],
           \A n \in DOMAIN new : new[n] \in {Null, "canonical"}
    PROVE  ByType!merge(existing, t, new) \in StoredRow
<1> DEFINE cleared == {n \in DOMAIN new : new[n] = Null}
           foreign == IF existing.type = t THEN {}
                      ELSE DOMAIN existing.fields \ TypeFieldNames[t]
           over == ByType!Without(new, cleared)
           under == ByType!Without(existing.fields, cleared \cup foreign)
           f == ByType!Over(over, under)
<1>1. ByType!merge(existing, t, new) = [type |-> t, fields |-> f]
    BY DEF ByType!merge
<1>2. /\ DOMAIN existing.fields \subseteq TypeNames
      /\ \A n \in DOMAIN existing.fields : existing.fields[n] = "canonical"
    <2>1. existing.fields \in Partly(TypeNames, {"canonical"})
        OBVIOUS
    <2> QED BY <2>1, PartialFunctions
<1>3. DOMAIN over \subseteq TypeFieldNames[t] /\ \A n \in DOMAIN over : over[n] = "canonical"
    BY DEF ByType!Without
<1>4. DOMAIN under \subseteq TypeFieldNames[t] /\ \A n \in DOMAIN under : under[n] = "canonical"
    BY <1>2 DEF ByType!Without
<1> HIDE DEF over, under
<1>5. /\ f = [n \in DOMAIN f |-> f[n]] /\ DOMAIN f \subseteq TypeFieldNames[t]
      /\ \A n \in DOMAIN f : f[n] = "canonical"
    BY <1>3, <1>4 DEF ByType!Over
<1> HIDE DEF f
<1>6. f \in Partly(TypeNames, {"canonical"})
    BY <1>5, NamesOfType, PartialFunctions
<1> QED BY <1>1, <1>5, <1>6 DEF StoredRow

LEMMA ReadInv ==
    ASSUME TypeFieldsInv, NEW w \in ByType!Writers, ByType!Read(w)
    PROVE  TypeFieldsInv'
<1> DEFINE p == patch[w]
<1>1. p \in PatchRecord /\ p.type \in ByType!Types /\ DOMAIN p.fields \subseteq TypeFieldNames[p.type]
    BY DEF ByType!Read, ByType!validateFieldNames, TypeFieldsInv, PatchOK
<1>3. PICK new : new = [n \in DOMAIN p.fields |-> ByType!normaliseValue(p.fields[n])]
    OBVIOUS
<1>4. /\ \A n \in DOMAIN p.fields : p.fields[n] \in Writing
      /\ DOMAIN p.fields \subseteq TypeNames
    <2>1. p.fields \in Partly(TypeNames, Writing)
        BY <1>1 DEF PatchRecord
    <2> QED BY <2>1, PartialFunctions
<1>5. \A v \in Writing : ByType!normaliseValue(v) \in {Null, "canonical"}
    BY DEF Writing, ByType!Text, ByType!normaliseValue
<1>6. /\ DOMAIN new = DOMAIN p.fields /\ new = [n \in DOMAIN new |-> new[n]]
      /\ \A n \in DOMAIN new : new[n] \in {Null, "canonical"}
    BY <1>3, <1>4, <1>5
<1>7. new \in Partly(TypeNames, Writing)
    BY <1>4, <1>6, PartialFunctions DEF Writing, ByType!Text
<1> DEFINE q == [p EXCEPT !.pc = "read", !.fields = new, !.existing = row]
<1>8. patch' = [patch EXCEPT ![w] = q]
    BY <1>3 DEF ByType!Read, TypeFieldsInv
<1>9. q \in PatchRecord /\ q.pc = "read" /\ q.type = p.type /\ q.fields = new
    <2>1. row \in StoredRow \cup {Null}
        BY DEF TypeFieldsInv
    <2> HIDE DEF p
    <2>2. PICK r \in PatchRecord, e \in StoredRow \cup {Null} : r = p /\ e = row
        BY <1>1, <2>1
    <2>3. PICK f \in Partly(TypeNames, Writing) : f = new
        BY <1>7
    <2>4. /\ [r EXCEPT !.pc = "read", !.fields = f, !.existing = e] \in PatchRecord
          /\ [r EXCEPT !.pc = "read", !.fields = f, !.existing = e].pc = "read"
          /\ [r EXCEPT !.pc = "read", !.fields = f, !.existing = e].type = r.type
          /\ [r EXCEPT !.pc = "read", !.fields = f, !.existing = e].fields = f
        BY DEF PatchRecord
    <2> QED BY <2>2, <2>3, <2>4
<1> HIDE DEF p, q
<1>10. PatchOK(q)
    BY <1>1, <1>6, <1>9 DEF PatchOK
<1> QED BY <1>8, <1>9, <1>10, PatchMoves DEF ByType!Read, TypeFieldsInv

LEMMA WriteInv ==
    ASSUME TypeFieldsInv, NEW w \in ByType!Writers, ByType!Write(w)
    PROVE  TypeFieldsInv'
<1> DEFINE p == patch[w]
<1>1. /\ p \in PatchRecord /\ p.type \in ByType!Types /\ DOMAIN p.fields \subseteq TypeFieldNames[p.type]
      /\ \A n \in DOMAIN p.fields : p.fields[n] \in {Null, "canonical"}
    BY DEF ByType!Write, TypeFieldsInv, PatchOK
<1>2. /\ p.fields \in Partly(TypeNames, Writing)
      /\ p.existing \in StoredRow \cup {Null}
    BY <1>1 DEF PatchRecord
<1>3. \/ p.existing # Null /\ row' = ByType!merge(p.existing, p.type, p.fields)
      \/ row' = row
      \/ row' = ByType!merge([type |-> p.type, fields |-> <<>>], p.type, p.fields)
    BY DEF ByType!Write
<1>4. patch' = [patch EXCEPT ![w] = ByType!NoPatch] /\ UNCHANGED <<docType, seen, draft>>
    BY DEF ByType!Write, ByType!End
<1> HIDE DEF p
<1>5. row' \in StoredRow \cup {Null}
    <2>1. CASE p.existing # Null /\ row' = ByType!merge(p.existing, p.type, p.fields)
        <3>1. /\ p.existing \in [type : ByType!Types, fields : Partly(TypeNames, {"canonical"})]
              /\ DOMAIN p.existing.fields \subseteq TypeFieldNames[p.existing.type]
            BY <1>2, <2>1 DEF StoredRow
        <3> QED BY <1>1, <1>2, <2>1, <3>1, MergeKeepsToType
    <2>2. CASE row' = row
        BY <2>2 DEF TypeFieldsInv
    <2>3. CASE row' = ByType!merge([type |-> p.type, fields |-> <<>>], p.type, p.fields)
        <3> DEFINE none == [type |-> p.type, fields |-> <<>>]
        <3>1. none \in [type : ByType!Types, fields : Partly(TypeNames, {"canonical"})]
            BY <1>1, NoFieldsYet
        <3>2. none.type = p.type /\ DOMAIN none.fields = {}
            OBVIOUS
        <3>3. row' = ByType!merge(none, p.type, p.fields)
            BY <2>3
        <3> HIDE DEF none
        <3> QED BY <1>1, <1>2, <3>1, <3>2, <3>3, MergeKeepsToType
    <2> QED BY <1>3, <2>1, <2>2, <2>3
<1> QED BY <1>4, <1>5, NoFieldsYet, PatchMoves DEF TypeFieldsInv

LEMMA PatchFailsInv ==
    ASSUME TypeFieldsInv, NEW w \in ByType!Writers, ByType!PatchFails(w)
    PROVE  TypeFieldsInv'
BY NoFieldsYet, PatchMoves DEF ByType!PatchFails, ByType!End, TypeFieldsInv

\* A request with fields of a type is sound.
LEMMA SendOK ==
    ASSUME NEW t \in ByType!Types, NEW f \in Partly(TypeNames, Writing)
    PROVE  LET p == [pc |-> "sent", type |-> t, fields |-> f, existing |-> Null]
           IN  p \in PatchRecord /\ PatchOK(p)
BY DEF PatchRecord, PatchOK

LEMMA runTypeFieldsPassInv ==
    ASSUME TypeFieldsInv, ByType!runTypeFieldsPass
    PROVE  TypeFieldsInv'
<1>1. CASE UNCHANGED patch
    BY <1>1 DEF ByType!runTypeFieldsPass, TypeFieldsInv, PatchOK
<1>2. ASSUME NEW f \in ByType!Partial(TypeFieldNames[docType'], {"loose"}),
             ByType!Send("worker", docType', f)
      PROVE  TypeFieldsInv'
    <2>1. docType' \in ByType!Types /\ UNCHANGED <<row, seen, draft>> /\ "worker" \in ByType!Writers
        BY DEF ByType!runTypeFieldsPass, ByType!Writers
    <2>2. f \in Partly(TypeNames, Writing)
        <3>1. f \in Partly(TypeFieldNames[docType'], {"loose"})
            BY DEF Partly
        <3>2. /\ f = [n \in DOMAIN f |-> f[n]] /\ DOMAIN f \subseteq TypeFieldNames[docType']
              /\ \A n \in DOMAIN f : f[n] = "loose"
            BY <3>1, PartialFunctions
        <3> QED BY <2>1, <3>2, NamesOfType, PartialFunctions DEF Writing, ByType!Text
    <2> QED BY <1>2, <2>1, <2>2, SendOK, PatchMoves DEF ByType!Send, TypeFieldsInv
<1> QED BY <1>1, <1>2 DEF ByType!runTypeFieldsPass

LEMMA LoadsInv ==
    ASSUME TypeFieldsInv, NEW p \in Pages, ByType!Loads(p)
    PROVE  TypeFieldsInv'
<1> DEFINE values == IF row = Null THEN <<>> ELSE row.fields
           now == [type |-> docType, values |-> values]
           fresh == [n \in TypeFieldNames[docType] |-> ByType!Value(values, n)]
<1>1. values \in Partly(TypeNames, {"canonical"})
    BY NoFieldsYet DEF TypeFieldsInv, StoredRow
<1>2. /\ now \in SeenRecord /\ now.type = docType
    BY <1>1 DEF SeenRecord, TypeFieldsInv
<1>3. fresh \in Partly(TypeNames, ByType!Text) /\ DOMAIN fresh = TypeFieldNames[docType]
    <2>1. \A n \in DOMAIN values : values[n] = "canonical"
        BY <1>1, PartialFunctions
    <2> HIDE DEF values
    <2>2. \A n \in DOMAIN fresh : fresh[n] \in ByType!Text
        BY <2>1 DEF ByType!Value, ByType!Text
    <2>3. fresh = [n \in DOMAIN fresh |-> fresh[n]] /\ DOMAIN fresh \subseteq TypeNames
        BY NamesOfType DEF TypeFieldsInv
    <2> QED BY <2>2, <2>3, PartialFunctions
<1>4. /\ seen' = [seen EXCEPT ![p] = now]
      /\ draft' = [draft EXCEPT ![p] = IF seen[p] = now THEN @ ELSE fresh]
      /\ UNCHANGED <<docType, row, patch>>
    BY DEF ByType!Loads, ByType!typeFieldsDraft
<1> HIDE DEF now, fresh
<1>5. CASE seen[p] = now
    BY <1>2, <1>4, <1>5 DEF TypeFieldsInv
<1>6. CASE seen[p] # now
    BY <1>2, <1>3, <1>4, <1>6 DEF TypeFieldsInv
<1> QED BY <1>5, <1>6

LEMMA setFieldInv ==
    ASSUME TypeFieldsInv, NEW p \in Pages, ByType!setField(p)
    PROVE  TypeFieldsInv'
<1>1. PICK n \in DOMAIN draft[p], text \in {"blank", "loose"} :
         draft' = [draft EXCEPT ![p] = [draft[p] EXCEPT ![n] = text]]
    BY DEF ByType!setField, TypeFieldsInv
<1>2. seen[p] # Null /\ UNCHANGED <<docType, row, patch, seen>>
    BY DEF ByType!setField
<1>3. PICK d : d = [draft[p] EXCEPT ![n] = text]
    OBVIOUS
<1>4. d \in Partly(TypeNames, ByType!Text) /\ DOMAIN d = DOMAIN draft[p]
    <2>1. draft[p] \in Partly(TypeNames, ByType!Text)
        BY DEF TypeFieldsInv
    <2>2. /\ draft[p] = [m \in DOMAIN draft[p] |-> draft[p][m]] /\ DOMAIN draft[p] \subseteq TypeNames
          /\ \A m \in DOMAIN draft[p] : draft[p][m] \in ByType!Text
        BY <2>1, PartialFunctions
    <2>3. DOMAIN d = DOMAIN draft[p] /\ d = [m \in DOMAIN d |-> d[m]]
        BY <1>3
    <2>4. \A m \in DOMAIN d : d[m] \in ByType!Text
        BY <1>3, <2>2 DEF ByType!Text
    <2> QED BY <2>2, <2>3, <2>4, PartialFunctions
<1> QED BY <1>1, <1>2, <1>3, <1>4 DEF TypeFieldsInv

\* What a page sends: fields of the type it has seen, blank ones to be cleared.
LEMMA ChangesOK ==
    ASSUME TypeFieldsInv, NEW p \in Pages, seen[p] # Null
    PROVE  ByType!typeFieldsChanges(p) \in Partly(TypeNames, Writing)
<1>1. /\ DOMAIN draft[p] \subseteq TypeNames
      /\ \A n \in DOMAIN draft[p] : draft[p][n] \in ByType!Text
    <2>1. draft[p] \in Partly(TypeNames, ByType!Text)
        BY DEF TypeFieldsInv
    <2> QED BY <2>1, PartialFunctions
<1> DEFINE changed == {n \in DOMAIN draft[p] : draft[p][n] # ByType!Value(seen[p].values, n)}
           f == [n \in changed |-> IF draft[p][n] = "blank" THEN Null ELSE draft[p][n]]
<1>2. ByType!typeFieldsChanges(p) = f
    BY DEF ByType!typeFieldsChanges
<1>3. changed \subseteq DOMAIN draft[p]
    OBVIOUS
<1> HIDE DEF changed
<1>4. /\ f = [n \in DOMAIN f |-> f[n]] /\ DOMAIN f \subseteq TypeNames
      /\ \A n \in DOMAIN f : f[n] \in Writing
    BY <1>1, <1>3 DEF Writing
<1> QED BY <1>2, <1>4, PartialFunctions

LEMMA onSaveInv ==
    ASSUME TypeFieldsInv, NEW p \in Pages, ByType!onSave(p)
    PROVE  TypeFieldsInv'
<1>1. /\ seen[p] # Null /\ seen[p].type \in ByType!Types /\ p \in ByType!Writers
      /\ UNCHANGED <<docType, row, seen, draft>>
    BY DEF ByType!onSave, TypeFieldsInv, SeenRecord, ByType!Writers
<1>2. PICK f \in Partly(TypeNames, Writing) : f = ByType!typeFieldsChanges(p)
    BY <1>1, ChangesOK
<1>3. patch' = [patch EXCEPT ![p] = [pc |-> "sent", type |-> seen[p].type, fields |-> f,
                                     existing |-> Null]]
    BY <1>2 DEF ByType!onSave, ByType!Send
<1> QED BY <1>1, <1>3, SendOK, PatchMoves DEF TypeFieldsInv

LEMMA TypeFieldsNext == TypeFieldsInv /\ [ByType!Next]_byType => TypeFieldsInv'
<1> SUFFICES ASSUME TypeFieldsInv, [ByType!Next]_byType PROVE TypeFieldsInv'
    OBVIOUS
<1>1. CASE ByType!UserChangesType \/ UNCHANGED byType
    BY <1>1 DEF ByType!UserChangesType, byType, TypeFieldsInv, PatchOK
<1> QED BY <1>1, ReadInv, WriteInv, PatchFailsInv, LoadsInv, setFieldInv, onSaveInv,
           runTypeFieldsPassInv DEF ByType!Next

LEMMA TypeFieldsSafe == SumSpec => []TypeFieldsInv
<1>1. SumInit => TypeFieldsInv
    BY PartsBegin, TypeFieldsInit
<1>2. TypeFieldsInv /\ [SumNext]_sumVars => TypeFieldsInv'
    BY PartsMove, TypeFieldsNext
<1> QED BY <1>1, <1>2, PTL DEF SumSpec

LEMMA TypeFieldsTyped == TypeFieldsInv => ByType!TypeOK
<1> SUFFICES ASSUME TypeFieldsInv PROVE ByType!TypeOK
    OBVIOUS
<1>1. row # Null => row.type \in ByType!Types
                    /\ row.fields \in ByType!Partial(ByType!Names, {"canonical"})
    BY DEF TypeFieldsInv, StoredRow, Partly, TypeNames
<1>2. \A w \in ByType!Writers :
          /\ patch[w].pc \in {"none", "sent", "read"}
          /\ patch[w].fields \in ByType!Partial(ByType!Names, ByType!Text \cup {Null})
    BY DEF TypeFieldsInv, PatchRecord, Partly, TypeNames, Writing
<1> QED BY <1>1, <1>2 DEF TypeFieldsInv, ByType!TypeOK

(***************************************************************************)
(* The row of fields by type never mixes the fields of two types, for any  *)
(* types and any number of pages that save beside the worker's second pass *)
(* (type-fields.service.ts: upsert).                                       *)
(***************************************************************************)
THEOREM RowsOfOneType == SumSpec => []FieldsOfOneType
<1>1. TypeFieldsInv => FieldsOfOneType
    BY DEF TypeFieldsInv, StoredRow, FieldsOfOneType, ByType!FieldsOfOneType
<1> QED BY <1>1, TypeFieldsSafe, PTL

-----------------------------------------------------------------------------
(* Duplicates. *)

Dismissed == "ai-duplicate-dismissed"

(***************************************************************************)
(* The last document filed: what the worker found is still what a search   *)
(* would find; until it is patched it is not filed and the worker holds    *)
(* its correspondent, and afterwards the document has it.                  *)
(***************************************************************************)
FiledMatches ==
    filed # Null =>
        /\ filed.doc \in Docs
        /\ filed.matches = Twins!findDuplicateIds(filed.doc)
        /\ IF prop # Null /\ prop.step = "patch"
           THEN /\ prop.doc = filed.doc
                /\ "ai-propagated" \notin tags[filed.doc]
                /\ prop.native = Twins!correspondentOf(filed.doc)
                /\ Dismissed \in prop.seen <=> Dismissed \in tags[filed.doc]
           ELSE native[filed.doc] = Twins!correspondentOf(filed.doc)

TwinsTyped ==
    /\ contents \in [Docs -> Contents]
    /\ tags \in [Docs -> SUBSET Twins!TwinTags]
    /\ native = [d \in Docs |-> native[d]]
    /\ trashed \subseteq Docs
    /\ prop # Null => prop \in Twins!Filing /\ prop.left \subseteq prop.matches
    /\ \A d \in Docs : "ai-approved" \in tags[d] => "ai-propagated" \notin tags[d]

TwinsInv == TwinsTyped /\ FiledMatches

LEMMA TwinsInit == Twins!Init => TwinsInv
BY DEF Twins!Init, TwinsInv, TwinsTyped, FiledMatches, Twins!TwinTags

\* A search does not depend on the document it is for, except on its dismissal, and of the
\* other documents only on what makes them candidates.
LEMMA SameMatches ==
    ASSUME NEW d \in Docs, UNCHANGED <<contents, trashed>>,
           \A e \in Docs \ {d} :
              /\ native'[e] = native[e]
              /\ "ai-propagated" \in tags'[e] <=> "ai-propagated" \in tags[e]
              /\ Dismissed \in tags'[e] <=> Dismissed \in tags[e],
           Dismissed \in tags'[d] <=> Dismissed \in tags[d]
    PROVE  /\ Twins!findDuplicateIds(d)' = Twins!findDuplicateIds(d)
           /\ Twins!correspondentOf(d)' = Twins!correspondentOf(d)
<1>1. Twins!correspondentOf(d)' = Twins!correspondentOf(d)
    BY DEF Twins!correspondentOf
<1>2. \A c : Twins!candidates(d, c)' = Twins!candidates(d, c)
    BY DEF Twins!candidates, Twins!Present, Dismissed
<1>3. \A S : Twins!findDuplicates(contents[d], S)' = Twins!findDuplicates(contents[d], S)
    BY DEF Twins!findDuplicates
<1> QED BY <1>1, <1>2, <1>3 DEF Twins!findDuplicateIds, Dismissed

\* The search of the API is the worker's once the document has its correspondent.
LEMMA SameSearch ==
    ASSUME NEW d \in Docs, native[d] = Twins!correspondentOf(d)
    PROVE  Twins!duplicateCandidates(d) = Twins!findDuplicateIds(d)
BY DEF Twins!duplicateCandidates, Twins!findDuplicateIds

LEMMA MatchesAreDocs == \A d : Twins!findDuplicateIds(d) \subseteq Docs
BY DEF Twins!findDuplicateIds, Twins!findDuplicates, Twins!candidates, Twins!Present

LEMMA SearchInv ==
    ASSUME TwinsInv, NEW d \in Docs, Twins!Search(d)
    PROVE  TwinsInv'
<1>1. PICK found \in {{}, Twins!findDuplicateIds(d)} :
         /\ prop' = [doc |-> d, seen |-> tags[d], native |-> Twins!correspondentOf(d),
                     matches |-> found, left |-> found, step |-> "patch"]
         /\ filed' = IF found = Twins!findDuplicateIds(d) THEN [doc |-> d, matches |-> found]
                     ELSE Null
    BY DEF Twins!Search
<1>2. /\ "ai-approved" \in tags[d] /\ UNCHANGED <<contents, native, tags, trashed>>
    BY DEF Twins!Search
<1>3. found \subseteq Docs
    BY MatchesAreDocs
<1>4. Twins!correspondentOf(d) \in {Trim[c.correspondent] : c \in Contents} \cup {Null}
    BY DEF Twins!correspondentOf, TwinsInv, TwinsTyped
<1>5. tags[d] \in SUBSET Twins!TwinTags /\ "ai-propagated" \notin tags[d]
    BY <1>2 DEF TwinsInv, TwinsTyped
<1>6. /\ prop' \in Twins!Filing /\ prop'.left \subseteq prop'.matches
      /\ prop'.doc = d /\ prop'.seen = tags[d] /\ prop'.native = Twins!correspondentOf(d)
      /\ prop'.step = "patch"
    BY <1>1, <1>3, <1>4, <1>5 DEF Twins!Filing
<1>7. prop' # Null
    BY <1>6, FilingAssumption
<1>8. /\ Twins!findDuplicateIds(d)' = Twins!findDuplicateIds(d)
      /\ Twins!correspondentOf(d)' = Twins!correspondentOf(d)
    BY <1>2, SameMatches
<1>9. TwinsTyped'
    BY <1>2, <1>6 DEF TwinsInv, TwinsTyped, Twins!Filing
<1>10. FiledMatches'
    <2>1. CASE found = Twins!findDuplicateIds(d)
        <3>1. filed'.doc = d /\ filed'.matches = Twins!findDuplicateIds(d)'
            BY <1>1, <1>8, <2>1
        <3> QED BY <1>2, <1>5, <1>6, <1>7, <1>8, <3>1 DEF FiledMatches
    <2>2. CASE found # Twins!findDuplicateIds(d)
        BY <1>1, <2>2 DEF FiledMatches
    <2> QED BY <2>1, <2>2
<1> QED BY <1>9, <1>10 DEF TwinsInv

LEMMA FileInv ==
    ASSUME TwinsInv, Twins!File
    PROVE  TwinsInv'
<1>1. prop \in Twins!Filing /\ prop # Null /\ prop.step = "patch" /\ prop.left \subseteq prop.matches
    BY DEF Twins!File, TwinsInv, TwinsTyped
<1>2. PICK d \in Docs : d = prop.doc
    BY <1>1 DEF Twins!Filing
<1> DEFINE new == (prop.seen \ {"ai-approved"}) \cup {"ai-propagated"}
                    \cup IF prop.matches = {} THEN {} ELSE {"ai-duplicate"}
           q == [prop EXCEPT !.step = "mark"]
<1>9. /\ new \subseteq Twins!TwinTags /\ "ai-approved" \notin new
      /\ Dismissed \in new <=> Dismissed \in prop.seen
    BY <1>1 DEF Twins!Filing, Twins!TwinTags, Dismissed
<1>3. /\ native' = [native EXCEPT ![d] = prop.native] /\ tags' = [tags EXCEPT ![d] = new]
      /\ prop' = q /\ UNCHANGED <<contents, trashed, filed>>
    BY <1>2 DEF Twins!File
<1>4. q \in Twins!Filing /\ q.left \subseteq q.matches /\ q.step = "mark"
    BY <1>1 DEF Twins!Filing
<1> HIDE DEF new, q
<1>5. TwinsTyped'
    BY <1>3, <1>4, <1>9 DEF TwinsInv, TwinsTyped
<1>6. ASSUME filed # Null
      PROVE  /\ filed.doc \in Docs
             /\ filed.matches = Twins!findDuplicateIds(filed.doc)'
             /\ native'[filed.doc] = Twins!correspondentOf(filed.doc)'
    <2>1. /\ filed.doc = d /\ filed.matches = Twins!findDuplicateIds(d)
          /\ prop.native = Twins!correspondentOf(d)
          /\ Dismissed \in prop.seen <=> Dismissed \in tags[d]
        BY <1>1, <1>2, <1>6 DEF TwinsInv, FiledMatches
    <2>2. \A e \in Docs \ {d} : native'[e] = native[e] /\ tags'[e] = tags[e]
        BY <1>3 DEF TwinsInv, TwinsTyped
    <2>3. Dismissed \in tags'[d] <=> Dismissed \in tags[d]
        BY <1>3, <1>9, <2>1 DEF TwinsInv, TwinsTyped
    <2>4. /\ Twins!findDuplicateIds(d)' = Twins!findDuplicateIds(d)
          /\ Twins!correspondentOf(d)' = Twins!correspondentOf(d)
        <3>1. \A e \in Docs \ {d} :
                 /\ native'[e] = native[e]
                 /\ "ai-propagated" \in tags'[e] <=> "ai-propagated" \in tags[e]
                 /\ Dismissed \in tags'[e] <=> Dismissed \in tags[e]
            BY <2>2
        <3>2. UNCHANGED <<contents, trashed>>
            BY <1>3
        <3> QED BY <2>3, <3>1, <3>2, SameMatches
    <2>5. native'[d] = prop.native
        BY <1>3 DEF TwinsInv, TwinsTyped
    <2>6. /\ filed.matches = Twins!findDuplicateIds(d)'
          /\ native'[d] = Twins!correspondentOf(d)'
        BY <2>1, <2>4, <2>5
    <2> QED BY <1>3, <2>1, <2>6
<1> QED BY <1>3, <1>4, <1>5, <1>6 DEF TwinsInv, FiledMatches

LEMMA MarkMatchInv ==
    ASSUME TwinsInv, NEW e \in Docs, Twins!MarkMatch(e)
    PROVE  TwinsInv'
<1> DEFINE q == [prop EXCEPT !.left = @ \ {e}]
<1>1. prop \in Twins!Filing /\ prop # Null /\ prop.step = "mark" /\ prop.left \subseteq prop.matches
    BY DEF Twins!MarkMatch, TwinsInv, TwinsTyped
<1>2. q \in Twins!Filing /\ q.left \subseteq q.matches /\ q.step = "mark"
    BY <1>1 DEF Twins!Filing
<1>3. /\ prop' = q /\ UNCHANGED <<contents, native, trashed, filed>>
      /\ tags' = [tags EXCEPT ![e] = @ \cup {"ai-duplicate"}] \/ tags' = tags
    BY DEF Twins!MarkMatch
<1> HIDE DEF q
<1>4. /\ tags' \in [Docs -> SUBSET Twins!TwinTags]
      /\ \A d \in Docs : \A t : t # "ai-duplicate" => (t \in tags'[d] <=> t \in tags[d])
    BY <1>3 DEF TwinsInv, TwinsTyped, Twins!TwinTags
<1>5. TwinsTyped'
    BY <1>2, <1>3, <1>4 DEF TwinsInv, TwinsTyped
<1>6. ASSUME filed # Null
      PROVE  /\ filed.doc \in Docs
             /\ filed.matches = Twins!findDuplicateIds(filed.doc)'
             /\ native'[filed.doc] = Twins!correspondentOf(filed.doc)'
    <2>1. /\ filed.doc \in Docs /\ filed.matches = Twins!findDuplicateIds(filed.doc)
          /\ native[filed.doc] = Twins!correspondentOf(filed.doc)
        BY <1>1, <1>6 DEF TwinsInv, FiledMatches
    <2>2. PICK d \in Docs : d = filed.doc
        BY <2>1
    <2>3. /\ Twins!findDuplicateIds(d)' = Twins!findDuplicateIds(d)
          /\ Twins!correspondentOf(d)' = Twins!correspondentOf(d)
        BY <1>3, <1>4, SameMatches DEF Dismissed
    <2> QED BY <1>3, <2>1, <2>2, <2>3
<1> QED BY <1>2, <1>3, <1>5, <1>6 DEF TwinsInv, FiledMatches

LEMMA TwinsNext == TwinsInv /\ [Twins!Next]_twins => TwinsInv'
<1> SUFFICES ASSUME TwinsInv, [Twins!Next]_twins PROVE TwinsInv'
    OBVIOUS
<1>1. CASE Twins!PropagationEnds
    <2>1. UNCHANGED <<contents, native, tags, trashed>> /\ prop' = Null
        BY <1>1 DEF Twins!PropagationEnds
    <2>2. filed' = Null \/ (filed' = filed /\ prop.step # "patch")
        <3>1. filed' = IF prop.step = "patch" THEN Null ELSE filed
            BY <1>1 DEF Twins!PropagationEnds
        <3>2. CASE prop.step = "patch"
            BY <3>1, <3>2
        <3>3. CASE prop.step # "patch"
            BY <3>1, <3>3
        <3> QED BY <3>2, <3>3
    <2>3. ASSUME filed' = filed, prop.step # "patch" PROVE FiledMatches'
        <3>1. \A d \in Docs : /\ Twins!findDuplicateIds(d)' = Twins!findDuplicateIds(d)
                              /\ Twins!correspondentOf(d)' = Twins!correspondentOf(d)
            BY <2>1, SameMatches
        <3> QED BY <2>1, <2>3, <3>1 DEF TwinsInv, FiledMatches
    <2> QED BY <2>1, <2>2, <2>3 DEF TwinsInv, TwinsTyped, FiledMatches
<1>2. ASSUME NEW d \in Docs, Twins!dismissDuplicate(d) PROVE TwinsInv'
    BY <1>2 DEF Twins!dismissDuplicate, Twins!Change, TwinsInv, TwinsTyped, FiledMatches,
                Twins!TwinTags
<1>3. ASSUME NEW d \in Docs, Twins!FieldsEdited(d) PROVE TwinsInv'
    BY <1>3 DEF Twins!FieldsEdited, Twins!Change, TwinsInv, TwinsTyped, FiledMatches
<1>4. ASSUME NEW d \in Docs, Twins!TrashedOrRestored(d) PROVE TwinsInv'
    BY <1>4 DEF Twins!TrashedOrRestored, Twins!Change, TwinsInv, TwinsTyped, FiledMatches
<1>5. CASE UNCHANGED twins
    <2>1. \A d \in Docs : /\ Twins!findDuplicateIds(d)' = Twins!findDuplicateIds(d)
                          /\ Twins!correspondentOf(d)' = Twins!correspondentOf(d)
        BY <1>5, SameMatches DEF twins
    <2> QED BY <1>5, <2>1 DEF twins, TwinsInv, TwinsTyped, FiledMatches
<1> QED BY <1>1, <1>2, <1>3, <1>4, <1>5, SearchInv, FileInv, MarkMatchInv DEF Twins!Next

LEMMA TwinsSafe == SumSpec => []TwinsInv
<1>1. SumInit => TwinsInv
    BY PartsBegin, TwinsInit
<1>2. TwinsInv /\ [SumNext]_sumVars => TwinsInv'
    BY PartsMove, TwinsNext
<1> QED BY <1>1, <1>2, PTL DEF SumSpec

\* Matching is symmetric, although each side searches from its own document.
LEMMA MatchingIsSymmetric ==
    ASSUME NEW d \in {x \in Twins!Present : "ai-propagated" \in tags[x]},
           NEW e \in {x \in Twins!Present : "ai-propagated" \in tags[x]},
           e \in Twins!duplicateCandidates(d)
    PROVE  d \in Twins!duplicateCandidates(e)
<1>1. /\ native[d] # Null /\ Dismissed \notin tags[d]
      /\ e \in Twins!findDuplicates(contents[d], Twins!candidates(d, native[d]))
    BY DEF Twins!duplicateCandidates, Dismissed
<1>2. d # e /\ native[e] = native[d] /\ Dismissed \notin tags[e]
    BY <1>1 DEF Twins!findDuplicates, Twins!candidates, Dismissed
<1>3. d \in Twins!candidates(e, native[e])
    BY <1>1, <1>2 DEF Twins!candidates, Dismissed
<1>4. \A a, b : Twins!amountMatches(a, b) => Twins!amountMatches(b, a)
    <2>1. \A a, b : {a, b} = {b, a}
        OBVIOUS
    <2> QED BY <2>1 DEF Twins!amountMatches
<1>5. \A a, b : Twins!refsMatch(a, b) => Twins!refsMatch(b, a)
    BY DEF Twins!refsMatch
<1>6. \A a, b : Twins!typesAgree(a, b) => Twins!typesAgree(b, a)
    BY DEF Twins!typesAgree
<1>7. d \in Twins!findDuplicates(contents[e], Twins!candidates(e, native[e]))
    BY <1>1, <1>3, <1>4, <1>5, <1>6 DEF Twins!findDuplicates
<1> QED BY <1>1, <1>2, <1>7 DEF Twins!duplicateCandidates, Dismissed

(***************************************************************************)
(* The panels of two filed documents name each other or neither does, and  *)
(* a document just filed is shown what the worker marked, for any          *)
(* documents, contents, readings of texts and tolerance of amounts         *)
(* (dedup.ts, duplicateCandidates).                                        *)
(***************************************************************************)
THEOREM PanelsAlwaysAgree == SumSpec => []PanelsAgree
<1>1. TwinsInv => PanelsAgree
    <2> SUFFICES ASSUME TwinsInv PROVE PanelsAgree
        OBVIOUS
    <2>1. ASSUME filed # Null, "ai-propagated" \in tags[filed.doc]
          PROVE  Twins!duplicateCandidates(filed.doc) = filed.matches
        BY <2>1, SameSearch DEF TwinsInv, FiledMatches
    <2> QED BY <2>1, MatchingIsSymmetric DEF PanelsAgree, Twins!PanelsAgree
<1> QED BY <1>1, TwinsSafe, PTL

LEMMA TwinsTypeOK == TwinsInv => Twins!TypeOK
BY DEF TwinsInv, TwinsTyped, Twins!TypeOK

-----------------------------------------------------------------------------
(* Names and ids of tags. *)

Lists == UNION {[D -> TagNames] : D \in SUBSET Nat}

CallRecord ==
    [step : {"idle", "lookup", "keep", "find", "post", "created", "refused", "pages", "list",
             "store"},
     op : {"none", "getTagId", "ensureTag", "getOrCreateNamed", "names", "ensure", "covering",
           "again"},
     name : TagNames \cup {Null}, ids : SUBSET Nat, id : Nat, list : Lists, page : Nat \ {0}]

\* The tag id, if it ever existed, has this name or was deleted.
NameOf(n, id) == id \in DOMAIN entity => entity[id] \in {n, Null}

\* The same for a list of names by id.
ListOK(l) ==
    /\ l \in Lists
    /\ \A i \in DOMAIN l : i \in DOMAIN entity /\ entity[i] \in {l[i], Null}

\* The pages before this one had every tag that is owed and now comes before it: tags created
\* meanwhile only move it on.
PagesRead(ids, page) ==
    \A j \in owed : Cardinality(Tagged!Before(j)) < (page - 1) * PageSize => j \in ids

FetchOps == {"ensure", "covering", "again"}

\* What a call in progress knows of the tags.
CallOK(r) ==
    /\ r.ids \subseteq DOMAIN entity
    /\ r.step \in {"lookup", "keep"} => side = "client" /\ r.op \in {"getTagId", "ensureTag"}
    /\ r.step \in {"find", "post", "created", "refused"} =>
            IF side = "client" THEN r.op \in {"ensureTag", "getOrCreateNamed"} ELSE r.op = "ensure"
    /\ r.step \in {"lookup", "keep", "find", "post", "created", "refused"} => r.name \in TagNames
    /\ r.step \in {"keep", "created"} => NameOf(r.name, r.id) /\ r.id \in DOMAIN entity \cup {0}
    /\ r.step = "pages" => /\ side = "client" /\ r.op = "names"
                           /\ ListOK(r.list) /\ DOMAIN r.list = r.ids
                           /\ PagesRead(r.ids, r.page)
    /\ r.step \in {"list", "store"} =>
            /\ r.op = "ensure" => r.name \in TagNames
            /\ side = "gateway" => r.op \in FetchOps
    /\ r.step = "list" => side = "gateway"
    /\ r.step = "store" =>
            /\ ListOK(r.list)
            /\ side = "client" => r.op = "names" /\ owed \subseteq DOMAIN r.list
            /\ side = "gateway" /\ Len(entity) <= ApiPage =>
                    owed \cup (r.ids \cap Tagged!Live) \subseteq DOMAIN r.list

CachesOK ==
    /\ tagIdCache \in [TagNames -> Nat \cup {Null}]
    /\ \A n \in TagNames : /\ tagIdCache[n] \in {Null, 0} \cup DOMAIN entity
                           /\ NameOf(n, tagIdCache[n])
    /\ nameMap # Null => side = "client" /\ ListOK(nameMap) /\ owed \subseteq DOMAIN nameMap
    /\ tagsCache # Null =>
            /\ side = "gateway" /\ ListOK(tagsCache)
            /\ Len(entity) <= ApiPage => owed \subseteq DOMAIN tagsCache

AnswerOK ==
    /\ NameOf(answer.name, answer.id)
    /\ answer.op = "names" => owed \subseteq DOMAIN answer.list
    /\ answer.op \in {"covering", "again"} /\ Len(entity) <= ApiPage
            => owed \cup (answer.ids \cap Tagged!Live) \subseteq DOMAIN answer.list

(***************************************************************************)
(* Every id that is held, by a call, a cache or an answer, is that of its  *)
(* name or of a deleted tag, and every list that is held has the tags the  *)
(* process owes, unless it was being fetched when they were created.       *)
(***************************************************************************)
NamesTyped ==
    /\ side \in {"client", "gateway"}
    /\ entity \in Seq(TagNames \cup {Null})
    /\ call \in [Callers -> CallRecord]
    /\ owed \subseteq Tagged!Live

CallsOK == \A c \in Callers : \A r \in CallRecord : call[c] = r => CallOK(r)

NamesInv ==
    /\ NamesTyped
    /\ CallsOK
    /\ CachesOK
    /\ AnswerOK

LEMMA ListFacts ==
    /\ \A l \in Lists : DOMAIN l \subseteq Nat /\ \A i \in DOMAIN l : l[i] \in TagNames
    /\ \A D \in SUBSET Nat : [D -> TagNames] \subseteq Lists
    /\ <<>> \in Lists
<1>1. <<>> \in [{} -> TagNames]
    OBVIOUS
<1> QED BY <1>1 DEF Lists

LEMMA IdleCall ==
    /\ Tagged!Idle \in CallRecord
    /\ CallOK(Tagged!Idle)
BY ListFacts DEF Tagged!Idle, Tagged!NoTag, CallRecord, CallOK

\* A call that begins.
Begun(step, op, name, ids) == [Tagged!Idle EXCEPT !.step = step, !.op = op, !.name = name, !.ids = ids]

LEMMA BegunIs ==
    ASSUME NEW step \in {"lookup", "find", "post", "pages", "list"},
           NEW op \in {"getTagId", "ensureTag", "getOrCreateNamed", "names", "ensure", "covering",
                       "again"},
           NEW name \in TagNames \cup {Null}, NEW ids \in SUBSET Nat
    PROVE  /\ Begun(step, op, name, ids) \in CallRecord
           /\ Begun(step, op, name, ids).step = step /\ Begun(step, op, name, ids).op = op
           /\ Begun(step, op, name, ids).name = name /\ Begun(step, op, name, ids).ids = ids
           /\ Begun(step, op, name, ids).list = <<>>
           /\ Begun(step, op, name, ids).page = 1
<1>1. PICK r : r = Begun(step, op, name, ids)
    OBVIOUS
<1>2. r = [step |-> step, op |-> op, name |-> name, ids |-> ids, id |-> 0, list |-> <<>>, page |-> 1]
    BY <1>1 DEF Begun, Tagged!Idle, Tagged!NoTag
<1>3. r.step = step /\ r.op = op /\ r.name = name /\ r.ids = ids /\ r.list = <<>> /\ r.page = 1
    BY <1>2
<1>4. r \in CallRecord
    BY <1>2, ListFacts DEF CallRecord
<1> QED BY <1>1, <1>3, <1>4

LEMMA Entities ==
    ASSUME NamesTyped
    PROVE  /\ DOMAIN entity = 1..Len(entity) /\ Len(entity) \in Nat
           /\ \A i \in DOMAIN entity : i \in Nat \ {0} /\ entity[i] \in TagNames \cup {Null}
           /\ Tagged!Live \subseteq DOMAIN entity /\ \A i \in Tagged!Live : entity[i] \in TagNames
<1>1. entity \in Seq(TagNames \cup {Null})
    BY DEF NamesTyped
<1>2. DOMAIN entity = 1..Len(entity) /\ Len(entity) \in Nat
      /\ \A i \in DOMAIN entity : entity[i] \in TagNames \cup {Null}
    BY <1>1
<1> QED BY <1>2 DEF Tagged!Live

LEMMA NamesInit == Tagged!Init => NamesInv
<1> SUFFICES ASSUME Tagged!Init PROVE NamesInv
    OBVIOUS
<1>1. PICK k \in 0..MaxId : entity \in [1..k -> TagNames]
    BY DEF Tagged!Init
<1>2. entity \in Seq(TagNames \cup {Null})
    <2>1. k \in Nat
        BY NamesAssumption
    <2> QED BY <1>1, <2>1
<1>3. NamesTyped
    BY <1>2, IdleCall DEF Tagged!Init, NamesTyped
<1>4. CallsOK
    BY IdleCall DEF Tagged!Init, CallsOK
<1>5. CachesOK
    BY <1>3, Entities, NamesAssumption DEF Tagged!Init, CachesOK, NameOf
<1>6. AnswerOK
    BY <1>3, Entities DEF Tagged!Init, AnswerOK, NameOf, Tagged!Idle, Tagged!NoTag
<1> QED BY <1>3, <1>4, <1>5, <1>6 DEF NamesInv

\* The instance counts as this module does.
LEMMA Counts == \A S : Tagged!Cardinality(S) = Cardinality(S)
BY DEF Tagged!Cardinality, Cardinality

LEMMA LiveIsFinite ==
    ASSUME NamesTyped
    PROVE  /\ \A S \in SUBSET Tagged!Live : IsFiniteSet(S) /\ Cardinality(S) \in Nat
                                            /\ Cardinality(S) <= Cardinality(Tagged!Live)
           /\ Cardinality(Tagged!Live) <= Len(entity)
<1>1. Len(entity) \in Nat /\ Tagged!Live \subseteq 1..Len(entity)
    BY Entities
<1>2. IsFiniteSet(1..Len(entity)) /\ Cardinality(1..Len(entity)) = Len(entity)
    BY <1>1, FS_Interval
<1>3. IsFiniteSet(Tagged!Live) /\ Cardinality(Tagged!Live) <= Len(entity)
    BY <1>1, <1>2, FS_Subset
<1>4. ASSUME NEW S \in SUBSET Tagged!Live
      PROVE  IsFiniteSet(S) /\ Cardinality(S) \in Nat /\ Cardinality(S) <= Cardinality(Tagged!Live)
    BY <1>3, FS_Subset, FS_CardinalityType
<1> QED BY <1>3, <1>4

\* The place of a tag in the order of the names.
LEMMA Places ==
    ASSUME NamesTyped, NEW j \in Tagged!Live
    PROVE  /\ IsFiniteSet(Tagged!Before(j)) /\ Cardinality(Tagged!Before(j)) \in Nat
           /\ Cardinality(Tagged!Before(j)) < Cardinality(Tagged!Live)
<1>1. entity[j] \in TagNames
    BY Entities
<1>2. Tagged!Before(j) \in SUBSET Tagged!Live /\ j \notin Tagged!Before(j)
    BY <1>1, NamesAssumption DEF Tagged!Before
<1>3. IsFiniteSet(Tagged!Live) /\ Cardinality(Tagged!Live) \in Nat
    BY LiveIsFinite
<1>4. Cardinality(Tagged!Before(j)) # Cardinality(Tagged!Live)
    BY <1>2, <1>3, FS_Subset
<1> QED BY <1>2, <1>3, <1>4, LiveIsFinite

\* What is known lasts while the tags and the debt stay as they are.
LEMMA Lasting ==
    ASSUME NamesInv, UNCHANGED <<side, entity, owed>>
    PROVE  /\ \A r : CallOK(r) => CallOK(r)'
           /\ \A l : ListOK(l) => ListOK(l)'
           /\ \A n, id : NameOf(n, id) => NameOf(n, id)'
           /\ Tagged!Live' = Tagged!Live
<1>1. Tagged!Live' = Tagged!Live
    BY DEF Tagged!Live
<1>2. \A l : ListOK(l) => ListOK(l)'
    BY DEF ListOK
<1>3. \A n, id : NameOf(n, id) => NameOf(n, id)'
    BY DEF NameOf
<1>4. \A ids, page : PagesRead(ids, page) => PagesRead(ids, page)'
    BY <1>1 DEF PagesRead, Tagged!Before
<1> HIDE DEF PagesRead, ListOK, NameOf
<1>5. \A r : CallOK(r) => CallOK(r)'
    BY <1>1, <1>2, <1>3, <1>4 DEF CallOK
<1> QED BY <1>1, <1>2, <1>3, <1>5

LEMMA CachesLast ==
    ASSUME NamesInv, UNCHANGED <<side, entity, owed, tagIdCache, nameMap, tagsCache>>
    PROVE  CachesOK'
BY Lasting DEF NamesInv, CachesOK

LEMMA NothingAnswered ==
    ASSUME answer' = Tagged!Idle, NamesTyped'
    PROVE  AnswerOK'
<1>1. 0 \notin DOMAIN entity'
    BY Entities
<1> QED BY <1>1 DEF AnswerOK, NameOf, Tagged!Idle, Tagged!NoTag

LEMMA CallOf ==
    ASSUME NamesInv, NEW c \in Callers
    PROVE  call[c] \in CallRecord /\ CallOK(call[c])
BY DEF NamesInv, NamesTyped, CallsOK

LEMMA CallMoves ==
    ASSUME NamesInv, NEW c \in Callers, NEW r \in CallRecord, CallOK(r),
           call' = [call EXCEPT ![c] = r], UNCHANGED <<side, entity, owed>>
    PROVE  NamesTyped' /\ CallsOK'
<1>1. NamesTyped'
    BY Lasting DEF NamesInv, NamesTyped
<1>2. CallsOK'
    <2> SUFFICES ASSUME NEW d \in Callers, NEW q \in CallRecord, call'[d] = q PROVE CallOK(q)'
        BY DEF CallsOK
    <2>1. CallOK(q)
        BY CallOf DEF NamesInv, NamesTyped
    <2> QED BY <2>1, Lasting
<1> QED BY <1>1, <1>2

LEMMA Found ==
    ASSUME NamesTyped, NEW n
    PROVE  /\ Tagged!found(n) \in DOMAIN entity \cup {0}
           /\ NameOf(n, Tagged!found(n))
<1> DEFINE hits == {i \in Tagged!Live : Lower[entity[i]] = Lower[n] /\ entity[i] = n}
<1>1. CASE hits = {}
    <2>1. Tagged!found(n) = 0
        BY <1>1 DEF Tagged!found, Tagged!NoTag
    <2> QED BY <2>1, Entities DEF NameOf
<1>2. CASE hits # {}
    <2>1. Tagged!found(n) \in hits
        BY <1>2 DEF Tagged!found
    <2> QED BY <2>1, Entities DEF NameOf
<1> QED BY <1>1, <1>2

\* A call that is answered: the caller is idle, and the caches stay right.
LEMMA Answered ==
    ASSUME NamesInv, NEW c \in Callers, NEW op, NEW name, NEW ids, NEW id, NEW list,
           Tagged!Answer(c, op, name, ids, id, list), UNCHANGED <<side, entity, owed>>,
           NameOf(name, id), op = "names" => owed \subseteq DOMAIN list,
           op \in {"covering", "again"} /\ Len(entity) <= ApiPage
               => owed \cup (ids \cap Tagged!Live) \subseteq DOMAIN list
    PROVE  NamesTyped' /\ CallsOK' /\ AnswerOK'
<1>1. call' = [call EXCEPT ![c] = Tagged!Idle]
    BY DEF Tagged!Answer
<1>2. PICK r \in CallRecord : r = Tagged!Idle
    BY IdleCall
<1>3. CallOK(r)
    BY <1>2, IdleCall
<1>4. NamesTyped' /\ CallsOK'
    BY <1>1, <1>2, <1>3, CallMoves
<1>5. answer'.op = op /\ answer'.name = name /\ answer'.ids = ids /\ answer'.id = id
      /\ answer'.list = list
    BY DEF Tagged!Answer
<1>6. Tagged!Live' = Tagged!Live
    BY Lasting
<1>7. AnswerOK'
    BY <1>5, <1>6 DEF AnswerOK, NameOf
<1> QED BY <1>4, <1>7

\* A call that goes on without an answer.
LEMMA Goes ==
    ASSUME NamesInv, NEW c \in Callers, NEW r \in CallRecord, CallOK(r),
           call' = [call EXCEPT ![c] = r], answer' = Tagged!Idle, UNCHANGED <<side, entity, owed>>
    PROVE  NamesTyped' /\ CallsOK' /\ AnswerOK'
BY CallMoves, NothingAnswered

LEMMA Begins ==
    ASSUME NamesInv, NEW c \in Callers,
           NEW step \in {"lookup", "find", "post", "pages", "list"},
           NEW op \in {"getTagId", "ensureTag", "getOrCreateNamed", "names", "ensure", "covering",
                       "again"},
           NEW name \in TagNames \cup {Null}, NEW ids \in SUBSET DOMAIN entity,
           Tagged!Call(c, step, op, name, ids), UNCHANGED <<side, entity, owed>>,
           step = "lookup" => side = "client" /\ op \in {"getTagId", "ensureTag"},
           step \in {"find", "post"} =>
               IF side = "client" THEN op \in {"ensureTag", "getOrCreateNamed"} ELSE op = "ensure",
           step \in {"lookup", "find", "post"} => name \in TagNames,
           step = "pages" => side = "client" /\ op = "names" /\ ids = {},
           step = "list" => /\ side = "gateway" /\ op \in FetchOps
                            /\ op = "ensure" => name \in TagNames
    PROVE  NamesTyped' /\ CallsOK' /\ AnswerOK'
<1>1. ids \in SUBSET Nat
    BY Entities DEF NamesInv
<1>2. PICK r \in CallRecord : r = Begun(step, op, name, ids)
    BY <1>1, BegunIs
<1>3. r.step = step /\ r.op = op /\ r.name = name /\ r.ids = ids /\ r.list = <<>>
      /\ r.page = 1
    BY <1>2 DEF Begun, Tagged!Idle, Tagged!NoTag
<1>4. ListOK(<<>>) /\ DOMAIN <<>> = {}
    BY ListFacts DEF ListOK
<1>5. PagesRead({}, 1)
    <2>1. ASSUME NEW j \in owed PROVE ~(Cardinality(Tagged!Before(j)) < (1 - 1) * PageSize)
        <3>1. j \in Tagged!Live
            BY DEF NamesInv, NamesTyped
        <3>2. Cardinality(Tagged!Before(j)) \in Nat
            BY <3>1, Places DEF NamesInv
        <3> QED BY <3>2, NamesAssumption
    <2> QED BY <2>1 DEF PagesRead
<1>6. CallOK(r)
    <2> HIDE DEF ListOK, PagesRead, NameOf
    <2> QED BY <1>3, <1>4, <1>5 DEF CallOK, FetchOps
<1>7. call' = [call EXCEPT ![c] = r] /\ answer' = Tagged!Idle
    BY <1>2 DEF Tagged!Call, Begun
<1> QED BY <1>6, <1>7, Goes

(* The worker's client. *)

LEMMA GetTagId ==
    ASSUME NamesInv, NEW c \in Callers, NEW op \in {"getTagId", "ensureTag"}, NEW n \in TagNames,
           Tagged!getTagId(c, op, n)
    PROVE  NamesInv'
<1>1. UNCHANGED <<side, entity, owed, tagIdCache, nameMap, tagsCache>> /\ side = "client"
    BY DEF Tagged!getTagId, Tagged!caches
<1>2. CachesOK'
    BY <1>1, CachesLast
<1>3. CASE tagIdCache[n] = Null
    <2>1. Tagged!Call(c, "lookup", op, n, {})
        BY <1>3, NamesAssumption DEF Tagged!getTagId, Tagged!NoTag
    <2> QED BY <1>1, <1>2, <2>1, Begins DEF NamesInv
<1>4. CASE tagIdCache[n] # Null /\ tagIdCache[n] = Tagged!NoTag /\ op = "ensureTag"
    <2>1. Tagged!Call(c, "post", op, n, {})
        BY <1>4 DEF Tagged!getTagId
    <2> QED BY <1>1, <1>2, <1>4, <2>1, Begins DEF NamesInv
<1>5. CASE tagIdCache[n] # Null /\ ~(tagIdCache[n] = Tagged!NoTag /\ op = "ensureTag")
    <2>1. Tagged!Answer(c, op, n, {}, tagIdCache[n], <<>>)
        BY <1>5 DEF Tagged!getTagId
    <2>2. NameOf(n, tagIdCache[n])
        BY DEF NamesInv, CachesOK
    <2> QED BY <1>1, <1>2, <2>1, <2>2, Answered DEF NamesInv
<1> QED BY <1>3, <1>4, <1>5

LEMMA TagIdRead ==
    ASSUME NamesInv, NEW c \in Callers, Tagged!TagIdRead(c)
    PROVE  NamesInv'
<1>1. UNCHANGED <<side, entity, owed, tagIdCache, nameMap, tagsCache>> /\ call[c].step = "lookup"
    BY DEF Tagged!TagIdRead, Tagged!caches, Tagged!At
<1>2. CachesOK'
    BY <1>1, CachesLast
<1>3. PICK k \in CallRecord : k = call[c] /\ CallOK(k)
    BY CallOf
<1>4. PICK id \in DOMAIN entity \cup {0} : id = Tagged!found(k.name) /\ NameOf(k.name, id)
    BY Found DEF NamesInv
<1>5. id \in Nat
    BY Entities DEF NamesInv
<1>6. PICK r \in CallRecord : r = [k EXCEPT !.step = "keep", !.id = id]
    BY <1>5 DEF CallRecord
<1>7. r.step = "keep" /\ r.id = id /\ r.op = k.op /\ r.name = k.name /\ r.ids = k.ids
    BY <1>6 DEF CallRecord
<1>8. CallOK(r)
    <2> HIDE DEF ListOK, PagesRead, NameOf
    <2> QED BY <1>1, <1>3, <1>4, <1>7 DEF CallOK
<1>9. call' = [call EXCEPT ![c] = r] /\ answer' = Tagged!Idle
    BY <1>3, <1>4, <1>6 DEF Tagged!TagIdRead, NamesInv, NamesTyped
<1> QED BY <1>1, <1>2, <1>8, <1>9, Goes DEF NamesInv

LEMMA TagIdKept ==
    ASSUME NamesInv, NEW c \in Callers, Tagged!TagIdKept(c)
    PROVE  NamesInv'
<1>1. UNCHANGED <<side, entity, owed, nameMap, tagsCache>> /\ call[c].step = "keep"
    BY DEF Tagged!TagIdKept, Tagged!At
<1>2. PICK k \in CallRecord : k = call[c] /\ CallOK(k)
    BY CallOf
<1>3. /\ k.name \in TagNames /\ side = "client" /\ k.op \in {"getTagId", "ensureTag"}
      /\ k.id \in DOMAIN entity \cup {0} /\ NameOf(k.name, k.id)
    BY <1>1, <1>2 DEF CallOK
<1>4. CachesOK'
    <2>1. tagIdCache' = [tagIdCache EXCEPT ![k.name] = k.id]
        BY <1>2 DEF Tagged!TagIdKept
    <2>2. k.id \in Nat
        BY <1>3, Entities DEF NamesInv
    <2>3. CachesOK
        BY DEF NamesInv
    <2>4. /\ tagIdCache' \in [TagNames -> Nat \cup {Null}]
          /\ \A n \in TagNames : /\ tagIdCache'[n] \in {Null, 0} \cup DOMAIN entity
                                 /\ NameOf(n, tagIdCache'[n])
        BY <1>3, <2>1, <2>2, <2>3 DEF CachesOK
    <2> QED BY <1>1, <2>3, <2>4 DEF CachesOK, NameOf, ListOK
<1>5. CASE k.id = Tagged!NoTag /\ k.op = "ensureTag"
    <2>1. PICK r \in CallRecord : r = [k EXCEPT !.step = "post"]
        BY DEF CallRecord
    <2>2. r.step = "post" /\ r.op = k.op /\ r.name = k.name /\ r.ids = k.ids
        BY <2>1 DEF CallRecord
    <2>3. CallOK(r)
        <3> HIDE DEF ListOK, PagesRead, NameOf
        <3> QED BY <1>2, <1>3, <1>5, <2>2 DEF CallOK
    <2>4. call' = [call EXCEPT ![c] = r] /\ answer' = Tagged!Idle
        BY <1>2, <1>5, <2>1 DEF Tagged!TagIdKept, Tagged!To, NamesInv, NamesTyped
    <2> QED BY <1>1, <1>4, <2>3, <2>4, Goes DEF NamesInv
<1>6. CASE ~(k.id = Tagged!NoTag /\ k.op = "ensureTag")
    <2>1. Tagged!Answer(c, k.op, k.name, k.ids, k.id, <<>>)
        BY <1>2, <1>6 DEF Tagged!TagIdKept, Tagged!Return
    <2> QED BY <1>1, <1>3, <1>4, <2>1, Answered DEF NamesInv
<1> QED BY <1>5, <1>6

LEMMA GetOrCreateNamed ==
    ASSUME NamesInv, NEW c \in Callers, NEW n \in TagNames, Tagged!getOrCreateNamed(c, n)
    PROVE  NamesInv'
<1>1. UNCHANGED <<side, entity, owed, tagIdCache, nameMap, tagsCache>> /\ side = "client"
      /\ Tagged!Call(c, "find", "getOrCreateNamed", n, {})
    BY DEF Tagged!getOrCreateNamed, Tagged!caches
<1> QED BY <1>1, CachesLast, Begins DEF NamesInv

LEMMA GetEntityNameMap ==
    ASSUME NamesInv, NEW c \in Callers, Tagged!getEntityNameMap(c)
    PROVE  NamesInv'
<1>1. UNCHANGED <<side, entity, owed, tagIdCache, nameMap, tagsCache>> /\ side = "client"
    BY DEF Tagged!getEntityNameMap, Tagged!caches
<1>2. CachesOK'
    BY <1>1, CachesLast
<1>3. CASE nameMap = Null
    <2>1. Tagged!Call(c, "pages", "names", Null, {})
        BY <1>3 DEF Tagged!getEntityNameMap
    <2> QED BY <1>1, <1>2, <2>1, Begins DEF NamesInv
<1>4. CASE nameMap # Null
    <2>1. Tagged!Answer(c, "names", Null, {}, 0, nameMap)
        BY <1>4 DEF Tagged!getEntityNameMap, Tagged!NoTag
    <2>2. NameOf(Null, 0) /\ owed \subseteq DOMAIN nameMap
        BY <1>4, Entities DEF NamesInv, CachesOK, NameOf
    <2> QED BY <1>1, <1>2, <2>1, <2>2, Answered DEF NamesInv
<1> QED BY <1>3, <1>4

LEMMA NamesKept ==
    ASSUME NamesInv, NEW c \in Callers, Tagged!NamesKept(c)
    PROVE  NamesInv'
<1>1. UNCHANGED <<side, entity, owed, tagIdCache, tagsCache>> /\ call[c].step = "store"
      /\ side = "client"
    BY DEF Tagged!NamesKept, Tagged!At
<1>2. PICK k \in CallRecord : k = call[c] /\ CallOK(k)
    BY CallOf
<1>3. ListOK(k.list) /\ k.op = "names" /\ owed \subseteq DOMAIN k.list
    BY <1>1, <1>2 DEF CallOK
<1>4. nameMap' = k.list /\ Tagged!Answer(c, "names", k.name, k.ids, 0, k.list)
    BY <1>2, <1>3 DEF Tagged!NamesKept, Tagged!Return, Tagged!NoTag
<1>5. CachesOK'
    BY <1>1, <1>3, <1>4 DEF NamesInv, CachesOK, ListOK, NameOf
<1>6. NameOf(k.name, 0)
    BY Entities DEF NamesInv, NameOf
<1> QED BY <1>1, <1>3, <1>4, <1>5, <1>6, Answered DEF NamesInv

\* One more page: the pages read have again what is owed and comes before them, which is all that
\* is owed once there are no more tags than they have room for.
LEMMA PageRead ==
    ASSUME NamesTyped, NEW ids, NEW page \in Nat \ {0}, PagesRead(ids, page), NEW more,
           more = ids \cup Tagged!OnPage(page)
    PROVE  /\ PagesRead(more, page + 1)
           /\ Cardinality(Tagged!Live) <= page * PageSize => owed \subseteq more
<1> DEFINE start == (page - 1) * PageSize
           end == page * PageSize
<1>1. start \in Nat /\ end \in Nat /\ end = (page + 1 - 1) * PageSize
    BY NamesAssumption
<1>2. more = ids \cup {i \in Tagged!Live : Cardinality(Tagged!Before(i)) \in start..end - 1}
    BY Counts DEF Tagged!OnPage
<1> HIDE DEF start, end
<1>3. ASSUME NEW j \in owed, Cardinality(Tagged!Before(j)) < end
      PROVE  j \in more
    <2>1. j \in Tagged!Live
        BY DEF NamesTyped
    <2>2. Cardinality(Tagged!Before(j)) \in Nat
        BY <2>1, Places
    <2>3. CASE Cardinality(Tagged!Before(j)) < start
        BY <1>2, <2>3 DEF PagesRead, start
    <2>4. CASE ~(Cardinality(Tagged!Before(j)) < start)
        <3>1. Cardinality(Tagged!Before(j)) \in start..end - 1
            BY <1>1, <1>3, <2>2, <2>4
        <3> QED BY <1>2, <2>1, <3>1
    <2> QED BY <2>3, <2>4
<1>4. PagesRead(more, page + 1)
    BY <1>1, <1>3 DEF PagesRead
<1>5. ASSUME Cardinality(Tagged!Live) <= end
      PROVE  owed \subseteq more
    <2> SUFFICES ASSUME NEW j \in owed PROVE j \in more
        OBVIOUS
    <2>1. j \in Tagged!Live
        BY DEF NamesTyped
    <2>2. /\ Cardinality(Tagged!Before(j)) \in Nat
          /\ Cardinality(Tagged!Before(j)) < Cardinality(Tagged!Live)
        BY <2>1, Places
    <2>3. Cardinality(Tagged!Live) \in Nat
        BY LiveIsFinite
    <2> QED BY <1>1, <1>3, <1>5, <2>2, <2>3
<1> QED BY <1>4, <1>5 DEF end

LEMMA ReadPage ==
    ASSUME NamesInv, NEW c \in Callers, Tagged!ReadPage(c)
    PROVE  NamesInv'
<1>1. UNCHANGED <<side, entity, owed, tagIdCache, nameMap, tagsCache>> /\ call[c].step = "pages"
      /\ answer' = Tagged!Idle
    BY DEF Tagged!ReadPage, Tagged!caches, Tagged!At
<1>2. CachesOK'
    BY <1>1, CachesLast
<1>3. PICK k \in CallRecord : k = call[c] /\ CallOK(k)
    BY CallOf
<1>4. /\ side = "client" /\ k.op = "names" /\ ListOK(k.list) /\ DOMAIN k.list = k.ids
      /\ PagesRead(k.ids, k.page) /\ k.page \in Nat \ {0}
      /\ k.ids \subseteq DOMAIN entity
    BY <1>1, <1>3 DEF CallOK, CallRecord
<1>5. NamesTyped
    BY DEF NamesInv
<1>6. PICK ids : ids = k.ids \cup Tagged!OnPage(k.page)
    OBVIOUS
<1>7. PICK l : l = Tagged!Listed(ids, k.list)
    OBVIOUS
<1>8. PICK s : s = IF k.page * PageSize < Cardinality(Tagged!Live) THEN "pages" ELSE "store"
    OBVIOUS
<1>9. call' = [call EXCEPT ![c].ids = ids, ![c].list = l, ![c].page = k.page + 1, ![c].step = s]
    BY <1>3, <1>6, <1>7, <1>8, Counts DEF Tagged!ReadPage
<1>10. ids \subseteq DOMAIN entity
    BY <1>4, <1>5, <1>6, Entities DEF Tagged!OnPage
<1>11. l \in Lists /\ ListOK(l) /\ DOMAIN l = ids
    <2>1. ASSUME NEW i \in ids PROVE l[i] \in TagNames /\ entity[i] \in {l[i], Null}
        <3>1. CASE i \in k.ids
            BY <1>4, <1>7, <3>1, ListFacts DEF ListOK, Tagged!Listed
        <3>2. CASE i \notin k.ids
            BY <1>4, <1>5, <1>6, <1>7, <3>2, Entities DEF Tagged!OnPage, Tagged!Listed
        <3> QED BY <3>1, <3>2
    <2>2. DOMAIN l = ids
        BY <1>7 DEF Tagged!Listed
    <2>3. l \in [ids -> TagNames]
        BY <1>7, <2>1 DEF Tagged!Listed
    <2>4. ids \in SUBSET Nat
        BY <1>5, <1>10, Entities
    <2>5. l \in Lists
        BY <2>3, <2>4, ListFacts
    <2> QED BY <1>10, <2>1, <2>2, <2>5 DEF ListOK
<1>12. PICK r \in CallRecord : r = [k EXCEPT !.ids = ids, !.list = l, !.page = k.page + 1, !.step = s]
    <2>1. ids \in SUBSET Nat
        BY <1>5, <1>10, Entities
    <2>2. PICK p \in Nat \ {0} : p = k.page + 1
        BY <1>4
    <2>3. s \in {"pages", "store"} /\ l \in Lists
        BY <1>8, <1>11
    <2>4. [k EXCEPT !.ids = ids, !.list = l, !.page = p, !.step = s] \in CallRecord
        <3> HIDE DEF ListOK, PagesRead, NameOf
        <3> QED BY <2>1, <2>3 DEF CallRecord
    <2> QED BY <2>2, <2>4
<1>13. r.step = s /\ r.op = k.op /\ r.name = k.name /\ r.ids = ids /\ r.list = l
       /\ r.page = k.page + 1
    BY <1>12 DEF CallRecord
<1>14. PagesRead(ids, k.page + 1) /\ (s = "store" => owed \subseteq ids)
    <2>1. k.page * PageSize \in Nat /\ Cardinality(Tagged!Live) \in Nat
        BY <1>4, <1>5, LiveIsFinite, NamesAssumption
    <2>2. s = "store" => Cardinality(Tagged!Live) <= k.page * PageSize
        BY <1>8, <2>1
    <2> QED BY <1>4, <1>5, <1>6, <2>2, PageRead
<1>15. owed \subseteq Tagged!Live
    BY DEF NamesInv, NamesTyped
<1>16. CallOK(r)
    <2>1. s \in {"pages", "store"}
        BY <1>8
    <2> HIDE DEF ListOK, PagesRead, NameOf
    <2> QED BY <1>4, <1>10, <1>11, <1>13, <1>14, <1>15, <2>1 DEF CallOK
<1>17. call' = [call EXCEPT ![c] = r]
    BY <1>3, <1>9, <1>12 DEF NamesInv, NamesTyped
<1> QED BY <1>1, <1>2, <1>16, <1>17, Goes DEF NamesInv

(* The API's gateway. *)

LEMMA ReadList ==
    ASSUME NamesInv, NEW c \in Callers, Tagged!ReadList(c)
    PROVE  NamesInv'
<1>1. UNCHANGED <<side, entity, owed, tagIdCache, nameMap, tagsCache>> /\ call[c].step = "list"
      /\ answer' = Tagged!Idle
    BY DEF Tagged!ReadList, Tagged!caches, Tagged!At
<1>2. CachesOK'
    BY <1>1, CachesLast
<1>3. PICK k \in CallRecord : k = call[c] /\ CallOK(k)
    BY CallOf
<1>4. side = "gateway" /\ k.op \in FetchOps /\ (k.op = "ensure" => k.name \in TagNames)
      /\ k.ids \subseteq DOMAIN entity
    BY <1>1, <1>3 DEF CallOK
<1>5. NamesTyped /\ owed \subseteq Tagged!Live
    BY DEF NamesInv, NamesTyped
<1>6. PICK ids \in SUBSET Tagged!Live :
        /\ Tagged!Cardinality(ids) = IF Tagged!Cardinality(Tagged!Live) < ApiPage
                                     THEN Tagged!Cardinality(Tagged!Live) ELSE ApiPage
        /\ call' = [call EXCEPT ![c].list = Tagged!Listed(ids, <<>>), ![c].step = "store"]
    BY DEF Tagged!ReadList
<1>7. PICK l : l = Tagged!Listed(ids, <<>>)
    OBVIOUS
<1>8. l \in Lists /\ ListOK(l) /\ DOMAIN l = ids
    <2>1. DOMAIN l = ids /\ \A i \in ids : i \in DOMAIN entity /\ l[i] = entity[i] /\ l[i] \in TagNames
        BY <1>5, <1>7, Entities DEF Tagged!Listed
    <2>2. l \in [ids -> TagNames] /\ ids \in SUBSET Nat
        BY <1>5, <1>7, <2>1, Entities DEF Tagged!Listed
    <2>3. l \in Lists
        BY <2>2, ListFacts
    <2> QED BY <2>1, <2>3 DEF ListOK
<1>9. Len(entity) <= ApiPage => ids = Tagged!Live
    <2> SUFFICES ASSUME Len(entity) <= ApiPage PROVE ids = Tagged!Live
        OBVIOUS
    <2>1. /\ Len(entity) \in Nat /\ ApiPage \in Nat /\ Cardinality(Tagged!Live) \in Nat
          /\ Cardinality(Tagged!Live) <= Len(entity) /\ IsFiniteSet(Tagged!Live)
        BY <1>5, Entities, LiveIsFinite, NamesAssumption
    <2>2. Cardinality(ids) = Cardinality(Tagged!Live)
        BY <1>6, <2>1, Counts
    <2> QED BY <2>1, <2>2, FS_Subset
<1>10. PICK r \in CallRecord : r = [k EXCEPT !.list = l, !.step = "store"]
    BY <1>8 DEF CallRecord
<1>11. r.step = "store" /\ r.op = k.op /\ r.name = k.name /\ r.ids = k.ids /\ r.list = l
    BY <1>10 DEF CallRecord
<1>12. CallOK(r)
    <2> HIDE DEF ListOK, PagesRead, NameOf
    <2> QED BY <1>4, <1>5, <1>8, <1>9, <1>11 DEF CallOK
<1>13. call' = [call EXCEPT ![c].list = l, ![c].step = "store"]
    BY <1>6, <1>7
<1>14. call' = [call EXCEPT ![c] = r]
    BY <1>3, <1>10, <1>13 DEF NamesInv, NamesTyped
<1> QED BY <1>1, <1>2, <1>12, <1>14, Goes DEF NamesInv

LEMMA WithTags ==
    ASSUME NamesInv, NEW c \in Callers, NEW op \in FetchOps, NEW n \in TagNames \cup {Null},
           NEW ids \in SUBSET DOMAIN entity, NEW list, ListOK(list),
           Tagged!WithTags(c, op, n, ids, list),
           side = "gateway", UNCHANGED <<side, entity, owed>>, op = "ensure" => n \in TagNames,
           op # "ensure" /\ Len(entity) <= ApiPage
               => owed \cup (ids \cap Tagged!Live) \subseteq DOMAIN list
    PROVE  NamesTyped' /\ CallsOK' /\ AnswerOK'
<1>1. CASE op # "ensure"
    <2>1. Tagged!Answer(c, op, n, ids, 0, list)
        BY <1>1 DEF Tagged!WithTags, Tagged!NoTag
    <2>2. NameOf(n, 0)
        BY Entities DEF NamesInv, NameOf
    <2> QED BY <1>1, <2>1, <2>2, Answered DEF FetchOps
<1>2. CASE op = "ensure" /\ \E i \in DOMAIN list : list[i] = n
    <2>1. PICK i : i = CHOOSE j \in DOMAIN list : list[j] = n
        OBVIOUS
    <2>2. i \in DOMAIN list /\ list[i] = n
        BY <1>2, <2>1
    <2>3. Tagged!Answer(c, op, n, ids, i, <<>>)
        BY <1>2, <2>1 DEF Tagged!WithTags
    <2>4. NameOf(n, i)
        BY <2>2 DEF ListOK, NameOf
    <2> QED BY <1>2, <2>3, <2>4, Answered
<1>3. CASE op = "ensure" /\ ~\E i \in DOMAIN list : list[i] = n
    <2>1. Tagged!Call(c, "find", op, n, ids)
        BY <1>3 DEF Tagged!WithTags
    <2> QED BY <1>3, <2>1, Begins
<1> QED BY <1>1, <1>2, <1>3

LEMMA ListTags ==
    ASSUME NamesInv, NEW c \in Callers, NEW op \in {"ensure", "covering"},
           NEW n \in TagNames \cup {Null}, NEW ids \in SUBSET Tagged!Live,
           op = "ensure" => n \in TagNames, Tagged!listTags(c, op, n, ids)
    PROVE  NamesInv'
<1>1. UNCHANGED <<side, entity, owed, tagIdCache, nameMap>> /\ side = "gateway"
    BY DEF Tagged!listTags
<1>2. ids \in SUBSET DOMAIN entity
    BY Entities DEF NamesInv
<1>3. CASE tagsCache # Null /\ (op = "covering" => ids \subseteq DOMAIN tagsCache)
    <2>1. Tagged!WithTags(c, op, n, ids, tagsCache) /\ UNCHANGED tagsCache
        BY <1>3 DEF Tagged!listTags
    <2>2. ListOK(tagsCache) /\ (Len(entity) <= ApiPage => owed \subseteq DOMAIN tagsCache)
        BY <1>3 DEF NamesInv, CachesOK
    <2>3. CachesOK'
        BY <1>1, <2>1, CachesLast
    <2>4. PICK list : list = tagsCache
        OBVIOUS
    <2>5. op # "ensure" /\ Len(entity) <= ApiPage
            => owed \cup (ids \cap Tagged!Live) \subseteq DOMAIN list
        BY <1>3, <2>2, <2>4
    <2> HIDE DEF ListOK
    <2>6. NamesTyped' /\ CallsOK' /\ AnswerOK'
        BY <1>1, <1>2, <2>1, <2>2, <2>4, <2>5, WithTags DEF FetchOps
    <2> QED BY <2>3, <2>6 DEF NamesInv
<1>4. CASE ~(tagsCache # Null /\ (op = "covering" => ids \subseteq DOMAIN tagsCache))
    <2>1. PICK o \in FetchOps : o = IF op = "covering" /\ tagsCache # Null THEN "again" ELSE op
        BY DEF FetchOps
    <2>2. Tagged!Call(c, "list", o, n, ids) /\ tagsCache' = Null
        BY <1>4, <2>1 DEF Tagged!listTags
    <2>3. o = "ensure" => n \in TagNames
        BY <2>1
    <2>4. CachesOK'
        BY <1>1, <2>2, Lasting DEF NamesInv, CachesOK
    <2>5. NamesTyped' /\ CallsOK' /\ AnswerOK'
        BY <1>1, <1>2, <2>1, <2>2, <2>3, Begins DEF FetchOps
    <2> QED BY <2>4, <2>5 DEF NamesInv
<1> QED BY <1>3, <1>4

LEMMA ListKept ==
    ASSUME NamesInv, NEW c \in Callers, Tagged!ListKept(c)
    PROVE  NamesInv'
<1>1. UNCHANGED <<side, entity, owed, tagIdCache, nameMap>> /\ side = "gateway"
      /\ call[c].step = "store"
    BY DEF Tagged!ListKept, Tagged!At
<1>2. PICK k \in CallRecord : k = call[c] /\ CallOK(k)
    BY CallOf
<1>3. /\ k.op \in FetchOps /\ ListOK(k.list) /\ (k.op = "ensure" => k.name \in TagNames)
      /\ Len(entity) <= ApiPage => owed \cup (k.ids \cap Tagged!Live) \subseteq DOMAIN k.list
      /\ k.ids \subseteq DOMAIN entity /\ k.name \in TagNames \cup {Null}
    BY <1>1, <1>2 DEF CallOK, CallRecord
<1>4. CASE k.op = "covering" /\ ~(k.ids \subseteq DOMAIN k.list)
    <2>1. Tagged!Call(c, "list", "again", Null, k.ids) /\ tagsCache' = Null
        BY <1>2, <1>4 DEF Tagged!ListKept
    <2>2. CachesOK'
        BY <1>1, <2>1, Lasting DEF NamesInv, CachesOK
    <2>3. NamesTyped' /\ CallsOK' /\ AnswerOK'
        BY <1>1, <1>3, <2>1, Begins DEF FetchOps
    <2> QED BY <2>2, <2>3 DEF NamesInv
<1>5. CASE ~(k.op = "covering" /\ ~(k.ids \subseteq DOMAIN k.list))
    <2>1. tagsCache' = k.list /\ Tagged!WithTags(c, k.op, k.name, k.ids, k.list)
        BY <1>2, <1>5 DEF Tagged!ListKept
    <2>2. CachesOK'
        BY <1>1, <1>3, <2>1 DEF NamesInv, CachesOK, ListOK, NameOf
    <2>3. NamesTyped' /\ CallsOK' /\ AnswerOK'
        BY <1>1, <1>3, <2>1, WithTags
    <2> QED BY <2>2, <2>3 DEF NamesInv
<1> QED BY <1>4, <1>5

(* On both sides. *)

\* The list the gateway has may be dropped at any time.
LEMMA TagsCacheDropped ==
    ASSUME NamesInv, tagsCache' \in {tagsCache, Null},
           UNCHANGED <<side, entity, owed, tagIdCache, nameMap>>
    PROVE  CachesOK'
<1>1. CASE tagsCache' = tagsCache
    BY <1>1, CachesLast
<1>2. CASE tagsCache' = Null
    BY <1>2, Lasting DEF NamesInv, CachesOK
<1> QED BY <1>1, <1>2

LEMMA Turns ==
    ASSUME NamesInv, NEW c \in Callers, NEW step \in {"post", "refused"},
           call[c].step \in {"find", "post"},
           Tagged!To(c, step), UNCHANGED <<side, entity, owed>>
    PROVE  NamesTyped' /\ CallsOK' /\ AnswerOK'
<1>1. PICK k \in CallRecord : k = call[c] /\ CallOK(k)
    BY CallOf
<1>2. PICK r \in CallRecord : r = [k EXCEPT !.step = step]
    BY DEF CallRecord
<1>3. r.step = step /\ r.op = k.op /\ r.name = k.name /\ r.ids = k.ids
    BY <1>2 DEF CallRecord
<1>4. CallOK(r)
    <2> HIDE DEF ListOK, PagesRead, NameOf
    <2> QED BY <1>1, <1>3 DEF CallOK
<1>5. call' = [call EXCEPT ![c] = r] /\ answer' = Tagged!Idle
    BY <1>1, <1>2 DEF Tagged!To, NamesInv, NamesTyped
<1> QED BY <1>4, <1>5, Goes

\* The answer of a call that looked its name up.
LEMMA FoundAnswered ==
    ASSUME NamesInv, NEW c \in Callers, call[c].step \in {"find", "refused"},
           Tagged!Return(c, Tagged!found(call[c].name), <<>>), UNCHANGED <<side, entity, owed>>
    PROVE  NamesTyped' /\ CallsOK' /\ AnswerOK'
<1>1. PICK k \in CallRecord : k = call[c] /\ CallOK(k)
    BY CallOf
<1>2. k.op \in {"ensureTag", "getOrCreateNamed", "ensure"}
    BY <1>1 DEF CallOK
<1>3. PICK id : id = Tagged!found(k.name) /\ NameOf(k.name, id)
    BY Found DEF NamesInv
<1>4. Tagged!Answer(c, k.op, k.name, k.ids, id, <<>>)
    BY <1>1, <1>3 DEF Tagged!Return
<1> QED BY <1>2, <1>3, <1>4, Answered

LEMMA Find ==
    ASSUME NamesInv, NEW c \in Callers, Tagged!Find(c)
    PROVE  NamesInv'
<1>1. UNCHANGED <<side, entity, owed, tagIdCache, nameMap>> /\ call[c].step = "find"
      /\ tagsCache' \in {tagsCache, Null}
    BY DEF Tagged!Find, Tagged!At
<1>2. CachesOK'
    BY <1>1, TagsCacheDropped
<1>3. CASE Tagged!found(call[c].name) = Tagged!NoTag
    <2>1. Tagged!To(c, "post")
        BY <1>3 DEF Tagged!Find
    <2> QED BY <1>1, <1>2, <2>1, Turns DEF NamesInv
<1>4. CASE Tagged!found(call[c].name) # Tagged!NoTag
    <2>1. Tagged!Return(c, Tagged!found(call[c].name), <<>>)
        BY <1>4 DEF Tagged!Find
    <2> QED BY <1>1, <1>2, <2>1, FoundAnswered DEF NamesInv
<1> QED BY <1>3, <1>4

LEMMA Raced ==
    ASSUME NamesInv, NEW c \in Callers, Tagged!Raced(c)
    PROVE  NamesInv'
<1>1. UNCHANGED <<side, entity, owed, tagIdCache, nameMap>> /\ call[c].step = "refused"
      /\ tagsCache' \in {tagsCache, Null} /\ Tagged!Return(c, Tagged!found(call[c].name), <<>>)
    BY DEF Tagged!Raced, Tagged!At
<1> QED BY <1>1, TagsCacheDropped, FoundAnswered DEF NamesInv

LEMMA Fail ==
    ASSUME NamesInv, NEW c \in Callers, Tagged!Fail(c)
    PROVE  NamesInv'
<1>1. UNCHANGED <<side, entity, owed, tagIdCache, nameMap, tagsCache>>
      /\ call' = [call EXCEPT ![c] = Tagged!Idle] /\ answer' = Tagged!Idle
    BY DEF Tagged!Fail, Tagged!caches
<1>2. PICK r \in CallRecord : r = Tagged!Idle /\ CallOK(r)
    BY IdleCall
<1> QED BY <1>1, <1>2, CachesLast, Goes DEF NamesInv

\* Nothing else moves when an entry expires.
LEMMA Expire ==
    ASSUME NamesInv, Tagged!Expire
    PROVE  NamesInv'
<1>1. UNCHANGED <<side, entity, owed, call>> /\ answer' = Tagged!Idle
    BY DEF Tagged!Expire
<1>2. NamesTyped'
    BY <1>1, Lasting DEF NamesInv, NamesTyped
<1>3. CallsOK'
    BY <1>1, Lasting DEF NamesInv, CallsOK
<1>4. AnswerOK'
    BY <1>1, <1>2, NothingAnswered
<1>5. CachesOK'
    <2>1. ASSUME NEW n \in TagNames, tagIdCache' = [tagIdCache EXCEPT ![n] = Null],
                 UNCHANGED <<nameMap, tagsCache>>
          PROVE  CachesOK'
        <3>1. tagIdCache' \in [TagNames -> Nat \cup {Null}]
            BY <2>1 DEF NamesInv, CachesOK
        <3>2. Null \notin DOMAIN entity
            BY NamesAssumption, Entities DEF NamesInv
        <3>3. ASSUME NEW m \in TagNames
              PROVE  tagIdCache'[m] \in {Null, 0} \cup DOMAIN entity /\ NameOf(m, tagIdCache'[m])
            BY <2>1, <3>2 DEF NamesInv, CachesOK, NameOf
        <3> QED BY <1>1, <2>1, <3>1, <3>3 DEF NamesInv, CachesOK, NameOf, ListOK
    <2>2. ASSUME nameMap' = Null, UNCHANGED <<tagIdCache, tagsCache>>
          PROVE  CachesOK'
        BY <1>1, <2>2 DEF NamesInv, CachesOK, NameOf, ListOK
    <2>3. ASSUME tagsCache' = Null, UNCHANGED <<tagIdCache, nameMap>>
          PROVE  CachesOK'
        BY <1>1, <2>3 DEF NamesInv, CachesOK, NameOf, ListOK
    <2> QED BY <2>1, <2>2, <2>3 DEF Tagged!Expire
<1> QED BY <1>2, <1>3, <1>4, <1>5 DEF NamesInv

(* Tags come and go. *)

\* A new tag has the next id, and nothing held speaks of it.
LEMMA Grows ==
    ASSUME NamesInv, NEW n \in TagNames, entity' = Append(entity, n), UNCHANGED <<side, owed>>
    PROVE  /\ entity' \in Seq(TagNames \cup {Null})
           /\ Len(entity') = Len(entity) + 1
           /\ DOMAIN entity' = DOMAIN entity \cup {Len(entity) + 1}
           /\ \A i \in DOMAIN entity : entity'[i] = entity[i]
           /\ entity'[Len(entity) + 1] = n
           /\ Len(entity) + 1 \notin DOMAIN entity
           /\ Tagged!Live' = Tagged!Live \cup {Len(entity) + 1}
<1>1. entity \in Seq(TagNames \cup {Null}) /\ n \in TagNames \cup {Null} /\ Len(entity) \in Nat
    BY Entities DEF NamesInv, NamesTyped
<1>2. /\ entity' \in Seq(TagNames \cup {Null})
      /\ Len(entity') = Len(entity) + 1
      /\ \A i \in 1..Len(entity) : entity'[i] = entity[i]
      /\ entity'[Len(entity) + 1] = n
    BY <1>1
<1>3. DOMAIN entity = 1..Len(entity) /\ DOMAIN entity' = 1..Len(entity')
    BY <1>1, <1>2
<1>4. DOMAIN entity' = DOMAIN entity \cup {Len(entity) + 1} /\ Len(entity) + 1 \notin DOMAIN entity
    BY <1>1, <1>2, <1>3
<1>5. Tagged!Live' = Tagged!Live \cup {Len(entity) + 1}
    BY <1>2, <1>3, <1>4, NamesAssumption DEF Tagged!Live
<1> QED BY <1>2, <1>3, <1>4, <1>5

LEMMA GrowthLasts ==
    ASSUME NamesInv, NEW n \in TagNames, entity' = Append(entity, n), UNCHANGED <<side, owed>>
    PROVE  /\ \A r \in CallRecord : CallOK(r) => CallOK(r)'
           /\ UNCHANGED <<tagIdCache, nameMap, tagsCache>> => CachesOK'
<1> DEFINE new == Len(entity) + 1
<1>1. /\ DOMAIN entity' = DOMAIN entity \cup {new} /\ new \notin DOMAIN entity
      /\ \A i \in DOMAIN entity : entity'[i] = entity[i]
      /\ Tagged!Live' = Tagged!Live \cup {new}
    BY Grows
<1>2. Len(entity') <= ApiPage => Len(entity) <= ApiPage
    <2>1. Len(entity) \in Nat /\ ApiPage \in Nat /\ Len(entity') = Len(entity) + 1
        BY Grows, Entities, NamesAssumption DEF NamesInv
    <2> QED BY <2>1
<1>3. Tagged!Live \subseteq Nat /\ \A i \in Tagged!Live : i < new
    <2>1. Tagged!Live \subseteq 1..Len(entity) /\ Len(entity) \in Nat
        BY Entities DEF NamesInv
    <2> QED BY <2>1
<1>4. new \in Nat
    BY Entities DEF NamesInv
<1> HIDE DEF new
<1>5. \A l : ListOK(l) => ListOK(l)'
    BY <1>1 DEF ListOK
<1>6. \A m, id : id \in DOMAIN entity \cup {0} /\ NameOf(m, id) => NameOf(m, id)'
    <2>1. new # 0
        BY Entities DEF NamesInv, new
    <2> QED BY <1>1, <2>1 DEF NameOf
<1>7. \A ids, page : PagesRead(ids, page) /\ page \in Nat => PagesRead(ids, page)'
    <2> SUFFICES ASSUME NEW ids, NEW page \in Nat, PagesRead(ids, page), NEW j \in owed,
                        (Cardinality(Tagged!Before(j)) < (page - 1) * PageSize)'
                 PROVE  j \in ids
        BY DEF PagesRead
    <2>1. PICK B : B = Tagged!Before(j)
        OBVIOUS
    <2>2. PICK C : C = Tagged!Before(j)'
        OBVIOUS
    <2>3. j \in Tagged!Live /\ NamesTyped
        BY DEF NamesInv, NamesTyped
    <2>4. B \subseteq C /\ C \subseteq Tagged!Live \cup {new}
        BY <1>1, <2>1, <2>2, <2>3, Entities DEF Tagged!Before
    <2>5. IsFiniteSet(Tagged!Live \cup {new})
        BY <2>3, LiveIsFinite, FS_AddElement
    <2>6. IsFiniteSet(C)
        BY <2>4, <2>5, FS_Subset
    <2>7. Cardinality(B) \in Nat /\ Cardinality(C) \in Nat /\ Cardinality(B) <= Cardinality(C)
        BY <2>1, <2>3, <2>4, <2>6, Places, FS_Subset, FS_CardinalityType
    <2>8. Cardinality(C) < (page - 1) * PageSize
        BY <2>2
    <2>9. (page - 1) * PageSize \in Int
        BY NamesAssumption
    <2>10. Cardinality(B) < (page - 1) * PageSize
        BY <2>7, <2>8, <2>9
    <2> QED BY <2>1, <2>10 DEF PagesRead
<1>8. CachesOK /\ NamesTyped
    BY DEF NamesInv
<1>9. ASSUME NEW r \in CallRecord, CallOK(r)
      PROVE  CallOK(r)'
    <2>1. r.ids \cap Tagged!Live' = r.ids \cap Tagged!Live
        BY <1>1, <1>9 DEF CallOK
    <2>2. r.ids \subseteq DOMAIN entity'
        BY <1>1, <1>9 DEF CallOK
    <2>3. r.step \in {"keep", "created"} =>
            NameOf(r.name, r.id)' /\ r.id \in DOMAIN entity' \cup {0}
        BY <1>1, <1>6, <1>9 DEF CallOK
    <2> HIDE DEF ListOK, PagesRead, NameOf
    <2>4. r.step = "pages" => /\ side' = "client" /\ r.op = "names"
                              /\ ListOK(r.list)' /\ DOMAIN r.list = r.ids
                              /\ PagesRead(r.ids, r.page)'
        BY <1>5, <1>7, <1>9 DEF CallOK, CallRecord
    <2>5. r.step = "store" =>
            /\ ListOK(r.list)'
            /\ side' = "client" => r.op = "names" /\ owed' \subseteq DOMAIN r.list
            /\ side' = "gateway" /\ Len(entity') <= ApiPage =>
                    owed' \cup (r.ids \cap Tagged!Live') \subseteq DOMAIN r.list
        BY <1>2, <1>5, <1>9, <2>1 DEF CallOK
    <2> QED BY <1>9, <2>2, <2>3, <2>4, <2>5 DEF CallOK
<1>10. ASSUME UNCHANGED <<tagIdCache, nameMap, tagsCache>>
       PROVE  CachesOK'
    <2>1. ASSUME NEW m \in TagNames
          PROVE  /\ tagIdCache'[m] \in {Null, 0} \cup DOMAIN entity'
                 /\ tagIdCache'[m] \in DOMAIN entity' => entity'[tagIdCache'[m]] \in {m, Null}
        <3>1. PICK id : id = tagIdCache[m]
            OBVIOUS
        <3>2. id \in {Null, 0} \cup DOMAIN entity /\ NameOf(m, id)
            BY <1>8, <3>1 DEF CachesOK
        <3>3. Null # new /\ Null \notin DOMAIN entity
            BY <1>4, <1>8, Entities, NamesAssumption
        <3>4. NameOf(m, id)'
            BY <1>1, <1>6, <3>2, <3>3 DEF NameOf
        <3>5. tagIdCache'[m] = id
            BY <1>10, <3>1
        <3> QED BY <1>1, <3>2, <3>4, <3>5 DEF NameOf
    <2>2. nameMap' # Null => side' = "client" /\ ListOK(nameMap)' /\ owed' \subseteq DOMAIN nameMap'
        BY <1>5, <1>8, <1>10 DEF CachesOK, ListOK
    <2>3. tagsCache' # Null => /\ side' = "gateway" /\ ListOK(tagsCache)'
                               /\ Len(entity') <= ApiPage => owed' \subseteq DOMAIN tagsCache'
        BY <1>2, <1>5, <1>8, <1>10 DEF CachesOK, ListOK
    <2>4. tagIdCache' \in [TagNames -> Nat \cup {Null}]
        BY <1>8, <1>10 DEF CachesOK
    <2> QED BY <2>1, <2>2, <2>3, <2>4 DEF CachesOK, NameOf
<1> QED BY <1>9, <1>10

LEMMA OthersCreate ==
    ASSUME NamesInv, NEW n \in TagNames, Tagged!OthersCreate(n)
    PROVE  NamesInv'
<1>1. /\ entity' = Append(entity, n) /\ answer' = Tagged!Idle
      /\ UNCHANGED <<side, owed>> /\ UNCHANGED call /\ UNCHANGED <<tagIdCache, nameMap, tagsCache>>
    BY DEF Tagged!OthersCreate, Tagged!caches
<1>2. NamesTyped'
    BY <1>1, Grows DEF NamesInv, NamesTyped
<1>3. CallsOK'
    BY <1>1, GrowthLasts DEF NamesInv, CallsOK
<1>4. CachesOK'
    BY <1>1, GrowthLasts
<1> QED BY <1>1, <1>2, <1>3, <1>4, NothingAnswered DEF NamesInv

LEMMA Post ==
    ASSUME NamesInv, NEW c \in Callers, Tagged!Post(c)
    PROVE  NamesInv'
<1>1. UNCHANGED <<side, owed>> /\ UNCHANGED <<tagIdCache, nameMap, tagsCache>>
      /\ call[c].step = "post"
    BY DEF Tagged!Post, Tagged!caches, Tagged!At
<1>2. PICK k \in CallRecord : k = call[c] /\ CallOK(k)
    BY CallOf
<1>3. k.name \in TagNames
    BY <1>1, <1>2 DEF CallOK
<1>4. CASE \E i \in Tagged!Live : entity[i] = call[c].name
    <2>1. Tagged!To(c, "refused") /\ UNCHANGED entity
        BY <1>4 DEF Tagged!Post
    <2>2. CachesOK'
        BY <1>1, <2>1, CachesLast
    <2> QED BY <1>1, <2>1, <2>2, Turns DEF NamesInv
<1>5. CASE ~\E i \in Tagged!Live : entity[i] = call[c].name
    <2>1. /\ entity' = Append(entity, k.name) /\ answer' = Tagged!Idle
          /\ call' = [call EXCEPT ![c].step = "created", ![c].id = Len(entity) + 1]
        BY <1>2, <1>5 DEF Tagged!Post
    <2>2. PICK id \in Nat : id = Len(entity) + 1
        BY Entities DEF NamesInv
    <2>3. PICK r \in CallRecord : r = [k EXCEPT !.step = "created", !.id = id]
        BY DEF CallRecord
    <2>4. r.step = "created" /\ r.op = k.op /\ r.name = k.name /\ r.ids = k.ids /\ r.id = id
        BY <2>3 DEF CallRecord
    <2>5. CallOK(k)'
        BY <1>1, <1>2, <1>3, <2>1, GrowthLasts
    <2>6. NameOf(k.name, id)' /\ id \in DOMAIN entity'
        BY <1>1, <1>3, <2>1, <2>2, Grows DEF NameOf
    <2>7. CallOK(r)'
        <3> HIDE DEF ListOK, PagesRead, NameOf
        <3> QED BY <1>1, <1>2, <1>3, <2>4, <2>5, <2>6 DEF CallOK
    <2>8. call' = [call EXCEPT ![c] = r]
        BY <1>2, <2>1, <2>2, <2>3 DEF NamesInv, NamesTyped
    <2>9. NamesTyped'
        BY <1>1, <1>3, <2>1, <2>8, Grows DEF NamesInv, NamesTyped
    <2>10. CallsOK'
        <3> SUFFICES ASSUME NEW d \in Callers, NEW q \in CallRecord, call'[d] = q PROVE CallOK(q)'
            BY DEF CallsOK
        <3>1. CASE d = c
            <4>1. q = r
                BY <2>8, <3>1 DEF NamesInv, NamesTyped
            <4> QED BY <2>7, <4>1
        <3>2. CASE d # c
            <4>1. call[d] = q
                BY <2>8, <3>2 DEF NamesInv, NamesTyped
            <4>2. CallOK(q)
                BY <4>1, CallOf
            <4> QED BY <1>1, <1>3, <2>1, <4>2, GrowthLasts
        <3> QED BY <3>1, <3>2
    <2>11. CachesOK'
        BY <1>1, <1>3, <2>1, GrowthLasts
    <2> QED BY <2>1, <2>9, <2>10, <2>11, NothingAnswered DEF NamesInv
<1> QED BY <1>4, <1>5

\* A deleted tag has no name, and nothing is owed any more.
LEMMA TagDeleted ==
    ASSUME NamesInv, Tagged!TagDeleted
    PROVE  NamesInv'
<1>1. PICK i \in Tagged!Live : entity' = [entity EXCEPT ![i] = Null]
    BY DEF Tagged!TagDeleted
<1>2. owed' = {} /\ answer' = Tagged!Idle /\ UNCHANGED <<side, tagIdCache, nameMap, tagsCache, call>>
    BY DEF Tagged!TagDeleted, Tagged!caches
<1>3. entity \in Seq(TagNames \cup {Null}) /\ NamesTyped
    BY DEF NamesInv, NamesTyped
<1>4. /\ entity' \in Seq(TagNames \cup {Null}) /\ DOMAIN entity' = DOMAIN entity
      /\ Len(entity') = Len(entity)
      /\ \A j \in DOMAIN entity : entity'[j] \in {entity[j], Null}
    <2>1. entity \in [1..Len(entity) -> TagNames \cup {Null}] /\ Len(entity) \in Nat
        BY <1>3, Entities
    <2>2. entity' \in [1..Len(entity) -> TagNames \cup {Null}]
        BY <1>1, <2>1
    <2>3. entity' \in Seq(TagNames \cup {Null})
        BY <2>1, <2>2
    <2>4. Len(entity') = Len(entity)
        BY <2>1, <2>2, <2>3
    <2> QED BY <1>1, <2>1, <2>2, <2>3, <2>4
<1>5. Tagged!Live' \subseteq Tagged!Live
    BY <1>4 DEF Tagged!Live
<1>6. \A l : ListOK(l) => ListOK(l)'
    BY <1>4 DEF ListOK
<1>7. \A n, id : NameOf(n, id) => NameOf(n, id)'
    BY <1>4 DEF NameOf
<1>8. ASSUME NEW r \in CallRecord, CallOK(r)
      PROVE  CallOK(r)'
    <2>1. r.ids \cap Tagged!Live' \subseteq r.ids \cap Tagged!Live
        BY <1>5
    <2> HIDE DEF ListOK, PagesRead, NameOf
    <2>2. owed' \cup (r.ids \cap Tagged!Live') \subseteq owed \cup (r.ids \cap Tagged!Live)
        BY <1>2, <2>1
    <2>3. r.step = "store" =>
            /\ ListOK(r.list)'
            /\ side' = "client" => r.op = "names" /\ owed' \subseteq DOMAIN r.list
            /\ side' = "gateway" /\ Len(entity') <= ApiPage =>
                    owed' \cup (r.ids \cap Tagged!Live') \subseteq DOMAIN r.list
        BY <1>2, <1>4, <1>6, <1>8, <2>2 DEF CallOK
    <2>4. r.step = "pages" => /\ side' = "client" /\ r.op = "names"
                              /\ ListOK(r.list)' /\ DOMAIN r.list = r.ids
                              /\ PagesRead(r.ids, r.page)'
        <3>1. PagesRead(r.ids, r.page)'
            BY <1>2 DEF PagesRead
        <3> QED BY <1>2, <1>6, <1>8, <3>1 DEF CallOK
    <2>5. r.step \in {"keep", "created"} =>
            NameOf(r.name, r.id)' /\ r.id \in DOMAIN entity' \cup {0}
        BY <1>4, <1>7, <1>8 DEF CallOK
    <2> QED BY <1>2, <1>4, <1>8, <2>3, <2>4, <2>5 DEF CallOK
<1>9. CallsOK'
    <2> SUFFICES ASSUME NEW d \in Callers, NEW q \in CallRecord, call'[d] = q PROVE CallOK(q)'
        BY DEF CallsOK
    <2>1. CallOK(q)
        BY <1>2, CallOf
    <2> QED BY <1>8, <2>1
<1>10. NamesTyped'
    BY <1>2, <1>3, <1>4 DEF NamesTyped
<1>11. CachesOK'
    <2>1. CachesOK
        BY DEF NamesInv
    <2> QED BY <1>2, <1>4, <1>6, <1>7, <2>1 DEF CachesOK, ListOK, NameOf
<1> QED BY <1>2, <1>9, <1>10, <1>11, NothingAnswered DEF NamesInv

\* A creation is owed only when no list is being fetched, and the lists kept are dropped.
LEMMA Created ==
    ASSUME NamesInv, NEW c \in Callers, Tagged!Created(c)
    PROVE  NamesInv'
<1>1. UNCHANGED <<side, entity>> /\ call[c].step = "created"
    BY DEF Tagged!Created, Tagged!At
<1>2. PICK k \in CallRecord : k = call[c] /\ CallOK(k)
    BY CallOf
<1>3. /\ IF side = "client" THEN k.op \in {"ensureTag", "getOrCreateNamed"} ELSE k.op = "ensure"
      /\ k.name \in TagNames /\ NameOf(k.name, k.id)
    BY <1>1, <1>2 DEF CallOK
<1>4. /\ tagIdCache' = IF side = "client" THEN [tagIdCache EXCEPT ![k.name] = Null] ELSE tagIdCache
      /\ nameMap' = IF k.op = "getOrCreateNamed" THEN Null ELSE nameMap
      /\ tagsCache' = IF side = "gateway" THEN Null ELSE tagsCache
      /\ owed' = IF k.op # "ensureTag" /\ ~Tagged!Fetching /\ k.id \in Tagged!Live
                 THEN owed \cup {k.id} ELSE owed
      /\ Tagged!Answer(c, k.op, k.name, k.ids, k.id, <<>>)
    BY <1>2 DEF Tagged!Created, Tagged!Return
<1>5. call' = [call EXCEPT ![c] = Tagged!Idle] /\ answer'.op = k.op /\ answer'.name = k.name
      /\ answer'.id = k.id
    BY <1>4 DEF Tagged!Answer
<1>6. Tagged!Live' = Tagged!Live
    BY <1>1 DEF Tagged!Live
<1>7. NamesTyped /\ CachesOK
    BY DEF NamesInv
<1>8. NamesTyped'
    BY <1>1, <1>4, <1>5, <1>6, <1>7, IdleCall DEF NamesTyped
<1>9. CachesOK'
    <2>1. tagIdCache' \in [TagNames -> Nat \cup {Null}]
        BY <1>3, <1>4, <1>7 DEF CachesOK
    <2>2. ASSUME NEW m \in TagNames
          PROVE  /\ tagIdCache'[m] \in {Null, 0} \cup DOMAIN entity
                 /\ tagIdCache'[m] \in DOMAIN entity => entity[tagIdCache'[m]] \in {m, Null}
        <3>1. Null \notin DOMAIN entity
            BY <1>7, NamesAssumption, Entities
        <3>2. tagIdCache'[m] \in {tagIdCache[m], Null}
            BY <1>3, <1>4, <1>7 DEF CachesOK
        <3> QED BY <1>7, <3>1, <3>2 DEF CachesOK, NameOf
    <2>3. nameMap' # Null => side = "client" /\ ListOK(nameMap) /\ owed' \subseteq DOMAIN nameMap
                             /\ nameMap' = nameMap
        BY <1>3, <1>4, <1>7 DEF CachesOK
    <2>4. tagsCache' = Null
        BY <1>4, <1>7 DEF CachesOK, NamesTyped
    <2> QED BY <1>1, <2>1, <2>2, <2>3, <2>4 DEF CachesOK, NameOf, ListOK
<1>10. ASSUME NEW r \in CallRecord, CallOK(r),
              owed' = owed \/ r.step \notin {"pages", "list", "store"}
       PROVE  CallOK(r)'
    <2>1. r.step = "pages" => PagesRead(r.ids, r.page)'
        <3>1. \A j : Tagged!Before(j)' = Tagged!Before(j)
            BY <1>1, <1>6 DEF Tagged!Before
        <3> QED BY <1>10, <3>1 DEF CallOK, PagesRead
    <2>2. \A l : ListOK(l) => ListOK(l)'
        BY <1>1 DEF ListOK
    <2>3. \A n, id : NameOf(n, id) => NameOf(n, id)'
        BY <1>1 DEF NameOf
    <2> HIDE DEF ListOK, PagesRead, NameOf
    <2> QED BY <1>1, <1>6, <1>10, <2>1, <2>2, <2>3 DEF CallOK
<1>11. CallsOK'
    <2> SUFFICES ASSUME NEW d \in Callers, NEW q \in CallRecord, call'[d] = q PROVE CallOK(q)'
        BY DEF CallsOK
    <2>1. CallOK(q)
        <3>1. call'[d] \in {call[d], Tagged!Idle}
            BY <1>5, <1>7 DEF NamesTyped
        <3> QED BY <3>1, CallOf, IdleCall
    <2>2. q.step # "idle" => q = call[d]
        BY <1>5, <1>7 DEF NamesTyped, Tagged!Idle
    <2>3. owed' = owed \/ q.step \notin {"pages", "list", "store"}
        BY <1>4, <2>2 DEF Tagged!Fetching
    <2> QED BY <1>10, <2>1, <2>3
<1>12. AnswerOK'
    BY <1>1, <1>3, <1>5 DEF AnswerOK, NameOf
<1> QED BY <1>8, <1>9, <1>11, <1>12 DEF NamesInv

LEMMA NamesNext ==
    ASSUME NamesInv, [Tagged!Next]_names
    PROVE  NamesInv'
<1>1. CASE UNCHANGED names
    <2>1. UNCHANGED <<side, entity, owed>> /\ UNCHANGED <<tagIdCache, nameMap, tagsCache>>
          /\ UNCHANGED <<call, answer>>
        BY <1>1 DEF names
    <2>2. Tagged!Live' = Tagged!Live
        BY <2>1, Lasting
    <2>3. NamesTyped'
        BY <2>1, <2>2 DEF NamesInv, NamesTyped
    <2>4. CallsOK'
        BY <2>1, Lasting DEF NamesInv, CallsOK
    <2>5. CachesOK'
        BY <2>1, CachesLast
    <2>6. AnswerOK'
        BY <2>1, <2>2 DEF NamesInv, AnswerOK, NameOf
    <2> QED BY <2>3, <2>4, <2>5, <2>6 DEF NamesInv
<1>2. CASE Tagged!Next
    <2>1. ASSUME NEW c \in Callers, NEW n \in TagNames, Tagged!getOrCreateNamed(c, n)
          PROVE  NamesInv'
        BY <2>1, GetOrCreateNamed
    <2>2. ASSUME NEW c \in Callers, NEW n \in TagNames, NEW op \in {"getTagId", "ensureTag"},
                 Tagged!getTagId(c, op, n)
          PROVE  NamesInv'
        BY <2>2, GetTagId
    <2>3. ASSUME NEW c \in Callers,
                 \/ Tagged!TagIdRead(c) \/ Tagged!TagIdKept(c) \/ Tagged!getEntityNameMap(c)
                 \/ Tagged!ReadPage(c) \/ Tagged!NamesKept(c) \/ Tagged!ReadList(c)
                 \/ Tagged!ListKept(c) \/ Tagged!Find(c) \/ Tagged!Post(c) \/ Tagged!Created(c)
                 \/ Tagged!Raced(c) \/ Tagged!Fail(c)
          PROVE  NamesInv'
        BY <2>3, TagIdRead, TagIdKept, GetEntityNameMap, ReadPage, NamesKept, ReadList, ListKept,
           Find, Post, Created, Raced, Fail
    <2>4. ASSUME NEW c \in Callers, NEW n \in TagNames, Tagged!listTags(c, "ensure", n, {})
          PROVE  NamesInv'
        BY <2>4, ListTags
    <2>5. ASSUME NEW c \in Callers, NEW ids \in SUBSET Tagged!Live,
                 Tagged!listTags(c, "covering", Null, ids)
          PROVE  NamesInv'
        BY <2>5, ListTags
    <2>6. CASE Tagged!Expire \/ Tagged!TagDeleted \/ \E n \in TagNames : Tagged!OthersCreate(n)
        BY <2>6, Expire, TagDeleted, OthersCreate
    <2> QED BY <1>2, <2>1, <2>2, <2>3, <2>4, <2>5, <2>6 DEF Tagged!Next
<1> QED BY <1>1, <1>2

LEMMA NamesInvariant == SumSpec => []NamesInv
<1>1. SumInit => NamesInv
    BY PartsBegin, NamesInit
<1>2. NamesInv /\ [SumNext]_sumVars => NamesInv'
    BY PartsMove, NamesNext
<1> QED BY <1>1, <1>2, PTL DEF SumSpec

\* A caller is given the id of its name, whoever created the tag and whenever it was cached
\* (client.ts: getTagId, getOrCreateNamed; paperless.gateway.ts: ensureTag).
THEOREM IdsAreOfTheirNames == SumSpec => []IdIsOfTheName
<1>1. NamesInv => IdIsOfTheName
    BY DEF NamesInv, AnswerOK, NameOf, IdIsOfTheName, Tagged!IdIsOfTheName
<1> QED BY <1>1, NamesInvariant, PTL

\* A tag the process created is in the next list of names it reads, and listTagsCovering knows
\* the tags it was asked for (client.ts: getEntityNameMap; paperless.gateway.ts: listTags).
THEOREM CreatedTagsAreVisible == SumSpec => []CreatedIsVisible
<1>1. NamesInv => CreatedIsVisible
    BY DEF NamesInv, AnswerOK, CreatedIsVisible, Tagged!CreatedIsVisible
<1> QED BY <1>1, NamesInvariant, PTL

\* The caches hold ids of tags, and every call is at one of its steps.
LEMMA NamesTypeOK == SumSpec => []Tagged!TypeOK
<1>1. NamesInv => Tagged!TypeOK
    <2> SUFFICES ASSUME NamesInv PROVE Tagged!TypeOK
        OBVIOUS
    <2>1. \A n \in TagNames : tagIdCache[n] \in {Null, 0} \cup DOMAIN entity
        BY DEF NamesInv, CachesOK
    <2>2. nameMap # Null => DOMAIN nameMap \subseteq DOMAIN entity
        BY DEF NamesInv, CachesOK, ListOK
    <2>3. tagsCache # Null => DOMAIN tagsCache \subseteq DOMAIN entity
        BY DEF NamesInv, CachesOK, ListOK
    <2>4. \A c \in Callers : call[c].step \in {"idle", "lookup", "keep", "find", "post", "created",
                                               "refused", "pages", "list", "store"}
        BY CallOf DEF CallRecord
    <2> QED BY <2>1, <2>2, <2>3, <2>4 DEF NamesInv, NamesTyped, Tagged!TypeOK, Tagged!NoTag
<1> QED BY <1>1, NamesInvariant, PTL
-----------------------------------------------------------------------------
\* Whichever part moves is well typed: loops have tasks, rows have fields of their type, caches
\* hold ids of tags, and a proposal is one of the documents'.
THEOREM DocumentDataTypeCorrect == SumSpec => []PartsTypeOK
<1>1. SumInit => Inv /\ TypeFieldsInv /\ TwinsInv
    BY PartsBegin, InitInv, TypeFieldsInit, TwinsInit
<1>2. Inv /\ [SumNext]_sumVars => Inv'
    BY PartsMove, NextInv
<1>3. Inv /\ TypeFieldsInv /\ TwinsInv /\ Tagged!TypeOK => PartsTypeOK
    BY TypeFieldsTyped, TwinsTypeOK DEF Inv, PartsTypeOK
<1> QED BY <1>1, <1>2, <1>3, TypeFieldsSafe, TwinsSafe, NamesTypeOK, PTL DEF SumSpec
=============================================================================
