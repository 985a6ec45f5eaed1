------------------------------ MODULE TypeFields ------------------------------
(***************************************************************************)
(* The type-specific fields of a document: a row of the API's database     *)
(* that the worker's second pass and the document's page both PATCH.  The  *)
(* API reads the row, merges and writes it back in two steps, and the      *)
(* document's type may change at any point, by a new extraction or by a    *)
(* user.                                                                   *)
(***************************************************************************)
EXTENDS FiniteSets

CONSTANTS
    TypeFieldNames,  \* TYPE_FIELD_SCHEMA: the names of the fields of each type
    Pages,           \* open pages of the document
    Null

Types == DOMAIN TypeFieldNames
Names == UNION {TypeFieldNames[t] : t \in Types}
Writers == Pages \cup {"worker"}

VARIABLES
    docType,  \* ai_document_type of the document
    row,      \* its row in document_type_fields, or Null
    patch,    \* requests PATCH /documents/:id/type-fields in the API
    seen,     \* pages: type and values loaded, or Null
    draft     \* pages: TypeFieldsSection.draft

vars == <<docType, row, patch, seen, draft>>

NoPatch == [pc |-> "none", type |-> Null, fields |-> <<>>, existing |-> Null]

Init ==
    /\ docType \in Types
    /\ row = Null
    /\ patch = [w \in Writers |-> NoPatch]
    /\ seen = [p \in Pages |-> Null]
    /\ draft = [p \in Pages |-> <<>>]

-----------------------------------------------------------------------------
(* Values.  A month, a date or an amount is given loosely and stored in    *)
(* its canonical form, which stays as it is.                               *)

Text == {"blank", "loose", "canonical"}

\* Null clears the field.
normaliseValue(text) ==
    CASE text \in {Null, "blank"} -> Null
      [] text = "loose" -> "canonical"
      [] OTHER -> text

Partial(S, T) == UNION {[D -> T] : D \in SUBSET S}
Without(f, S) == [n \in DOMAIN f \ S |-> f[n]]
Over(f, g) == [n \in DOMAIN f \cup DOMAIN g |-> IF n \in DOMAIN f THEN f[n] ELSE g[n]]

-----------------------------------------------------------------------------
(* The API *)

Send(w, type, fields) ==
    patch' = [patch EXCEPT ![w] = [pc |-> "sent", type |-> type, fields |-> fields,
                                   existing |-> Null]]

End(w) == patch' = [patch EXCEPT ![w] = NoPatch]

validateFieldNames(type, fields) == DOMAIN fields \subseteq TypeFieldNames[type]

\* Checked, normalised, and the row read.
Read(w) ==
    /\ patch[w].pc = "sent"
    /\ validateFieldNames(patch[w].type, patch[w].fields)
    /\ patch' = [patch EXCEPT
                    ![w].pc = "read",
                    ![w].fields = [n \in DOMAIN @ |-> normaliseValue(@[n])],
                    ![w].existing = row]
    /\ UNCHANGED <<docType, row, seen, draft>>

\* Mutant: fields of the former type are kept.
mergeAll(existing, type, fields) ==
    LET cleared == {n \in DOMAIN fields : fields[n] = Null}
    IN  [type |-> type,
         fields |-> Over(Without(fields, cleared), Without(existing.fields, cleared))]

merge(existing, type, fields) ==
    LET cleared == {n \in DOMAIN fields : fields[n] = Null}
        foreign == IF existing.type = type THEN {}
                   ELSE DOMAIN existing.fields \ TypeFieldNames[type]
    IN  [type |-> type,
         fields |-> Over(Without(fields, cleared), Without(existing.fields, cleared \cup foreign))]

\* A row is inserted if none was there; if there is one by now, its key is taken and
\* the request fails.  Otherwise the row is overwritten.
Write(w) ==
    /\ patch[w].pc = "read"
    /\ LET p == patch[w] IN
          IF p.existing # Null THEN row' = merge(p.existing, p.type, p.fields)
          ELSE IF row # Null THEN UNCHANGED row
          ELSE row' = merge([type |-> p.type, fields |-> <<>>], p.type, p.fields)
    /\ End(w)
    /\ UNCHANGED <<docType, seen, draft>>

\* No answer in time, an error, a session that has ended.
PatchFails(w) ==
    /\ patch[w].pc # "none"
    /\ End(w)
    /\ UNCHANGED <<docType, row, seen, draft>>

-----------------------------------------------------------------------------
(* The worker: an extraction sets the type and runs the second pass, whose *)
(* failure it ignores.                                                     *)

runTypeFieldsPass ==
    /\ patch["worker"].pc = "none"
    /\ docType' \in Types
    /\ \/ UNCHANGED patch
       \/ \E fields \in Partial(TypeFieldNames[docType'], {"loose"}) :
             DOMAIN fields # {} /\ Send("worker", docType', fields)
    /\ UNCHANGED <<row, seen, draft>>

UserChangesType ==
    /\ docType' \in Types
    /\ UNCHANGED <<row, patch, seen, draft>>

-----------------------------------------------------------------------------
(* The page *)

Value(values, n) == IF n \in DOMAIN values THEN values[n] ELSE "blank"
typeFieldsDraft(s) == [n \in TypeFieldNames[s.type] |-> Value(s.values, n)]

\* First load, or a refetch: a new draft takes the place of what was typed.
Loads(p) ==
    /\ LET now == [type |-> docType, values |-> IF row = Null THEN <<>> ELSE row.fields] IN
          /\ seen' = [seen EXCEPT ![p] = now]
          /\ draft' = [draft EXCEPT ![p] = IF seen[p] = now THEN @ ELSE typeFieldsDraft(now)]
    /\ UNCHANGED <<docType, row, patch>>

setField(p) ==
    /\ seen[p] # Null
    /\ \E n \in DOMAIN draft[p], text \in {"blank", "loose"} :
          draft' = [draft EXCEPT ![p][n] = text]
    /\ UNCHANGED <<docType, row, patch, seen>>

typeFieldsChanges(p) ==
    LET changed == {n \in DOMAIN draft[p] : draft[p][n] # Value(seen[p].values, n)}
    IN  [n \in changed |-> IF draft[p][n] = "blank" THEN Null ELSE draft[p][n]]

onSave(p) ==
    /\ seen[p] # Null /\ patch[p].pc = "none"
    /\ DOMAIN typeFieldsChanges(p) # {}
    /\ Send(p, seen[p].type, typeFieldsChanges(p))
    /\ UNCHANGED <<docType, row, seen, draft>>

Next ==
    \/ \E w \in Writers : Read(w) \/ Write(w) \/ PatchFails(w)
    \/ \E p \in Pages : Loads(p) \/ setField(p) \/ onSave(p)
    \/ runTypeFieldsPass
    \/ UserChangesType

Spec == Init /\ [][Next]_vars

-----------------------------------------------------------------------------
(* Properties. *)

TypeOK ==
    /\ docType \in Types
    /\ row # Null => row.type \in Types /\ row.fields \in Partial(Names, {"canonical"})
    /\ \A w \in Writers :
          /\ patch[w].pc \in {"none", "sent", "read"}
          /\ patch[w].fields \in Partial(Names, Text \cup {Null})
    /\ \A p \in Pages : seen[p] # Null => DOMAIN draft[p] = TypeFieldNames[seen[p].type]

(***************************************************************************)
(* The row never mixes the fields of two types, although its writers       *)
(* overwrite each other's rows with what they read before the type         *)
(* changed (upsert, validateFieldNames).                                   *)
(***************************************************************************)
FieldsOfOneType == row # Null => DOMAIN row.fields \subseteq TypeFieldNames[row.type]
=============================================================================
