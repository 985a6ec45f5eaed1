----------------------------- MODULE DocumentData -----------------------------
(***************************************************************************)
(* What is kept of a document: its custom fields, its fields by type, the  *)
(* names behind the ids of its tags, and what makes it look like a         *)
(* duplicate.  These parts share no state: a behaviour picks one part and  *)
(* takes its steps, and the others stay as they began.                     *)
(***************************************************************************)
EXTENDS CustomFields

CONSTANTS
    Null,
    TypeFieldNames, Pages,                                    \* TypeFields
    TagNames, Lower, Order, Callers, MaxId, PageSize, ApiPage,       \* Names
    Docs, Contents, Trim, LowerText, Close, MaxChanges        \* Duplicates

\* Neither a tag's name nor its id is Null, no two names are at one place, and a page has room.
ASSUME NamesAssumption ==
    /\ Null \notin TagNames \cup Nat
    /\ Order \in [TagNames -> Nat] /\ \A n, m \in TagNames : Order[n] = Order[m] => n = m
    /\ PageSize \in Nat \ {0} /\ ApiPage \in Nat /\ MaxId \in Nat

VARIABLES part,
    docType, row, patch, seen, draft,
    side, entity, tagIdCache, nameMap, tagsCache, call, answer, owed,
    contents, native, tags, trashed, prop, filed, changes

custom == <<fields, loop, edit, count, given>>
byType == <<docType, row, patch, seen, draft>>
names == <<side, entity, tagIdCache, nameMap, tagsCache, call, answer, owed>>
twins == <<contents, native, tags, trashed, prop, filed, changes>>

ByType == INSTANCE TypeFields
Tagged == INSTANCE Names WITH Names <- TagNames
Twins == INSTANCE Duplicates WITH fields <- contents, Lower <- LowerText

\* A document being filed is not Null.
ASSUME FilingAssumption == Null \notin Twins!Filing

\* The parts not picked begin in one state each.
SumInit ==
    /\ part \in {"custom", "byType", "names", "twins"}
    /\ Init /\ ByType!Init /\ Tagged!Init /\ Twins!Init
    /\ part # "byType" => docType = CHOOSE t \in ByType!Types : TRUE
    /\ part # "names" => side = "client" /\ entity = <<>>
    /\ part # "twins" => contents = [d \in Docs |-> CHOOSE c \in Contents : TRUE]

In(p) == part = p /\ part' = part

SumNext ==
    \/ In("custom") /\ Next /\ UNCHANGED <<byType, names, twins>>
    \/ In("byType") /\ ByType!Next /\ UNCHANGED <<custom, names, twins>>
    \/ In("names") /\ Tagged!Next /\ UNCHANGED <<custom, byType, twins>>
    \/ In("twins") /\ Twins!Next /\ UNCHANGED <<custom, byType, names>>

sumVars == <<part, custom, byType, names, twins>>

SumSpec == SumInit /\ [][SumNext]_sumVars

\* The types of a part are checked where it moves.
PartsTypeOK ==
    /\ part = "custom" => TypeOK
    /\ part = "byType" => ByType!TypeOK
    /\ part = "names" => Tagged!TypeOK
    /\ part = "twins" => Twins!TypeOK

FieldsOfOneType == ByType!FieldsOfOneType
IdIsOfTheName == Tagged!IdIsOfTheName
CreatedIsVisible == Tagged!CreatedIsVisible
PanelsAgree == Twins!PanelsAgree
=============================================================================
