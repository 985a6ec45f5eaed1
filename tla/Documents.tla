------------------------------ MODULE Documents ------------------------------
(***************************************************************************)
(* The pipeline and what a user does around it: upload files, review them  *)
(* in a form, empty the trash, browse the library, change the settings,    *)
(* sign in.  These parts share no state: a behaviour picks one part and    *)
(* takes its steps, and the others stay as they began.                     *)
(***************************************************************************)
EXTENDS Pipeline

CONSTANTS
    Null,
    Files, FileNames, Batches,                               \* Uploads
    BinDocs, Users, PageSize,                                \* Trash
    Fields, Values, Trim, Normal,                            \* ReviewForm
    TypeOf, Types, TagSets, PAGE_SIZE, NoType,               \* Library
    SearchTexts, PageTypes, Statuses, MaxPages,                    \* LibraryPage
    Models, DEFAULT_MODEL, fallbackModel, Admins,            \* Settings
    Thresholds, TTL, Timeout, MaxTicks, MaxSaves,
    Browsers, Passwords, Bootstrap, MaxFailures, Window,     \* Session
    Expires, MaxTime, MaxChanges

ASSUME NullAssumption == Null \notin Docs /\ Null \notin Values /\ Null \notin Files
\* The worker's requests are not an administrator's, a threshold lies between 0 and 1, and
\* the worker gives up on a request (5 s) before a cached model is too old (60 s).
ASSUME SettingsAssumption ==
    /\ "worker" \notin Admins
    /\ Thresholds \subseteq 0 .. 1000
    /\ {TTL, Timeout, MaxTicks} \subseteq Nat
    /\ Timeout \leq TTL
    /\ Null \notin Models \cup {DEFAULT_MODEL} \cup Nat
    /\ Null \notin [{"llmModel", "answerLlmModel"} -> Models \cup {DEFAULT_MODEL}]
ASSUME TextsAssumption ==
    /\ "" \in Values
    /\ Trim \in [Values -> Values]
    /\ Normal \in [Values -> Values]
ASSUME TrashAssumption == IsFiniteSet(BinDocs) /\ PageSize \in Nat \ {0}
\* Documents are finitely many, a page has room, and no document type is the lack of one.
ASSUME LibraryAssumption ==
    /\ IsFiniteSet(Docs) /\ PAGE_SIZE \in Nat \ {0}
    /\ TagSets \subseteq SUBSET Tag
    /\ NoType \notin Types
\* The page is reached without filters, and a listing has a page.
ASSUME PageAssumption ==
    /\ "" \in SearchTexts /\ "" \in PageTypes /\ "" \in Statuses
    /\ MaxPages \in Nat \ {0}
\* The bootstrap password is a password; no row, hash or request is Null.
ASSUME SessionAssumption ==
    /\ IsFiniteSet(Browsers)
    /\ MaxFailures \in Nat \ {0} /\ MaxChanges \in Nat
    /\ Bootstrap \in Passwords \cup {Null}
    /\ Expires \in Nat
    /\ Null \notin [password : Passwords, hash : Nat]
    /\ Null \notin [kind : {"login"}, at : {"sent"}, password : Passwords]
    /\ Null \notin [kind : {"login"}, password : Passwords, hash : Nat \cup {Null},
                    at : {"throttled", "hashing", "refused", "done"}]
    /\ Null \notin [kind : {"change"}, at : {"hashing", "done"}, password : Passwords]

VARIABLES part,
    nameOf, fileRows, batch, calls, result, recorded, tracker, task, tag,
    shelf, trash, chunks, request, rows, confirm, due,
    stored, detail, fetching, open, form, hydrated, approving, typed,
    tagsOf, existing, inFlight,
    route, nav, text, timer, pages, armed, bulk,
    row, minConf, asking, displayed, draft, cache, loadedAt, asked, given, now, saves,
    saved, held, inForce,
    user, failures, time, cookie, me, view, call

uploads == <<nameOf, fileRows, batch, calls, result, recorded, tracker, task, tag>>
bin == <<shelf, trash, chunks, request, rows, confirm, due>>
review == <<stored, detail, fetching, open, form, hydrated, approving, typed>>
library == <<tagsOf, existing, inFlight>>
page == <<route, nav, text, timer, pages, armed, bulk>>
settings == <<row, minConf, asking, displayed, draft, cache, loadedAt, asked, given, now, saves,
              saved, held, inForce>>
sessions == <<user, failures, time, cookie, me, view, call>>

Up == INSTANCE Uploads WITH Names <- FileNames, rows <- fileRows
Bin == INSTANCE Trash WITH Docs <- BinDocs, library <- shelf, call <- request
Form == INSTANCE ReviewForm WITH request <- approving
Lib == INSTANCE Library
Page == INSTANCE LibraryPage WITH Types <- PageTypes, Texts <- SearchTexts
Set == INSTANCE Settings WITH
    MaxClock <- MaxTicks, call <- asking, shown <- displayed, clock <- now, stored <- held
Auth == INSTANCE Session WITH MaxClock <- MaxTime, clock <- time, page <- view

\* The parts not picked begin in one state each.
SumInit ==
    /\ part \in {"pipeline", "uploads", "bin", "review", "library", "page", "settings", "sessions"}
    /\ Init /\ Up!Init /\ Bin!Init /\ Form!Init /\ Lib!Init /\ Page!Init /\ Set!Init /\ Auth!Init
    /\ part # "uploads" => nameOf = [f \in Files |-> CHOOSE n \in FileNames : TRUE]
    /\ part # "bin" => shelf = BinDocs
    /\ part # "review" => stored = [d \in Docs |-> Form!EMPTY_FORM]
    /\ part # "page" => route = [tab |-> "archive", filters |-> Page!NoFilters, page |-> 1]

In(name) == part = name /\ part' = part

SumNext ==
    \/ /\ In("pipeline") /\ Next
       /\ UNCHANGED <<uploads, bin, review, library, page, settings, sessions>>
    \/ /\ In("uploads") /\ Up!Next
       /\ UNCHANGED <<vars, bin, review, library, page, settings, sessions>>
    \/ /\ In("bin") /\ Bin!Next
       /\ UNCHANGED <<vars, uploads, review, library, page, settings, sessions>>
    \/ /\ In("review") /\ Form!Next
       /\ UNCHANGED <<vars, uploads, bin, library, page, settings, sessions>>
    \/ /\ In("library") /\ Lib!Next
       /\ UNCHANGED <<vars, uploads, bin, review, page, settings, sessions>>
    \/ /\ In("page") /\ Page!Next
       /\ UNCHANGED <<vars, uploads, bin, review, library, settings, sessions>>
    \/ /\ In("settings") /\ Set!Next
       /\ UNCHANGED <<vars, uploads, bin, review, library, page, sessions>>
    \/ /\ In("sessions") /\ Auth!Next
       /\ UNCHANGED <<vars, uploads, bin, review, library, page, settings>>

sumVars == <<part, vars, uploads, bin, review, library, page, settings, sessions>>

SumSpec == SumInit /\ [][SumNext]_sumVars

\* The formulas of a part are evaluated where it moves.
PartsTypeOK ==
    /\ part = "pipeline" => TypeOK
    /\ part = "uploads" => Up!TypeOK
    /\ part = "bin" => Bin!TypeOK
    /\ part = "review" => Form!TypeOK
    /\ part = "library" => Lib!TypeOK
    /\ part = "page" => Page!TypeOK
    /\ part = "settings" => Set!TypeOK
    /\ part = "sessions" => Auth!TypeOK

RowsTellOfTheirName == Up!RowsTellOfTheirName
SettledIsFinal == [][part = "uploads" => Up!OnlyUsersMoveSettled]_uploads
EmptiedAll == Bin!EmptiedAll
LostAsAsked == [][part = "bin" => Bin!AsAsked]_bin
EditsWereTyped == Form!EditsWereTyped
ListsTheMatches == part = "library" => Lib!ListsTheMatches
OtherFiltersFirstPage == Page!OtherFiltersFirstPage
SavedModelKept == Set!SavedModelKept
ReadersFollowTables == Set!ReadersFollowTables
SessionIsOfThePassword == Auth!SessionIsOfThePassword
=============================================================================
