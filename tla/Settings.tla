------------------------------- MODULE Settings -------------------------------
(***************************************************************************)
(* The settings of the application: the singleton row with the two models, *)
(* which the first request creates; the page that shows and saves models   *)
(* and thresholds; and the worker's ActiveModelConfig, which asks the API  *)
(* for the model and caches the answer.  The table of the rules as a whole *)
(* is the subject of AutoApprove; here one threshold shows how a number    *)
(* travels, in thousandths, of which the table keeps hundredths.           *)
(***************************************************************************)
EXTENDS Integers

CONSTANTS
    Models,         \* models an administrator picks
    DEFAULT_MODEL,
    fallbackModel,  \* OLLAMA_MODEL of the worker
    Admins,         \* requests of administrators, one at a time each
    Thresholds,     \* min_confidence as typed, in thousandths
    TTL,            \* CACHE_TTL_SECONDS, in ticks
    Timeout,        \* of the worker's request, in ticks
    MaxClock,       \* bound: ticks
    MaxSaves,       \* bound: saves of models and of the threshold
    Null

Column == {"llmModel", "answerLlmModel"}
AnyModel == Models \cup {DEFAULT_MODEL}
Callers == Admins \cup {"worker"}

VARIABLES
    row,        \* table app_settings: Null, or a model by column
    minConf,    \* min_confidence of the rule in the table
    call,       \* requests in the API
    shown,      \* page: query data of the models by column, and of the rule
    draft,      \* page: AutoApprove.draft, the threshold typed
    cache,      \* ActiveModelConfig.cache
    loadedAt,   \* ActiveModelConfig.loadedAt
    asked,      \* ActiveModelConfig.inFlight: when its request began, or Null
    given,      \* last result of getModel, and whether it is a fallback
    clock,
    saves,      \* bound: saves so far
    saved,      \* history: by column, the model of the last save that took effect
    stored,     \* history: models by column and thresholds the tables have held
    inForce     \* history: when each model was last the active one

db == <<row, minConf>>
worker == <<cache, loadedAt, asked, given>>
history == <<saved, stored, inForce>>
vars == <<row, minConf, call, shown, draft, worker, clock, saves, saved, stored, inForce>>

Idle == [pc |-> "idle", op |-> "none", col |-> "llmModel", value |-> Null]
Fresh == [c \in Column |-> DEFAULT_MODEL]
active == IF row = Null THEN DEFAULT_MODEL ELSE row.llmModel

Init ==
    /\ row = Null
    /\ minConf = 900
    /\ call = [c \in Callers |-> Idle]
    /\ shown = [c \in Column \cup {"rule"} |-> Null]
    /\ draft = Null
    /\ cache = Null /\ loadedAt = 0 /\ asked = Null
    /\ given = Null
    /\ clock = 0 /\ saves = 0
    /\ saved = Fresh
    /\ stored = [x \in Column \cup {"rule"} |-> IF x = "rule" THEN {900} ELSE {DEFAULT_MODEL}]
    /\ inForce = [m \in AnyModel |-> IF m = DEFAULT_MODEL THEN 0 ELSE -1]

-----------------------------------------------------------------------------
(* SettingsService *)

at(c, pc) == call[c].pc = pc
To(c, pc) == call' = [call EXCEPT ![c].pc = pc]
Answer(c, value) == call' = [call EXCEPT ![c].pc = "answered", ![c].value = value]
\* The page shows the error and keeps its data; the worker falls back (LoadFails).
Fail(c) == call' = [call EXCEPT ![c] = Idle]

Stores(r) ==
    /\ row' = r
    /\ stored' = [x \in DOMAIN stored |-> stored[x] \cup IF x \in Column THEN {r[x]} ELSE {}]

\* getRow reads first; a save goes on to its UPDATE.
Select(c) ==
    /\ at(c, "select")
    /\ IF row = Null THEN To(c, "insert")
       ELSE IF call[c].op = "set" THEN To(c, "update")
       ELSE Answer(c, row[call[c].col])
    /\ UNCHANGED <<db, shown, draft, worker, clock, saves, history>>

\* Mutant: on a conflict the row is set to the defaults.
InsertResets(c) ==
    /\ at(c, "insert")
    /\ Stores(Fresh)
    /\ IF call[c].op = "set" THEN To(c, "update") ELSE Answer(c, DEFAULT_MODEL)
    /\ UNCHANGED <<minConf, shown, draft, worker, clock, saves, saved, inForce>>

\* ... and then inserts; when another request was faster its key is taken.
Insert(c) ==
    /\ at(c, "insert")
    /\ IF row # Null THEN Fail(c) /\ UNCHANGED <<row, stored>>
       ELSE /\ Stores(Fresh)
            /\ IF call[c].op = "set" THEN To(c, "update") ELSE Answer(c, DEFAULT_MODEL)
    /\ UNCHANGED <<minConf, shown, draft, worker, clock, saves, saved, inForce>>

\* setActiveModel, setActiveAnswerModel: without a row, getRow first.
Update(c) ==
    /\ at(c, "update")
    /\ \/ /\ row = Null
          /\ To(c, "select")
          /\ UNCHANGED <<row, stored, saved, inForce>>
       \/ /\ row # Null
          /\ Stores([row EXCEPT ![call[c].col] = call[c].value])
          /\ saved' = [saved EXCEPT ![call[c].col] = call[c].value]
          /\ inForce' = [inForce EXCEPT ![active] = clock]
          /\ To(c, "answered")
    /\ UNCHANGED <<minConf, shown, draft, worker, clock, saves>>

\* min_confidence.toFixed(2); a tie goes where its binary fraction does.
toFixed2(x) == {h \in {(x \div 10) * 10, (x \div 10 + 1) * 10} : h - x \in -5 .. 5}

\* replaceRules writes the rule, and listRules reads what the response tells.
UpsertRule(c) ==
    /\ at(c, "upsert")
    /\ minConf' \in toFixed2(call[c].value)
    /\ stored' = [stored EXCEPT !["rule"] = @ \cup {minConf'}]
    /\ To(c, "list")
    /\ UNCHANGED <<row, shown, draft, worker, clock, saves, saved, inForce>>

ListRules(c) ==
    /\ at(c, "list")
    /\ Answer(c, minConf)
    /\ UNCHANGED <<db, shown, draft, worker, clock, saves, history>>

\* The database or the connection fails, before or after the change.
CallFails(c) ==
    /\ ~at(c, "idle")
    /\ Fail(c)
    /\ UNCHANGED <<db, shown, draft, worker, clock, saves, history>>

-----------------------------------------------------------------------------
(* The page *)

Request(c, pc, op, col, value) ==
    call' = [call EXCEPT ![c] = [pc |-> pc, op |-> op, col |-> col, value |-> value]]

\* Queries of the page, repeated whenever they are stale.
Load(a) ==
    /\ at(a, "idle")
    /\ \/ \E col \in Column : Request(a, "select", "get", col, Null)
       \/ Request(a, "list", "get", "rule", Null)
    /\ UNCHANGED <<db, shown, draft, worker, clock, saves, history>>

\* ModelPicker: from the list, or typed and trimmed when Ollama does not list any.
Pick(a) ==
    /\ at(a, "idle") /\ saves < MaxSaves
    /\ \E col \in Column, m \in Models :
          /\ shown[col] \notin {Null, m}
          /\ Request(a, "update", "set", col, m)
    /\ saves' = saves + 1
    /\ UNCHANGED <<db, shown, draft, worker, clock, history>>

SetMinConfidence ==
    /\ draft # Null
    /\ draft' \in Thresholds
    /\ UNCHANGED <<db, call, shown, worker, clock, saves, history>>

\* onSave, while the draft is dirty.
SaveRule(a) ==
    /\ at(a, "idle") /\ saves < MaxSaves
    /\ draft # shown["rule"]
    /\ Request(a, "upsert", "set", "rule", draft)
    /\ saves' = saves + 1
    /\ UNCHANGED <<db, shown, draft, worker, clock, history>>

\* Mutant: after a save the page shows what it sent.
ReceiveKeepsDraft(a) ==
    /\ at(a, "answered")
    /\ call' = [call EXCEPT ![a] = Idle]
    /\ shown' = [shown EXCEPT ![call[a].col] =
                    IF call[a].op = "set" /\ call[a].col = "rule" THEN draft ELSE call[a].value]
    /\ draft' = shown'["rule"]
    /\ UNCHANGED <<db, worker, clock, saves, history>>

\* The response becomes the query data; rules that differ make a new draft.
Receive(a) ==
    /\ at(a, "answered")
    /\ call' = [call EXCEPT ![a] = Idle]
    /\ shown' = [shown EXCEPT ![call[a].col] = call[a].value]
    /\ draft' = IF shown'["rule"] = shown["rule"] THEN draft ELSE shown'["rule"]
    /\ UNCHANGED <<db, worker, clock, saves, history>>

-----------------------------------------------------------------------------
(* ActiveModelConfig *)

Give(m, fallback) == given' = [model |-> m, fallback |-> fallback, at |-> clock]

\* Mutant: the age of the cached model is not looked at.
freshForever == cache # Null

fresh == cache # Null /\ clock - loadedAt <= TTL

\* A call that finds a load in flight waits for the same promise.
getModel ==
    /\ asked = Null
    /\ IF fresh THEN Give(cache, FALSE) /\ UNCHANGED <<call, asked>>
       ELSE /\ asked' = clock
            /\ Request("worker", "select", "get", "llmModel", Null)
            /\ UNCHANGED given
    /\ UNCHANGED <<db, shown, draft, cache, loadedAt, clock, saves, history>>

\* Loaded: as old as the request.
Loaded ==
    /\ at("worker", "answered")
    /\ cache' = call["worker"].value
    /\ loadedAt' = asked
    /\ Give(call["worker"].value, FALSE)
    /\ asked' = Null
    /\ call' = [call EXCEPT !["worker"] = Idle]
    /\ UNCHANGED <<db, shown, draft, clock, saves, history>>

\* An error, a refusal or the timeout: the cached model of any age, or the worker's own.
LoadFails ==
    /\ asked # Null
    /\ Give(IF cache = Null THEN fallbackModel ELSE cache, TRUE)
    /\ asked' = Null
    /\ call' = [call EXCEPT !["worker"] = Idle]
    /\ UNCHANGED <<db, shown, draft, cache, loadedAt, clock, saves, history>>

Tick ==
    /\ clock < MaxClock
    /\ asked # Null => clock - asked < Timeout
    /\ clock' = clock + 1
    /\ UNCHANGED <<db, call, shown, draft, worker, saves, history>>

Next ==
    \/ \E c \in Callers :
          Select(c) \/ Insert(c) \/ Update(c) \/ UpsertRule(c) \/ ListRules(c) \/ CallFails(c)
    \/ \E a \in Admins :
          Load(a) \/ Pick(a) \/ SaveRule(a) \/ Receive(a)
    \/ SetMinConfidence
    \/ getModel \/ Loaded \/ LoadFails
    \/ Tick

Spec == Init /\ [][Next]_vars

-----------------------------------------------------------------------------
(* Properties. *)

TypeOK ==
    /\ row = Null \/ row \in [Column -> AnyModel]
    /\ minConf \in {10 * h : h \in 0 .. 100}
    /\ \A c \in Callers :
          /\ call[c].pc \in {"idle", "select", "insert", "update", "upsert", "list", "answered"}
          /\ call[c].pc \in {"select", "insert", "update"} => call[c].col \in Column
          /\ call[c].pc = "answered" => call[c].value # Null
    /\ cache \in AnyModel \cup {Null}
    /\ asked # Null => asked <= clock /\ loadedAt <= asked
    /\ row = Null => saved = Fresh

\* A saved model stays until another one is saved, although any first request may
\* still be about to insert the row with its defaults (getRow, setActiveModel).
SavedModelKept == row # Null => row = saved

(***************************************************************************)
(* Every model and threshold on the page is one the tables held after some *)
(* save or at the start: in particular a threshold that lost its third     *)
(* digit is shown as the worker compares it (useUpdateLLMSettings,         *)
(* useUpdateAutoApproveRules: onSuccess; AutoApprove.vue: buildDraft).     *)
(***************************************************************************)
PageShowsStored == \A x \in DOMAIN shown : shown[x] \in stored[x] \cup {Null}

(***************************************************************************)
(* The worker runs with a model that was the active one at most TTL ago,   *)
(* or, when the API did not answer, with the last one it got, or with its  *)
(* own if it got none (ActiveModelConfig).                                 *)
(***************************************************************************)
ModelIsRecent ==
    given # Null =>
        IF given.fallback THEN given.model = IF cache = Null THEN fallbackModel ELSE cache
        ELSE given.model = active \/ given.at - inForce[given.model] <= TTL

\* Both readers of the settings, the page and the worker, go by what the tables hold or
\* held not long ago, however their requests and the saves interleave.
ReadersFollowTables == PageShowsStored /\ ModelIsRecent
=============================================================================
