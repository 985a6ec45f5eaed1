---------------------------- MODULE AutoApprove ----------------------------
(***************************************************************************)
(* The auto-approve rules: one row per document type in the API's          *)
(* database, replaced by operators row by row, and read by the worker      *)
(* through a cache with a time to live.  The worker has one extraction     *)
(* consumer, so one call of getRules is in progress at a time and nobody   *)
(* ever joins a load in flight.                                            *)
(*                                                                         *)
(* Time passes in ticks.  Whatever a document went through before getRules *)
(* is the subject of Pipeline; here it is a type and a confidence, from a   *)
(* trusted source.                                                         *)
(***************************************************************************)
EXTENDS Naturals, FiniteSets, Tags

CONSTANTS
    Types,         \* DOCUMENT_TYPES
    Seeded,        \* types the table has rows for before the API first starts
    Admins,        \* operators with the settings page open
    Confidences,   \* confidences, in percent
    DefaultMin,    \* DEFAULT_MIN_CONFIDENCE, in percent
    TTL,           \* CACHE_TTL_SECONDS, in ticks
    Timeout,       \* of the request, in ticks
    None,          \* no rules, no payload, no decision
    MaxClock,      \* bound: ticks in a behaviour
    MaxSaves,      \* bound: saves in a behaviour
    MaxStops       \* bound: stops of the API, and restarts of the worker

Rule == [enabled : BOOLEAN, minConfidence : Confidences \cup {DefaultMin, 100}]
\* autoApproveRulesUpdateSchema: every type once.
Payload == [Types -> [enabled : BOOLEAN, minConfidence : Confidences \cup {DefaultMin}]]
RuleSet == UNION {[S -> Rule] : S \in SUBSET Types}

ASSUME TypesAssumption == Seeded \subseteq Types
ASSUME TimesAssumption ==
    /\ Confidences \subseteq Nat
    /\ {DefaultMin, TTL, Timeout, MaxClock, MaxSaves, MaxStops} \subseteq Nat
ASSUME NoneAssumption == None \notin RuleSet

VARIABLES
    rules,      \* table auto_approve_rules: type to rule
    stamp,      \* its columns updated_at and updated_by: which save wrote a row
    api,        \* the API: "up" or "down"
    saves,      \* requests PUT /api/settings/auto-approve in progress
    cache,      \* AutoApproveConfig.cache
    loadedAt,   \* AutoApproveConfig.loadedAt
    c,          \* the extraction consumer in getRules and up to its decision
    routed,     \* its last decision, until it asks for the next one
    clock,      \* Date.now()
    used,       \* bounds: saves, stops and restarts so far
    started,    \* history: when the worker was started
    hist        \* history: the tables there have been, each with the time

table == <<rules, stamp, saves, api>>
worker == <<cache, loadedAt, c, routed, started>>
vars == <<rules, stamp, api, saves, cache, loadedAt, c, routed, clock, used,
          started, hist>>

DefaultRule == [enabled |-> FALSE, minConfidence |-> DefaultMin]
NoSave == [payload |-> None, left |-> {}, by |-> 0]
IdleC == [pc |-> "idle", asked |-> 0, rules |-> None, failClosed |-> FALSE,
          failed |-> FALSE]

Init ==
    /\ rules = [t \in Seeded |-> DefaultRule]
    /\ stamp = [t \in Seeded |-> 0]
    /\ api = "down"
    /\ saves = [a \in Admins |-> NoSave]
    /\ cache = None
    /\ loadedAt = 0
    /\ c = IdleC
    /\ routed = None
    /\ clock = 0
    /\ used = [saves |-> 0, stops |-> 0, restarts |-> 0]
    /\ started = 0
    /\ hist = {[at |-> 0, rules |-> rules]}

Decision == [type : Types, confidence : Confidences, tags : SUBSET Tag,
             asked : 0 .. MaxClock, failed : BOOLEAN]

TypeOK ==
    /\ rules \in RuleSet
    /\ stamp \in [DOMAIN rules -> 0 .. MaxSaves]
    /\ api \in {"up", "down"}
    /\ saves \in [Admins -> [payload : Payload \cup {None}, left : SUBSET Types,
                             by : 0 .. MaxSaves]]
    /\ cache \in RuleSet \cup {None}
    /\ c \in [pc : {"idle", "load", "answered", "decide"}, asked : 0 .. clock,
              rules : RuleSet \cup {None}, failClosed : BOOLEAN, failed : BOOLEAN]
    /\ c.pc \in {"answered", "decide"} <=> c.rules # None
    /\ routed \in Decision \cup {None}
    /\ clock \in 0 .. MaxClock
    /\ {loadedAt, started} \subseteq 0 .. clock
    /\ used \in [saves : 0 .. MaxSaves, stops : 0 .. MaxStops, restarts : 0 .. MaxStops]
    /\ hist \subseteq [at : 0 .. clock, rules : RuleSet]
    /\ \A a \in Admins : IF saves[a].payload = None THEN saves[a] = NoSave ELSE api = "up"
    /\ api = "up" => DOMAIN rules = Types

-----------------------------------------------------------------------------
(* The API. *)

\* onModuleInit: types without a row get a disabled one before requests are served.
reconcileMissingRules ==
    /\ api = "down"
    /\ api' = "up"
    /\ rules' = [t \in Types |-> IF t \in DOMAIN rules THEN rules[t] ELSE DefaultRule]
    /\ stamp' = [t \in Types |-> IF t \in DOMAIN stamp THEN stamp[t] ELSE 0]
    /\ UNCHANGED <<saves, worker, clock, used>>

\* Mutant: requests outlive the process.
ApiStopSaves ==
    /\ api = "up"
    /\ used.stops < MaxStops
    /\ used' = [used EXCEPT !.stops = @ + 1]
    /\ api' = "down"
    /\ UNCHANGED <<rules, stamp, saves, worker, clock>>

\* The process ends; what its requests have written so far stays.
ApiStop ==
    /\ api = "up"
    /\ used.stops < MaxStops
    /\ used' = [used EXCEPT !.stops = @ + 1]
    /\ api' = "down"
    /\ saves' = [a \in Admins |-> NoSave]
    /\ UNCHANGED <<rules, stamp, worker, clock>>

SaveBegin(a) ==
    /\ api = "up"
    /\ saves[a] = NoSave
    /\ used.saves < MaxSaves
    /\ used' = [used EXCEPT !.saves = @ + 1]
    /\ \E p \in Payload :
          saves' = [saves EXCEPT ![a] = [payload |-> p, left |-> Types,
                                         by |-> used.saves + 1]]
    /\ UNCHANGED <<rules, stamp, api, worker, clock>>

\* The upsert of one row; a payload may list the types in any order.
SaveRow(a) ==
    /\ \E t \in saves[a].left :
          /\ rules' = [rules EXCEPT ![t] = saves[a].payload[t]]
          /\ stamp' = [stamp EXCEPT ![t] = saves[a].by]
          /\ saves' = [saves EXCEPT ![a].left = @ \ {t}]
    /\ UNCHANGED <<api, worker, clock, used>>

\* All rows are written, or the database refused one.
SaveEnd(a) ==
    /\ saves[a] # NoSave
    /\ saves' = [saves EXCEPT ![a] = NoSave]
    /\ UNCHANGED <<rules, stamp, api, worker, clock, used>>

-----------------------------------------------------------------------------
(* The worker. *)

buildFailClosedRuleSet ==
    [t \in Types |-> [enabled |-> FALSE, minConfidence |-> 100]]

\* Mutant: a failed reload renews the life of what it could not replace.
fallbackRenews ==
    /\ c' = [c EXCEPT !.pc = "decide", !.failed = TRUE, !.failClosed = (cache = None),
                      !.rules = IF cache # None THEN cache ELSE buildFailClosedRuleSet]
    /\ loadedAt' = clock
    /\ UNCHANGED cache

\* Warm rules are used again; without any nothing is approved.
fallback ==
    /\ c' = [c EXCEPT !.pc = "decide", !.failed = TRUE, !.failClosed = (cache = None),
                      !.rules = IF cache # None THEN cache ELSE buildFailClosedRuleSet]
    /\ UNCHANGED <<cache, loadedAt>>

getRules ==
    /\ c.pc = "idle"
    /\ c' = IF cache # None /\ clock - loadedAt \leq TTL
            THEN [c EXCEPT !.pc = "decide", !.asked = clock, !.rules = cache]
            ELSE [c EXCEPT !.pc = "load", !.asked = clock]
    /\ routed' = None
    /\ UNCHANGED <<table, cache, loadedAt, clock, used, started>>

\* GET /api/settings/active-auto-approve-rules: one SELECT.
listRules ==
    /\ c.pc = "load"
    /\ api = "up"
    /\ c' = [c EXCEPT !.pc = "answered", !.rules = rules]
    /\ UNCHANGED <<table, cache, loadedAt, routed, clock, used, started>>

LoadOk ==
    /\ c.pc = "answered"
    /\ cache' = c.rules
    /\ loadedAt' = c.asked
    /\ c' = [c EXCEPT !.pc = "decide"]
    /\ UNCHANGED <<table, routed, clock, used, started>>

\* No connection, an error status, a broken body, or the abort.
LoadFails ==
    /\ c.pc \in {"load", "answered"}
    /\ fallback
    /\ UNCHANGED <<table, routed, clock, used, started>>

\* How the gate sees a confidence under a set of rules.
extractionUnder(rs, failClosed, t, confidence) ==
    [failClosed |-> failClosed,
     enabled    |-> t \in DOMAIN rs /\ rs[t].enabled,
     meetsMin   |-> t \in DOMAIN rs /\ confidence >= rs[t].minConfidence,
     low        |-> FALSE]

Route ==
    /\ c.pc = "decide"
    /\ \E t \in Types, confidence \in Confidences :
          routed' = [type |-> t, confidence |-> confidence,
                     tags |-> routeLifecycleTags(
                                  extractionUnder(c.rules, c.failClosed, t, confidence),
                                  FALSE),
                     asked |-> c.asked, failed |-> c.failed]
    /\ c' = IdleC
    /\ UNCHANGED <<table, cache, loadedAt, clock, used, started>>

WorkerRestart ==
    /\ used.restarts < MaxStops
    /\ used' = [used EXCEPT !.restarts = @ + 1]
    /\ cache' = None
    /\ loadedAt' = 0
    /\ c' = IdleC
    /\ routed' = None
    /\ started' = clock
    /\ UNCHANGED <<table, clock>>

-----------------------------------------------------------------------------
\* A request is aborted before more than Timeout ticks have passed.
Tick ==
    /\ clock < MaxClock
    /\ c.pc \in {"load", "answered"} => clock - c.asked < Timeout
    /\ clock' = clock + 1
    /\ UNCHANGED <<table, worker, used>>

Step ==
    \/ reconcileMissingRules
    \/ ApiStop
    \/ \E a \in Admins : SaveBegin(a) \/ SaveRow(a) \/ SaveEnd(a)
    \/ getRules
    \/ listRules
    \/ LoadOk
    \/ LoadFails
    \/ Route
    \/ WorkerRestart
    \/ Tick

Next == Step /\ hist' = hist \cup {[at |-> clock', rules |-> rules']}

Spec == Init /\ [][Next]_vars

-----------------------------------------------------------------------------
(* Properties. *)

TagsUnder(rs) ==
    routeLifecycleTags(extractionUnder(rs, FALSE, routed.type, routed.confidence), FALSE)

(***************************************************************************)
(* Every decision is the one that some table calls for which was in force: *)
(* within the last TTL if the worker could load one, otherwise since this  *)
(* process started, and if it never loaded any, nothing is approved        *)
(* (AutoApproveConfig with routeLifecycleTags).                            *)
(***************************************************************************)
RoutedByRecentRules ==
    routed # None =>
        \/ \E h \in hist :
              /\ h.at \geq started
              /\ ~routed.failed => h.at + TTL \geq routed.asked
              /\ routed.tags = TagsUnder(h.rules)
        \/ /\ routed.failed /\ cache = None
           /\ "ai-approved" \notin routed.tags

(***************************************************************************)
(* A save replaces the rules as a whole: while none is in progress all     *)
(* rows are of the same save (docs/api-reference.md: "transactional").     *)
(***************************************************************************)
SavesAreTransactional ==
    (\A a \in Admins : saves[a] = NoSave) =>
        \A t, u \in DOMAIN stamp : stamp[t] = stamp[u]
=============================================================================
