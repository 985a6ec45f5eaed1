------------------------- MODULE AutoApproveProofs -------------------------
(***************************************************************************)
(* Type correctness of AutoApprove, and that every decision follows rules  *)
(* that were in force recently.                                            *)
(***************************************************************************)
EXTENDS AutoApprove, TLAPS

(***************************************************************************)
(* RoutedByRecentRules speaks of the decision only.  The rules behind it   *)
(* have travelled from the table to an answer, to the cache and to the     *)
(* consumer; at each station they are a table of hist, and not older than  *)
(* the time the station goes by.                                           *)
(***************************************************************************)
TableRecorded == [at |-> clock, rules |-> rules] \in hist

CacheSound ==
    cache # None =>
        /\ loadedAt \geq started
        /\ \E h \in hist : h.rules = cache /\ h.at \geq loadedAt

ConsumerSound ==
    c.pc # "idle" => routed = None /\ c.asked \geq started

LoadSound == c.pc \in {"load", "answered"} => ~c.failed /\ ~c.failClosed

AnswerSound ==
    c.pc = "answered" => \E h \in hist : h.rules = c.rules /\ h.at \geq c.asked

DecideSound ==
    c.pc = "decide" =>
        \/ \E h \in hist :
              /\ h.rules = c.rules
              /\ h.at \geq started
              /\ ~c.failed => h.at + TTL \geq c.asked
              /\ ~c.failClosed
        \/ c.failed /\ cache = None /\ c.failClosed

IdleSound == c.pc = "idle" => c = IdleC

Sound == TableRecorded /\ CacheSound /\ ConsumerSound /\ LoadSound /\ AnswerSound
            /\ DecideSound /\ IdleSound /\ RoutedByRecentRules

Inv == TypeOK /\ Sound

-----------------------------------------------------------------------------
(* Sets of rules. *)

\* A set of rules is a function from some of the types.
LEMMA RuleSets ==
    ASSUME NEW S \in SUBSET Types, NEW f \in [S -> Rule]
    PROVE  f \in RuleSet
  BY DEF RuleSet

\* What a table looks like (parseRuleSet, listRules).
LEMMA RuleSetDomain ==
    ASSUME NEW f \in RuleSet
    PROVE  DOMAIN f \subseteq Types /\ f \in [DOMAIN f -> Rule]
  BY DEF RuleSet

\* A payload that passed its schema is a table with a row for every type.
LEMMA Payloads == Payload \subseteq [Types -> Rule] /\ None \notin Payload
  <1>1. Payload \subseteq [Types -> Rule] BY DEF Payload, Rule
  <1> QED BY <1>1, RuleSets, NoneAssumption

LEMMA Defaults == DefaultRule \in Rule /\ buildFailClosedRuleSet \in RuleSet
  <1>1. DefaultRule \in Rule BY DEF DefaultRule, Rule
  <1>2. buildFailClosedRuleSet \in [Types -> Rule]
    BY DEF buildFailClosedRuleSet, Rule
  <1> QED BY <1>1, <1>2, RuleSets

\* The gate only hands out tags, and approves nothing when it is closed.
LEMMA Gate ==
    ASSUME NEW rs \in RuleSet, NEW closed \in BOOLEAN,
           NEW t \in Types, NEW confidence \in Confidences
    PROVE  /\ routeLifecycleTags(extractionUnder(rs, closed, t, confidence), FALSE)
                \subseteq Tag
           /\ closed => "ai-approved" \notin
                routeLifecycleTags(extractionUnder(rs, closed, t, confidence), FALSE)
  <1> DEFINE x == extractionUnder(rs, closed, t, confidence)
  <1>1. /\ {"ai-pending"} \subseteq Tag
        /\ {"ai-approved", "ai-auto-approved"} \subseteq Tag
    BY DEF Tag, LIFECYCLE_TAGS, AUXILIARY_TAGS
  <1>2. ~x.low BY DEF extractionUnder
  <1>3. pending(x) = {"ai-pending"} BY <1>2 DEF pending
  <1>4. routeLifecycleTags(x, FALSE) \in {{"ai-pending"}, {"ai-approved", "ai-auto-approved"}}
    BY <1>3 DEF routeLifecycleTags
  <1>5. ASSUME closed
        PROVE  routeLifecycleTags(x, FALSE) = {"ai-pending"}
    <2>1. x.failClosed BY <1>5 DEF extractionUnder
    <2> QED BY <1>3, <2>1 DEF routeLifecycleTags
  <1> QED BY <1>1, <1>4, <1>5

-----------------------------------------------------------------------------
(* Types. *)

Record == hist' = hist \cup {[at |-> clock', rules |-> rules']}

\* Recording the table keeps the history well-typed when the table and the clock are.
LEMMA RecordTyped ==
    ASSUME TypeOK, Record, rules' \in RuleSet, clock' \in Nat, clock' \geq clock
    PROVE  hist' \subseteq [at : 0 .. clock', rules : RuleSet]
  BY TimesAssumption DEF TypeOK, Record

THEOREM InitTyped == Init => TypeOK
  <1> SUFFICES ASSUME Init PROVE TypeOK OBVIOUS
  <1>1. rules \in [Seeded -> Rule] BY Defaults DEF Init
  <1>2. rules \in RuleSet BY <1>1, TypesAssumption, RuleSets
  <1>3. hist \subseteq [at : 0 .. clock, rules : RuleSet]
    BY <1>2 DEF Init
  <1>4. stamp \in [DOMAIN rules -> 0 .. MaxSaves] BY TimesAssumption DEF Init
  <1>5. saves \in [Admins -> [payload : Payload \cup {None}, left : SUBSET Types,
                              by : 0 .. MaxSaves]]
    BY TimesAssumption DEF Init, NoSave
  <1>6. c \in [pc : {"idle", "load", "answered", "decide"}, asked : 0 .. clock,
               rules : RuleSet \cup {None}, failClosed : BOOLEAN, failed : BOOLEAN]
    BY DEF Init, IdleC
  <1> QED
    BY <1>2, <1>3, <1>4, <1>5, <1>6, TimesAssumption DEF Init, TypeOK, NoSave, IdleC

\* The table, the clock and the consumer stay well-typed in every step.
THEOREM StepTyped == TypeOK /\ Step /\ Record => TypeOK'
  <1> SUFFICES ASSUME TypeOK, Step, Record PROVE TypeOK' OBVIOUS
  <1>0. clock \in Nat /\ MaxClock \in Nat BY TimesAssumption DEF TypeOK
  <1>1. CASE reconcileMissingRules
    <2>1. rules' \in [Types -> Rule]
      BY <1>1, Defaults, RuleSetDomain DEF reconcileMissingRules, TypeOK
    <2>2. rules' \in RuleSet BY <2>1, RuleSets
    <2>3. stamp' \in [Types -> 0 .. MaxSaves]
      BY <1>1, TimesAssumption DEF reconcileMissingRules, TypeOK
    <2>4. clock' = clock BY <1>1 DEF reconcileMissingRules
    <2>5. hist' \subseteq [at : 0 .. clock', rules : RuleSet]
      BY <2>2, <2>4, <1>0, RecordTyped
    <2> QED BY <1>1, <2>1, <2>2, <2>3, <2>5 DEF reconcileMissingRules, worker, TypeOK
  <1>2. CASE ApiStop
    <2>1. hist' \subseteq [at : 0 .. clock', rules : RuleSet]
      BY <1>2, <1>0, RecordTyped DEF ApiStop, TypeOK
    <2>2. saves' \in [Admins -> [payload : Payload \cup {None}, left : SUBSET Types,
                                 by : 0 .. MaxSaves]]
      BY <1>2, TimesAssumption DEF ApiStop, NoSave
    <2> QED BY <1>2, <2>1, <2>2, TimesAssumption DEF ApiStop, worker, TypeOK, NoSave
  <1>3. ASSUME NEW a \in Admins, SaveBegin(a) PROVE TypeOK'
    <2>1. hist' \subseteq [at : 0 .. clock', rules : RuleSet]
      BY <1>3, <1>0, RecordTyped DEF SaveBegin, TypeOK
    <2>2. PICK p \in Payload :
             saves' = [saves EXCEPT ![a] = [payload |-> p, left |-> Types,
                                            by |-> used.saves + 1]]
      BY <1>3 DEF SaveBegin
    <2>3. used.saves + 1 \in 0 .. MaxSaves
      BY <1>3, TimesAssumption DEF SaveBegin, TypeOK
    <2>4. saves' \in [Admins -> [payload : Payload \cup {None}, left : SUBSET Types,
                                 by : 0 .. MaxSaves]]
      BY <2>2, <2>3 DEF TypeOK
    <2>5. used' \in [saves : 0 .. MaxSaves, stops : 0 .. MaxStops, restarts : 0 .. MaxStops]
      BY <1>3, <2>3 DEF SaveBegin, TypeOK
    <2>6. \A b \in Admins :
             IF saves'[b].payload = None THEN saves'[b] = NoSave ELSE api' = "up"
      <3>1. p # None BY Payloads
      <3> QED BY <1>3, <2>2, <3>1 DEF SaveBegin, TypeOK
    <2> QED BY <1>3, <2>1, <2>4, <2>5, <2>6 DEF SaveBegin, worker, TypeOK
  <1>4. ASSUME NEW a \in Admins, SaveRow(a) PROVE TypeOK'
    <2>1. PICK t \in saves[a].left :
             /\ rules' = [rules EXCEPT ![t] = saves[a].payload[t]]
             /\ stamp' = [stamp EXCEPT ![t] = saves[a].by]
             /\ saves' = [saves EXCEPT ![a].left = @ \ {t}]
      BY <1>4 DEF SaveRow
    <2>2. saves[a].payload \in Payload /\ api = "up" /\ DOMAIN rules = Types
      <3>1. saves[a] # NoSave BY DEF NoSave
      <3>2. saves[a].payload # None BY <3>1 DEF TypeOK
      <3> QED BY <3>2 DEF TypeOK
    <2>3. t \in Types BY DEF TypeOK
    <2>4. rules' \in [Types -> Rule]
      <3>1. rules \in [Types -> Rule] BY <2>2, RuleSetDomain DEF TypeOK
      <3> QED BY <2>1, <2>2, <2>3, <3>1, Payloads
    <2>5. rules' \in RuleSet BY <2>4, RuleSets
    <2>6. hist' \subseteq [at : 0 .. clock', rules : RuleSet]
      BY <1>4, <1>0, <2>5, RecordTyped DEF SaveRow
    <2>7. stamp' \in [DOMAIN rules' -> 0 .. MaxSaves]
      BY <2>1, <2>2, <2>3, <2>4 DEF TypeOK
    <2>8. saves' \in [Admins -> [payload : Payload \cup {None}, left : SUBSET Types,
                                 by : 0 .. MaxSaves]]
      BY <2>1, <2>3 DEF TypeOK
    <2>9. \A b \in Admins :
             IF saves'[b].payload = None THEN saves'[b] = NoSave ELSE api' = "up"
      <3>1. saves[a].payload # None BY <2>2, Payloads
      <3> QED BY <1>4, <2>1, <2>2, <3>1 DEF SaveRow, TypeOK
    <2> QED
      BY <1>4, <2>2, <2>4, <2>5, <2>6, <2>7, <2>8, <2>9 DEF SaveRow, worker, TypeOK
  <1>5. ASSUME NEW a \in Admins, SaveEnd(a) PROVE TypeOK'
    <2>1. hist' \subseteq [at : 0 .. clock', rules : RuleSet]
      BY <1>5, <1>0, RecordTyped DEF SaveEnd, TypeOK
    <2>2. saves' \in [Admins -> [payload : Payload \cup {None}, left : SUBSET Types,
                                 by : 0 .. MaxSaves]]
      BY <1>5, TimesAssumption DEF SaveEnd, NoSave, TypeOK
    <2> QED BY <1>5, <2>1, <2>2 DEF SaveEnd, worker, TypeOK, NoSave
  <1>6. CASE getRules \/ listRules \/ LoadOk \/ LoadFails
    <2>1. /\ UNCHANGED <<table, clock, used, started>>
          /\ c' \in [pc : {"idle", "load", "answered", "decide"}, asked : 0 .. clock,
                     rules : RuleSet \cup {None}, failClosed : BOOLEAN, failed : BOOLEAN]
          /\ c'.pc \in {"answered", "decide"} <=> c'.rules # None
          /\ routed' \in {None, routed}
          /\ cache' \in RuleSet \cup {None}
          /\ loadedAt' \in 0 .. clock
      <3>1. CASE getRules
        <4>1. clock \in 0 .. clock /\ c.rules = None BY <3>1, <1>0 DEF getRules, TypeOK
        <4>2. CASE cache # None /\ clock - loadedAt \leq TTL
          <5>1. c' = [c EXCEPT !.pc = "decide", !.asked = clock, !.rules = cache]
            BY <3>1, <4>2 DEF getRules
          <5> QED BY <3>1, <4>1, <4>2, <5>1 DEF getRules, TypeOK
        <4>3. CASE ~(cache # None /\ clock - loadedAt \leq TTL)
          <5>1. c' = [c EXCEPT !.pc = "load", !.asked = clock]
            BY <3>1, <4>3 DEF getRules
          <5> QED BY <3>1, <4>1, <5>1 DEF getRules, TypeOK
        <4> QED BY <4>2, <4>3
      <3>2. CASE listRules BY <3>2, NoneAssumption DEF listRules, table, TypeOK
      <3>3. CASE LoadOk BY <3>3 DEF LoadOk, TypeOK
      <3>4. CASE LoadFails
        BY <3>4, Defaults, NoneAssumption DEF LoadFails, fallback, TypeOK
      <3> QED BY <1>6, <3>1, <3>2, <3>3, <3>4
    <2>2. hist' \subseteq [at : 0 .. clock', rules : RuleSet]
      BY <2>1, <1>0, RecordTyped DEF table, TypeOK
    <2> QED BY <2>1, <2>2 DEF table, TypeOK
  <1>7. CASE Route
    <2>1. c.rules \in RuleSet BY <1>7 DEF Route, TypeOK
    <2>2. PICK t \in Types, confidence \in Confidences :
             routed' = [type |-> t, confidence |-> confidence,
                        tags |-> routeLifecycleTags(
                                     extractionUnder(c.rules, c.failClosed, t, confidence),
                                     FALSE),
                        asked |-> c.asked, failed |-> c.failed]
      BY <1>7 DEF Route
    <2>3. routed' \in Decision
      <3>1. c.asked \in 0 .. MaxClock /\ c.failed \in BOOLEAN BY <1>0 DEF TypeOK
      <3>2. c.failClosed \in BOOLEAN BY DEF TypeOK
      <3>3. routeLifecycleTags(extractionUnder(c.rules, c.failClosed, t, confidence),
                               FALSE) \in SUBSET Tag
        BY <2>1, <3>2, Gate
      <3> QED BY <2>2, <3>1, <3>3 DEF Decision
    <2>4. hist' \subseteq [at : 0 .. clock', rules : RuleSet]
      BY <1>7, <1>0, RecordTyped DEF Route, table, TypeOK
    <2>5. /\ c' \in [pc : {"idle", "load", "answered", "decide"}, asked : 0 .. clock',
                     rules : RuleSet \cup {None}, failClosed : BOOLEAN, failed : BOOLEAN]
          /\ c'.pc \in {"answered", "decide"} <=> c'.rules # None
      BY <1>7, <1>0 DEF Route, IdleC
    <2> QED BY <1>7, <2>3, <2>4, <2>5 DEF Route, table, TypeOK
  <1>8. CASE WorkerRestart
    <2>1. hist' \subseteq [at : 0 .. clock', rules : RuleSet]
      BY <1>8, <1>0, RecordTyped DEF WorkerRestart, table, TypeOK
    <2>2. used' \in [saves : 0 .. MaxSaves, stops : 0 .. MaxStops, restarts : 0 .. MaxStops]
      BY <1>8, TimesAssumption DEF WorkerRestart, TypeOK
    <2> QED BY <1>8, <2>1, <2>2, <1>0 DEF WorkerRestart, table, IdleC, TypeOK
  <1>9. CASE Tick
    <2>1. clock' \in 0 .. MaxClock /\ clock' \geq clock BY <1>9, <1>0 DEF Tick, TypeOK
    <2>2. hist' \subseteq [at : 0 .. clock', rules : RuleSet]
      BY <1>9, <1>0, <2>1, RecordTyped DEF Tick, table, TypeOK
    <2>3. 0 .. clock \subseteq 0 .. clock' BY <1>0, <2>1
    <2> QED BY <1>9, <2>1, <2>2, <2>3 DEF Tick, table, worker, TypeOK
  <1> QED BY <1>1, <1>2, <1>3, <1>4, <1>5, <1>6, <1>7, <1>8, <1>9 DEF Step

\* The state stays well-typed: requests end with the API's process, and the
\* consumer has rules exactly while it has to decide.
THEOREM RulesTypeCorrect == Spec => []TypeOK
  <1>1. TypeOK /\ [Next]_vars => TypeOK'
    <2> SUFFICES ASSUME TypeOK, [Next]_vars PROVE TypeOK' OBVIOUS
    <2>1. CASE Next BY <2>1, StepTyped DEF Next, Record
    <2>2. CASE UNCHANGED vars BY <2>2 DEF vars, TypeOK
    <2> QED BY <2>1, <2>2
  <1> QED BY <1>1, InitTyped, PTL DEF Spec

-----------------------------------------------------------------------------
(* Decisions. *)

\* What the history vouches for, it vouches for ever: steps that leave the worker
\* alone keep its state sound.
LEMMA WorkerUntouched ==
    ASSUME Inv, Record, UNCHANGED worker
    PROVE  Sound'
  <1>1. hist \subseteq hist' BY DEF Record
  <1>2. TableRecorded' BY DEF TableRecorded, Record
  <1>3. CacheSound' BY <1>1 DEF Inv, Sound, CacheSound, worker
  <1>4. ConsumerSound' /\ LoadSound' /\ IdleSound'
    BY DEF Inv, Sound, ConsumerSound, LoadSound, IdleSound, worker
  <1>5. AnswerSound' BY <1>1 DEF Inv, Sound, AnswerSound, worker
  <1>6. DecideSound' BY <1>1 DEF Inv, Sound, DecideSound, worker
  <1>7. RoutedByRecentRules'
    BY <1>1 DEF Inv, Sound, RoutedByRecentRules, TagsUnder, worker
  <1> QED BY <1>2, <1>3, <1>4, <1>5, <1>6, <1>7 DEF Sound

\* getRules: rules from the cache are young enough, or a load begins.
LEMMA AskedSoundly ==
    ASSUME Inv, Record, getRules
    PROVE  Sound'
  <1>0. /\ clock \in Nat /\ loadedAt \in Nat /\ started \in Nat /\ started \leq clock
        /\ TTL \in Nat
        /\ \A h \in hist : h.at \in Nat
    BY TimesAssumption DEF Inv, TypeOK
  <1>1. hist \subseteq hist' /\ TableRecorded' BY DEF Record, TableRecorded
  <1>2. CacheSound' BY <1>1 DEF getRules, Inv, Sound, CacheSound
  <1>3. c = IdleC BY DEF getRules, Inv, Sound, IdleSound
  <1>4. /\ c' \in [pc : {"load", "decide"}, asked : {clock}, rules : {cache, None},
                   failClosed : {FALSE}, failed : {FALSE}]
        /\ c'.pc = "decide" =>
              cache # None /\ clock - loadedAt \leq TTL /\ c'.rules = cache
    BY <1>3 DEF getRules, IdleC
  <1>5. ConsumerSound' /\ LoadSound' /\ IdleSound' /\ AnswerSound'
    BY <1>0, <1>4 DEF getRules, ConsumerSound, LoadSound, IdleSound, AnswerSound
  <1>6. DecideSound'
    <2> SUFFICES ASSUME c'.pc = "decide"
                 PROVE  \E h \in hist' : /\ h.rules = c'.rules
                                         /\ h.at \geq started'
                                         /\ h.at + TTL \geq c'.asked
      BY <1>4 DEF DecideSound
    <2>1. PICK h \in hist : h.rules = cache /\ h.at \geq loadedAt
      BY <1>4 DEF Inv, Sound, CacheSound
    <2>2. loadedAt \geq started BY <1>4 DEF Inv, Sound, CacheSound
    <2>3. h.at \geq started /\ h.at + TTL \geq clock
      BY <1>0, <1>4, <2>1, <2>2
    <2>4. c'.asked = clock /\ c'.rules = cache /\ started' = started
      BY <1>4 DEF getRules
    <2> QED BY <1>1, <2>1, <2>3, <2>4
  <1>7. RoutedByRecentRules' BY DEF getRules, RoutedByRecentRules
  <1> QED BY <1>1, <1>2, <1>5, <1>6, <1>7 DEF Sound

\* listRules: the answer is the table of this moment, which is not before the question.
LEMMA AnsweredSoundly ==
    ASSUME Inv, Record, listRules
    PROVE  Sound'
  <1>1. hist \subseteq hist' /\ TableRecorded' BY DEF Record, TableRecorded
  <1>2. CacheSound' BY <1>1 DEF listRules, Inv, Sound, CacheSound
  <1>3. c' = [c EXCEPT !.pc = "answered", !.rules = rules] BY DEF listRules
  <1>4. /\ c'.pc = "answered" /\ c'.rules = rules
        /\ c'.asked = c.asked /\ c'.failed = c.failed /\ c'.failClosed = c.failClosed
    BY <1>3 DEF Inv, TypeOK
  <1>5. ConsumerSound' /\ LoadSound' /\ IdleSound' /\ DecideSound'
    BY <1>4 DEF listRules, Inv, Sound, ConsumerSound, LoadSound, IdleSound, DecideSound
  <1>6. AnswerSound'
    <2>1. [at |-> clock, rules |-> rules] \in hist BY DEF Inv, Sound, TableRecorded
    <2>2. clock \geq c.asked BY TimesAssumption DEF Inv, TypeOK
    <2> QED BY <1>1, <1>4, <2>1, <2>2 DEF AnswerSound
  <1>7. RoutedByRecentRules'
    BY DEF listRules, Inv, Sound, ConsumerSound, RoutedByRecentRules
  <1> QED BY <1>1, <1>2, <1>5, <1>6, <1>7 DEF Sound

\* The answer goes into the cache, dated by its question.
LEMMA LoadedSoundly ==
    ASSUME Inv, Record, LoadOk
    PROVE  Sound'
  <1>0. /\ c.asked \in Nat /\ started \in Nat /\ TTL \in Nat
        /\ \A h \in hist : h.at \in Nat
    BY TimesAssumption DEF Inv, TypeOK
  <1>1. hist \subseteq hist' /\ TableRecorded' BY DEF Record, TableRecorded
  <1>2. PICK h \in hist : h.rules = c.rules /\ h.at \geq c.asked
    BY DEF LoadOk, Inv, Sound, AnswerSound
  <1>3. c.asked \geq started /\ routed = None
    BY DEF LoadOk, Inv, Sound, ConsumerSound
  <1>4. /\ c'.pc = "decide" /\ c'.rules = c.rules
        /\ c'.asked = c.asked /\ c'.failed = c.failed /\ c'.failClosed = c.failClosed
        /\ cache' = c.rules /\ loadedAt' = c.asked
        /\ started' = started /\ routed' = routed
    BY DEF LoadOk, Inv, TypeOK
  <1>5. CacheSound' BY <1>1, <1>2, <1>3, <1>4 DEF CacheSound
  <1>6. ConsumerSound' /\ LoadSound' /\ IdleSound' /\ AnswerSound'
    BY <1>3, <1>4 DEF ConsumerSound, LoadSound, IdleSound, AnswerSound
  <1>7. DecideSound'
    <2>1. h.at \geq started /\ h.at + TTL \geq c.asked BY <1>0, <1>2, <1>3
    <2>2. ~c'.failClosed BY <1>4 DEF LoadOk, Inv, Sound, LoadSound
    <2> QED BY <1>1, <1>2, <1>4, <2>1, <2>2 DEF DecideSound
  <1>8. RoutedByRecentRules' BY <1>3, <1>4 DEF RoutedByRecentRules
  <1> QED BY <1>1, <1>5, <1>6, <1>7, <1>8 DEF Sound

\* A load that fails falls back to what this process has loaded, or closes the gate.
LEMMA FailedSoundly ==
    ASSUME Inv, Record, LoadFails
    PROVE  Sound'
  <1>0. /\ loadedAt \in Nat /\ started \in Nat
        /\ \A h \in hist : h.at \in Nat
    BY TimesAssumption DEF Inv, TypeOK
  <1>1. hist \subseteq hist' /\ TableRecorded' BY DEF Record, TableRecorded
  <1>2. /\ c'.pc = "decide" /\ c'.failed = TRUE /\ c'.asked = c.asked
        /\ c'.rules = IF cache # None THEN cache ELSE buildFailClosedRuleSet
        /\ c'.failClosed = (cache = None)
        /\ UNCHANGED <<cache, loadedAt, started, routed>>
    BY DEF LoadFails, fallback, Inv, TypeOK
  <1>3. CacheSound' BY <1>1, <1>2 DEF Inv, Sound, CacheSound
  <1>4. ConsumerSound' /\ LoadSound' /\ IdleSound' /\ AnswerSound'
    BY <1>2 DEF LoadFails, Inv, Sound, ConsumerSound, LoadSound, IdleSound, AnswerSound
  <1>5. DecideSound'
    <2>1. CASE cache = None BY <1>2, <2>1 DEF DecideSound
    <2>2. CASE cache # None
      <3>1. PICK h \in hist : h.rules = cache /\ h.at \geq loadedAt
        BY <2>2 DEF Inv, Sound, CacheSound
      <3>2. h.at \geq started BY <1>0, <2>2, <3>1 DEF Inv, Sound, CacheSound
      <3> QED BY <1>1, <1>2, <2>2, <3>1, <3>2 DEF DecideSound
    <2> QED BY <2>1, <2>2
  <1>6. RoutedByRecentRules'
    BY <1>2 DEF LoadFails, Inv, Sound, ConsumerSound, RoutedByRecentRules
  <1> QED BY <1>1, <1>3, <1>4, <1>5, <1>6 DEF Sound

\* The gate decides by the rules the consumer holds.
LEMMA DecidedSoundly ==
    ASSUME Inv, Record, Route
    PROVE  Sound'
  <1>1. hist \subseteq hist' /\ TableRecorded' BY DEF Record, TableRecorded
  <1>2. CacheSound' BY <1>1 DEF Route, Inv, Sound, CacheSound
  <1>3. c' = IdleC /\ c'.pc = "idle" BY DEF Route, IdleC
  <1>4. ConsumerSound' /\ LoadSound' /\ IdleSound' /\ AnswerSound' /\ DecideSound'
    BY <1>3 DEF ConsumerSound, LoadSound, IdleSound, AnswerSound, DecideSound
  <1>5. RoutedByRecentRules'
    <2>1. PICK t \in Types, confidence \in Confidences :
             routed' = [type |-> t, confidence |-> confidence,
                        tags |-> routeLifecycleTags(
                                     extractionUnder(c.rules, c.failClosed, t, confidence),
                                     FALSE),
                        asked |-> c.asked, failed |-> c.failed]
      BY DEF Route
    <2>2. /\ routed'.type = t /\ routed'.confidence = confidence
          /\ routed'.asked = c.asked /\ routed'.failed = c.failed
          /\ routed'.tags = routeLifecycleTags(
                                extractionUnder(c.rules, c.failClosed, t, confidence),
                                FALSE)
      BY <2>1
    <2>3. started' = started /\ cache' = cache BY DEF Route
    <2>4. c.rules \in RuleSet BY DEF Route, Inv, TypeOK
    <2>5. CASE \E h \in hist : /\ h.rules = c.rules
                               /\ h.at \geq started
                               /\ ~c.failed => h.at + TTL \geq c.asked
                               /\ ~c.failClosed
      <3>1. PICK h \in hist : /\ h.rules = c.rules
                              /\ h.at \geq started
                              /\ ~c.failed => h.at + TTL \geq c.asked
                              /\ ~c.failClosed
        BY <2>5
      <3>2. c.failClosed = FALSE BY <3>1 DEF Inv, TypeOK
      <3>3. routed'.tags =
              routeLifecycleTags(extractionUnder(h.rules, FALSE, t, confidence), FALSE)
        BY <2>2, <3>1, <3>2
      <3> QED BY <1>1, <2>2, <2>3, <3>1, <3>3 DEF RoutedByRecentRules, TagsUnder
    <2>6. CASE c.failed /\ cache = None /\ c.failClosed
      BY <2>2, <2>3, <2>4, <2>6, Gate DEF RoutedByRecentRules
    <2> QED BY <2>5, <2>6 DEF Route, Inv, Sound, DecideSound
  <1> QED BY <1>1, <1>2, <1>4, <1>5 DEF Sound

\* A restart forgets the rules together with the decision.
LEMMA RestartedSoundly ==
    ASSUME Record, WorkerRestart
    PROVE  Sound'
  BY DEF WorkerRestart, IdleC, Record, Sound, TableRecorded, CacheSound, ConsumerSound,
         LoadSound, IdleSound, AnswerSound, DecideSound, RoutedByRecentRules

THEOREM InitInv == Init => Inv
  <1> SUFFICES ASSUME Init PROVE Sound BY InitTyped DEF Inv
  <1>1. TableRecorded BY DEF Init, TableRecorded
  <1> QED BY <1>1 DEF Init, IdleC, Sound, CacheSound, ConsumerSound, LoadSound, IdleSound,
                      AnswerSound, DecideSound, RoutedByRecentRules

THEOREM NextInv == Inv /\ [Next]_vars => Inv'
  <1> SUFFICES ASSUME Inv, [Next]_vars PROVE Inv' OBVIOUS
  <1>1. CASE Next
    <2>1. Record /\ Step BY <1>1 DEF Next, Record
    <2>2. TypeOK' BY <2>1, StepTyped DEF Inv
    <2>3. Sound'
      <3>1. CASE reconcileMissingRules \/ ApiStop \/ Tick
        BY <2>1, <3>1, WorkerUntouched DEF reconcileMissingRules, ApiStop, Tick
      <3>2. CASE \E a \in Admins : SaveBegin(a) \/ SaveRow(a) \/ SaveEnd(a)
        BY <2>1, <3>2, WorkerUntouched DEF SaveBegin, SaveRow, SaveEnd
      <3>3. CASE getRules BY <2>1, <3>3, AskedSoundly
      <3>4. CASE listRules BY <2>1, <3>4, AnsweredSoundly
      <3>5. CASE LoadOk BY <2>1, <3>5, LoadedSoundly
      <3>6. CASE LoadFails BY <2>1, <3>6, FailedSoundly
      <3>7. CASE Route BY <2>1, <3>7, DecidedSoundly
      <3>8. CASE WorkerRestart BY <2>1, <3>8, RestartedSoundly
      <3> QED BY <2>1, <3>1, <3>2, <3>3, <3>4, <3>5, <3>6, <3>7, <3>8 DEF Step
    <2> QED BY <2>2, <2>3 DEF Inv
  <1>2. CASE UNCHANGED vars
    BY <1>2 DEF vars, Inv, TypeOK, Sound, TableRecorded, CacheSound, ConsumerSound,
                LoadSound, IdleSound, AnswerSound, DecideSound, RoutedByRecentRules, TagsUnder
  <1> QED BY <1>1, <1>2

\* No document is ever routed by rules that were not in force: the last TTL's while
\* the API answers, this process's own otherwise, none before the first load.
THEOREM DecisionsFollowRecentRules == Spec => []RoutedByRecentRules
  <1>1. Inv => RoutedByRecentRules BY DEF Inv, Sound
  <1> QED BY <1>1, InitInv, NextInv, PTL DEF Spec
=============================================================================
