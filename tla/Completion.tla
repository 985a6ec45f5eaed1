----------------------------- MODULE Completion -----------------------------
(***************************************************************************)
(* One structured answer of a local LLM.  OllamaBackend.complete asks, and *)
(* tries what it can to make the reply fit the schema (a text cut off in   *)
(* the middle is closed, a garbled key is given the name it starts like)   *)
(* before it asks again.  AnthropicBackend.complete asks once.             *)
(*                                                                         *)
(* A reply is a sequence of characters of which only those matter that     *)
(* make JSON's structure, and the object read from it is the set of its    *)
(* top-level keys, each holding a value of its own.  What the parser says  *)
(* of a text whose brackets close is left open.                            *)
(***************************************************************************)
EXTENDS Naturals, Sequences, SequencesExt, FiniteSetsExt, Functions

CONSTANTS
    Fields,       \* the keys of the schema, in its order, all required
    Garbled,      \* other keys a model writes
    Prefix,       \* what a key says before its first "_"
    MaxAttempts,  \* MAX_ATTEMPTS
    MaxLength,    \* bound: characters of a reply
    Null

VARIABLES
    backend,  \* "ollama" or "anthropic" (createBackend)
    attempt,  \* requests answered or under way
    raw,      \* the reply, with fences and document markers stripped (cleanJson)
    keys,     \* the object it stands for: key -> value
    outcome,  \* "asking", "parsing", "done", or the error: "unfit", "request"
    result    \* the object returned, or Null

vars == <<backend, attempt, raw, keys, outcome, result>>

Characters == {"{", "}", "[", "]", "quote", "\\", ",", "x"}

AllKeys == ToSet(Fields) \cup Garbled
Objects == {[k \in ks |-> k] : ks \in SUBSET AllKeys}

-----------------------------------------------------------------------------
(* repairTruncatedJson *)

Opening == [c \in {"}", "]"} |-> IF c = "}" THEN "{" ELSE "["]
Closing == [c \in {"{", "["} |-> IF c = "{" THEN "}" ELSE "]"]

\* One character of the walk: inside a string, after a backslash, brackets left open.
Walked(w, c) ==
    CASE w.escape -> [w EXCEPT !.escape = FALSE]
      [] ~w.escape /\ w.inString -> [w EXCEPT !.escape = (c = "\\"), !.inString = (c # "quote")]
      [] ~w.escape /\ ~w.inString /\ c = "quote" -> [w EXCEPT !.inString = TRUE]
      [] ~w.escape /\ ~w.inString /\ c \in {"{", "["} -> [w EXCEPT !.stack = Append(@, c)]
      [] ~w.escape /\ ~w.inString /\ c \in {"}", "]"} ->
            IF w.stack # <<>> /\ Last(w.stack) = Opening[c] THEN [w EXCEPT !.stack = Front(@)]
            ELSE [w EXCEPT !.mismatch = TRUE]
      [] OTHER -> w

AtStart == [inString |-> FALSE, escape |-> FALSE, stack |-> <<>>, mismatch |-> FALSE]

Walk(text) ==
    LET after[n \in 0..Len(text)] ==
            IF n = 0 THEN AtStart ELSE Walked(after[n - 1], text[n])
    IN  after[Len(text)]

Closed(text) == LET w == Walk(text) IN ~w.mismatch /\ ~w.inString /\ w.stack = <<>>

\* Mutant: brackets are closed in the order they were opened in.
repairInOrder(text) ==
    LET w == Walk(text)
        unquoted == IF w.inString THEN Append(text, "quote") ELSE text
        body == IF unquoted # <<>> /\ Last(unquoted) = "," THEN Front(unquoted) ELSE unquoted
    IN  IF w.mismatch \/ Closed(text) THEN text
        ELSE body \o [i \in DOMAIN w.stack |-> Closing[w.stack[i]]]

repairTruncatedJson(text) ==
    LET w == Walk(text)
        unquoted == IF w.inString THEN Append(text, "quote") ELSE text
        body == IF unquoted # <<>> /\ Last(unquoted) = "," THEN Front(unquoted) ELSE unquoted
    IN  IF w.mismatch \/ Closed(text) THEN text
        ELSE body \o Reverse([i \in DOMAIN w.stack |-> Closing[w.stack[i]]])

-----------------------------------------------------------------------------
(* recoverKeysForSchema *)

SoleCandidate(object, f) ==
    LET like == {k \in DOMAIN object \ ToSet(Fields) : Prefix[k] = Prefix[f]}
    IN  IF Cardinality(like) = 1 THEN CHOOSE k \in like : TRUE ELSE Null

Recover(object, f) ==
    LET k == SoleCandidate(object, f) IN
    IF f \in DOMAIN object \/ k = Null THEN object
    ELSE [g \in (DOMAIN object \ {k}) \cup {f} |-> IF g = f THEN object[k] ELSE object[g]]

recoverKeysForSchema(object) ==
    LET after[n \in 0..Len(Fields)] ==
            IF n = 0 THEN object ELSE Recover(after[n - 1], Fields[n])
    IN  after[Len(Fields)]

Valid(object) == ToSet(Fields) \subseteq DOMAIN object

\* What parseWithRecovery may come to: the object as it is, with keys recovered, or an error.
\* A text that does not close is no JSON; one that does may be none.
parseWithRecovery(text, object) ==
    IF ~Closed(text) \/ text = <<>> THEN {Null}
    ELSE LET best == IF Valid(object) THEN object ELSE recoverKeysForSchema(object)
         IN  {Null, IF Valid(best) THEN best ELSE Null}

-----------------------------------------------------------------------------
Init ==
    /\ backend \in {"ollama", "anthropic"}
    /\ attempt = 1
    /\ raw = <<>>
    /\ keys = <<>>
    /\ outcome = "asking"
    /\ result = Null

Reply ==
    /\ outcome = "asking" /\ backend = "ollama"
    /\ raw' \in BoundedSeq(Characters, MaxLength)
    /\ keys' \in Objects
    /\ outcome' = "parsing"
    /\ UNCHANGED <<backend, attempt, result>>

\* The request fails or takes longer than completeTimeoutMs: not tried again.
RequestFails ==
    /\ outcome = "asking"
    /\ outcome' = "request"
    /\ UNCHANGED <<backend, attempt, raw, keys, result>>

\* Neither the reply nor its repaired form fits: ask again, or give the first error.
AskAgain ==
    /\ outcome = "parsing"
    /\ Null \in parseWithRecovery(raw, keys)
    /\ attempt' = IF attempt < MaxAttempts THEN attempt + 1 ELSE attempt
    /\ outcome' = IF attempt < MaxAttempts THEN "asking" ELSE "unfit"
    /\ raw' = <<>> /\ keys' = <<>>
    /\ UNCHANGED <<backend, result>>

\* The reply fits, or its repaired form does.
Accept ==
    /\ outcome = "parsing"
    /\ result' \in (parseWithRecovery(raw, keys) \cup
                    parseWithRecovery(repairTruncatedJson(raw), keys)) \ {Null}
    /\ outcome' = "done"
    /\ UNCHANGED <<backend, attempt, raw, keys>>

\* Made to use the tool, the model may still answer without it or beside the schema.
ToolUse ==
    /\ outcome = "asking" /\ backend = "anthropic"
    /\ keys' \in Objects
    /\ result' \in {Null, IF Valid(keys') THEN keys' ELSE Null}
    /\ outcome' = IF result' = Null THEN "unfit" ELSE "done"
    /\ UNCHANGED <<backend, attempt, raw>>

Next == Reply \/ RequestFails \/ AskAgain \/ Accept \/ ToolUse

Spec == Init /\ [][Next]_vars

-----------------------------------------------------------------------------
TypeOK ==
    /\ attempt \in 1..MaxAttempts
    /\ outcome \in {"asking", "parsing", "done", "unfit", "request"}
    /\ result # Null <=> outcome = "done"

\* Cut off after a backslash, a string cannot be closed by a quotation mark.
CutInEscape(text) == Walk(text).escape

\* A reply is rescued, not rewritten: the repair only ever completes the text (but for a
\* comma left hanging), after it all strings and brackets close, and no value the model
\* filed under a key of the schema is moved (repairTruncatedJson, recoverKeysForSchema).
RescueKeepsTheReply ==
    /\ LET repaired == repairTruncatedJson(raw) IN
        repaired # raw =>
            /\ IsPrefix(raw, repaired) \/ (Last(raw) = "," /\ IsPrefix(Front(raw), repaired))
            /\ Closed(repaired) \/ CutInEscape(raw)
    /\ LET object == recoverKeysForSchema(keys) IN
        \A f \in ToSet(Fields) \cap DOMAIN keys : f \in DOMAIN object /\ object[f] = f
=============================================================================
