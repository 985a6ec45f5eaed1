------------------------------- MODULE Services -------------------------------
(***************************************************************************)
(* The worker's loop, the reply of an LLM, an answer on its way to the     *)
(* page, the live counts and the list of the inbox.  These parts share no  *)
(* state: a behaviour picks one part and takes its steps, and the others   *)
(* stay as they began.                                                     *)
(***************************************************************************)
EXTENDS WorkerLoop, FiniteSets

CONSTANTS
    ContextSize, RerankTopK, MaxResults, MaxHits, MaxDeltas, MaxAsks,  \* AnswerStream
    MaxMoves, MaxDrops, MaxSigns,                                     \* LiveCounts
    InboxDocs, PageSize, Concurrency,                                 \* ReviewList
    Fields, Garbled, Prefix, MaxAttempts, MaxLength                   \* Completion

VARIABLES part,
    asked, run, wire, end, shown, stopped, srv, job, reply,
    place, polled, cache, me, started, timer, live, conn, blocked, left,
    pending, pages, loading, selected, bulk, calm,
    backend, attempt, raw, keys, outcome, result

loop == <<items, closed, pc, doc, poll>>
answer == <<asked, run, wire, end, shown, stopped, srv, job, reply>>
counts == <<place, polled, cache, me, started, timer, live, conn, blocked, left>>
inbox == <<pending, pages, loading, selected, bulk, calm>>
llm == <<backend, attempt, raw, keys, outcome, result>>
all == <<part, loop, answer, counts, inbox, llm>>

Ask == INSTANCE AnswerStream
Live == INSTANCE LiveCounts
List == INSTANCE ReviewList WITH Docs <- InboxDocs
Llm == INSTANCE Completion

\* ANSWER_CONTEXT_SIZE is 15 and RAG_RERANK_TOP_K between 1 and 50; no number of a question is null.
ASSUME AnswerAssumption ==
    /\ {ContextSize, RerankTopK} \subseteq Nat \ {0} /\ {MaxResults, MaxHits, MaxAsks} \subseteq Nat
    /\ Null \notin Nat

\* No connection is null.
ASSUME ConnectionAssumption == Null \notin Live!Connections

\* Documents are finitely many, by number the newest first, a page has room, and a page on
\* its way is not null.
ASSUME InboxAssumption ==
    /\ IsFiniteSet(InboxDocs) /\ InboxDocs \subseteq Nat
    /\ PageSize \in Nat \ {0}
    /\ Null \notin List!Loads

\* MAX_ATTEMPTS is 2; the schema is a list of keys.
ASSUME SchemaAssumption == MaxAttempts \in Nat \ {0} /\ Fields \in Seq(STRING)

\* The parts not picked begin in one state each.
SumInit ==
    /\ part \in {"loop", "answer", "counts", "inbox", "llm"}
    /\ Init /\ Ask!Init /\ Live!Init /\ List!Init /\ Llm!Init
    /\ part # "counts" => ~blocked
    /\ part # "inbox" => pending = {}
    /\ part # "llm" => backend = "ollama"

In(p) == part = p /\ part' = part
Loop(A) == In("loop") /\ A /\ UNCHANGED <<answer, counts, inbox, llm>>
Answer(A) == In("answer") /\ A /\ UNCHANGED <<loop, counts, inbox, llm>>
Counts(A) == In("counts") /\ A /\ UNCHANGED <<loop, answer, inbox, llm>>

SumNext ==
    \/ Loop(Next)
    \/ Answer(Ask!Next)
    \/ Counts(Live!Next)
    \/ In("inbox") /\ List!Next /\ UNCHANGED <<loop, answer, counts, llm>>
    \/ In("llm") /\ Llm!Next /\ UNCHANGED <<loop, answer, counts, inbox>>

SumSpec == SumInit /\ [][SumNext]_all

\* The loop as in WorkerLoop; an answer goes on by itself; a connection's poll runs on a
\* timer, what it sent is read, a broken one is tried again, the cached number expires,
\* and each query of the bar repeats itself.
FairSumSpec ==
    /\ SumSpec
    /\ WF_all(Loop(Consumer)) /\ WF_all(Loop(PollNext))
    /\ WF_all(Answer(Ask!Progress))
    /\ WF_all(Counts(Live!Poll)) /\ WF_all(Counts(Live!onmessage)) /\ WF_all(Counts(Live!Retry))
    /\ WF_all(Counts(Live!CacheExpires))
    /\ \A k \in Live!Counts : WF_all(Counts(Live!Refetch(k)))

PartsTypeOK == TypeOK /\ Ask!TypeOK /\ Live!TypeOK /\ List!TypeOK /\ Llm!TypeOK

ShownIsTheAnswer == Ask!ShownIsTheAnswer
SourcesWereRead == Ask!SourcesWereRead
AnswerSettles == Ask!AnswerSettles
BarSettles == Live!BarSettles
NothingWithheld == List!NothingWithheld
RescueKeepsTheReply == Llm!RescueKeepsTheReply
=============================================================================
