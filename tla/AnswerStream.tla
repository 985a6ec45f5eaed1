---------------------------- MODULE AnswerStream ----------------------------
(***************************************************************************)
(* A question from the page "Ask AI" to the answer on the screen.  The API *)
(* streams its answer as records (meta, chunk, final, error) while it      *)
(* searches Paperless, retrieves chunks, builds the prompt and listens to  *)
(* the LLM; the browser reads the records and shows them, and the user may *)
(* stop, ask again, or lose the connection at any point.                   *)
(*                                                                         *)
(* Texts are reduced to what the two sides decide by.  A chunk of the      *)
(* index is the document it belongs to.  What the server does after the    *)
(* browser has aborted a request has no reader and is left out.            *)
(***************************************************************************)
EXTENDS Naturals, Sequences, SequencesExt

CONSTANTS
    Docs,         \* documents of Paperless and of the index
    Null,         \* JavaScript's null
    ContextSize,  \* ANSWER_CONTEXT_SIZE
    RerankTopK,   \* rerankTopK
    MaxResults,   \* bound: documents a search of Paperless finds
    MaxHits,      \* bound: chunks a vector search finds
    MaxDeltas,    \* bound: text deltas the LLM streams
    MaxAsks       \* bound: questions asked

VARIABLES
    asked,    \* number of the latest question
    run,      \* browser, useAnswerStream.run: "none", "fetching", "reading", "errorBody"
    wire,     \* records on their way, each with the question it answers
    end,      \* the response: "open", "closed", or "broken" for the reader
    shown,    \* browser: answer, meta, citations, errorText, streaming
    stopped,  \* the user has stopped the latest question
    srv,      \* API: stage of streamAnswerEvents
    job,      \* API: its local variables
    reply     \* API: the last response of POST /ai/answer

vars == <<asked, run, wire, end, shown, stopped, srv, job, reply>>

Blank == [answer |-> <<>>, meta |-> Null, citations |-> <<>>, errorText |-> Null,
          streaming |-> FALSE]
NoJob == [results |-> <<>>, chunks |-> <<>>, prompt |-> <<>>, deltas |-> 0]

Init ==
    /\ asked = 0
    /\ run = "none"
    /\ wire = <<>>
    /\ end = "closed"
    /\ shown = Blank
    /\ stopped = FALSE
    /\ srv = "done"
    /\ job = NoJob
    /\ reply = Null

DocLists(n) == {s \in BoundedSeq(Docs, n) : IsInjective(s)}

-----------------------------------------------------------------------------
(* Retrieval, promotion and citations *)

\* First occurrences only, in order, of the documents of a set.
rankedUniqueDocIds(s, S) ==
    LET out[n \in 0..Len(s)] ==
            IF n = 0 THEN <<>>
            ELSE IF s[n] \in S \ ToSet(out[n - 1]) THEN Append(out[n - 1], s[n]) ELSE out[n - 1]
    IN  out[Len(s)]

Cut(s, n) == SubSeq(s, 1, IF n < Len(s) THEN n ELSE Len(s))

\* The reranker orders the hits anew; when it fails the order of the search stays,
\* when the embedder or Qdrant fails there are no chunks.
retrieveChunksForQuestion(hits) ==
    {<<>>} \cup {Cut(ranked, RerankTopK) : ranked \in
                   {[i \in DOMAIN hits |-> hits[p[i]]] :
                       p \in {q \in [DOMAIN hits -> DOMAIN hits] : IsInjective(q)}}}

\* Documents with chunks first, then those of the structural search; a document that
\* only the index knows is read from Paperless, and skipped when that fails.
promotePromptResults(structural, chunks, unreadable) ==
    LET ranked == rankedUniqueDocIds(chunks, ToSet(structural) \cup (Docs \ unreadable))
        rest == rankedUniqueDocIds(structural, Docs \ ToSet(ranked))
    IN  Cut(ranked \o rest, ContextSize)

\* Mutant: a source is listed as often as it is cited, whether retrieved or not.
resolveAnything(cited, results) == cited

resolveCitations(cited, results) == rankedUniqueDocIds(cited, ToSet(results))

\* An answer without a source that does not deny to have one gets all candidates.
citationsFor(kind, cited, among, fallback) ==
    LET listed == IF kind = "text" THEN resolveCitations(cited, among) ELSE <<>>
    IN  IF listed = <<>> /\ kind # "denial" THEN fallback ELSE listed

-----------------------------------------------------------------------------
(* AiController.answerStream *)

Rec(ev, text, cited) == [ev |-> ev, q |-> asked, text |-> text, citations |-> cited]

\* sse() and the end of the response in its finally block.
Send(recs) == wire' = wire \o recs /\ UNCHANGED end
SendLast(recs) == wire' = wire \o recs /\ end' = "closed"

browser == <<asked, run, shown, stopped, reply>>

\* A backend that cannot be built, a filter the LLM does not deliver, a call to
\* Paperless that fails: one error record.
Abandon ==
    /\ srv \in {"filter", "search", "retrieve", "prompt"}
    /\ SendLast(<<Rec("error", "failed", <<>>)>>)
    /\ srv' = "done"
    /\ UNCHANGED <<browser, job>>

FilterReady ==
    /\ srv = "filter"
    /\ srv' = "search"
    /\ UNCHANGED <<browser, wire, end, job>>

\* executeFilter on the broadened filter.
Search ==
    /\ srv = "search"
    /\ \E results \in DocLists(MaxResults) : job' = [job EXCEPT !.results = results]
    /\ Send(<<Rec("meta", "meta", <<>>)>>)
    /\ srv' = "retrieve"
    /\ UNCHANGED browser

\* Without a chunk under the filter a constrained search is repeated without it.
Retrieve ==
    /\ srv = "retrieve"
    /\ \E hits \in BoundedSeq(Docs, MaxHits) :
       \E chunks \in retrieveChunksForQuestion(hits) :
          job' = [job EXCEPT !.chunks = chunks]
    /\ IF job.results = <<>> /\ job'.chunks = <<>>
       THEN /\ SendLast(<<Rec("chunk", "noMatch", <<>>), Rec("final", "noMatch", <<>>)>>)
            /\ srv' = "done"
       ELSE srv' = "prompt" /\ UNCHANGED <<wire, end>>
    /\ UNCHANGED browser

\* What was found is not looked at again.
Prompt ==
    /\ srv = "prompt"
    /\ \E unreadable \in SUBSET Docs :
          job' = [NoJob EXCEPT !.prompt =
                     promotePromptResults(job.results, job.chunks, unreadable)]
    /\ srv' = "generate"
    /\ UNCHANGED <<browser, wire, end>>

Delta ==
    /\ srv = "generate"
    /\ job.deltas < MaxDeltas
    /\ job' = [job EXCEPT !.deltas = @ + 1]
    /\ Send(<<Rec("chunk", "delta", <<>>)>>)
    /\ UNCHANGED <<browser, srv>>

\* The stream of the LLM has ended or failed.  With no text at all, or with a text
\* that only repeats the name of a field, the final record carries an apology.
Finish ==
    /\ srv = "generate"
    /\ \E kind \in {"text", "denial", "failed"}, cited \in BoundedSeq(Docs, 2),
          apology \in {<<>>, <<Rec("chunk", "failed", <<>>)>>} :
          /\ job.deltas = 0 => kind = "failed"
          /\ job.deltas > 0 => apology = <<>>
          /\ kind # "text" => cited = <<>>
          /\ SendLast(apology \o <<Rec("final", kind,
                          citationsFor(kind, cited, job.prompt, job.prompt))>>)
    /\ srv' = "done"
    /\ UNCHANGED <<browser, job>>

Server == Abandon \/ FilterReady \/ Search \/ Retrieve \/ Prompt \/ Delta \/ Finish

\* POST /ai/answer: no index, no stream; answered in one piece.
answer ==
    /\ reply = Null /\ asked = 0
    /\ \E results \in DocLists(3), kind \in {"text", "denial", "failed"},
          cited \in BoundedSeq(Docs, 2) :
          LET candidates == Cut(results, ContextSize) IN
          reply' = IF results = <<>>
                   THEN [text |-> "noMatch", results |-> <<>>, citations |-> <<>>]
                   ELSE [text |-> kind, results |-> results,
                         citations |-> citationsFor(kind, cited, results, candidates)]
    /\ UNCHANGED <<asked, run, wire, end, shown, stopped, srv, job>>

-----------------------------------------------------------------------------
(* The connection *)

\* It breaks: the reader sees an end or an error, and records may be lost with it.
CutOff ==
    /\ run = "reading"
    /\ end = "open" \/ wire # <<>>
    /\ \E n \in 0..Len(wire) : wire' = SubSeq(wire, 1, n)
    /\ end' \in {"closed", "broken"}
    /\ srv' = "done"
    /\ UNCHANGED <<browser, job>>

-----------------------------------------------------------------------------
(* useAnswerStream and readSseStream *)

server == <<srv, job, reply>>

\* Either the button to ask is there or the one to stop.
canSubmit == ~shown.streaming /\ asked < MaxAsks

\* A new question aborts the previous request, which has no effect from then on.
ask ==
    /\ canSubmit
    /\ asked' = asked + 1
    /\ run' = "fetching"
    /\ wire' = <<>>
    /\ end' = "open"
    /\ shown' = [Blank EXCEPT !.streaming = TRUE]
    /\ stopped' = FALSE
    /\ srv' = "idle"
    /\ job' = NoJob
    /\ UNCHANGED reply

\* The abort rejects what run awaits.  Only while it reads the body of an error
\* response is the rejection caught on the spot, and the status is shown.
stop ==
    /\ shown.streaming
    /\ shown' = [shown EXCEPT !.streaming = FALSE,
                              !.errorText = IF run = "errorBody" THEN asked ELSE @]
    /\ stopped' = TRUE
    /\ run' = "none"
    /\ wire' = <<>>
    /\ end' = "closed"
    /\ srv' = "done"
    /\ UNCHANGED <<asked, job, reply>>

onError == [shown EXCEPT !.errorText = asked, !.streaming = FALSE]

Accepted ==
    /\ run = "fetching"
    /\ run' = "reading"
    /\ srv' = "filter"
    /\ UNCHANGED <<asked, wire, end, shown, stopped, job, reply>>

Rejected ==
    /\ run = "fetching"
    /\ run' = "errorBody"
    /\ srv' = "done"
    /\ UNCHANGED <<asked, wire, end, shown, stopped, job, reply>>

\* The request fails, or the body of the error response has been read.
RequestFails ==
    /\ run \in {"fetching", "errorBody"}
    /\ run' = "none"
    /\ shown' = onError
    /\ srv' = "done"
    /\ UNCHANGED <<asked, wire, end, stopped, job, reply>>

dispatchSseRecord(r) ==
    CASE r.ev = "meta" -> [shown EXCEPT !.meta = r.q]
      [] r.ev = "chunk" -> [shown EXCEPT !.answer = Append(@, r)]
      [] r.ev = "final" -> [shown EXCEPT !.answer = <<r>>, !.citations = r.citations,
                                         !.streaming = FALSE]
      [] r.ev = "error" -> [shown EXCEPT !.errorText = r.q, !.streaming = FALSE]

ReadRecord ==
    /\ run = "reading" /\ wire # <<>>
    /\ shown' = dispatchSseRecord(Head(wire))
    /\ wire' = Tail(wire)
    /\ UNCHANGED <<asked, run, end, stopped, server>>

\* Mutant: the end of the stream changes nothing on the page.
ReadEndUnnoticed ==
    /\ run = "reading" /\ wire = <<>> /\ end # "open"
    /\ run' = "none"
    /\ UNCHANGED <<asked, wire, end, shown, stopped, server>>

\* Mutant: the end of the stream is taken for the end of the answer.
ReadEndSilently ==
    /\ run = "reading" /\ wire = <<>> /\ end # "open"
    /\ run' = "none"
    /\ shown' = [shown EXCEPT !.streaming = FALSE]
    /\ UNCHANGED <<asked, wire, end, stopped, server>>

\* At the end of the stream an answer that is still streaming was cut off; a reader
\* that fails reports in any case.
ReadEnd ==
    /\ run = "reading" /\ wire = <<>> /\ end # "open"
    /\ run' = "none"
    /\ shown' = IF shown.streaming \/ end = "broken" THEN onError ELSE shown
    /\ UNCHANGED <<asked, wire, end, stopped, server>>

Browser == Accepted \/ Rejected \/ RequestFails \/ ReadRecord \/ ReadEnd

Next ==
    \/ ask
    \/ stop
    \/ answer
    \/ CutOff
    \/ Server
    \/ Browser

Spec == Init /\ [][Next]_vars

\* What goes on by itself: calls to Paperless and Qdrant have timeouts, the LLM ends its
\* text or its connection, and the browser reads what has arrived.
Progress == Server \/ Browser

-----------------------------------------------------------------------------
(* Properties. *)

TypeOK ==
    /\ asked \in 0..MaxAsks
    /\ run \in {"none", "fetching", "reading", "errorBody"}
    /\ end \in {"open", "closed", "broken"}
    /\ srv \in {"idle", "filter", "search", "retrieve", "prompt", "generate", "done"}
    /\ stopped \in BOOLEAN
    /\ shown.streaming \in BOOLEAN
    /\ shown.streaming => run # "none"

Complete == \E i \in DOMAIN shown.answer : shown.answer[i].ev = "final"

(***************************************************************************)
(* What the page shows answers the latest question, and once it no longer  *)
(* streams, the answer is the whole answer the API gave, or an error says  *)
(* why it is not, unless the user stopped it (useAnswerStream: the abort   *)
(* of the previous request, STREAM_CUT_DE).                                *)
(***************************************************************************)
ShownIsTheAnswer ==
    /\ \A i \in DOMAIN shown.answer : shown.answer[i].q = asked
    /\ {shown.meta, shown.errorText} \subseteq {Null, asked}
    /\ asked > 0 /\ ~shown.streaming => Complete \/ shown.errorText # Null \/ stopped

(***************************************************************************)
(* The sources listed below an answer are distinct, were in the prompt,    *)
(* and are missing only when the answer denies to have found anything or   *)
(* nothing could be found or read (promotePromptResults, resolveCitations, *)
(* and the fallback after an answer without a source).                     *)
(***************************************************************************)
SourcesWereRead ==
    /\ Complete => LET final == shown.answer[1] IN
          /\ IsInjective(final.citations)
          /\ ToSet(final.citations) \subseteq ToSet(job.prompt)
          /\ Len(final.citations) \leq ContextSize
          /\ final.citations = <<>> => final.text \in {"denial", "noMatch"} \/ job.prompt = <<>>
    /\ reply # Null =>
          /\ IsInjective(reply.citations)
          /\ ToSet(reply.citations) \subseteq ToSet(reply.results)
          /\ reply.citations = <<>> => reply.text \in {"denial", "noMatch"}

\* Every question comes to rest: an answer, an error, or the user's stop
\* (the response always ends, and its end always ends the streaming state).
AnswerSettles == shown.streaming ~> ~shown.streaming
=============================================================================
