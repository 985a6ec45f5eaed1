----------------------------- MODULE LiveCounts -----------------------------
(***************************************************************************)
(* The numbers in the navigation bar.  While the user is signed in the     *)
(* browser keeps one stream of counts open; the API computes the counts    *)
(* again and again and sends those that differ from the last it sent.      *)
(* Until a first record has arrived the bar shows what it polls.           *)
(*                                                                         *)
(* One document stands for all: its place decides which of the four counts *)
(* it belongs to.  Intervals are left out, except that a timer fires after *)
(* it was set.                                                             *)
(***************************************************************************)
EXTENDS Naturals, Sequences

CONSTANTS
    Null,
    MaxMoves,  \* bound: moves of the document
    MaxDrops,  \* bound: connections that break
    MaxSigns   \* bound: times the user signs in or out

VARIABLES
    place,    \* where the document is
    polled,   \* browser: the polled counts
    cache,    \* API: DocumentsService.inFlightCache
    me,       \* browser: the user is known to be signed in
    started,  \* browser: the stream is wanted
    timer,    \* browser: retryTimer
    live,     \* browser: the counts last received, or Null
    conn,     \* the connection: API's last record, places seen by its poll, records sent
    blocked,  \* no stream passes between browser and API
    left      \* what the bounds leave: moves, drops, signs

vars == <<place, polled, cache, me, started, timer, live, conn, blocked, left>>

Places == {"elsewhere", "pending", "approved", "error", "trash"}

N(b) == IF b THEN 1 ELSE 0

countsAt(p) ==
    [inbox |-> N(p = "pending"), in_flight |-> N(p \in {"pending", "approved"}),
     trash |-> N(p = "trash"), errors |-> N(p = "error")]

Init ==
    /\ place = "elsewhere"
    /\ polled = countsAt("elsewhere")
    /\ cache = Null
    /\ me = FALSE /\ started = FALSE /\ timer = FALSE
    /\ live = Null
    /\ conn = Null
    /\ blocked \in BOOLEAN
    /\ left = [moves |-> MaxMoves, drops |-> MaxDrops, signs |-> MaxSigns]

\* The worker or the user moves the document, also between two queries of a poll.
Move ==
    /\ left.moves > 0
    /\ \E p \in Places \ {place} :
        /\ place' = p
        /\ conn' = IF conn = Null \/ conn.seen = {} THEN conn
                   ELSE [conn EXCEPT !.seen = @ \cup {p}]
    /\ left' = [left EXCEPT !.moves = @ - 1]
    /\ UNCHANGED <<polled, cache, me, started, timer, live, blocked>>

-----------------------------------------------------------------------------
(* EventsController.streamCounts *)

\* Mutant: a change of the errors alone is not sent.
sameButErrors(a, b) ==
    a # Null /\ a.inbox = b.inbox /\ a.in_flight = b.in_flight /\ a.trash = b.trash

sameCounts(a, b) ==
    a # Null /\ a.inbox = b.inbox /\ a.in_flight = b.in_flight /\ a.trash = b.trash
    /\ a.errors = b.errors

\* The loop stops with its connection.
Connected == conn # Null /\ ~conn.ended

PollStarts ==
    /\ Connected /\ conn.seen = {}
    /\ conn' = [conn EXCEPT !.seen = {place}]
    /\ UNCHANGED <<place, polled, cache, me, started, timer, live, blocked, left>>

\* Four queries at the same time, each answered at a moment of its own.
computeCounts(seen) ==
    {[inbox |-> countsAt(a).inbox, in_flight |-> countsAt(b).in_flight,
      trash |-> countsAt(c).trash, errors |-> countsAt(d).errors] :
        a \in seen, b \in seen, c \in seen, d \in seen}

\* After 25 seconds without a record the counts are sent although they are the same.
PollEnds ==
    /\ Connected /\ conn.seen # {} /\ Len(conn.wire) < 2
    /\ \E counts \in computeCounts(conn.seen), heartbeat \in BOOLEAN :
        conn' = IF heartbeat \/ ~sameCounts(conn.last, counts)
                THEN [conn EXCEPT !.seen = {}, !.last = counts, !.wire = Append(@, counts)]
                ELSE [conn EXCEPT !.seen = {}]
    /\ UNCHANGED <<place, polled, cache, me, started, timer, live, blocked, left>>

\* A failed query: a comment goes out and the loop goes on, unless the token of
\* Paperless was refused; then an error event ends the stream.
PollFails ==
    /\ Connected /\ conn.seen # {} /\ left.drops > 0
    /\ \E refused \in BOOLEAN : conn' = [conn EXCEPT !.seen = {}, !.ended = refused]
    /\ left' = [left EXCEPT !.drops = @ - 1]
    /\ UNCHANGED <<place, polled, cache, me, started, timer, live, blocked>>

-----------------------------------------------------------------------------
(* createLiveCountsStream and the plugin "live-counts" *)

\* The connection is new, so is the memory of what was sent over it.
connect == conn' = [last |-> Null, seen |-> {}, wire |-> <<>>, ended |-> blocked]

\* Another result of the query "me": the stream starts, once, or stops.
SignsInOrOut ==
    /\ left.signs > 0
    /\ me' = ~me
    /\ started' = me'
    /\ timer' = FALSE
    /\ IF me' THEN connect ELSE conn' = Null
    /\ left' = [left EXCEPT !.signs = @ - 1]
    /\ UNCHANGED <<place, polled, cache, live, blocked>>

onmessage ==
    /\ conn # Null /\ conn.wire # <<>>
    /\ live' = Head(conn.wire)
    /\ conn' = [conn EXCEPT !.wire = Tail(@)]
    /\ UNCHANGED <<place, polled, cache, me, started, timer, blocked, left>>

\* The network breaks the connection.
Breaks ==
    /\ Connected /\ left.drops > 0
    /\ \E n \in 0..Len(conn.wire) :
        conn' = [conn EXCEPT !.ended = TRUE, !.wire = SubSeq(@, 1, n)]
    /\ left' = [left EXCEPT !.drops = @ - 1]
    /\ UNCHANGED <<place, polled, cache, me, started, timer, live, blocked>>

\* The end of the response and the API's error event: close, and try again later.
onerror ==
    /\ conn # Null /\ conn.ended /\ conn.wire = <<>>
    /\ conn' = Null
    /\ timer' = started
    /\ UNCHANGED <<place, polled, cache, me, started, live, blocked, left>>

Reconnect ==
    /\ timer
    /\ timer' = FALSE
    /\ connect
    /\ UNCHANGED <<place, polled, cache, me, started, live, blocked, left>>

-----------------------------------------------------------------------------
(* The polled counts *)

\* DocumentsService keeps the number in flight for five seconds.
inFlightCount == IF cache # Null THEN cache ELSE countsAt(place).in_flight

\* Each of the queries of the bar repeats itself while the user is signed in.
Refetch(k) ==
    /\ me
    /\ LET n == IF k = "in_flight" THEN inFlightCount ELSE countsAt(place)[k] IN
        /\ polled' = [polled EXCEPT ![k] = n]
        /\ cache' = IF k = "in_flight" THEN n ELSE cache
    /\ UNCHANGED <<place, me, started, timer, live, conn, blocked, left>>

CacheExpires ==
    /\ cache # Null /\ cache' = Null
    /\ UNCHANGED <<place, polled, me, started, timer, live, conn, blocked, left>>

\* AppNav: the stream's numbers once there are any.
Bar == LET c == IF live # Null THEN live ELSE polled IN
       [c EXCEPT !.in_flight = IF c.in_flight > c.inbox THEN c.in_flight - c.inbox ELSE 0]

-----------------------------------------------------------------------------
Counts == {"inbox", "in_flight", "trash", "errors"}

\* Repeats itself, on its own: see the fairness of the runs.
Poll == PollStarts \/ PollEnds
Retry == onerror \/ Reconnect

Next ==
    \/ Move
    \/ Poll \/ PollFails
    \/ SignsInOrOut \/ onmessage \/ Retry \/ Breaks
    \/ CacheExpires \/ \E k \in Counts : Refetch(k)

Spec == Init /\ [][Next]_vars

Numbers == [inbox : {0, 1}, in_flight : {0, 1}, trash : {0, 1}, errors : {0, 1}]
Connections ==
    [last : Numbers \cup {Null}, seen : SUBSET Places, wire : Seq(Numbers), ended : BOOLEAN]

TypeOK ==
    /\ place \in Places
    /\ polled \in Numbers /\ live \in Numbers \cup {Null} /\ cache \in {Null, 0, 1}
    /\ conn \in Connections \cup {Null}
    /\ {me, started, timer, blocked} \subseteq BOOLEAN
    /\ started => conn # Null \/ timer
    /\ conn # Null => started /\ ~timer

\* Once the documents rest, the bar of a signed-in user comes to show their numbers and
\* keeps showing them, whether the stream passes or not (events.controller.ts: sameCounts
\* of each connection, useLiveCounts.ts: the retry; AppNav.vue: the polled fallback).
BarSettles == <>[](me => Bar = [countsAt(place) EXCEPT !.in_flight = N(place = "approved")])
=============================================================================
