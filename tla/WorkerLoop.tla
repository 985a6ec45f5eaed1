----------------------------- MODULE WorkerLoop -----------------------------
(***************************************************************************)
(* One stage of the worker: an AsyncQueue, the consumer that drains it     *)
(* (runQueueConsumer), the poller that feeds it beside the webhook         *)
(* (runInterval), and the shutdown of the process.                         *)
(*                                                                         *)
(* The process is single-threaded: code between two awaits is one step.    *)
(* The consumer awaits twice, in queue.pop() and in its handler.  pop      *)
(* hands out an item at once, or leaves a waiter that a later push or      *)
(* close resolves; in both cases the consumer resumes in a turn of its     *)
(* own, and pushes may come in between.  Shutdown aborts the loops and     *)
(* closes the queue in one turn, so pop never finds the queue closed.      *)
(***************************************************************************)
EXTENDS Naturals, Sequences

CONSTANTS
    Docs,       \* documents
    Null,       \* AsyncQueue's null, and an empty slot
    MaxQueue    \* bound: items in the queue (the code has none)

ASSUME NullAssumption == Null \notin Docs
ASSUME MaxQueueAssumption == MaxQueue \in Nat

VARIABLES
    items,   \* AsyncQueue.items
    closed,  \* AsyncQueue.closed, and the abort signal
    pc,      \* consumer: "check" its signal, "wait" with a waiter in the queue,
             \* promise resolved with an item ("given") or with null ("told"),
             \* "handle", "stopped"
    doc,     \* the item the consumer was given, then the slot of ProcessingState
    poll     \* poller: in a "tick", in its "sleep", "stopped"

vars == <<items, closed, pc, doc, poll>>

Init ==
    /\ items = <<>>
    /\ closed = FALSE
    /\ pc = "check"
    /\ doc = Null
    /\ poll = "tick"

-----------------------------------------------------------------------------
(* AsyncQueue *)

\* Mutant: an item is always stored, whether or not somebody is waiting.
pushStores(d) ==
    /\ Len(items) < MaxQueue
    /\ items' = Append(items, d)
    /\ UNCHANGED <<closed, pc, doc>>

\* The waiter gets the item past the store, if there is a waiter.
push(d) ==
    \/ /\ pc = "wait"
       /\ pc' = "given"
       /\ doc' = d
       /\ UNCHANGED <<items, closed>>
    \/ /\ pc # "wait"
       /\ Len(items) < MaxQueue
       /\ items' = Append(items, d)
       /\ UNCHANGED <<closed, pc, doc>>

\* Mutant: the youngest item is handed out.
popYoungest ==
    \/ /\ items # <<>>
       /\ pc' = "given"
       /\ doc' = items[Len(items)]
       /\ items' = SubSeq(items, 1, Len(items) - 1)
    \/ /\ items = <<>>
       /\ pc' = "wait"
       /\ UNCHANGED <<items, doc>>

pop ==
    \/ /\ items # <<>>
       /\ pc' = "given"
       /\ doc' = Head(items)
       /\ items' = Tail(items)
    \/ /\ items = <<>>
       /\ pc' = "wait"
       /\ UNCHANGED <<items, doc>>

\* Mutant: close leaves the waiter alone.
shutdownSilently ==
    /\ ~closed
    /\ closed' = TRUE
    /\ UNCHANGED <<items, pc, doc, poll>>

\* SIGTERM: abort, then close, which resolves the waiter with null.
shutdown ==
    /\ ~closed
    /\ closed' = TRUE
    /\ pc' = IF pc = "wait" THEN "told" ELSE pc
    /\ UNCHANGED <<items, doc, poll>>

-----------------------------------------------------------------------------
(* runQueueConsumer *)

Check ==
    /\ pc = "check"
    /\ \/ closed /\ pc' = "stopped" /\ UNCHANGED <<items, doc>>
       \/ ~closed /\ pop
    /\ UNCHANGED <<closed, poll>>

Resume ==
    /\ \/ pc = "given" /\ pc' = "handle"
       \/ pc = "told" /\ pc' = "stopped"
    /\ UNCHANGED <<items, closed, doc, poll>>

\* Mutant: the slot is not reset.
HandledKeepsSlot ==
    /\ pc = "handle"
    /\ pc' = "check"
    /\ UNCHANGED <<items, closed, doc, poll>>

\* The handler has returned or thrown.
Handled ==
    /\ pc = "handle"
    /\ pc' = "check"
    /\ doc' = Null
    /\ UNCHANGED <<items, closed, poll>>

Consumer == Check \/ Resume \/ Handled

-----------------------------------------------------------------------------
(* runInterval and the webhook *)

\* POST /trigger/...; a request accepted before the shutdown may still push.
Webhook(d) == push(d) /\ UNCHANGED poll

PollPush(d) ==
    /\ poll = "tick"
    /\ push(d)
    /\ UNCHANGED poll

\* The tick has pushed its batch, or thrown; abort ends the loop or the sleep.
PollNext ==
    /\ \/ poll = "tick" /\ poll' = IF closed THEN "stopped" ELSE "sleep"
       \/ poll = "sleep" /\ poll' = IF closed THEN "stopped" ELSE "tick"
    /\ UNCHANGED <<items, closed, pc, doc>>

Next ==
    \/ \E d \in Docs : Webhook(d) \/ PollPush(d)
    \/ Consumer
    \/ PollNext
    \/ shutdown

Spec == Init /\ [][Next]_vars

\* The event loop runs ready turns, timers fire, and every handler and every tick
\* settles, for each of their HTTP calls has a timeout.
FairSpec == Spec /\ WF_vars(Consumer) /\ WF_vars(PollNext)

-----------------------------------------------------------------------------
(* Properties. *)

\* The slot shows a document exactly while the consumer has one.
TypeOK ==
    /\ items \in Seq(Docs)
    /\ Len(items) \leq MaxQueue
    /\ closed \in BOOLEAN
    /\ pc \in {"check", "wait", "given", "told", "handle", "stopped"}
    /\ doc \in Docs \cup {Null}
    /\ poll \in {"tick", "sleep", "stopped"}
    /\ doc # Null <=> pc \in {"given", "handle"}

\* No wakeup is lost: the consumer never waits beside a stored item, nor after the
\* queue was closed (push, pop and close of AsyncQueue).
NoLostWakeup == pc = "wait" => items = <<>> /\ ~closed

M == INSTANCE Mailbox WITH
        pending  <- IF pc = "given" THEN <<doc>> \o items ELSE items,
        handling <- IF pc = "handle" THEN doc ELSE Null,
        phase    <- IF pc = "stopped" THEN "stopped"
                    ELSE IF closed THEN "closing" ELSE "open"

(***************************************************************************)
(* The stage is a fair mailbox, although the poller, the webhook and the   *)
(* shutdown interleave with the two awaits of the consumer.                *)
(***************************************************************************)
MailboxImplemented == M!Spec
MailboxServed == M!FairSpec

\* After SIGTERM both loops end, so that bootstrap can return.
ShutdownCompletes == closed ~> (pc = "stopped" /\ poll = "stopped")
=============================================================================
