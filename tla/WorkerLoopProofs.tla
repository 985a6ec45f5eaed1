-------------------------- MODULE WorkerLoopProofs --------------------------
(***************************************************************************)
(* Proofs about a stage of the worker, for every set of documents and      *)
(* every bound on the queue: its state is well typed, no wakeup is lost,   *)
(* and, but for fairness, it is a mailbox.                                 *)
(***************************************************************************)
EXTENDS WorkerLoop, TLAPS

\* The consumer is told null only by a shutdown.
ToldWhenClosed == pc = "told" => closed

\* The induction: the slot follows pc, waiting excludes stored items, so that an item
\* pushed past the store overtakes nothing, and nothing but a shutdown ends the loop.
Inv == TypeOK /\ NoLostWakeup /\ ToldWhenClosed

LEMMA InitInv == Init => Inv
<1> SUFFICES ASSUME Init PROVE Inv
    OBVIOUS
<1>1. TypeOK
    <2>1. items \in Seq(Docs) /\ Len(items) \leq MaxQueue
        BY MaxQueueAssumption DEF Init
    <2>2. doc \in Docs \cup {Null} /\ (doc # Null <=> pc \in {"given", "handle"})
        BY DEF Init
    <2> QED BY <2>1, <2>2 DEF Init, TypeOK
<1>2. NoLostWakeup /\ ToldWhenClosed
    BY DEF Init, NoLostWakeup, ToldWhenClosed
<1> QED BY <1>1, <1>2 DEF Inv

\* A push keeps the invariant, whoever it comes from.
LEMMA PushInv ==
    ASSUME Inv, NEW d \in Docs, push(d), poll' \in {"tick", "sleep", "stopped"}
    PROVE  Inv'
<1> USE DEF Inv
<1>1. CASE pc = "wait" /\ pc' = "given" /\ doc' = d /\ UNCHANGED <<items, closed>>
    BY <1>1, NullAssumption DEF TypeOK, NoLostWakeup, ToldWhenClosed
<1>2. CASE /\ pc # "wait"
           /\ Len(items) < MaxQueue
           /\ items' = Append(items, d)
           /\ UNCHANGED <<closed, pc, doc>>
    <2>1. items' \in Seq(Docs) /\ Len(items') \leq MaxQueue
        BY <1>2, MaxQueueAssumption DEF TypeOK
    <2> QED BY <1>2, <2>1 DEF TypeOK, NoLostWakeup, ToldWhenClosed
<1> QED BY <1>1, <1>2 DEF push

LEMMA CheckInv == ASSUME Inv, Check PROVE Inv'
<1> USE DEF Inv
<1>1. CASE closed /\ pc' = "stopped" /\ UNCHANGED <<items, doc>>
    BY <1>1 DEF Check, TypeOK, NoLostWakeup, ToldWhenClosed
<1>2. CASE /\ ~closed
           /\ items # <<>>
           /\ pc' = "given"
           /\ doc' = Head(items)
           /\ items' = Tail(items)
    <2>1. /\ items' \in Seq(Docs)
          /\ Len(items') \leq MaxQueue
          /\ doc' \in Docs
        BY <1>2, MaxQueueAssumption DEF TypeOK
    <2> QED BY <1>2, <2>1, NullAssumption DEF Check, TypeOK, NoLostWakeup, ToldWhenClosed
<1>3. CASE ~closed /\ items = <<>> /\ pc' = "wait" /\ UNCHANGED <<items, doc>>
    BY <1>3 DEF Check, TypeOK, NoLostWakeup, ToldWhenClosed
<1> QED BY <1>1, <1>2, <1>3 DEF Check, pop

LEMMA NextInv == Inv /\ [Next]_vars => Inv'
<1> SUFFICES ASSUME Inv, [Next]_vars PROVE Inv'
    OBVIOUS
<1>1. ASSUME NEW d \in Docs, Webhook(d) PROVE Inv'
    BY <1>1, PushInv DEF Webhook, Inv, TypeOK
<1>2. ASSUME NEW d \in Docs, PollPush(d) PROVE Inv'
    BY <1>2, PushInv DEF PollPush, Inv, TypeOK
<1>3. CASE Check
    BY <1>3, CheckInv
<1>4. CASE Resume
    BY <1>4 DEF Resume, Inv, TypeOK, NoLostWakeup, ToldWhenClosed
<1>5. CASE Handled
    BY <1>5 DEF Handled, Inv, TypeOK, NoLostWakeup, ToldWhenClosed
<1>6. CASE PollNext
    BY <1>6 DEF PollNext, Inv, TypeOK, NoLostWakeup, ToldWhenClosed
<1>7. CASE shutdown
    BY <1>7 DEF shutdown, Inv, TypeOK, NoLostWakeup, ToldWhenClosed
<1>8. CASE UNCHANGED vars
    BY <1>8 DEF vars, Inv, TypeOK, NoLostWakeup, ToldWhenClosed
<1> QED BY <1>1, <1>2, <1>3, <1>4, <1>5, <1>6, <1>7, <1>8 DEF Next, Consumer

\* The state of a stage is well typed, and the slot of ProcessingState shows a
\* document exactly while the consumer has one.
THEOREM LoopTypeCorrect == Spec => []TypeOK
<1>1. Init => Inv
    BY InitInv
<1>2. Inv /\ [Next]_vars => Inv'
    BY NextInv
<1>3. Inv => TypeOK
    BY DEF Inv
<1> QED BY <1>1, <1>2, <1>3, PTL DEF Spec

\* The consumer never waits beside a stored item, nor after the queue was closed.
THEOREM WakeupsAreKept == Spec => []NoLostWakeup
<1>1. Init => Inv
    BY InitInv
<1>2. Inv /\ [Next]_vars => Inv'
    BY NextInv
<1>3. Inv => NoLostWakeup
    BY DEF Inv
<1> QED BY <1>1, <1>2, <1>3, PTL DEF Spec

-----------------------------------------------------------------------------
(***************************************************************************)
(* Refinement.  A push puts a document whether or not the consumer waits   *)
(* for it, the consumer takes a document when it resumes with it, and the  *)
(* rest of what pop does is not seen.                                      *)
(***************************************************************************)
LEMMA PushPuts ==
    ASSUME Inv, NEW d \in Docs, push(d)
    PROVE  M!Put(d)
<1> USE DEF Inv
<1>1. CASE pc = "wait" /\ pc' = "given" /\ doc' = d /\ UNCHANGED <<items, closed>>
    <2>1. items = <<>>
        BY <1>1 DEF NoLostWakeup
    <2>2. <<d>> \o <<>> = Append(<<>>, d)
        OBVIOUS
    <2> QED BY <1>1, <2>1, <2>2 DEF M!Put
<1>2. CASE pc # "wait" /\ items' = Append(items, d) /\ UNCHANGED <<closed, pc, doc>>
    <2>1. CASE pc = "given"
        <3>1. doc \in Docs /\ items \in Seq(Docs)
            BY <2>1 DEF TypeOK
        <3>2. <<doc>> \o Append(items, d) = Append(<<doc>> \o items, d)
            BY <3>1
        <3> QED BY <1>2, <2>1, <3>2 DEF M!Put
    <2>2. CASE pc # "given"
        BY <1>2, <2>2 DEF M!Put
    <2> QED BY <2>1, <2>2
<1> QED BY <1>1, <1>2 DEF push

LEMMA CheckStutters == ASSUME Inv, Check PROVE M!Stop \/ UNCHANGED M!vars
<1> USE DEF Inv
<1>1. CASE closed /\ pc' = "stopped" /\ UNCHANGED <<items, doc>>
    BY <1>1 DEF Check, M!Stop
<1>2. CASE /\ ~closed
           /\ items # <<>>
           /\ pc' = "given"
           /\ doc' = Head(items)
           /\ items' = Tail(items)
    <2>1. <<Head(items)>> \o Tail(items) = items
        BY <1>2 DEF TypeOK
    <2> QED BY <1>2, <2>1 DEF Check, M!vars
<1>3. CASE ~closed /\ items = <<>> /\ pc' = "wait" /\ UNCHANGED <<items, doc>>
    BY <1>3 DEF Check, M!vars
<1> QED BY <1>1, <1>2, <1>3 DEF Check, pop

LEMMA ResumeTakes == ASSUME Inv, Resume PROVE M!Take \/ M!Stop
<1> USE DEF Inv
<1>1. CASE pc = "given" /\ pc' = "handle"
    <2>1. doc \in Docs /\ items \in Seq(Docs)
        BY <1>1 DEF TypeOK
    <2>2. /\ <<doc>> \o items # <<>>
          /\ Head(<<doc>> \o items) = doc
          /\ Tail(<<doc>> \o items) = items
        BY <2>1
    <2> QED BY <1>1, <2>2 DEF Resume, M!Take
<1>2. CASE pc = "told" /\ pc' = "stopped"
    BY <1>2 DEF Resume, M!Stop, ToldWhenClosed
<1> QED BY <1>1, <1>2 DEF Resume

LEMMA StepsMap == Inv /\ [Next]_vars => [M!Next]_M!vars
<1> SUFFICES ASSUME Inv, [Next]_vars PROVE M!Next \/ UNCHANGED M!vars
    OBVIOUS
<1>1. ASSUME NEW d \in Docs, Webhook(d) PROVE M!Next
    BY <1>1, PushPuts DEF Webhook, M!Next
<1>2. ASSUME NEW d \in Docs, PollPush(d) PROVE M!Next
    BY <1>2, PushPuts DEF PollPush, M!Next
<1>3. CASE Check
    BY <1>3, CheckStutters DEF M!Next
<1>4. CASE Resume
    BY <1>4, ResumeTakes DEF M!Next
<1>5. CASE Handled
    BY <1>5, NullAssumption DEF Handled, Inv, TypeOK, M!Next, M!Done
<1>6. CASE PollNext
    BY <1>6 DEF PollNext, M!vars
<1>7. CASE shutdown
    BY <1>7 DEF shutdown, M!Next, M!Close, M!vars
<1>8. CASE UNCHANGED vars
    BY <1>8 DEF vars, M!vars
<1> QED BY <1>1, <1>2, <1>3, <1>4, <1>5, <1>6, <1>7, <1>8 DEF Next, Consumer

\* A stage of the worker implements the mailbox: documents are handled one at a time
\* and in order, each as often as it was pushed.
THEOREM StageIsMailbox == Spec => MailboxImplemented
<1>1. Init => M!Init
    BY DEF Init, M!Init
<1>2. Inv /\ [Next]_vars => [M!Next]_M!vars
    BY StepsMap
<1>3. Spec => []Inv
    <2>1. Init => Inv
        BY InitInv
    <2>2. Inv /\ [Next]_vars => Inv'
        BY NextInv
    <2> QED BY <2>1, <2>2, PTL DEF Spec
<1> QED BY <1>1, <1>2, <1>3, PTL DEF Spec, MailboxImplemented, M!Spec
=============================================================================
