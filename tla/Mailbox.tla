------------------------------- MODULE Mailbox -------------------------------
(***************************************************************************)
(* What a stage of the worker promises to whoever hands it documents:      *)
(* they are handled one at a time, in the order they were put, each as     *)
(* often as it was put, and none is forgotten before the worker is told to *)
(* stop.  Told to stop, the stage ends; what is pending then is abandoned. *)
(***************************************************************************)
EXTENDS Sequences

CONSTANTS Docs,  \* documents
          Null   \* no document

VARIABLES pending,   \* documents put and not yet taken, in order
          handling,  \* the document being handled
          phase      \* "open", "closing" once told to stop, "stopped"

vars == <<pending, handling, phase>>

Init ==
    /\ pending = <<>>
    /\ handling = Null
    /\ phase = "open"

Put(d) ==
    /\ pending' = Append(pending, d)
    /\ UNCHANGED <<handling, phase>>

Take ==
    /\ phase # "stopped"
    /\ handling = Null
    /\ pending # <<>>
    /\ handling' = Head(pending)
    /\ pending' = Tail(pending)
    /\ UNCHANGED phase

Done ==
    /\ handling # Null
    /\ handling' = Null
    /\ UNCHANGED <<pending, phase>>

Close ==
    /\ phase = "open"
    /\ phase' = "closing"
    /\ UNCHANGED <<pending, handling>>

Stop ==
    /\ phase = "closing"
    /\ handling = Null
    /\ phase' = "stopped"
    /\ UNCHANGED <<pending, handling>>

Next == (\E d \in Docs : Put(d)) \/ Take \/ Done \/ Close \/ Stop

Spec == Init /\ [][Next]_vars

\* A stage keeps working, but it owes nothing to the documents left at the end.
FairSpec ==
    /\ Spec
    /\ WF_vars(phase = "open" /\ Take)
    /\ WF_vars(Done)
    /\ WF_vars(Stop)
=============================================================================
