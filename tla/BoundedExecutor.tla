--------------------------- MODULE BoundedExecutor ---------------------------
(***************************************************************************)
(* What ThreadPool promises to Server.cpp: a bounded FIFO executor with    *)
(* Slots places.  A task is accepted or refused on the spot; accepted      *)
(* tasks start oldest first as places become free; closing refuses new     *)
(* tasks, runs all the accepted ones and only then reports "closed".       *)
(***************************************************************************)
EXTENDS Naturals, Sequences, FiniteSets

CONSTANTS Tasks, Slots, Capacity

VARIABLES queue,      \* accepted tasks not started yet, oldest first
          running,    \* started tasks
          finished,   \* ended tasks
          refused,    \* tasks turned away
          phase       \* "open", "closing" or "closed"

vars == <<queue, running, finished, refused, phase>>

Known == {queue[i] : i \in 1 .. Len(queue)} \cup running \cup finished \cup refused

Init ==
    /\ queue = <<>> /\ running = {} /\ finished = {} /\ refused = {}
    /\ phase = "open"

Accept(t) ==
    /\ phase = "open" /\ Len(queue) < Capacity
    /\ t \notin Known
    /\ queue' = Append(queue, t)
    /\ UNCHANGED <<running, finished, refused, phase>>

Refuse(t) ==
    /\ phase # "open" \/ Len(queue) = Capacity
    /\ t \notin Known
    /\ refused' = refused \cup {t}
    /\ UNCHANGED <<queue, running, finished, phase>>

Start ==
    /\ queue # <<>> /\ Cardinality(running) < Slots
    /\ running' = running \cup {Head(queue)}
    /\ queue' = Tail(queue)
    /\ UNCHANGED <<finished, refused, phase>>

Finish(t) ==
    /\ t \in running
    /\ running' = running \ {t}
    /\ finished' = finished \cup {t}
    /\ UNCHANGED <<queue, refused, phase>>

Close ==
    /\ phase = "open"
    /\ phase' = "closing"
    /\ UNCHANGED <<queue, running, finished, refused>>

Closed ==
    /\ phase = "closing" /\ queue = <<>> /\ running = {}
    /\ phase' = "closed"
    /\ UNCHANGED <<queue, running, finished, refused>>

Next ==
    \/ \E t \in Tasks : Accept(t) \/ Refuse(t) \/ Finish(t)
    \/ Start \/ Close \/ Closed

Spec == Init /\ [][Next]_vars

(* Places are used while tasks wait, tasks end, and closing completes.     *)
FairSpec ==
    /\ Spec
    /\ WF_vars(Start) /\ WF_vars(Closed)
    /\ \A t \in Tasks : WF_vars(Finish(t))
=============================================================================
