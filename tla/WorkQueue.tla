----------------------------- MODULE WorkQueue -----------------------------
(***************************************************************************)
(* What a durable work queue with acknowledgements promises to those who   *)
(* put messages there, whatever the workers do: every message is in one    *)
(* place, it leaves the queue for good only after a handler has seen it,   *)
(* and it counts as done only after a handler came to its end.             *)
(***************************************************************************)

CONSTANT Messages

VARIABLES
    place,      \* where each message is
    finished,   \* messages for which a handler came to its end
    interrupted \* messages of which a handler was cut short

queueVars == <<place, finished, interrupted>>

Init ==
    /\ place = [m \in Messages |-> "ready"]
    /\ finished = {}
    /\ interrupted = {}

Deliver(m) ==
    /\ place[m] = "ready"
    /\ place' = [place EXCEPT ![m] = "held"]
    /\ UNCHANGED <<finished, interrupted>>

\* A worker that goes away gives back all that it holds.
Return(S) ==
    /\ \A m \in S : place[m] = "held"
    /\ place' = [m \in Messages |-> IF m \in S THEN "ready" ELSE place[m]]
    /\ UNCHANGED <<finished, interrupted>>

\* The handler's end counts only if the queue still waits for this worker;
\* otherwise the message stays where it is and is handled again.
Finish(m) ==
    /\ finished' = finished \cup {m}
    /\ \/ /\ place[m] = "held"
          /\ place' = [place EXCEPT ![m] = "done"]
       \/ UNCHANGED place
    /\ UNCHANGED interrupted

Interrupt(m) ==
    /\ interrupted' = interrupted \cup {m}
    /\ \/ /\ place[m] = "held"
          /\ place' = [place EXCEPT ![m] = "dropped"]
       \/ UNCHANGED place
    /\ UNCHANGED finished

Next ==
    \/ \E m \in Messages : Deliver(m) \/ Finish(m) \/ Interrupt(m)
    \/ \E S \in SUBSET Messages : Return(S)

Spec == Init /\ [][Next]_queueVars

=============================================================================
