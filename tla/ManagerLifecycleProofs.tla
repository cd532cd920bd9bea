----------------------- MODULE ManagerLifecycleProofs -----------------------
(***************************************************************************)
(* Proofs about ManagerLifecycle, for any requests, attempts, outages and  *)
(* failures: its type invariant, the four things its runs check of every   *)
(* state, and that its consumer is a worker of a WorkQueue.  The invariant *)
(* says what the two coroutines know of each other and of the connection.  *)
(***************************************************************************)
EXTENDS ManagerLifecycle, FiniteSetTheorems, TLAPS

BrokerTypes ==
    /\ ready \subseteq Messages
    /\ unacked \subseteq Messages
    /\ acked \subseteq Messages
    /\ rejected \subseteq Messages
    /\ handled \subseteq Messages
    /\ interrupted \subseteq Messages

\* A request is ready, handed out, acked or rejected.
OnePlace ==
    /\ ready \cap unacked = {} /\ ready \cap acked = {} /\ ready \cap rejected = {}
    /\ unacked \cap acked = {} /\ unacked \cap rejected = {}
    /\ acked \cap rejected = {}

Settled == acked \subseteq handled /\ rejected \subseteq interrupted

BrokerInv == BrokerTypes /\ OnePlace /\ Settled

\* At the start only the lifespan runs, and at the end nobody.
PhasesOK ==
    /\ pc["main"] \in {"start", "dial", "setup", "wait"} => pc["task"] = "none"
    /\ pc["main"] \in {"disconnecting", "stopped"} => pc["task"] \in {"none", "ended"}

\* Who waits for another attempt has one left.
WaitOK == \A p \in Coroutines : pc[p] = "wait" => attempt < Retries(p)

HandOK == pc["task"] \in {"check", "handle"} => hand \in Messages

\* The flag is up only while the consumer is at its queue.
ConsumingOK == consuming => pc["task"] \in {"iterate", "check", "handle", "leave"}

\* Whoever uses a channel has an open connection, only an open connection has
\* requests on it, and the last one to leave closes it.
LinkOK ==
    /\ connection # "open" => unacked = {}
    /\ declared > 0 => \/ connection = "open"
                       \/ pc["task"] = "ended"
                       \/ pc["main"] = "stopped"
    /\ \A p \in Coroutines : pc[p] = "setup" => connection = "open"
    /\ pc["task"] \in {"iterate", "check", "handle", "leave"} => connection = "open"
    /\ pc["main"] = "stopped" => connection # "open"

\* Only the cancellation has rejected a request, and it comes once to a handler.
LostOK ==
    /\ Cardinality(rejected) <= 1
    /\ rejected # {} => \/ pc["main"] = "stopping" /\ pc["task"] \in {"closing", "ended"}
                        \/ pc["main"] \in {"disconnecting", "stopped"}

ControlTypes ==
    /\ up \in BOOLEAN
    /\ connection \in {"none", "open", "closed"}
    /\ declared \in 0..3
    /\ attempt \in Nat \ {0}
    /\ \A p \in Coroutines : Connecting(p) => attempt <= Retries(p)
    /\ consuming \in BOOLEAN
    /\ shouldStop \in BOOLEAN
    /\ buffer \subseteq Messages
    /\ hand \in Messages \cup {Nobody}
    /\ pc \in [Coroutines -> MainPlaces \cup TaskPlaces]
    /\ pc["main"] \in MainPlaces
    /\ pc["task"] \in TaskPlaces
    /\ budget \in [outages : 0..MaxOutages, faults : 0..MaxFaults]

ControlInv == ControlTypes /\ PhasesOK /\ WaitOK /\ HandOK /\ ConsumingOK /\ LinkOK /\ LostOK

IInv == BrokerInv /\ ControlInv

QueueStep == [Queue!Next]_(Queue!queueVars)

-----------------------------------------------------------------------------
(* The broker *)

LEMMA BrokerUntouched ==
    ASSUME BrokerInv, UNCHANGED <<broker, history>>
    PROVE  BrokerInv' /\ QueueStep
<1>1. BrokerInv'
  BY DEF BrokerInv, BrokerTypes, OnePlace, Settled, broker, history
<1>2. UNCHANGED Queue!queueVars
  BY DEF Queue!queueVars, Place, broker, history
<1> QED
  BY <1>1, <1>2 DEF QueueStep

\* Requests that were handed out are ready again.
LEMMA ReturnSafe ==
    ASSUME BrokerInv, NEW S \in SUBSET unacked,
           ready' = ready \cup S, unacked' = unacked \ S,
           UNCHANGED <<acked, rejected>>, UNCHANGED history
    PROVE  BrokerInv' /\ QueueStep
<1> USE DEF BrokerInv, history
<1>1. BrokerTypes'
  BY DEF BrokerTypes
<1>2. OnePlace'
  BY DEF BrokerTypes, OnePlace
<1>3. Settled'
  BY DEF Settled
<1>4. \A m \in S : Place[m] = "held"
  BY DEF Place, OnePlace, BrokerTypes
<1>5. Place' = [m \in Messages |-> IF m \in S THEN "ready" ELSE Place[m]]
  BY DEF Place, OnePlace, BrokerTypes
<1>6. Queue!Return(S)
  BY <1>4, <1>5 DEF Queue!Return
<1>7. S \in SUBSET Messages
  BY DEF BrokerTypes
<1> QED
  BY <1>1, <1>2, <1>3, <1>6, <1>7 DEF QueueStep, Queue!Next

LEMMA GiveBackSafe ==
    ASSUME BrokerInv, GiveBack, UNCHANGED history
    PROVE  BrokerInv' /\ QueueStep
BY ReturnSafe DEF GiveBack

LEMMA CloseSafe ==
    ASSUME BrokerInv, Close, UNCHANGED history
    PROVE  BrokerInv' /\ QueueStep
BY GiveBackSafe, BrokerUntouched DEF Close

\* A request that was handed out is settled by its handler, or it was taken
\* back meanwhile, and nothing happens to it.
LEMMA FinishSafe ==
    ASSUME BrokerInv, NEW m \in Messages,
           handled' = handled \cup {m}, acked' = acked \cup (unacked \cap {m}),
           unacked' = unacked \ {m}, UNCHANGED <<ready, rejected, interrupted>>
    PROVE  BrokerInv' /\ QueueStep
<1> USE DEF BrokerInv
<1>1. BrokerTypes' /\ OnePlace' /\ Settled'
  BY DEF BrokerTypes, OnePlace, Settled
<1>2. CASE m \in unacked
  <2>1. /\ Place[m] = "held"
        /\ Place' = [Place EXCEPT ![m] = "done"]
    BY <1>2 DEF Place, BrokerTypes, OnePlace
  <2>2. Queue!Finish(m)
    BY <2>1 DEF Queue!Finish
  <2> QED
    BY <1>1, <2>2 DEF QueueStep, Queue!Next
<1>3. CASE m \notin unacked
  <2>1. Place' = Place
    BY <1>3 DEF Place
  <2>2. Queue!Finish(m)
    BY <2>1 DEF Queue!Finish
  <2> QED
    BY <1>1, <2>2 DEF QueueStep, Queue!Next
<1> QED
  BY <1>2, <1>3

LEMMA InterruptSafe ==
    ASSUME BrokerInv, NEW m \in Messages,
           interrupted' = interrupted \cup {m},
           rejected' = rejected \cup (unacked \cap {m}),
           unacked' = unacked \ {m}, UNCHANGED <<ready, acked, handled>>
    PROVE  BrokerInv' /\ QueueStep
<1> USE DEF BrokerInv
<1>1. BrokerTypes' /\ OnePlace' /\ Settled'
  BY DEF BrokerTypes, OnePlace, Settled
<1>2. CASE m \in unacked
  <2>1. /\ Place[m] = "held"
        /\ Place' = [Place EXCEPT ![m] = "dropped"]
    BY <1>2 DEF Place, BrokerTypes, OnePlace
  <2>2. Queue!Interrupt(m)
    BY <2>1 DEF Queue!Interrupt
  <2> QED
    BY <1>1, <2>2 DEF QueueStep, Queue!Next
<1>3. CASE m \notin unacked
  <2>1. Place' = Place
    BY <1>3 DEF Place
  <2>2. Queue!Interrupt(m)
    BY <2>1 DEF Queue!Interrupt
  <2> QED
    BY <1>1, <2>2 DEF QueueStep, Queue!Next
<1> QED
  BY <1>2, <1>3

-----------------------------------------------------------------------------
(* The actions *)

LEMMA ConnectConsumerSafe ==
    ASSUME IInv, ConnectConsumer
    PROVE  IInv' /\ QueueStep
<1>1. BrokerInv' /\ QueueStep
  BY BrokerUntouched DEF IInv, ConnectConsumer, broker, history
<1>2. ControlInv'
  BY ManagerLifecycleAssumption
  DEF IInv, ControlInv, ControlTypes, PhasesOK, WaitOK, HandOK, ConsumingOK,
     LinkOK, LostOK, Coroutines, Connecting, Retries, MainPlaces, TaskPlaces,
     ConnectConsumer, Goto, link, flags, local, broker, history
<1> QED
  BY <1>1, <1>2 DEF IInv

\* What is left of the state when an attempt to connect is over.
AttemptOver ==
    UNCHANGED <<up, broker, history, connection, attempt, shouldStop, local, budget>>

LEMMA ReturnKeeps ==
    ASSUME ControlInv, NEW p \in Coroutines, Connecting(p),
           NEW progress \in 0..3, progress > 0 => connection = "open",
           declared' = progress, Return(p, progress), AttemptOver
    PROVE  ControlInv'
<1>1. CASE p = "main"
  BY <1>1, ManagerLifecycleAssumption
  DEF ControlInv, ControlTypes, PhasesOK, WaitOK, HandOK, ConsumingOK,
     LinkOK, LostOK, Coroutines, Connecting, Retries, MainPlaces,
     TaskPlaces, Goto, local, broker, history,
     Return, AttemptOver
<1>2. CASE p = "task" /\ progress >= 2
  <2>1. /\ pc' = [pc EXCEPT !["task"] = "iterate"]
        /\ consuming' = TRUE
    BY <1>2 DEF Return, Goto, ControlInv, ControlTypes
  <2> QED
    BY <1>2, <2>1, ManagerLifecycleAssumption
    DEF ControlInv, ControlTypes, PhasesOK, WaitOK, HandOK, ConsumingOK,
       LinkOK, LostOK, Coroutines, Connecting, Retries, MainPlaces,
       TaskPlaces, Goto, local, broker, history,
       AttemptOver
<1>3. CASE p = "task" /\ ~(progress >= 2)
  <2>1. /\ pc' = [pc EXCEPT !["task"] = "pause"]
        /\ consuming' = consuming
    BY <1>3 DEF Return, Goto, ControlInv, ControlTypes
  <2> QED
    BY <1>3, <2>1, ManagerLifecycleAssumption
    DEF ControlInv, ControlTypes, PhasesOK, WaitOK, HandOK, ConsumingOK,
       LinkOK, LostOK, Coroutines, Connecting, Retries, MainPlaces,
       TaskPlaces, Goto, local, broker, history,
       AttemptOver
<1> QED
  BY <1>1, <1>2, <1>3 DEF Coroutines

LEMMA AttemptFailsKeeps ==
    ASSUME ControlInv, NEW p \in Coroutines, Connecting(p),
           NEW progress \in 0..3, progress > 0 => connection = "open",
           declared' = progress, AttemptFails(p, progress), AttemptOver
    PROVE  ControlInv'
<1>1. CASE attempt < Retries(p)
  <2>1. pc' = [pc EXCEPT ![p] = "wait"] /\ consuming' = consuming
    BY <1>1 DEF AttemptFails, Goto
  <2>2. CASE p = "main"
    BY <1>1, <2>1, <2>2, ManagerLifecycleAssumption
    DEF ControlInv, ControlTypes, PhasesOK, WaitOK, HandOK, ConsumingOK,
       LinkOK, LostOK, Coroutines, Connecting, Retries, MainPlaces,
       TaskPlaces, Goto, local, broker, history,
       AttemptOver
  <2>3. CASE p = "task"
    BY <1>1, <2>1, <2>3, ManagerLifecycleAssumption
    DEF ControlInv, ControlTypes, PhasesOK, WaitOK, HandOK, ConsumingOK,
       LinkOK, LostOK, Coroutines, Connecting, Retries, MainPlaces,
       TaskPlaces, Goto, local, broker, history,
       AttemptOver
  <2> QED
    BY <2>2, <2>3 DEF Coroutines
<1>2. CASE ~(attempt < Retries(p))
  BY <1>2, ReturnKeeps DEF AttemptFails
<1> QED
  BY <1>1, <1>2

LEMMA DialSafe ==
    ASSUME IInv, NEW p \in Coroutines, Dial(p)
    PROVE  IInv' /\ QueueStep
<1>1. BrokerInv' /\ QueueStep
  BY BrokerUntouched DEF IInv, Dial, broker, history
<1>2. ControlInv'
  <2>1. CASE up
    <3>1. /\ pc' = [pc EXCEPT ![p] = "setup"]
          /\ connection' = "open"
          /\ UNCHANGED <<up, broker, history, declared, attempt, flags, local, budget>>
      BY <2>1 DEF Dial, Goto, flags
    <3>2. pc[p] = "dial"
      BY DEF Dial
    <3> QED
      BY <2>1, <3>1, <3>2, ManagerLifecycleAssumption
      DEF IInv, ControlInv, ControlTypes, PhasesOK, WaitOK, HandOK, ConsumingOK,
         LinkOK, LostOK, Coroutines, Connecting, Retries, MainPlaces,
         TaskPlaces, Goto, local, broker, history,
         flags
  <2>2. CASE ~up
    <3>1. /\ declared \in 0..3
          /\ declared > 0 => connection = "open"
          /\ Connecting(p)
      BY DEF IInv, ControlInv, ControlTypes, LinkOK, PhasesOK, Connecting, Dial,
         Coroutines
    <3>2. AttemptFails(p, declared) /\ declared' = declared /\ AttemptOver
      BY <2>2 DEF Dial, AttemptOver, broker, history, local
    <3> QED
      BY <3>1, <3>2, AttemptFailsKeeps DEF IInv
  <2> QED
    BY <2>1, <2>2
<1> QED
  BY <1>1, <1>2 DEF IInv

LEMMA DeclareSafe ==
    ASSUME IInv, NEW p \in Coroutines, Declare(p)
    PROVE  IInv' /\ QueueStep
<1>1. BrokerInv' /\ QueueStep
  BY BrokerUntouched DEF IInv, Declare, broker, history
<1>2. ControlInv'
  <2>1. declared' \in 0..3 /\ Connecting(p) /\ connection = "open" /\ AttemptOver
    BY DEF IInv, ControlInv, ControlTypes, LinkOK, Connecting, Declare, Progress,
       AttemptOver, broker, history, local
  <2>2. CASE up
    BY <2>1, <2>2, ReturnKeeps DEF IInv, Declare
  <2>3. CASE ~up
    BY <2>1, <2>3, AttemptFailsKeeps DEF IInv, Declare
  <2> QED
    BY <2>2, <2>3
<1> QED
  BY <1>1, <1>2 DEF IInv

LEMMA NextAttemptSafe ==
    ASSUME IInv, NEW p \in Coroutines, NextAttempt(p)
    PROVE  IInv' /\ QueueStep
<1>1. BrokerInv' /\ QueueStep
  BY BrokerUntouched DEF IInv, NextAttempt, broker, history
<1>2. ControlInv'
  <2>1. CASE p = "main"
    BY <2>1, ManagerLifecycleAssumption
    DEF IInv, ControlInv, ControlTypes, PhasesOK, WaitOK, HandOK, ConsumingOK,
       LinkOK, LostOK, Coroutines, Connecting, Retries, MainPlaces, TaskPlaces,
       NextAttempt, Goto, flags, local, broker, history
  <2>2. CASE p = "task"
    BY <2>2, ManagerLifecycleAssumption
    DEF IInv, ControlInv, ControlTypes, PhasesOK, WaitOK, HandOK, ConsumingOK,
       LinkOK, LostOK, Coroutines, Connecting, Retries, MainPlaces, TaskPlaces,
       NextAttempt, Goto, flags, local, broker, history
  <2> QED
    BY <2>1, <2>2 DEF Coroutines
<1> QED
  BY <1>1, <1>2 DEF IInv

LEMMA TaskEndedSafe ==
    ASSUME IInv, TaskEnded
    PROVE  IInv' /\ QueueStep
<1>1. BrokerInv' /\ QueueStep
  BY BrokerUntouched DEF IInv, TaskEnded, broker, history
<1>2. ControlInv'
  BY ManagerLifecycleAssumption
  DEF IInv, ControlInv, ControlTypes, PhasesOK, WaitOK, HandOK, ConsumingOK,
     LinkOK, LostOK, Coroutines, Connecting, Retries, MainPlaces, TaskPlaces,
     TaskEnded, Goto, link, flags, local, broker, history
<1> QED
  BY <1>1, <1>2 DEF IInv

LEMMA DisconnectSafe ==
    ASSUME IInv, Disconnect
    PROVE  IInv' /\ QueueStep
<1>1. BrokerInv' /\ QueueStep
  BY CloseSafe DEF IInv, Disconnect, history
<1>2. ControlInv'
  BY ManagerLifecycleAssumption, ZenonT(60)
  DEF IInv, ControlInv, ControlTypes, PhasesOK, WaitOK, HandOK, ConsumingOK,
     LinkOK, LostOK, Coroutines, Connecting, Retries, MainPlaces, TaskPlaces,
     Disconnect, Goto, Close, GiveBack, broker, history, local
<1> QED
  BY <1>1, <1>2 DEF IInv

LEMMA CloseStaleSafe ==
    ASSUME IInv, CloseStale
    PROVE  IInv' /\ QueueStep
<1>1. BrokerInv' /\ QueueStep
  BY GiveBackSafe, BrokerUntouched DEF IInv, CloseStale
<1>2. ControlInv'
  BY ManagerLifecycleAssumption
  DEF IInv, ControlInv, ControlTypes, PhasesOK, WaitOK, HandOK, ConsumingOK,
     LinkOK, LostOK, Coroutines, Connecting, Retries, MainPlaces, TaskPlaces,
     CloseStale, Goto, GiveBack, broker, history, flags, local
<1> QED
  BY <1>1, <1>2 DEF IInv

LEMMA WakeUpSafe ==
    ASSUME IInv, WakeUp
    PROVE  IInv' /\ QueueStep
<1>1. BrokerInv' /\ QueueStep
  BY BrokerUntouched DEF IInv, WakeUp, broker, history
<1>2. ControlInv'
  BY ManagerLifecycleAssumption
  DEF IInv, ControlInv, ControlTypes, PhasesOK, WaitOK, HandOK, ConsumingOK,
     LinkOK, LostOK, Coroutines, Connecting, Retries, MainPlaces, TaskPlaces,
     WakeUp, Goto, link, local, broker, history
<1> QED
  BY <1>1, <1>2 DEF IInv

LEMMA TakeSafe ==
    ASSUME IInv, NEW m \in Messages, Take(m)
    PROVE  IInv' /\ QueueStep
<1>1. BrokerInv' /\ QueueStep
  BY BrokerUntouched DEF IInv, Take, broker, history
<1>2. ControlInv'
  BY ManagerLifecycleAssumption
  DEF IInv, ControlInv, ControlTypes, PhasesOK, WaitOK, HandOK, ConsumingOK,
     LinkOK, LostOK, Coroutines, Connecting, Retries, MainPlaces, TaskPlaces,
     Take, Goto, link, flags, broker, history
<1> QED
  BY <1>1, <1>2 DEF IInv

LEMMA CheckPassesSafe ==
    ASSUME IInv, CheckPasses
    PROVE  IInv' /\ QueueStep
<1>1. BrokerInv' /\ QueueStep
  BY BrokerUntouched DEF IInv, CheckPasses, broker, history
<1>2. ControlInv'
  BY ManagerLifecycleAssumption
  DEF IInv, ControlInv, ControlTypes, PhasesOK, WaitOK, HandOK, ConsumingOK,
     LinkOK, LostOK, Coroutines, Connecting, Retries, MainPlaces, TaskPlaces,
     CheckPasses, Goto, link, flags, local, broker, history
<1> QED
  BY <1>1, <1>2 DEF IInv

LEMMA HandlerEndsSafe ==
    ASSUME IInv, HandlerEnds
    PROVE  IInv' /\ QueueStep
<1>1. BrokerInv' /\ QueueStep
  BY FinishSafe DEF IInv, ControlInv, HandOK, HandlerEnds
<1>2. ControlInv'
  BY ManagerLifecycleAssumption
  DEF IInv, ControlInv, ControlTypes, PhasesOK, WaitOK, HandOK, ConsumingOK,
     LinkOK, LostOK, Coroutines, Connecting, Retries, MainPlaces, TaskPlaces,
     HandlerEnds, Goto, link, flags
<1> QED
  BY <1>1, <1>2 DEF IInv

LEMMA LeaveSafe ==
    ASSUME IInv, Leave
    PROVE  IInv' /\ QueueStep
<1>1. BrokerInv' /\ QueueStep
  <2>1. unacked \ buffer = unacked \ (unacked \cap buffer)
    OBVIOUS
  <2> QED
    BY <2>1, ReturnSafe DEF IInv, Leave
<1>2. ControlInv'
  BY ManagerLifecycleAssumption
  DEF IInv, ControlInv, ControlTypes, PhasesOK, WaitOK, HandOK, ConsumingOK,
     LinkOK, LostOK, Coroutines, Connecting, Retries, MainPlaces, TaskPlaces,
     Leave, Goto, link, history
<1> QED
  BY <1>1, <1>2 DEF IInv

LEMMA ClosingSafe ==
    ASSUME IInv, Closing
    PROVE  IInv' /\ QueueStep
<1>1. BrokerInv' /\ QueueStep
  BY CloseSafe DEF IInv, Closing
<1>2. ControlInv'
  BY ManagerLifecycleAssumption
  DEF IInv, ControlInv, ControlTypes, PhasesOK, WaitOK, HandOK, ConsumingOK,
     LinkOK, LostOK, Coroutines, Connecting, Retries, MainPlaces, TaskPlaces,
     Closing, Goto, Close, GiveBack, broker, history, flags, local
<1> QED
  BY <1>1, <1>2 DEF IInv

LEMMA StartupTimesOutSafe ==
    ASSUME IInv, StartupTimesOut
    PROVE  IInv' /\ QueueStep
<1>1. BrokerInv' /\ QueueStep
  BY BrokerUntouched DEF IInv, StartupTimesOut, broker, history
<1>2. ControlInv'
  BY ManagerLifecycleAssumption
  DEF IInv, ControlInv, ControlTypes, PhasesOK, WaitOK, HandOK, ConsumingOK,
     LinkOK, LostOK, Coroutines, Connecting, Retries, MainPlaces, TaskPlaces,
     StartupTimesOut, Goto, Return, Progress, local, broker, history
<1> QED
  BY <1>1, <1>2 DEF IInv

LEMMA CheckFailsSafe ==
    ASSUME IInv, CheckFails
    PROVE  IInv' /\ QueueStep
<1>1. BrokerInv' /\ QueueStep
  BY BrokerUntouched DEF IInv, CheckFails, broker, history
<1>2. ControlInv'
  BY ManagerLifecycleAssumption
  DEF IInv, ControlInv, ControlTypes, PhasesOK, WaitOK, HandOK, ConsumingOK,
     LinkOK, LostOK, Coroutines, Connecting, Retries, MainPlaces, TaskPlaces,
     CheckFails, Goto, Fault, link, flags, broker, history
<1> QED
  BY <1>1, <1>2 DEF IInv

LEMMA IteratorRaisesSafe ==
    ASSUME IInv, IteratorRaises
    PROVE  IInv' /\ QueueStep
<1>1. BrokerInv' /\ QueueStep
  BY BrokerUntouched DEF IInv, IteratorRaises, broker, history
<1>2. ControlInv'
  BY ManagerLifecycleAssumption
  DEF IInv, ControlInv, ControlTypes, PhasesOK, WaitOK, HandOK, ConsumingOK,
     LinkOK, LostOK, Coroutines, Connecting, Retries, MainPlaces, TaskPlaces,
     IteratorRaises, Goto, link, flags, local, broker, history
<1> QED
  BY <1>1, <1>2 DEF IInv

LEMMA StopSafe ==
    ASSUME IInv, Stop
    PROVE  IInv' /\ QueueStep
<1>1. BrokerInv' /\ QueueStep
  BY BrokerUntouched DEF IInv, Stop, broker, history
<1>2. ControlInv'
  <2>1. CASE Started
    <3>1. /\ pc' = [pc EXCEPT !["main"] = "stopping"] /\ consuming' = FALSE
          /\ shouldStop' = TRUE
      BY <2>1 DEF Stop, Goto
    <3> QED
      BY <2>1, <3>1, ManagerLifecycleAssumption, ZenonT(60)
      DEF IInv, ControlInv, ControlTypes, PhasesOK, WaitOK, HandOK, ConsumingOK,
         LinkOK, LostOK, Coroutines, Connecting, Retries, MainPlaces, TaskPlaces,
         Stop, Started, broker, history, link, local
  <2>2. CASE ~Started
    <3>1. pc' = [pc EXCEPT !["main"] = "disconnecting"] /\ UNCHANGED flags
      BY <2>2 DEF Stop, Goto
    <3> QED
      BY <2>2, <3>1, ManagerLifecycleAssumption
      DEF IInv, ControlInv, ControlTypes, PhasesOK, WaitOK, HandOK, ConsumingOK,
         LinkOK, LostOK, Coroutines, Connecting, Retries, MainPlaces, TaskPlaces,
         Stop, Started, broker, history, link, local, flags
  <2> QED
    BY <2>1, <2>2
<1> QED
  BY <1>1, <1>2 DEF IInv

LEMMA DeliverSafe ==
    ASSUME IInv, NEW m \in Messages, Deliver(m)
    PROVE  IInv' /\ QueueStep
<1>1. BrokerInv' /\ QueueStep
  <2> USE DEF IInv, BrokerInv, Deliver, history
  <2>1. BrokerTypes' /\ OnePlace' /\ Settled'
    BY DEF BrokerTypes, OnePlace, Settled
  <2>2. /\ Place[m] = "ready"
        /\ Place' = [Place EXCEPT ![m] = "held"]
    BY DEF Place, BrokerTypes, OnePlace
  <2>3. Queue!Deliver(m)
    BY <2>2 DEF Queue!Deliver
  <2> QED
    BY <2>1, <2>3 DEF QueueStep, Queue!Next
<1>2. ControlInv'
  BY ManagerLifecycleAssumption
  DEF IInv, ControlInv, ControlTypes, PhasesOK, WaitOK, HandOK, ConsumingOK,
     LinkOK, LostOK, Coroutines, Connecting, Retries, MainPlaces, TaskPlaces,
     Deliver, link, flags, history
<1> QED
  BY <1>1, <1>2 DEF IInv

LEMMA OutageSafe ==
    ASSUME IInv, Outage
    PROVE  IInv' /\ QueueStep
<1>1. BrokerInv' /\ QueueStep
  BY GiveBackSafe DEF IInv, Outage
<1>2. ControlInv'
  BY ManagerLifecycleAssumption
  DEF IInv, ControlInv, ControlTypes, PhasesOK, WaitOK, HandOK, ConsumingOK,
     LinkOK, LostOK, Coroutines, Connecting, Retries, MainPlaces, TaskPlaces,
     Outage, GiveBack, link, flags, local, history
<1> QED
  BY <1>1, <1>2 DEF IInv

LEMMA OnlyTheLifespan ==
    ASSUME NEW f, NEW place \in MainPlaces,
           f = [main |-> place, task |-> "none"]
    PROVE  /\ f["main"] = place /\ f["task"] = "none"
           /\ f \in [Coroutines -> MainPlaces \cup TaskPlaces]
<1>1. f = [p \in {"main", "task"} |-> IF p = "main" THEN place ELSE "none"]
  OBVIOUS
<1>2. place \in MainPlaces \cup TaskPlaces /\ "none" \in MainPlaces \cup TaskPlaces
  BY DEF TaskPlaces
<1> QED
  BY <1>1, <1>2 DEF Coroutines

LEMMA CrashSafe ==
    ASSUME IInv, Crash
    PROVE  IInv' /\ QueueStep
<1>1. BrokerInv' /\ QueueStep
  BY GiveBackSafe DEF IInv, Crash
<1>2. \/ /\ Stopping
         /\ pc' = [main |-> "stopped", task |-> "none"]
      \/ /\ ~ Stopping
         /\ pc' = [main |-> "start", task |-> "none"]
  BY DEF Crash
<1>3. /\ pc'["main"] = "stopped" \/ (pc'["main"] = "start" /\ ~ Stopping)
      /\ pc'["task"] = "none"
      /\ pc' \in [Coroutines -> MainPlaces \cup TaskPlaces]
  <2>1. "stopped" \in MainPlaces /\ "start" \in MainPlaces
    BY DEF MainPlaces
  <2>2. CASE ~ Stopping /\ pc' = [main |-> "start", task |-> "none"]
    BY <2>1, <2>2, OnlyTheLifespan
  <2>3. CASE pc' = [main |-> "stopped", task |-> "none"]
    BY <2>1, <2>3, OnlyTheLifespan
  <2> QED
    BY <1>2, <2>2, <2>3
<1>4. ControlTypes'
  <2>1. /\ up' = up /\ connection' = "none" /\ declared' = 0 /\ attempt' = 1
        /\ consuming' = FALSE /\ shouldStop' = FALSE
        /\ buffer' = {} /\ hand' = Nobody
    BY DEF Crash
  <2>2. budget' \in [outages : 0..MaxOutages, faults : 0..MaxFaults]
    BY ManagerLifecycleAssumption DEF IInv, ControlInv, ControlTypes, Crash, Fault
  <2>3. \A p \in Coroutines : ~ Connecting(p)'
    BY <1>3 DEF Connecting, Coroutines
  <2>4. pc'["main"] \in MainPlaces /\ pc'["task"] \in TaskPlaces
    BY <1>3 DEF MainPlaces, TaskPlaces
  <2>5. up' \in BOOLEAN /\ consuming' \in BOOLEAN /\ shouldStop' \in BOOLEAN
    BY <2>1 DEF IInv, ControlInv, ControlTypes
  <2>6. /\ connection' \in {"none", "open", "closed"}
        /\ declared' \in 0..3
        /\ attempt' \in Nat \ {0}
    BY <2>1
  <2>7. buffer' \subseteq Messages /\ hand' \in Messages \cup {Nobody}
    BY <2>1
  <2> QED
    BY <1>3, <2>2, <2>3, <2>4, <2>5, <2>6, <2>7 DEF ControlTypes
<1>5. LostOK'
  BY <1>3 DEF IInv, ControlInv, LostOK, Crash, GiveBack, Stopping
<1>6. (PhasesOK /\ WaitOK /\ HandOK /\ ConsumingOK /\ LinkOK)'
  BY <1>3 DEF PhasesOK, WaitOK, HandOK, ConsumingOK, LinkOK, Coroutines, Crash,
     GiveBack
<1> QED
  BY <1>1, <1>4, <1>5, <1>6 DEF IInv, ControlInv

LEMMA AtMostOne ==
    ASSUME NEW S, NEW x, S = {} \/ S = {x}
    PROVE  Cardinality(S) <= 1
<1>1. Cardinality({}) = 0 /\ Cardinality({x}) = 1
  BY FS_EmptySet, FS_Singleton
<1> QED
  BY <1>1

LEMMA CancelSafe ==
    ASSUME IInv, Cancel
    PROVE  IInv' /\ QueueStep
<1>1. CASE pc["task"] = "handle"
  <2>1. /\ interrupted' = interrupted \cup {hand}
        /\ rejected' = rejected \cup (unacked \cap {hand})
        /\ unacked' = unacked \ {hand}
        /\ pc' = [pc EXCEPT !["task"] = "closing"]
    BY <1>1 DEF Cancel, Goto
  <2>2. BrokerInv' /\ QueueStep
    BY <1>1, <2>1, InterruptSafe DEF IInv, ControlInv, HandOK, Cancel
  <2>3. rejected = {}
    BY <1>1 DEF IInv, ControlInv, LostOK, PhasesOK, Cancel
  <2>4. rejected' = {} \/ rejected' = {hand}
    BY <2>1, <2>3
  <2>5. Cardinality(rejected') <= 1
    BY <2>4, AtMostOne
  <2>6. ControlInv'
    BY <1>1, <2>1, <2>5, ManagerLifecycleAssumption
    DEF IInv, ControlInv, ControlTypes, PhasesOK, WaitOK, HandOK, ConsumingOK,
       LinkOK, LostOK, Coroutines, Connecting, Retries, MainPlaces, TaskPlaces,
       Cancel, link
  <2> QED
    BY <2>2, <2>6 DEF IInv
<1>2. CASE pc["task"] # "handle"
  <2>1. BrokerInv' /\ QueueStep
    BY <1>2, BrokerUntouched DEF IInv, Cancel, broker, history
  <2>2. ControlInv'
    BY <1>2, ManagerLifecycleAssumption
    DEF IInv, ControlInv, ControlTypes, PhasesOK, WaitOK, HandOK, ConsumingOK,
       LinkOK, LostOK, Coroutines, Connecting, Retries, MainPlaces, TaskPlaces,
       Cancel, Goto, link
  <2> QED
    BY <2>1, <2>2 DEF IInv
<1> QED
  BY <1>1, <1>2

-----------------------------------------------------------------------------
(* The theorems *)

LEMMA InitSafe == Init => IInv /\ Queue!Init
<1> SUFFICES ASSUME Init PROVE IInv /\ Queue!Init
  OBVIOUS
<1>1. BrokerInv
  BY DEF Init, BrokerInv, BrokerTypes, OnePlace, Settled
<1>2. Cardinality(rejected) <= 1
  BY FS_EmptySet DEF Init
<1>3. pc = [main |-> "start", task |-> "none"] /\ "start" \in MainPlaces
  BY DEF Init, MainPlaces
<1>4. /\ pc["main"] = "start"
      /\ pc["task"] = "none"
      /\ pc \in [Coroutines -> MainPlaces \cup TaskPlaces]
  BY <1>3, OnlyTheLifespan
<1>5. ControlInv
  <2>1. \A p \in Coroutines : ~ Connecting(p)
    BY <1>4 DEF Connecting, Coroutines
  <2>2. /\ up \in BOOLEAN /\ connection = "none" /\ declared = 0 /\ attempt = 1
        /\ consuming = FALSE /\ shouldStop = FALSE
        /\ buffer = {} /\ hand = Nobody /\ rejected = {} /\ unacked = {}
    BY DEF Init
  <2>3. budget \in [outages : 0..MaxOutages, faults : 0..MaxFaults]
    BY ManagerLifecycleAssumption DEF Init
  <2>4. pc["main"] \in MainPlaces /\ pc["task"] \in TaskPlaces
    BY <1>4 DEF MainPlaces, TaskPlaces
  <2>5. consuming \in BOOLEAN /\ shouldStop \in BOOLEAN
    BY <2>2
  <2>6. /\ connection \in {"none", "open", "closed"}
        /\ declared \in 0..3
        /\ attempt \in Nat \ {0}
    BY <2>2
  <2>7. buffer \subseteq Messages /\ hand \in Messages \cup {Nobody}
    BY <2>2
  <2>8. ControlTypes
    BY <1>4, <2>1, <2>2, <2>3, <2>4, <2>5, <2>6, <2>7 DEF ControlTypes
  <2>9. PhasesOK /\ WaitOK /\ HandOK /\ ConsumingOK /\ LinkOK /\ LostOK
    BY <1>2, <1>4, <2>2
    DEF PhasesOK, WaitOK, HandOK, ConsumingOK, LinkOK, LostOK, Coroutines
  <2> QED
    BY <2>8, <2>9 DEF ControlInv
<1>6. Queue!Init
  BY DEF Init, Queue!Init, Place
<1> QED
  BY <1>1, <1>5, <1>6 DEF IInv

\* Every step keeps the invariant, and is a step of the queue or none.
LEMMA NextSafe == IInv /\ [Next]_vars => IInv' /\ QueueStep
<1> SUFFICES ASSUME IInv, [Next]_vars PROVE IInv' /\ QueueStep
  OBVIOUS
<1>1. CASE UNCHANGED vars
  <2>1. BrokerInv' /\ QueueStep
    BY <1>1, BrokerUntouched DEF IInv, vars
  <2>2. ControlInv'
    BY <1>1 DEF IInv, ControlInv, ControlTypes, PhasesOK, WaitOK, HandOK, ConsumingOK,
       LinkOK, LostOK, Connecting, vars, broker, history, link, flags, local
  <2> QED
    BY <2>1, <2>2 DEF IInv
<1>2. ASSUME NEW p \in Coroutines, Connect(p)
      PROVE  IInv' /\ QueueStep
  BY <1>2, DialSafe, DeclareSafe, NextAttemptSafe DEF Connect
<1>3. CASE MainStep
  BY <1>2, <1>3, ConnectConsumerSafe, TaskEndedSafe, DisconnectSafe
  DEF MainStep, Coroutines
<1>4. CASE TaskStep
  BY <1>2, <1>4, CloseStaleSafe, WakeUpSafe, TakeSafe, CheckPassesSafe,
     HandlerEndsSafe, LeaveSafe, ClosingSafe DEF TaskStep, Coroutines
<1>5. CASE \E m \in Messages : Deliver(m)
  BY <1>5, DeliverSafe
<1>6. CASE \/ StartupTimesOut \/ CheckFails \/ IteratorRaises
           \/ Stop \/ Cancel \/ Outage \/ Crash
  BY <1>6, StartupTimesOutSafe, CheckFailsSafe, IteratorRaisesSafe, StopSafe,
     CancelSafe, OutageSafe, CrashSafe
<1> QED
  BY <1>1, <1>3, <1>4, <1>5, <1>6 DEF Next

\* The state has its types in every instance, and no attempt to connect goes
\* beyond the last one, however often the broker goes away.
THEOREM TypeCorrect == Spec => []TypeOK
<1>1. IInv => TypeOK
  BY DEF IInv, BrokerInv, BrokerTypes, ControlInv, ControlTypes, TypeOK
<1> QED
  BY <1>1, InitSafe, NextSafe, PTL DEF Spec

\* Whatever fails, the health endpoint never calls a consumer healthy that is
\* not at its queue.
THEOREM HealthIsHonest == Spec => []HealthyMeansConsuming
<1>1. IInv => HealthyMeansConsuming
  BY DEF IInv, ControlInv, ConsumingOK, HealthyMeansConsuming, Healthy
<1> QED
  BY <1>1, InitSafe, NextSafe, PTL DEF Spec

\* With any number of requests, failures and outages, the manager's stop costs
\* one request at most, and nothing else costs any.
THEOREM LosesOneAtMost == Spec => []OnlyShutdownLosesOne
<1>1. IInv => OnlyShutdownLosesOne
  BY DEF IInv, BrokerInv, Settled, ControlInv, LostOK, OnlyShutdownLosesOne, Stopping
<1> QED
  BY <1>1, InitSafe, NextSafe, PTL DEF Spec

\* A manager that has stopped holds nothing, wherever its consumer was.
THEOREM StopsClean == Spec => []StoppedIsClean
<1>1. IInv => StoppedIsClean
  BY DEF IInv, ControlInv, PhasesOK, ConsumingOK, LinkOK, StoppedIsClean
<1> QED
  BY <1>1, InitSafe, NextSafe, PTL DEF Spec

\* The manager's consumer is a worker of the queue.
THEOREM ManagerImplementsWorkQueue == Spec => ImplementsWorkQueue
<1>1. IInv /\ [Next]_vars => [Queue!Next]_(Queue!queueVars)
  BY NextSafe DEF QueueStep
<1> QED
  BY <1>1, InitSafe, NextSafe, PTL
  DEF Spec, ImplementsWorkQueue, Queue!Spec

=============================================================================
