-------------------------- MODULE WorkerLoopProofs --------------------------
(***************************************************************************)
(* Proofs about WorkerLoop, for any workers, queues and failures: its type *)
(* invariant with the bound of the reconnect delay, and that the loops     *)
(* implement WorkQueue.  Every step does at most one of four things to the *)
(* broker's state; one lemma for each says what it preserves.              *)
(*                                                                         *)
(* And about RetryBackoff, which the loops share with the other services:  *)
(* when the retry decorator stops, and which errors it tries again.        *)
(***************************************************************************)
EXTENDS WorkerLoop, FiniteSetTheorems, SequenceTheorems, TLAPS

BrokerTypes ==
    /\ ready \subseteq Messages
    /\ unacked \in [Workers -> SUBSET Messages]
    /\ late \subseteq Messages
    /\ acked \subseteq Messages
    /\ rejected \subseteq Messages
    /\ handled \subseteq Messages
    /\ interrupted \subseteq Messages

LoopTypes ==
    /\ pc \in [Workers -> Places]
    /\ hand \in [Workers -> Messages \cup {Nobody}]
    /\ signals \in [Workers -> 0..2]
    /\ failures \in [Workers -> 0..MaxConsecutiveFailures]
    /\ delay \in [Workers -> InitialDelay..MaxDelay]
    /\ budget \in [faults : 0..MaxFaults, signals : 0..MaxSignals]

\* A message is ready, with one worker, acked or rejected.
OnePlace ==
    /\ ready \cap acked = {}
    /\ ready \cap rejected = {}
    /\ acked \cap rejected = {}
    /\ \A w \in Workers : unacked[w] \cap (ready \cup acked \cup rejected) = {}
    /\ \A v, w \in Workers : v # w => unacked[v] \cap unacked[w] = {}

\* A worker that checks or handles has a message in hand, and failures are
\* counted up to the limit only on the way out.
HandOK ==
    \A w \in Workers :
        /\ pc[w] \in {"check", "handle"} => hand[w] \in Messages
        /\ pc[w] \notin {"cleanup", "gone"} => failures[w] < MaxConsecutiveFailures

BrokerInv == BrokerTypes /\ OnePlace
LoopInv == LoopTypes /\ HandOK

QueueStep == [Queue!Next]_(Queue!queueVars)

-----------------------------------------------------------------------------
(* The broker *)

\* A message that is handed out moves from the ready ones to one worker's.
LEMMA HandOutSafe ==
    ASSUME BrokerInv, NEW w \in Workers, NEW m \in ready, HandOut(w, m),
           UNCHANGED history, late' \subseteq Messages
    PROVE  BrokerInv' /\ QueueStep
<1> USE DEF BrokerInv, HandOut, history
<1>1. BrokerTypes'
  BY DEF BrokerTypes
<1>2. OnePlace'
  BY DEF BrokerTypes, OnePlace
<1>3. /\ Place[m] = "ready"
      /\ Place' = [Place EXCEPT ![m] = "held"]
  BY DEF Place, BrokerTypes, OnePlace
<1>4. Queue!Deliver(m)
  BY <1>3 DEF Queue!Deliver
<1> QED
  BY <1>1, <1>2, <1>4 DEF QueueStep, Queue!Next, BrokerTypes

\* Closing a connection makes ready what was handed out on it, and nothing else.
LEMMA GiveBackSafe ==
    ASSUME BrokerInv, NEW w \in Workers, GiveBack(w), UNCHANGED history
    PROVE  BrokerInv' /\ QueueStep
<1> USE DEF BrokerInv, GiveBack, history
<1>1. BrokerTypes'
  BY DEF BrokerTypes
<1>2. OnePlace'
  BY DEF BrokerTypes, OnePlace
<1>3. unacked[w] \in SUBSET Messages
  BY DEF BrokerTypes
<1>4. \A m \in unacked[w] : Place[m] = "held"
  BY <1>3 DEF Place, OnePlace
<1>5. Place' = [m \in Messages |->
                    IF m \in unacked[w] THEN "ready" ELSE Place[m]]
  BY <1>3 DEF Place, OnePlace
<1>6. Queue!Return(unacked[w])
  BY <1>4, <1>5 DEF Queue!Return
<1> QED
  BY <1>1, <1>2, <1>3, <1>6 DEF QueueStep, Queue!Next

\* A message is acked only after its handler's end, and only by its holder.
LEMMA AcknowledgeSafe ==
    ASSUME BrokerInv, NEW w \in Workers, NEW m \in Messages, Acknowledge(w, m),
           handled' = handled \cup {m}, UNCHANGED interrupted
    PROVE  BrokerInv' /\ QueueStep
<1> USE DEF BrokerInv, Acknowledge
<1>1. BrokerTypes'
  BY DEF BrokerTypes
<1>2. OnePlace'
  BY DEF BrokerTypes, OnePlace
<1>3. CASE m \in unacked[w]
  <2>1. /\ Place[m] = "held"
        /\ Place' = [Place EXCEPT ![m] = "done"]
    BY <1>3 DEF Place, BrokerTypes, OnePlace
  <2>2. Queue!Finish(m)
    BY <2>1 DEF Queue!Finish
  <2> QED
    BY <1>1, <1>2, <2>2 DEF QueueStep, Queue!Next
<1>4. CASE m \notin unacked[w]
  <2>1. Place' = Place
    BY <1>4 DEF Place
  <2>2. Queue!Finish(m)
    BY <2>1 DEF Queue!Finish
  <2> QED
    BY <1>1, <1>2, <2>2 DEF QueueStep, Queue!Next
<1> QED
  BY <1>3, <1>4

\* A message is rejected only when its handler is cut short, by its holder.
LEMMA RejectSafe ==
    ASSUME BrokerInv, NEW w \in Workers, NEW m \in Messages, Reject(w, m)
    PROVE  BrokerInv' /\ QueueStep
<1> USE DEF BrokerInv, Reject
<1>1. BrokerTypes'
  BY DEF BrokerTypes
<1>2. OnePlace'
  BY DEF BrokerTypes, OnePlace
<1>3. CASE m \in unacked[w]
  <2>1. /\ Place[m] = "held"
        /\ Place' = [Place EXCEPT ![m] = "dropped"]
    BY <1>3 DEF Place, BrokerTypes, OnePlace
  <2>2. Queue!Interrupt(m)
    BY <2>1 DEF Queue!Interrupt
  <2> QED
    BY <1>1, <1>2, <2>2 DEF QueueStep, Queue!Next
<1>4. CASE m \notin unacked[w]
  <2>1. Place' = Place
    BY <1>4 DEF Place
  <2>2. Queue!Interrupt(m)
    BY <2>1 DEF Queue!Interrupt
  <2> QED
    BY <1>1, <1>2, <2>2 DEF QueueStep, Queue!Next
<1> QED
  BY <1>3, <1>4

LEMMA BrokerUntouched ==
    ASSUME BrokerInv, UNCHANGED <<broker, history>>
    PROVE  BrokerInv' /\ QueueStep
<1>1. BrokerInv'
  BY DEF BrokerInv, BrokerTypes, OnePlace, broker, history
<1>2. UNCHANGED Queue!queueVars
  BY DEF Queue!queueVars, Place, broker, history
<1> QED
  BY <1>1, <1>2 DEF QueueStep

-----------------------------------------------------------------------------
(* The loop *)

\* The delay stays between its initial value and its maximum.
LEMMA LongerDelayInRange ==
    ASSUME NEW d \in InitialDelay..MaxDelay
    PROVE  LongerDelay(d, MaxDelay) \in InitialDelay..MaxDelay
BY WorkerLoopAssumption DEF LongerDelay, Smaller

LEMMA FaultTypes ==
    ASSUME budget \in [faults : 0..MaxFaults, signals : 0..MaxSignals],
           NEW kind, Fault(kind)
    PROVE  budget' \in [faults : 0..MaxFaults, signals : 0..MaxSignals]
BY WorkerLoopAssumption DEF Fault

LEMMA CountFailureSafe ==
    ASSUME LoopInv, NEW w \in Workers, CountFailure(w),
           pc[w] \notin {"cleanup", "gone"}, UNCHANGED signals,
           hand' \in [Workers -> Messages \cup {Nobody}],
           \A v \in Workers : v # w => hand'[v] = hand[v],
           budget' \in [faults : 0..MaxFaults, signals : 0..MaxSignals]
    PROVE  LoopInv'
<1> DEFINE tooMany == failures[w] + 1 >= MaxConsecutiveFailures
           backsOff == tooMany /\ ~ShutdownRequested(w)
<1>1. failures[w] \in 0..2
  BY DEF LoopInv, LoopTypes, HandOK, MaxConsecutiveFailures
<1>2. failures' \in [Workers -> 0..MaxConsecutiveFailures]
  BY <1>1 DEF CountFailure, LoopInv, LoopTypes, MaxConsecutiveFailures
<1>3. delay' \in [Workers -> InitialDelay..MaxDelay]
  BY LongerDelayInRange DEF CountFailure, LoopInv, LoopTypes
<1>4. pc' \in [Workers -> Places]
  BY DEF CountFailure, Goto, LoopInv, LoopTypes, Places
<1>5. LoopTypes'
  BY <1>2, <1>3, <1>4 DEF LoopInv, LoopTypes
<1>6. pc'[w] \in {"cleanup", "pause"}
  BY DEF CountFailure, Goto, LoopInv, LoopTypes
<1>7. pc'[w] = "pause" => failures'[w] < MaxConsecutiveFailures
  BY <1>1 DEF CountFailure, Goto, LoopInv, LoopTypes, MaxConsecutiveFailures
<1>8. \A v \in Workers : v # w => pc'[v] = pc[v] /\ failures'[v] = failures[v]
  BY DEF CountFailure, Goto, LoopInv, LoopTypes
<1>9. HandOK'
  BY <1>6, <1>7, <1>8 DEF LoopInv, HandOK
<1> QED
  BY <1>5, <1>9 DEF LoopInv

\* What every other step does to the loop of w.
LEMMA MoveSafe ==
    ASSUME LoopInv, NEW w \in Workers, NEW label \in Places, Goto(w, label),
           hand' \in [Workers -> Messages \cup {Nobody}],
           failures' \in [Workers -> 0..MaxConsecutiveFailures],
           delay' \in [Workers -> InitialDelay..MaxDelay],
           signals' \in [Workers -> 0..2],
           budget' \in [faults : 0..MaxFaults, signals : 0..MaxSignals],
           \A v \in Workers : v # w =>
               hand'[v] = hand[v] /\ failures'[v] = failures[v],
           label \in {"check", "handle"} => hand'[w] \in Messages,
           label \notin {"cleanup", "gone"} =>
               failures'[w] < MaxConsecutiveFailures
    PROVE  LoopInv'
<1>1. /\ pc'[w] = label
      /\ pc' \in [Workers -> Places]
      /\ \A v \in Workers : v # w => pc'[v] = pc[v]
  BY DEF Goto, LoopInv, LoopTypes
<1>2. LoopTypes'
  BY <1>1 DEF LoopTypes
<1>3. HandOK'
  BY <1>1 DEF LoopInv, HandOK
<1> QED
  BY <1>2, <1>3 DEF LoopInv

-----------------------------------------------------------------------------
(* The actions *)

IInv == BrokerInv /\ LoopInv

LEMMA BudgetOfSignals ==
    ASSUME LoopInv, NEW w \in Workers, Signal(w)
    PROVE  /\ budget' \in [faults : 0..MaxFaults, signals : 0..MaxSignals]
           /\ signals' \in [Workers -> 0..2]
BY WorkerLoopAssumption DEF LoopInv, LoopTypes, Signal

LEMMA CloseStaleSafe ==
    ASSUME IInv, NEW w \in Workers, CloseStale(w)
    PROVE  IInv' /\ QueueStep
<1>1. BrokerInv' /\ QueueStep
  BY GiveBackSafe DEF IInv, CloseStale, history
<1>2. LoopInv'
  <2>1. "connect" \in Places
    BY DEF Places, Onward
  <2> QED
    BY <2>1, MoveSafe DEF IInv, LoopInv, LoopTypes, HandOK, CloseStale, Reliably,
       MaxConsecutiveFailures
<1> QED
  BY <1>1, <1>2 DEF IInv

LEMMA ConnectSafe ==
    ASSUME IInv, NEW w \in Workers, Connect(w)
    PROVE  IInv' /\ QueueStep
<1>1. BrokerInv' /\ QueueStep
  BY BrokerUntouched DEF IInv, Connect, broker, history
<1>2. LoopInv'
  <2> DEFINE label == IF ShutdownRequested(w) THEN "cleanup" ELSE "get"
  <2>1. label \in Places /\ label \notin {"check", "handle"}
    BY DEF Places
  <2>2. /\ failures' \in [Workers -> 0..MaxConsecutiveFailures]
        /\ failures'[w] = 0
        /\ \A v \in Workers : v # w => failures'[v] = failures[v]
    BY DEF IInv, LoopInv, LoopTypes, Connect, MaxConsecutiveFailures
  <2>3. delay' \in [Workers -> InitialDelay..MaxDelay]
    BY WorkerLoopAssumption DEF IInv, LoopInv, LoopTypes, Connect
  <2> QED
    BY <2>1, <2>2, <2>3, MoveSafe
    DEF IInv, LoopInv, LoopTypes, Connect, Reliably, MaxConsecutiveFailures
<1> QED
  BY <1>1, <1>2 DEF IInv

LEMMA ConnectFailsSafe ==
    ASSUME IInv, NEW w \in Workers, ConnectFails(w)
    PROVE  IInv' /\ QueueStep
<1>1. BrokerInv' /\ QueueStep
  BY BrokerUntouched DEF IInv, ConnectFails, broker, history
<1>2. LoopInv'
  BY CountFailureSafe, FaultTypes DEF IInv, LoopInv, LoopTypes, ConnectFails
<1> QED
  BY <1>1, <1>2 DEF IInv

LEMMA WakeUpSafe ==
    ASSUME IInv, NEW w \in Workers, WakeUp(w)
    PROVE  IInv' /\ QueueStep
<1>1. BrokerInv' /\ QueueStep
  BY BrokerUntouched DEF IInv, WakeUp, broker, history
<1>2. LoopInv'
  <2>1. Onward(w) \in Places
    BY DEF Places, Onward
  <2> QED
    BY <2>1, MoveSafe DEF IInv, LoopInv, LoopTypes, HandOK, WakeUp, Onward, Reliably,
       MaxConsecutiveFailures
<1> QED
  BY <1>1, <1>2 DEF IInv

LEMMA TakeSafe ==
    ASSUME IInv, NEW w \in Workers, NEW m \in Messages, Take(w, m)
    PROVE  IInv' /\ QueueStep
<1>1. BrokerInv' /\ QueueStep
  BY HandOutSafe DEF IInv, Take, history, BrokerInv, BrokerTypes
<1>2. LoopInv'
  <2>1. CASE ShutdownRequested(w)
    <3>1. "cleanup" \in Places
      BY DEF Places
    <3> QED
      BY <2>1, <3>1, MoveSafe DEF IInv, LoopInv, LoopTypes, Take, Reliably
  <2>2. CASE ~ShutdownRequested(w)
    <3>1. PICK next \in {"check", "handle"} : Goto(w, next)
      BY <2>2 DEF Take
    <3>2. next \in Places
      BY DEF Places
    <3>3. hand' = [hand EXCEPT ![w] = m]
      BY <2>2 DEF Take
    <3> QED
      BY <3>1, <3>2, <3>3, MoveSafe
      DEF IInv, LoopInv, LoopTypes, HandOK, Take, Reliably
  <2> QED
    BY <2>1, <2>2
<1> QED
  BY <1>1, <1>2 DEF IInv

LEMMA TakeLateSafe ==
    ASSUME IInv, NEW w \in Workers, NEW m \in Messages, TakeLate(w, m)
    PROVE  IInv' /\ QueueStep
<1>1. BrokerInv' /\ QueueStep
  BY HandOutSafe DEF IInv, TakeLate, history, BrokerInv, BrokerTypes
<1>2. LoopInv'
  BY FaultTypes DEF IInv, LoopInv, LoopTypes, HandOK, TakeLate
<1> QED
  BY <1>1, <1>2 DEF IInv

LEMMA StopPollingSafe ==
    ASSUME IInv, NEW w \in Workers, StopPolling(w)
    PROVE  IInv' /\ QueueStep
<1>1. BrokerInv' /\ QueueStep
  BY BrokerUntouched DEF IInv, StopPolling, broker, history
<1>2. LoopInv'
  <2>1. "cleanup" \in Places
    BY DEF Places, Onward
  <2> QED
    BY <2>1, MoveSafe DEF IInv, LoopInv, LoopTypes, HandOK, StopPolling, Reliably,
       MaxConsecutiveFailures
<1> QED
  BY <1>1, <1>2 DEF IInv

LEMMA CheckPassesSafe ==
    ASSUME IInv, NEW w \in Workers, CheckPasses(w)
    PROVE  IInv' /\ QueueStep
<1>1. BrokerInv' /\ QueueStep
  BY BrokerUntouched DEF IInv, CheckPasses, broker, history
<1>2. LoopInv'
  <2>1. "handle" \in Places
    BY DEF Places, Onward
  <2> QED
    BY <2>1, MoveSafe DEF IInv, LoopInv, LoopTypes, HandOK, CheckPasses, Reliably,
       MaxConsecutiveFailures
<1> QED
  BY <1>1, <1>2 DEF IInv

LEMMA CheckFailsSafe ==
    ASSUME IInv, NEW w \in Workers, CheckFails(w)
    PROVE  IInv' /\ QueueStep
<1>1. BrokerInv' /\ QueueStep
  BY BrokerUntouched DEF IInv, CheckFails, broker, history
<1>2. LoopInv'
  BY CountFailureSafe, FaultTypes DEF IInv, LoopInv, LoopTypes, CheckFails
<1> QED
  BY <1>1, <1>2 DEF IInv

LEMMA HandlerEndsSafe ==
    ASSUME IInv, NEW w \in Workers, HandlerEnds(w)
    PROVE  IInv' /\ QueueStep
<1>1. BrokerInv' /\ QueueStep
  BY AcknowledgeSafe DEF IInv, LoopInv, HandOK, HandlerEnds
<1>2. LoopInv'
  <2>1. CASE Goto(w, IF ShutdownRequested(w) THEN "cleanup" ELSE "get")
             /\ UNCHANGED <<failures, delay>>
    <3> DEFINE label == IF ShutdownRequested(w) THEN "cleanup" ELSE "get"
    <3>1. label \in Places /\ label \notin {"check", "handle"}
      BY DEF Places
    <3> QED
      BY <2>1, <3>1, MoveSafe
      DEF IInv, LoopInv, LoopTypes, HandOK, HandlerEnds, Reliably
  <2>2. CASE CountFailure(w)
    BY <2>2, CountFailureSafe DEF IInv, LoopInv, LoopTypes, HandlerEnds, Reliably
  <2> QED
    BY <2>1, <2>2 DEF HandlerEnds
<1> QED
  BY <1>1, <1>2 DEF IInv

LEMMA HandlerTimesOutSafe ==
    ASSUME IInv, NEW w \in Workers, HandlerTimesOut(w)
    PROVE  IInv' /\ QueueStep
<1>1. BrokerInv' /\ QueueStep
  BY RejectSafe DEF IInv, LoopInv, HandOK, HandlerTimesOut
<1>2. LoopInv'
  <2>1. Onward(w) \in Places /\ Onward(w) \notin {"check", "handle"}
    BY DEF Places, Onward
  <2> QED
    BY <2>1, MoveSafe, FaultTypes
    DEF IInv, LoopInv, LoopTypes, HandOK, HandlerTimesOut
<1> QED
  BY <1>1, <1>2 DEF IInv

LEMMA FirstSignalSafe ==
    ASSUME IInv, NEW w \in Workers, FirstSignal(w)
    PROVE  IInv' /\ QueueStep
<1>1. BrokerInv' /\ QueueStep
  BY BrokerUntouched DEF IInv, FirstSignal, broker, history
<1>2. LoopInv'
  BY BudgetOfSignals DEF IInv, LoopInv, LoopTypes, HandOK, FirstSignal
<1> QED
  BY <1>1, <1>2 DEF IInv

LEMMA SecondSignalSafe ==
    ASSUME IInv, NEW w \in Workers, SecondSignal(w)
    PROVE  IInv' /\ QueueStep
<1>1. BrokerInv' /\ QueueStep
  <2>1. CASE pc[w] = "handle"
    BY <2>1, RejectSafe DEF IInv, LoopInv, HandOK, SecondSignal
  <2>2. CASE pc[w] = "cleanup"
    BY <2>2, GiveBackSafe DEF IInv, SecondSignal, history
  <2>3. CASE pc[w] \notin {"handle", "cleanup"}
    BY <2>3, BrokerUntouched DEF IInv, SecondSignal
  <2> QED
    BY <2>1, <2>2, <2>3
<1>2. LoopInv'
  <2> DEFINE label == IF pc[w] = "cleanup" THEN "gone" ELSE "cleanup"
  <2>1. label \in Places /\ label \in {"cleanup", "gone"}
    BY DEF Places
  <2>2. Goto(w, label)
    BY DEF SecondSignal
  <2> HIDE DEF label
  <2> QED
    BY <2>1, <2>2, MoveSafe, BudgetOfSignals
    DEF IInv, LoopInv, LoopTypes, SecondSignal
<1> QED
  BY <1>1, <1>2 DEF IInv

LEMMA CleanupSafe ==
    ASSUME IInv, NEW w \in Workers, Cleanup(w)
    PROVE  IInv' /\ QueueStep
<1>1. BrokerInv' /\ QueueStep
  BY GiveBackSafe DEF IInv, Cleanup, history
<1>2. LoopInv'
  <2>1. "gone" \in Places
    BY DEF Places, Onward
  <2> QED
    BY <2>1, MoveSafe DEF IInv, LoopInv, LoopTypes, HandOK, Cleanup, Reliably,
       MaxConsecutiveFailures
<1> QED
  BY <1>1, <1>2 DEF IInv

LEMMA DropConnectionSafe ==
    ASSUME IInv, NEW w \in Workers, DropConnection(w)
    PROVE  IInv' /\ QueueStep
<1>1. BrokerInv' /\ QueueStep
  BY GiveBackSafe DEF IInv, DropConnection, history
<1>2. LoopInv'
  BY FaultTypes DEF IInv, LoopInv, LoopTypes, HandOK, DropConnection
<1> QED
  BY <1>1, <1>2 DEF IInv

LEMMA CrashSafe ==
    ASSUME IInv, NEW w \in Workers, Crash(w)
    PROVE  IInv' /\ QueueStep
<1>1. BrokerInv' /\ QueueStep
  BY GiveBackSafe DEF IInv, Crash, history
<1>2. LoopInv'
  <2> DEFINE label == IF ShutdownRequested(w) THEN "gone" ELSE "close"
  <2>1. label \in Places /\ label \notin {"check", "handle"}
    BY DEF Places
  <2>2. Goto(w, label)
    BY DEF Crash
  <2>3. /\ failures' \in [Workers -> 0..MaxConsecutiveFailures]
        /\ failures'[w] = 0
        /\ \A v \in Workers : v # w => failures'[v] = failures[v]
    BY DEF IInv, LoopInv, LoopTypes, Crash, MaxConsecutiveFailures
  <2>4. delay' \in [Workers -> InitialDelay..MaxDelay]
    BY WorkerLoopAssumption DEF IInv, LoopInv, LoopTypes, Crash
  <2> HIDE DEF label
  <2> QED
    BY <2>1, <2>2, <2>3, <2>4, MoveSafe, FaultTypes
    DEF IInv, LoopInv, LoopTypes, Crash, MaxConsecutiveFailures
<1> QED
  BY <1>1, <1>2 DEF IInv

-----------------------------------------------------------------------------
(* The theorems *)

LEMMA InitSafe == Init => IInv /\ Queue!Init
<1> SUFFICES ASSUME Init PROVE IInv /\ Queue!Init
  OBVIOUS
<1>1. BrokerInv
  BY DEF Init, BrokerInv, BrokerTypes, OnePlace
<1>2. LoopInv
  BY WorkerLoopAssumption
  DEF Init, LoopInv, LoopTypes, HandOK, Places, MaxConsecutiveFailures
<1>3. Queue!Init
  BY DEF Init, Queue!Init, Place
<1> QED
  BY <1>1, <1>2, <1>3 DEF IInv

\* Every step keeps the invariant, and is a step of the queue or none.
LEMMA NextSafe == IInv /\ [Next]_vars => IInv' /\ QueueStep
<1> SUFFICES ASSUME IInv, [Next]_vars PROVE IInv' /\ QueueStep
  OBVIOUS
<1>1. CASE UNCHANGED vars
  <2>1. BrokerInv' /\ QueueStep
    BY <1>1, BrokerUntouched DEF IInv, vars
  <2>2. LoopInv'
    BY <1>1 DEF IInv, LoopInv, LoopTypes, HandOK, vars
  <2> QED
    BY <2>1, <2>2 DEF IInv
<1>2. ASSUME NEW w \in Workers, Step(w)
      PROVE  IInv' /\ QueueStep
  BY <1>2, CloseStaleSafe, ConnectSafe, WakeUpSafe, TakeSafe, StopPollingSafe,
     CheckPassesSafe, HandlerEndsSafe, CleanupSafe DEF Step
<1>3. ASSUME NEW w \in Workers, Disturb(w)
      PROVE  IInv' /\ QueueStep
  BY <1>3, ConnectFailsSafe, CheckFailsSafe, HandlerTimesOutSafe, TakeLateSafe,
     FirstSignalSafe, SecondSignalSafe, DropConnectionSafe, CrashSafe DEF Disturb
<1> QED
  BY <1>1, <1>2, <1>3 DEF Next

\* The state has its types in every instance; above all, the reconnect delay
\* of a worker never leaves InitialDelay..MaxDelay.
THEOREM TypeCorrect == Spec => []TypeOK
<1>1. IInv => TypeOK
  BY DEF IInv, BrokerInv, BrokerTypes, LoopInv, LoopTypes, TypeOK
<1> QED
  BY <1>1, InitSafe, NextSafe, PTL DEF Spec

\* The loops of any number of workers are an implementation of the queue: no
\* message is doubled or lost by polling, reconnecting, signals or crashes.
THEOREM LoopImplementsWorkQueue == Spec => ImplementsWorkQueue
<1>1. IInv /\ [Next]_vars => [Queue!Next]_(Queue!queueVars)
  BY NextSafe DEF QueueStep
<1> QED
  BY <1>1, InitSafe, NextSafe, PTL
  DEF Spec, ImplementsWorkQueue, Queue!Spec

-----------------------------------------------------------------------------
(* The retry decorator *)

\* A set of natural numbers has a least member: among the intervals that start
\* at 0 and end in the set, one contains no other.
LEMMA LeastNumber ==
    ASSUME NEW T \in SUBSET Nat, T # {}
    PROVE  \E m \in T : \A n \in T : m <= n
<1> DEFINE R == StrictSubsetOrdering(Nat)
           U == {0..m : m \in T}
<1>1. IsWellFoundedOn(R, FiniteSubsetsOf(Nat))
    BY FS_StrictSubsetOrderingWellFounded
<1>2. U \subseteq FiniteSubsetsOf(Nat)
    <2>1. \A m \in Nat : 0..m \in SUBSET Nat /\ IsFiniteSet(0..m)
        BY FS_Interval
    <2> QED BY <2>1 DEF FiniteSubsetsOf
<1>3. U # {}
    OBVIOUS
<1>4. PICK x \in U : \A y \in U : <<y, x>> \notin R
    <2> HIDE DEF R, U
    <2> QED BY <1>1, <1>2, <1>3, WFMin
<1>5. PICK m \in T : x = 0..m
    BY <1>4
<1>6. ASSUME NEW n \in T, n < m
      PROVE  FALSE
    <2>1. /\ 0..n \in SUBSET (0..m) /\ 0..n # 0..m
          /\ 0..n \in SUBSET Nat /\ 0..m \in SUBSET Nat
        BY <1>6
    <2>2. <<0..n, x>> \in R
        BY <2>1, <1>5 DEF StrictSubsetOrdering
    <2> QED BY <2>2, <1>4
<1> QED BY <1>6

\* The decorator stops: it calls the function at most maxRetries times after the
\* first call, and only after calls that failed with an error worth another try. It
\* stops at an answer, at a permanent error, or when no retry is left.
THEOREM RetriesStop ==
    ASSUME NEW outcomes, NEW maxRetries \in Nat
    PROVE  LET calls == Calls(outcomes, maxRetries)
           IN  /\ calls \in 1..(maxRetries + 1)
               /\ \A i \in 1..(calls - 1) :
                    ~outcomes[i].ok /\ IsTransient(outcomes[i].error)
               /\ \/ outcomes[calls].ok
                  \/ ~IsTransient(outcomes[calls].error)
                  \/ calls = maxRetries + 1
<1> DEFINE GivesUp(i) == \/ outcomes[i].ok
                         \/ ~IsTransient(outcomes[i].error)
                         \/ i > maxRetries
           T == {n \in 1..(maxRetries + 1) : GivesUp(n)}
           First(n) == /\ GivesUp(n)
                       /\ \A i \in 1..(n - 1) : ~GivesUp(i)
           calls == CHOOSE n \in 1..(maxRetries + 1) : First(n)
<1>1. Calls(outcomes, maxRetries) = calls
    BY Zenon DEF Calls
<1>2. maxRetries + 1 \in T
    <2>1. maxRetries + 1 \in 1..(maxRetries + 1) /\ maxRetries + 1 > maxRetries
        OBVIOUS
    <2> QED BY <2>1, Zenon
<1>3. PICK n \in T : \A i \in T : n <= i
    <2>1. T \in SUBSET Nat
        OBVIOUS
    <2> HIDE DEF T
    <2> QED BY <1>2, <2>1, LeastNumber
<1>4. First(n)
    <2>1. n \in 1..(maxRetries + 1) /\ GivesUp(n)
        BY Zenon
    <2>2. \A i \in 1..(n - 1) : i \in 1..(maxRetries + 1) /\ ~(n <= i)
        <3> HIDE DEF GivesUp, T
        <3> QED BY <2>1
    <2>3. \A i \in 1..(n - 1) : i \notin T
        <3> HIDE DEF T
        <3> QED BY <2>2, <1>3
    <2> HIDE DEF GivesUp
    <2> QED BY <2>1, <2>2, <2>3
<1>5. calls \in 1..(maxRetries + 1) /\ First(calls)
    <2>1. n \in 1..(maxRetries + 1)
        BY Zenon
    <2> HIDE DEF First
    <2> QED BY <2>1, <1>4, Zenon
<1> HIDE DEF calls
<1>6. calls > maxRetries => calls = maxRetries + 1
    BY <1>5
<1> QED BY <1>1, <1>5, <1>6, Zenon

\* is_transient_error asks a link of the __cause__ chain only when those before it do
\* not settle it: an error is tried again if its own class or message says so, or if
\* these say nothing and its cause is.
THEOREM CauseIsAsked ==
    ASSUME NEW chain \in Seq([class : Classes, sign : Signs]), chain # <<>>
    PROVE  /\ IsTransient(chain)
                <=> \/ Verdict(Head(chain)) = "retry"
                    \/ /\ Verdict(Head(chain)) = "ask the cause"
                       /\ IsTransient(Tail(chain))
           /\ ~IsTransient(<<>>)
<1> DEFINE n == Len(chain)
           rest == Tail(chain)
<1>1. /\ n \in Nat \ {0} /\ DOMAIN chain = 1..n /\ Head(chain) = chain[1]
      /\ DOMAIN rest = 1..(n - 1)
      /\ \A i \in 1..(n - 1) : rest[i] = chain[i + 1]
    BY HeadTailProperties, EmptySeq, LenProperties
<1> HIDE DEF n, rest
<1>2. ~IsTransient(<<>>)
    BY DEF IsTransient
<1>3. ASSUME IsTransient(chain), Verdict(chain[1]) # "retry"
      PROVE  Verdict(chain[1]) = "ask the cause" /\ IsTransient(rest)
    <2>1. PICK i \in 1..n : /\ Verdict(chain[i]) = "retry"
                            /\ \A k \in 1..(i - 1) : Verdict(chain[k]) = "ask the cause"
        BY <1>1, <1>3 DEF IsTransient
    <2>2. i # 1
        BY <1>3, <2>1
    <2>3. 1 \in 1..(i - 1) /\ i - 1 \in 1..(n - 1) /\ (i - 1) + 1 = i
        BY <1>1, <2>2
    <2>4. \A k \in 1..((i - 1) - 1) : k + 1 \in 1..(i - 1) /\ k \in 1..(n - 1)
        BY <1>1, <2>2
    <2>5. rest[i - 1] = chain[i] /\ \A k \in 1..((i - 1) - 1) : rest[k] = chain[k + 1]
        BY <1>1, <2>3, <2>4
    <2>6. /\ Verdict(rest[i - 1]) = "retry"
          /\ \A k \in 1..((i - 1) - 1) : Verdict(rest[k]) = "ask the cause"
        BY <2>1, <2>4, <2>5
    <2> QED BY <2>1, <2>3, <2>6, <1>1 DEF IsTransient
<1>4. ASSUME Verdict(chain[1]) = "retry"
      PROVE  IsTransient(chain)
    <2>1. 1 \in 1..n /\ 1..(1 - 1) = {}
        BY <1>1
    <2> QED BY <2>1, <1>1, <1>4 DEF IsTransient
<1>5. ASSUME Verdict(chain[1]) = "ask the cause", IsTransient(rest)
      PROVE  IsTransient(chain)
    <2>1. PICK i \in 1..(n - 1) :
            /\ Verdict(rest[i]) = "retry"
            /\ \A k \in 1..(i - 1) : Verdict(rest[k]) = "ask the cause"
        BY <1>1, <1>5 DEF IsTransient
    <2>2. i + 1 \in 1..n /\ rest[i] = chain[i + 1]
        BY <1>1
    <2>3. \A k \in 1..((i + 1) - 1) :
            k = 1 \/ (k - 1 \in 1..(i - 1) /\ k - 1 \in 1..(n - 1) /\ (k - 1) + 1 = k)
        BY <1>1
    <2>4. \A k \in 1..((i + 1) - 1) : Verdict(chain[k]) = "ask the cause"
        <3> SUFFICES ASSUME NEW k \in 1..((i + 1) - 1), k # 1
                     PROVE  Verdict(chain[k]) = "ask the cause"
            BY <1>5
        <3>1. k - 1 \in 1..(i - 1) /\ k - 1 \in 1..(n - 1) /\ (k - 1) + 1 = k
            BY <2>3
        <3>2. rest[k - 1] = chain[k]
            BY <3>1, <1>1
        <3> QED BY <3>1, <3>2, <2>1
    <2>5. Verdict(chain[i + 1]) = "retry"
        BY <2>1, <2>2
    <2> QED BY <2>2, <2>4, <2>5, <1>1, Zenon DEF IsTransient
<1> QED BY <1>1, <1>2, <1>3, <1>4, <1>5 DEF rest

\* However many attempts there were, however fast the delay grows: a reconnect never
\* waits longer than its maximum, and a retry, whose jitter is added after the delay
\* was cut down to the maximum, never longer than one and a half times that.
THEOREM WaitsAreBounded ==
    ASSUME NEW initial \in Nat, NEW attempt \in Nat, NEW base \in Nat \ {0}, NEW max \in Nat
    PROVE  /\ ReconnectDelay(initial, attempt, max) <= max
           /\ \A wait \in RetryDelays(initial, attempt, base, max) : 2 * wait <= 3 * max
<1> DEFINE capped == Smaller(initial * base ^ attempt, max)
<1>1. \A b \in Nat \ {0} : initial * b ^ attempt \in Int
    <2>1. \A b \in Nat \ {0} : b ^ attempt \in Int
        OBVIOUS
    <2> QED BY <2>1
<1>2. \A a \in Int : Smaller(a, max) \in Int /\ Smaller(a, max) <= max
    BY DEF Smaller
<1>3. ReconnectDelay(initial, attempt, max) <= max
    BY <1>1, <1>2 DEF ReconnectDelay
<1>4. capped \in Int /\ capped <= max
    BY <1>1, <1>2
<1> HIDE DEF capped
<1>5. \A wait \in capped..(capped + capped \div 2) : 2 * wait <= 3 * max
    <2>1. capped \div 2 \in Int /\ 2 * (capped \div 2) <= capped
        BY <1>4
    <2> QED BY <1>4, <2>1
<1> QED BY <1>3, <1>5 DEF RetryDelays, capped

=============================================================================
