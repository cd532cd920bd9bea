--------------------------- MODULE ManagerLifecycle ---------------------------
(***************************************************************************)
(* The manager from its start to its end, and the coroutine that consumes  *)
(* SUBTITLE_REQUESTED events beside its HTTP endpoints: the quick attempts *)
(* to connect before the service starts, the consumer's loop, what the     *)
(* health endpoint says of it, and the shutdown, which waits five seconds  *)
(* and then cancels.  What a request does to Redis and the work queues is  *)
(* the matter of Ingest; here its handler runs to its end or is cancelled. *)
(*                                                                         *)
(* The connection is robust: while the broker is away it counts as open,   *)
(* and aio_pika restores it.  A step ends where a coroutine awaits.        *)
(***************************************************************************)
EXTENDS Integers, FiniteSets

CONSTANTS
    Messages,        \* requests in the queue
    Nobody,          \* the hand without a message
    StartupRetries,  \* attempts to connect when the manager starts
    LoopRetries,     \* attempts to connect in the consumer's loop
    MaxOutages,      \* how often RabbitMQ goes away or comes back
    MaxFaults        \* how many checks of Redis fail, or processes die

ASSUME ManagerLifecycleAssumption ==
    /\ Nobody \notin Messages
    /\ StartupRetries \in Nat \ {0}
    /\ LoopRetries \in Nat \ {0}
    /\ MaxOutages \in Nat
    /\ MaxFaults \in Nat

VARIABLES
    up,           \* RabbitMQ is there
    ready,        \* RabbitMQ: requests that wait
    unacked,      \* RabbitMQ: requests handed out on the connection
    acked,        \* RabbitMQ: requests that were acked
    rejected,     \* RabbitMQ: requests that were rejected without requeue
    handled,      \* requests whose handler came to its end
    interrupted,  \* requests whose handler was cancelled
    connection,   \* "none", "open" or "closed"
    declared,     \* what connect has set up: 0 nothing, 1 a channel, 2 the queue
                  \* as well, 3 and its binding
    attempt,      \* the attempt that connect makes
    consuming,    \* is_consuming
    shouldStop,   \* _should_stop
    buffer,       \* requests that the queue iterator holds
    hand,         \* the request it has given out
    pc,           \* what the lifespan ("main") and the consumer ("task") await
    budget        \* outages and faults still to come

broker == <<ready, unacked, acked, rejected>>
history == <<handled, interrupted>>
link == <<connection, declared, attempt>>
local == <<buffer, hand>>
flags == <<consuming, shouldStop>>
vars == <<up, broker, history, link, flags, local, pc, budget>>

Goto(p, label) == pc' = [pc EXCEPT ![p] = label]

Coroutines == {"main", "task"}

Started == pc["task"] # "none"
Stopping == pc["main"] \in {"stopping", "disconnecting", "stopped"}

Fault ==
    /\ budget.faults > 0
    /\ budget' = [budget EXCEPT !.faults = @ - 1]

\* RabbitMQ takes back what it handed out on a connection that goes away.
GiveBack ==
    /\ ready' = ready \cup unacked
    /\ unacked' = {}
    /\ UNCHANGED <<acked, rejected>>

\* Closing the connection, unless there is none that is open.
Close ==
    IF connection = "open"
    THEN GiveBack /\ connection' = "closed"
    ELSE UNCHANGED <<broker, connection>>

-----------------------------------------------------------------------------
(* connect: the fields are filled in one by one, an attempt that fails leaves *)
(* what it has filled in, and the last failure is not raised                  *)

Connecting(p) == pc[p] \in {"dial", "setup", "wait"}

\* What an attempt leaves that is cut short after it has dialled.
Progress == {declared} \cup declared..2

Retries(p) == IF p = "main" THEN StartupRetries ELSE LoopRetries

\* connect returns to start_event_consumer_if_ready, which starts the task or
\* lets it be for good, or to the loop, which consumes or sleeps (mock mode).
Return(p, progress) ==
    LET usable == progress >= 2
    IN IF p = "main"
       THEN /\ pc' = [pc EXCEPT !["main"] = "serving",
                                !["task"] = IF usable THEN "close" ELSE "none"]
            /\ UNCHANGED consuming
       ELSE /\ Goto("task", IF usable THEN "iterate" ELSE "pause")
            /\ consuming' = (consuming \/ usable)

\* Mutant: one attempt more.
AttemptFailsOnceMore(p, progress) ==
    IF attempt <= Retries(p)
    THEN Goto(p, "wait") /\ UNCHANGED consuming
    ELSE Return(p, progress)

AttemptFails(p, progress) ==
    IF attempt < Retries(p)
    THEN Goto(p, "wait") /\ UNCHANGED consuming
    ELSE Return(p, progress)

\* connect_robust
Dial(p) ==
    /\ pc[p] = "dial"
    /\ IF up
       THEN Goto(p, "setup") /\ connection' = "open" /\ UNCHANGED consuming
       ELSE AttemptFails(p, declared) /\ UNCHANGED connection
    /\ UNCHANGED <<up, broker, history, declared, attempt, shouldStop, local, budget>>

\* The channel, the exchange, the queue and its binding.
Declare(p) ==
    /\ pc[p] = "setup"
    /\ IF up
       THEN declared' = 3 /\ Return(p, 3)
       ELSE declared' \in Progress /\ AttemptFails(p, declared')
    /\ UNCHANGED <<up, broker, history, connection, attempt, shouldStop, local,
                   budget>>

NextAttempt(p) ==
    /\ pc[p] = "wait"
    /\ attempt' = attempt + 1
    /\ Goto(p, "dial")
    /\ UNCHANGED <<up, broker, history, connection, declared, flags, local, budget>>

-----------------------------------------------------------------------------
(* lifespan: the start *)

\* After Redis, the publisher and the orchestrator, connected or not.
ConnectConsumer ==
    /\ pc["main"] = "start"
    /\ Goto("main", "dial")
    /\ attempt' = 1
    /\ UNCHANGED <<up, broker, history, connection, declared, flags, local, budget>>

\* wait_for cancels connect after fifteen seconds, wherever it is.
StartupTimesOut ==
    /\ Connecting("main")
    /\ declared' \in IF pc["main"] = "setup" THEN Progress ELSE {declared}
    /\ Return("main", declared')
    /\ UNCHANGED <<up, broker, history, connection, attempt, shouldStop, local,
                   budget>>

-----------------------------------------------------------------------------
(* start_consuming *)

\* Mutant: the connection of the last round is not closed.
KeepStale ==
    /\ pc["task"] = "close"
    /\ connection' = "none" /\ declared' = 0
    /\ attempt' = 1
    /\ Goto("task", "dial")
    /\ UNCHANGED <<up, broker, history, flags, local, budget>>

\* The fields are cleared only if there was an open connection to close.
CloseStale ==
    /\ pc["task"] = "close"
    /\ IF connection = "open"
       THEN GiveBack /\ connection' = "none" /\ declared' = 0
       ELSE UNCHANGED <<broker, connection, declared>>
    /\ attempt' = 1
    /\ Goto("task", "dial")
    /\ UNCHANGED <<up, history, flags, local, budget>>

\* The sleep after a failure, or in mock mode, and the loop's condition.
WakeUp ==
    /\ pc["task"] = "pause"
    /\ Goto("task", IF shouldStop THEN "closing" ELSE "close")
    /\ consuming' = (consuming /\ ~shouldStop)
    /\ UNCHANGED <<up, broker, history, link, shouldStop, local, budget>>

\* The iterator sets no limit to what the broker may send ahead.
Deliver(m) ==
    /\ up
    /\ pc["task"] \in {"iterate", "check", "handle"}
    /\ m \in ready
    /\ ready' = ready \ {m}
    /\ unacked' = unacked \cup {m}
    /\ buffer' = buffer \cup {m}
    /\ UNCHANGED <<up, acked, rejected, history, link, flags, hand, pc, budget>>

\* Mutant: the flags are looked at inside message.process().
TakeInProcess(m) ==
    /\ pc["task"] = "iterate"
    /\ m \in buffer
    /\ buffer' = buffer \ {m}
    /\ IF shouldStop \/ ~consuming
       THEN /\ Goto("task", "leave")
            /\ acked' = acked \cup (unacked \cap {m})
            /\ unacked' = unacked \ {m}
            /\ UNCHANGED hand
       ELSE /\ hand' = m
            /\ \E next \in {"check", "handle"} : Goto("task", next)
            /\ UNCHANGED <<acked, unacked>>
    /\ UNCHANGED <<up, ready, rejected, history, link, flags, budget>>

\* The next request; after stop() it is left alone, and so is the iterator.
\* The connections are checked first if the last check is long ago.
Take(m) ==
    /\ pc["task"] = "iterate"
    /\ m \in buffer
    /\ buffer' = buffer \ {m}
    /\ IF shouldStop \/ ~consuming
       THEN Goto("task", "leave") /\ UNCHANGED hand
       ELSE /\ hand' = m
            /\ \E next \in {"check", "handle"} : Goto("task", next)
    /\ UNCHANGED <<up, broker, history, link, flags, budget>>

CheckPasses ==
    /\ pc["task"] = "check"
    /\ Goto("task", "handle")
    /\ UNCHANGED <<up, broker, history, link, flags, local, budget>>

\* Mutant: the check is made inside message.process().
CheckFailsInProcess ==
    /\ pc["task"] = "check"
    /\ Fault
    /\ Goto("task", "leave")
    /\ hand' = Nobody
    /\ unacked' = unacked \ {hand}
    /\ rejected' = rejected \cup (unacked \cap {hand})
    /\ UNCHANGED <<up, ready, acked, history, link, flags, buffer>>

\* ConnectionError, with a request in hand that nobody acks.
CheckFails ==
    /\ pc["task"] = "check"
    /\ Fault
    /\ Goto("task", "leave")
    /\ hand' = Nobody
    /\ UNCHANGED <<up, broker, history, link, flags, buffer>>

\* The handler catches its exceptions, and the request is acked all the same.
\* An ack on a channel that was lost meanwhile may raise.
HandlerEnds ==
    /\ pc["task"] = "handle"
    /\ handled' = handled \cup {hand}
    /\ acked' = acked \cup (unacked \cap {hand})
    /\ unacked' = unacked \ {hand}
    /\ \/ Goto("task", "iterate")
       \/ hand \notin unacked /\ Goto("task", "leave")
    /\ hand' = Nobody
    /\ UNCHANGED <<up, ready, rejected, interrupted, link, flags, buffer, budget>>

\* While the broker is away the iterator waits, or raises.
IteratorRaises ==
    /\ pc["task"] = "iterate"
    /\ ~up
    /\ Goto("task", "leave")
    /\ UNCHANGED <<up, broker, history, link, flags, local, budget>>

\* Mutant: the flag outlives the failure.
LeaveConsuming ==
    /\ pc["task"] = "leave"
    /\ ready' = ready \cup (unacked \cap buffer)
    /\ unacked' = unacked \ buffer
    /\ buffer' = {}
    /\ Goto("task", IF shouldStop THEN "closing" ELSE "pause")
    /\ UNCHANGED <<up, acked, rejected, history, link, flags, hand, budget>>

\* The iterator is closed, and nacks what it holds; then the except clause.
Leave ==
    /\ pc["task"] = "leave"
    /\ ready' = ready \cup (unacked \cap buffer)
    /\ unacked' = unacked \ buffer
    /\ buffer' = {}
    /\ consuming' = FALSE
    /\ Goto("task", IF shouldStop THEN "closing" ELSE "pause")
    /\ UNCHANGED <<up, acked, rejected, history, link, shouldStop, hand, budget>>

\* finally: the consumer disconnects, and the coroutine ends.
Closing ==
    /\ pc["task"] = "closing"
    /\ Close
    /\ Goto("task", "ended")
    /\ UNCHANGED <<up, history, declared, attempt, flags, local, budget>>

-----------------------------------------------------------------------------
(* lifespan: the end *)

\* uvicorn lets the lifespan go on.  The task is told to stop, if there is one.
Stop ==
    /\ pc["main"] = "serving"
    /\ IF Started
       THEN /\ Goto("main", "stopping")
            /\ shouldStop' = TRUE /\ consuming' = FALSE
       ELSE Goto("main", "disconnecting") /\ UNCHANGED flags
    /\ UNCHANGED <<up, broker, history, link, local, budget>>

\* Mutant: the task is waited for as long as it takes.
WaitForever ==
    /\ pc["main"] = "stopping"
    /\ pc["task"] # "ended"
    /\ UNCHANGED vars

\* The five seconds are over: wait_for cancels the task, which leaves
\* message.process() with a reject without requeue.
Cancel ==
    /\ pc["main"] = "stopping"
    /\ pc["task"] # "ended"
    /\ IF pc["task"] = "handle"
       THEN /\ interrupted' = interrupted \cup {hand}
            /\ rejected' = rejected \cup (unacked \cap {hand})
            /\ unacked' = unacked \ {hand}
       ELSE UNCHANGED <<interrupted, rejected, unacked>>
    /\ Goto("task", IF pc["task"] = "closing" THEN "ended" ELSE "closing")
    /\ shouldStop' = TRUE /\ consuming' = FALSE
    /\ hand' = Nobody /\ buffer' = {}
    /\ UNCHANGED <<up, ready, acked, handled, link, budget>>

TaskEnded ==
    /\ pc["main"] = "stopping"
    /\ pc["task"] = "ended"
    /\ Goto("main", "disconnecting")
    /\ UNCHANGED <<up, broker, history, link, flags, local, budget>>

\* Mutant: only a consumer that still runs is disconnected.
DisconnectIfConsuming ==
    /\ pc["main"] = "disconnecting"
    /\ IF consuming THEN Close ELSE UNCHANGED <<broker, connection>>
    /\ consuming' = FALSE
    /\ Goto("main", "stopped")
    /\ UNCHANGED <<up, history, declared, attempt, shouldStop, local, budget>>

\* The consumer, and then the orchestrator, the publisher and Redis.
Disconnect ==
    /\ pc["main"] = "disconnecting"
    /\ Close
    /\ consuming' = FALSE
    /\ Goto("main", "stopped")
    /\ UNCHANGED <<up, history, declared, attempt, shouldStop, local, budget>>

-----------------------------------------------------------------------------
(* RabbitMQ and the container *)

\* An open connection survives; what was handed out on it does not.
Outage ==
    /\ budget.outages > 0
    /\ budget' = [budget EXCEPT !.outages = @ - 1]
    /\ up' = ~up
    /\ GiveBack
    /\ UNCHANGED <<history, link, flags, local, pc>>

\* A manager that was not told to stop is started again.
Crash ==
    /\ pc["main"] # "stopped"
    /\ Fault
    /\ GiveBack
    /\ connection' = "none" /\ declared' = 0 /\ attempt' = 1
    /\ consuming' = FALSE /\ shouldStop' = FALSE
    /\ buffer' = {} /\ hand' = Nobody
    /\ pc' = [main |-> IF Stopping THEN "stopped" ELSE "start", task |-> "none"]
    /\ UNCHANGED <<up, history>>

-----------------------------------------------------------------------------

Init ==
    /\ up \in BOOLEAN
    /\ ready = Messages
    /\ unacked = {} /\ acked = {} /\ rejected = {}
    /\ handled = {} /\ interrupted = {}
    /\ connection = "none" /\ declared = 0 /\ attempt = 1
    /\ consuming = FALSE /\ shouldStop = FALSE
    /\ buffer = {} /\ hand = Nobody
    /\ pc = [main |-> "start", task |-> "none"]
    /\ budget = [outages |-> MaxOutages, faults |-> MaxFaults]

Connect(p) == Dial(p) \/ Declare(p) \/ NextAttempt(p)

MainStep == ConnectConsumer \/ Connect("main") \/ TaskEnded \/ Disconnect

TaskStep ==
    \/ CloseStale \/ Connect("task") \/ WakeUp
    \/ \E m \in Messages : Take(m)
    \/ CheckPasses \/ HandlerEnds \/ Leave \/ Closing

Next ==
    \/ MainStep \/ TaskStep
    \/ \E m \in Messages : Deliver(m)
    \/ StartupTimesOut \/ CheckFails \/ IteratorRaises
    \/ Stop \/ Cancel \/ Outage \/ Crash

\* Each coroutine goes on, the broker delivers, and five seconds pass.
Fairness ==
    /\ WF_vars(MainStep)
    /\ WF_vars(TaskStep)
    /\ \A m \in Messages : WF_vars(Deliver(m))
    /\ WF_vars(Cancel)

Spec == Init /\ [][Next]_vars
FairSpec == Spec /\ Fairness

-----------------------------------------------------------------------------
(* Properties *)

MainPlaces ==
    {"start", "dial", "setup", "wait", "serving", "stopping", "disconnecting",
     "stopped"}
TaskPlaces ==
    {"none", "close", "dial", "setup", "wait", "pause", "iterate", "check",
     "handle", "leave", "closing", "ended"}

\* The types of the state; nobody who connects makes more attempts than it has
\* (connect of the event consumer).
TypeOK ==
    /\ up \in BOOLEAN
    /\ ready \subseteq Messages
    /\ unacked \subseteq Messages
    /\ acked \subseteq Messages
    /\ rejected \subseteq Messages
    /\ handled \subseteq Messages
    /\ interrupted \subseteq Messages
    /\ connection \in {"none", "open", "closed"}
    /\ declared \in 0..3
    /\ attempt \in Nat \ {0}
    /\ \A p \in Coroutines : Connecting(p) => attempt <= Retries(p)
    /\ consuming \in BOOLEAN
    /\ shouldStop \in BOOLEAN
    /\ buffer \subseteq Messages
    /\ hand \in Messages \cup {Nobody}
    /\ pc \in [Coroutines -> MainPlaces \cup TaskPlaces]
    /\ pc["main"] \in MainPlaces
    /\ pc["task"] \in TaskPlaces
    /\ budget \in [outages : 0..MaxOutages, faults : 0..MaxFaults]

\* is_healthy of the consumer, and check_event_consumer_health
Healthy == connection = "open" /\ declared >= 2 /\ consuming

\* The health endpoint never vouches for a consumer that is not at its queue:
\* one that was never started, sleeps after a failure, connects, or has ended
\* (check_health, start_consuming, stop, disconnect).
HealthyMeansConsuming ==
    Healthy => pc["task"] \in {"iterate", "check", "handle", "leave"}

\* A request is lost only to the cancellation that ends the service, and then
\* it is the one in hand: failures, reconnects and what is still in the
\* iterator lose none (shutdown_all_connections, _on_message).
OnlyShutdownLosesOne ==
    /\ acked \subseteq handled
    /\ Cardinality(rejected) <= 1
    /\ rejected # {} => Stopping /\ rejected \subseteq interrupted

\* A manager that has stopped keeps no connection, no coroutine and no request,
\* however the task came to its end (shutdown_all_connections, start_consuming).
StoppedIsClean ==
    pc["main"] = "stopped" =>
        /\ connection # "open"
        /\ unacked = {}
        /\ pc["task"] \in {"none", "ended"}
        /\ ~consuming

Place ==
    [m \in Messages |->
        CASE m \in ready -> "ready"
          [] m \in acked -> "done"
          [] m \in rejected -> "dropped"
          [] OTHER -> "held"]

Queue == INSTANCE WorkQueue WITH place <- Place, finished <- handled

\* The consumer is a worker of a WorkQueue: none of its reconnects, of the
\* outages and of its ends leaves two of a request, or none (start_consuming,
\* _consume_with_health_monitoring).
ImplementsWorkQueue == Queue!Spec

\* The task was started, the service goes on, and the broker stays.
Undisturbed == <>[](Started /\ up /\ pc["main"] = "serving")

\* After any outage the consumer comes back by itself and stays, and every
\* request is acked: nothing stays in an iterator or with an old connection
\* (start_consuming).
ResumesConsuming ==
    Undisturbed => <>[]Healthy /\ \A m \in Messages : <>(m \in acked)

\* A manager that was told to stop stops, whatever its consumer waits for and
\* whether or not RabbitMQ is there (shutdown_all_connections).
ShutdownEnds == Stopping ~> (pc["main"] = "stopped")

=============================================================================
