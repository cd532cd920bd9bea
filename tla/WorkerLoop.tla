----------------------------- MODULE WorkerLoop -----------------------------
(***************************************************************************)
(* The loops that feed the handlers of the downloader, the translator and  *)
(* the consumer, and their way out: connect, poll the queue, check the     *)
(* connections, handle a message within a time limit, reconnect after a    *)
(* failure, and leave after a signal.  What a handler does is the matter   *)
(* of SubtitlePipeline; here it runs to its end, or is cut short.          *)
(*                                                                         *)
(* A step ends where the coroutine awaits, since only there may a signal,  *)
(* the broker or another worker come in between.                           *)
(***************************************************************************)
EXTENDS RetryBackoff, FiniteSets

CONSTANTS
    Messages,
    Workers,
    Consumers,     \* the workers that run EventConsumer.start_consuming
    Reads,         \* the messages of the queue that each worker polls
    Nobody,        \* the hand of a worker without a message
    InitialDelay,  \* rabbitmq_reconnect_initial_delay
    MaxDelay,      \* rabbitmq_reconnect_max_delay
    Faults,        \* the kinds of failure an instance admits
    MaxFaults,     \* how many failures a behaviour meets at most
    MaxSignals     \* how many signals a behaviour meets at most

FaultKinds ==
    {"connect",  \* connecting to RabbitMQ or logging in to OpenSubtitles fails
     "redis",    \* the periodic check finds no Redis
     "slow",     \* a handler exceeds shutdown_timeout
     "late",     \* a message is handed out after its get has timed out
     "channel",  \* the connection drops, and aio_pika restores it
     "crash"}    \* the process dies, and its container starts again

MaxConsecutiveFailures == 3

ASSUME WorkerLoopAssumption ==
    /\ Consumers \subseteq Workers
    /\ Reads \in [Workers -> SUBSET Messages]
    /\ Nobody \notin Messages
    /\ InitialDelay \in Nat \ {0}
    /\ MaxDelay \in Nat /\ InitialDelay <= MaxDelay
    /\ Faults \subseteq FaultKinds
    /\ MaxFaults \in Nat
    /\ MaxSignals \in Nat

VARIABLES
    ready,        \* RabbitMQ: messages that wait for a worker
    unacked,      \* RabbitMQ: messages handed out on each worker's connection
    late,         \* those of them whose get had timed out by then
    acked,        \* RabbitMQ: messages that were acked
    rejected,     \* RabbitMQ: messages that were rejected without requeue
    handled,      \* messages for which a handler came to its end
    interrupted,  \* messages of which a handler was cancelled
    pc,           \* what each worker awaits
    hand,         \* the message it has got
    signals,      \* _signal_received_count
    failures,     \* consecutive_failures
    delay,        \* reconnect_delay
    budget        \* failures and signals the behaviour may still meet

broker == <<ready, unacked, late, acked, rejected>>
history == <<handled, interrupted>>
vars == <<broker, history, pc, hand, signals, failures, delay, budget>>

Fault(kind) ==
    /\ kind \in Faults
    /\ budget.faults > 0
    /\ budget' = [budget EXCEPT !.faults = @ - 1]
Reliably == UNCHANGED budget

Goto(w, label) == pc' = [pc EXCEPT ![w] = label]

\* ShutdownManager.is_shutdown_requested
ShutdownRequested(w) == signals[w] > 0

\* The end of the outer loop's body: the finally clause, or the next round.
Onward(w) == IF ShutdownRequested(w) THEN "cleanup" ELSE "close"

\* RabbitMQ takes back what was handed out on a connection that is closed.
GiveBack(w) ==
    /\ ready' = ready \cup unacked[w]
    /\ unacked' = [unacked EXCEPT ![w] = {}]
    /\ late' = late \ unacked[w]
    /\ UNCHANGED <<acked, rejected>>

\* Leaving message.process() with an exception: a reject without requeue, which
\* is not sent if the channel was closed meanwhile.
Reject(w, m) ==
    /\ interrupted' = interrupted \cup {m}
    /\ unacked' = [unacked EXCEPT ![w] = @ \ {m}]
    /\ rejected' = IF m \in unacked[w] THEN rejected \cup {m} ELSE rejected
    /\ UNCHANGED <<ready, late, acked, handled>>

\* Leaving it without one.
Acknowledge(w, m) ==
    /\ unacked' = [unacked EXCEPT ![w] = @ \ {m}]
    /\ acked' = IF m \in unacked[w] THEN acked \cup {m} ELSE acked
    /\ UNCHANGED <<ready, late, rejected>>

\* The except clause of the outer loop.
CountFailure(w) ==
    LET tooMany == failures[w] + 1 >= MaxConsecutiveFailures
        backsOff == tooMany /\ ~ShutdownRequested(w)
    IN /\ Goto(w, IF ShutdownRequested(w) THEN "cleanup" ELSE "pause")
       /\ failures' = [failures EXCEPT ![w] = IF backsOff THEN 0 ELSE @ + 1]
       /\ delay' = [delay EXCEPT ![w] =
                        IF backsOff THEN LongerDelay(@, MaxDelay) ELSE @]

-----------------------------------------------------------------------------
(* Connecting *)

\* Mutant: the stale connection is forgotten, not closed.
ForgetStale(w) ==
    /\ pc[w] = "close"
    /\ Goto(w, "connect")
    /\ Reliably
    /\ UNCHANGED <<broker, history, hand, signals, failures, delay>>

\* The loop closes the connection it has before it opens another one.
CloseStale(w) ==
    /\ pc[w] = "close"
    /\ GiveBack(w)
    /\ Goto(w, "connect")
    /\ Reliably
    /\ UNCHANGED <<history, hand, signals, failures, delay>>

\* Redis and the publisher never fail to connect: they go on without.
\* The consumer does not set its delay back.
Connect(w) ==
    /\ pc[w] = "connect"
    /\ Goto(w, IF ShutdownRequested(w) THEN "cleanup" ELSE "get")
    /\ failures' = [failures EXCEPT ![w] = 0]
    /\ delay' = [delay EXCEPT ![w] = IF w \in Consumers THEN @ ELSE InitialDelay]
    /\ Reliably
    /\ UNCHANGED <<broker, history, hand, signals>>

ConnectFails(w) ==
    /\ pc[w] = "connect"
    /\ Fault("connect")
    /\ CountFailure(w)
    /\ UNCHANGED <<broker, history, hand, signals>>

WakeUp(w) ==
    /\ pc[w] = "pause"
    /\ Goto(w, Onward(w))
    /\ Reliably
    /\ UNCHANGED <<broker, history, hand, signals, failures, delay>>

-----------------------------------------------------------------------------
(* Getting a message *)

HandOut(w, m) ==
    /\ ready' = ready \ {m}
    /\ unacked' = [unacked EXCEPT ![w] = @ \cup {m}]
    /\ UNCHANGED <<acked, rejected>>

\* After a signal the message is left alone until the connection is closed.
\* The connections are checked first if the last check is long ago.
Take(w, m) ==
    /\ pc[w] = "get"
    /\ m \in ready \cap Reads[w]
    /\ HandOut(w, m)
    /\ IF ShutdownRequested(w)
       THEN Goto(w, "cleanup") /\ UNCHANGED hand
       ELSE /\ hand' = [hand EXCEPT ![w] = m]
            /\ \E next \in {"check", "handle"} : Goto(w, next)
    /\ Reliably
    /\ UNCHANGED <<late, history, signals, failures, delay>>

\* wait_for has given up on the get, or the get on the broker, but the
\* message is on its way.
TakeLate(w, m) ==
    /\ pc[w] = "get"
    /\ m \in ready \cap Reads[w]
    /\ Fault("late")
    /\ HandOut(w, m)
    /\ late' = late \cup {m}
    /\ UNCHANGED <<history, pc, hand, signals, failures, delay>>

\* Mutant: the loop looks at the signal only when it has got a message.
PollForever(w) ==
    /\ pc[w] = "get"
    /\ ShutdownRequested(w)
    /\ Reliably
    /\ UNCHANGED <<broker, history, pc, hand, signals, failures, delay>>

\* An empty queue or a time limit, and the look at the signal that follows.
StopPolling(w) ==
    /\ pc[w] = "get"
    /\ ShutdownRequested(w)
    /\ Goto(w, "cleanup")
    /\ Reliably
    /\ UNCHANGED <<broker, history, hand, signals, failures, delay>>

\* Mutant: the message is acked before the handler runs, and not at its end.
AckAtStart(w) ==
    /\ pc[w] = "check"
    /\ Acknowledge(w, hand[w])
    /\ Goto(w, "handle")
    /\ Reliably
    /\ UNCHANGED <<history, hand, signals, failures, delay>>

\* A signal that comes during the check is not looked at before the handler.
CheckPasses(w) ==
    /\ pc[w] = "check"
    /\ Goto(w, "handle")
    /\ Reliably
    /\ UNCHANGED <<broker, history, hand, signals, failures, delay>>

\* ConnectionError is raised with the message in hand.
CheckFails(w) ==
    /\ pc[w] = "check"
    /\ Fault("redis")
    /\ CountFailure(w)
    /\ hand' = [hand EXCEPT ![w] = Nobody]
    /\ UNCHANGED <<broker, history, signals>>

-----------------------------------------------------------------------------
(* Handling it: async with message.process(), and wait_for around the handler *)

\* An ack on a channel that was closed meanwhile may raise.
HandlerEnds(w) ==
    /\ pc[w] = "handle"
    /\ handled' = handled \cup {hand[w]}
    /\ Acknowledge(w, hand[w])
    /\ \/ /\ Goto(w, IF ShutdownRequested(w) THEN "cleanup" ELSE "get")
          /\ UNCHANGED <<failures, delay>>
       \/ /\ hand[w] \notin unacked[w]
          /\ CountFailure(w)
    /\ hand' = [hand EXCEPT ![w] = Nobody]
    /\ Reliably
    /\ UNCHANGED <<interrupted, signals>>

\* The loop is left, without a failure being counted.
HandlerTimesOut(w) ==
    /\ pc[w] = "handle"
    /\ Fault("slow")
    /\ Reject(w, hand[w])
    /\ hand' = [hand EXCEPT ![w] = Nobody]
    /\ Goto(w, Onward(w))
    /\ UNCHANGED <<signals, failures, delay>>

-----------------------------------------------------------------------------
(* ShutdownManager *)

Signal(w) ==
    /\ pc[w] # "gone"
    /\ signals[w] < 2
    /\ budget.signals > 0
    /\ budget' = [budget EXCEPT !.signals = @ - 1]
    /\ signals' = [signals EXCEPT ![w] = @ + 1]

\* handle_signal: the first one sets the event.
FirstSignal(w) ==
    /\ signals[w] = 0
    /\ Signal(w)
    /\ UNCHANGED <<broker, history, pc, hand, failures, delay>>

\* The second one exits.  asyncio.run cancels the loop at its await, which
\* leaves message.process() with an exception; the finally clause still runs,
\* unless it is what was cancelled: then the process ends.
SecondSignal(w) ==
    /\ signals[w] = 1
    /\ Signal(w)
    /\ IF pc[w] = "handle"
       THEN Reject(w, hand[w])
       ELSE /\ IF pc[w] = "cleanup" THEN GiveBack(w) ELSE UNCHANGED broker
            /\ UNCHANGED history
    /\ Goto(w, IF pc[w] = "cleanup" THEN "gone" ELSE "cleanup")
    /\ hand' = [hand EXCEPT ![w] = Nobody]
    /\ UNCHANGED <<failures, delay>>

\* The finally clause: disconnect everything, close the connection, leave.
Cleanup(w) ==
    /\ pc[w] = "cleanup"
    /\ GiveBack(w)
    /\ Goto(w, "gone")
    /\ Reliably
    /\ UNCHANGED <<history, hand, signals, failures, delay>>

-----------------------------------------------------------------------------
(* The broker and the container *)

\* The handler goes on, and does not know that its message is ready again.
DropConnection(w) ==
    /\ unacked[w] # {}
    /\ Fault("channel")
    /\ GiveBack(w)
    /\ UNCHANGED <<history, pc, hand, signals, failures, delay>>

\* A container that was not told to stop is started again.
Crash(w) ==
    /\ pc[w] # "gone"
    /\ Fault("crash")
    /\ GiveBack(w)
    /\ Goto(w, IF ShutdownRequested(w) THEN "gone" ELSE "close")
    /\ hand' = [hand EXCEPT ![w] = Nobody]
    /\ failures' = [failures EXCEPT ![w] = 0]
    /\ delay' = [delay EXCEPT ![w] = InitialDelay]
    /\ UNCHANGED <<history, signals>>

-----------------------------------------------------------------------------

Init ==
    /\ ready = Messages
    /\ unacked = [w \in Workers |-> {}]
    /\ late = {} /\ acked = {} /\ rejected = {}
    /\ handled = {} /\ interrupted = {}
    /\ pc = [w \in Workers |-> "close"]
    /\ hand = [w \in Workers |-> Nobody]
    /\ signals = [w \in Workers |-> 0]
    /\ failures = [w \in Workers |-> 0]
    /\ delay = [w \in Workers |-> InitialDelay]
    /\ budget = [faults |-> MaxFaults, signals |-> MaxSignals]

\* What the loop does when nothing goes wrong.
Step(w) ==
    \/ CloseStale(w) \/ Connect(w) \/ WakeUp(w)
    \/ \E m \in Messages : Take(w, m)
    \/ StopPolling(w) \/ CheckPasses(w) \/ HandlerEnds(w) \/ Cleanup(w)

Disturb(w) ==
    \/ ConnectFails(w) \/ CheckFails(w) \/ HandlerTimesOut(w)
    \/ \E m \in Messages : TakeLate(w, m)
    \/ FirstSignal(w) \/ SecondSignal(w) \/ DropConnection(w) \/ Crash(w)

Next == \E w \in Workers : Step(w) \/ Disturb(w)

\* A worker's loop is one coroutine, whose awaits all have a time limit.
Fairness == \A w \in Workers : WF_vars(Step(w))

Spec == Init /\ [][Next]_vars
FairSpec == Spec /\ Fairness

-----------------------------------------------------------------------------
(* Properties *)

Places ==
    {"close", "connect", "pause", "get", "check", "handle", "cleanup", "gone"}

\* The types of the state; no reconnect delay exceeds its maximum, whatever
\* fails how often (consume_messages, start_consuming).
TypeOK ==
    /\ ready \subseteq Messages
    /\ unacked \in [Workers -> SUBSET Messages]
    /\ late \subseteq Messages
    /\ acked \subseteq Messages
    /\ rejected \subseteq Messages
    /\ handled \subseteq Messages
    /\ interrupted \subseteq Messages
    /\ pc \in [Workers -> Places]
    /\ hand \in [Workers -> Messages \cup {Nobody}]
    /\ signals \in [Workers -> 0..2]
    /\ failures \in [Workers -> 0..MaxConsecutiveFailures]
    /\ delay \in [Workers -> InitialDelay..MaxDelay]
    /\ budget \in [faults : 0..MaxFaults, signals : 0..MaxSignals]

\* Where the broker has each message.
Place ==
    [m \in Messages |->
        CASE m \in ready -> "ready"
          [] m \in acked -> "done"
          [] m \in rejected -> "dropped"
          [] OTHER -> "held"]

Queue == INSTANCE WorkQueue WITH place <- Place, finished <- handled

\* Every message is at one place: no way out of the loop, no reconnect and no
\* second worker leaves two of it, or none, and none is thrown away that no
\* handler has seen (consume_messages and its siblings as a WorkQueue).
ImplementsWorkQueue == Queue!Spec

\* As long as one reader of its queue was told not to stop, a message does not
\* stay: it is handled, or its handler is cut short.  Only a message that was
\* handed out too late may stay with a connection where nobody knows of it.
MessagesHandled ==
    \A m \in Messages :
        \/ <>(m \in acked \cup rejected)
        \/ <>[](m \in late)
        \/ <>(\A w \in Workers : m \in Reads[w] => ShutdownRequested(w))

\* A worker that was told to stop stops, whatever it waits for.
ShutdownEnds ==
    \A w \in Workers : ShutdownRequested(w) ~> (pc[w] = "gone")

=============================================================================
