--------------------------- MODULE RedisConnection ---------------------------
(***************************************************************************)
(* How RedisJobClient keeps its connection: connect with its attempts, the *)
(* health check loop that runs in the background, ensure_connected, which  *)
(* every job operation calls first, and disconnect.  The coroutines of one *)
(* service share the client and the flag connected; a lock is taken by     *)
(* ensure_connected only, so the loop reconnects beside it.                *)
(*                                                                         *)
(* A step ends where a coroutine awaits: a ping, the closing of a client,  *)
(* a pause between two attempts, or the lock.                              *)
(***************************************************************************)
EXTENDS Integers, FiniteSets

CONSTANTS
    Callers,     \* coroutines that call ensure_connected
    Main,        \* the service's own coroutine: it connects and disconnects
    Tasks,       \* health check loops
    Nobody,      \* the holder of the free lock; the task before the first one
    MaxRetries,  \* redis_reconnect_max_retries
    MaxOutages,  \* how often Redis goes down or comes up in a behaviour
    MaxHangs     \* how many pings, or callers, wait_for gives up on

ASSUME RedisConnectionAssumption ==
    /\ Main \notin Callers /\ Main \notin Tasks
    /\ Callers \cap Tasks = {}
    /\ Nobody \notin Callers \cup Tasks \cup {Main}
    /\ Tasks # {}
    /\ MaxRetries \in Nat \ {0}
    /\ MaxOutages \in Nat
    /\ MaxHangs \in Nat

Coroutines == Callers \cup Tasks \cup {Main}

VARIABLES
    up,         \* Redis answers
    client,     \* self.client is there
    connected,  \* self.connected
    fresh,      \* the last successful check is less than ten seconds old
    lock,       \* who holds _reconnect_lock
    task,       \* _health_check_task
    pc,         \* what each coroutine awaits
    attempt,    \* the attempt of connect that it makes
    ping,       \* the client that its ping is on: the current one, one that
                \* was replaced, or one that was closed
    serving,    \* the service has not begun to disconnect
    budget      \* outages and exceeded time limits still to come

vars == <<up, client, connected, fresh, lock, task, pc, attempt, ping, serving,
          budget>>
connection == <<client, connected, fresh>>
environment == <<up, serving, budget>>

Pinging == {"ping", "check", "probe", "quick"}

Alive(t) == pc[t] # "idle"

Goto(p, label) == pc' = [pc EXCEPT ![p] = label]

\* Where a coroutine goes when connect returns or raises.
Done(p) == IF p \in Tasks THEN "sleep" ELSE "idle"

\* Leaving async with self.reconnect_lock, if it was entered.
Unlock(p) == lock' = IF lock = p THEN Nobody ELSE lock

-----------------------------------------------------------------------------
(* connect *)

\* A new client replaces the old one and is pinged at once.
NewClient(p, label) ==
    /\ client' = TRUE
    /\ ping' = [q \in Coroutines |->
                    IF q = p THEN "current"
                    ELSE IF ping[q] = "current" THEN "replaced"
                    ELSE ping[q]]
    /\ Goto(p, label)
    /\ UNCHANGED <<connected, fresh>>

\* The service's own coroutine connects before it does or starts anything else.
Working == serving /\ client /\ pc[Main] = "idle"
AtRest == serving /\ \A p \in Callers \cup {Main} : pc[p] = "idle"

\* A service connects when it starts, and a worker also between two messages,
\* when it has lost RabbitMQ.  The client it has is not closed.
ServiceConnects ==
    /\ AtRest
    /\ attempt' = [attempt EXCEPT ![Main] = 1]
    /\ NewClient(Main, "probe")
    /\ UNCHANGED <<lock, task, environment>>

\* attempt_redis_connection_on_startup: no retry, and no health check loop.
ManagerConnects ==
    /\ AtRest /\ ~client
    /\ NewClient(Main, "quick")
    /\ UNCHANGED <<lock, task, attempt, environment>>

NextAttempt(p) ==
    /\ pc[p] = "pause"
    /\ attempt' = [attempt EXCEPT ![p] = @ + 1]
    /\ NewClient(p, "probe")
    /\ UNCHANGED <<lock, task, environment>>

\* Mutant: another loop is started whether or not there is one.
StartAnotherLoop(p) ==
    \E t \in Tasks :
        /\ ~Alive(t) /\ t # p
        /\ task' = t
        /\ pc' = [pc EXCEPT ![p] = Done(p), ![t] = "sleep"]

\* The health check loop is started if there is none, or it has ended.
StartLoop(p) ==
    IF task = Nobody \/ ~Alive(task)
    THEN \E t \in Tasks :
             /\ ~Alive(t)
             /\ task' = t
             /\ pc' = [pc EXCEPT ![p] = Done(p), ![t] = "sleep"]
    ELSE Goto(p, Done(p)) /\ UNCHANGED task

-----------------------------------------------------------------------------
(* The pings, and what their callers make of the result *)

Answers(p) ==
    /\ up /\ ping[p] # "closed"
    /\ UNCHANGED budget
Fails(p) ==
    /\ ~up \/ ping[p] = "closed"
    /\ UNCHANGED budget
Hangs ==
    /\ budget.hangs > 0
    /\ budget' = [budget EXCEPT !.hangs = @ - 1]

ProbeAnswers(p) ==
    /\ pc[p] = "probe"
    /\ Answers(p)
    /\ connected' = TRUE /\ fresh' = TRUE
    /\ StartLoop(p)
    /\ Unlock(p)
    /\ ping' = [ping EXCEPT ![p] = "none"]
    /\ UNCHANGED <<client, attempt, up, serving>>

\* Mutant: one attempt more.
ProbeFailsOnceMore(p) ==
    /\ pc[p] = "probe"
    /\ Fails(p)
    /\ IF attempt[p] <= MaxRetries
       THEN Goto(p, "pause") /\ UNCHANGED <<connected, lock>>
       ELSE Goto(p, Done(p)) /\ connected' = FALSE /\ Unlock(p)
    /\ ping' = [ping EXCEPT ![p] = "none"]
    /\ UNCHANGED <<client, fresh, task, attempt, up, serving>>

\* The attempts end with a flag, not with an exception.
ProbeFails(p) ==
    /\ pc[p] = "probe"
    /\ Fails(p)
    /\ IF attempt[p] < MaxRetries
       THEN Goto(p, "pause") /\ UNCHANGED <<connected, lock>>
       ELSE Goto(p, Done(p)) /\ connected' = FALSE /\ Unlock(p)
    /\ ping' = [ping EXCEPT ![p] = "none"]
    /\ UNCHANGED <<client, fresh, task, attempt, up, serving>>

\* connect catches RedisError only: the TimeoutError ends the attempts, and a
\* health check loop for good.
ProbeHangs(p) ==
    /\ pc[p] = "probe"
    /\ Hangs
    /\ Goto(p, "idle")
    /\ Unlock(p)
    /\ ping' = [ping EXCEPT ![p] = "none"]
    /\ UNCHANGED <<connection, task, attempt, up, serving>>

QuickAnswers ==
    /\ pc[Main] = "quick"
    /\ Answers(Main)
    /\ connected' = TRUE
    /\ Goto(Main, "idle")
    /\ ping' = [ping EXCEPT ![Main] = "none"]
    /\ UNCHANGED <<client, fresh, lock, task, attempt, up, serving>>

QuickFails ==
    /\ pc[Main] = "quick"
    /\ Fails(Main) \/ Hangs
    /\ connected' = FALSE
    /\ Goto(Main, "idle")
    /\ ping' = [ping EXCEPT ![Main] = "none"]
    /\ UNCHANGED <<client, fresh, lock, task, attempt, up, serving>>

-----------------------------------------------------------------------------
(* _reconnect_with_backoff *)

\* The client is closed under the pings of the other coroutines.
StartReconnect(p) ==
    /\ Goto(p, "closing")
    /\ ping' = [q \in Coroutines |->
                    IF q = p THEN "none"
                    ELSE IF ping[q] = "current" /\ client THEN "closed"
                    ELSE ping[q]]

\* Whatever self.client is by then, it is dropped for a new one.
Closed(p) ==
    /\ pc[p] = "closing"
    /\ attempt' = [attempt EXCEPT ![p] = 1]
    /\ NewClient(p, "probe")
    /\ UNCHANGED <<lock, task, environment>>

-----------------------------------------------------------------------------
(* ensure_connected *)

EnsureConnected(c) ==
    /\ Working /\ pc[c] = "idle"
    /\ IF connected /\ client
       THEN /\ ~fresh
            /\ Goto(c, "ping")
            /\ ping' = [ping EXCEPT ![c] = "current"]
       ELSE Goto(c, "lock") /\ UNCHANGED ping
    /\ UNCHANGED <<connection, lock, task, attempt, environment>>

PingAnswers(c) ==
    /\ pc[c] = "ping"
    /\ Answers(c)
    /\ fresh' = TRUE
    /\ Goto(c, "idle")
    /\ ping' = [ping EXCEPT ![c] = "none"]
    /\ UNCHANGED <<client, connected, lock, task, attempt, up, serving>>

PingFails(c) ==
    /\ pc[c] = "ping"
    /\ Fails(c) \/ Hangs
    /\ connected' = FALSE
    /\ Goto(c, "lock")
    /\ ping' = [ping EXCEPT ![c] = "none"]
    /\ UNCHANGED <<client, fresh, lock, task, attempt, up, serving>>

\* Mutant: the lock is not waited for.
BargeIn(c) ==
    /\ pc[c] = "lock"
    /\ IF connected /\ client
       THEN Goto(c, "idle") /\ UNCHANGED <<lock, ping>>
       ELSE lock' = c /\ StartReconnect(c)
    /\ UNCHANGED <<connection, task, attempt, environment>>

\* After the lock is taken the connection is looked at once more.
TakeLock(c) ==
    /\ pc[c] = "lock"
    /\ lock = Nobody
    /\ IF connected /\ client
       THEN Goto(c, "idle") /\ UNCHANGED <<lock, ping>>
       ELSE lock' = c /\ StartReconnect(c)
    /\ UNCHANGED <<connection, task, attempt, environment>>

\* Mutant: the lock is not released on the way of an exception.
CancelledWithLock(c) ==
    /\ pc[c] # "idle"
    /\ Hangs
    /\ Goto(c, "idle")
    /\ ping' = [ping EXCEPT ![c] = "none"]
    /\ UNCHANGED <<connection, lock, task, attempt, up, serving>>

\* A handler that takes longer than its time limit is cancelled in the middle of
\* the attempts, which together take longer than that.
Cancelled(c) ==
    /\ pc[c] # "idle"
    /\ Hangs
    /\ Goto(c, "idle")
    /\ Unlock(c)
    /\ ping' = [ping EXCEPT ![c] = "none"]
    /\ UNCHANGED <<connection, task, attempt, up, serving>>

-----------------------------------------------------------------------------
(* _health_check_loop and _check_health *)

Wake(t) ==
    /\ pc[t] = "sleep"
    /\ IF client
       THEN Goto(t, "check") /\ ping' = [ping EXCEPT ![t] = "current"]
       ELSE StartReconnect(t)
    /\ UNCHANGED <<connection, lock, task, attempt, environment>>

\* An answer does not set connected again.
CheckAnswers(t) ==
    /\ pc[t] = "check"
    /\ Answers(t)
    /\ fresh' = TRUE
    /\ Goto(t, "sleep")
    /\ ping' = [ping EXCEPT ![t] = "none"]
    /\ UNCHANGED <<client, connected, lock, task, attempt, up, serving>>

CheckFails(t) ==
    /\ pc[t] = "check"
    /\ Fails(t) \/ Hangs
    /\ connected' = FALSE
    /\ StartReconnect(t)
    /\ UNCHANGED <<client, fresh, lock, task, attempt, up, serving>>

-----------------------------------------------------------------------------
(* disconnect, time, and Redis *)

\* The services disconnect when their own work is over: no coroutine is in
\* ensure_connected.  The loop is cancelled wherever it is.
Disconnect ==
    /\ AtRest
    /\ serving' = FALSE
    /\ IF task = Nobody THEN UNCHANGED <<pc, ping>>
       ELSE Goto(task, "idle") /\ ping' = [ping EXCEPT ![task] = "none"]
    /\ connected' = IF client THEN FALSE ELSE connected
    /\ UNCHANGED <<up, client, fresh, lock, task, attempt, budget>>

\* Ten seconds pass.
Age ==
    /\ fresh
    /\ fresh' = FALSE
    /\ UNCHANGED <<up, client, connected, lock, task, pc, attempt, ping, serving,
                   budget>>

Outage ==
    /\ budget.outages > 0
    /\ budget' = [budget EXCEPT !.outages = @ - 1]
    /\ up' = ~up
    /\ UNCHANGED <<connection, lock, task, pc, attempt, ping, serving>>

-----------------------------------------------------------------------------

Init ==
    /\ up \in BOOLEAN
    /\ client = FALSE /\ connected = FALSE /\ fresh = FALSE
    /\ lock = Nobody
    /\ task = Nobody
    /\ pc = [p \in Coroutines |-> "idle"]
    /\ attempt = [p \in Coroutines |-> 1]
    /\ ping = [p \in Coroutines |-> "none"]
    /\ serving = TRUE
    /\ budget = [outages |-> MaxOutages, hangs |-> MaxHangs]

\* The steps that a coroutine takes once it is under way.
Proceed(p) ==
    \/ ProbeAnswers(p) \/ ProbeFails(p) \/ NextAttempt(p) \/ Closed(p)
    \/ PingAnswers(p) \/ PingFails(p) \/ TakeLock(p)
    \/ CheckAnswers(p) \/ CheckFails(p)

Next ==
    \/ \E p \in Coroutines : Proceed(p) \/ ProbeHangs(p)
    \/ \E c \in Callers : EnsureConnected(c) \/ Cancelled(c)
    \/ \E t \in Tasks : Wake(t)
    \/ ServiceConnects \/ ManagerConnects \/ QuickAnswers \/ QuickFails
    \/ Disconnect \/ Age \/ Outage

\* The service starts; every ping is answered, fails or times out; time passes;
\* the health check loop wakes up; and there is work for Redis again and again
\* (the workers' handlers, the health endpoint, the scanner's main loop).
Fairness ==
    /\ \A p \in Coroutines : WF_vars(Proceed(p))
    /\ \A c \in Callers : WF_vars(EnsureConnected(c))
    /\ \A t \in Tasks : WF_vars(Wake(t))
    /\ WF_vars(~client /\ (ServiceConnects \/ ManagerConnects))
    /\ WF_vars(QuickAnswers \/ QuickFails)
    /\ WF_vars(Age)

Spec == Init /\ [][Next]_vars
FairSpec == Spec /\ Fairness

-----------------------------------------------------------------------------
(* Properties *)

Places ==
    {"idle", "lock", "closing", "pause", "sleep"} \cup Pinging

\* The types of the state; no coroutine makes an attempt beyond the last, and
\* only a caller or nobody has the lock (connect, reconnect_lock).
TypeOK ==
    /\ up \in BOOLEAN
    /\ client \in BOOLEAN
    /\ connected \in BOOLEAN
    /\ fresh \in BOOLEAN
    /\ lock \in Callers \cup {Nobody}
    /\ task \in Tasks \cup {Nobody}
    /\ pc \in [Coroutines -> Places]
    /\ attempt \in [Coroutines -> 1..MaxRetries]
    /\ ping \in [Coroutines -> {"none", "current", "replaced", "closed"}]
    /\ serving \in BOOLEAN
    /\ budget \in [outages : 0..MaxOutages, hangs : 0..MaxHangs]

\* However many coroutines connect at the same time, one health check loop at
\* most is alive, and it is the one that disconnect will cancel (connect,
\* _health_check_task).
OneHealthLoop == \A t \in Tasks : Alive(t) => t = task

\* Of the callers of ensure_connected only one reconnects at a time, and it is
\* the holder of the lock (reconnect_lock).
OneCallerReconnects ==
    \A c \in Callers : pc[c] \in {"closing", "probe", "pause"} => lock = c

\* After disconnect nothing is left that would connect again, and nobody is
\* told that Redis is there (disconnect).
StaysDisconnected ==
    ~serving => ~connected /\ \A p \in Coroutines : pc[p] = "idle"

\* Once Redis stays up, connected is true again and again; once it stays down,
\* connected is false for good: no order of reconnects hides an outage, or its
\* end, from those who ask (ensure_connected, _health_check_loop).
ConnectedFollowsRedis ==
    \/ <>(~serving)
    \/ /\ <>[]up => []<>connected
       /\ <>[]~up => <>[]~connected

=============================================================================
