------------------------ MODULE RedisConnectionProofs ------------------------
(***************************************************************************)
(* Proofs about RedisConnection, for any number of coroutines, attempts    *)
(* and outages: its types, that one health check loop is alive at most,    *)
(* that callers reconnect one at a time, and that nothing survives         *)
(* disconnect.                                                             *)
(***************************************************************************)
EXTENDS RedisConnection, TLAPS

\* Which coroutine may be where.
RightPlaces ==
    /\ \A t \in Tasks :
           pc[t] \in {"idle", "sleep", "check", "closing", "probe", "pause"}
    /\ \A c \in Callers :
           pc[c] \in {"idle", "lock", "ping", "closing", "probe", "pause"}
    /\ pc[Main] \in {"idle", "probe", "pause", "quick"}

\* connected is not set before there is a client.
HasClient == connected \/ (\E p \in Coroutines : pc[p] \in Pinging) => client

\* A pause follows an attempt that was not the last one.
AttemptsLeft == \A p \in Coroutines : pc[p] = "pause" => attempt[p] < MaxRetries

IInv ==
    /\ TypeOK
    /\ RightPlaces
    /\ HasClient
    /\ AttemptsLeft
    /\ OneHealthLoop
    /\ OneCallerReconnects
    /\ StaysDisconnected

-----------------------------------------------------------------------------

\* A coroutine that goes to a place of its kind leaves the others where they
\* are; what it needs to hold is stated of it alone.
LEMMA MoveSafe ==
    ASSUME IInv, NEW p \in Coroutines, NEW label, Goto(p, label),
           p \in Tasks => label \in {"idle", "sleep", "check", "closing",
                                     "probe", "pause"},
           p \in Callers => label \in {"idle", "lock", "ping", "closing",
                                       "probe", "pause"},
           p = Main => label \in {"idle", "probe", "pause", "quick"},
           p \in Tasks /\ label # "idle" => pc[p] # "idle",
           UNCHANGED task
    PROVE  /\ pc' \in [Coroutines -> Places]
           /\ RightPlaces'
           /\ OneHealthLoop'
           /\ pc'[p] = label
           /\ \A q \in Coroutines : q # p => pc'[q] = pc[q]
<1>1. /\ pc'[p] = label
      /\ \A q \in Coroutines : q # p => pc'[q] = pc[q]
  BY DEF IInv, TypeOK, Goto
<1>2. label \in Places
  BY RedisConnectionAssumption DEF Coroutines, Places, Pinging
<1>3. pc' \in [Coroutines -> Places]
  BY <1>2 DEF IInv, TypeOK, Goto
<1>4. RightPlaces'
  BY <1>1, RedisConnectionAssumption DEF IInv, RightPlaces, Coroutines
<1>5. OneHealthLoop'
  BY <1>1 DEF IInv, OneHealthLoop, Alive, Coroutines
<1> QED
  BY <1>1, <1>3, <1>4, <1>5


\* Once the service has disconnected no coroutine is under way.
LEMMA BusyServes ==
    ASSUME IInv, NEW p \in Coroutines, pc[p] # "idle"
    PROVE  serving
BY DEF IInv, StaysDisconnected

\* A new client is there, and the pings that are under way stay pings.
LEMMA NewClientSafe ==
    ASSUME IInv, NEW p \in Coroutines, NEW label \in {"probe", "quick"},
           NewClient(p, label),
           label = "quick" => p = Main,
           p \in Tasks => pc[p] # "idle",
           p \in Callers => lock = p,
           UNCHANGED <<up, lock, task, serving, budget>>, serving,
           attempt' \in [Coroutines -> 1..MaxRetries],
           \A q \in Coroutines : q # p => attempt'[q] = attempt[q]
    PROVE  IInv'
<1>1. Goto(p, label) /\ client' = TRUE
  BY DEF NewClient
<1>2. /\ pc' \in [Coroutines -> Places]
      /\ RightPlaces'
      /\ OneHealthLoop'
      /\ pc'[p] = label
      /\ \A q \in Coroutines : q # p => pc'[q] = pc[q]
  BY <1>1, MoveSafe, RedisConnectionAssumption
<1>3. ping' \in [Coroutines -> {"none", "current", "replaced", "closed"}]
  BY DEF NewClient, IInv, TypeOK
<1>4. TypeOK'
  BY <1>1, <1>2, <1>3 DEF NewClient, IInv, TypeOK
<1>5. HasClient'
  BY <1>1 DEF HasClient
<1>6. OneCallerReconnects'
  BY <1>2 DEF IInv, OneCallerReconnects, Coroutines
<1>7. StaysDisconnected'
  BY DEF StaysDisconnected
<1>8. AttemptsLeft'
  BY <1>2 DEF IInv, AttemptsLeft
<1> QED
  BY <1>2, <1>4, <1>5, <1>6, <1>7, <1>8 DEF IInv

\* A coroutine that goes where no ping is under way, and that either keeps the
\* lock or is not reconnecting.
LEMMA RestSafe ==
    ASSUME IInv, NEW p \in Coroutines,
           NEW label \in {"idle", "sleep", "lock", "pause", "closing"},
           Goto(p, label),
           p \in Tasks => label # "lock",
           p \in Callers => label # "sleep",
           p = Main => label \in {"idle", "pause"},
           pc[p] # "idle" \/ label = "lock",
           p \in Tasks /\ label # "idle" => pc[p] # "idle",
           p \in Callers /\ label \in {"pause", "closing"} => lock' = p,
           label = "pause" => attempt[p] < MaxRetries,
           \A c \in Callers : c # p /\ lock = c => lock' = c,
           lock' \in Callers \cup {Nobody},
           connected' \in BOOLEAN, connected' => client,
           fresh' \in BOOLEAN,
           ping' \in [Coroutines -> {"none", "current", "replaced", "closed"}],
           attempt' = attempt,
           budget' \in [outages : 0..MaxOutages, hangs : 0..MaxHangs],
           UNCHANGED <<up, client, task, serving>>, serving
    PROVE  IInv'
<1>1. /\ pc' \in [Coroutines -> Places]
      /\ RightPlaces'
      /\ OneHealthLoop'
      /\ pc'[p] = label
      /\ \A q \in Coroutines : q # p => pc'[q] = pc[q]
  BY MoveSafe
<1>2. TypeOK'
  BY <1>1 DEF IInv, TypeOK
<1>3. HasClient'
  BY <1>1 DEF IInv, HasClient, Pinging
<1>4. OneCallerReconnects'
  BY <1>1 DEF IInv, OneCallerReconnects, Coroutines
<1>5. StaysDisconnected'
  BY DEF StaysDisconnected
<1>6. AttemptsLeft'
  BY <1>1 DEF IInv, AttemptsLeft
<1> QED
  BY <1>1, <1>2, <1>3, <1>4, <1>5, <1>6 DEF IInv

LEMMA HangsTypes ==
    ASSUME TypeOK, Hangs
    PROVE  budget' \in [outages : 0..MaxOutages, hangs : 0..MaxHangs]
BY RedisConnectionAssumption DEF TypeOK, Hangs

LEMMA UnlockSafe ==
    ASSUME TypeOK, NEW p \in Coroutines, Unlock(p)
    PROVE  /\ lock' \in Callers \cup {Nobody}
           /\ \A c \in Callers : c # p /\ lock = c => lock' = c
BY DEF TypeOK, Unlock

LEMMA ReconnectTypes ==
    ASSUME TypeOK, NEW p \in Coroutines, StartReconnect(p)
    PROVE  ping' \in [Coroutines -> {"none", "current", "replaced", "closed"}]
BY DEF TypeOK, StartReconnect

-----------------------------------------------------------------------------
(* The actions *)

LEMMA ServiceConnectsSafe ==
    ASSUME IInv, ServiceConnects
    PROVE  IInv'
<1>1. /\ attempt' \in [Coroutines -> 1..MaxRetries]
      /\ \A q \in Coroutines : q # Main => attempt'[q] = attempt[q]
  <2>1. 1 \in 1..MaxRetries
    BY RedisConnectionAssumption
  <2> QED
    BY <2>1 DEF IInv, TypeOK, ServiceConnects
<1>2. /\ serving /\ NewClient(Main, "probe")
      /\ UNCHANGED <<up, lock, task, serving, budget>>
  BY DEF ServiceConnects, AtRest, environment
<1>3. Main \in Coroutines /\ Main \notin Tasks /\ Main \notin Callers
  BY RedisConnectionAssumption DEF Coroutines
<1> QED
  BY <1>1, <1>2, <1>3, NewClientSafe

LEMMA ManagerConnectsSafe ==
    ASSUME IInv, ManagerConnects
    PROVE  IInv'
<1>1. /\ attempt' \in [Coroutines -> 1..MaxRetries]
      /\ \A q \in Coroutines : q # Main => attempt'[q] = attempt[q]
  BY DEF IInv, TypeOK, ManagerConnects
<1>2. /\ serving /\ NewClient(Main, "quick")
      /\ UNCHANGED <<up, lock, task, serving, budget>>
  BY DEF ManagerConnects, AtRest, environment
<1>3. Main \in Coroutines /\ Main \notin Tasks /\ Main \notin Callers
  BY RedisConnectionAssumption DEF Coroutines
<1> QED
  BY <1>1, <1>2, <1>3, NewClientSafe

LEMMA NextAttemptSafe ==
    ASSUME IInv, NEW p \in Coroutines, NextAttempt(p)
    PROVE  IInv'
<1>1. attempt[p] \in 1..MaxRetries /\ attempt[p] < MaxRetries
  BY DEF IInv, TypeOK, AttemptsLeft, NextAttempt
<1>2. /\ attempt' \in [Coroutines -> 1..MaxRetries]
      /\ \A q \in Coroutines : q # p => attempt'[q] = attempt[q]
  BY <1>1, RedisConnectionAssumption DEF IInv, TypeOK, NextAttempt
<1>3. p \in Callers => lock = p
  BY DEF IInv, OneCallerReconnects, NextAttempt
<1>4. /\ pc[p] # "idle" /\ NewClient(p, "probe")
      /\ UNCHANGED <<up, lock, task, serving, budget>>
  BY DEF NextAttempt, environment
<1> QED
  BY <1>2, <1>3, <1>4, NewClientSafe, BusyServes

LEMMA ClosedSafe ==
    ASSUME IInv, NEW p \in Coroutines, Closed(p)
    PROVE  IInv'
<1>1. /\ attempt' \in [Coroutines -> 1..MaxRetries]
      /\ \A q \in Coroutines : q # p => attempt'[q] = attempt[q]
  BY RedisConnectionAssumption DEF IInv, TypeOK, Closed
<1>2. p \in Callers => lock = p
  BY DEF IInv, OneCallerReconnects, Closed
<1>3. /\ pc[p] # "idle" /\ NewClient(p, "probe")
      /\ UNCHANGED <<up, lock, task, serving, budget>>
  BY DEF Closed, environment
<1> QED
  BY <1>1, <1>2, <1>3, NewClientSafe, BusyServes

\* The coroutine has its answer: it is done with connect, whichever loop is
\* started on the way.
LEMMA ProbeAnswersSafe ==
    ASSUME IInv, NEW p \in Coroutines, ProbeAnswers(p)
    PROVE  IInv'
<1>1. serving /\ client /\ pc[p] = "probe"
  BY BusyServes DEF IInv, HasClient, Pinging, ProbeAnswers
<1>2. /\ lock' \in Callers \cup {Nobody}
      /\ \A c \in Callers : c # p /\ lock = c => lock' = c
  BY UnlockSafe DEF IInv, ProbeAnswers
<1>3. /\ ping' \in [Coroutines -> {"none", "current", "replaced", "closed"}]
      /\ connected' = TRUE /\ fresh' = TRUE
      /\ UNCHANGED <<up, client, attempt, serving, budget>>
  BY DEF IInv, TypeOK, ProbeAnswers, Answers
<1>4. /\ Done(p) \in {"idle", "sleep"}
      /\ p \in Callers \cup {Main} => Done(p) = "idle"
  BY RedisConnectionAssumption DEF Done
<1>5. CASE Goto(p, Done(p)) /\ UNCHANGED task
  BY <1>1, <1>2, <1>3, <1>4, <1>5, RestSafe DEF IInv, TypeOK
<1>6. CASE task = Nobody \/ ~Alive(task)
  <2>1. PICK t \in Tasks : /\ ~Alive(t)
                           /\ task' = t
                           /\ pc' = [pc EXCEPT ![p] = Done(p), ![t] = "sleep"]
    BY <1>6 DEF ProbeAnswers, StartLoop
  <2>2. \A u \in Tasks : ~Alive(u)
    BY <1>6, RedisConnectionAssumption DEF IInv, OneHealthLoop
  <2>3. p \notin Tasks /\ t # p /\ Done(p) = "idle"
    BY <1>1, <1>4, <2>2 DEF Alive, Coroutines
  <2>4. /\ t \in Coroutines /\ pc'[t] = "sleep" /\ pc'[p] = "idle"
        /\ \A q \in Coroutines : q # p /\ q # t => pc'[q] = pc[q]
        /\ pc' \in [Coroutines -> Places]
    BY <2>1, <2>3 DEF IInv, TypeOK, Coroutines, Places
  <2>5. TypeOK'
    BY <1>2, <1>3, <2>1, <2>4 DEF IInv, TypeOK
  <2>6. RightPlaces'
    BY <2>3, <2>4, RedisConnectionAssumption DEF IInv, RightPlaces, Coroutines
  <2>7. HasClient' /\ AttemptsLeft' /\ StaysDisconnected'
    BY <1>1, <1>3, <2>4
    DEF IInv, HasClient, AttemptsLeft, StaysDisconnected
  <2>8. OneHealthLoop'
    BY <2>1, <2>2, <2>3, <2>4 DEF OneHealthLoop, Alive, Coroutines
  <2>9. OneCallerReconnects'
    BY <1>2, <2>1, <2>3, <2>4, RedisConnectionAssumption
    DEF IInv, OneCallerReconnects, Coroutines
  <2> QED
    BY <2>5, <2>6, <2>7, <2>8, <2>9 DEF IInv
<1> QED
  BY <1>5, <1>6 DEF ProbeAnswers, StartLoop

LEMMA ProbeFailsSafe ==
    ASSUME IInv, NEW p \in Coroutines, ProbeFails(p)
    PROVE  IInv'
<1>1. serving /\ client /\ pc[p] = "probe"
  BY BusyServes DEF IInv, HasClient, Pinging, ProbeFails
<1>2. p \in Callers => lock = p
  BY <1>1 DEF IInv, OneCallerReconnects
<1>3. /\ ping' \in [Coroutines -> {"none", "current", "replaced", "closed"}]
      /\ UNCHANGED <<up, client, fresh, task, attempt, serving, budget>>
  BY DEF IInv, TypeOK, ProbeFails, Fails
<1>4. CASE attempt[p] < MaxRetries
  <2>1. Goto(p, "pause") /\ UNCHANGED <<connected, lock>>
    BY <1>4 DEF ProbeFails
  <2> QED
    BY <1>1, <1>2, <1>3, <1>4, <2>1, RestSafe DEF IInv, TypeOK
<1>5. CASE ~(attempt[p] < MaxRetries)
  <2>1. Goto(p, Done(p)) /\ connected' = FALSE /\ Unlock(p)
    BY <1>5 DEF ProbeFails
  <2>2. /\ Done(p) \in {"idle", "sleep"}
        /\ p \in Callers \cup {Main} => Done(p) = "idle"
    BY RedisConnectionAssumption DEF Done
  <2>3. /\ lock' \in Callers \cup {Nobody}
        /\ \A c \in Callers : c # p /\ lock = c => lock' = c
    BY <2>1, UnlockSafe DEF IInv
  <2>4. /\ connected' \in BOOLEAN /\ (connected' => client)
        /\ fresh' \in BOOLEAN /\ attempt' = attempt
        /\ budget' \in [outages : 0..MaxOutages, hangs : 0..MaxHangs]
    BY <1>3, <2>1 DEF IInv, TypeOK
  <2>5. /\ p \in Tasks => Done(p) # "lock"
        /\ p \in Callers => Done(p) # "sleep"
        /\ p = Main => Done(p) = "idle"
        /\ Done(p) \notin {"pause", "closing"}
        /\ pc[p] # "idle"
    BY <1>1, <2>2
  <2> HIDE DEF Done
  <2> QED
    BY <1>1, <1>3, <2>1, <2>2, <2>3, <2>4, <2>5, RestSafe
<1> QED
  BY <1>4, <1>5

LEMMA ProbeHangsSafe ==
    ASSUME IInv, NEW p \in Coroutines, ProbeHangs(p)
    PROVE  IInv'
<1>1. p \in Coroutines /\ serving /\ pc[p] # "idle"
  BY BusyServes DEF ProbeHangs, Coroutines
<1>2. /\ lock' \in Callers \cup {Nobody}
      /\ \A c \in Callers : c # p /\ lock = c => lock' = c
  BY <1>1, UnlockSafe DEF IInv, ProbeHangs
<1>3. /\ ping' \in [Coroutines -> {"none", "current", "replaced", "closed"}]
      /\ budget' \in [outages : 0..MaxOutages, hangs : 0..MaxHangs]
      /\ UNCHANGED <<up, client, connected, fresh, task, attempt, serving>>
  BY HangsTypes DEF IInv, TypeOK, ProbeHangs, connection
<1>4. connected' => client
  BY <1>3 DEF IInv, HasClient
<1>5. Goto(p, "idle")
  BY DEF ProbeHangs
<1> QED
  BY <1>1, <1>2, <1>3, <1>4, <1>5, RestSafe DEF IInv, TypeOK

LEMMA QuickAnswersSafe ==
    ASSUME IInv, QuickAnswers
    PROVE  IInv'
<1>1. Main \in Coroutines /\ Main \notin Tasks /\ Main \notin Callers
  BY RedisConnectionAssumption DEF Coroutines
<1>2. serving /\ client /\ pc[Main] = "quick"
  BY <1>1, BusyServes DEF IInv, HasClient, Pinging, QuickAnswers
<1>3. /\ ping' \in [Coroutines -> {"none", "current", "replaced", "closed"}]
      /\ budget' \in [outages : 0..MaxOutages, hangs : 0..MaxHangs]
      /\ connected' \in BOOLEAN
      /\ UNCHANGED <<up, client, fresh, lock, task, attempt, serving>>
  BY HangsTypes DEF IInv, TypeOK, QuickAnswers, Answers
<1>4. Goto(Main, "idle")
  BY DEF QuickAnswers
<1> QED
  BY <1>1, <1>2, <1>3, <1>4, RestSafe DEF IInv, TypeOK

LEMMA QuickFailsSafe ==
    ASSUME IInv, QuickFails
    PROVE  IInv'
<1>1. Main \in Coroutines /\ Main \notin Tasks /\ Main \notin Callers
  BY RedisConnectionAssumption DEF Coroutines
<1>2. serving /\ client /\ pc[Main] = "quick"
  BY <1>1, BusyServes DEF IInv, HasClient, Pinging, QuickFails
<1>3. /\ ping' \in [Coroutines -> {"none", "current", "replaced", "closed"}]
      /\ budget' \in [outages : 0..MaxOutages, hangs : 0..MaxHangs]
      /\ connected' \in BOOLEAN
      /\ UNCHANGED <<up, client, fresh, lock, task, attempt, serving>>
  BY HangsTypes DEF IInv, TypeOK, QuickFails, Fails
<1>4. Goto(Main, "idle")
  BY DEF QuickFails
<1> QED
  BY <1>1, <1>2, <1>3, <1>4, RestSafe DEF IInv, TypeOK

LEMMA EnsureConnectedSafe ==
    ASSUME IInv, NEW c \in Callers, EnsureConnected(c)
    PROVE  IInv'
<1>1. c \in Coroutines /\ c \notin Tasks /\ c # Main /\ serving /\ client
  BY RedisConnectionAssumption DEF Coroutines, EnsureConnected, Working
<1>2. /\ ping' \in [Coroutines -> {"none", "current", "replaced", "closed"}]
      /\ UNCHANGED <<up, client, connected, fresh, lock, task, attempt, serving,
                     budget>>
  BY DEF IInv, TypeOK, EnsureConnected, connection, environment
<1>3. PICK label \in {"ping", "lock"} : Goto(c, label)
  BY DEF EnsureConnected
<1>4. /\ pc' \in [Coroutines -> Places]
      /\ RightPlaces'
      /\ OneHealthLoop'
      /\ pc'[c] = label
      /\ \A q \in Coroutines : q # c => pc'[q] = pc[q]
  BY <1>1, <1>2, <1>3, MoveSafe
<1>5. TypeOK'
  BY <1>2, <1>4 DEF IInv, TypeOK
<1>6. HasClient' /\ AttemptsLeft' /\ StaysDisconnected'
  BY <1>1, <1>2, <1>4 DEF IInv, HasClient, AttemptsLeft, StaysDisconnected
<1>7. OneCallerReconnects'
  BY <1>2, <1>4 DEF IInv, OneCallerReconnects, Coroutines
<1> QED
  BY <1>4, <1>5, <1>6, <1>7 DEF IInv

LEMMA PingAnswersSafe ==
    ASSUME IInv, NEW c \in Coroutines, PingAnswers(c)
    PROVE  IInv'
<1>1. serving /\ pc[c] = "ping"
  BY BusyServes DEF PingAnswers
<1>2. /\ ping' \in [Coroutines -> {"none", "current", "replaced", "closed"}]
      /\ fresh' = TRUE
      /\ UNCHANGED <<up, client, connected, lock, task, attempt, serving, budget>>
  BY DEF IInv, TypeOK, PingAnswers, Answers
<1>3. Goto(c, "idle") /\ (connected' => client)
  BY <1>2 DEF PingAnswers, IInv, HasClient
<1> QED
  BY <1>1, <1>2, <1>3, RestSafe DEF IInv, TypeOK

LEMMA PingFailsSafe ==
    ASSUME IInv, NEW c \in Coroutines, PingFails(c)
    PROVE  IInv'
<1>1. serving /\ pc[c] = "ping"
  BY BusyServes DEF PingFails
<1>2. c \notin Tasks /\ c # Main
  BY <1>1 DEF IInv, RightPlaces
<1>3. /\ ping' \in [Coroutines -> {"none", "current", "replaced", "closed"}]
      /\ budget' \in [outages : 0..MaxOutages, hangs : 0..MaxHangs]
      /\ connected' = FALSE
      /\ UNCHANGED <<up, client, fresh, lock, task, attempt, serving>>
  BY HangsTypes DEF IInv, TypeOK, PingFails, Fails
<1>4. Goto(c, "lock")
  BY DEF PingFails
<1> QED
  BY <1>1, <1>2, <1>3, <1>4, RestSafe DEF IInv, TypeOK

LEMMA CancelledSafe ==
    ASSUME IInv, NEW c \in Callers, Cancelled(c)
    PROVE  IInv'
<1>1. c \in Coroutines /\ serving /\ pc[c] # "idle"
  BY BusyServes DEF Cancelled, Coroutines
<1>2. /\ lock' \in Callers \cup {Nobody}
      /\ \A q \in Callers : q # c /\ lock = q => lock' = q
  BY <1>1, UnlockSafe DEF IInv, Cancelled
<1>3. /\ ping' \in [Coroutines -> {"none", "current", "replaced", "closed"}]
      /\ budget' \in [outages : 0..MaxOutages, hangs : 0..MaxHangs]
      /\ UNCHANGED <<up, client, connected, fresh, task, attempt, serving>>
  BY HangsTypes DEF IInv, TypeOK, Cancelled, connection
<1>4. connected' => client
  BY <1>3 DEF IInv, HasClient
<1>5. Goto(c, "idle")
  BY DEF Cancelled
<1> QED
  BY <1>1, <1>2, <1>3, <1>4, <1>5, RestSafe DEF IInv, TypeOK

LEMMA TakeLockSafe ==
    ASSUME IInv, NEW c \in Coroutines, TakeLock(c)
    PROVE  IInv'
<1>1. serving /\ pc[c] = "lock" /\ lock = Nobody
  BY BusyServes DEF TakeLock
<1>2. c \in Callers /\ c \notin Tasks /\ c # Main
  BY <1>1, RedisConnectionAssumption DEF IInv, RightPlaces, Coroutines
<1>3. UNCHANGED <<up, client, connected, fresh, task, attempt, serving, budget>>
  BY DEF TakeLock, connection, environment
<1>4. connected' => client
  BY <1>3 DEF IInv, HasClient
<1>5. CASE Goto(c, "idle") /\ UNCHANGED <<lock, ping>>
  BY <1>1, <1>2, <1>3, <1>4, <1>5, RestSafe DEF IInv, TypeOK
<1>6. CASE lock' = c /\ StartReconnect(c)
  <2>1. ping' \in [Coroutines -> {"none", "current", "replaced", "closed"}]
    BY <1>6, ReconnectTypes DEF IInv
  <2>2. Goto(c, "closing")
    BY <1>6 DEF StartReconnect
  <2>3. \A d \in Callers : d # c /\ lock = d => lock' = d
    BY <1>1, RedisConnectionAssumption
  <2> QED
    BY <1>1, <1>2, <1>3, <1>4, <1>6, <2>1, <2>2, <2>3, RestSafe
    DEF IInv, TypeOK
<1> QED
  BY <1>5, <1>6 DEF TakeLock

LEMMA WakeSafe ==
    ASSUME IInv, NEW t \in Tasks, Wake(t)
    PROVE  IInv'
<1>1. /\ t \in Coroutines /\ t \notin Callers /\ t # Main
      /\ serving /\ pc[t] = "sleep"
  BY BusyServes, RedisConnectionAssumption DEF Coroutines, Wake
<1>2. UNCHANGED <<up, client, connected, fresh, lock, task, attempt, serving,
                  budget>>
  BY DEF Wake, connection, environment
<1>3. CASE client
  <2>1. /\ Goto(t, "check")
        /\ ping' \in [Coroutines -> {"none", "current", "replaced", "closed"}]
    BY <1>3 DEF IInv, TypeOK, Wake
  <2>2. /\ pc' \in [Coroutines -> Places]
        /\ RightPlaces'
        /\ OneHealthLoop'
        /\ pc'[t] = "check"
        /\ \A q \in Coroutines : q # t => pc'[q] = pc[q]
    BY <1>1, <1>2, <2>1, MoveSafe
  <2>3. TypeOK'
    BY <1>2, <2>1, <2>2 DEF IInv, TypeOK
  <2>4. HasClient' /\ AttemptsLeft' /\ StaysDisconnected'
    BY <1>1, <1>2, <1>3, <2>2
    DEF IInv, HasClient, AttemptsLeft, StaysDisconnected
  <2>5. OneCallerReconnects'
    BY <1>1, <1>2, <2>2 DEF IInv, OneCallerReconnects, Coroutines
  <2> QED
    BY <2>2, <2>3, <2>4, <2>5 DEF IInv
<1>4. CASE ~client
  <2>1. StartReconnect(t)
    BY <1>4 DEF Wake
  <2>2. /\ Goto(t, "closing")
        /\ ping' \in [Coroutines -> {"none", "current", "replaced", "closed"}]
    BY <1>1, <2>1, ReconnectTypes DEF IInv, StartReconnect
  <2>3. connected' => client
    BY <1>2 DEF IInv, HasClient
  <2> QED
    BY <1>1, <1>2, <2>2, <2>3, RestSafe DEF IInv, TypeOK
<1> QED
  BY <1>3, <1>4

LEMMA CheckAnswersSafe ==
    ASSUME IInv, NEW t \in Coroutines, CheckAnswers(t)
    PROVE  IInv'
<1>1. serving /\ pc[t] = "check"
  BY BusyServes DEF CheckAnswers
<1>2. t \notin Callers /\ t # Main
  BY <1>1 DEF IInv, RightPlaces
<1>3. /\ ping' \in [Coroutines -> {"none", "current", "replaced", "closed"}]
      /\ fresh' = TRUE
      /\ UNCHANGED <<up, client, connected, lock, task, attempt, serving, budget>>
  BY DEF IInv, TypeOK, CheckAnswers, Answers
<1>4. Goto(t, "sleep") /\ (connected' => client)
  BY <1>3 DEF CheckAnswers, IInv, HasClient
<1> QED
  BY <1>1, <1>2, <1>3, <1>4, RestSafe DEF IInv, TypeOK

LEMMA CheckFailsSafe ==
    ASSUME IInv, NEW t \in Coroutines, CheckFails(t)
    PROVE  IInv'
<1>1. serving /\ pc[t] = "check"
  BY BusyServes DEF CheckFails
<1>2. t \notin Callers /\ t # Main
  BY <1>1 DEF IInv, RightPlaces
<1>3. /\ ping' \in [Coroutines -> {"none", "current", "replaced", "closed"}]
      /\ budget' \in [outages : 0..MaxOutages, hangs : 0..MaxHangs]
      /\ connected' = FALSE
      /\ UNCHANGED <<up, client, fresh, lock, task, attempt, serving>>
  BY HangsTypes, ReconnectTypes DEF IInv, TypeOK, CheckFails, Fails
<1>4. Goto(t, "closing")
  BY DEF CheckFails, StartReconnect
<1> QED
  BY <1>1, <1>2, <1>3, <1>4, RestSafe DEF IInv, TypeOK

\* The loop that disconnect cancels is the only one there is.
LEMMA DisconnectSafe ==
    ASSUME IInv, Disconnect
    PROVE  IInv'
<1>1. /\ \A c \in Callers : pc[c] = "idle"
      /\ pc[Main] = "idle"
      /\ connected' = FALSE /\ serving' = FALSE
      /\ UNCHANGED <<up, client, fresh, lock, task, attempt, budget>>
  BY DEF Disconnect, AtRest, IInv, HasClient, TypeOK
<1>2. /\ pc' \in [Coroutines -> Places]
      /\ ping' \in [Coroutines -> {"none", "current", "replaced", "closed"}]
      /\ \A p \in Coroutines : pc'[p] = "idle"
  <2>1. \A t \in Tasks : t # task => pc[t] = "idle"
    BY DEF IInv, OneHealthLoop, Alive
  <2>2. CASE task = Nobody
    BY <1>1, <2>1, <2>2, RedisConnectionAssumption
    DEF Disconnect, IInv, TypeOK, Coroutines
  <2>3. CASE task # Nobody
    <3>1. Goto(task, "idle") /\ ping' = [ping EXCEPT ![task] = "none"]
      BY <2>3 DEF Disconnect
    <3>2. \A p \in Coroutines : pc'[p] = "idle"
      BY <1>1, <2>1, <3>1 DEF Goto, IInv, TypeOK, Coroutines
    <3> QED
      BY <3>1, <3>2 DEF Goto, IInv, TypeOK, Places
  <2> QED
    BY <2>2, <2>3
<1>3. TypeOK'
  BY <1>1, <1>2 DEF IInv, TypeOK
<1>4. Main \in Coroutines /\ Callers \subseteq Coroutines /\ Tasks \subseteq Coroutines
  BY DEF Coroutines
<1>5. RightPlaces' /\ OneHealthLoop' /\ OneCallerReconnects'
  BY <1>2, <1>4 DEF RightPlaces, OneHealthLoop, Alive, OneCallerReconnects
<1>6. HasClient' /\ AttemptsLeft' /\ StaysDisconnected'
  BY <1>1, <1>2 DEF HasClient, AttemptsLeft, StaysDisconnected, Pinging
<1> QED
  BY <1>3, <1>5, <1>6 DEF IInv

LEMMA EnvironmentSafe ==
    ASSUME IInv, Age \/ Outage \/ UNCHANGED vars
    PROVE  IInv'
<1>1. UNCHANGED <<client, connected, lock, task, pc, attempt, ping, serving>>
  BY DEF Age, Outage, vars, connection
<1>2. TypeOK'
  <2>1. fresh' \in BOOLEAN /\ up' \in BOOLEAN
    BY DEF IInv, TypeOK, Age, Outage, vars, connection
  <2>2. budget' \in [outages : 0..MaxOutages, hangs : 0..MaxHangs]
    BY RedisConnectionAssumption DEF IInv, TypeOK, Age, Outage, vars
  <2> QED
    BY <1>1, <2>1, <2>2 DEF IInv, TypeOK
<1>3. RightPlaces' /\ HasClient' /\ AttemptsLeft'
  BY <1>1 DEF IInv, RightPlaces, HasClient, AttemptsLeft
<1>4. OneHealthLoop' /\ OneCallerReconnects' /\ StaysDisconnected'
  BY <1>1
  DEF IInv, OneHealthLoop, Alive, OneCallerReconnects, StaysDisconnected
<1> QED
  BY <1>2, <1>3, <1>4 DEF IInv

-----------------------------------------------------------------------------
(* The theorems *)

LEMMA InitSafe == Init => IInv
<1> SUFFICES ASSUME Init PROVE IInv
  OBVIOUS
<1>1. TypeOK
  <2>1. 1 \in 1..MaxRetries /\ MaxOutages \in 0..MaxOutages
        /\ MaxHangs \in 0..MaxHangs
    BY RedisConnectionAssumption
  <2> QED
    BY <2>1 DEF Init, TypeOK, Places
<1>2. RightPlaces /\ HasClient /\ AttemptsLeft
  BY DEF Init, RightPlaces, HasClient, AttemptsLeft, Coroutines, Pinging
<1>3. OneHealthLoop /\ OneCallerReconnects /\ StaysDisconnected
  BY DEF Init, OneHealthLoop, Alive, OneCallerReconnects, StaysDisconnected,
         Coroutines
<1> QED
  BY <1>1, <1>2, <1>3 DEF IInv

LEMMA NextSafe == IInv /\ [Next]_vars => IInv'
<1> SUFFICES ASSUME IInv, [Next]_vars PROVE IInv'
  OBVIOUS
<1>1. ASSUME NEW p \in Coroutines, Proceed(p) \/ ProbeHangs(p)
      PROVE  IInv'
  BY <1>1, ProbeAnswersSafe, ProbeFailsSafe, NextAttemptSafe, ClosedSafe,
     PingAnswersSafe, PingFailsSafe, TakeLockSafe, CheckAnswersSafe,
     CheckFailsSafe, ProbeHangsSafe DEF Proceed
<1>2. ASSUME NEW c \in Callers, EnsureConnected(c) \/ Cancelled(c)
      PROVE  IInv'
  BY <1>2, EnsureConnectedSafe, CancelledSafe
<1>3. ASSUME ServiceConnects \/ ManagerConnects \/ QuickAnswers \/ QuickFails
      PROVE  IInv'
  BY <1>3, ServiceConnectsSafe, ManagerConnectsSafe, QuickAnswersSafe,
     QuickFailsSafe
<1> QED
  BY <1>1, <1>2, <1>3, WakeSafe, DisconnectSafe, EnvironmentSafe DEF Next

\* The state of the connection has its types in every instance; the attempts
\* never exceed MaxRetries.
THEOREM TypeCorrect == Spec => []TypeOK
<1>1. IInv => TypeOK
  BY DEF IInv
<1> QED
  BY <1>1, InitSafe, NextSafe, PTL DEF Spec

\* One health check loop at most is alive, however many coroutines connect at
\* the same time.
THEOREM OneLoop == Spec => []OneHealthLoop
<1>1. IInv => OneHealthLoop
  BY DEF IInv
<1> QED
  BY <1>1, InitSafe, NextSafe, PTL DEF Spec

\* Whoever reconnects on behalf of a caller holds the lock.
THEOREM CallersTakeTurns == Spec => []OneCallerReconnects
<1>1. IInv => OneCallerReconnects
  BY DEF IInv
<1> QED
  BY <1>1, InitSafe, NextSafe, PTL DEF Spec

\* Nothing survives disconnect: no coroutine is left that would connect again.
THEOREM DisconnectIsFinal == Spec => []StaysDisconnected
<1>1. IInv => StaysDisconnected
  BY DEF IInv
<1> QED
  BY <1>1, InitSafe, NextSafe, PTL DEF Spec

=============================================================================
