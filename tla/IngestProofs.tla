---------------------------- MODULE IngestProofs ----------------------------
(***************************************************************************)
(* Theorems about Ingest: for any URLs, detections and budget of           *)
(* failures.                                                               *)
(***************************************************************************)
EXTENDS Ingest, SequenceTheorems, TLAPS

-----------------------------------------------------------------------------
(* The queue of requests *)

\* Publishing a request never changes which one the manager works on.
LEMMA PublishKeepsHead ==
    ASSUME NEW S, NEW s \in Seq(S), NEW e \in S
    PROVE  /\ Append(s, e) \in Seq(S)
           /\ Append(s, e) # <<>>
           /\ s # <<>> => Head(Append(s, e)) = Head(s)
BY AppendProperties, HeadTailProperties, LenProperties, EmptySeq

\* Publishing it twice does not either.
LEMMA PublishTwiceKeepsHead ==
    ASSUME NEW S, NEW s \in Seq(S), NEW e \in S
    PROVE  /\ Append(Append(s, e), e) \in Seq(S)
           /\ Append(Append(s, e), e) # <<>>
           /\ s # <<>> => Head(Append(Append(s, e), e)) = Head(s)
BY PublishKeepsHead

\* So no detection disturbs the request at the head of the queue.
LEMMA PublishRequestQueue ==
    ASSUME requests \in Seq(Jobs), NEW j \in Jobs, PublishRequest(j)
    PROVE  /\ requests' \in Seq(Jobs)
           /\ requests # <<>> => requests' # <<>> /\ Head(requests') = Head(requests)
<1>1. requests' \in {requests, Append(requests, j), Append(Append(requests, j), j)}
    BY DEF PublishRequest
<1>2. CASE requests' = requests
    BY <1>2
<1>3. CASE requests' = Append(requests, j)
    BY <1>3, PublishKeepsHead
<1>4. CASE requests' = Append(Append(requests, j), j)
    BY <1>4, PublishTwiceKeepsHead
<1> QED BY <1>1, <1>2, <1>3, <1>4

-----------------------------------------------------------------------------
(* Type correctness *)

\* The URL that a check is about is one of those the detections give.
LEMMA KeyType ==
    ASSUME TypeOK, NEW c \in Clients, pc[c] # "idle"
    PROVE  JobOf(c) \in Jobs /\ Key(c) \in Urls
<1>1. CASE c = Manager
    BY <1>1, HeadTailProperties, IngestAssumption
       DEF TypeOK, JobOf, Key, Clients
<1>2. CASE c # Manager
    BY <1>2, IngestAssumption DEF JobOf, Key, Clients
<1> QED BY <1>1, <1>2

\* What moving one client does to the places of all of them.
LEMMA GotoType ==
    ASSUME TypeOK, NEW c \in Clients, NEW label, Goto(c, label),
           c = Manager => label \in ManagerLabels,
           c # Manager => label \in ScannerLabels
    PROVE  /\ pc' \in [Clients -> Labels]
           /\ \A j \in Jobs : pc'[j] \in ScannerLabels
           /\ pc'[Manager] \in ManagerLabels
           /\ pc'[c] = label
           /\ \A d \in Clients \ {c} : pc'[d] = pc[d]
BY IngestAssumption DEF TypeOK, Goto, Labels, Clients

LEMMA AfterCheckType ==
    ASSUME NEW c, NEW existing
    PROVE  /\ c = Manager => AfterCheck(c, existing) \in ManagerLabels \ {"idle"}
           /\ c # Manager => AfterCheck(c, existing) \in ScannerLabels
BY DEF AfterCheck, ManagerLabels, ScannerLabels

LEMMA FaultType ==
    ASSUME TypeOK, NEW kind, Fault(kind) \/ Reliably
    PROVE  budget' \in 0 .. MaxFaults
BY IngestAssumption DEF TypeOK, Fault, Reliably

LEMMA RegisterType ==
    ASSUME TypeOK, NEW c \in Clients, pc[c] # "idle",
           Register(c) \/ UNCHANGED dedup
    PROVE  dedup' \in [Urls -> Jobs \cup {Nobody}]
BY KeyType DEF TypeOK, Register

LEMMA InitType == Init => TypeOK
BY IngestAssumption, EmptySeq
   DEF Init, TypeOK, Clients, Labels, ScannerLabels, ManagerLabels

LEMMA NextType ==
    ASSUME TypeOK, [Next]_vars
    PROVE  TypeOK'
<1> USE DEF Clients
<1>1. ASSUME NEW c \in Clients, Check(c) PROVE TypeOK'
    <2>1. pc[c] \in {"check", "get", "set"}
        BY <1>1 DEF Check, RunScript, FallbackGet, FallbackSet
    <2>2. dedup' \in [Urls -> Jobs \cup {Nobody}]
        BY <1>1, <2>1, RegisterType
           DEF Check, RunScript, RegisterIfFirst, FallbackGet, FallbackSet, TypeOK
    <2>3. PICK label : /\ Goto(c, label)
                       /\ c = Manager => label \in ManagerLabels \ {"idle"}
                       /\ c # Manager => label \in ScannerLabels
        <3>1. PICK label : /\ Goto(c, label)
                           /\ \/ label \in {"get", "set"}
                              \/ \E existing : label = AfterCheck(c, existing)
            BY <1>1 DEF Check, RunScript, FallbackGet, FallbackSet
        <3> QED BY <3>1, AfterCheckType DEF ManagerLabels, ScannerLabels
    <2>4. budget' \in 0 .. MaxFaults
        BY <1>1, FaultType DEF Check, RunScript, FallbackGet, FallbackSet
    <2>5. UNCHANGED <<saved, requests, tasks, heard>>
        BY <1>1 DEF Check, RunScript, FallbackGet, FallbackSet
    <2>6. requests # <<>> \/ c # Manager
        BY <2>1 DEF TypeOK
    <2> QED BY <2>2, <2>3, <2>4, <2>5, <2>6, GotoType DEF TypeOK
<1>2. ASSUME NEW j \in Jobs, Detect(j) PROVE TypeOK'
    <2>1. \E label \in ScannerLabels : Goto(j, label)
        BY <1>2 DEF Detect, ScannerLabels
    <2> QED BY <1>2, <2>1, GotoType, IngestAssumption DEF Detect, TypeOK
<1>3. ASSUME NEW j \in Jobs, SaveJob(j) \/ SaveRaises(j) PROVE TypeOK'
    <2>1. PICK label \in {"publish", "dead"} : Goto(j, label)
        BY <1>3 DEF SaveJob, SaveRaises
    <2>2. label \in ScannerLabels
        BY DEF ScannerLabels
    <2>3. budget' \in 0 .. MaxFaults
        BY <1>3, FaultType DEF SaveJob, SaveRaises
    <2> QED BY <1>3, <2>1, <2>2, <2>3, GotoType, IngestAssumption
            DEF SaveJob, SaveRaises, TypeOK
<1>4. ASSUME NEW j \in Jobs, PublishRequest(j) PROVE TypeOK'
    <2>1. Goto(j, "done") /\ "done" \in ScannerLabels
        BY <1>4 DEF PublishRequest, ScannerLabels
    <2>2. budget' \in 0 .. MaxFaults
        BY <1>4, FaultType DEF PublishRequest
    <2>3. requests' \in Seq(Jobs) /\ (requests # <<>> => requests' # <<>>)
        BY <1>4, PublishRequestQueue DEF TypeOK
    <2> QED BY <1>4, <2>1, <2>2, <2>3, GotoType, IngestAssumption
            DEF PublishRequest, TypeOK
<1>5. CASE TakeRequest
    <2>1. Goto(Manager, "check") /\ "check" \in ManagerLabels
        BY <1>5 DEF TakeRequest, ManagerLabels
    <2> QED BY <1>5, <2>1, GotoType, IngestAssumption DEF TakeRequest, TypeOK
<1>6. CASE EnqueueDownload
    <2>1. PICK label \in {"announce", "fail"} : Goto(Manager, label)
        BY <1>6 DEF EnqueueDownload
    <2>2. label \in ManagerLabels
        BY DEF ManagerLabels
    <2>3. budget' \in 0 .. MaxFaults
        BY <1>6, FaultType DEF EnqueueDownload
    <2>4. requests # <<>> /\ JobOf(Manager) \in Jobs
        BY <1>6, KeyType DEF EnqueueDownload, TypeOK
    <2>5. tasks' \in [Jobs -> Nat]
        BY <1>6, <2>4 DEF EnqueueDownload, PutTask, TypeOK
    <2> QED BY <1>6, <2>1, <2>2, <2>3, <2>4, <2>5, GotoType, IngestAssumption
            DEF EnqueueDownload, TypeOK
<1>7. ASSUME NEW t \in {"subtitle.download.requested", "job.failed"},
             pc[Manager] \in {"announce", "fail"}, Publish(t)
      PROVE  TypeOK'
    <2>1. Goto(Manager, "ack") /\ "ack" \in ManagerLabels
        BY <1>7 DEF Publish, ManagerLabels
    <2>2. budget' \in 0 .. MaxFaults
        BY <1>7, FaultType DEF Publish
    <2>3. requests # <<>> /\ JobOf(Manager) \in Jobs
        BY <1>7, KeyType DEF TypeOK
    <2>4. heard' \in [Jobs -> SUBSET {"subtitle.download.requested", "job.failed"}]
        BY <1>7, <2>3 DEF Publish, TypeOK
    <2> QED BY <1>7, <2>1, <2>2, <2>3, <2>4, GotoType, IngestAssumption
            DEF Publish, TypeOK
<1>8. CASE Announce \/ ReportFailure
    BY <1>7, <1>8 DEF Announce, ReportFailure
<1>9. ASSUME Goto(Manager, "idle"), requests' \in {requests, Tail(requests)},
             pc[Manager] # "idle", budget' \in 0 .. MaxFaults,
             UNCHANGED <<dedup, saved, tasks, heard>>
      PROVE  TypeOK'
    <2>1. "idle" \in ManagerLabels
        BY DEF ManagerLabels
    <2>2. requests' \in Seq(Jobs)
        BY <1>9, HeadTailProperties DEF TypeOK
    <2> QED BY <1>9, <2>1, <2>2, GotoType, IngestAssumption DEF TypeOK
<1>10. CASE AckRequest
    BY <1>9, <1>10, FaultType DEF AckRequest
<1>11. CASE CrashManager
    BY <1>9, <1>11, FaultType DEF CrashManager
<1>12. CASE StopManager
    BY <1>9, <1>12, FaultType DEF StopManager
<1>13. ASSUME NEW u \in Urls, Expire(u) PROVE TypeOK'
    BY <1>13, FaultType DEF Expire, TypeOK
<1>14. CASE CrashScanner
    <2>1. budget' \in 0 .. MaxFaults
        BY <1>14, FaultType DEF CrashScanner
    <2>2. /\ pc' \in [Clients -> Labels]
          /\ \A j \in Jobs : pc'[j] \in ScannerLabels
          /\ pc'[Manager] = pc[Manager]
        BY <1>14, IngestAssumption
           DEF CrashScanner, TypeOK, Labels, ScannerLabels
    <2> QED BY <1>14, <2>1, <2>2 DEF CrashScanner, TypeOK
<1>15. CASE UNCHANGED vars
    BY <1>15 DEF vars, TypeOK
<1> QED
    BY <1>1, <1>2, <1>3, <1>4, <1>5, <1>6, <1>8, <1>10, <1>11, <1>12, <1>13,
       <1>14, <1>15
       DEF Next, ScannerStep, ManagerStep

\* Whatever fails, the manager only works on requests that are on its queue,
\* and every key, queue and counter keeps its type.
THEOREM TypeCorrect == Spec => []TypeOK
<1>1. TypeOK /\ [Next]_vars => TypeOK'
    BY NextType
<1> QED BY <1>1, InitType, PTL DEF Spec

-----------------------------------------------------------------------------
(* One job per URL *)

\* Redis answers every script, and no key expires: what remains are lost
\* replies and every failure of the other services.
RedisKeepsKeys == Faults \cap {"redis", "script", "window"} = {}

\* A client that is about to make a task makes it for the job registered for
\* its URL, and no fallback gets as far as a SET of its own.
ClientOK(c) ==
    /\ pc[c] = "enqueue" => dedup[Key(c)] = JobOf(c)
    /\ pc[c] = "get" => dedup[Key(c)] # Nobody
    /\ pc[c] # "set"

\* A task exists only for the job that is registered for its URL.
TasksRegistered == \A j \in Jobs : tasks[j] > 0 => dedup[UrlOf[j]] = j

RegisteredInv == TypeOK /\ TasksRegistered /\ \A c \in Clients : ClientOK(c)

LEMMA InitRegistered == Init => RegisteredInv
BY InitType, IngestAssumption
   DEF Init, RegisteredInv, TasksRegistered, ClientOK, Clients

\* What a step must leave alone for others to rely on it: the keys that are
\* set and the request at the head of the queue.
Undisturbed ==
    /\ \A u \in Urls : dedup[u] # Nobody => dedup'[u] = dedup[u]
    /\ requests # <<>> => Head(requests') = Head(requests)

\* A client that does not move keeps what it knows.
LEMMA ClientStays ==
    ASSUME RegisteredInv, Undisturbed, NEW c \in Clients,
           pc'[c] \in {pc[c], "dead"}
    PROVE  ClientOK(c)'
<1>1. CASE pc[c] \in {"get", "enqueue"}
    <2>1. JobOf(c) \in Jobs /\ Key(c) \in Urls
        BY <1>1, KeyType DEF RegisteredInv
    <2>2. c = Manager => requests # <<>>
        BY <1>1 DEF RegisteredInv, TypeOK
    <2>3. JobOf(c)' = JobOf(c) /\ Key(c)' = Key(c)
        BY <2>2 DEF Undisturbed, JobOf, Key
    <2>4. dedup[Key(c)] # Nobody
        BY <1>1, <2>1, IngestAssumption DEF RegisteredInv, ClientOK
    <2> QED BY <1>1, <2>1, <2>3, <2>4 DEF Undisturbed, RegisteredInv, ClientOK
<1>2. CASE pc[c] \notin {"get", "enqueue"}
    BY <1>2 DEF RegisteredInv, ClientOK
<1> QED BY <1>1, <1>2

\* Neither does a task lose its registration.
LEMMA TasksStay ==
    ASSUME RegisteredInv, Undisturbed, UNCHANGED tasks
    PROVE  TasksRegistered'
BY IngestAssumption DEF RegisteredInv, TasksRegistered, Undisturbed, TypeOK

LEMMA NextRegistered ==
    ASSUME RedisKeepsKeys, RegisteredInv, [Next]_vars
    PROVE  RegisteredInv'
<1> USE DEF Clients
<1>0. TypeOK /\ TypeOK'
    BY NextType DEF RegisteredInv
<1>1. ~Fault("redis") /\ ~Fault("script") /\ ~Fault("window")
    BY DEF Fault, RedisKeepsKeys
<1>2. ASSUME UNCHANGED <<dedup, tasks>>,
             requests # <<>> => Head(requests') = Head(requests),
             NEW c \in Clients, NEW label, Goto(c, label),
             label \notin {"enqueue", "get", "set"}
      PROVE  RegisteredInv'
    <2>1. Undisturbed
        BY <1>2 DEF Undisturbed
    <2>2. pc'[c] = label /\ \A d \in Clients \ {c} : pc'[d] = pc[d]
        BY <1>0, <1>2 DEF Goto, TypeOK
    <2>3. ClientOK(c)'
        BY <1>2, <2>2 DEF ClientOK
    <2> QED BY <1>0, <1>2, <2>1, <2>2, <2>3, ClientStays, TasksStay
            DEF RegisteredInv
<1>3. ASSUME NEW c \in Clients, Check(c) PROVE RegisteredInv'
    <2>1. pc[c] \in {"check", "get"} /\ UNCHANGED <<requests, tasks>>
        BY <1>1, <1>3
           DEF Check, RunScript, FallbackGet, FallbackSet, RegisteredInv, ClientOK
    <2>2. JobOf(c) \in Jobs /\ Key(c) \in Urls
        BY <1>0, <2>1, KeyType
    <2>3. JobOf(c)' = JobOf(c) /\ Key(c)' = Key(c)
        BY <2>1 DEF JobOf, Key
    <2>4. \/ RegisterIfFirst(c)
          \/ UNCHANGED dedup /\ dedup[Key(c)] # Nobody
        BY <1>1, <1>3
           DEF Check, RunScript, FallbackGet, FallbackSet, RegisteredInv, ClientOK
    <2>5. Undisturbed
        BY <1>0, <2>1, <2>2, <2>4
           DEF Undisturbed, RegisterIfFirst, Register, TypeOK
    <2>6. dedup'[Key(c)] =
             IF dedup[Key(c)] = Nobody THEN JobOf(c) ELSE dedup[Key(c)]
        BY <1>0, <2>2, <2>4 DEF RegisterIfFirst, Register, TypeOK
    <2>7. Goto(c, "get") \/ Goto(c, AfterCheck(c, dedup[Key(c)]))
        BY <1>1, <1>3
           DEF Check, RunScript, FallbackGet, FallbackSet, RegisteredInv, ClientOK
    <2>8. /\ pc'[c] \in {"get", AfterCheck(c, dedup[Key(c)])}
          /\ \A d \in Clients \ {c} : pc'[d] = pc[d]
        BY <1>0, <2>7 DEF Goto, TypeOK
    <2>9. ClientOK(c)'
        BY <2>2, <2>3, <2>6, <2>8, IngestAssumption DEF ClientOK, AfterCheck
    <2> QED BY <1>0, <2>1, <2>5, <2>8, <2>9, ClientStays, TasksStay
            DEF RegisteredInv
<1>4. ASSUME NEW j \in Jobs, Detect(j) PROVE RegisteredInv'
    BY <1>2, <1>4 DEF Detect
<1>5. ASSUME NEW j \in Jobs, SaveJob(j) \/ SaveRaises(j) PROVE RegisteredInv'
    BY <1>2, <1>5 DEF SaveJob, SaveRaises
<1>6. ASSUME NEW j \in Jobs, PublishRequest(j) PROVE RegisteredInv'
    <2>1. requests # <<>> => Head(requests') = Head(requests)
        BY <1>0, <1>6, PublishRequestQueue DEF TypeOK
    <2> QED BY <1>2, <1>6, <2>1 DEF PublishRequest
<1>7. CASE TakeRequest
    BY <1>2, <1>7 DEF TakeRequest
<1>8. CASE EnqueueDownload
    <2>1. JobOf(Manager) \in Jobs /\ Key(Manager) = UrlOf[JobOf(Manager)]
        BY <1>0, <1>8, KeyType DEF EnqueueDownload, Key
    <2>2. dedup[UrlOf[JobOf(Manager)]] = JobOf(Manager)
        BY <1>8, <2>1 DEF EnqueueDownload, RegisteredInv, ClientOK
    <2>3. \A j \in Jobs : tasks'[j] > 0 => tasks[j] > 0 \/ j = JobOf(Manager)
        BY <1>0, <1>8, <2>1 DEF EnqueueDownload, PutTask, TypeOK
    <2>4. UNCHANGED <<dedup, requests>> /\ Undisturbed
        BY <1>8 DEF EnqueueDownload, Undisturbed
    <2>5. TasksRegistered'
        BY <2>2, <2>3, <2>4 DEF RegisteredInv, TasksRegistered
    <2>6. /\ pc'[Manager] \in {"announce", "fail"}
          /\ \A d \in Clients \ {Manager} : pc'[d] = pc[d]
        BY <1>0, <1>8 DEF EnqueueDownload, Goto, TypeOK
    <2>7. ClientOK(Manager)'
        BY <2>6 DEF ClientOK
    <2> QED BY <1>0, <2>4, <2>5, <2>6, <2>7, ClientStays DEF RegisteredInv
<1>9. CASE Announce \/ ReportFailure
    BY <1>2, <1>9 DEF Announce, ReportFailure, Publish
<1>10. ASSUME Goto(Manager, "idle"), UNCHANGED <<dedup, tasks>>
       PROVE  RegisteredInv'
    <2>1. pc'[Manager] = "idle" /\ \A d \in Clients \ {Manager} : pc'[d] = pc[d]
        BY <1>0, <1>10 DEF Goto, TypeOK
    <2>2. \A d \in Jobs : d # Manager
        BY IngestAssumption
    <2>3. \A d \in Jobs : ClientOK(d)'
        BY <1>10, <2>1, <2>2 DEF RegisteredInv, ClientOK, JobOf, Key
    <2>4. ClientOK(Manager)'
        BY <2>1 DEF ClientOK
    <2>5. TasksRegistered'
        BY <1>10 DEF RegisteredInv, TasksRegistered
    <2> QED BY <1>0, <2>3, <2>4, <2>5 DEF RegisteredInv
<1>11. CASE AckRequest \/ CrashManager \/ StopManager
    BY <1>10, <1>11 DEF AckRequest, CrashManager, StopManager
<1>12. ASSUME NEW u \in Urls, Expire(u) PROVE RegisteredInv'
    BY <1>1, <1>12 DEF Expire
<1>13. CASE CrashScanner
    <2>1. UNCHANGED tasks /\ Undisturbed
        BY <1>13 DEF CrashScanner, Undisturbed
    <2>2. \A c \in Clients : pc'[c] \in {pc[c], "dead"}
        BY <1>13 DEF CrashScanner
    <2> QED BY <1>0, <2>1, <2>2, ClientStays, TasksStay DEF RegisteredInv
<1>14. CASE UNCHANGED vars
    <2>1. UNCHANGED <<tasks, pc>> /\ Undisturbed
        BY <1>14 DEF vars, Undisturbed
    <2> QED BY <1>0, <2>1, ClientStays, TasksStay DEF RegisteredInv
<1> QED
    BY <1>3, <1>4, <1>5, <1>6, <1>7, <1>8, <1>9, <1>11, <1>12, <1>13, <1>14
       DEF Next, ScannerStep, ManagerStep

\* As long as Redis answers and keeps its keys, no order of detections, lost
\* replies, failed saves, redeliveries and restarts gets two jobs of one URL
\* downloaded.
THEOREM SingleJob == RedisKeepsKeys => (Spec => []OneJobPerUrl)
<1> SUFFICES ASSUME RedisKeepsKeys PROVE Spec => []OneJobPerUrl
    OBVIOUS
<1>1. RegisteredInv /\ [Next]_vars => RegisteredInv'
    BY NextRegistered
<1>2. RegisteredInv => OneJobPerUrl
    BY IngestAssumption DEF RegisteredInv, TasksRegistered, OneJobPerUrl
<1> QED BY <1>1, <1>2, InitRegistered, PTL DEF Spec

-----------------------------------------------------------------------------
(* Those who are registered are taken care of *)

\* What the run no_url_lost leaves out: nothing but these lets go of a job for
\* whose sake others are turned away. "hang" is among them, for the save that
\* raises ends a detection that has registered its URL.
KeepsRequests ==
    Faults \cap {"hang", "reply", "publish", "scanner", "stop"} = {}

\* A key holds a job of its URL, and that job is on its way.
KeysTakenUp ==
    \A u \in Urls :
        dedup[u] # Nobody => UrlOf[dedup[u]] = u /\ TakenUp(dedup[u])

\* Whose request is on the queue, has nothing to register any more.
RequestersAreDone == \A j \in Jobs : Requested(j) => pc[j] = "done"

\* What the manager has seen to when it is about to ack a request: there is a
\* task, or a report, or the URL belongs to another job.
AckEarned ==
    /\ pc[Manager] = "announce" => tasks[JobOf(Manager)] > 0
    /\ pc[Manager] = "ack" =>
         \/ tasks[JobOf(Manager)] > 0
         \/ "job.failed" \in heard[JobOf(Manager)]
         \/ dedup[Key(Manager)] # JobOf(Manager)

CareInv == TypeOK /\ KeysTakenUp /\ RequestersAreDone /\ AckEarned

\* Appending a request adds it and no other.
LEMMA AppendRequest ==
    ASSUME requests \in Seq(Jobs), NEW j \in Jobs, requests' = Append(requests, j)
    PROVE  /\ Requested(j)'
           /\ \A i \in Jobs : Requested(i) => Requested(i)'
           /\ \A i \in Jobs : Requested(i)' => Requested(i) \/ i = j
<1>1. DOMAIN requests = 1 .. Len(requests) /\ Len(requests) \in Nat
    BY LenProperties
<1>2. /\ DOMAIN requests' = 1 .. (Len(requests) + 1)
      /\ \A i \in 1 .. Len(requests) : requests'[i] = requests[i]
      /\ requests'[Len(requests) + 1] = j
    BY AppendProperties, LenProperties
<1> QED BY <1>1, <1>2 DEF Requested

\* The head of the queue is a request, and an ack removes no request but that.
LEMMA TailRequest ==
    ASSUME requests \in Seq(Jobs), requests # <<>>, requests' = Tail(requests)
    PROVE  /\ \A i \in Jobs : Requested(i) => Requested(i)' \/ i = Head(requests)
           /\ \A i \in Jobs : Requested(i)' => Requested(i)
<1>1. DOMAIN requests = 1 .. Len(requests) /\ Len(requests) \in Nat \ {0}
    BY LenProperties, EmptySeq
<1>2. /\ DOMAIN requests' = 1 .. (Len(requests) - 1)
      /\ \A i \in 1 .. (Len(requests) - 1) : requests'[i] = requests[i + 1]
      /\ Head(requests) = requests[1]
    BY HeadTailProperties, LenProperties
<1>3. ASSUME NEW i \in Jobs, Requested(i) PROVE Requested(i)' \/ i = Head(requests)
    <2>1. PICK k \in 1 .. Len(requests) : requests[k] = i
        BY <1>1, <1>3 DEF Requested
    <2>2. CASE k # 1
        <3>1. k - 1 \in 1 .. (Len(requests) - 1) /\ requests'[k - 1] = i
            BY <1>1, <1>2, <2>1, <2>2
        <3> QED BY <1>2, <3>1 DEF Requested
    <2> QED BY <1>2, <2>1, <2>2
<1>4. ASSUME NEW i \in Jobs, Requested(i)' PROVE Requested(i)
    <2>1. PICK k \in 1 .. (Len(requests) - 1) : requests'[k] = i
        BY <1>2, <1>4 DEF Requested
    <2>2. k + 1 \in 1 .. Len(requests) /\ requests[k + 1] = i
        BY <1>1, <1>2, <2>1
    <2> QED BY <1>1, <2>2 DEF Requested
<1> QED BY <1>3, <1>4

LEMMA HeadRequested ==
    ASSUME TypeOK, pc[Manager] # "idle"
    PROVE  JobOf(Manager) \in Jobs /\ Requested(JobOf(Manager))
<1>1. requests \in Seq(Jobs) /\ requests # <<>>
    BY DEF TypeOK
<1>2. Head(requests) = requests[1] /\ 1 \in DOMAIN requests /\ Head(requests) \in Jobs
    BY <1>1, HeadTailProperties, LenProperties, EmptySeq
<1> QED BY <1>2 DEF JobOf, Requested

LEMMA InitCare == Init => CareInv
<1> SUFFICES ASSUME Init PROVE CareInv
    OBVIOUS
<1>1. DOMAIN requests = {}
    BY DEF Init
<1>2. pc[Manager] = "idle"
    BY DEF Init, Clients
<1> QED BY <1>1, <1>2, InitType
        DEF Init, CareInv, KeysTakenUp, RequestersAreDone, AckEarned, Requested

\* What a step that touches no request, task or event and moves one client has
\* to show: the client's own business.
LEMMA CareStays ==
    ASSUME CareInv, TypeOK', UNCHANGED <<requests, tasks, heard>>,
           NEW c \in Clients, \A d \in Clients \ {c} : pc'[d] = pc[d],
           pc[c] \notin {"save", "publish", "done"} \/ c = Manager,
           \A u \in Urls : \/ dedup'[u] \in {dedup[u], Nobody}
                          \/ /\ dedup'[u] \in Jobs
                             /\ UrlOf[dedup'[u]] = u
                             /\ TakenUp(dedup[u])'
    PROVE  KeysTakenUp' /\ RequestersAreDone'
<1>1. \A j \in Jobs : Requested(j)' <=> Requested(j)
    BY DEF Requested
<1>2. \A j \in Jobs : j # Manager /\ j \in Clients
    BY IngestAssumption DEF Clients
<1>3. \A j \in Jobs : pc[j] \in {"save", "publish", "done"} => pc'[j] = pc[j]
    BY <1>2
<1>4. \A j \in Jobs : TakenUp(j) => TakenUp(j)'
    BY <1>1, <1>3 DEF TakenUp
<1>5. KeysTakenUp'
    BY <1>4 DEF CareInv, TypeOK, KeysTakenUp
<1>6. RequestersAreDone'
    BY <1>1, <1>3 DEF CareInv, RequestersAreDone
<1> QED BY <1>5, <1>6

\* A check registers nobody whom it does not take up, and a request that it
\* turns away has another job's key to answer for it.
LEMMA CheckCare ==
    ASSUME KeepsRequests, CareInv, TypeOK', NEW c \in Clients, Check(c)
    PROVE  CareInv'
<1>0. TypeOK /\ ~Fault("reply")
    BY DEF CareInv, Fault, KeepsRequests
<1>1. pc[c] \in {"check", "get", "set"} /\ UNCHANGED <<requests, tasks, heard>>
    BY DEF Check, RunScript, FallbackGet, FallbackSet
<1>2. JobOf(c) \in Jobs /\ Key(c) \in Urls /\ Key(c) = UrlOf[JobOf(c)]
    BY <1>0, <1>1, KeyType DEF Key
<1>3. JobOf(c)' = JobOf(c) /\ Key(c)' = Key(c)
      /\ JobOf(Manager)' = JobOf(Manager) /\ Key(Manager)' = Key(Manager)
    BY <1>1 DEF JobOf, Key
<1>4. \/ UNCHANGED dedup /\ (Goto(c, "get") \/ Goto(c, "set"))
      \/ UNCHANGED dedup /\ dedup[Key(c)] # Nobody
         /\ Goto(c, AfterCheck(c, dedup[Key(c)]))
      \/ (Register(c) \/ UNCHANGED dedup) /\ Goto(c, AfterCheck(c, Nobody))
    BY <1>0 DEF Check, RunScript, RegisterIfFirst, FallbackGet, FallbackSet
<1>5. \A d \in Clients \ {c} : pc'[d] = pc[d]
    BY <1>0, <1>4 DEF Goto, TypeOK
<1>6. \/ UNCHANGED dedup
      \/ Register(c) /\ pc'[c] = AfterCheck(c, Nobody)
    BY <1>0, <1>4 DEF Goto, TypeOK
<1>7. CASE c = Manager
    <2>1. Requested(JobOf(c))
        BY <1>0, <1>1, <1>7, HeadRequested
    <2>2. \A u \in Urls : \/ dedup'[u] = dedup[u]
                          \/ dedup'[u] = JobOf(c) /\ UrlOf[JobOf(c)] = u
        BY <1>0, <1>2, <1>6 DEF Register, TypeOK
    <2>a. ASSUME NEW u \in Urls, dedup'[u] = JobOf(c) PROVE TakenUp(dedup[u])'
        BY <1>1, <2>1, <2>a DEF TakenUp, Requested
    <2>3. KeysTakenUp' /\ RequestersAreDone'
        BY <1>1, <1>2, <1>5, <1>7, <2>2, <2>a, CareStays
    <2>4. \/ pc'[c] \in {"get", "set", "enqueue"}
          \/ pc'[c] = "ack" /\ UNCHANGED dedup /\ dedup[Key(c)] # JobOf(c)
        BY <1>0, <1>4, <1>7 DEF Goto, TypeOK, AfterCheck
    <2>5. AckEarned'
        BY <1>3, <1>7, <2>4 DEF AckEarned
    <2> QED BY <2>3, <2>5 DEF CareInv
<1>8. CASE c # Manager
    <2>1. c \in Jobs /\ JobOf(c) = c
        BY <1>8 DEF Clients, JobOf
    <2>2. \A u \in Urls : \/ dedup'[u] = dedup[u]
                          \/ /\ dedup'[u] = c
                             /\ UrlOf[c] = u
                             /\ pc'[c] = "save"
        BY <1>0, <1>2, <1>6, <1>8, <2>1 DEF Register, TypeOK, AfterCheck
    <2>a. ASSUME NEW u \in Urls, dedup'[u] = c, pc'[c] = "save"
          PROVE  TakenUp(dedup[u])'
        BY <2>a DEF TakenUp
    <2>3. KeysTakenUp' /\ RequestersAreDone'
        BY <1>1, <1>5, <1>8, <2>1, <2>2, <2>a, CareStays
    <2>4. pc'[Manager] = pc[Manager]
        BY <1>5, <1>8 DEF Clients
    <2>5. pc[Manager] = "ack" => JobOf(Manager) # c /\ Key(Manager) \in Urls
        BY <1>0, <1>1, HeadRequested, KeyType DEF CareInv, RequestersAreDone, Clients
    <2>6. pc[Manager] = "ack" /\ dedup[Key(Manager)] # JobOf(Manager)
             => dedup'[Key(Manager)] # JobOf(Manager)
        BY <2>2, <2>5
    <2>7. AckEarned'
        BY <1>1, <1>3, <2>4, <2>6 DEF CareInv, AckEarned
    <2> QED BY <2>3, <2>7 DEF CareInv
<1> QED BY <1>7, <1>8

\* As long as a detection that moves is not the manager, what the manager has
\* seen to stays so.
LEMMA EarnedStays ==
    ASSUME CareInv, UNCHANGED <<dedup, tasks, heard>>, pc'[Manager] = pc[Manager],
           requests # <<>> => Head(requests') = Head(requests)
    PROVE  AckEarned'
<1>1. CASE pc[Manager] = "idle"
    BY <1>1 DEF AckEarned
<1>2. CASE pc[Manager] # "idle"
    <2>1. JobOf(Manager)' = JobOf(Manager) /\ Key(Manager)' = Key(Manager)
        BY <1>2 DEF CareInv, TypeOK, JobOf, Key
    <2> QED BY <2>1 DEF CareInv, AckEarned
<1> QED BY <1>1, <1>2

LEMMA NextCare ==
    ASSUME KeepsRequests, CareInv, [Next]_vars
    PROVE  CareInv'
<1>0. TypeOK /\ TypeOK'
    BY NextType DEF CareInv
<1>1. /\ ~Fault("reply") /\ ~Fault("publish") /\ ~Fault("scanner")
      /\ ~Fault("stop") /\ ~Fault("hang")
    BY DEF Fault, KeepsRequests
<1>2. \A j \in Jobs : j # Manager /\ j \in Clients
    BY IngestAssumption DEF Clients
<1>m. Manager \in Clients
    BY DEF Clients
<1>3. ASSUME NEW c \in Clients, Check(c) PROVE CareInv'
    BY <1>0, <1>3, CheckCare
<1>4. ASSUME NEW j \in Jobs, Detect(j) PROVE CareInv'
    <2>1. /\ pc[j] = "undetected"
          /\ UNCHANGED <<dedup, requests, tasks, heard>>
          /\ \A d \in Clients \ {j} : pc'[d] = pc[d]
        BY <1>0, <1>4 DEF Detect, Goto, TypeOK
    <2>2. KeysTakenUp' /\ RequestersAreDone'
        BY <1>0, <1>2, <2>1, CareStays
    <2>3. AckEarned'
        BY <1>2, <1>m, <2>1, EarnedStays
    <2> QED BY <1>0, <2>2, <2>3 DEF CareInv
<1>5. ASSUME NEW j \in Jobs, SaveJob(j) PROVE CareInv'
    <2>1. /\ pc[j] = "save" /\ pc'[j] = "publish"
          /\ UNCHANGED <<dedup, requests, tasks, heard>>
          /\ \A d \in Clients \ {j} : pc'[d] = pc[d]
        BY <1>0, <1>2, <1>5 DEF SaveJob, Goto, TypeOK
    <2>2. \A i \in Jobs : /\ Requested(i)' <=> Requested(i)
                          /\ TakenUp(i) => TakenUp(i)'
                          /\ pc[i] = "done" => pc'[i] = "done"
        BY <1>2, <2>1 DEF Requested, TakenUp
    <2>3. KeysTakenUp' /\ RequestersAreDone'
        BY <1>0, <2>1, <2>2 DEF CareInv, TypeOK, KeysTakenUp, RequestersAreDone
    <2>4. AckEarned'
        BY <1>2, <1>m, <2>1, EarnedStays
    <2> QED BY <1>0, <2>3, <2>4 DEF CareInv
<1>6. ASSUME NEW j \in Jobs, PublishRequest(j) PROVE CareInv'
    <2>1. /\ pc[j] = "publish" /\ pc'[j] = "done"
          /\ requests' = Append(requests, j)
          /\ UNCHANGED <<dedup, tasks, heard>>
          /\ \A d \in Clients \ {j} : pc'[d] = pc[d]
        BY <1>0, <1>1, <1>2, <1>6 DEF PublishRequest, Goto, TypeOK
    <2>2. /\ Requested(j)'
          /\ \A i \in Jobs : Requested(i) => Requested(i)'
          /\ \A i \in Jobs : Requested(i)' => Requested(i) \/ i = j
        BY <1>0, <2>1, AppendRequest DEF TypeOK
    <2>3. \A i \in Jobs : /\ TakenUp(i) => TakenUp(i)'
                          /\ Requested(i)' => pc'[i] = "done"
        BY <1>2, <2>1, <2>2 DEF CareInv, RequestersAreDone, TakenUp
    <2>4. KeysTakenUp' /\ RequestersAreDone'
        BY <1>0, <2>1, <2>3 DEF CareInv, TypeOK, KeysTakenUp, RequestersAreDone
    <2>5. requests # <<>> => Head(requests') = Head(requests)
        BY <1>0, <1>6, PublishRequestQueue DEF TypeOK
    <2>6. AckEarned'
        BY <1>2, <1>m, <2>1, <2>5, EarnedStays
    <2> QED BY <1>0, <2>4, <2>6 DEF CareInv
<1>7. ASSUME UNCHANGED <<dedup, requests>>, \A j \in Jobs : pc'[j] = pc[j],
             \A j \in Jobs : tasks'[j] >= tasks[j] /\ heard[j] \subseteq heard'[j],
             AckEarned'
      PROVE  CareInv'
    <2>1. \A i \in Jobs : Requested(i)' <=> Requested(i)
        BY <1>7 DEF Requested
    <2>2. \A i \in Jobs : tasks[i] > 0 => tasks'[i] > 0
        BY <1>0, <1>7 DEF TypeOK
    <2>3. \A i \in Jobs : TakenUp(i) => TakenUp(i)'
        BY <1>7, <2>1, <2>2 DEF TakenUp
    <2>4. KeysTakenUp' /\ RequestersAreDone'
        BY <1>0, <1>7, <2>1, <2>3
           DEF CareInv, TypeOK, KeysTakenUp, RequestersAreDone
    <2> QED BY <1>0, <1>7, <2>4 DEF CareInv
<1>8. CASE TakeRequest \/ CrashManager
    <2>1. /\ pc'[Manager] \in {"check", "idle"}
          /\ \A j \in Jobs : pc'[j] = pc[j]
          /\ UNCHANGED <<dedup, requests, tasks, heard>>
        BY <1>0, <1>2, <1>m, <1>8 DEF TakeRequest, CrashManager, Goto, TypeOK
    <2>2. AckEarned'
        BY <2>1 DEF AckEarned
    <2> QED BY <1>0, <1>7, <2>1, <2>2 DEF TypeOK
<1>9. CASE EnqueueDownload
    <2>1. /\ pc[Manager] = "enqueue"
          /\ UNCHANGED <<dedup, requests, heard>>
          /\ \A j \in Jobs : pc'[j] = pc[j]
          /\ \/ PutTask(JobOf(Manager)) /\ pc'[Manager] = "announce"
             \/ (PutTask(JobOf(Manager)) \/ UNCHANGED tasks) /\ pc'[Manager] = "fail"
        BY <1>0, <1>2, <1>m, <1>9 DEF EnqueueDownload, Goto, TypeOK
    <2>2. JobOf(Manager) \in Jobs /\ JobOf(Manager)' = JobOf(Manager)
        BY <1>0, <2>1, HeadRequested DEF JobOf
    <2>3. \A j \in Jobs : tasks'[j] >= tasks[j]
        <3>1. \A j \in Jobs : tasks[j] \in Nat
            BY <1>0 DEF TypeOK
        <3>2. \A j \in Jobs : tasks'[j] \in {tasks[j], tasks[j] + 1}
            BY <1>0, <2>1, <2>2 DEF PutTask, TypeOK
        <3> QED BY <3>1, <3>2
    <2>4. PutTask(JobOf(Manager)) => tasks'[JobOf(Manager)] > 0
        BY <1>0, <2>2 DEF PutTask, TypeOK
    <2>5. AckEarned'
        BY <2>1, <2>2, <2>4 DEF AckEarned
    <2> QED BY <1>7, <2>1, <2>3, <2>5
<1>10. ASSUME NEW t, Publish(t),
              \/ pc[Manager] = "announce"
              \/ pc[Manager] = "fail" /\ t = "job.failed"
       PROVE  CareInv'
    <2>1. /\ pc'[Manager] = "ack"
          /\ \A j \in Jobs : pc'[j] = pc[j]
          /\ UNCHANGED <<dedup, requests, tasks>>
          /\ heard' = [heard EXCEPT ![JobOf(Manager)] = @ \cup {t}]
        BY <1>0, <1>1, <1>2, <1>m, <1>10 DEF Publish, Goto, TypeOK
    <2>2. JobOf(Manager) \in Jobs /\ JobOf(Manager)' = JobOf(Manager)
        BY <1>0, <1>10, <2>1, HeadRequested DEF JobOf
    <2>3. \A j \in Jobs : heard[j] \subseteq heard'[j] /\ tasks'[j] >= tasks[j]
        BY <1>0, <2>1, <2>2 DEF TypeOK
    <2>4. t \in heard'[JobOf(Manager)]
        BY <1>0, <2>1, <2>2 DEF TypeOK
    <2>5. AckEarned'
        BY <1>10, <2>1, <2>2, <2>4 DEF CareInv, AckEarned
    <2> QED BY <1>7, <2>1, <2>3, <2>5
<1>11. CASE Announce \/ ReportFailure
    BY <1>10, <1>11 DEF Announce, ReportFailure
<1>12. CASE AckRequest
    <2>1. /\ pc[Manager] = "ack" /\ pc'[Manager] = "idle"
          /\ \A j \in Jobs : pc'[j] = pc[j]
          /\ UNCHANGED <<dedup, tasks, heard>>
          /\ requests' = Tail(requests) \/ UNCHANGED requests
        BY <1>0, <1>2, <1>m, <1>12 DEF AckRequest, Goto, TypeOK
    <2>2. AckEarned'
        BY <2>1 DEF AckEarned
    <2>3. CASE UNCHANGED requests
        BY <1>0, <1>7, <2>1, <2>2, <2>3 DEF TypeOK
    <2>4. CASE requests' = Tail(requests)
        <3>1. /\ \A i \in Jobs : Requested(i) => Requested(i)' \/ i = JobOf(Manager)
              /\ \A i \in Jobs : Requested(i)' => Requested(i)
            BY <1>0, <2>1, <2>4, TailRequest DEF TypeOK, JobOf
        <3>2. ASSUME NEW u \in Urls, dedup[u] # Nobody
              PROVE  UrlOf[dedup[u]] = u /\ TakenUp(dedup[u])'
            <4>1. dedup[u] \in Jobs /\ UrlOf[dedup[u]] = u /\ TakenUp(dedup[u])
                BY <1>0, <3>2 DEF CareInv, KeysTakenUp, TypeOK
            <4>2. CASE dedup[u] # JobOf(Manager)
                BY <2>1, <3>1, <4>1, <4>2 DEF TakenUp
            <4>3. CASE dedup[u] = JobOf(Manager)
                <5>1. Key(Manager) = u
                    BY <4>1, <4>3 DEF Key
                <5>2. tasks[dedup[u]] > 0 \/ "job.failed" \in heard[dedup[u]]
                    BY <2>1, <4>3, <5>1 DEF CareInv, AckEarned
                <5>3. dedup' = dedup /\ tasks' = tasks /\ heard' = heard
                    BY <2>1
                <5> QED BY <4>1, <5>2, <5>3 DEF TakenUp
            <4> QED BY <4>2, <4>3
        <3>3. KeysTakenUp'
            BY <2>1, <3>2 DEF KeysTakenUp
        <3>4. RequestersAreDone'
            BY <2>1, <3>1 DEF CareInv, RequestersAreDone
        <3> QED BY <1>0, <2>2, <3>3, <3>4 DEF CareInv
    <2> QED BY <2>1, <2>3, <2>4
<1>13. ASSUME NEW u \in Urls, Expire(u) PROVE CareInv'
    <2>1. /\ UNCHANGED <<requests, tasks, heard, pc>>
          /\ dedup' = [dedup EXCEPT ![u] = Nobody]
        BY <1>13 DEF Expire
    <2>2. \A g \in Urls : dedup'[g] \in {dedup[g], Nobody}
        BY <1>0, <2>1 DEF TypeOK
    <2>3. KeysTakenUp' /\ RequestersAreDone'
        BY <1>0, <1>m, <2>1, <2>2, CareStays
    <2>4. JobOf(Manager)' = JobOf(Manager) /\ Key(Manager)' = Key(Manager)
        BY <2>1 DEF JobOf, Key
    <2>5. pc[Manager] = "ack" =>
             Key(Manager) \in Urls /\ JobOf(Manager) # Nobody
        BY <1>0, <1>m, KeyType, IngestAssumption
    <2>6. AckEarned'
        BY <2>1, <2>2, <2>4, <2>5 DEF CareInv, AckEarned
    <2> QED BY <1>0, <2>3, <2>6 DEF CareInv
<1>14. ASSUME CrashScanner \/ StopManager \/ \E j \in Jobs : SaveRaises(j)
       PROVE  CareInv'
    BY <1>1, <1>14 DEF CrashScanner, StopManager, SaveRaises
<1>15. CASE UNCHANGED vars
    <2>1. AckEarned'
        BY <1>15 DEF vars, CareInv, AckEarned, JobOf, Key
    <2> QED BY <1>0, <1>7, <1>15, <2>1 DEF vars, TypeOK
<1> QED
    BY <1>3, <1>4, <1>5, <1>6, <1>8, <1>9, <1>11, <1>12, <1>13, <1>14, <1>15,
       <1>2, <1>m
       DEF Next, ScannerStep, ManagerStep

\* Unless a reply or an event is lost, a reconnect's ping hangs or a service
\* stops halfway, the job whose registration turns others away is on its way,
\* enqueued or reported: whatever Redis calls report a failure, keys expire,
\* tasks cannot be enqueued, and however often the manager starts again.
THEOREM RegisteredGetsDone == KeepsRequests => (Spec => []RegisteredIsTakenUp)
<1> SUFFICES ASSUME KeepsRequests PROVE Spec => []RegisteredIsTakenUp
    OBVIOUS
<1>1. CareInv /\ [Next]_vars => CareInv'
    BY NextCare
<1>2. CareInv => RegisteredIsTakenUp
    BY DEF CareInv, KeysTakenUp, RegisteredIsTakenUp
<1> QED BY <1>1, <1>2, InitCare, PTL DEF Spec

=============================================================================
