------------------------------- MODULE Ingest -------------------------------
(***************************************************************************)
(* How several detections of a media file become one subtitle job, as long *)
(* as they give it the same video_url.                                     *)
(*                                                                         *)
(* The scanner learns of a file from a library scan, from Jellyfin's       *)
(* webhook or from Jellyfin's WebSocket, often from several of them.  Each *)
(* detection creates a job of its own, asks the duplicate prevention       *)
(* service (a Redis key per video_url) whether it is the first one, saves  *)
(* the job and publishes subtitle.requested; the WebSocket path does not   *)
(* ask.  The manager's event consumer asks again before it enqueues the    *)
(* download task.  Each await is a step of its own.                        *)
(*                                                                         *)
(* The scan and the WebSocket give a file's path for its video_url, the    *)
(* webhook the URL in its payload, or the path if it has none: one file    *)
(* may so have two keys.  What is said below of a URL is not said of it.   *)
(***************************************************************************)
EXTENDS Integers, Sequences, FiniteSets

CONSTANTS
    Jobs,       \* the job each detection creates
    Pushed,     \* those of the WebSocket client
    Urls,       \* video_urls, wanted in the one language of the settings
    UrlOf,      \* the video_url of each job
    Manager,    \* the manager's event consumer
    Nobody,     \* the value of a deduplication key that is not set
    Faults,     \* the kinds of failure an instance admits
    MaxFaults   \* how many failures a behaviour meets at most

FaultKinds ==
    {"redis",    \* a Redis call fails, and leaves no trace but for a SET
     "hang",     \* a reconnect's ping hangs: its TimeoutError leaves the call
     "script",   \* the script fails before it runs
     "reply",    \* the script runs but its reply is lost
     "window",   \* a deduplication key expires
     "publish",  \* an event is lost (mock mode), or sent twice (retry)
     "enqueue",  \* enqueue_download_task returns False
     "conn",     \* the channel of an unacked request is closed
     "scanner",  \* the scanner dies
     "manager",  \* the manager dies
     "stop"}     \* the manager's shutdown cancels its event consumer

ASSUME IngestAssumption ==
    /\ Pushed \subseteq Jobs
    /\ UrlOf \in [Jobs -> Urls]
    /\ Manager \notin Jobs
    /\ Nobody \notin Jobs
    /\ Faults \subseteq FaultKinds
    /\ MaxFaults \in Nat

Clients == Jobs \cup {Manager}

VARIABLES
    dedup,     \* Redis: the job registered for each URL
    saved,     \* Redis: the jobs that have a record
    requests,  \* RabbitMQ manager.subtitle.requests: jobs; the head stays there
               \* until the manager acks it
    tasks,     \* RabbitMQ subtitle.download: tasks ever enqueued for each job
    heard,     \* the events about each job that the manager has published
    pc,        \* where each detection, and the manager, is
    budget     \* failures the behaviour may still meet

vars == <<dedup, saved, requests, tasks, heard, pc, budget>>

Fault(kind) == kind \in Faults /\ budget > 0 /\ budget' = budget - 1
Reliably == UNCHANGED budget

Goto(c, label) == pc' = [pc EXCEPT ![c] = label]

-----------------------------------------------------------------------------
(* DuplicatePreventionService.check_and_register *)

JobOf(c) == IF c = Manager THEN Head(requests) ELSE c
Key(c) == UrlOf[JobOf(c)]

\* Mutant: the manager takes the job that the scanner registered for a duplicate.
AfterCheckOfStranger(c, existing) ==
    IF existing = Nobody THEN IF c = Manager THEN "enqueue" ELSE "save"
    ELSE IF c = Manager THEN "ack" ELSE "skipped"

\* Mutant: the manager does not look at the result of its check.
AfterCheckIgnored(c, existing) ==
    IF c = Manager THEN "enqueue"
    ELSE IF existing = Nobody THEN "save" ELSE "skipped"

\* What the caller does with the result. The manager's event may be of the very
\* job that is registered; a detection takes any registered job for another.
AfterCheck(c, existing) ==
    IF c = Manager
    THEN IF existing \in {Nobody, JobOf(c)} THEN "enqueue" ELSE "ack"
    ELSE IF existing = Nobody THEN "save" ELSE "skipped"

Register(c) == dedup' = [dedup EXCEPT ![Key(c)] = JobOf(c)]

RegisterIfFirst(c) ==
    \/ dedup[Key(c)] = Nobody /\ Register(c)
    \/ dedup[Key(c)] # Nobody /\ UNCHANGED dedup

\* The Lua script is atomic. When its call raises, the caller falls back to GET
\* and SET, whether or not Redis has run it; when Redis is known to be down, or
\* the fallback fails as well, the request passes unchecked.
RunScript(c) ==
    /\ pc[c] = "check"
    /\ \/ /\ Reliably
          /\ RegisterIfFirst(c)
          /\ Goto(c, AfterCheck(c, dedup[Key(c)]))
       \/ Fault("reply") /\ RegisterIfFirst(c) /\ Goto(c, "get")
       \/ Fault("script") /\ UNCHANGED dedup /\ Goto(c, "get")
       \/ Fault("redis") /\ UNCHANGED dedup /\ Goto(c, AfterCheck(c, Nobody))
    /\ UNCHANGED <<saved, requests, tasks, heard>>

FallbackGet(c) ==
    /\ pc[c] = "get"
    /\ \/ Reliably /\ dedup[Key(c)] = Nobody /\ Goto(c, "set")
       \/ /\ Reliably
          /\ dedup[Key(c)] # Nobody
          /\ Goto(c, AfterCheck(c, dedup[Key(c)]))
       \/ Fault("redis") /\ Goto(c, AfterCheck(c, Nobody))
    /\ UNCHANGED <<dedup, saved, requests, tasks, heard>>

FallbackSet(c) ==
    /\ pc[c] = "set"
    /\ \/ Reliably /\ Register(c)
       \/ Fault("redis") /\ (Register(c) \/ UNCHANGED dedup)
    /\ Goto(c, AfterCheck(c, Nobody))
    /\ UNCHANGED <<saved, requests, tasks, heard>>

Check(c) == RunScript(c) \/ FallbackGet(c) \/ FallbackSet(c)

\* The key of a URL expires duplicate_prevention_window_seconds after its SET.
Expire(u) ==
    /\ dedup[u] # Nobody
    /\ Fault("window")
    /\ dedup' = [dedup EXCEPT ![u] = Nobody]
    /\ UNCHANGED <<saved, requests, tasks, heard, pc>>

-----------------------------------------------------------------------------
(* The scanner: one task per detection *)

Detect(j) ==
    /\ pc[j] = "undetected"
    /\ Goto(j, IF j \in Pushed THEN "save" ELSE "check")
    /\ UNCHANGED <<dedup, saved, requests, tasks, heard, budget>>

\* What save_job returns is ignored.
SaveJob(j) ==
    /\ pc[j] = "save"
    /\ \/ Reliably /\ saved' = saved \cup {j}
       \/ Fault("redis") /\ UNCHANGED saved
    /\ Goto(j, "publish")
    /\ UNCHANGED <<dedup, requests, tasks, heard>>

\* save_job reconnects before its own try. The TimeoutError of a ping that hangs
\* ends the detection, which nobody hears of.
SaveRaises(j) ==
    /\ pc[j] = "save"
    /\ Fault("hang")
    /\ Goto(j, "dead")
    /\ UNCHANGED <<dedup, saved, requests, tasks, heard>>

\* subtitle.requested; the media.file.detected before it is for the history only.
PublishRequest(j) ==
    /\ pc[j] = "publish"
    /\ \/ Reliably /\ requests' = Append(requests, j)
       \/ /\ Fault("publish")
          /\ requests' \in {requests, Append(Append(requests, j), j)}
    /\ Goto(j, "done")
    /\ UNCHANGED <<dedup, saved, tasks, heard>>

\* The scanner dies with every detection it is working on.
CrashScanner ==
    /\ \E j \in Jobs : pc[j] \in {"check", "get", "set", "save", "publish"}
    /\ Fault("scanner")
    /\ pc' = [c \in Clients |->
                IF c \in Jobs /\ pc[c] \in {"check", "get", "set", "save", "publish"}
                THEN "dead" ELSE pc[c]]
    /\ UNCHANGED <<dedup, saved, requests, tasks, heard>>

ScannerStep(j) ==
    \/ Detect(j) \/ Check(j)
    \/ SaveJob(j) \/ SaveRaises(j) \/ PublishRequest(j)

-----------------------------------------------------------------------------
(* The manager's event consumer: one request at a time *)

\* Mutant: goes on although get() found no message.
TakeFromEmpty ==
    /\ pc[Manager] = "idle"
    /\ Goto(Manager, "check")
    /\ UNCHANGED <<dedup, saved, requests, tasks, heard, budget>>

TakeRequest ==
    /\ pc[Manager] = "idle"
    /\ requests # <<>>
    /\ Goto(Manager, "check")
    /\ UNCHANGED <<dedup, saved, requests, tasks, heard, budget>>

PutTask(j) == tasks' = [tasks EXCEPT ![j] = @ + 1]

\* Mutant: a task that cannot be enqueued is not reported.
EnqueueOrForget ==
    /\ pc[Manager] = "enqueue"
    /\ \/ Reliably /\ PutTask(JobOf(Manager)) /\ Goto(Manager, "announce")
       \/ Fault("enqueue") /\ UNCHANGED tasks /\ Goto(Manager, "ack")
    /\ UNCHANGED <<dedup, saved, requests, heard>>

\* A task whose publish raised may still have reached its queue.
EnqueueDownload ==
    /\ pc[Manager] = "enqueue"
    /\ \/ Reliably /\ PutTask(JobOf(Manager)) /\ Goto(Manager, "announce")
       \/ /\ Fault("enqueue")
          /\ PutTask(JobOf(Manager)) \/ UNCHANGED tasks
          /\ Goto(Manager, "fail")
    /\ UNCHANGED <<dedup, saved, requests, heard>>

Publish(t) ==
    /\ \/ Reliably /\ heard' = [heard EXCEPT ![JobOf(Manager)] = @ \cup {t}]
       \/ Fault("publish") /\ UNCHANGED heard
    /\ Goto(Manager, "ack")
    /\ UNCHANGED <<dedup, saved, requests, tasks>>

Announce == pc[Manager] = "announce" /\ Publish("subtitle.download.requested")
ReportFailure == pc[Manager] = "fail" /\ Publish("job.failed")

\* The broker keeps a request whose channel was closed before the ack.
AckRequest ==
    /\ pc[Manager] = "ack"
    /\ \/ Reliably /\ requests' = Tail(requests)
       \/ Fault("conn") /\ UNCHANGED requests
    /\ Goto(Manager, "idle")
    /\ UNCHANGED <<dedup, saved, tasks, heard>>

CrashManager ==
    /\ pc[Manager] # "idle"
    /\ Fault("manager")
    /\ Goto(Manager, "idle")
    /\ UNCHANGED <<dedup, saved, requests, tasks, heard>>

\* message.process() rejects the request of a cancelled handler for good.
StopManager ==
    /\ pc[Manager] \notin {"idle", "ack"}
    /\ Fault("stop")
    /\ requests' = Tail(requests)
    /\ Goto(Manager, "idle")
    /\ UNCHANGED <<dedup, saved, tasks, heard>>

ManagerStep ==
    \/ TakeRequest \/ Check(Manager) \/ EnqueueDownload
    \/ Announce \/ ReportFailure \/ AckRequest

-----------------------------------------------------------------------------
(* The system *)

Init ==
    /\ dedup = [u \in Urls |-> Nobody]
    /\ saved = {}
    /\ requests = <<>>
    /\ tasks = [j \in Jobs |-> 0]
    /\ heard = [j \in Jobs |-> {}]
    /\ pc = [c \in Clients |-> IF c = Manager THEN "idle" ELSE "undetected"]
    /\ budget = MaxFaults

Next ==
    \/ \E j \in Jobs : ScannerStep(j)
    \/ ManagerStep
    \/ \E u \in Urls : Expire(u)
    \/ CrashScanner \/ CrashManager \/ StopManager

Spec == Init /\ [][Next]_vars

\* The scanner finishes what it has begun and the manager keeps consuming; no
\* URL has to be detected.
FairSpec ==
    /\ Spec
    /\ \A j \in Jobs : WF_vars(pc[j] # "undetected" /\ ScannerStep(j))
    /\ WF_vars(ManagerStep)

-----------------------------------------------------------------------------
(* What duplicate prevention promises *)

ScannerLabels ==
    {"undetected", "check", "get", "set", "save", "publish",
     "done", "skipped", "dead"}

ManagerLabels ==
    {"idle", "check", "get", "set", "enqueue", "announce", "fail", "ack"}

Labels == ScannerLabels \cup ManagerLabels

\* The state holds the kinds of values the services store, and the manager
\* works on a request that is still on its queue.
TypeOK ==
    /\ dedup \in [Urls -> Jobs \cup {Nobody}]
    /\ saved \subseteq Jobs
    /\ requests \in Seq(Jobs)
    /\ tasks \in [Jobs -> Nat]
    /\ heard \in [Jobs -> SUBSET {"subtitle.download.requested", "job.failed"}]
    /\ pc \in [Clients -> Labels]
    /\ \A j \in Jobs : pc[j] \in ScannerLabels
    /\ pc[Manager] \in ManagerLabels
    /\ pc[Manager] # "idle" => requests # <<>>
    /\ budget \in 0 .. MaxFaults

\* However many detections give a URL, one job at most is downloaded for it: not
\* even the jobs that the WebSocket path does not check get a second one through.
OneJobPerUrl ==
    \A i, j \in Jobs :
        UrlOf[i] = UrlOf[j] /\ tasks[i] > 0 /\ tasks[j] > 0 => i = j

Requested(j) == \E i \in DOMAIN requests : requests[i] = j

\* j is on its way to the manager, has a task, or was reported as failed.
TakenUp(j) ==
    \/ pc[j] \in {"save", "publish"}
    \/ Requested(j)
    \/ tasks[j] > 0
    \/ "job.failed" \in heard[j]

\* The job for whose sake others are turned away is itself taken care of.
RegisteredIsTakenUp ==
    \A u \in Urls : dedup[u] # Nobody => TakenUp(dedup[u])

\* A URL that was detected is, sooner or later, downloaded or reported.
EveryUrlHeardOf ==
    \A j \in Jobs :
        pc[j] # "undetected" ~> \E i \in Jobs : UrlOf[i] = UrlOf[j] /\ heard[i] # {}

=============================================================================
