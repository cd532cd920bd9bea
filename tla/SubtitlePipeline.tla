-------------------------- MODULE SubtitlePipeline --------------------------
(***************************************************************************)
(* The path of a subtitle job through the services:                        *)
(*                                                                         *)
(*   manager (HTTP handler)  saves the job, puts a task on a work queue    *)
(*   downloader worker       searches, downloads, hands over or reports    *)
(*   translator worker       translates a subtitle file and reports        *)
(*   consumer worker         turns events into job status and history      *)
(*                                                                         *)
(* The services share Redis (job records and event histories), RabbitMQ    *)
(* (two work queues and the consumer's event queue) and the media disk.    *)
(* Every await of the code between two effects on these is a step of its   *)
(* own, so the services interleave as they do in production.               *)
(*                                                                         *)
(* A failure is a step guarded by Fault(kind): the constant Faults says    *)
(* which kinds an instance admits and MaxFaults how many it meets.         *)
(***************************************************************************)
EXTENDS Integers, Sequences, FiniteSets

CONSTANTS
    DownloadJobs,   \* jobs of POST /subtitles/download
    TranslateJobs,  \* jobs of POST /subtitles/translate
    Downloaders,    \* downloader worker processes
    Translators,    \* translator worker processes
    Consumer,       \* the consumer worker process
    NoOne,          \* the job of an idle process
    AutoTranslate,  \* settings.jellyfin_auto_translate
    Faults,         \* the kinds of failure an instance admits
    MaxFaults       \* how many failures a behaviour meets at most

Jobs == DownloadJobs \cup TranslateJobs
Workers == Downloaders \cup Translators
Procs == Workers \cup {Consumer}

FaultKinds ==
    {"redis",     \* a call on a job record fails, and the client swallows it
     "history",   \* so does the LPUSH of an event on its job's history
     "hang",      \* a reconnect's ping hangs: its TimeoutError leaves the call
     "publish",   \* an event is lost (mock mode), or sent twice (retry)
     "enqueue",   \* putting a task on a work queue raises
     "api",       \* OpenSubtitlesAPIError or OpenSubtitlesAuthenticationError
     "timeout",   \* a handler runs longer than settings.shutdown_timeout
     "conn",      \* RabbitMQ drops a channel that holds an unacked message
     "crash"}     \* a process dies

ASSUME PipelineAssumption ==
    /\ DownloadJobs \cap TranslateJobs = {}
    /\ Downloaders \cap Translators = {}
    /\ Consumer \notin Workers
    /\ NoOne \notin Jobs
    /\ AutoTranslate \in BOOLEAN
    /\ Faults \subseteq FaultKinds
    /\ MaxFaults \in Nat

EventTypes ==
    {"subtitle.download.requested", "subtitle.translate.requested",
     "subtitle.ready", "subtitle.missing", "subtitle.translated",
     "translation.completed", "job.failed"}

Statuses ==
    {"pending", "download_queued", "download_in_progress", "translate_queued",
     "translate_in_progress", "done", "failed", "subtitle_missing", "completed"}

\* The value of a job key: "absent" is the status of a key that is not set.
\* error and url say whether error_message and download_url are present, ttl
\* whether the key has an expiration.
Record == [status : Statuses \cup {"absent"},
           error : BOOLEAN, url : BOOLEAN, ttl : BOOLEAN]

Absent == [status |-> "absent", error |-> FALSE, url |-> FALSE, ttl |-> FALSE]
Pending == [status |-> "pending", error |-> FALSE, url |-> FALSE, ttl |-> FALSE]

\* What update_phase keeps of a record it has read: it overwrites the status,
\* and GET does not return the expiration.
Kept(record) == [error |-> record.error, url |-> record.url]
Nothing == Kept(Absent)

VARIABLES
    api,           \* how far the HTTP request that creates a job has come
    job,           \* Redis: the record of each job
    history,       \* Redis: the event types recorded for each job, oldest first
    disk,          \* which subtitle files of each job are on the media disk
    downloadQ,     \* RabbitMQ subtitle.download: ready tasks of each job
    translationQ,  \* RabbitMQ subtitle.translation: ready tasks of each job
    events,        \* RabbitMQ subtitle.events.consumer; the head stays there
                   \* until the consumer acks it
    pc,            \* where each worker process is in its handler
    cur,           \* the job of the message it handles
    goal,          \* the status argument of its current update_phase call
    snap,          \* what that call keeps of the record it has read
    out,           \* the events its handler still has to publish
    held,          \* its message is still unacked at the broker
    budget         \* failures the behaviour may still meet

vars == <<api, job, history, disk, downloadQ, translationQ, events,
          pc, cur, goal, snap, out, held, budget>>

procVars == <<pc, cur, goal, snap, out, held>>
taskQueues == <<downloadQ, translationQ>>

\* One more failure of this kind happens.
Fault(kind) == kind \in Faults /\ budget > 0 /\ budget' = budget - 1

Reliably == UNCHANGED budget

-----------------------------------------------------------------------------
(* The event exchange *)

\* The consumer's queue is bound to subtitle.#, job.# and media.# only.
Bound(t) == t # "translation.completed"

Event(t, j) == [type |-> t, job |-> j]

Routed(t, j) == IF Bound(t) THEN Append(events, Event(t, j)) ELSE events

\* EventPublisher.publish_event never raises. An event is lost in mock mode or
\* when the retry fails too; it is doubled when the first attempt reached the
\* broker and only its confirmation was lost.
PublishEvent(t, j) ==
    \/ Reliably /\ events' = Routed(t, j)
    \/ /\ Bound(t)
       /\ Fault("publish")
       /\ events' \in {events, Append(Routed(t, j), Event(t, j))}

-----------------------------------------------------------------------------
(* The manager: one HTTP request per job *)

PutDownload(j) ==
    downloadQ' = [downloadQ EXCEPT ![j] = @ + 1] /\ UNCHANGED translationQ

PutTranslation(j) ==
    translationQ' = [translationQ EXCEPT ![j] = @ + 1] /\ UNCHANGED downloadQ

PutTask(j) == IF j \in DownloadJobs THEN PutDownload(j) ELSE PutTranslation(j)

\* The result of save_job is ignored: the request goes on without a record.
SaveJob(j) ==
    /\ api[j] = "new"
    /\ api' = [api EXCEPT ![j] = "saved"]
    /\ \/ Reliably /\ job' = [job EXCEPT ![j] = Pending]
       \/ Fault("redis") /\ UNCHANGED job
    /\ UNCHANGED <<history, disk, taskQueues, events, procVars>>

\* save_job reconnects before its own try. The TimeoutError of a ping that hangs
\* ends the request: HTTP 500, no task and no event.
SaveRaises(j) ==
    /\ api[j] = "new"
    /\ Fault("hang")
    /\ api' = [api EXCEPT ![j] = "rejected"]
    /\ UNCHANGED <<job, history, disk, taskQueues, events, procVars>>

\* A task whose publish raised may still have reached its queue.
EnqueueTask(j) ==
    /\ api[j] = "saved"
    /\ \/ /\ Reliably
          /\ PutTask(j)
          /\ api' = [api EXCEPT ![j] =
                       IF j \in DownloadJobs THEN "enqueued" ELSE "accepted"]
       \/ /\ Fault("enqueue")
          /\ PutTask(j) \/ UNCHANGED taskQueues
          /\ api' = [api EXCEPT ![j] = "failing"]
    /\ UNCHANGED <<job, history, disk, events, procVars>>

\* Mutant: the manager writes the status itself, as it did before the consumer.
MarkQueuedDirectly(j) ==
    /\ api[j] = "enqueued"
    /\ api' = [api EXCEPT ![j] = "accepted"]
    /\ job' = [job EXCEPT ![j].status = "download_queued"]
    /\ UNCHANGED <<history, disk, taskQueues, events, procVars, budget>>

\* Only now, with the task already out, is the consumer told of it.
PublishDownloadRequested(j) ==
    /\ api[j] = "enqueued"
    /\ api' = [api EXCEPT ![j] = "accepted"]
    /\ PublishEvent("subtitle.download.requested", j)
    /\ UNCHANGED <<job, history, disk, taskQueues, procVars>>

PublishFailure(j) ==
    /\ api[j] = "failing"
    /\ api' = [api EXCEPT ![j] = "rejected"]
    /\ PublishEvent("job.failed", j)
    /\ UNCHANGED <<job, history, disk, taskQueues, procVars>>

\* The manager dies while it handles the request: the client gets no answer.
CrashManager(j) ==
    /\ api[j] \in {"saved", "enqueued", "failing"}
    /\ Fault("crash")
    /\ api' = [api EXCEPT ![j] = "aborted"]
    /\ UNCHANGED <<job, history, disk, taskQueues, events, procVars>>

ManagerStep(j) == \* what the manager does once the request has been received
    EnqueueTask(j) \/ PublishDownloadRequested(j) \/ PublishFailure(j)

-----------------------------------------------------------------------------
(* A worker process takes a message and, at the end, lets go of it *)

\* Mutant: queue.get(no_ack=True), the broker forgets what it hands out.
TakeWithoutAck(p, j, status) ==
    /\ pc[p] = "idle"
    /\ pc' = [pc EXCEPT ![p] = "get"]
    /\ cur' = [cur EXCEPT ![p] = j]
    /\ goal' = [goal EXCEPT ![p] = status]
    /\ UNCHANGED <<snap, out, held>>

Take(p, j, status) ==
    /\ pc[p] = "idle"
    /\ pc' = [pc EXCEPT ![p] = "get"]
    /\ cur' = [cur EXCEPT ![p] = j]
    /\ goal' = [goal EXCEPT ![p] = status]
    /\ held' = [held EXCEPT ![p] = TRUE]
    /\ UNCHANGED <<snap, out>>

Release(p) ==
    /\ pc' = [pc EXCEPT ![p] = "idle"]
    /\ cur' = [cur EXCEPT ![p] = NoOne]
    /\ goal' = [goal EXCEPT ![p] = "absent"]
    /\ snap' = [snap EXCEPT ![p] = Nothing]
    /\ out' = [out EXCEPT ![p] = <<>>]
    /\ held' = [held EXCEPT ![p] = FALSE]

\* Mutant: goes on although get() found no message.
TakeFromEmpty(p, j) ==
    /\ downloadQ' = [downloadQ EXCEPT ![j] = @ - 1]
    /\ Take(p, j, "download_in_progress")
    /\ UNCHANGED <<api, job, history, disk, translationQ, events, budget>>

TakeDownload(p, j) ==
    /\ downloadQ[j] > 0
    /\ downloadQ' = [downloadQ EXCEPT ![j] = @ - 1]
    /\ Take(p, j, "download_in_progress")
    /\ UNCHANGED <<api, job, history, disk, translationQ, events, budget>>

TakeTranslation(p, j) ==
    /\ translationQ[j] > 0
    /\ translationQ' = [translationQ EXCEPT ![j] = @ - 1]
    /\ Take(p, j, "translate_in_progress")
    /\ UNCHANGED <<api, job, history, disk, downloadQ, events, budget>>

\* process_event: the status that the handler of an event type writes.
StatusOf(t) ==
    CASE t = "subtitle.ready" -> "done"
      [] t = "subtitle.translated" -> "done"
      [] t = "subtitle.missing" -> "subtitle_missing"
      [] t = "job.failed" -> "failed"
      [] t = "subtitle.download.requested" -> "download_queued"
      [] OTHER -> "translate_queued"

TakeEvent ==
    /\ events # <<>>
    /\ Take(Consumer, Head(events).job, StatusOf(Head(events).type))
    /\ UNCHANGED <<api, job, history, disk, taskQueues, events, budget>>

\* The handler has returned. Acking does nothing when the broker has taken
\* the message back. The consumer's queue has no other reader, so the message
\* it handles is still at the head.
Ack(p) ==
    /\ pc[p] = "ack"
    /\ Release(p)
    /\ events' = IF p = Consumer /\ held[p] THEN Tail(events) ELSE events
    /\ UNCHANGED <<api, job, history, disk, taskQueues, budget>>

-----------------------------------------------------------------------------
(* RedisClient.update_phase: GET, then SET, then EXPIRE *)

Expiring == {"completed", "failed"}

\* Where each handler goes on after its update_phase call.
AfterUpdate(p) ==
    IF p = Consumer THEN "record"
    ELSE IF p \in Downloaders THEN "search"
    ELSE IF goal[p] = "completed" THEN "publish" ELSE "translate"

Goto(p, label) == pc' = [pc EXCEPT ![p] = label]

Report(p, types) ==
    /\ out' = [out EXCEPT ![p] = types]
    /\ Goto(p, "publish")

\* update_phase reconnects before its own try. The TimeoutError of a ping that
\* hangs ends the handler: the consumer's goes on to ack, a worker's reports it.
UpdateRaises(p) ==
    /\ pc[p] = "get"
    /\ Fault("hang")
    /\ \/ p = Consumer /\ Goto(p, "ack") /\ UNCHANGED out
       \/ p \in Workers /\ Report(p, <<"job.failed">>)
    /\ UNCHANGED <<api, job, history, disk, taskQueues, events,
                   cur, goal, snap, held>>

GetJob(p) ==
    /\ pc[p] = "get"
    /\ \/ /\ job[cur[p]].status # "absent"
          /\ Reliably
          /\ snap' = [snap EXCEPT ![p] = Kept(job[cur[p]])]
          /\ Goto(p, "set")
       \/ /\ (job[cur[p]].status = "absent" /\ Reliably) \/ Fault("redis")
          /\ Goto(p, AfterUpdate(p))
          /\ UNCHANGED snap
    /\ UNCHANGED <<api, job, history, disk, taskQueues, events,
                   cur, goal, out, held>>

\* The metadata of the calls that write done or completed has a download_url,
\* and that of the call that writes failed an error_message; no other has any.
Merge(kept, status) ==
    [status |-> status,
     error |-> kept.error \/ status = "failed",
     url |-> kept.url \/ status \in {"done", "completed"},
     ttl |-> FALSE]

\* Writes back the record that was read, whatever happened to it since. SET
\* clears the expiration of the key.
SetJob(p) ==
    /\ pc[p] = "set"
    /\ \/ /\ Reliably
          /\ job' = [job EXCEPT ![cur[p]] = Merge(snap[p], goal[p])]
          /\ Goto(p, IF goal[p] \in Expiring THEN "expire" ELSE AfterUpdate(p))
       \/ /\ Fault("redis")
          /\ Goto(p, AfterUpdate(p))
          /\ UNCHANGED job
    /\ snap' = [snap EXCEPT ![p] = Nothing]
    /\ UNCHANGED <<api, history, disk, taskQueues, events,
                   cur, goal, out, held>>

WithExpiration(record) ==
    [status |-> record.status, error |-> record.error, url |-> record.url,
     ttl |-> TRUE]

ExpireJob(p) ==
    /\ pc[p] = "expire"
    /\ \/ Reliably /\ job' = [job EXCEPT ![cur[p]] = WithExpiration(@)]
       \/ Fault("redis") /\ UNCHANGED job
    /\ Goto(p, AfterUpdate(p))
    /\ UNCHANGED <<api, history, disk, taskQueues, events,
                   cur, goal, snap, out, held>>

-----------------------------------------------------------------------------
(* The downloader: process_message *)

Store(p, file) == disk' = [disk EXCEPT ![cur[p]] = @ \cup {file}]

\* Mutant: announces the subtitle it has found before it is downloaded.
ReportBeforeDownload(p) ==
    /\ pc[p] = "search"
    /\ Report(p, <<"subtitle.ready">>)
    /\ Reliably
    /\ UNCHANGED <<api, job, history, disk, taskQueues, events,
                   cur, goal, snap, held>>

\* The OpenSubtitles searches and downloads, up to the first publish: a
\* subtitle in the language that was asked for,
FoundRequested(p) ==
    /\ Store(p, "requested")
    /\ Report(p, <<"subtitle.ready">>)
    /\ Reliably

\* one in another language only, to be translated,
FoundOther(p) ==
    /\ AutoTranslate
    /\ Store(p, "fallback")
    /\ Goto(p, "enqueue")
    /\ UNCHANGED out
    /\ Reliably

\* no subtitle, no place to save it, a rate limit or any other exception,
NothingSaved(p) ==
    /\ \E t \in {"subtitle.missing", "job.failed"} : Report(p, <<t>>)
    /\ UNCHANGED disk
    /\ Reliably

\* or an API error, whose handler announces a translation without a task.
ApiError(p) ==
    /\ Fault("api")
    /\ Report(p, <<"subtitle.translate.requested">>)
    /\ UNCHANGED disk

Search(p) ==
    /\ pc[p] = "search"
    /\ FoundRequested(p) \/ FoundOther(p) \/ NothingSaved(p) \/ ApiError(p)
    /\ UNCHANGED <<api, job, history, taskQueues, events,
                   cur, goal, snap, held>>

\* Mutant: a task that cannot be enqueued is logged and forgotten.
EnqueueOrForget(p) ==
    /\ pc[p] = "enqueue"
    /\ \/ /\ Reliably
          /\ PutTranslation(cur[p])
          /\ Report(p, <<"subtitle.translate.requested">>)
       \/ /\ Fault("enqueue")
          /\ Goto(p, "ack")
          /\ UNCHANGED <<taskQueues, out>>
    /\ UNCHANGED <<api, job, history, disk, events, cur, goal, snap, held>>

\* Mutant: reports the subtitle missing although it has handed the job over.
EnqueueAndReportMissing(p) ==
    /\ pc[p] = "enqueue"
    /\ Reliably
    /\ PutTranslation(cur[p])
    /\ Report(p, <<"subtitle.translate.requested", "subtitle.missing">>)
    /\ UNCHANGED <<api, job, history, disk, events, cur, goal, snap, held>>

\* Hands the job over to the translators. On failure the inner handler
\* publishes job.failed and raises, and the outer one publishes it again.
EnqueueTranslation(p) ==
    /\ pc[p] = "enqueue"
    /\ \/ /\ Reliably
          /\ PutTranslation(cur[p])
          /\ Report(p, <<"subtitle.translate.requested">>)
       \/ /\ Fault("enqueue")
          /\ PutTranslation(cur[p]) \/ UNCHANGED taskQueues
          /\ Report(p, <<"job.failed", "job.failed">>)
    /\ UNCHANGED <<api, job, history, disk, events, cur, goal, snap, held>>

-----------------------------------------------------------------------------
(* The translator: process_translation_message *)

\* Mutant: finalize_translation runs before save_translated_file.
FinalizeBeforeSave(p) ==
    /\ pc[p] = "translate"
    /\ out' = [out EXCEPT
                 ![p] = <<"translation.completed", "subtitle.translated">>]
    /\ goal' = [goal EXCEPT ![p] = "completed"]
    /\ Goto(p, "get")
    /\ UNCHANGED <<api, job, history, disk, taskQueues, events,
                   cur, snap, held, budget>>

\* The file is read, translated and saved; finalize_translation comes next.
TranslationSaved(p) ==
    /\ Store(p, "translated")
    /\ out' = [out EXCEPT
                 ![p] = <<"translation.completed", "subtitle.translated">>]
    /\ goal' = [goal EXCEPT ![p] = "completed"]
    /\ Goto(p, "get")

\* Any exception ends in handle_translation_error.
TranslationFails(p) ==
    /\ Report(p, <<"job.failed">>)
    /\ UNCHANGED <<disk, goal>>

Translate(p) ==
    /\ pc[p] = "translate"
    /\ TranslationSaved(p) \/ TranslationFails(p)
    /\ UNCHANGED <<api, job, history, taskQueues, events,
                   cur, snap, held, budget>>

-----------------------------------------------------------------------------
(* The last awaits of the handlers *)

\* A worker publishes the next of the events its handler announces.
Publish(p) ==
    /\ pc[p] = "publish"
    /\ PublishEvent(Head(out[p]), cur[p])
    /\ out' = [out EXCEPT ![p] = Tail(@)]
    /\ Goto(p, IF Tail(out[p]) = <<>> THEN "ack" ELSE "publish")
    /\ UNCHANGED <<api, job, history, disk, taskQueues, cur, goal, snap, held>>

\* The consumer records the event it handles. If Redis fails, and whether
\* record_event returns or raises then, it goes on to ack.
RecordEvent ==
    /\ pc[Consumer] = "record"
    /\ \/ /\ Reliably
          /\ history' = [history EXCEPT ![cur[Consumer]] =
                           Append(@, Head(events).type)]
       \/ /\ Fault("history") \/ Fault("hang")
          /\ UNCHANGED history
    /\ Goto(Consumer, "ack")
    /\ UNCHANGED <<api, job, disk, taskQueues, events,
                   cur, goal, snap, out, held>>

-----------------------------------------------------------------------------
(* What the environment does to a busy worker process *)

\* The broker makes the unacked message of p ready again.
Requeue(p) ==
    /\ downloadQ' = IF p \in Downloaders /\ held[p]
                    THEN [downloadQ EXCEPT ![cur[p]] = @ + 1] ELSE downloadQ
    /\ translationQ' = IF p \in Translators /\ held[p]
                       THEN [translationQ EXCEPT ![cur[p]] = @ + 1]
                       ELSE translationQ

\* asyncio.wait_for cancels the handler and message.process(), whose requeue
\* argument is left at False, rejects the message for good.
Timeout(p) ==
    /\ pc[p] \notin {"idle", "ack"}
    /\ Fault("timeout")
    /\ Release(p)
    /\ events' = IF p = Consumer /\ held[p] THEN Tail(events) ELSE events
    /\ UNCHANGED <<api, job, history, disk, taskQueues>>

\* p dies (or drops its connection before it enters message.process()) and is
\* started again: only what was stored outside of it is left.
Crash(p) ==
    /\ pc[p] # "idle"
    /\ Fault("crash")
    /\ Requeue(p)
    /\ Release(p)
    /\ UNCHANGED <<api, job, history, disk, events>>

\* The robust connection is dropped and restored under the running handler.
LoseConnection(p) ==
    /\ held[p]
    /\ Fault("conn")
    /\ Requeue(p)
    /\ held' = [held EXCEPT ![p] = FALSE]
    /\ UNCHANGED <<api, job, history, disk, events, pc, cur, goal, snap, out>>

-----------------------------------------------------------------------------
(* The system *)

Init ==
    /\ api = [j \in Jobs |-> "new"]
    /\ job = [j \in Jobs |-> Absent]
    /\ history = [j \in Jobs |-> <<>>]
    /\ disk = [j \in Jobs |-> {}]
    /\ downloadQ = [j \in Jobs |-> 0]
    /\ translationQ = [j \in Jobs |-> 0]
    /\ events = <<>>
    /\ pc = [p \in Procs |-> "idle"]
    /\ cur = [p \in Procs |-> NoOne]
    /\ goal = [p \in Procs |-> "absent"]
    /\ snap = [p \in Procs |-> Nothing]
    /\ out = [p \in Procs |-> <<>>]
    /\ held = [p \in Procs |-> FALSE]
    /\ budget = MaxFaults

UpdatePhase(p) ==
    GetJob(p) \/ UpdateRaises(p) \/ SetJob(p) \/ ExpireJob(p)

DownloaderStep(p) ==
    \/ \E j \in Jobs : TakeDownload(p, j)
    \/ UpdatePhase(p) \/ Search(p) \/ EnqueueTranslation(p)
    \/ Publish(p) \/ Ack(p)

TranslatorStep(p) ==
    \/ \E j \in Jobs : TakeTranslation(p, j)
    \/ UpdatePhase(p) \/ Translate(p) \/ Publish(p) \/ Ack(p)

ConsumerStep == TakeEvent \/ UpdatePhase(Consumer) \/ RecordEvent \/ Ack(Consumer)

Failure(p) == Timeout(p) \/ Crash(p) \/ LoseConnection(p)

Next ==
    \/ \E j \in Jobs : \/ SaveJob(j) \/ SaveRaises(j)
                     \/ ManagerStep(j) \/ CrashManager(j)
    \/ \E p \in Downloaders : DownloaderStep(p)
    \/ \E p \in Translators : TranslatorStep(p)
    \/ ConsumerStep
    \/ \E p \in Procs : Failure(p)

Spec == Init /\ [][Next]_vars

\* Every service keeps running: the manager finishes the requests it began and
\* each worker's consume loop goes on as long as it has something to do.
FairSpec ==
    /\ Spec
    /\ \A j \in Jobs : WF_vars(ManagerStep(j))
    /\ \A p \in Downloaders : WF_vars(DownloaderStep(p))
    /\ \A p \in Translators : WF_vars(TranslatorStep(p))
    /\ WF_vars(ConsumerStep)

-----------------------------------------------------------------------------
(* What the services keep in order *)

\* The fields of the pipeline hold the kinds of values the services store.
TypeOK ==
    /\ api \in [Jobs -> {"new", "saved", "enqueued", "failing",
                         "accepted", "rejected", "aborted"}]
    /\ job \in [Jobs -> Record]
    /\ history \in [Jobs -> Seq(EventTypes)]
    /\ disk \in [Jobs -> SUBSET {"requested", "fallback", "translated"}]
    /\ downloadQ \in [Jobs -> Nat]
    /\ translationQ \in [Jobs -> Nat]
    /\ events \in Seq([type : EventTypes, job : Jobs])
    /\ pc \in [Procs -> {"idle", "get", "set", "expire", "search", "enqueue",
                         "translate", "publish", "record", "ack"}]
    /\ cur \in [Procs -> Jobs \cup {NoOne}]
    /\ goal \in [Procs -> Statuses \cup {"absent"}]
    /\ snap \in [Procs -> [error : BOOLEAN, url : BOOLEAN]]
    /\ out \in [Procs -> Seq(EventTypes)]
    /\ held \in [Procs -> BOOLEAN]
    /\ budget \in 0 .. MaxFaults

\* The events that tell a client how its job ended.
Outcomes ==
    {"subtitle.ready", "subtitle.missing", "subtitle.translated", "job.failed"}

Queued(t, j) == \E i \in DOMAIN events : events[i] = Event(t, j)
Recorded(t, j) == \E i \in DOMAIN history[j] : history[j][i] = t

\* The broker will hand out, or hand out again, a task of j.
DownloadPending(j) ==
    \/ downloadQ[j] > 0
    \/ \E p \in Downloaders : held[p] /\ cur[p] = j /\ pc[p] # "ack"

TranslationPending(j) ==
    \/ translationQ[j] > 0
    \/ \E p \in Translators : held[p] /\ cur[p] = j /\ pc[p] # "ack"

OutcomeUnderway(j) == \E t \in Outcomes : Queued(t, j)
OutcomeRecorded(j) == \E t \in Outcomes : Recorded(t, j)

\* A job that the manager has taken on is never forgotten: a work queue or a
\* worker still owes it an answer, or the consumer has, or has recorded, one.
NoJobLost ==
    \A j \in Jobs :
        api[j] = "accepted" =>
            \/ DownloadPending(j) \/ TranslationPending(j)
            \/ OutcomeUnderway(j) \/ OutcomeRecorded(j)

HasSubtitle(j) == disk[j] \cap {"requested", "translated"} # {}

\* Whatever fails, and in whatever order events and status writes arrive, a
\* job shown as done has a link to a subtitle file that is really on the disk,
\* and a job shown as failed says why.
StatusHasEvidence ==
    \A j \in Jobs :
        /\ job[j].status \in {"done", "completed"} => HasSubtitle(j) /\ job[j].url
        /\ job[j].status = "failed" => job[j].error

NoFaultYet == budget = MaxFaults

\* The answers to j that exist or are still owed: tasks on the work queues,
\* workers that have neither reported nor handed over, and reported outcomes.
Owes(p, j) ==
    /\ cur[p] = j
    /\ pc[p] # "ack"
    /\ ~(p \in Downloaders /\ pc[p] = "publish"
                           /\ out[p] = <<"subtitle.translate.requested">>)

Answers(j) ==
    downloadQ[j] + translationQ[j]
    + Cardinality({p \in Workers : Owes(p, j)})
    + Cardinality({i \in DOMAIN events :
                      /\ events[i].job = j /\ events[i].type \in Outcomes
                      /\ ~(i = 1 /\ pc[Consumer] = "ack")})
    + Cardinality({i \in DOMAIN history[j] : history[j][i] \in Outcomes})

\* As long as nothing fails, a job taken on has exactly one answer, on its way
\* or recorded: the handover from downloader to translator neither drops nor
\* doubles it.
ExactlyOneAnswer ==
    NoFaultYet => \A j \in Jobs : api[j] = "accepted" => Answers(j) = 1

Quiet(j) ==
    /\ api[j] \in {"accepted", "rejected", "aborted"}
    /\ downloadQ[j] = 0 /\ translationQ[j] = 0
    /\ \A p \in Procs : cur[p] # j
    /\ \A i \in DOMAIN events : events[i].job # j

\* When no service has anything left to do for a job, its status is the one
\* its last recorded event calls for: no status written by a worker outlives
\* the consumer's.
StatusMatchesHistory ==
    \A j \in Jobs :
        Quiet(j) /\ history[j] # <<>> /\ job[j].status # "absent" =>
            job[j].status = StatusOf(history[j][Len(history[j])])

\* As long as nothing fails, a worker never writes the status of a job whose
\* outcome is already recorded: what still comes is the consumer catching up.
OutcomeOverridesWorkers ==
    [][\A j \in Jobs :
          NoFaultYet /\ OutcomeRecorded(j) /\ job'[j] # job[j] =>
              cur[Consumer] = j /\ pc[Consumer] \in {"set", "expire"}]_vars

-----------------------------------------------------------------------------
(* The services implement SubtitleService *)

RequestOf(j) ==
    CASE api[j] \in {"new", "accepted", "rejected"} -> api[j]
      [] OTHER -> "open"

ResultOf(t) ==
    CASE t \in {"subtitle.ready", "subtitle.translated"} -> "ready"
      [] t = "subtitle.missing" -> "missing"
      [] t = "job.failed" -> "failed"

Service == INSTANCE SubtitleService WITH
    request <- [j \in Jobs |-> RequestOf(j)],
    subtitle <- [j \in Jobs |-> HasSubtitle(j)],
    reported <- [j \in Jobs |->
                    {ResultOf(t) : t \in {o \in Outcomes : Recorded(o, j)}}]

\* Every step of the services is one a client may expect, or changes nothing
\* a client sees: above all, a subtitle is reported only once it exists.
ImplementsService == Service!Spec

\* The services get every job that was taken on to a recorded outcome.
EveryJobReported == Service!AcceptedIsReported

=============================================================================
