# Formal models of get-my-subtitle

TLA+ models of the services under `src/`, the TLC configurations that check
them on small instances, and theorems about them that TLAPS proves for every
value of the constants. File names below are relative to the repository's root;
`PROJECT.json` maps every definition to the lines it stands for.

- [1. The system](#1-the-system): inventory of the components
- [2. The modules](#2-the-modules): how state and actions correspond to the code
- [3. The runs](#3-the-runs): what is checked, with which bounds and fairness
- [4. The proofs](#4-the-proofs)
- [5. Where the code and its documentation part](#5-where-the-code-and-its-documentation-part)
- [6. What is not modelled](#6-what-is-not-modelled)
- [7. Plan](#7-plan)

To check a module or its proofs, run in this directory

    tlc -workers 2 -config Recovery.cfg MCSubtitlePipeline.tla
    tlapm SubtitlePipelineProofs.tla

## 1. The system

A subtitle job is created by an HTTP request to the manager or by the scanner,
which finds media files. Work travels through RabbitMQ work queues, news about
it through a topic exchange, and what clients see is kept in Redis.

```
            POST /subtitles/*                 library scan, webhook, WebSocket
                   |                                     |
                manager  <--- subtitle.requested ---  scanner
                   |   \                                 |
  subtitle.download|    \ subtitle.translation           | job record,
                   v     \                               v dedup key
              downloader --> translator               Redis <--- manager's check
                   |             |                       ^
                   +--- events --+---> consumer ---------+  status, history
```

| Component (`src/`) | State it keeps | Operations | Hard part | What makes it correct |
|---|---|---|---|---|
| manager, HTTP jobs (`manager/main.py`, `orchestrator.py`, `helpers.py`; `POST /subtitles/*` and `POST /webhooks/jellyfin`) | none of its own; job records | save the job, enqueue the task, publish the event, publish a failure | `save_job`'s result is ignored; the task is out before its announcement; it may die between any two of them | an accepted job is never forgotten |
| downloader (`downloader/worker.py`) | the message it handles | take a task, set the status, search, download, hand over to the translator, report | redelivery of work that is done; an enqueue that raises after the broker took the task; timeouts; API errors | one answer per job; a reported subtitle exists |
| translator (`translator/*`) | the message it handles, checkpoints on disk | take a task, set the status, translate in parallel chunks, save, finalise, report | dies between save, status and events; chunks fail one by one | as above; a resumed translation is the whole translation |
| consumer (`consumer/worker.py`) | the message it handles | turn each event into status and history | order of events and of other writers; a crash between status, history and ack | the last recorded event decides the status |
| Redis client (`common/redis_client.py`) | none of its own; job records, histories | `save_job`, `get_job`, `update_phase`, `record_event` | GET / SET / EXPIRE are three calls; failures are swallowed, but for a reconnect that hangs, which raises | a finished status has something behind it |
| Redis connection (`common/redis_client.py`) | client, `connected`, lock, health check task | `connect`, `_health_check_loop`, `ensure_connected`, `disconnect` | the loop reconnects beside the lock that callers take; pings hang; callers are cancelled while they wait | one loop at a time; the flag follows Redis; disconnect is final |
| event publisher (`common/event_publisher.py`) | connection | `publish_event` with one retry | lost in mock mode, doubled by the retry, reported as sent in both cases | nothing false is announced |
| duplicate prevention (`common/duplicate_prevention.py`) | one Redis key per `video_url` and language, with a TTL | `check_and_register` by a Lua script, or GET and SET | fallback races, lost replies, expiry | one job per `video_url`, and that one is taken care of |
| scanner (`scanner/*`) | pending files | detect, register, save, publish | several detections of one file; restarts | every URL detected is heard of |
| Jellyfin WebSocket (`scanner/websocket_client.py`) | socket, `running`, reconnect delay and task | `connect`, `_message_loop`, `_schedule_reconnect`, `_reconnect` | the reconnect runs beside the flag that `connect` looks at | a lost connection comes back |
| manager's event consumer (`manager/event_consumer.py`) | one request at a time | check again, enqueue, report | redelivery of a request it has registered itself; cancellation | as above |
| manager's lifecycle (`manager/main.py`, `helpers.py`, `health.py`, `event_consumer.py`) | consumer's connection, channel, queue, `is_consuming`, `_should_stop` | start, consume with reconnects, report health, stop | half-made connections; what the queue iterator has prefetched; a stop that runs out of time | the health endpoint is honest; a stop loses the request in hand at most |
| worker loops and shutdown (`common/shutdown_manager.py`, `consume_messages` and its siblings) | signal count, failures, reconnect delay, message in hand | connect, get, check connections, handle within a time limit, signal, cleanup | a message handed out as its `get` times out; a second signal in the middle of a handler; restored channels | no message is dropped that no handler has seen; a worker told to stop stops |
| retries (`common/retry_utils.py`) | none | delays, which errors are transient, the decorator | chains of causes; bounds | never more calls than allowed; delays grow to a maximum |

## 2. The modules

### SubtitlePipeline: a job's way through the services

One action per stretch of code between two awaits that touch Redis, RabbitMQ or
the disk, so that the services interleave wherever asyncio and the network let
them.

| Module | Code |
|---|---|
| `api[j]` | how far `enqueue_subtitle_download_job` or `enqueue_subtitle_translation_job` has come for job `j` |
| `job[j]` | the Redis value of `job:<id>`: its status, whether `error_message` and `download_url` are there, whether the key expires |
| `history[j]` | the Redis list `job:events:<id>`, oldest first |
| `disk[j]` | subtitle files: in the requested language, in another one, translated |
| `downloadQ[j]`, `translationQ[j]` | ready messages of the two work queues, which hand them out in any order: two workers and redelivery make the order of the queue worthless |
| `events` | the queue `subtitle.events.consumer`, in order; its only reader leaves the head there until it acks |
| `pc`, `cur`, `goal`, `snap`, `out`, `held` | of each worker process: the next await, its job, the status it is about to write, what `update_phase` has read, the events it has still to publish, whether the broker waits for its ack |
| `budget` | how many failures may still happen |

- **Manager**: `SaveJob`, `EnqueueTask`, then `PublishDownloadRequested` or
  `PublishFailure`; `SaveRaises` ends the request with HTTP 500; `CrashManager`
  between any two.
- **Every worker**: `TakeDownload`, `TakeTranslation` and `TakeEvent` start a
  handler; `GetJob`, `SetJob` and `ExpireJob` are the three round trips of
  `update_phase`, and `UpdateRaises` leaves it before the first of them with a
  `TimeoutError`, which the consumer only logs and the workers report as
  `job.failed`; `Publish` is `publish_event` for the next event; `Ack` leaves
  `message.process()`.
- **Downloader**: `Search` is everything between the first status and the first
  publish, with its outcomes `FoundRequested`, `FoundOther`, `NothingSaved` and
  `ApiError`; `EnqueueTranslation` hands the job over.
- **Translator**: `Translate` saves the translation or fails; chunks and
  checkpoints are abstracted to this one step.
- **Consumer**: `TakeEvent`, `update_phase` with `StatusOf` the event,
  `RecordEvent`, `Ack`.
- **Failures**: each is a step guarded by `Fault(kind)`. The constant `Faults`
  says which kinds an instance admits, `MaxFaults` how many of them it meets:

| Kind | What happens | Code |
|---|---|---|
| `redis` | a GET, SET or EXPIRE on a job record fails and is swallowed | `common/redis_client.py` |
| `history` | the LPUSH of an event fails and is swallowed | `record_event` |
| `hang` | the ping of a reconnect does not come back: `save_job`, `update_phase` or `record_event` raises a `TimeoutError` | `common/redis_client.py:51`, called before their `try` at `:237`, `:456`, `:511` |
| `publish` | an event is lost, or sent twice | `publish_event` |
| `enqueue` | publishing a task raises, whether or not the broker has it | `enqueue_*_task`, `downloader/worker.py:397` |
| `api` | OpenSubtitles API or authentication error | `downloader/worker.py:497` |
| `timeout` | the handler is cancelled and its message rejected without requeue | `downloader/worker.py:664` and its siblings |
| `conn` | the broker drops a channel and requeues the unacked message, while the handler goes on | aio_pika's robust connection |
| `crash` | a process dies; what it held is requeued | |

### SubtitleService: what a client may rely on

The abstract specification: a request is answered, a subtitle comes to exist,
outcomes are reported, and *ready* only if the subtitle exists. It knows no
queue, worker or status. `SubtitlePipeline` instantiates it as `Service`, with
`request` from `api`, `subtitle` from `disk` and `reported` from `history`;
`ImplementsService == Service!Spec`, and its liveness property
`AcceptedIsReported` becomes `EveryJobReported`.

### Ingest: how detections of one URL become one job

| Module | Code |
|---|---|
| `Jobs`, `UrlOf`, `Pushed` | the job each detection creates (the scanner makes a new id before it asks for duplicates), the `video_url` it gives, and whether it comes from the WebSocket, which asks nobody |
| `dedup[u]` | the Redis key of `generate_dedup_key`, a hash of the `video_url` (and of the language, which is one here): the registered job, or `Nobody` |
| `saved` | the jobs with a record |
| `requests` | `manager.subtitle.requests`, in order; the manager is its only reader |
| `tasks[j]` | how many download tasks were ever enqueued for `j` |
| `heard[j]` | what the manager has published about `j` |
| `pc[c]` | where each detection, and the manager, is |

- `RunScript` is the Lua script in one step. `FallbackGet` and `FallbackSet`
  are the fallback, which any `RedisError` of the script starts, whether or not
  Redis ran it. When Redis is out of reach, the request passes unchecked.
- `AfterCheck` is what callers make of the result. The manager compares ids,
  the scanner does not.
- `Expire` is the end of the key's TTL.
- Scanner: `Detect`, `Check`, `SaveJob`, `PublishRequest`; `SaveRaises` ends the
  detection there, `CrashScanner` takes every detection under way with it.
- Manager: `TakeRequest`, `Check`, `EnqueueDownload`, then `Announce` or
  `ReportFailure`, `AckRequest`; `CrashManager` leaves the request on the queue,
  `StopManager` (the cancelled consumer task) rejects it.

The scan and the WebSocket give a file's path as `video_url`; the webhook prefers
the URL of its payload (`scanner/webhook_handler.py:61`). So `UrlOf` is any
function, a file may have two URLs, and the properties are about URLs: that a
file has one job holds only where all its detections give one (section 5).

In `SubtitlePipeline` a download job starts with `POST /subtitles/download`;
a job that `Ingest` enqueues enters the same work queue, and from there on the
two are the same. `Ingest` leaves the work queue's readers out: `tasks` only
counts.

### TranslationText: lists of segments

The list algorithms of `common/subtitle_parser.py` as operators, without state:
`Split` (`split_subtitle_content`), `Answer` (what the parser of
`translation_service.py` reads of the model's answer: numbers of the prompt,
at most one missing), `MergeTranslations`, `MergeTranslatedChunks`. A segment
carries its number, the place of its time codes (`cue`), the file it is from,
and of its text only whose it is and whether it is translated. Tokens are given
per segment. Recursion is a recursive function, so that the module can be
proved about.

### TranslationBatch: one job inside the translator

| Module | Code |
|---|---|
| `queue[p]` | tasks of the job on `subtitle.translation` that name the source file `p` |
| `version[p]` | which subtitle `p` holds: a repeated download saves another one under the same or another name |
| `checkpoint`, `output` | the two files, which all workers on the job share: absent, `Torn` (emptied and not written, or written by two at once), or their contents |
| `pc`, `task`, `limit` | where each worker is in `process_translation_message`, the file its task names, its chunk limits |
| `loaded`, `chunks`, `kept` | `CheckpointState`: the checkpoint, the chunks with their segments and what has become of each, `all_translated_segments` |
| `delivered` | whether RabbitMQ still waits for the worker's ack |
| `overtaken` | workers that have a file open which another has meanwhile written or removed |
| `outcome` | what became of the job's tasks |

- `Load` (`load_checkpoint_state`), `Read` (read, split, and compare the number
  of chunks), then `StartChunk` and `AnswerChunk` for the chunks side by side,
  `Gather`, `OpenCheckpoint`, `WriteCheckpoint`, `OpenOutput`, `WriteOutput`,
  `Complete` and `Cleanup` (`finalize_translation`), or `Fail`
  (`handle_translation_error`), and `Ack`. `write_text` is two steps because it
  empties the file before it writes it.
- Failures (`FaultKinds`): a worker dies and is started again, possibly with
  other limits; a channel is dropped while the handler goes on; the handler
  times out where it awaits something; the model fails a chunk after its
  retries, or leaves one segment out; the source cannot be read; a file cannot
  be opened, written or removed; a status cannot be written because a reconnect
  to Redis hangs (`UpdateRaises`, before the checkpoint is loaded or after the
  file is saved); the download is repeated.

`SubtitlePipeline` has the whole of this as its step `Translate`. Assumed:
source files are numbered from 1 (the parser takes whatever number the file
gives; `MergeSorts` checks the sort for any numbers); a path always holds as many
segments with as many tokens, whichever subtitle is saved there; checkpoints are
enabled and cleaned up, as is the default.

### WorkQueue: what a work queue promises

The second abstract specification: each message is `ready`, `held`, `done` or
`dropped`; it is done only after a handler came to its end (`Finish`) and
dropped only after one was cut short (`Interrupt`), and a worker that goes away
gives back all it holds (`Return`). `WorkerLoop` and `ManagerLifecycle` both
instantiate it as `Queue`, with `place` computed from where the broker has the
message (`Place`) and `finished` from `handled`;
`ImplementsWorkQueue == Queue!Spec`.

### WorkerLoop: the loops around the handlers

`consume_messages` of the downloader, `consume_translation_messages` and
`EventConsumer.start_consuming` are one loop written three times.

| Module | Code |
|---|---|
| `Workers`, `Consumers`, `Reads` | the processes; those that run `start_consuming`, which never resets its reconnect delay; the queue that each polls, as the set of its messages |
| `ready`, `unacked[w]`, `acked`, `rejected` | the broker's side |
| `late` | messages handed out on a connection after their `queue.get` had timed out: nobody in the process knows of them |
| `handled`, `interrupted` | handlers that came to their end, or were cut short |
| `pc[w]`, `hand[w]` | what the loop awaits, and the message it has got |
| `signals[w]` | `_signal_received_count` |
| `failures[w]`, `delay[w]` | `consecutive_failures`, `reconnect_delay` |

- `CloseStale`, `Connect`, `ConnectFails` and `WakeUp` are the outer loop,
  `CountFailure` its `except` clause with the longer delay after three failures.
- `Take` is `queue.get` with a message, `StopPolling` the shutdown check after an
  empty one, `TakeLate` the message that comes in the 0.1 s between the two
  time limits.
- `CheckPasses` and `CheckFails` are the check of the connections, which is made
  with a message in hand; `HandlerEnds` acks, `HandlerTimesOut` rejects.
- `FirstSignal` and `SecondSignal` are `handle_signal`;
  `Cleanup` is the `finally` clause; `DropConnection` is a robust connection
  restored by aio_pika; `Crash` a process that dies and is started again.

The handler itself is one step here and all of `SubtitlePipeline` there.

### RetryBackoff: delays and retries

Operators without state: `RetryDelays`, `ReconnectDelay`, `LongerDelay`;
`IsTransient`, the classification of an error along its `__cause__` chain, and
`Calls`, how often the decorator calls. Times are whole units; the jitter is a
set. `WorkerLoop` and `JellyfinWebSocket` use them.

### RedisConnection: one client, several coroutines that reconnect

| Module | Code |
|---|---|
| `client`, `connected`, `lock`, `task` | `self.client`, `self.connected`, who holds `reconnect_lock`, `_health_check_task` |
| `fresh` | the last check is less than ten seconds old, so `ensure_connected` does not ping |
| `pc[p]`, `attempt[p]` | what each coroutine (the service's own, a caller, a health loop) awaits, and its attempt of `connect` |
| `ping[p]` | the client its ping is on: the current one, one that was replaced meanwhile, or one that was closed |
| `up`, `serving`, `budget` | Redis answers; `disconnect` has not begun; outages and hanging pings to come |

- `connect`: `ServiceConnects`, then `ProbeAnswers`, `ProbeFails` or
  `ProbeHangs`, and `NextAttempt`; `StartLoop` creates the health check task
  unless one runs. `ManagerConnects`, `QuickAnswers` and `QuickFails` are
  `attempt_redis_connection_on_startup`, which starts no loop.
- `ensure_connected`: `EnsureConnected`, `PingAnswers`, `PingFails`, `TakeLock`,
  then `Closed` and `connect`; `Cancelled` is the caller's `wait_for` or its
  task's end, at any await.
- `_health_check_loop`: `Wake`, `CheckAnswers`, `CheckFails`, then the same
  `_reconnect_with_backoff` without the lock.
- `Disconnect` cancels the loop and closes the client. `Age` lets the last check
  grow old, `Outage` takes Redis away and brings it back.

### ManagerLifecycle: the event consumer beside the HTTP service

| Module | Code |
|---|---|
| `connection`, `declared`, `attempt` | the consumer's connection, how many of channel, queue and binding `connect` has set up, and its attempt; an attempt cut short leaves them half made |
| `consuming`, `shouldStop` | `is_consuming`, `_should_stop` |
| `buffer`, `hand` | what the queue iterator has prefetched and what it has given out |
| `pc["main"]`, `pc["task"]` | the lifespan, and the task that `start_event_consumer_if_ready` creates or does not |
| `ready`, `unacked`, `acked`, `rejected`, `handled`, `interrupted` | as in `WorkerLoop` |

- Start: `ConnectConsumer`, `Dial`, `Declare`, `NextAttempt`, `StartupTimesOut`;
  `Return` is where the task is created, or never.
- `start_consuming`: `CloseStale`, `connect`, `Deliver` into the iterator,
  `Take`, `CheckPasses` or `CheckFails`, `HandlerEnds`, `IteratorRaises`, then
  `Leave`, `Closing`, `WakeUp`.
- Stop: `Stop` sets `_should_stop` (whoever stops first, the lifespan waits
  five seconds), `TaskEnded` or `Cancel`, `Disconnect`.
- `Healthy` is `is_healthy` as `check_event_consumer_health` uses it.
- `Outage`, `Crash`: the broker goes away and comes back, the process dies. The
  connection is robust and counts as open while the broker is away.

### JellyfinWebSocket: a connection that is lost

`socket`, `running`, `attempts`, `delay` and the reconnect task in `pc` are the
client's; `inbox` is what the library has received. `StartScanner`, `Dial`
(`connect`), `Receive` and `FindClosed` (`_message_loop`), `Schedule`
(`_schedule_reconnect`) and `WakeUp` (`_reconnect`). What becomes of an item is in
`Ingest`.

### How the modules fit together

`Ingest` and `POST /subtitles/*` fill the work queues of `SubtitlePipeline`,
whose step `Translate` is all of `TranslationBatch`. `WorkerLoop` and
`ManagerLifecycle` are what surrounds the handlers of `SubtitlePipeline` and of
`Ingest`: the failures `crash`, `conn`, `timeout` and `stop` there are the ends of
a handler here, and `ImplementsWorkQueue` says that there are no others. Its
exception is `late`, a message that stays with a connection: it is redelivered
when that closes, as a `crash` or `conn` before the handler began.
`RedisConnection` decides when a job operation finds Redis, and when the ping of
its reconnect hangs (`ProbeHangs` of a caller); the `redis` and `hang` failures of
the others are any pattern of it.

### MC modules and proof modules

`MCSubtitlePipeline`, `MCIngest`, `MCTranslationBatch`, `MCWorkerLoop`,
`MCRedisConnection`, `MCManagerLifecycle` and `MCJellyfinWebSocket` give the
constants values. Two of them also hold reference checks of pure algorithms,
which TLC evaluates before the run:

- `MCTranslationBatch`: for all small files and limits `Split` gives chunks
  that cover the file, that exceed no limit unless they are a single segment,
  and that could not have taken one more (`SplitFillsChunks`); for all short
  lists `MergeTranslatedChunks` is a stable sort, numbered anew (`MergeSorts`).
- `MCWorkerLoop`: for all chains of at most two errors `IsTransient` is the
  recursion of `is_transient_error` (`TransientIsRecursion`); a failed login is
  not tried again where a failed search is (`LoginIsNotRetried`); never more
  calls than allowed, none after an answer or a permanent error
  (`RetriesAreBounded`); delays grow, and the jitter adds half of the maximum at
  most (`DelaysGrow`).

Proofs are in `SubtitlePipelineProofs` (types, evidence, nothing forgotten, the
refinement of `SubtitleService`), `SubtitlePipelineAnswers` (one answer, the last
word on a status), `IngestProofs`, `TranslationTextProofs` (the list algorithms),
`TranslationBatchProofs`, `WorkerLoopProofs` (the loops and the retry decorator),
`RedisConnectionProofs` and `ManagerLifecycleProofs`. Operators called *Mutant*
are plausible bugs of the definition that follows; they are part of no
specification and exist to show that the properties notice them.

## 3. The runs

| Run | Instance | Properties |
|---|---|---|
| `recovery` | one download job, one worker of each sort, one of crash / dropped channel / failed enqueue | `NoJobLost`, `StatusMatchesHistory`, `EveryJobReported` (liveness) |
| `any_failure` | one download job, two workers of each sort, one failure of any kind | `TypeOK`, `StatusHasEvidence`, `ImplementsService` |
| `undisturbed` | a download and a translation job, two workers of each sort, no failure | `ExactlyOneAnswer`, `OutcomeOverridesWorkers` |
| `single_job` | one path found three times (scan, webhook, WebSocket), a URL once (a second webhook); two failures; Redis answers the script and keeps its keys | `TypeOK`, `OneJobPerUrl` |
| `no_url_lost` | the same URLs; two of: failing Redis call, failing script, expired key, failed enqueue, closed channel, dying manager | `RegisteredIsTakenUp`, `EveryUrlHeardOf` (liveness) |
| `translation` | two workers; an English source of three segments that both limits cut into two chunks at different places, a French one of two that they cut into one or two; two failures of any kind | `TypeOK`, `FilesAreWhole`, `ResumesOwnSource`, `CompletedHasFile`, `ComesToRest` (liveness) |
| `worker_loop` | two workers on one queue, two messages, three failures of any of the six kinds, three signals; delays from 3 to 5 | `TypeOK`, `ImplementsWorkQueue`, `MessagesHandled` (liveness), `ShutdownEnds` (liveness) |
| `redis_connection` | two callers, two health check loops, two attempts each; Redis changes twice, one ping hangs or one caller is cancelled | `TypeOK`, `OneHealthLoop`, `OneCallerReconnects`, `StaysDisconnected`, `ConnectedFollowsRedis` (liveness) |
| `manager_lifecycle` | two requests, two attempts to connect at the start and three in the loop; RabbitMQ changes three times, two checks fail or processes die | `TypeOK`, `HealthyMeansConsuming`, `OnlyShutdownLosesOne`, `StoppedIsClean`, `ImplementsWorkQueue`, `ResumesConsuming` (liveness), `ShutdownEnds` (liveness) |
| `api_error_loses_job`, `wrong_text`, `websocket_stays_down` | the smallest instance with the failure in question | one property each, which TLC finds violated: see section 5 |

**What they show.** Acks come after the work and reports before acks, so
redelivery repeats work but loses none (`NoJobLost`, `EveryJobReported`); the
consumer is the last to write a status, whatever the workers wrote in between
(`StatusMatchesHistory`, `OutcomeOverridesWorkers`); every service writes or
announces an outcome only after the file it speaks of is stored
(`StatusHasEvidence`, `ImplementsService`); the handover from downloader to
translator neither drops nor doubles an answer (`ExactlyOneAnswer`). The
manager's second check keeps the WebSocket's unchecked jobs, and requests it
sees again, from becoming a second download of the same URL (`OneJobPerUrl`); the job that
others are turned away for is itself on its way, enqueued or reported
(`RegisteredIsTakenUp`). Comparing a checkpoint's chunks by number alone is safe,
although they may be cut differently now, because a checkpoint is written only
when all are done: a worker resumes everything or nothing (`FilesAreWhole`). The
file behind a job that is COMPLETED is there (`CompletedHasFile`), with these
exceptions, all of them visible in `outcome`: another task of the job failed or
timed out, possibly halfway through the file; two workers wrote at once; or a
worker died or timed out that worked on a task already given to another, and left
the file emptied that the other had finished. Whatever fails, the workers come to
rest with the job completed, failed or rejected (`ComesToRest`).

In the loops around the handlers no way out lets go of a message that no handler
has seen: neither a reconnect, nor a check that fails with a message in hand, nor
a message that arrives with the signal, nor one that arrives after its `get` has
timed out (`ImplementsWorkQueue`). All messages are handled
as long as one reader of the queue goes on, but for one that was handed out
late and stays with a connection that nothing closes (`MessagesHandled`); a
worker that was told to stop stops (`ShutdownEnds`). Redis' health check loop and
the callers may close and replace each other's client, and yet only one loop is
ever alive, callers never reconnect side by side (`OneHealthLoop`,
`OneCallerReconnects`), nothing connects again after `disconnect`
(`StaysDisconnected`), and `connected`, which the others go by, never stays wrong
for good (`ConnectedFollowsRedis`). The manager's health endpoint does not vouch
for a consumer that is away from its queue (`HealthyMeansConsuming`); a started
consumer comes back after any outage and handles all requests
(`ResumesConsuming`); stopping loses the request in hand at most, and leaves
nothing behind (`OnlyShutdownLosesOne`, `StoppedIsClean`, `ShutdownEnds`).

**Bounds, and why they are enough.** Jobs share nothing but the workers and the
order of the event queue; one job shows all that happens to it, two show the
competition for workers and the interleaving in the event queue. Two workers
of a sort are needed for one to redo what another one is still doing (after
`conn`); a third would only repeat it. One failure puts each kind at each step of
each handler. That more of them change nothing is not left to the bound where it
matters most: `TypeOK`, `StatusHasEvidence`, `ImplementsService`, `NoJobLost`,
`OneJobPerUrl` and `RegisteredIsTakenUp` are proved for any number of failures
(section 4), and so are all safety properties of `translation`, `worker_loop`,
`redis_connection` and `manager_lifecycle`. `ExactlyOneAnswer` and
`OutcomeOverridesWorkers` are proved for any number of jobs and workers. For the
liveness properties the bound is what it is. `Ingest` uses two, since the fallback race needs a failing script in
two places. Three detections of a URL are one of each sort that the code
treats differently; the second URL keeps the manager busy in between.
In `translation` the two limits are
chosen so that a checkpoint written under the one passes the comparison under
the other although the chunks end elsewhere, and so that another source fails
it; a second failure is needed for a worker to be interrupted and for what it
left to be met by one that fails again. One request at a time (`Parallel = 1`)
keeps the instance small; that chunks finish in any order is in `wrong_text`,
with two, and in the proofs, with any number. In `worker_loop` two
workers are needed for a message to reach the other one after a reconnect, three
failures in a row for the delay to grow (to its maximum: twice 3 is more than 5), three signals for a worker to get two and the other one its first.
`Consumers` is empty there, since the two must share a queue; the one difference
it makes, to `delay`, is in the proofs. In `redis_connection` a second caller is
what the lock is for, a second task makes a second loop possible, and two
changes are an outage with its end; two attempts are a first and a last one. In
`manager_lifecycle` three changes are an outage, its end, and another outage at
the time of the stop; with two requests one is in hand while the other is in the
iterator. `budget` bounds everything that
could grow: each failure doubles a message at
most, and no action of the code produces messages in a loop.

**Deadlock.** All specifications end when every job has been dealt with, or the
services have stopped, so the cfgs say `CHECK_DEADLOCK FALSE`; that nothing stops *before* is what the
liveness properties are for.

**Symmetry** (workers of a sort) is used only in runs without liveness
properties.

**Fairness.** `FairSpec` has weak fairness for each service: the manager
finishes requests it has received, and every worker's loop takes a step when
it can take one; an asyncio loop runs every ready callback, and containers are
restarted (`docs/CONFIGURATION.md:459-475`; a `Crash` leaves a worker idle, ready
to consume again). `WorkerLoop` asks the same of each loop's `Step`: connecting,
polling, checking and handling all have time limits. Clients and
detections are not fair: nobody has to send a request. Neither is any
failure, so none is ever relied on to happen. Weak fairness suffices because a
worker that has nothing to take is simply disabled, and its queue has either no
other reader or one that does the same for the job.

The connections need a little more. In `RedisConnection` pings end one way or
the other (they have a time limit), the health check loop wakes up, time passes,
a service connects when it starts, and callers come again and again: workers
handle messages, the health endpoint is polled, the scanner's main loop turns.
Without callers `connected` could stay false although Redis is back, for a
successful check of the loop does not set it. In `ManagerLifecycle` both
coroutines go on, the broker delivers what is ready, and five seconds pass
(`Cancel`). In `JellyfinWebSocket` the client's coroutines go on and every outage
ends. Outages, failures, signals and the stop are not fair anywhere.

**What the passing runs leave out, knowingly.** `recovery` admits neither
`timeout`, `publish`, `history`, `hang`, `api` nor `redis`: after the first five
the code does lose a job, as the violation runs and the hypothesis of
`NothingForgotten` say; a failed Redis write leaves a status behind that no
event corrects, so that `StatusMatchesHistory` would not hold. Nor would it with
one dropped channel and one death, two failures: see section 5. `no_url_lost` leaves out a lost
reply, a reconnect that hangs (section 5), a scanner that dies between registering
and publishing, and the cancelled consumer: in each the URL stays registered for a job that
nobody works on until the key expires, which is all the code does about it.
`MessagesHandled` excepts messages handed out late and queues all of whose
readers were told to stop. `ResumesConsuming` is about a task that was started:
if RabbitMQ is down when the manager starts, none ever is (section 5).

## 4. The proofs

All are about arbitrary sets of jobs, workers and files and any `MaxFaults`,
from `PipelineAssumption`, `IngestAssumption`, `TranslationAssumption`,
`WorkerLoopAssumption`, `RedisConnectionAssumption` or
`ManagerLifecycleAssumption`: the sorts of jobs, of workers and of coroutines are
disjoint, `NoOne`, `Nobody`, `Consumer` and `Manager` are outside
of the sets they are told apart from, numbers of attempts are positive, a delay
begins below its maximum, and `Faults` is a set of known kinds.

| Theorem | States | Along |
|---|---|---|
| `SubtitlePipelineProofs!TypeCorrect` | `Spec => []TypeOK` | `TypeInv`: `TypeOK` is not inductive, since `Head`, `Tail` and a decremented counter need to know that a publishing worker has something to publish, that only the right sort of process is at a label (`PlaceOK`), and that the consumer works on the head of its queue (`ConsumerAtHead`) |
| `SubtitlePipelineProofs!EvidenceCorrect` | `Spec => []StatusHasEvidence`, with any failures | `EvidenceInv`: whatever is about to be said is already true. Each event in a worker's hands, on the queue or in a history is `Backed` by a file, each status about to be written is (`Honest`), and files are never removed (`FilesStay`) |
| `SubtitlePipelineProofs!NothingForgotten` | `Careful => (Spec => []NoJobLost)`; `Careful` excludes `timeout`, `history`, `hang`, `publish`, `api` | `CustodyInv`: somebody always has the job in custody, and lets go of it only when another has it. A downloader that is about to ack has handed over or reported; the last event of a translator is an outcome; the consumer acks what it has recorded |
| `SubtitlePipelineProofs!Refinement` | `Spec => ImplementsService`, with any failures | `KnownInv` (work is only done for jobs that were requested) and `EvidenceInv`; each action is matched with one of the abstract service or a stutter (`ServiceSteps`) |
| `SubtitlePipelineAnswers!AnsweredOnce`, `ConsumerHasTheLastWord` | `Spec => []ExactlyOneAnswer`, `Spec => OutcomeOverridesWorkers` | `AnswerInv`: as long as nothing has failed (`Undisturbed`), every process still holds its message, each answer is in one place, and each step leaves it there or carries it to the next one; counting is by `Debtors`, `Reports` and `Records`, sets of which a step changes at most one member each. Where the answer is recorded nobody else has the job in hand |
| `SubtitlePipelineAnswers!EventsSettleStatus` | `Heard => (Spec => []StatusMatchesHistory)`; `Heard` excludes `redis`, `history`, `hang`, `publish`, `timeout`, and more than one failure if both `conn` and `crash` are among them | `LastWordInv`: either an event about the job is still to come, and the consumer will write the status last (`MoreToCome`), or what is written now is what the last event says (`Settled`). Whoever may still write a status of a job will also publish an event about it |
| `IngestProofs!TypeCorrect` | `Spec => []TypeOK` | `TypeOK` is inductive: it says that a busy manager has a request |
| `IngestProofs!SingleJob` | `RedisKeepsKeys => (Spec => []OneJobPerUrl)`; `RedisKeepsKeys` excludes `redis`, `script`, `window` | `RegisteredInv`: a task exists only for the job its URL is registered for, the manager is about to make one only for that job, and a fallback that follows a lost reply always finds the key set, so it never gets to its own SET |
| `IngestProofs!RegisteredGetsDone` | `KeepsRequests => (Spec => []RegisteredIsTakenUp)`; `KeepsRequests` excludes `hang`, `reply`, `publish`, `scanner`, `stop` | `CareInv`: a key holds a job of its own URL (`KeysTakenUp`); whose request is queued has nothing left to register (`RequestersAreDone`), so no key changes to the job that the manager is about to ack; and the manager acks only what has a task, was reported, or lost its URL to another job (`AckEarned`) |
| `TranslationBatchProofs!TypeCorrect`, `FilesWhole`, `OwnSource` | `Spec => []TypeOK`, `[]FilesAreWhole`, `[]ResumesOwnSource`, with any failures | `IInv`: the chunks of a worker that translates cover its file (`ChunksCover`), and it has resumed all of them or none (`TranslatesAll`); whoever is about to write has the whole file (`HasAll`); a checkpoint that was loaded is whole and of the worker's own source. Answers change nothing but texts (`MergeKeepsPlaces`), the joined chunks are the whole file (`JoinedWhole`), and sorting what is in order leaves it as it is (`MergeInOrder`) |
| `TranslationBatchProofs!CompletedFileIsThere` | `MarksAreNoText => (Spec => []CompletedHasFile)`, with any failures | `FileOwed`: whoever empties a file that has been announced, or is about to be, still has to write it again, or its task comes back |
| `TranslationBatchProofs!MissingTextShifts`, `OwnTextsOnly` | which text each segment of a chunk gets when the answer lacks one; `NothingShifts => (Spec => []OnlyMissingIsOriginal)`, where `NothingShifts` says that no answer lacks a text or that every file is one chunk | `TextInv`: a chunk that is done has its own texts; the first chunk of a file is the only one in which the numbers of the prompt are those of the file |
| `TranslationTextProofs!SplitTiles`, `ChunksFill` | for every file and limit, the chunks that `split_subtitle_content` returns are not empty, follow each other and cover the file; each keeps to the limits if it has more than one segment, and none but the last would with one more | `PackInv`, by induction over the segments: closed chunks that are full, and behind them an open one that fits, whose load is a difference of running totals |
| `TranslationTextProofs!MergeSorts` | for every list of segments, `merge_translated_chunks` gives each a place of its own, in the order of their numbers and of their coming | `Rank` counts the segments before one; it grows along a strict total order, so it is one-to-one, and on a finite set onto |
| `WorkerLoopProofs!RetriesStop`, `CauseIsAsked`, `WaitsAreBounded` | when the retry decorator stops and after what it calls again, and how long a retry or a reconnect waits at most; `IsTransient` is the recursion that `is_transient_error` is written as, for chains of any length | the least attempt that gives up |
| `WorkerLoopProofs!TypeCorrect`, `LoopImplementsWorkQueue` | `Spec => []TypeOK` (with the bound of the delay), `ImplementsWorkQueue`, with any failures and signals | `BrokerInv`: each message is in one place (`OnePlace`); `LoopInv`: a worker that checks or handles has a message in hand, and failures are counted up to the limit only on the way out (`HandOK`). Each step does one of four things to the broker, a lemma each (`HandOutSafe`, `GiveBackSafe`, `AcknowledgeSafe`, `RejectSafe`) |
| `RedisConnectionProofs!TypeCorrect`, `OneLoop`, `CallersTakeTurns`, `DisconnectIsFinal` | `Spec => []TypeOK`, `[]OneHealthLoop`, `[]OneCallerReconnects`, `[]StaysDisconnected`, with any outages and hanging pings | `IInv`: which coroutine may be where (`RightPlaces`: callers and loops take different ways through `connect`), a flag or a ping needs a client (`HasClient`), a pause follows an attempt that was not the last (`AttemptsLeft`) |
| `ManagerLifecycleProofs!TypeCorrect`, `HealthIsHonest`, `LosesOneAtMost`, `StopsClean`, `ManagerImplementsWorkQueue` | `Spec => []TypeOK`, `[]HealthyMeansConsuming`, `[]OnlyShutdownLosesOne`, `[]StoppedIsClean`, `ImplementsWorkQueue`, with any outages and failures | `BrokerInv` as above, and `ControlInv`: the lifespan and the task are in phase (`PhasesOK`), the flag is up only at the queue (`ConsumingOK`), whoever uses a channel has an open connection and the last to leave closes it (`LinkOK`), and only the one cancellation has rejected anything (`LostOK`) |

`FilesAreWhole` alone is not inductive: nothing in the comparison of totals says
that the first chunks of the checkpoint are the first chunks of now. That a
checkpoint has `completed = total` is what makes it true, and the proof shows
where: were one ever saved with some of the chunks, as `README.md:348-349`
describes, comparing totals would no longer do.

*Induction.* `Packed` is a recursive function. That a function with these equations
exists, and what it computes for files of any length, follows from every set of
numbers having a least member (`LeastNumber`), which in turn follows from the
library's theorem that proper inclusion of finite sets is well-founded; `UpTo` is
the resulting rule for a step from each number to the next. The theorems about
`TranslationBatch` use `SplitTiles` (`CutTiles`) and assume nothing about how
files are cut.

The hypotheses of `NothingForgotten`, `SingleJob`, `RegisteredGetsDone` and
`EventsSettleStatus` are needed: TLC finds the property violated with any single
one of the excluded kinds in `Faults` (an expired key admits a second job by
design), and `StatusMatchesHistory` with two failures of `conn` and `crash` (section
5). That of `OwnTextsOnly` is: `wrong_text` has a missing text and two chunks, and
`MissingTextShifts` says what happens then. `MarksAreNoText` says that the marks
for a missing and a torn file are no lists of segments; in the instances they are
model values.

Only model-checked: the liveness properties (`EveryJobReported`,
`EveryUrlHeardOf`, `ComesToRest`, `MessagesHandled`, both `ShutdownEnds`,
`ConnectedFollowsRedis`, `ResumesConsuming`), which are out of the proof system's
reach; how delays grow (`DelaysGrow`), since its provers know nothing of powers (that they
are bounded is proved, `WaitsAreBounded`); and the violation runs, which are counterexamples. Every invariant and every
action property of a passing run is proved, refinements included.

## 5. Where the code and its documentation part

Shown by a run that ends in a counterexample:

1. **`api_error_loses_job`.** On an API error the downloader announces a
   translation for which no task exists; the job stays at `translate_queued`.
   `src/downloader/worker.py:507` leaves it to the translator, which never hears
   of it.
2. **`wrong_text`.** With one translation missing, texts are looked up by the
   segment's number in the file in a map keyed by the numbers of the prompt,
   which restart at 1 in every chunk. In all chunks but the first, segments get
   their neighbour's text or stay untranslated; `README.md:78-79` and
   `src/common/subtitle_parser.py:405` promise the original text for the missing
   one only.
3. **`websocket_stays_down`.** `_reconnect` calls `connect` while `running` is
   set, and `connect` returns at once if it is: a connection that was lost is
   never opened again. `src/scanner/README.md:157` promises automatic
   reconnection.

Met while modelling; the runs that would show them are not kept, for they say
no more than the sentence does:

- *Jobs and messages.* Every handler runs inside `asyncio.wait_for` inside
  `message.process()`, whose `requeue` stays `False`: a handler that takes longer
  than its limit loses its message, and a long translation every time.
  `docs/COMPREHENSIVE_PROJECT_SUMMARY.md:199-201` and the log line promise a
  requeue. A second signal drops the message in hand in the same way.
- The manager publishes the task before the event that announces it: a fast
  `subtitle.missing`, called terminal in `src/consumer/worker.py:282`, is
  overwritten with `download_queued`.
- A worker whose channel was dropped goes on, and may write an in-progress status
  after the outcome of the task's second run was recorded. The event it publishes
  next corrects the status; if it dies before, nothing does, for its message is
  another's by now, and a job that has ended is shown as in progress for good.
  The proof of `StatusMatchesHistory` led to this: `Heard` excludes it.
- SET and EXPIRE are two calls, so the expiry of a failed job can land on a
  record that another process has just made active;
  `src/common/redis_client.py:224` and `src/manager/README.md:493` say that
  active jobs do not expire. A successful job ends as `done`, which has no TTL;
  `src/manager/README.md:491` says completed jobs expire after 7 days.
- A Redis outage loses the status and the history of an event for good, for
  the consumer acks it all the same; `README.md:41` promises "Zero message loss
  during reconnection". `translation.completed` is not bound to the consumer's
  queue, so it is in no history; `README.md:150` calls the history complete.
- `save_job`, `update_phase` and `record_event` say "Returns: True if successful,
  False otherwise", but call `ensure_connected` before their `try`
  (`src/common/redis_client.py:237`, `:456`, `:511`), and `connect` catches only
  `RedisError` (`:63`): when the ping of a reconnect hangs, the `TimeoutError` of
  `wait_for` (`:51`) leaves them. The consumer logs it, skips `record_event` and
  acks, so that an outcome may be in no history and a job at no end. A scanner's
  detection ends with its URL registered and never requested
  (`src/scanner/event_handler.py:235`, `webhook_handler.py:159`,
  `websocket_client.py:389`), and others are turned away for its sake until the key
  expires. The manager answers HTTP 500 and publishes no `job.failed`. Workers
  publish `job.failed`, the translator also after the translation was saved, and
  leaves the checkpoint behind. TLC shows `NoJobLost`, `StatusMatchesHistory` and
  `RegisteredIsTakenUp` violated by one such failure, and `Careful`, `Heard` and
  `KeepsRequests` exclude it.
- A failed handover publishes `job.failed` twice and acks; the comment says the
  exception triggers a nack.
- `list_jobs` scans `job:*`, which matches the lists `job:events:*` as well, and
  fails with WRONGTYPE once any event is recorded. `delete_job` and
  `update_job_status` have no caller.
- An any-language fallback search may find the requested language after all; the
  translator is then given a file whose translation has the same name.
  `OpenSubtitlesRateLimitError` is handled and never raised, and the session is
  not renewed while the downloader consumes.
- *Duplicates.* The key is a hash of `video_url` and language
  (`src/common/duplicate_prevention.py:71-87`). The scanner's webhook prefers
  `payload.video_url` to the path (`src/scanner/webhook_handler.py:61`;
  `src/manager/schemas.py:185-192` shows both, and they differ), while the library
  scan and the WebSocket give the path: one file found by both gets two keys, two
  jobs and two downloads, with no failure at all. `src/scanner/README.md:298-307`
  calls files that are processed several times expected "in edge cases", and that
  "Redis stores jobs by ID to prevent actual duplication": ids are new for each
  detection and prevent nothing. `OneJobPerUrl` says nothing of such a file.
- When the script's reply is lost, the fallback finds the job's own
  id, and the scanner skips the file as a duplicate of itself
  (`src/common/duplicate_prevention.py:209` says requests pass on errors).
- `POST /subtitles/download` and `POST /webhooks/jellyfin` ask nobody about
  duplicates. The webhook turns paths into `file://` URLs, which
  `PathUtils.generate_subtitle_path_from_video` takes for no local file, so that
  its jobs fail where the scanner's succeed.
- A WebSocket job that the manager takes for a duplicate stays `pending`.
- watchdog calls `on_created` on its own thread, where `asyncio.create_task`
  finds no running loop.
- *Translation.* A checkpoint is written only after all chunks have succeeded;
  `README.md:348-349` promises one after each batch and "without losing
  progress"; a task that fails or times out starts from the first chunk.
- A subtitle text with square brackets, such as `[Music]`, is cut at the bracket
  when the answer is parsed (`src/translator/translation_service.py:317`).
- *Connections and loops.* When the periodic check finds no Redis, the log says
  that processing stops; the loop reconnects and goes on without Redis. A
  handler may still be started after the signal, since the check of the
  connections comes between. The consumer never resets its reconnect delay.
- The health check loop reconnects without the lock; `README.md:103` claims
  "Concurrent reconnection prevention with asyncio locks". Clients that are
  replaced that way, and those of repeated attempts, are not closed. A check
  that succeeds does not set `connected` again.
- If RabbitMQ is down when the manager starts, its event consumer is never
  started, though the log says it will be; nor does the manager start Redis'
  health check loop, though it says that background checks continue. The
  consumer's growing delay never grows, for every `connect` resets the failures
  (`README.md:102`).
- A robust connection counts as open while the broker is away, and
  `GET /health` reports it so. Attempts to connect overwrite `self.connection`
  without closing it.
- A login answered with "503" is taken for a permanent failure; only the same
  answer to a search is retried.
- The scanner registers its asynchronous cleanups as lambdas, which are called
  and never awaited.

## 6. What is not modelled

- HTTP GET endpoints and the other health checks: they only read. `delete_job`
  and `update_job_status`, which nobody calls, and clients that read while a key
  expires.
- The OpenSubtitles, OpenAI and Jellyfin protocols, file formats, logging: I/O
  and formatting. Their outcomes are choices in `Search`, `Translate` and
  `AnswerChunk`.
- The publisher's and the orchestrator's `connect` and `ensure_connected`: the
  protocol of `RedisConnection` without a health check loop. What their failures
  do is in `publish` and `enqueue`.
- `ShutdownManager`'s cleanup callbacks and states, which only the scanner uses
  and never awaits; the WebSocket client's `disconnect` for the same reason; the
  scanner's servers and observer, whose start and stop is the libraries'.
- Which URLs a file has, and what two jobs of one file do to each other: they
  share nothing in the services but the name of the subtitle file.
- Waiting until a file has stopped growing, the file watcher's cancellation of
  pending tasks, and a damaged value in a deduplication key.
- A file on the disk is never deleted, and a job's record does not expire: both
  happen days after the behaviours modelled here.

Libraries are modelled from how the code uses them, by these assumptions:
creating a Redis client does not suspend; aio_pika restores a consumer after an
outage, or its iterator raises; a message sent on a channel that was closed
meanwhile is neither acked nor rejected; cancelling a coroutine raises at its
await.

## 7. Plan

Done: `SubtitlePipeline` with `SubtitleService`, `Ingest`, `TranslationBatch`
with `TranslationText`, `WorkerLoop` with `RetryBackoff`, `RedisConnection` and
`ManagerLifecycle`, each with its theorems, `WorkQueue` as the specification of
both loops, and `JellyfinWebSocket`. Left, in this order:

1. Theorems: how far the hypotheses of `RegisteredGetsDone` can be weakened (a
   request whose scanner died is excluded as a whole), and a lemma for each end of
   a translation.
2. That the end of a `TranslationBatch` is one of the outcomes of
   `SubtitlePipeline`'s `Translate`, as a refinement.
3. `Search` in detail: the order of searches, the fallback language and the
   handover, as a module that refines the one step.
4. The publisher's and the orchestrator's connections.
