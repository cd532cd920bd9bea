--------------------------- MODULE TranslationBatch ---------------------------
(***************************************************************************)
(* One job inside the translator: the chunks translated in parallel, the   *)
(* checkpoint that lets a task be resumed, and the translated file.        *)
(*                                                                         *)
(* Several worker processes take the job's tasks from subtitle.translation *)
(* and share two files: the checkpoint, named after the job and the target *)
(* language, and the translated file, named after the source file and the  *)
(* target language. A task is delivered again when its worker dies or its  *)
(* channel is closed, so two workers may run one job at the same time; and *)
(* a download task delivered again fetches another subtitle and enqueues a *)
(* second translation task. A file is written by opening it, which empties *)
(* it, and then writing it: both are steps here.                           *)
(***************************************************************************)
EXTENDS TranslationText

CONSTANTS
    Workers,    \* translator processes
    Paths,      \* source files the downloader may save for the job
    FirstPath,  \* the one it saved first
    Tokens,     \* for each source file, the tokens of each of its segments
    Limits,     \* the chunk limits a process may be configured with
    Parallel,   \* requests a worker has at the language model at once
    None,       \* no file, no task, no checkpoint
    Torn,       \* a file that was emptied and not written, or mixed up
    Faults,     \* the kinds of failure an instance admits
    MaxFaults   \* how many failures a behaviour meets at most

FaultKinds ==
    {"crash",     \* a worker dies
     "conn",      \* the channel of an unacked task is closed
     "timeout",   \* a task outlives shutdown_timeout and is rejected
     "model",     \* the language model fails a chunk, retries included
     "skip",      \* an answer lacks one segment
     "source",    \* the source file cannot be read
     "disk",      \* a file cannot be opened, written or removed
     "hang",      \* a reconnect to Redis hangs, and update_phase raises
     "download"}  \* a download task delivered again saves a subtitle again

Cut(p, l) == Split(Tokens[p], l)
Size(p) == Len(Tokens[p])

ASSUME TranslationAssumption ==
    /\ FirstPath \in Paths
    /\ Tokens \in [Paths -> Seq(Nat) \ {<<>>}]
    /\ Limits \subseteq [tokens : Nat, segments : Nat \ {0}]
    /\ Limits # {}
    /\ Parallel \in Nat \ {0}
    /\ None \notin Paths
    /\ Torn # None
    /\ Faults \subseteq FaultKinds
    /\ MaxFaults \in Nat

Sources == [path : Paths, version : Nat]

Segments ==
    [index : Nat, cue : Nat, source : Sources,
     text : [of : Nat, translated : BOOLEAN]]

Checkpoints ==
    [path : Paths, total : Nat, completed : Nat, segments : Seq(Segments)]

VARIABLES
    queue,       \* RabbitMQ subtitle.translation: the job's tasks, by source
    version,     \* disk: which subtitle each source path holds, 0 for none
    checkpoint,  \* disk: the checkpoint file
    output,      \* disk: the translated file
    pc,          \* where each worker is
    task,        \* the source path of the task it works on
    delivered,   \* the workers whose task RabbitMQ still waits to be acked
    limit,       \* the chunk limits its process was started with
    loaded,      \* the checkpoint it resumes from
    chunks,      \* its chunks: resumed, waiting, running, failed or done
    kept,        \* all_translated_segments
    overtaken,   \* workers whose open file another worker has changed
    outcome,     \* what became of the job's tasks
    budget       \* failures the behaviour may still meet

vars == <<queue, version, checkpoint, output, pc, task, delivered, limit, loaded,
          chunks, kept, overtaken, outcome, budget>>

Fault(kind) == kind \in Faults /\ budget > 0 /\ budget' = budget - 1
Reliably == UNCHANGED budget

\* The outcomes: a COMPLETED record with its download link, a JOB_FAILED event,
\* a task rejected after a timeout, a file two workers wrote at the same time, a
\* worker that died or timed out after its task had been given to another one.
Outcomes == {"completed", "failed", "dropped", "mixed", "abandoned"}

Mishaps == Outcomes \ {"completed"}

Disk == <<version, checkpoint, output>>
Progress == <<loaded, chunks, kept>>
Broker == <<queue, delivered>>

Init ==
    /\ queue = [p \in Paths |-> IF p = FirstPath THEN 1 ELSE 0]
    /\ version = [p \in Paths |-> IF p = FirstPath THEN 1 ELSE 0]
    /\ checkpoint = None
    /\ output = None
    /\ pc = [w \in Workers |-> "idle"]
    /\ task = [w \in Workers |-> None]
    /\ delivered = {}
    /\ \E l \in Limits : limit = [w \in Workers |-> l]
    /\ loaded = [w \in Workers |-> None]
    /\ chunks = [w \in Workers |-> <<>>]
    /\ kept = [w \in Workers |-> <<>>]
    /\ overtaken = {}
    /\ outcome = {}
    /\ budget = MaxFaults

Go(w, from, to) == pc[w] = from /\ pc' = [pc EXCEPT ![w] = to]

---------------------------------------------------------------------------
(* Taking a task and finding out where to start *)

Take(w) ==
    /\ Go(w, "idle", "load")
    /\ \E p \in Paths :
        /\ queue[p] > 0
        /\ queue' = [queue EXCEPT ![p] = @ - 1]
        /\ task' = [task EXCEPT ![w] = p]
    /\ delivered' = delivered \cup {w}
    /\ Reliably
    /\ UNCHANGED <<Disk, limit, Progress, overtaken, outcome>>

\* A checkpoint that is not there, or cannot be parsed, is as good as none.
Readable(file) == file \notin {None, Torn}

\* Mutant: the metadata of the checkpoint is not compared.
UsableForAnySource(file, p) == Readable(file)

\* A checkpoint of another source file is ignored.
Usable(file, p) == Readable(file) /\ file.path = p

Load(w) ==
    /\ Go(w, "load", "read")
    /\ loaded' = [loaded EXCEPT ![w] =
                    IF Usable(checkpoint, task[w]) THEN checkpoint ELSE None]
    /\ Reliably
    /\ UNCHANGED <<Broker, Disk, task, limit, chunks, kept, overtaken, outcome>>

CutOf(w) == Cut(task[w], limit[w])

\* Mutant: the number of chunks is not compared.
ResumesWhateverTheTotal(w) == loaded[w] # None

\* A checkpoint is used if it counts as many chunks as there are now; the first
\* of them are then taken as done, as many as it says are completed.
Resumes(w) == loaded[w] # None /\ loaded[w].total = Len(CutOf(w))

Done(w) == IF Resumes(w) THEN loaded[w].completed ELSE 0

Read(w) ==
    LET source == [path |-> task[w], version |-> version[task[w]]]
    IN  /\ Go(w, "read", "translate")
        /\ kept' = [kept EXCEPT ![w] = IF Resumes(w) THEN loaded[w].segments ELSE <<>>]
        /\ chunks' = [chunks EXCEPT ![w] =
                        [c \in 1..Len(CutOf(w)) |->
                            [first |-> FirstOf(CutOf(w), c),
                             status |-> IF c <= Done(w) THEN "resumed" ELSE "waiting",
                             segments |-> Chunk(source, CutOf(w), c)]]]
        /\ Reliably
        /\ UNCHANGED <<Broker, Disk, task, limit, loaded, overtaken, outcome>>

ReadFails(w) ==
    /\ Go(w, "read", "fail")
    /\ Fault("source")
    /\ UNCHANGED <<Broker, Disk, task, limit, Progress, overtaken, outcome>>

---------------------------------------------------------------------------
(* Translating the chunks *)

ChunksIn(w, status) == {c \in DOMAIN chunks[w] : chunks[w][c].status = status}

\* Mutant: a chunk that is done keeps its slot.
SlotNotReleased(w, c) ==
    /\ pc[w] = "translate"
    /\ c \in ChunksIn(w, "waiting")
    /\ \A d \in ChunksIn(w, "waiting") : c <= d
    /\ Cardinality(ChunksIn(w, "running") \cup ChunksIn(w, "done")) < Parallel
    /\ chunks' = [chunks EXCEPT ![w][c].status = "running"]
    /\ Reliably
    /\ UNCHANGED <<Broker, Disk, pc, task, limit, loaded, kept, overtaken, outcome>>

\* The semaphore lets the chunks in one after the other.
StartChunk(w, c) ==
    /\ pc[w] = "translate"
    /\ c \in ChunksIn(w, "waiting")
    /\ \A d \in ChunksIn(w, "waiting") : c <= d
    /\ Cardinality(ChunksIn(w, "running")) < Parallel
    /\ chunks' = [chunks EXCEPT ![w][c].status = "running"]
    /\ Reliably
    /\ UNCHANGED <<Broker, Disk, pc, task, limit, loaded, kept, overtaken, outcome>>

Answered(w, c, skipped) ==
    LET chunk == chunks[w][c].segments
    IN  chunks' = [chunks EXCEPT
            ![w][c].status = "done",
            ![w][c].segments = MergeTranslations(chunk, Answer(chunk, skipped))]

AnswerChunk(w, c) ==
    /\ pc[w] = "translate"
    /\ c \in ChunksIn(w, "running")
    /\ \/ Reliably /\ Answered(w, c, 0)
       \/ /\ Fault("skip")
          /\ \E skipped \in 1..Len(chunks[w][c].segments) : Answered(w, c, skipped)
       \/ Fault("model") /\ chunks' = [chunks EXCEPT ![w][c].status = "failed"]
    /\ UNCHANGED <<Broker, Disk, pc, task, limit, loaded, kept, overtaken, outcome>>

\* The translated segment i of the file, in the chunk that holds it.
Holds(w, c, i) == i - chunks[w][c].first \in 0..(Len(chunks[w][c].segments) - 1)

SegmentAt(w, i) ==
    LET c == CHOOSE c \in DOMAIN chunks[w] : Holds(w, c, i)
    IN  chunks[w][c].segments[i - chunks[w][c].first + 1]

\* The segments of the chunks that were not resumed, one chunk after the other.
Joined(w) ==
    LET from == Cardinality(ChunksIn(w, "resumed")) + 1
    IN  IF from > Len(chunks[w]) THEN <<>>
        ELSE [k \in 1..(Size(task[w]) - chunks[w][from].first + 1) |->
                SegmentAt(w, chunks[w][from].first + k - 1)]

\* gather waits for every chunk. One that failed fails the task, and what the
\* others have translated is given up.
Gather(w) ==
    /\ pc[w] = "translate"
    /\ ChunksIn(w, "waiting") \cup ChunksIn(w, "running") = {}
    /\ IF ChunksIn(w, "failed") # {}
       THEN Go(w, "translate", "fail") /\ UNCHANGED kept
       ELSE /\ Go(w, "translate", "checkpoint")
            /\ kept' = [kept EXCEPT ![w] = @ \o Joined(w)]
    /\ Reliably
    /\ UNCHANGED <<Broker, Disk, task, limit, loaded, chunks, overtaken, outcome>>

---------------------------------------------------------------------------
(* Writing files *)

WritersOf(step) == {w \in Workers : pc[w] = step}

\* Who has the file open, other than w, finds it changed.
Overtake(w, step) == overtaken' = (overtaken \cup WritersOf(step)) \ {w}

\* What the file holds once w has written content to it: the content, unless
\* another worker wrote or removed the file after w had opened it.
Written(w, file, content, result) ==
    result \in IF w \in overtaken THEN {content, Torn, file} ELSE {content}

OpenCheckpoint(w) ==
    /\ \/ Go(w, "checkpoint", "writeCheckpoint") /\ checkpoint' = Torn /\ Reliably
       \/ Go(w, "checkpoint", "save") /\ UNCHANGED checkpoint /\ Fault("disk")
    /\ UNCHANGED <<Broker, version, output, task, limit, Progress, overtaken, outcome>>

\* An error is logged and the task goes on.
WriteCheckpoint(w) ==
    LET saved == [path |-> task[w], total |-> Len(chunks[w]),
                  completed |-> Len(chunks[w]), segments |-> kept[w]]
    IN  /\ Go(w, "writeCheckpoint", "save")
        /\ \/ Reliably /\ Written(w, checkpoint, saved, checkpoint')
           \/ Fault("disk") /\ UNCHANGED checkpoint
        /\ Overtake(w, "writeCheckpoint")
        /\ UNCHANGED <<Broker, version, output, task, limit, Progress, outcome>>

OpenOutput(w) ==
    /\ \/ Go(w, "save", "writeOutput") /\ output' = Torn /\ Reliably
       \/ Go(w, "save", "fail") /\ UNCHANGED output /\ Fault("disk")
    /\ UNCHANGED <<Broker, version, checkpoint, task, limit, Progress, overtaken, outcome>>

\* Mutant: a file that could not be written is announced all the same.
SaveErrorIgnored(w) ==
    /\ Go(w, "writeOutput", "complete")
    /\ \/ /\ Reliably
          /\ Written(w, output, MergeTranslatedChunks(kept[w]), output')
          /\ outcome' = outcome \cup IF w \in overtaken THEN {"mixed"} ELSE {}
       \/ Fault("disk") /\ UNCHANGED <<output, outcome>>
    /\ Overtake(w, "writeOutput")
    /\ UNCHANGED <<Broker, version, checkpoint, task, limit, Progress>>

WriteOutput(w) ==
    /\ \/ /\ Go(w, "writeOutput", "complete")
          /\ Reliably
          /\ Written(w, output, MergeTranslatedChunks(kept[w]), output')
          /\ outcome' = outcome \cup IF w \in overtaken THEN {"mixed"} ELSE {}
       \/ Go(w, "writeOutput", "fail") /\ Fault("disk") /\ UNCHANGED <<output, outcome>>
    /\ Overtake(w, "writeOutput")
    /\ UNCHANGED <<Broker, version, checkpoint, task, limit, Progress>>

---------------------------------------------------------------------------
(* Finishing *)

\* finalize_translation: the record first, then the checkpoint is removed.
Complete(w) ==
    /\ Go(w, "complete", "cleanup")
    /\ outcome' = outcome \cup {"completed"}
    /\ Reliably
    /\ UNCHANGED <<Broker, Disk, task, limit, Progress, overtaken>>

Cleanup(w) ==
    /\ Go(w, "cleanup", "ack")
    /\ \/ Reliably /\ checkpoint' = None /\ Overtake(w, "writeCheckpoint")
       \/ Fault("disk") /\ UNCHANGED <<checkpoint, overtaken>>
    /\ UNCHANGED <<Broker, version, output, task, limit, Progress, outcome>>

\* The status before the checkpoint is loaded, or after the file is saved, is not
\* written, and the TimeoutError goes where any other error of the task goes.
UpdateRaises(w) ==
    /\ Go(w, "load", "fail") \/ Go(w, "complete", "fail")
    /\ Fault("hang")
    /\ UNCHANGED <<Broker, Disk, task, limit, Progress, overtaken, outcome>>

\* handle_translation_error: JOB_FAILED, and the task is acked like any other.
Fail(w) ==
    /\ Go(w, "fail", "ack")
    /\ outcome' = outcome \cup {"failed"}
    /\ Reliably
    /\ UNCHANGED <<Broker, Disk, task, limit, Progress, overtaken>>

\* Mutant: the worker takes a task for unacked that it has finished.
ForgetKeepsDelivery(w) ==
    /\ pc' = [pc EXCEPT ![w] = "idle"]
    /\ task' = [task EXCEPT ![w] = None]
    /\ loaded' = [loaded EXCEPT ![w] = None]
    /\ chunks' = [chunks EXCEPT ![w] = <<>>]
    /\ kept' = [kept EXCEPT ![w] = <<>>]
    /\ overtaken' = overtaken \ {w}
    /\ UNCHANGED delivered

\* What the worker held in memory for the task is gone.
Forget(w) ==
    /\ pc' = [pc EXCEPT ![w] = "idle"]
    /\ task' = [task EXCEPT ![w] = None]
    /\ loaded' = [loaded EXCEPT ![w] = None]
    /\ chunks' = [chunks EXCEPT ![w] = <<>>]
    /\ kept' = [kept EXCEPT ![w] = <<>>]
    /\ overtaken' = overtaken \ {w}
    /\ delivered' = delivered \ {w}

Ack(w) ==
    /\ pc[w] = "ack"
    /\ Forget(w)
    /\ Reliably
    /\ UNCHANGED <<queue, Disk, limit, outcome>>

---------------------------------------------------------------------------
(* Failures *)

\* RabbitMQ delivers an unacked task again.
Requeue(w) ==
    queue' = IF w \in delivered THEN [queue EXCEPT ![task[w]] = @ + 1] ELSE queue

\* A dead worker is started again, possibly with other limits.
Crash(w) ==
    /\ Fault("crash")
    /\ Requeue(w)
    /\ Forget(w)
    /\ \E l \in Limits : limit' = [limit EXCEPT ![w] = l]
    /\ outcome' = outcome \cup
                    IF pc[w] # "idle" /\ w \notin delivered THEN {"abandoned"} ELSE {}
    /\ UNCHANGED Disk

LoseConnection(w) ==
    /\ Fault("conn")
    /\ w \in delivered
    /\ Requeue(w)
    /\ delivered' = delivered \ {w}
    /\ UNCHANGED <<Disk, pc, task, limit, Progress, overtaken, outcome>>

\* wait_for gives up on the task where it awaits something, never while it
\* writes a file, and the task is rejected without being queued again.
Timeout(w) ==
    /\ Fault("timeout")
    /\ pc[w] \in {"load", "translate", "complete", "ack", "fail"}
    /\ Forget(w)
    /\ outcome' = outcome \cup {IF w \in delivered THEN "dropped" ELSE "abandoned"}
    /\ UNCHANGED <<queue, Disk, limit>>

\* The downloader works on the job's download task again: it saves a subtitle,
\* in the same or another language, and enqueues another translation task.
DownloadAgain(p) ==
    /\ Fault("download")
    /\ version' = [version EXCEPT ![p] = @ + 1]
    /\ queue' = [queue EXCEPT ![p] = @ + 1]
    /\ UNCHANGED <<checkpoint, output, pc, task, delivered, limit, Progress,
                   overtaken, outcome>>

---------------------------------------------------------------------------

Translating(w) ==
    \E c \in DOMAIN chunks[w] : StartChunk(w, c) \/ AnswerChunk(w, c)

WorkerStep(w) ==
    \/ Take(w)
    \/ Load(w)
    \/ Read(w)
    \/ ReadFails(w)
    \/ Translating(w)
    \/ Gather(w)
    \/ OpenCheckpoint(w)
    \/ WriteCheckpoint(w)
    \/ OpenOutput(w)
    \/ WriteOutput(w)
    \/ Complete(w)
    \/ UpdateRaises(w)
    \/ Cleanup(w)
    \/ Fail(w)
    \/ Ack(w)

Environment ==
    \/ \E w \in Workers : Crash(w) \/ LoseConnection(w) \/ Timeout(w)
    \/ \E p \in Paths : DownloadAgain(p)

Next ==
    \/ \E w \in Workers : WorkerStep(w)
    \/ Environment

Spec == Init /\ [][Next]_vars

\* A worker's loop goes on as long as its process lives; the language model
\* answers or its client's timeout fails the chunk. Nothing makes a failure happen.
FairSpec == Spec /\ \A w \in Workers : WF_vars(WorkerStep(w))

---------------------------------------------------------------------------
(* Properties *)

Steps == {"idle", "load", "read", "translate", "checkpoint", "writeCheckpoint",
          "save", "writeOutput", "complete", "cleanup", "fail", "ack"}

ChunkStates ==
    [first : Nat, status : {"resumed", "waiting", "running", "failed", "done"},
     segments : Seq(Segments)]

\* Every variable has its type; a worker has a task exactly while it is busy.
TypeOK ==
    /\ queue \in [Paths -> Nat]
    /\ version \in [Paths -> Nat]
    /\ checkpoint \in {None, Torn} \cup Checkpoints
    /\ output \in {None, Torn} \cup Seq(Segments)
    /\ pc \in [Workers -> Steps]
    /\ task \in [Workers -> Paths \cup {None}]
    /\ \A w \in Workers : pc[w] = "idle" <=> task[w] = None
    /\ delivered \subseteq {w \in Workers : pc[w] # "idle"}
    /\ limit \in [Workers -> Limits]
    /\ loaded \in [Workers -> {None} \cup Checkpoints]
    /\ chunks \in [Workers -> Seq(ChunkStates)]
    /\ kept \in [Workers -> Seq(Segments)]
    /\ overtaken \subseteq Workers
    /\ outcome \subseteq Outcomes
    /\ budget \in 0..MaxFaults

\* The segments are all those of one subtitle, each once and in its place: of one
\* of the first n subtitles saved under path p.
WholeUpTo(segments, p, n) ==
    /\ Len(segments) = Size(p)
    /\ \E v \in 1..n :
        \A i \in 1..Size(p) :
            /\ segments[i].index = i
            /\ segments[i].cue = i
            /\ segments[i].source = [path |-> p, version |-> v]

WholeFile(segments, p) == WholeUpTo(segments, p, version[p])

WholeCheckpoint(file) ==
    /\ file.total > 0
    /\ file.completed = file.total
    /\ WholeFile(file.segments, file.path)

\* A translated file whose writing has ended holds one whole subtitle, and a
\* checkpoint all the chunks of one: whatever was resumed, with other limits,
\* after whichever failure, nothing is left out, doubled or taken from two
\* subtitles (translate_segments_with_checkpoint counts on chunks being the same
\* as when the checkpoint was written, which only their number is compared for).
FilesAreWhole ==
    /\ output \notin {None, Torn} => \E p \in Paths : WholeFile(output, p)
    /\ checkpoint \notin {None, Torn} => WholeCheckpoint(checkpoint)

\* What a worker has taken over from a checkpoint comes from the source file of
\* its own task (validate_checkpoint_metadata), although the tasks of a job share
\* the checkpoint.
ResumesOwnSource ==
    \A w \in Workers :
        \A k \in DOMAIN kept[w] : kept[w][k].source.path = task[w]

Quiet ==
    /\ \A p \in Paths : queue[p] = 0
    /\ \A w \in Workers : pc[w] = "idle"

\* The file behind a job that is COMPLETED is there and readable once no task of
\* the job is left, unless a task of the job failed or timed out, two workers
\* wrote the file at the same time, or one died or timed out that worked on a task
\* already given to another: a worker that dies while it writes leaves an emptied
\* file, but a task that it had not lost comes back.
CompletedHasFile ==
    Quiet /\ "completed" \in outcome /\ outcome \cap Mishaps = {}
        => output \notin {None, Torn}

\* In an answer that lacks one segment, only that segment keeps its original
\* text, and no segment gets the text of another (merge_translations).
OnlyMissingIsOriginal ==
    \A w \in Workers :
        \A c \in ChunksIn(w, "done") :
            LET segments == chunks[w][c].segments
            IN  /\ \A k \in DOMAIN segments : segments[k].text.of = segments[k].cue
                /\ \A j, k \in DOMAIN segments :
                    segments[j].text.translated \/ segments[k].text.translated \/ j = k

\* The workers finish: in the end every task has been worked off, and one of them
\* was completed, failed or was rejected.
ComesToRest ==
    <>[](Quiet /\ outcome \cap {"completed", "failed", "dropped"} # {})

================================================================================
