----------------------- MODULE SubtitlePipelineProofs -----------------------
(***************************************************************************)
(* Theorems about SubtitlePipeline: for any number of jobs and workers,    *)
(* any budget of failures and either setting of AutoTranslate, its state   *)
(* has its types, every finished status has its evidence, no job is        *)
(* forgotten, and the services implement SubtitleService.                  *)
(***************************************************************************)
EXTENDS SubtitlePipeline, SequenceTheorems, TLAPS

-----------------------------------------------------------------------------
(* Sequences *)

\* What publishing an event does to the queue.
LEMMA AppendFacts ==
    ASSUME NEW S, NEW s \in Seq(S), NEW e \in S
    PROVE  /\ Append(s, e) \in Seq(S)
           /\ Append(s, e) # <<>>
           /\ Len(Append(s, e)) = Len(s) + 1
           /\ \A i \in 1 .. Len(s) : Append(s, e)[i] = s[i]
           /\ Append(s, e)[Len(s) + 1] = e
           /\ s # <<>> => Head(Append(s, e)) = Head(s)
BY AppendProperties, HeadTailProperties, LenProperties, EmptySeq

\* What acking a message, or publishing the first of several events, leaves.
LEMMA TailFacts ==
    ASSUME NEW S, NEW s \in Seq(S), s # <<>>
    PROVE  /\ Head(s) \in S
           /\ Head(s) = s[1]
           /\ Len(s) \in Nat \ {0}
           /\ Tail(s) \in Seq(S)
           /\ Len(Tail(s)) = Len(s) - 1
           /\ \A i \in 1 .. Len(s) - 1 : Tail(s)[i] = s[i + 1]
BY HeadTailProperties, EmptySeq, LenProperties

\* Lists of one and of two events.
LEMMA ShortSeqs ==
    ASSUME NEW S, NEW a \in S, NEW b \in S
    PROVE  /\ <<a>> \in Seq(S) /\ <<a>> # <<>> /\ Len(<<a>>) = 1
           /\ <<a, b>> \in Seq(S) /\ <<a, b>> # <<>> /\ Len(<<a, b>>) = 2
OBVIOUS

-----------------------------------------------------------------------------
(* Type correctness *)

\* Which process can be where, and what it has at hand there.
PlaceOK(p) ==
    /\ pc[p] # "idle" => cur[p] \in Jobs /\ goal[p] \in Statuses
    /\ held[p] => pc[p] # "idle"
    /\ pc[p] \in {"search", "enqueue"} => p \in Downloaders
    /\ pc[p] = "translate" => p \in Translators
    /\ pc[p] = "record" => p = Consumer
    /\ pc[p] = "publish" => p \in Workers /\ out[p] # <<>>
    /\ p \in Translators /\ goal[p] = "completed" /\ pc[p] \in {"get", "set", "expire"}
          => out[p] # <<>>

\* The consumer works on the message at the head of its queue.
ConsumerAtHead ==
    pc[Consumer] # "idle" =>
        /\ events # <<>>
        /\ cur[Consumer] = Head(events).job
        /\ goal[Consumer] = StatusOf(Head(events).type)

TypeInv ==
    /\ TypeOK
    /\ \A p \in Procs : PlaceOK(p)
    /\ ConsumerAtHead

USE PipelineAssumption

\* What the event queue holds.
LEMMA EventFacts ==
    ASSUME TypeOK
    PROVE  /\ events \in Seq([type : EventTypes, job : Jobs])
           /\ Len(events) \in Nat
           /\ \A i \in 1 .. Len(events) :
                  events[i].type \in EventTypes /\ events[i].job \in Jobs
<1> DEFINE E == [type : EventTypes, job : Jobs]
<1>1. events \in Seq(E)
  BY DEF TypeOK
<1>2. \A e \in E : e.type \in EventTypes /\ e.job \in Jobs
  OBVIOUS
<1> HIDE DEF E
<1>3. Len(events) \in Nat /\ \A i \in 1 .. Len(events) : events[i] \in E
  BY <1>1
<1> QED
  BY <1>1, <1>2, <1>3 DEF E

LEMMA InitTypeInv == Init => TypeInv
BY EmptySeq DEF Init, TypeInv, TypeOK, PlaceOK, ConsumerAtHead, Record, Absent,
                Nothing, Kept, Procs, Workers, Statuses

\* One failure more leaves the budget in its range.
LEMMA BudgetType ==
    ASSUME TypeOK, Reliably \/ \E kind \in FaultKinds : Fault(kind)
    PROVE  budget' \in 0 .. MaxFaults
BY DEF TypeOK, Reliably, Fault

\* Publishing keeps the queue a queue, and its head.
LEMMA PublishType ==
    ASSUME TypeOK, NEW j \in Jobs, NEW t \in EventTypes, PublishEvent(t, j)
    PROVE  /\ events' \in Seq([type : EventTypes, job : Jobs])
           /\ budget' \in 0 .. MaxFaults
           /\ events # <<>> => events' # <<>> /\ Head(events') = Head(events)
<1> DEFINE E == [type : EventTypes, job : Jobs]
<1>1. Event(t, j) \in E /\ events \in Seq(E)
  BY DEF Event, TypeOK
<1> HIDE DEF E
<1>2. /\ Append(events, Event(t, j)) \in Seq(E)
      /\ Append(events, Event(t, j)) # <<>>
      /\ events # <<>> => Head(Append(events, Event(t, j))) = Head(events)
  BY <1>1, AppendFacts
<1>3. /\ Append(Append(events, Event(t, j)), Event(t, j)) \in Seq(E)
      /\ Append(Append(events, Event(t, j)), Event(t, j)) # <<>>
      /\ Head(Append(Append(events, Event(t, j)), Event(t, j)))
           = Head(Append(events, Event(t, j)))
  BY <1>1, <1>2, AppendFacts
<1>4. budget' \in 0 .. MaxFaults
  BY BudgetType DEF PublishEvent, FaultKinds
<1>5. /\ events' \in Seq(E)
      /\ events # <<>> => events' # <<>> /\ Head(events') = Head(events)
  BY <1>1, <1>2, <1>3 DEF PublishEvent, Routed
<1> QED
  BY <1>4, <1>5 DEF E

LEMMA PutType ==
    ASSUME TypeOK, NEW j \in Jobs, PutDownload(j) \/ PutTranslation(j)
    PROVE  downloadQ' \in [Jobs -> Nat] /\ translationQ' \in [Jobs -> Nat]
<1>1. downloadQ \in [Jobs -> Nat] /\ translationQ \in [Jobs -> Nat]
  BY DEF TypeOK
<1> QED
  BY <1>1 DEF PutDownload, PutTranslation

LEMMA ManagerTypeInv ==
    ASSUME TypeInv, NEW j \in Jobs,
           SaveJob(j) \/ SaveRaises(j) \/ ManagerStep(j) \/ CrashManager(j)
    PROVE  TypeInv'
<1> USE DEF TypeInv, PlaceOK, ConsumerAtHead, procVars, taskQueues
<1>1. CASE SaveJob(j)
  <2>1. budget' \in 0 .. MaxFaults
    BY <1>1, BudgetType DEF SaveJob, FaultKinds
  <2>2. Pending \in Record
    BY DEF Pending, Record, Statuses
  <2>3. job' \in [Jobs -> Record]
    BY <1>1, <2>2 DEF SaveJob, TypeOK
  <2>4. api' \in [Jobs -> {"new", "saved", "enqueued", "failing",
                           "accepted", "rejected", "aborted"}]
    BY <1>1 DEF SaveJob, TypeOK
  <2>5. UNCHANGED <<history, disk, downloadQ, translationQ, events,
                    pc, cur, goal, snap, out, held>>
    BY <1>1 DEF SaveJob
  <2> QED
    BY <2>1, <2>3, <2>4, <2>5 DEF TypeOK
<1>2. CASE EnqueueTask(j)
  <2>1. budget' \in 0 .. MaxFaults
    BY <1>2, BudgetType DEF EnqueueTask, FaultKinds
  <2>2. downloadQ' \in [Jobs -> Nat] /\ translationQ' \in [Jobs -> Nat]
    BY <1>2, PutType DEF EnqueueTask, PutTask, TypeOK
  <2>3. api' \in [Jobs -> {"new", "saved", "enqueued", "failing",
                           "accepted", "rejected", "aborted"}]
    <3>1. PICK x \in {"enqueued", "accepted", "failing"} : api' = [api EXCEPT ![j] = x]
      BY <1>2 DEF EnqueueTask
    <3> QED
      BY <3>1 DEF TypeOK
  <2>4. UNCHANGED <<job, history, disk, events, pc, cur, goal, snap, out, held>>
    BY <1>2 DEF EnqueueTask
  <2> QED
    BY <2>1, <2>2, <2>3, <2>4 DEF TypeOK
<1>3. CASE PublishDownloadRequested(j)
  BY <1>3, PublishType DEF PublishDownloadRequested, TypeOK, EventTypes
<1>4. CASE PublishFailure(j)
  BY <1>4, PublishType DEF PublishFailure, TypeOK, EventTypes
<1>5. CASE CrashManager(j)
  BY <1>5, BudgetType DEF CrashManager, TypeOK, FaultKinds
<1>6. CASE SaveRaises(j)
  BY <1>6, BudgetType DEF SaveRaises, TypeOK, FaultKinds
<1> QED
  BY <1>1, <1>2, <1>3, <1>4, <1>5, <1>6 DEF ManagerStep

LEMMA TakeDownloadTypeInv ==
    ASSUME TypeInv, NEW p \in Downloaders, NEW j \in Jobs, TakeDownload(p, j)
    PROVE  TypeInv'
<1>1. p \in Procs /\ p # Consumer /\ p \notin Translators
  BY DEF Procs, Workers
<1>2. TypeOK'
  BY <1>1 DEF TakeDownload, Take, TypeInv, TypeOK, Statuses
<1>3. \A q \in Procs : PlaceOK(q)'
  BY <1>1 DEF TakeDownload, Take, TypeInv, TypeOK, PlaceOK, Statuses
<1>4. ConsumerAtHead'
  BY <1>1 DEF TakeDownload, Take, TypeInv, TypeOK, ConsumerAtHead
<1> QED
  BY <1>2, <1>3, <1>4 DEF TypeInv

LEMMA TakeTranslationTypeInv ==
    ASSUME TypeInv, NEW p \in Translators, NEW j \in Jobs, TakeTranslation(p, j)
    PROVE  TypeInv'
<1>1. p \in Procs /\ p # Consumer
  BY DEF Procs, Workers
<1>2. TypeOK'
  BY <1>1 DEF TakeTranslation, Take, TypeInv, TypeOK, Statuses
<1>3. \A q \in Procs : PlaceOK(q)'
  BY <1>1 DEF TakeTranslation, Take, TypeInv, TypeOK, PlaceOK, Statuses
<1>4. ConsumerAtHead'
  BY <1>1 DEF TakeTranslation, Take, TypeInv, TypeOK, ConsumerAtHead
<1> QED
  BY <1>2, <1>3, <1>4 DEF TypeInv

LEMMA TakeEventTypeInv ==
    ASSUME TypeInv, TakeEvent
    PROVE  TypeInv'
<1> DEFINE j == Head(events).job
           status == StatusOf(Head(events).type)
<1>1. Consumer \in Procs /\ Consumer \notin Workers
  BY DEF Procs
<1>2. Head(events) \in [type : EventTypes, job : Jobs]
  BY TailFacts DEF TakeEvent, TypeInv, TypeOK
<1>3. j \in Jobs /\ status \in Statuses /\ status # "completed"
  BY <1>2 DEF EventTypes, StatusOf, Statuses
<1>4. Take(Consumer, j, status) /\ events # <<>>
      /\ UNCHANGED <<api, job, history, disk, downloadQ, translationQ, events, budget>>
  BY DEF TakeEvent, taskQueues
<1> HIDE DEF j, status
<1>5. TypeOK'
  BY <1>1, <1>3, <1>4 DEF Take, TypeInv, TypeOK
<1>6. \A q \in Procs : PlaceOK(q)'
  BY <1>1, <1>3, <1>4 DEF Take, TypeInv, TypeOK, PlaceOK, Workers
<1>7. ConsumerAtHead'
  BY <1>1, <1>4 DEF Take, TypeInv, TypeOK, ConsumerAtHead, j, status
<1> QED
  BY <1>5, <1>6, <1>7 DEF TypeInv

\* Letting go of a message, with the queues moved as the action says.
LEMMA ReleaseTypeInv ==
    ASSUME TypeInv, NEW p \in Procs, Release(p),
           job' \in [Jobs -> Record], budget' \in 0 .. MaxFaults,
           downloadQ' \in [Jobs -> Nat], translationQ' \in [Jobs -> Nat],
           events' \in Seq([type : EventTypes, job : Jobs]),
           p # Consumer => UNCHANGED events,
           UNCHANGED <<api, history, disk>>
    PROVE  TypeInv'
<1>1. Nothing \in [error : BOOLEAN, url : BOOLEAN] /\ <<>> \in Seq(EventTypes)
  BY EmptySeq DEF Nothing, Kept, Absent
<1>2. TypeOK'
  BY <1>1 DEF Release, TypeInv, TypeOK
<1>3. \A q \in Procs : PlaceOK(q)'
  BY DEF Release, TypeInv, TypeOK, PlaceOK
<1>4. ConsumerAtHead'
  BY SMTT(30) DEF Release, TypeInv, TypeOK, ConsumerAtHead
<1> QED
  BY <1>2, <1>3, <1>4 DEF TypeInv

LEMMA TailEventsType ==
    ASSUME TypeInv, NEW p \in Procs, pc[p] # "idle"
    PROVE  (IF p = Consumer /\ held[p] THEN Tail(events) ELSE events)
             \in Seq([type : EventTypes, job : Jobs])
BY TailFacts DEF TypeInv, TypeOK, ConsumerAtHead

LEMMA AckTypeInv ==
    ASSUME TypeInv, NEW p \in Procs, Ack(p)
    PROVE  TypeInv'
<1>1. events' \in Seq([type : EventTypes, job : Jobs])
  BY TailEventsType DEF Ack
<1> QED
  BY <1>1, ReleaseTypeInv DEF Ack, taskQueues, TypeInv, TypeOK

LEMMA RequeueType ==
    ASSUME TypeInv, NEW p \in Procs, Requeue(p)
    PROVE  downloadQ' \in [Jobs -> Nat] /\ translationQ' \in [Jobs -> Nat]
<1>1. downloadQ \in [Jobs -> Nat] /\ translationQ \in [Jobs -> Nat]
  BY DEF TypeInv, TypeOK
<1>2. held[p] => cur[p] \in Jobs
  BY DEF TypeInv, PlaceOK
<1> QED
  BY <1>1, <1>2 DEF Requeue

LEMMA FailureTypeInv ==
    ASSUME TypeInv, NEW p \in Procs, Failure(p)
    PROVE  TypeInv'
<1>1. budget' \in 0 .. MaxFaults
  BY BudgetType DEF Failure, Timeout, Crash, LoseConnection, TypeInv, FaultKinds
<1>2. CASE Timeout(p)
  <2>1. events' \in Seq([type : EventTypes, job : Jobs])
    BY <1>2, TailEventsType DEF Timeout
  <2> QED
    BY <1>1, <1>2, <2>1, ReleaseTypeInv DEF Timeout, taskQueues, TypeInv, TypeOK
<1>3. CASE Crash(p)
  BY <1>1, <1>3, RequeueType, ReleaseTypeInv DEF Crash, TypeInv, TypeOK
<1>4. CASE LoseConnection(p)
  <2>1. downloadQ' \in [Jobs -> Nat] /\ translationQ' \in [Jobs -> Nat]
    BY <1>4, RequeueType DEF LoseConnection
  <2>2. TypeOK'
    BY <1>1, <1>4, <2>1 DEF LoseConnection, TypeInv, TypeOK
  <2>3. /\ events' = events /\ pc' = pc /\ cur' = cur /\ goal' = goal /\ out' = out
        /\ \A q \in Procs : held'[q] => held[q]
    BY <1>4 DEF LoseConnection, TypeInv, TypeOK
  <2>4. \A q \in Procs : PlaceOK(q)'
    BY <2>3 DEF TypeInv, PlaceOK
  <2>5. ConsumerAtHead'
    BY <2>3 DEF TypeInv, ConsumerAtHead
  <2> QED
    BY <2>2, <2>4, <2>5 DEF TypeInv
<1> QED
  BY <1>2, <1>3, <1>4 DEF Failure

\* A handler moves on to another step; neither its message nor the queue moves.
LEMMA MoveTypeInv ==
    ASSUME TypeInv, NEW p \in Procs, NEW label, Goto(p, label),
           TypeOK', pc[p] # "idle", label # "idle",
           PlaceOK(p)',
           \A q \in Procs \ {p} : goal'[q] = goal[q] /\ out'[q] = out[q],
           goal'[p] \in Statuses,
           p = Consumer => goal'[p] = goal[p],
           events # <<>> => events' # <<>> /\ Head(events') = Head(events),
           UNCHANGED <<cur, held>>
    PROVE  TypeInv'
<1>1. pc \in [Procs -> {"idle", "get", "set", "expire", "search", "enqueue",
                       "translate", "publish", "record", "ack"}]
  BY DEF TypeInv, TypeOK
<1>2. \A q \in Procs : PlaceOK(q)'
  <2> SUFFICES ASSUME NEW q \in Procs, q # p
               PROVE  PlaceOK(q)'
    OBVIOUS
  <2>1. PlaceOK(q) /\ pc'[q] = pc[q] /\ goal'[q] = goal[q] /\ out'[q] = out[q]
    BY <1>1 DEF Goto, TypeInv
  <2> QED
    BY <2>1 DEF PlaceOK
<1>3. ConsumerAtHead'
  BY <1>1 DEF Goto, TypeInv, ConsumerAtHead, Procs
<1> QED
  BY <1>2, <1>3 DEF TypeInv

\* update_phase, as long as it does not raise.
LEMMA UpdateTypeInv ==
    ASSUME TypeInv, NEW p \in Procs,
           GetJob(p) \/ SetJob(p) \/ ExpireJob(p)
    PROVE  TypeInv'
<1>1. pc[p] # "idle" /\ cur[p] \in Jobs /\ goal[p] \in Statuses
  BY DEF GetJob, SetJob, ExpireJob, TypeInv, PlaceOK
<1>2. budget' \in 0 .. MaxFaults
  BY BudgetType DEF GetJob, SetJob, ExpireJob, TypeInv, FaultKinds
<1>3. /\ snap' \in [Procs -> [error : BOOLEAN, url : BOOLEAN]]
      /\ job' \in [Jobs -> Record]
  <2> DEFINE S == [error : BOOLEAN, url : BOOLEAN]
  <2>0. snap \in [Procs -> S] /\ job \in [Jobs -> Record]
    BY DEF TypeInv, TypeOK
  <2>1. CASE GetJob(p)
    <3>1. job[cur[p]] \in Record
      BY <1>1 DEF TypeInv, TypeOK
    <3>2. Kept(job[cur[p]]) \in S
      BY <3>1 DEF Kept, Record
    <3>3. snap' \in [Procs -> S]
      <4> HIDE DEF S
      <4> QED  BY <2>0, <2>1, <3>2 DEF GetJob
    <3> QED
      BY <2>0, <2>1, <3>3 DEF GetJob
  <2>2. CASE SetJob(p)
    <3>1. snap[p] \in S
      BY <2>0
    <3>2. Merge(snap[p], goal[p]) \in Record
      BY <1>1, <3>1 DEF Merge, Record
    <3>3. Nothing \in S
      BY DEF Nothing, Kept, Absent
    <3> HIDE DEF S
    <3>4. snap' \in [Procs -> S]
      BY <2>0, <2>2, <3>3 DEF SetJob
    <3>5. job' \in [Jobs -> Record]
      BY <2>0, <2>2, <3>2 DEF SetJob
    <3> QED
      BY <3>4, <3>5 DEF S
  <2>3. CASE ExpireJob(p)
    <3>1. job[cur[p]] \in Record
      BY <1>1 DEF TypeInv, TypeOK
    <3>2. WithExpiration(job[cur[p]]) \in Record
      BY <3>1 DEF WithExpiration, Record
    <3> QED
      BY <2>0, <2>3, <3>2 DEF ExpireJob
  <2> QED
    BY <2>1, <2>2, <2>3
<1>4. PICK label \in {AfterUpdate(p), "set", "expire"} : Goto(p, label)
  BY DEF GetJob, SetJob, ExpireJob
<1>5. UNCHANGED <<api, history, disk, downloadQ, translationQ, events,
                  cur, goal, out, held>>
  BY DEF GetJob, SetJob, ExpireJob, taskQueues
<1>6. label \in {"set", "expire", "record", "search", "publish", "translate"}
  BY <1>4 DEF AfterUpdate
<1>7. TypeOK'
  BY <1>2, <1>3, <1>4, <1>5, <1>6 DEF Goto, TypeInv, TypeOK
<1>8. PlaceOK(p)'
  BY <1>1, <1>4, <1>5 DEF Goto, GetJob, SetJob, ExpireJob,
     AfterUpdate, TypeInv, TypeOK, PlaceOK, Procs, Workers
<1> QED
  BY <1>1, <1>4, <1>5, <1>6, <1>7, <1>8, MoveTypeInv

\* A worker that reports moves to the publishing of a list that is not empty.
LEMMA ReportTypeInv ==
    ASSUME TypeInv, NEW p \in Workers, NEW types \in Seq(EventTypes), types # <<>>,
           Report(p, types), pc[p] # "idle",
           disk' \in [Jobs -> SUBSET {"requested", "fallback", "translated"}],
           downloadQ' \in [Jobs -> Nat], translationQ' \in [Jobs -> Nat],
           budget' \in 0 .. MaxFaults,
           UNCHANGED <<api, job, history, events, cur, goal, snap, held>>
    PROVE  TypeInv'
<1>1. p \in Procs /\ p # Consumer
  BY DEF Procs
<1>2. TypeOK'
  BY <1>1 DEF Report, Goto, TypeInv, TypeOK
<1>3. \A q \in Procs : PlaceOK(q)'
  BY <1>1 DEF Report, Goto, TypeInv, TypeOK, PlaceOK
<1>4. ConsumerAtHead'
  BY <1>1 DEF Report, Goto, TypeInv, TypeOK, ConsumerAtHead
<1> QED
  BY <1>2, <1>3, <1>4 DEF TypeInv

\* update_phase, when it raises: a consumer goes on to ack, a worker reports.
LEMMA UpdateRaisesTypeInv ==
    ASSUME TypeInv, NEW p \in Procs, UpdateRaises(p)
    PROVE  TypeInv'
<1>1. /\ pc[p] = "get" /\ cur[p] \in Jobs /\ goal[p] \in Statuses
      /\ UNCHANGED <<api, job, history, disk, downloadQ, translationQ, events,
                     cur, goal, snap, held>>
      /\ budget' \in 0 .. MaxFaults
  BY BudgetType DEF UpdateRaises, taskQueues, TypeInv, PlaceOK, FaultKinds
<1>2. CASE p = Consumer /\ Goto(p, "ack") /\ UNCHANGED out
  <2>1. TypeOK'
    BY <1>1, <1>2 DEF Goto, TypeInv, TypeOK
  <2>2. PlaceOK(p)'
    BY <1>1, <1>2 DEF Goto, TypeInv, TypeOK, PlaceOK
  <2> QED
    BY <1>1, <1>2, <2>1, <2>2, MoveTypeInv
<1>3. CASE p \in Workers /\ Report(p, <<"job.failed">>)
  <2>1. <<"job.failed">> \in Seq(EventTypes) /\ <<"job.failed">> # <<>>
    BY ShortSeqs DEF EventTypes
  <2> QED
    BY <1>1, <1>3, <2>1, ReportTypeInv DEF TypeInv, TypeOK
<1> QED
  BY <1>2, <1>3 DEF UpdateRaises

LEMMA UpdatePhaseTypeInv ==
    ASSUME TypeInv, NEW p \in Procs, UpdatePhase(p)
    PROVE  TypeInv'
BY UpdateTypeInv, UpdateRaisesTypeInv DEF UpdatePhase

LEMMA StoreType ==
    ASSUME TypeInv, NEW p \in Procs, pc[p] # "idle", NEW file, Store(p, file),
           file \in {"requested", "fallback", "translated"}
    PROVE  disk' \in [Jobs -> SUBSET {"requested", "fallback", "translated"}]
<1> DEFINE D == SUBSET {"requested", "fallback", "translated"}
<1>1. disk \in [Jobs -> D] /\ cur[p] \in Jobs
  BY DEF TypeInv, TypeOK, PlaceOK
<1>2. disk[cur[p]] \cup {file} \in D
  BY <1>1
<1> HIDE DEF D
<1>3. disk' \in [Jobs -> D]
  BY <1>1, <1>2 DEF Store
<1> QED
  BY <1>3 DEF D

LEMMA SearchTypeInv ==
    ASSUME TypeInv, NEW p \in Downloaders, Search(p)
    PROVE  TypeInv'
<1>1. p \in Procs /\ p \in Workers /\ p # Consumer /\ p \notin Translators
  BY DEF Procs, Workers
<1>2. pc[p] = "search" /\ cur[p] \in Jobs /\ goal[p] \in Statuses
      /\ UNCHANGED <<api, job, history, downloadQ, translationQ, events,
                     cur, goal, snap, held>>
  BY <1>1 DEF Search, taskQueues, TypeInv, PlaceOK
<1>3. budget' \in 0 .. MaxFaults
  BY BudgetType DEF Search, FoundRequested, FoundOther, NothingSaved, ApiError,
                       TypeInv, FaultKinds
<1>4. disk' \in [Jobs -> SUBSET {"requested", "fallback", "translated"}]
  <2>1. disk \in [Jobs -> SUBSET {"requested", "fallback", "translated"}]
    BY DEF TypeInv, TypeOK
  <2>2. (\E file \in {"requested", "fallback"} : Store(p, file)) \/ UNCHANGED disk
    BY DEF Search, FoundRequested, FoundOther, NothingSaved, ApiError
  <2> QED
    BY <1>1, <1>2, <2>1, <2>2, StoreType
<1>5. CASE \E t \in EventTypes : Report(p, <<t>>)
  BY <1>1, <1>2, <1>3, <1>4, <1>5, ShortSeqs, ReportTypeInv DEF TypeInv, TypeOK
<1>6. CASE Goto(p, "enqueue") /\ UNCHANGED out
  <2>1. TypeOK'
    BY <1>2, <1>3, <1>4, <1>6 DEF Goto, TypeInv, TypeOK
  <2>2. PlaceOK(p)'
    BY <1>1, <1>2, <1>6 DEF Goto, TypeInv, TypeOK, PlaceOK
  <2> QED
    BY <1>1, <1>2, <1>6, <2>1, <2>2, MoveTypeInv
<1> QED
  BY <1>5, <1>6 DEF Search, FoundRequested, FoundOther, NothingSaved, ApiError,
                    EventTypes

LEMMA EnqueueTranslationTypeInv ==
    ASSUME TypeInv, NEW p \in Downloaders, EnqueueTranslation(p)
    PROVE  TypeInv'
<1>1. p \in Procs /\ p \in Workers
  BY DEF Procs, Workers
<1>2. pc[p] = "enqueue" /\ cur[p] \in Jobs
      /\ UNCHANGED <<api, job, history, disk, events, cur, goal, snap, held>>
  BY <1>1 DEF EnqueueTranslation, TypeInv, PlaceOK
<1>3. budget' \in 0 .. MaxFaults
  BY BudgetType DEF EnqueueTranslation, TypeInv, FaultKinds
<1>4. downloadQ' \in [Jobs -> Nat] /\ translationQ' \in [Jobs -> Nat]
  BY <1>2, PutType DEF EnqueueTranslation, TypeInv, TypeOK, taskQueues
<1>5. PICK types \in Seq(EventTypes) : types # <<>> /\ Report(p, types)
  BY ShortSeqs DEF EnqueueTranslation, EventTypes
<1> QED
  BY <1>1, <1>2, <1>3, <1>4, <1>5, ReportTypeInv DEF TypeInv, TypeOK

LEMMA TranslateTypeInv ==
    ASSUME TypeInv, NEW p \in Translators, Translate(p)
    PROVE  TypeInv'
<1>1. p \in Procs /\ p \in Workers /\ p # Consumer /\ p \notin Downloaders
  BY DEF Procs, Workers
<1>2. pc[p] = "translate" /\ cur[p] \in Jobs
      /\ UNCHANGED <<api, job, history, downloadQ, translationQ, events,
                     cur, snap, held, budget>>
  BY <1>1 DEF Translate, taskQueues, TypeInv, PlaceOK
<1> DEFINE done == <<"translation.completed", "subtitle.translated">>
<1>3. done \in Seq(EventTypes) /\ done # <<>> /\ <<"job.failed">> \in Seq(EventTypes)
      /\ <<"job.failed">> # <<>>
  BY ShortSeqs DEF EventTypes
<1>4. CASE Report(p, <<"job.failed">>) /\ UNCHANGED <<disk, goal>>
  BY <1>1, <1>2, <1>3, <1>4, ReportTypeInv DEF TypeInv, TypeOK
<1>5. CASE /\ Store(p, "translated")
           /\ out' = [out EXCEPT ![p] = done]
           /\ goal' = [goal EXCEPT ![p] = "completed"]
           /\ Goto(p, "get")
  <2> HIDE DEF done
  <2>1. disk' \in [Jobs -> SUBSET {"requested", "fallback", "translated"}]
    BY <1>1, <1>2, <1>5, StoreType
  <2>2. TypeOK'
    BY <1>1, <1>2, <1>3, <1>5, <2>1 DEF Goto, TypeInv, TypeOK, Statuses
  <2>3. PlaceOK(p)'
    BY <1>1, <1>2, <1>3, <1>5 DEF Goto, TypeInv, TypeOK, PlaceOK, Statuses
  <2>4. /\ \A q \in Procs \ {p} : goal'[q] = goal[q] /\ out'[q] = out[q]
        /\ goal'[p] \in Statuses
    BY <1>1, <1>5 DEF TypeInv, TypeOK, Statuses
  <2> QED
    BY <1>1, <1>2, <1>5, <2>2, <2>3, <2>4, MoveTypeInv
<1> QED
  BY <1>4, <1>5 DEF Translate, TranslationSaved, TranslationFails

LEMMA PublishTypeInv ==
    ASSUME TypeInv, NEW p \in Workers, Publish(p)
    PROVE  TypeInv'
<1>1. p \in Procs /\ p # Consumer
  BY DEF Procs
<1>2. /\ pc[p] = "publish" /\ cur[p] \in Jobs /\ goal[p] \in Statuses
      /\ out[p] # <<>> /\ out[p] \in Seq(EventTypes)
  BY <1>1 DEF Publish, TypeInv, TypeOK, PlaceOK
<1>3. Head(out[p]) \in EventTypes /\ Tail(out[p]) \in Seq(EventTypes)
  BY <1>2, TailFacts
<1>4. /\ events' \in Seq([type : EventTypes, job : Jobs])
      /\ budget' \in 0 .. MaxFaults
      /\ events # <<>> => events' # <<>> /\ Head(events') = Head(events)
  BY <1>2, <1>3, PublishType DEF Publish, TypeInv
<1>5. PICK label \in {"ack", "publish"} :
         Goto(p, label) /\ (label = "publish" => Tail(out[p]) # <<>>)
  BY DEF Publish
<1>6. /\ UNCHANGED <<api, job, history, disk, downloadQ, translationQ,
                     cur, goal, snap, held>>
      /\ out' = [out EXCEPT ![p] = Tail(out[p])]
  BY DEF Publish, taskQueues
<1>7. TypeOK'
  BY <1>1, <1>3, <1>4, <1>5, <1>6 DEF Goto, TypeInv, TypeOK
<1>8. PlaceOK(p)'
  BY <1>1, <1>2, <1>3, <1>5, <1>6 DEF Goto, TypeInv, TypeOK, PlaceOK
<1> QED
  BY <1>1, <1>2, <1>4, <1>5, <1>6, <1>7, <1>8, MoveTypeInv DEF TypeInv, TypeOK

LEMMA RecordEventTypeInv ==
    ASSUME TypeInv, RecordEvent
    PROVE  TypeInv'
<1>1. Consumer \in Procs /\ Consumer \notin Workers
  BY DEF Procs
<1>2. /\ pc[Consumer] = "record" /\ cur[Consumer] \in Jobs
      /\ goal[Consumer] \in Statuses /\ events # <<>>
      /\ UNCHANGED <<api, job, disk, downloadQ, translationQ, events,
                     cur, goal, snap, out, held>>
      /\ Goto(Consumer, "ack")
  BY <1>1 DEF RecordEvent, taskQueues, TypeInv, PlaceOK, ConsumerAtHead
<1>3. budget' \in 0 .. MaxFaults
  BY BudgetType DEF RecordEvent, TypeInv, FaultKinds
<1>4. Head(events).type \in EventTypes
  <2>1. events \in Seq([type : EventTypes, job : Jobs])
    BY DEF TypeInv, TypeOK
  <2>2. Head(events) \in [type : EventTypes, job : Jobs]
    BY <1>2, <2>1, TailFacts
  <2> QED
    BY <2>2
<1>5. history' \in [Jobs -> Seq(EventTypes)]
  <2>1. history \in [Jobs -> Seq(EventTypes)]
    BY DEF TypeInv, TypeOK
  <2>2. Append(history[cur[Consumer]], Head(events).type) \in Seq(EventTypes)
    BY <1>2, <1>4, <2>1, AppendFacts
  <2> QED
    BY <2>1, <2>2 DEF RecordEvent
<1>6. TypeOK'
  BY <1>1, <1>2, <1>3, <1>5 DEF Goto, TypeInv, TypeOK
<1>7. PlaceOK(Consumer)'
  BY <1>1, <1>2 DEF Goto, TypeInv, TypeOK, PlaceOK
<1> QED
  BY <1>1, <1>2, <1>6, <1>7, MoveTypeInv

LEMMA NextTypeInv ==
    ASSUME TypeInv, [Next]_vars
    PROVE  TypeInv'
<1>1. ASSUME NEW j \in Jobs,
             SaveJob(j) \/ SaveRaises(j) \/ ManagerStep(j) \/ CrashManager(j)
      PROVE  TypeInv'
  BY <1>1, ManagerTypeInv
<1>2. ASSUME NEW p \in Downloaders, DownloaderStep(p)
      PROVE  TypeInv'
  BY <1>2, TakeDownloadTypeInv, UpdatePhaseTypeInv, SearchTypeInv,
     EnqueueTranslationTypeInv, PublishTypeInv, AckTypeInv
     DEF DownloaderStep, Procs, Workers
<1>3. ASSUME NEW p \in Translators, TranslatorStep(p)
      PROVE  TypeInv'
  BY <1>3, TakeTranslationTypeInv, UpdatePhaseTypeInv, TranslateTypeInv,
     PublishTypeInv, AckTypeInv
     DEF TranslatorStep, Procs, Workers
<1>4. CASE ConsumerStep
  BY <1>4, TakeEventTypeInv, UpdatePhaseTypeInv, RecordEventTypeInv, AckTypeInv
     DEF ConsumerStep, Procs
<1>5. ASSUME NEW p \in Procs, Failure(p)
      PROVE  TypeInv'
  BY <1>5, FailureTypeInv
<1>6. CASE UNCHANGED vars
  BY <1>6 DEF vars, TypeInv, TypeOK, PlaceOK, ConsumerAtHead
<1> QED
  BY <1>1, <1>2, <1>3, <1>4, <1>5, <1>6 DEF Next

\* The services keep every shared and every local value of its kind: in
\* particular a queue is never read when it is empty, and a worker always has
\* a job and, where it publishes, an event to publish.
THEOREM TypeCorrect == Spec => []TypeOK
<1>1. Init => TypeInv
  BY InitTypeInv
<1>2. TypeInv /\ [Next]_vars => TypeInv'
  BY NextTypeInv
<1>3. TypeInv => TypeOK
  BY DEF TypeInv
<1> QED
  BY <1>1, <1>2, <1>3, PTL DEF Spec

-----------------------------------------------------------------------------
(* The evidence behind every finished status, whatever fails *)

USE PipelineAssumption

\* The file that an event of this type speaks of is on the disk.
Backed(t, j) ==
    /\ t = "subtitle.ready" => "requested" \in disk[j]
    /\ t = "subtitle.translated" => "translated" \in disk[j]

\* What a process is about to say of its job is true.
Honest(p) ==
    /\ pc[p] = "idle" => out[p] = <<>>
    /\ pc[p] # "idle" =>
        /\ \A i \in 1 .. Len(out[p]) : Backed(out[p][i], cur[p])
        /\ goal[p] \in {"done", "completed"} => HasSubtitle(cur[p])

BackedEvents ==
    \A i \in 1 .. Len(events) : Backed(events[i].type, events[i].job)

BackedHistory ==
    \A j \in Jobs : \A i \in 1 .. Len(history[j]) : Backed(history[j][i], j)

EvidenceInv ==
    /\ TypeInv
    /\ StatusHasEvidence
    /\ \A p \in Procs : Honest(p)
    /\ BackedEvents
    /\ BackedHistory

LEMMA InitEvidence == Init => EvidenceInv
<1> SUFFICES ASSUME Init
             PROVE  EvidenceInv
  OBVIOUS
<1>1. StatusHasEvidence
  BY DEF Init, StatusHasEvidence, Absent
<1>2. \A p \in Procs : Honest(p)
  BY DEF Init, Honest
<1>3. BackedEvents /\ BackedHistory
  BY DEF Init, BackedEvents, BackedHistory
<1> QED
  BY <1>1, <1>2, <1>3, InitTypeInv DEF EvidenceInv

-----------------------------------------------------------------------------
(* No step removes a file *)

DiskGrows == \A j \in Jobs : disk[j] \subseteq disk'[j]

LEMMA StoreGrows ==
    ASSUME TypeInv, NEW p, NEW file, Store(p, file)
    PROVE  DiskGrows
BY DEF Store, DiskGrows, TypeInv, TypeOK

LEMMA FilesStay ==
    ASSUME TypeInv, [Next]_vars
    PROVE  DiskGrows
<1>1. ASSUME NEW p \in Downloaders, Search(p)
      PROVE  DiskGrows
  BY <1>1, StoreGrows DEF Search, FoundRequested, FoundOther, NothingSaved,
                          ApiError, DiskGrows
<1>2. ASSUME NEW p \in Translators, Translate(p)
      PROVE  DiskGrows
  BY <1>2, StoreGrows DEF Translate, TranslationSaved, TranslationFails, DiskGrows
<1>3. CASE UNCHANGED disk
  BY <1>3 DEF DiskGrows
<1>4. ASSUME NEW j \in Jobs,
             SaveJob(j) \/ SaveRaises(j) \/ ManagerStep(j) \/ CrashManager(j)
      PROVE  UNCHANGED disk
  BY <1>4 DEF SaveJob, SaveRaises, ManagerStep, EnqueueTask,
              PublishDownloadRequested, PublishFailure, CrashManager
<1>5. ASSUME NEW p \in Procs,
             \/ \E j \in Jobs : TakeDownload(p, j) \/ TakeTranslation(p, j)
             \/ TakeEvent \/ UpdatePhase(p) \/ RecordEvent
             \/ EnqueueTranslation(p) \/ Publish(p) \/ Ack(p) \/ Failure(p)
      PROVE  UNCHANGED disk
  BY <1>5 DEF TakeDownload, TakeTranslation, TakeEvent, UpdatePhase, GetJob,
              UpdateRaises,
              SetJob, ExpireJob, RecordEvent, EnqueueTranslation, Publish, Ack,
              Failure, Timeout, Crash, LoseConnection
<1> QED
  BY <1>1, <1>2, <1>3, <1>4, <1>5 DEF Next, vars, DownloaderStep, TranslatorStep,
     ConsumerStep, Procs, Workers

LEMMA EvidenceStays ==
    ASSUME DiskGrows, NEW j \in Jobs
    PROVE  /\ HasSubtitle(j) => HasSubtitle(j)'
           /\ \A t : Backed(t, j) => Backed(t, j)'
BY DEF DiskGrows, HasSubtitle, Backed

-----------------------------------------------------------------------------
(* The parts of the invariant under a step *)

LEMMA StatusStays ==
    ASSUME EvidenceInv, DiskGrows, UNCHANGED job
    PROVE  StatusHasEvidence'
BY EvidenceStays DEF EvidenceInv, StatusHasEvidence

LEMMA HistoryStays ==
    ASSUME EvidenceInv, DiskGrows, UNCHANGED history
    PROVE  BackedHistory'
BY EvidenceStays DEF EvidenceInv, BackedHistory

\* Whoever is not concerned by a step stays honest.
LEMMA HonestStays ==
    ASSUME EvidenceInv, DiskGrows, NEW p \in Procs,
           pc'[p] = pc[p], out'[p] = out[p], goal'[p] = goal[p], cur'[p] = cur[p]
    PROVE  Honest(p)'
<1>1. CASE pc[p] = "idle"
  BY <1>1 DEF EvidenceInv, Honest
<1>2. CASE pc[p] # "idle"
  <2>1. cur[p] \in Jobs /\ disk[cur[p]] \subseteq disk'[cur[p]]
    BY <1>2 DEF EvidenceInv, TypeInv, PlaceOK, DiskGrows
  <2>2. HasSubtitle(cur[p]) => HasSubtitle(cur[p])'
    BY <2>1 DEF HasSubtitle
  <2>3. ASSUME NEW i \in 1 .. Len(out[p])
        PROVE  Backed(out[p][i], cur[p])'
    BY <1>2, <2>1 DEF EvidenceInv, Honest, Backed
  <2>4. Honest(p)
    BY DEF EvidenceInv
  <2> QED
    BY <1>2, <2>2, <2>3, <2>4 DEF Honest
<1> QED
  BY <1>1, <1>2

LEMMA EventsStay ==
    ASSUME EvidenceInv, DiskGrows, UNCHANGED events
    PROVE  BackedEvents'
<1>1. \A i \in 1 .. Len(events) : events[i].job \in Jobs
  BY EventFacts DEF EvidenceInv, TypeInv
<1>2. ASSUME NEW i \in 1 .. Len(events)
      PROVE  Backed(events[i].type, events[i].job)'
  BY <1>1, EvidenceStays DEF EvidenceInv, BackedEvents, Backed
<1> QED
  BY <1>2 DEF BackedEvents

LEMMA AckedEventsStay ==
    ASSUME EvidenceInv, UNCHANGED disk, events # <<>>, events' = Tail(events)
    PROVE  BackedEvents'
<1>1. \A i \in 1 .. Len(events) : Backed(events[i].type, events[i].job)
  BY DEF EvidenceInv, BackedEvents
<1>2. /\ Len(events) \in Nat /\ Len(Tail(events)) = Len(events) - 1
      /\ \A i \in 1 .. Len(events) - 1 : Tail(events)[i] = events[i + 1]
  BY EventFacts, TailFacts DEF EvidenceInv, TypeInv
<1>3. ASSUME NEW i \in 1 .. Len(events')
      PROVE  Backed(events'[i].type, events'[i].job)
  BY <1>1, <1>2
<1> QED
  BY <1>3 DEF BackedEvents, Backed

LEMMA AppendedEventsStay ==
    ASSUME EvidenceInv, UNCHANGED disk,
           NEW j \in Jobs, NEW t \in EventTypes, Backed(t, j), PublishEvent(t, j)
    PROVE  BackedEvents'
<1> DEFINE E == [type : EventTypes, job : Jobs]
           e == Event(t, j)
           True(s) == \A i \in 1 .. Len(s) : Backed(s[i].type, s[i].job)
<1>1. e \in E /\ Backed(e.type, e.job)
  BY DEF Event
<1>2. events \in Seq(E) /\ True(events)
  BY EventFacts DEF EvidenceInv, TypeInv, BackedEvents
<1>3. ASSUME NEW s \in Seq(E), True(s)
      PROVE  Append(s, e) \in Seq(E) /\ True(Append(s, e))
  <2> HIDE DEF E, e
  <2>1. /\ Append(s, e) \in Seq(E)
        /\ Len(Append(s, e)) = Len(s) + 1
        /\ \A i \in 1 .. Len(s) : Append(s, e)[i] = s[i]
        /\ Append(s, e)[Len(s) + 1] = e
    BY <1>1, AppendFacts
  <2>2. \A i \in 1 .. Len(s) + 1 : i \in 1 .. Len(s) \/ i = Len(s) + 1
    OBVIOUS
  <2> QED
    BY <1>1, <1>3, <2>1, <2>2
<1>4. True(events')
  <2> HIDE DEF E, True
  <2> QED
    BY <1>2, <1>3 DEF PublishEvent, Routed
<1> QED
  BY <1>4 DEF BackedEvents, Backed

-----------------------------------------------------------------------------
(* Every action *)

\* A step in which only p moves, and which touches neither records nor
\* histories.
LEMMA WorkerEvidence ==
    ASSUME EvidenceInv, TypeInv', DiskGrows, NEW p \in Procs,
           \A q \in Procs \ {p} : /\ pc'[q] = pc[q] /\ out'[q] = out[q]
                                  /\ goal'[q] = goal[q] /\ cur'[q] = cur[q],
           Honest(p)', BackedEvents', UNCHANGED <<job, history>>
    PROVE  EvidenceInv'
<1>1. \A q \in Procs : Honest(q)'
  BY HonestStays
<1> QED
  BY <1>1, StatusStays, HistoryStays DEF EvidenceInv

\* No process moves.
LEMMA EveryoneHonest ==
    ASSUME EvidenceInv, DiskGrows, UNCHANGED <<pc, out, goal, cur>>
    PROVE  \A q \in Procs : Honest(q)'
BY HonestStays

LEMMA ManagerEvidence ==
    ASSUME EvidenceInv, TypeInv', DiskGrows, NEW j \in Jobs,
           SaveJob(j) \/ SaveRaises(j) \/ ManagerStep(j) \/ CrashManager(j)
    PROVE  EvidenceInv'
<1>1. UNCHANGED <<pc, out, goal, cur, history, disk>>
  BY DEF SaveJob, SaveRaises, ManagerStep, EnqueueTask, PublishDownloadRequested,
         PublishFailure, CrashManager, procVars
<1>2. StatusHasEvidence'
  <2>1. CASE SaveJob(j)
    <3>1. job \in [Jobs -> Record]
      BY DEF EvidenceInv, TypeInv, TypeOK
    <3>2. job' = [job EXCEPT ![j] = Pending] \/ UNCHANGED job
      BY <2>1 DEF SaveJob
    <3>3. ASSUME NEW k \in Jobs
          PROVE  job'[k] = job[k] \/ job'[k] = Pending
      BY <3>1, <3>2
    <3> QED
      BY <1>1, <3>3 DEF StatusHasEvidence, EvidenceInv, HasSubtitle, Pending
  <2>2. CASE UNCHANGED job
    BY <2>2, StatusStays
  <2> QED
    BY <2>1, <2>2 DEF SaveRaises, ManagerStep, EnqueueTask,
                      PublishDownloadRequested, PublishFailure, CrashManager
<1>3. BackedEvents'
  <2>1. CASE UNCHANGED events
    BY <2>1, EventsStay
  <2>2. ASSUME NEW t \in {"subtitle.download.requested", "job.failed"},
               PublishEvent(t, j)
        PROVE  BackedEvents'
    BY <1>1, <2>2, AppendedEventsStay DEF Backed, EventTypes
  <2> QED
    BY <2>1, <2>2 DEF SaveJob, SaveRaises, ManagerStep, EnqueueTask,
                      PublishDownloadRequested, PublishFailure, CrashManager
<1> QED
  BY <1>1, <1>2, <1>3, EveryoneHonest, HistoryStays DEF EvidenceInv

LEMMA TakeTaskEvidence ==
    ASSUME EvidenceInv, TypeInv', DiskGrows, NEW p \in Procs, NEW j \in Jobs,
           TakeDownload(p, j) \/ TakeTranslation(p, j)
    PROVE  EvidenceInv'
<1>1. /\ pc[p] = "idle" /\ UNCHANGED <<job, history, events, out>>
      /\ pc' = [pc EXCEPT ![p] = "get"]
      /\ cur' = [cur EXCEPT ![p] = j]
      /\ goal' = [goal EXCEPT ![p] = goal'[p]]
      /\ goal'[p] \in {"download_in_progress", "translate_in_progress"}
  BY DEF TakeDownload, TakeTranslation, Take, EvidenceInv, TypeInv, TypeOK
<1>2. Honest(p)'
  BY <1>1 DEF Honest, EvidenceInv, TypeInv, TypeOK
<1>3. \A q \in Procs \ {p} : /\ pc'[q] = pc[q] /\ out'[q] = out[q]
                             /\ goal'[q] = goal[q] /\ cur'[q] = cur[q]
  BY <1>1 DEF EvidenceInv, TypeInv, TypeOK
<1> QED
  BY <1>1, <1>2, <1>3, EventsStay, WorkerEvidence

LEMMA TakeEventEvidence ==
    ASSUME EvidenceInv, TypeInv', DiskGrows, TakeEvent
    PROVE  EvidenceInv'
<1> DEFINE j == Head(events).job
           t == Head(events).type
<1>1. events # <<>> /\ Take(Consumer, j, StatusOf(t))
      /\ UNCHANGED <<job, history, events, disk, out>>
  BY DEF TakeEvent, Take
<1>2. j \in Jobs /\ t \in EventTypes /\ Backed(t, j)
  <2>1. Head(events) = events[1] /\ 1 \in 1 .. Len(events)
    BY <1>1, EventFacts, TailFacts DEF EvidenceInv, TypeInv
  <2> QED
    BY <2>1, EventFacts DEF EvidenceInv, TypeInv, BackedEvents
<1>3. Consumer \in Procs
  BY DEF Procs
<1>4. StatusOf(t) # "completed"
      /\ (StatusOf(t) = "done" => HasSubtitle(j))
  BY <1>2 DEF StatusOf, EventTypes, Backed, HasSubtitle
<1> HIDE DEF j, t
<1>5. /\ pc[Consumer] = "idle" /\ out'[Consumer] = <<>>
      /\ pc'[Consumer] = "get" /\ cur'[Consumer] = j
      /\ goal'[Consumer] = StatusOf(t)
  BY <1>1, <1>3 DEF Take, EvidenceInv, Honest, TypeInv, TypeOK
<1>6. Honest(Consumer)'
  BY <1>1, <1>4, <1>5 DEF Honest, HasSubtitle
<1>7. \A q \in Procs \ {Consumer} :
          /\ pc'[q] = pc[q] /\ out'[q] = out[q]
          /\ goal'[q] = goal[q] /\ cur'[q] = cur[q]
  BY <1>1 DEF Take, EvidenceInv, TypeInv, TypeOK
<1> QED
  BY <1>1, <1>3, <1>6, <1>7, EventsStay, WorkerEvidence

LEMMA ReleaseEvidence ==
    ASSUME EvidenceInv, TypeInv', DiskGrows, NEW p \in Procs, Release(p),
           BackedEvents', UNCHANGED <<job, history>>
    PROVE  EvidenceInv'
<1>1. Honest(p)'
  BY DEF Release, Honest, EvidenceInv, TypeInv, TypeOK
<1>2. \A q \in Procs \ {p} : /\ pc'[q] = pc[q] /\ out'[q] = out[q]
                             /\ goal'[q] = goal[q] /\ cur'[q] = cur[q]
  BY DEF Release, EvidenceInv, TypeInv, TypeOK
<1> QED
  BY <1>1, <1>2, WorkerEvidence

\* Ack and the failures of a process.
LEMMA LetGoEvidence ==
    ASSUME EvidenceInv, TypeInv', DiskGrows, NEW p \in Procs, Ack(p) \/ Failure(p)
    PROVE  EvidenceInv'
<1>1. UNCHANGED <<job, history, disk>>
  BY DEF Ack, Failure, Timeout, Crash, LoseConnection
<1>2. BackedEvents'
  <2>1. CASE UNCHANGED events
    BY <2>1, EventsStay
  <2>2. CASE p = Consumer /\ pc[p] # "idle" /\ events' = Tail(events)
    BY <1>1, <2>2, AckedEventsStay DEF EvidenceInv, TypeInv, ConsumerAtHead
  <2> QED
    BY <2>1, <2>2 DEF Ack, Failure, Timeout, Crash, LoseConnection
<1>3. CASE Release(p)
  BY <1>1, <1>2, <1>3, ReleaseEvidence
<1>4. CASE LoseConnection(p)
  BY <1>1, <1>2, <1>4, EveryoneHonest, StatusStays, HistoryStays
     DEF LoseConnection, EvidenceInv
<1> QED
  BY <1>3, <1>4 DEF Ack, Failure, Timeout, Crash

LEMMA MergeFacts ==
    ASSUME NEW kept, NEW status
    PROVE  /\ Merge(kept, status).status = status
           /\ status \in {"done", "completed"} => Merge(kept, status).url
           /\ status = "failed" => Merge(kept, status).error
<1>1. /\ Merge(kept, status).status = status
      /\ Merge(kept, status).error = (kept.error \/ status = "failed")
      /\ Merge(kept, status).url = (kept.url \/ status \in {"done", "completed"})
  BY DEF Merge
<1>2. status = "failed" => (kept.error \/ status = "failed")
  OBVIOUS
<1>3. status \in {"done", "completed"} =>
          (kept.url \/ status \in {"done", "completed"})
  OBVIOUS
<1> QED
  BY <1>1, <1>2, <1>3, Zenon

LEMMA WithExpirationFacts ==
    ASSUME NEW record
    PROVE  /\ WithExpiration(record).status = record.status
           /\ WithExpiration(record).url = record.url
           /\ WithExpiration(record).error = record.error
BY DEF WithExpiration

\* update_phase writes done or completed only with a link, and only for a job
\* whose subtitle its caller has seen; it writes failed only with an error.
LEMMA UpdateEvidence ==
    ASSUME EvidenceInv, TypeInv', DiskGrows, NEW p \in Procs,
           GetJob(p) \/ SetJob(p) \/ ExpireJob(p)
    PROVE  EvidenceInv'
<1>1. /\ pc[p] # "idle" /\ cur[p] \in Jobs
      /\ UNCHANGED <<history, disk, events, cur, goal, out>>
  BY DEF GetJob, SetJob, ExpireJob, EvidenceInv, TypeInv, PlaceOK
<1>2. PICK label \in {"set", "expire", "record", "search", "publish", "translate"} :
          Goto(p, label)
  BY DEF GetJob, SetJob, ExpireJob, AfterUpdate
<1>3. \A q \in Procs : Honest(q)'
  BY <1>1, <1>2 DEF Goto, Honest, HasSubtitle, Backed, EvidenceInv, TypeInv,
     TypeOK
<1>4. StatusHasEvidence'
  <2>1. job \in [Jobs -> Record]
    BY DEF EvidenceInv, TypeInv, TypeOK
  <2>2. CASE job' = [job EXCEPT ![cur[p]] = Merge(snap[p], goal[p])]
    <3>1. goal[p] \in {"done", "completed"} => HasSubtitle(cur[p])
      BY <1>1 DEF EvidenceInv, Honest
    <3>2. ASSUME NEW k \in Jobs
          PROVE  job'[k] = job[k] \/ (k = cur[p] /\ job'[k] = Merge(snap[p], goal[p]))
      BY <1>1, <2>1, <2>2
    <3> QED
      BY <1>1, <3>1, <3>2, MergeFacts DEF StatusHasEvidence, EvidenceInv,
         HasSubtitle
  <2>3. CASE job' = [job EXCEPT ![cur[p]] = WithExpiration(@)]
    <3>1. ASSUME NEW k \in Jobs
          PROVE  job'[k] = job[k] \/ job'[k] = WithExpiration(job[k])
      BY <2>1, <2>3
    <3> QED
      BY <1>1, <3>1, WithExpirationFacts DEF StatusHasEvidence, EvidenceInv,
         HasSubtitle
  <2>4. CASE UNCHANGED job
    BY <2>4, StatusStays
  <2> QED
    BY <2>2, <2>3, <2>4 DEF GetJob, SetJob, ExpireJob
<1> QED
  BY <1>1, <1>3, <1>4, EventsStay, HistoryStays DEF EvidenceInv

\* A worker that reports what is true.
LEMMA ReportEvidence ==
    ASSUME EvidenceInv, TypeInv', DiskGrows, NEW p \in Procs,
           NEW types \in Seq(EventTypes), Report(p, types),
           pc[p] \in {"get", "search", "enqueue", "translate"},
           \A i \in 1 .. Len(types) : Backed(types[i], cur[p])',
           UNCHANGED <<job, history, events, cur, goal>>
    PROVE  EvidenceInv'
<1>1. /\ cur[p] \in Jobs
      /\ out'[p] = types /\ pc'[p] = "publish"
      /\ \A q \in Procs \ {p} : pc'[q] = pc[q] /\ out'[q] = out[q]
  BY DEF Report, Goto, EvidenceInv, TypeInv, TypeOK, PlaceOK
<1>2. goal[p] \in {"done", "completed"} => HasSubtitle(cur[p])'
  <2>1. goal[p] \in {"done", "completed"} => HasSubtitle(cur[p])
    BY DEF EvidenceInv, Honest
  <2> QED
    BY <1>1, <2>1 DEF HasSubtitle, DiskGrows
<1>3. Honest(p)'
  BY <1>1, <1>2 DEF Honest
<1> QED
  BY <1>1, <1>3, EventsStay, WorkerEvidence

\* The report of a call that raised claims no subtitle.
LEMMA UpdateRaisesEvidence ==
    ASSUME EvidenceInv, TypeInv', DiskGrows, NEW p \in Procs, UpdateRaises(p)
    PROVE  EvidenceInv'
<1>1. /\ pc[p] = "get" /\ UNCHANGED <<job, history, disk, events, cur, goal>>
  BY DEF UpdateRaises
<1>2. CASE Goto(p, "ack") /\ UNCHANGED out
  <2>1. \A q \in Procs : Honest(q)'
    BY <1>1, <1>2 DEF Goto, Honest, HasSubtitle, Backed, EvidenceInv, TypeInv,
       TypeOK
  <2> QED
    BY <1>1, <2>1, StatusStays, EventsStay, HistoryStays DEF EvidenceInv
<1>3. CASE Report(p, <<"job.failed">>)
  <2>1. /\ <<"job.failed">> \in Seq(EventTypes)
        /\ \A i \in 1 .. Len(<<"job.failed">>) :
               Backed(<<"job.failed">>[i], cur[p])'
    BY DEF Backed, EventTypes
  <2> QED
    BY <1>1, <1>3, <2>1, ReportEvidence
<1> QED
  BY <1>2, <1>3 DEF UpdateRaises

LEMMA UpdatePhaseEvidence ==
    ASSUME EvidenceInv, TypeInv', DiskGrows, NEW p \in Procs, UpdatePhase(p)
    PROVE  EvidenceInv'
BY UpdateEvidence, UpdateRaisesEvidence DEF UpdatePhase

LEMMA SearchEvidence ==
    ASSUME EvidenceInv, TypeInv', DiskGrows, NEW p \in Downloaders, Search(p)
    PROVE  EvidenceInv'
<1>1. p \in Procs /\ pc[p] = "search" /\ cur[p] \in Jobs
      /\ UNCHANGED <<job, history, events, cur, goal>>
  BY DEF Search, EvidenceInv, TypeInv, PlaceOK, Procs, Workers
<1>2. CASE FoundRequested(p)
  <2>1. "requested" \in disk'[cur[p]]
    BY <1>1, <1>2 DEF FoundRequested, Store, EvidenceInv, TypeInv, TypeOK
  <2>2. <<"subtitle.ready">> \in Seq(EventTypes)
        /\ \A i \in 1 .. Len(<<"subtitle.ready">>) :
               Backed(<<"subtitle.ready">>[i], cur[p])'
    BY <1>1, <2>1 DEF Backed, EventTypes
  <2> QED
    BY <1>1, <1>2, <2>2, ReportEvidence DEF FoundRequested
<1>3. ASSUME NEW t \in EventTypes \ {"subtitle.ready", "subtitle.translated"},
             Report(p, <<t>>)
      PROVE  EvidenceInv'
  <2>1. <<t>> \in Seq(EventTypes)
        /\ \A i \in 1 .. Len(<<t>>) : Backed(<<t>>[i], cur[p])'
    BY DEF Backed
  <2> QED
    BY <1>1, <1>3, <2>1, ReportEvidence
<1>4. CASE FoundOther(p)
  <2>1. pc'[p] = "enqueue" /\ out'[p] = out[p]
        /\ \A q \in Procs \ {p} : pc'[q] = pc[q] /\ out'[q] = out[q]
    BY <1>1, <1>4 DEF FoundOther, Goto, EvidenceInv, TypeInv, TypeOK
  <2>2. Honest(p)'
    BY <1>1, <2>1 DEF Honest, Backed, HasSubtitle, DiskGrows, EvidenceInv
  <2> QED
    BY <1>1, <2>1, <2>2, EventsStay, WorkerEvidence
<1> QED
  BY <1>2, <1>3, <1>4 DEF Search, NothingSaved, ApiError, EventTypes

LEMMA EnqueueTranslationEvidence ==
    ASSUME EvidenceInv, TypeInv', DiskGrows, NEW p \in Downloaders,
           EnqueueTranslation(p)
    PROVE  EvidenceInv'
<1>1. p \in Procs /\ pc[p] = "enqueue"
      /\ UNCHANGED <<job, history, disk, events, cur, goal>>
  BY DEF EnqueueTranslation, Procs, Workers
<1>2. ASSUME NEW types \in Seq(EventTypes), Report(p, types),
             \A i \in 1 .. Len(types) :
                 types[i] \in {"subtitle.translate.requested", "job.failed"}
      PROVE  EvidenceInv'
  <2>1. \A i \in 1 .. Len(types) : Backed(types[i], cur[p])'
    BY <1>2 DEF Backed
  <2> QED
    BY <1>1, <1>2, <2>1, ReportEvidence
<1>3. CASE Report(p, <<"subtitle.translate.requested">>)
  <2> DEFINE types == <<"subtitle.translate.requested">>
  <2>1. types \in Seq(EventTypes)
        /\ \A i \in 1 .. Len(types) : types[i] = "subtitle.translate.requested"
    BY DEF EventTypes
  <2> HIDE DEF types
  <2>2. Report(p, types)
    BY <1>3 DEF types
  <2> QED
    BY <1>2, <2>1, <2>2
<1>4. CASE Report(p, <<"job.failed", "job.failed">>)
  <2> DEFINE types == <<"job.failed", "job.failed">>
  <2>1. types \in Seq(EventTypes)
        /\ \A i \in 1 .. Len(types) : types[i] = "job.failed"
    BY DEF EventTypes
  <2> HIDE DEF types
  <2>2. Report(p, types)
    BY <1>4 DEF types
  <2> QED
    BY <1>2, <2>1, <2>2
<1> QED
  BY <1>3, <1>4 DEF EnqueueTranslation

LEMMA TranslateEvidence ==
    ASSUME EvidenceInv, TypeInv', DiskGrows, NEW p \in Translators, Translate(p)
    PROVE  EvidenceInv'
<1>1. p \in Procs /\ pc[p] = "translate" /\ cur[p] \in Jobs
      /\ UNCHANGED <<job, history, events, cur>>
  BY DEF Translate, EvidenceInv, TypeInv, PlaceOK, Procs, Workers
<1>2. CASE TranslationFails(p)
  <2>1. <<"job.failed">> \in Seq(EventTypes)
        /\ \A i \in 1 .. Len(<<"job.failed">>) : Backed(<<"job.failed">>[i], cur[p])'
    BY DEF Backed, EventTypes
  <2> QED
    BY <1>1, <1>2, <2>1, ReportEvidence DEF TranslationFails
<1>3. CASE TranslationSaved(p)
  <2> DEFINE done == <<"translation.completed", "subtitle.translated">>
  <2>1. "translated" \in disk'[cur[p]]
    BY <1>1, <1>3 DEF TranslationSaved, Store, EvidenceInv, TypeInv, TypeOK
  <2>2. \A i \in 1 .. Len(done) : Backed(done[i], cur[p])'
    BY <1>1, <2>1 DEF Backed
  <2>3. HasSubtitle(cur[p])'
    BY <1>1, <2>1 DEF HasSubtitle
  <2> HIDE DEF done
  <2>4. /\ pc'[p] = "get" /\ out'[p] = done /\ cur'[p] = cur[p]
        /\ \A q \in Procs \ {p} : /\ pc'[q] = pc[q] /\ out'[q] = out[q]
                                  /\ goal'[q] = goal[q] /\ cur'[q] = cur[q]
    BY <1>1, <1>3 DEF TranslationSaved, Goto, EvidenceInv, TypeInv, TypeOK, done
  <2>5. Honest(p)'
    BY <2>2, <2>3, <2>4 DEF Honest
  <2> QED
    BY <1>1, <2>4, <2>5, EventsStay, WorkerEvidence
<1> QED
  BY <1>2, <1>3 DEF Translate

LEMMA PublishEvidence ==
    ASSUME EvidenceInv, TypeInv', DiskGrows, NEW p \in Workers, Publish(p)
    PROVE  EvidenceInv'
<1>1. /\ p \in Procs /\ pc[p] = "publish" /\ cur[p] \in Jobs
      /\ out[p] # <<>> /\ out[p] \in Seq(EventTypes)
      /\ PublishEvent(Head(out[p]), cur[p])
      /\ UNCHANGED <<job, history, disk, cur, goal>>
  BY DEF Publish, EvidenceInv, TypeInv, TypeOK, PlaceOK, Procs
<1>2. \A i \in 1 .. Len(out[p]) : Backed(out[p][i], cur[p])
  BY <1>1 DEF EvidenceInv, Honest
<1>3. /\ Head(out[p]) \in EventTypes /\ Backed(Head(out[p]), cur[p])
      /\ \A i \in 1 .. Len(Tail(out[p])) : Backed(Tail(out[p])[i], cur[p])
  BY <1>1, <1>2, TailFacts
<1>4. BackedEvents'
  BY <1>1, <1>3, AppendedEventsStay
<1>5. /\ out'[p] = Tail(out[p]) /\ pc'[p] # "idle"
      /\ \A q \in Procs \ {p} : pc'[q] = pc[q] /\ out'[q] = out[q]
  BY <1>1 DEF Publish, Goto, EvidenceInv, TypeInv, TypeOK
<1>6. Honest(p)'
  BY <1>1, <1>3, <1>5 DEF Honest, Backed, HasSubtitle, EvidenceInv
<1> QED
  BY <1>1, <1>4, <1>5, <1>6, WorkerEvidence

LEMMA RecordEvidence ==
    ASSUME EvidenceInv, TypeInv', DiskGrows, RecordEvent
    PROVE  EvidenceInv'
<1> DEFINE j == cur[Consumer]
           t == Head(events).type
<1>1. /\ Consumer \in Procs /\ pc[Consumer] = "record" /\ j \in Jobs
      /\ j = Head(events).job /\ events # <<>>
      /\ UNCHANGED <<job, disk, events, cur, goal, out>>
  BY DEF RecordEvent, EvidenceInv, TypeInv, PlaceOK, ConsumerAtHead, Procs
<1>2. t \in EventTypes /\ Backed(t, j)
  <2>1. Head(events) = events[1] /\ 1 \in 1 .. Len(events)
    BY <1>1, EventFacts, TailFacts DEF EvidenceInv, TypeInv
  <2> QED
    BY <1>1, <2>1, EventFacts DEF EvidenceInv, TypeInv, BackedEvents
<1>3. history \in [Jobs -> Seq(EventTypes)]
  BY DEF EvidenceInv, TypeInv, TypeOK
<1>4. BackedHistory'
  <2>1. CASE UNCHANGED history
    BY <2>1, HistoryStays
  <2>2. CASE history' = [history EXCEPT ![j] = Append(@, t)]
    <3> HIDE DEF j, t
    <3>1. ASSUME NEW i \in 1 .. Len(history'[j])
          PROVE  Backed(history'[j][i], j)
      <4>1. history'[j] = Append(history[j], t) /\ history[j] \in Seq(EventTypes)
        BY <1>1, <1>3, <2>2
      <4>2. /\ Len(history'[j]) = Len(history[j]) + 1
            /\ \A k \in 1 .. Len(history[j]) : history'[j][k] = history[j][k]
            /\ history'[j][Len(history[j]) + 1] = t
        BY <1>2, <4>1, AppendFacts
      <4>3. Len(history[j]) \in Nat
            /\ \A k \in 1 .. Len(history[j]) : Backed(history[j][k], j)
        BY <1>1, <4>1 DEF EvidenceInv, BackedHistory
      <4>4. i \in 1 .. Len(history[j]) \/ i = Len(history[j]) + 1
        BY <4>2, <4>3
      <4> QED
        BY <1>2, <4>2, <4>3, <4>4
    <3>2. ASSUME NEW k \in Jobs \ {j}
          PROVE  history'[k] = history[k]
      BY <1>3, <2>2
    <3> QED
      BY <1>1, <3>1, <3>2 DEF EvidenceInv, BackedHistory, Backed
  <2> QED
    BY <2>1, <2>2 DEF RecordEvent
<1>5. /\ pc'[Consumer] # "idle"
      /\ \A q \in Procs \ {Consumer} : pc'[q] = pc[q]
  BY <1>1 DEF RecordEvent, Goto, EvidenceInv, TypeInv, TypeOK
<1>6. \A q \in Procs : Honest(q)'
  BY <1>1, <1>5 DEF Honest, HasSubtitle, Backed, EvidenceInv
<1> QED
  BY <1>1, <1>4, <1>6, EventsStay, StatusStays DEF EvidenceInv

LEMMA NextEvidence ==
    ASSUME EvidenceInv, [Next]_vars
    PROVE  EvidenceInv'
<1>1. TypeInv' /\ DiskGrows
  BY NextTypeInv, FilesStay DEF EvidenceInv
<1>2. ASSUME NEW j \in Jobs,
             SaveJob(j) \/ SaveRaises(j) \/ ManagerStep(j) \/ CrashManager(j)
      PROVE  EvidenceInv'
  BY <1>1, <1>2, ManagerEvidence
<1>3. ASSUME NEW p \in Downloaders, DownloaderStep(p)
      PROVE  EvidenceInv'
  BY <1>1, <1>3, TakeTaskEvidence, UpdatePhaseEvidence, SearchEvidence,
     EnqueueTranslationEvidence, PublishEvidence, LetGoEvidence
     DEF DownloaderStep, Procs, Workers
<1>4. ASSUME NEW p \in Translators, TranslatorStep(p)
      PROVE  EvidenceInv'
  BY <1>1, <1>4, TakeTaskEvidence, UpdatePhaseEvidence, TranslateEvidence,
     PublishEvidence, LetGoEvidence
     DEF TranslatorStep, Procs, Workers
<1>5. CASE ConsumerStep
  BY <1>1, <1>5, TakeEventEvidence, UpdatePhaseEvidence, RecordEvidence, LetGoEvidence
     DEF ConsumerStep, Procs
<1>6. ASSUME NEW p \in Procs, Failure(p)
      PROVE  EvidenceInv'
  BY <1>1, <1>6, LetGoEvidence
<1>7. CASE UNCHANGED vars
  BY <1>1, <1>7, EveryoneHonest, StatusStays, HistoryStays, EventsStay
     DEF vars, EvidenceInv
<1> QED
  BY <1>2, <1>3, <1>4, <1>5, <1>6, <1>7 DEF Next

\* Whatever fails, however often, and with any number of workers: a job is
\* shown as done only if its subtitle is on the disk and linked, and as failed
\* only with a reason.
THEOREM EvidenceCorrect == Spec => []StatusHasEvidence
<1>1. Init => EvidenceInv
  BY InitEvidence
<1>2. EvidenceInv /\ [Next]_vars => EvidenceInv'
  BY NextEvidence
<1>3. EvidenceInv => StatusHasEvidence
  BY DEF EvidenceInv
<1> QED
  BY <1>1, <1>2, <1>3, PTL DEF Spec


-----------------------------------------------------------------------------
(***************************************************************************)
(* Why no job is forgotten: at any time some queue, worker or record has   *)
(* it in custody, and a process lets go of it only once another has it.    *)
(***************************************************************************)

\* The failures after which the services have forgotten what they had acked,
\* dropped or never recorded. All others lead to a redelivery or a report.
SilentFaults == {"timeout", "history", "hang", "publish", "api"}

Careful == Faults \cap SilentFaults = {}

\* The broker will hand out again what p works on if p does not finish it.
Holds(p, j) == held[p] /\ cur[p] = j /\ pc[p] # "ack"

Reported(j) == OutcomeUnderway(j) \/ OutcomeRecorded(j)
Handled(j) == TranslationPending(j) \/ Reported(j)

LastOut(p) == out[p][Len(out[p])]

\* A job that went to a work queue is there, or with a downloader, or further.
CustodyOfTasks ==
    \A j \in Jobs :
        api[j] \in {"enqueued", "accepted"} => DownloadPending(j) \/ Handled(j)

\* A downloader's last event is an outcome, or it has handed the job over.
CustodyOfDownloader(p) ==
    /\ pc[p] = "publish" => LastOut(p) \in Outcomes \/ Handled(cur[p])
    /\ pc[p] = "ack" => Handled(cur[p])

\* A translator's last event is an outcome.
CustodyOfTranslator(p) ==
    /\ out[p] # <<>> => LastOut(p) \in Outcomes
    /\ pc[p] = "ack" => Reported(cur[p])

\* The consumer acks an event only when its history has it.
CustodyOfConsumer ==
    pc[Consumer] = "ack" => Recorded(Head(events).type, cur[Consumer])

CustodyInv ==
    /\ TypeInv
    /\ CustodyOfTasks
    /\ \A p \in Downloaders : CustodyOfDownloader(p)
    /\ \A p \in Translators : CustodyOfTranslator(p)
    /\ CustodyOfConsumer

LEMMA CarefulUpdates ==
    ASSUME Careful, NEW p
    PROVE  ~UpdateRaises(p)
BY DEF Careful, SilentFaults, UpdateRaises, Fault

LEMMA InitCustody == Init => CustodyInv
<1> SUFFICES ASSUME Init
             PROVE  CustodyInv
  OBVIOUS
<1>1. CustodyOfTasks
  BY DEF Init, CustodyOfTasks
<1>2. \A p \in Procs : pc[p] = "idle" /\ out[p] = <<>>
  BY DEF Init
<1> QED
  BY <1>1, <1>2, InitTypeInv DEF CustodyInv, CustodyOfDownloader,
     CustodyOfTranslator, CustodyOfConsumer, Procs, Workers

LEMMA CustodyImpliesNoJobLost == CustodyInv => NoJobLost
BY DEF CustodyInv, CustodyOfTasks, NoJobLost, Handled, Reported

-----------------------------------------------------------------------------
(* The steps of a process *)

Step(p) ==
    \/ p \in Downloaders /\ DownloaderStep(p)
    \/ p \in Translators /\ TranslatorStep(p)
    \/ p = Consumer /\ ConsumerStep
    \/ Failure(p)

LEMMA NextCases ==
    ASSUME [Next]_vars
    PROVE  \/ \E j \in Jobs : \/ SaveJob(j) \/ SaveRaises(j)
                              \/ ManagerStep(j) \/ CrashManager(j)
           \/ \E p \in Procs : Step(p)
           \/ UNCHANGED vars
BY DEF Next, Step, Procs, Workers

\* A step of p leaves the other processes as they are.
LEMMA OthersRest ==
    ASSUME TypeInv, NEW p \in Procs, Step(p)
    PROVE  \A q \in Procs \ {p} :
               /\ pc'[q] = pc[q] /\ cur'[q] = cur[q]
               /\ held'[q] = held[q] /\ out'[q] = out[q]
<1>0. /\ pc \in [Procs -> {"idle", "get", "set", "expire", "search", "enqueue",
                           "translate", "publish", "record", "ack"}]
      /\ cur \in [Procs -> Jobs \cup {NoOne}]
      /\ held \in [Procs -> BOOLEAN]
      /\ out \in [Procs -> Seq(EventTypes)]
  BY DEF TypeInv, TypeOK
<1>1. ASSUME NEW j, NEW status, Take(p, j, status)
      PROVE  \A q \in Procs \ {p} : /\ pc'[q] = pc[q] /\ cur'[q] = cur[q]
                                    /\ held'[q] = held[q] /\ out'[q] = out[q]
  BY <1>0, <1>1 DEF Take
<1>2. ASSUME Release(p)
      PROVE  \A q \in Procs \ {p} : /\ pc'[q] = pc[q] /\ cur'[q] = cur[q]
                                    /\ held'[q] = held[q] /\ out'[q] = out[q]
  BY <1>0, <1>2 DEF Release
<1>3. ASSUME NEW label, Goto(p, label),
             UNCHANGED out \/ \E types : out' = [out EXCEPT ![p] = types],
             UNCHANGED <<cur, held>>
      PROVE  \A q \in Procs \ {p} : /\ pc'[q] = pc[q] /\ cur'[q] = cur[q]
                                    /\ held'[q] = held[q] /\ out'[q] = out[q]
  BY <1>0, <1>3 DEF Goto
<1>4. CASE UpdatePhase(p)
  BY <1>3, <1>4 DEF UpdatePhase, GetJob, UpdateRaises, SetJob, ExpireJob, Report
<1>5. CASE Search(p) \/ EnqueueTranslation(p) \/ Translate(p)
  BY <1>3, <1>5 DEF Search, FoundRequested, FoundOther, NothingSaved, ApiError,
     EnqueueTranslation, Translate, TranslationSaved, TranslationFails, Report
<1>6. CASE Publish(p)
  BY <1>3, <1>6 DEF Publish
<1>7. CASE p = Consumer /\ RecordEvent
  BY <1>3, <1>7 DEF RecordEvent
<1>8. CASE LoseConnection(p)
  BY <1>0, <1>8 DEF LoseConnection
<1>9. CASE \/ \E j \in Jobs : TakeDownload(p, j) \/ TakeTranslation(p, j)
           \/ p = Consumer /\ TakeEvent
  BY <1>1, <1>9 DEF TakeDownload, TakeTranslation, TakeEvent
<1>10. CASE Ack(p) \/ Timeout(p) \/ Crash(p)
  BY <1>2, <1>10 DEF Ack, Timeout, Crash
<1> QED
  BY <1>4, <1>5, <1>6, <1>7, <1>8, <1>9, <1>10
     DEF Step, DownloaderStep, TranslatorStep, ConsumerStep, Failure

-----------------------------------------------------------------------------
(* What is reported stays reported *)

\* Without the failures that lose or double events, publishing an outcome puts
\* it in the queue.
LEMMA CarefulPublish ==
    ASSUME Careful, TypeOK, NEW j \in Jobs, NEW t \in EventTypes,
           PublishEvent(t, j)
    PROVE  /\ UNCHANGED events \/ events' = Append(events, Event(t, j))
           /\ t \in Outcomes => Queued(t, j)'
<1> DEFINE E == [type : EventTypes, job : Jobs]
           e == Event(t, j)
<1>1. ~Fault("publish")
  BY DEF Careful, SilentFaults, Fault
<1>2. events' = Routed(t, j)
  BY <1>1 DEF PublishEvent
<1>3. events' = events \/ events' = Append(events, e)
  BY <1>2 DEF Routed
<1>4. t \in Outcomes => events' = Append(events, e)
  BY <1>2 DEF Routed, Bound, Outcomes
<1>5. e \in E /\ events \in Seq(E)
  BY DEF Event, TypeOK
<1>6. ASSUME events' = Append(events, e)
      PROVE  \E i \in DOMAIN events' : events'[i] = e
  <2> HIDE DEF E, e
  <2>1. /\ events' \in Seq(E) /\ Len(events') = Len(events) + 1
        /\ events'[Len(events) + 1] = e
    BY <1>5, <1>6, AppendFacts
  <2>2. DOMAIN events' = 1 .. Len(events') /\ Len(events) \in Nat
    BY <1>5, <2>1
  <2> QED
    BY <2>1, <2>2
<1> QED
  BY <1>3, <1>4, <1>6 DEF Queued, Event

\* The queue grows at its end and loses its head only to an ack.
LEMMA QueueMoves ==
    ASSUME Careful, TypeInv, [Next]_vars
    PROVE  \/ UNCHANGED events
           \/ \E t \in EventTypes, j \in Jobs : events' = Append(events, Event(t, j))
           \/ Ack(Consumer) /\ events' = Tail(events)
<1>1. TypeOK
  BY DEF TypeInv
<1>2. ASSUME NEW j \in Jobs,
             SaveJob(j) \/ SaveRaises(j) \/ ManagerStep(j) \/ CrashManager(j)
      PROVE  UNCHANGED events \/
             \E t \in EventTypes : events' = Append(events, Event(t, j))
  <2>1. CASE \E t \in {"subtitle.download.requested", "job.failed"} :
                 PublishEvent(t, j)
    BY <1>1, <2>1, CarefulPublish DEF EventTypes
  <2> QED
    BY <1>2, <2>1 DEF SaveJob, SaveRaises, ManagerStep, EnqueueTask,
       PublishDownloadRequested, PublishFailure, CrashManager
<1>3. ASSUME NEW p \in Procs, Publish(p)
      PROVE  UNCHANGED events \/
             \E t \in EventTypes, j \in Jobs : events' = Append(events, Event(t, j))
  <2>1. /\ cur[p] \in Jobs /\ out[p] \in Seq(EventTypes) /\ out[p] # <<>>
        /\ PublishEvent(Head(out[p]), cur[p])
    BY <1>3 DEF Publish, TypeInv, TypeOK, PlaceOK
  <2>2. Head(out[p]) \in EventTypes
    BY <2>1, TailFacts
  <2> QED
    BY <1>1, <2>1, <2>2, CarefulPublish
<1>4. ASSUME NEW p \in Procs, Ack(p)
      PROVE  UNCHANGED events \/ (Ack(Consumer) /\ events' = Tail(events))
  BY <1>4 DEF Ack
<1>5. ASSUME NEW p \in Procs, Failure(p)
      PROVE  UNCHANGED events
  BY <1>5 DEF Failure, Timeout, Crash, LoseConnection, Careful, SilentFaults,
     Fault
<1>6. ASSUME NEW p \in Procs,
             \/ \E j \in Jobs : TakeDownload(p, j) \/ TakeTranslation(p, j)
             \/ TakeEvent \/ UpdatePhase(p) \/ RecordEvent \/ Search(p)
             \/ EnqueueTranslation(p) \/ Translate(p)
      PROVE  UNCHANGED events
  BY <1>6 DEF TakeDownload, TakeTranslation, TakeEvent, UpdatePhase, GetJob,
     UpdateRaises,
     SetJob, ExpireJob, RecordEvent, Search, EnqueueTranslation, Translate
<1>7. ASSUME NEW p \in Procs, Step(p)
      PROVE  \/ UNCHANGED events
             \/ \E t \in EventTypes, j \in Jobs : events' = Append(events, Event(t, j))
             \/ Ack(Consumer) /\ events' = Tail(events)
  BY <1>3, <1>4, <1>5, <1>6, <1>7
     DEF Step, DownloaderStep, TranslatorStep, ConsumerStep
<1> QED
  BY <1>2, <1>7, NextCases DEF vars

\* Histories only grow.
LEMMA RecordedStays ==
    ASSUME TypeInv, [Next]_vars, NEW j \in Jobs, NEW t, Recorded(t, j)
    PROVE  Recorded(t, j)'
<1>1. history \in [Jobs -> Seq(EventTypes)]
  BY DEF TypeInv, TypeOK
<1>2. CASE UNCHANGED history
  BY <1>2 DEF Recorded
<1>3. CASE RecordEvent
  <2>1. pc[Consumer] = "record" /\ Consumer \in Procs
    BY <1>3 DEF RecordEvent, Procs
  <2>2. cur[Consumer] \in Jobs /\ events # <<>>
    BY <2>1 DEF TypeInv, PlaceOK, ConsumerAtHead
  <2>3. Head(events).type \in EventTypes
    <3>1. Head(events) = events[1] /\ 1 \in 1 .. Len(events)
      BY <2>2, EventFacts, TailFacts DEF TypeInv
    <3> QED
      BY <3>1, EventFacts DEF TypeInv
  <2>4. CASE history' = [history EXCEPT ![cur[Consumer]] =
                             Append(@, Head(events).type)]
    <3>1. CASE j # cur[Consumer]
      BY <1>1, <2>4, <3>1 DEF Recorded
    <3>2. CASE j = cur[Consumer]
      <4> DEFINE e == Head(events).type
      <4> HIDE DEF e
      <4>1. history'[j] = Append(history[j], e) /\ history[j] \in Seq(EventTypes)
            /\ e \in EventTypes
        BY <1>1, <2>3, <2>4, <3>2 DEF e
      <4>2. /\ history'[j] \in Seq(EventTypes)
            /\ Len(history'[j]) = Len(history[j]) + 1
            /\ \A i \in 1 .. Len(history[j]) : history'[j][i] = history[j][i]
        BY <4>1, AppendFacts
      <4>3. /\ DOMAIN history[j] = 1 .. Len(history[j]) /\ Len(history[j]) \in Nat
            /\ DOMAIN history'[j] = 1 .. Len(history'[j])
        BY <4>1, <4>2
      <4> QED
        BY <4>2, <4>3 DEF Recorded
    <3> QED
      BY <3>1, <3>2
  <2> QED
    BY <1>2, <1>3, <2>4 DEF RecordEvent
<1>4. ASSUME NEW k \in Jobs,
             SaveJob(k) \/ SaveRaises(k) \/ ManagerStep(k) \/ CrashManager(k)
      PROVE  UNCHANGED history
  BY <1>4 DEF SaveJob, SaveRaises, ManagerStep, EnqueueTask,
              PublishDownloadRequested, PublishFailure, CrashManager
<1>5. ASSUME NEW p \in Procs, Step(p), ~RecordEvent
      PROVE  UNCHANGED history
  BY <1>5 DEF Step, DownloaderStep, TranslatorStep, ConsumerStep, Failure,
     TakeDownload, TakeTranslation, TakeEvent, UpdatePhase, GetJob,
     UpdateRaises, SetJob,
     ExpireJob, Search, EnqueueTranslation, Translate, Publish, Ack, Timeout,
     Crash, LoseConnection
<1> QED
  BY <1>2, <1>3, <1>4, <1>5, NextCases DEF vars

\* What is queued stays queued until it is recorded.
LEMMA QueuedStays ==
    ASSUME Careful, CustodyInv, [Next]_vars, NEW j \in Jobs, NEW t, Queued(t, j)
    PROVE  Queued(t, j)' \/ Recorded(t, j)'
<1> DEFINE E == [type : EventTypes, job : Jobs]
           e == Event(t, j)
<1>1. /\ events \in Seq(E) /\ Len(events) \in Nat
      /\ DOMAIN events = 1 .. Len(events)
  BY EventFacts DEF CustodyInv, TypeInv
<1>2. PICK i \in 1 .. Len(events) : events[i] = e
  BY <1>1 DEF Queued
<1>3. CASE UNCHANGED events
  BY <1>3 DEF Queued
<1>4. CASE \E u \in EventTypes, k \in Jobs : events' = Append(events, Event(u, k))
  <2>1. PICK f \in E : events' = Append(events, f)
    BY <1>4 DEF Event
  <2> HIDE DEF E, e
  <2>2. /\ events' \in Seq(E) /\ Len(events') = Len(events) + 1
        /\ events'[i] = events[i]
    BY <1>1, <1>2, <2>1, AppendFacts
  <2>3. i \in DOMAIN events'
    BY <1>1, <2>2
  <2> QED
    BY <1>2, <2>2, <2>3 DEF Queued, e
<1>5. CASE pc[Consumer] = "ack" /\ events' = Tail(events)
  <2>1. /\ events # <<>> /\ cur[Consumer] = Head(events).job
        /\ Recorded(Head(events).type, cur[Consumer])
    BY <1>5 DEF CustodyInv, CustodyOfConsumer, TypeInv, ConsumerAtHead
  <2>2. CASE i = 1
    <3>1. Head(events) = e
      BY <1>1, <1>2, <2>1, <2>2, TailFacts
    <3>2. Recorded(t, j)
      BY <2>1, <3>1 DEF Event
    <3> QED
      BY <3>2, RecordedStays DEF CustodyInv
  <2>3. CASE i # 1
    <3> HIDE DEF E, e
    <3>1. /\ Tail(events) \in Seq(E) /\ Len(Tail(events)) = Len(events) - 1
          /\ Tail(events)[i - 1] = events[i]
      BY <1>1, <1>2, <2>1, <2>3, TailFacts
    <3>2. i - 1 \in DOMAIN events'
      BY <1>1, <1>5, <2>3, <3>1
    <3> QED
      BY <1>2, <1>5, <3>1, <3>2 DEF Queued, e
  <2> QED
    BY <2>2, <2>3
<1> QED
  BY <1>3, <1>4, <1>5, QueueMoves DEF CustodyInv, Ack

LEMMA ReportedStays ==
    ASSUME Careful, CustodyInv, [Next]_vars, NEW j \in Jobs, Reported(j)
    PROVE  Reported(j)'
BY QueuedStays, RecordedStays
   DEF Reported, OutcomeUnderway, OutcomeRecorded, CustodyInv

-----------------------------------------------------------------------------
(* A worker lets go of a task only when the job is in other hands *)

\* The publish that ends a handler.
LastPublish(p) == Publish(p) /\ Tail(out[p]) = <<>>

\* After it the last of the handler's events is queued, if it is an outcome.
LEMMA LastPublishReports ==
    ASSUME Careful, TypeInv, NEW p \in Workers, LastPublish(p),
           LastOut(p) \in Outcomes
    PROVE  Reported(cur[p])'
<1>1. /\ p \in Procs /\ cur[p] \in Jobs /\ cur'[p] = cur[p]
      /\ out[p] \in Seq(EventTypes) /\ out[p] # <<>>
      /\ PublishEvent(Head(out[p]), cur[p])
  BY DEF LastPublish, Publish, TypeInv, TypeOK, PlaceOK, Procs
<1>2. /\ Head(out[p]) \in EventTypes /\ Head(out[p]) = out[p][1]
      /\ Len(out[p]) \in Nat /\ Len(Tail(out[p])) = Len(out[p]) - 1
  BY <1>1, TailFacts
<1>3. Len(out[p]) = 1
  <2>1. Tail(out[p]) = <<>>
    BY DEF LastPublish
  <2>2. Tail(out[p]) \in Seq(EventTypes)
    BY <1>1, TailFacts
  <2>3. Len(Tail(out[p])) = 0
    BY <2>1, <2>2, EmptySeq
  <2> QED
    BY <1>2, <2>3
<1>4. PICK t \in EventTypes, j \in Jobs : t = Head(out[p]) /\ j = cur[p]
  BY <1>1, <1>2
<1>5. t \in Outcomes
  BY <1>2, <1>3, <1>4 DEF LastOut
<1>6. PublishEvent(t, j)
  BY <1>1, <1>4
<1>7. Queued(t, j)'
  BY <1>5, <1>6, CarefulPublish DEF TypeInv
<1>8. Reported(j)'
  BY <1>5, <1>7 DEF Reported, OutcomeUnderway
<1> QED
  BY <1>1, <1>4, <1>8

\* Unless it publishes its last event, a worker keeps its task or the broker
\* has it back.
LEMMA HoldsMoves ==
    ASSUME Careful, TypeInv, [Next]_vars, NEW p \in Workers, NEW j \in Jobs,
           Holds(p, j), ~LastPublish(p)
    PROVE  \/ Holds(p, j)'
           \/ p \in Downloaders /\ downloadQ'[j] > 0
           \/ p \in Translators /\ translationQ'[j] > 0
<1>0. /\ p \in Procs /\ p # Consumer
      /\ pc[p] # "idle" /\ pc[p] # "ack" /\ held[p] /\ cur[p] = j
  BY DEF Holds, Procs, TypeInv, PlaceOK
<1>1. CASE UNCHANGED <<pc, cur, held>>
  BY <1>1 DEF Holds
<1>2. ASSUME NEW q \in Procs, Step(q), q # p
      PROVE  Holds(p, j)'
  BY <1>0, <1>2, OthersRest DEF Holds
<1>3. CASE Step(p)
  <2>0. /\ pc \in [Procs -> {"idle", "get", "set", "expire", "search", "enqueue",
                             "translate", "publish", "record", "ack"}]
        /\ downloadQ \in [Jobs -> Nat] /\ translationQ \in [Jobs -> Nat]
    BY DEF TypeInv, TypeOK
  <2>1. ASSUME NEW label \in {"get", "set", "expire", "search", "enqueue",
                              "translate", "publish", "record"},
               Goto(p, label), UNCHANGED <<cur, held>>
        PROVE  Holds(p, j)'
    BY <1>0, <2>0, <2>1 DEF Goto, Holds
  <2>2. CASE UpdatePhase(p)
    BY <1>0, <2>1, <2>2, CarefulUpdates
       DEF UpdatePhase, GetJob, SetJob, ExpireJob, AfterUpdate
  <2>3. CASE Search(p) \/ EnqueueTranslation(p) \/ Translate(p)
    BY <2>1, <2>3 DEF Search, FoundRequested, FoundOther, NothingSaved, ApiError,
       EnqueueTranslation, Translate, TranslationSaved, TranslationFails, Report
  <2>4. CASE Publish(p)
    BY <2>1, <2>4 DEF Publish, LastPublish
  <2>5. CASE Failure(p)
    <3>1. Requeue(p) /\ p \notin Downloaders \cap Translators
      BY <2>5 DEF Failure, Timeout, Crash, LoseConnection, Careful, SilentFaults,
                  Fault
    <3> QED
      BY <1>0, <2>0, <3>1 DEF Requeue, Workers
  <2>6. ~\E k \in Jobs : TakeDownload(p, k) \/ TakeTranslation(p, k)
    BY <1>0 DEF TakeDownload, TakeTranslation, Take
  <2>7. ~Ack(p)
    BY <1>0 DEF Ack
  <2> QED
    BY <1>0, <1>3, <2>2, <2>3, <2>4, <2>5, <2>6, <2>7
       DEF Step, DownloaderStep, TranslatorStep
<1>4. ASSUME NEW k \in Jobs,
             SaveJob(k) \/ SaveRaises(k) \/ ManagerStep(k) \/ CrashManager(k)
      PROVE  UNCHANGED <<pc, cur, held>>
  BY <1>4 DEF SaveJob, SaveRaises, ManagerStep, EnqueueTask,
              PublishDownloadRequested, PublishFailure, CrashManager, procVars
<1> QED
  BY <1>1, <1>2, <1>3, <1>4, NextCases DEF vars

\* A ready task stays ready or is handed to a worker.
LEMMA ReadyMoves ==
    ASSUME TypeInv, [Next]_vars, NEW j \in Jobs
    PROVE  /\ downloadQ[j] > 0 =>
                  downloadQ'[j] > 0 \/ \E p \in Downloaders : Holds(p, j)'
           /\ translationQ[j] > 0 =>
                  translationQ'[j] > 0 \/ \E p \in Translators : Holds(p, j)'
<1>0. /\ downloadQ \in [Jobs -> Nat] /\ translationQ \in [Jobs -> Nat]
      /\ pc \in [Procs -> {"idle", "get", "set", "expire", "search", "enqueue",
                           "translate", "publish", "record", "ack"}]
      /\ cur \in [Procs -> Jobs \cup {NoOne}]
      /\ held \in [Procs -> BOOLEAN]
  BY DEF TypeInv, TypeOK
<1>1. CASE UNCHANGED taskQueues
  BY <1>1 DEF taskQueues
<1>2. ASSUME NEW k \in Jobs, PutDownload(k) \/ PutTranslation(k)
      PROVE  downloadQ'[j] >= downloadQ[j] /\ translationQ'[j] >= translationQ[j]
  BY <1>0, <1>2 DEF PutDownload, PutTranslation
<1>3. ASSUME NEW p \in Procs, Requeue(p), cur[p] \in Jobs
      PROVE  downloadQ'[j] >= downloadQ[j] /\ translationQ'[j] >= translationQ[j]
  BY <1>0, <1>3 DEF Requeue
<1>4. ASSUME NEW p \in Downloaders, NEW k \in Jobs, TakeDownload(p, k)
      PROVE  /\ downloadQ'[j] = downloadQ[j] \/ Holds(p, j)'
             /\ UNCHANGED translationQ
  BY <1>0, <1>4 DEF TakeDownload, Take, Holds, Procs, Workers
<1>5. ASSUME NEW p \in Translators, NEW k \in Jobs, TakeTranslation(p, k)
      PROVE  /\ translationQ'[j] = translationQ[j] \/ Holds(p, j)'
             /\ UNCHANGED downloadQ
  BY <1>0, <1>5 DEF TakeTranslation, Take, Holds, Procs, Workers
<1>6. ASSUME NEW k \in Jobs,
             SaveJob(k) \/ SaveRaises(k) \/ ManagerStep(k) \/ CrashManager(k)
      PROVE  UNCHANGED taskQueues \/ PutDownload(k) \/ PutTranslation(k)
  BY <1>6 DEF SaveJob, SaveRaises, ManagerStep, EnqueueTask, PutTask,
              PublishDownloadRequested, PublishFailure, CrashManager
<1>7. ASSUME NEW p \in Downloaders, EnqueueTranslation(p)
      PROVE  UNCHANGED taskQueues \/ PutTranslation(cur[p])
  BY <1>7 DEF EnqueueTranslation
<1>8. ASSUME NEW p \in Downloaders, EnqueueTranslation(p)
      PROVE  cur[p] \in Jobs
  BY <1>8 DEF EnqueueTranslation, TypeInv, PlaceOK, Procs, Workers
<1>9. ASSUME NEW p \in Procs, Failure(p)
      PROVE  UNCHANGED taskQueues \/ (Requeue(p) /\ cur[p] \in Jobs)
  BY <1>9 DEF Failure, Timeout, Crash, LoseConnection, TypeInv, PlaceOK
<1>10. ASSUME NEW p \in Procs,
              \/ TakeEvent \/ UpdatePhase(p) \/ RecordEvent \/ Search(p)
              \/ Translate(p) \/ Publish(p) \/ Ack(p)
       PROVE  UNCHANGED taskQueues
  BY <1>10 DEF TakeEvent, UpdatePhase, GetJob, UpdateRaises, SetJob, ExpireJob,
               RecordEvent, Search, Translate, Publish, Ack
<1>11. ASSUME NEW p \in Procs, Step(p)
       PROVE  \/ UNCHANGED taskQueues
              \/ \E k \in Jobs : PutTranslation(k)
              \/ Requeue(p) /\ cur[p] \in Jobs
              \/ p \in Downloaders /\ \E k \in Jobs : TakeDownload(p, k)
              \/ p \in Translators /\ \E k \in Jobs : TakeTranslation(p, k)
  BY <1>7, <1>8, <1>9, <1>10, <1>11
     DEF Step, DownloaderStep, TranslatorStep, ConsumerStep
<1>12. CASE downloadQ'[j] >= downloadQ[j] /\ translationQ'[j] >= translationQ[j]
  <2>1. downloadQ'[j] \in Nat /\ translationQ'[j] \in Nat
    BY NextTypeInv DEF TypeInv, TypeOK
  <2> QED
    BY <1>0, <1>12, <2>1
<1>13. ASSUME NEW p \in Procs, Step(p)
       PROVE  \/ downloadQ'[j] >= downloadQ[j] /\ translationQ'[j] >= translationQ[j]
              \/ p \in Downloaders /\ \E k \in Jobs : TakeDownload(p, k)
              \/ p \in Translators /\ \E k \in Jobs : TakeTranslation(p, k)
  <2>1. CASE UNCHANGED taskQueues
    BY <1>0, <2>1 DEF taskQueues
  <2>2. CASE \E k \in Jobs : PutTranslation(k)
    BY <1>2, <2>2
  <2>3. CASE Requeue(p) /\ cur[p] \in Jobs
    BY <1>3, <2>3
  <2> QED
    BY <1>11, <1>13, <2>1, <2>2, <2>3
<1>14. ASSUME NEW k \in Jobs,
              SaveJob(k) \/ SaveRaises(k) \/ ManagerStep(k) \/ CrashManager(k)
       PROVE  downloadQ'[j] >= downloadQ[j] /\ translationQ'[j] >= translationQ[j]
  <2>1. CASE UNCHANGED taskQueues
    BY <1>0, <2>1 DEF taskQueues
  <2> QED
    BY <1>2, <1>6, <1>14, <2>1
<1>15. CASE \E p \in Downloaders, k \in Jobs : TakeDownload(p, k)
  BY <1>4, <1>15
<1>16. CASE \E p \in Translators, k \in Jobs : TakeTranslation(p, k)
  BY <1>5, <1>16
<1>17. CASE UNCHANGED vars
  BY <1>1, <1>17 DEF vars, taskQueues
<1> QED
  BY <1>12, <1>13, <1>14, <1>15, <1>16, <1>17, NextCases


\* What is handed to the translators, or reported, stays so.
LEMMA HandledStays ==
    ASSUME Careful, CustodyInv, [Next]_vars, NEW j \in Jobs, Handled(j)
    PROVE  Handled(j)'
<1>0. TypeInv
  BY DEF CustodyInv
<1>1. CASE Reported(j)
  BY <1>1, ReportedStays DEF Handled
<1>2. CASE translationQ[j] > 0
  <2>1. translationQ'[j] > 0 \/ \E p \in Translators : Holds(p, j)'
    BY <1>0, <1>2, ReadyMoves
  <2> QED
    BY <2>1 DEF Handled, TranslationPending, Holds
<1>3. ASSUME NEW p \in Translators, Holds(p, j)
      PROVE  Handled(j)'
  <2>0. p \in Workers /\ p \notin Downloaders
    BY DEF Workers
  <2>1. CASE LastPublish(p)
    <3>1. cur[p] = j /\ cur'[p] = cur[p] /\ out[p] # <<>>
      BY <1>0, <1>3, <2>0, <2>1
         DEF LastPublish, Publish, Holds, TypeInv, PlaceOK, Procs
    <3>2. LastOut(p) \in Outcomes
      BY <3>1 DEF CustodyInv, CustodyOfTranslator
    <3>3. Reported(cur[p])'
      BY <1>0, <2>0, <2>1, <3>2, LastPublishReports
    <3> QED
      BY <3>1, <3>3 DEF Handled
  <2>2. CASE ~LastPublish(p)
    <3>1. Holds(p, j)' \/ translationQ'[j] > 0
      BY <1>0, <1>3, <2>0, <2>2, HoldsMoves
    <3> QED
      BY <3>1 DEF Handled, TranslationPending, Holds
  <2> QED
    BY <2>1, <2>2
<1> QED
  BY <1>1, <1>2, <1>3 DEF Handled, TranslationPending, Holds

\* What the downloaders have, they keep, hand over or report.
LEMMA DownloadStays ==
    ASSUME Careful, CustodyInv, [Next]_vars, NEW j \in Jobs, DownloadPending(j)
    PROVE  DownloadPending(j)' \/ Handled(j)'
<1>0. TypeInv
  BY DEF CustodyInv
<1>1. CASE downloadQ[j] > 0
  <2>1. downloadQ'[j] > 0 \/ \E p \in Downloaders : Holds(p, j)'
    BY <1>0, <1>1, ReadyMoves
  <2> QED
    BY <2>1 DEF DownloadPending, Holds
<1>2. ASSUME NEW p \in Downloaders, Holds(p, j)
      PROVE  DownloadPending(j)' \/ Handled(j)'
  <2>0. p \in Workers /\ p \notin Translators
    BY DEF Workers
  <2>1. CASE LastPublish(p)
    <3>1. cur[p] = j /\ cur'[p] = cur[p] /\ pc[p] = "publish"
      BY <1>2, <2>1 DEF LastPublish, Publish, Holds
    <3>2. CASE LastOut(p) \in Outcomes
      <4>1. Reported(cur[p])'
        BY <1>0, <2>0, <2>1, <3>2, LastPublishReports
      <4> QED
        BY <3>1, <4>1 DEF Handled
    <3>3. CASE LastOut(p) \notin Outcomes
      <4>1. Handled(j)
        BY <3>1, <3>3 DEF CustodyInv, CustodyOfDownloader
      <4> QED
        BY <4>1, HandledStays
    <3> QED
      BY <3>2, <3>3
  <2>2. CASE ~LastPublish(p)
    <3>1. Holds(p, j)' \/ downloadQ'[j] > 0
      BY <1>0, <1>2, <2>0, <2>2, HoldsMoves
    <3> QED
      BY <3>1 DEF DownloadPending, Holds
  <2> QED
    BY <2>1, <2>2
<1> QED
  BY <1>1, <1>2 DEF DownloadPending, Holds

-----------------------------------------------------------------------------
(* The invariant is inductive *)

\* A step of p, or of the manager, leaves the other processes as they are.
LEMMA SelfOrSame ==
    ASSUME TypeInv, [Next]_vars, NEW p \in Procs
    PROVE  \/ Step(p)
           \/ pc'[p] = pc[p] /\ cur'[p] = cur[p] /\ out'[p] = out[p]
<1>1. ASSUME NEW k \in Jobs,
             SaveJob(k) \/ SaveRaises(k) \/ ManagerStep(k) \/ CrashManager(k)
      PROVE  UNCHANGED <<pc, cur, out>>
  BY <1>1 DEF SaveJob, SaveRaises, ManagerStep, EnqueueTask,
              PublishDownloadRequested, PublishFailure, CrashManager, procVars
<1>2. CASE UNCHANGED <<pc, cur, out>>
  BY <1>2
<1>3. ASSUME NEW q \in Procs, Step(q), q # p
      PROVE  pc'[p] = pc[p] /\ cur'[p] = cur[p] /\ out'[p] = out[p]
  BY <1>3, OthersRest
<1> QED
  BY <1>1, <1>2, <1>3, NextCases DEF vars

\* A publish leaves the last of the handler's events for last.
LEMMA PublishMoves ==
    ASSUME TypeInv, NEW p \in Workers, Publish(p)
    PROVE  /\ cur'[p] = cur[p]
           /\ LastPublish(p) => out'[p] = <<>> /\ pc'[p] = "ack"
           /\ ~LastPublish(p) => /\ out'[p] # <<>> /\ pc'[p] = "publish"
                                 /\ LastOut(p)' = LastOut(p)
<1>1. /\ p \in Procs /\ out[p] \in Seq(EventTypes) /\ out[p] # <<>>
      /\ out' = [out EXCEPT ![p] = Tail(@)] /\ out \in [Procs -> Seq(EventTypes)]
      /\ pc' = [pc EXCEPT ![p] = IF Tail(out[p]) = <<>> THEN "ack" ELSE "publish"]
      /\ pc \in [Procs -> {"idle", "get", "set", "expire", "search", "enqueue",
                           "translate", "publish", "record", "ack"}]
      /\ cur' = cur
  BY DEF Publish, Goto, TypeInv, TypeOK, PlaceOK, Procs
<1>2. out'[p] = Tail(out[p])
  BY <1>1
<1>3. pc'[p] = IF Tail(out[p]) = <<>> THEN "ack" ELSE "publish"
  BY <1>1
<1>4. ASSUME Tail(out[p]) # <<>>
      PROVE  LastOut(p)' = LastOut(p)
  <2> DEFINE o == out[p]
  <2>1. o \in Seq(EventTypes) /\ o # <<>> /\ Tail(o) # <<>>
    BY <1>1, <1>4
  <2> HIDE DEF o
  <2>2. /\ Len(o) \in Nat \ {0} /\ Tail(o) \in Seq(EventTypes)
        /\ Len(Tail(o)) = Len(o) - 1
        /\ \A i \in 1 .. Len(o) - 1 : Tail(o)[i] = o[i + 1]
    BY <2>1, TailFacts
  <2>3. Len(Tail(o)) \in Nat \ {0}
    BY <2>1, <2>2, EmptySeq
  <2>4. Tail(o)[Len(Tail(o))] = o[Len(o)]
    BY <2>2, <2>3
  <2> QED
    BY <1>2, <2>4 DEF LastOut, o
<1> QED
  BY <1>1, <1>2, <1>3, <1>4 DEF LastPublish

\* A job goes to the queues together with its task.
LEMMA TasksKept ==
    ASSUME Careful, CustodyInv, [Next]_vars
    PROVE  CustodyOfTasks'
<1> SUFFICES ASSUME NEW j \in Jobs, api'[j] \in {"enqueued", "accepted"}
             PROVE  DownloadPending(j)' \/ Handled(j)'
  BY DEF CustodyOfTasks
<1>0. /\ api \in [Jobs -> {"new", "saved", "enqueued", "failing",
                           "accepted", "rejected", "aborted"}]
      /\ downloadQ \in [Jobs -> Nat] /\ translationQ \in [Jobs -> Nat]
  BY DEF CustodyInv, TypeInv, TypeOK
<1>1. CASE api[j] \in {"enqueued", "accepted"}
  <2>1. DownloadPending(j) \/ Handled(j)
    BY <1>1 DEF CustodyInv, CustodyOfTasks
  <2> QED
    BY <2>1, DownloadStays, HandledStays
<1>2. CASE EnqueueTask(j)
  <2>1. PutTask(j)
    BY <1>0, <1>2 DEF EnqueueTask
  <2>2. downloadQ'[j] > 0 \/ translationQ'[j] > 0
    BY <1>0, <2>1 DEF PutTask, PutDownload, PutTranslation
  <2> QED
    BY <2>2 DEF DownloadPending, Handled, TranslationPending
<1>3. ASSUME api[j] \notin {"enqueued", "accepted"}, ~EnqueueTask(j)
      PROVE  FALSE
  <2>1. ASSUME NEW k \in Jobs,
               SaveJob(k) \/ SaveRaises(k) \/ ManagerStep(k) \/ CrashManager(k)
        PROVE  FALSE
    <3>1. CASE k = j
      BY <1>0, <1>3, <2>1, <3>1 DEF SaveJob, SaveRaises, ManagerStep,
         PublishDownloadRequested, PublishFailure, CrashManager
    <3>2. CASE k # j
      BY <1>0, <1>3, <2>1, <3>2 DEF SaveJob, SaveRaises, ManagerStep, EnqueueTask,
         PublishDownloadRequested, PublishFailure, CrashManager
    <3> QED
      BY <3>1, <3>2
  <2>2. ASSUME NEW p \in Procs, Step(p)
        PROVE  UNCHANGED api
    BY <2>2 DEF Step, DownloaderStep, TranslatorStep, ConsumerStep, Failure,
       TakeDownload, TakeTranslation, TakeEvent, UpdatePhase, GetJob,
       UpdateRaises, SetJob,
       ExpireJob, RecordEvent, Search, EnqueueTranslation, Translate, Publish,
       Ack, Timeout, Crash, LoseConnection
  <2> QED
    BY <1>3, <2>1, <2>2, NextCases DEF vars
<1> QED
  BY <1>1, <1>2, <1>3

\* A downloader finds an outcome to report, or puts the task to translate on
\* its queue before it announces it.
LEMMA DownloaderKeeps ==
    ASSUME Careful, CustodyInv, [Next]_vars, NEW p \in Downloaders
    PROVE  CustodyOfDownloader(p)'
<1>0. /\ p \in Workers /\ p \in Procs /\ p \notin Translators /\ p # Consumer
      /\ TypeInv
  BY DEF CustodyInv, Workers, Procs
<1>1. /\ pc \in [Procs -> {"idle", "get", "set", "expire", "search", "enqueue",
                           "translate", "publish", "record", "ack"}]
      /\ cur \in [Procs -> Jobs \cup {NoOne}] /\ out \in [Procs -> Seq(EventTypes)]
      /\ translationQ \in [Jobs -> Nat]
      /\ pc[p] # "idle" => cur[p] \in Jobs
  BY <1>0 DEF TypeInv, TypeOK, PlaceOK
<1>2. CustodyOfDownloader(p)
  BY DEF CustodyInv
<1>3. ASSUME pc[p] # "idle", Handled(cur[p]), cur'[p] = cur[p]
      PROVE  Handled(cur[p])'
  <2>1. PICK j \in Jobs : j = cur[p]
    BY <1>1, <1>3
  <2>2. Handled(j)'
    BY <1>3, <2>1, HandledStays
  <2> QED
    BY <1>3, <2>1, <2>2
<1>4. CASE pc'[p] = pc[p] /\ cur'[p] = cur[p] /\ out'[p] = out[p]
  BY <1>2, <1>3, <1>4 DEF CustodyOfDownloader, LastOut
<1>5. CASE pc'[p] \notin {"publish", "ack"}
  BY <1>5 DEF CustodyOfDownloader
<1>6. CASE Search(p)
  <2>1. ~ApiError(p)
    BY DEF Careful, SilentFaults, ApiError, Fault
  <2>2. CASE \E t \in Outcomes : Report(p, <<t>>)
    <3>1. PICK t \in Outcomes : Report(p, <<t>>)
      BY <2>2
    <3>2. out'[p] = <<t>> /\ pc'[p] = "publish"
      BY <1>0, <1>1, <3>1 DEF Report, Goto
    <3>3. LastOut(p)' \in Outcomes
      BY <3>1, <3>2 DEF LastOut
    <3> QED
      BY <3>2, <3>3 DEF CustodyOfDownloader
  <2>3. CASE FoundOther(p)
    <3>1. pc'[p] = "enqueue"
      BY <1>0, <1>1, <2>3 DEF FoundOther, Goto
    <3> QED
      BY <1>5, <3>1
  <2> QED
    BY <1>6, <2>1, <2>2, <2>3 DEF Search, FoundRequested, NothingSaved, Outcomes
<1>7. CASE EnqueueTranslation(p)
  <2>1. cur'[p] = cur[p] /\ pc[p] = "enqueue" /\ cur[p] \in Jobs
    BY <1>1, <1>7 DEF EnqueueTranslation
  <2>2. CASE Report(p, <<"job.failed", "job.failed">>)
    <3>1. out'[p] = <<"job.failed", "job.failed">> /\ pc'[p] = "publish"
      BY <1>0, <1>1, <2>2 DEF Report, Goto
    <3>2. LastOut(p)' \in Outcomes
      BY <3>1 DEF LastOut, Outcomes
    <3> QED
      BY <3>1, <3>2 DEF CustodyOfDownloader
  <2>3. CASE PutTranslation(cur[p]) /\ Report(p, <<"subtitle.translate.requested">>)
    <3>1. pc'[p] = "publish"
      BY <1>0, <1>1, <2>3 DEF Report, Goto
    <3>2. translationQ'[cur[p]] > 0
      BY <1>1, <2>1, <2>3 DEF PutTranslation
    <3>3. Handled(cur[p])'
      BY <2>1, <3>2 DEF Handled, TranslationPending
    <3> QED
      BY <3>1, <3>3 DEF CustodyOfDownloader
  <2> QED
    BY <1>7, <2>2, <2>3 DEF EnqueueTranslation
<1>8. CASE Publish(p)
  <2>1. pc[p] = "publish"
    BY <1>8 DEF Publish
  <2>2. LastOut(p) \in Outcomes \/ Handled(cur[p])
    BY <1>2, <2>1 DEF CustodyOfDownloader
  <2>3. CASE ~LastPublish(p)
    BY <1>0, <1>3, <1>8, <2>1, <2>2, <2>3, PublishMoves DEF CustodyOfDownloader
  <2>4. CASE LastPublish(p)
    <3>1. cur'[p] = cur[p] /\ pc'[p] = "ack"
      BY <1>0, <1>8, <2>4, PublishMoves
    <3>2. CASE LastOut(p) \in Outcomes
      BY <1>0, <2>4, <3>1, <3>2, LastPublishReports
         DEF CustodyOfDownloader, Handled
    <3>3. CASE Handled(cur[p])
      BY <1>3, <2>1, <3>1, <3>3 DEF CustodyOfDownloader
    <3> QED
      BY <2>2, <3>2, <3>3
  <2> QED
    BY <2>3, <2>4
<1>9. CASE \/ \E j \in Jobs : TakeDownload(p, j)
           \/ UpdatePhase(p) \/ Ack(p) \/ Timeout(p) \/ Crash(p)
  <2>1. pc'[p] \notin {"publish", "ack"}
    BY <1>0, <1>1, <1>9, CarefulUpdates
       DEF TakeDownload, Take, UpdatePhase, GetJob, SetJob, ExpireJob,
           AfterUpdate, Goto, Ack, Timeout, Crash, Release
  <2> QED
    BY <1>5, <2>1
<1>10. CASE LoseConnection(p)
  BY <1>4, <1>10 DEF LoseConnection
<1> QED
  BY <1>0, <1>4, <1>6, <1>7, <1>8, <1>9, <1>10, SelfOrSame
     DEF Step, DownloaderStep, Failure

\* A translator always ends with an outcome.
LEMMA TranslatorKeeps ==
    ASSUME Careful, CustodyInv, [Next]_vars, NEW p \in Translators
    PROVE  CustodyOfTranslator(p)'
<1>0. /\ p \in Workers /\ p \in Procs /\ p \notin Downloaders /\ p # Consumer
      /\ TypeInv
  BY DEF CustodyInv, Workers, Procs
<1>1. /\ pc \in [Procs -> {"idle", "get", "set", "expire", "search", "enqueue",
                           "translate", "publish", "record", "ack"}]
      /\ cur \in [Procs -> Jobs \cup {NoOne}] /\ out \in [Procs -> Seq(EventTypes)]
      /\ pc[p] # "idle" => cur[p] \in Jobs
      /\ pc[p] = "publish" => out[p] # <<>>
  BY <1>0 DEF TypeInv, TypeOK, PlaceOK
<1>2. CustodyOfTranslator(p)
  BY DEF CustodyInv
<1>3. ASSUME pc[p] # "idle", Reported(cur[p]), cur'[p] = cur[p]
      PROVE  Reported(cur[p])'
  <2>1. PICK j \in Jobs : j = cur[p]
    BY <1>1, <1>3
  <2>2. Reported(j)'
    BY <1>3, <2>1, ReportedStays
  <2> QED
    BY <1>3, <2>1, <2>2
<1>4. CASE pc'[p] = pc[p] /\ cur'[p] = cur[p] /\ out'[p] = out[p]
  BY <1>2, <1>3, <1>4 DEF CustodyOfTranslator, LastOut
<1>5. CASE out'[p] = out[p] /\ pc'[p] # "ack"
  BY <1>2, <1>5 DEF CustodyOfTranslator, LastOut
<1>6. CASE Translate(p)
  <2>1. pc'[p] # "ack"
    BY <1>0, <1>1, <1>6 DEF Translate, TranslationSaved, TranslationFails,
       Report, Goto
  <2>2. \/ out'[p] = <<"translation.completed", "subtitle.translated">>
        \/ out'[p] = <<"job.failed">>
    BY <1>0, <1>1, <1>6 DEF Translate, TranslationSaved, TranslationFails, Report
  <2>3. CASE out'[p] = <<"translation.completed", "subtitle.translated">>
    <3>1. LastOut(p)' = "subtitle.translated"
      BY <2>3 DEF LastOut
    <3> QED
      BY <2>1, <3>1 DEF CustodyOfTranslator, Outcomes
  <2>4. CASE out'[p] = <<"job.failed">>
    <3>1. LastOut(p)' = "job.failed"
      BY <2>4 DEF LastOut
    <3> QED
      BY <2>1, <3>1 DEF CustodyOfTranslator, Outcomes
  <2> QED
    BY <2>2, <2>3, <2>4
<1>7. CASE Publish(p)
  <2>1. LastOut(p) \in Outcomes
    BY <1>1, <1>2, <1>7 DEF Publish, CustodyOfTranslator
  <2>2. CASE ~LastPublish(p)
    BY <1>0, <1>7, <2>1, <2>2, PublishMoves DEF CustodyOfTranslator
  <2>3. CASE LastPublish(p)
    <3>1. cur'[p] = cur[p] /\ out'[p] = <<>>
      BY <1>0, <1>7, <2>3, PublishMoves
    <3>2. Reported(cur[p])'
      BY <1>0, <2>1, <2>3, LastPublishReports
    <3> QED
      BY <3>1, <3>2 DEF CustodyOfTranslator
  <2> QED
    BY <2>2, <2>3
<1>8. CASE (\E j \in Jobs : TakeTranslation(p, j)) \/ UpdatePhase(p)
  <2>1. out' = out
    BY <1>8, CarefulUpdates
       DEF TakeTranslation, Take, UpdatePhase, GetJob, SetJob, ExpireJob
  <2>2. pc'[p] # "ack"
    BY <1>0, <1>1, <1>8, CarefulUpdates
       DEF TakeTranslation, Take, UpdatePhase, GetJob, SetJob, ExpireJob,
           AfterUpdate, Goto
  <2> QED
    BY <1>5, <2>1, <2>2
<1>9. CASE Ack(p) \/ Timeout(p) \/ Crash(p)
  <2>1. out'[p] = <<>> /\ pc'[p] # "ack"
    BY <1>0, <1>1, <1>9 DEF Ack, Timeout, Crash, Release
  <2> QED
    BY <2>1 DEF CustodyOfTranslator
<1>10. CASE LoseConnection(p)
  BY <1>4, <1>10 DEF LoseConnection
<1> QED
  BY <1>0, <1>4, <1>6, <1>7, <1>8, <1>9, <1>10, SelfOrSame
     DEF Step, TranslatorStep, Failure

\* The consumer records an event before it acks it, and its head stays put.
LEMMA ConsumerKeeps ==
    ASSUME Careful, CustodyInv, [Next]_vars
    PROVE  CustodyOfConsumer'
<1> SUFFICES ASSUME pc'[Consumer] = "ack"
             PROVE  Recorded(Head(events).type, cur[Consumer])'
  BY DEF CustodyOfConsumer
<1>0. TypeInv /\ Consumer \in Procs /\ Consumer \notin Workers
  BY DEF CustodyInv, Procs
<1>1. /\ pc \in [Procs -> {"idle", "get", "set", "expire", "search", "enqueue",
                           "translate", "publish", "record", "ack"}]
      /\ cur \in [Procs -> Jobs \cup {NoOne}]
      /\ history \in [Jobs -> Seq(EventTypes)]
      /\ pc[Consumer] # "idle" => cur[Consumer] \in Jobs /\ events # <<>>
  BY <1>0 DEF TypeInv, TypeOK, PlaceOK, ConsumerAtHead
<1>2. CASE RecordEvent
  <2>1. /\ cur' = cur /\ events' = events /\ cur[Consumer] \in Jobs /\ events # <<>>
        /\ history' = [history EXCEPT ![cur[Consumer]] =
                           Append(@, Head(events).type)]
    BY <1>1, <1>2 DEF RecordEvent, Careful, SilentFaults, Fault
  <2>2. PICK j \in Jobs : j = cur[Consumer]
    BY <2>1
  <2> DEFINE t == Head(events).type
  <2>3. t \in EventTypes
    <3>1. Head(events) = events[1] /\ 1 \in 1 .. Len(events)
      BY <1>0, <2>1, EventFacts, TailFacts DEF TypeInv
    <3> QED
      BY <1>0, <3>1, EventFacts DEF TypeInv
  <2>4. /\ history'[j] = Append(history[j], t) /\ history[j] \in Seq(EventTypes)
        /\ t' = t
    BY <1>1, <2>1, <2>2
  <2> HIDE DEF t
  <2>5. /\ history'[j] \in Seq(EventTypes) /\ Len(history[j]) \in Nat
        /\ Len(history'[j]) = Len(history[j]) + 1
        /\ history'[j][Len(history[j]) + 1] = t
    BY <2>3, <2>4, AppendFacts
  <2>6. Len(history[j]) + 1 \in DOMAIN history'[j]
    BY <2>5
  <2>7. \E i \in DOMAIN history'[j] : history'[j][i] = t'
    BY <2>4, <2>5, <2>6
  <2>8. cur'[Consumer] = j
    BY <2>1, <2>2
  <2> QED
    BY <2>7, <2>8 DEF Recorded, t
<1>3. CASE pc[Consumer] = "ack" /\ cur'[Consumer] = cur[Consumer]
  <2>1. PICK j \in Jobs : j = cur[Consumer]
    BY <1>1, <1>3
  <2>2. PICK t : t = Head(events).type
    OBVIOUS
  <2>3. Recorded(t, j)'
    BY <1>0, <1>3, <2>1, <2>2, RecordedStays DEF CustodyInv, CustodyOfConsumer
  <2>4. ~Ack(Consumer)
    BY <1>0, <1>1 DEF Ack, Release
  <2>5. Head(events)' = Head(events)
    <3>1. CASE UNCHANGED events
      BY <3>1
    <3>2. CASE \E u \in EventTypes, k \in Jobs :
                   events' = Append(events, Event(u, k))
      <4> DEFINE E == [type : EventTypes, job : Jobs]
      <4>1. PICK e \in E : events' = Append(events, e)
        BY <3>2 DEF Event
      <4>2. events \in Seq(E) /\ events # <<>>
        BY <1>0, <1>1, <1>3, EventFacts DEF TypeInv
      <4> HIDE DEF E
      <4> QED
        BY <4>1, <4>2, AppendFacts
    <3> QED
      BY <1>0, <2>4, <3>1, <3>2, QueueMoves
  <2> QED
    BY <1>3, <2>1, <2>2, <2>3, <2>5
<1>4. CASE pc'[Consumer] = pc[Consumer] /\ cur'[Consumer] = cur[Consumer]
  BY <1>3, <1>4
<1>5. CASE TakeEvent \/ UpdatePhase(Consumer)
  BY <1>0, <1>1, <1>5, CarefulUpdates
     DEF TakeEvent, Take, UpdatePhase, GetJob, SetJob, ExpireJob, AfterUpdate,
        Goto
<1>6. CASE Ack(Consumer) \/ Timeout(Consumer) \/ Crash(Consumer)
  BY <1>0, <1>1, <1>6 DEF Ack, Timeout, Crash, Release
<1>7. CASE LoseConnection(Consumer)
  BY <1>4, <1>7 DEF LoseConnection
<1> QED
  BY <1>0, <1>2, <1>4, <1>5, <1>6, <1>7, SelfOrSame
     DEF Step, ConsumerStep, Failure, Workers

LEMMA NextCustody ==
    ASSUME Careful, CustodyInv, [Next]_vars
    PROVE  CustodyInv'
<1>1. TypeInv'
  BY NextTypeInv DEF CustodyInv
<1> QED
  BY <1>1, TasksKept, DownloaderKeeps, TranslatorKeeps, ConsumerKeeps
     DEF CustodyInv

\* If no handler is cut off by its timeout, no event and no history entry is
\* lost and the OpenSubtitles API raises no error, a job that was taken on is
\* never forgotten, whatever crashes, lost connections, Redis failures and
\* failed enqueues there are (the redeliveries of the work queues, the
\* requeueing broker and the publish that precedes each ack).
THEOREM NothingForgotten == Careful => (Spec => []NoJobLost)
<1> SUFFICES ASSUME Careful
             PROVE  Spec => []NoJobLost
  OBVIOUS
<1>1. CustodyInv /\ [Next]_vars => CustodyInv'
  BY NextCustody
<1> QED
  BY <1>1, InitCustody, CustodyImpliesNoJobLost, PTL DEF Spec

-----------------------------------------------------------------------------
(* The services only work on jobs that a client has requested *)

Known == {j \in Jobs : api[j] # "new"}

KnownTasks ==
    \A j \in Jobs : downloadQ[j] > 0 \/ translationQ[j] > 0 => j \in Known

KnownWork == \A p \in Procs : pc[p] # "idle" => cur[p] \in Known

KnownEvents == events \in Seq([type : EventTypes, job : Known])

KnownInv == TypeInv /\ KnownTasks /\ KnownWork /\ KnownEvents

LEMMA InitKnown == Init => KnownInv
<1> SUFFICES ASSUME Init
             PROVE  KnownInv
  OBVIOUS
<1>1. KnownTasks /\ KnownWork
  BY DEF Init, KnownTasks, KnownWork
<1>2. KnownEvents
  BY EmptySeq DEF Init, KnownEvents
<1> QED
  BY <1>1, <1>2, InitTypeInv DEF KnownInv

\* A request is never unmade.
LEMMA KnownStays ==
    ASSUME TypeInv, [Next]_vars
    PROVE  Known \subseteq Known'
<1>0. api \in [Jobs -> {"new", "saved", "enqueued", "failing",
                        "accepted", "rejected", "aborted"}]
  BY DEF TypeInv, TypeOK
<1>1. ASSUME NEW j \in Jobs,
             SaveJob(j) \/ SaveRaises(j) \/ ManagerStep(j) \/ CrashManager(j)
      PROVE  Known \subseteq Known'
  BY <1>0, <1>1 DEF Known, SaveJob, SaveRaises, ManagerStep, EnqueueTask,
     PublishDownloadRequested, PublishFailure, CrashManager
<1>2. ASSUME NEW p \in Procs, Step(p)
      PROVE  UNCHANGED api
  BY <1>2 DEF Step, DownloaderStep, TranslatorStep, ConsumerStep, Failure,
     TakeDownload, TakeTranslation, TakeEvent, UpdatePhase, GetJob,
     UpdateRaises, SetJob,
     ExpireJob, RecordEvent, Search, EnqueueTranslation, Translate, Publish,
     Ack, Timeout, Crash, LoseConnection
<1>3. UNCHANGED api => Known \subseteq Known'
  BY DEF Known
<1> QED
  BY <1>1, <1>2, <1>3, NextCases DEF vars

\* The events published about a known job.
LEMMA PublishKnown ==
    ASSUME KnownEvents, NEW j \in Known, NEW t \in EventTypes, PublishEvent(t, j)
    PROVE  events' \in Seq([type : EventTypes, job : Known])
<1> DEFINE E == [type : EventTypes, job : Known]
<1>1. Event(t, j) \in E /\ events \in Seq(E)
  BY DEF Event, KnownEvents
<1> HIDE DEF E
<1>2. Append(events, Event(t, j)) \in Seq(E)
  BY <1>1, AppendFacts
<1>3. Append(Append(events, Event(t, j)), Event(t, j)) \in Seq(E)
  BY <1>1, <1>2, AppendFacts
<1>4. events' \in Seq(E)
  BY <1>1, <1>2, <1>3 DEF PublishEvent, Routed
<1> QED
  BY <1>4 DEF E

LEMMA EventsKnown ==
    ASSUME KnownInv, [Next]_vars
    PROVE  KnownEvents'
<1> DEFINE E == [type : EventTypes, job : Known]
<1>0. TypeInv /\ events \in Seq(E)
  BY DEF KnownInv, KnownEvents
<1>1. ASSUME NEW j \in Jobs,
             SaveJob(j) \/ SaveRaises(j) \/ ManagerStep(j) \/ CrashManager(j)
      PROVE  events' \in Seq(E)
  <2>1. CASE \E t \in EventTypes : PublishEvent(t, j) /\ j \in Known
    BY <2>1, PublishKnown DEF KnownInv
  <2>2. CASE UNCHANGED events
    BY <1>0, <2>2
  <2> QED
    BY <1>1, <2>1, <2>2 DEF SaveJob, SaveRaises, ManagerStep, EnqueueTask,
       PublishDownloadRequested, PublishFailure, CrashManager, Known, EventTypes
<1>2. ASSUME NEW p \in Procs, Publish(p)
      PROVE  events' \in Seq(E)
  <2>1. /\ pc[p] = "publish" /\ out[p] \in Seq(EventTypes) /\ out[p] # <<>>
        /\ PublishEvent(Head(out[p]), cur[p])
    BY <1>0, <1>2 DEF Publish, TypeInv, TypeOK, PlaceOK
  <2>2. Head(out[p]) \in EventTypes /\ cur[p] \in Known
    BY <2>1, TailFacts DEF KnownInv, KnownWork
  <2> QED
    BY <2>1, <2>2, PublishKnown DEF KnownInv
<1>3. ASSUME NEW p \in Procs, Ack(p) \/ Timeout(p)
      PROVE  events' \in Seq(E)
  <2>1. CASE UNCHANGED events
    BY <1>0, <2>1
  <2>2. CASE p = Consumer /\ held[p] /\ events' = Tail(events)
    <3>1. events # <<>>
      BY <1>0, <1>3, <2>2 DEF TypeInv, PlaceOK, ConsumerAtHead
    <3> HIDE DEF E
    <3> QED
      BY <1>0, <2>2, <3>1, TailFacts
  <2> QED
    BY <1>3, <2>1, <2>2 DEF Ack, Timeout
<1>4. ASSUME NEW p \in Procs,
             \/ \E j \in Jobs : TakeDownload(p, j) \/ TakeTranslation(p, j)
             \/ TakeEvent \/ UpdatePhase(p) \/ RecordEvent \/ Search(p)
             \/ EnqueueTranslation(p) \/ Translate(p) \/ Crash(p)
             \/ LoseConnection(p)
      PROVE  UNCHANGED events
  BY <1>4 DEF TakeDownload, TakeTranslation, TakeEvent, UpdatePhase, GetJob,
     UpdateRaises,
     SetJob, ExpireJob, RecordEvent, Search, EnqueueTranslation, Translate,
     Crash, LoseConnection
<1>5. ASSUME NEW p \in Procs, Step(p)
      PROVE  events' \in Seq(E)
  BY <1>0, <1>2, <1>3, <1>4, <1>5
     DEF Step, DownloaderStep, TranslatorStep, ConsumerStep, Failure
<1>6. events' \in Seq(E)
  BY <1>0, <1>1, <1>5, NextCases DEF vars
<1> DEFINE F == [type : EventTypes, job : Known']
<1>7. E \subseteq F
  BY <1>0, KnownStays
<1> HIDE DEF E, F
<1>8. events' \in Seq(F)
  BY <1>6, <1>7
<1> QED
  BY <1>8 DEF KnownEvents, F

\* Tasks are put on a queue for the job that is being handled.
LEMMA TasksKnown ==
    ASSUME KnownInv, [Next]_vars
    PROVE  KnownTasks'
<1>0. /\ downloadQ \in [Jobs -> Nat] /\ translationQ \in [Jobs -> Nat]
      /\ Known \subseteq Known' /\ KnownTasks
  BY KnownStays DEF KnownInv, TypeInv, TypeOK
<1>1. CASE UNCHANGED taskQueues
  BY <1>0, <1>1 DEF KnownTasks, taskQueues
<1>2. ASSUME NEW k \in Known, PutDownload(k) \/ PutTranslation(k)
      PROVE  KnownTasks'
  BY <1>0, <1>2 DEF KnownTasks, PutDownload, PutTranslation
<1>3. ASSUME NEW p \in Procs, Requeue(p), cur[p] \in Known
      PROVE  KnownTasks'
  BY <1>0, <1>3 DEF KnownTasks, Requeue
<1>4. ASSUME NEW p \in Procs, NEW k \in Jobs,
             TakeDownload(p, k) \/ TakeTranslation(p, k)
      PROVE  KnownTasks'
  BY <1>0, <1>4 DEF KnownTasks, TakeDownload, TakeTranslation
<1>5. ASSUME NEW k \in Jobs,
             SaveJob(k) \/ SaveRaises(k) \/ ManagerStep(k) \/ CrashManager(k)
      PROVE  \/ UNCHANGED taskQueues
             \/ k \in Known /\ (PutDownload(k) \/ PutTranslation(k))
  BY <1>5 DEF SaveJob, SaveRaises, ManagerStep, EnqueueTask, PutTask, Known,
              PublishDownloadRequested, PublishFailure, CrashManager
<1>6. ASSUME NEW p \in Procs, EnqueueTranslation(p)
      PROVE  UNCHANGED taskQueues \/ (cur[p] \in Known /\ PutTranslation(cur[p]))
  BY <1>6 DEF EnqueueTranslation, KnownInv, KnownWork
<1>7. ASSUME NEW p \in Procs, Failure(p)
      PROVE  UNCHANGED taskQueues \/ (cur[p] \in Known /\ Requeue(p))
  BY <1>7 DEF Failure, Timeout, Crash, LoseConnection, KnownInv, KnownWork,
              TypeInv, PlaceOK
<1>8. ASSUME NEW p \in Procs,
             \/ TakeEvent \/ UpdatePhase(p) \/ RecordEvent \/ Search(p)
             \/ Translate(p) \/ Publish(p) \/ Ack(p)
      PROVE  UNCHANGED taskQueues
  BY <1>8 DEF TakeEvent, UpdatePhase, GetJob, UpdateRaises, SetJob, ExpireJob,
              RecordEvent, Search, Translate, Publish, Ack
<1>9. ASSUME NEW p \in Procs, Step(p)
      PROVE  KnownTasks'
  BY <1>1, <1>2, <1>3, <1>4, <1>6, <1>7, <1>8, <1>9
     DEF Step, DownloaderStep, TranslatorStep, ConsumerStep
<1> QED
  BY <1>1, <1>2, <1>5, <1>9, NextCases DEF vars, taskQueues

\* A process works on what it has taken from a queue.
LEMMA WorkKnown ==
    ASSUME KnownInv, [Next]_vars
    PROVE  KnownWork'
<1> SUFFICES ASSUME NEW p \in Procs, pc'[p] # "idle"
             PROVE  cur'[p] \in Known'
  BY DEF KnownWork
<1>0. /\ pc \in [Procs -> {"idle", "get", "set", "expire", "search", "enqueue",
                           "translate", "publish", "record", "ack"}]
      /\ cur \in [Procs -> Jobs \cup {NoOne}]
      /\ Known \subseteq Known' /\ TypeInv
      /\ pc[p] # "idle" => cur[p] \in Known
  BY KnownStays DEF KnownInv, KnownWork, TypeInv, TypeOK
<1>1. CASE pc[p] # "idle" /\ cur'[p] = cur[p]
  BY <1>0, <1>1
<1>2. CASE pc'[p] = pc[p] /\ cur'[p] = cur[p]
  BY <1>0, <1>2
<1>3. ASSUME NEW j \in Jobs, TakeDownload(p, j) \/ TakeTranslation(p, j)
      PROVE  cur'[p] \in Known'
  <2>1. j \in Known
    BY <1>3 DEF TakeDownload, TakeTranslation, KnownInv, KnownTasks
  <2>2. cur'[p] = j
    BY <1>0, <1>3 DEF TakeDownload, TakeTranslation, Take
  <2> QED
    BY <1>0, <2>1, <2>2
<1>4. CASE p = Consumer /\ TakeEvent
  <2> DEFINE E == [type : EventTypes, job : Known]
  <2>1. events # <<>> /\ events \in Seq(E)
    BY <1>4 DEF TakeEvent, KnownInv, KnownEvents
  <2>2. Head(events) \in E
    <3> HIDE DEF E
    <3> QED
      BY <2>1, TailFacts
  <2>3. cur'[p] = Head(events).job
    BY <1>0, <1>4 DEF TakeEvent, Take
  <2> QED
    BY <1>0, <2>2, <2>3
<1>5. CASE UpdatePhase(p) \/ Search(p) \/ EnqueueTranslation(p) \/ Translate(p)
           \/ Publish(p) \/ (p = Consumer /\ RecordEvent)
  BY <1>1, <1>5 DEF UpdatePhase, GetJob, UpdateRaises, SetJob, ExpireJob, Search,
     EnqueueTranslation, Translate, Publish, RecordEvent
<1>6. CASE Ack(p) \/ Timeout(p) \/ Crash(p)
  BY <1>0, <1>6 DEF Ack, Timeout, Crash, Release
<1>7. CASE LoseConnection(p)
  BY <1>2, <1>7 DEF LoseConnection
<1> QED
  BY <1>0, <1>2, <1>3, <1>4, <1>5, <1>6, <1>7, SelfOrSame
     DEF Step, DownloaderStep, TranslatorStep, ConsumerStep, Failure

LEMMA NextKnown ==
    ASSUME KnownInv, [Next]_vars
    PROVE  KnownInv'
BY NextTypeInv, TasksKnown, WorkKnown, EventsKnown DEF KnownInv

-----------------------------------------------------------------------------
(* Steps and what a client sees of them *)

requests == [j \in Jobs |-> RequestOf(j)]
subtitles == [j \in Jobs |-> HasSubtitle(j)]
results(j) == {ResultOf(t) : t \in {o \in Outcomes : Recorded(o, j)}}
reports == [j \in Jobs |-> results(j)]

\* SubtitleService's actions in these terms.
LEMMA ServiceSteps ==
    /\ UNCHANGED <<requests, subtitles, reports>> => UNCHANGED Service!serviceVars
    /\ \A j \in Jobs :
           /\ (/\ requests[j] = "new"
               /\ requests' \in {[requests EXCEPT ![j] = "open"],
                                 [requests EXCEPT ![j] = "rejected"]}
               /\ UNCHANGED <<subtitles, reports>>) => Service!Next
           /\ (/\ requests[j] = "open"
               /\ requests' \in {[requests EXCEPT ![j] = "accepted"],
                                 [requests EXCEPT ![j] = "rejected"]}
               /\ UNCHANGED <<subtitles, reports>>) => Service!Next
           /\ (/\ requests[j] # "new"
               /\ subtitles' = [subtitles EXCEPT ![j] = TRUE]
               /\ UNCHANGED <<requests, reports>>) => Service!Next
           /\ \A result \in {"ready", "missing", "failed"} :
                  (/\ requests[j] # "new"
                   /\ result = "ready" => subtitles[j]
                   /\ reports' = [reports EXCEPT ![j] = @ \cup {result}]
                   /\ UNCHANGED <<requests, subtitles>>) => Service!Next
BY DEF requests, subtitles, reports, results, Service!serviceVars, Service!Next,
   Service!Request, Service!Answer, Service!Produce, Service!Report,
   Service!Results

\* A client sees what the request, the disk and the history show.
LEMMA Unseen ==
    /\ UNCHANGED api => UNCHANGED requests
    /\ UNCHANGED disk => UNCHANGED subtitles
    /\ UNCHANGED history => UNCHANGED reports
<1>1. UNCHANGED api => UNCHANGED requests
  BY DEF requests, RequestOf
<1>2. UNCHANGED disk => UNCHANGED subtitles
  BY DEF subtitles, HasSubtitle
<1>3. ASSUME UNCHANGED history
      PROVE  UNCHANGED reports
  <2>1. \A j \in Jobs : \A t : Recorded(t, j)' = Recorded(t, j)
    BY <1>3 DEF Recorded
  <2>2. \A j \in Jobs : results(j)' = results(j)
    BY <2>1 DEF results
  <2> QED
    BY <2>2 DEF reports
<1> QED
  BY <1>1, <1>2, <1>3

\* The manager opens a request and answers it, or turns it away.
LEMMA ManagerImplements ==
    ASSUME TypeInv, NEW j \in Jobs,
           SaveJob(j) \/ SaveRaises(j) \/ ManagerStep(j) \/ CrashManager(j)
    PROVE  Service!Next \/ UNCHANGED Service!serviceVars
<1>0. api \in [Jobs -> {"new", "saved", "enqueued", "failing",
                        "accepted", "rejected", "aborted"}]
  BY DEF TypeInv, TypeOK
<1>1. UNCHANGED <<subtitles, reports>>
  BY Unseen DEF SaveJob, SaveRaises, ManagerStep, EnqueueTask,
                PublishDownloadRequested, PublishFailure, CrashManager
<1>2. ASSUME NEW a, NEW b, a = api[j], api' = [api EXCEPT ![j] = b]
      PROVE  /\ a = "new" /\ b = "saved" =>
                    /\ requests[j] = "new"
                    /\ requests' = [requests EXCEPT ![j] = "open"]
             /\ a = "new" /\ b = "rejected" =>
                    /\ requests[j] = "new"
                    /\ requests' = [requests EXCEPT ![j] = "rejected"]
             /\ a \in {"saved", "enqueued", "failing"}
                  /\ b \in {"accepted", "rejected"} =>
                    /\ requests[j] = "open"
                    /\ requests' = [requests EXCEPT ![j] = b]
             /\ a \in {"saved", "enqueued", "failing"}
                  /\ b \in {"enqueued", "failing", "aborted"} =>
                    requests' = requests
  BY <1>0, <1>2 DEF requests, RequestOf
<1>3. CASE SaveJob(j)
  <2>1. api[j] = "new" /\ api' = [api EXCEPT ![j] = "saved"]
    BY <1>3 DEF SaveJob
  <2>2. requests[j] = "new" /\ requests' = [requests EXCEPT ![j] = "open"]
    BY <1>2, <2>1
  <2> QED
    BY <1>1, <2>2, ServiceSteps
<1>4. CASE EnqueueTask(j) \/ PublishDownloadRequested(j) \/ PublishFailure(j)
           \/ CrashManager(j)
  <2>1. /\ api[j] \in {"saved", "enqueued", "failing"}
        /\ \E b \in {"accepted", "rejected", "enqueued", "failing", "aborted"} :
               api' = [api EXCEPT ![j] = b]
    BY <1>4 DEF EnqueueTask, PublishDownloadRequested, PublishFailure,
       CrashManager
  <2>2. PICK b \in {"accepted", "rejected", "enqueued", "failing", "aborted"} :
            api' = [api EXCEPT ![j] = b]
    BY <2>1
  <2>3. CASE b \in {"accepted", "rejected"}
    <3>1. requests[j] = "open" /\ requests' = [requests EXCEPT ![j] = b]
      BY <1>2, <2>1, <2>2, <2>3
    <3> QED
      BY <1>1, <2>3, <3>1, ServiceSteps
  <2>4. CASE b \in {"enqueued", "failing", "aborted"}
    <3>1. requests' = requests
      BY <1>2, <2>1, <2>2, <2>4
    <3> QED
      BY <1>1, <3>1, ServiceSteps
  <2> QED
    BY <2>2, <2>3, <2>4
<1>5. CASE SaveRaises(j)
  <2>1. api[j] = "new" /\ api' = [api EXCEPT ![j] = "rejected"]
    BY <1>5 DEF SaveRaises
  <2>2. requests[j] = "new" /\ requests' = [requests EXCEPT ![j] = "rejected"]
    BY <1>2, <2>1
  <2> QED
    BY <1>1, <2>2, ServiceSteps
<1> QED
  BY <1>3, <1>4, <1>5 DEF ManagerStep

\* A worker that stores a file produces a subtitle, or only a fallback.
LEMMA StoreImplements ==
    ASSUME KnownInv, NEW p \in Procs, pc[p] # "idle",
           NEW file \in {"requested", "fallback", "translated"}, Store(p, file),
           UNCHANGED <<api, history>>
    PROVE  Service!Next \/ UNCHANGED Service!serviceVars
<1>0. /\ disk \in [Jobs -> SUBSET {"requested", "fallback", "translated"}]
      /\ cur[p] \in Jobs /\ api[cur[p]] # "new"
      /\ disk' = [disk EXCEPT ![cur[p]] = @ \cup {file}]
  BY DEF KnownInv, KnownWork, Known, TypeInv, TypeOK, Store
<1>1. UNCHANGED <<requests, reports>>
  BY Unseen
<1>2. PICK j \in Jobs : j = cur[p]
  BY <1>0
<1>3. requests[j] # "new"
  BY <1>0, <1>2 DEF requests, RequestOf
<1>4. CASE file = "fallback"
  <2>1. \A k \in Jobs : HasSubtitle(k)' = HasSubtitle(k)
    BY <1>0, <1>4 DEF HasSubtitle
  <2>2. UNCHANGED subtitles
    BY <2>1 DEF subtitles
  <2> QED
    BY <1>1, <2>2, ServiceSteps
<1>5. CASE file # "fallback"
  <2>1. \A k \in Jobs : k # j => HasSubtitle(k)' = HasSubtitle(k)
    BY <1>0, <1>2 DEF HasSubtitle
  <2>2. HasSubtitle(j)' = TRUE
    BY <1>0, <1>2, <1>5 DEF HasSubtitle
  <2>3. subtitles' = [subtitles EXCEPT ![j] = TRUE]
    BY <2>1, <2>2 DEF subtitles
  <2> QED
    BY <1>1, <1>3, <2>3, ServiceSteps
<1> QED
  BY <1>4, <1>5

\* The consumer records a result that is true.
LEMMA RecordImplements ==
    ASSUME EvidenceInv, KnownInv, RecordEvent
    PROVE  Service!Next \/ UNCHANGED Service!serviceVars
<1>0. /\ TypeInv /\ Consumer \in Procs /\ pc[Consumer] = "record"
      /\ history \in [Jobs -> Seq(EventTypes)]
      /\ UNCHANGED <<api, disk>>
  BY DEF EvidenceInv, TypeInv, TypeOK, RecordEvent, Procs
<1>1. /\ events # <<>> /\ cur[Consumer] = Head(events).job
      /\ cur[Consumer] \in Jobs /\ api[cur[Consumer]] # "new"
  BY <1>0 DEF TypeInv, ConsumerAtHead, KnownInv, KnownWork, Known
<1>2. UNCHANGED <<requests, subtitles>>
  BY <1>0, Unseen
<1>3. PICK j \in Jobs : j = cur[Consumer]
  BY <1>1
<1>4. PICK t : t = Head(events).type
  OBVIOUS
<1>5. t \in EventTypes /\ Backed(t, j)
  <2>1. Head(events) = events[1] /\ 1 \in 1 .. Len(events)
    BY <1>0, <1>1, EventFacts, TailFacts DEF TypeInv
  <2>2. events[1].type \in EventTypes /\ Backed(events[1].type, events[1].job)
    BY <1>0, <2>1, EventFacts DEF TypeInv, EvidenceInv, BackedEvents
  <2> QED
    BY <1>1, <1>3, <1>4, <2>1, <2>2
<1>6. CASE UNCHANGED history
  BY <1>2, <1>6, Unseen, ServiceSteps
<1>7. CASE history' = [history EXCEPT ![j] = Append(@, t)]
  <2>1. /\ history'[j] = Append(history[j], t) /\ history[j] \in Seq(EventTypes)
        /\ \A k \in Jobs : k # j => history'[k] = history[k]
    BY <1>0, <1>7
  <2>2. /\ history'[j] \in Seq(EventTypes) /\ Len(history[j]) \in Nat
        /\ Len(history'[j]) = Len(history[j]) + 1
        /\ \A i \in 1 .. Len(history[j]) : history'[j][i] = history[j][i]
        /\ history'[j][Len(history[j]) + 1] = t
    BY <1>5, <2>1, AppendFacts
  <2>3. ASSUME NEW o
        PROVE  Recorded(o, j)' <=> Recorded(o, j) \/ o = t
    BY <2>1, <2>2, SMTT(30) DEF Recorded
  <2>4. ASSUME NEW k \in Jobs, k # j
        PROVE  results(k)' = results(k)
    BY <2>1, <2>4 DEF results, Recorded
  <2>5. CASE t \in Outcomes
    <3>1. results(j)' = results(j) \cup {ResultOf(t)}
      BY <2>3, <2>5 DEF results
    <3>2. reports' = [reports EXCEPT ![j] = @ \cup {ResultOf(t)}]
      BY <2>4, <3>1 DEF reports
    <3>3. ResultOf(t) \in {"ready", "missing", "failed"}
      BY <2>5 DEF Outcomes, ResultOf
    <3>4. ResultOf(t) = "ready" => subtitles[j]
      BY <1>5, <2>5 DEF Outcomes, ResultOf, Backed, subtitles, HasSubtitle
    <3>5. requests[j] # "new"
      BY <1>1, <1>3 DEF requests, RequestOf
    <3> QED
      BY <1>2, <3>2, <3>3, <3>4, <3>5, ServiceSteps
  <2>6. CASE t \notin Outcomes
    <3>1. results(j)' = results(j)
      BY <2>3, <2>6 DEF results
    <3>2. UNCHANGED reports
      BY <2>4, <3>1 DEF reports
    <3> QED
      BY <1>2, <3>2, ServiceSteps
  <2> QED
    BY <2>5, <2>6
<1> QED
  BY <1>3, <1>4, <1>6, <1>7 DEF RecordEvent

LEMMA NextImplements ==
    ASSUME EvidenceInv, KnownInv, [Next]_vars
    PROVE  Service!Next \/ UNCHANGED Service!serviceVars
<1>1. ASSUME NEW j \in Jobs,
             SaveJob(j) \/ SaveRaises(j) \/ ManagerStep(j) \/ CrashManager(j)
      PROVE  Service!Next \/ UNCHANGED Service!serviceVars
  BY <1>1, ManagerImplements DEF KnownInv
<1>2. CASE RecordEvent
  BY <1>2, RecordImplements
<1>3. CASE UNCHANGED <<api, disk, history>>
  BY <1>3, Unseen, ServiceSteps
<1>4. ASSUME NEW p \in Procs, Search(p) \/ Translate(p)
      PROVE  Service!Next \/ UNCHANGED Service!serviceVars
  <2>1. UNCHANGED <<api, history>> /\ pc[p] # "idle"
    BY <1>4 DEF Search, Translate
  <2>2. \/ UNCHANGED disk
        \/ \E file \in {"requested", "fallback", "translated"} : Store(p, file)
    BY <1>4 DEF Search, FoundRequested, FoundOther, NothingSaved, ApiError,
                Translate, TranslationSaved, TranslationFails
  <2> QED
    BY <1>3, <2>1, <2>2, StoreImplements
<1>5. ASSUME NEW p \in Procs,
             \/ \E j \in Jobs : TakeDownload(p, j) \/ TakeTranslation(p, j)
             \/ TakeEvent \/ UpdatePhase(p) \/ EnqueueTranslation(p)
             \/ Publish(p) \/ Ack(p) \/ Failure(p)
      PROVE  UNCHANGED <<api, disk, history>>
  BY <1>5 DEF TakeDownload, TakeTranslation, TakeEvent, UpdatePhase, GetJob,
     UpdateRaises,
     SetJob, ExpireJob, EnqueueTranslation, Publish, Ack, Failure, Timeout,
     Crash, LoseConnection
<1>6. ASSUME NEW p \in Procs, Step(p)
      PROVE  Service!Next \/ UNCHANGED Service!serviceVars
  BY <1>2, <1>3, <1>4, <1>5, <1>6
     DEF Step, DownloaderStep, TranslatorStep, ConsumerStep
<1> QED
  BY <1>1, <1>3, <1>6, NextCases DEF vars

LEMMA InitImplements == Init => Service!Init
<1> SUFFICES ASSUME Init
             PROVE  Service!Init
  OBVIOUS
<1>1. requests = [j \in Jobs |-> "new"]
  BY DEF Init, requests, RequestOf
<1>2. subtitles = [j \in Jobs |-> FALSE]
  BY DEF Init, subtitles, HasSubtitle
<1>3. \A j \in Jobs : results(j) = {}
  BY DEF Init, results, Recorded
<1>4. reports = [j \in Jobs |-> {}]
  BY <1>3 DEF reports
<1> QED
  BY <1>1, <1>2, <1>4 DEF Service!Init, requests, subtitles, reports, results

\* For any jobs and workers, and whatever fails: what a client sees of the
\* services, the answers of the manager, the subtitle files and the recorded
\* outcomes, is what SubtitleService allows.
THEOREM Refinement == Spec => ImplementsService
<1>1. Init => EvidenceInv /\ KnownInv
  BY InitEvidence, InitKnown
<1>2. EvidenceInv /\ KnownInv /\ [Next]_vars => EvidenceInv' /\ KnownInv'
  BY NextEvidence, NextKnown
<1>3. EvidenceInv /\ KnownInv /\ [Next]_vars => [Service!Next]_(Service!serviceVars)
  BY NextImplements
<1> QED
  BY <1>1, <1>2, <1>3, InitImplements, PTL DEF Spec, ImplementsService,
     Service!Spec

=============================================================================
