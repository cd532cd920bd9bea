---------------------- MODULE SubtitlePipelineAnswers ----------------------
(***************************************************************************)
(* Why a job gets one answer, and why the consumer has the last word on    *)
(* its status.                                                             *)
(*                                                                         *)
(* As long as nothing fails, an answer is in one place at a time: on a     *)
(* work queue, with a worker, on the consumer's queue or in the history.   *)
(* Each step leaves it there or carries it to the next place, so that it   *)
(* is neither lost nor doubled, and nobody writes a status behind it.      *)
(*                                                                         *)
(* When things do fail, whoever may still write a status of a job will     *)
(* also publish an event about it, and the consumer handles that event     *)
(* later.                                                                  *)
(***************************************************************************)
EXTENDS SubtitlePipelineProofs, FiniteSetTheorems

USE PipelineAssumption

-----------------------------------------------------------------------------
(* Where the answer to a job is *)

Debtors(j) == {p \in Workers : Owes(p, j)}

\* The outcome that the consumer is about to ack is in the history already.
Reports(j) ==
    {i \in DOMAIN events :
        /\ events[i].job = j /\ events[i].type \in Outcomes
        /\ ~(i = 1 /\ pc[Consumer] = "ack")}

Records(j) == {i \in DOMAIN history[j] : history[j][i] \in Outcomes}

NoAnswer(j) ==
    /\ downloadQ[j] = 0 /\ translationQ[j] = 0
    /\ Debtors(j) = {} /\ Reports(j) = {} /\ Records(j) = {}

OneAnswer(j) ==
    \/ /\ downloadQ[j] = 1 /\ translationQ[j] = 0
       /\ Debtors(j) = {} /\ Reports(j) = {} /\ Records(j) = {}
    \/ /\ downloadQ[j] = 0 /\ translationQ[j] = 1
       /\ Debtors(j) = {} /\ Reports(j) = {} /\ Records(j) = {}
    \/ /\ downloadQ[j] = 0 /\ translationQ[j] = 0
       /\ \E p \in Workers : Debtors(j) = {p}
       /\ Reports(j) = {} /\ Records(j) = {}
    \/ /\ downloadQ[j] = 0 /\ translationQ[j] = 0
       /\ Debtors(j) = {}
       /\ \E i \in DOMAIN events : Reports(j) = {i}
       /\ Records(j) = {}
    \/ /\ downloadQ[j] = 0 /\ translationQ[j] = 0
       /\ Debtors(j) = {} /\ Reports(j) = {}
       /\ \E i \in DOMAIN history[j] : Records(j) = {i}

\* What a job is owed depends on how far its request has come.
RightAnswers(j) ==
    /\ api[j] \in {"new", "saved"} => NoAnswer(j)
    /\ api[j] \in {"enqueued", "accepted"} => OneAnswer(j)

\* The lists of events that a handler announces.
Singles == {<<t>> : t \in Outcomes}
Handover == <<"subtitle.translate.requested">>
Finished == <<"translation.completed", "subtitle.translated">>

RightReports(p) ==
    /\ p \in Downloaders /\ pc[p] = "publish" => out[p] \in Singles \cup {Handover}
    /\ p \in Translators /\ pc[p] = "publish" => out[p] \in Singles \cup {Finished}
    /\ p \in Translators /\ pc[p] \in {"get", "set", "expire"}
         /\ goal[p] = "completed" => out[p] = Finished

\* An idle process has no job, and a busy one still holds its message.
Engaged(p) == IF pc[p] = "idle" THEN cur[p] = NoOne ELSE held[p]

Undisturbed ==
    /\ \A j \in Jobs : api[j] \in {"new", "saved", "enqueued", "accepted"}
    /\ \A j \in Jobs : RightAnswers(j)
    /\ \A p \in Procs : Engaged(p)
    /\ \A p \in Workers : RightReports(p)

AnswerInv == TypeInv /\ (NoFaultYet => Undisturbed)

LEMMA InitAnswer == Init => AnswerInv
<1> SUFFICES ASSUME Init
             PROVE  TypeInv /\ Undisturbed
  BY DEF AnswerInv
<1>1. \A p \in Procs : pc[p] = "idle" /\ cur[p] = NoOne
  BY DEF Init
<1>2. \A j \in Jobs : Debtors(j) = {}
  BY <1>1 DEF Debtors, Owes, Procs
<1>3. \A j \in Jobs : Reports(j) = {} /\ Records(j) = {}
  BY DEF Init, Reports, Records
<1>4. \A j \in Jobs : NoAnswer(j) /\ api[j] = "new"
  BY <1>2, <1>3 DEF Init, NoAnswer
<1> QED
  BY <1>1, <1>4, InitTypeInv DEF Undisturbed, RightAnswers, RightReports,
     Engaged, Procs

\* One answer in one place counts as one.
LEMMA OneAnswerCounts ==
    ASSUME NEW j \in Jobs, OneAnswer(j)
    PROVE  Answers(j) = 1
<1>1. Cardinality({}) = 0 /\ \A x : Cardinality({x}) = 1
  BY FS_EmptySet, FS_Singleton
<1>2. Answers(j) = downloadQ[j] + translationQ[j] + Cardinality(Debtors(j))
                   + Cardinality(Reports(j)) + Cardinality(Records(j))
  BY DEF Answers, Debtors, Reports, Records
<1> DEFINE d == Cardinality(Debtors(j))
           e == Cardinality(Reports(j))
           h == Cardinality(Records(j))
<1>3. \/ downloadQ[j] = 1 /\ translationQ[j] = 0 /\ d = 0 /\ e = 0 /\ h = 0
      \/ downloadQ[j] = 0 /\ translationQ[j] = 1 /\ d = 0 /\ e = 0 /\ h = 0
      \/ downloadQ[j] = 0 /\ translationQ[j] = 0 /\ d = 1 /\ e = 0 /\ h = 0
      \/ downloadQ[j] = 0 /\ translationQ[j] = 0 /\ d = 0 /\ e = 1 /\ h = 0
      \/ downloadQ[j] = 0 /\ translationQ[j] = 0 /\ d = 0 /\ e = 0 /\ h = 1
  BY <1>1, ZenonT(30) DEF OneAnswer
<1> HIDE DEF d, e, h
<1>4. Answers(j) = downloadQ[j] + translationQ[j] + d + e + h
  BY <1>2 DEF d, e, h
<1> QED
  BY <1>3, <1>4

LEMMA AnswerInvCounts == AnswerInv => ExactlyOneAnswer
BY OneAnswerCounts DEF AnswerInv, Undisturbed, RightAnswers, ExactlyOneAnswer

-----------------------------------------------------------------------------
(* A step without a failure *)

Smooth == TypeInv /\ Undisturbed /\ \A kind : ~Fault(kind)

LEMMA SmoothReturns ==
    ASSUME Smooth
    PROVE  /\ \A j : ~SaveRaises(j)
           /\ \A p : ~UpdateRaises(p)
BY DEF Smooth, SaveRaises, UpdateRaises

\* A failure takes something from the budget, and nothing gives it back.
LEMMA BudgetFalls ==
    ASSUME TypeInv, [Next]_vars, NoFaultYet'
    PROVE  NoFaultYet /\ \A kind : ~Fault(kind)
<1>0. budget \in Nat /\ budget <= MaxFaults /\ budget' = MaxFaults
  BY DEF TypeInv, TypeOK, NoFaultYet
<1>1. \A kind : ~Fault(kind)
  BY <1>0 DEF Fault
<1>2. ASSUME NEW j \in Jobs,
             SaveJob(j) \/ SaveRaises(j) \/ ManagerStep(j) \/ CrashManager(j)
      PROVE  UNCHANGED budget
  BY <1>1, <1>2 DEF SaveJob, SaveRaises, ManagerStep, EnqueueTask,
     PublishDownloadRequested,
     PublishFailure, CrashManager, PublishEvent, Reliably
<1>3. ASSUME NEW p \in Procs, UpdatePhase(p) \/ Search(p) \/ EnqueueTranslation(p)
      PROVE  UNCHANGED budget
  BY <1>1, <1>3 DEF UpdatePhase, GetJob, UpdateRaises, SetJob, ExpireJob,
     Search, FoundRequested,
     FoundOther, NothingSaved, ApiError, EnqueueTranslation, Reliably
<1>4. ASSUME NEW p \in Procs,
             \/ \E j \in Jobs : TakeDownload(p, j) \/ TakeTranslation(p, j)
             \/ TakeEvent \/ RecordEvent \/ Translate(p) \/ Publish(p) \/ Ack(p)
      PROVE  UNCHANGED budget
  BY <1>1, <1>4 DEF TakeDownload, TakeTranslation, TakeEvent, RecordEvent,
     Translate, Publish, PublishEvent, Ack, Reliably
<1>5. ASSUME NEW p \in Procs, Step(p)
      PROVE  UNCHANGED budget
  BY <1>1, <1>3, <1>4, <1>5
     DEF Step, DownloaderStep, TranslatorStep, ConsumerStep, Failure, Timeout,
         Crash, LoseConnection
<1> QED
  BY <1>0, <1>1, <1>2, <1>5, NextCases DEF vars, NoFaultYet

\* Publishing appends exactly the events that the consumer's queue is bound to.
LEMMA SmoothPublish ==
    ASSUME Smooth, NEW t, NEW j, PublishEvent(t, j)
    PROVE  events' = Routed(t, j)
BY DEF Smooth, PublishEvent

-----------------------------------------------------------------------------
(* The ways of an answer *)

Rest(j) ==
    /\ downloadQ'[j] = downloadQ[j] /\ translationQ'[j] = translationQ[j]
    /\ Debtors(j)' = Debtors(j)
    /\ Reports(j)' = Reports(j)
    /\ Records(j)' = Records(j)
    /\ api'[j] = api[j]

\* Where nothing moves, or the request only gets on.
LEMMA AnswerRests ==
    ASSUME NEW j \in Jobs, RightAnswers(j),
           downloadQ'[j] = downloadQ[j], translationQ'[j] = translationQ[j],
           Debtors(j)' = Debtors(j), Records(j)' = Records(j),
           Reports(j)' = Reports(j),
           \/ api'[j] = api[j]
           \/ api[j] = "new" /\ api'[j] = "saved"
           \/ api[j] = "enqueued" /\ api'[j] = "accepted"
    PROVE  RightAnswers(j)'
<1>1. NoAnswer(j) => NoAnswer(j)'
  BY DEF NoAnswer
<1>2. OneAnswer(j) => OneAnswer(j)'
  <2>1. \A i : Reports(j)' = {i} => i \in DOMAIN events'
    BY DEF Reports
  <2>2. \A i : Records(j)' = {i} => i \in DOMAIN history'[j]
    BY DEF Records
  <2> QED
    BY <2>1, <2>2 DEF OneAnswer
<1> QED
  BY <1>1, <1>2 DEF RightAnswers

\* A request that has just been enqueued.
LEMMA AnswerBegins ==
    ASSUME NEW j \in Jobs, RightAnswers(j), api[j] = "saved",
           \/ downloadQ'[j] = downloadQ[j] + 1 /\ translationQ'[j] = translationQ[j]
           \/ translationQ'[j] = translationQ[j] + 1 /\ downloadQ'[j] = downloadQ[j],
           Debtors(j)' = Debtors(j), Records(j)' = Records(j),
           Reports(j)' = Reports(j),
           api'[j] \in {"enqueued", "accepted"}
    PROVE  RightAnswers(j)'
<1>1. NoAnswer(j)
  BY DEF RightAnswers
<1>2. OneAnswer(j)'
  BY <1>1 DEF NoAnswer, OneAnswer
<1> QED
  BY <1>2 DEF RightAnswers

\* Whatever a job has, it has one at most.
LEMMA AnswerThere ==
    ASSUME NEW j \in Jobs, RightAnswers(j),
           api[j] \in {"new", "saved", "enqueued", "accepted"},
           \/ downloadQ[j] > 0 \/ translationQ[j] > 0
           \/ Debtors(j) # {} \/ Reports(j) # {} \/ Records(j) # {}
    PROVE  OneAnswer(j) /\ api[j] \notin {"new", "saved"}
BY DEF RightAnswers, NoAnswer

\* From a work queue to a worker.
LEMMA AnswerTaken ==
    ASSUME NEW j \in Jobs, RightAnswers(j),
           api[j] \in {"new", "saved", "enqueued", "accepted"},
           NEW p \in Workers,
           \/ /\ downloadQ[j] > 0 /\ downloadQ'[j] = downloadQ[j] - 1
              /\ translationQ'[j] = translationQ[j]
           \/ /\ translationQ[j] > 0 /\ translationQ'[j] = translationQ[j] - 1
              /\ downloadQ'[j] = downloadQ[j],
           Debtors(j)' = Debtors(j) \cup {p}, Records(j)' = Records(j),
           Reports(j)' = Reports(j), api'[j] = api[j]
    PROVE  RightAnswers(j)'
<1>1. OneAnswer(j) /\ api[j] \notin {"new", "saved"}
  BY AnswerThere
<1>2. Debtors(j) = {} /\ Reports(j) = {} /\ Records(j) = {}
      /\ downloadQ'[j] = 0 /\ translationQ'[j] = 0
  BY <1>1 DEF OneAnswer
<1>3. Debtors(j)' = {p}
  BY <1>2
<1>4. OneAnswer(j)'
  BY <1>2, <1>3 DEF OneAnswer
<1> QED
  BY <1>1, <1>4 DEF RightAnswers

\* From the downloader to the other work queue.
LEMMA AnswerHandedOver ==
    ASSUME NEW j \in Jobs, RightAnswers(j),
           api[j] \in {"new", "saved", "enqueued", "accepted"},
           NEW p \in Debtors(j), Debtors(j)' = Debtors(j) \ {p},
           translationQ'[j] = translationQ[j] + 1, downloadQ'[j] = downloadQ[j],
           Records(j)' = Records(j), Reports(j)' = Reports(j), api'[j] = api[j]
    PROVE  RightAnswers(j)'
<1>1. OneAnswer(j) /\ api[j] \notin {"new", "saved"}
  BY AnswerThere
<1>2. /\ downloadQ[j] = 0 /\ translationQ[j] = 0 /\ Debtors(j) = {p}
      /\ Reports(j) = {} /\ Records(j) = {}
  BY <1>1 DEF OneAnswer
<1>3. OneAnswer(j)'
  BY <1>2 DEF OneAnswer
<1> QED
  BY <1>1, <1>3 DEF RightAnswers

\* From a worker to the consumer's queue.
LEMMA AnswerReported ==
    ASSUME NEW j \in Jobs, RightAnswers(j),
           api[j] \in {"new", "saved", "enqueued", "accepted"},
           NEW p \in Debtors(j), Debtors(j)' = Debtors(j) \ {p},
           NEW i \in DOMAIN events', Reports(j)' = Reports(j) \cup {i},
           translationQ'[j] = translationQ[j], downloadQ'[j] = downloadQ[j],
           Records(j)' = Records(j), api'[j] = api[j]
    PROVE  RightAnswers(j)'
<1>1. OneAnswer(j) /\ api[j] \notin {"new", "saved"}
  BY AnswerThere
<1>2. /\ downloadQ[j] = 0 /\ translationQ[j] = 0 /\ Debtors(j) = {p}
      /\ Reports(j) = {} /\ Records(j) = {}
  BY <1>1 DEF OneAnswer
<1>3. OneAnswer(j)'
  BY <1>2 DEF OneAnswer
<1> QED
  BY <1>1, <1>3 DEF RightAnswers

\* From the consumer's queue to the history.
LEMMA AnswerRecorded ==
    ASSUME NEW j \in Jobs, RightAnswers(j),
           api[j] \in {"new", "saved", "enqueued", "accepted"},
           NEW i \in Reports(j), Reports(j)' = Reports(j) \ {i},
           NEW h \in DOMAIN history'[j], Records(j)' = Records(j) \cup {h},
           translationQ'[j] = translationQ[j], downloadQ'[j] = downloadQ[j],
           Debtors(j)' = Debtors(j), api'[j] = api[j]
    PROVE  RightAnswers(j)'
<1>1. OneAnswer(j) /\ api[j] \notin {"new", "saved"}
  BY AnswerThere
<1>2. /\ downloadQ[j] = 0 /\ translationQ[j] = 0 /\ Debtors(j) = {}
      /\ Reports(j) = {i} /\ Records(j) = {}
  BY <1>1 DEF OneAnswer
<1>3. OneAnswer(j)'
  BY <1>2 DEF OneAnswer
<1> QED
  BY <1>1, <1>3 DEF RightAnswers

\* With its head acked, the queue holds the other outcomes one place further.
LEMMA AnswerMovesUp ==
    ASSUME NEW j \in Jobs, RightAnswers(j), TypeInv,
           events # <<>>, events' = Tail(events),
           pc[Consumer] = "ack", pc'[Consumer] # "ack",
           translationQ'[j] = translationQ[j], downloadQ'[j] = downloadQ[j],
           Debtors(j)' = Debtors(j), Records(j)' = Records(j), api'[j] = api[j]
    PROVE  RightAnswers(j)'
<1> DEFINE E == [type : EventTypes, job : Jobs]
<1>0. events \in Seq(E)
  BY DEF TypeInv, TypeOK
<1>1. /\ Len(events) \in Nat \ {0} /\ DOMAIN events = 1 .. Len(events)
      /\ DOMAIN events' = 1 .. Len(events) - 1
      /\ \A i \in 1 .. Len(events) - 1 : events'[i] = events[i + 1]
  <2> HIDE DEF E
  <2>1. Tail(events) \in Seq(E) /\ Len(Tail(events)) = Len(events) - 1
    BY <1>0, TailFacts
  <2> QED
    BY <1>0, <2>1, TailFacts
<1>2. \A i : i \in Reports(j)' <=> i \in Int /\ i + 1 \in Reports(j)
  BY <1>1 DEF Reports
<1>3. Reports(j) \subseteq Int
  BY <1>1 DEF Reports
<1>4. Reports(j) = {} => Reports(j)' = {}
  BY <1>2
<1>5. ASSUME NEW i \in DOMAIN events, Reports(j) = {i}
      PROVE  i - 1 \in DOMAIN events' /\ Reports(j)' = {i - 1}
  <2>1. i # 1
    BY <1>5 DEF Reports
  <2> QED
    BY <1>1, <1>2, <1>5, <2>1
<1>6. NoAnswer(j) => NoAnswer(j)'
  BY <1>4 DEF NoAnswer
<1>7. OneAnswer(j) => OneAnswer(j)'
  <2>1. \A i : Records(j)' = {i} => i \in DOMAIN history'[j]
    BY DEF Records
  <2> QED
    BY <1>4, <1>5, <2>1 DEF OneAnswer
<1> QED
  BY <1>6, <1>7 DEF RightAnswers

-----------------------------------------------------------------------------
(* What a step changes of them *)

LEMMA GoalsRest ==
    ASSUME TypeInv, NEW p \in Procs, Step(p)
    PROVE  \A q \in Procs \ {p} : goal'[q] = goal[q]
<1>1. goal \in [Procs -> Statuses \cup {"absent"}]
  BY DEF TypeInv, TypeOK
<1>2. CASE UNCHANGED goal
  BY <1>2
<1>3. ASSUME NEW x, goal' = [goal EXCEPT ![p] = x]
      PROVE  \A q \in Procs \ {p} : goal'[q] = goal[q]
  BY <1>1, <1>3
<1>4. CASE \/ UpdatePhase(p) \/ Search(p) \/ EnqueueTranslation(p)
           \/ Publish(p) \/ RecordEvent \/ LoseConnection(p)
  BY <1>2, <1>4 DEF UpdatePhase, GetJob, UpdateRaises, SetJob, ExpireJob, Search,
     EnqueueTranslation, Publish, RecordEvent, LoseConnection
<1>5. CASE \/ \E j \in Jobs : TakeDownload(p, j) \/ TakeTranslation(p, j)
           \/ p = Consumer /\ TakeEvent
  BY <1>3, <1>5 DEF TakeDownload, TakeTranslation, TakeEvent, Take
<1>6. CASE Ack(p) \/ Timeout(p) \/ Crash(p)
  BY <1>3, <1>6 DEF Ack, Timeout, Crash, Release
<1>7. CASE Translate(p)
  BY <1>2, <1>3, <1>7 DEF Translate, TranslationSaved, TranslationFails
<1> QED
  BY <1>4, <1>5, <1>6, <1>7
     DEF Step, DownloaderStep, TranslatorStep, ConsumerStep, Failure

LEMMA OthersOwe ==
    ASSUME TypeInv, NEW p \in Procs, Step(p), NEW j
    PROVE  Debtors(j)' \ {p} = Debtors(j) \ {p}
<1>1. \A q \in Procs \ {p} :
          pc'[q] = pc[q] /\ cur'[q] = cur[q] /\ out'[q] = out[q]
  BY OthersRest
<1>2. \A q \in Procs \ {p} : Owes(q, j)' <=> Owes(q, j)
  BY <1>1 DEF Owes
<1> QED
  BY <1>2 DEF Debtors, Procs

\* So it is up to the process that takes the step.
LEMMA DebtMoves ==
    ASSUME TypeInv, NEW p \in Procs, Step(p), NEW j
    PROVE  /\ p \notin Workers => Debtors(j)' = Debtors(j)
           /\ (Owes(p, j)' <=> Owes(p, j)) => Debtors(j)' = Debtors(j)
           /\ Owes(p, j) /\ ~Owes(p, j)' /\ p \in Workers =>
                  p \in Debtors(j) /\ Debtors(j)' = Debtors(j) \ {p}
           /\ Owes(p, j)' /\ p \in Workers => Debtors(j)' = Debtors(j) \cup {p}
<1>1. Debtors(j)' \ {p} = Debtors(j) \ {p}
  BY OthersOwe
<1>2. /\ p \in Debtors(j)' <=> p \in Workers /\ Owes(p, j)'
      /\ p \in Debtors(j) <=> p \in Workers /\ Owes(p, j)
  BY DEF Debtors
<1> DEFINE D == Debtors(j)
           E == Debtors(j)'
<1> HIDE DEF D, E
<1>3. E \ {p} = D \ {p} /\ (p \in E <=> p \in Workers /\ Owes(p, j)')
      /\ (p \in D <=> p \in Workers /\ Owes(p, j))
  BY <1>1, <1>2 DEF D, E
<1>4. p \notin D /\ p \notin E => E = D
  BY <1>3
<1>5. p \in D /\ p \in E => E = D
  BY <1>3
<1>6. p \in D /\ p \notin E => E = D \ {p}
  BY <1>3
<1>7. p \in E => E = D \cup {p}
  BY <1>3
<1> QED
  BY <1>3, <1>4, <1>5, <1>6, <1>7 DEF D, E

LEMMA ReportsRest ==
    ASSUME UNCHANGED events, pc'[Consumer] = "ack" <=> pc[Consumer] = "ack", NEW j
    PROVE  Reports(j)' = Reports(j)
BY DEF Reports

LEMMA RecordsRest ==
    ASSUME NEW j, history'[j] = history[j]
    PROVE  Records(j)' = Records(j)
BY DEF Records

\* An event at the end of the queue is one the consumer has not come to.
LEMMA ReportsGrow ==
    ASSUME TypeInv, NEW t \in EventTypes, NEW k \in Jobs, NEW j \in Jobs,
           events' = Routed(t, k), pc'[Consumer] = pc[Consumer]
    PROVE  /\ t \in Outcomes /\ j = k =>
                  \E i \in DOMAIN events' : Reports(j)' = Reports(j) \cup {i}
           /\ t \notin Outcomes \/ j # k => Reports(j)' = Reports(j)
<1>1. CASE ~Bound(t)
  BY <1>1, ReportsRest DEF Routed, Bound, Outcomes
<1>2. CASE Bound(t)
  <2> DEFINE E == [type : EventTypes, job : Jobs]
             n == Len(events) + 1
  <2>1. events \in Seq(E) /\ Event(t, k) \in E /\ events' = Append(events, Event(t, k))
    BY <1>2 DEF TypeInv, TypeOK, Event, Routed
  <2>2. /\ Len(events) \in Nat /\ DOMAIN events = 1 .. Len(events)
        /\ DOMAIN events' = 1 .. n
        /\ \A i \in 1 .. Len(events) : events'[i] = events[i]
        /\ events'[n] = Event(t, k)
    <3> HIDE DEF E
    <3> QED
      BY <2>1, AppendFacts
  <2>3. n = 1 => pc[Consumer] # "ack"
    BY <2>1, <2>2, TailFacts DEF TypeInv, ConsumerAtHead
  <2>4. /\ n \in DOMAIN events' /\ n \notin DOMAIN events
        /\ \A i : i \in DOMAIN events' <=> i \in DOMAIN events \/ i = n
    BY <2>2
  <2>5. \A i \in DOMAIN events : i \in Reports(j)' <=> i \in Reports(j)
    BY <2>2, <2>4 DEF Reports
  <2>6. n \in Reports(j)' <=> t \in Outcomes /\ j = k
    BY <2>2, <2>3, <2>4 DEF Reports, Event
  <2>7. Reports(j)' \subseteq DOMAIN events' /\ Reports(j) \subseteq DOMAIN events
    BY DEF Reports
  <2> HIDE DEF n
  <2> QED
    BY <2>4, <2>5, <2>6, <2>7
<1> QED
  BY <1>1, <1>2

-----------------------------------------------------------------------------
(* The steps, one by one *)

LEMMA ManagerAnswers ==
    ASSUME Smooth, NEW k \in Jobs,
                   SaveJob(k) \/ SaveRaises(k) \/ ManagerStep(k) \/ CrashManager(k),
           NEW j \in Jobs
    PROVE  RightAnswers(j)' /\ api'[j] \in {"new", "saved", "enqueued", "accepted"}
<1>0. /\ api \in [Jobs -> {"new", "saved", "enqueued", "failing",
                           "accepted", "rejected", "aborted"}]
      /\ downloadQ \in [Jobs -> Nat] /\ translationQ \in [Jobs -> Nat]
      /\ TypeInv /\ RightAnswers(j) /\ \A i \in Jobs : RightAnswers(i)
      /\ api[j] \in {"new", "saved", "enqueued", "accepted"}
      /\ api[k] \in {"new", "saved", "enqueued", "accepted"}
  BY DEF Smooth, Undisturbed, TypeInv, TypeOK
<1>1. /\ UNCHANGED <<history, pc, cur, out>>
      /\ Debtors(j)' = Debtors(j) /\ Records(j)' = Records(j)
  <2>1. UNCHANGED <<history, pc, cur, out>>
    BY DEF SaveJob, SaveRaises, ManagerStep, EnqueueTask,
           PublishDownloadRequested, PublishFailure, CrashManager, procVars
  <2> QED
    BY <2>1 DEF Debtors, Owes, Records
<1>2. CASE SaveJob(k)
  <2>1. /\ UNCHANGED <<downloadQ, translationQ, events>>
        /\ api'[j] = api[j] \/ (api[j] = "new" /\ api'[j] = "saved")
    BY <1>0, <1>2 DEF SaveJob, taskQueues
  <2> QED
    BY <1>0, <1>1, <2>1, ReportsRest, AnswerRests
<1>3. CASE EnqueueTask(k)
  <2>1. /\ api[k] = "saved" /\ UNCHANGED events /\ PutTask(k)
        /\ \E a \in {"enqueued", "accepted"} : api' = [api EXCEPT ![k] = a]
    BY <1>3 DEF EnqueueTask, Smooth
  <2>2. Reports(j)' = Reports(j)
    BY <1>1, <2>1, ReportsRest
  <2>3. CASE j = k
    <3>1. /\ \/ downloadQ'[j] = downloadQ[j] + 1 /\ translationQ'[j] = translationQ[j]
             \/ translationQ'[j] = translationQ[j] + 1 /\ downloadQ'[j] = downloadQ[j]
          /\ api'[j] \in {"enqueued", "accepted"}
      BY <1>0, <2>1, <2>3 DEF PutTask, PutDownload, PutTranslation
    <3> QED
      BY <1>0, <1>1, <2>1, <2>2, <2>3, <3>1, AnswerBegins
  <2>4. CASE j # k
    <3>1. downloadQ'[j] = downloadQ[j] /\ translationQ'[j] = translationQ[j]
          /\ api'[j] = api[j]
      BY <1>0, <2>1, <2>4 DEF PutTask, PutDownload, PutTranslation
    <3> QED
      BY <1>0, <1>1, <2>2, <3>1, AnswerRests
  <2> QED
    BY <2>3, <2>4
<1>4. CASE PublishDownloadRequested(k)
  <2>1. /\ UNCHANGED <<downloadQ, translationQ>>
        /\ api'[j] = api[j] \/ (api[j] = "enqueued" /\ api'[j] = "accepted")
        /\ PublishEvent("subtitle.download.requested", k)
    BY <1>0, <1>4 DEF PublishDownloadRequested, taskQueues
  <2>2. Reports(j)' = Reports(j)
    BY <1>0, <1>1, <2>1, SmoothPublish, ReportsGrow DEF EventTypes, Outcomes
  <2> QED
    BY <1>0, <1>1, <2>1, <2>2, AnswerRests
<1>5. ~PublishFailure(k) /\ ~CrashManager(k)
  BY <1>0 DEF PublishFailure, CrashManager, Smooth
<1> QED
  BY <1>2, <1>3, <1>4, <1>5, SmoothReturns DEF ManagerStep

LEMMA TakeAnswers ==
    ASSUME Smooth, NEW p \in Workers, Step(p), NEW k \in Jobs,
           TakeDownload(p, k) \/ TakeTranslation(p, k), NEW j \in Jobs
    PROVE  RightAnswers(j)'
<1>0. /\ downloadQ \in [Jobs -> Nat] /\ translationQ \in [Jobs -> Nat]
      /\ pc \in [Procs -> {"idle", "get", "set", "expire", "search", "enqueue",
                           "translate", "publish", "record", "ack"}]
      /\ cur \in [Procs -> Jobs \cup {NoOne}]
      /\ p \in Procs /\ p # Consumer /\ Consumer \in Procs
      /\ TypeInv /\ RightAnswers(j)
      /\ api[j] \in {"new", "saved", "enqueued", "accepted"}
  BY DEF Smooth, Undisturbed, TypeInv, TypeOK, Procs
<1>1. /\ pc[p] = "idle" /\ pc'[p] = "get" /\ cur'[p] = k
      /\ pc'[Consumer] = pc[Consumer]
      /\ UNCHANGED <<api, events, history>>
  BY <1>0 DEF TakeDownload, TakeTranslation, Take
<1>2. Reports(j)' = Reports(j) /\ Records(j)' = Records(j) /\ api'[j] = api[j]
  BY <1>1, ReportsRest, RecordsRest
<1>3. CASE j = k
  <2>1. Owes(p, j)'
    BY <1>1, <1>3 DEF Owes
  <2>2. Debtors(j)' = Debtors(j) \cup {p}
    BY <1>0, <2>1, DebtMoves
  <2>3. \/ /\ downloadQ[j] > 0 /\ downloadQ'[j] = downloadQ[j] - 1
           /\ translationQ'[j] = translationQ[j]
        \/ /\ translationQ[j] > 0 /\ translationQ'[j] = translationQ[j] - 1
           /\ downloadQ'[j] = downloadQ[j]
    BY <1>0, <1>3 DEF TakeDownload, TakeTranslation
  <2> QED
    BY <1>0, <1>2, <2>2, <2>3, AnswerTaken
<1>4. CASE j # k
  <2>1. ~Owes(p, j)' /\ ~Owes(p, j)
    <3>1. cur[p] # j
      BY <1>0, <1>1 DEF Smooth, Undisturbed, Engaged
    <3> QED
      BY <1>1, <1>4, <3>1 DEF Owes
  <2>2. downloadQ'[j] = downloadQ[j] /\ translationQ'[j] = translationQ[j]
    BY <1>0, <1>4 DEF TakeDownload, TakeTranslation
  <2>3. Debtors(j)' = Debtors(j)
    BY <1>0, <2>1, DebtMoves
  <2> QED
    BY <1>0, <1>2, <2>2, <2>3, AnswerRests
<1> QED
  BY <1>3, <1>4

\* Lists of one event, or two, are told apart by what is in them.
LEMMA Lists ==
    /\ \A t : Head(<<t>>) = t /\ Tail(<<t>>) = <<>>
    /\ Handover \notin Singles /\ Finished \notin Singles /\ Finished # Handover
    /\ Head(Handover) = "subtitle.translate.requested" /\ Tail(Handover) = <<>>
    /\ Head(Finished) = "translation.completed"
    /\ Tail(Finished) = <<"subtitle.translated">>
    /\ Handover # <<>> /\ Finished # <<>> /\ <<>> \notin Singles
    /\ Finished[Len(Finished)] = "subtitle.translated"
    /\ \A t : <<t>>[Len(<<t>>)] = t
<1>1. \A t : Head(<<t>>) = t /\ Tail(<<t>>) = <<>> /\ <<t>>[1] = t /\ Len(<<t>>) = 1
  OBVIOUS
<1>2. \A t \in Outcomes : t # "subtitle.translate.requested"
  BY DEF Outcomes
<1>3. Handover \notin Singles
  BY <1>1, <1>2 DEF Handover, Singles
<1>4. Len(Finished) = 2 /\ Finished[2] = "subtitle.translated"
  BY DEF Finished
<1>5. Finished \notin Singles /\ Finished # Handover
  BY <1>1, <1>4 DEF Singles, Handover
<1>6. Head(Finished) = "translation.completed" /\ Tail(Finished) = <<"subtitle.translated">>
  BY DEF Finished
<1>7. Handover # <<>> /\ Finished # <<>> /\ <<>> \notin Singles
  BY <1>1, <1>4 DEF Singles, Handover
<1> QED
  BY <1>1, <1>3, <1>4, <1>5, <1>6, <1>7 DEF Handover

\* A process that only gets on with its work owes what it owed.
LEMMA WorkAnswers ==
    ASSUME Smooth, NEW p \in Procs, Step(p), NEW j \in Jobs,
           p \in Workers => (Owes(p, j)' <=> Owes(p, j)),
           pc[p] # "ack", pc'[p] # "ack",
           UNCHANGED <<api, history, downloadQ, translationQ, events>>
    PROVE  RightAnswers(j)'
<1>1. TypeInv /\ RightAnswers(j)
  BY DEF Smooth, Undisturbed
<1>2. Debtors(j)' = Debtors(j)
  BY <1>1, DebtMoves
<1>3. pc'[Consumer] = "ack" <=> pc[Consumer] = "ack"
  BY <1>1, OthersRest DEF Procs
<1> QED
  BY <1>1, <1>2, <1>3, ReportsRest, RecordsRest, AnswerRests

LEMMA UpdateAnswers ==
    ASSUME Smooth, NEW p \in Procs, Step(p), UpdatePhase(p), NEW j \in Jobs
    PROVE  RightAnswers(j)'
<1>1. /\ pc[p] \in {"get", "set", "expire"}
      /\ UNCHANGED <<api, history, downloadQ, translationQ, events, cur, out>>
  BY SmoothReturns DEF UpdatePhase, GetJob, SetJob, ExpireJob, taskQueues
<1>2. PICK label \in {"set", "expire", AfterUpdate(p)} : pc' = [pc EXCEPT ![p] = label]
  BY SmoothReturns DEF UpdatePhase, GetJob, SetJob, ExpireJob, Goto
<1>3. /\ pc'[p] \in {"set", "expire", "record", "search", "publish", "translate"}
      /\ p \in Downloaders /\ p # Consumer => pc'[p] # "publish"
  BY <1>2 DEF AfterUpdate, Smooth, TypeInv, TypeOK
<1>4. p \in Workers => (Owes(p, j)' <=> Owes(p, j))
  BY <1>1, <1>3 DEF Owes, Workers
<1> QED
  BY <1>1, <1>3, <1>4, WorkAnswers

LEMMA SearchAnswers ==
    ASSUME Smooth, NEW p \in Downloaders, Step(p), Search(p), NEW j \in Jobs
    PROVE  RightAnswers(j)' /\ RightReports(p)'
<1>0. /\ p \in Procs /\ p \in Workers /\ p \notin Translators /\ TypeInv
      /\ pc \in [Procs -> {"idle", "get", "set", "expire", "search", "enqueue",
                           "translate", "publish", "record", "ack"}]
      /\ out \in [Procs -> Seq(EventTypes)]
  BY DEF Smooth, TypeInv, TypeOK, Procs, Workers
<1>1. /\ pc[p] = "search" /\ ~ApiError(p)
      /\ UNCHANGED <<api, history, downloadQ, translationQ, events, cur, goal>>
  BY DEF Search, Smooth, ApiError, taskQueues
<1>2. \/ pc'[p] = "enqueue"
      \/ pc'[p] = "publish" /\ \E t \in Outcomes : out'[p] = <<t>>
  <2>1. CASE FoundOther(p)
    BY <1>0, <2>1 DEF FoundOther, Goto
  <2>2. ASSUME NEW t \in Outcomes, Report(p, <<t>>)
        PROVE  pc'[p] = "publish" /\ out'[p] = <<t>>
    BY <1>0, <2>2 DEF Report, Goto
  <2> QED
    BY <1>1, <2>1, <2>2 DEF Search, FoundRequested, NothingSaved, Outcomes
<1>3. pc'[p] = "publish" => out'[p] \in Singles
  BY <1>2 DEF Singles
<1>4. Owes(p, j)' <=> Owes(p, j)
  BY <1>1, <1>2, <1>3, Lists DEF Owes, Handover
<1>5. RightReports(p)'
  BY <1>0, <1>3 DEF RightReports
<1> QED
  BY <1>0, <1>1, <1>2, <1>4, <1>5, WorkAnswers

LEMMA TranslateAnswers ==
    ASSUME Smooth, NEW p \in Translators, Step(p), Translate(p), NEW j \in Jobs
    PROVE  RightAnswers(j)' /\ RightReports(p)'
<1>0. /\ p \in Procs /\ p \in Workers /\ p \notin Downloaders /\ TypeInv
      /\ pc \in [Procs -> {"idle", "get", "set", "expire", "search", "enqueue",
                           "translate", "publish", "record", "ack"}]
      /\ out \in [Procs -> Seq(EventTypes)]
  BY DEF Smooth, TypeInv, TypeOK, Procs, Workers
<1>1. /\ pc[p] = "translate"
      /\ UNCHANGED <<api, history, downloadQ, translationQ, events, cur>>
  BY DEF Translate, taskQueues
<1>2. \/ pc'[p] = "get" /\ out'[p] = Finished
      \/ pc'[p] = "publish" /\ out'[p] = <<"job.failed">>
  BY <1>0 DEF Translate, TranslationSaved, TranslationFails, Report, Goto,
     Finished
<1>3. Owes(p, j)' <=> Owes(p, j)
  BY <1>0, <1>1, <1>2 DEF Owes
<1>4. RightReports(p)'
  BY <1>0, <1>2 DEF RightReports, Singles, Outcomes
<1> QED
  BY <1>0, <1>1, <1>2, <1>3, <1>4, WorkAnswers

LEMMA HandoverAnswers ==
    ASSUME Smooth, NEW p \in Downloaders, Step(p), EnqueueTranslation(p), NEW j \in Jobs
    PROVE  RightAnswers(j)' /\ RightReports(p)'
<1>0. /\ p \in Procs /\ p \in Workers /\ p # Consumer /\ p \notin Translators
      /\ Consumer \in Procs /\ TypeInv /\ RightAnswers(j)
      /\ api[j] \in {"new", "saved", "enqueued", "accepted"}
      /\ pc \in [Procs -> {"idle", "get", "set", "expire", "search", "enqueue",
                           "translate", "publish", "record", "ack"}]
      /\ out \in [Procs -> Seq(EventTypes)]
      /\ translationQ \in [Jobs -> Nat]
  BY DEF Smooth, Undisturbed, TypeInv, TypeOK, Procs, Workers
<1>1. /\ pc[p] = "enqueue" /\ cur[p] \in Jobs
      /\ PutTranslation(cur[p]) /\ Report(p, Handover)
      /\ UNCHANGED <<api, history, events, cur>>
  BY DEF EnqueueTranslation, Smooth, TypeInv, PlaceOK, Procs, Workers, Handover
<1>2. /\ pc'[p] = "publish" /\ out'[p] = Handover /\ pc'[Consumer] = pc[Consumer]
  BY <1>0, <1>1 DEF Report, Goto
<1>3. Reports(j)' = Reports(j) /\ Records(j)' = Records(j) /\ api'[j] = api[j]
  BY <1>1, <1>2, ReportsRest, RecordsRest
<1>4. CASE j = cur[p]
  <2>1. Owes(p, j) /\ ~Owes(p, j)'
    BY <1>1, <1>2, <1>4 DEF Owes, Handover
  <2>2. p \in Debtors(j) /\ Debtors(j)' = Debtors(j) \ {p}
    BY <1>0, <2>1, DebtMoves
  <2>3. translationQ'[j] = translationQ[j] + 1 /\ downloadQ'[j] = downloadQ[j]
    BY <1>0, <1>1, <1>4 DEF PutTranslation
  <2> QED
    BY <1>0, <1>2, <1>3, <2>2, <2>3, AnswerHandedOver DEF RightReports
<1>5. CASE j # cur[p]
  <2>1. ~Owes(p, j) /\ ~Owes(p, j)'
    BY <1>1, <1>5 DEF Owes
  <2>2. Debtors(j)' = Debtors(j)
    BY <1>0, <2>1, DebtMoves
  <2>3. translationQ'[j] = translationQ[j] /\ downloadQ'[j] = downloadQ[j]
    BY <1>0, <1>1, <1>5 DEF PutTranslation
  <2> QED
    BY <1>0, <1>2, <1>3, <2>2, <2>3, AnswerRests DEF RightReports
<1> QED
  BY <1>4, <1>5

LEMMA PublishAnswers ==
    ASSUME Smooth, NEW p \in Workers, Step(p), Publish(p), NEW j \in Jobs
    PROVE  RightAnswers(j)' /\ RightReports(p)'
<1> DEFINE k == cur[p]
           t == Head(out[p])
<1>0. /\ p \in Procs /\ p # Consumer /\ Consumer \in Procs /\ TypeInv
      /\ RightAnswers(j) /\ RightReports(p)
      /\ api[j] \in {"new", "saved", "enqueued", "accepted"}
      /\ pc \in [Procs -> {"idle", "get", "set", "expire", "search", "enqueue",
                           "translate", "publish", "record", "ack"}]
      /\ out \in [Procs -> Seq(EventTypes)]
      /\ p \in Downloaders \/ p \in Translators
  BY DEF Smooth, Undisturbed, TypeInv, TypeOK, Procs, Workers
<1>1. /\ pc[p] = "publish" /\ k \in Jobs /\ PublishEvent(t, k)
      /\ out'[p] = Tail(out[p])
      /\ pc'[p] = IF Tail(out[p]) = <<>> THEN "ack" ELSE "publish"
      /\ pc'[Consumer] = pc[Consumer]
      /\ UNCHANGED <<api, history, downloadQ, translationQ, cur>>
  BY <1>0 DEF Publish, Goto, TypeInv, PlaceOK, taskQueues
<1>2. /\ out[p] \in Singles \cup {Handover, Finished}
      /\ p \in Downloaders => out[p] # Finished
      /\ out[p] = Handover => p \in Downloaders
  BY <1>0, <1>1, Lists DEF RightReports
<1>3. t \in EventTypes
  BY <1>2, Lists DEF Singles, EventTypes, Outcomes
<1>4. events' = Routed(t, k)
  BY <1>1, SmoothPublish
<1> HIDE DEF k, t
<1>5. Records(j)' = Records(j)
  BY <1>1, RecordsRest
<1>6. CASE out[p] \in Singles
  <2>1. t \in Outcomes /\ Tail(out[p]) = <<>>
    <3>1. PICK o \in Outcomes : out[p] = <<o>>
      BY <1>6 DEF Singles
    <3>2. Head(<<o>>) = o /\ Tail(<<o>>) = <<>>
      BY Lists
    <3> QED
      BY <3>1, <3>2 DEF t
  <2>2. pc'[p] = "ack"
    BY <1>1, <2>1
  <2>3. RightReports(p)'
    BY <2>2 DEF RightReports
  <2>4. CASE j = k
    <3>1. Owes(p, j) /\ ~Owes(p, j)'
      BY <1>1, <1>6, <2>2, <2>4, Lists DEF Owes, k, Handover
    <3>2. p \in Debtors(j) /\ Debtors(j)' = Debtors(j) \ {p}
      BY <1>0, <3>1, DebtMoves
    <3>3. \E i \in DOMAIN events' : Reports(j)' = Reports(j) \cup {i}
      BY <1>0, <1>1, <1>3, <1>4, <2>1, <2>4, ReportsGrow
    <3> QED
      BY <1>0, <1>1, <1>5, <2>3, <3>2, <3>3, AnswerReported
  <2>5. CASE j # k
    <3>1. ~Owes(p, j) /\ ~Owes(p, j)'
      BY <1>1, <2>5 DEF Owes, k
    <3>2. Debtors(j)' = Debtors(j)
      BY <1>0, <3>1, DebtMoves
    <3>3. Reports(j)' = Reports(j)
      BY <1>0, <1>1, <1>3, <1>4, <2>5, ReportsGrow
    <3> QED
      BY <1>0, <1>1, <1>5, <2>3, <3>2, <3>3, AnswerRests
  <2> QED
    BY <2>4, <2>5
<1>7. CASE out[p] = Handover
  <2>1. t \notin Outcomes /\ pc'[p] = "ack" /\ p \in Downloaders
    BY <1>1, <1>2, <1>7, Lists DEF t, Outcomes
  <2>2. ~Owes(p, j) /\ ~Owes(p, j)'
    BY <1>1, <1>7, <2>1 DEF Owes, Handover
  <2>3. Debtors(j)' = Debtors(j)
    BY <1>0, <2>2, DebtMoves
  <2>4. Reports(j)' = Reports(j)
    BY <1>0, <1>1, <1>3, <1>4, <2>1, ReportsGrow
  <2> QED
    BY <1>0, <1>1, <1>5, <2>1, <2>3, <2>4, AnswerRests DEF RightReports
<1>8. CASE out[p] = Finished
  <2>1. t \notin Outcomes /\ p \notin Downloaders /\ Tail(out[p]) = <<"subtitle.translated">>
    BY <1>2, <1>8, Lists DEF t, Outcomes
  <2>2. pc'[p] = "publish" /\ out'[p] \in Singles
    <3>1. Tail(out[p]) # <<>>
      BY <2>1, Lists DEF Singles, Outcomes
    <3> QED
      BY <1>1, <2>1, <3>1 DEF Singles, Outcomes
  <2>3. Owes(p, j)' <=> Owes(p, j)
    BY <1>1, <2>1, <2>2 DEF Owes
  <2>4. Debtors(j)' = Debtors(j)
    BY <1>0, <2>3, DebtMoves
  <2>5. Reports(j)' = Reports(j)
    BY <1>0, <1>1, <1>3, <1>4, <2>1, ReportsGrow
  <2> QED
    BY <1>0, <1>1, <1>5, <2>1, <2>2, <2>4, <2>5, AnswerRests DEF RightReports
<1> QED
  BY <1>2, <1>6, <1>7, <1>8

LEMMA RecordAnswers ==
    ASSUME Smooth, Step(Consumer), RecordEvent, NEW j \in Jobs
    PROVE  RightAnswers(j)'
<1> DEFINE k == cur[Consumer]
           t == Head(events).type
<1>0. /\ Consumer \in Procs /\ Consumer \notin Workers /\ TypeInv
      /\ RightAnswers(j)
      /\ api[j] \in {"new", "saved", "enqueued", "accepted"}
      /\ history \in [Jobs -> Seq(EventTypes)]
      /\ Debtors(j)' = Debtors(j)
  BY DebtMoves DEF Smooth, Undisturbed, TypeInv, TypeOK, Procs
<1>1. /\ pc[Consumer] = "record" /\ pc'[Consumer] = "ack" /\ k \in Jobs
      /\ history' = [history EXCEPT ![k] = Append(@, t)]
      /\ UNCHANGED <<api, downloadQ, translationQ, events, cur>>
  BY <1>0 DEF RecordEvent, Goto, Smooth, TypeInv, TypeOK, PlaceOK, taskQueues
<1>2. /\ events # <<>> /\ 1 \in DOMAIN events /\ events[1] = Head(events)
      /\ k = events[1].job /\ t = events[1].type /\ t \in EventTypes
  <2>1. events # <<>> /\ cur[Consumer] = Head(events).job
    BY <1>0, <1>1 DEF TypeInv, ConsumerAtHead
  <2>2. Head(events) = events[1] /\ 1 \in 1 .. Len(events)
    BY <1>0, <2>1, EventFacts, TailFacts DEF TypeInv
  <2> QED
    BY <1>0, <2>1, <2>2, EventFacts DEF TypeInv
<1> HIDE DEF k, t
<1>3. /\ Reports(j)' = Reports(j) \ {1}
      /\ 1 \in Reports(j) <=> k = j /\ t \in Outcomes
  BY <1>1, <1>2 DEF Reports
<1>4. CASE j = k
  <2> DEFINE h == Len(history[j]) + 1
  <2>1. /\ h \in DOMAIN history'[j] /\ history'[j][h] = t
        /\ \A i : i \in DOMAIN history'[j] <=> i \in DOMAIN history[j] \/ i = h
        /\ \A i \in DOMAIN history[j] : history'[j][i] = history[j][i]
    <3>1. history[j] \in Seq(EventTypes) /\ history'[j] = Append(history[j], t)
      BY <1>0, <1>1, <1>4
    <3> QED
      BY <1>2, <3>1, AppendFacts
  <2> HIDE DEF h
  <2>2. CASE t \in Outcomes
    <3>1. Records(j)' = Records(j) \cup {h}
      BY <2>1, <2>2 DEF Records
    <3> QED
      BY <1>0, <1>1, <1>3, <1>4, <2>1, <2>2, <3>1, AnswerRecorded
  <2>3. CASE t \notin Outcomes
    <3>1. Records(j)' = Records(j)
      BY <2>1, <2>3 DEF Records
    <3>2. Reports(j)' = Reports(j)
      BY <1>3, <2>3
    <3> QED
      BY <1>0, <1>1, <3>1, <3>2, AnswerRests
  <2> QED
    BY <2>2, <2>3
<1>5. CASE j # k
  <2>1. history'[j] = history[j] /\ Reports(j)' = Reports(j)
    BY <1>0, <1>1, <1>3, <1>5
  <2> QED
    BY <1>0, <1>1, <2>1, RecordsRest, AnswerRests
<1> QED
  BY <1>4, <1>5

LEMMA AckAnswers ==
    ASSUME Smooth, NEW p \in Procs, Step(p), Ack(p), NEW j \in Jobs
    PROVE  RightAnswers(j)'
<1>0. /\ TypeInv /\ RightAnswers(j) /\ NoOne # j
      /\ pc \in [Procs -> {"idle", "get", "set", "expire", "search", "enqueue",
                           "translate", "publish", "record", "ack"}]
      /\ cur \in [Procs -> Jobs \cup {NoOne}]
  BY DEF Smooth, Undisturbed, TypeInv, TypeOK
<1>1. /\ pc[p] = "ack" /\ pc'[p] = "idle" /\ cur'[p] = NoOne /\ held[p]
      /\ UNCHANGED <<api, history, downloadQ, translationQ>>
  BY <1>0 DEF Ack, Release, taskQueues, Smooth, Undisturbed, Engaged
<1>2. ~Owes(p, j) /\ ~Owes(p, j)'
  BY <1>0, <1>1 DEF Owes
<1>3. Debtors(j)' = Debtors(j) /\ Records(j)' = Records(j)
  BY <1>0, <1>1, <1>2, DebtMoves, RecordsRest
<1>4. CASE p = Consumer
  <2>1. events' = Tail(events) /\ events # <<>>
    BY <1>0, <1>1, <1>4 DEF Ack, TypeInv, ConsumerAtHead
  <2> QED
    BY <1>0, <1>1, <1>3, <1>4, <2>1, AnswerMovesUp
<1>5. CASE p # Consumer
  <2>1. UNCHANGED events /\ pc'[Consumer] = pc[Consumer]
    BY <1>0, <1>5, OthersRest DEF Ack, Procs
  <2> QED
    BY <1>0, <1>1, <1>3, <2>1, ReportsRest, AnswerRests
<1> QED
  BY <1>4, <1>5

\* Taking an event says nothing to anybody yet.
LEMMA TakeEventAnswers ==
    ASSUME Smooth, Step(Consumer), TakeEvent, NEW j \in Jobs
    PROVE  RightAnswers(j)'
<1>1. /\ Consumer \in Procs /\ Consumer \notin Workers
      /\ pc[Consumer] = "idle" /\ pc'[Consumer] = "get"
      /\ UNCHANGED <<api, history, downloadQ, translationQ, events>>
  BY DEF TakeEvent, Take, taskQueues, Smooth, TypeInv, TypeOK, Procs
<1> QED
  BY <1>1, WorkAnswers

LEMMA StepAnswers ==
    ASSUME Smooth, NEW p \in Procs, Step(p), NEW j \in Jobs
    PROVE  RightAnswers(j)'
<1>1. ~Failure(p)
  BY DEF Failure, Timeout, Crash, LoseConnection, Smooth
<1>2. ASSUME p \in Downloaders, DownloaderStep(p)
      PROVE  RightAnswers(j)'
  BY <1>2, TakeAnswers, UpdateAnswers, SearchAnswers, HandoverAnswers,
     PublishAnswers, AckAnswers DEF DownloaderStep, Workers
<1>3. ASSUME p \in Translators, TranslatorStep(p)
      PROVE  RightAnswers(j)'
  BY <1>3, TakeAnswers, UpdateAnswers, TranslateAnswers, PublishAnswers,
     AckAnswers DEF TranslatorStep, Workers
<1>4. ASSUME p = Consumer, ConsumerStep
      PROVE  RightAnswers(j)'
  BY <1>4, TakeEventAnswers, UpdateAnswers, RecordAnswers, AckAnswers
     DEF ConsumerStep
<1> QED
  BY <1>1, <1>2, <1>3, <1>4 DEF Step

\* What a worker is about to publish is what its handler found.
LEMMA StepReports ==
    ASSUME Smooth, NEW p \in Procs, Step(p), NEW q \in Workers
    PROVE  RightReports(q)'
<1>0. /\ TypeInv /\ RightReports(q) /\ q \in Procs /\ q # Consumer
      /\ pc \in [Procs -> {"idle", "get", "set", "expire", "search", "enqueue",
                           "translate", "publish", "record", "ack"}]
      /\ goal \in [Procs -> Statuses \cup {"absent"}]
      /\ Downloaders \cap Translators = {}
  BY DEF Smooth, Undisturbed, TypeInv, TypeOK, Procs
<1>1. CASE q # p
  <2>1. pc'[q] = pc[q] /\ out'[q] = out[q] /\ goal'[q] = goal[q]
    BY <1>0, <1>1, OthersRest, GoalsRest
  <2> QED
    BY <1>0, <2>1 DEF RightReports
<1>2. CASE q = p
  <2>1. CASE Search(p) \/ EnqueueTranslation(p) \/ Translate(p) \/ Publish(p)
    <3>1. cur[p] \in Jobs
      BY <1>0, <1>2, <2>1 DEF Search, EnqueueTranslation, Translate, Publish,
         TypeInv, PlaceOK
    <3>2. Search(p) \/ EnqueueTranslation(p) => p \in Downloaders
      BY <1>0, <1>2 DEF Search, EnqueueTranslation, TypeInv, PlaceOK
    <3>3. Translate(p) => p \in Translators
      BY <1>0, <1>2 DEF Translate, TypeInv, PlaceOK
    <3> QED
      BY <1>2, <2>1, <3>1, <3>2, <3>3, SearchAnswers, HandoverAnswers,
         TranslateAnswers, PublishAnswers
  <2>2. CASE UpdatePhase(p)
    <3>1. /\ pc[p] \in {"get", "set", "expire"} /\ out' = out /\ goal' = goal
          /\ \E label \in {"set", "expire", AfterUpdate(p)} :
                 pc' = [pc EXCEPT ![p] = label]
      BY <2>2, SmoothReturns DEF UpdatePhase, GetJob, SetJob, ExpireJob, Goto
    <3>2. /\ p \in Downloaders => pc'[p] # "publish"
          /\ p \in Translators /\ pc'[p] = "publish" => goal[p] = "completed"
      BY <1>0, <1>2, <3>1 DEF AfterUpdate
    <3> QED
      BY <1>0, <1>2, <3>1, <3>2 DEF RightReports
  <2>3. CASE \E i \in Jobs : TakeDownload(p, i) \/ TakeTranslation(p, i)
    <3>1. pc'[p] = "get" /\ goal'[p] # "completed"
      BY <1>0, <1>2, <2>3 DEF TakeDownload, TakeTranslation, Take
    <3> QED
      BY <1>2, <3>1 DEF RightReports
  <2>4. CASE Ack(p)
    <3>1. pc'[p] = "idle"
      BY <1>0, <1>2, <2>4 DEF Ack, Release
    <3> QED
      BY <1>2, <3>1 DEF RightReports
  <2>5. ~Failure(p)
    BY DEF Failure, Timeout, Crash, LoseConnection, Smooth
  <2> QED
    BY <1>0, <1>2, <2>1, <2>2, <2>3, <2>4, <2>5
       DEF Step, DownloaderStep, TranslatorStep
<1> QED
  BY <1>1, <1>2

\* Without a failure nobody loses a message.
LEMMA StepEngaged ==
    ASSUME Smooth, NEW p \in Procs, Step(p), NEW q \in Procs
    PROVE  Engaged(q)'
<1>0. /\ TypeInv /\ Engaged(q)
      /\ pc \in [Procs -> {"idle", "get", "set", "expire", "search", "enqueue",
                           "translate", "publish", "record", "ack"}]
      /\ cur \in [Procs -> Jobs \cup {NoOne}] /\ held \in [Procs -> BOOLEAN]
  BY DEF Smooth, Undisturbed, TypeInv, TypeOK
<1>1. CASE q # p
  BY <1>0, <1>1, OthersRest DEF Engaged
<1>2. ASSUME q = p, NEW i, NEW status, Take(p, i, status)
      PROVE  Engaged(q)'
  BY <1>0, <1>2 DEF Take, Engaged
<1>3. CASE q = p /\ Ack(p)
  BY <1>0, <1>3 DEF Ack, Release, Engaged
<1>4. CASE q = p /\ pc[p] # "idle" /\ pc'[p] # "idle" /\ UNCHANGED held
  BY <1>0, <1>4 DEF Engaged
<1>5. ASSUME NEW label, label # "idle", Goto(p, label)
      PROVE  pc'[p] # "idle"
  BY <1>0, <1>5 DEF Goto
<1>6. ASSUME \/ UpdatePhase(p) \/ Search(p) \/ EnqueueTranslation(p) \/ Translate(p)
             \/ Publish(p) \/ (p = Consumer /\ RecordEvent)
      PROVE  pc[p] # "idle" /\ pc'[p] # "idle" /\ UNCHANGED held
  <2>1. AfterUpdate(p) # "idle"
    BY DEF AfterUpdate
  <2> QED
    BY <1>5, <1>6, <2>1 DEF UpdatePhase, GetJob, UpdateRaises, SetJob,
       ExpireJob, Search,
       FoundRequested, FoundOther, NothingSaved, ApiError, EnqueueTranslation,
       Translate, TranslationSaved, TranslationFails, Report, Publish, RecordEvent
<1>7. ~Failure(p)
  BY DEF Failure, Timeout, Crash, LoseConnection, Smooth
<1> QED
  BY <1>1, <1>2, <1>3, <1>4, <1>6, <1>7 DEF Step, DownloaderStep, TranslatorStep,
     ConsumerStep, TakeDownload, TakeTranslation, TakeEvent

LEMMA StepKeepsRequests ==
    ASSUME NEW p \in Procs, Step(p)
    PROVE  UNCHANGED api
BY DEF Step, DownloaderStep, TranslatorStep, ConsumerStep, Failure,
   TakeDownload, TakeTranslation, TakeEvent, UpdatePhase, GetJob, UpdateRaises,
   SetJob,
   ExpireJob, RecordEvent, Search, EnqueueTranslation, Translate, Publish,
   Ack, Timeout, Crash, LoseConnection

LEMMA SmoothStays ==
    ASSUME Smooth, [Next]_vars
    PROVE  Undisturbed'
<1>1. ASSUME NEW k \in Jobs,
             SaveJob(k) \/ SaveRaises(k) \/ ManagerStep(k) \/ CrashManager(k)
      PROVE  Undisturbed'
  <2>1. UNCHANGED <<pc, cur, goal, out, held>>
    BY <1>1 DEF SaveJob, SaveRaises, ManagerStep, EnqueueTask,
       PublishDownloadRequested, PublishFailure, CrashManager, procVars
  <2>2. \A p \in Procs : Engaged(p)'
    BY <2>1 DEF Smooth, Undisturbed, Engaged
  <2>3. \A p \in Workers : RightReports(p)'
    BY <2>1 DEF Smooth, Undisturbed, RightReports
  <2> QED
    BY <1>1, <2>2, <2>3, ManagerAnswers DEF Undisturbed
<1>2. ASSUME NEW p \in Procs, Step(p)
      PROVE  Undisturbed'
  BY <1>2, StepAnswers, StepReports, StepEngaged, StepKeepsRequests
     DEF Undisturbed, Smooth
<1>3. CASE UNCHANGED vars
  <2>1. /\ \A p \in Procs : Engaged(p)'
        /\ \A p \in Workers : RightReports(p)'
    BY <1>3 DEF vars, Smooth, Undisturbed, Engaged, RightReports
  <2>2. \A j \in Jobs : Debtors(j)' = Debtors(j) /\ Reports(j)' = Reports(j)
                        /\ Records(j)' = Records(j)
    BY <1>3 DEF vars, Debtors, Owes, Reports, Records
  <2>3. UNCHANGED <<api, downloadQ, translationQ>>
    BY <1>3 DEF vars
  <2>4. \A j \in Jobs : RightAnswers(j)'
    BY <2>2, <2>3, AnswerRests DEF Smooth, Undisturbed
  <2> QED
    BY <2>1, <2>3, <2>4 DEF Undisturbed, Smooth
<1> QED
  BY <1>1, <1>2, <1>3, NextCases

LEMMA NextAnswer ==
    ASSUME AnswerInv, [Next]_vars
    PROVE  AnswerInv'
<1>1. TypeInv'
  BY NextTypeInv DEF AnswerInv
<1>2. ASSUME NoFaultYet'
      PROVE  Undisturbed'
  <2>1. NoFaultYet /\ \A kind : ~Fault(kind)
    BY <1>2, BudgetFalls DEF AnswerInv
  <2> QED
    BY <2>1, SmoothStays DEF AnswerInv, Smooth
<1> QED
  BY <1>1, <1>2 DEF AnswerInv

\* For any number of jobs and workers: as long as nothing has failed, a job
\* that was taken on has exactly one answer, as a task on a work queue, with a
\* worker, as an event for the consumer or in its history. The handover from
\* downloader to translator neither drops nor doubles it.
THEOREM AnsweredOnce == Spec => []ExactlyOneAnswer
<1>1. AnswerInv /\ [Next]_vars => AnswerInv'
  BY NextAnswer
<1> QED
  BY <1>1, InitAnswer, AnswerInvCounts, PTL DEF Spec

-----------------------------------------------------------------------------
(* Status writes after the outcome *)

\* Whose outcome is recorded is owed nothing any more.
LEMMA NothingOwed ==
    ASSUME AnswerInv, NoFaultYet, NEW j \in Jobs, OutcomeRecorded(j)
    PROVE  Debtors(j) = {} /\ api[j] # "new"
<1>1. Records(j) # {}
  BY DEF OutcomeRecorded, Recorded, Records
<1>2. /\ RightAnswers(j)
      /\ api[j] \in {"new", "saved", "enqueued", "accepted"}
  BY DEF AnswerInv, Undisturbed
<1>3. OneAnswer(j) /\ api[j] \notin {"new", "saved"}
  BY <1>1, <1>2, AnswerThere
<1> QED
  BY <1>1, <1>3 DEF OneAnswer

\* The record of a job is written when it is made, and by update_phase.
LEMMA StatusWriters ==
    ASSUME [Next]_vars, TypeInv, NEW j \in Jobs, job'[j] # job[j]
    PROVE  \/ api[j] = "new"
           \/ \E p \in Procs : pc[p] \in {"set", "expire"} /\ cur[p] = j
<1>0. job \in [Jobs -> Record]
  BY DEF TypeInv, TypeOK
<1>1. ASSUME NEW k \in Jobs,
             SaveJob(k) \/ SaveRaises(k) \/ ManagerStep(k) \/ CrashManager(k)
      PROVE  api[j] = "new"
  <2>1. SaveJob(k)
    BY <1>1 DEF SaveRaises, ManagerStep, EnqueueTask, PublishDownloadRequested,
                PublishFailure, CrashManager
  <2> QED
    BY <1>0, <2>1 DEF SaveJob
<1>2. ASSUME NEW p \in Procs, Step(p)
      PROVE  pc[p] \in {"set", "expire"} /\ cur[p] = j
  <2>1. SetJob(p) \/ ExpireJob(p)
    BY <1>2 DEF Step, DownloaderStep, TranslatorStep, ConsumerStep, Failure,
       TakeDownload, TakeTranslation, TakeEvent, UpdatePhase, GetJob,
       UpdateRaises,
       RecordEvent, Search, EnqueueTranslation, Translate, Publish, Ack,
       Timeout, Crash, LoseConnection
  <2> QED
    BY <1>0, <2>1 DEF SetJob, ExpireJob
<1> QED
  BY <1>1, <1>2, NextCases DEF vars

\* For any number of jobs and workers: as long as nothing has failed, once the
\* outcome of a job is recorded only the consumer still writes its status.
THEOREM ConsumerHasTheLastWord == Spec => OutcomeOverridesWorkers
<1> DEFINE A == \A j \in Jobs :
                  NoFaultYet /\ OutcomeRecorded(j) /\ job'[j] # job[j] =>
                      cur[Consumer] = j /\ pc[Consumer] \in {"set", "expire"}
<1>1. AnswerInv /\ [Next]_vars => AnswerInv'
  BY NextAnswer
<1>2. AnswerInv /\ [Next]_vars => A
  <2> SUFFICES ASSUME AnswerInv, [Next]_vars, NEW j \in Jobs,
                      NoFaultYet, OutcomeRecorded(j), job'[j] # job[j]
               PROVE  cur[Consumer] = j /\ pc[Consumer] \in {"set", "expire"}
    OBVIOUS
  <2>1. PICK p \in Procs : pc[p] \in {"set", "expire"} /\ cur[p] = j
    BY NothingOwed, StatusWriters DEF AnswerInv
  <2>2. p \notin Workers
    BY <2>1, NothingOwed DEF Debtors, Owes
  <2> QED
    BY <2>1, <2>2 DEF Procs
<1> QED
  BY <1>1, <1>2, InitAnswer, PTL DEF Spec, OutcomeOverridesWorkers

-----------------------------------------------------------------------------
(* Who has the last word on the status of a job *)

\* After these failures an event is missing, or a status write was skipped.
\* A worker that dies after its task went to another one, which takes two
\* failures, takes with it the event that would have corrected its status.
Heard ==
    /\ Faults \cap {"redis", "history", "hang", "publish", "timeout"} = {}
    /\ {"conn", "crash"} \subseteq Faults => MaxFaults <= 1

\* An event about j waits behind another one.
Behind(j) == \E i \in 2 .. Len(events) : events[i].job = j

\* The consumer has yet to start on an event about j.
MoreToCome(j) ==
    \/ downloadQ[j] > 0 \/ translationQ[j] > 0
    \/ \E p \in Workers : cur[p] = j /\ pc[p] \notin {"idle", "ack"}
    \/ Behind(j)

AtHead(j) == events # <<>> /\ Head(events).job = j

Agrees(j, t) == job[j].status \in {"absent", StatusOf(t)}

Last(j) == history[j][Len(history[j])]

\* The status follows the event that the consumer handles, or the last one.
Settled(j) ==
    /\ ~AtHead(j) /\ history[j] # <<>> => Agrees(j, Last(j))
    /\ AtHead(j) /\ pc[Consumer] \in {"expire", "record", "ack"} =>
           Agrees(j, Head(events).type)
    /\ AtHead(j) /\ pc[Consumer] = "ack" =>
           history[j] # <<>> /\ Last(j) = Head(events).type

\* The last event that a worker publishes is one the consumer gets.
LastIsBound(p) ==
    /\ pc[p] = "publish" => Bound(LastOut(p))
    /\ p \in Translators /\ out[p] # <<>> => Bound(LastOut(p))

\* A handler whose message the broker took back is one failure further.
LostOnlyByConn ==
    \A p \in Procs : pc[p] # "idle" /\ ~held[p] => "conn" \in Faults /\ budget < MaxFaults

KnownHistory == \A j \in Jobs : history[j] # <<>> => j \in Known

LastWordInv ==
    /\ KnownInv
    /\ KnownHistory
    /\ LostOnlyByConn
    /\ \A p \in Workers : LastIsBound(p)
    /\ \A j \in Jobs : MoreToCome(j) \/ Settled(j)

LEMMA InitLastWord == Init => LastWordInv
<1> SUFFICES ASSUME Init
             PROVE  LastWordInv
  OBVIOUS
<1>1. /\ \A p \in Procs : pc[p] = "idle" /\ out[p] = <<>>
      /\ \A j \in Jobs : history[j] = <<>>
      /\ events = <<>>
  BY DEF Init
<1>2. KnownHistory /\ LostOnlyByConn
  BY <1>1 DEF KnownHistory, LostOnlyByConn
<1>3. \A p \in Workers : LastIsBound(p)
  BY <1>1 DEF LastIsBound, Procs
<1>4. \A j \in Jobs : Settled(j)
  BY <1>1 DEF Settled, AtHead
<1> QED
  BY <1>2, <1>3, <1>4, InitKnown DEF LastWordInv

\* A job with nothing left to do is one whose last word has been spoken.
LEMMA LastWordMatches == LastWordInv => StatusMatchesHistory
<1> SUFFICES ASSUME LastWordInv, NEW j \in Jobs, Quiet(j), history[j] # <<>>,
                    job[j].status # "absent"
             PROVE  job[j].status = StatusOf(Last(j))
  BY DEF StatusMatchesHistory, Last
<1>1. /\ TypeOK /\ downloadQ[j] = 0 /\ translationQ[j] = 0
      /\ DOMAIN events = 1 .. Len(events) /\ Len(events) \in Nat
      /\ \A i \in DOMAIN events : events[i].job # j
  BY EventFacts DEF LastWordInv, KnownInv, TypeInv, Quiet
<1>2. ~AtHead(j)
  <2>1. CASE events # <<>>
    <3>1. Head(events) = events[1] /\ 1 \in DOMAIN events
      BY <1>1, <2>1, EventFacts, TailFacts
    <3> QED
      BY <1>1, <3>1 DEF AtHead
  <2> QED
    BY <2>1 DEF AtHead
<1>3. ~MoreToCome(j)
  <2>1. \A p \in Workers : cur[p] # j
    BY DEF Quiet, Procs
  <2> QED
    BY <1>1, <2>1 DEF MoreToCome, Behind
<1> QED
  BY <1>2, <1>3 DEF LastWordInv, Settled, Agrees

-----------------------------------------------------------------------------
(* What becomes of an event that is published when publishing does not fail *)

LEMMA HeardPublish ==
    ASSUME Heard, NEW t, NEW j, PublishEvent(t, j)
    PROVE  events' = Routed(t, j)
BY DEF Heard, PublishEvent, Fault

\* It comes to the head of an empty queue, or behind another one.
LEMMA RoutedEvents ==
    ASSUME TypeInv, NEW t \in EventTypes, NEW k \in Jobs, NEW j \in Jobs,
           events' = Routed(t, k)
    PROVE  /\ Behind(j) => Behind(j)'
           /\ events # <<>> => events' # <<>> /\ Head(events') = Head(events)
           /\ events = <<>> /\ AtHead(j)' => j = k
           /\ Bound(t) => Behind(k)' \/ (events = <<>> /\ AtHead(k)')
<1>1. CASE ~Bound(t)
  BY <1>1 DEF Routed, Behind, AtHead
<1>2. CASE Bound(t)
  <2> DEFINE E == [type : EventTypes, job : Jobs]
             n == Len(events) + 1
  <2>1. events \in Seq(E) /\ Event(t, k) \in E /\ events' = Append(events, Event(t, k))
    BY <1>2 DEF TypeInv, TypeOK, Event, Routed
  <2>2. /\ Len(events) \in Nat /\ Len(events') = n
        /\ \A i \in 1 .. Len(events) : events'[i] = events[i]
        /\ events'[n] = Event(t, k) /\ events' # <<>>
        /\ Head(events') = events'[1]
        /\ events # <<>> => Head(events') = Head(events)
    <3> HIDE DEF E
    <3>1. events' \in Seq(E) /\ events' # <<>>
      BY <2>1, AppendFacts
    <3>2. Head(events') = events'[1]
      BY <3>1, TailFacts
    <3> QED
      BY <2>1, <3>1, <3>2, AppendFacts
  <2>3. Event(t, k).job = k
    BY DEF Event
  <2>4. Behind(j) => Behind(j)'
    <3> SUFFICES ASSUME NEW i \in 2 .. Len(events), events[i].job = j
                 PROVE  Behind(j)'
      BY DEF Behind
    <3>1. i \in 2 .. Len(events') /\ events'[i] = events[i]
      BY <2>2
    <3> QED
      BY <3>1 DEF Behind
  <2>5. CASE events = <<>>
    <3>1. n = 1
      BY <2>5
    <3>2. Head(events').job = k
      BY <2>2, <2>3, <3>1
    <3> QED
      BY <2>2, <2>4, <2>5, <3>2 DEF AtHead
  <2>6. CASE events # <<>>
    <3>1. n \in 2 .. Len(events')
      <4> HIDE DEF E
      <4> QED
        BY <2>1, <2>2, <2>6, TailFacts
    <3>2. Behind(k)'
      BY <2>2, <2>3, <3>1 DEF Behind
    <3> QED
      BY <2>2, <2>4, <2>6, <3>2
  <2> QED
    BY <2>5, <2>6
<1> QED
  BY <1>1, <1>2

\* When the head is acked, each of the others moves up one place.
LEMMA TailEvents ==
    ASSUME TypeInv, NEW j \in Jobs, events # <<>>, events' = Tail(events)
    PROVE  Behind(j) => Behind(j)' \/ AtHead(j)'
<1> DEFINE E == [type : EventTypes, job : Jobs]
<1>1. events \in Seq(E)
  BY DEF TypeInv, TypeOK
<1> HIDE DEF E
<1>2. /\ Len(events) \in Nat /\ Len(events') = Len(events) - 1
      /\ \A i \in 1 .. Len(events) - 1 : events'[i] = events[i + 1]
      /\ events' \in Seq(E)
  BY <1>1, TailFacts
<1> SUFFICES ASSUME NEW i \in 2 .. Len(events), events[i].job = j
             PROVE  Behind(j)' \/ AtHead(j)'
  BY DEF Behind
<1>3. events'[i - 1].job = j /\ i - 1 \in 1 .. Len(events')
  BY <1>2
<1>4. CASE i = 2
  <2>1. events' # <<>>
    BY <1>2, <1>3, EmptySeq
  <2>2. Head(events') = events'[1]
    BY <1>2, <2>1, TailFacts
  <2> QED
    BY <1>3, <1>4, <2>1, <2>2 DEF AtHead
<1>5. CASE i # 2
  <2>1. i - 1 \in 2 .. Len(events')
    BY <1>3, <1>5
  <2> QED
    BY <1>3, <2>1 DEF Behind
<1> QED
  BY <1>4, <1>5

\* The consumer's queue under a step: only the consumer shortens it, and is
\* then idle.
LEMMA HeardQueue ==
    ASSUME Heard, TypeInv, [Next]_vars
    PROVE  \/ UNCHANGED events
           \/ \E t \in EventTypes, k \in Jobs : events' = Routed(t, k)
           \/ events # <<>> /\ events' = Tail(events) /\ pc'[Consumer] = "idle"
<1>0. pc \in [Procs -> {"idle", "get", "set", "expire", "search", "enqueue",
                        "translate", "publish", "record", "ack"}]
  BY DEF TypeInv, TypeOK
<1>1. ASSUME NEW j \in Jobs,
             SaveJob(j) \/ SaveRaises(j) \/ ManagerStep(j) \/ CrashManager(j)
      PROVE  UNCHANGED events \/ \E t \in EventTypes : events' = Routed(t, j)
  BY <1>1, HeardPublish DEF SaveJob, SaveRaises, ManagerStep, EnqueueTask,
     PublishDownloadRequested, PublishFailure, CrashManager, EventTypes
<1>2. ASSUME NEW p \in Procs, Publish(p)
      PROVE  \E t \in EventTypes, k \in Jobs : events' = Routed(t, k)
  <2>1. /\ pc[p] = "publish" /\ out[p] \in Seq(EventTypes) /\ out[p] # <<>>
        /\ cur[p] \in Jobs /\ PublishEvent(Head(out[p]), cur[p])
    BY <1>2 DEF Publish, TypeInv, TypeOK, PlaceOK
  <2>2. Head(out[p]) \in EventTypes
    BY <2>1, TailFacts
  <2> QED
    BY <2>1, <2>2, HeardPublish
<1>3. ASSUME NEW p \in Procs, Ack(p)
      PROVE  \/ UNCHANGED events
             \/ events # <<>> /\ events' = Tail(events) /\ pc'[Consumer] = "idle"
  <2>1. CASE p = Consumer /\ held[p]
    <3>1. events' = Tail(events) /\ events # <<>>
      BY <1>3, <2>1 DEF Ack, TypeInv, ConsumerAtHead
    <3>2. pc'[Consumer] = "idle"
      BY <1>0, <1>3, <2>1 DEF Ack, Release, Procs
    <3> QED
      BY <3>1, <3>2
  <2>2. CASE ~(p = Consumer /\ held[p])
    BY <1>3, <2>2 DEF Ack
  <2> QED
    BY <2>1, <2>2
<1>4. ASSUME NEW p \in Procs,
             \/ \E j \in Jobs : TakeDownload(p, j) \/ TakeTranslation(p, j)
             \/ TakeEvent \/ UpdatePhase(p) \/ RecordEvent \/ Search(p)
             \/ EnqueueTranslation(p) \/ Translate(p) \/ Crash(p)
             \/ LoseConnection(p)
      PROVE  UNCHANGED events
  BY <1>4 DEF TakeDownload, TakeTranslation, TakeEvent, UpdatePhase, GetJob,
     UpdateRaises,
     SetJob, ExpireJob, RecordEvent, Search, EnqueueTranslation, Translate,
     Crash, LoseConnection
<1>5. ASSUME NEW p \in Procs
      PROVE  ~Timeout(p)
  BY DEF Timeout, Fault, Heard
<1> QED
  BY <1>1, <1>2, <1>3, <1>4, <1>5, NextCases
     DEF vars, Step, DownloaderStep, TranslatorStep, ConsumerStep, Failure


-----------------------------------------------------------------------------
(* The parts of the invariant under a step *)

LEMMA BudgetMoves ==
    ASSUME TypeInv, [Next]_vars
    PROVE  UNCHANGED budget \/ budget' = budget - 1
<1>1. ASSUME NEW j \in Jobs,
             SaveJob(j) \/ SaveRaises(j) \/ ManagerStep(j) \/ CrashManager(j)
      PROVE  UNCHANGED budget \/ budget' = budget - 1
  BY <1>1 DEF SaveJob, SaveRaises, ManagerStep, EnqueueTask,
     PublishDownloadRequested,
     PublishFailure, CrashManager, PublishEvent, Reliably, Fault
<1>2. ASSUME NEW p \in Procs, Step(p)
      PROVE  UNCHANGED budget \/ budget' = budget - 1
  <2>1. CASE \/ \E j \in Jobs : TakeDownload(p, j) \/ TakeTranslation(p, j)
             \/ TakeEvent \/ Translate(p) \/ Ack(p)
    BY <2>1 DEF TakeDownload, TakeTranslation, TakeEvent, Translate, Ack
  <2>2. CASE UpdatePhase(p) \/ RecordEvent \/ Publish(p)
    BY <2>2 DEF UpdatePhase, GetJob, UpdateRaises, SetJob, ExpireJob,
       RecordEvent, Publish, PublishEvent, Reliably, Fault
  <2>3. CASE Search(p) \/ EnqueueTranslation(p)
    BY <2>3 DEF Search, FoundRequested, FoundOther, NothingSaved, ApiError,
       EnqueueTranslation, Reliably, Fault
  <2>4. CASE Failure(p)
    BY <2>4 DEF Failure, Timeout, Crash, LoseConnection, Fault
  <2> QED
    BY <1>2, <2>1, <2>2, <2>3, <2>4
       DEF Step, DownloaderStep, TranslatorStep, ConsumerStep
<1> QED
  BY <1>1, <1>2, NextCases DEF vars

\* The broker takes a message back from a live handler only with its channel.
LEMMA LostStays ==
    ASSUME TypeInv, LostOnlyByConn, [Next]_vars
    PROVE  LostOnlyByConn'
<1> SUFFICES ASSUME NEW p \in Procs, pc'[p] # "idle", ~held'[p]
             PROVE  "conn" \in Faults /\ budget' < MaxFaults
  BY DEF LostOnlyByConn
<1>0. /\ pc \in [Procs -> {"idle", "get", "set", "expire", "search", "enqueue",
                           "translate", "publish", "record", "ack"}]
      /\ held \in [Procs -> BOOLEAN]
      /\ budget \in Nat /\ budget <= MaxFaults /\ MaxFaults \in Nat
      /\ budget' = budget \/ budget' = budget - 1
  BY BudgetMoves DEF TypeInv, TypeOK
<1>1. CASE pc[p] # "idle" /\ ~held[p]
  <2>1. "conn" \in Faults /\ budget < MaxFaults
    BY <1>1 DEF LostOnlyByConn
  <2> QED
    BY <1>0, <2>1
<1>2. ASSUME NEW q \in Procs, LoseConnection(q)
      PROVE  "conn" \in Faults /\ budget' < MaxFaults
  <2>1. "conn" \in Faults /\ budget > 0 /\ budget' = budget - 1
    BY <1>2 DEF LoseConnection, Fault
  <2> QED
    BY <1>0, <2>1
<1>3. ASSUME NEW i, NEW status, Take(p, i, status)
      PROVE  held'[p]
  BY <1>0, <1>3 DEF Take
<1>4. CASE Ack(p) \/ Timeout(p) \/ Crash(p)
  BY <1>0, <1>4 DEF Ack, Timeout, Crash, Release
<1>5. CASE UpdatePhase(p) \/ Search(p) \/ EnqueueTranslation(p) \/ Translate(p)
           \/ Publish(p) \/ (p = Consumer /\ RecordEvent)
  <2>1. held' = held /\ pc[p] # "idle"
    BY <1>5 DEF UpdatePhase, GetJob, UpdateRaises, SetJob, ExpireJob, Search,
       EnqueueTranslation, Translate, Publish, RecordEvent
  <2> QED
    BY <1>1, <2>1
<1>6. CASE pc'[p] = pc[p] /\ held'[p] = held[p]
  BY <1>1, <1>6
<1>7. ASSUME NEW q \in Procs, Step(q), q # p
      PROVE  pc'[p] = pc[p] /\ held'[p] = held[p]
  BY <1>7, OthersRest
<1>8. ASSUME NEW k \in Jobs,
             SaveJob(k) \/ SaveRaises(k) \/ ManagerStep(k) \/ CrashManager(k)
      PROVE  UNCHANGED <<pc, held>>
  BY <1>8 DEF SaveJob, SaveRaises, ManagerStep, EnqueueTask,
     PublishDownloadRequested, PublishFailure, CrashManager, procVars
<1>9. CASE Step(p)
  BY <1>2, <1>3, <1>4, <1>5, <1>9 DEF Step, DownloaderStep, TranslatorStep,
     ConsumerStep, Failure, TakeDownload, TakeTranslation, TakeEvent
<1> QED
  BY <1>6, <1>7, <1>8, <1>9, NextCases DEF vars

\* The consumer records events of jobs that exist.
LEMMA HistoryKnown ==
    ASSUME KnownInv, KnownHistory, [Next]_vars
    PROVE  KnownHistory'
<1>0. /\ history \in [Jobs -> Seq(EventTypes)]
      /\ Known \subseteq Known' /\ TypeInv
  BY KnownStays DEF KnownInv, TypeInv, TypeOK
<1>1. CASE UNCHANGED history
  BY <1>0, <1>1 DEF KnownHistory
<1>2. CASE RecordEvent
  <2>1. /\ cur[Consumer] \in Known
        /\ \A j \in Jobs : j # cur[Consumer] => history'[j] = history[j]
    BY <1>0, <1>2 DEF RecordEvent, KnownInv, KnownWork, Procs
  <2> QED
    BY <1>0, <2>1 DEF KnownHistory
<1>3. ASSUME NEW k \in Jobs,
             SaveJob(k) \/ SaveRaises(k) \/ ManagerStep(k) \/ CrashManager(k)
      PROVE  UNCHANGED history
  BY <1>3 DEF SaveJob, SaveRaises, ManagerStep, EnqueueTask,
     PublishDownloadRequested, PublishFailure, CrashManager
<1>4. ASSUME NEW p \in Procs, Step(p)
      PROVE  UNCHANGED history \/ RecordEvent
  BY <1>4 DEF Step, DownloaderStep, TranslatorStep, ConsumerStep, Failure,
     TakeDownload, TakeTranslation, TakeEvent, UpdatePhase, GetJob,
     UpdateRaises, SetJob,
     ExpireJob, Search, EnqueueTranslation, Translate, Publish, Ack,
     Timeout, Crash, LoseConnection
<1> QED
  BY <1>1, <1>2, <1>3, <1>4, NextCases DEF vars

\* What the handlers announce last is bound to the consumer's queue.
LEMMA LastStaysBound ==
    ASSUME TypeInv, [Next]_vars, NEW p \in Workers, LastIsBound(p)
    PROVE  LastIsBound(p)'
<1>0. /\ p \in Procs /\ p # Consumer /\ TypeInv'
      /\ pc \in [Procs -> {"idle", "get", "set", "expire", "search", "enqueue",
                           "translate", "publish", "record", "ack"}]
      /\ out \in [Procs -> Seq(EventTypes)]
      /\ Downloaders \cap Translators = {}
  BY NextTypeInv DEF TypeInv, TypeOK, Procs
<1>1. CASE pc'[p] = pc[p] /\ out'[p] = out[p]
  BY <1>1 DEF LastIsBound, LastOut
<1>2. ASSUME NEW types \in Seq(EventTypes), out'[p] = types, types # <<>>,
             Bound(types[Len(types)])
      PROVE  LastIsBound(p)'
  BY <1>2 DEF LastIsBound, LastOut
<1>3. ASSUME NEW t \in Outcomes \cup {"subtitle.translate.requested"}, out'[p] = <<t>>
      PROVE  LastIsBound(p)'
  <2>1. Bound(t) /\ t \in EventTypes
    BY DEF Bound, Outcomes, EventTypes
  <2>2. /\ <<t>> \in Seq(EventTypes) /\ <<t>> # <<>> /\ Len(<<t>>) = 1
        /\ <<t>>[1] = t
    BY <2>1, ShortSeqs
  <2> QED
    BY <1>2, <1>3, <2>1, <2>2
<1>4. CASE Search(p)
  <2>1. \/ \E t \in Outcomes \cup {"subtitle.translate.requested"} : out'[p] = <<t>>
        \/ pc'[p] = "enqueue" /\ p \notin Translators
    <3>1. p \in Downloaders
      BY <1>0, <1>4 DEF Search, TypeInv, PlaceOK
    <3>2. CASE FoundRequested(p) \/ NothingSaved(p) \/ ApiError(p)
      BY <1>0, <3>2 DEF FoundRequested, NothingSaved, ApiError, Report, Outcomes
    <3>3. CASE FoundOther(p)
      BY <1>0, <3>1, <3>3 DEF FoundOther, Goto
    <3> QED
      BY <1>4, <3>2, <3>3 DEF Search
  <2> QED
    BY <1>3, <2>1 DEF LastIsBound
<1>5. CASE EnqueueTranslation(p)
  <2>1. \/ out'[p] = <<"subtitle.translate.requested">>
        \/ out'[p] = <<"job.failed", "job.failed">>
    BY <1>0, <1>5 DEF EnqueueTranslation, Report
  <2>2. /\ <<"job.failed", "job.failed">> \in Seq(EventTypes)
        /\ <<"job.failed", "job.failed">> # <<>>
        /\ Len(<<"job.failed", "job.failed">>) = 2
        /\ Bound(<<"job.failed", "job.failed">>[2])
    BY ShortSeqs DEF EventTypes, Bound
  <2>3. CASE out'[p] = <<"job.failed", "job.failed">>
    BY <1>2, <2>2, <2>3
  <2>4. CASE out'[p] = <<"subtitle.translate.requested">>
    BY <1>3, <2>4
  <2> QED
    BY <2>1, <2>3, <2>4
<1>6. CASE Translate(p)
  <2>1. out'[p] = <<"job.failed">> \/ out'[p] = Finished
    BY <1>0, <1>6 DEF Translate, TranslationSaved, TranslationFails, Report,
       Finished
  <2>2. /\ Finished \in Seq(EventTypes) /\ Finished # <<>>
        /\ Len(Finished) = 2 /\ Bound(Finished[2])
    BY ShortSeqs DEF EventTypes, Bound, Finished
  <2>3. CASE out'[p] = Finished
    BY <1>2, <2>2, <2>3
  <2>4. CASE out'[p] = <<"job.failed">>
    BY <1>3, <2>4 DEF Outcomes
  <2> QED
    BY <2>1, <2>3, <2>4
<1>7. CASE Publish(p)
  <2>1. pc[p] = "publish"
    BY <1>7 DEF Publish
  <2>2. CASE LastPublish(p)
    BY <1>0, <1>7, <2>2, PublishMoves DEF LastIsBound
  <2>3. CASE ~LastPublish(p)
    <3>1. LastOut(p)' = LastOut(p) /\ pc'[p] = "publish"
      BY <1>0, <1>7, <2>3, PublishMoves
    <3> QED
      BY <2>1, <3>1 DEF LastIsBound
  <2> QED
    BY <2>2, <2>3
<1>8. CASE Ack(p) \/ Timeout(p) \/ Crash(p)
  <2>1. pc'[p] = "idle" /\ out'[p] = <<>>
    BY <1>0, <1>8 DEF Ack, Timeout, Crash, Release
  <2> QED
    BY <2>1 DEF LastIsBound
<1>9. CASE GetJob(p) \/ SetJob(p) \/ ExpireJob(p)
  <2>1. /\ out' = out
        /\ \E label \in {"set", "expire", AfterUpdate(p)} : pc' = [pc EXCEPT ![p] = label]
    BY <1>9 DEF GetJob, SetJob, ExpireJob, Goto
  <2>2. p \in Downloaders => pc'[p] # "publish"
    BY <1>0, <2>1 DEF AfterUpdate
  <2>3. p \in Translators /\ pc'[p] = "publish" => out'[p] # <<>>
    BY <1>0 DEF TypeInv, PlaceOK
  <2>4. LastOut(p)' = LastOut(p)
    BY <2>1 DEF LastOut
  <2> QED
    BY <2>1, <2>2, <2>3, <2>4 DEF LastIsBound, Workers
<1>10. CASE \E j \in Jobs : TakeDownload(p, j) \/ TakeTranslation(p, j)
  <2>1. pc'[p] = "get" /\ out'[p] = out[p]
    BY <1>0, <1>10 DEF TakeDownload, TakeTranslation, Take
  <2> QED
    BY <2>1 DEF LastIsBound, LastOut
<1>11. CASE LoseConnection(p)
  BY <1>1, <1>11 DEF LoseConnection
<1>12. CASE UpdateRaises(p)
  BY <1>0, <1>3, <1>12 DEF UpdateRaises, Report, Outcomes
<1> QED
  BY <1>0, <1>1, <1>4, <1>5, <1>6, <1>7, <1>8, <1>9, <1>10, <1>11,
     <1>12, SelfOrSame
     DEF Step, DownloaderStep, TranslatorStep, UpdatePhase, Failure

-----------------------------------------------------------------------------
(* Whoever may still write a status will also publish an event *)

Busy(p, j) == cur[p] = j /\ pc[p] \notin {"idle", "ack"}

\* The next event about j is one the consumer has not begun to handle.
ComesNext(j) == AtHead(j) /\ pc[Consumer] = "idle"

\* A handler ends with an event, or its task goes back to the broker.
LEMMA BusyMoves ==
    ASSUME Heard, LastWordInv, [Next]_vars,
           NEW p \in Workers, NEW j \in Jobs, Busy(p, j)
    PROVE  MoreToCome(j)' \/ ComesNext(j)'
<1>0. /\ p \in Procs /\ p # Consumer /\ TypeInv /\ LastIsBound(p)
      /\ pc \in [Procs -> {"idle", "get", "set", "expire", "search", "enqueue",
                           "translate", "publish", "record", "ack"}]
      /\ cur[p] = j /\ pc[p] \notin {"idle", "ack"}
      /\ TypeInv'
  BY NextTypeInv DEF LastWordInv, KnownInv, TypeInv, TypeOK, Procs, Busy
<1>1. Busy(p, j)' => MoreToCome(j)'
  BY DEF Busy, MoreToCome
<1>2. CASE pc'[p] = pc[p] /\ cur'[p] = cur[p]
  BY <1>0, <1>1, <1>2 DEF Busy
<1>3. CASE UpdatePhase(p) \/ Search(p) \/ EnqueueTranslation(p) \/ Translate(p)
  <2>1. cur' = cur
    BY <1>3 DEF UpdatePhase, GetJob, UpdateRaises, SetJob, ExpireJob, Search,
       EnqueueTranslation, Translate
  <2>2. pc'[p] \notin {"idle", "ack"}
    BY <1>0, <1>3 DEF UpdatePhase, GetJob, UpdateRaises, SetJob, ExpireJob,
       AfterUpdate, Search,
       FoundRequested, FoundOther, NothingSaved, ApiError, EnqueueTranslation,
       Translate, TranslationSaved, TranslationFails, Report, Goto
  <2> QED
    BY <1>0, <1>1, <2>1, <2>2 DEF Busy
<1>4. CASE Publish(p)
  <2>1. CASE ~LastPublish(p)
    <3>1. pc'[p] = "publish" /\ cur'[p] = cur[p]
      BY <1>0, <1>4, <2>1, PublishMoves
    <3> QED
      BY <1>0, <1>1, <3>1 DEF Busy
  <2>2. CASE LastPublish(p)
    <3> DEFINE t == Head(out[p])
    <3>1. /\ out[p] \in Seq(EventTypes) /\ out[p] # <<>> /\ Tail(out[p]) = <<>>
          /\ PublishEvent(t, j) /\ pc[p] = "publish"
      BY <1>0, <2>2 DEF LastPublish, Publish, TypeInv, TypeOK, PlaceOK
    <3>2. t \in EventTypes /\ t = LastOut(p)
      <4>1. /\ Len(out[p]) \in Nat /\ Len(Tail(out[p])) = Len(out[p]) - 1
            /\ t \in EventTypes /\ t = out[p][1]
        BY <3>1, TailFacts
      <4>2. Len(Tail(out[p])) = 0
        BY <3>1, TailFacts, EmptySeq
      <4>3. Len(out[p]) = 1
        BY <4>1, <4>2
      <4> QED
        BY <4>1, <4>3 DEF LastOut
    <3>3. Bound(t) /\ events' = Routed(t, j)
      BY <1>0, <3>1, <3>2, HeardPublish DEF LastIsBound
    <3>4. Behind(j)' \/ (events = <<>> /\ AtHead(j)')
      BY <1>0, <3>2, <3>3, RoutedEvents
    <3>5. events = <<>> => pc'[Consumer] = "idle"
      BY <1>0, <1>4 DEF TypeInv, ConsumerAtHead, Publish, Goto
    <3> QED
      BY <3>4, <3>5 DEF MoreToCome, ComesNext
  <2> QED
    BY <2>1, <2>2
<1>5. CASE Crash(p)
  <2>1. held[p]
    <3> SUFFICES ASSUME ~held[p]
                 PROVE  FALSE
      OBVIOUS
    <3>1. "conn" \in Faults /\ budget < MaxFaults
      BY <1>0 DEF LastWordInv, LostOnlyByConn
    <3>2. "crash" \in Faults /\ budget > 0
      BY <1>5 DEF Crash, Fault
    <3>3. MaxFaults <= 1 /\ budget \in Nat /\ MaxFaults \in Nat
      BY <1>0, <3>1, <3>2 DEF Heard, TypeInv, TypeOK
    <3> QED
      BY <3>1, <3>2, <3>3
  <2>2. /\ downloadQ \in [Jobs -> Nat] /\ translationQ \in [Jobs -> Nat]
        /\ Requeue(p)
    BY <1>0, <1>5 DEF Crash, TypeInv, TypeOK
  <2>3. downloadQ[j] \in Nat /\ translationQ[j] \in Nat
    BY <2>2
  <2>4. /\ p \in Downloaders => downloadQ'[j] = downloadQ[j] + 1
        /\ p \in Translators => translationQ'[j] = translationQ[j] + 1
    BY <1>0, <2>1, <2>2 DEF Requeue
  <2>5. downloadQ'[j] > 0 \/ translationQ'[j] > 0
    BY <2>3, <2>4 DEF Workers
  <2> QED
    BY <2>5 DEF MoreToCome
<1>6. ~Timeout(p)
  BY DEF Timeout, Fault, Heard
<1>7. CASE LoseConnection(p)
  BY <1>2, <1>7 DEF LoseConnection
<1>8. ~Ack(p) /\ \A i, status : ~Take(p, i, status)
  BY <1>0 DEF Ack, Take
<1> QED
  BY <1>0, <1>2, <1>3, <1>4, <1>5, <1>6, <1>7, <1>8, SelfOrSame
     DEF Step, DownloaderStep, TranslatorStep, Failure, TakeDownload,
        TakeTranslation

LEMMA MoreMoves ==
    ASSUME Heard, LastWordInv, [Next]_vars, NEW j \in Jobs, MoreToCome(j)
    PROVE  MoreToCome(j)' \/ ComesNext(j)'
<1>0. TypeInv /\ TypeInv'
  BY NextTypeInv DEF LastWordInv, KnownInv
<1>1. CASE downloadQ[j] > 0 \/ translationQ[j] > 0
  <2>1. \/ downloadQ'[j] > 0 \/ translationQ'[j] > 0
        \/ \E p \in Workers : Holds(p, j)'
    BY <1>0, <1>1, ReadyMoves DEF Workers
  <2>2. ASSUME NEW p \in Workers, Holds(p, j)'
        PROVE  cur'[p] = j /\ pc'[p] \notin {"idle", "ack"}
    BY <1>0, <2>2 DEF Holds, TypeInv, PlaceOK, Procs
  <2> QED
    BY <2>1, <2>2 DEF MoreToCome
<1>2. CASE \E p \in Workers : Busy(p, j)
  BY <1>2, BusyMoves
<1>3. CASE Behind(j)
  <2>1. Behind(j)' => MoreToCome(j)'
    BY DEF MoreToCome
  <2>2. CASE UNCHANGED events
    BY <1>3, <2>1, <2>2 DEF Behind
  <2>3. ASSUME NEW t \in EventTypes, NEW k \in Jobs, events' = Routed(t, k)
        PROVE  Behind(j)'
    BY <1>0, <1>3, <2>3, RoutedEvents
  <2>4. CASE events # <<>> /\ events' = Tail(events) /\ pc'[Consumer] = "idle"
    BY <1>0, <1>3, <2>1, <2>4, TailEvents DEF ComesNext
  <2> QED
    BY <1>0, <2>1, <2>2, <2>3, <2>4, HeardQueue
<1> QED
  BY <1>1, <1>2, <1>3 DEF MoreToCome, Busy

-----------------------------------------------------------------------------
(* With nothing more to come, the consumer settles the status *)

\* Whatever does not concern j leaves its status as it is.
LEMMA SettledRests ==
    ASSUME NEW j \in Jobs, Settled(j), job'[j] = job[j], history'[j] = history[j],
           AtHead(j)' <=> AtHead(j), AtHead(j) => Head(events') = Head(events),
           pc'[Consumer] = pc[Consumer]
    PROVE  Settled(j)'
BY DEF Settled, Agrees, Last

\* A new head is one the consumer has not begun to handle.
LEMMA SettledWaits ==
    ASSUME NEW j \in Jobs, AtHead(j)', pc'[Consumer] \in {"idle", "get", "set"}
    PROVE  Settled(j)'
BY DEF Settled

\* Events about other jobs leave a settled one settled.
LEMMA RoutedSettled ==
    ASSUME TypeInv, NEW j \in Jobs, Settled(j), job'[j] = job[j],
           history'[j] = history[j], pc'[Consumer] = pc[Consumer],
           \/ UNCHANGED events
           \/ \E t \in EventTypes, k \in Jobs : events' = Routed(t, k)
    PROVE  Settled(j)'
<1>1. CASE UNCHANGED events
  BY <1>1, SettledRests DEF AtHead
<1>2. ASSUME NEW t \in EventTypes, NEW k \in Jobs, events' = Routed(t, k)
      PROVE  Settled(j)'
  <2>1. CASE events # <<>>
    <3>1. events' # <<>> /\ Head(events') = Head(events)
      BY <1>2, <2>1, RoutedEvents
    <3>2. AtHead(j)' <=> AtHead(j)
      BY <2>1, <3>1 DEF AtHead
    <3> QED
      BY <3>1, <3>2, SettledRests
  <2>2. CASE events = <<>>
    <3>1. ~AtHead(j) /\ pc[Consumer] = "idle"
      BY <2>2 DEF AtHead, TypeInv, ConsumerAtHead
    <3> QED
      BY <3>1, SettledRests, SettledWaits
  <2> QED
    BY <2>1, <2>2
<1> QED
  BY <1>1, <1>2

LEMMA ManagerSettled ==
    ASSUME Heard, LastWordInv, [Next]_vars,
           NEW k \in Jobs,
           SaveJob(k) \/ SaveRaises(k) \/ ManagerStep(k) \/ CrashManager(k),
           NEW j \in Jobs, Settled(j)
    PROVE  Settled(j)'
<1>0. TypeInv /\ job \in [Jobs -> Record]
  BY DEF LastWordInv, KnownInv, TypeInv, TypeOK
<1>1. UNCHANGED <<history, pc>>
  BY DEF SaveJob, SaveRaises, ManagerStep, EnqueueTask, PublishDownloadRequested,
     PublishFailure, CrashManager, procVars
<1>2. UNCHANGED events \/ \E t \in EventTypes, i \in Jobs : events' = Routed(t, i)
  BY HeardPublish DEF SaveJob, SaveRaises, ManagerStep, EnqueueTask,
     PublishDownloadRequested, PublishFailure, CrashManager, EventTypes
<1>3. CASE job'[j] = job[j]
  BY <1>0, <1>1, <1>2, <1>3, RoutedSettled
<1>4. CASE job'[j] # job[j]
  <2>1. SaveJob(k)
    BY <1>4 DEF SaveRaises, ManagerStep, EnqueueTask, PublishDownloadRequested,
                PublishFailure, CrashManager
  <2>2. api[j] = "new" /\ UNCHANGED events
    BY <1>0, <1>4, <2>1 DEF SaveJob
  <2>3. j \notin Known /\ history[j] = <<>>
    BY <2>2 DEF Known, LastWordInv, KnownHistory
  <2>4. ~AtHead(j)
    <3> SUFFICES ASSUME events # <<>>
                 PROVE  Head(events).job \in Known
      BY <2>3 DEF AtHead
    <3> DEFINE E == [type : EventTypes, job : Known]
    <3>1. events \in Seq(E)
      BY DEF LastWordInv, KnownInv, KnownEvents
    <3>2. Head(events) \in E
      <4> HIDE DEF E
      <4> QED
        BY <3>1, TailFacts
    <3> QED
      BY <3>2
  <2>5. ~AtHead(j)' /\ history'[j] = <<>>
    BY <1>1, <2>2, <2>3, <2>4 DEF AtHead
  <2> QED
    BY <2>5 DEF Settled
<1> QED
  BY <1>3, <1>4

\* A worker that is not busy with j does not touch its record.
LEMMA WorkerSettled ==
    ASSUME Heard, LastWordInv, [Next]_vars, NEW p \in Workers, Step(p),
           NEW j \in Jobs, Settled(j), ~MoreToCome(j)
    PROVE  Settled(j)'
<1>0. /\ TypeInv /\ p \in Procs /\ p # Consumer
      /\ pc'[Consumer] = pc[Consumer]
  <2>1. TypeInv /\ p \in Procs /\ p # Consumer /\ Consumer \in Procs
    BY DEF LastWordInv, KnownInv, Procs
  <2> QED
    BY <2>1, OthersRest
<1>1. history' = history
  BY <1>0 DEF Step, DownloaderStep, TranslatorStep, Failure, TakeDownload,
     TakeTranslation, UpdatePhase, GetJob, UpdateRaises, SetJob, ExpireJob,
     Search,
     EnqueueTranslation, Translate, Publish, Ack, Timeout, Crash, LoseConnection
<1>2. job'[j] = job[j]
  <2>1. CASE SetJob(p) \/ ExpireJob(p)
    <3>1. cur[p] # j
      BY <2>1 DEF SetJob, ExpireJob, MoreToCome
    <3>2. job \in [Jobs -> Record]
      BY <1>0 DEF TypeInv, TypeOK
    <3> QED
      BY <2>1, <3>1, <3>2 DEF SetJob, ExpireJob
  <2>2. CASE ~(SetJob(p) \/ ExpireJob(p))
    BY <1>0, <2>2 DEF Step, DownloaderStep, TranslatorStep, Failure, TakeDownload,
     TakeTranslation, UpdatePhase, GetJob, UpdateRaises, Search,
     EnqueueTranslation, Translate, Publish, Ack, Timeout, Crash, LoseConnection
  <2> QED
    BY <2>1, <2>2
<1>3. CASE Ack(p)
  BY <1>0, <1>1, <1>2, <1>3, RoutedSettled DEF Ack
<1>4. CASE ~Ack(p)
  <2>1. UNCHANGED events \/ \E t \in EventTypes, k \in Jobs : events' = Routed(t, k)
    <3>1. CASE Publish(p)
      <4>1. /\ pc[p] = "publish" /\ out[p] \in Seq(EventTypes) /\ out[p] # <<>>
            /\ cur[p] \in Jobs /\ PublishEvent(Head(out[p]), cur[p])
        BY <1>0, <3>1 DEF Publish, TypeInv, TypeOK, PlaceOK
      <4>2. Head(out[p]) \in EventTypes
        BY <4>1, TailFacts
      <4> QED
        BY <4>1, <4>2, HeardPublish
    <3>2. CASE ~Publish(p)
      <4>1. ~Timeout(p)
        BY DEF Timeout, Fault, Heard
      <4> QED
        BY <1>0, <1>4, <3>2, <4>1 DEF Step, DownloaderStep, TranslatorStep,
           Failure,
           TakeDownload, TakeTranslation, UpdatePhase, GetJob, UpdateRaises,
           SetJob, ExpireJob,
           Search, EnqueueTranslation, Translate, Crash, LoseConnection
    <3> QED
      BY <3>1, <3>2
  <2> QED
    BY <1>0, <1>1, <1>2, <2>1, RoutedSettled
<1> QED
  BY <1>3, <1>4

\* The consumer writes the status that its event calls for, and records it.
LEMMA ConsumerSettled ==
    ASSUME Heard, LastWordInv, [Next]_vars, Step(Consumer),
           NEW j \in Jobs, Settled(j)
    PROVE  Settled(j)'
<1> DEFINE k == cur[Consumer]
           t == Head(events).type
<1>0. /\ TypeInv /\ Consumer \in Procs /\ Consumer \notin Workers
      /\ pc \in [Procs -> {"idle", "get", "set", "expire", "search", "enqueue",
                           "translate", "publish", "record", "ack"}]
      /\ job \in [Jobs -> Record]
      /\ history \in [Jobs -> Seq(EventTypes)]
      /\ pc[Consumer] # "idle" =>
             events # <<>> /\ k = Head(events).job /\ goal[Consumer] = StatusOf(t)
      /\ ~Timeout(Consumer) /\ ~UpdateRaises(Consumer)
      /\ \A kind \in {"redis", "history", "hang"} : ~Fault(kind)
  BY DEF LastWordInv, KnownInv, TypeInv, TypeOK, ConsumerAtHead, Procs, Timeout,
         UpdateRaises, Fault, Heard
<1>1. pc[Consumer] # "idle" => (AtHead(j) <=> k = j)
  BY <1>0 DEF AtHead
<1> HIDE DEF k, t
<1>2. CASE TakeEvent
  <2>1. /\ UNCHANGED <<job, history, events>> /\ pc'[Consumer] = "get"
    BY <1>0, <1>2 DEF TakeEvent, Take
  <2> QED
    BY <2>1 DEF Settled, AtHead, Agrees, Last
<1>3. CASE GetJob(Consumer)
  <2>1. /\ UNCHANGED <<job, history, events>>
        /\ \/ pc'[Consumer] = "set"
           \/ pc'[Consumer] = "record" /\ job[k].status = "absent"
        /\ pc[Consumer] # "idle"
    BY <1>0, <1>3 DEF GetJob, Goto, AfterUpdate, k
  <2>2. AtHead(j)' <=> AtHead(j)
    BY <2>1 DEF AtHead
  <2>3. AtHead(j) /\ pc'[Consumer] = "record" => \A e : Agrees(j, e)'
    BY <1>1, <2>1 DEF Agrees
  <2> QED
    BY <2>1, <2>2, <2>3 DEF Settled, Agrees, Last
<1>4. CASE SetJob(Consumer)
  <2>1. /\ UNCHANGED <<history, events>>
        /\ pc'[Consumer] \in {"expire", "record"} /\ pc[Consumer] # "idle"
        /\ job' = [job EXCEPT ![k] = Merge(snap[Consumer], goal[Consumer])]
    BY <1>0, <1>4 DEF SetJob, Goto, AfterUpdate, k
  <2>2. AtHead(j)' <=> AtHead(j)
    BY <2>1 DEF AtHead
  <2>3. CASE k = j
    <3>1. job'[j].status = StatusOf(t)
      BY <1>0, <2>1, <2>3, MergeFacts
    <3> QED
      BY <1>1, <2>1, <2>2, <2>3, <3>1 DEF Settled, Agrees, t
  <2>4. CASE k # j
    <3>1. job'[j] = job[j] /\ ~AtHead(j)
      BY <1>0, <1>1, <2>1, <2>4
    <3> QED
      BY <2>1, <2>2, <3>1 DEF Settled, Agrees, Last
  <2> QED
    BY <2>3, <2>4
<1>5. CASE ExpireJob(Consumer)
  <2>1. /\ UNCHANGED <<history, events>>
        /\ pc[Consumer] = "expire" /\ pc'[Consumer] = "record"
        /\ job' = [job EXCEPT ![k] = WithExpiration(@)]
    BY <1>0, <1>5 DEF ExpireJob, Goto, AfterUpdate, k
  <2>2. job'[j].status = job[j].status
    BY <1>0, <2>1, WithExpirationFacts
  <2> QED
    BY <2>1, <2>2 DEF Settled, AtHead, Agrees, Last
<1>6. CASE RecordEvent
  <2>1. /\ UNCHANGED <<job, events>>
        /\ pc[Consumer] = "record" /\ pc'[Consumer] = "ack"
        /\ history' = [history EXCEPT ![k] = Append(@, t)]
    BY <1>0, <1>6 DEF RecordEvent, Goto, k, t
  <2>2. CASE k = j
    <3>1. AtHead(j) /\ AtHead(j)' /\ Agrees(j, t)
      BY <1>1, <2>1, <2>2 DEF Settled, AtHead, t
    <3>2. t \in EventTypes
      BY <1>0, <2>1, EventFacts, TailFacts DEF TypeInv, t
    <3>3. /\ history[j] \in Seq(EventTypes) /\ history'[j] = Append(history[j], t)
          /\ Len(history[j]) \in Nat
      BY <1>0, <2>1, <2>2
    <3>4. history'[j] # <<>> /\ history'[j][Len(history'[j])] = t
      BY <3>2, <3>3, AppendFacts
    <3>5. Agrees(j, t)' /\ Head(events').type = t
      BY <2>1, <3>1 DEF Agrees, t
    <3> QED
      BY <2>1, <3>1, <3>4, <3>5 DEF Settled, Agrees, Last
  <2>3. CASE k # j
    <3>1. ~AtHead(j) /\ ~AtHead(j)' /\ history'[j] = history[j]
      BY <1>0, <1>1, <2>1, <2>3 DEF AtHead
    <3> QED
      BY <2>1, <3>1 DEF Settled, Agrees, Last
  <2> QED
    BY <2>2, <2>3
<1>7. CASE LoseConnection(Consumer)
  BY <1>7 DEF LoseConnection, Settled, AtHead, Agrees, Last
<1>8. CASE Ack(Consumer) \/ Crash(Consumer)
  <2>1. /\ UNCHANGED <<job, history>> /\ pc'[Consumer] = "idle"
        /\ pc[Consumer] # "idle"
    BY <1>0, <1>8 DEF Ack, Crash, Release
  <2>2. CASE AtHead(j)'
    BY <2>1, <2>2, SettledWaits
  <2>3. CASE ~AtHead(j)' /\ ~AtHead(j)
    BY <2>1, <2>3 DEF Settled, Agrees, Last
  <2>4. CASE ~AtHead(j)' /\ AtHead(j)
    <3>1. pc[Consumer] = "ack"
      BY <1>8, <2>4 DEF Ack, Crash, AtHead
    <3>2. Agrees(j, Last(j))
      BY <2>4, <3>1 DEF Settled
    <3> QED
      BY <2>1, <2>4, <3>2 DEF Settled, Agrees, Last
  <2> QED
    BY <2>2, <2>3, <2>4
<1> QED
  BY <1>0, <1>2, <1>3, <1>4, <1>5, <1>6, <1>7, <1>8
     DEF Step, ConsumerStep, UpdatePhase, Failure, Workers

LEMMA NextLastWord ==
    ASSUME Heard, LastWordInv, [Next]_vars
    PROVE  LastWordInv'
<1>1. KnownInv' /\ KnownHistory' /\ LostOnlyByConn'
  BY NextKnown, HistoryKnown, LostStays DEF LastWordInv, KnownInv
<1>2. \A p \in Workers : LastIsBound(p)'
  BY LastStaysBound DEF LastWordInv, KnownInv
<1>3. ASSUME NEW j \in Jobs
      PROVE  MoreToCome(j)' \/ Settled(j)'
  <2>1. CASE MoreToCome(j)
    BY <2>1, MoreMoves, SettledWaits DEF ComesNext
  <2>2. CASE Settled(j) /\ ~MoreToCome(j)
    <3>1. ASSUME NEW k \in Jobs,
                 SaveJob(k) \/ SaveRaises(k) \/ ManagerStep(k) \/ CrashManager(k)
          PROVE  Settled(j)'
      BY <2>2, <3>1, ManagerSettled
    <3>2. ASSUME NEW p \in Procs, Step(p)
          PROVE  Settled(j)'
      BY <2>2, <3>2, WorkerSettled, ConsumerSettled DEF Procs
    <3>3. CASE UNCHANGED vars
      BY <2>2, <3>3 DEF vars, Settled, AtHead, Agrees, Last
    <3> QED
      BY <3>1, <3>2, <3>3, NextCases
  <2> QED
    BY <2>1, <2>2 DEF LastWordInv
<1> QED
  BY <1>1, <1>2, <1>3 DEF LastWordInv

\* For any number of jobs and workers, when calls on job records and on their
\* histories, the publishing of events and the time limit of handlers do not
\* fail: whatever workers wrote meanwhile, and however often processes died or
\* lost their connections (once, if both may happen), a job with nothing left
\* to do shows the status that its last recorded event calls for.
THEOREM EventsSettleStatus == Heard => (Spec => []StatusMatchesHistory)
<1>1. Init => LastWordInv
  BY InitLastWord
<1>2. Heard /\ LastWordInv /\ [Next]_vars => LastWordInv'
  BY NextLastWord
<1>3. LastWordInv => StatusMatchesHistory
  BY LastWordMatches
<1>4. SUFFICES ASSUME Heard
               PROVE  Spec => []StatusMatchesHistory
  OBVIOUS
<1>5. LastWordInv /\ [Next]_vars => LastWordInv'
  BY <1>2, <1>4
<1> QED
  BY <1>1, <1>3, <1>5, PTL DEF Spec
=============================================================================
