------------------------ MODULE TranslationBatchProofs ------------------------
(***************************************************************************)
(* Theorems about TranslationBatch, for any number of workers, any         *)
(* failures, and files and chunk limits of any size.                       *)
(***************************************************************************)
EXTENDS TranslationBatch, TranslationTextProofs

-----------------------------------------------------------------------------
(* Lists of segments *)

LEMMA Listed ==
    ASSUME NEW S, NEW n \in Nat, NEW f, f \in [1..n -> S]
    PROVE  f \in Seq(S) /\ Len(f) = n
BY IsASeq, LenProperties

\* The chunks of a file follow each other and cover it.
LEMMA CutTiles ==
    ASSUME NEW p \in Paths, NEW l \in Limits
    PROVE  /\ Cut(p, l) \in Seq(1..Size(p)) /\ Len(Cut(p, l)) \in Nat \ {0}
           /\ Cut(p, l) # <<>>
           /\ \A c \in 1..Len(Cut(p, l)) : FirstOf(Cut(p, l), c) \in 1..LastOf(Cut(p, l), c)
           /\ LastOf(Cut(p, l), Len(Cut(p, l))) = Size(p)
           /\ \A i \in 1..Size(p) :
                \E c \in 1..Len(Cut(p, l)) : i \in FirstOf(Cut(p, l), c)..LastOf(Cut(p, l), c)
<1>1. Tokens[p] \in Seq(Nat) \ {<<>>} /\ l \in Limit
    BY TranslationAssumption DEF Limit
<1>2. Cut(p, l) # <<>>
    <2>1. Len(Cut(p, l)) \in Nat \ {0}
        BY <1>1, SplitTiles DEF Cut
    <2> QED BY <2>1, EmptySeq
<1> QED BY <1>1, <1>2, SplitTiles DEF Cut, Size

\* A chunk holds the segments of one source, those that follow each other from
\* the number first on, numbered as in the file.
Consecutive(segments, first, source) ==
    \A k \in 1..Len(segments) :
        /\ segments[k].index = first + k - 1
        /\ segments[k].cue = first + k - 1
        /\ segments[k].source = source

LEMMA ChunkFacts ==
    ASSUME NEW source \in Sources, NEW p \in Paths, NEW l \in Limits,
           NEW c \in 1..Len(Cut(p, l))
    PROVE  /\ Chunk(source, Cut(p, l), c) \in Seq(Segments)
           /\ Len(Chunk(source, Cut(p, l), c)) =
                LastOf(Cut(p, l), c) - FirstOf(Cut(p, l), c) + 1
           /\ FirstOf(Cut(p, l), c) \in Nat \ {0}
           /\ Consecutive(Chunk(source, Cut(p, l), c), FirstOf(Cut(p, l), c), source)
<1> DEFINE cut == Cut(p, l)
           first == FirstOf(cut, c)
           last == LastOf(cut, c)
<1>1. /\ cut \in Seq(1..Size(p)) /\ Size(p) \in Nat
      /\ first \in 1..last
    BY TranslationAssumption, CutTiles DEF Size
<1>2. last \in Nat /\ first \in Nat \ {0} /\ last - first + 1 \in Nat
    BY <1>1 DEF LastOf
<1>3. \A k \in 1..(last - first + 1) :
        /\ Original(source, first + k - 1) \in Segments
        /\ Original(source, first + k - 1).index = first + k - 1
        /\ Original(source, first + k - 1).cue = first + k - 1
        /\ Original(source, first + k - 1).source = source
    BY <1>2 DEF Original, Segments, Text
<1> HIDE DEF cut, first, last
<1>4. Chunk(source, cut, c) = [k \in 1..(last - first + 1) |-> Original(source, first + k - 1)]
    BY DEF Chunk, first, last
<1>5. /\ Chunk(source, cut, c) \in Seq(Segments)
      /\ Len(Chunk(source, cut, c)) = last - first + 1
    <2>1. Chunk(source, cut, c) \in [1..(last - first + 1) -> Segments]
        BY <1>2, <1>3, <1>4
    <2> QED BY <2>1, <1>2, Listed
<1> QED BY <1>2, <1>3, <1>4, <1>5 DEF cut, first, last, Consecutive

Texts == [of : Nat, translated : BOOLEAN]

LEMMA AnswerFacts ==
    ASSUME NEW chunk \in Seq(Segments), NEW skipped \in 0..Len(chunk)
    PROVE  /\ Answer(chunk, skipped) \in Seq([number : Nat, text : Texts])
           /\ skipped = 0 => Len(Answer(chunk, skipped)) = Len(chunk)
           /\ skipped # 0 => Len(Answer(chunk, skipped)) = Len(chunk) - 1
<1> DEFINE n == Len(chunk) - IF skipped = 0 THEN 0 ELSE 1
           number(k) == IF skipped # 0 /\ k >= skipped THEN k + 1 ELSE k
<1>1. n \in Nat
    OBVIOUS
<1>2. \A k \in 1..n : number(k) \in 1..Len(chunk)
    OBVIOUS
<1>3. \A k \in 1..n :
        [number |-> number(k), text |-> Text(chunk[number(k)].cue, TRUE)]
            \in [number : Nat, text : Texts]
    <2>1. \A m \in 1..Len(chunk) : chunk[m] \in Segments
        BY ElementOfSeq
    <2>2. \A m \in 1..Len(chunk) : Text(chunk[m].cue, TRUE) \in Texts
        BY <2>1 DEF Text, Texts, Segments
    <2>3. 1..Len(chunk) \subseteq Nat
        OBVIOUS
    <2> HIDE DEF n, number
    <2> QED BY <2>2, <2>3, <1>2
<1> HIDE DEF n, number
<1>4. Answer(chunk, skipped) =
        [k \in 1..n |->
            [number |-> number(k), text |-> Text(chunk[number(k)].cue, TRUE)]]
    BY DEF Answer, n, number
<1>5. Answer(chunk, skipped) \in Seq([number : Nat, text : Texts]) /\ Len(Answer(chunk, skipped)) = n
    <2>1. Answer(chunk, skipped) \in [1..n -> [number : Nat, text : Texts]]
        BY <1>3, <1>4
    <2> QED BY <2>1, <1>1, Listed
<1> QED BY <1>5 DEF n

\* Putting an answer into a chunk changes nothing but texts.
LEMMA MergeKeepsPlaces ==
    ASSUME NEW chunk \in Seq(Segments), NEW answer \in Seq([number : Nat, text : Texts]),
           Len(answer) = Len(chunk) \/ Len(answer) = Len(chunk) - 1
    PROVE  /\ MergeTranslations(chunk, answer) \in Seq(Segments)
           /\ Len(MergeTranslations(chunk, answer)) = Len(chunk)
           /\ \A k \in 1..Len(chunk) :
                /\ MergeTranslations(chunk, answer)[k].index = chunk[k].index
                /\ MergeTranslations(chunk, answer)[k].cue = chunk[k].cue
                /\ MergeTranslations(chunk, answer)[k].source = chunk[k].source
<1> DEFINE merged == MergeTranslations(chunk, answer)
<1>1. \A k \in 1..Len(chunk) : chunk[k] \in Segments
    BY ElementOfSeq
<1>2. \A k \in DOMAIN answer : answer[k].text \in Texts
    <2>1. \A k \in 1..Len(answer) : answer[k] \in [number : Nat, text : Texts]
        BY ElementOfSeq
    <2> QED BY <2>1, LenProperties
<1>3. ASSUME NEW k \in 1..Len(chunk), NEW t \in Texts
      PROVE  /\ [chunk[k] EXCEPT !.text = t] \in Segments
             /\ [chunk[k] EXCEPT !.text = t].index = chunk[k].index
             /\ [chunk[k] EXCEPT !.text = t].cue = chunk[k].cue
             /\ [chunk[k] EXCEPT !.text = t].source = chunk[k].source
    BY <1>1 DEF Segments, Texts
<1>4. ASSUME NEW m, m = [k \in 1..Len(chunk) |-> m[k]],
             \A k \in 1..Len(chunk) :
                \/ m[k] = chunk[k]
                \/ \E t \in Texts : m[k] = [chunk[k] EXCEPT !.text = t]
      PROVE  /\ m \in Seq(Segments)
             /\ Len(m) = Len(chunk)
             /\ \A k \in 1..Len(chunk) :
                    /\ m[k].index = chunk[k].index
                    /\ m[k].cue = chunk[k].cue
                    /\ m[k].source = chunk[k].source
    <2>1. ASSUME NEW k \in 1..Len(chunk)
          PROVE  /\ m[k] \in Segments
                 /\ m[k].index = chunk[k].index
                 /\ m[k].cue = chunk[k].cue
                 /\ m[k].source = chunk[k].source
        <3>1. CASE m[k] = chunk[k]
            BY <3>1, <1>1
        <3>2. CASE \E t \in Texts : m[k] = [chunk[k] EXCEPT !.text = t]
            BY <3>2, <1>3
        <3> QED BY <3>1, <3>2, <1>4
    <2>2. m \in [1..Len(chunk) -> Segments]
        <3>1. \A f : f = [k \in 1..Len(chunk) |-> f[k]]
                      /\ (\A k \in 1..Len(chunk) : f[k] \in Segments)
                    => f \in [1..Len(chunk) -> Segments]
            OBVIOUS
        <3> QED BY <2>1, <1>4, <3>1
    <2>3. m \in Seq(Segments) /\ Len(m) = Len(chunk)
        BY <2>2, Listed, LenProperties
    <2> QED BY <2>1, <2>3
<1>5. CASE Len(answer) = Len(chunk)
    <2>1. merged = [k \in 1..Len(chunk) |-> [chunk[k] EXCEPT !.text = answer[k].text]]
        BY <1>5 DEF MergeTranslations
    <2>2. DOMAIN answer = 1..Len(chunk)
        BY <1>5, LenProperties
    <2>3. \A k \in 1..Len(chunk) :
            merged[k] = [chunk[k] EXCEPT !.text = answer[k].text] /\ answer[k].text \in Texts
        BY <2>1, <2>2, <1>2
    <2>4. merged = [k \in 1..Len(chunk) |-> merged[k]]
        BY <2>1
    <2> HIDE DEF merged
    <2>5. \A k \in 1..Len(chunk) : \E t \in Texts : merged[k] = [chunk[k] EXCEPT !.text = t]
        BY <2>3
    <2>6. /\ merged \in Seq(Segments)
          /\ Len(merged) = Len(chunk)
          /\ \A k \in 1..Len(chunk) :
                /\ merged[k].index = chunk[k].index
                /\ merged[k].cue = chunk[k].cue
                /\ merged[k].source = chunk[k].source
        BY <2>4, <2>5, <1>4
    <2> QED BY <2>6 DEF merged
<1>6. CASE Len(answer) # Len(chunk)
    <2>1. merged = WithOneMissing(chunk, answer)
        BY <1>6 DEF MergeTranslations
    <2>2. ASSUME NEW n \in Numbers(answer)
          PROVE  TextNumbered(answer, n) \in Texts
        <3>1. \E k \in DOMAIN answer : answer[k].number = n
            BY DEF Numbers
        <3>2. (CHOOSE k \in DOMAIN answer : answer[k].number = n) \in DOMAIN answer
            BY <3>1
        <3> QED BY <3>2, <1>2 DEF TextNumbered
    <2>3. \A k \in 1..Len(chunk) :
            \/ merged[k] = chunk[k]
            \/ /\ chunk[k].index \in Numbers(answer)
               /\ merged[k] = [chunk[k] EXCEPT !.text = TextNumbered(answer, chunk[k].index)]
        BY <2>1 DEF WithOneMissing
    <2>4. merged = [k \in 1..Len(chunk) |-> merged[k]]
        BY <2>1 DEF WithOneMissing
    <2> HIDE DEF merged
    <2>5. \A k \in 1..Len(chunk) :
            \/ merged[k] = chunk[k]
            \/ \E t \in Texts : merged[k] = [chunk[k] EXCEPT !.text = t]
        BY <2>2, <2>3
    <2>6. /\ merged \in Seq(Segments)
          /\ Len(merged) = Len(chunk)
          /\ \A k \in 1..Len(chunk) :
                /\ merged[k].index = chunk[k].index
                /\ merged[k].cue = chunk[k].cue
                /\ merged[k].source = chunk[k].source
        BY <2>4, <2>5, <1>4
    <2> QED BY <2>6 DEF merged
<1> QED BY <1>5, <1>6

\* Segments that are in order are put where they are.
LEMMA RankInOrder ==
    ASSUME NEW segments \in Seq(Segments),
           \A i \in 1..Len(segments) : segments[i].index = i,
           NEW k \in 1..Len(segments)
    PROVE  Rank(segments, k) = k
<1>1. \A j \in 1..Len(segments) :
        (\/ segments[j].index < segments[k].index
         \/ segments[j].index = segments[k].index /\ j < k) <=> j < k
    OBVIOUS
<1>2. {j \in 1..Len(segments) :
            \/ segments[j].index < segments[k].index
            \/ segments[j].index = segments[k].index /\ j < k} = 1..(k - 1)
    <2>1. {j \in 1..Len(segments) :
                \/ segments[j].index < segments[k].index
                \/ segments[j].index = segments[k].index /\ j < k}
            = {j \in 1..Len(segments) : j < k}
        BY <1>1
    <2>2. {j \in 1..Len(segments) : j < k} = 1..(k - 1)
        OBVIOUS
    <2> QED BY <2>1, <2>2
<1>3. Cardinality(1..(k - 1)) = k - 1
    <2>1. k \in Int /\ k - 1 \in Int /\ 1 \in Int
        OBVIOUS
    <2>2. Cardinality(1..(k - 1)) = IF 1 > k - 1 THEN 0 ELSE (k - 1) - 1 + 1
        BY <2>1, FS_Interval, Zenon
    <2> QED BY <2>1, <2>2
<1>4. Rank(segments, k) = 1 + Cardinality(1..(k - 1))
    BY <1>2, Zenon DEF Rank
<1> QED BY <1>3, <1>4

\* So merging what is in order leaves it as it is.
LEMMA MergeInOrder ==
    ASSUME NEW segments \in Seq(Segments),
           \A i \in 1..Len(segments) : segments[i].index = i
    PROVE  MergeTranslatedChunks(segments) = segments
<1>1. \A n \in 1..Len(segments) :
        (CHOOSE k \in 1..Len(segments) : Rank(segments, k) = n) = n
    BY RankInOrder
<1>2. \A n \in 1..Len(segments) : segments[n] \in Segments
    BY ElementOfSeq
<1>3. \A n \in 1..Len(segments) : [segments[n] EXCEPT !.index = n] = segments[n]
    BY <1>2 DEF Segments
<1>4. MergeTranslatedChunks(segments) = [n \in 1..Len(segments) |-> segments[n]]
    BY <1>1, <1>3 DEF MergeTranslatedChunks
<1>5. segments = [n \in 1..Len(segments) |-> segments[n]]
    BY LenProperties
<1> QED BY <1>4, <1>5

-----------------------------------------------------------------------------
(* The inductive invariant *)

\* A worker that translates has chunks that cover the file its task names, all of
\* one subtitle; it has resumed all of them or none. This is why resuming is
\* harmless: a checkpoint is only ever written when every chunk is done.
Fresh(w) == \A c \in DOMAIN chunks[w] : chunks[w][c].status # "resumed"
AllResumed(w) == \A c \in DOMAIN chunks[w] : chunks[w][c].status = "resumed"

ChunksCover(w) ==
    /\ chunks[w] # <<>>
    /\ chunks[w][1].first = 1
    /\ \A i \in 1..Size(task[w]) : \E c \in DOMAIN chunks[w] : Holds(w, c, i)
    /\ \E v \in 1..version[task[w]] :
        \A c \in DOMAIN chunks[w] :
            Consecutive(chunks[w][c].segments, chunks[w][c].first,
                        [path |-> task[w], version |-> v])

TranslatesAll(w) ==
    /\ ChunksCover(w)
    /\ \/ Fresh(w) /\ kept[w] = <<>>
       \/ AllResumed(w) /\ WholeFile(kept[w], task[w])

HasAll(w) == chunks[w] # <<>> /\ WholeFile(kept[w], task[w])

BusyInv(w) ==
    /\ version[task[w]] > 0
    /\ loaded[w] # None => loaded[w].path = task[w] /\ WholeCheckpoint(loaded[w])
    /\ kept[w] = <<>> \/ WholeFile(kept[w], task[w])
    /\ pc[w] = "translate" => TranslatesAll(w)
    /\ pc[w] \in {"checkpoint", "writeCheckpoint", "save", "writeOutput"} => HasAll(w)

WorkerInv(w) ==
    /\ pc[w] = "idle" => kept[w] = <<>>
    /\ pc[w] \in {"idle", "load"} => loaded[w] = None
    /\ pc[w] # "idle" => BusyInv(w)

IInv ==
    /\ TypeOK
    /\ FilesAreWhole
    /\ \A p \in Paths : queue[p] > 0 => version[p] > 0
    /\ \A w \in Workers : WorkerInv(w)

\* The inductive invariant implies what is promised.
LEMMA InvOwnSource == ASSUME IInv PROVE ResumesOwnSource
<1> SUFFICES ASSUME NEW w \in Workers, NEW k \in DOMAIN kept[w]
             PROVE  kept[w][k].source.path = task[w]
    BY DEF ResumesOwnSource
<1>1. kept[w] # <<>>
    OBVIOUS
<1>2. WholeFile(kept[w], task[w])
    BY <1>1 DEF IInv, WorkerInv, BusyInv
<1>3. k \in 1..Size(task[w])
    BY <1>2, LenProperties DEF IInv, TypeOK, WholeFile, WholeUpTo
<1> QED BY <1>2, <1>3 DEF WholeFile, WholeUpTo

-----------------------------------------------------------------------------
(* What a step leaves alone *)

SameWorker(u) ==
    /\ pc'[u] = pc[u]
    /\ task'[u] = task[u]
    /\ loaded'[u] = loaded[u]
    /\ chunks'[u] = chunks[u]
    /\ kept'[u] = kept[u]

\* A file stays whole when another subtitle is saved.
LEMMA WholeGrows ==
    ASSUME NEW segments, NEW p \in Paths, NEW m \in Nat, NEW n \in Nat, m <= n,
           WholeUpTo(segments, p, m)
    PROVE  WholeUpTo(segments, p, n)
<1>1. 1..m \subseteq 1..n
    OBVIOUS
<1> QED BY <1>1 DEF WholeUpTo

VersionsGrow ==
    /\ version' \in [Paths -> Nat]
    /\ \A p \in Paths : version[p] <= version'[p]

LEMMA FileGrows ==
    ASSUME TypeOK, VersionsGrow, NEW segments, NEW p \in Paths,
           WholeFile(segments, p)
    PROVE  WholeUpTo(segments, p, version'[p])
<1>1. version[p] \in Nat /\ version'[p] \in Nat /\ version[p] <= version'[p]
    BY DEF TypeOK, VersionsGrow
<1> QED BY <1>1, WholeGrows DEF WholeFile

\* A file of a task that a worker has stays whole.
LEMMA TaskFileGrows ==
    ASSUME TypeOK, VersionsGrow, NEW u \in Workers, pc[u] # "idle", SameWorker(u),
           NEW segments, WholeFile(segments, task[u])
    PROVE  WholeFile(segments, task[u])'
<1>1. task[u] \in Paths /\ task'[u] = task[u]
    BY DEF TypeOK, SameWorker
<1>2. WholeUpTo(segments, task[u], version'[task[u]])
    BY <1>1, FileGrows
<1> QED BY <1>1, <1>2 DEF WholeFile

\* The invariant of a worker that does nothing.
LEMMA OthersKeep ==
    ASSUME TypeOK, VersionsGrow, NEW u \in Workers, WorkerInv(u), SameWorker(u)
    PROVE  WorkerInv(u)'
<1>1. CASE pc[u] = "idle"
    BY <1>1 DEF WorkerInv, SameWorker
<1>2. CASE pc[u] # "idle"
    <2>1. task[u] \in Paths /\ task'[u] = task[u]
        BY <1>2 DEF TypeOK, SameWorker
    <2>2. /\ version[task[u]] \in Nat /\ version'[task[u]] \in Nat
          /\ version[task[u]] <= version'[task[u]]
        BY <2>1 DEF TypeOK, VersionsGrow
    <2>3. 1..version[task[u]] \subseteq 1..version'[task[u]]
        BY <2>2
    <2>4. BusyInv(u)
        BY <1>2 DEF WorkerInv
    <2>5. (version[task[u]] > 0)'
        BY <2>1, <2>2, <2>4 DEF BusyInv
    <2>6. (loaded[u] # None => loaded[u].path = task[u] /\ WholeCheckpoint(loaded[u]))'
        <3>1. CASE loaded[u] = None
            BY <3>1 DEF SameWorker
        <3>2. CASE loaded[u] # None
            <4>1. loaded[u].path = task[u] /\ WholeCheckpoint(loaded[u])
                BY <3>2, <2>4 DEF BusyInv
            <4>2. WholeFile(loaded[u].segments, task[u])'
                BY <4>1, <1>2, TaskFileGrows DEF WholeCheckpoint, WholeFile, SameWorker
            <4> QED BY <4>1, <4>2 DEF SameWorker, WholeCheckpoint, WholeFile
        <3> QED BY <3>1, <3>2
    <2>7. (kept[u] = <<>> \/ WholeFile(kept[u], task[u]))'
        <3>1. CASE kept[u] = <<>>
            BY <3>1 DEF SameWorker
        <3>2. CASE WholeFile(kept[u], task[u])
            BY <3>2, <1>2, TaskFileGrows DEF SameWorker, WholeFile
        <3> QED BY <3>1, <3>2, <2>4 DEF BusyInv
    <2>8. ASSUME pc[u] = "translate"
          PROVE  TranslatesAll(u)'
        <3>1. TranslatesAll(u)
            BY <2>4, <2>8 DEF BusyInv
        <3>2. ChunksCover(u)'
            <4>1. ChunksCover(u)
                BY <3>1 DEF TranslatesAll
            <4>2. \A c, i : Holds(u, c, i)' <=> Holds(u, c, i)
                BY DEF Holds, SameWorker
            <4>3. PICK v \in 1..version[task[u]] :
                    \A c \in DOMAIN chunks[u] :
                        Consecutive(chunks[u][c].segments, chunks[u][c].first,
                                    [path |-> task[u], version |-> v])
                BY <4>1 DEF ChunksCover
            <4>4. v \in 1..version'[task'[u]]
                BY <2>1, <2>3
            <4> QED BY <4>1, <4>2, <4>3, <4>4 DEF ChunksCover, SameWorker
        <3>3. (Fresh(u)' <=> Fresh(u)) /\ (AllResumed(u)' <=> AllResumed(u))
            BY DEF Fresh, AllResumed, SameWorker
        <3>4. WholeFile(kept[u], task[u]) => WholeFile(kept[u], task[u])'
            BY <1>2, TaskFileGrows DEF SameWorker, WholeFile
        <3> QED BY <3>1, <3>2, <3>3, <3>4 DEF TranslatesAll, SameWorker
    <2>9. HasAll(u) => HasAll(u)'
        BY <1>2, TaskFileGrows DEF HasAll, SameWorker, WholeFile
    <2>10. BusyInv(u)'
        BY <2>4, <2>5, <2>6, <2>7, <2>8, <2>9 DEF BusyInv, SameWorker
    <2> QED BY <1>2, <2>10 DEF WorkerInv, SameWorker
<1> QED BY <1>1, <1>2

\* Files that are whole stay whole when they are not touched.
LEMMA FilesKeep ==
    ASSUME TypeOK, VersionsGrow, FilesAreWhole, UNCHANGED <<output, checkpoint>>
    PROVE  FilesAreWhole'
<1>1. ASSUME output \notin {None, Torn}
      PROVE  \E p \in Paths : WholeFile(output, p)'
    BY <1>1, FileGrows DEF FilesAreWhole, WholeFile
<1>2. ASSUME checkpoint \notin {None, Torn}
      PROVE  WholeCheckpoint(checkpoint)'
    <2>1. WholeCheckpoint(checkpoint) /\ checkpoint.path \in Paths
        BY <1>2 DEF FilesAreWhole, TypeOK, Checkpoints
    <2> QED BY <2>1, FileGrows DEF WholeCheckpoint, WholeFile
<1> QED BY <1>1, <1>2 DEF FilesAreWhole

\* A step of one worker.
OnlyWorker(w) ==
    /\ \A u \in Workers \ {w} : SameWorker(u)
    /\ UNCHANGED version

LEMMA SameVersions == ASSUME TypeOK, UNCHANGED version PROVE VersionsGrow
BY DEF TypeOK, VersionsGrow

LEMMA OthersInv ==
    ASSUME IInv, NEW w \in Workers, OnlyWorker(w)
    PROVE  \A u \in Workers \ {w} : WorkerInv(u)'
BY OthersKeep, SameVersions DEF IInv, OnlyWorker

\* Where a worker goes.
LEMMA GoType ==
    ASSUME TypeOK, NEW w \in Workers, NEW from \in Steps, NEW to \in Steps,
           Go(w, from, to)
    PROVE  /\ pc' \in [Workers -> Steps]
           /\ pc[w] = from /\ pc'[w] = to
           /\ \A u \in Workers \ {w} : pc'[u] = pc[u]
BY DEF TypeOK, Go

-----------------------------------------------------------------------------
(* Taking a task and finding out where to start *)

LEMMA TakeStep == ASSUME IInv, NEW w \in Workers, Take(w) PROVE IInv'
<1> USE DEF IInv
<1>1. PICK p \in Paths :
        /\ queue[p] > 0
        /\ queue' = [queue EXCEPT ![p] = @ - 1]
        /\ task' = [task EXCEPT ![w] = p]
    BY DEF Take
<1>2. /\ pc' \in [Workers -> Steps]
      /\ pc[w] = "idle" /\ pc'[w] = "load"
      /\ \A u \in Workers \ {w} : pc'[u] = pc[u]
    BY GoType DEF Take, Steps
<1>3. p # None
    BY TranslationAssumption
<1>4. TypeOK'
    <2>1. queue' \in [Paths -> Nat]
        BY <1>1 DEF TypeOK
    <2>2. \A u \in Workers : pc'[u] = "idle" <=> task'[u] = None
        BY <1>1, <1>2, <1>3 DEF TypeOK
    <2>3. delivered' \subseteq {u \in Workers : pc'[u] # "idle"}
        BY <1>2 DEF TypeOK, Take
    <2> QED BY <2>1, <2>2, <2>3, <1>1, <1>2
            DEF TypeOK, Take, Disk, Progress, Reliably
<1>5. OnlyWorker(w)
    BY <1>1, <1>2 DEF OnlyWorker, SameWorker, Take, Disk, Progress, TypeOK
<1>6. WorkerInv(w)'
    <2>1. loaded'[w] = None /\ kept'[w] = <<>> /\ task'[w] = p /\ version' = version
        BY <1>1, <1>2 DEF Take, Disk, Progress, WorkerInv, TypeOK
    <2> QED BY <2>1, <1>1, <1>2 DEF WorkerInv, BusyInv
<1>7. FilesAreWhole'
    BY FilesKeep, SameVersions DEF Take, Disk
<1>8. \A q \in Paths : queue'[q] > 0 => version'[q] > 0
    BY <1>1 DEF Take, Disk, TypeOK
<1> QED BY <1>4, <1>5, <1>6, <1>7, <1>8, OthersInv

LEMMA LoadStep == ASSUME IInv, NEW w \in Workers, Load(w) PROVE IInv'
<1> USE DEF IInv
<1>1. /\ pc' \in [Workers -> Steps]
      /\ pc[w] = "load" /\ pc'[w] = "read"
      /\ \A u \in Workers \ {w} : pc'[u] = pc[u]
    BY GoType DEF Load, Steps
<1>2. /\ loaded' \in [Workers -> {None} \cup Checkpoints]
      /\ loaded'[w] = IF Usable(checkpoint, task[w]) THEN checkpoint ELSE None
    BY DEF Load, TypeOK, Usable, Readable
<1>3. TypeOK'
    <2>1. \A u \in Workers : pc'[u] = "idle" <=> task'[u] = None
        BY <1>1 DEF TypeOK, Load
    <2>2. delivered' \subseteq {u \in Workers : pc'[u] # "idle"}
        BY <1>1 DEF TypeOK, Load, Broker
    <2> QED BY <2>1, <2>2, <1>1, <1>2 DEF TypeOK, Load, Disk, Broker, Reliably
<1>4. OnlyWorker(w)
    BY <1>1 DEF OnlyWorker, SameWorker, Load, Disk, TypeOK
<1>5. BusyInv(w)
    BY <1>1 DEF WorkerInv
<1>6. WorkerInv(w)'
    <2>1. loaded'[w] # None => loaded'[w].path = task[w] /\ WholeCheckpoint(loaded'[w])
        BY <1>2 DEF Usable, Readable, FilesAreWhole
    <2>2. (loaded[w] # None => loaded[w].path = task[w] /\ WholeCheckpoint(loaded[w]))'
        BY <2>1 DEF WholeCheckpoint, WholeFile, Load, Disk
    <2>3. (kept[w] = <<>> \/ WholeFile(kept[w], task[w]))'
        BY <1>5 DEF BusyInv, WholeFile, Load, Disk
    <2> QED BY <2>2, <2>3, <1>1, <1>5 DEF WorkerInv, BusyInv, Load, Disk
<1>7. FilesAreWhole'
    BY FilesKeep, SameVersions DEF Load, Disk
<1> QED BY <1>3, <1>4, <1>6, <1>7, OthersInv DEF Load, Broker, Disk

LEMMA CutFacts ==
    ASSUME NEW p \in Paths, NEW l \in Limits
    PROVE  /\ Size(p) \in Nat
           /\ Cut(p, l) \in Seq(1..Size(p))
           /\ Cut(p, l) # <<>>
           /\ Len(Cut(p, l)) \in Nat \ {0}
           /\ \A i \in 1..Size(p) :
                \E c \in 1..Len(Cut(p, l)) : i \in FirstOf(Cut(p, l), c)..LastOf(Cut(p, l), c)
<1>1. /\ Cut(p, l) \in Seq(1..Size(p))
      /\ Cut(p, l) # <<>>
      /\ \A i \in 1..Size(p) :
            \E c \in 1..Len(Cut(p, l)) : i \in FirstOf(Cut(p, l), c)..LastOf(Cut(p, l), c)
    BY CutTiles
<1>2. Len(Cut(p, l)) \in Nat \ {0}
    BY <1>1, EmptySeq
<1>3. Tokens[p] \in Seq(Nat)
    BY TranslationAssumption
<1>4. Size(p) \in Nat
    BY <1>3, LenProperties DEF Size
<1> QED BY <1>1, <1>2, <1>4

\* The chunks that Read lays out cover the file.
LEMMA ReadLaysOut ==
    ASSUME IInv, NEW w \in Workers, pc[w] = "read", Read(w)
    PROVE  /\ chunks'[w] \in Seq(ChunkStates)
           /\ Len(chunks'[w]) = Len(CutOf(w))
           /\ Len(CutOf(w)) \in Nat \ {0}
           /\ \A c \in 1..Len(CutOf(w)) :
                chunks'[w][c].status = IF c <= Done(w) THEN "resumed" ELSE "waiting"
           /\ ChunksCover(w)'
<1> DEFINE p == task[w]
           cut == CutOf(w)
           source == [path |-> p, version |-> version[p]]
           chunk(c) == [first |-> FirstOf(cut, c),
                        status |-> IF c <= Done(w) THEN "resumed" ELSE "waiting",
                        segments |-> Chunk(source, cut, c)]
<1>1. /\ p \in Paths /\ limit[w] \in Limits
      /\ version[p] \in Nat \ {0}
      /\ source \in Sources
    BY DEF IInv, TypeOK, WorkerInv, BusyInv, Sources
<1>2. /\ cut \in Seq(1..Size(p)) /\ cut # <<>>
      /\ Size(p) \in Nat
      /\ \A i \in 1..Size(p) :
            \E c \in 1..Len(cut) : i \in FirstOf(cut, c)..LastOf(cut, c)
    BY <1>1, CutFacts DEF CutOf
<1>3. Len(cut) \in Nat \ {0}
    BY <1>2, EmptySeq
<1>4. ASSUME NEW c \in 1..Len(cut)
      PROVE  /\ chunk(c).segments \in Seq(Segments)
             /\ Len(chunk(c).segments) = LastOf(cut, c) - FirstOf(cut, c) + 1
             /\ FirstOf(cut, c) \in Nat \ {0}
             /\ LastOf(cut, c) \in Nat
             /\ Consecutive(chunk(c).segments, chunk(c).first, source)
             /\ chunk(c) \in ChunkStates
    <2>1. /\ Chunk(source, cut, c) \in Seq(Segments)
          /\ Len(Chunk(source, cut, c)) = LastOf(cut, c) - FirstOf(cut, c) + 1
          /\ FirstOf(cut, c) \in Nat \ {0}
          /\ Consecutive(Chunk(source, cut, c), FirstOf(cut, c), source)
        BY <1>1, ChunkFacts DEF CutOf
    <2>2. LastOf(cut, c) \in Nat
        BY <1>2, ElementOfSeq DEF LastOf
    <2> QED BY <2>1, <2>2 DEF ChunkStates
<1> HIDE DEF cut, source
<1>5. chunks'[w] = [c \in 1..Len(cut) |-> chunk(c)]
    BY DEF Read, IInv, TypeOK, cut, source
<1>6. /\ chunks'[w] \in [1..Len(cut) -> ChunkStates]
      /\ \A c \in 1..Len(cut) : chunks'[w][c] = chunk(c)
    BY <1>4, <1>5
<1>7. /\ chunks'[w] \in Seq(ChunkStates)
      /\ Len(chunks'[w]) = Len(cut)
      /\ DOMAIN chunks'[w] = 1..Len(cut)
    BY <1>6, <1>3, Listed
<1>8. task'[w] = p /\ version' = version
    BY DEF Read, Disk
<1>9. ChunksCover(w)'
    <2>1. chunks'[w] # <<>> /\ chunks'[w][1].first = 1
        <3>1. chunks'[w][1] = chunk(1) /\ FirstOf(cut, 1) = 1
            BY <1>3, <1>6 DEF FirstOf
        <3>2. chunks'[w][1].first = 1
            BY <3>1
        <3> QED BY <3>2, <1>3, <1>7
    <2>2. ASSUME NEW i \in 1..Size(p)
          PROVE  \E c \in DOMAIN chunks'[w] : Holds(w, c, i)'
        <3>1. PICK c \in 1..Len(cut) : i \in FirstOf(cut, c)..LastOf(cut, c)
            BY <1>2
        <3> DEFINE segments == chunks'[w][c].segments
        <3>2. /\ FirstOf(cut, c) \in Nat /\ LastOf(cut, c) \in Nat
              /\ Len(chunk(c).segments) = LastOf(cut, c) - FirstOf(cut, c) + 1
            BY <1>4, <3>1
        <3>3. chunks'[w][c] = chunk(c)
            BY <1>6, <3>1
        <3>4. /\ chunks'[w][c].first = FirstOf(cut, c)
              /\ Len(segments) = LastOf(cut, c) - FirstOf(cut, c) + 1
            BY <3>2, <3>3
        <3>5. i - chunks'[w][c].first \in 0..(Len(segments) - 1)
            BY <3>1, <3>2, <3>4
        <3> QED BY <3>5, <3>1, <1>7 DEF Holds
    <2>3. version[p] \in 1..version[p]
        BY <1>1
    <2>4. \A c \in DOMAIN chunks'[w] :
            Consecutive(chunks'[w][c].segments, chunks'[w][c].first, source)
        <3>1. \A c \in 1..Len(cut) : Consecutive(chunk(c).segments, chunk(c).first, source)
            BY <1>4
        <3> HIDE DEF chunk
        <3> QED BY <3>1, <1>6, <1>7
    <2>5. version'[task'[w]] = version[p] /\ Size(task'[w]) = Size(p)
        BY <1>8
    <2>6. \E v \in 1..version'[task'[w]] :
            \A c \in DOMAIN chunks'[w] :
                Consecutive(chunks'[w][c].segments, chunks'[w][c].first,
                            [path |-> task'[w], version |-> v])
        BY <2>3, <2>4, <2>5, <1>8, Zenon DEF source
    <2>7. \A i \in 1..Size(task'[w]) : \E c \in DOMAIN chunks'[w] : Holds(w, c, i)'
        BY <2>2, <2>5
    <2> QED BY <2>1, <2>6, <2>7, Zenon DEF ChunksCover
<1>10. \A c \in 1..Len(cut) :
        chunks'[w][c].status = IF c <= Done(w) THEN "resumed" ELSE "waiting"
    <2>1. \A c \in 1..Len(cut) :
            chunk(c).status = IF c <= Done(w) THEN "resumed" ELSE "waiting"
        OBVIOUS
    <2> HIDE DEF chunk
    <2> QED BY <2>1, <1>6
<1> HIDE DEF chunk
<1> QED BY <1>3, <1>7, <1>9, <1>10 DEF cut

LEMMA ReadStep == ASSUME IInv, NEW w \in Workers, Read(w) PROVE IInv'
<1>1. /\ pc' \in [Workers -> Steps]
      /\ pc[w] = "read" /\ pc'[w] = "translate"
      /\ \A u \in Workers \ {w} : pc'[u] = pc[u]
    BY GoType DEF Read, Steps, IInv
<1>2. /\ chunks'[w] \in Seq(ChunkStates)
      /\ Len(chunks'[w]) = Len(CutOf(w))
      /\ Len(CutOf(w)) \in Nat \ {0}
      /\ \A c \in 1..Len(CutOf(w)) :
            chunks'[w][c].status = IF c <= Done(w) THEN "resumed" ELSE "waiting"
      /\ ChunksCover(w)'
    BY <1>1, ReadLaysOut
<1>3. DOMAIN chunks'[w] = 1..Len(CutOf(w))
    BY <1>2, LenProperties
<1>4. BusyInv(w) /\ task[w] \in Paths
    BY <1>1 DEF IInv, WorkerInv, TypeOK
<1>5. kept'[w] = IF Resumes(w) THEN loaded[w].segments ELSE <<>>
    BY DEF Read, IInv, TypeOK
<1>6. kept' \in [Workers -> Seq(Segments)]
    <2>1. Resumes(w) => loaded[w].segments \in Seq(Segments)
        BY DEF IInv, TypeOK, Resumes, Checkpoints
    <2>2. kept'[w] \in Seq(Segments)
        BY <2>1, <1>5, EmptySeq
    <2> QED BY <2>2 DEF Read, IInv, TypeOK
<1>7. TypeOK'
    <2>1. \A u \in Workers : pc'[u] = "idle" <=> task'[u] = None
        BY <1>1 DEF IInv, TypeOK, Read
    <2>2. delivered' \subseteq {u \in Workers : pc'[u] # "idle"}
        BY <1>1 DEF IInv, TypeOK, Read, Broker
    <2>3. chunks' \in [Workers -> Seq(ChunkStates)]
        BY <1>2 DEF IInv, TypeOK, Read
    <2> QED BY <2>1, <2>2, <2>3, <1>1, <1>6 DEF IInv, TypeOK, Read, Disk, Broker, Reliably
<1>8. OnlyWorker(w)
    BY <1>1 DEF OnlyWorker, SameWorker, Read, Disk, IInv, TypeOK
<1>9. TranslatesAll(w)' /\ (kept[w] = <<>> \/ WholeFile(kept[w], task[w]))'
    <2>1. CASE Resumes(w)
        <3>1. /\ loaded[w].path = task[w]
              /\ WholeCheckpoint(loaded[w])
              /\ loaded[w].total = Len(CutOf(w))
            BY <2>1, <1>4 DEF Resumes, BusyInv
        <3>2. Done(w) = Len(CutOf(w))
            BY <2>1, <3>1 DEF Done, WholeCheckpoint
        <3>3. AllResumed(w)'
            BY <3>2, <1>2, <1>3 DEF AllResumed
        <3>4. WholeFile(kept[w], task[w])'
            BY <2>1, <3>1, <1>5 DEF WholeCheckpoint, WholeFile, Read, Disk
        <3> QED BY <3>3, <3>4, <1>2 DEF TranslatesAll
    <2>2. CASE ~Resumes(w)
        <3>1. Fresh(w)'
            BY <2>2, <1>2, <1>3 DEF Fresh, Done
        <3> QED BY <2>2, <3>1, <1>2, <1>5 DEF TranslatesAll
    <2> QED BY <2>1, <2>2
<1>10. WorkerInv(w)'
    <2>1. (loaded[w] # None => loaded[w].path = task[w] /\ WholeCheckpoint(loaded[w]))'
        BY <1>4 DEF BusyInv, WholeCheckpoint, WholeFile, Read, Disk
    <2>2. BusyInv(w)'
        BY <2>1, <1>1, <1>4, <1>9 DEF BusyInv, Read, Disk
    <2> QED BY <2>2, <1>1 DEF WorkerInv
<1>11. FilesAreWhole'
    BY FilesKeep, SameVersions DEF Read, Disk, IInv
<1> QED BY <1>7, <1>8, <1>10, <1>11, OthersInv DEF Read, Broker, Disk, IInv

\* A step that only moves a worker from one place to another, and files.
MovesOn(w, from, to) ==
    /\ Go(w, from, to)
    /\ UNCHANGED <<version, task, loaded, chunks, kept, limit>>

LEMMA MoveKeeps ==
    ASSUME IInv, NEW w \in Workers, NEW from \in Steps, NEW to \in Steps,
           MovesOn(w, from, to), from # "idle", to \notin {"idle", "load", "translate"},
           to \in {"checkpoint", "writeCheckpoint", "save", "writeOutput"} => HasAll(w)
    PROVE  /\ \A u \in Workers : WorkerInv(u)'
           /\ pc' \in [Workers -> Steps]
           /\ \A u \in Workers : pc'[u] = "idle" <=> task'[u] = None
           /\ \A u \in Workers : pc'[u] = "idle" <=> pc[u] = "idle"
<1>1. /\ pc' \in [Workers -> Steps]
      /\ pc[w] = from /\ pc'[w] = to
      /\ \A u \in Workers \ {w} : pc'[u] = pc[u]
    BY GoType DEF MovesOn, IInv
<1>2. OnlyWorker(w)
    BY <1>1 DEF OnlyWorker, SameWorker, MovesOn
<1>3. BusyInv(w)
    BY <1>1 DEF IInv, WorkerInv
<1>4. (loaded[w] # None => loaded[w].path = task[w] /\ WholeCheckpoint(loaded[w]))'
    BY <1>3 DEF BusyInv, WholeCheckpoint, WholeFile, MovesOn
<1>5. (kept[w] = <<>> \/ WholeFile(kept[w], task[w]))'
    BY <1>3 DEF BusyInv, WholeFile, MovesOn
<1>6. HasAll(w) => HasAll(w)'
    BY DEF HasAll, WholeFile, MovesOn
<1>7. BusyInv(w)'
    BY <1>1, <1>3, <1>4, <1>5, <1>6 DEF BusyInv, MovesOn
<1>8. WorkerInv(w)'
    BY <1>1, <1>7 DEF WorkerInv
<1> QED BY <1>1, <1>2, <1>8, OthersInv DEF IInv, TypeOK, MovesOn

LEMMA BudgetType ==
    ASSUME TypeOK, NEW kind, Fault(kind) \/ Reliably
    PROVE  budget' \in 0..MaxFaults
<1>1. MaxFaults \in Nat /\ budget \in 0..MaxFaults
    BY TranslationAssumption DEF TypeOK
<1> QED BY <1>1 DEF Fault, Reliably

\* Such a step keeps the invariant if what is left of the files is whole.
LEMMA MoveStep ==
    ASSUME IInv, NEW w \in Workers, NEW from \in Steps, NEW to \in Steps,
           MovesOn(w, from, to), from # "idle", to \notin {"idle", "load", "translate"},
           to \in {"checkpoint", "writeCheckpoint", "save", "writeOutput"} => HasAll(w),
           UNCHANGED Broker,
           checkpoint' \in {None, Torn} \cup Checkpoints,
           output' \in {None, Torn} \cup Seq(Segments),
           overtaken' \subseteq Workers,
           outcome' \subseteq Outcomes,
           budget' \in 0..MaxFaults,
           FilesAreWhole'
    PROVE  IInv'
<1>1. /\ \A u \in Workers : WorkerInv(u)'
      /\ pc' \in [Workers -> Steps]
      /\ \A u \in Workers : pc'[u] = "idle" <=> task'[u] = None
      /\ \A u \in Workers : pc'[u] = "idle" <=> pc[u] = "idle"
    BY MoveKeeps
<1>2. TypeOK'
    <2>1. delivered' \subseteq {u \in Workers : pc'[u] # "idle"}
        BY <1>1 DEF IInv, TypeOK, Broker
    <2>2. /\ queue' = queue /\ version' = version /\ task' = task /\ limit' = limit
          /\ loaded' = loaded /\ chunks' = chunks /\ kept' = kept
        BY DEF MovesOn, Broker
    <2> QED BY <2>1, <2>2, <1>1 DEF IInv, TypeOK
<1> QED BY <1>1, <1>2 DEF IInv, MovesOn, Broker

\* Emptying or removing a file, or leaving it alone, keeps the files whole.
LEMMA FilesEmptied ==
    ASSUME TypeOK, FilesAreWhole, UNCHANGED version,
           checkpoint' \in {checkpoint, None, Torn},
           output' \in {output, None, Torn}
    PROVE  FilesAreWhole'
<1>1. ASSUME output' \notin {None, Torn}
      PROVE  \E p \in Paths : WholeFile(output, p)'
    <2>1. output' = output /\ \E p \in Paths : WholeFile(output, p)
        BY <1>1 DEF FilesAreWhole
    <2> QED BY <2>1 DEF WholeFile
<1>2. ASSUME checkpoint' \notin {None, Torn}
      PROVE  WholeCheckpoint(checkpoint)'
    <2>1. checkpoint' = checkpoint /\ WholeCheckpoint(checkpoint)
        BY <1>2 DEF FilesAreWhole
    <2> QED BY <2>1 DEF WholeCheckpoint, WholeFile
<1> QED BY <1>1, <1>2 DEF FilesAreWhole

LEMMA ReadFailsStep == ASSUME IInv, NEW w \in Workers, ReadFails(w) PROVE IInv'
<1>1. MovesOn(w, "read", "fail")
    BY DEF ReadFails, MovesOn, Disk, Progress
<1>2. FilesAreWhole'
    BY FilesEmptied DEF ReadFails, Disk, IInv
<1>3. budget' \in 0..MaxFaults
    BY BudgetType DEF ReadFails, IInv
<1>4. /\ UNCHANGED <<checkpoint, output, overtaken, outcome>>
      /\ UNCHANGED Broker
    BY DEF ReadFails, Disk
<1> QED BY <1>1, <1>2, <1>3, <1>4, MoveStep DEF Steps, IInv, TypeOK

-----------------------------------------------------------------------------
(* Translating the chunks *)

\* A worker at work on a chunk that it has not resumed: it may change anything
\* but the places of the segments.
LEMMA ChunkChanges ==
    ASSUME IInv, NEW w \in Workers, pc[w] = "translate",
           NEW c \in DOMAIN chunks[w], chunks[w][c].status # "resumed",
           NEW new \in ChunkStates, new.status # "resumed",
           new.first = chunks[w][c].first,
           Len(new.segments) = Len(chunks[w][c].segments),
           \A k \in 1..Len(new.segments) :
                /\ new.segments[k].index = chunks[w][c].segments[k].index
                /\ new.segments[k].cue = chunks[w][c].segments[k].cue
                /\ new.segments[k].source = chunks[w][c].segments[k].source,
           chunks' = [chunks EXCEPT ![w] = [chunks[w] EXCEPT ![c] = new]],
           UNCHANGED <<Broker, Disk, pc, task, limit, loaded, kept, overtaken, outcome>>,
           budget' \in 0..MaxFaults
    PROVE  IInv'
<1>1. /\ chunks[w] \in Seq(ChunkStates)
      /\ DOMAIN chunks[w] = 1..Len(chunks[w])
    BY LenProperties DEF IInv, TypeOK
<1>2. /\ chunks'[w] = [chunks[w] EXCEPT ![c] = new]
      /\ \A u \in Workers \ {w} : chunks'[u] = chunks[u]
    BY DEF IInv, TypeOK
<1>3. /\ chunks'[w] \in Seq(ChunkStates)
      /\ DOMAIN chunks'[w] = DOMAIN chunks[w]
      /\ chunks'[w][c] = new
      /\ \A d \in DOMAIN chunks[w] : d # c => chunks'[w][d] = chunks[w][d]
    BY <1>1, <1>2, ExceptSeq
<1>4. TypeOK'
    <2>1. chunks' \in [Workers -> Seq(ChunkStates)]
        BY <1>2, <1>3 DEF IInv, TypeOK
    <2> QED BY <2>1 DEF IInv, TypeOK, Broker, Disk
<1>5. OnlyWorker(w)
    BY <1>2 DEF OnlyWorker, SameWorker, Disk
<1>6. BusyInv(w) /\ TranslatesAll(w)
    BY DEF IInv, WorkerInv, BusyInv
<1>7. \A d \in DOMAIN chunks[w] :
        /\ chunks'[w][d].first = chunks[w][d].first
        /\ Len(chunks'[w][d].segments) = Len(chunks[w][d].segments)
        /\ chunks'[w][d].status = "resumed" <=> chunks[w][d].status = "resumed"
    BY <1>3
<1>8. ~AllResumed(w)
    BY DEF AllResumed
<1>9. ChunksCover(w) /\ Fresh(w) /\ kept[w] = <<>>
    BY <1>6, <1>8 DEF TranslatesAll
<1>10. ChunksCover(w)'
    <2>1. chunks'[w] # <<>> /\ chunks'[w][1].first = 1
        <3>1. chunks[w] # <<>> /\ chunks[w][1].first = 1
            BY <1>9 DEF ChunksCover
        <3>2. 1 \in DOMAIN chunks[w]
            BY <3>1, <1>1, EmptySeq
        <3> QED BY <3>1, <3>2, <1>3, <1>7
    <2>2. \A i \in 1..Size(task[w]), d \in DOMAIN chunks[w] : Holds(w, d, i) => Holds(w, d, i)'
        BY <1>7 DEF Holds
    <2>3. \A i \in 1..Size(task[w]) : \E d \in DOMAIN chunks'[w] : Holds(w, d, i)'
        BY <2>2, <1>3, <1>9 DEF ChunksCover
    <2>4. PICK v \in 1..version[task[w]] :
            \A d \in DOMAIN chunks[w] :
                Consecutive(chunks[w][d].segments, chunks[w][d].first,
                            [path |-> task[w], version |-> v])
        BY <1>9 DEF ChunksCover
    <2>5. \A d \in DOMAIN chunks[w] :
            Consecutive(chunks'[w][d].segments, chunks'[w][d].first,
                        [path |-> task[w], version |-> v])
        <3>1. Consecutive(new.segments, new.first, [path |-> task[w], version |-> v])
            BY <2>4 DEF Consecutive
        <3> QED BY <3>1, <2>4, <1>3
    <2>6. task' = task /\ version' = version
        BY DEF Disk
    <2>7. \E x \in 1..version'[task'[w]] :
            \A d \in DOMAIN chunks'[w] :
                Consecutive(chunks'[w][d].segments, chunks'[w][d].first,
                            [path |-> task'[w], version |-> x])
        BY <2>5, <2>6, <1>3
    <2>8. \A i \in 1..Size(task'[w]) : \E d \in DOMAIN chunks'[w] : Holds(w, d, i)'
        BY <2>3, <2>6
    <2> QED BY <2>1, <2>7, <2>8, Zenon DEF ChunksCover
<1>11. Fresh(w)'
    BY <1>9, <1>7, <1>3 DEF Fresh
<1>12. WorkerInv(w)'
    <2>1. (loaded[w] # None => loaded[w].path = task[w] /\ WholeCheckpoint(loaded[w]))'
        BY <1>6 DEF BusyInv, WholeCheckpoint, WholeFile, Disk
    <2>2. kept'[w] = <<>>
        BY <1>9
    <2>3. TranslatesAll(w)'
        BY <2>2, <1>10, <1>11 DEF TranslatesAll
    <2>4. BusyInv(w)'
        BY <2>1, <2>2, <2>3, <1>6 DEF BusyInv, Disk
    <2> QED BY <2>4 DEF WorkerInv
<1>13. FilesAreWhole'
    BY FilesKeep, SameVersions DEF Disk, IInv
<1> QED BY <1>4, <1>5, <1>12, <1>13, OthersInv DEF IInv, Broker, Disk

LEMMA StartChunkStep ==
    ASSUME IInv, NEW w \in Workers, NEW c \in DOMAIN chunks[w], StartChunk(w, c)
    PROVE  IInv'
<1> DEFINE new == [chunks[w][c] EXCEPT !.status = "running"]
<1>1. /\ pc[w] = "translate"
      /\ chunks[w][c].status = "waiting"
    BY DEF StartChunk, ChunksIn
<1>2. chunks[w][c] \in ChunkStates
    BY LenProperties, ElementOfSeq DEF IInv, TypeOK
<1>3. /\ new \in ChunkStates
      /\ new.status = "running"
      /\ new.first = chunks[w][c].first
      /\ new.segments = chunks[w][c].segments
    BY <1>2 DEF ChunkStates
<1>4. chunks' = [chunks EXCEPT ![w] = [chunks[w] EXCEPT ![c] = new]]
    BY DEF StartChunk
<1>5. budget' \in 0..MaxFaults
    BY BudgetType DEF StartChunk, IInv
<1> HIDE DEF new
<1> QED BY <1>1, <1>3, <1>4, <1>5, ChunkChanges DEF StartChunk

LEMMA AnswerChunkStep ==
    ASSUME IInv, NEW w \in Workers, NEW c \in DOMAIN chunks[w], AnswerChunk(w, c)
    PROVE  IInv'
<1> DEFINE old == chunks[w][c]
           merged(s) == MergeTranslations(old.segments, Answer(old.segments, s))
           done(s) == [old EXCEPT !.status = "done", !.segments = merged(s)]
           failed == [old EXCEPT !.status = "failed"]
<1>1. /\ pc[w] = "translate"
      /\ old.status = "running"
      /\ UNCHANGED <<Broker, Disk, pc, task, limit, loaded, kept, overtaken, outcome>>
    BY DEF AnswerChunk, ChunksIn
<1>2. old \in ChunkStates
    BY LenProperties, ElementOfSeq DEF IInv, TypeOK
<1>3. budget' \in 0..MaxFaults
    BY BudgetType DEF AnswerChunk, IInv
<1>4. ASSUME NEW s \in 0..Len(old.segments), Answered(w, c, s)
      PROVE  IInv'
    <2>1. old.segments \in Seq(Segments)
        BY <1>2 DEF ChunkStates
    <2>2. /\ Answer(old.segments, s) \in Seq([number : Nat, text : Texts])
          /\ \/ Len(Answer(old.segments, s)) = Len(old.segments)
             \/ Len(Answer(old.segments, s)) = Len(old.segments) - 1
        BY <2>1, <1>4, AnswerFacts
    <2>3. /\ merged(s) \in Seq(Segments)
          /\ Len(merged(s)) = Len(old.segments)
          /\ \A k \in 1..Len(old.segments) :
                /\ merged(s)[k].index = old.segments[k].index
                /\ merged(s)[k].cue = old.segments[k].cue
                /\ merged(s)[k].source = old.segments[k].source
        BY <2>1, <2>2, MergeKeepsPlaces
    <2>4. chunks' = [chunks EXCEPT ![w] = [chunks[w] EXCEPT ![c] = done(s)]]
        BY <1>4 DEF Answered
    <2> HIDE DEF merged
    <2>5. /\ done(s) \in ChunkStates
          /\ done(s).status = "done"
          /\ done(s).first = old.first
          /\ done(s).segments = merged(s)
        BY <1>2, <2>3 DEF ChunkStates
    <2> DEFINE new == done(s)
    <2> HIDE DEF done
    <2>6. /\ new \in ChunkStates
          /\ new.status # "resumed"
          /\ new.first = old.first
          /\ Len(new.segments) = Len(old.segments)
          /\ \A k \in 1..Len(new.segments) :
                /\ new.segments[k].index = old.segments[k].index
                /\ new.segments[k].cue = old.segments[k].cue
                /\ new.segments[k].source = old.segments[k].source
        BY <2>3, <2>5
    <2> HIDE DEF new
    <2>7. old.status # "resumed"
        BY <1>1
    <2>8. chunks' = [chunks EXCEPT ![w] = [chunks[w] EXCEPT ![c] = new]]
        BY <2>4 DEF new
    <2> QED BY <1>1, <1>3, <2>6, <2>7, <2>8, ChunkChanges
<1>5. ASSUME chunks' = [chunks EXCEPT ![w][c].status = "failed"]
      PROVE  IInv'
    <2>1. /\ failed \in ChunkStates
          /\ failed.status = "failed"
          /\ failed.first = old.first
          /\ failed.segments = old.segments
        BY <1>2 DEF ChunkStates
    <2>2. chunks' = [chunks EXCEPT ![w] = [chunks[w] EXCEPT ![c] = failed]]
        BY <1>5
    <2> HIDE DEF failed
    <2> QED BY <1>1, <1>3, <2>1, <2>2, ChunkChanges
<1>6. Len(old.segments) \in Nat
    BY <1>2, LenProperties DEF ChunkStates
<1>7. \/ Answered(w, c, 0)
      \/ \E s \in 1..Len(old.segments) : Answered(w, c, s)
      \/ chunks' = [chunks EXCEPT ![w][c].status = "failed"]
    BY DEF AnswerChunk
<1> QED
    <2>1. 0 \in 0..Len(old.segments) /\ 1..Len(old.segments) \subseteq 0..Len(old.segments)
        BY <1>6
    <2> QED BY <2>1, <1>4, <1>5, <1>7

\* What the chunks that are all there add up to is the whole file.
LEMMA JoinedWhole ==
    ASSUME IInv, NEW w \in Workers, pc[w] = "translate", Fresh(w)
    PROVE  Joined(w) \in Seq(Segments) /\ WholeFile(Joined(w), task[w])
<1> DEFINE p == task[w]
<1>1. /\ p \in Paths
      /\ chunks[w] \in Seq(ChunkStates)
      /\ DOMAIN chunks[w] = 1..Len(chunks[w])
      /\ ChunksCover(w)
    BY LenProperties DEF IInv, TypeOK, WorkerInv, BusyInv, TranslatesAll
<1>2. Size(p) \in Nat
    <2>1. PICK l \in Limits : TRUE
        BY TranslationAssumption
    <2> QED BY <1>1, <2>1, CutFacts
<1>3. Len(chunks[w]) \in Nat \ {0} /\ chunks[w][1].first = 1
    BY <1>1, EmptySeq, LenProperties DEF ChunksCover
<1>4. Cardinality(ChunksIn(w, "resumed")) = 0
    <2>1. ChunksIn(w, "resumed") = {}
        BY DEF ChunksIn, Fresh
    <2> QED BY <2>1, FS_EmptySet
<1>5. Joined(w) = [k \in 1..Size(p) |-> SegmentAt(w, k)]
    <2>1. Joined(w) = [k \in 1..(Size(p) - 1 + 1) |-> SegmentAt(w, 1 + k - 1)]
        <3>1. Cardinality(ChunksIn(w, "resumed")) + 1 = 1
            BY <1>4
        <3>2. ~(1 > Len(chunks[w]))
            BY <1>3
        <3> HIDE DEF p
        <3>3. Joined(w) =
                [k \in 1..(Size(p) - chunks[w][1].first + 1) |->
                    SegmentAt(w, chunks[w][1].first + k - 1)]
            BY <3>1, <3>2, Zenon DEF Joined, p
        <3> QED BY <3>3, <1>3, Zenon
    <2>2. Size(p) - 1 + 1 = Size(p)
        BY <1>2
    <2>3. \A k \in 1..Size(p) : 1 + k - 1 = k
        OBVIOUS
    <2> QED BY <2>1, <2>2, <2>3
<1>6. PICK v \in 1..version[p] :
        \A c \in DOMAIN chunks[w] :
            Consecutive(chunks[w][c].segments, chunks[w][c].first,
                        [path |-> p, version |-> v])
    BY <1>1 DEF ChunksCover
<1>7. ASSUME NEW i \in 1..Size(p)
      PROVE  /\ SegmentAt(w, i) \in Segments
             /\ SegmentAt(w, i).index = i
             /\ SegmentAt(w, i).cue = i
             /\ SegmentAt(w, i).source = [path |-> p, version |-> v]
    <2> DEFINE c == CHOOSE c \in DOMAIN chunks[w] : Holds(w, c, i)
               chunk == chunks[w][c]
               k == i - chunk.first + 1
    <2>1. c \in DOMAIN chunks[w] /\ Holds(w, c, i)
        BY <1>1 DEF ChunksCover
    <2>2. SegmentAt(w, i) = chunk.segments[k]
        BY DEF SegmentAt
    <2> HIDE DEF c
    <2>3. chunk \in ChunkStates
        BY <1>1, <2>1, ElementOfSeq
    <2>4. chunk.first \in Nat /\ chunk.segments \in Seq(Segments) /\ Len(chunk.segments) \in Nat
        BY <2>3, LenProperties DEF ChunkStates
    <2>5. k \in 1..Len(chunk.segments) /\ chunk.first + k - 1 = i
        <3>1. i - chunk.first \in 0..(Len(chunk.segments) - 1)
            BY <2>1 DEF Holds
        <3> HIDE DEF chunk
        <3> QED BY <3>1, <2>4
    <2>6. chunk.segments[k] \in Segments
        BY <2>4, <2>5, ElementOfSeq
    <2>7. Consecutive(chunk.segments, chunk.first, [path |-> p, version |-> v])
        BY <1>6, <2>1
    <2>8. /\ chunk.segments[k].index = chunk.first + k - 1
          /\ chunk.segments[k].cue = chunk.first + k - 1
          /\ chunk.segments[k].source = [path |-> p, version |-> v]
        BY <2>5, <2>7, Zenon DEF Consecutive
    <2> HIDE DEF chunk, k
    <2> QED BY <2>2, <2>5, <2>6, <2>8
<1>8. Joined(w) \in Seq(Segments) /\ Len(Joined(w)) = Size(p)
    <2>1. Joined(w) \in [1..Size(p) -> Segments]
        BY <1>5, <1>7
    <2> QED BY <2>1, <1>2, Listed
<1>9. \A i \in 1..Size(p) : Joined(w)[i] = SegmentAt(w, i)
    BY <1>5
<1> HIDE DEF p
<1>10. WholeUpTo(Joined(w), p, version[p])
    BY <1>6, <1>7, <1>8, <1>9 DEF WholeUpTo
<1> QED BY <1>8, <1>10 DEF WholeFile, p

\* Nothing is added to a resumed file.
LEMMA JoinedNothing ==
    ASSUME IInv, NEW w \in Workers, pc[w] = "translate", AllResumed(w)
    PROVE  kept[w] \o Joined(w) = kept[w]
<1>1. /\ chunks[w] \in Seq(ChunkStates)
      /\ DOMAIN chunks[w] = 1..Len(chunks[w])
      /\ Len(chunks[w]) \in Nat
      /\ kept[w] \in Seq(Segments)
    BY LenProperties DEF IInv, TypeOK
<1>2. ChunksIn(w, "resumed") = 1..Len(chunks[w])
    BY <1>1 DEF ChunksIn, AllResumed
<1>3. Cardinality(ChunksIn(w, "resumed")) = Len(chunks[w])
    <2>1. ASSUME NEW n \in Nat PROVE Cardinality(1..n) = n
        <3>1. n \in Int /\ 1 \in Int
            OBVIOUS
        <3>2. Cardinality(1..n) = IF 1 > n THEN 0 ELSE n - 1 + 1
            BY <3>1, FS_Interval, Zenon
        <3> QED BY <3>2
    <2> QED BY <1>1, <1>2, <2>1, Zenon
<1>4. Joined(w) = <<>>
    <2>1. Cardinality(ChunksIn(w, "resumed")) + 1 > Len(chunks[w])
        BY <1>1, <1>3
    <2> QED BY <2>1, Zenon DEF Joined
<1> QED BY <1>1, <1>4, ConcatEmptySeq

LEMMA GatherStep == ASSUME IInv, NEW w \in Workers, Gather(w) PROVE IInv'
<1>1. /\ pc[w] = "translate"
      /\ kept \in [Workers -> Seq(Segments)]
      /\ UNCHANGED <<Broker, Disk, task, limit, loaded, chunks, overtaken, outcome>>
    BY DEF Gather, IInv, TypeOK
<1>2. BusyInv(w) /\ TranslatesAll(w)
    BY <1>1 DEF IInv, WorkerInv, BusyInv
<1>3. FilesAreWhole'
    BY <1>1, FilesEmptied DEF IInv, Disk
<1>4. budget' \in 0..MaxFaults
    BY BudgetType DEF Gather, IInv
<1>5. /\ checkpoint' \in {None, Torn} \cup Checkpoints
      /\ output' \in {None, Torn} \cup Seq(Segments)
      /\ overtaken' \subseteq Workers
      /\ outcome' \subseteq Outcomes
      /\ UNCHANGED Broker
    BY <1>1 DEF IInv, TypeOK, Disk
<1>6. CASE Go(w, "translate", "fail") /\ UNCHANGED kept
    <2>1. MovesOn(w, "translate", "fail")
        BY <1>1, <1>6 DEF MovesOn, Disk
    <2> QED BY <2>1, <1>3, <1>4, <1>5, MoveStep DEF Steps
<1>7. CASE /\ Go(w, "translate", "checkpoint")
           /\ kept' = [kept EXCEPT ![w] = @ \o Joined(w)]
           /\ AllResumed(w) /\ WholeFile(kept[w], task[w])
    <2>1. UNCHANGED kept
        <3>1. kept[w] \o Joined(w) = kept[w]
            BY <1>1, <1>7, JoinedNothing
        <3> QED BY <3>1, <1>1, <1>7
    <2>2. MovesOn(w, "translate", "checkpoint")
        BY <2>1, <1>1, <1>7 DEF MovesOn, Disk
    <2>3. HasAll(w)
        BY <1>2, <1>7 DEF HasAll, TranslatesAll, ChunksCover
    <2> QED BY <2>2, <2>3, <1>3, <1>4, <1>5, MoveStep DEF Steps
<1>8. CASE /\ Go(w, "translate", "checkpoint")
           /\ kept' = [kept EXCEPT ![w] = @ \o Joined(w)]
           /\ Fresh(w) /\ kept[w] = <<>>
    <2>1. /\ pc' \in [Workers -> Steps]
          /\ pc'[w] = "checkpoint"
          /\ \A u \in Workers \ {w} : pc'[u] = pc[u]
        BY <1>8, GoType DEF Steps, IInv
    <2>2. Joined(w) \in Seq(Segments) /\ WholeFile(Joined(w), task[w])
        BY <1>1, <1>8, JoinedWhole
    <2>3. <<>> \o Joined(w) = Joined(w)
        BY <2>2, ConcatEmptySeq
    <2>4. kept'[w] = Joined(w)
        BY <2>3, <1>1, <1>8
    <2>5. kept' \in [Workers -> Seq(Segments)]
        BY <2>2, <2>3, <1>1, <1>8
    <2>6. TypeOK'
        <3>1. \A u \in Workers : pc'[u] = "idle" <=> task'[u] = None
            BY <2>1, <1>1 DEF IInv, TypeOK
        <3>2. delivered' \subseteq {u \in Workers : pc'[u] # "idle"}
            BY <2>1, <1>1 DEF IInv, TypeOK, Broker
        <3> QED BY <3>1, <3>2, <2>1, <2>5, <1>1, <1>4, <1>5
                DEF IInv, TypeOK, Broker, Disk
    <2>7. OnlyWorker(w)
        BY <2>1, <1>1, <1>8 DEF OnlyWorker, SameWorker, Disk
    <2>8. WholeFile(kept[w], task[w])'
        BY <2>2, <2>4, <1>1 DEF WholeFile, Disk
    <2>9. HasAll(w)'
        BY <2>8, <1>2, <1>1 DEF HasAll, TranslatesAll, ChunksCover
    <2>10. (loaded[w] # None => loaded[w].path = task[w] /\ WholeCheckpoint(loaded[w]))'
        BY <1>1, <1>2 DEF BusyInv, WholeCheckpoint, WholeFile, Disk
    <2>11. BusyInv(w)'
        BY <2>1, <2>8, <2>9, <2>10, <1>1, <1>2 DEF BusyInv, Disk
    <2>12. WorkerInv(w)'
        BY <2>1, <2>11 DEF WorkerInv
    <2> QED BY <2>6, <2>7, <2>12, <1>1, <1>3, OthersInv DEF IInv, Broker, Disk
<1>9. \/ Go(w, "translate", "fail") /\ UNCHANGED kept
      \/ /\ Go(w, "translate", "checkpoint")
         /\ kept' = [kept EXCEPT ![w] = @ \o Joined(w)]
    BY DEF Gather
<1>10. \/ Fresh(w) /\ kept[w] = <<>>
       \/ AllResumed(w) /\ WholeFile(kept[w], task[w])
    BY <1>2 DEF TranslatesAll
<1> QED BY <1>6, <1>7, <1>8, <1>9, <1>10, Zenon

-----------------------------------------------------------------------------
(* Writing the files *)

\* Writing a whole file over whatever there is keeps the files whole.
LEMMA FilesWritten ==
    ASSUME TypeOK, FilesAreWhole, UNCHANGED version,
           \/ checkpoint' \in {checkpoint, None, Torn}
           \/ WholeCheckpoint(checkpoint'),
           \/ output' \in {output, None, Torn}
           \/ \E p \in Paths : WholeFile(output', p)
    PROVE  FilesAreWhole'
<1>1. ASSUME output' \notin {None, Torn}
      PROVE  \E p \in Paths : WholeFile(output, p)'
    <2>1. \E p \in Paths : WholeFile(output', p)
        BY <1>1 DEF FilesAreWhole
    <2> QED BY <2>1 DEF WholeFile
<1>2. ASSUME checkpoint' \notin {None, Torn}
      PROVE  WholeCheckpoint(checkpoint)'
    <2>1. WholeCheckpoint(checkpoint')
        BY <1>2 DEF FilesAreWhole
    <2> QED BY <2>1 DEF WholeCheckpoint, WholeFile
<1> QED BY <1>1, <1>2 DEF FilesAreWhole

LEMMA OpenCheckpointStep == ASSUME IInv, NEW w \in Workers, OpenCheckpoint(w) PROVE IInv'
<1>1. /\ UNCHANGED <<version, output, task, limit, loaded, chunks, kept>>
      /\ UNCHANGED <<overtaken, outcome>> /\ UNCHANGED Broker
    BY DEF OpenCheckpoint, Progress
<1>2. checkpoint' \in {checkpoint, Torn}
    BY DEF OpenCheckpoint
<1>3. \E to \in {"writeCheckpoint", "save"} : Go(w, "checkpoint", to)
    BY DEF OpenCheckpoint
<1>4. HasAll(w)
    BY <1>3 DEF Go, IInv, WorkerInv, BusyInv
<1>5. FilesAreWhole'
    BY <1>1, <1>2, FilesEmptied DEF IInv
<1>6. budget' \in 0..MaxFaults
    BY BudgetType DEF OpenCheckpoint, IInv
<1>7. PICK to \in {"writeCheckpoint", "save"} : MovesOn(w, "checkpoint", to)
    BY <1>1, <1>3 DEF MovesOn
<1>8. /\ output' \in {None, Torn} \cup Seq(Segments)
      /\ checkpoint' \in {None, Torn} \cup Checkpoints
      /\ overtaken' \subseteq Workers
      /\ outcome' \subseteq Outcomes
    BY <1>1, <1>2 DEF IInv, TypeOK
<1>9. to \in Steps /\ "checkpoint" \in Steps /\ to \notin {"idle", "load", "translate"}
    BY DEF Steps
<1> QED BY <1>1, <1>4, <1>5, <1>6, <1>7, <1>8, <1>9, MoveStep

LEMMA WriteCheckpointStep == ASSUME IInv, NEW w \in Workers, WriteCheckpoint(w) PROVE IInv'
<1> DEFINE saved == [path |-> task[w], total |-> Len(chunks[w]),
                     completed |-> Len(chunks[w]), segments |-> kept[w]]
<1>1. /\ UNCHANGED <<version, output, task, limit, loaded, chunks, kept>>
      /\ UNCHANGED outcome /\ UNCHANGED Broker
    BY DEF WriteCheckpoint, Progress
<1>2. MovesOn(w, "writeCheckpoint", "save")
    BY <1>1 DEF WriteCheckpoint, MovesOn
<1>3. HasAll(w) /\ task[w] \in Paths
    BY <1>2 DEF MovesOn, Go, IInv, TypeOK, WorkerInv, BusyInv
<1>4. /\ Len(chunks[w]) \in Nat \ {0}
      /\ kept[w] \in Seq(Segments)
    BY <1>3, EmptySeq DEF HasAll, IInv, TypeOK
<1>5. saved \in Checkpoints
    BY <1>3, <1>4 DEF Checkpoints
<1>6. WholeCheckpoint(saved)
    BY <1>3, <1>4 DEF WholeCheckpoint, HasAll
<1>7. checkpoint' \in {saved, Torn, checkpoint}
    <2>1. Written(w, checkpoint, saved, checkpoint') \/ UNCHANGED checkpoint
        BY DEF WriteCheckpoint
    <2> HIDE DEF saved
    <2> QED BY <2>1 DEF Written
<1> HIDE DEF saved
<1>8. FilesAreWhole'
    BY <1>1, <1>6, <1>7, FilesWritten DEF IInv
<1>9. budget' \in 0..MaxFaults
    BY BudgetType DEF WriteCheckpoint, IInv
<1>10. overtaken' \subseteq Workers
    BY DEF WriteCheckpoint, Overtake, WritersOf, IInv, TypeOK
<1>11. checkpoint' \in {None, Torn} \cup Checkpoints
    BY <1>5, <1>7 DEF IInv, TypeOK
<1>12. output' \in {None, Torn} \cup Seq(Segments) /\ outcome' \subseteq Outcomes
    BY <1>1 DEF IInv, TypeOK
<1> QED BY <1>1, <1>2, <1>3, <1>8, <1>9, <1>10, <1>11, <1>12, MoveStep DEF Steps

LEMMA OpenOutputStep == ASSUME IInv, NEW w \in Workers, OpenOutput(w) PROVE IInv'
<1>1. /\ UNCHANGED <<version, checkpoint, task, limit, loaded, chunks, kept>>
      /\ UNCHANGED <<overtaken, outcome>> /\ UNCHANGED Broker
    BY DEF OpenOutput, Progress
<1>2. output' \in {output, Torn}
    BY DEF OpenOutput
<1>3. \E to \in {"writeOutput", "fail"} : Go(w, "save", to)
    BY DEF OpenOutput
<1>4. HasAll(w)
    BY <1>3 DEF Go, IInv, WorkerInv, BusyInv
<1>5. FilesAreWhole'
    BY <1>1, <1>2, FilesEmptied DEF IInv
<1>6. budget' \in 0..MaxFaults
    BY BudgetType DEF OpenOutput, IInv
<1>7. PICK to \in {"writeOutput", "fail"} : MovesOn(w, "save", to)
    BY <1>1, <1>3 DEF MovesOn
<1>8. /\ output' \in {None, Torn} \cup Seq(Segments)
      /\ checkpoint' \in {None, Torn} \cup Checkpoints
      /\ overtaken' \subseteq Workers
      /\ outcome' \subseteq Outcomes
    BY <1>1, <1>2 DEF IInv, TypeOK
<1>9. to \in Steps /\ "save" \in Steps /\ to \notin {"idle", "load", "translate"}
    BY DEF Steps
<1> QED BY <1>1, <1>4, <1>5, <1>6, <1>7, <1>8, <1>9, MoveStep

LEMMA WriteOutputStep == ASSUME IInv, NEW w \in Workers, WriteOutput(w) PROVE IInv'
<1>1. /\ UNCHANGED <<version, checkpoint, task, limit, loaded, chunks, kept>>
      /\ UNCHANGED Broker
    BY DEF WriteOutput, Progress
<1>2. \E to \in {"complete", "fail"} : Go(w, "writeOutput", to)
    BY DEF WriteOutput
<1>3. HasAll(w) /\ task[w] \in Paths
    BY <1>2 DEF Go, IInv, TypeOK, WorkerInv, BusyInv
<1>4. MergeTranslatedChunks(kept[w]) = kept[w]
    <2>1. kept[w] \in Seq(Segments)
        BY DEF IInv, TypeOK
    <2>2. \A i \in 1..Len(kept[w]) : kept[w][i].index = i
        BY <1>3 DEF HasAll, WholeFile, WholeUpTo
    <2> QED BY <2>1, <2>2, MergeInOrder
<1>5. output' \in {kept[w], Torn, output}
    BY <1>4 DEF WriteOutput, Written
<1>6. FilesAreWhole'
    <2>1. \E p \in Paths : WholeFile(kept[w], p)
        BY <1>3 DEF HasAll
    <2> QED BY <2>1, <1>1, <1>5, FilesWritten DEF IInv
<1>7. budget' \in 0..MaxFaults
    BY BudgetType DEF WriteOutput, IInv
<1>8. overtaken' \subseteq Workers
    BY DEF WriteOutput, Overtake, WritersOf, IInv, TypeOK
<1>9. outcome' \subseteq Outcomes
    BY DEF WriteOutput, IInv, TypeOK, Outcomes
<1>10. output' \in {None, Torn} \cup Seq(Segments)
    BY <1>5 DEF IInv, TypeOK
<1>11. checkpoint' \in {None, Torn} \cup Checkpoints
    BY <1>1 DEF IInv, TypeOK
<1>12. PICK to \in {"complete", "fail"} : MovesOn(w, "writeOutput", to)
    BY <1>1, <1>2 DEF MovesOn
<1> QED BY <1>1, <1>6, <1>7, <1>8, <1>9, <1>10, <1>11, <1>12, MoveStep DEF Steps

-----------------------------------------------------------------------------
(* Finishing *)

LEMMA CompleteStep == ASSUME IInv, NEW w \in Workers, Complete(w) PROVE IInv'
<1>1. MovesOn(w, "complete", "cleanup")
    BY DEF Complete, MovesOn, Disk, Progress
<1>2. UNCHANGED <<checkpoint, output, overtaken, version>> /\ UNCHANGED Broker
    BY DEF Complete, Disk
<1>3. FilesAreWhole'
    BY <1>2, FilesEmptied DEF IInv
<1>4. budget' \in 0..MaxFaults
    BY BudgetType DEF Complete, IInv
<1>5. outcome' \subseteq Outcomes
    BY DEF Complete, IInv, TypeOK, Outcomes
<1> QED BY <1>1, <1>2, <1>3, <1>4, <1>5, MoveStep DEF Steps, IInv, TypeOK

LEMMA UpdateRaisesStep ==
    ASSUME IInv, NEW w \in Workers, UpdateRaises(w)
    PROVE  IInv'
<1>1. PICK from \in {"load", "complete"} : MovesOn(w, from, "fail")
    BY DEF UpdateRaises, MovesOn, Disk, Progress
<1>2. UNCHANGED <<checkpoint, output, overtaken, outcome>> /\ UNCHANGED Broker
    BY DEF UpdateRaises, Disk
<1>3. FilesAreWhole'
    BY FilesEmptied DEF UpdateRaises, Disk, IInv
<1>4. budget' \in 0..MaxFaults
    BY BudgetType DEF UpdateRaises, IInv
<1> QED BY <1>1, <1>2, <1>3, <1>4, MoveStep DEF Steps, IInv, TypeOK

LEMMA CleanupStep == ASSUME IInv, NEW w \in Workers, Cleanup(w) PROVE IInv'
<1>1. MovesOn(w, "cleanup", "ack")
    BY DEF Cleanup, MovesOn, Progress
<1>2. UNCHANGED <<output, outcome, version>> /\ UNCHANGED Broker
    BY DEF Cleanup
<1>3. checkpoint' \in {checkpoint, None}
    BY DEF Cleanup
<1>4. FilesAreWhole'
    BY <1>2, <1>3, FilesEmptied DEF IInv
<1>5. budget' \in 0..MaxFaults
    BY BudgetType DEF Cleanup, IInv
<1>6. overtaken' \subseteq Workers
    BY DEF Cleanup, Overtake, WritersOf, IInv, TypeOK
<1> QED BY <1>1, <1>2, <1>3, <1>4, <1>5, <1>6, MoveStep DEF Steps, IInv, TypeOK

LEMMA FailStep == ASSUME IInv, NEW w \in Workers, Fail(w) PROVE IInv'
<1>1. MovesOn(w, "fail", "ack")
    BY DEF Fail, MovesOn, Disk, Progress
<1>2. UNCHANGED <<checkpoint, output, overtaken, version>> /\ UNCHANGED Broker
    BY DEF Fail, Disk
<1>3. FilesAreWhole'
    BY <1>2, FilesEmptied DEF IInv
<1>4. budget' \in 0..MaxFaults
    BY BudgetType DEF Fail, IInv
<1>5. outcome' \subseteq Outcomes
    BY DEF Fail, IInv, TypeOK, Outcomes
<1> QED BY <1>1, <1>2, <1>3, <1>4, <1>5, MoveStep DEF Steps, IInv, TypeOK

\* A worker that gives up its task, or has finished it, knows nothing.
LEMMA ForgetStep ==
    ASSUME IInv, NEW w \in Workers, Forget(w), UNCHANGED Disk,
           queue' \in [Paths -> Nat],
           \A p \in Paths : queue'[p] > 0 => version[p] > 0,
           limit' \in [Workers -> Limits],
           outcome' \subseteq Outcomes,
           budget' \in 0..MaxFaults
    PROVE  IInv'
<1>1. /\ pc' \in [Workers -> Steps] /\ pc'[w] = "idle"
      /\ task' \in [Workers -> Paths \cup {None}] /\ task'[w] = None
      /\ loaded' \in [Workers -> {None} \cup Checkpoints] /\ loaded'[w] = None
      /\ chunks' \in [Workers -> Seq(ChunkStates)] /\ chunks'[w] = <<>>
      /\ kept' \in [Workers -> Seq(Segments)] /\ kept'[w] = <<>>
    BY EmptySeq DEF Forget, IInv, TypeOK, Steps
<1>2. \A u \in Workers \ {w} : SameWorker(u)
    BY DEF Forget, SameWorker, IInv, TypeOK
<1>3. TypeOK'
    <2>1. \A u \in Workers : pc'[u] = "idle" <=> task'[u] = None
        BY <1>1, <1>2 DEF IInv, TypeOK, SameWorker
    <2>2. delivered' \subseteq {u \in Workers : pc'[u] # "idle"}
        BY <1>2 DEF Forget, IInv, TypeOK, SameWorker
    <2>3. overtaken' \subseteq Workers
        BY DEF Forget, IInv, TypeOK
    <2> QED BY <2>1, <2>2, <2>3, <1>1 DEF IInv, TypeOK, Disk
<1>4. FilesAreWhole'
    BY FilesEmptied DEF IInv, Disk
<1>5. WorkerInv(w)'
    BY <1>1 DEF WorkerInv
<1>6. OnlyWorker(w)
    BY <1>2 DEF OnlyWorker, Disk
<1> QED BY <1>3, <1>4, <1>5, <1>6, OthersInv DEF IInv, Disk

LEMMA AckStep == ASSUME IInv, NEW w \in Workers, Ack(w) PROVE IInv'
<1>1. budget' \in 0..MaxFaults
    BY BudgetType DEF Ack, IInv
<1> QED BY <1>1, ForgetStep DEF Ack, IInv, TypeOK, Disk

-----------------------------------------------------------------------------
(* Failures *)

LEMMA RequeueType ==
    ASSUME IInv, NEW w \in Workers, Requeue(w)
    PROVE  /\ queue' \in [Paths -> Nat]
           /\ \A p \in Paths : queue'[p] > 0 => version[p] > 0
<1>1. CASE w \notin delivered
    BY <1>1 DEF Requeue, IInv, TypeOK
<1>2. CASE w \in delivered
    <2>1. pc[w] # "idle" /\ task[w] \in Paths
        BY <1>2 DEF IInv, TypeOK
    <2>2. version[task[w]] > 0
        BY <2>1 DEF IInv, WorkerInv, BusyInv
    <2>3. queue' = [queue EXCEPT ![task[w]] = @ + 1]
        BY <1>2 DEF Requeue
    <2> QED BY <2>1, <2>2, <2>3 DEF IInv, TypeOK
<1> QED BY <1>1, <1>2

LEMMA CrashStep == ASSUME IInv, NEW w \in Workers, Crash(w) PROVE IInv'
<1>1. budget' \in 0..MaxFaults
    BY BudgetType DEF Crash, IInv
<1>2. limit' \in [Workers -> Limits]
    BY DEF Crash, IInv, TypeOK
<1>3. outcome' \subseteq Outcomes
    BY DEF Crash, IInv, TypeOK, Outcomes
<1> QED BY <1>1, <1>2, <1>3, RequeueType, ForgetStep DEF Crash

LEMMA LoseConnectionStep == ASSUME IInv, NEW w \in Workers, LoseConnection(w) PROVE IInv'
<1>1. /\ queue' \in [Paths -> Nat]
      /\ \A p \in Paths : queue'[p] > 0 => version[p] > 0
    BY RequeueType DEF LoseConnection
<1>2. budget' \in 0..MaxFaults
    BY BudgetType DEF LoseConnection, IInv
<1>3. /\ UNCHANGED <<version, checkpoint, output, pc, task, limit, loaded, chunks, kept>>
      /\ UNCHANGED <<overtaken, outcome>>
    BY DEF LoseConnection, Disk, Progress
<1>4. TypeOK'
    <2>1. delivered' \subseteq {u \in Workers : pc'[u] # "idle"}
        BY <1>3 DEF LoseConnection, IInv, TypeOK
    <2> QED BY <2>1, <1>1, <1>2, <1>3 DEF IInv, TypeOK
<1>5. FilesAreWhole'
    BY <1>3, FilesEmptied DEF IInv
<1>6. \A u \in Workers : WorkerInv(u)'
    BY <1>3, OthersKeep, SameVersions DEF SameWorker, IInv
<1> QED BY <1>1, <1>3, <1>4, <1>5, <1>6 DEF IInv

LEMMA TimeoutStep == ASSUME IInv, NEW w \in Workers, Timeout(w) PROVE IInv'
<1>1. budget' \in 0..MaxFaults
    BY BudgetType DEF Timeout, IInv
<1>2. outcome' \subseteq Outcomes
    BY DEF Timeout, IInv, TypeOK, Outcomes
<1> QED BY <1>1, <1>2, ForgetStep DEF Timeout, IInv, TypeOK

LEMMA DownloadAgainStep == ASSUME IInv, NEW p \in Paths, DownloadAgain(p) PROVE IInv'
<1>1. /\ version' = [version EXCEPT ![p] = @ + 1]
      /\ queue' = [queue EXCEPT ![p] = @ + 1]
      /\ UNCHANGED <<checkpoint, output, pc, task, delivered, limit, loaded, chunks, kept>>
      /\ UNCHANGED <<overtaken, outcome>>
    BY DEF DownloadAgain, Progress
<1>2. budget' \in 0..MaxFaults
    BY BudgetType DEF DownloadAgain, IInv
<1>3. VersionsGrow
    BY <1>1 DEF VersionsGrow, IInv, TypeOK
<1>4. queue' \in [Paths -> Nat] /\ \A q \in Paths : queue'[q] > 0 => version'[q] > 0
    BY <1>1 DEF IInv, TypeOK
<1>5. TypeOK'
    BY <1>1, <1>2, <1>3, <1>4 DEF IInv, TypeOK, VersionsGrow
<1>6. FilesAreWhole'
    BY <1>1, <1>3, FilesKeep DEF IInv
<1>7. \A u \in Workers : WorkerInv(u)'
    BY <1>1, <1>3, OthersKeep DEF SameWorker, IInv
<1> QED BY <1>4, <1>5, <1>6, <1>7 DEF IInv

-----------------------------------------------------------------------------
(* The theorems *)

LEMMA InitIInv == Init => IInv
<1> SUFFICES ASSUME Init PROVE IInv
    OBVIOUS
<1>1. MaxFaults \in Nat /\ FirstPath \in Paths /\ None \notin Paths
    BY TranslationAssumption
<1>2. <<>> \in Seq(Segments) /\ <<>> \in Seq(ChunkStates)
    BY EmptySeq
<1>3. TypeOK
    BY <1>1, <1>2 DEF Init, TypeOK, Steps
<1>4. FilesAreWhole
    BY DEF Init, FilesAreWhole
<1>5. \A w \in Workers : WorkerInv(w)
    BY DEF Init, WorkerInv
<1>6. \A p \in Paths : queue[p] > 0 => version[p] > 0
    BY DEF Init
<1> QED BY <1>3, <1>4, <1>5, <1>6 DEF IInv

LEMMA NextIInv == IInv /\ [Next]_vars => IInv'
<1> SUFFICES ASSUME IInv, [Next]_vars PROVE IInv'
    OBVIOUS
<1>1. ASSUME NEW w \in Workers, WorkerStep(w) PROVE IInv'
    <2>1. CASE Translating(w)
        BY <2>1, StartChunkStep, AnswerChunkStep DEF Translating
    <2>2. CASE Take(w) \/ Load(w) \/ Read(w) \/ ReadFails(w)
        BY <2>2, TakeStep, LoadStep, ReadStep, ReadFailsStep
    <2>3. CASE Gather(w)
        BY <2>3, GatherStep
    <2>4. CASE OpenCheckpoint(w) \/ WriteCheckpoint(w) \/ OpenOutput(w) \/ WriteOutput(w)
        BY <2>4, OpenCheckpointStep, WriteCheckpointStep, OpenOutputStep, WriteOutputStep
    <2>5. CASE Complete(w) \/ UpdateRaises(w) \/ Cleanup(w) \/ Fail(w) \/ Ack(w)
        BY <2>5, CompleteStep, UpdateRaisesStep, CleanupStep, FailStep, AckStep
    <2> QED BY <1>1, <2>1, <2>2, <2>3, <2>4, <2>5 DEF WorkerStep
<1>2. ASSUME Environment PROVE IInv'
    BY <1>2, CrashStep, LoseConnectionStep, TimeoutStep, DownloadAgainStep DEF Environment
<1>3. CASE UNCHANGED vars
    <2>1. /\ UNCHANGED <<queue, version, checkpoint, output, pc, task, delivered>>
          /\ UNCHANGED <<limit, loaded, chunks, kept, overtaken, outcome, budget>>
        BY <1>3 DEF vars
    <2>2. TypeOK'
        BY <2>1 DEF IInv, TypeOK
    <2>3. FilesAreWhole'
        BY <2>1, FilesEmptied DEF IInv
    <2>4. \A u \in Workers : WorkerInv(u)'
        BY <2>1, OthersKeep, SameVersions DEF SameWorker, IInv
    <2> QED BY <2>1, <2>2, <2>3, <2>4 DEF IInv
<1> QED BY <1>1, <1>2, <1>3 DEF Next

\* Every variable keeps its type whatever the workers, the files and the failures
\* are, and a worker has a task exactly while it is busy.
THEOREM TypeCorrect == Spec => []TypeOK
<1>1. IInv => TypeOK
    BY DEF IInv
<1> QED BY <1>1, InitIInv, NextIInv, PTL DEF Spec

\* A translated file and a checkpoint that can be read hold one whole subtitle, in
\* order and with its own time codes: parallel chunks, resuming under other limits,
\* two workers on one job and every failure notwithstanding.
THEOREM FilesWhole == Spec => []FilesAreWhole
<1>1. IInv => FilesAreWhole
    BY DEF IInv
<1> QED BY <1>1, InitIInv, NextIInv, PTL DEF Spec

\* A worker never takes over segments of another source file than its task's from
\* the checkpoint that all tasks of the job share.
THEOREM OwnSource == Spec => []ResumesOwnSource
<1> QED BY InvOwnSource, InitIInv, NextIInv, PTL DEF Spec

-----------------------------------------------------------------------------
(* The file behind a completed job *)

\* The marks of a missing and of an unreadable file are no subtitles.
MarksAreNoText == {None, Torn} \cap Seq(Segments) = {}

Unharmed == outcome \cap Mishaps = {}

\* A worker here has yet to write the translated file, or to report that it has
\* not; here it has written it.
Unsaved == {"load", "read", "translate", "checkpoint", "writeCheckpoint", "save",
            "writeOutput", "fail"}
Saved == {"complete", "cleanup", "ack"}

UnderWay ==
    \/ \E p \in Paths : queue[p] > 0
    \/ \E w \in Workers : pc[w] \in Unsaved

Claimed == "completed" \in outcome \/ \E w \in Workers : pc[w] \in Saved

\* Whoever empties a file that has been announced still has to write it again.
FileOwed ==
    Unharmed /\ Claimed /\ output \in {None, Torn} => UnderWay

LEMMA OwedFileComes == ASSUME FileOwed PROVE CompletedHasFile
BY DEF FileOwed, CompletedHasFile, Unharmed, Claimed, UnderWay, Quiet, Unsaved

LEMMA InitFileOwed == Init => FileOwed
BY DEF Init, FileOwed, Claimed, Saved

LEMMA OutcomesStay ==
    ASSUME [Next]_vars
    PROVE  outcome \subseteq outcome'
<1>1. ASSUME NEW w \in Workers, WorkerStep(w)
      PROVE  outcome \subseteq outcome'
    BY <1>1 DEF WorkerStep, Take, Load, Read, ReadFails, Translating, StartChunk,
       AnswerChunk, Gather, OpenCheckpoint, WriteCheckpoint, OpenOutput,
       WriteOutput, Complete, UpdateRaises, Cleanup, Fail, Ack
<1>2. ASSUME Environment
      PROVE  outcome \subseteq outcome'
    BY <1>2 DEF Environment, Crash, LoseConnection, Timeout, DownloadAgain
<1> QED BY <1>1, <1>2 DEF Next, vars

\* Up to the moment when the file has been written the worker is on its way.
LEMMA OnTheWay ==
    ASSUME IInv, NEW w \in Workers,
           \/ Take(w) \/ Load(w) \/ Read(w) \/ ReadFails(w) \/ Translating(w)
           \/ Gather(w) \/ OpenCheckpoint(w) \/ WriteCheckpoint(w) \/ OpenOutput(w)
           \/ UpdateRaises(w) \/ Go(w, "writeOutput", "fail")
    PROVE  UnderWay'
<1>1. pc \in [Workers -> Steps]
    BY DEF IInv, TypeOK
<1>2. CASE Translating(w)
    <2>1. pc[w] = "translate" /\ pc' = pc
        BY <1>2 DEF Translating, StartChunk, AnswerChunk
    <2> QED BY <2>1 DEF UnderWay, Unsaved
<1>3. ASSUME NEW from, NEW to \in Unsaved, Go(w, from, to)
      PROVE  UnderWay'
    BY <1>1, <1>3 DEF Go, UnderWay
<1> QED
    BY <1>2, <1>3 DEF Take, Load, Read, ReadFails, Gather, OpenCheckpoint,
       WriteCheckpoint, OpenOutput, UpdateRaises, Unsaved

\* A file that was written without another worker at it can be read.
LEMMA WrittenIsReadable ==
    ASSUME IInv, MarksAreNoText, NEW w \in Workers, WriteOutput(w),
           Go(w, "writeOutput", "complete"), Unharmed'
    PROVE  output' \notin {None, Torn}
<1>1. pc[w] = "writeOutput" /\ pc'[w] = "complete"
    BY GoType DEF IInv, Steps
<1>2. ~Go(w, "writeOutput", "fail")
    BY <1>1 DEF Go, IInv, TypeOK
<1>3. w \notin overtaken
    BY <1>2 DEF WriteOutput, Unharmed, Mishaps, Outcomes
<1>4. output' = MergeTranslatedChunks(kept[w])
    BY <1>2, <1>3 DEF WriteOutput, Written
<1>5. kept[w] \in Seq(Segments)
    BY DEF IInv, TypeOK
<1>6. \A i \in 1..Len(kept[w]) : kept[w][i].index = i
    BY <1>1 DEF IInv, WorkerInv, BusyInv, HasAll, WholeFile, WholeUpTo
<1>7. output' \in Seq(Segments)
    BY <1>4, <1>5, <1>6, MergeInOrder
<1> QED BY <1>7 DEF MarksAreNoText

\* A worker that is done leaves it to the others, who do not move.
LEMMA OthersComeToIt ==
    ASSUME IInv, FileOwed, NEW w \in Workers, pc[w] \notin Unsaved,
           \A u \in Workers \ {w} : pc'[u] = pc[u],
           UNCHANGED <<queue, output>>, Unharmed, Claimed, output' \in {None, Torn}
    PROVE  UnderWay'
BY DEF FileOwed, UnderWay

\* The task of a worker that dies comes back.
LEMMA RequeuedIsUnderWay ==
    ASSUME IInv, NEW w \in delivered, Requeue(w)
    PROVE  UnderWay'
<1>1. task[w] \in Paths /\ queue \in [Paths -> Nat]
    BY DEF IInv, TypeOK
<1>2. queue'[task[w]] = queue[task[w]] + 1 /\ queue[task[w]] \in Nat
    BY <1>1 DEF Requeue
<1>3. queue'[task[w]] > 0
    BY <1>2
<1> QED BY <1>1, <1>3 DEF UnderWay

LEMMA WorkerOwesFile ==
    ASSUME IInv, FileOwed, MarksAreNoText, Unharmed, Unharmed', Claimed',
           output' \in {None, Torn}, NEW w \in Workers, WorkerStep(w)
    PROVE  UnderWay'
<1>1. CASE WriteOutput(w)
    BY <1>1, OnTheWay, WrittenIsReadable DEF WriteOutput
<1>2. CASE Complete(w) \/ Cleanup(w)
    <2>1. /\ pc[w] \in {"complete", "cleanup"}
          /\ \A u \in Workers \ {w} : pc'[u] = pc[u]
          /\ UNCHANGED <<queue, output>>
        BY <1>2, GoType DEF Complete, Cleanup, Broker, Disk, IInv, Steps
    <2>2. Claimed /\ pc[w] \notin Unsaved
        BY <2>1 DEF Claimed, Saved, Unsaved
    <2> QED BY <2>1, <2>2, OthersComeToIt
<1>3. CASE Fail(w)
    BY <1>3 DEF Fail, Unharmed, Mishaps, Outcomes
<1>4. CASE Ack(w)
    <2>1. /\ pc[w] = "ack"
          /\ \A u \in Workers \ {w} : pc'[u] = pc[u]
          /\ UNCHANGED <<queue, output>>
        BY <1>4 DEF Ack, Forget, Disk, IInv, TypeOK
    <2>2. Claimed /\ pc[w] \notin Unsaved
        BY <2>1 DEF Claimed, Saved, Unsaved
    <2> QED BY <2>1, <2>2, OthersComeToIt
<1> QED BY <1>1, <1>2, <1>3, <1>4, OnTheWay DEF WorkerStep

LEMMA FailureOwesFile ==
    ASSUME IInv, FileOwed, Unharmed, Unharmed', Claimed',
           output' \in {None, Torn}, Environment
    PROVE  UnderWay'
<1>1. ASSUME NEW w \in Workers, Crash(w)
      PROVE  UnderWay'
    <2>1. CASE w \in delivered
        BY <1>1, <2>1, RequeuedIsUnderWay DEF Crash
    <2>2. CASE w \notin delivered
        <3>1. pc[w] = "idle"
            BY <1>1, <2>2 DEF Crash, Unharmed, Mishaps, Outcomes
        <3>2. /\ UNCHANGED <<queue, output, outcome>>
              /\ \A u \in Workers : pc'[u] = pc[u]
            BY <1>1, <2>2, <3>1 DEF Crash, Requeue, Forget, Disk, IInv, TypeOK
        <3>3. Claimed /\ pc[w] \notin Unsaved
            BY <3>1, <3>2 DEF Claimed, Unsaved
        <3> QED BY <3>2, <3>3, OthersComeToIt
    <2> QED BY <2>1, <2>2
<1>2. ASSUME NEW w \in Workers, LoseConnection(w)
      PROVE  UnderWay'
    BY <1>2, RequeuedIsUnderWay DEF LoseConnection
<1>3. ASSUME NEW w \in Workers
      PROVE  ~Timeout(w)
    BY DEF Timeout, Unharmed, Mishaps, Outcomes
<1>4. ASSUME NEW p \in Paths, DownloadAgain(p)
      PROVE  UnderWay'
    <2>1. queue'[p] = queue[p] + 1 /\ queue[p] \in Nat
        BY <1>4 DEF DownloadAgain, IInv, TypeOK
    <2>2. queue'[p] > 0
        BY <2>1
    <2> QED BY <2>2 DEF UnderWay
<1> QED BY <1>1, <1>2, <1>3, <1>4 DEF Environment

LEMMA NextFileOwed ==
    ASSUME MarksAreNoText, IInv, FileOwed, [Next]_vars
    PROVE  FileOwed'
<1> SUFFICES ASSUME Unharmed', Claimed', output' \in {None, Torn}
             PROVE  UnderWay'
    BY DEF FileOwed
<1>1. Unharmed
    BY OutcomesStay DEF Unharmed
<1>2. CASE UNCHANGED vars
    BY <1>2 DEF vars, FileOwed, Unharmed, Claimed, UnderWay
<1> QED BY <1>1, <1>2, WorkerOwesFile, FailureOwesFile DEF Next

\* However many workers, files and failures there are: once no task of a COMPLETED
\* job is left, its translated file is there and readable, unless one of the
\* mishaps that outcome names has happened. A worker that dies while it writes the
\* file has its task delivered again, and whoever gets it writes the file anew.
THEOREM CompletedFileIsThere == MarksAreNoText => (Spec => []CompletedHasFile)
<1> SUFFICES ASSUME MarksAreNoText
             PROVE  Spec => []CompletedHasFile
    OBVIOUS
<1>1. Init => IInv /\ FileOwed
    BY InitIInv, InitFileOwed
<1>2. IInv /\ FileOwed /\ [Next]_vars => (IInv /\ FileOwed)'
    BY NextIInv, NextFileOwed
<1>3. IInv /\ FileOwed => CompletedHasFile
    BY OwedFileComes
<1> QED BY <1>1, <1>2, <1>3, PTL DEF Spec

-----------------------------------------------------------------------------
(* Whose text a segment gets *)

\* The answer numbered n is the one to the chunk's n-th segment.
LEMMA AnswerContents ==
    ASSUME NEW chunk \in Seq(Segments), NEW skipped \in 0..Len(chunk)
    PROVE  /\ Numbers(Answer(chunk, skipped)) = (1..Len(chunk)) \ {skipped}
           /\ \A n \in (1..Len(chunk)) \ {skipped} :
                TextNumbered(Answer(chunk, skipped), n) = Text(chunk[n].cue, TRUE)
<1> DEFINE answer == Answer(chunk, skipped)
           size == Len(chunk) - IF skipped = 0 THEN 0 ELSE 1
           number(k) == IF skipped # 0 /\ k >= skipped THEN k + 1 ELSE k
<1>1. /\ Len(chunk) \in Nat /\ size \in Nat
      /\ \A k \in 1..size : number(k) \in (1..Len(chunk)) \ {skipped}
    OBVIOUS
<1>2. ASSUME NEW n \in (1..Len(chunk)) \ {skipped}
      PROVE  \E k \in 1..size : number(k) = n
    <2>1. CASE skipped # 0 /\ n > skipped
        <3>1. n - 1 \in 1..size /\ number(n - 1) = n
            BY <2>1
        <3> QED BY <3>1
    <2>2. CASE skipped = 0 \/ n < skipped
        <3>1. n \in 1..size /\ number(n) = n
            BY <2>2
        <3> QED BY <3>1
    <2> QED BY <2>1, <2>2
<1>3. answer = [k \in 1..size |->
                    [number |-> number(k), text |-> Text(chunk[number(k)].cue, TRUE)]]
    BY DEF Answer
<1> HIDE DEF answer, size, number
<1>4. /\ DOMAIN answer = 1..size
      /\ \A k \in 1..size : /\ answer[k].number = number(k)
                            /\ answer[k].text = Text(chunk[number(k)].cue, TRUE)
    BY <1>3
<1>5. Numbers(answer) = (1..Len(chunk)) \ {skipped}
    <2>1. Numbers(answer) = {number(k) : k \in 1..size}
        BY <1>4 DEF Numbers
    <2> QED BY <2>1, <1>1, <1>2
<1>6. ASSUME NEW n \in (1..Len(chunk)) \ {skipped}
      PROVE  TextNumbered(answer, n) = Text(chunk[n].cue, TRUE)
    <2> DEFINE k == CHOOSE k \in DOMAIN answer : answer[k].number = n
    <2>1. \E j \in DOMAIN answer : answer[j].number = n
        BY <1>2, <1>4
    <2>2. k \in DOMAIN answer /\ answer[k].number = n
        BY <2>1
    <2> HIDE DEF k
    <2>3. answer[k].text = Text(chunk[n].cue, TRUE)
        BY <2>2, <1>4
    <2> QED BY <2>3 DEF TextNumbered, k
<1> QED BY <1>5, <1>6 DEF answer

\* A complete answer gives each segment its own text.
LEMMA CompleteAnswer ==
    ASSUME NEW chunk \in Seq(Segments), NEW k \in 1..Len(chunk)
    PROVE  MergeTranslations(chunk, Answer(chunk, 0))[k].text = Text(chunk[k].cue, TRUE)
<1> DEFINE answer == Answer(chunk, 0)
<1>1. Len(chunk) \in Nat /\ chunk[k] \in Segments
    BY ElementOfSeq
<1>2. Len(answer) = Len(chunk)
    BY <1>1, AnswerFacts
<1>3. answer[k].text = Text(chunk[k].cue, TRUE)
    <2>1. answer = [j \in 1..Len(chunk) |->
                        [number |-> j, text |-> Text(chunk[j].cue, TRUE)]]
        BY <1>1 DEF Answer
    <2> HIDE DEF answer
    <2>2. answer[k] = [number |-> k, text |-> Text(chunk[k].cue, TRUE)]
        BY <2>1
    <2> QED BY <2>2
<1> HIDE DEF answer
<1>4. MergeTranslations(chunk, answer)[k] = [chunk[k] EXCEPT !.text = answer[k].text]
    BY <1>2 DEF MergeTranslations
<1> QED BY <1>1, <1>3, <1>4 DEF answer, Segments

\* The text that segment k gets of a chunk that starts with segment first of the
\* file, when the text for segment skipped of the chunk is missing.
ShiftedText(chunk, first, skipped, k) ==
    LET i == first + k - 1
    IN  IF k = skipped \/ i = skipped \/ i > Len(chunk)
        THEN chunk[k].text
        ELSE Text(i + first - 1, TRUE)

\* What merge_translations makes of an answer that lacks the text of one segment,
\* for a chunk of any length at any place of a file: the segments are looked up
\* under their numbers in the file, the answer has them under their numbers in the
\* chunk. So a chunk that starts with the file's segment number first gives
\* segment i the text of segment i + first - 1, or leaves it untranslated if that
\* one is beyond the chunk: right in the first chunk, wrong in every other.
THEOREM MissingTextShifts ==
    ASSUME NEW chunk \in Seq(Segments), NEW first \in Nat \ {0}, NEW source,
           Consecutive(chunk, first, source), NEW skipped \in 1..Len(chunk),
           NEW k \in 1..Len(chunk)
    PROVE  MergeTranslations(chunk, Answer(chunk, skipped))[k].text =
             ShiftedText(chunk, first, skipped, k)
<1> DEFINE answer == Answer(chunk, skipped)
           i == first + k - 1
<1>1. /\ Len(chunk) \in Nat /\ skipped \in 0..Len(chunk)
      /\ chunk[k] \in Segments /\ i \in Nat \ {0}
    BY ElementOfSeq
<1>2. Len(answer) # Len(chunk) /\ Len(answer) = Len(chunk) - 1
    BY <1>1, AnswerFacts
<1>3. /\ Numbers(answer) = (1..Len(chunk)) \ {skipped}
      /\ \A n \in (1..Len(chunk)) \ {skipped} :
            TextNumbered(answer, n) = Text(chunk[n].cue, TRUE)
    BY <1>1, AnswerContents
<1>4. chunk[k].index = i
    BY DEF Consecutive
<1> HIDE DEF answer
<1>5. MissingPlace(chunk, answer) = skipped
    <2>1. CASE answer = <<>>
        <3>1. Len(answer) = 0
            BY <2>1
        <3>2. Len(chunk) - 1 = 0
            BY <3>1, <1>2
        <3>3. \A n \in Nat : \A m \in 1..n : n - 1 = 0 => n = 1 /\ m = 1
            OBVIOUS
        <3>4. Len(chunk) = 1 /\ skipped = 1
            BY <3>2, <3>3, <1>1, Zenon
        <3> QED BY <3>4, <2>1 DEF MissingPlace
    <2>2. CASE answer # <<>>
        <3>1. \A n \in 1..Len(chunk) : n \notin Numbers(answer) <=> n = skipped
            BY <1>3
        <3> QED BY <3>1, <2>2 DEF MissingPlace
    <2> QED BY <2>1, <2>2
<1> DEFINE new == IF k = skipped \/ i \notin Numbers(answer)
                  THEN chunk[k]
                  ELSE [chunk[k] EXCEPT !.text = TextNumbered(answer, i)]
<1>6. MergeTranslations(chunk, answer)[k] = new
    BY <1>2, <1>4, <1>5 DEF MergeTranslations, WithOneMissing
<1>7. CASE k = skipped \/ i = skipped \/ i > Len(chunk)
    <2>1. new = chunk[k]
        BY <1>1, <1>3, <1>7
    <2> QED BY <2>1, <1>6, <1>7 DEF answer, ShiftedText
<1>8. CASE ~(k = skipped \/ i = skipped \/ i > Len(chunk))
    <2>1. i \in (1..Len(chunk)) \ {skipped}
        BY <1>1, <1>8
    <2>2. new = [chunk[k] EXCEPT !.text = Text(chunk[i].cue, TRUE)]
        BY <1>3, <1>8, <2>1
    <2>3. chunk[i].cue = i + first - 1
        BY <2>1 DEF Consecutive
    <2>4. new.text = Text(i + first - 1, TRUE)
        BY <2>2, <2>3, <1>1 DEF Segments
    <2> HIDE DEF new
    <2> QED BY <2>4, <1>6, <1>8 DEF answer, ShiftedText
<1> QED BY <1>7, <1>8

\* No limit cuts a file into more than one chunk.
OneChunkEach == \A p \in Paths, l \in Limits : Len(Cut(p, l)) = 1

Untranslated(segments) ==
    \A k \in 1..Len(segments) : segments[k].text = Text(segments[k].cue, FALSE)

\* Each segment has its own text, in translation but for one at most.
OwnTexts(segments) ==
    \E skipped \in 0..Len(segments) :
        \A k \in 1..Len(segments) :
            segments[k].text = IF k = skipped THEN Text(segments[k].cue, FALSE)
                                              ELSE Text(segments[k].cue, TRUE)

TextsRight(chunk) ==
    IF chunk.status = "done" THEN OwnTexts(chunk.segments)
    ELSE Untranslated(chunk.segments)

\* As long as no answer lacks a text, or every file is one chunk.
NothingShifts == "skip" \notin Faults \/ OneChunkEach

ChunkInv(chunk) ==
    /\ OneChunkEach => chunk.first = 1
    /\ TextsRight(chunk)

TextInv == \A w \in Workers : \A c \in DOMAIN chunks[w] : ChunkInv(chunks[w][c])

LEMMA TextsAreRight == ASSUME IInv, TextInv PROVE OnlyMissingIsOriginal
<1> SUFFICES ASSUME NEW w \in Workers, NEW c \in ChunksIn(w, "done")
             PROVE  LET segments == chunks[w][c].segments
                    IN  /\ \A k \in DOMAIN segments :
                            segments[k].text.of = segments[k].cue
                        /\ \A j, k \in DOMAIN segments :
                            \/ segments[j].text.translated
                            \/ segments[k].text.translated
                            \/ j = k
    BY DEF OnlyMissingIsOriginal
<1> DEFINE segments == chunks[w][c].segments
<1>1. OwnTexts(segments)
    BY DEF TextInv, ChunkInv, TextsRight, ChunksIn
<1>2. DOMAIN segments = 1..Len(segments)
    <2>1. chunks[w][c] \in ChunkStates
        BY LenProperties, ElementOfSeq DEF IInv, TypeOK, ChunksIn
    <2> QED BY <2>1, LenProperties DEF ChunkStates
<1>3. PICK skipped \in 0..Len(segments) :
        \A k \in 1..Len(segments) :
            segments[k].text = IF k = skipped THEN Text(segments[k].cue, FALSE)
                                              ELSE Text(segments[k].cue, TRUE)
    BY <1>1 DEF OwnTexts
<1>4. ASSUME NEW k \in 1..Len(segments)
      PROVE  /\ segments[k].text.of = segments[k].cue
             /\ k # skipped => segments[k].text.translated
    <2>1. \A i, t : Text(i, t).of = i /\ Text(i, TRUE).translated
        BY DEF Text
    <2>2. k # skipped => segments[k].text = Text(segments[k].cue, TRUE)
        BY <1>3
    <2>3. \E t : segments[k].text = Text(segments[k].cue, t)
        BY <1>3
    <2> HIDE DEF segments
    <2> QED BY <2>1, <2>2, <2>3
<1> QED BY <1>2, <1>4

LEMMA InitTextInv == Init => TextInv
BY DEF Init, TextInv

\* Only Read and the steps of a translation put anything into chunks.
LEMMA ChunksStayOrGo ==
    ASSUME IInv, [Next]_vars,
           \A u \in Workers : ~Read(u) /\ ~Translating(u)
    PROVE  \A u \in Workers : chunks'[u] = chunks[u] \/ chunks'[u] = <<>>
<1>1. CASE UNCHANGED vars
    BY <1>1 DEF vars
<1>2. ASSUME NEW w \in Workers, WorkerStep(w)
      PROVE  \A u \in Workers : chunks'[u] = chunks[u] \/ chunks'[u] = <<>>
    <2>1. CASE Ack(w)
        BY <2>1 DEF Ack, Forget, IInv, TypeOK
    <2>2. CASE ~Ack(w)
        <3>1. UNCHANGED chunks
            BY <1>2, <2>2 DEF WorkerStep, Take, Load, ReadFails, Gather, OpenCheckpoint,
               WriteCheckpoint, OpenOutput, WriteOutput, Complete, UpdateRaises,
               Cleanup, Fail, Progress
        <3> QED BY <3>1
    <2> QED BY <2>1, <2>2
<1>3. ASSUME Environment
      PROVE  \A u \in Workers : chunks'[u] = chunks[u] \/ chunks'[u] = <<>>
    <2>1. ASSUME NEW w \in Workers, Crash(w) \/ Timeout(w)
          PROVE  \A u \in Workers : chunks'[u] = chunks[u] \/ chunks'[u] = <<>>
        BY <2>1 DEF Crash, Timeout, Forget, IInv, TypeOK
    <2>2. ASSUME NEW w \in Workers, LoseConnection(w)
          PROVE  UNCHANGED chunks
        BY <2>2 DEF LoseConnection, Progress
    <2>3. ASSUME NEW p \in Paths, DownloadAgain(p)
          PROVE  UNCHANGED chunks
        BY <2>3 DEF DownloadAgain, Progress
    <2> QED BY <1>3, <2>1, <2>2, <2>3 DEF Environment
<1> QED BY <1>1, <1>2, <1>3 DEF Next

\* The chunks as they are read have no translation, and the first starts at 1.
LEMMA ReadTexts == ASSUME IInv, TextInv, NEW w \in Workers, Read(w) PROVE TextInv'
<1> DEFINE p == task[w]
           cut == CutOf(w)
           source == [path |-> p, version |-> version[p]]
           chunk(c) == [first |-> FirstOf(cut, c),
                        status |-> IF c <= Done(w) THEN "resumed" ELSE "waiting",
                        segments |-> Chunk(source, cut, c)]
<1>1. /\ pc[w] = "read" /\ chunks' = [chunks EXCEPT ![w] = chunks'[w]]
      /\ chunks'[w] = [c \in 1..Len(cut) |-> chunk(c)]
    BY DEF Read, Go, IInv, TypeOK
<1>2. /\ p \in Paths /\ limit[w] \in Limits
      /\ source \in Sources
    BY <1>1 DEF IInv, TypeOK, WorkerInv, BusyInv, Sources
<1>3. ASSUME NEW c \in 1..Len(cut)
      PROVE  ChunkInv(chunk(c))
    <2>1. Untranslated(chunk(c).segments)
        <3>1. /\ Chunk(source, cut, c) \in Seq(Segments)
              /\ Len(Chunk(source, cut, c)) = LastOf(cut, c) - FirstOf(cut, c) + 1
            BY <1>2, ChunkFacts DEF CutOf
        <3>2. \A k \in 1..(LastOf(cut, c) - FirstOf(cut, c) + 1) :
                Chunk(source, cut, c)[k] = Original(source, FirstOf(cut, c) + k - 1)
            BY DEF Chunk
        <3>3. \A i : Original(source, i).text = Text(Original(source, i).cue, FALSE)
            BY DEF Original
        <3> QED BY <3>1, <3>2, <3>3 DEF Untranslated
    <2>2. chunk(c).status # "done"
        OBVIOUS
    <2>3. OneChunkEach => FirstOf(cut, c) = 1
        <3>1. OneChunkEach => Len(cut) = 1
            BY <1>2 DEF OneChunkEach, CutOf
        <3>2. Len(cut) = 1 => c = 1
            OBVIOUS
        <3> QED BY <3>1, <3>2 DEF FirstOf
    <2> QED BY <2>1, <2>2, <2>3 DEF ChunkInv, TextsRight
<1> HIDE DEF chunk, cut
<1>4. \A c \in DOMAIN chunks'[w] : ChunkInv(chunks'[w][c])
    BY <1>1, <1>3
<1>5. \A u \in Workers \ {w} : chunks'[u] = chunks[u]
    BY <1>1 DEF IInv, TypeOK
<1> QED BY <1>4, <1>5 DEF TextInv

\* One chunk changes.
LEMMA TextChanges ==
    ASSUME IInv, TextInv, NEW w \in Workers, NEW c \in DOMAIN chunks[w], NEW new,
           chunks' = [chunks EXCEPT ![w] = [chunks[w] EXCEPT ![c] = new]],
           new.first = chunks[w][c].first, TextsRight(new)
    PROVE  TextInv'
<1>1. ChunkInv(new)
    BY DEF TextInv, ChunkInv
<1>2. /\ chunks'[w] = [chunks[w] EXCEPT ![c] = new]
      /\ \A u \in Workers \ {w} : chunks'[u] = chunks[u]
    BY DEF IInv, TypeOK
<1>3. \A d \in DOMAIN chunks'[w] :
        \/ chunks'[w][d] = new
        \/ d \in DOMAIN chunks[w] /\ chunks'[w][d] = chunks[w][d]
    BY <1>2
<1> QED BY <1>1, <1>2, <1>3 DEF TextInv

\* Merging an answer into a chunk that starts the file, or a complete answer into
\* any, gives each segment its own text.
LEMMA AnsweredTexts ==
    ASSUME NEW chunk \in Seq(Segments), NEW first \in Nat, NEW source,
           Consecutive(chunk, first, source), Untranslated(chunk),
           NEW skipped \in 0..Len(chunk), first = 1 \/ skipped = 0
    PROVE  OwnTexts(MergeTranslations(chunk, Answer(chunk, skipped)))
<1> DEFINE merged == MergeTranslations(chunk, Answer(chunk, skipped))
<1>1. /\ Len(merged) = Len(chunk) /\ Len(chunk) \in Nat
      /\ \A k \in 1..Len(chunk) : merged[k].cue = chunk[k].cue
    <2>1. /\ Answer(chunk, skipped) \in Seq([number : Nat, text : Texts])
          /\ \/ Len(Answer(chunk, skipped)) = Len(chunk)
             \/ Len(Answer(chunk, skipped)) = Len(chunk) - 1
        BY AnswerFacts
    <2>2. Len(chunk) \in Nat
        OBVIOUS
    <2>3. /\ Len(merged) = Len(chunk)
          /\ \A k \in 1..Len(chunk) : merged[k].cue = chunk[k].cue
        BY <2>1, MergeKeepsPlaces, Zenon
    <2> QED BY <2>2, <2>3
<1>2. CASE skipped = 0
    <2>1. \A k \in 1..Len(chunk) : merged[k].text = Text(chunk[k].cue, TRUE)
        BY <1>2, CompleteAnswer
    <2>2. \A k \in 1..Len(chunk) : k # 0
        OBVIOUS
    <2> HIDE DEF merged
    <2>3. 0 \in 0..Len(merged)
        BY <1>1
    <2>4. \A k \in 1..Len(merged) : merged[k].text =
            IF k = 0 THEN Text(merged[k].cue, FALSE) ELSE Text(merged[k].cue, TRUE)
        BY <2>1, <2>2, <1>1
    <2>5. OwnTexts(merged)
        BY <2>3, <2>4 DEF OwnTexts
    <2> QED BY <2>5 DEF merged
<1>3. CASE skipped # 0
    <2>1. first = 1 /\ skipped \in 1..Len(chunk)
        BY <1>3
    <2>2. ASSUME NEW k \in 1..Len(chunk)
          PROVE  merged[k].text = IF k = skipped THEN Text(chunk[k].cue, FALSE)
                                                 ELSE Text(chunk[k].cue, TRUE)
        <3>1. merged[k].text = IF k = skipped THEN chunk[k].text ELSE Text(k, TRUE)
            <4>1. /\ first \in Nat \ {0} /\ skipped \in 1..Len(chunk)
                  /\ first + k - 1 = k /\ first + k - 1 + first - 1 = k
                  /\ ~(first + k - 1 > Len(chunk))
                BY <2>1
            <4>2. merged[k].text = ShiftedText(chunk, first, skipped, k)
                BY <4>1, MissingTextShifts, Zenon
            <4> HIDE DEF merged
            <4> QED BY <4>1, <4>2 DEF ShiftedText
        <3>2. chunk[k].cue = k
            BY <2>1 DEF Consecutive
        <3> QED BY <3>1, <3>2 DEF Untranslated
    <2> HIDE DEF merged
    <2>3. skipped \in 0..Len(merged)
        BY <1>1
    <2>4. \A k \in 1..Len(merged) : merged[k].text =
            IF k = skipped THEN Text(merged[k].cue, FALSE) ELSE Text(merged[k].cue, TRUE)
        BY <2>2, <1>1
    <2>5. OwnTexts(merged)
        BY <2>3, <2>4 DEF OwnTexts
    <2> QED BY <2>5 DEF merged
<1> QED BY <1>2, <1>3

LEMMA TranslatingTexts ==
    ASSUME NothingShifts, IInv, TextInv, NEW w \in Workers, NEW c \in DOMAIN chunks[w],
           StartChunk(w, c) \/ AnswerChunk(w, c)
    PROVE  TextInv'
<1> DEFINE old == chunks[w][c]
           merged(s) == MergeTranslations(old.segments, Answer(old.segments, s))
           done(s) == [old EXCEPT !.status = "done", !.segments = merged(s)]
           moved(status) == [old EXCEPT !.status = status]
<1>1. pc[w] = "translate" /\ old.status \in {"waiting", "running"}
    BY DEF StartChunk, AnswerChunk, ChunksIn
<1>2. old \in ChunkStates
    BY LenProperties, ElementOfSeq DEF IInv, TypeOK
<1>3. Untranslated(old.segments) /\ (OneChunkEach => old.first = 1)
    BY <1>1 DEF TextInv, ChunkInv, TextsRight
<1>4. ASSUME NEW status \in {"running", "failed"},
             chunks' = [chunks EXCEPT ![w][c].status = status]
      PROVE  TextInv'
    <2>1. chunks' = [chunks EXCEPT ![w] = [chunks[w] EXCEPT ![c] = moved(status)]]
        BY <1>4
    <2>2. moved(status).first = old.first /\ TextsRight(moved(status))
        BY <1>2, <1>3 DEF ChunkStates, TextsRight
    <2> HIDE DEF moved
    <2> QED BY <2>1, <2>2, TextChanges
<1>5. ASSUME NEW s \in 0..Len(old.segments), Answered(w, c, s), s # 0 => "skip" \in Faults
      PROVE  TextInv'
    <2>1. PICK source : Consecutive(old.segments, old.first, source)
        BY <1>1 DEF IInv, WorkerInv, BusyInv, TranslatesAll, ChunksCover
    <2>2. old.segments \in Seq(Segments) /\ old.first \in Nat
        BY <1>2 DEF ChunkStates
    <2>3. OwnTexts(merged(s))
        <3>1. CASE s = 0
            BY <3>1, <2>1, <2>2, <1>3, AnsweredTexts
        <3>2. CASE s # 0
            <4>1. old.first = 1
                BY <3>2, <1>3, <1>5 DEF NothingShifts
            <4> QED BY <4>1, <2>1, <2>2, <1>3, AnsweredTexts
        <3> QED BY <3>1, <3>2
    <2>4. chunks' = [chunks EXCEPT ![w] = [chunks[w] EXCEPT ![c] = done(s)]]
        BY <1>5 DEF Answered
    <2> HIDE DEF merged
    <2>5. done(s).first = old.first /\ TextsRight(done(s))
        BY <1>2, <2>3 DEF ChunkStates, TextsRight
    <2> HIDE DEF done
    <2> QED BY <2>4, <2>5, TextChanges
<1>6. CASE StartChunk(w, c)
    BY <1>4, <1>6 DEF StartChunk
<1>7. CASE AnswerChunk(w, c)
    <2>1. Len(old.segments) \in Nat
        BY <1>2, LenProperties DEF ChunkStates
    <2>2. 0 \in 0..Len(old.segments) /\ 1..Len(old.segments) \subseteq 0..Len(old.segments)
        BY <2>1
    <2>3. \/ Answered(w, c, 0)
          \/ "skip" \in Faults /\ \E s \in 1..Len(old.segments) : Answered(w, c, s)
          \/ chunks' = [chunks EXCEPT ![w][c].status = "failed"]
        BY <1>7 DEF AnswerChunk, Fault
    <2> QED BY <2>2, <2>3, <1>4, <1>5
<1> QED BY <1>6, <1>7

LEMMA NextTextInv ==
    ASSUME NothingShifts, IInv, TextInv, [Next]_vars
    PROVE  TextInv'
<1>1. CASE \E w \in Workers : Read(w)
    BY <1>1, ReadTexts
<1>2. CASE \E w \in Workers : Translating(w)
    BY <1>2, TranslatingTexts DEF Translating
<1>3. CASE \A w \in Workers : ~Read(w) /\ ~Translating(w)
    <2>1. \A u \in Workers : chunks'[u] = chunks[u] \/ chunks'[u] = <<>>
        BY <1>3, ChunksStayOrGo
    <2> QED BY <2>1 DEF TextInv
<1> QED BY <1>1, <1>2, <1>3

\* For any number of workers and failures and files of any length: if every file
\* is one chunk, or no answer lacks a text, each segment gets its own text, and at
\* most one of a chunk keeps its original. WrongText shows that with several chunks
\* and a text that is missing it does not.
THEOREM OwnTextsOnly == NothingShifts => (Spec => []OnlyMissingIsOriginal)
<1> SUFFICES ASSUME NothingShifts
             PROVE  Spec => []OnlyMissingIsOriginal
    OBVIOUS
<1>1. Init => IInv /\ TextInv
    BY InitIInv, InitTextInv
<1>2. IInv /\ TextInv /\ [Next]_vars => (IInv /\ TextInv)'
    BY NextIInv, NextTextInv
<1>3. IInv /\ TextInv => OnlyMissingIsOriginal
    BY TextsAreRight
<1> QED BY <1>1, <1>2, <1>3, PTL DEF Spec
===============================================================================
