--------------------------- MODULE MCTranslationBatch ---------------------------
(* Instances of TranslationBatch for TLC. *)
EXTENDS TranslationBatch, TLC

CONSTANTS english, french

\* Under the two limits the English file falls into as many chunks that end at
\* different segments, the French one into one chunk or two.
TokensOf == [p \in Paths |-> IF p = english THEN <<2, 1, 1>> ELSE <<2, 1>>]
SomeLimits == {[tokens |-> 2, segments |-> 5], [tokens |-> 3, segments |-> 2]}

\* One chunk of a single segment, then one of the others.
LongTail == [p \in Paths |-> <<3, 1, 1, 1>>]
TailLimits == {[tokens |-> 3, segments |-> 5]}

\* Every limit and every file of up to four segments, and lists of up to four
\* numbers.
SmallLimits == [tokens : 1..4, segments : 1..3]
SmallFiles == UNION {[1..n -> 0..3] : n \in 0..4}
SmallLists == UNION {[1..n -> 1..4] : n \in 0..4}

RECURSIVE TokensIn(_, _, _)
TokensIn(tokens, first, last) ==
    IF last < first THEN 0 ELSE tokens[last] + TokensIn(tokens, first, last - 1)

\* split_subtitle_content, for every file and limit: the chunks cover the file in
\* order and none is empty; none of more than one segment exceeds a limit; and
\* none could have taken the next segment as well.
ASSUME SplitFillsChunks ==
    \A tokens \in SmallFiles, l \in SmallLimits :
        LET cut == Split(tokens, l)
            fits(first, last) ==
                /\ last - first < l.segments
                /\ last = first \/ TokensIn(tokens, first, last) <= l.tokens
        IN  /\ (tokens = <<>>) <=> (cut = <<>>)
            /\ cut # <<>> => cut[Len(cut)] = Len(tokens)
            /\ \A c \in DOMAIN cut :
                /\ FirstOf(cut, c) <= LastOf(cut, c)
                /\ fits(FirstOf(cut, c), LastOf(cut, c))
                /\ c < Len(cut) => ~fits(FirstOf(cut, c), LastOf(cut, c) + 1)

\* merge_translated_chunks, for every order in which segments may come and with
\* numbers that occur twice: the result has the same segments, numbered from 1,
\* in the order of their old numbers, those of one number in the order they came.
ASSUME MergeSorts ==
    \A list \in SmallLists :
        LET segments == [k \in DOMAIN list |-> [index |-> list[k], cue |-> k]]
            merged == MergeTranslatedChunks(segments)
        IN  /\ {merged[n].cue : n \in DOMAIN merged} = DOMAIN list
            /\ Len(merged) = Len(list)
            /\ \A n \in DOMAIN merged : merged[n].index = n
            /\ \A m, n \in DOMAIN merged : m < n =>
                \/ list[merged[m].cue] < list[merged[n].cue]
                \/ list[merged[m].cue] = list[merged[n].cue] /\ merged[m].cue < merged[n].cue

=================================================================================
