---------------------------- MODULE TranslationText ----------------------------
(***************************************************************************)
(* The list algorithms of the translator, common/subtitle_parser.py: how a *)
(* subtitle file is cut into chunks, how the numbered answer of the        *)
(* language model is put back into the segments of a chunk, and how the    *)
(* translated segments of all chunks become one numbered file.             *)
(*                                                                         *)
(* A segment is a record: the number the file gives it (index), the place  *)
(* of its time codes in the source (cue), the source it was read from, and *)
(* its text, of which only the segment it belongs to and whether it is     *)
(* translated matter.                                                      *)
(***************************************************************************)
EXTENDS Integers, Sequences, FiniteSets

Text(i, translated) == [of |-> i, translated |-> translated]

\* Segment i of the file that source names, as the parser returns it.
Original(source, i) ==
    [index |-> i, cue |-> i, source |-> source, text |-> Text(i, FALSE)]

---------------------------------------------------------------------------
(* Cutting a file into chunks *)

\* Of the chunk that is open: its tokens and the number of its segments, after
\* the ends of the chunks that are closed. It closes when segment i would exceed
\* the token limit, unless it is empty, or when it holds the most segments allowed.
Closes(open, tokens, limit, i) ==
    \/ open.load + tokens[i] > limit.tokens /\ open.size > 0
    \/ open.size >= limit.segments

WithSegment(open, tokens, limit, i) ==
    IF Closes(open, tokens, limit, i)
    THEN [ends |-> Append(open.ends, i - 1), load |-> tokens[i], size |-> 1]
    ELSE [open EXCEPT !.load = @ + tokens[i], !.size = @ + 1]

NoSegment == [ends |-> <<>>, load |-> 0, size |-> 0]

\* What split_subtitle_content has after the last segment.
Packed(tokens, limit) ==
    LET pack[i \in 0..Len(tokens)] ==
            IF i = 0 THEN NoSegment
            ELSE WithSegment(pack[i - 1], tokens, limit, i)
    IN  pack[Len(tokens)]

\* The chunks, each given by the place of its last segment.
Split(tokens, limit) ==
    LET packed == Packed(tokens, limit)
    IN  IF packed.size > 0 THEN Append(packed.ends, Len(tokens)) ELSE packed.ends

FirstOf(cut, c) == IF c = 1 THEN 1 ELSE cut[c - 1] + 1
LastOf(cut, c) == cut[c]

Chunk(source, cut, c) ==
    [k \in 1..(LastOf(cut, c) - FirstOf(cut, c) + 1) |->
        Original(source, FirstOf(cut, c) + k - 1)]

---------------------------------------------------------------------------
(* Putting an answer back into a chunk *)

\* The model answers the segments of a chunk under their numbers in the prompt,
\* 1 to n; the parser keeps the numbers it could read. Skipped is the number of
\* a segment the answer leaves out, 0 when it leaves none out.
Answer(chunk, skipped) ==
    [k \in 1..(Len(chunk) - IF skipped = 0 THEN 0 ELSE 1) |->
        LET number == IF skipped # 0 /\ k >= skipped THEN k + 1 ELSE k
        IN  [number |-> number, text |-> Text(chunk[number].cue, TRUE)]]

Numbers(answer) == {answer[k].number : k \in DOMAIN answer}

\* The place in the chunk of the segment that was not answered; the last one if
\* no number was read.
MissingPlace(chunk, answer) ==
    IF answer = <<>> THEN Len(chunk)
    ELSE CHOOSE k \in 1..Len(chunk) : k \notin Numbers(answer)

TextNumbered(answer, n) ==
    answer[CHOOSE k \in DOMAIN answer : answer[k].number = n].text

\* With one answer missing the code looks each text up under the number the
\* segment has in the file, and keeps the original where it finds none.
WithOneMissing(chunk, answer) ==
    [k \in 1..Len(chunk) |->
        IF k = MissingPlace(chunk, answer) \/ chunk[k].index \notin Numbers(answer)
        THEN chunk[k]
        ELSE [chunk[k] EXCEPT !.text = TextNumbered(answer, chunk[k].index)]]

\* merge_translations, for an answer that lacks at most one segment; any other
\* count is an error of the chunk.
MergeTranslations(chunk, answer) ==
    IF Len(answer) = Len(chunk)
    THEN [k \in 1..Len(chunk) |-> [chunk[k] EXCEPT !.text = answer[k].text]]
    ELSE WithOneMissing(chunk, answer)

---------------------------------------------------------------------------
(* One file from all the chunks *)

\* Where a stable sort by index puts segment k.
Rank(segments, k) ==
    1 + Cardinality({j \in 1..Len(segments) :
            \/ segments[j].index < segments[k].index
            \/ segments[j].index = segments[k].index /\ j < k})

\* Sorted by index and numbered from 1.
MergeTranslatedChunks(segments) ==
    [n \in 1..Len(segments) |->
        [segments[CHOOSE k \in 1..Len(segments) : Rank(segments, k) = n]
            EXCEPT !.index = n]]
================================================================================
