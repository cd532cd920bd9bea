------------------------- MODULE MCSubtitlePipeline -------------------------
(* Instances of SubtitlePipeline for TLC. *)
EXTENDS SubtitlePipeline, TLC

CONSTANTS d1, d2, t1, t2

\* Failures after which at-least-once delivery still gets every job answered.
RecoverableFaults == {"crash", "conn", "enqueue"}

WorkerSymmetry == Permutations(Downloaders) \cup Permutations(Translators)

=============================================================================
