------------------------------ MODULE MCIngest ------------------------------
(* Instances of Ingest for TLC. *)
EXTENDS Ingest, TLC

CONSTANTS scan, hook, push, other, path, link

\* One file that the scan, a webhook and the WebSocket find under its path. A
\* second webhook carries a URL of its own.
UrlGiven == [j \in Jobs |-> IF j = other THEN link ELSE path]

=============================================================================
