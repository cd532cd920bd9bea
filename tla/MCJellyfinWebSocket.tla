------------------------- MODULE MCJellyfinWebSocket -------------------------
(* Two items, and two outages. *)
EXTENDS JellyfinWebSocket

CONSTANTS i1, i2

=============================================================================
