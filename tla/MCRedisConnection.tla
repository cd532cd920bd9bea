-------------------------- MODULE MCRedisConnection --------------------------
(* Two coroutines that use Redis, and two health check loops at most. *)
EXTENDS RedisConnection

CONSTANTS c1, c2, h1, h2

=============================================================================
