---------------------------- MODULE RetryBackoff ----------------------------
(***************************************************************************)
(* When a failed call is tried again, and how long the services wait       *)
(* before: the decorator retry_with_exponential_backoff, the reconnect     *)
(* delays of Redis, of the Jellyfin client and of the workers.             *)
(* Times are whole units; random.uniform is a choice.                      *)
(***************************************************************************)
EXTENDS Integers, Sequences

Smaller(a, b) == IF a < b THEN a ELSE b

\* calculate_exponential_backoff_delay: the delays it may return.
RetryDelays(initial, attempt, base, max) ==
    LET delay == Smaller(initial * base ^ attempt, max)
    IN delay .. (delay + delay \div 2)

\* RedisJobClient.connect and JellyfinWebSocketClient._calculate_reconnect_delay
ReconnectDelay(initial, attempt, max) == Smaller(initial * 2 ^ attempt, max)

\* Mutant: the worker's delay is doubled without a limit.
LongerDelayForever(delay, max) == delay * 2

\* What a worker waits after max_consecutive_failures.
LongerDelay(delay, max) == Smaller(delay * 2, max)

-----------------------------------------------------------------------------
(***************************************************************************)
(* is_transient_error.  An error is the sequence of its __cause__ chain,   *)
(* outermost first; each link has a class, and says what its status or     *)
(* its message tells.                                                      *)
(***************************************************************************)

Classes ==
    {"mismatch",    \* TranslationCountMismatchError
     "limit",       \* RateLimitError and connection errors of OpenAI,
                    \* OpenSubtitlesRateLimitError, ConnectionError, OSError
     "openai",      \* any other openai.APIError
     "login",       \* OpenSubtitlesAuthenticationError
     "subtitles",   \* any other OpenSubtitlesAPIError
     "other"}       \* none of these
Signs == {"permanent", "transient", "none"}

Verdict(link) ==
    CASE link.class \in {"mismatch", "limit"} -> "retry"
      [] link.class = "openai" /\ link.sign = "transient" -> "retry"
      [] link.class = "openai" /\ link.sign = "permanent" -> "stop"
      \* Of the message of a failed login only the signs of bad credentials
      \* are looked at.
      [] link.class = "login" /\ link.sign = "permanent" -> "stop"
      [] link.class = "subtitles" /\ link.sign = "transient" -> "retry"
      [] OTHER -> "ask the cause"

IsTransient(chain) ==
    \E i \in DOMAIN chain :
        /\ Verdict(chain[i]) = "retry"
        /\ \A k \in 1..(i - 1) : Verdict(chain[k]) = "ask the cause"

\* The calls the decorator makes of a function whose calls end as outcomes
\* say: TRUE for an answer, or the chain of the error.
Calls(outcomes, maxRetries) ==
    LET GivesUp(i) ==
            \/ outcomes[i].ok
            \/ ~IsTransient(outcomes[i].error)
            \/ i > maxRetries
    IN CHOOSE n \in 1..(maxRetries + 1) :
           /\ GivesUp(n)
           /\ \A i \in 1..(n - 1) : ~GivesUp(i)

=============================================================================
