---------------------------- MODULE MCWorkerLoop ----------------------------
(* Two workers that share a queue, and bounded checks of RetryBackoff. *)
EXTENDS WorkerLoop

CONSTANTS w1, w2, m1, m2

SharedQueue == [w \in Workers |-> Messages]

-----------------------------------------------------------------------------

Links == [class : Classes, sign : Signs]
Chains == UNION {[1..n -> Links] : n \in 1..2}

\* is_transient_error as it is written: it asks the cause by a call of itself.
RECURSIVE AsksTransient(_)
AsksTransient(chain) ==
    /\ chain # <<>>
    /\ \/ Verdict(Head(chain)) = "retry"
       \/ Verdict(Head(chain)) = "ask the cause" /\ AsksTransient(Tail(chain))

ASSUME TransientIsRecursion ==
    \A chain \in Chains : IsTransient(chain) = AsksTransient(chain)

\* A login that is answered with "503" is not tried again, though the same
\* answer to a search is: the message is only searched for bad credentials.
ASSUME LoginIsNotRetried ==
    LET login == [class |-> "login", sign |-> "transient"]
        search == [class |-> "subtitles", sign |-> "transient"]
    IN ~IsTransient(<<login, login>>) /\ IsTransient(<<search, login>>)

\* Three endings of a call, four calls: the decorator never calls again after
\* an answer or a permanent error, and never more than maxRetries times again.
ASSUME RetriesAreBounded ==
    LET Ending(ok, class) == [ok |-> ok, error |-> <<[class |-> class, sign |-> "none"]>>]
        Endings == {Ending(TRUE, "other"), Ending(FALSE, "other"), Ending(FALSE, "limit")}
    IN \A outcomes \in [1..4 -> Endings], maxRetries \in 0..3 :
           LET calls == Calls(outcomes, maxRetries)
           IN /\ calls <= maxRetries + 1
              /\ \A i \in 1..(calls - 1) : outcomes[i] = Ending(FALSE, "limit")
              /\ calls = maxRetries + 1 \/ outcomes[calls] # Ending(FALSE, "limit")

\* Delays never shrink from one attempt to the next, and the jitter adds no
\* more than half of the maximum.
ASSUME DelaysGrow ==
    \A initial \in 1..3, attempt \in 0..5, base \in 1..3, max \in 3..20 :
        LET now == RetryDelays(initial, attempt, base, max)
            next == RetryDelays(initial, attempt + 1, base, max)
        IN /\ \A d \in now : initial <= d /\ 2 * d <= 3 * max
           /\ \A d \in next : \E earlier \in now : earlier <= d
           /\ ReconnectDelay(initial, attempt, max) \in
                  RetryDelays(initial, attempt, 2, max)

=============================================================================
