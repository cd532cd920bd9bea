-------------------------- MODULE SubtitleService --------------------------
(***************************************************************************)
(* What a client of the manager's HTTP API may rely on, whatever services  *)
(* stand behind it: a request is answered, the work produces a subtitle or *)
(* does not, and the outcomes that are reported for the job say so.        *)
(***************************************************************************)

CONSTANT Jobs

VARIABLES
    request,   \* where the client's request is
    subtitle,  \* a subtitle in the language the client wants exists
    reported   \* the outcomes the history of the job shows

serviceVars == <<request, subtitle, reported>>

Results == {"ready", "missing", "failed"}

Init ==
    /\ request = [j \in Jobs |-> "new"]
    /\ subtitle = [j \in Jobs |-> FALSE]
    /\ reported = [j \in Jobs |-> {}]

\* A request is taken up, or turned away at once.
Request(j) ==
    /\ request[j] = "new"
    /\ \E stage \in {"open", "rejected"} :
           request' = [request EXCEPT ![j] = stage]
    /\ UNCHANGED <<subtitle, reported>>

Answer(j) ==
    /\ request[j] = "open"
    /\ \E answer \in {"accepted", "rejected"} :
           request' = [request EXCEPT ![j] = answer]
    /\ UNCHANGED <<subtitle, reported>>

\* Work may begin before the answer is sent.
Produce(j) ==
    /\ request[j] # "new"
    /\ subtitle' = [subtitle EXCEPT ![j] = TRUE]
    /\ UNCHANGED <<request, reported>>

Report(j, result) ==
    /\ request[j] # "new"
    /\ result = "ready" => subtitle[j]
    /\ reported' = [reported EXCEPT ![j] = @ \cup {result}]
    /\ UNCHANGED <<request, subtitle>>

Next ==
    \E j \in Jobs :
        \/ Request(j) \/ Answer(j) \/ Produce(j)
        \/ \E result \in Results : Report(j, result)

Spec == Init /\ [][Next]_serviceVars

\* A request that was accepted is reported on.
AcceptedIsReported ==
    \A j \in Jobs : (request[j] = "accepted") ~> (reported[j] # {})

=============================================================================
