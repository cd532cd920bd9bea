-------------------------- MODULE JellyfinWebSocket --------------------------
(***************************************************************************)
(* The scanner's WebSocket to Jellyfin: connect, the message loop, and the *)
(* reconnect that is scheduled when the loop finds the connection closed.  *)
(* The client is configured.  What becomes of an added item is the matter  *)
(* of Ingest; here its message is received and handled, or missed.         *)
(***************************************************************************)
EXTENDS RetryBackoff

CONSTANTS
    Items,         \* items that are added to the library
    InitialDelay,  \* jellyfin_websocket_reconnect_delay
    MaxDelay,      \* jellyfin_websocket_max_reconnect_delay
    MaxOutages     \* how often Jellyfin goes away or comes back

VARIABLES
    reachable,  \* Jellyfin answers
    outages,    \* how often that has changed
    socket,     \* self.websocket: "none", "open" or "closed"
    running,    \* self.running
    attempts,   \* self.reconnect_attempts
    delay,      \* what _reconnect sleeps
    pc,         \* what MediaScanner.connect ("scanner"), _message_loop ("loop")
                \* and _reconnect ("reconnect") await
    inbox,      \* items whose message has been received
    handled     \* items that were processed

client == <<socket, running, attempts, delay, pc>>
library == <<inbox, handled>>
vars == <<reachable, outages, client, library>>

Goto(p, label) == pc' = [pc EXCEPT ![p] = label]

-----------------------------------------------------------------------------
(* connect *)

\* A client that runs already is not connected again.
Connect(p) ==
    IF running
    THEN Goto(p, "done")
    ELSE Goto(p, "dial")

StartScanner ==
    /\ pc["scanner"] = "start"
    /\ Connect("scanner")
    /\ UNCHANGED <<reachable, outages, socket, running, attempts, delay, library>>

\* _schedule_reconnect does nothing for a client that does not run: the first
\* attempt to connect is the last one.
Schedule ==
    /\ attempts' = attempts + 1
    /\ delay' = ReconnectDelay(InitialDelay, attempts, MaxDelay)

Dial(p) ==
    /\ pc[p] = "dial"
    /\ IF reachable
       THEN /\ socket' = "open" /\ running' = TRUE /\ attempts' = 0
            /\ pc' = [pc EXCEPT ![p] = "done", !["loop"] = "receive"]
            /\ UNCHANGED delay
       ELSE IF running
       THEN /\ Schedule
            /\ pc' = [pc EXCEPT ![p] = "done", !["reconnect"] = "sleep"]
            /\ UNCHANGED <<socket, running>>
       ELSE Goto(p, "done") /\ UNCHANGED <<socket, running, attempts, delay>>
    /\ UNCHANGED <<reachable, outages, library>>

-----------------------------------------------------------------------------
(* _message_loop *)

Receive(i) ==
    /\ pc["loop"] = "receive"
    /\ i \in inbox
    /\ inbox' = inbox \ {i}
    /\ handled' = handled \cup {i}
    /\ UNCHANGED <<reachable, outages, client>>

\* ConnectionClosed, when all that was received is handled, and finally.
FindClosed ==
    /\ pc["loop"] = "receive"
    /\ inbox = {} /\ socket = "closed"
    /\ IF running
       THEN /\ Schedule
            /\ pc' = [pc EXCEPT !["loop"] = "ended", !["reconnect"] = "sleep"]
       ELSE Goto("loop", "ended") /\ UNCHANGED <<attempts, delay>>
    /\ UNCHANGED <<reachable, outages, socket, running, library>>

-----------------------------------------------------------------------------
(* _reconnect *)

WakeUp ==
    /\ pc["reconnect"] = "sleep"
    /\ IF ~running
       THEN Goto("reconnect", "done") /\ UNCHANGED socket
       ELSE socket' = "none" /\ Connect("reconnect")
    /\ UNCHANGED <<reachable, outages, running, attempts, delay, library>>

-----------------------------------------------------------------------------
(* Jellyfin *)

\* The connection breaks when Jellyfin goes away: a closing handshake, or a
\* ping without an answer.
GoAway ==
    /\ reachable /\ outages < MaxOutages
    /\ reachable' = FALSE /\ outages' = outages + 1
    /\ socket' = IF socket = "open" THEN "closed" ELSE socket
    /\ UNCHANGED <<running, attempts, delay, pc, library>>

ComeBack ==
    /\ ~reachable
    /\ reachable' = TRUE
    /\ UNCHANGED <<outages, client, library>>

\* LibraryChanged is sent to who is connected.
AddItem(i) ==
    /\ reachable /\ socket = "open"
    /\ i \notin inbox \cup handled
    /\ inbox' = inbox \cup {i}
    /\ UNCHANGED <<reachable, outages, client, handled>>

-----------------------------------------------------------------------------

Init ==
    /\ reachable \in BOOLEAN
    /\ outages = 0
    /\ socket = "none" /\ running = FALSE
    /\ attempts = 0 /\ delay = 0
    /\ pc = [scanner |-> "start", loop |-> "none", reconnect |-> "none"]
    /\ inbox = {} /\ handled = {}

Step ==
    \/ StartScanner \/ WakeUp \/ FindClosed
    \/ \E p \in {"scanner", "reconnect"} : Dial(p)
    \/ \E i \in Items : Receive(i)

Next == Step \/ GoAway \/ ComeBack \/ \E i \in Items : AddItem(i)

\* Each coroutine goes on, and an outage ends.
Fairness == WF_vars(Step) /\ WF_vars(ComeBack)

Spec == Init /\ [][Next]_vars
FairSpec == Spec /\ Fairness

-----------------------------------------------------------------------------
(* Properties *)

Lost == running /\ socket # "open"

\* What the scanner's README says: a connection that was lost is there again
\* some time after Jellyfin is (_schedule_reconnect, _reconnect, connect).
ReconnectsAutomatically == <>[]reachable => (Lost ~> (socket = "open"))

=============================================================================
