------------------------------ MODULE Console ------------------------------
(***************************************************************************)
(* Console sessions: the control plane upgrades a request to a websocket,  *)
(* opens a stream to the game server's agent and runs two pumps beside the *)
(* handler, one per direction.  The first pump to fail ends the session;   *)
(* the handler then closes its side, reports the error and returns, while  *)
(* the other pump finds out in its own time.  The streams end in the       *)
(* agent's server, which may be told to stop under them.                   *)
(***************************************************************************)
EXTENDS AgentServer

CONSTANTS
    MaxSent,   \* bound: messages a client sends in a session
    MaxFeed    \* bound: agent messages waiting in the stream of a session

ASSUME BoundAssumption == MaxSent \in Nat /\ MaxFeed \in Nat

VARIABLES
    main,      \* the handler: "idle", "dialing", "waiting", "reporting", "closed"
    up,        \* client -> agent: "none", "reading", "sending", "ended"
    down,      \* agent -> client: "none", "receiving", "writing", "ended"
    errs,      \* errors waiting in errCh
    client,    \* the websocket peer: "here" or "gone"
    sent,      \* what the client has sent
    nread,     \* how much of it the pump has read
    got,       \* what the agent has received
    feed,      \* what the agent has sent and the proxy has not read
    crashed    \* the control plane process has died

sessionVars == <<main, up, down, errs, client, sent, nread, got, feed, crashed>>
vars == <<sessionVars, agentVars>>

Sessions == Streams

\* The message types of the contract, one that a later version may add, and a
\* frame that is not JSON.
Types == {"rcon", "ping", "other", "malformed"}

Init ==
    /\ AgentInit
    /\ main = [s \in Sessions |-> "idle"]
    /\ up = [s \in Sessions |-> "none"]
    /\ down = [s \in Sessions |-> "none"]
    /\ errs = [s \in Sessions |-> 0]
    /\ client = [s \in Sessions |-> "here"]
    /\ sent = [s \in Sessions |-> <<>>]
    /\ nread = [s \in Sessions |-> 0]
    /\ got = [s \in Sessions |-> <<>>]
    /\ feed = [s \in Sessions |-> 0]
    /\ crashed = FALSE

\* The websocket is open on this side until the handler returns ...
WsOpen(s) == main[s] \in {"dialing", "waiting", "reporting"}

\* ... and the connection to the agent until proxyConsole returns.
GrpcOpen(s) == main[s] = "waiting"

StreamAlive(s) == GrpcOpen(s) /\ s \in open

-----------------------------------------------------------------------------
(* The client *)

ClientSends(s, m) ==
    /\ WsOpen(s) /\ client[s] = "here"
    /\ Len(sent[s]) < MaxSent
    /\ sent' = [sent EXCEPT ![s] = Append(@, m)]
    /\ UNCHANGED <<agentVars, main, up, down, errs, client, nread, got, feed, crashed>>

ClientLeaves(s) ==
    /\ client[s] = "here"
    /\ client' = [client EXCEPT ![s] = "gone"]
    /\ UNCHANGED <<agentVars, main, up, down, errs, sent, nread, got, feed, crashed>>

-----------------------------------------------------------------------------
(* The handler *)

Goto(s, next) == main' = [main EXCEPT ![s] = next]

\* The server is unknown or the upgrade fails.
Refuse(s) ==
    /\ main[s] = "idle"
    /\ Goto(s, "closed")
    /\ UNCHANGED <<agentVars, up, down, errs, client, sent, nread, got, feed, crashed>>

Upgrade(s) ==
    /\ main[s] = "idle"
    /\ client[s] = "here"
    /\ Goto(s, "dialing")
    /\ UNCHANGED <<agentVars, up, down, errs, client, sent, nread, got, feed, crashed>>

\* No Service, or no stream to the agent: the client is told.
DialFails(s) ==
    /\ main[s] = "dialing"
    /\ Goto(s, "reporting")
    /\ UNCHANGED <<agentVars, up, down, errs, client, sent, nread, got, feed, crashed>>

\* The agent's server takes the stream and both pumps start.
Dial(s) ==
    /\ main[s] = "dialing"
    /\ Accept(s)
    /\ Goto(s, "waiting")
    /\ up' = [up EXCEPT ![s] = "reading"]
    /\ down' = [down EXCEPT ![s] = "receiving"]
    /\ UNCHANGED <<errs, client, sent, nread, got, feed, crashed>>

\* The first error ends proxyConsole, which closes the agent connection.
ProxyReturns(s) ==
    /\ main[s] = "waiting"
    /\ errs[s] > 0
    /\ errs' = [errs EXCEPT ![s] = @ - 1]
    /\ Goto(s, "reporting")
    /\ UNCHANGED <<agentVars, up, down, client, sent, nread, got, feed, crashed>>

\* The error frame is written, or fails to be, and the websocket is closed.
Report(s) ==
    /\ main[s] = "reporting"
    /\ Goto(s, "closed")
    /\ UNCHANGED <<agentVars, up, down, errs, client, sent, nread, got, feed, crashed>>

-----------------------------------------------------------------------------
(* The pumps *)

\* Mistake: errCh has no buffer, so a send needs the handler to receive it.
CanPut_Unbuffered(s) == main[s] = "waiting" /\ errs[s] = 0

\* errCh has room for the error of either pump.
CanPut(s) == errs[s] < 2

\* Mistake: the pump reports its error and goes on reading.
UpEnds_GoesOn(s) ==
    /\ CanPut(s)
    /\ errs' = [errs EXCEPT ![s] = @ + 1]
    /\ up' = [up EXCEPT ![s] = "reading"]

\* A pump puts its error into errCh and ends.
UpEnds(s) ==
    /\ CanPut(s)
    /\ errs' = [errs EXCEPT ![s] = @ + 1]
    /\ up' = [up EXCEPT ![s] = "ended"]

DownEnds(s) ==
    /\ CanPut(s)
    /\ errs' = [errs EXCEPT ![s] = @ + 1]
    /\ down' = [down EXCEPT ![s] = "ended"]

\* Mistake: every message is forwarded.
Forwarded_All(m) == TRUE

\* Commands and pings are forwarded, everything else is ignored.
Forwarded(m) == m \in {"rcon", "ping"}

Unread(s) == nread[s] < Len(sent[s])
NextMessage(s) == sent[s][nread[s] + 1]

UpReads(s) ==
    /\ up[s] = "reading"
    /\ WsOpen(s)
    /\ Unread(s) /\ NextMessage(s) # "malformed"
    /\ nread' = [nread EXCEPT ![s] = @ + 1]
    /\ up' = [up EXCEPT ![s] = IF Forwarded(NextMessage(s)) THEN "sending" ELSE "reading"]
    /\ UNCHANGED <<agentVars, main, down, errs, client, sent, got, feed, crashed>>

\* The connection is gone, or what the client sent cannot be decoded.
UpReadFails(s) ==
    /\ up[s] = "reading"
    /\ \/ ~WsOpen(s) \/ client[s] = "gone"
       \/ Unread(s) /\ NextMessage(s) = "malformed"
    /\ UpEnds(s)
    /\ UNCHANGED <<agentVars, main, down, client, sent, nread, got, feed, crashed>>

UpSends(s) ==
    /\ up[s] = "sending"
    /\ StreamAlive(s)
    /\ got' = [got EXCEPT ![s] = Append(@, sent[s][nread[s]])]
    /\ up' = [up EXCEPT ![s] = "reading"]
    /\ UNCHANGED <<agentVars, main, down, errs, client, sent, nread, feed, crashed>>

UpSendFails(s) ==
    /\ up[s] = "sending"
    /\ ~StreamAlive(s)
    /\ UpEnds(s)
    /\ UNCHANGED <<agentVars, main, down, client, sent, nread, got, feed, crashed>>

\* The agent has gone but the proxy has not heard of it yet.
UpSendLost(s) ==
    /\ up[s] = "sending"
    /\ GrpcOpen(s) /\ s \notin open
    /\ up' = [up EXCEPT ![s] = "reading"]
    /\ UNCHANGED <<agentVars, main, down, errs, client, sent, nread, got, feed, crashed>>

\* What the stream holds may be read even after its end.
DownReceives(s) ==
    /\ down[s] = "receiving"
    /\ feed[s] > 0
    /\ feed' = [feed EXCEPT ![s] = @ - 1]
    /\ down' = [down EXCEPT ![s] = "writing"]
    /\ UNCHANGED <<agentVars, main, up, errs, client, sent, nread, got, crashed>>

DownReceiveFails(s) ==
    /\ down[s] = "receiving"
    /\ ~StreamAlive(s)
    /\ GrpcOpen(s) => feed[s] = 0
    /\ DownEnds(s)
    /\ UNCHANGED <<agentVars, main, up, client, sent, nread, got, feed, crashed>>

DownWrites(s) ==
    /\ down[s] = "writing"
    /\ WsOpen(s)
    /\ down' = [down EXCEPT ![s] = "receiving"]
    /\ UNCHANGED <<agentVars, main, up, errs, client, sent, nread, got, feed, crashed>>

DownWriteFails(s) ==
    /\ down[s] = "writing"
    /\ ~WsOpen(s) \/ client[s] = "gone"
    /\ DownEnds(s)
    /\ UNCHANGED <<agentVars, main, up, client, sent, nread, got, feed, crashed>>

\* Two writers on one websocket: the library panics when it notices.  In the
\* pump's goroutine nothing recovers the panic and the process dies.
Overlap(s) == main[s] = "reporting" /\ down[s] = "writing"

WritersCollide(s) ==
    /\ Overlap(s)
    /\ crashed' = TRUE
    /\ main' = [t \in Sessions |-> "closed"]
    /\ up' = [t \in Sessions |-> "ended"]
    /\ down' = [t \in Sessions |-> "ended"]
    /\ UNCHANGED <<agentVars, errs, client, sent, nread, got, feed>>

-----------------------------------------------------------------------------
(* The agent *)

AgentSends(s) ==
    /\ StreamAlive(s)
    /\ feed[s] < MaxFeed
    /\ feed' = [feed EXCEPT ![s] = @ + 1]
    /\ UNCHANGED <<agentVars, main, up, down, errs, client, sent, nread, got, crashed>>

\* The agent's Console handler returns on its own or on the cancelled stream.
AgentReturns(s) == s \in open /\ Finish(s) /\ UNCHANGED sessionVars

UnaryCall ==
    \E c \in Calls : Accept(c) \/ Finish(c) \/ CallPanics(c)

AgentStops == BeginShutdown \/ Drained \/ DeadlinePasses

AgentCrashes == \E s \in Streams : StreamPanics(s)

AgentStep == (UnaryCall \/ AgentStops \/ AgentCrashes) /\ UNCHANGED sessionVars

-----------------------------------------------------------------------------

UpPump(s) == \/ UpReads(s) \/ UpReadFails(s)
             \/ UpSends(s) \/ UpSendFails(s) \/ UpSendLost(s)

DownPump(s) == \/ DownReceives(s) \/ DownReceiveFails(s)
               \/ DownWrites(s) \/ DownWriteFails(s)

Handler(s) == DialFails(s) \/ Dial(s) \/ ProxyReturns(s) \/ Report(s)

Next ==
    \/ AgentStep
    \/ \E s \in Sessions :
        \/ \E m \in Types : ClientSends(s, m)
        \/ ClientLeaves(s) \/ Refuse(s) \/ Upgrade(s)
        \/ Handler(s) \/ UpPump(s) \/ DownPump(s) \/ WritersCollide(s)
        \/ AgentSends(s) \/ AgentReturns(s)

Spec == Init /\ [][Next]_vars

\* Goroutines run; a write completes because the peer reads or the connection
\* breaks; an agent's handler ends once its stream is cancelled; a deadline
\* passes, if Shutdown was given one.  Nobody has to leave or to send.
Fairness ==
    /\ \A s \in Sessions :
        /\ WF_vars(Handler(s)) /\ WF_vars(UpPump(s)) /\ WF_vars(DownPump(s))
        /\ WF_vars(~GrpcOpen(s) /\ AgentReturns(s))
    /\ WF_vars((Drained \/ DeadlinePasses) /\ UNCHANGED sessionVars)

FairSpec == Spec /\ Fairness

-----------------------------------------------------------------------------
(* Properties *)

\* Every variable has its type.
TypeOK ==
    /\ AgentTypeOK
    /\ main \in [Sessions -> {"idle", "dialing", "waiting", "reporting", "closed"}]
    /\ up \in [Sessions -> {"none", "reading", "sending", "ended"}]
    /\ down \in [Sessions -> {"none", "receiving", "writing", "ended"}]
    /\ errs \in [Sessions -> 0..2]
    /\ client \in [Sessions -> {"here", "gone"}]
    /\ {sent, got} \subseteq [Sessions -> Seq(Types)]
    /\ nread \in [Sessions -> 0..MaxSent]
    /\ feed \in [Sessions -> 0..MaxFeed]
    /\ crashed \in BOOLEAN

\* What the agent sent before its stream ended reaches the websocket: the
\* session is given up with output still to be written, or being written beside
\* the error frame, only because the client has left or because the other pump
\* had reported (the client left, sent a frame that cannot be decoded, or sent a
\* command to a stream that had ended).
OutputReachesClient ==
    \A s \in Sessions :
        main[s] \in {"reporting", "closed"} /\ (feed[s] > 0 \/ down[s] = "writing")
            => up[s] = "ended" \/ client[s] = "gone"

\* What was received are the commands and pings among the first n messages, one
\* by one and in their order: "at" tells which message each of them was.
Relayed(messages, received, n) ==
    \E at \in [1..Len(received) -> 1..n] :
        /\ \A j, k \in 1..Len(received) : j < k => at[j] < at[k]
        /\ \A k \in 1..Len(received) : received[k] = messages[at[k]]
        /\ \A i \in 1..n : messages[i] # "other" <=> \E k \in 1..Len(received) : at[k] = i

\* The agent receives the client's commands and pings in the order in which
\* they were sent, none twice and none skipped: what is lost when the stream
\* breaks is the end.
CommandsInOrder ==
    \A s \in Sessions :
        \E n \in 0..Len(sent[s]) : Relayed(sent[s], got[s], n)

\* A session whose client has left or sent what cannot be decoded, or whose
\* stream has ended, winds up completely: the handler returns, both pumps end
\* although only one error is ever received, and the agent is rid of the stream.
WoundUp(s) ==
    /\ main[s] = "closed"
    /\ up[s] \in {"none", "ended"}
    /\ down[s] \in {"none", "ended"}
    /\ s \notin open
SessionWindsUp ==
    \A s \in Sessions :
        (main[s] = "waiting" /\ (client[s] = "gone" \/ s \notin open \/ up[s] = "ended")) ~> WoundUp(s)

\* An agent that is told to stop with a deadline stops, although a console may
\* stay open for ever, and every console that was open on it winds up.
ShutdownEndsConsoles ==
    (stopping = "draining" /\ bounded) ~>
        /\ stopping \in {"returned", "crashed"}
        /\ \A s \in Sessions : main[s] = "idle" \/ WoundUp(s)
============================================================================
