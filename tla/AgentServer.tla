---------------------------- MODULE AgentServer ----------------------------
(***************************************************************************)
(* The gRPC server of the agent SDK: the calls in progress and the way it  *)
(* stops.  The operator's unary calls and the control plane's console      *)
(* streams meet here.  What an agent does inside a call is external.       *)
(***************************************************************************)
EXTENDS Naturals, Sequences

CONSTANTS
    Streams,   \* console streams
    Calls      \* unary calls of the operator

ASSUME RPCAssumption == Streams \cap Calls = {}

VARIABLES
    serving,   \* the listener accepts calls
    open,      \* the calls whose handlers have not returned
    stopping,  \* Shutdown: "no", "draining", "returned"; or "crashed"
    bounded    \* the context given to Shutdown will end

agentVars == <<serving, open, stopping, bounded>>

AgentInit ==
    /\ serving = TRUE
    /\ open = {}
    /\ stopping = "no"
    /\ bounded = FALSE

AgentTypeOK ==
    /\ {serving, bounded} \subseteq BOOLEAN
    /\ open \subseteq Streams \cup Calls
    /\ stopping \in {"no", "draining", "returned", "crashed"}

Accept(r) ==
    /\ serving
    /\ r \notin open
    /\ open' = open \cup {r}
    /\ UNCHANGED <<serving, stopping, bounded>>

Finish(r) ==
    /\ r \in open
    /\ open' = open \ {r}
    /\ UNCHANGED <<serving, stopping, bounded>>

\* The process dies with everything it was doing.
AgentDies ==
    /\ serving' = FALSE
    /\ open' = {}
    /\ stopping' = "crashed"
    /\ UNCHANGED bounded

\* The interceptor turns a panic of a unary handler into an error answer.
CallPanics(r) == Finish(r)

\* Streams have no such interceptor.
StreamPanics(r) == r \in open /\ AgentDies

\* Shutdown starts GracefulStop: the listener closes, the calls go on.  The SDK
\* adds no deadline to the caller's context: Options.ShutdownGrace is not used.
BeginShutdown ==
    /\ stopping = "no"
    /\ stopping' = "draining"
    /\ serving' = FALSE
    /\ bounded' \in BOOLEAN
    /\ UNCHANGED open

\* GracefulStop returns once every call has ended.
Drained ==
    /\ stopping = "draining"
    /\ open = {}
    /\ stopping' = "returned"
    /\ UNCHANGED <<serving, open, bounded>>

\* Mistake: the deadline ends the wait for the calls but not the calls.
DeadlinePasses_NoStop ==
    /\ stopping = "draining" /\ bounded
    /\ stopping' = "returned"
    /\ UNCHANGED <<serving, open, bounded>>

\* The caller's context ends first: Stop cuts what is still open.
DeadlinePasses ==
    /\ stopping = "draining" /\ bounded
    /\ stopping' = "returned"
    /\ open' = {}
    /\ UNCHANGED <<serving, bounded>>
============================================================================
