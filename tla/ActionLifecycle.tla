-------------------------- MODULE ActionLifecycle --------------------------
(***************************************************************************)
(* What the ActionExecution controller promises to the owner of an         *)
(* execution, without caches, versions, work queues or cleanup passes.     *)
(*                                                                         *)
(* An execution moves forward only.  The game server's agent is asked to   *)
(* run it at most once, and once more for every status write that was      *)
(* dropped; it is Rejected, or still Pending, only if every request made   *)
(* to the agent is excused in this way; it is Succeeded only if the agent  *)
(* answered a run of it without reporting a failure (which is not to say   *)
(* that it reported success); and what ended can only be removed.          *)
(***************************************************************************)
EXTENDS Naturals

CONSTANT Execs

VARIABLES
    state,    \* what a client reads: "none", then a state, at last "gone"
    asked,    \* requests the agent has received for an execution
    cleared,  \* the agent answered a run of it without reporting a failure
    dropped   \* status writes that were dropped

vars == <<state, asked, cleared, dropped>>

Init ==
    /\ state = [e \in Execs |-> "none"]
    /\ asked = [e \in Execs |-> 0]
    /\ cleared = [e \in Execs |-> FALSE]
    /\ dropped = [e \in Execs |-> 0]

\* Every request the agent has received is excused by a dropped write.
Excused(e) == asked[e] =< dropped[e]

Move(e, s) ==
    /\ state' = [state EXCEPT ![e] = s]
    /\ UNCHANGED <<asked, cleared, dropped>>

Submit(e) == state[e] = "none" /\ Move(e, "new")

Accept(e) == state[e] = "new" /\ Move(e, "Pending")

Reject(e) == state[e] = "Pending" /\ Excused(e) /\ Move(e, "Rejected")

Start(e) == state[e] = "Pending" /\ Excused(e) /\ Move(e, "Running")

\* Only a dropped write lets an execution end without having been Running.
Underway(e) == state[e] = "Running" \/ (state[e] = "Pending" /\ Excused(e))

Succeed(e) == Underway(e) /\ cleared[e] /\ Move(e, "Succeeded")

Fail(e) == Underway(e) /\ Move(e, "Failed")

Remove(e) == state[e] \notin {"none", "gone"} /\ Move(e, "gone")

Ask(e) ==
    /\ state[e] # "none"
    /\ Excused(e)
    /\ asked' = [asked EXCEPT ![e] = @ + 1]
    /\ UNCHANGED <<state, cleared, dropped>>

Clear(e) ==
    /\ asked[e] > 0
    /\ cleared' = [cleared EXCEPT ![e] = TRUE]
    /\ UNCHANGED <<state, asked, dropped>>

DropWrite(e) ==
    /\ state[e] # "none"
    /\ dropped' = [dropped EXCEPT ![e] = @ + 1]
    /\ UNCHANGED <<state, asked, cleared>>

Next == \E e \in Execs :
    \/ Submit(e) \/ Accept(e) \/ Reject(e) \/ Start(e)
    \/ Succeed(e) \/ Fail(e) \/ Remove(e)
    \/ Ask(e) \/ Clear(e) \/ DropWrite(e)

Spec == Init /\ [][Next]_vars
============================================================================
