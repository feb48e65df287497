---------------------------- MODULE ConsoleProofs ----------------------------
(***************************************************************************)
(* Theorems about Console, for any number of sessions, of unary calls and  *)
(* of messages.                                                            *)
(***************************************************************************)
EXTENDS Console, SequenceTheorems, TLAPS

-----------------------------------------------------------------------------
(* The inductive invariant *)

\* How many of the two pumps have put their error into errCh.
Ended(s) == (IF up[s] = "ended" THEN 1 ELSE 0) + (IF down[s] = "ended" THEN 1 ELSE 0)

\* The handler starts both pumps and waits for the first to end; one that
\* reports without having started them has none.
Pumps(s) ==
    /\ errs[s] =< Ended(s)
    /\ main[s] \in {"idle", "dialing"} => up[s] = "none" /\ down[s] = "none" /\ errs[s] = 0
    /\ main[s] = "waiting" => up[s] # "none" /\ down[s] # "none" /\ errs[s] = Ended(s)
    /\ main[s] = "reporting" => \/ up[s] = "none" /\ down[s] = "none"
                                \/ up[s] = "ended" \/ down[s] = "ended"

\* How far the agent has got: up to what the pump has read, as long as the
\* stream lives; once it is dead, it stays dead.
Progress(s) ==
    /\ nread[s] =< Len(sent[s]) /\ Len(sent[s]) =< MaxSent
    /\ \E n \in 0..nread[s] : Relayed(sent[s], got[s], n)
    /\ main[s] \in {"idle", "dialing"} => nread[s] = 0 /\ got[s] = <<>>
    /\ StreamAlive(s) /\ up[s] = "reading" => Relayed(sent[s], got[s], nread[s])
    /\ StreamAlive(s) /\ up[s] = "sending" =>
         /\ nread[s] > 0
         /\ sent[s][nread[s]] # "other"
         /\ Relayed(sent[s], got[s], nread[s] - 1)

\* What became of the agent's output: the pump that writes it ends by itself
\* only when it has written everything, or when the client has left.
Output(s) ==
    /\ main[s] \in {"idle", "dialing"} => feed[s] = 0
    /\ main[s] \in {"reporting", "closed"} =>
         \/ up[s] = "none" /\ down[s] = "none" /\ feed[s] = 0
         \/ up[s] = "ended" \/ down[s] = "ended"
    /\ down[s] = "ended" /\ up[s] # "ended" =>
         client[s] = "gone" \/ (feed[s] = 0 /\ ~StreamAlive(s))

IInv == TypeOK /\ \A s \in Sessions : Pumps(s) /\ Progress(s) /\ Output(s)

-----------------------------------------------------------------------------
(* Relayed *)

LEMMA RelayedNothing ==
    ASSUME NEW messages
    PROVE  Relayed(messages, <<>>, 0)
<1> DEFINE at == [k \in 1..0 |-> k]
<1>1. Len(<<>>) = 0 /\ 1..0 = {}
  OBVIOUS
<1>2. at \in [1..0 -> 1..0]
  OBVIOUS
<1>3. \A k \in 1..0 : FALSE
  OBVIOUS
<1> QED  BY <1>1, <1>2, <1>3 DEF Relayed

\* A message more does not matter to what was relayed.
LEMMA RelayedMore ==
    ASSUME NEW messages \in Seq(Types), NEW received \in Seq(Types), NEW m \in Types,
           NEW n \in 0..Len(messages), Relayed(messages, received, n)
    PROVE  Relayed(Append(messages, m), received, n)
<1> DEFINE more == Append(messages, m)
           N == Len(received)
<1>1. \A i \in 1..n : more[i] = messages[i]
  <2>1. Len(messages) \in Nat /\ \A i \in 1..Len(messages) : more[i] = messages[i]
    OBVIOUS
  <2> QED  BY <2>1
<1>0. N \in Nat
  OBVIOUS
<1> HIDE DEF more, N
<1>2. PICK at \in [1..N -> 1..n] :
        /\ \A j, k \in 1..N : j < k => at[j] < at[k]
        /\ \A k \in 1..N : received[k] = messages[at[k]]
        /\ \A i \in 1..n : messages[i] # "other" <=> \E k \in 1..N : at[k] = i
  BY DEF Relayed, N
<1>3. /\ \A k \in 1..N : received[k] = more[at[k]]
      /\ \A i \in 1..n : more[i] # "other" <=> \E k \in 1..N : at[k] = i
  BY <1>1, <1>2
<1>4. Relayed(more, received, n)
  BY <1>2, <1>3 DEF Relayed, N
<1> QED  BY <1>4 DEF more

\* A message that is not forwarded is passed over.
LEMMA RelayedSkip ==
    ASSUME NEW messages, NEW received \in Seq(Types), NEW n \in Nat,
           Relayed(messages, received, n), messages[n + 1] = "other"
    PROVE  Relayed(messages, received, n + 1)
<1> DEFINE N == Len(received)
<1>0. N \in Nat
  OBVIOUS
<1> HIDE DEF N
<1>1. PICK at \in [1..N -> 1..n] :
        /\ \A j, k \in 1..N : j < k => at[j] < at[k]
        /\ \A k \in 1..N : received[k] = messages[at[k]]
        /\ \A i \in 1..n : messages[i] # "other" <=> \E k \in 1..N : at[k] = i
  BY DEF Relayed, N
<1>2. at \in [1..N -> 1..(n + 1)]
  BY <1>1
<1>3. ASSUME NEW i \in 1..(n + 1)
      PROVE  messages[i] # "other" <=> \E k \in 1..N : at[k] = i
  <2>1. CASE i = n + 1
    <3>1. \A k \in 1..N : at[k] # n + 1
      BY <1>1
    <3> QED  BY <2>1, <3>1
  <2>2. CASE i # n + 1
    <3>1. i \in 1..n
      BY <2>2
    <3> QED  BY <1>1, <3>1
  <2> QED  BY <2>1, <2>2
<1> QED  BY <1>1, <1>2, <1>3 DEF Relayed, N

\* The next message, if it is to be forwarded, is the next one received.
LEMMA RelayedNext ==
    ASSUME NEW messages, NEW received \in Seq(Types), NEW n \in Nat,
           Relayed(messages, received, n), messages[n + 1] \in Types, messages[n + 1] # "other"
    PROVE  Relayed(messages, Append(received, messages[n + 1]), n + 1)
<1> DEFINE N == Len(received)
           m == messages[n + 1]
           more == Append(received, m)
<1>0. /\ N \in Nat /\ Len(more) = N + 1
      /\ \A k \in 1..N : more[k] = received[k]
      /\ more[N + 1] = m
  OBVIOUS
<1> HIDE DEF N, more
<1>1. PICK at \in [1..N -> 1..n] :
        /\ \A j, k \in 1..N : j < k => at[j] < at[k]
        /\ \A k \in 1..N : received[k] = messages[at[k]]
        /\ \A i \in 1..n : messages[i] # "other" <=> \E k \in 1..N : at[k] = i
  BY DEF Relayed, N
<1> DEFINE to == [k \in 1..(N + 1) |-> IF k = N + 1 THEN n + 1 ELSE at[k]]
<1>2. /\ to \in [1..(N + 1) -> 1..(n + 1)]
      /\ to[N + 1] = n + 1
      /\ \A k \in 1..N : to[k] = at[k] /\ at[k] \in 1..n
  BY <1>0, <1>1
<1> HIDE DEF to
<1>3. ASSUME NEW j \in 1..(N + 1), NEW k \in 1..(N + 1), j < k
      PROVE  to[j] < to[k]
  <2>1. j \in 1..N
    BY <1>0, <1>3
  <2>2. k \in 1..N \/ k = N + 1
    BY <1>0
  <2> QED  BY <1>1, <1>2, <1>3, <2>1, <2>2
<1>4. ASSUME NEW k \in 1..(N + 1)
      PROVE  more[k] = messages[to[k]]
  <2>1. k \in 1..N \/ k = N + 1
    BY <1>0
  <2> QED  BY <1>0, <1>1, <1>2, <2>1
<1>5. ASSUME NEW i \in 1..(n + 1)
      PROVE  messages[i] # "other" <=> \E k \in 1..(N + 1) : to[k] = i
  <2>1. CASE i = n + 1
    <3>1. N + 1 \in 1..(N + 1)
      BY <1>0
    <3> QED  BY <1>2, <2>1, <3>1
  <2>2. CASE i # n + 1
    <3>1. i \in 1..n
      BY <2>2
    <3>2. (\E k \in 1..N : at[k] = i) <=> \E k \in 1..(N + 1) : to[k] = i
      <4>1. 1..N \subseteq 1..(N + 1) /\ \A k \in 1..(N + 1) : k \in 1..N \/ k = N + 1
        BY <1>0
      <4> QED  BY <1>2, <2>2, <4>1
    <3> QED  BY <1>1, <3>1, <3>2
  <2> QED  BY <2>1, <2>2
<1>6. Relayed(messages, more, n + 1)
  <2>1. /\ to \in [1..Len(more) -> 1..(n + 1)]
        /\ \A j, k \in 1..Len(more) : j < k => to[j] < to[k]
        /\ \A k \in 1..Len(more) : more[k] = messages[to[k]]
        /\ \A i \in 1..(n + 1) : messages[i] # "other" <=> \E k \in 1..Len(more) : to[k] = i
    <3>1. Len(more) = N + 1
      BY <1>0
    <3>2. \A i \in 1..(n + 1) : messages[i] # "other" <=> \E k \in 1..(N + 1) : to[k] = i
      BY <1>5
    <3> QED  BY <1>2, <1>3, <1>4, <3>1, <3>2
  <2> QED  BY <2>1 DEF Relayed
<1> QED  BY <1>6 DEF more

-----------------------------------------------------------------------------
(* Types *)

SessionTypeOK ==
    /\ main \in [Sessions -> {"idle", "dialing", "waiting", "reporting", "closed"}]
    /\ up \in [Sessions -> {"none", "reading", "sending", "ended"}]
    /\ down \in [Sessions -> {"none", "receiving", "writing", "ended"}]
    /\ errs \in [Sessions -> 0..2]
    /\ client \in [Sessions -> {"here", "gone"}]
    /\ sent \in [Sessions -> Seq(Types)]
    /\ got \in [Sessions -> Seq(Types)]
    /\ nread \in [Sessions -> 0..MaxSent]
    /\ feed \in [Sessions -> 0..MaxFeed]

LEMMA TypeParts ==
    TypeOK <=> SessionTypeOK /\ AgentTypeOK /\ crashed \in BOOLEAN
BY DEF TypeOK, SessionTypeOK

LEMMA AgentTypeStep ==
    ASSUME AgentTypeOK, Next
    PROVE  AgentTypeOK'
<1>0. /\ serving \in BOOLEAN /\ bounded \in BOOLEAN
      /\ open \subseteq Streams \cup Calls
      /\ stopping \in {"no", "draining", "returned", "crashed"}
  BY DEF AgentTypeOK
<1> USE DEF AgentTypeOK
<1>1. CASE AgentStep
  <2>1. serving' \in BOOLEAN /\ bounded' \in BOOLEAN
    BY <1>0, <1>1, Zenon DEF AgentStep, UnaryCall, AgentStops, AgentCrashes, Accept, Finish, CallPanics,
         StreamPanics, AgentDies, BeginShutdown, Drained, DeadlinePasses
  <2>2. open' \subseteq Streams \cup Calls /\ stopping' \in {"no", "draining", "returned", "crashed"}
    BY <1>1 DEF AgentStep, UnaryCall, AgentStops, AgentCrashes, Accept, Finish, CallPanics,
         StreamPanics, AgentDies, BeginShutdown, Drained, DeadlinePasses
  <2> QED  BY <2>1, <2>2
<1>2. ASSUME NEW s \in Sessions, Dial(s) \/ AgentReturns(s)
      PROVE  AgentTypeOK'
  BY <1>2 DEF Dial, AgentReturns, Accept, Finish, Sessions
<1>3. CASE UNCHANGED agentVars
  BY <1>3 DEF agentVars
<1> QED  BY <1>1, <1>2, <1>3 DEF Next, ClientSends, ClientLeaves, Refuse, Upgrade, Handler, DialFails,
     ProxyReturns, Report, UpPump, UpReads, UpReadFails, UpSends, UpSendFails, UpSendLost,
     DownPump, DownReceives, DownReceiveFails, DownWrites, DownWriteFails, WritersCollide,
     AgentSends

LEMMA CrashedStep ==
    ASSUME crashed \in BOOLEAN, Next
    PROVE  crashed' \in BOOLEAN
BY Zenon DEF Next, AgentStep, sessionVars, AgentReturns, ClientSends, ClientLeaves, Refuse, Upgrade,
     Handler, DialFails, Dial, ProxyReturns, Report, UpPump, UpReads, UpReadFails, UpSends,
     UpSendFails, UpSendLost, DownPump, DownReceives, DownReceiveFails, DownWrites, DownWriteFails,
     WritersCollide, AgentSends

LEMMA SessionTypeStep ==
    ASSUME SessionTypeOK, \A s \in Sessions : Progress(s), Next
    PROVE  SessionTypeOK'
<1> USE BoundAssumption DEF SessionTypeOK
<1>1. CASE UNCHANGED sessionVars
  BY <1>1 DEF sessionVars
<1>2. ASSUME NEW s \in Sessions, NEW m \in Types, ClientSends(s, m)
      PROVE  SessionTypeOK'
  BY <1>2 DEF ClientSends
<1>3. ASSUME NEW s \in Sessions, ClientLeaves(s)
      PROVE  SessionTypeOK'
  BY <1>3 DEF ClientLeaves
<1>4. ASSUME NEW s \in Sessions, Refuse(s) \/ Upgrade(s) \/ DialFails(s) \/ Report(s)
      PROVE  SessionTypeOK'
  BY <1>4 DEF Refuse, Upgrade, DialFails, Report, Goto
<1>5. ASSUME NEW s \in Sessions, Dial(s)
      PROVE  SessionTypeOK'
  BY <1>5 DEF Dial, Goto
<1>6. ASSUME NEW s \in Sessions, ProxyReturns(s)
      PROVE  SessionTypeOK'
  BY <1>6 DEF ProxyReturns, Goto
<1>7. ASSUME NEW s \in Sessions, UpReads(s)
      PROVE  SessionTypeOK'
  <2>1. nread[s] + 1 \in 0..MaxSent
    <3>1. nread[s] < Len(sent[s]) /\ Len(sent[s]) =< MaxSent /\ Len(sent[s]) \in Nat
      BY <1>7 DEF UpReads, Unread, Progress
    <3> QED  BY <3>1
  <2> QED  BY <1>7, <2>1 DEF UpReads
<1>8. ASSUME NEW s \in Sessions, UpReadFails(s) \/ UpSendFails(s)
      PROVE  SessionTypeOK'
  <2>1. errs[s] + 1 \in 0..2
    BY <1>8 DEF UpReadFails, UpSendFails, UpEnds, CanPut
  <2> QED  BY <1>8, <2>1 DEF UpReadFails, UpSendFails, UpEnds
<1>9. ASSUME NEW s \in Sessions, UpSends(s)
      PROVE  SessionTypeOK'
  <2>1. nread[s] > 0 /\ nread[s] =< Len(sent[s])
    BY <1>9 DEF UpSends, Progress
  <2>2. sent[s] \in Seq(Types) /\ nread[s] \in 1..Len(sent[s])
    BY <2>1
  <2>3. sent[s][nread[s]] \in Types
    BY <2>2
  <2>4. Append(got[s], sent[s][nread[s]]) \in Seq(Types)
    BY <2>3
  <2> QED  BY <1>9, <2>4 DEF UpSends
<1>10. ASSUME NEW s \in Sessions, UpSendLost(s)
       PROVE  SessionTypeOK'
  BY <1>10 DEF UpSendLost
<1>11. ASSUME NEW s \in Sessions, DownReceives(s) \/ DownWrites(s)
       PROVE  SessionTypeOK'
  <2>1. CASE DownReceives(s)
    <3>1. feed[s] - 1 \in 0..MaxFeed
      BY <2>1 DEF DownReceives
    <3> QED  BY <2>1, <3>1 DEF DownReceives
  <2>2. CASE DownWrites(s)
    BY <2>2 DEF DownWrites
  <2> QED  BY <1>11, <2>1, <2>2
<1>12. ASSUME NEW s \in Sessions, DownReceiveFails(s) \/ DownWriteFails(s)
       PROVE  SessionTypeOK'
  <2>0. errs[s] \in 0..2 /\ errs[s] < 2
    BY <1>12 DEF DownReceiveFails, DownWriteFails, DownEnds, CanPut
  <2>1. errs[s] + 1 \in 0..2
    BY <2>0
  <2> QED  BY <1>12, <2>1 DEF DownReceiveFails, DownWriteFails, DownEnds
<1>13. ASSUME NEW s \in Sessions, WritersCollide(s)
       PROVE  SessionTypeOK'
  BY <1>13 DEF WritersCollide
<1>14. ASSUME NEW s \in Sessions, AgentSends(s)
       PROVE  SessionTypeOK'
  BY <1>14 DEF AgentSends
<1> QED
  BY <1>1, <1>2, <1>3, <1>4, <1>5, <1>6, <1>7, <1>8, <1>9, <1>10, <1>11, <1>12, <1>13, <1>14
  DEF Next, AgentStep, AgentReturns, Handler, UpPump, DownPump

-----------------------------------------------------------------------------
(* Steps *)

\* A session in which nothing happens, other than that its stream may end.
LEMMA Untouched ==
    ASSUME NEW r \in Sessions, Pumps(r), Progress(r), Output(r),
           main'[r] = main[r], up'[r] = up[r], down'[r] = down[r], errs'[r] = errs[r],
           sent'[r] = sent[r], nread'[r] = nread[r], got'[r] = got[r],
           feed'[r] = feed[r], client'[r] = client[r], r \in open' => r \in open
    PROVE  Pumps(r)' /\ Progress(r)' /\ Output(r)'
<1>1. Pumps(r)'
  BY DEF Pumps, Ended
<1>2. Progress(r)'
  BY DEF Progress, StreamAlive, GrpcOpen
<1>3. Output(r)'
  BY DEF Output, StreamAlive, GrpcOpen
<1> QED  BY <1>1, <1>2, <1>3

\* What the handler and the pumps do to a session's control.
LEMMA PumpStep ==
    ASSUME SessionTypeOK, NEW r \in Sessions, Pumps(r), Progress(r), Next
    PROVE  Pumps(r)'
<1> USE DEF SessionTypeOK
<1>same. ASSUME main'[r] = main[r], up'[r] = up[r], down'[r] = down[r], errs'[r] = errs[r]
         PROVE  Pumps(r)'
  BY <1>same DEF Pumps, Ended
<1>1. CASE UNCHANGED sessionVars
  BY <1>1, <1>same DEF sessionVars
<1>2. ASSUME NEW s \in Sessions, NEW m \in Types, ClientSends(s, m)
      PROVE  Pumps(r)'
  BY <1>2, <1>same DEF ClientSends
<1>3. ASSUME NEW s \in Sessions, ClientLeaves(s) \/ AgentSends(s)
      PROVE  Pumps(r)'
  BY <1>3, <1>same DEF ClientLeaves, AgentSends
<1>4. ASSUME NEW s \in Sessions, Refuse(s) \/ Upgrade(s) \/ DialFails(s) \/ Report(s)
      PROVE  Pumps(r)'
  <2>1. CASE s # r
    BY <1>4, <1>same, <2>1 DEF Refuse, Upgrade, DialFails, Report, Goto
  <2>2. CASE s = r
    BY <1>4, <2>2 DEF Refuse, Upgrade, DialFails, Report, Goto, Pumps, Ended
  <2> QED  BY <2>1, <2>2
<1>5. ASSUME NEW s \in Sessions, Dial(s)
      PROVE  Pumps(r)'
  <2>1. CASE s # r
    BY <1>5, <1>same, <2>1 DEF Dial, Goto
  <2>2. CASE s = r
    BY <1>5, <2>2 DEF Dial, Goto, Pumps, Ended
  <2> QED  BY <2>1, <2>2
<1>6. ASSUME NEW s \in Sessions, ProxyReturns(s)
      PROVE  Pumps(r)'
  <2>1. CASE s # r
    BY <1>6, <1>same, <2>1 DEF ProxyReturns, Goto
  <2>2. CASE s = r
    BY <1>6, <2>2 DEF ProxyReturns, Goto, Pumps, Ended
  <2> QED  BY <2>1, <2>2
<1>7. ASSUME NEW s \in Sessions, UpReads(s) \/ UpSends(s) \/ UpSendLost(s)
      PROVE  Pumps(r)'
  <2>1. CASE s # r
    BY <1>7, <1>same, <2>1 DEF UpReads, UpSends, UpSendLost
  <2>2. CASE s = r
    <3>1. /\ main' = main /\ down' = down /\ errs' = errs
          /\ up[r] \in {"reading", "sending"} /\ up'[r] \in {"reading", "sending"}
      BY <1>7, <2>2 DEF UpReads, UpSends, UpSendLost
    <3> QED  BY <3>1 DEF Pumps, Ended
  <2> QED  BY <2>1, <2>2
<1>8. ASSUME NEW s \in Sessions, UpReadFails(s) \/ UpSendFails(s)
      PROVE  Pumps(r)'
  <2>1. CASE s # r
    BY <1>8, <1>same, <2>1 DEF UpReadFails, UpSendFails, UpEnds
  <2>2. CASE s = r
    <3>1. /\ main' = main /\ down' = down /\ errs'[r] = errs[r] + 1
          /\ up[r] \in {"reading", "sending"} /\ up'[r] = "ended"
      BY <1>8, <2>2 DEF UpReadFails, UpSendFails, UpEnds
    <3> QED  BY <3>1 DEF Pumps, Ended
  <2> QED  BY <2>1, <2>2
<1>9. ASSUME NEW s \in Sessions, DownReceives(s) \/ DownWrites(s)
      PROVE  Pumps(r)'
  <2>1. CASE s # r
    BY <1>9, <1>same, <2>1 DEF DownReceives, DownWrites
  <2>2. CASE s = r
    <3>1. /\ main' = main /\ up' = up /\ errs' = errs
          /\ down[r] \in {"receiving", "writing"} /\ down'[r] \in {"receiving", "writing"}
      BY <1>9, <2>2 DEF DownReceives, DownWrites
    <3> QED  BY <3>1 DEF Pumps, Ended
  <2> QED  BY <2>1, <2>2
<1>10. ASSUME NEW s \in Sessions, DownReceiveFails(s) \/ DownWriteFails(s)
       PROVE  Pumps(r)'
  <2>1. CASE s # r
    BY <1>10, <1>same, <2>1 DEF DownReceiveFails, DownWriteFails, DownEnds
  <2>2. CASE s = r
    <3>1. /\ main' = main /\ up' = up /\ errs'[r] = errs[r] + 1
          /\ down[r] \in {"receiving", "writing"} /\ down'[r] = "ended"
      BY <1>10, <2>2 DEF DownReceiveFails, DownWriteFails, DownEnds
    <3> QED  BY <3>1 DEF Pumps, Ended
  <2> QED  BY <2>1, <2>2
<1>11. ASSUME NEW s \in Sessions, WritersCollide(s)
       PROVE  Pumps(r)'
  <2>1. errs'[r] = errs[r] /\ main'[r] = "closed" /\ up'[r] = "ended" /\ down'[r] = "ended"
    BY <1>11 DEF WritersCollide
  <2>2. errs[r] \in 0..2
    OBVIOUS
  <2>3. Ended(r)' = 2
    BY <2>1 DEF Ended
  <2> QED  BY <2>1, <2>2, <2>3 DEF Pumps
<1> QED
  BY <1>1, <1>2, <1>3, <1>4, <1>5, <1>6, <1>7, <1>8, <1>9, <1>10, <1>11
  DEF Next, AgentStep, AgentReturns, Handler, UpPump, DownPump

\* What they do to its messages.
LEMMA ProgressStep ==
    ASSUME SessionTypeOK, NEW r \in Sessions, Pumps(r), Progress(r), Next
    PROVE  Progress(r)'
<1> USE DEF SessionTypeOK
<1>0. /\ sent[r] \in Seq(Types) /\ got[r] \in Seq(Types) /\ nread[r] \in Nat /\ Len(sent[r]) \in Nat
      /\ nread[r] =< Len(sent[r]) /\ Len(sent[r]) =< MaxSent
  BY BoundAssumption DEF Progress
<1>same. ASSUME sent'[r] = sent[r], nread'[r] = nread[r], got'[r] = got[r],
                r \in open' => r \in open,
                main'[r] \in {"idle", "dialing"} => main[r] \in {"idle", "dialing"},
                main'[r] = "waiting" => main[r] = "waiting",
                up'[r] \in {"reading", "sending"} => up[r] = up'[r]
         PROVE  Progress(r)'
  BY <1>same DEF Progress, StreamAlive, GrpcOpen
<1>1. CASE AgentStep
  <2>1. r \in open' => r \in open
    BY <1>1, RPCAssumption DEF AgentStep, UnaryCall, AgentStops, AgentCrashes, Accept, Finish,
         CallPanics, StreamPanics, AgentDies, BeginShutdown, Drained, DeadlinePasses, Sessions
  <2> QED  BY <1>1, <1>same, <2>1 DEF AgentStep, sessionVars
<1>2. ASSUME NEW s \in Sessions, AgentReturns(s)
      PROVE  Progress(r)'
  BY <1>2, <1>same DEF AgentReturns, Finish, sessionVars
<1>3. ASSUME NEW s \in Sessions, NEW m \in Types, ClientSends(s, m)
      PROVE  Progress(r)'
  <2>1. CASE s # r
    BY <1>3, <1>same, <2>1 DEF ClientSends, agentVars
  <2>2. CASE s = r
    <3> DEFINE more == Append(sent[r], m)
    <3>1. /\ sent'[r] = more /\ nread' = nread /\ got' = got /\ main' = main /\ up' = up
          /\ open' = open /\ Len(sent[r]) < MaxSent
      BY <1>3, <2>2 DEF ClientSends, agentVars
    <3>2. Len(more) = Len(sent[r]) + 1 /\ \A k \in 1..Len(sent[r]) : more[k] = sent[r][k]
      BY <1>0
    <3>3. \A n \in 0..Len(sent[r]) : Relayed(sent[r], got[r], n) => Relayed(more, got[r], n)
      BY <1>0, RelayedMore
    <3> HIDE DEF more
    <3>4. nread[r] =< Len(more) /\ Len(more) =< MaxSent
      BY <1>0, <3>1, <3>2, BoundAssumption
    <3>5. \E n \in 0..nread[r] : Relayed(more, got[r], n)
      <4>1. PICK n \in 0..nread[r] : Relayed(sent[r], got[r], n)
        BY DEF Progress
      <4>2. n \in 0..Len(sent[r])
        BY <1>0, <4>1
      <4> QED  BY <3>3, <4>1, <4>2
    <3>6. StreamAlive(r)' => StreamAlive(r)
      BY <3>1 DEF StreamAlive, GrpcOpen
    <3>7. StreamAlive(r) /\ up[r] = "reading" => Relayed(more, got[r], nread[r])
      <4>1. nread[r] \in 0..Len(sent[r])
        BY <1>0
      <4> QED  BY <3>3, <4>1 DEF Progress
    <3>8. StreamAlive(r) /\ up[r] = "sending" =>
            /\ nread[r] > 0
            /\ more[nread[r]] # "other"
            /\ Relayed(more, got[r], nread[r] - 1)
      <4> SUFFICES ASSUME StreamAlive(r), up[r] = "sending"
                   PROVE  /\ nread[r] > 0
                          /\ more[nread[r]] # "other"
                          /\ Relayed(more, got[r], nread[r] - 1)
        OBVIOUS
      <4>1. /\ nread[r] > 0 /\ sent[r][nread[r]] # "other"
            /\ Relayed(sent[r], got[r], nread[r] - 1)
        BY DEF Progress
      <4>2. nread[r] \in 1..Len(sent[r]) /\ nread[r] - 1 \in 0..Len(sent[r])
        BY <1>0, <4>1
      <4> QED  BY <3>2, <3>3, <4>1, <4>2
    <3>9. main[r] \in {"idle", "dialing"} => nread[r] = 0 /\ got[r] = <<>>
      BY DEF Progress
    <3> QED  BY <3>1, <3>4, <3>5, <3>6, <3>7, <3>8, <3>9 DEF Progress
  <2> QED  BY <2>1, <2>2
<1>4. ASSUME NEW s \in Sessions, ClientLeaves(s) \/ AgentSends(s)
      PROVE  Progress(r)'
  BY <1>4, <1>same DEF ClientLeaves, AgentSends, agentVars
<1>5. ASSUME NEW s \in Sessions, Refuse(s) \/ Upgrade(s) \/ DialFails(s) \/ Report(s)
      PROVE  Progress(r)'
  <2>1. /\ sent' = sent /\ nread' = nread /\ got' = got /\ open' = open /\ up' = up
        /\ main'[r] \in {"idle", "dialing"} => main[r] \in {"idle", "dialing"}
        /\ main'[r] = "waiting" => main[r] = "waiting"
    BY <1>5 DEF Refuse, Upgrade, DialFails, Report, Goto, agentVars
  <2> QED  BY <1>same, <2>1
<1>6. ASSUME NEW s \in Sessions, Dial(s)
      PROVE  Progress(r)'
  <2>1. CASE s # r
    <3>1. /\ sent' = sent /\ nread' = nread /\ got' = got
          /\ up'[r] = up[r] /\ main'[r] = main[r] /\ (r \in open' => r \in open)
      BY <1>6, <2>1 DEF Dial, Goto, Accept
    <3> QED  BY <1>same, <3>1
  <2>2. CASE s = r
    <3>1. /\ sent' = sent /\ nread' = nread /\ got' = got
          /\ up'[r] = "reading" /\ main'[r] = "waiting" /\ main[r] = "dialing"
      BY <1>6, <2>2 DEF Dial, Goto
    <3>2. nread[r] = 0 /\ got[r] = <<>>
      BY <3>1 DEF Progress
    <3>3. Relayed(sent[r], got[r], nread[r])
      BY <3>2, RelayedNothing
    <3>4. nread[r] \in 0..nread[r]
      BY <1>0
    <3> QED  BY <1>0, <3>1, <3>3, <3>4 DEF Progress
  <2> QED  BY <2>1, <2>2
<1>7. ASSUME NEW s \in Sessions, ProxyReturns(s)
      PROVE  Progress(r)'
  <2>1. /\ sent' = sent /\ nread' = nread /\ got' = got /\ open' = open /\ up' = up
        /\ main'[r] \in {main[r], "reporting"}
    BY <1>7 DEF ProxyReturns, Goto, agentVars
  <2> QED  BY <1>same, <2>1
<1>8. ASSUME NEW s \in Sessions, UpReads(s)
      PROVE  Progress(r)'
  <2>1. CASE s # r
    BY <1>8, <1>same, <2>1 DEF UpReads, agentVars
  <2>2. CASE s = r
    <3> DEFINE n == nread[r]
    <3>1. /\ sent' = sent /\ nread'[r] = n + 1 /\ got' = got /\ open' = open /\ main' = main
          /\ up[r] = "reading" /\ n < Len(sent[r])
          /\ up'[r] = IF Forwarded(sent[r][n + 1]) THEN "sending" ELSE "reading"
          /\ sent[r][n + 1] # "malformed"
      BY <1>8, <2>2 DEF UpReads, Unread, NextMessage, agentVars
    <3>2. n \in Nat /\ n + 1 \in 1..Len(sent[r]) /\ n + 1 =< Len(sent[r])
      BY <1>0, <3>1
    <3>3. sent[r][n + 1] \in Types
      BY <1>0, <3>2
    <3>4. StreamAlive(r)' => Relayed(sent[r], got[r], n)
      BY <3>1 DEF Progress, StreamAlive, GrpcOpen
    <3>5. \E k \in 0..(n + 1) : Relayed(sent[r], got[r], k)
      <4>1. PICK k \in 0..n : Relayed(sent[r], got[r], k)
        BY DEF Progress
      <4>2. k \in 0..(n + 1)
        BY <3>2, <4>1
      <4> QED  BY <4>1, <4>2
    <3>6. up'[r] = "reading" => sent[r][n + 1] = "other"
      BY <3>1, <3>3 DEF Forwarded, Types
    <3>7. up'[r] = "sending" => sent[r][n + 1] # "other"
      BY <3>1 DEF Forwarded
    <3>8. StreamAlive(r)' /\ up'[r] = "reading" => Relayed(sent[r], got[r], n + 1)
      BY <1>0, <3>2, <3>4, <3>6, RelayedSkip
    <3>9. main[r] \notin {"idle", "dialing"}
      BY <3>1 DEF Pumps
    <3> HIDE DEF n
    <3>10. n + 1 > 0 /\ (n + 1) - 1 = n
      BY <3>2
    <3> QED  BY <1>0, <3>1, <3>2, <3>4, <3>5, <3>7, <3>8, <3>9, <3>10 DEF Progress
  <2> QED  BY <2>1, <2>2
<1>9. ASSUME NEW s \in Sessions, UpSends(s)
      PROVE  Progress(r)'
  <2>1. CASE s # r
    BY <1>9, <1>same, <2>1 DEF UpSends, agentVars
  <2>2. CASE s = r
    <3> DEFINE n == nread[r] - 1
    <3>1. /\ sent' = sent /\ nread' = nread /\ open' = open /\ main' = main
          /\ got'[r] = Append(got[r], sent[r][nread[r]])
          /\ up[r] = "sending" /\ up'[r] = "reading" /\ StreamAlive(r)
      BY <1>9, <2>2 DEF UpSends, agentVars
    <3>2. /\ nread[r] > 0 /\ sent[r][nread[r]] # "other" /\ Relayed(sent[r], got[r], n)
      BY <3>1 DEF Progress
    <3>3. n \in Nat /\ n + 1 = nread[r] /\ nread[r] \in 1..Len(sent[r])
      BY <1>0, <3>2
    <3>4. sent[r][nread[r]] \in Types
      BY <1>0, <3>3
    <3> HIDE DEF n
    <3>5. Relayed(sent[r], Append(got[r], sent[r][n + 1]), n + 1)
      BY <1>0, <3>2, <3>3, <3>4, RelayedNext
    <3>6. Relayed(sent[r], got'[r], nread[r])
      BY <3>1, <3>3, <3>5
    <3>7. main[r] \notin {"idle", "dialing"} /\ nread[r] \in 0..nread[r]
      BY <1>0, <3>1 DEF Pumps
    <3> QED  BY <1>0, <3>1, <3>6, <3>7 DEF Progress
  <2> QED  BY <2>1, <2>2
<1>10. ASSUME NEW s \in Sessions, UpReadFails(s) \/ UpSendFails(s)
       PROVE  Progress(r)'
  <2>1. /\ sent' = sent /\ nread' = nread /\ got' = got /\ open' = open /\ main' = main
        /\ up'[r] \in {up[r], "ended"}
    BY <1>10 DEF UpReadFails, UpSendFails, UpEnds, agentVars
  <2> QED  BY <1>same, <2>1
<1>11. ASSUME NEW s \in Sessions, UpSendLost(s)
       PROVE  Progress(r)'
  <2>1. CASE s # r
    BY <1>11, <1>same, <2>1 DEF UpSendLost, agentVars
  <2>2. CASE s = r
    <3>1. /\ sent' = sent /\ nread' = nread /\ got' = got /\ open' = open /\ main' = main
          /\ r \notin open
      BY <1>11, <2>2 DEF UpSendLost, agentVars
    <3> QED  BY <3>1 DEF Progress, StreamAlive
  <2> QED  BY <2>1, <2>2
<1>12. ASSUME NEW s \in Sessions,
              DownReceives(s) \/ DownWrites(s) \/ DownReceiveFails(s) \/ DownWriteFails(s)
       PROVE  Progress(r)'
  <2>1. /\ sent' = sent /\ nread' = nread /\ got' = got /\ open' = open /\ main' = main /\ up' = up
    BY <1>12 DEF DownReceives, DownWrites, DownReceiveFails, DownWriteFails, agentVars
  <2> QED  BY <1>same, <2>1
<1>13. ASSUME NEW s \in Sessions, WritersCollide(s)
       PROVE  Progress(r)'
  <2>1. /\ sent' = sent /\ nread' = nread /\ got' = got /\ open' = open
        /\ main'[r] = "closed" /\ up'[r] = "ended"
    BY <1>13 DEF WritersCollide, agentVars
  <2> QED  BY <1>same, <2>1
<1> QED
  BY <1>1, <1>2, <1>3, <1>4, <1>5, <1>6, <1>7, <1>8, <1>9, <1>10, <1>11, <1>12, <1>13
  DEF Next, Handler, UpPump, DownPump

\* What they do to the agent's output.
LEMMA OutputStep ==
    ASSUME SessionTypeOK, NEW r \in Sessions, Pumps(r), Output(r), Next
    PROVE  Output(r)'
<1> USE DEF SessionTypeOK
<1>same. ASSUME main'[r] = main[r], up'[r] \in {up[r], "ended"}, up[r] # "none" \/ up'[r] = up[r],
                down'[r] = down[r], feed'[r] = feed[r],
                client'[r] \in {client[r], "gone"}, r \in open' => r \in open
         PROVE  Output(r)'
  BY <1>same DEF Output, StreamAlive, GrpcOpen
<1>1. CASE AgentStep
  <2>1. r \in open' => r \in open
    BY <1>1, RPCAssumption DEF AgentStep, UnaryCall, AgentStops, AgentCrashes, Accept, Finish,
         CallPanics, StreamPanics, AgentDies, BeginShutdown, Drained, DeadlinePasses, Sessions
  <2> QED  BY <1>1, <1>same, <2>1 DEF AgentStep, sessionVars
<1>2. ASSUME NEW s \in Sessions, AgentReturns(s)
      PROVE  Output(r)'
  BY <1>2, <1>same DEF AgentReturns, Finish, sessionVars
<1>3. ASSUME NEW s \in Sessions, NEW m \in Types, ClientSends(s, m)
      PROVE  Output(r)'
  BY <1>3, <1>same DEF ClientSends, agentVars
<1>4. ASSUME NEW s \in Sessions, ClientLeaves(s)
      PROVE  Output(r)'
  BY <1>4, <1>same DEF ClientLeaves, agentVars
<1>5. ASSUME NEW s \in Sessions, Refuse(s) \/ Upgrade(s) \/ DialFails(s) \/ Report(s) \/ ProxyReturns(s)
      PROVE  Output(r)'
  <2>1. CASE s # r
    BY <1>5, <1>same, <2>1 DEF Refuse, Upgrade, DialFails, Report, ProxyReturns, Goto, agentVars
  <2>2. CASE s = r
    <3>1. /\ up' = up /\ down' = down /\ feed' = feed /\ client' = client
          /\ main'[r] # "waiting"
      BY <1>5, <2>2 DEF Refuse, Upgrade, DialFails, Report, ProxyReturns, Goto
    <3>2. CASE Refuse(r) \/ Upgrade(r) \/ DialFails(r) \/ Report(r)
      BY <3>1, <3>2 DEF Refuse, Upgrade, DialFails, Report, Goto, Output, Pumps, StreamAlive, GrpcOpen
    <3>3. CASE ProxyReturns(r)
      <4>1. main[r] = "waiting" /\ main'[r] = "reporting" /\ errs[r] > 0
        BY <3>3 DEF ProxyReturns, Goto
      <4>2. up[r] = "ended" \/ down[r] = "ended"
        BY <4>1 DEF Pumps, Ended
      <4> QED  BY <3>1, <4>1, <4>2 DEF Output, StreamAlive, GrpcOpen
    <3> QED  BY <1>5, <2>2, <3>2, <3>3
  <2> QED  BY <2>1, <2>2
<1>6. ASSUME NEW s \in Sessions, Dial(s)
      PROVE  Output(r)'
  <2>1. CASE s # r
    BY <1>6, <1>same, <2>1 DEF Dial, Goto, Accept
  <2>2. CASE s = r
    BY <1>6, <2>2 DEF Dial, Goto, Output
  <2> QED  BY <2>1, <2>2
<1>7. ASSUME NEW s \in Sessions, UpReads(s) \/ UpSends(s) \/ UpSendLost(s)
      PROVE  Output(r)'
  <2>1. CASE s # r
    BY <1>7, <1>same, <2>1 DEF UpReads, UpSends, UpSendLost, agentVars
  <2>2. CASE s = r
    <3>1. /\ main' = main /\ down' = down /\ feed' = feed /\ client' = client /\ open' = open
          /\ up[r] \in {"reading", "sending"} /\ up'[r] \in {"reading", "sending"}
      BY <1>7, <2>2 DEF UpReads, UpSends, UpSendLost, agentVars
    <3> QED  BY <3>1 DEF Output, StreamAlive, GrpcOpen
  <2> QED  BY <2>1, <2>2
<1>8. ASSUME NEW s \in Sessions, UpReadFails(s) \/ UpSendFails(s)
      PROVE  Output(r)'
  <2>1. /\ main' = main /\ down' = down /\ feed' = feed /\ client' = client /\ open' = open
        /\ up'[r] \in {up[r], "ended"} /\ (up[r] # "none" \/ up'[r] = up[r])
    BY <1>8 DEF UpReadFails, UpSendFails, UpEnds, agentVars
  <2> QED  BY <1>same, <2>1
<1>9. ASSUME NEW s \in Sessions, DownReceives(s) \/ DownWrites(s)
      PROVE  Output(r)'
  <2>1. CASE s # r
    BY <1>9, <1>same, <2>1 DEF DownReceives, DownWrites, agentVars
  <2>2. CASE s = r
    <3>1. /\ main' = main /\ up' = up /\ client' = client /\ open' = open
          /\ down[r] \in {"receiving", "writing"} /\ down'[r] \in {"receiving", "writing"}
      BY <1>9, <2>2 DEF DownReceives, DownWrites, agentVars
    <3>2. main[r] \notin {"idle", "dialing"}
      BY <3>1 DEF Pumps
    <3> QED  BY <3>1, <3>2 DEF Output
  <2> QED  BY <2>1, <2>2
<1>10. ASSUME NEW s \in Sessions, DownReceiveFails(s) \/ DownWriteFails(s)
       PROVE  Output(r)'
  <2>1. CASE s # r
    BY <1>10, <1>same, <2>1 DEF DownReceiveFails, DownWriteFails, DownEnds, agentVars
  <2>2. CASE s = r
    <3>1. /\ main' = main /\ up' = up /\ client' = client /\ open' = open /\ feed' = feed
          /\ down[r] \in {"receiving", "writing"} /\ down'[r] = "ended"
      BY <1>10, <2>2 DEF DownReceiveFails, DownWriteFails, DownEnds, agentVars
    <3>2. main[r] \notin {"idle", "dialing"}
      BY <3>1 DEF Pumps
    <3>3. CASE main[r] = "waiting"
      <4>1. client[r] = "gone" \/ (feed[r] = 0 /\ ~StreamAlive(r))
        BY <1>10, <2>2, <3>3 DEF DownReceiveFails, DownWriteFails, GrpcOpen, WsOpen
      <4> QED  BY <3>1, <3>2, <3>3, <4>1 DEF Output, StreamAlive, GrpcOpen
    <3>4. CASE main[r] # "waiting"
      <4>1. main[r] \in {"reporting", "closed"}
        BY <3>2, <3>4
      <4>2. up[r] = "ended"
        BY <3>1, <4>1 DEF Output
      <4> QED  BY <3>1, <3>2, <4>2 DEF Output
    <3> QED  BY <3>3, <3>4
  <2> QED  BY <2>1, <2>2
<1>11. ASSUME NEW s \in Sessions, WritersCollide(s)
       PROVE  Output(r)'
  <2>1. main'[r] = "closed" /\ up'[r] = "ended"
    BY <1>11 DEF WritersCollide
  <2> QED  BY <2>1 DEF Output
<1>12. ASSUME NEW s \in Sessions, AgentSends(s)
       PROVE  Output(r)'
  <2>1. CASE s # r
    BY <1>12, <1>same, <2>1 DEF AgentSends, agentVars
  <2>2. CASE s = r
    <3>1. /\ main' = main /\ up' = up /\ down' = down /\ client' = client
          /\ main[r] = "waiting" /\ StreamAlive(r)
      BY <1>12, <2>2 DEF AgentSends, StreamAlive, GrpcOpen
    <3> QED  BY <3>1 DEF Output
  <2> QED  BY <2>1, <2>2
<1> QED
  BY <1>1, <1>2, <1>3, <1>4, <1>5, <1>6, <1>7, <1>8, <1>9, <1>10, <1>11, <1>12
  DEF Next, Handler, UpPump, DownPump

-----------------------------------------------------------------------------

LEMMA Initially ==
    Init => IInv
<1> SUFFICES ASSUME Init
             PROVE  IInv
  OBVIOUS
<1>0. AgentTypeOK
  <2>1. serving \in BOOLEAN /\ bounded \in BOOLEAN
    BY Zenon DEF Init, AgentInit
  <2>2. open \subseteq Streams \cup Calls /\ stopping \in {"no", "draining", "returned", "crashed"}
    BY DEF Init, AgentInit
  <2> QED  BY <2>1, <2>2, Zenon DEF AgentTypeOK
<1>1. SessionTypeOK
  BY BoundAssumption DEF Init, SessionTypeOK
<1>2. crashed \in BOOLEAN
  BY DEF Init
<1>3. ASSUME NEW s \in Sessions
      PROVE  Pumps(s) /\ Progress(s) /\ Output(s)
  <2>1. /\ main[s] = "idle" /\ up[s] = "none" /\ down[s] = "none" /\ errs[s] = 0
        /\ sent[s] = <<>> /\ nread[s] = 0 /\ got[s] = <<>> /\ feed[s] = 0
    BY DEF Init
  <2>2. Relayed(sent[s], got[s], 0) /\ 0 \in 0..0 /\ Len(sent[s]) = 0
    BY <2>1, RelayedNothing
  <2> QED  BY <2>1, <2>2, BoundAssumption DEF Pumps, Ended, Progress, Output
<1> QED  BY <1>0, <1>1, <1>2, <1>3, TypeParts DEF IInv

LEMMA Preserved ==
    IInv /\ [Next]_vars => IInv'
<1> SUFFICES ASSUME IInv, [Next]_vars
             PROVE  IInv'
  OBVIOUS
<1>1. /\ SessionTypeOK /\ AgentTypeOK /\ crashed \in BOOLEAN
      /\ \A s \in Sessions : Pumps(s) /\ Progress(s) /\ Output(s)
  BY TypeParts DEF IInv
<1>2. CASE Next
  <2>1. SessionTypeOK' /\ AgentTypeOK' /\ crashed' \in BOOLEAN
    BY <1>1, <1>2, SessionTypeStep, AgentTypeStep, CrashedStep
  <2>2. TypeOK'
    BY <2>1 DEF TypeOK, SessionTypeOK
  <2>3. \A s \in Sessions : Pumps(s)' /\ Progress(s)' /\ Output(s)'
    BY <1>1, <1>2, PumpStep, ProgressStep, OutputStep
  <2> QED  BY <2>2, <2>3 DEF IInv
<1>3. CASE UNCHANGED vars
  <2>1. \A s \in Sessions : Pumps(s)' /\ Progress(s)' /\ Output(s)'
    BY <1>1, <1>3, Untouched DEF vars, sessionVars, agentVars
  <2>2. TypeOK'
    BY <1>3 DEF IInv, TypeOK, AgentTypeOK, vars, sessionVars, agentVars
  <2> QED  BY <2>1, <2>2 DEF IInv
<1> QED  BY <1>2, <1>3

\* The invariant the theorems below rest on holds in every reachable state.
THEOREM Invariance ==
    Spec => []IInv
BY Initially, Preserved, PTL DEF Spec

\* Every variable keeps its type.
THEOREM TypeCorrect ==
    Spec => []TypeOK
<1>1. IInv => TypeOK
  BY DEF IInv
<1> QED  BY <1>1, Invariance, PTL

\* A pump that fails finds room in errCh, although the handler takes only one
\* error out of it: no goroutine is left behind waiting to report.
THEOREM PumpsNeverBlock ==
    Spec => [](\A s \in Sessions :
                   up[s] \in {"reading", "sending"} \/ down[s] \in {"receiving", "writing"}
                       => CanPut(s))
<1>1. ASSUME IInv, NEW s \in Sessions
      PROVE  up[s] \in {"reading", "sending"} \/ down[s] \in {"receiving", "writing"} => CanPut(s)
  <2>1. errs[s] \in 0..2 /\ errs[s] =< Ended(s)
    BY <1>1 DEF IInv, Pumps, TypeOK
  <2>2. up[s] \in {"reading", "sending"} \/ down[s] \in {"receiving", "writing"}
          => Ended(s) = 0 \/ Ended(s) = 1
    BY DEF Ended
  <2> QED  BY <2>1, <2>2 DEF CanPut
<1>2. IInv => \A s \in Sessions :
        up[s] \in {"reading", "sending"} \/ down[s] \in {"receiving", "writing"} => CanPut(s)
  BY <1>1
<1> QED  BY <1>2, Invariance, PTL

\* A session is given up with the agent's output unwritten only if the client
\* has left or the pump that reads from the client has reported.
THEOREM OutputReachesClientHolds ==
    Spec => []OutputReachesClient
<1>1. ASSUME IInv, NEW s \in Sessions,
             main[s] \in {"reporting", "closed"}, feed[s] > 0 \/ down[s] = "writing"
      PROVE  up[s] = "ended" \/ client[s] = "gone"
  <2>1. Output(s) /\ feed[s] \in Nat
    BY <1>1, BoundAssumption DEF IInv, TypeOK
  <2> QED  BY <1>1, <2>1 DEF Output
<1>2. IInv => OutputReachesClient
  BY <1>1 DEF OutputReachesClient
<1> QED  BY <1>2, Invariance, PTL

\* The agent receives commands and pings in their order, none twice and none
\* skipped, for any number of sessions and messages.
THEOREM CommandsInOrderHolds ==
    Spec => []CommandsInOrder
<1>1. ASSUME IInv, NEW s \in Sessions
      PROVE  \E n \in 0..Len(sent[s]) : Relayed(sent[s], got[s], n)
  <2>1. PICK n \in 0..nread[s] : Relayed(sent[s], got[s], n)
    BY <1>1 DEF IInv, Progress
  <2>2. nread[s] =< Len(sent[s]) /\ nread[s] \in Nat /\ Len(sent[s]) \in Nat
    BY <1>1, BoundAssumption DEF IInv, Progress, TypeOK
  <2> QED  BY <2>1, <2>2
<1>2. IInv => CommandsInOrder
  BY <1>1 DEF CommandsInOrder
<1> QED  BY <1>2, Invariance, PTL
=============================================================================
