------------------------- MODULE ControlChannelProofs -------------------------
(***************************************************************************)
(* Theorems about ControlChannel, for any number of connections, messages, *)
(* commands and restarts, and for any capacity of the outbox.              *)
(***************************************************************************)
EXTENDS ControlChannel, SequenceTheorems, FiniteSetTheorems, TLAPS

-----------------------------------------------------------------------------
(* The session that the registry holds *)

\* Closing ends never reopens or hides an open one.
LEMMA SetEndsKeepsOpen ==
  ASSUME NEW cl, NEW sv, SetEnds(cl, sv), NEW c \in Conns, sv[c] = "open"
  PROVE  server'[c] = "open"
  BY DEF SetEnds

SessionInv ==
  /\ server \in [Conns -> {"none", "open", "closed"}]
  /\ SessionIsOpen

LEMMA SessionStep == SessionInv /\ [Next]_vars => SessionInv'
  <1> SUFFICES ASSUME SessionInv, [Next]_vars PROVE SessionInv'
    OBVIOUS
  <1> USE ChannelAssumption DEF SessionInv, SessionIsOpen
  <1>1. ASSUME NEW c \in Conns, connectWs(c) \/ WsOpens(c) \/ WsDelivers(c) \/ WsMessage(c)
        PROVE  SessionInv'
    BY <1>1 DEF connectWs, WsOpens, WsDelivers, WsMessage, pollState
  <1>2. ASSUME NEW c \in Conns, WsCloses(c) PROVE SessionInv'
    <2>1. server' \in [Conns -> {"none", "open", "closed"}]
      BY <1>2 DEF WsCloses, SetEnds
    <2>2. \A d \in Conns : server[d] = "open" => server'[d] = "open"
      BY <1>2, SetEndsKeepsOpen DEF WsCloses
    <2> QED
      BY <1>2, <2>1, <2>2 DEF WsCloses, pollState
  <1>3. ASSUME NEW c \in Conns, onConnection(c) PROVE SessionInv'
    BY <1>3 DEF onConnection
  <1>4. ASSUME NEW c \in Conns, WsClose(c) PROVE SessionInv'
    BY <1>4 DEF WsClose, SetEnds
  <1>5. CASE SendUp \/ PushSucceeds \/ PushFails \/ PushIsRead \/ PollResumes \/ PollReturns
             \/ PollFails \/ PollTimesOut \/ WaiterCloses
             \/ \E m \in 0..MaxUp : StrayIsRead(m)
    BY <1>5 DEF SendUp, PushSucceeds, PushFails, PushIsRead, PollResumes, PollReturns, PollFails,
       PollTimesOut, WaiterCloses, StrayIsRead, pollState, network
  <1>6. CASE SupervisorRestarts
    <2>1. server' \in [Conns -> {"none", "open", "closed"}]
      BY <1>6 DEF SupervisorRestarts, SetEnds
    <2>2. \A d \in Conns : server[d] = "open" => server'[d] = "open"
      BY <1>6, SetEndsKeepsOpen DEF SupervisorRestarts
    <2> QED
      BY <1>6, <2>1, <2>2 DEF SupervisorRestarts
  <1>7. CASE SendDown
    BY <1>7 DEF SendDown
  <1>8. CASE handlePush \/ handlePoll \/ \E m \in 0..MaxUp : StrayArrives(m)
    BY <1>8 DEF handlePush, handlePoll, StrayArrives, Contacted, Attached, network
  <1>9. CASE Sweep
    BY <1>9 DEF Sweep, network
  <1>10. CASE ControlPlaneRestarts
    BY <1>10 DEF ControlPlaneRestarts, SetEnds
  <1>11. CASE UNCHANGED vars
    BY <1>11 DEF vars, network, pollState
  <1> QED
    BY <1>1, <1>2, <1>3, <1>4, <1>5, <1>6, <1>7, <1>8, <1>9, <1>10, <1>11 DEF Next

\* Whatever connects, closes, falls back, is swept or restarts, the registry
\* holds no session of a transport that has ended (channel.mjs, registry.mjs).
THEOREM SessionsAreOpen == Spec => []SessionIsOpen
  <1>1. Init => SessionInv
    BY ChannelAssumption DEF Init, SessionInv, SessionIsOpen
  <1>2. SessionInv => SessionIsOpen
    BY DEF SessionInv
  <1> QED
    BY <1>1, <1>2, SessionStep, PTL DEF Spec
-----------------------------------------------------------------------------
(* The held poll *)

\* A request is held only while lpSessions has an entry for the node, and only
\* a supervisor that is long-polling has a poll or a live request.
PollInv ==
  /\ HeldPollHasNoMail
  /\ ~lp => waiter = "none"
  /\ poll # "idle" \/ waiter = "live" => mode = "longpoll"

LEMMA PollStep == PollInv /\ [Next]_vars => PollInv'
  <1> SUFFICES ASSUME PollInv, [Next]_vars PROVE PollInv'
    OBVIOUS
  <1> USE DEF PollInv, HeldPollHasNoMail
  <1>1. ASSUME NEW c \in Conns,
               connectWs(c) \/ WsOpens(c) \/ WsDelivers(c) \/ WsMessage(c)
               \/ onConnection(c) \/ WsClose(c)
        PROVE  PollInv'
    BY <1>1 DEF connectWs, WsOpens, WsDelivers, WsMessage, onConnection, WsClose, supervisor, pollState
  <1>2. ASSUME NEW c \in Conns, WsCloses(c) PROVE PollInv'
    BY <1>2 DEF WsCloses, pollState
  <1>3. CASE SendUp \/ PushSucceeds \/ PushFails \/ PushIsRead
             \/ \E m \in 0..MaxUp : StrayIsRead(m)
    BY <1>3 DEF SendUp, PushSucceeds, PushFails, PushIsRead, StrayIsRead, supervisor, pollState
  <1>4. CASE PollResumes \/ PollReturns
    BY <1>4 DEF PollResumes, PollReturns, pollState
  <1>5. CASE PollFails \/ SupervisorRestarts
    BY <1>5 DEF PollFails, SupervisorRestarts, Abandoned
  <1>6. CASE SendDown
    <2>1. CASE LpSend(sentDown')
      BY <1>6, <2>1 DEF SendDown, LpSend
    <2>2. ASSUME NEW c \in Conns, WsSend(c, sentDown') PROVE PollInv'
      BY <1>6, <2>2 DEF SendDown, WsSend
    <2> QED
      BY <1>6, <2>1, <2>2 DEF SendDown
  <1>7. CASE handlePush \/ \E m \in 0..MaxUp : StrayArrives(m)
    BY <1>7 DEF handlePush, StrayArrives, Contacted, Opened, supervisor
  <1>8. CASE handlePoll
    BY <1>8 DEF handlePoll
  <1>9. CASE PollTimesOut \/ WaiterCloses
    BY <1>9 DEF PollTimesOut, WaiterCloses, supervisor
  <1>10. CASE Sweep \/ ControlPlaneRestarts
    BY <1>10 DEF Sweep, ControlPlaneRestarts, supervisor
  <1>11. CASE UNCHANGED vars
    BY <1>11 DEF vars, supervisor, pollState
  <1> QED
    BY <1>1, <1>2, <1>3, <1>4, <1>5, <1>6, <1>7, <1>8, <1>9, <1>10, <1>11 DEF Next

\* A poll never hangs at the control plane while there are commands to answer
\* it with, and one that the supervisor waits for is held (long-poll sessions
\* of channel.mjs).
THEOREM HeldPollsHaveNoMail == Spec => []HeldPollHasNoMail
  <1>1. Init => PollInv
    BY DEF Init, PollInv, HeldPollHasNoMail
  <1>2. PollInv => HeldPollHasNoMail
    BY DEF PollInv
  <1> QED
    BY <1>1, <1>2, PollStep, PTL DEF Spec
-----------------------------------------------------------------------------
(* The outbox *)

\* The supervisor's end of a connection is in use.
InUse(c) == client[c] \in {"connecting", "open"}

OutboxTypeOK ==
  /\ client \in [Conns -> {"none", "connecting", "open", "closed"}]
  /\ outbox \in Seq(0..MaxUp)
  /\ sentUp \in 0..MaxUp
  /\ push \in {"idle", "sent", "reading", "handled"}

\* A push is under way only on the long-poll transport, which is active only
\* when no WebSocket is in use, and it is a push of the head of the outbox.
OutboxInv ==
  /\ OutboxTypeOK
  /\ \A c, d \in Conns : InUse(c) /\ InUse(d) => c = d
  /\ mode = "longpoll" => \A c \in Conns : ~InUse(c)
  /\ push # "idle" => mode = "longpoll" /\ outbox # <<>>
  /\ push = "handled" => Head(outbox) \in handled

\* A message that is buffered goes to the end, or is dropped.
LEMMA BufferedFacts ==
  ASSUME NEW S, NEW box \in Seq(S), NEW m \in S
  PROVE  /\ Buffered(box, m) \in Seq(S)
         /\ box # <<>> => Buffered(box, m) # <<>> /\ Head(Buffered(box, m)) = Head(box)
         /\ Len(Buffered(box, m)) >= Len(box)
  <1>1. CASE Len(box) < OutboxLimit
    <2>1. Buffered(box, m) = Append(box, m)
      BY <1>1 DEF Buffered
    <2> QED
      BY <2>1
  <1>2. CASE ~(Len(box) < OutboxLimit)
    <2>1. Buffered(box, m) = box
      BY <1>2 DEF Buffered
    <2> QED
      BY <2>1
  <1> QED
    BY <1>1, <1>2

\* SetEnds may free the names of closed connections only.
LEMMA SetEndsClient ==
  ASSUME NEW cl \in [Conns -> {"none", "connecting", "open", "closed"}], NEW sv, SetEnds(cl, sv)
  PROVE  /\ client' \in [Conns -> {"none", "connecting", "open", "closed"}]
         /\ \A c \in Conns : InUse(c)' <=> cl[c] \in {"connecting", "open"}
  BY DEF SetEnds, InUse


LEMMA OutboxStep == PollInv /\ OutboxInv /\ [Next]_vars => OutboxInv'
  <1> SUFFICES ASSUME PollInv, OutboxInv, [Next]_vars PROVE OutboxInv'
    OBVIOUS
  <1> USE ChannelAssumption DEF OutboxInv, OutboxTypeOK
  <1>1. ASSUME NEW c \in Conns, connectWs(c) PROVE OutboxInv'
    BY <1>1 DEF connectWs, InUse, supervisor, counters, observed
  <1>2. ASSUME NEW c \in Conns, WsOpens(c) PROVE OutboxInv'
    BY <1>2 DEF WsOpens, InUse, counters, observed
  <1>3. ASSUME NEW c \in Conns, WsCloses(c) PROVE OutboxInv'
    <2>1. /\ client' \in [Conns -> {"none", "connecting", "open", "closed"}]
          /\ \A d \in Conns : InUse(d)' <=> d # c /\ InUse(d)
      <3>1. CASE SetEnds([client EXCEPT ![c] = "closed"], server)
        <4> DEFINE cl == [client EXCEPT ![c] = "closed"]
        <4>1. cl \in [Conns -> {"none", "connecting", "open", "closed"}] /\ SetEnds(cl, server)
          BY <3>1
        <4>2. \A d \in Conns : cl[d] \in {"connecting", "open"} <=> d # c /\ InUse(d)
          BY DEF InUse
        <4> HIDE DEF cl
        <4> QED
          BY <4>1, <4>2, SetEndsClient
      <3>2. CASE SetEnds([client EXCEPT ![c] = "none"], server)
        <4> DEFINE cl == [client EXCEPT ![c] = "none"]
        <4>1. cl \in [Conns -> {"none", "connecting", "open", "closed"}] /\ SetEnds(cl, server)
          BY <3>2
        <4>2. \A d \in Conns : cl[d] \in {"connecting", "open"} <=> d # c /\ InUse(d)
          BY DEF InUse
        <4> HIDE DEF cl
        <4> QED
          BY <4>1, <4>2, SetEndsClient
      <3> QED
        BY <1>3, <3>1, <3>2 DEF WsCloses
    <2>2. InUse(c)
      BY <1>3 DEF WsCloses, InUse
    <2>3. mode # "longpoll" /\ push = "idle"
      BY <2>2
    <2>4. UNCHANGED <<sentUp, handled>>
      BY <1>3 DEF WsCloses, counters, observed
    <2>5. CASE UNCHANGED <<mode, outbox, push, poll>>
      BY <2>1, <2>3, <2>4, <2>5
    <2>6. CASE mode' = "longpoll" /\ outbox' = Buffered(outbox, 0) /\ push' = Flushed(outbox')
      <3>1. outbox' \in Seq(0..MaxUp)
        BY <2>6, BufferedFacts
      <3>2. push' \in {"idle", "sent"} /\ (push' # "idle" => outbox' # <<>>)
        BY <2>3, <2>6 DEF Flushed
      <3>3. \A d \in Conns : ~InUse(d)'
        BY <2>1, <2>2
      <3> QED
        BY <2>1, <2>4, <2>6, <3>1, <3>2, <3>3
    <2> QED
      BY <1>3, <2>5, <2>6 DEF WsCloses
  <1>4. CASE SendUp
    <2>1. sentUp' \in 0..MaxUp
      BY <1>4 DEF SendUp
    <2>2. UNCHANGED <<mode, client, handled>>
      BY <1>4 DEF SendUp, observed
    <2>3. CASE UNCHANGED <<outbox, push>>
      BY <2>1, <2>2, <2>3 DEF InUse
    <2>4. CASE /\ outbox' = Buffered(outbox, sentUp')
               /\ push' = IF mode = "longpoll" THEN Flushed(outbox') ELSE push
      <3>1. /\ outbox' \in Seq(0..MaxUp)
            /\ outbox # <<>> => outbox' # <<>> /\ Head(outbox') = Head(outbox)
        BY <2>1, <2>4, BufferedFacts
      <3>2. /\ push' \in {"idle", "sent", "reading", "handled"}
            /\ push' = "handled" => push = "handled"
            /\ push' # "idle" => mode = "longpoll" /\ outbox' # <<>>
        BY <2>4, <3>1 DEF Flushed
      <3> QED
        BY <2>1, <2>2, <3>1, <3>2 DEF InUse
    <2> QED
      BY <1>4, <2>3, <2>4 DEF SendUp
  <1>5. CASE PushSucceeds
    BY <1>5 DEF PushSucceeds, network, counters, observed, InUse
  <1>6. CASE PushFails \/ PollResumes \/ PollFails
    BY <1>6 DEF PushFails, PollResumes, PollFails, network, counters, observed, InUse
  <1>7. CASE PollReturns
    <2>1. UNCHANGED <<mode, client, outbox, sentUp, handled>>
      BY <1>7 DEF PollReturns, network, counters
    <2>2. /\ push' \in {"idle", "sent", "reading", "handled"}
          /\ push' = "handled" => push = "handled"
      BY <1>7 DEF PollReturns, Flushed
    <2>3. push' # "idle" => mode = "longpoll" /\ outbox # <<>>
      BY <1>7 DEF PollReturns, Flushed, PollInv
    <2> QED
      BY <2>1, <2>2, <2>3 DEF InUse
  <1>8. CASE SupervisorRestarts
    <2>1. /\ client' \in [Conns -> {"none", "connecting", "open", "closed"}]
          /\ \A c \in Conns : ~InUse(c)'
      <3> DEFINE cl == [c \in Conns |-> IF client[c] = "none" THEN "none" ELSE "closed"]
      <3>1. cl \in [Conns -> {"none", "connecting", "open", "closed"}] /\ SetEnds(cl, server)
        BY <1>8 DEF SupervisorRestarts
      <3>2. \A c \in Conns : cl[c] \notin {"connecting", "open"}
        OBVIOUS
      <3> HIDE DEF cl
      <3> QED
        BY <3>1, <3>2, SetEndsClient
    <2> QED
      BY <1>8, <2>1 DEF SupervisorRestarts, observed
  <1>9. ASSUME NEW c \in Conns, onConnection(c) \/ WsDelivers(c) \/ WsMessage(c) PROVE OutboxInv'
    BY <1>9 DEF onConnection, WsDelivers, WsMessage, supervisor, counters, observed, InUse
  <1>10. CASE (\E c \in Conns : WsClose(c)) \/ ControlPlaneRestarts
    <2>1. /\ client' \in [Conns -> {"none", "connecting", "open", "closed"}]
          /\ \A c \in Conns : InUse(c)' <=> InUse(c)
      <3>1. \E sv : SetEnds(client, sv)
        BY <1>10 DEF WsClose, ControlPlaneRestarts
      <3> QED
        BY <3>1, SetEndsClient DEF InUse
    <2>2. UNCHANGED <<mode, outbox, sentUp, handled>> /\ push' \in {push, "idle"}
      BY <1>10 DEF WsClose, ControlPlaneRestarts, supervisor, counters, observed
    <2> QED
      BY <2>1, <2>2
  <1>11. CASE SendDown
    <2>1. UNCHANGED <<mode, outbox, push, client, sentUp, handled>>
      BY <1>11 DEF SendDown, observed
    <2> QED
      BY <2>1 DEF InUse
  <1>12. CASE handlePush \/ PushIsRead
    BY <1>12 DEF handlePush, PushIsRead, Inbound, network, counters, observed, InUse
  <1>13. CASE handlePoll \/ PollTimesOut \/ WaiterCloses \/ Sweep
    BY <1>13 DEF handlePoll, PollTimesOut, WaiterCloses, Sweep, supervisor, network, counters,
       observed, InUse
  <1>14. ASSUME NEW m \in 0..MaxUp, StrayArrives(m) \/ StrayIsRead(m) PROVE OutboxInv'
    BY <1>14 DEF StrayArrives, StrayIsRead, Inbound, supervisor, counters, observed, InUse
  <1>15. CASE UNCHANGED vars
    BY <1>15 DEF vars, supervisor, network, counters, observed, InUse
  <1> QED
    BY <1>1, <1>2, <1>3, <1>4, <1>5, <1>6, <1>7, <1>8, <1>9, <1>10, <1>11, <1>12, <1>13, <1>14,
       <1>15 DEF Next

\* The outbox gets shorter by a push that was answered, by the opening of a
\* WebSocket or by a restart, and the last two do not happen in long-polling.
LEMMA OutboxShrinks ==
  OutboxInv /\ [Next]_vars
    => (mode' = "longpoll" /\ Len(outbox') < Len(outbox) => Head(outbox) \in handled)
  <1> SUFFICES ASSUME OutboxInv, [Next]_vars, mode' = "longpoll", Len(outbox') < Len(outbox)
               PROVE  Head(outbox) \in handled
    OBVIOUS
  <1> USE ChannelAssumption DEF OutboxInv, OutboxTypeOK
  <1>1. outbox' # outbox
    OBVIOUS
  <1>2. ASSUME NEW c \in Conns, WsOpens(c) PROVE FALSE
    BY <1>2 DEF WsOpens, InUse
  <1>3. ASSUME NEW c \in Conns, WsCloses(c) PROVE FALSE
    <2>1. outbox' = Buffered(outbox, 0)
      BY <1>1, <1>3 DEF WsCloses
    <2>2. outbox \in Seq(0..MaxUp) /\ 0 \in 0..MaxUp
      OBVIOUS
    <2>3. outbox' \in Seq(0..MaxUp) /\ Len(outbox') >= Len(outbox)
      BY <2>1, <2>2, BufferedFacts
    <2> QED
      BY <2>2, <2>3
  <1>4. CASE SendUp
    <2>1. outbox' = Buffered(outbox, sentUp') /\ sentUp' \in 0..MaxUp
      BY <1>1, <1>4 DEF SendUp
    <2>2. outbox \in Seq(0..MaxUp)
      OBVIOUS
    <2>3. outbox' \in Seq(0..MaxUp) /\ Len(outbox') >= Len(outbox)
      BY <2>1, <2>2, BufferedFacts
    <2> QED
      BY <2>2, <2>3
  <1>5. CASE PushSucceeds
    BY <1>5 DEF PushSucceeds
  <1>6. CASE SupervisorRestarts
    BY <1>6 DEF SupervisorRestarts
  <1>7. ASSUME NEW c \in Conns,
               connectWs(c) \/ WsDelivers(c) \/ onConnection(c) \/ WsMessage(c) \/ WsClose(c)
        PROVE  FALSE
    BY <1>1, <1>7 DEF connectWs, WsDelivers, onConnection, WsMessage, WsClose, supervisor
  <1>8. CASE PushFails \/ PollResumes \/ PollReturns \/ PollFails \/ SendDown
    BY <1>1, <1>8 DEF PushFails, PollResumes, PollReturns, PollFails, SendDown
  <1>9. CASE handlePush \/ PushIsRead \/ handlePoll \/ PollTimesOut \/ WaiterCloses \/ Sweep
             \/ ControlPlaneRestarts \/ (\E m \in 0..MaxUp : StrayArrives(m) \/ StrayIsRead(m))
             \/ UNCHANGED vars
    BY <1>1, <1>9 DEF handlePush, PushIsRead, handlePoll, PollTimesOut, WaiterCloses, Sweep,
       ControlPlaneRestarts, StrayArrives, StrayIsRead, vars, supervisor
  <1> QED
    BY <1>2, <1>3, <1>4, <1>5, <1>6, <1>7, <1>8, <1>9 DEF Next

\* While the supervisor is long-polling no message leaves its outbox before
\* the control plane has handled it (lpFlush in connection.mjs).
THEOREM PushesLoseNothing == Spec => PushLosesNothing
  <1>1. Init => OutboxInv
    BY ChannelAssumption DEF Init, OutboxInv, OutboxTypeOK, InUse
  <1>2. OutboxInv /\ [Next]_vars
          => [mode' = "longpoll" /\ Len(outbox') < Len(outbox) => Head(outbox) \in handled]_vars
    BY OutboxShrinks
  <1>3. Init => PollInv
    BY DEF Init, PollInv, HeldPollHasNoMail
  <1> QED
    BY <1>1, <1>2, <1>3, PollStep, OutboxStep, PTL DEF Spec, PushLosesNothing

-----------------------------------------------------------------------------
(* Type correctness *)

\* The outbox never holds more than its limit.
LEMMA BufferedFits ==
  ASSUME NEW box \in Seq(0..MaxUp), NEW m \in 0..MaxUp, Len(box) <= OutboxLimit
  PROVE  Buffered(box, m) \in Seq(0..MaxUp) /\ Len(Buffered(box, m)) <= OutboxLimit
<1>1. CASE Len(box) < OutboxLimit
  <2>1. Buffered(box, m) = Append(box, m)
    BY <1>1 DEF Buffered
  <2>2. Len(Append(box, m)) = Len(box) + 1 /\ Append(box, m) \in Seq(0..MaxUp)
    OBVIOUS
  <2> QED BY <1>1, <2>1, <2>2, ChannelAssumption
<1>2. CASE ~(Len(box) < OutboxLimit)
  BY <1>2 DEF Buffered
<1> QED BY <1>1, <1>2

LEMMA RoutedType ==
  ASSUME received \in [1..MaxDown -> Nat], NEW msgs \in Seq(0..MaxDown)
  PROVE  Routed(msgs) \in [1..MaxDown -> Nat]
<1>1. ASSUME NEW m \in 1..MaxDown PROVE Cardinality({i \in DOMAIN msgs : msgs[i] = m}) \in Nat
  <2> DEFINE D == {i \in DOMAIN msgs : msgs[i] = m}
  <2>1. Len(msgs) \in Nat /\ D \subseteq 1..Len(msgs)
    OBVIOUS
  <2> HIDE DEF D
  <2>2. IsFiniteSet(1..Len(msgs))
    BY <2>1, FS_Interval, 1 \in Int, Len(msgs) \in Int
  <2>4. IsFiniteSet(D)
    BY <2>1, <2>2, FS_Subset
  <2>3. Cardinality(D) \in Nat
    BY <2>4, FS_CardinalityType
  <2> QED BY <2>3 DEF D
<1> QED BY <1>1 DEF Routed

LEMMA HeadAndTail ==
  ASSUME NEW S, NEW s \in Seq(S), s # <<>>
  PROVE  Head(s) \in S /\ Tail(s) \in Seq(S) /\ Len(Tail(s)) = Len(s) - 1 /\ <<Head(s)>> \in Seq(S)
<1>1. Head(s) \in S /\ Tail(s) \in Seq(S) /\ Len(Tail(s)) = Len(s) - 1
  BY HeadTailProperties
<1> QED BY <1>1

LEMMA PutAt ==
  ASSUME NEW S, NEW f \in [Conns -> S], NEW c \in Conns, NEW x \in S
  PROVE  [f EXCEPT ![c] = x] \in [Conns -> S]
OBVIOUS

\* A push that is given up is one of the head of the outbox.
LEMMA StrayType ==
  ASSUME TypeOK, OutboxInv, \/ UNCHANGED stray
                           \/ PushGoesAstray
  PROVE  stray' \subseteq (0..MaxUp) \X {"sent", "reading"}
<1>1. CASE UNCHANGED stray
  BY <1>1 DEF TypeOK
<1>2. CASE push \in {"sent", "reading"} /\ stray' = stray \cup {<<Head(outbox), push>>}
  <2>1. outbox \in Seq(0..MaxUp) /\ outbox # <<>>
    BY <1>2 DEF OutboxInv, OutboxTypeOK
  <2>2. Head(outbox) \in 0..MaxUp
    BY <2>1, HeadAndTail
  <2> QED BY <1>2, <2>2 DEF TypeOK
<1> QED BY <1>1, <1>2 DEF PushGoesAstray

LEMMA SetEndsServer ==
  ASSUME NEW cl, NEW sv \in [Conns -> {"none", "open", "closed"}], SetEnds(cl, sv)
  PROVE  server' \in [Conns -> {"none", "open", "closed"}]
BY DEF SetEnds

\* The types of what a push that arrives, and one that is read, change.
LEMMA ContactType ==
  ASSUME TypeOK, Contacted
  PROVE  /\ queue' \in Seq(0..MaxDown) /\ session' \in Conns \cup {"none", "longpoll"}
         /\ lp' \in BOOLEAN /\ waiter' \in {"none", "live", "dead"}
<1>1. <<0>> \in Seq(0..MaxDown)
  BY ChannelAssumption
<1> QED BY <1>1 DEF Contacted, Opened, Attached, TypeOK

LEMMA InboundType ==
  ASSUME TypeOK, NEW m \in 0..MaxUp, Inbound(m)
  PROVE  handled' \subseteq 0..MaxUp /\ pushed' \in 0..MaxUp
BY DEF Inbound, TypeOK

\* The supervisor is on WebSocket only while attempts are left.
TypeInv == TypeOK /\ (mode = "websocket" => failures < WsFailoverAfter)

LEMMA TypeStep == PollInv /\ OutboxInv /\ TypeInv /\ [Next]_vars => TypeInv'
<1> SUFFICES ASSUME PollInv, OutboxInv, TypeInv, [Next]_vars PROVE TypeInv'
  OBVIOUS
<1> USE ChannelAssumption
<1>a. TypeOK
  BY DEF TypeInv
<1>1. ASSUME NEW c \in Conns, connectWs(c) PROVE TypeInv'
  <2>1. client' \in [Conns -> {"none", "connecting", "open", "closed"}]
    BY <1>1, <1>a DEF connectWs, TypeOK
  <2> QED BY <1>1, <2>1 DEF connectWs, TypeInv, TypeOK, supervisor, pollState, counters, observed
<1>2. ASSUME NEW c \in Conns, WsOpens(c) PROVE TypeInv'
  <2>1. client' \in [Conns -> {"none", "connecting", "open", "closed"}]
    BY <1>2, <1>a DEF WsOpens, TypeOK
  <2>2. outbox \o <<0>> \in Seq(0..MaxUp)
    BY <1>a DEF TypeOK
  <2>3. up' \in [Conns -> Seq(0..MaxUp)]
    <3> DEFINE x == IF server[c] = "open" THEN outbox \o <<0>> ELSE <<>>
    <3>3. <<>> \in Seq(0..MaxUp)
      OBVIOUS
    <3>1. x \in Seq(0..MaxUp) /\ up' = [up EXCEPT ![c] = x]
      <4>1. x \in Seq(0..MaxUp)
        BY <2>2, <3>3
      <4>2. up' = [up EXCEPT ![c] = x]
        BY <1>2 DEF WsOpens
      <4> QED BY <4>1, <4>2
    <3>2. up \in [Conns -> Seq(0..MaxUp)]
      BY <1>a DEF TypeOK
    <3> HIDE DEF x
    <3> QED BY <3>1, <3>2, PutAt
  <2>4. outbox' \in Seq(0..MaxUp) /\ Len(outbox') <= OutboxLimit
    BY <1>2 DEF WsOpens
  <2>5. failures' = 0
    BY <1>2 DEF WsOpens
  <2>6. UNCHANGED <<mode, push, poll, answer, server, down, stray, pollState, counters, observed>>
    BY <1>2 DEF WsOpens
  <2>7. failures' \in 0..WsFailoverAfter /\ failures' < WsFailoverAfter
    BY <2>5
  <2>8. /\ mode' \in {"websocket", "longpoll"} /\ push' \in {"idle", "sent", "reading", "handled"}
        /\ poll' \in {"idle", "sent", "held", "answered"} /\ answer' \in Seq(0..MaxDown)
        /\ server' \in [Conns -> {"none", "open", "closed"}]
        /\ down' \in [Conns -> Seq(0..MaxDown)]
        /\ stray' \subseteq (0..MaxUp) \X {"sent", "reading"}
    BY <1>a, <2>6 DEF TypeOK
  <2>9. /\ lp' \in BOOLEAN /\ queue' \in Seq(0..MaxDown)
        /\ waiter' \in {"none", "live", "dead"} /\ session' \in Conns \cup {"none", "longpoll"}
        /\ sentUp' \in 0..MaxUp /\ sentDown' \in 0..MaxDown /\ restarts' \in 0..MaxRestarts
        /\ born' \in 0..sentUp'
        /\ handled' \subseteq 0..MaxUp /\ pushed' \in 0..MaxUp
        /\ received' \in [1..MaxDown -> Nat]
    BY <1>a, <2>6 DEF TypeOK, pollState, counters, observed
  <2> QED BY <2>1, <2>3, <2>4, <2>7, <2>8, <2>9 DEF TypeInv, TypeOK
<1>3. ASSUME NEW c \in Conns, WsCloses(c) PROVE TypeInv'
  <2>1. /\ client' \in [Conns -> {"none", "connecting", "open", "closed"}]
        /\ server' \in [Conns -> {"none", "open", "closed"}]
    <3>1. \E s \in {"closed", "none"} : SetEnds([client EXCEPT ![c] = s], server)
      BY <1>3 DEF WsCloses
    <3>2. \A s \in {"closed", "none"} :
            [client EXCEPT ![c] = s] \in [Conns -> {"none", "connecting", "open", "closed"}]
      BY <1>a DEF TypeOK
    <3> QED BY <1>a, <3>1, <3>2, SetEndsClient, SetEndsServer DEF TypeOK
  <2>2. down' \in [Conns -> Seq(0..MaxDown)]
    BY <1>3, <1>a DEF WsCloses, TypeOK
  <2>3. /\ mode' \in {"websocket", "longpoll"}
        /\ failures' \in 0..WsFailoverAfter
        /\ mode' = "websocket" => failures' < WsFailoverAfter
    <3>1. mode = "websocket"
      BY <1>3, <1>a DEF WsCloses, OutboxInv, InUse, TypeOK
    <3>2. failures \in Nat /\ failures < WsFailoverAfter
      BY <1>a, <3>1 DEF TypeInv, TypeOK
    <3> QED BY <1>3, <3>1, <3>2 DEF WsCloses
  <2>4. /\ outbox' \in Seq(0..MaxUp) /\ Len(outbox') <= OutboxLimit
        /\ push' \in {"idle", "sent", "reading", "handled"}
        /\ poll' \in {"idle", "sent", "held", "answered"}
    <3>1. CASE UNCHANGED <<mode, outbox, push, poll>>
      BY <1>a, <3>1 DEF TypeOK
    <3>2. CASE outbox' = Buffered(outbox, 0) /\ push' = Flushed(outbox') /\ poll' = "sent"
      <4>1. outbox' \in Seq(0..MaxUp) /\ Len(outbox') <= OutboxLimit
        BY <1>a, <3>2, BufferedFits DEF TypeOK
      <4> QED BY <1>a, <3>2, <4>1 DEF TypeOK, Flushed
    <3> QED BY <1>3, <3>1, <3>2 DEF WsCloses
  <2> QED BY <1>3, <1>a, <2>1, <2>2, <2>3, <2>4
          DEF WsCloses, TypeInv, TypeOK, pollState, counters, observed
<1>4. ASSUME NEW c \in Conns, WsDelivers(c) PROVE TypeInv'
  <2>1. down[c] \in Seq(0..MaxDown) /\ down[c] # <<>>
    BY <1>4, <1>a DEF WsDelivers, TypeOK
  <2>2. <<Head(down[c])>> \in Seq(0..MaxDown) /\ Tail(down[c]) \in Seq(0..MaxDown)
    BY <2>1, HeadAndTail
  <2>3. received' \in [1..MaxDown -> Nat]
    BY <1>4, <1>a, <2>2, RoutedType DEF WsDelivers, TypeOK
  <2>4. down' \in [Conns -> Seq(0..MaxDown)]
    BY <1>4, <1>a, <2>2 DEF WsDelivers, TypeOK
  <2> QED BY <1>4, <2>3, <2>4 DEF WsDelivers, TypeInv, TypeOK, supervisor, pollState, counters
<1>5. ASSUME NEW c \in Conns, onConnection(c) PROVE TypeInv'
  <2>1. server' \in [Conns -> {"none", "open", "closed"}]
    BY <1>5, <1>a DEF onConnection, TypeOK
  <2>2. down' \in [Conns -> Seq(0..MaxDown)]
    <3> DEFINE x == IF client[c] = "connecting" THEN <<0>> ELSE <<>>
    <3>1. <<0>> \in Seq(0..MaxDown) /\ <<>> \in Seq(0..MaxDown)
      OBVIOUS
    <3>2. x \in Seq(0..MaxDown) /\ down' = [down EXCEPT ![c] = x]
      BY <1>5, <3>1 DEF onConnection
    <3>3. down \in [Conns -> Seq(0..MaxDown)]
      BY <1>a DEF TypeOK
    <3> HIDE DEF x
    <3> QED BY <3>2, <3>3, PutAt
  <2> QED BY <1>5, <2>1, <2>2 DEF onConnection, TypeInv, TypeOK, supervisor, counters, observed
<1>6. ASSUME NEW c \in Conns, WsMessage(c) PROVE TypeInv'
  <2>1. up[c] \in Seq(0..MaxUp) /\ up[c] # <<>>
    BY <1>6, <1>a DEF WsMessage, TypeOK
  <2>2. Head(up[c]) \in 0..MaxUp /\ Tail(up[c]) \in Seq(0..MaxUp)
    BY <2>1, HeadAndTail
  <2>3. up' \in [Conns -> Seq(0..MaxUp)] /\ handled' \subseteq 0..MaxUp
    BY <1>6, <1>a, <2>2 DEF WsMessage, TypeOK
  <2> QED BY <1>6, <2>3 DEF WsMessage, TypeInv, TypeOK, supervisor, pollState, counters
<1>7. ASSUME NEW c \in Conns, WsClose(c) PROVE TypeInv'
  <2>1. [server EXCEPT ![c] = "closed"] \in [Conns -> {"none", "open", "closed"}]
    BY <1>a DEF TypeOK
  <2>2. SetEnds(client, [server EXCEPT ![c] = "closed"])
    BY <1>7 DEF WsClose
  <2>3. /\ client' \in [Conns -> {"none", "connecting", "open", "closed"}]
        /\ server' \in [Conns -> {"none", "open", "closed"}]
    BY <1>a, <2>1, <2>2, SetEndsClient, SetEndsServer DEF TypeOK
  <2>4. up' \in [Conns -> Seq(0..MaxUp)]
    BY <1>7, <1>a DEF WsClose, TypeOK
  <2> QED BY <1>7, <2>3, <2>4 DEF WsClose, TypeInv, TypeOK, supervisor, counters, observed
<1>8. CASE SendUp
  <2>1. sentUp' \in 0..MaxUp /\ born' \in 0..sentUp'
    BY <1>8, <1>a DEF SendUp, TypeOK
  <2>2. ASSUME NEW c \in Conns,
               up' = [up EXCEPT ![c] = IF server[c] = "open" THEN Append(@, sentUp') ELSE @],
               UNCHANGED <<outbox, push>>
        PROVE  TypeInv'
    <3>1. up' \in [Conns -> Seq(0..MaxUp)]
      <4> DEFINE x == IF server[c] = "open" THEN Append(up[c], sentUp') ELSE up[c]
      <4>1. up \in [Conns -> Seq(0..MaxUp)]
        BY <1>a DEF TypeOK
      <4>2. up[c] \in Seq(0..MaxUp) /\ Append(up[c], sentUp') \in Seq(0..MaxUp)
        BY <2>1, <4>1
      <4>3. x \in Seq(0..MaxUp) /\ up' = [up EXCEPT ![c] = x]
        BY <2>2, <4>2
      <4> HIDE DEF x
      <4> QED BY <4>1, <4>3, PutAt
    <3> QED BY <1>8, <1>a, <2>1, <2>2, <3>1 DEF SendUp, TypeInv, TypeOK, pollState, observed
  <2>3. CASE /\ outbox' = Buffered(outbox, sentUp')
             /\ push' = IF mode = "longpoll" THEN Flushed(outbox') ELSE push
             /\ UNCHANGED up
    <3>1. outbox' \in Seq(0..MaxUp) /\ Len(outbox') <= OutboxLimit
      BY <1>a, <2>1, <2>3, BufferedFits DEF TypeOK
    <3>2. push' \in {"idle", "sent", "reading", "handled"}
      BY <1>a, <2>3 DEF TypeOK, Flushed
    <3> QED BY <1>8, <2>1, <2>3, <3>1, <3>2 DEF SendUp, TypeInv, TypeOK, pollState, observed
  <2> QED BY <1>8, <2>2, <2>3 DEF SendUp
<1>9. CASE PushSucceeds
  <2>1. outbox # <<>> /\ outbox \in Seq(0..MaxUp) /\ Len(outbox) <= OutboxLimit
    BY <1>9, <1>a DEF PushSucceeds, OutboxInv, TypeOK
  <2>2. outbox' = Tail(outbox)
    BY <1>9 DEF PushSucceeds
  <2>3. outbox' \in Seq(0..MaxUp) /\ Len(outbox') <= OutboxLimit
    <3>1. Tail(outbox) \in Seq(0..MaxUp) /\ Len(Tail(outbox)) = Len(outbox) - 1
      BY <2>1, HeadAndTail
    <3>2. Len(outbox) \in Nat /\ Len(outbox) - 1 <= OutboxLimit
      BY <2>1
    <3> QED BY <2>2, <3>1, <3>2
  <2> QED BY <1>9, <2>3 DEF PushSucceeds, TypeInv, TypeOK, network, pollState, counters, observed
<1>10. CASE PushFails \/ PollResumes \/ PollFails
  <2>1. CASE PushFails
    <3>1. stray' \subseteq (0..MaxUp) \X {"sent", "reading"}
      BY <1>a, <2>1, StrayType DEF PushFails
    <3> QED BY <1>a, <2>1, <3>1 DEF PushFails, TypeInv, TypeOK, pollState, counters, observed
  <2>2. CASE PollResumes
    BY <1>a, <2>2 DEF PollResumes, TypeInv, TypeOK, network, pollState, counters, observed
  <2>3. CASE PollFails
    <3>1. answer' \in Seq(0..MaxDown) /\ waiter' \in {"none", "live", "dead"}
      BY <1>a, <2>3 DEF PollFails, Abandoned, TypeOK
    <3> QED BY <1>a, <2>3, <3>1 DEF PollFails, TypeInv, TypeOK, network, counters, observed
  <2> QED BY <1>10, <2>1, <2>2, <2>3
<1>11. CASE PollReturns
  <2>1. received' \in [1..MaxDown -> Nat]
    BY <1>11, <1>a, RoutedType DEF PollReturns, TypeOK
  <2>2. answer' \in Seq(0..MaxDown)
    BY <1>11 DEF PollReturns
  <2> QED BY <1>11, <2>1, <2>2
          DEF PollReturns, Flushed, TypeInv, TypeOK, network, pollState, counters
<1>12. CASE SupervisorRestarts
  <2>1. /\ client' \in [Conns -> {"none", "connecting", "open", "closed"}]
        /\ server' \in [Conns -> {"none", "open", "closed"}]
    <3> DEFINE cl == [c \in Conns |-> IF client[c] = "none" THEN "none" ELSE "closed"]
    <3>1. cl \in [Conns -> {"none", "connecting", "open", "closed"}] /\ SetEnds(cl, server)
      BY <1>12 DEF SupervisorRestarts
    <3> HIDE DEF cl
    <3> QED BY <1>a, <3>1, SetEndsClient, SetEndsServer DEF TypeOK
  <2>2. /\ down' \in [Conns -> Seq(0..MaxDown)]
        /\ outbox' \in Seq(0..MaxUp) /\ Len(outbox') <= OutboxLimit
        /\ answer' \in Seq(0..MaxDown)
    BY <1>12 DEF SupervisorRestarts
  <2>3. restarts' \in 0..MaxRestarts /\ born' \in 0..sentUp'
    BY <1>12, <1>a DEF SupervisorRestarts, TypeOK
  <2>5. stray' \subseteq (0..MaxUp) \X {"sent", "reading"}
    BY <1>12, <1>a, StrayType DEF SupervisorRestarts
  <2>4. failures' = 0 /\ mode' = "websocket" /\ push' = "idle" /\ poll' = "idle"
    BY <1>12 DEF SupervisorRestarts
  <2> QED BY <1>12, <2>1, <2>2, <2>3, <2>4, <2>5
          DEF SupervisorRestarts, Abandoned, TypeInv, TypeOK, observed
<1>13. CASE SendDown
  <2>1. sentDown' \in 0..MaxDown
    BY <1>13, <1>a DEF SendDown, TypeOK
  <2>2. CASE LpSend(sentDown')
    <3>1. Append(queue, sentDown') \in Seq(0..MaxDown) /\ <<>> \in Seq(0..MaxDown)
      BY <1>a, <2>1 DEF TypeOK
    <3>2. /\ queue' \in Seq(0..MaxDown) /\ answer' \in Seq(0..MaxDown)
          /\ waiter' \in {"none", "live", "dead"} /\ poll' \in {"idle", "sent", "held", "answered"}
      BY <1>a, <2>2, <3>1 DEF LpSend, TypeOK
    <3> QED BY <1>13, <2>1, <2>2, <3>2 DEF SendDown, LpSend, TypeInv, TypeOK, observed
  <2>3. ASSUME NEW c \in Conns, WsSend(c, sentDown') PROVE TypeInv'
    <3>1. down' \in [Conns -> Seq(0..MaxDown)]
      <4> DEFINE x == IF server[c] = "open" /\ client[c] # "closed"
                      THEN Append(down[c], sentDown') ELSE down[c]
      <4>1. down \in [Conns -> Seq(0..MaxDown)]
        BY <1>a DEF TypeOK
      <4>2. down[c] \in Seq(0..MaxDown) /\ Append(down[c], sentDown') \in Seq(0..MaxDown)
        BY <2>1, <4>1
      <4>3. x \in Seq(0..MaxDown) /\ down' = [down EXCEPT ![c] = x]
        BY <2>3, <4>2 DEF WsSend
      <4> HIDE DEF x
      <4> QED BY <4>1, <4>3, PutAt
    <3> QED BY <1>13, <2>1, <2>3, <3>1 DEF SendDown, WsSend, TypeInv, TypeOK, observed
  <2> QED BY <1>13, <2>2, <2>3 DEF SendDown
<1>14. CASE handlePush
  BY <1>14, <1>a, ContactType DEF handlePush, TypeInv, TypeOK, network, counters, observed
<1>20. CASE PushIsRead
  <2>1. outbox # <<>> /\ outbox \in Seq(0..MaxUp)
    BY <1>20, <1>a DEF PushIsRead, OutboxInv, TypeOK
  <2>2. Head(outbox) \in 0..MaxUp
    BY <2>1, HeadAndTail
  <2>3. handled' \subseteq 0..MaxUp /\ pushed' \in 0..MaxUp
    BY <1>20, <1>a, <2>2, InboundType DEF PushIsRead
  <2> QED BY <1>20, <1>a, <2>3
          DEF PushIsRead, Inbound, TypeInv, TypeOK, network, pollState, counters
<1>21. ASSUME NEW m \in 0..MaxUp, StrayArrives(m) PROVE TypeInv'
  <2>1. stray' \subseteq (0..MaxUp) \X {"sent", "reading"}
    BY <1>21, <1>a DEF StrayArrives, TypeOK
  <2> QED BY <1>21, <1>a, <2>1, ContactType
     DEF StrayArrives, TypeInv, TypeOK, supervisor, counters, observed
<1>22. ASSUME NEW m \in 0..MaxUp, StrayIsRead(m) PROVE TypeInv'
  <2>1. handled' \subseteq 0..MaxUp /\ pushed' \in 0..MaxUp
    BY <1>22, <1>a, InboundType DEF StrayIsRead
  <2> QED BY <1>22, <1>a, <2>1
          DEF StrayIsRead, Inbound, TypeInv, TypeOK, supervisor, pollState, counters
<1>15. CASE handlePoll
  <2>3. <<0>> \in Seq(0..MaxDown)
    OBVIOUS
  <2>4. queue \in Seq(0..MaxDown) /\ <<>> \in Seq(0..MaxDown)
    BY <1>a DEF TypeOK
  <2>1. Opened(queue) \in Seq(0..MaxDown) /\ <<>> \in Seq(0..MaxDown)
    <3>1. CASE lp
      BY <2>4, <3>1 DEF Opened
    <3>2. CASE ~lp
      BY <2>3, <2>4, <3>2 DEF Opened
    <3> QED BY <3>1, <3>2
  <2>2. /\ queue' \in Seq(0..MaxDown) /\ answer' \in Seq(0..MaxDown)
        /\ waiter' \in {"none", "live", "dead"} /\ poll' \in {"idle", "sent", "held", "answered"}
    BY <1>15, <1>a, <2>1 DEF handlePoll, TypeOK
  <2> QED BY <1>15, <2>2 DEF handlePoll, Attached, TypeInv, TypeOK, network, counters, observed
<1>16. CASE PollTimesOut \/ WaiterCloses
  BY <1>16 DEF PollTimesOut, WaiterCloses, TypeInv, TypeOK, supervisor, network, counters, observed
<1>17. CASE Sweep
  <2>1. queue' \in Seq(0..MaxDown)
    BY <1>17 DEF Sweep
  <2> QED BY <1>17, <2>1 DEF Sweep, TypeInv, TypeOK, supervisor, network, counters, observed
<1>18. CASE ControlPlaneRestarts
  <2>1. /\ client' \in [Conns -> {"none", "connecting", "open", "closed"}]
        /\ server' \in [Conns -> {"none", "open", "closed"}]
    <3> DEFINE sv == [c \in Conns |-> IF client[c] = "closed" \/ server[c] = "open"
                                      THEN "closed" ELSE server[c]]
    <3>1. sv \in [Conns -> {"none", "open", "closed"}] /\ SetEnds(client, sv)
      BY <1>18, <1>a DEF ControlPlaneRestarts, TypeOK
    <3> HIDE DEF sv
    <3> QED BY <1>a, <3>1, SetEndsClient, SetEndsServer DEF TypeOK
  <2>2. up' \in [Conns -> Seq(0..MaxUp)] /\ queue' \in Seq(0..MaxDown)
    BY <1>18 DEF ControlPlaneRestarts
  <2>3. /\ restarts' \in 0..MaxRestarts /\ poll' \in {"idle", "sent", "held", "answered"}
        /\ push' \in {"idle", "sent", "reading", "handled"}
        /\ stray' \subseteq (0..MaxUp) \X {"sent", "reading"}
    BY <1>18, <1>a DEF ControlPlaneRestarts, TypeOK
  <2> QED BY <1>18, <2>1, <2>2, <2>3 DEF ControlPlaneRestarts, TypeInv, TypeOK, observed
<1>19. CASE UNCHANGED vars
  BY <1>19 DEF vars, supervisor, network, pollState, counters, observed, TypeInv, TypeOK
<1> QED
  BY <1>1, <1>2, <1>3, <1>4, <1>5, <1>6, <1>7, <1>8, <1>9, <1>10, <1>11, <1>12, <1>13, <1>14,
     <1>15, <1>16, <1>17, <1>18, <1>19, <1>20, <1>21, <1>22 DEF Next

LEMMA InitTypes == Init => PollInv /\ OutboxInv /\ TypeInv
<1> SUFFICES ASSUME Init PROVE PollInv /\ OutboxInv /\ TypeInv
  OBVIOUS
<1> USE ChannelAssumption
<1>1. PollInv
  BY DEF Init, PollInv, HeldPollHasNoMail
<1>2. OutboxInv
  BY DEF Init, OutboxInv, OutboxTypeOK, InUse
<1>3. TypeInv
  <2>1. /\ up \in [Conns -> Seq(0..MaxUp)] /\ down \in [Conns -> Seq(0..MaxDown)]
        /\ queue \in Seq(0..MaxDown) /\ answer \in Seq(0..MaxDown)
    <3>1. /\ up = [c \in Conns |-> <<>>] /\ down = [c \in Conns |-> <<>>]
          /\ queue = <<>> /\ answer = <<>>
      BY DEF Init
    <3>2. <<>> \in Seq(0..MaxUp) /\ <<>> \in Seq(0..MaxDown)
      OBVIOUS
    <3> QED BY <3>1, <3>2
  <2>2. outbox \in Seq(0..MaxUp) /\ Len(outbox) <= OutboxLimit
    BY DEF Init
  <2>3. received \in [1..MaxDown -> Nat]
    BY DEF Init
  <2>4. /\ mode = "websocket" /\ failures = 0 /\ failures < WsFailoverAfter
        /\ client \in [Conns -> {"none", "connecting", "open", "closed"}]
        /\ server \in [Conns -> {"none", "open", "closed"}]
        /\ push = "idle" /\ poll = "idle" /\ lp = FALSE /\ waiter = "none" /\ session = "none"
    BY DEF Init
  <2>5. /\ sentUp = 0 /\ sentDown = 0 /\ restarts = 0 /\ born = 0 /\ stray = {}
        /\ handled = {} /\ pushed = 0
    BY DEF Init
  <2>6. /\ born \in 0..sentUp /\ stray \subseteq (0..MaxUp) \X {"sent", "reading"}
        /\ failures \in 0..WsFailoverAfter /\ sentUp \in 0..MaxUp /\ sentDown \in 0..MaxDown
        /\ restarts \in 0..MaxRestarts /\ handled \subseteq 0..MaxUp /\ pushed \in 0..MaxUp
    BY <2>4, <2>5
  <2> QED BY <2>1, <2>2, <2>3, <2>4, <2>6 DEF TypeInv, TypeOK
<1> QED BY <1>1, <1>2, <1>3

\* Type correctness; the outbox stays within its limit (sendRaw).
THEOREM TypeCorrect == Spec => []TypeOK
<1>1. TypeInv => TypeOK
  BY DEF TypeInv
<1> QED BY <1>1, InitTypes, PollStep, OutboxStep, TypeStep, PTL DEF Spec
-----------------------------------------------------------------------------
(* Commands are delivered at most once *)

Single(s, m) == \A i, j \in DOMAIN s : s[i] = m /\ s[j] = m => i = j

\* A command waits in one place at most, once, and only if it was never given
\* to the router; its number is one of those already used.
OncePer(m) ==
  /\ Single(queue, m) /\ Single(answer, m) /\ \A c \in Conns : Single(down[c], m)
  /\ ~(Among(queue, m) /\ Among(answer, m))
  /\ \A c \in Conns : Among(down[c], m) => ~Among(queue, m) /\ ~Among(answer, m)
  /\ \A c, d \in Conns : Among(down[c], m) /\ Among(down[d], m) => c = d
  /\ Among(queue, m) \/ Among(answer, m) \/ (\E c \in Conns : Among(down[c], m))
       => received[m] = 0 /\ m <= sentDown
  /\ received[m] <= 1
  /\ received[m] > 0 => m <= sentDown

OnceInv == \A m \in 1..MaxDown : OncePer(m)

LEMMA EmptyHasNone == ASSUME NEW m PROVE ~Among(<<>>, m) /\ Single(<<>>, m)
BY DEF Among, Single

LEMMA OneIsSingle == ASSUME NEW k, NEW m PROVE (Among(<<k>>, m) <=> k = m) /\ Single(<<k>>, m)
BY DEF Among, Single

LEMMA AppendAmong ==
  ASSUME NEW s \in Seq(0..MaxDown), NEW k \in 0..MaxDown, NEW m
  PROVE  /\ Among(Append(s, k), m) <=> Among(s, m) \/ k = m
         /\ Single(s, m) /\ ~(k = m /\ Among(s, m)) => Single(Append(s, k), m)
<1> DEFINE t == Append(s, k)
<1>1. /\ Len(s) \in Nat /\ DOMAIN s = 1..Len(s) /\ DOMAIN t = 1..(Len(s) + 1)
      /\ \A i \in 1..Len(s) : t[i] = s[i]
      /\ t[Len(s) + 1] = k
  BY AppendProperties
<1> HIDE DEF t
<1>2. \A i \in DOMAIN t : i \in DOMAIN s \/ i = Len(s) + 1
  BY <1>1
<1>3. \A i \in DOMAIN s : i \in DOMAIN t /\ t[i] = s[i]
  BY <1>1
<1>4. Len(s) + 1 \in DOMAIN t
  BY <1>1
<1>5. Among(t, m) <=> Among(s, m) \/ k = m
  BY <1>1, <1>2, <1>3, <1>4 DEF Among
<1>6. ASSUME Single(s, m), ~(k = m /\ Among(s, m)) PROVE Single(t, m)
  BY <1>1, <1>2, <1>3, <1>6 DEF Among, Single
<1> QED BY <1>5, <1>6 DEF t

LEMMA TailAmong ==
  ASSUME NEW s \in Seq(0..MaxDown), s # <<>>, NEW m
  PROVE  /\ Among(s, m) <=> Head(s) = m \/ Among(Tail(s), m)
         /\ Single(s, m) => Single(Tail(s), m)
         /\ Single(s, m) /\ Head(s) = m => ~Among(Tail(s), m)
<1> DEFINE t == Tail(s)
<1>1. /\ Len(s) \in Nat /\ Len(s) > 0 /\ DOMAIN s = 1..Len(s) /\ DOMAIN t = 1..(Len(s) - 1)
      /\ \A i \in DOMAIN t : t[i] = s[i + 1]
      /\ s[1] = Head(s)
  BY HeadTailProperties
<1> HIDE DEF t
<1>2. \A i \in DOMAIN t : i \in Nat /\ i >= 1 /\ i + 1 \in DOMAIN s
  BY <1>1
<1>3. \A i \in DOMAIN s : i = 1 \/ (i \in Nat /\ i - 1 \in DOMAIN t /\ t[i - 1] = s[i])
  <2> SUFFICES ASSUME NEW i \in DOMAIN s, i # 1 PROVE i \in Nat /\ i - 1 \in DOMAIN t /\ t[i - 1] = s[i]
    OBVIOUS
  <2>1. i \in Nat /\ i - 1 \in DOMAIN t /\ (i - 1) + 1 = i
    BY <1>1
  <2> QED BY <1>1, <2>1
<1>4. 1 \in DOMAIN s
  BY <1>1
<1>5. Among(s, m) <=> Head(s) = m \/ Among(t, m)
  BY <1>1, <1>2, <1>3, <1>4 DEF Among
<1>6. ASSUME Single(s, m) PROVE Single(t, m)
  <2> SUFFICES ASSUME NEW i \in DOMAIN t, NEW j \in DOMAIN t, t[i] = m, t[j] = m PROVE i = j
    BY DEF Single
  <2>1. s[i + 1] = m /\ s[j + 1] = m
    BY <1>1
  <2>2. i + 1 = j + 1
    BY <1>2, <1>6, <2>1 DEF Single
  <2> QED BY <1>2, <2>2
<1>7. ASSUME Single(s, m), Head(s) = m, Among(t, m) PROVE FALSE
  <2>1. PICK i \in DOMAIN t : t[i] = m
    BY <1>7 DEF Among
  <2>2. s[i + 1] = m /\ s[1] = m
    BY <1>1, <1>7, <2>1
  <2>3. i + 1 = 1
    BY <1>2, <1>4, <1>7, <2>2 DEF Single
  <2> QED BY <1>2, <2>3
<1> QED BY <1>5, <1>6, <1>7 DEF t

\* The router is given each command once for every time it is among the messages.
LEMMA RoutedAdds ==
  ASSUME NEW msgs, NEW m \in 1..MaxDown, received[m] \in Nat, Single(msgs, m)
  PROVE  Routed(msgs)[m] = IF Among(msgs, m) THEN received[m] + 1 ELSE received[m]
<1> DEFINE D == {i \in DOMAIN msgs : msgs[i] = m}
<1>1. Routed(msgs)[m] = received[m] + Cardinality(D)
  BY DEF Routed
<1>2. CASE Among(msgs, m)
  <2>1. PICK i \in DOMAIN msgs : msgs[i] = m
    BY <1>2 DEF Among
  <2>2. D = {i}
    BY <2>1 DEF Single
  <2>3. Cardinality({i}) = 1
    BY FS_Singleton
  <2> QED BY <1>1, <1>2, <2>2, <2>3
<1>3. CASE ~Among(msgs, m)
  <2>1. D = {}
    BY <1>3 DEF Among
  <2>2. Cardinality({}) = 0
    BY FS_EmptySet
  <2> QED BY <1>1, <1>3, <2>1, <2>2
<1> QED BY <1>2, <1>3

\* Messages may be lost, and may move from the queue into the answer.
LEMMA Shrinks ==
  ASSUME NEW m \in 1..MaxDown, OncePer(m), TypeOK, TypeOK',
         received'[m] = received[m], sentDown' >= sentDown,
         \A c \in Conns : (Among(down'[c], m) => Among(down[c], m)) /\ Single(down'[c], m),
         \/ /\ (Among(queue', m) => Among(queue, m)) /\ Single(queue', m)
            /\ (Among(answer', m) => Among(answer, m)) /\ Single(answer', m)
         \/ /\ ~Among(queue', m) /\ Single(queue', m)
            /\ (Among(answer', m) => Among(queue, m) \/ Among(answer, m)) /\ Single(answer', m)
  PROVE  OncePer(m)'
<1>1. sentDown \in Nat /\ sentDown' \in Nat /\ m \in Nat /\ received[m] \in Nat
  BY ChannelAssumption DEF TypeOK
<1> QED BY <1>1 DEF OncePer

LEMMA OnceStep == PollInv /\ OutboxInv /\ TypeInv /\ TypeInv' /\ OnceInv /\ [Next]_vars => OnceInv'
<1> SUFFICES ASSUME TypeOK, TypeOK', OnceInv, [Next]_vars, NEW m \in 1..MaxDown
             PROVE  OncePer(m)'
  BY DEF TypeInv, OnceInv
<1> USE ChannelAssumption
<1>1. OncePer(m) /\ m # 0 /\ m \in Nat /\ sentDown \in Nat /\ received[m] \in Nat
  <2>1. OncePer(m)
    BY DEF OnceInv
  <2>2. m # 0 /\ m \in Nat /\ sentDown \in Nat
    <3>1. sentDown \in 0..MaxDown /\ MaxDown \in Nat
      BY DEF TypeOK
    <3> QED BY <3>1
  <2>3. received[m] \in Nat
    BY DEF TypeOK
  <2> QED BY <2>1, <2>2, <2>3
<1>2. ~Among(<<>>, m) /\ Single(<<>>, m) /\ ~Among(<<0>>, m) /\ Single(<<0>>, m)
  BY <1>1, EmptyHasNone, OneIsSingle
<1>3. /\ \A c \in Conns : Single(down[c], m) /\ down[c] \in Seq(0..MaxDown)
      /\ Single(queue, m) /\ Single(answer, m)
      /\ queue \in Seq(0..MaxDown) /\ answer \in Seq(0..MaxDown)
      /\ DOMAIN down = Conns
  BY <1>1 DEF OncePer, TypeOK
<1>4. ASSUME NEW c \in Conns, NEW x, ~Among(x, m), Single(x, m), down' = [down EXCEPT ![c] = x]
      PROVE  \A d \in Conns : (Among(down'[d], m) => Among(down[d], m)) /\ Single(down'[d], m)
  BY <1>3, <1>4
<1>5. ASSUME UNCHANGED down
      PROVE  \A d \in Conns : (Among(down'[d], m) => Among(down[d], m)) /\ Single(down'[d], m)
  BY <1>3, <1>5
<1>6. ASSUME NEW c \in Conns, WsCloses(c) \/ onConnection(c) PROVE OncePer(m)'
  <2>1. CASE WsCloses(c)
    <3>1. UNCHANGED <<queue, answer, received, sentDown>> /\ down' = [down EXCEPT ![c] = <<>>]
      BY <2>1 DEF WsCloses, pollState, counters, observed
    <3>2. \A d \in Conns : (Among(down'[d], m) => Among(down[d], m)) /\ Single(down'[d], m)
      BY <1>2, <1>4, <3>1
    <3>3. sentDown' >= sentDown /\ received'[m] = received[m] /\ Single(queue', m) /\ Single(answer', m)
      BY <1>1, <1>3, <3>1
    <3> QED BY <1>1, <3>1, <3>2, <3>3, Shrinks
  <2>2. CASE onConnection(c)
    <3> DEFINE x == IF client[c] = "connecting" THEN <<0>> ELSE <<>>
    <3>1. UNCHANGED <<queue, answer, received, sentDown>> /\ down' = [down EXCEPT ![c] = x]
      BY <2>2 DEF onConnection, supervisor, counters, observed
    <3>2. ~Among(x, m) /\ Single(x, m)
      BY <1>2
    <3> HIDE DEF x
    <3>3. \A d \in Conns : (Among(down'[d], m) => Among(down[d], m)) /\ Single(down'[d], m)
      BY <1>4, <3>1, <3>2
    <3>4. sentDown' >= sentDown /\ received'[m] = received[m] /\ Single(queue', m) /\ Single(answer', m)
      BY <1>1, <1>3, <3>1
    <3> QED BY <1>1, <3>1, <3>3, <3>4, Shrinks
  <2> QED BY <1>6, <2>1, <2>2
<1>7. ASSUME NEW c \in Conns, WsDelivers(c) PROVE OncePer(m)'
  <2>1. /\ down[c] # <<>> /\ received' = Routed(<<Head(down[c])>>)
        /\ down' = [down EXCEPT ![c] = Tail(down[c])]
        /\ UNCHANGED <<queue, answer, sentDown>>
    BY <1>7 DEF WsDelivers, supervisor, pollState, counters
  <2>2. /\ Among(down[c], m) <=> Head(down[c]) = m \/ Among(Tail(down[c]), m)
        /\ Single(Tail(down[c]), m)
        /\ Head(down[c]) = m => ~Among(Tail(down[c]), m)
    BY <1>3, <2>1, TailAmong
  <2>3. received'[m] = IF Head(down[c]) = m THEN received[m] + 1 ELSE received[m]
    <3>1. Single(<<Head(down[c])>>, m) /\ (Among(<<Head(down[c])>>, m) <=> Head(down[c]) = m)
      BY OneIsSingle
    <3> QED BY <1>1, <2>1, <3>1, RoutedAdds
  <2>4. \A d \in Conns : down'[d] = IF d = c THEN Tail(down[c]) ELSE down[d]
    BY <1>3, <2>1
  <2>5. CASE Head(down[c]) = m
    <3>1. received[m] = 0 /\ m <= sentDown /\ received'[m] = 1
      BY <1>1, <2>2, <2>3, <2>5 DEF OncePer
    <3>2. ~Among(queue, m) /\ ~Among(answer, m) /\ \A d \in Conns : ~Among(down'[d], m)
      BY <1>1, <2>2, <2>4, <2>5 DEF OncePer
    <3>3. \A d \in Conns : Single(down'[d], m)
      BY <1>3, <2>2, <2>4
    <3> QED BY <1>3, <2>1, <3>1, <3>2, <3>3 DEF OncePer
  <2>6. CASE Head(down[c]) # m
    <3>1. \A d \in Conns : (Among(down'[d], m) => Among(down[d], m)) /\ Single(down'[d], m)
      BY <1>3, <2>2, <2>4
    <3>2. sentDown' >= sentDown /\ received'[m] = received[m] /\ Single(queue', m) /\ Single(answer', m)
      BY <1>1, <1>3, <2>1, <2>3, <2>6
    <3> QED BY <1>1, <2>1, <3>1, <3>2, Shrinks
  <2> QED BY <2>5, <2>6
<1>8. CASE PollReturns
  <2>1. received' = Routed(answer) /\ answer' = <<>> /\ UNCHANGED <<queue, down, sentDown>>
    BY <1>8 DEF PollReturns, network, pollState, counters
  <2>2. received'[m] = IF Among(answer, m) THEN received[m] + 1 ELSE received[m]
    BY <1>1, <1>3, <2>1, RoutedAdds
  <2>3. CASE Among(answer, m)
    <3>1. received[m] = 0 /\ m <= sentDown /\ received'[m] = 1
      BY <1>1, <2>2, <2>3 DEF OncePer
    <3>2. ~Among(queue, m) /\ \A d \in Conns : ~Among(down[d], m)
      BY <1>1, <2>3 DEF OncePer
    <3> QED BY <1>2, <1>3, <2>1, <3>1, <3>2 DEF OncePer
  <2>4. CASE ~Among(answer, m)
    BY <1>1, <1>2, <1>3, <1>5, <2>1, <2>2, <2>4, Shrinks
  <2> QED BY <2>3, <2>4
<1>9. CASE PollFails
  <2>1. answer' = <<>> /\ UNCHANGED <<queue, down, sentDown, received>>
    BY <1>9 DEF PollFails, network, counters, observed
  <2> QED BY <1>1, <1>2, <1>3, <1>5, <2>1, Shrinks
<1>10. CASE SupervisorRestarts
  <2>1. answer' = <<>> /\ down' = [c \in Conns |-> <<>>] /\ UNCHANGED <<queue, sentDown, received>>
    BY <1>10 DEF SupervisorRestarts, observed
  <2> QED BY <1>1, <1>2, <1>3, <2>1, Shrinks
<1>11. CASE SendDown
  <2> DEFINE k == sentDown + 1
  <2>1. k \in 0..MaxDown /\ sentDown' = k /\ UNCHANGED received
    BY <1>11 DEF SendDown, observed, TypeOK
  <2>2. k = m => /\ received[m] = 0
                 /\ ~Among(queue, m) /\ ~Among(answer, m) /\ \A c \in Conns : ~Among(down[c], m)
    BY <1>1 DEF OncePer
  <2>3. sentDown' >= sentDown /\ (k = m => m <= sentDown')
    BY <1>1, <2>1
  <2> HIDE DEF k
  <2>4. CASE LpSend(sentDown')
    <3>1. UNCHANGED down /\ LpSend(k)
      BY <2>1, <2>4 DEF LpSend
    <3>2. /\ Among(Append(queue, k), m) <=> Among(queue, m) \/ k = m
          /\ Single(Append(queue, k), m)
      BY <1>3, <2>1, <2>2, AppendAmong
    <3>3. \/ queue' = Append(queue, k) /\ UNCHANGED answer
          \/ queue' = <<>> /\ (answer' = Append(queue, k) \/ UNCHANGED answer)
      BY <3>1 DEF LpSend
    <3>4. CASE k = m
      <4>1. /\ Single(queue', m) /\ Single(answer', m) /\ ~(Among(queue', m) /\ Among(answer', m))
        BY <1>2, <1>3, <2>2, <3>2, <3>3, <3>4
      <4>2. \A c \in Conns : ~Among(down'[c], m) /\ Single(down'[c], m)
        BY <1>3, <2>2, <3>1, <3>4
      <4> QED BY <2>1, <2>2, <2>3, <3>4, <4>1, <4>2 DEF OncePer
    <3>5. CASE k # m
      BY <1>1, <1>2, <1>3, <1>5, <2>1, <2>3, <3>1, <3>2, <3>3, <3>5, Shrinks
    <3> QED BY <3>4, <3>5
  <2>5. ASSUME NEW c \in Conns, WsSend(c, sentDown') PROVE OncePer(m)'
    <3>1. UNCHANGED <<queue, answer>>
      BY <1>11, <2>5 DEF WsSend
    <3>2. /\ Among(Append(down[c], k), m) <=> Among(down[c], m) \/ k = m
          /\ Single(Append(down[c], k), m)
      BY <1>3, <2>1, <2>2, AppendAmong
    <3>3. \/ UNCHANGED down
          \/ \A d \in Conns : down'[d] = IF d = c THEN Append(down[c], k) ELSE down[d]
      <4>1. down' = [down EXCEPT ![c] = IF server[c] = "open" /\ client[c] # "closed"
                                        THEN Append(down[c], k) ELSE down[c]]
        BY <2>1, <2>5 DEF WsSend
      <4>2. CASE server[c] = "open" /\ client[c] # "closed"
        BY <1>3, <4>1, <4>2
      <4>3. CASE ~(server[c] = "open" /\ client[c] # "closed")
        <5>1. \A d \in Conns : down'[d] = down[d]
          BY <1>3, <4>1, <4>3
        <5>2. down \in [Conns -> Seq(0..MaxDown)] /\ down' \in [Conns -> Seq(0..MaxDown)]
          BY DEF TypeOK
        <5> QED BY <5>1, <5>2
      <4> QED BY <4>2, <4>3
    <3>4. \A d \in Conns : Single(down'[d], m) /\ (Among(down'[d], m) => Among(down[d], m) \/ (k = m /\ d = c))
      BY <1>3, <3>2, <3>3
    <3>5. CASE k = m
      BY <1>3, <2>1, <2>2, <2>3, <3>1, <3>4, <3>5 DEF OncePer
    <3>6. CASE k # m
      BY <1>1, <1>3, <2>1, <2>3, <3>1, <3>4, <3>6, Shrinks
    <3> QED BY <3>5, <3>6
  <2> QED BY <1>11, <2>4, <2>5 DEF SendDown
<1>12. CASE handlePush \/ \E k \in 0..MaxUp : StrayArrives(k)
  <2>1. (queue' = queue \/ queue' = <<0>>) /\ UNCHANGED <<answer, down, sentDown, received>>
    BY <1>12 DEF handlePush, StrayArrives, Contacted, Opened, supervisor, network, counters, observed
  <2>2. (Among(queue', m) => Among(queue, m)) /\ Single(queue', m) /\ Single(answer', m)
    BY <1>2, <1>3, <2>1
  <2>3. sentDown' >= sentDown /\ received'[m] = received[m]
    BY <1>1, <2>1
  <2> QED BY <1>1, <1>5, <2>1, <2>2, <2>3, Shrinks
<1>13. CASE handlePoll
  <2>1. /\ queue' = <<>> /\ UNCHANGED <<down, sentDown, received>>
        /\ answer' = queue \/ answer' = <<0>> \/ UNCHANGED answer
    BY <1>13 DEF handlePoll, Opened, network, counters, observed
  <2>2. /\ ~Among(queue', m) /\ Single(queue', m) /\ Single(answer', m)
        /\ Among(answer', m) => Among(queue, m) \/ Among(answer, m)
    BY <1>2, <1>3, <2>1
  <2>3. sentDown' >= sentDown /\ received'[m] = received[m]
    BY <1>1, <2>1
  <2> QED BY <1>1, <1>5, <2>1, <2>2, <2>3, Shrinks
<1>14. CASE Sweep \/ ControlPlaneRestarts
  <2>1. queue' = <<>> /\ UNCHANGED <<answer, down, sentDown, received>>
    BY <1>14 DEF Sweep, ControlPlaneRestarts, supervisor, network, counters, observed
  <2>2. ~Among(queue', m) /\ Single(queue', m) /\ Single(answer', m)
    BY <1>2, <1>3, <2>1
  <2>3. sentDown' >= sentDown /\ received'[m] = received[m]
    BY <1>1, <2>1
  <2> QED BY <1>1, <1>5, <2>1, <2>2, <2>3, Shrinks
<1>15. ASSUME NEW c \in Conns, connectWs(c) \/ WsOpens(c) \/ WsMessage(c) \/ WsClose(c)
       PROVE  OncePer(m)'
  <2>1. UNCHANGED <<queue, answer, down, sentDown, received>>
    BY <1>15 DEF connectWs, WsOpens, WsMessage, WsClose, supervisor, pollState, counters, observed
  <2> QED BY <1>1, <1>3, <1>5, <2>1, Shrinks
<1>16. CASE SendUp \/ PushSucceeds \/ PushFails \/ PushIsRead \/ PollResumes \/ PollTimesOut
            \/ WaiterCloses \/ (\E k \in 0..MaxUp : StrayIsRead(k)) \/ UNCHANGED vars
  <2>1. UNCHANGED <<queue, answer, down, sentDown, received>>
    BY <1>16 DEF SendUp, PushSucceeds, PushFails, PushIsRead, PollResumes, PollTimesOut,
       WaiterCloses, StrayIsRead, Inbound, vars, supervisor, network, pollState, counters, observed
  <2> QED BY <1>1, <1>3, <1>5, <2>1, Shrinks
<1> QED
  BY <1>6, <1>7, <1>8, <1>9, <1>10, <1>11, <1>12, <1>13, <1>14, <1>15, <1>16 DEF Next

-----------------------------------------------------------------------------
(* The channel implements a box of commands *)

\* Only a held poll has a live request, and only an answered one has commands.
AnswerInv ==
  /\ waiter = "live" => poll = "held"
  /\ answer # <<>> => poll = "answered"

LEMMA AnswerStep == PollInv /\ OutboxInv /\ AnswerInv /\ [Next]_vars => AnswerInv'
<1> SUFFICES ASSUME PollInv, OutboxInv, AnswerInv, [Next]_vars PROVE AnswerInv'
  OBVIOUS
<1> USE DEF AnswerInv
<1>s. CASE UNCHANGED <<waiter, poll, answer>>
  BY <1>s
<1>1. ASSUME NEW c \in Conns,
             connectWs(c) \/ WsOpens(c) \/ WsDelivers(c) \/ onConnection(c) \/ WsMessage(c)
             \/ WsClose(c)
      PROVE  UNCHANGED <<waiter, poll, answer>>
  BY <1>1 DEF connectWs, WsOpens, WsDelivers, onConnection, WsMessage, WsClose, supervisor, pollState
<1>2. ASSUME NEW c \in Conns, WsCloses(c) PROVE AnswerInv'
  <2>1. mode # "longpoll"
    BY <1>2 DEF WsCloses, OutboxInv, InUse
  <2>2. poll = "idle" /\ waiter # "live" /\ answer = <<>>
    BY <2>1 DEF PollInv
  <2> QED BY <1>2, <2>2 DEF WsCloses, pollState
<1>3. CASE SendUp \/ PushSucceeds \/ PushFails \/ handlePush \/ PushIsRead \/ Sweep
           \/ (\E m \in 0..MaxUp : StrayArrives(m) \/ StrayIsRead(m)) \/ UNCHANGED vars
  BY <1>3, <1>s DEF SendUp, PushSucceeds, PushFails, handlePush, PushIsRead, StrayArrives,
     StrayIsRead, Contacted, Sweep, vars, supervisor, pollState
<1>4. CASE PollResumes \/ PollReturns \/ PollFails \/ SupervisorRestarts
  BY <1>4 DEF PollResumes, PollReturns, PollFails, SupervisorRestarts, Abandoned, pollState
<1>5. CASE SendDown
  <2>1. CASE LpSend(sentDown')
    BY <2>1 DEF LpSend
  <2>2. ASSUME NEW c \in Conns, WsSend(c, sentDown') PROVE AnswerInv'
    BY <1>5, <2>2 DEF SendDown, WsSend
  <2> QED BY <1>5, <2>1, <2>2 DEF SendDown
<1>6. CASE handlePoll \/ PollTimesOut \/ WaiterCloses \/ ControlPlaneRestarts
  BY <1>6 DEF handlePoll, PollTimesOut, WaiterCloses, ControlPlaneRestarts, supervisor
<1> QED
  BY <1>s, <1>1, <1>2, <1>3, <1>4, <1>5, <1>6 DEF Next

\* A step that hands nothing over and adds nothing loses something, or nothing.
LEMMA Loses ==
  ASSUME UNCHANGED <<received, sentDown>>, \A m \in 1..MaxDown : Waits(m)' => Waits(m)
  PROVE  Box!Next
<1> DEFINE batch == Waiting \ Waiting'
<1>1. Waiting' \subseteq Waiting
  BY DEF Waiting
<1>2. batch \in SUBSET Waiting /\ Waiting' = Waiting \ batch
  BY <1>1
<1> HIDE DEF batch
<1>3. Box!Lose(batch)
  BY <1>2 DEF Box!Lose
<1> QED BY <1>2, <1>3 DEF Box!Next

\* A step hands over the commands that are among `msgs`, which waited and are gone.
LEMMA HandsOver ==
  ASSUME TypeOK, OnceInv, NEW msgs, received' = Routed(msgs), UNCHANGED sentDown,
         \A m \in 1..MaxDown : /\ Among(msgs, m) => Waits(m)
                               /\ Single(msgs, m)
                               /\ Waits(m)' <=> Waits(m) /\ ~Among(msgs, m)
  PROVE  Box!Next
<1> DEFINE batch == {m \in 1..MaxDown : Among(msgs, m)}
<1>1. batch \in SUBSET Waiting
  BY DEF Waiting
<1>2. Waiting' = Waiting \ batch
  BY DEF Waiting
<1>3. \A m \in 1..MaxDown :
        received'[m] = IF m \in batch THEN received[m] + 1 ELSE received[m]
  BY RoutedAdds DEF TypeOK
<1>4. received' = [m \in 1..MaxDown |-> received'[m]]
  BY DEF Routed
<1>5. received' = [m \in 1..MaxDown |-> IF m \in batch THEN received[m] + 1 ELSE received[m]]
  BY <1>3, <1>4
<1> HIDE DEF batch
<1>6. Box!HandOver(batch)
  BY <1>2, <1>5 DEF Box!HandOver
<1> QED BY <1>1, <1>6 DEF Box!Next

\* A step adds a new command, or drops it at once.
LEMMA Sends ==
  ASSUME sentDown < MaxDown, sentDown' = sentDown + 1, UNCHANGED received,
         \/ \A m \in 1..MaxDown : Waits(m)' <=> Waits(m)
         \/ \A m \in 1..MaxDown : Waits(m)' <=> Waits(m) \/ m = sentDown',
         sentDown' \in 1..MaxDown
  PROVE  Box!Next
<1>1. CASE \A m \in 1..MaxDown : Waits(m)' <=> Waits(m)
  <2>1. Waiting' = Waiting
    BY <1>1 DEF Waiting
  <2> QED BY <2>1 DEF Box!Next, Box!Send
<1>2. CASE \A m \in 1..MaxDown : Waits(m)' <=> Waits(m) \/ m = sentDown'
  <2>1. Waiting' = Waiting \cup {sentDown'}
    BY <1>2 DEF Waiting
  <2> QED BY <2>1 DEF Box!Next, Box!Send
<1> QED BY <1>1, <1>2

LEMMA BoxStep ==
  PollInv /\ OutboxInv /\ TypeInv /\ OnceInv /\ AnswerInv /\ [Next]_vars => [Box!Next]_Box!boxVars
<1> SUFFICES ASSUME PollInv, OutboxInv, TypeOK, OnceInv, AnswerInv, [Next]_vars
             PROVE  Box!Next
  BY DEF TypeInv
<1> USE ChannelAssumption
<1>1. \A m \in 1..MaxDown : m # 0 /\ OncePer(m)
  BY DEF OnceInv
<1>2. \A m \in 1..MaxDown : ~Among(<<>>, m) /\ ~Among(<<0>>, m)
  BY <1>1, EmptyHasNone, OneIsSingle
<1>3. /\ down \in [Conns -> Seq(0..MaxDown)] /\ DOMAIN down = Conns
      /\ queue \in Seq(0..MaxDown) /\ answer \in Seq(0..MaxDown) /\ sentDown \in 0..MaxDown
  BY DEF TypeOK
<1>4. ASSUME UNCHANGED <<received, sentDown, down>>,
             \A m \in 1..MaxDown : Among(queue', m) => Among(queue, m) \/ Among(answer, m),
             \A m \in 1..MaxDown : Among(answer', m) => Among(queue, m) \/ Among(answer, m)
      PROVE  Box!Next
  <2>1. \A m \in 1..MaxDown : Waits(m)' => Waits(m)
    BY <1>4 DEF Waits
  <2> QED BY <1>4, <2>1, Loses
<1>s. CASE UNCHANGED <<received, sentDown, down, queue, answer>>
  BY <1>4, <1>s
<1>5. ASSUME NEW c \in Conns, connectWs(c) \/ WsOpens(c) \/ WsMessage(c) \/ WsClose(c)
      PROVE  UNCHANGED <<received, sentDown, down, queue, answer>>
  BY <1>5 DEF connectWs, WsOpens, WsMessage, WsClose, supervisor, pollState, counters, observed
<1>6. CASE SendUp \/ PushSucceeds \/ PushFails \/ PushIsRead \/ PollResumes \/ PollTimesOut
           \/ WaiterCloses \/ (\E k \in 0..MaxUp : StrayIsRead(k)) \/ UNCHANGED vars
  BY <1>s, <1>6 DEF SendUp, PushSucceeds, PushFails, PushIsRead, PollResumes, PollTimesOut,
     WaiterCloses, StrayIsRead, Inbound, vars, supervisor, network, pollState, counters, observed
<1>7. ASSUME NEW c \in Conns, WsCloses(c) \/ onConnection(c) PROVE Box!Next
  <2>1. UNCHANGED <<received, sentDown, queue, answer>>
    BY <1>7 DEF WsCloses, onConnection, supervisor, pollState, counters, observed
  <2>2. down' = [down EXCEPT ![c] = <<>>] \/ down' = [down EXCEPT ![c] = <<0>>]
    BY <1>7 DEF WsCloses, onConnection
  <2>3. \A d \in Conns : down'[d] = down[d] \/ down'[d] = <<>> \/ down'[d] = <<0>>
    BY <1>3, <2>2
  <2>4. \A m \in 1..MaxDown : Waits(m)' => Waits(m)
    BY <1>2, <2>1, <2>3 DEF Waits
  <2> QED BY <2>1, <2>4, Loses
<1>8. ASSUME NEW c \in Conns, WsDelivers(c) PROVE Box!Next
  <2> DEFINE msgs == <<Head(down[c])>>
  <2>1. /\ down[c] # <<>> /\ received' = Routed(msgs)
        /\ down' = [down EXCEPT ![c] = Tail(down[c])]
        /\ UNCHANGED <<queue, answer, sentDown>>
    BY <1>8 DEF WsDelivers, supervisor, pollState, counters
  <2>2. \A m \in 1..MaxDown : (Among(msgs, m) <=> Head(down[c]) = m) /\ Single(msgs, m)
    BY OneIsSingle
  <2>3. \A d \in Conns : down'[d] = IF d = c THEN Tail(down[c]) ELSE down[d]
    BY <1>3, <2>1
  <2>4. ASSUME NEW m \in 1..MaxDown
        PROVE  /\ Among(msgs, m) => Waits(m)
               /\ Waits(m)' <=> Waits(m) /\ ~Among(msgs, m)
    <3>1. /\ Single(down[c], m)
          /\ Among(down[c], m) => ~Among(queue, m) /\ ~Among(answer, m)
          /\ \A d \in Conns : Among(down[c], m) /\ Among(down[d], m) => c = d
      BY <1>1 DEF OncePer
    <3>2. /\ Among(down[c], m) <=> Head(down[c]) = m \/ Among(Tail(down[c]), m)
          /\ Head(down[c]) = m => ~Among(Tail(down[c]), m)
      BY <1>3, <2>1, <3>1, TailAmong
    <3> QED BY <2>1, <2>2, <2>3, <3>1, <3>2 DEF Waits
  <2> HIDE DEF msgs
  <2> QED BY <2>1, <2>2, <2>4, HandsOver
<1>9. CASE PollReturns
  <2>1. received' = Routed(answer) /\ answer' = <<>> /\ UNCHANGED <<queue, down, sentDown>>
    BY <1>9 DEF PollReturns, network, pollState, counters
  <2>2. ASSUME NEW m \in 1..MaxDown
        PROVE  /\ Among(answer, m) => Waits(m)
               /\ Single(answer, m)
               /\ Waits(m)' <=> Waits(m) /\ ~Among(answer, m)
    BY <1>1, <1>2, <2>1 DEF Waits, OncePer
  <2> QED BY <2>1, <2>2, HandsOver
<1>10. CASE PollFails
  <2>1. answer' = <<>> /\ UNCHANGED <<queue, down, sentDown, received>>
    BY <1>10 DEF PollFails, network, counters, observed
  <2> QED BY <1>2, <1>4, <2>1
<1>11. CASE SupervisorRestarts
  <2>1. /\ answer' = <<>> /\ \A d \in Conns : down'[d] = <<>>
        /\ UNCHANGED <<queue, sentDown, received>>
    BY <1>11 DEF SupervisorRestarts, observed
  <2>2. \A m \in 1..MaxDown : Waits(m)' => Waits(m)
    BY <1>2, <2>1 DEF Waits
  <2> QED BY <2>1, <2>2, Loses
<1>12. CASE handlePush \/ \E k \in 0..MaxUp : StrayArrives(k)
  <2>1. (queue' = queue \/ queue' = <<0>>) /\ UNCHANGED <<answer, down, sentDown, received>>
    BY <1>12 DEF handlePush, StrayArrives, Contacted, Opened, supervisor, network, counters, observed
  <2> QED BY <1>2, <1>4, <2>1
<1>13. CASE handlePoll
  <2>1. /\ queue' = <<>> /\ UNCHANGED <<down, sentDown, received>>
        /\ answer' = queue \/ answer' = <<0>> \/ UNCHANGED answer
    BY <1>13 DEF handlePoll, Opened, network, counters, observed
  <2> QED BY <1>2, <1>4, <2>1
<1>14. CASE Sweep \/ ControlPlaneRestarts
  <2>1. queue' = <<>> /\ UNCHANGED <<answer, down, sentDown, received>>
    BY <1>14 DEF Sweep, ControlPlaneRestarts, supervisor, network, counters, observed
  <2> QED BY <1>2, <1>4, <2>1
<1>15. CASE SendDown
  <2> DEFINE k == sentDown + 1
  <2>1. /\ k \in 0..MaxDown /\ sentDown' \in 1..MaxDown /\ sentDown < MaxDown /\ sentDown' = k
        /\ UNCHANGED received
    BY <1>3, <1>15 DEF SendDown, observed
  <2> HIDE DEF k
  <2>2. CASE LpSend(k)
    <3>1. UNCHANGED down
      BY <2>2 DEF LpSend
    <3>2. \A m \in 1..MaxDown : Among(Append(queue, k), m) <=> Among(queue, m) \/ k = m
      BY <1>3, <2>1, AppendAmong
    <3>3. CASE waiter = "none"
      <4>1. queue' = Append(queue, k) /\ UNCHANGED answer
        BY <2>2, <3>3 DEF LpSend
      <4>2. \A m \in 1..MaxDown : Waits(m)' <=> Waits(m) \/ m = sentDown'
        BY <2>1, <3>1, <3>2, <4>1 DEF Waits
      <4> QED BY <2>1, <4>2, Sends DEF k
    <3>4. CASE waiter = "live"
      <4>1. queue' = <<>> /\ answer' = Append(queue, k) /\ answer = <<>>
        BY <2>2, <3>4 DEF LpSend, AnswerInv
      <4>2. \A m \in 1..MaxDown : Waits(m)' <=> Waits(m) \/ m = sentDown'
        BY <1>2, <2>1, <3>1, <3>2, <4>1 DEF Waits
      <4> QED BY <2>1, <4>2, Sends DEF k
    <3>5. CASE waiter \notin {"none", "live"}
      <4>1. queue' = <<>> /\ UNCHANGED answer /\ queue = <<>>
        BY <2>2, <3>5 DEF LpSend, PollInv, HeldPollHasNoMail
      <4>2. \A m \in 1..MaxDown : Waits(m)' <=> Waits(m)
        BY <3>1, <4>1 DEF Waits
      <4> QED BY <2>1, <4>2, Sends DEF k
    <3> QED BY <3>3, <3>4, <3>5
  <2>3. ASSUME NEW c \in Conns, WsSend(c, k) PROVE Box!Next
    <3>1. UNCHANGED <<queue, answer>>
      BY <2>3 DEF WsSend
    <3>2. \A m \in 1..MaxDown : Among(Append(down[c], k), m) <=> Among(down[c], m) \/ k = m
      BY <1>3, <2>1, AppendAmong
    <3>3. CASE server[c] = "open" /\ client[c] # "closed"
      <4>1. \A d \in Conns : down'[d] = IF d = c THEN Append(down[c], k) ELSE down[d]
        BY <1>3, <2>3, <3>3 DEF WsSend
      <4>2. \A m \in 1..MaxDown : Waits(m)' <=> Waits(m) \/ m = sentDown'
        BY <2>1, <3>1, <3>2, <4>1 DEF Waits
      <4> QED BY <2>1, <4>2, Sends DEF k
    <3>4. CASE ~(server[c] = "open" /\ client[c] # "closed")
      <4>1. \A d \in Conns : down'[d] = down[d]
        BY <1>3, <2>3, <3>4 DEF WsSend
      <4>2. \A m \in 1..MaxDown : Waits(m)' <=> Waits(m)
        BY <3>1, <4>1 DEF Waits
      <4> QED BY <2>1, <4>2, Sends DEF k
    <3> QED BY <3>3, <3>4
  <2>4. LpSend(k) \/ \E c \in Conns : WsSend(c, k)
    BY <1>15, <2>1 DEF SendDown
  <2> QED BY <2>2, <2>3, <2>4
<1> QED
  BY <1>s, <1>5, <1>6, <1>7, <1>8, <1>9, <1>10, <1>11, <1>12, <1>13, <1>14, <1>15 DEF Next

LEMMA BoxInit == Init => Box!Init
<1> SUFFICES ASSUME Init PROVE Box!Init
  OBVIOUS
<1>1. queue = <<>> /\ answer = <<>> /\ \A c \in Conns : down[c] = <<>>
  BY DEF Init
<1>2. \A m \in 1..MaxDown : ~Waits(m)
  BY <1>1, EmptyHasNone DEF Waits
<1>3. Waiting = {}
  BY <1>2 DEF Waiting
<1> QED BY <1>3 DEF Init, Box!Init

LEMMA InitOnce == Init => OnceInv /\ AnswerInv
<1> SUFFICES ASSUME Init PROVE OnceInv /\ AnswerInv
  OBVIOUS
<1>1. ASSUME NEW m \in 1..MaxDown PROVE OncePer(m)
  <2>1. queue = <<>> /\ answer = <<>> /\ (\A c \in Conns : down[c] = <<>>) /\ received[m] = 0
    BY DEF Init
  <2>2. ~Among(<<>>, m) /\ Single(<<>>, m)
    BY EmptyHasNone
  <2> QED BY <2>1, <2>2 DEF OncePer
<1>2. AnswerInv
  BY DEF Init, AnswerInv
<1> QED BY <1>1, <1>2 DEF OnceInv

\* The channel, with its transports, polls, failovers and restarts, implements
\* a box from which each command is taken once or lost: what is handed to the
\* router was sent, was not handed over before and was not given up before
\* (session.send, handlePoll and lpLoop; channel.mjs, connection.mjs).
THEOREM ImplementsCommandBox == Spec => BoxSpec
<1>1. Init => Box!Init
  BY BoxInit
<1>2. PollInv /\ OutboxInv /\ TypeInv /\ OnceInv /\ AnswerInv /\ [Next]_vars
        => [Box!Next]_Box!boxVars
  BY BoxStep
<1> QED
  BY <1>1, <1>2, InitTypes, InitOnce, PollStep, OutboxStep, TypeStep, OnceStep, AnswerStep, PTL
     DEF Spec, BoxSpec, Box!Spec

\* Whatever the failovers, failed requests and restarts, the router is given
\* each command at most once (the queue is emptied as it is answered,
\* channel.mjs).
THEOREM DeliversAtMostOnce == Spec => []CommandsAtMostOnce
<1>1. OnceInv => CommandsAtMostOnce
  BY DEF OnceInv, OncePer, CommandsAtMostOnce
<1> QED BY <1>1, InitTypes, InitOnce, PollStep, OutboxStep, TypeStep, OnceStep, PTL DEF Spec
-----------------------------------------------------------------------------
(* The order of the pushed messages *)

\* The numbered messages of `box` were pushed last or not yet, were created,
\* and stand in the order of their numbers.
InOrder(box, done, created) ==
  /\ \A i \in 1..Len(box) : box[i] # 0 => done <= box[i] /\ box[i] <= created
  /\ \A i, k \in 1..Len(box) : i < k /\ box[i] # 0 /\ box[k] # 0 => box[i] <= box[k]

\* What a stray push of message m brings: something that was handled before, that is
\* of a process that is gone, or that the supervisor goes on pushing.
Harmless(m) == m \in handled \/ m <= born \/ (outbox # <<>> /\ m = Head(outbox))

OrderInv ==
  /\ pushed \in 0..MaxUp /\ pushed <= sentUp
  /\ born \in Nat
  /\ stray \subseteq (0..MaxUp) \X {"sent", "reading"}
  /\ InOrder(outbox, pushed, sentUp)
  /\ \A r \in stray : /\ r[1] <= sentUp
                      /\ Harmless(r[1])
                      /\ mode # "longpoll" => r[1] <= born

\* What is buffered is a hello (0) or the newest message.
LEMMA BufferedInOrder ==
  ASSUME NEW box \in Seq(0..MaxUp), NEW done \in Nat, NEW created \in Nat, NEW newest \in Nat,
         NEW m \in 0..MaxUp, InOrder(box, done, created), done <= created, created <= newest,
         m = 0 \/ m = newest
  PROVE  InOrder(Buffered(box, m), done, newest)
<1>1. MaxUp \in Nat
  BY ChannelAssumption
<1>2. \A i \in 1..Len(box) : box[i] \in 0..MaxUp
  BY ElementOfSeq
<1>3. InOrder(box, done, newest)
  BY <1>1, <1>2 DEF InOrder
<1>4. CASE Buffered(box, m) = box
  BY <1>3, <1>4
<1>5. CASE Buffered(box, m) = Append(box, m)
  <2> DEFINE b == Append(box, m)
  <2>1. /\ Len(b) = Len(box) + 1 /\ Len(box) \in Nat
        /\ \A i \in 1..Len(box) : b[i] = box[i]
        /\ b[Len(box) + 1] = m
    BY AppendProperties
  <2> HIDE DEF b
  <2>2. \A i \in 1..Len(b) : b[i] # 0 => done <= b[i] /\ b[i] <= newest
    BY <1>1, <1>2, <1>3, <2>1 DEF InOrder
  <2>3. ASSUME NEW i \in 1..Len(b), NEW k \in 1..Len(b), i < k, b[i] # 0, b[k] # 0
        PROVE  b[i] <= b[k]
    <3>1. i \in 1..Len(box)
      BY <2>1, <2>3
    <3>2. CASE k \in 1..Len(box)
      BY <1>3, <2>1, <2>3, <3>1, <3>2 DEF InOrder
    <3>3. CASE k = Len(box) + 1
      BY <1>1, <1>2, <1>3, <2>1, <2>3, <3>1, <3>3 DEF InOrder
    <3> QED BY <2>1, <3>2, <3>3
  <2>4. InOrder(b, done, newest)
    BY <2>2, <2>3 DEF InOrder
  <2> QED BY <1>5, <2>4 DEF b
<1> QED BY <1>4, <1>5 DEF Buffered

LEMMA TailInOrder ==
  ASSUME NEW box \in Seq(0..MaxUp), box # <<>>, NEW done, NEW created, InOrder(box, done, created)
  PROVE  InOrder(Tail(box), done, created)
<1> DEFINE b == Tail(box)
<1>1. /\ Len(b) = Len(box) - 1 /\ Len(box) \in Nat
      /\ \A i \in 1..Len(b) : b[i] = box[i + 1]
  OBVIOUS
<1> HIDE DEF b
<1>2. \A i \in 1..Len(b) : i + 1 \in 1..Len(box)
  BY <1>1
<1>3. \A i \in 1..Len(b) : b[i] # 0 => done <= b[i] /\ b[i] <= created
  BY <1>1, <1>2 DEF InOrder
<1>4. ASSUME NEW i \in 1..Len(b), NEW k \in 1..Len(b), i < k, b[i] # 0, b[k] # 0
      PROVE  b[i] <= b[k]
  <2>1. i + 1 < k + 1 /\ i + 1 \in 1..Len(box) /\ k + 1 \in 1..Len(box)
    BY <1>2, <1>4
  <2>2. box[i + 1] # 0 /\ box[k + 1] # 0 /\ b[i] = box[i + 1] /\ b[k] = box[k + 1]
    BY <1>1, <1>4
  <2> QED BY <2>1, <2>2 DEF InOrder
<1> QED BY <1>3, <1>4 DEF InOrder, b

\* The message at the head is pushed: all that follow have higher numbers.
LEMMA HeadInOrder ==
  ASSUME NEW box \in Seq(0..MaxUp), box # <<>>, NEW done \in Nat, NEW created \in Nat,
         InOrder(box, done, created), Head(box) # 0
  PROVE  /\ Head(box) \in 0..MaxUp /\ done <= Head(box) /\ Head(box) <= created
         /\ InOrder(box, Head(box), created)
<1>1. Head(box) = box[1] /\ 1 \in 1..Len(box) /\ Len(box) \in Nat
  OBVIOUS
<1>2. box[1] \in 0..MaxUp /\ MaxUp \in Nat /\ \A i \in 1..Len(box) : box[i] \in 0..MaxUp
  BY <1>1, ChannelAssumption
<1>3. done <= box[1] /\ box[1] <= created
  BY <1>1 DEF InOrder
<1>4. \A i \in 1..Len(box) : box[i] # 0 => box[1] <= box[i] /\ box[i] <= created
  <2> SUFFICES ASSUME NEW i \in 1..Len(box), box[i] # 0 PROVE box[1] <= box[i] /\ box[i] <= created
    OBVIOUS
  <2>1. box[i] <= created
    BY DEF InOrder
  <2>2. CASE i = 1
    BY <1>2, <2>1, <2>2
  <2>3. CASE i # 1
    <3>1. 1 < i
      BY <1>1, <2>3
    <3> QED BY <1>1, <2>1, <3>1 DEF InOrder
  <2> QED BY <2>2, <2>3
<1>5. InOrder(box, box[1], created)
  BY <1>4 DEF InOrder
<1> QED BY <1>1, <1>2, <1>3, <1>5

\* What is pushed first is the head of the outbox.
LEMMA InboundInOrder ==
  ASSUME OutboxInv, OrderInv, NEW m \in 0..MaxUp, Harmless(m), Inbound(m),
         UNCHANGED <<mode, outbox, sentUp, born>>, stray' \subseteq stray
  PROVE  OrderInv' /\ pushed' >= pushed
<1>m. /\ MaxUp \in Nat /\ outbox \in Seq(0..MaxUp) /\ sentUp \in 0..MaxUp /\ sentUp \in Nat
      /\ pushed \in 0..MaxUp /\ pushed \in Nat /\ pushed <= sentUp /\ born \in Nat
      /\ InOrder(outbox, pushed, sentUp)
  BY ChannelAssumption DEF OutboxInv, OutboxTypeOK, OrderInv
<1>1. \A r \in stray' : r[1] <= sentUp /\ Harmless(r[1])' /\ (mode # "longpoll" => r[1] <= born)
  BY DEF OrderInv, Harmless, Inbound
<1>2. CASE m \in handled \/ m <= born
  <2>1. pushed' = pushed
    BY <1>2 DEF Inbound
  <2> QED BY <1>m, <1>1, <2>1 DEF OrderInv
<1>3. CASE m \notin handled /\ ~(m <= born)
  <2>1. outbox # <<>> /\ m = Head(outbox) /\ pushed' = m /\ m # 0
    BY <1>m, <1>3 DEF Harmless, Inbound
  <2>2. m \in 0..MaxUp /\ pushed <= m /\ m <= sentUp /\ InOrder(outbox, m, sentUp)
    BY <1>m, <2>1, HeadInOrder
  <2> QED BY <1>m, <1>1, <2>1, <2>2 DEF OrderInv
<1> QED BY <1>2, <1>3

\* The stray pushes are at most one more, of the head of the outbox.
LEMMA StrayInOrder ==
  ASSUME OutboxInv, OrderInv, PushGoesAstray
  PROVE  \A r \in stray' : /\ r \in (0..MaxUp) \X {"sent", "reading"}
                           /\ r[1] <= sentUp /\ Harmless(r[1])
<1>1. \A r \in stray : r \in (0..MaxUp) \X {"sent", "reading"} /\ r[1] <= sentUp /\ Harmless(r[1])
  BY DEF OrderInv
<1>2. CASE UNCHANGED stray
  BY <1>1, <1>2
<1>3. CASE push \in {"sent", "reading"} /\ stray' = stray \cup {<<Head(outbox), push>>}
  <2>1. /\ outbox \in Seq(0..MaxUp) /\ outbox # <<>> /\ InOrder(outbox, pushed, sentUp)
        /\ pushed \in Nat /\ sentUp \in Nat
    <3>1. outbox \in Seq(0..MaxUp) /\ sentUp \in 0..MaxUp /\ MaxUp \in Nat
      BY ChannelAssumption DEF OutboxInv, OutboxTypeOK
    <3>2. outbox # <<>>
      BY <1>3 DEF OutboxInv
    <3>3. pushed \in Nat /\ InOrder(outbox, pushed, sentUp)
      BY <3>1 DEF OrderInv
    <3> QED BY <3>1, <3>2, <3>3
  <2>2. Head(outbox) \in 0..MaxUp
    BY <2>1, HeadAndTail
  <2>3. Head(outbox) <= sentUp
    BY <2>1, <2>2, HeadInOrder
  <2>4. Harmless(Head(outbox))
    BY <2>1 DEF Harmless
  <2> DEFINE r == <<Head(outbox), push>>
  <2>5. r \in (0..MaxUp) \X {"sent", "reading"} /\ r[1] <= sentUp /\ Harmless(r[1])
    BY <1>3, <2>2, <2>3, <2>4
  <2> HIDE DEF r
  <2>6. stray' = stray \cup {r}
    BY <1>3 DEF r
  <2> QED BY <1>1, <2>5, <2>6
<1> QED BY <1>2, <1>3 DEF PushGoesAstray

LEMMA OrderStep ==
  OutboxInv /\ OrderInv /\ [Next]_vars => OrderInv' /\ pushed' >= pushed
<1> SUFFICES ASSUME OutboxInv, OrderInv, [Next]_vars PROVE OrderInv' /\ pushed' >= pushed
  OBVIOUS
<1>n. /\ MaxUp \in Nat /\ outbox \in Seq(0..MaxUp) /\ sentUp \in 0..MaxUp /\ sentUp \in Nat
      /\ pushed \in 0..MaxUp /\ pushed \in Nat /\ pushed <= sentUp /\ 0 \in 0..MaxUp
      /\ InOrder(outbox, pushed, sentUp) /\ sentUp <= sentUp
  BY ChannelAssumption DEF OutboxInv, OutboxTypeOK, OrderInv
<1>r. /\ born \in Nat /\ stray \subseteq (0..MaxUp) \X {"sent", "reading"}
      /\ \A r \in stray : r[1] \in 0..MaxUp
      /\ \A r \in stray : /\ r[1] <= sentUp /\ Harmless(r[1])
                          /\ mode # "longpoll" => r[1] <= born
  BY <1>n DEF OrderInv
<1>s. CASE UNCHANGED <<mode, outbox, pushed, sentUp, born, stray>> /\ handled \subseteq handled'
  BY <1>n, <1>r, <1>s DEF OrderInv, Harmless
<1>1. ASSUME NEW c \in Conns, WsOpens(c) PROVE OrderInv' /\ pushed' >= pushed
  <2>1. outbox' = <<>> /\ UNCHANGED <<mode, pushed, sentUp, born, stray>> /\ mode # "longpoll"
    BY <1>1 DEF WsOpens, OutboxInv, OutboxTypeOK, InUse, counters, observed
  <2>2. InOrder(<<>>, pushed, sentUp)
    BY DEF InOrder
  <2> QED BY <1>n, <1>r, <2>1, <2>2 DEF OrderInv, Harmless
<1>2. ASSUME NEW c \in Conns, WsCloses(c) PROVE OrderInv' /\ pushed' >= pushed
  <2>1. /\ UNCHANGED <<pushed, sentUp, born, stray, handled>> /\ mode # "longpoll"
        /\ outbox' = outbox \/ outbox' = Buffered(outbox, 0)
    BY <1>2 DEF WsCloses, OutboxInv, InUse, counters, observed
  <2>2. InOrder(Buffered(outbox, 0), pushed, sentUp)
    BY <1>n, <1>r, BufferedInOrder
  <2> QED BY <1>n, <1>r, <2>1, <2>2 DEF OrderInv, Harmless
<1>3. CASE SendUp
  <2>1. /\ sentUp' \in 0..MaxUp /\ sentUp' \in Nat /\ sentUp <= sentUp' /\ pushed <= sentUp'
        /\ UNCHANGED <<mode, pushed, born, stray, handled>>
        /\ outbox' = outbox \/ outbox' = Buffered(outbox, sentUp')
    BY <1>n, <1>r, <1>3 DEF SendUp, observed
  <2>2. InOrder(Buffered(outbox, sentUp'), pushed, sentUp')
    BY <1>n, <1>r, <2>1, BufferedInOrder
  <2>3. InOrder(outbox, pushed, sentUp')
    <3>1. \A i \in 1..Len(outbox) : outbox[i] \in 0..MaxUp
      BY <1>n
    <3> QED BY <1>n, <2>1, <3>1 DEF InOrder
  <2>4. outbox # <<>> => outbox' # <<>> /\ Head(outbox') = Head(outbox)
    <3>1. outbox # <<>> => /\ Buffered(outbox, sentUp') # <<>>
                           /\ Head(Buffered(outbox, sentUp')) = Head(outbox)
      BY <1>n, <2>1, BufferedFacts
    <3> QED BY <2>1, <3>1
  <2>5. \A r \in stray : r[1] <= sentUp' /\ Harmless(r[1])'
    BY <1>n, <1>r, <2>1, <2>4 DEF Harmless
  <2> QED BY <1>n, <1>r, <2>1, <2>2, <2>3, <2>5 DEF OrderInv
<1>4. CASE PushSucceeds
  <2>1. /\ outbox # <<>> /\ outbox' = Tail(outbox) /\ Head(outbox) \in handled
        /\ UNCHANGED <<mode, pushed, sentUp, born, stray, handled>>
    BY <1>4 DEF PushSucceeds, OutboxInv, network, counters, observed
  <2>2. \A r \in stray : Harmless(r[1])'
    BY <1>n, <1>r, <2>1 DEF Harmless
  <2>3. InOrder(outbox', pushed, sentUp)
    BY <1>n, <1>r, <2>1, TailInOrder
  <2> QED BY <1>n, <1>r, <2>1, <2>2, <2>3 DEF OrderInv
<1>5. CASE PushFails
  <2>1. /\ UNCHANGED <<mode, outbox, pushed, sentUp, born, handled>> /\ mode = "longpoll"
        /\ PushGoesAstray
    BY <1>5 DEF PushFails, OutboxInv, counters, observed
  <2>2. \A r \in stray' : r \in (0..MaxUp) \X {"sent", "reading"} /\ r[1] <= sentUp /\ Harmless(r[1])
    BY <2>1, StrayInOrder
  <2> QED BY <1>n, <1>r, <2>1, <2>2 DEF OrderInv, Harmless
<1>6. CASE SupervisorRestarts
  <2>1. outbox' = <<>> /\ born' = sentUp /\ UNCHANGED <<pushed, sentUp>> /\ PushGoesAstray
    BY <1>6 DEF SupervisorRestarts, observed
  <2>2. \A r \in stray' : r \in (0..MaxUp) \X {"sent", "reading"} /\ r[1] <= sentUp
    BY <2>1, StrayInOrder
  <2>3. InOrder(<<>>, pushed, sentUp)
    BY DEF InOrder
  <2> QED BY <1>n, <1>r, <2>1, <2>2, <2>3 DEF OrderInv, Harmless
<1>7. ASSUME NEW c \in Conns,
             connectWs(c) \/ WsDelivers(c) \/ onConnection(c) \/ WsMessage(c) \/ WsClose(c)
      PROVE  UNCHANGED <<mode, outbox, pushed, sentUp, born, stray>> /\ handled \subseteq handled'
  BY <1>7 DEF connectWs, WsDelivers, onConnection, WsMessage, WsClose, supervisor, counters, observed
<1>8. CASE PollResumes \/ PollReturns \/ PollFails \/ handlePush
  BY <1>s, <1>8 DEF PollResumes, PollReturns, PollFails, handlePush, network, counters, observed
<1>9. CASE SendDown \/ handlePoll \/ PollTimesOut \/ WaiterCloses \/ Sweep
  BY <1>s, <1>9 DEF SendDown, handlePoll, PollTimesOut, WaiterCloses, Sweep, supervisor, network,
     counters, observed
<1>10. CASE ControlPlaneRestarts
  <2>1. UNCHANGED <<mode, outbox, pushed, sentUp, born, handled>> /\ stray' \subseteq stray
    BY <1>10 DEF ControlPlaneRestarts, observed
  <2> QED BY <1>n, <1>r, <2>1 DEF OrderInv, Harmless
<1>11. CASE PushIsRead
  <2>1. /\ outbox # <<>> /\ Inbound(Head(outbox))
        /\ UNCHANGED <<mode, outbox, sentUp, born, stray>>
    BY <1>11 DEF PushIsRead, OutboxInv, network, counters
  <2>2. Head(outbox) \in 0..MaxUp /\ Harmless(Head(outbox))
    BY <1>n, <1>r, <2>1, HeadAndTail DEF Harmless
  <2> QED BY <2>1, <2>2, InboundInOrder
<1>12. ASSUME NEW m \in 0..MaxUp, StrayArrives(m) PROVE OrderInv' /\ pushed' >= pushed
  <2>1. /\ UNCHANGED <<mode, outbox, pushed, sentUp, born, handled>>
        /\ <<m, "sent">> \in stray
        /\ \A r \in stray' : r \in stray \/ r = <<m, "reading">>
    BY <1>12 DEF StrayArrives, supervisor, counters, observed
  <2>2. m <= sentUp /\ Harmless(m) /\ (mode # "longpoll" => m <= born)
    BY <1>n, <1>r, <2>1
  <2> QED BY <1>n, <1>r, <2>1, <2>2 DEF OrderInv, Harmless
<1>13. ASSUME NEW m \in 0..MaxUp, StrayIsRead(m) PROVE OrderInv' /\ pushed' >= pushed
  <2>1. /\ <<m, "reading">> \in stray /\ Inbound(m) /\ stray' \subseteq stray
        /\ UNCHANGED <<mode, outbox, sentUp, born>>
    BY <1>13 DEF StrayIsRead, supervisor, counters
  <2>2. Harmless(m)
    BY <1>n, <1>r, <2>1
  <2> QED BY <2>1, <2>2, InboundInOrder
<1>14. CASE UNCHANGED vars
  BY <1>s, <1>14 DEF vars, supervisor, network, counters, observed
<1> QED
  BY <1>s, <1>1, <1>2, <1>3, <1>4, <1>5, <1>6, <1>7, <1>8, <1>9, <1>10, <1>11, <1>12, <1>13, <1>14
     DEF Next

\* The messages that a process of the supervisor pushes are learnt in the order in
\* which it sent them: a push that was given up and comes late, after its retry and
\* the pushes that followed, brings nothing that was not handled before (lpFlush in
\* connection.mjs, handlePush in channel.mjs).
THEOREM PushesKeepOrder == Spec => PushKeepsOrder
<1>1. Init => OrderInv
  <2>1. InOrder(<<>>, 0, 0)
    BY DEF InOrder
  <2> QED BY <2>1, ChannelAssumption DEF Init, OrderInv
<1>2. OutboxInv /\ OrderInv /\ [Next]_vars => OrderInv' /\ [pushed' >= pushed]_vars
  BY OrderStep
<1> QED BY <1>1, <1>2, InitTypes, PollStep, OutboxStep, PTL DEF Spec, PushKeepsOrder
===============================================================================
