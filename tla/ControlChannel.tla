---------------------------- MODULE ControlChannel ----------------------------
(***************************************************************************)
(* The control channel between one supervisor                              *)
(* (control-plane-agent/core/connection.mjs) and the control plane         *)
(* (control-plane/server/channel.mjs): WebSocket connections, the fallback *)
(* to long-polling, and the one transport session that the registry holds  *)
(* for the node.                                                           *)
(*                                                                         *)
(* The two ends of a connection notice its end independently, so an old    *)
(* connection may still be open at the control plane when its successor    *)
(* opens.  What is in flight when an end closes is lost.  A long-poll      *)
(* request, or its answer, may fail at any time; a push that the           *)
(* supervisor has given up may still be handled, long after its retry and  *)
(* the pushes that followed.  Either process may restart.  Time is not     *)
(* modelled: a timer may fire whenever its other conditions hold.          *)
(* Credentials stay valid (no answer is a 401).                            *)
(*                                                                         *)
(* Messages are numbered in the order in which they are sent; 0 stands for *)
(* the `hello` on the way up and for the `hello_ack` on the way down,      *)
(* which the supervisor ignores.                                           *)
(***************************************************************************)
EXTENDS Naturals, Sequences, FiniteSets

CONSTANTS Conns,            \* bound: WebSocket connections that exist at a time
          WsFailoverAfter,  \* failed attempts before it falls back
          OutboxLimit,      \* capacity of the outbox (1000 in the code)
          MaxUp, MaxDown,   \* bounds: messages sent up, commands sent down
          MaxStray,         \* bound: pushes given up and still on their way
          MaxRestarts       \* bound: restarts of either process

ASSUME ChannelAssumption ==
  /\ "none" \notin Conns /\ "longpoll" \notin Conns
  /\ WsFailoverAfter \in Nat \ {0}
  /\ OutboxLimit \in Nat
  /\ MaxUp \in Nat /\ MaxDown \in Nat /\ MaxStray \in Nat /\ MaxRestarts \in Nat

VARIABLES
  mode,      \* the supervisor's active transport
  failures,  \* wsPreOpenFailures
  client,    \* client[c]: the supervisor's end of connection c
  server,    \* server[c]: the control plane's end
  up, down,  \* up[c], down[c]: what is in flight on connection c
  outbox,    \* the supervisor's buffer of messages to send up
  push,      \* POST /agent/push of Head(outbox): idle, sent, reading (the
             \* control plane awaits its body), or handled
  stray,     \* pushes given up: the message, and sent or reading
  poll,      \* GET /agent/poll: idle, sent, held, or answered
  answer,    \* the commands in the answer to the poll
  lp,        \* whether lpSessions has an entry for the node
  queue,     \* that entry's queue of commands
  waiter,    \* its held request: none, live, or dead (the client is gone)
  session,   \* what registry.sessions holds for the node
  sentUp, sentDown, restarts,  \* how many so far
  born,      \* sentUp when the supervisor's process started
  handled,   \* messages handleInbound has been given
  pushed,    \* the last one of this process that a push was the first to bring
  received   \* received[m]: how often the supervisor's router was given command m

supervisor == <<mode, failures, outbox, push, poll, answer>>
network == <<client, server, up, down, stray>>
pollState == <<lp, queue, waiter, session>>
counters == <<sentUp, sentDown, restarts, born>>
observed == <<handled, pushed, received>>
vars == <<supervisor, network, pollState, counters, observed>>

TypeOK ==
  /\ mode \in {"websocket", "longpoll"}
  /\ failures \in 0..WsFailoverAfter
  /\ client \in [Conns -> {"none", "connecting", "open", "closed"}]
  /\ server \in [Conns -> {"none", "open", "closed"}]
  /\ up \in [Conns -> Seq(0..MaxUp)]
  /\ down \in [Conns -> Seq(0..MaxDown)]
  /\ outbox \in Seq(0..MaxUp) /\ Len(outbox) <= OutboxLimit
  /\ push \in {"idle", "sent", "reading", "handled"}
  /\ stray \subseteq (0..MaxUp) \X {"sent", "reading"}
  /\ poll \in {"idle", "sent", "held", "answered"}
  /\ answer \in Seq(0..MaxDown)
  /\ lp \in BOOLEAN
  /\ queue \in Seq(0..MaxDown)
  /\ waiter \in {"none", "live", "dead"}
  /\ session \in Conns \cup {"none", "longpoll"}
  /\ sentUp \in 0..MaxUp
  /\ sentDown \in 0..MaxDown
  /\ restarts \in 0..MaxRestarts
  /\ born \in 0..sentUp
  /\ handled \subseteq 0..MaxUp
  /\ pushed \in 0..MaxUp
  /\ received \in [1..MaxDown -> Nat]

Init ==
  /\ mode = "websocket"
  /\ failures = 0
  /\ client = [c \in Conns |-> "none"]
  /\ server = [c \in Conns |-> "none"]
  /\ up = [c \in Conns |-> <<>>]
  /\ down = [c \in Conns |-> <<>>]
  /\ outbox = <<>>
  /\ push = "idle"
  /\ stray = {}
  /\ poll = "idle"
  /\ answer = <<>>
  /\ lp = FALSE
  /\ queue = <<>>
  /\ waiter = "none"
  /\ session = "none"
  /\ sentUp = 0 /\ sentDown = 0 /\ restarts = 0 /\ born = 0
  /\ handled = {}
  /\ pushed = 0
  /\ received = [m \in 1..MaxDown |-> 0]
-----------------------------------------------------------------------------
(* Helpers *)

\* Wrong on purpose: the limit is compared with one message too late.
MutBuffered(box, m) == IF Len(box) <= OutboxLimit THEN Append(box, m) ELSE box

\* sendRaw: a full outbox drops the new message.
Buffered(box, m) == IF Len(box) < OutboxLimit THEN Append(box, m) ELSE box

\* lpFlush, called with outbox `box`: one flush runs at a time.
Flushed(box) == IF push = "idle" /\ box # <<>> THEN "sent" ELSE push

\* The ends of the connections; one that both ends have left is over, and its
\* name is free for another.
SetEnds(cl, sv) ==
  LET over == {c \in Conns : cl[c] = "closed" /\ sv[c] = "closed"}
  IN  /\ client' = [c \in Conns |-> IF c \in over THEN "none" ELSE cl[c]]
      /\ server' = [c \in Conns |-> IF c \in over THEN "none" ELSE sv[c]]

\* What the router has been given after these messages too: the supervisor
\* leaves out the hello_ack.
Routed(msgs) ==
  [m \in 1..MaxDown |-> received[m] + Cardinality({i \in DOMAIN msgs : msgs[i] = m})]

\* The held request of a poll whose client goes away stays at the control plane.
Abandoned == IF waiter = "live" THEN "dead" ELSE waiter

\* getLpSession: a new entry is attached to the registry and greeted; an
\* existing one is used as it is.
Opened(q) == IF lp THEN q ELSE <<0>>
Attached == IF lp THEN session ELSE "longpoll"
-----------------------------------------------------------------------------
(* The supervisor's WebSocket *)

connectWs(c) ==
  /\ mode = "websocket"
  /\ client[c] = "none" /\ server[c] = "none"
  /\ \A d \in Conns : client[d] \notin {"connecting", "open"}
  /\ client' = [client EXCEPT ![c] = "connecting"]
  /\ UNCHANGED <<supervisor, server, up, down, stray, pollState, counters, observed>>

\* "open": the outbox is sent, then the hello.
WsOpens(c) ==
  /\ client[c] = "connecting"
  /\ server[c] # "none"
  /\ client' = [client EXCEPT ![c] = "open"]
  /\ failures' = 0
  /\ up' = [up EXCEPT ![c] = IF server[c] = "open" THEN outbox \o <<0>> ELSE <<>>]
  /\ outbox' = <<>>
  /\ UNCHANGED <<mode, push, poll, answer, server, down, stray, pollState, counters, observed>>

\* "close", or no connection (a request on its way may still reach the control
\* plane, or never): after WsFailoverAfter attempts that never opened
\* the supervisor turns to long-polling, and stays there.
WsCloses(c) ==
  /\ client[c] \in {"connecting", "open"}
  /\ \/ SetEnds([client EXCEPT ![c] = "closed"], server)
     \/ server[c] = "none" /\ SetEnds([client EXCEPT ![c] = "none"], server)
  /\ down' = [down EXCEPT ![c] = <<>>]
  /\ IF client[c] = "connecting"
     THEN /\ failures' = failures + 1
          /\ IF failures + 1 >= WsFailoverAfter
             THEN /\ mode' = "longpoll"
                  /\ outbox' = Buffered(outbox, 0)
                  /\ push' = Flushed(outbox')
                  /\ poll' = "sent"
             ELSE UNCHANGED <<mode, outbox, push, poll>>
     ELSE UNCHANGED <<failures, mode, outbox, push, poll>>
  /\ UNCHANGED <<answer, up, stray, pollState, counters, observed>>

WsDelivers(c) ==
  /\ client[c] = "open"
  /\ down[c] # <<>>
  /\ received' = Routed(<<Head(down[c])>>)
  /\ down' = [down EXCEPT ![c] = Tail(@)]
  /\ UNCHANGED <<supervisor, client, server, up, stray, pollState, counters, handled, pushed>>

\* sendRaw, for a message of the heartbeat, the router or the worker.
SendUp ==
  /\ sentUp < MaxUp
  /\ sentUp' = sentUp + 1
  /\ \/ \E c \in Conns :
          /\ client[c] = "open"
          /\ up' = [up EXCEPT ![c] = IF server[c] = "open" THEN Append(@, sentUp') ELSE @]
          /\ UNCHANGED <<outbox, push>>
     \/ /\ \A c \in Conns : client[c] # "open"
        /\ outbox' = Buffered(outbox, sentUp')
        /\ push' = IF mode = "longpoll" THEN Flushed(outbox') ELSE push
        /\ UNCHANGED up
  /\ UNCHANGED <<mode, failures, poll, answer, client, server, down, stray,
                 pollState, sentDown, restarts, born, observed>>
-----------------------------------------------------------------------------
(* The supervisor's long-poll transport *)

\* The answer 202 takes the message out of the outbox and the next one follows.
PushSucceeds ==
  /\ push = "handled"
  /\ outbox' = Tail(outbox)
  /\ push' = IF outbox' # <<>> THEN "sent" ELSE "idle"
  /\ UNCHANGED <<mode, failures, poll, answer, network, pollState, counters, observed>>

\* A push that is given up is lost, or goes on without anybody waiting for it.
PushGoesAstray ==
  \/ UNCHANGED stray
  \/ /\ push \in {"sent", "reading"}
     /\ Cardinality(stray) < MaxStray
     /\ stray' = stray \cup {<<Head(outbox), push>>}

\* Wrong on purpose: the message is taken out whatever the answer was.
MutPushFails ==
  /\ push # "idle"
  /\ push' = "idle"
  /\ PushGoesAstray
  /\ outbox' = Tail(outbox)
  /\ UNCHANGED <<mode, failures, poll, answer, client, server, up, down, pollState,
                 counters, observed>>

\* Wrong on purpose: a message that could not be pushed goes to the end.
MutPushRequeues ==
  /\ push # "idle"
  /\ push' = "idle"
  /\ PushGoesAstray
  /\ outbox' = Append(Tail(outbox), Head(outbox))
  /\ UNCHANGED <<mode, failures, poll, answer, client, server, up, down, pollState,
                 counters, observed>>

\* No answer, or one that is not ok: the message stays where it is.
PushFails ==
  /\ push # "idle"
  /\ push' = "idle"
  /\ PushGoesAstray
  /\ UNCHANGED <<mode, failures, outbox, poll, answer, client, server, up, down,
                 pollState, counters, observed>>

\* lpLoop goes on after the backoff.
PollResumes ==
  /\ mode = "longpoll"
  /\ poll = "idle"
  /\ poll' = "sent"
  /\ UNCHANGED <<mode, failures, outbox, push, answer, network, pollState, counters, observed>>

\* Wrong on purpose: the outbox is left for the next message to flush.
MutPollReturns ==
  /\ poll = "answered"
  /\ received' = Routed(answer)
  /\ answer' = <<>>
  /\ poll' = "sent"
  /\ UNCHANGED <<mode, failures, outbox, push, network, pollState, counters, handled, pushed>>

\* The commands are delivered, a waiting outbox is flushed, the loop polls again.
PollReturns ==
  /\ poll = "answered"
  /\ received' = Routed(answer)
  /\ answer' = <<>>
  /\ poll' = "sent"
  /\ push' = Flushed(outbox)
  /\ UNCHANGED <<mode, failures, outbox, network, pollState, counters, handled, pushed>>

PollFails ==
  /\ poll # "idle"
  /\ poll' = "idle"
  /\ answer' = <<>>
  /\ waiter' = Abandoned
  /\ UNCHANGED <<mode, failures, outbox, push, network, lp, queue, session, counters, observed>>

\* The supervisor's process ends and starts again, on WebSocket.
SupervisorRestarts ==
  /\ restarts < MaxRestarts
  /\ restarts' = restarts + 1
  /\ mode' = "websocket"
  /\ failures' = 0
  /\ outbox' = <<>>
  /\ push' = "idle" /\ poll' = "idle" /\ answer' = <<>>
  /\ SetEnds([c \in Conns |-> IF client[c] = "none" THEN "none" ELSE "closed"], server)
  /\ down' = [c \in Conns |-> <<>>]
  /\ PushGoesAstray
  /\ waiter' = Abandoned
  /\ born' = sentUp
  /\ UNCHANGED <<up, lp, queue, session, sentUp, sentDown, observed>>
-----------------------------------------------------------------------------
(* The control plane *)

\* onConnection; the supervisor may have given the attempt up by then.
onConnection(c) ==
  /\ client[c] \in {"connecting", "closed"}
  /\ server[c] = "none"
  /\ server' = [server EXCEPT ![c] = "open"]
  /\ session' = c
  /\ down' = [down EXCEPT ![c] = IF client[c] = "connecting" THEN <<0>> ELSE <<>>]
  /\ UNCHANGED <<supervisor, client, up, stray, lp, queue, waiter, counters, observed>>

\* A frame of connection c reaches handleInbound.
WsMessage(c) ==
  /\ server[c] = "open"
  /\ up[c] # <<>>
  /\ handled' = handled \cup {Head(up[c])}
  /\ up' = [up EXCEPT ![c] = Tail(@)]
  /\ UNCHANGED <<supervisor, client, server, down, stray, pollState, counters, pushed, received>>

\* Wrong on purpose: the registry keeps the session.
MutWsClose(c) ==
  /\ server[c] = "open"
  /\ SetEnds(client, [server EXCEPT ![c] = "closed"])
  /\ up' = [up EXCEPT ![c] = <<>>]
  /\ UNCHANGED <<supervisor, down, stray, pollState, counters, observed>>

\* "close" of connection c: the node's session goes, whichever it is.
WsClose(c) ==
  /\ server[c] = "open"
  /\ SetEnds(client, [server EXCEPT ![c] = "closed"])
  /\ up' = [up EXCEPT ![c] = <<>>]
  /\ session' = "none"
  /\ UNCHANGED <<supervisor, down, stray, lp, queue, waiter, counters, observed>>

\* Wrong on purpose: a command is queued and no held request is answered.
MutLpSend(m) ==
  /\ queue' = Append(queue, m)
  /\ UNCHANGED <<waiter, poll, answer, down>>

\* session.send of a long-poll session: the command is queued, and a held
\* request is answered with the queue (in vain if its client is gone).
LpSend(m) ==
  /\ IF waiter = "none"
     THEN queue' = Append(queue, m) /\ UNCHANGED <<waiter, poll, answer>>
     ELSE /\ queue' = <<>>
          /\ waiter' = "none"
          /\ IF waiter = "live"
             THEN poll' = "answered" /\ answer' = Append(queue, m)
             ELSE UNCHANGED <<poll, answer>>
  /\ UNCHANGED down

\* session.send of a WebSocket session.
WsSend(c, m) ==
  /\ down' = [down EXCEPT ![c] = IF server[c] = "open" /\ client[c] # "closed"
                                 THEN Append(@, m) ELSE @]
  /\ UNCHANGED <<queue, waiter, poll, answer>>

\* registry.send of a command, which throws when there is no session.
SendDown ==
  /\ sentDown < MaxDown
  /\ sentDown' = sentDown + 1
  /\ \/ session = "longpoll" /\ LpSend(sentDown')
     \/ \E c \in Conns : session = c /\ WsSend(c, sentDown')
  /\ UNCHANGED <<mode, failures, outbox, push, client, server, up, stray, lp, session,
                 sentUp, restarts, born, observed>>

\* getLpSession, when a request arrives.
Contacted ==
  /\ lp' = TRUE
  /\ queue' = Opened(queue)
  /\ session' = Attached
  /\ UNCHANGED waiter

\* handleInbound of what a push brings.
Inbound(m) ==
  /\ handled' = handled \cup {m}
  /\ pushed' = IF m \in handled \/ m <= born THEN pushed ELSE m
  /\ UNCHANGED received

\* The request arrives; its body is awaited.
handlePush ==
  /\ push = "sent"
  /\ push' = "reading"
  /\ Contacted
  /\ UNCHANGED <<mode, failures, outbox, poll, answer, network, counters, observed>>

\* readJsonBody returns, the message is handled.
PushIsRead ==
  /\ push = "reading"
  /\ push' = "handled"
  /\ Inbound(Head(outbox))
  /\ UNCHANGED <<mode, failures, outbox, poll, answer, network, pollState, counters>>

\* The same for a push that the supervisor has given up.
StrayArrives(m) ==
  /\ <<m, "sent">> \in stray
  /\ stray' = (stray \ {<<m, "sent">>}) \cup {<<m, "reading">>}
  /\ Contacted
  /\ UNCHANGED <<supervisor, client, server, up, down, counters, observed>>

StrayIsRead(m) ==
  /\ <<m, "reading">> \in stray
  /\ stray' = stray \ {<<m, "reading">>}
  /\ Inbound(m)
  /\ UNCHANGED <<supervisor, client, server, up, down, pollState, counters>>

\* Wrong on purpose: the queue is copied into the answer and kept.
MutHandlePoll ==
  /\ poll = "sent"
  /\ lp' = TRUE
  /\ session' = Attached
  /\ queue' = Opened(queue)
  /\ IF Opened(queue) # <<>>
     THEN poll' = "answered" /\ answer' = Opened(queue) /\ UNCHANGED waiter
     ELSE poll' = "held" /\ waiter' = "live" /\ UNCHANGED answer
  /\ UNCHANGED <<mode, failures, outbox, push, network, counters, observed>>

\* A poll takes the whole queue, or is held; one that was held before is ended.
handlePoll ==
  /\ poll = "sent"
  /\ lp' = TRUE
  /\ session' = Attached
  /\ queue' = <<>>
  /\ IF Opened(queue) # <<>>
     THEN poll' = "answered" /\ answer' = Opened(queue) /\ UNCHANGED waiter
     ELSE poll' = "held" /\ waiter' = "live" /\ UNCHANGED answer
  /\ UNCHANGED <<mode, failures, outbox, push, network, counters, observed>>

\* longPollTimeoutMs passes: the held request is answered with no commands.
PollTimesOut ==
  /\ waiter = "live"
  /\ waiter' = "none"
  /\ poll' = "answered"
  /\ UNCHANGED <<mode, failures, outbox, push, answer, network, lp, queue, session,
                 counters, observed>>

\* The close of a request whose client is gone is noticed, or it times out.
WaiterCloses ==
  /\ waiter = "dead"
  /\ waiter' = "none"
  /\ UNCHANGED <<supervisor, network, lp, queue, session, counters, observed>>

\* The sweeper finds no held request and no request for idleMs.
Sweep ==
  /\ lp
  /\ waiter = "none"
  /\ lp' = FALSE
  /\ queue' = <<>>
  /\ session' = "none"
  /\ UNCHANGED <<supervisor, network, waiter, counters, observed>>

\* The control plane's process ends and starts again.
ControlPlaneRestarts ==
  /\ restarts < MaxRestarts
  /\ restarts' = restarts + 1
  /\ SetEnds(client, [c \in Conns |-> IF client[c] = "closed" \/ server[c] = "open"
                                    THEN "closed" ELSE server[c]])
  /\ up' = [c \in Conns |-> <<>>]
  /\ lp' = FALSE
  /\ queue' = <<>>
  /\ waiter' = "none"
  /\ session' = "none"
  /\ poll' = IF poll = "held" THEN "idle" ELSE poll
  /\ push' = IF push = "reading" THEN "idle" ELSE push
  /\ stray' = {r \in stray : r[2] = "sent"}
  /\ UNCHANGED <<mode, failures, outbox, answer, down, sentUp, sentDown, born, observed>>

Next ==
  \/ \E c \in Conns :
       \/ connectWs(c) \/ WsOpens(c) \/ WsCloses(c) \/ WsDelivers(c)
       \/ onConnection(c) \/ WsMessage(c) \/ WsClose(c)
  \/ SendUp \/ PushSucceeds \/ PushFails
  \/ PollResumes \/ PollReturns \/ PollFails \/ SupervisorRestarts
  \/ SendDown \/ handlePush \/ PushIsRead
  \/ \E m \in 0..MaxUp : StrayArrives(m) \/ StrayIsRead(m)
  \/ handlePoll \/ PollTimesOut \/ WaiterCloses \/ Sweep
  \/ ControlPlaneRestarts

\* Timers fire, a request is handled or fails, and a network on which requests
\* are made for ever does not fail all of them.
Fairness ==
  /\ WF_vars(PollResumes)
  /\ SF_vars(PollTimesOut)
  /\ SF_vars(handlePoll)
  /\ SF_vars(PollReturns)
  /\ SF_vars(handlePush)
  /\ SF_vars(PushIsRead)
  /\ SF_vars(PushSucceeds)

Spec == Init /\ [][Next]_vars /\ Fairness

-----------------------------------------------------------------------------
(* Properties *)

\* Commands that the supervisor may still be given: queued at the control plane,
\* in the answer to a poll, or on their way on a connection.
Among(msgs, m) == \E i \in DOMAIN msgs : msgs[i] = m
Waits(m) == Among(queue, m) \/ Among(answer, m) \/ \E c \in Conns : Among(down[c], m)
Waiting == {m \in 1..MaxDown : Waits(m)}

\* Whatever fails over, times out or restarts, the channel is a box from which each
\* command is taken once or lost (CommandBox): no poll, session or connection hands
\* over what another has handed over or what was given up.
Box == INSTANCE CommandBox WITH Max <- MaxDown, sent <- sentDown, waiting <- Waiting
BoxSpec == Box!Spec

\* The registry never keeps the session of a transport that has ended: a
\* command is never accepted for a connection whose close has been handled,
\* nor for a long-poll session that was swept.
SessionIsOpen ==
  /\ \A c \in Conns : session = c => server[c] = "open"
  /\ session = "longpoll" => lp

\* No poll is left hanging: one that the supervisor has waiting is held by the
\* control plane, and none is held while there are commands to answer it with
\* (the flush in send, the early answer in handlePoll).
HeldPollHasNoMail ==
  /\ poll = "held" => waiter = "live"
  /\ waiter # "none" => queue = <<>>

\* Whatever the transports, failovers and restarts, the router is given each
\* command at most once.  (Not in the order in which they were sent: what is
\* left in the queue of a long-poll session that was given up for a WebSocket
\* is delivered if the supervisor falls back again before it is swept.)
CommandsAtMostOnce ==
  \A m \in 1..MaxDown : received[m] <= 1

\* lpFlush, "keep it buffered": while the supervisor is long-polling a message
\* leaves its outbox only once the control plane has handled it.
PushLosesNothing ==
  [][mode' = "longpoll" /\ Len(outbox') < Len(outbox) => Head(outbox) \in handled]_vars

\* One at a time, with the next only after the answer (lpFlush): however requests
\* fail, repeat and come late, the control plane learns what a supervisor's process
\* pushes in the order in which it was sent.  (Only of what it has not been given
\* before: a push given up may bring a message again after those that follow it, or
\* bring a message of a process that is gone.)
PushKeepsOrder == [][pushed' >= pushed]_vars

\* A message in the outbox of a long-polling supervisor is pushed in the end,
\* although a failed push is not retried by itself: the next poll does it.
Delivered ==
  \A m \in 1..MaxUp :
    (mode = "longpoll" /\ Among(outbox, m))
      ~> (m \in handled \/ mode = "websocket")

\* What connection.mjs says of reconnecting: the control plane has a live
\* session for a supervisor whose connection is open at both ends.
ReconnectedNodeHasSession ==
  \A c \in Conns :
    /\ client[c] = "open" /\ server[c] = "open"
    /\ \A d \in Conns \ {c} : server[d] # "open"
    => session # "none"
=============================================================================
