------------------------------ MODULE ProxyProofs ---------------------------
(***************************************************************************)
(* Theorems about module Proxy.  The steps of the composition are steps of *)
(* Server and steps of Socks5Handler, so that what is proved of the parts  *)
(* holds of the whole; the properties that relate the two are proved from  *)
(* an invariant of the composition.                                        *)
(***************************************************************************)
EXTENDS Proxy, ServerProofs

USE ProxyAssumption

-----------------------------------------------------------------------------
(* The handler's part.                                                     *)

\* Socks5Handler with its theorems; H and HP are instances of the same module.
HP == INSTANCE Socks5HandlerProofs

LEMMA SameInvariant == (H!HandlerInv <=> HP!HandlerInv) /\ (H!HandlerInv' <=> HP!HandlerInv')
BY DEF H!HandlerInv, H!TypeOK, H!AccessMatches, H!SocketsMatch, H!Handshake,
       H!ClientMessages, H!OfferedMethods, H!Commands, H!ServerMessages, H!Replies,
       H!Socks5Error, H!NoError, H!Cancelled, H!Panicked, H!Relayed, H!Acceptable,
       H!Handling, H!Authorized, H!Receiving, H!Sending, H!Greeting, H!Auth, H!Request,
       H!Data, H!Bulk, H!Err, H!IoKinds, H!Protocol, H!ProtocolErrors,
       H!AuthenticationFailed, H!NoAcceptableMethod, H!CommandNotSupported,
       H!DnsResolutionFailed, H!Timeout, HP!HandlerInv, HP!TypeOK, HP!AccessMatches,
       HP!SocketsMatch, HP!Handshake, HP!ClientMessages, HP!OfferedMethods, HP!Commands,
       HP!ServerMessages, HP!Replies, HP!Socks5Error, HP!NoError, HP!Cancelled, HP!Panicked,
       HP!Relayed, HP!Acceptable, HP!Handling, HP!Authorized, HP!Receiving, HP!Sending,
       HP!Greeting, HP!Auth, HP!Request, HP!Data, HP!Bulk, HP!Err, HP!IoKinds, HP!Protocol,
       HP!ProtocolErrors, HP!AuthenticationFailed, HP!NoAcceptableMethod,
       HP!CommandNotSupported, HP!DnsResolutionFailed, HP!Timeout

LEMMA SameStep == [H!Next]_H!vars <=> [HP!Next]_HP!vars
BY DEF H!Next, H!Client, H!ServerShutsDown, H!RuntimeDrops, H!Network, H!Task, H!Terminated,
       H!ClientSends, H!ClientShutsDown, H!ClientResets, H!readVars, H!dialogVars,
       H!endVars, H!Close, H!Cancelled, H!clientVars, H!Connects, H!ConnectFails,
       H!ConnectPanics, H!PeerConnects, H!AcceptFails, H!RelayEnds, H!RecvGreeting,
       H!SendMethod, H!RecvAuth, H!SendStatus, H!RecvRequest, H!RecvMalformed, H!RecvEnds,
       H!SendFails, H!SendConnected, H!BindListens, H!BindFails, H!SendFirst, H!SendSecond,
       H!SendFinal, H!ShutdownStream, H!ShutdownCancels, H!ConnectTimesOut, H!BindTimesOut,
       H!vars, H!Receiving, H!Handshake, H!Err, H!ConnectErrors, H!ErrorReply, H!Panicked,
       H!Io, H!Relayed, H!Frames, H!Take, H!Acceptable, H!Reject, H!NoAcceptableMethod,
       H!Send, H!AuthenticationFailed, H!CommandNotSupported, H!Available, H!TooLarge,
       H!Protocol, H!Expected, H!Sending, H!Tunnel, H!Timeout, H!FromHappyEyeballs,
       H!HappyEyeballsErrors, H!TargetConnectionFailed, H!ConnectKinds, H!ToReply, H!Bulk,
       H!DnsResolutionFailed, H!Representative, H!Occurs, H!vars, HP!Next, HP!Client,
       HP!ServerShutsDown, HP!RuntimeDrops, HP!Network, HP!Task, HP!Terminated,
       HP!ClientSends, HP!ClientShutsDown, HP!ClientResets, HP!readVars, HP!dialogVars,
       HP!endVars, HP!Close, HP!Cancelled, HP!clientVars, HP!Connects, HP!ConnectFails,
       HP!ConnectPanics, HP!PeerConnects, HP!AcceptFails, HP!RelayEnds, HP!RecvGreeting,
       HP!SendMethod, HP!RecvAuth, HP!SendStatus, HP!RecvRequest, HP!RecvMalformed,
       HP!RecvEnds, HP!SendFails, HP!SendConnected, HP!BindListens, HP!BindFails,
       HP!SendFirst, HP!SendSecond, HP!SendFinal, HP!ShutdownStream, HP!ShutdownCancels,
       HP!ConnectTimesOut, HP!BindTimesOut, HP!vars, HP!Receiving, HP!Handshake, HP!Err,
       HP!ConnectErrors, HP!ErrorReply, HP!Panicked, HP!Io, HP!Relayed, HP!Frames, HP!Take,
       HP!Acceptable, HP!Reject, HP!NoAcceptableMethod, HP!Send, HP!AuthenticationFailed,
       HP!CommandNotSupported, HP!Available, HP!TooLarge, HP!Protocol, HP!Expected,
       HP!Sending, HP!Tunnel, HP!Timeout, HP!FromHappyEyeballs, HP!HappyEyeballsErrors,
       HP!TargetConnectionFailed, HP!ConnectKinds, HP!ToReply, HP!Bulk,
       HP!DnsResolutionFailed, HP!Representative, HP!Occurs, HP!vars

LEMMA SameInit == H!Init <=> HP!Init
BY DEF H!Init, HP!Init, H!NoError, HP!NoError, H!Err, HP!Err

LEMMA Assumed == HP!HandlerAssumption
BY DEF HP!HandlerAssumption, H!HandlerAssumption, H!ClientMessages, HP!ClientMessages, H!Greeting,
       HP!Greeting, H!Auth, HP!Auth, H!Request, HP!Request, H!Data, HP!Data, H!Bulk, HP!Bulk,
       H!OfferedMethods, HP!OfferedMethods, H!Commands, HP!Commands

LEMMA HandlerInit == H!Init => H!HandlerInv
BY SameInvariant, SameInit, HP!InitInv, Assumed

LEMMA HandlerStep == H!HandlerInv /\ [H!Next]_H!vars => H!HandlerInv'
BY SameInvariant, SameStep, HP!NextInv, Assumed

-----------------------------------------------------------------------------
(* Each step of the composition is one of the server and one of the        *)
(* handler.                                                                *)

\* What the phases are.
LEMMA PhaseOfValues ==
    /\ PhaseOf \in Phases \cup {"closing"}
    /\ PhaseOf = "closing" <=> pc = "closed"
BY DEF PhaseOf, Phases, Negotiating, Rejecting

\* Where the connection in full is, as the server sees it.
LEMMA FocusHandler == ServerInv => Focus \in Conn /\ handler \in [Conn -> HandlerStates]
BY DEF ServerInv, TypeOK

LEMMA ServerStepMaps ==
    ASSUME ProxyInv, ServerStep
    PROVE  Next /\ [H!Next]_H!vars /\ PhaseMatches'
<1>1. CASE DropNotify
  <2>1. notify_shutdown /\ notify_shutdown' = FALSE /\ UNCHANGED <<handler, detail>>
      BY <1>1 DEF DropNotify, ServerStep, ProxyInv, ServerInv, BroadcastOwner
  <2>2. H!ServerShutsDown
      BY <2>1 DEF H!ServerShutsDown, H!readVars, H!dialogVars, H!endVars, detail
  <2>3. QED
      BY <1>1, <2>1, <2>2 DEF Next, ListenerTask, H!Next, ProxyInv, PhaseMatches, PhaseOf, detail
<1>2. CASE ~DropNotify
  <2>1. UNCHANGED notify_shutdown
      BY <1>2 DEF ServerStep, Environment, ListenerTask, ClientConnects, ShutdownSignal,
         DeadlineElapses, AcquirePermit, Accept, AcceptFails, TakeShutdown, DropComplete, PollRecv,
         PollTimer
  <2>2. UNCHANGED H!vars
      BY <2>1 DEF ServerStep, detail, H!vars
  <2>3. \/ handler'[Focus] = handler[Focus]
        \/ handler[Focus] = "none" /\ handler'[Focus] = "queued"
        \/ handler[Focus] = "queued" /\ handler'[Focus] \in {"negotiate", "reset"}
    <3>1. CASE Environment
        BY <3>1, FocusHandler DEF Environment, ClientConnects, ShutdownSignal, DeadlineElapses,
           ProxyInv
    <3>2. CASE Accept
      <4>1. backlog # <<>> /\ backlog \in Seq(Conn) /\ QueueMatches
          BY <3>2 DEF Accept, ProxyInv, ServerInv, TypeOK
      <4>2. Head(backlog) \in Conn /\ handler[Head(backlog)] = "queued"
          BY <4>1 DEF QueueMatches
      <4>3. QED
          BY <3>2, <4>2, FocusHandler DEF Accept, ProxyInv
    <3>3. CASE \/ AcquirePermit \/ AcceptFails \/ TakeShutdown \/ DropComplete \/ PollRecv
               \/ PollTimer
        BY <3>3, FocusHandler DEF AcquirePermit, AcceptFails, TakeShutdown, DropComplete, PollRecv,
           PollTimer, Exit, ProxyInv
    <3>4. QED
        BY <1>2, <3>1, <3>2, <3>3 DEF ServerStep, ListenerTask
  <2>4. PhaseMatches'
    <3>1. PhaseOf' = PhaseOf /\ UNCHANGED <<pc, command>>
        BY DEF ServerStep, detail, PhaseOf
    <3>2. pc = "recv_greeting" => PhaseOf = "negotiate"
        BY DEF PhaseOf, Negotiating
    <3>3. QED
        BY <2>3, <3>1, <3>2 DEF ProxyInv, PhaseMatches, Phases
  <2>5. QED
      BY <2>2, <2>4 DEF ServerStep, Next
<1>3. QED
    BY <1>1, <1>2

LEMMA OtherTaskMaps ==
    ASSUME ProxyInv, NEW c \in Conn, OtherTask(c)
    PROVE  Next /\ UNCHANGED H!vars /\ PhaseMatches'
<1>1. UNCHANGED notify_shutdown /\ handler'[Focus] = handler[Focus]
    BY FocusHandler DEF OtherTask, HandlerTask, Negotiated, NegotiationFails, TunnelReady,
       HandlingFails, RelayEnds, Cancelled, RuntimeDrops, GoTo, DropSender, DropPermit, ProxyInv
<1>2. PhaseMatches'
    BY <1>1 DEF OtherTask, detail, ProxyInv, PhaseMatches, PhaseOf
<1>3. QED
    BY <1>1, <1>2 DEF OtherTask, Next, detail, H!vars

LEMMA FocusClientMaps ==
    ASSUME ProxyInv, FocusClient
    PROVE  UNCHANGED vars /\ H!Next /\ PhaseMatches'
<1>1. UNCHANGED <<notify_shutdown, pc, command>>
    BY DEF FocusClient, H!Client, H!ClientSends, H!ClientShutsDown, H!ClientResets, H!clientVars,
       H!dialogVars
<1>2. UNCHANGED vars
    BY <1>1 DEF FocusClient, serverRest, vars, limiterVars, exitVars
<1>3. PhaseMatches'
    BY <1>1, <1>2 DEF ProxyInv, PhaseMatches, PhaseOf, vars
<1>4. QED
    BY <1>2, <1>3 DEF FocusClient, H!Next

\* The phases follow each other as the server expects.
Advances ==
    \/ PhaseOf' = PhaseOf
    \/ PhaseOf = "negotiate" /\ PhaseOf' \in {"handle", "closing"}
    \/ PhaseOf = "handle" /\ PhaseOf' \in {"relay", "closing"}
    \/ PhaseOf = "relay" /\ PhaseOf' = "closing"

LEMMA TaskAdvances ==
    ASSUME ProxyInv, H!Task \/ H!Network
    PROVE  Advances /\ (pc' \in Serves => command' # "none") /\ UNCHANGED notify_shutdown
<1>1. UNCHANGED notify_shutdown
    BY DEF H!Task, H!Network, H!RecvGreeting, H!SendMethod, H!RecvAuth, H!SendStatus,
       H!RecvRequest, H!RecvMalformed, H!RecvEnds, H!SendFails, H!SendConnected, H!BindListens,
       H!BindFails, H!SendFirst, H!SendSecond, H!SendFinal, H!ShutdownStream, H!ShutdownCancels,
       H!ConnectTimesOut, H!BindTimesOut, H!Connects, H!ConnectFails, H!ConnectPanics,
       H!PeerConnects, H!AcceptFails, H!RelayEnds, H!Send, H!clientVars
<1>2. CASE pc' = "closed"
    BY <1>1, <1>2, PhaseOfValues DEF Advances, PhaseOf, Phases, Negotiating, Rejecting, Serves
<1>3. CASE \/ H!RecvGreeting \/ H!SendMethod \/ H!RecvAuth \/ H!SendStatus
  <2>1. /\ pc \in Negotiating
        /\ pc' \in Negotiating \cup {"send_final", "recv_request"}
        /\ UNCHANGED command
      BY <1>3 DEF H!RecvGreeting, H!SendMethod, H!RecvAuth, H!SendStatus, H!Send, H!Reject,
         H!endVars, H!dialogVars, Negotiating
  <2>2. PhaseOf = "negotiate" /\ PhaseOf' \in {"negotiate", "handle"}
      BY <2>1 DEF PhaseOf, Negotiating, Rejecting
  <2>3. QED
      BY <1>1, <2>1, <2>2 DEF Advances, Serves, Negotiating
<1>4. CASE H!RecvRequest
  <2>1. pc = "recv_request" /\ pc' \in {"bind", "connect", "send_final"}
      BY <1>4 DEF H!RecvRequest, H!Reject
  <2>2. command' # "none"
    <3>1. PICK held \in H!Frames("request") : command' = Head(held[1]).command
        BY <1>4 DEF H!RecvRequest
    <3>2. held \in HP!Available /\ Head(held[1]).type = "request"
        BY <3>1 DEF H!Frames, H!Available, HP!Available
    <3>3. Head(held[1]) \in HP!ClientMessages
        BY <3>2, SameInvariant, HP!AvailableType, Assumed DEF ProxyInv, HP!HandlerInv
    <3>4. QED
        BY <3>1, <3>2, <3>3, HP!MessageFields, Assumed DEF HP!Commands
  <2>3. PhaseOf = "handle" /\ PhaseOf' = "handle"
      BY <2>1, <2>2 DEF PhaseOf, Negotiating, Rejecting
  <2>4. QED
      BY <1>1, <2>2, <2>3 DEF Advances
<1>5. CASE H!SendFinal
    BY <1>1, <1>5 DEF H!SendFinal, H!dialogVars, Advances, PhaseOf, Negotiating, Rejecting, Serves
<1>6. CASE \/ H!SendConnected \/ H!BindListens \/ H!BindFails \/ H!SendFirst \/ H!SendSecond
           \/ H!ConnectTimesOut \/ H!BindTimesOut \/ H!Connects \/ H!ConnectFails
           \/ H!PeerConnects \/ H!AcceptFails
  <2>1. /\ pc \in Serves
        /\ pc' \in Serves \cup {"send_final", "relay"}
        /\ UNCHANGED command
      BY <1>6 DEF H!SendConnected, H!BindListens, H!BindFails, H!SendFirst, H!SendSecond,
         H!ConnectTimesOut, H!BindTimesOut, H!Connects, H!ConnectFails, H!PeerConnects,
         H!AcceptFails, H!Send, H!Tunnel, H!ErrorReply, H!Reject, H!dialogVars, Serves
  <2>2. command # "none"
      BY <2>1 DEF ProxyInv, PhaseMatches
  <2>3. PhaseOf = "handle" /\ PhaseOf' \in {"handle", "relay"}
      BY <2>1, <2>2 DEF PhaseOf, Negotiating, Rejecting, Serves
  <2>4. QED
      BY <1>1, <2>1, <2>2, <2>3 DEF Advances
<1>7. CASE \/ H!RecvMalformed \/ H!RecvEnds \/ H!SendFails \/ H!ShutdownStream
           \/ H!ShutdownCancels \/ H!ConnectPanics \/ H!RelayEnds
  <2>1. pc' = "closed"
      BY <1>7 DEF H!RecvMalformed, H!RecvEnds, H!SendFails, H!ShutdownStream, H!ShutdownCancels,
         H!ConnectPanics, H!RelayEnds, H!Close
  <2>2. QED
      BY <1>1, <1>2, <2>1
<1>8. QED
    BY <1>3, <1>4, <1>5, <1>6, <1>7 DEF H!Task, H!Network

LEMMA FocusTaskMaps ==
    ASSUME ProxyInv, FocusTask \/ FocusNetwork
    PROVE  [Next]_vars /\ H!Next /\ PhaseMatches'
<1>1. /\ handler[Focus] \in Phases /\ Follows
      /\ H!Task \/ H!Network
      /\ UNCHANGED serverRest
    BY DEF FocusTask, FocusNetwork
<1>2. handler[Focus] = PhaseOf
    BY <1>1 DEF ProxyInv, PhaseMatches
<1>3. UNCHANGED notify_shutdown /\ Advances /\ (pc' \in Serves => command' # "none")
    BY <1>1, TaskAdvances
<1>4. Focus \in Conn /\ handler \in [Conn -> HandlerStates] /\ handler'[Focus] = PhaseOf'
    BY <1>1, FocusHandler DEF ProxyInv, Follows
<1>5. PhaseMatches'
  <2>1. PhaseOf' \in Phases \cup {"closing"} /\ (PhaseOf' = "closing" <=> pc' = "closed")
      BY DEF PhaseOf, Phases, Negotiating, Rejecting
  <2>2. QED
      BY <1>3, <1>4, <2>1 DEF PhaseMatches, Phases
<1>6. [Next]_vars
  <2>1. CASE PhaseOf' = PhaseOf
    <3>1. handler' = handler
        BY <1>1, <1>2, <1>4, <2>1 DEF Follows
    <3>2. QED
        BY <1>1, <1>3, <3>1 DEF serverRest, vars, limiterVars, exitVars
  <2>2. CASE PhaseOf' # PhaseOf
    <3>1. GoTo(Focus, PhaseOf, PhaseOf')
        BY <1>1, <1>2, <1>3 DEF GoTo, Follows, serverRest
    <3>2. HandlerTask(Focus)
        BY <1>3, <2>2, <3>1 DEF Advances, HandlerTask, Negotiated, NegotiationFails, TunnelReady,
           HandlingFails, RelayEnds
    <3>3. QED
        BY <1>4, <3>2 DEF Next
  <2>3. QED
      BY <2>1, <2>2
<1>7. QED
    BY <1>1, <1>5, <1>6 DEF H!Next

LEMMA FocusLeavesMaps ==
    ASSUME ProxyInv, FocusDropped \/ FocusEnds
    PROVE  Next /\ [H!Next]_H!vars /\ PhaseMatches'
<1>1. Focus \in Conn /\ handler \in [Conn -> HandlerStates]
    BY FocusHandler DEF ProxyInv
<1>2. CASE FocusDropped
  <2>1. Next /\ H!Next
      BY <1>1, <1>2 DEF FocusDropped, Next, HandlerTask, H!Next
  <2>2. handler'[Focus] = "closing" /\ pc' = "closed"
      BY <1>1, <1>2 DEF FocusDropped, RuntimeDrops, GoTo, H!RuntimeDrops, H!Close
  <2>3. QED
      BY <2>1, <2>2 DEF PhaseMatches, Phases, Serves
<1>3. CASE FocusEnds
  <2>1. Next
      BY <1>1, <1>3 DEF FocusEnds, Next, HandlerTask
  <2>2. /\ handler[Focus] \in {"closing", "returned"}
        /\ handler'[Focus] \in {"returned", "done"}
        /\ UNCHANGED <<notify_shutdown, detail>>
      BY <1>1, <1>3 DEF FocusEnds, DropSender, DropPermit
  <2>3. UNCHANGED H!vars
      BY <2>2 DEF detail, H!vars
  <2>4. PhaseMatches'
      BY <2>2 DEF ProxyInv, PhaseMatches, Phases, Serves, detail
  <2>5. QED
      BY <2>1, <2>3, <2>4
<1>4. QED
    BY <1>2, <1>3

LEMMA StepMaps ==
    ProxyInv /\ [ProxyNext]_allVars => [Next]_vars /\ [H!Next]_H!vars /\ PhaseMatches'
<1> SUFFICES ASSUME ProxyInv, [ProxyNext]_allVars
             PROVE  [Next]_vars /\ [H!Next]_H!vars /\ PhaseMatches'
    OBVIOUS
<1>1. CASE UNCHANGED allVars \/ (Terminated /\ UNCHANGED detail)
  <2>1. UNCHANGED <<vars, detail>>
      BY <1>1 DEF allVars, Terminated
  <2>2. QED
      BY <2>1 DEF vars, detail, H!vars, ProxyInv, PhaseMatches, PhaseOf
<1>2. QED
    BY <1>1, ServerStepMaps, OtherTaskMaps, FocusClientMaps, FocusTaskMaps, FocusLeavesMaps
       DEF ProxyNext

-----------------------------------------------------------------------------
(* The theorems.                                                           *)

LEMMA ProxyInitInv == ProxyInit => ProxyInv
<1>1. Init => handler[Focus] = "none"
    BY DEF Init
<1>2. ProxyInit => PhaseMatches
    BY <1>1 DEF ProxyInit, H!Init, PhaseMatches, Phases, Serves
<1>3. QED
    BY <1>2, InitInv, HandlerInit DEF ProxyInit, ProxyInv

\* The server sees the phase the handler is in, at every step of every task
\* (mod.rs:77-131), and what holds of the parts holds of the two together.
THEOREM ProxyInvTheorem == ProxySpec => []ProxyInv
<1>1. ProxyInv /\ [ProxyNext]_allVars => ProxyInv'
    BY StepMaps, NextInv, HandlerStep DEF ProxyInv
<1>2. QED
    BY <1>1, ProxyInitInv, PTL DEF ProxySpec

\* The connection in full is one of those that Server is about: the composition
\* implements it, and keeps its promise (mod.rs:18-190).
THEOREM ServerTheorem == ProxySpec => Spec /\ ImplementsService
<1>1. ProxySpec => Spec
    BY StepMaps, ProxyInvTheorem, PTL DEF ProxySpec, ProxyInit, Spec
<1>2. QED
    BY <1>1, ImplementsTheorem

\* Within the server, the connection in full behaves as Socks5Handler says.
THEOREM HandlerTheorem == ProxySpec => H!Spec
BY StepMaps, ProxyInvTheorem, PTL DEF ProxySpec, ProxyInit, H!Spec

-----------------------------------------------------------------------------
(* What a graceful shutdown means for a client.                            *)

\* Nothing is queued once the listening socket is closed.
NoneQueued == listener = "exited" => handler[Focus] # "queued"

LEMMA NoneQueuedStep ==
    ASSUME ServerInv, NoneQueued, [Next]_vars
    PROVE  NoneQueued'
<1>1. Focus \in Conn /\ handler \in [Conn -> HandlerStates]
    BY FocusHandler
<1>2. CASE PollRecv \/ PollTimer
    BY <1>1, <1>2 DEF PollRecv, PollTimer, Exit, NoneQueued
<1>3. CASE \E c \in Conn : ClientConnects(c)
    BY <1>1, <1>3 DEF ClientConnects, NoneQueued
<1>4. CASE \E c \in Conn : HandlerTask(c)
  <2>1. PICK c \in Conn : HandlerTask(c)
      BY <1>4
  <2>2. UNCHANGED listener /\ (handler'[Focus] = "queued" => handler[Focus] = "queued")
      BY <1>1, <2>1 DEF HandlerTask, Negotiated, NegotiationFails, TunnelReady, HandlingFails,
         RelayEnds, Cancelled, RuntimeDrops, GoTo, DropSender, DropPermit
  <2>3. QED
      BY <2>2 DEF NoneQueued
<1>5. CASE \/ AcquirePermit \/ Accept \/ AcceptFails \/ TakeShutdown \/ DropNotify
           \/ DropComplete
    BY <1>5 DEF AcquirePermit, Accept, AcceptFails, TakeShutdown, DropNotify, DropComplete,
       NoneQueued
<1>6. CASE ShutdownSignal \/ DeadlineElapses \/ Terminated \/ UNCHANGED vars
    BY <1>6 DEF ShutdownSignal, DeadlineElapses, Terminated, vars, NoneQueued
<1>7. QED
    BY <1>2, <1>3, <1>4, <1>5, <1>6 DEF Next, Environment, ListenerTask

\* Whatever the task has open, it is counted by the limit and waited for by the
\* drain: the permit and the completion sender outlive the last of its sockets
\* (mod.rs:36, 52-60, 83).
THEOREM SocketsCountedTheorem == ProxySpec => []SocketsCounted
<1>1. ProxyInv => SocketsCounted
  <2> SUFFICES ASSUME ProxyInv, sockets # {}, handler[Focus] \notin {"none", "queued", "reset"}
               PROVE  Focus \in shutdown_complete_tx /\ (Limited => Focus \in permit)
      BY DEF SocketsCounted
  <2>1. pc # "closed"
      BY DEF ProxyInv, H!HandlerInv, H!SocketsMatch
  <2>2. handler[Focus] \in Phases
      BY <2>1, FocusHandler DEF ProxyInv, PhaseMatches, HandlerStates
  <2>3. Focus \in Conn /\ SenderOwners /\ PermitOwners
      BY FocusHandler DEF ProxyInv, ServerInv
  <2>4. QED
      BY <2>2, <2>3 DEF SenderOwners, PermitOwners, Holders
<1>2. QED
    BY <1>1, ProxyInvTheorem, PTL

\* A task that is alive keeps the drain from being graceful.
LEMMA GracefulFocus ==
    ASSUME ProxyInv, verdict = "graceful"
    PROVE  handler[Focus] \notin Phases \cup {"closing"}
<1>1. shutdown_complete_tx = {} /\ SenderOwners /\ Focus \in Conn
    BY DEF ProxyInv, ServerInv, VerdictMatches
<1>2. QED
    BY <1>1 DEF SenderOwners, Holders

\* A graceful end leaves no socket of a connection behind, neither the client's
\* nor the ones opened for it (mod.rs:65-83, 178-189).
THEOREM GracefulReleasedTheorem == ProxySpec => []GracefulMeansReleased
<1>1. Init => NoneQueued
    BY DEF Init, NoneQueued
<1>2. ProxyInv /\ NoneQueued => GracefulMeansReleased
  <2> SUFFICES ASSUME ProxyInv, NoneQueued, verdict = "graceful",
                      handler[Focus] \notin {"none", "reset"}
               PROVE  sockets = {}
      BY DEF GracefulMeansReleased
  <2>1. listener = "exited"
      BY DEF ProxyInv, ServerInv, VerdictMatches
  <2>2. handler[Focus] \in {"returned", "done"}
      BY <2>1, GracefulFocus, FocusHandler DEF NoneQueued, HandlerStates, ProxyInv
  <2>3. pc = "closed"
      BY <2>2 DEF ProxyInv, PhaseMatches
  <2>4. QED
      BY <2>3 DEF ProxyInv, H!HandlerInv, H!SocketsMatch
<1>3. ProxyInv /\ NoneQueued /\ [ProxyNext]_allVars => NoneQueued'
    BY NoneQueuedStep, StepMaps DEF ProxyInv
<1>4. QED
    BY <1>1, <1>2, <1>3, ProxyInvTheorem, PTL DEF ProxySpec, ProxyInit

\* What was told by the time the task is at an await: at most one success of a
\* BIND, and none of anything else, before the tunnel.
GrantInv ==
    /\ pc \notin {"relay", "closed"} => ~Granted
    /\ pc \notin {"accept", "send_second", "send_final", "shutdown", "relay", "closed"}
          => Successes = {}
    /\ pc \in {"bind", "send_first", "accept", "send_second"} => command = "Bind"
    /\ GrantsKept

\* What is told adds one success at most.
LEMMA Tells ==
    ASSUME H!TypeOK, NEW m \in H!ServerMessages, wire' = Append(wire, m)
    PROVE  Successes' = IF m = "Succeeded" THEN Successes \cup {Len(wire) + 1} ELSE Successes
<1>1. wire \in Seq(H!ServerMessages)
    BY DEF H!TypeOK
<1>2. /\ Len(wire') = Len(wire) + 1
      /\ wire'[Len(wire) + 1] = m
      /\ \A i \in 1..Len(wire) : wire'[i] = wire[i]
      /\ Len(wire) \in Nat
    BY <1>1
<1>3. QED
    BY <1>2 DEF Successes

\* A task that ends before its tunnel has granted nothing.
LEMMA EndsUngranted ==
    ASSUME GrantInv, pc \notin {"relay", "closed"}, pc' = "closed", UNCHANGED <<wire, command>>
    PROVE  GrantInv'
BY DEF GrantInv, GrantsKept, Granted, Successes

LEMMA TaskGrants ==
    ASSUME ProxyInv, GrantInv, H!Task \/ H!Network, UNCHANGED verdict
    PROVE  GrantInv'
<1>1. H!TypeOK
    BY DEF ProxyInv, H!HandlerInv
<1>2. CASE \/ H!RecvMalformed \/ H!RecvEnds \/ H!SendFails \/ H!ShutdownStream
           \/ H!ShutdownCancels \/ H!ConnectPanics
  <2>1. pc \notin {"relay", "closed"} /\ pc' = "closed" /\ UNCHANGED <<wire, command>>
      BY <1>2 DEF H!RecvMalformed, H!RecvEnds, H!SendFails, H!ShutdownStream, H!ShutdownCancels,
         H!ConnectPanics, H!Close, H!dialogVars, H!Receiving, H!Sending, H!Handshake
  <2>2. QED
      BY <2>1, EndsUngranted
<1>3. CASE H!RelayEnds
    BY <1>3 DEF H!RelayEnds, H!Close, GrantInv, GrantsKept
<1>4. CASE H!RecvGreeting \/ H!RecvAuth \/ H!RecvRequest
  <2>1. /\ pc \in {"recv_greeting", "recv_auth", "recv_request"}
        /\ pc' \notin {"relay", "closed", "accept", "send_second", "send_first"}
        /\ pc' = "bind" => command' = "Bind"
        /\ UNCHANGED wire
      BY <1>4 DEF H!RecvGreeting, H!RecvAuth, H!RecvRequest, H!Reject
  <2>2. Successes' = {} /\ ~Granted'
      BY <2>1 DEF GrantInv, Successes, Granted
  <2>3. QED
      BY <2>1, <2>2 DEF GrantInv, GrantsKept
<1>5. CASE \/ H!ConnectTimesOut \/ H!BindTimesOut \/ H!Connects \/ H!ConnectFails \/ H!BindFails
           \/ H!PeerConnects \/ H!AcceptFails \/ H!BindListens
  <2>1. /\ pc \in {"connect", "bind", "accept"}
        /\ \/ pc' = "send_final"
           \/ pc = "connect" /\ pc' = "send_connected"
           \/ pc = "bind" /\ pc' = "send_first"
           \/ pc = "accept" /\ pc' = "send_second"
        /\ UNCHANGED <<wire, command>>
      BY <1>5 DEF H!ConnectTimesOut, H!BindTimesOut, H!Connects, H!ConnectFails, H!BindFails,
         H!PeerConnects, H!AcceptFails, H!BindListens, H!ErrorReply, H!Reject, H!dialogVars
  <2>2. (Granted' <=> Granted) /\ Successes' = Successes
      BY <2>1 DEF Granted, Successes
  <2>3. QED
      BY <2>1, <2>2 DEF GrantInv, GrantsKept
<1>6. CASE H!SendMethod \/ H!SendStatus \/ H!SendFinal
  <2>1. PICK m \in H!ServerMessages :
            /\ m # "Succeeded"
            /\ wire' = wire \/ wire' = Append(wire, m)
    <3>1. \A m \in {"UsernamePassword", "NoAuthenticationRequired", "Success"} :
              m \in H!ServerMessages /\ m # "Succeeded"
        BY DEF H!ServerMessages, H!OfferedMethods
    <3>2. pc = "send_final" => outgoing \in H!ServerMessages /\ outgoing # "Succeeded"
        BY <1>1 DEF H!TypeOK, H!ServerMessages
    <3>3. CASE H!SendMethod \/ H!SendStatus
        BY <3>1, <3>3 DEF H!SendMethod, H!SendStatus, H!Send
    <3>4. CASE H!SendFinal
        BY <3>2, <3>4 DEF H!SendFinal
    <3>5. QED
        BY <1>6, <3>3, <3>4
  <2>2. Successes' = Successes
      BY <1>1, <2>1, Tells DEF Successes
  <2>3. UNCHANGED command
      BY <1>6 DEF H!SendMethod, H!SendStatus, H!SendFinal, H!Send, H!dialogVars
  <2>4. Granted' <=> Granted
      BY <2>2, <2>3 DEF Granted
  <2>5. \/ pc \in {"send_method", "send_status"} /\ pc' \in {"recv_auth", "recv_request"}
        \/ pc = "send_final" /\ pc' = "shutdown"
      BY <1>6 DEF H!SendMethod, H!SendStatus, H!SendFinal, H!Send
  <2>6. QED
      BY <2>2, <2>3, <2>4, <2>5 DEF GrantInv, GrantsKept
<1>7. CASE H!SendFirst
  <2>1. /\ pc = "send_first" /\ pc' = "accept" /\ wire' = Append(wire, "Succeeded")
        /\ UNCHANGED command
      BY <1>7 DEF H!SendFirst, H!Send, H!dialogVars
  <2>2. command = "Bind" /\ Successes = {}
      BY <2>1 DEF GrantInv
  <2>3. "Succeeded" \in H!ServerMessages
      BY DEF H!ServerMessages, H!Replies
  <2>4. Successes' = {Len(wire) + 1}
      BY <1>1, <2>1, <2>2, <2>3, Tells
  <2>5. ~Granted'
      BY <2>1, <2>2, <2>4 DEF Granted
  <2>6. QED
      BY <2>1, <2>2, <2>5 DEF GrantInv, GrantsKept
<1>8. CASE H!SendConnected \/ H!SendSecond
  <2>1. pc' = "relay"
      BY <1>8 DEF H!SendConnected, H!SendSecond, H!Tunnel
  <2>2. QED
      BY <2>1 DEF GrantInv, GrantsKept
<1>9. QED
    BY <1>2, <1>3, <1>4, <1>5, <1>6, <1>7, <1>8 DEF H!Task, H!Network

LEMMA GrantStep == ProxyInv /\ GrantInv /\ [ProxyNext]_allVars => GrantInv'
<1> SUFFICES ASSUME ProxyInv, GrantInv, [ProxyNext]_allVars PROVE GrantInv'
    OBVIOUS
<1>1. CASE FocusTask \/ FocusNetwork
    BY <1>1, TaskGrants DEF FocusTask, FocusNetwork, serverRest, exitVars
<1>2. CASE FocusDropped
  <2>1. /\ listener = "exited" /\ handler[Focus] \in Phases
        /\ pc' = "closed" /\ UNCHANGED <<verdict, wire, command>>
      BY <1>2 DEF FocusDropped, RuntimeDrops, GoTo, exitVars, H!RuntimeDrops, H!Close, H!dialogVars
  <2>2. verdict = "forced"
      BY <2>1, GracefulFocus DEF ProxyInv, ServerInv, TypeOK, VerdictMatches
  <2>3. QED
      BY <2>1, <2>2 DEF GrantInv, GrantsKept
<1>3. CASE FocusClient
  <2>1. UNCHANGED <<pc, wire, command, error, verdict>>
      BY <1>3 DEF FocusClient, serverRest, exitVars, H!Client, H!ClientSends, H!ClientShutsDown,
         H!ClientResets, H!dialogVars, H!endVars
  <2>2. QED
      BY <2>1 DEF GrantInv, GrantsKept, Granted, Successes
<1>4. CASE UNCHANGED detail
  <2>1. verdict = "forced" => verdict' = "forced"
    <3>1. [Next]_vars
        BY StepMaps
    <3>2. CASE PollRecv \/ PollTimer
        BY <3>2 DEF PollRecv, PollTimer, ProxyInv, ServerInv, VerdictMatches
    <3>3. CASE ~(PollRecv \/ PollTimer)
        BY <3>1, <3>3 DEF Next, Environment, ListenerTask, ClientConnects, ShutdownSignal,
           DeadlineElapses, AcquirePermit, Accept, AcceptFails, TakeShutdown, DropNotify,
           DropComplete, HandlerTask, Negotiated, NegotiationFails, TunnelReady, HandlingFails,
           RelayEnds, Cancelled, RuntimeDrops, GoTo, DropSender, DropPermit, Terminated, vars,
           exitVars
    <3>4. QED
        BY <3>2, <3>3
  <2>2. QED
      BY <1>4, <2>1 DEF detail, GrantInv, GrantsKept, Granted, Successes
<1>5. QED
    BY <1>1, <1>2, <1>3, <1>4
       DEF ProxyNext, ServerStep, OtherTask, FocusEnds, allVars

\* A client that was told its tunnel is there keeps it until it ends by itself,
\* unless shutdown_timeout elapses (mod.rs:120-130, 182-189).
THEOREM GrantsKeptTheorem == ProxySpec => []GrantsKept
<1>1. ProxyInit => GrantInv
    BY DEF ProxyInit, H!Init, GrantInv, GrantsKept, Granted, Successes
<1>2. GrantInv => GrantsKept
    BY DEF GrantInv
<1>3. QED
    BY <1>1, <1>2, GrantStep, ProxyInvTheorem, PTL DEF ProxySpec
=============================================================================
