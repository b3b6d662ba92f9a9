-------------------------------- MODULE Proxy -------------------------------
(***************************************************************************)
(* The server with one of its connections in full: Server composed with    *)
(* Socks5Handler, which share the broadcast of the shutdown, the sockets   *)
(* and the end of the connection's task.  The other connections are as     *)
(* abstract as in Server.                                                  *)
(*                                                                         *)
(* Handler::run of noxen-proxy/src/server/mod.rs is where the two meet: it *)
(* awaits negotiate(), handle() and the tunnel, one after the other, so    *)
(* the phase of the connection is a function of the await it is at.        *)
(***************************************************************************)
EXTENDS Server

CONSTANTS Focus,                             \* the connection in full
          Messages, MaxUnread, MaxAttempts   \* of Socks5Handler

VARIABLES allow_no_auth, pc, client, rx, buffer, offered, verified, command, wire, outgoing,
          sockets, error

H == INSTANCE Socks5Handler

ASSUME ProxyAssumption == Focus \in Conn /\ H!HandlerAssumption

serverRest == <<listener, limiterVars, shutdown_complete_tx, backlog, exitVars>>
detail     == <<allow_no_auth, pc, client, rx, buffer, offered, verified, command, wire,
                outgoing, sockets, error>>
allVars    == <<vars, detail>>

ProxyInit == Init /\ H!Init

\* Where Handler::run is.
Negotiating == {"recv_greeting", "send_method", "recv_auth", "send_status"}
Rejecting   == {"send_final", "shutdown"}
PhaseOf ==
    CASE pc \in Negotiating -> "negotiate"
      [] pc \in Rejecting /\ command = "none" -> "negotiate"
      [] pc = "relay"  -> "relay"
      [] pc = "closed" -> "closing"
      [] OTHER         -> "handle"

-----------------------------------------------------------------------------
\* The listener and its environment; the broadcast is dropped here.
ServerStep ==
    /\ Environment \/ ListenerTask
    /\ UNCHANGED detail

OtherTask(c) ==
    /\ c # Focus
    /\ HandlerTask(c)
    /\ UNCHANGED detail

\* A client may send and hang up before it is accepted.
FocusClient ==
    /\ handler[Focus] \in Phases \cup {"queued"}
    /\ H!Client
    /\ UNCHANGED <<serverRest, handler>>

\* Mutant: the tunnel is spawned as a task of its own, and Handler::run returns.
Follows_SpawnsTunnel ==
    handler' = [handler EXCEPT ![Focus] = IF pc' = "relay" THEN "closing" ELSE PhaseOf']

Follows == handler' = [handler EXCEPT ![Focus] = PhaseOf']

FocusTask ==
    /\ handler[Focus] \in Phases
    /\ H!Task
    /\ Follows
    /\ UNCHANGED serverRest

FocusNetwork ==
    /\ handler[Focus] \in Phases
    /\ H!Network
    /\ Follows
    /\ UNCHANGED serverRest

FocusDropped ==
    /\ RuntimeDrops(Focus)
    /\ H!RuntimeDrops

FocusEnds ==
    /\ DropSender(Focus) \/ DropPermit(Focus)
    /\ UNCHANGED detail

ProxyNext ==
    \/ ServerStep
    \/ \E c \in Conn : OtherTask(c)
    \/ FocusClient
    \/ FocusTask
    \/ FocusNetwork
    \/ FocusDropped
    \/ FocusEnds
    \/ Terminated /\ UNCHANGED detail

ProxySpec == ProxyInit /\ [][ProxyNext]_allVars

\* The fairness of the parts.
Step(A) == A /\ UNCHANGED detail
ProxyFairness ==
    /\ WF_allVars(Step(AcquirePermit))
    /\ WF_allVars(Step(Accept))
    /\ WF_allVars(Step(TakeShutdown))
    /\ WF_allVars(Step(DropNotify))
    /\ WF_allVars(Step(DropComplete))
    /\ WF_allVars(Step(PollRecv))
    /\ WF_allVars(Step(PollTimer))
    /\ \A c \in Conn \ {Focus} :
         /\ WF_allVars(Step(Cancelled(c)))
         /\ WF_allVars(Step(RuntimeDrops(c)))
         /\ WF_allVars(Step(DropSender(c)))
         /\ WF_allVars(Step(DropPermit(c)))
    /\ WF_allVars(FocusTask)
    /\ WF_allVars(FocusDropped)
    /\ WF_allVars(FocusEnds)

ProxyFairSpec == ProxySpec /\ ProxyFairness

-----------------------------------------------------------------------------
(* Properties.                                                             *)

\* The phase the server sees is the one the handler is in, and what the handler
\* serves is a command it has read.
Serves == {"connect", "send_connected", "bind", "send_first", "accept", "send_second"}
PhaseMatches ==
    /\ handler[Focus] \in Phases => handler[Focus] = PhaseOf
    /\ handler[Focus] \in {"none", "queued", "reset"} => pc = "recv_greeting"
    /\ handler[Focus] \in {"closing", "returned", "done"} => pc = "closed"
    /\ pc \in Serves => command # "none"

\* The inductive invariant of the composition.
ProxyInv == ServerInv /\ H!HandlerInv /\ PhaseMatches

\* The limit and the drain count what a connection has opened, not only the
\* client's socket: as long as its target, its BIND port or its client is open,
\* the task has its permit and its completion sender (mod.rs:36, 52-60, 83),
\* whether the handshake was cancelled, failed or became a relay.
SocketsCounted ==
    (sockets # {} /\ handler[Focus] \notin {"none", "queued", "reset"})
        => /\ Focus \in shutdown_complete_tx
           /\ Limited => Focus \in permit

\* "All connections closed gracefully" (mod.rs:188) holds of what a connection
\* has opened too: no target and no port of a BIND is left behind by a task that
\* the drain waited for.
GracefulMeansReleased ==
    verdict = "graceful" => sockets = {} \/ handler[Focus] \in {"none", "reset"}

\* A tunnel that the client was granted, by the one success of a CONNECT or the
\* second of a BIND, ends by itself, or because the drain was given up: a
\* graceful shutdown takes back no success (mod.rs:120-130, 182-189).
Successes == {i \in 1..Len(wire) : wire[i] = "Succeeded"}
Granted   == IF command = "Bind" THEN \E i, j \in Successes : i # j ELSE Successes # {}
GrantsKept ==
    (Granted /\ pc = "closed") => error = H!Relayed \/ verdict = "forced"

\* What the server assumes of a connection, its fairness included, is what the
\* handler does: the awaits of a handshake are cancelled by the shutdown, the
\* relay is not, and the task gets to its end (mod.rs:77-131).
ImplementsServer == FairSpec

\* With a limit, a client waits in the queue for ever only if another client
\* keeps the handler waiting for a message, or a relay goes on: a connect, a
\* BIND or a rejection that hangs does not keep a permit (state.rs:560-579,
\* 656-681; mod.rs:33-60).
OnlyClientsBlockQueue ==
    (/\ \A d \in Conn \ {Focus} : [](d \in Open => <>(d \notin Open))
     /\ []<>(handler[Focus] \notin Phases \/ pc \notin H!Receiving \cup {"relay"}))
        => \A c \in Conn : (handler[c] = "queued") ~> (handler[c] # "queued")
=============================================================================
