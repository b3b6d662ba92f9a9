------------------------------- MODULE Server -------------------------------
(***************************************************************************)
(* The accept loop, the connection limit and the graceful shutdown of      *)
(* noxen-proxy/src/server/mod.rs and server/shutdown.rs.                   *)
(*                                                                         *)
(* The listener task and the tasks it spawns run in parallel on tokio's    *)
(* worker threads.  An action is what one task does between two points at  *)
(* which another task can observe it: an await, or the drop of a value     *)
(* that is shared (a semaphore permit, a channel sender, a socket).  What  *)
(* a connection does inside a phase is the subject of module Socks5Handler;*)
(* here a phase completes, fails, or is cancelled by the shutdown.         *)
(***************************************************************************)
EXTENDS Naturals, Sequences, FiniteSets

CONSTANTS Conn,            \* the client connections that may arrive
          MaxConnections,  \* config.max_connections; 0 means unlimited
          Backlog          \* capacity of the kernel's accept queue

ASSUME ServerAssumption ==
    /\ IsFiniteSet(Conn)
    /\ "listener" \notin Conn
    /\ MaxConnections \in Nat
    /\ Backlog \in Nat \ {0}

VARIABLES
    listener,              \* where the future of server::run is
    limit_connections,     \* permits available in the semaphore
    permit,                \* owners of an OwnedSemaphorePermit
    notify_shutdown,       \* is the broadcast sender alive?
    shutdown_complete_tx,  \* owners of a clone of the mpsc sender
    backlog,               \* the kernel's queue of the listening socket
    handler,               \* where the task of each connection is
    shutdown,              \* has the shutdown future completed?
    deadline,              \* has config.shutdown_timeout elapsed?
    verdict                \* what server::run logged when it returned

vars == <<listener, limit_connections, permit, notify_shutdown,
          shutdown_complete_tx, backlog, handler, shutdown, deadline, verdict>>

limiterVars == <<limit_connections, permit>>
exitVars    == <<shutdown, deadline, verdict>>

-----------------------------------------------------------------------------
Limited == MaxConnections > 0

\* The awaits of Handler::run, then the drops that follow it: "closing" has
\* dropped the stream, "returned" has dropped the completion sender too.
Phases        == {"negotiate", "handle", "relay"}
HandlerStates == {"none", "queued", "reset", "closing", "returned", "done"} \cup Phases

\* acquire, accept: Listener::run.  The rest: server::run after its select!.
Serving        == {"acquire", "accept"}
ListenerStates == Serving \cup {"drop_notify", "drop_complete", "recv", "timer", "exited"}

\* The accepted sockets the process holds.
Open == {c \in Conn : handler[c] \in Phases}

Init ==
    /\ listener = "acquire"
    /\ limit_connections = MaxConnections
    /\ permit = {}
    /\ notify_shutdown = TRUE
    /\ shutdown_complete_tx = {"listener"}
    /\ backlog = <<>>
    /\ handler = [c \in Conn |-> "none"]
    /\ shutdown = FALSE
    /\ deadline = FALSE
    /\ verdict = "none"

-----------------------------------------------------------------------------
(* The environment: the kernel, the operator, the clock.                   *)

\* The kernel completes a handshake on the listening socket, which is open
\* until server::run returns: the drain keeps `server.listener` alive.
ClientConnects(c) ==
    /\ handler[c] = "none"
    /\ listener # "exited"
    /\ Len(backlog) < Backlog
    /\ backlog' = Append(backlog, c)
    /\ handler' = [handler EXCEPT ![c] = "queued"]
    /\ UNCHANGED <<listener, limiterVars, notify_shutdown, shutdown_complete_tx, exitVars>>

\* Ctrl+C or SIGTERM: the future handed to server::run becomes ready.
ShutdownSignal ==
    /\ ~shutdown
    /\ shutdown' = TRUE
    /\ UNCHANGED <<listener, limiterVars, notify_shutdown, shutdown_complete_tx,
                   backlog, handler, deadline, verdict>>

\* The timer of time::timeout runs while server::run awaits it.
DeadlineElapses ==
    /\ listener \in {"recv", "timer"}
    /\ ~deadline
    /\ deadline' = TRUE
    /\ UNCHANGED <<listener, limiterVars, notify_shutdown, shutdown_complete_tx,
                   backlog, handler, shutdown, verdict>>

-----------------------------------------------------------------------------
(* Listener::run.                                                          *)

\* Mutant: a max_connections of 0 builds a semaphore too.
AcquirePermit_ZeroIsALimit ==
    /\ listener = "acquire"
    /\ limit_connections > 0
    /\ listener' = "accept"
    /\ limit_connections' = limit_connections - 1
    /\ permit' = permit \cup {"listener"}
    /\ UNCHANGED <<notify_shutdown, shutdown_complete_tx, backlog, handler, exitVars>>

\* Without a limiter the loop goes straight to accept.
AcquirePermit ==
    /\ listener = "acquire"
    /\ listener' = "accept"
    /\ IF Limited
         THEN /\ limit_connections > 0
              /\ limit_connections' = limit_connections - 1
              /\ permit' = permit \cup {"listener"}
         ELSE UNCHANGED limiterVars
    /\ UNCHANGED <<notify_shutdown, shutdown_complete_tx, backlog, handler, exitVars>>

\* Mutant: the permit is dropped at the end of the loop body, not moved.
Accept_DropsPermit ==
    /\ listener = "accept"
    /\ backlog # <<>>
    /\ LET c == Head(backlog) IN
         /\ backlog' = Tail(backlog)
         /\ handler' = [handler EXCEPT ![c] = "negotiate"]
         /\ shutdown_complete_tx' = shutdown_complete_tx \cup {c}
    /\ permit' = permit \ {"listener"}
    /\ limit_connections' = limit_connections + Cardinality(permit \cap {"listener"})
    /\ listener' = "acquire"
    /\ UNCHANGED <<notify_shutdown, exitVars>>

\* Mutant: the handler gets no clone of the completion sender.
Accept_NoSender ==
    /\ listener = "accept"
    /\ backlog # <<>>
    /\ LET c == Head(backlog) IN
         /\ backlog' = Tail(backlog)
         /\ handler' = [handler EXCEPT ![c] = "negotiate"]
         /\ permit' = IF Limited THEN (permit \ {"listener"}) \cup {c} ELSE permit
    /\ listener' = "acquire"
    /\ UNCHANGED <<limit_connections, notify_shutdown, shutdown_complete_tx, exitVars>>

\* accept, the construction of the Handler (which subscribes to the broadcast
\* and clones the completion sender) and the spawn that moves the permit.
Accept ==
    /\ listener = "accept"
    /\ backlog # <<>>
    /\ LET c == Head(backlog) IN
         /\ backlog' = Tail(backlog)
         /\ handler' = [handler EXCEPT ![c] = "negotiate"]
         /\ shutdown_complete_tx' = shutdown_complete_tx \cup {c}
         /\ permit' = IF Limited THEN (permit \ {"listener"}) \cup {c} ELSE permit
    /\ listener' = "acquire"
    /\ UNCHANGED <<limit_connections, notify_shutdown, exitVars>>

\* Mutants: a permit is given back that was not taken, or the one taken is not.
DropListenerPermit_Always ==
    /\ limit_connections' = limit_connections + 1
    /\ permit' = permit \ {"listener"}
DropListenerPermit_Never == UNCHANGED limiterVars

\* The future of Listener::run is gone, and with it the permit it may hold.
DropListenerPermit ==
    IF "listener" \in permit
      THEN /\ limit_connections' = limit_connections + 1
           /\ permit' = permit \ {"listener"}
      ELSE UNCHANGED limiterVars

\* The `?` on accept: one failing accept ends the loop and starts the drain.
AcceptFails ==
    /\ listener = "accept"
    /\ listener' = "drop_notify"
    /\ DropListenerPermit
    /\ UNCHANGED <<notify_shutdown, shutdown_complete_tx, backlog, handler, exitVars>>

-----------------------------------------------------------------------------
(* server::run.                                                            *)

\* The select! takes the shutdown branch.
TakeShutdown ==
    /\ listener \in Serving
    /\ shutdown
    /\ listener' = "drop_notify"
    /\ DropListenerPermit
    /\ UNCHANGED <<notify_shutdown, shutdown_complete_tx, backlog, handler, exitVars>>

DropNotify ==
    /\ listener = "drop_notify"
    /\ notify_shutdown' = FALSE
    /\ listener' = "drop_complete"
    /\ UNCHANGED <<limiterVars, shutdown_complete_tx, backlog, handler, exitVars>>

DropComplete ==
    /\ listener = "drop_complete"
    /\ shutdown_complete_tx' = shutdown_complete_tx \ {"listener"}
    /\ listener' = "recv"
    /\ UNCHANGED <<limiterVars, notify_shutdown, backlog, handler, exitVars>>

\* server::run returns: its locals, the listening socket among them, are
\* dropped, and the kernel resets what is still queued.
Exit(why) ==
    /\ listener' = "exited"
    /\ verdict' = why
    /\ backlog' = <<>>
    /\ handler' = [c \in Conn |-> IF handler[c] = "queued" THEN "reset" ELSE handler[c]]

\* One poll of the timeout future polls recv() first, which ends the wait
\* when the last sender is gone ...
PollRecv ==
    /\ listener = "recv"
    /\ IF shutdown_complete_tx = {}
         THEN Exit("graceful")
         ELSE /\ listener' = "timer"
              /\ UNCHANGED <<backlog, handler, verdict>>
    /\ UNCHANGED <<limiterVars, notify_shutdown, shutdown_complete_tx, shutdown, deadline>>

\* Mutants: the wait has no timeout, or its expiry is not told from its end.
PollTimer_NoTimeout ==
    /\ listener = "timer"
    /\ listener' = "recv"
    /\ UNCHANGED <<limiterVars, notify_shutdown, shutdown_complete_tx, backlog, handler, exitVars>>
PollTimer_ExpiryIsSuccess ==
    /\ listener = "timer"
    /\ deadline
    /\ Exit("graceful")
    /\ UNCHANGED <<limiterVars, notify_shutdown, shutdown_complete_tx, shutdown, deadline>>

\* ... and looks at the timer only when recv() is pending.
PollTimer ==
    /\ listener = "timer"
    /\ IF deadline
         THEN Exit("forced")
         ELSE /\ listener' = "recv"
              /\ UNCHANGED <<backlog, handler, verdict>>
    /\ UNCHANGED <<limiterVars, notify_shutdown, shutdown_complete_tx, shutdown, deadline>>

-----------------------------------------------------------------------------
(* Handler::run and the task that runs it.                                 *)

GoTo(c, from, to) ==
    /\ handler[c] = from
    /\ handler' = [handler EXCEPT ![c] = to]
    /\ UNCHANGED <<listener, limiterVars, notify_shutdown, shutdown_complete_tx,
                   backlog, exitVars>>

Negotiated(c)       == GoTo(c, "negotiate", "handle")
NegotiationFails(c) == GoTo(c, "negotiate", "closing")
TunnelReady(c)      == GoTo(c, "handle", "relay")

\* An error, or a panic: unwinding drops the same values in the same order.
HandlingFails(c) == GoTo(c, "handle", "closing")

\* The tunnel is awaited outside a select!: the shutdown does not end it.
RelayEnds(c) == GoTo(c, "relay", "closing")

\* Mutant: the request phase is awaited without a select!.
Cancelled_OnlyNegotiation(c) ==
    /\ ~notify_shutdown
    /\ GoTo(c, "negotiate", "closing")

\* recv() on the broadcast fails once the only sender is dropped.
Cancelled(c) ==
    /\ ~notify_shutdown
    /\ \/ GoTo(c, "negotiate", "closing")
       \/ GoTo(c, "handle", "closing")

\* The runtime is dropped after main returns, and drops the tasks it runs.
RuntimeDrops(c) ==
    /\ listener = "exited"
    /\ handler[c] \in Phases
    /\ GoTo(c, handler[c], "closing")

\* The rest of `self` is dropped after the locals of Handler::run.
DropSender(c) ==
    /\ handler[c] = "closing"
    /\ handler' = [handler EXCEPT ![c] = "returned"]
    /\ shutdown_complete_tx' = shutdown_complete_tx \ {c}
    /\ UNCHANGED <<listener, limiterVars, notify_shutdown, backlog, exitVars>>

\* Mutant: the task ends without giving its permit back.
DropPermit_Forgets(c) ==
    /\ handler[c] = "returned"
    /\ handler' = [handler EXCEPT ![c] = "done"]
    /\ permit' = permit \ {c}
    /\ UNCHANGED <<listener, limit_connections, notify_shutdown, shutdown_complete_tx, backlog, exitVars>>

\* drop(permit), the last statement of the task.
DropPermit(c) ==
    /\ handler[c] = "returned"
    /\ handler' = [handler EXCEPT ![c] = "done"]
    /\ IF c \in permit
         THEN /\ limit_connections' = limit_connections + 1
              /\ permit' = permit \ {c}
         ELSE UNCHANGED limiterVars
    /\ UNCHANGED <<listener, notify_shutdown, shutdown_complete_tx, backlog, exitVars>>

\* The process has ended.
Terminated ==
    /\ listener = "exited"
    /\ \A c \in Conn : handler[c] \in {"none", "reset", "done"}
    /\ UNCHANGED vars

-----------------------------------------------------------------------------
Environment ==
    \/ \E c \in Conn : ClientConnects(c)
    \/ ShutdownSignal
    \/ DeadlineElapses

ListenerTask ==
    \/ AcquirePermit
    \/ Accept
    \/ AcceptFails
    \/ TakeShutdown
    \/ DropNotify
    \/ DropComplete
    \/ PollRecv
    \/ PollTimer

HandlerTask(c) ==
    \/ Negotiated(c)
    \/ NegotiationFails(c)
    \/ TunnelReady(c)
    \/ HandlingFails(c)
    \/ RelayEnds(c)
    \/ Cancelled(c)
    \/ RuntimeDrops(c)
    \/ DropSender(c)
    \/ DropPermit(c)

Next ==
    \/ Environment
    \/ ListenerTask
    \/ \E c \in Conn : HandlerTask(c)
    \/ Terminated

Spec == Init /\ [][Next]_vars

(***************************************************************************)
(* Fairness.  A woken task is polled again, and a drop is not interrupted, *)
(* so every step the listener and a finishing task can take on their own   *)
(* is taken; the shutdown branch of a select! that stays ready is picked   *)
(* (tokio polls the branches in random order, and the accept branch yields *)
(* when its cooperative budget is spent).  Nothing is assumed of the       *)
(* clients: no one has to connect, to complete a phase or to end a relay.  *)
(* Nor is accept assumed to fail, the signal to come, or the timer of the  *)
(* drain to fire: a property that needs it says so (TimerFires).           *)
(***************************************************************************)
Fairness ==
    /\ WF_vars(AcquirePermit)
    /\ WF_vars(Accept)
    /\ WF_vars(TakeShutdown)
    /\ WF_vars(DropNotify)
    /\ WF_vars(DropComplete)
    /\ WF_vars(PollRecv)
    /\ WF_vars(PollTimer)
    /\ \A c \in Conn :
         /\ WF_vars(Cancelled(c))
         /\ WF_vars(RuntimeDrops(c))
         /\ WF_vars(DropSender(c))
         /\ WF_vars(DropPermit(c))

FairSpec == Spec /\ Fairness

-----------------------------------------------------------------------------
(* Properties.                                                             *)

\* The types of the state, with the semaphore within its capacity.
TypeOK ==
    /\ listener \in ListenerStates
    /\ limit_connections \in 0..MaxConnections
    /\ permit \subseteq Conn \cup {"listener"}
    /\ notify_shutdown \in BOOLEAN
    /\ shutdown_complete_tx \subseteq Conn \cup {"listener"}
    /\ backlog \in Seq(Conn)
    /\ handler \in [Conn -> HandlerStates]
    /\ shutdown \in BOOLEAN
    /\ deadline \in BOOLEAN
    /\ verdict \in {"none", "graceful", "forced"}

\* No permit is lost or made up, whichever way a connection, the accept loop
\* or the process ends: what the semaphore has and what is owned add up to
\* config.max_connections (mod.rs:35-36, 59, 146-150).
PermitsConserved ==
    IF Limited THEN limit_connections + Cardinality(permit) = MaxConnections
               ELSE permit = {}

\* "Maximum concurrent connections (0 = unlimited)" (README.md:77): a permit
\* is never back in the semaphore while the connection it was taken for is
\* still open, so the limit holds of the sockets, not only of the permits.
ConnectionLimit == Limited => Cardinality(Open) <= MaxConnections

\* "All connections closed gracefully" (mod.rs:188) is only logged when no
\* handler holds a socket: the completion sender outlives the stream, and no
\* handler is started after the last sender is gone.
GracefulMeansClosed == verdict = "graceful" => Open = {}

\* Who owns a permit, and who a completion sender, is determined by where the
\* listener and the handlers are; a queued connection is queued once; and the
\* verdict is the reason of the exit.
Holders(states)  == {c \in Conn : handler[c] \in states}
PermitOwners ==
    permit = IF Limited
               THEN (IF listener = "accept" THEN {"listener"} ELSE {})
                        \cup Holders(Phases \cup {"closing", "returned"})
               ELSE {}
SenderOwners ==
    shutdown_complete_tx =
        (IF listener \in Serving \cup {"drop_notify", "drop_complete"} THEN {"listener"} ELSE {})
            \cup Holders(Phases \cup {"closing"})
BroadcastOwner == notify_shutdown <=> listener \in Serving \cup {"drop_notify"}
QueueMatches ==
    /\ \A i \in 1..Len(backlog) : handler[backlog[i]] = "queued"
    /\ \A i, j \in 1..Len(backlog) : backlog[i] = backlog[j] => i = j
VerdictMatches ==
    /\ (verdict = "none") <=> (listener # "exited")
    /\ verdict = "graceful" => shutdown_complete_tx = {}

\* The inductive invariant: TypeOK and PermitsConserved are not preserved
\* without the ownership facts (a permit is released once because its owner
\* is known), nor these without the order of the queue.
ServerInv ==
    /\ TypeOK
    /\ PermitsConserved
    /\ PermitOwners
    /\ SenderOwners
    /\ BroadcastOwner
    /\ QueueMatches
    /\ VerdictMatches

\* The server implements the service it promises.
Service == INSTANCE ProxyService WITH
    mode    <- IF listener \in Serving THEN "up"
               ELSE IF listener = "exited" THEN "down" ELSE "draining",
    serving <- Open,
    left    <- {c \in Conn : handler[c] \in {"closing", "returned", "done"}},
    report  <- verdict

ImplementsService == Service!Spec

\* The drain does not wait for ever for shutdown_timeout to elapse.
TimerFires == []<>(deadline \/ listener \notin {"recv", "timer"})

\* Once the signal is given, server::run returns within shutdown_timeout even
\* if no client ever closes its relay (mod.rs:167-189).
ShutdownEnds == TimerFires => (shutdown ~> (listener = "exited"))

\* The server stops serving: the signal came, or accept failed.
Stopping == shutdown \/ listener \notin Serving

\* Only relays hold up the drain: if they end, it is graceful without the
\* timer, however long clients dawdle in the handshake, for the broadcast
\* cancels both of its phases (mod.rs:87-118), and no sender is left behind.
GracefulDrain ==
    (\A c \in Conn : []<>(handler[c] # "relay"))
        => (Stopping ~> (deadline \/ verdict = "graceful"))

\* With a limit, a client waits in the kernel's queue for ever only if some
\* client that was admitted stays for ever: permits are never lost.
QueueServed ==
    (\A d \in Conn : [](d \in Open => <>(d \notin Open)))
        => \A c \in Conn : (handler[c] = "queued") ~> (handler[c] # "queued")

\* Without a limit nobody waits in the queue for ever, whatever the clients
\* already admitted do (mod.rs:37-39).
UnlimitedQueueServed ==
    TimerFires => \A c \in Conn : (handler[c] = "queued") ~> (handler[c] # "queued")

\* After a shutdown, or a failing accept, however the drain ends, no permit, no
\* sender and no socket is left with a listener or a handler that will not drop
\* it, and no client in the queue of the listening socket (mod.rs:161-189).
EverythingReleased ==
    TimerFires =>
        (Stopping ~> /\ permit = {} /\ shutdown_complete_tx = {} /\ Open = {}
                     /\ \A c \in Conn : handler[c] # "queued")
=============================================================================
