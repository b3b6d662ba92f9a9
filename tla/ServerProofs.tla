---------------------------- MODULE ServerProofs ----------------------------
(***************************************************************************)
(* Theorems about module Server, for every set of clients, every limit and *)
(* every size of the kernel's queue.                                       *)
(***************************************************************************)
EXTENDS Server, FiniteSetTheorems, TLAPS

USE ServerAssumption

\* A set with one element more, or fewer, when it has or has not the element.
LEMMA AddOne ==
    ASSUME NEW S, IsFiniteSet(S), NEW x, x \notin S
    PROVE  /\ IsFiniteSet(S \cup {x})
           /\ Cardinality(S \cup {x}) = Cardinality(S) + 1
           /\ Cardinality(S) \in Nat
<1>1. Cardinality(S) \in Nat
    BY FS_CardinalityType
<1>2. QED
    BY <1>1, FS_AddElement

LEMMA DropOne ==
    ASSUME NEW S, IsFiniteSet(S), NEW x, x \in S
    PROVE  /\ IsFiniteSet(S \ {x})
           /\ Cardinality(S) = Cardinality(S \ {x}) + 1
           /\ Cardinality(S \ {x}) \in Nat
<1>1. /\ IsFiniteSet(S \ {x})
      /\ x \notin S \ {x}
      /\ (S \ {x}) \cup {x} = S
    BY FS_RemoveElement
<1>2. QED
    BY <1>1, AddOne

\* The owners of permits are finitely many, so they can be counted.
LEMMA PermitFinite ==
    ASSUME TypeOK
    PROVE  IsFiniteSet(permit) /\ Cardinality(permit) \in Nat
<1>1. IsFiniteSet(Conn \cup {"listener"})
    BY FS_AddElement
<1>2. IsFiniteSet(permit)
    BY <1>1, FS_Subset DEF TypeOK
<1>3. QED
    BY <1>2, FS_CardinalityType

-----------------------------------------------------------------------------
(* The invariant holds initially and every action preserves it.            *)

LEMMA InitInv == Init => ServerInv
<1> SUFFICES ASSUME Init PROVE ServerInv
    OBVIOUS
<1>1. Holders(Phases \cup {"closing", "returned"}) = {} /\ Holders(Phases \cup {"closing"}) = {}
    BY DEF Init, Holders, Phases
<1>2. TypeOK
  <2>1. <<>> \in Seq(Conn) /\ MaxConnections \in 0..MaxConnections
      OBVIOUS
  <2>2. QED
      BY <2>1 DEF Init, TypeOK, ListenerStates, Serving, HandlerStates
<1>3. PermitsConserved
    BY FS_EmptySet DEF Init, PermitsConserved, Limited
<1>4. PermitOwners /\ SenderOwners
    BY <1>1 DEF Init, PermitOwners, SenderOwners, Serving
<1>5. BroadcastOwner /\ QueueMatches /\ VerdictMatches
    BY DEF Init, BroadcastOwner, QueueMatches, VerdictMatches, Serving
<1>6. QED
    BY <1>2, <1>3, <1>4, <1>5 DEF ServerInv

\* Nothing in the invariant speaks of the clock or of the signal.
LEMMA ClockInv == ServerInv /\ (ShutdownSignal \/ DeadlineElapses) => ServerInv'
<1> SUFFICES ASSUME ServerInv, ShutdownSignal \/ DeadlineElapses PROVE ServerInv'
    OBVIOUS
<1>1. UNCHANGED <<listener, limit_connections, permit, notify_shutdown,
                  shutdown_complete_tx, backlog, handler, verdict>>
    BY DEF ShutdownSignal, DeadlineElapses, limiterVars
<1>2. TypeOK'
    BY <1>1 DEF ServerInv, TypeOK, ShutdownSignal, DeadlineElapses
<1>3. QED
    BY <1>1, <1>2 DEF ServerInv, PermitsConserved, PermitOwners, SenderOwners,
       BroadcastOwner, QueueMatches, VerdictMatches, Holders

LEMMA ClientConnectsInv ==
    ASSUME ServerInv, NEW c \in Conn, ClientConnects(c)
    PROVE  ServerInv'
<1> USE DEF ServerInv
<1>1. /\ backlog \in Seq(Conn)
      /\ backlog' = Append(backlog, c)
      /\ handler[c] = "none"
      /\ handler' = [handler EXCEPT ![c] = "queued"]
      /\ UNCHANGED <<listener, limit_connections, permit, notify_shutdown,
                     shutdown_complete_tx, shutdown, deadline, verdict>>
    BY DEF ClientConnects, TypeOK, limiterVars, exitVars
<1>2. TypeOK'
    BY <1>1 DEF TypeOK, HandlerStates
<1>3. /\ Holders(Phases \cup {"closing", "returned"})' = Holders(Phases \cup {"closing", "returned"})
      /\ Holders(Phases \cup {"closing"})' = Holders(Phases \cup {"closing"})
    BY <1>1 DEF Holders, Phases, TypeOK
<1>4. QueueMatches'
  <2>1. /\ Len(backlog') = Len(backlog) + 1
        /\ \A i \in 1..Len(backlog) : backlog'[i] = backlog[i] /\ backlog[i] \in Conn
        /\ backlog'[Len(backlog) + 1] = c
        /\ Len(backlog) \in Nat
      BY <1>1
  <2>2. \A i \in 1..Len(backlog) : backlog[i] # c
      BY <1>1 DEF QueueMatches
  <2>3. QED
      BY <1>1, <2>1, <2>2 DEF QueueMatches, TypeOK
<1>5. QED
    BY <1>1, <1>2, <1>3, <1>4 DEF PermitsConserved, PermitOwners, SenderOwners,
       BroadcastOwner, VerdictMatches

LEMMA AcquirePermitInv == ServerInv /\ AcquirePermit => ServerInv'
<1> SUFFICES ASSUME ServerInv, AcquirePermit PROVE ServerInv'
    OBVIOUS
<1> USE DEF ServerInv
<1>1. /\ listener = "acquire"
      /\ listener' = "accept"
      /\ UNCHANGED <<notify_shutdown, shutdown_complete_tx, backlog, handler,
                     shutdown, deadline, verdict>>
    BY DEF AcquirePermit, exitVars
<1>2. "listener" \notin permit
    BY <1>1 DEF PermitOwners, Holders
<1>3. TypeOK' /\ PermitsConserved'
  <2>1. CASE Limited
    <3>1. /\ limit_connections > 0
          /\ limit_connections' = limit_connections - 1
          /\ permit' = permit \cup {"listener"}
        BY <2>1 DEF AcquirePermit
    <3>2. TypeOK'
        BY <1>1, <3>1 DEF TypeOK, ListenerStates, Serving
    <3>3. Cardinality(permit') = Cardinality(permit) + 1 /\ Cardinality(permit) \in Nat
        BY <1>2, <3>1, AddOne, PermitFinite
    <3>4. limit_connections \in Nat /\ limit_connections + Cardinality(permit) = MaxConnections
        BY <2>1 DEF TypeOK, PermitsConserved
    <3>5. limit_connections' + Cardinality(permit') = MaxConnections
        BY <3>1, <3>3, <3>4
    <3>6. QED
        BY <2>1, <3>2, <3>5 DEF PermitsConserved, Limited
  <2>2. CASE ~Limited
      BY <1>1, <2>2 DEF AcquirePermit, limiterVars, TypeOK, ListenerStates, Serving,
         PermitsConserved, Limited
  <2>3. QED
      BY <2>1, <2>2
<1>4. PermitOwners'
    BY <1>1 DEF AcquirePermit, PermitOwners, Holders, limiterVars, Limited
<1>5. QED
    BY <1>1, <1>3, <1>4 DEF SenderOwners, Holders, Serving, BroadcastOwner,
       QueueMatches, VerdictMatches

LEMMA AcceptInv == ServerInv /\ Accept => ServerInv'
<1> SUFFICES ASSUME ServerInv, Accept PROVE ServerInv'
    OBVIOUS
<1> USE DEF ServerInv
<1> DEFINE c == Head(backlog)
<1>1. /\ listener = "accept" /\ listener' = "acquire"
      /\ backlog # <<>> /\ backlog' = Tail(backlog)
      /\ handler' = [handler EXCEPT ![c] = "negotiate"]
      /\ shutdown_complete_tx' = shutdown_complete_tx \cup {c}
      /\ permit' = IF Limited THEN (permit \ {"listener"}) \cup {c} ELSE permit
      /\ UNCHANGED <<limit_connections, notify_shutdown, shutdown, deadline, verdict>>
    BY DEF Accept, exitVars
<1>2. /\ c \in Conn /\ backlog[1] = c /\ Len(backlog) \in Nat /\ Len(backlog) >= 1
      /\ backlog' \in Seq(Conn)
      /\ Len(backlog') = Len(backlog) - 1
      /\ \A i \in 1..Len(backlog') : backlog'[i] = backlog[i + 1]
    BY <1>1 DEF TypeOK
<1>3. handler[c] = "queued"
    BY <1>2 DEF QueueMatches
<1>4. /\ c # "listener" /\ handler \in [Conn -> HandlerStates] /\ c \notin permit
    BY <1>2, <1>3 DEF TypeOK, PermitOwners, Holders, Phases
<1>5. TypeOK'
    BY <1>1, <1>2, <1>4 DEF TypeOK, ListenerStates, Serving, HandlerStates, Phases
<1>6. PermitsConserved'
  <2>1. CASE Limited
    <3>1. "listener" \in permit
        BY <1>1, <2>1 DEF PermitOwners
    <3>2. /\ IsFiniteSet(permit \ {"listener"})
          /\ Cardinality(permit) = Cardinality(permit \ {"listener"}) + 1
        BY <3>1, DropOne, PermitFinite
    <3>3. Cardinality(permit') = Cardinality(permit)
        BY <1>1, <1>4, <2>1, <3>2, AddOne
    <3>4. QED
        BY <1>1, <2>1, <3>3 DEF PermitsConserved, Limited
  <2>2. QED
      BY <1>1, <2>1 DEF PermitsConserved, Limited
<1>7. /\ Holders(Phases \cup {"closing", "returned"})'
            = Holders(Phases \cup {"closing", "returned"}) \cup {c}
      /\ Holders(Phases \cup {"closing"})' = Holders(Phases \cup {"closing"}) \cup {c}
  <2>1. \A d \in Conn : handler'[d] = IF d = c THEN "negotiate" ELSE handler[d]
      BY <1>1, <1>4
  <2>2. QED
      BY <1>2, <2>1 DEF Holders, Phases
<1>8. PermitOwners'
  <2>1. "listener" \notin Holders(Phases \cup {"closing", "returned"})
      BY DEF Holders
  <2>2. QED
      BY <1>1, <1>4, <1>7, <2>1 DEF PermitOwners, Limited
<1>9. SenderOwners'
    BY <1>1, <1>7 DEF SenderOwners, Serving
<1>10. QueueMatches'
    BY <1>1, <1>2, <1>4 DEF QueueMatches
<1>11. QED
    BY <1>1, <1>5, <1>6, <1>8, <1>9, <1>10 DEF BroadcastOwner, VerdictMatches, Serving

\* The two ways out of the serving loop.
LEMMA LeaveServingInv == ServerInv /\ (AcceptFails \/ TakeShutdown) => ServerInv'
<1> SUFFICES ASSUME ServerInv, AcceptFails \/ TakeShutdown PROVE ServerInv'
    OBVIOUS
<1> USE DEF ServerInv
<1>1. /\ listener \in Serving /\ listener' = "drop_notify"
      /\ DropListenerPermit
      /\ UNCHANGED <<notify_shutdown, shutdown_complete_tx, backlog, handler,
                     shutdown, deadline, verdict>>
    BY DEF AcceptFails, TakeShutdown, exitVars, Serving
<1>2. permit' = permit \ {"listener"}
    BY <1>1 DEF DropListenerPermit, limiterVars
<1>3. TypeOK' /\ PermitsConserved'
  <2>1. CASE "listener" \in permit
    <3>1. limit_connections' = limit_connections + 1 /\ Limited
        BY <1>1, <2>1 DEF DropListenerPermit, PermitOwners
    <3>2. Cardinality(permit) = Cardinality(permit') + 1 /\ Cardinality(permit') \in Nat
        BY <1>2, <2>1, DropOne, PermitFinite
    <3>3. QED
        BY <1>1, <1>2, <3>1, <3>2 DEF TypeOK, ListenerStates, PermitsConserved, Limited
  <2>2. CASE "listener" \notin permit
      BY <1>1, <2>2 DEF DropListenerPermit, limiterVars, TypeOK, ListenerStates,
         PermitsConserved, Limited
  <2>3. QED
      BY <2>1, <2>2
<1>4. PermitOwners'
    BY <1>1, <1>2 DEF PermitOwners, Holders, Limited
<1>5. QED
    BY <1>1, <1>3, <1>4 DEF SenderOwners, Holders, Serving, BroadcastOwner,
       QueueMatches, VerdictMatches

LEMMA DropNotifyInv == ServerInv /\ DropNotify => ServerInv'
BY DEF ServerInv, DropNotify, limiterVars, exitVars, TypeOK, ListenerStates, Serving,
       PermitsConserved, Limited, PermitOwners, SenderOwners, Holders, BroadcastOwner,
       QueueMatches, VerdictMatches

LEMMA DropCompleteInv == ServerInv /\ DropComplete => ServerInv'
<1> SUFFICES ASSUME ServerInv, DropComplete PROVE ServerInv'
    OBVIOUS
<1> USE DEF ServerInv, DropComplete, limiterVars, exitVars
<1>1. TypeOK'
    BY DEF TypeOK, ListenerStates
<1>2. SenderOwners'
    BY DEF SenderOwners, Holders, Serving
<1>3. QED
    BY <1>1, <1>2 DEF PermitsConserved, Limited, PermitOwners, Holders, BroadcastOwner,
       Serving, QueueMatches, VerdictMatches

\* A poll that is pending, and one that ends the wait.
LEMMA PollInv == ServerInv /\ (PollRecv \/ PollTimer) => ServerInv'
<1> SUFFICES ASSUME ServerInv, PollRecv \/ PollTimer PROVE ServerInv'
    OBVIOUS
<1> USE DEF ServerInv
<1>1. /\ listener \in {"recv", "timer"}
      /\ UNCHANGED <<limit_connections, permit, notify_shutdown, shutdown_complete_tx,
                     shutdown, deadline>>
    BY DEF PollRecv, PollTimer, limiterVars
<1>2. CASE listener' \in {"recv", "timer"} /\ UNCHANGED <<backlog, handler, verdict>>
    BY <1>1, <1>2 DEF TypeOK, ListenerStates, Serving, PermitsConserved, Limited,
       PermitOwners, SenderOwners, Holders, BroadcastOwner, QueueMatches, VerdictMatches
<1>3. ASSUME NEW why \in {"graceful", "forced"}, Exit(why),
             why = "graceful" => shutdown_complete_tx = {}
      PROVE  ServerInv'
  <2>1. /\ listener' = "exited" /\ verdict' = why /\ backlog' = <<>>
        /\ handler' = [c \in Conn |-> IF handler[c] = "queued" THEN "reset" ELSE handler[c]]
      BY <1>3 DEF Exit
  <2>2. TypeOK'
      BY <1>1, <2>1 DEF TypeOK, ListenerStates, HandlerStates
  <2>3. /\ Holders(Phases \cup {"closing", "returned"})' = Holders(Phases \cup {"closing", "returned"})
        /\ Holders(Phases \cup {"closing"})' = Holders(Phases \cup {"closing"})
      BY <2>1 DEF Holders, Phases, TypeOK
  <2>4. QueueMatches'
      BY <2>1 DEF QueueMatches
  <2>5. VerdictMatches'
      BY <1>1, <1>3, <2>1 DEF VerdictMatches
  <2>6. PermitsConserved' /\ PermitOwners' /\ SenderOwners' /\ BroadcastOwner'
      BY <1>1, <2>1, <2>3 DEF PermitsConserved, Limited, PermitOwners, SenderOwners,
         Serving, BroadcastOwner
  <2>7. QED
      BY <2>2, <2>4, <2>5, <2>6
<1>4. QED
    BY <1>2, <1>3 DEF PollRecv, PollTimer

\* A handler moves on, or begins to go away, without dropping what it owns.
LEMMA GoToInv ==
    ASSUME ServerInv, NEW c \in Conn, NEW from \in Phases, NEW to \in Phases \cup {"closing"},
           GoTo(c, from, to)
    PROVE  ServerInv'
<1> USE DEF ServerInv
<1>1. /\ handler[c] \in Phases
      /\ handler' = [handler EXCEPT ![c] = to]
      /\ UNCHANGED <<listener, limit_connections, permit, notify_shutdown,
                     shutdown_complete_tx, backlog, shutdown, deadline, verdict>>
    BY DEF GoTo, limiterVars, exitVars
<1>2. TypeOK'
    BY <1>1 DEF TypeOK, HandlerStates, Phases
<1>3. /\ Holders(Phases \cup {"closing", "returned"})' = Holders(Phases \cup {"closing", "returned"})
      /\ Holders(Phases \cup {"closing"})' = Holders(Phases \cup {"closing"})
    BY <1>1 DEF Holders, Phases, TypeOK
<1>4. QueueMatches'
    BY <1>1 DEF QueueMatches, Phases, TypeOK
<1>5. QED
    BY <1>1, <1>2, <1>3, <1>4 DEF PermitsConserved, Limited, PermitOwners, SenderOwners,
       BroadcastOwner, VerdictMatches

LEMMA DropSenderInv ==
    ASSUME ServerInv, NEW c \in Conn, DropSender(c)
    PROVE  ServerInv'
<1> USE DEF ServerInv
<1>1. /\ handler[c] = "closing"
      /\ handler' = [handler EXCEPT ![c] = "returned"]
      /\ shutdown_complete_tx' = shutdown_complete_tx \ {c}
      /\ UNCHANGED <<listener, limit_connections, permit, notify_shutdown,
                     backlog, shutdown, deadline, verdict>>
    BY DEF DropSender, limiterVars, exitVars
<1>2. TypeOK'
    BY <1>1 DEF TypeOK, HandlerStates
<1>3. /\ Holders(Phases \cup {"closing", "returned"})' = Holders(Phases \cup {"closing", "returned"})
      /\ Holders(Phases \cup {"closing"})' = Holders(Phases \cup {"closing"}) \ {c}
    BY <1>1 DEF Holders, Phases, TypeOK
<1>4. QueueMatches'
    BY <1>1 DEF QueueMatches, TypeOK
<1>5. SenderOwners'
    BY <1>1, <1>3 DEF SenderOwners
<1>6. QED
    BY <1>1, <1>2, <1>3, <1>4, <1>5 DEF PermitsConserved, Limited, PermitOwners,
       BroadcastOwner, VerdictMatches

LEMMA DropPermitInv ==
    ASSUME ServerInv, NEW c \in Conn, DropPermit(c)
    PROVE  ServerInv'
<1> USE DEF ServerInv
<1>1. /\ handler[c] = "returned"
      /\ handler' = [handler EXCEPT ![c] = "done"]
      /\ UNCHANGED <<listener, notify_shutdown, shutdown_complete_tx, backlog,
                     shutdown, deadline, verdict>>
    BY DEF DropPermit, exitVars
<1>2. permit' = permit \ {c}
    BY DEF DropPermit, limiterVars
<1>3. TypeOK' /\ PermitsConserved'
  <2>1. CASE c \in permit
    <3>1. limit_connections' = limit_connections + 1 /\ Limited
        BY <2>1 DEF DropPermit, PermitOwners
    <3>2. Cardinality(permit) = Cardinality(permit') + 1 /\ Cardinality(permit') \in Nat
        BY <1>2, <2>1, DropOne, PermitFinite
    <3>3. QED
        BY <1>1, <1>2, <3>1, <3>2 DEF TypeOK, HandlerStates, PermitsConserved, Limited
  <2>2. CASE c \notin permit
      BY <1>1, <2>2 DEF DropPermit, limiterVars, TypeOK, HandlerStates,
         PermitsConserved, Limited
  <2>3. QED
      BY <2>1, <2>2
<1>4. /\ Holders(Phases \cup {"closing", "returned"})'
            = Holders(Phases \cup {"closing", "returned"}) \ {c}
      /\ Holders(Phases \cup {"closing"})' = Holders(Phases \cup {"closing"})
    BY <1>1 DEF Holders, Phases, TypeOK
<1>5. PermitOwners'
    BY <1>1, <1>2, <1>4 DEF PermitOwners, Limited
<1>6. QueueMatches'
    BY <1>1 DEF QueueMatches, TypeOK
<1>7. QED
    BY <1>1, <1>3, <1>4, <1>5, <1>6 DEF SenderOwners, BroadcastOwner, VerdictMatches

LEMMA HandlerInv ==
    ASSUME ServerInv, NEW c \in Conn, HandlerTask(c)
    PROVE  ServerInv'
<1>1. CASE Negotiated(c)
    BY <1>1, GoToInv DEF Negotiated, Phases
<1>2. CASE NegotiationFails(c)
    BY <1>2, GoToInv DEF NegotiationFails, Phases
<1>3. CASE TunnelReady(c)
    BY <1>3, GoToInv DEF TunnelReady, Phases
<1>4. CASE HandlingFails(c)
    BY <1>4, GoToInv DEF HandlingFails, Phases
<1>5. CASE RelayEnds(c)
    BY <1>5, GoToInv DEF RelayEnds, Phases
<1>6. CASE Cancelled(c)
    BY <1>6, GoToInv DEF Cancelled, Phases
<1>7. CASE RuntimeDrops(c)
    BY <1>7, GoToInv DEF RuntimeDrops
<1>8. CASE DropSender(c)
    BY <1>8, DropSenderInv
<1>9. CASE DropPermit(c)
    BY <1>9, DropPermitInv
<1>10. QED
    BY <1>1, <1>2, <1>3, <1>4, <1>5, <1>6, <1>7, <1>8, <1>9 DEF HandlerTask

LEMMA NextInv == ServerInv /\ [Next]_vars => ServerInv'
<1> SUFFICES ASSUME ServerInv, [Next]_vars PROVE ServerInv'
    OBVIOUS
<1>1. CASE Environment
    BY <1>1, ClientConnectsInv, ClockInv DEF Environment
<1>2. CASE ListenerTask
    BY <1>2, AcquirePermitInv, AcceptInv, LeaveServingInv, DropNotifyInv, DropCompleteInv,
       PollInv DEF ListenerTask
<1>3. CASE \E c \in Conn : HandlerTask(c)
    BY <1>3, HandlerInv
<1>4. CASE UNCHANGED vars
    BY <1>4 DEF vars, ServerInv, TypeOK, PermitsConserved, PermitOwners, SenderOwners,
       Holders, BroadcastOwner, QueueMatches, VerdictMatches
<1>5. QED
    BY <1>1, <1>2, <1>3, <1>4 DEF Next, Terminated

\* The server's state is always consistent: every permit is in the semaphore
\* or has exactly one owner, and so is every sender.
THEOREM InvTheorem == Spec => []ServerInv
BY InitInv, NextInv, PTL DEF Spec

-----------------------------------------------------------------------------
(* What follows from the invariant.                                        *)

\* A connection with an open socket owns a permit, and while the listener
\* owns one too there is room for the socket it may accept.
LEMMA OpenWithinLimit ==
    ASSUME ServerInv, Limited
    PROVE  /\ Cardinality(Open) <= MaxConnections
           /\ listener = "accept" => Cardinality(Open) < MaxConnections
<1> USE DEF ServerInv
<1>1. /\ IsFiniteSet(permit) /\ Cardinality(permit) \in Nat
      /\ limit_connections \in Nat
      /\ limit_connections + Cardinality(permit) = MaxConnections
    BY PermitFinite DEF TypeOK, PermitsConserved
<1>2. Open \subseteq permit /\ "listener" \notin Open
    BY DEF Open, PermitOwners, Holders
<1>3. IsFiniteSet(Open) /\ Cardinality(Open) \in Nat /\ Cardinality(Open) <= Cardinality(permit)
    BY <1>1, <1>2, FS_Subset, FS_CardinalityType
<1>4. ASSUME listener = "accept"
      PROVE  Cardinality(Open) < Cardinality(permit)
  <2>1. "listener" \in permit
      BY <1>4 DEF PermitOwners
  <2>2. /\ IsFiniteSet(permit \ {"listener"})
        /\ Cardinality(permit) = Cardinality(permit \ {"listener"}) + 1
        /\ Cardinality(permit \ {"listener"}) \in Nat
      BY <1>1, <2>1, DropOne
  <2>3. Open \subseteq permit \ {"listener"}
      BY <1>2
  <2>4. Cardinality(Open) <= Cardinality(permit \ {"listener"})
      BY <2>2, <2>3, FS_Subset
  <2>5. QED
      BY <1>3, <2>2, <2>4
<1>5. QED
    BY <1>1, <1>3, <1>4

LEMMA GracefulInv == ServerInv => GracefulMeansClosed
BY DEF ServerInv, VerdictMatches, SenderOwners, Holders, GracefulMeansClosed, Open

\* At most max_connections sockets are open at any time (README.md:77).
THEOREM ConnectionLimitTheorem == Spec => []ConnectionLimit
<1>1. ServerInv => ConnectionLimit
    BY OpenWithinLimit DEF ConnectionLimit
<1>2. QED
    BY <1>1, InvTheorem, PTL

\* server::run says that all connections closed only when they have
\* (mod.rs:188).
THEOREM GracefulTheorem == Spec => []GracefulMeansClosed
BY GracefulInv, InvTheorem, PTL

-----------------------------------------------------------------------------
(* The server implements the service.  Only four kinds of steps are seen   *)
(* there: an accept, the end of an open connection, the end of the serving *)
(* loop and the return of server::run; the rest stutters.                  *)

LEMMA ServiceInit == Init => Service!Init
BY DEF Init, Service!Init, Serving, Open, Phases

LEMMA ServiceAccept == ServerInv /\ Accept => Service!Next
<1> SUFFICES ASSUME ServerInv, Accept PROVE Service!Next
    OBVIOUS
<1> DEFINE c == Head(backlog)
<1>1. /\ listener = "accept" /\ listener' = "acquire"
      /\ handler' = [handler EXCEPT ![c] = "negotiate"]
      /\ UNCHANGED verdict
    BY DEF Accept, exitVars
<1>2. /\ handler \in [Conn -> HandlerStates]
      /\ backlog \in Seq(Conn) /\ backlog # <<>>
    BY DEF ServerInv, TypeOK, Accept
<1>3. c \in Conn /\ handler[c] = "queued"
    BY <1>2 DEF ServerInv, QueueMatches
<1>4. \A d \in Conn : handler'[d] = IF d = c THEN "negotiate" ELSE handler[d]
    BY <1>1, <1>2
<1>5. Open' = Open \cup {c}
    BY <1>3, <1>4 DEF Open, Phases
<1>6. /\ {d \in Conn : handler'[d] \in {"closing", "returned", "done"}}
            = {d \in Conn : handler[d] \in {"closing", "returned", "done"}}
      /\ c \notin Open
      /\ c \notin {d \in Conn : handler[d] \in {"closing", "returned", "done"}}
    BY <1>3, <1>4 DEF Open, Phases
<1>7. MaxConnections > 0 => Cardinality(Open) < MaxConnections
    BY <1>1, OpenWithinLimit DEF Limited
<1>8. Service!Admit(c)
  <2>1. listener \in Serving /\ listener' \in Serving
      BY <1>1 DEF Serving
  <2>2. QED
      BY <1>1, <1>5, <1>6, <1>7, <2>1 DEF Service!Admit, Service!Cardinality, Cardinality
<1>9. QED
    BY <1>3, <1>8 DEF Service!Next

LEMMA ServiceDepart ==
    ASSUME ServerInv, NEW c \in Conn, NEW from \in Phases, GoTo(c, from, "closing")
    PROVE  Service!Next
<1>1. /\ handler[c] \in Phases
      /\ \A d \in Conn : handler'[d] = IF d = c THEN "closing" ELSE handler[d]
      /\ UNCHANGED <<listener, verdict>>
    BY DEF GoTo, exitVars, ServerInv, TypeOK
<1>2. c \in Open /\ Open' = Open \ {c}
    BY <1>1 DEF Open, Phases
<1>3. {d \in Conn : handler'[d] \in {"closing", "returned", "done"}}
        = {d \in Conn : handler[d] \in {"closing", "returned", "done"}} \cup {c}
    BY <1>1
<1>4. Service!Depart(c)
    BY <1>1, <1>2, <1>3 DEF Service!Depart
<1>5. QED
    BY <1>4 DEF Service!Next

LEMMA ServiceDrain == AcceptFails \/ TakeShutdown => Service!Next
BY DEF AcceptFails, TakeShutdown, Serving, Open, exitVars, Service!Next, Service!Drain

LEMMA ServiceStop ==
    ASSUME ServerInv, PollRecv \/ PollTimer, listener' = "exited"
    PROVE  Service!Next
<1>1. PICK why \in {"graceful", "forced"} :
        /\ Exit(why) /\ listener \in {"recv", "timer"}
        /\ why = "graceful" => shutdown_complete_tx = {}
    BY DEF PollRecv, PollTimer
<1>2. \A d \in Conn : handler'[d] = IF handler[d] = "queued" THEN "reset" ELSE handler[d]
    BY <1>1 DEF Exit
<1>3. /\ Open' = Open
      /\ {d \in Conn : handler'[d] \in {"closing", "returned", "done"}}
            = {d \in Conn : handler[d] \in {"closing", "returned", "done"}}
    BY <1>2 DEF Open, Phases
<1>4. why = "graceful" => Open = {}
    BY <1>1 DEF ServerInv, SenderOwners, Holders, Open
<1>5. Service!Stop(why)
    BY <1>1, <1>3, <1>4 DEF Exit, Serving, Service!Stop
<1>6. QED
    BY <1>5 DEF Service!Next

\* A step that changes neither what is open nor what has left, nor the mode,
\* is not seen by the service.
LEMMA ServiceStutter ==
    ASSUME Open' = Open,
           {d \in Conn : handler'[d] \in {"closing", "returned", "done"}}
               = {d \in Conn : handler[d] \in {"closing", "returned", "done"}},
           listener' \in Serving <=> listener \in Serving,
           listener' = "exited" <=> listener = "exited",
           verdict' = verdict
    PROVE  UNCHANGED Service!serviceVars
BY DEF Service!serviceVars

LEMMA ServiceHandler ==
    ASSUME ServerInv, NEW c \in Conn, HandlerTask(c)
    PROVE  [Service!Next]_(Service!serviceVars)
<1>1. CASE NegotiationFails(c) \/ HandlingFails(c) \/ RelayEnds(c) \/ Cancelled(c)
               \/ RuntimeDrops(c)
    BY <1>1, ServiceDepart DEF NegotiationFails, HandlingFails, RelayEnds, Cancelled,
       RuntimeDrops, Phases
<1>2. CASE Negotiated(c) \/ TunnelReady(c) \/ DropSender(c) \/ DropPermit(c)
  <2>1. /\ UNCHANGED <<listener, verdict>>
        /\ \A d \in Conn \ {c} : handler'[d] = handler[d]
        /\ \/ handler[c] \in Phases /\ handler'[c] \in Phases
           \/ /\ handler[c] \in {"closing", "returned"}
              /\ handler'[c] \in {"returned", "done"}
      BY <1>2 DEF Negotiated, TunnelReady, DropSender, DropPermit, GoTo, Phases,
         exitVars, ServerInv, TypeOK
  <2>2. Open' = Open
      BY <2>1 DEF Open, Phases
  <2>3. {d \in Conn : handler'[d] \in {"closing", "returned", "done"}}
          = {d \in Conn : handler[d] \in {"closing", "returned", "done"}}
      BY <2>1 DEF Phases
  <2>4. QED
      BY <2>1, <2>2, <2>3, ServiceStutter
<1>3. QED
    BY <1>1, <1>2 DEF HandlerTask

LEMMA ServiceEnvironment ==
    ASSUME ServerInv, Environment
    PROVE  UNCHANGED Service!serviceVars
<1>1. UNCHANGED <<listener, verdict>>
    BY DEF Environment, ClientConnects, ShutdownSignal, DeadlineElapses, exitVars
<1>2. \A d \in Conn :
        \/ handler'[d] = handler[d]
        \/ handler[d] = "none" /\ handler'[d] = "queued"
    BY DEF Environment, ClientConnects, ShutdownSignal, DeadlineElapses, ServerInv, TypeOK
<1>3. /\ Open' = Open
      /\ {d \in Conn : handler'[d] \in {"closing", "returned", "done"}}
            = {d \in Conn : handler[d] \in {"closing", "returned", "done"}}
    BY <1>2 DEF Open, Phases
<1>4. QED
    BY <1>1, <1>3, ServiceStutter

LEMMA ServiceListener ==
    ASSUME ServerInv, ListenerTask
    PROVE  [Service!Next]_(Service!serviceVars)
<1>1. CASE Accept
    BY <1>1, ServiceAccept
<1>2. CASE AcceptFails \/ TakeShutdown
    BY <1>2, ServiceDrain
<1>3. CASE (PollRecv \/ PollTimer) /\ listener' = "exited"
    BY <1>3, ServiceStop
<1>4. CASE \/ AcquirePermit \/ DropNotify \/ DropComplete
           \/ (PollRecv \/ PollTimer) /\ listener' # "exited"
  <2>1. /\ UNCHANGED <<handler, verdict>>
        /\ listener' \in Serving <=> listener \in Serving
        /\ listener' = "exited" <=> listener = "exited"
      BY <1>4 DEF AcquirePermit, DropNotify, DropComplete, PollRecv, PollTimer, Exit,
         Serving, exitVars
  <2>2. QED
      BY <2>1, ServiceStutter DEF Open
<1>5. QED
    BY <1>1, <1>2, <1>3, <1>4 DEF ListenerTask

LEMMA ServiceNext == ServerInv /\ [Next]_vars => [Service!Next]_(Service!serviceVars)
<1> SUFFICES ASSUME ServerInv, [Next]_vars PROVE [Service!Next]_(Service!serviceVars)
    OBVIOUS
<1>1. CASE UNCHANGED vars
    BY <1>1 DEF vars, Service!serviceVars, Open
<1>2. QED
    BY <1>1, ServiceEnvironment, ServiceListener, ServiceHandler DEF Next, Terminated

\* Accept loop, semaphore, broadcast and completion channel together are the
\* service of module ProxyService: bounded admission, none during the drain,
\* and an honest report at the end.
THEOREM ImplementsTheorem == Spec => ImplementsService
<1>1. Spec => Service!Init /\ [][Service!Next]_(Service!serviceVars)
    BY ServiceInit, ServiceNext, InvTheorem, PTL DEF Spec
<1>2. QED
    BY <1>1 DEF ImplementsService, Service!Spec
=============================================================================
