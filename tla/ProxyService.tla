---------------------------- MODULE ProxyService ----------------------------
(***************************************************************************)
(* What noxen-proxy/src/server promises, without tasks, semaphores and     *)
(* channels: at most MaxConnections connections are served at a time, none *)
(* is admitted once the drain has begun, none is served twice, and the     *)
(* service goes down either because nothing is served any more             *)
(* ("graceful") or by giving up on what still is ("forced").               *)
(***************************************************************************)
EXTENDS Naturals, FiniteSets

CONSTANTS Conn, MaxConnections

VARIABLES mode,     \* "up", "draining" or "down"
          serving,  \* the connections being served
          left,     \* the connections that were served and are gone
          report    \* how the service went down

serviceVars == <<mode, serving, left, report>>

Init ==
    /\ mode = "up"
    /\ serving = {}
    /\ left = {}
    /\ report = "none"

Admit(c) ==
    /\ mode = "up"
    /\ c \notin serving \cup left
    /\ MaxConnections > 0 => Cardinality(serving) < MaxConnections
    /\ serving' = serving \cup {c}
    /\ UNCHANGED <<mode, left, report>>

\* A connection may end at any time, after a forced stop as well.
Depart(c) ==
    /\ c \in serving
    /\ serving' = serving \ {c}
    /\ left' = left \cup {c}
    /\ UNCHANGED <<mode, report>>

Drain ==
    /\ mode = "up"
    /\ mode' = "draining"
    /\ UNCHANGED <<serving, left, report>>

Stop(why) ==
    /\ mode = "draining"
    /\ why = "graceful" => serving = {}
    /\ mode' = "down"
    /\ report' = why
    /\ UNCHANGED <<serving, left>>

Next ==
    \/ \E c \in Conn : Admit(c) \/ Depart(c)
    \/ Drain
    \/ Stop("graceful")
    \/ Stop("forced")

Spec == Init /\ [][Next]_serviceVars
=============================================================================
