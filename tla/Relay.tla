-------------------------------- MODULE Relay -------------------------------
(***************************************************************************)
(* The tunnel of one connection: TcpTunnel::run and the strategies of      *)
(* noxen-proxy/src/relay, which hand both sockets to a copy_bidirectional  *)
(* (tokio_splice2's on Linux, tokio's elsewhere) and turn what it returns  *)
(* into Traffic.                                                           *)
(*                                                                         *)
(* The copy is a library's; it is modelled by what the strategies rely on  *)
(* (relay/strategy.rs:85-90): each direction copies until the end of its   *)
(* stream, then shuts its destination down, while the other direction goes *)
(* on; an error of either ends both.  Bytes are counted, not told apart:   *)
(* the sockets and the pipe between them keep their order.                 *)
(***************************************************************************)
EXTENDS Naturals

CONSTANTS MaxBytes,  \* bound: what each peer sends
          Pipe,      \* capacity of the buffer, or the pipe, of a direction
          Window     \* what a socket takes before its peer reads

ASSUME RelayAssumption ==
    /\ MaxBytes \in Nat
    /\ Pipe \in Nat \ {0}
    /\ Window \in Nat \ {0}

Directions == {"tx", "rx"}
Sockets    == {"downstream", "upstream"}

\* tx is from the client to the target, rx from the target to the client.
From(d) == IF d = "tx" THEN "downstream" ELSE "upstream"
To(d)   == IF d = "tx" THEN "upstream" ELSE "downstream"

VARIABLES
    sent,     \* bytes the peer at the start of the direction has sent
    eof,      \* directions whose peer has shut its write side
    read,     \* bytes the relay has read
    written,  \* bytes the relay has written
    got,      \* bytes the peer at the end of the direction has read
    copy,     \* each direction: "running", "shutting_down" or "done"
    reset,    \* sockets whose peer is gone
    result    \* what run() returned

vars == <<sent, eof, read, written, got, copy, reset, result>>

peerVars  == <<sent, eof, got, reset>>
relayVars == <<read, written, copy>>

Running == [kind |-> "none"]
Err     == [kind |-> "Err"]

\* Mutant: the directions of Traffic are swapped.
Traffic_Swapped(tx, rx) == [kind |-> "Ok", tx_bytes |-> rx, rx_bytes |-> tx]

Traffic(tx, rx) == [kind |-> "Ok", tx_bytes |-> tx, rx_bytes |-> rx]

Init ==
    /\ sent = [d \in Directions |-> 0]
    /\ eof = {}
    /\ read = [d \in Directions |-> 0]
    /\ written = [d \in Directions |-> 0]
    /\ got = [d \in Directions |-> 0]
    /\ copy = [d \in Directions |-> "running"]
    /\ reset = {}
    /\ result = Running

-----------------------------------------------------------------------------
(* The client and the target.  A half-close leaves the other direction     *)
(* open.                                                                   *)

PeerSends(d) ==
    /\ result = Running
    /\ From(d) \notin reset /\ d \notin eof
    /\ sent[d] < MaxBytes
    /\ sent' = [sent EXCEPT ![d] = @ + 1]
    /\ UNCHANGED <<eof, got, reset, relayVars, result>>

PeerShutsDown(d) ==
    /\ result = Running
    /\ From(d) \notin reset /\ d \notin eof
    /\ eof' = eof \cup {d}
    /\ UNCHANGED <<sent, got, reset, relayVars, result>>

PeerReads(d) ==
    /\ To(d) \notin reset
    /\ got[d] < written[d]
    /\ got' = [got EXCEPT ![d] = @ + 1]
    /\ UNCHANGED <<sent, eof, reset, relayVars, result>>

PeerResets(s) ==
    /\ result = Running
    /\ s \notin reset
    /\ reset' = reset \cup {s}
    /\ UNCHANGED <<sent, eof, got, relayVars, result>>

-----------------------------------------------------------------------------
(* copy_bidirectional.                                                     *)

Read(d) ==
    /\ result = Running
    /\ copy[d] = "running"
    /\ From(d) \notin reset
    /\ read[d] < sent[d]
    /\ read[d] - written[d] < Pipe
    /\ read' = [read EXCEPT ![d] = @ + 1]
    /\ UNCHANGED <<peerVars, written, copy, result>>

Write(d) ==
    /\ result = Running
    /\ copy[d] = "running"
    /\ To(d) \notin reset
    /\ written[d] < read[d]
    /\ written[d] - got[d] < Window
    /\ written' = [written EXCEPT ![d] = @ + 1]
    /\ UNCHANGED <<peerVars, read, copy, result>>

\* The end of the stream was read and everything before it written.
EndOfStream(d) ==
    /\ result = Running
    /\ copy[d] = "running"
    /\ d \in eof /\ From(d) \notin reset
    /\ read[d] = sent[d]
    /\ written[d] = read[d]
    /\ copy' = [copy EXCEPT ![d] = "shutting_down"]
    /\ UNCHANGED <<peerVars, read, written, result>>

\* The destination is told, and only it.
ShutdownWrite(d) ==
    /\ result = Running
    /\ copy[d] = "shutting_down"
    /\ To(d) \notin reset
    /\ copy' = [copy EXCEPT ![d] = "done"]
    /\ UNCHANGED <<peerVars, read, written, result>>

\* A read, a write or a shutdown that the direction attempts fails.
Attempts(d, s) ==
    \/ s = From(d) /\ copy[d] = "running" /\ read[d] - written[d] < Pipe
    \/ s = To(d) /\ copy[d] = "running" /\ written[d] < read[d]
    \/ s = To(d) /\ copy[d] = "shutting_down"

-----------------------------------------------------------------------------
(* TcpRelayStrategy::relay: the `?` loses the counts.  Both sockets are    *)
(* dropped with the future.                                                *)

\* Mutant: the directions are two futures under join!, which waits for both.
RelayFails_Joined ==
    /\ result = Running
    /\ \E d \in Directions, s \in reset : Attempts(d, s)
    /\ \A d \in Directions : copy[d] = "done" \/ \E s \in reset : Attempts(d, s)
    /\ result' = Err
    /\ UNCHANGED <<peerVars, relayVars>>

RelayFails ==
    /\ result = Running
    /\ \E d \in Directions, s \in reset : Attempts(d, s)
    /\ result' = Err
    /\ UNCHANGED <<peerVars, relayVars>>

\* Mutant: the first direction to be done ends the relay.
RelaySucceeds_Either ==
    /\ result = Running
    /\ \E d \in Directions : copy[d] = "done"
    /\ result' = Traffic(written["tx"], written["rx"])
    /\ UNCHANGED <<peerVars, relayVars>>

RelaySucceeds ==
    /\ result = Running
    /\ \A d \in Directions : copy[d] = "done"
    /\ result' = Traffic(written["tx"], written["rx"])
    /\ UNCHANGED <<peerVars, relayVars>>

Peers == \E d \in Directions : PeerSends(d) \/ PeerShutsDown(d) \/ PeerReads(d)

Copying(d) == Read(d) \/ Write(d) \/ EndOfStream(d) \/ ShutdownWrite(d)

Terminated ==
    /\ result # Running
    /\ UNCHANGED vars

Next ==
    \/ Peers
    \/ \E s \in Sockets : PeerResets(s)
    \/ \E d \in Directions : Copying(d)
    \/ RelayFails
    \/ RelaySucceeds
    \/ Terminated

Spec == Init /\ [][Next]_vars

\* The task is polled when a socket is ready, and polls both directions.
\* Peers need not read, send or close: a property says so where it needs it.
Fairness ==
    /\ \A d \in Directions : WF_vars(Copying(d))
    /\ WF_vars(RelayFails)
    /\ WF_vars(RelaySucceeds)

FairSpec == Spec /\ Fairness

-----------------------------------------------------------------------------
(* Properties.                                                             *)

\* The types of the state.
TypeOK ==
    /\ sent \in [Directions -> 0..MaxBytes]
    /\ eof \subseteq Directions
    /\ read \in [Directions -> Nat]
    /\ written \in [Directions -> Nat]
    /\ got \in [Directions -> Nat]
    /\ copy \in [Directions -> {"running", "shutting_down", "done"}]
    /\ reset \subseteq Sockets
    /\ result \in {Running, Err} \cup [kind : {"Ok"}, tx_bytes : Nat, rx_bytes : Nat]

\* "Return traffic statistics upon completion" (relay/strategy.rs:89): a relay
\* that succeeds has passed on everything both peers sent before they closed,
\* and its statistics say how much, tx from the client and rx to it.
OkMeansDelivered ==
    result.kind = "Ok" =>
        /\ eof = Directions
        /\ written = sent
        /\ result.tx_bytes = sent["tx"] /\ result.rx_bytes = sent["rx"]

\* "Copy data bidirectionally until both directions are closed" (strategy.rs:88):
\* what a peer has sent reaches the other one if that one reads, also after it
\* has closed its own direction, unless a connection breaks.
Delivered ==
    \A d \in Directions :
        WF_vars(PeerReads(d)) =>
            \A n \in 1..MaxBytes : (sent[d] >= n) ~> (got[d] >= n \/ reset # {})

\* A relay ends once both peers have closed, if they read what was sent to
\* them, and at once when a peer that it still hears from is gone
\* (strategy.rs:93-97).
RelayEnds ==
    (\A d \in Directions : WF_vars(PeerReads(d)))
        => /\ (eof = Directions) ~> (result # Running \/ reset # {})
           /\ (\E d \in Directions : From(d) \in reset /\ copy[d] = "running") ~> (result # Running)
=============================================================================
