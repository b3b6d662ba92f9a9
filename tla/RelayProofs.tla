----------------------------- MODULE RelayProofs ----------------------------
(***************************************************************************)
(* What a relay that succeeds has delivered and reports, for any amount of *)
(* data and any size of the pipe and of the sockets' windows.              *)
(***************************************************************************)
EXTENDS Relay, TLAPS

(***************************************************************************)
(* The inductive invariant.  That a finished direction has passed on its   *)
(* stream is what is assumed of the copy; it stays true because the peer   *)
(* sends no more.  That a success has waited for both directions and has   *)
(* their counts in their order is the strategies' part.                    *)
(***************************************************************************)
Flushed ==
    \A d \in Directions : copy[d] # "running" => d \in eof /\ written[d] = sent[d]
Counted ==
    result.kind = "Ok" => /\ \A d \in Directions : copy[d] = "done"
                          /\ result = Traffic(written["tx"], written["rx"])
RelayInv == TypeOK /\ Flushed /\ Counted

LEMMA InitInv == Init => RelayInv
BY RelayAssumption
   DEF Init, RelayInv, TypeOK, Flushed, Counted, Running, Directions

\* The kinds of result are told apart.
LEMMA Kinds ==
    /\ Running.kind = "none" /\ Err.kind = "Err"
    /\ \A tx, rx : Traffic(tx, rx).kind = "Ok"
BY DEF Running, Err, Traffic

LEMMA PeersInv == RelayInv /\ (Peers \/ \E s \in Sockets : PeerResets(s)) => RelayInv'
<1> SUFFICES ASSUME RelayInv, Peers \/ \E s \in Sockets : PeerResets(s) PROVE RelayInv'
  OBVIOUS
<1> USE DEF RelayInv, TypeOK, relayVars
<1>1. ASSUME NEW d \in Directions, PeerSends(d) PROVE RelayInv'
  <2>1. d \notin eof /\ sent[d] < MaxBytes /\ sent' = [sent EXCEPT ![d] = @ + 1]
        /\ UNCHANGED <<eof, got, reset, read, written, copy, result>>
    BY <1>1 DEF PeerSends
  <2>2. TypeOK' BY <2>1, RelayAssumption
  <2>3. Flushed' BY <2>1, RelayAssumption DEF Flushed
  <2>4. Counted' BY <2>1 DEF Counted
  <2> QED BY <2>2, <2>3, <2>4
<1>2. ASSUME NEW d \in Directions, PeerShutsDown(d) PROVE RelayInv'
  BY <1>2 DEF PeerShutsDown, Flushed, Counted
<1>3. ASSUME NEW d \in Directions, PeerReads(d) PROVE RelayInv'
  <2>1. got' = [got EXCEPT ![d] = @ + 1]
        /\ UNCHANGED <<sent, eof, reset, read, written, copy, result>>
    BY <1>3 DEF PeerReads
  <2>2. TypeOK' BY <2>1
  <2> QED BY <2>1, <2>2 DEF Flushed, Counted
<1>4. ASSUME NEW s \in Sockets, PeerResets(s) PROVE RelayInv'
  BY <1>4 DEF PeerResets, Flushed, Counted
<1> QED
  BY <1>1, <1>2, <1>3, <1>4 DEF Peers

LEMMA CopyingInv == ASSUME NEW d \in Directions, RelayInv, Copying(d) PROVE RelayInv'
<1> USE DEF RelayInv, TypeOK, peerVars
<1>1. CASE Read(d)
  <2>1. read' = [read EXCEPT ![d] = @ + 1]
        /\ UNCHANGED <<sent, eof, got, reset, written, copy, result>>
    BY <1>1 DEF Read
  <2>2. TypeOK' BY <2>1
  <2> QED BY <2>1, <2>2 DEF Flushed, Counted
<1>2. CASE Write(d)
  <2>1. /\ result = Running /\ copy[d] = "running"
        /\ written' = [written EXCEPT ![d] = @ + 1]
        /\ UNCHANGED <<sent, eof, got, reset, read, copy, result>>
    BY <1>2 DEF Write
  <2>2. TypeOK' BY <2>1
  <2>3. Flushed' BY <2>1 DEF Flushed
  <2>4. Counted' BY <2>1, Kinds DEF Counted
  <2> QED BY <2>2, <2>3, <2>4
<1>3. CASE EndOfStream(d) \/ ShutdownWrite(d)
  <2>1. /\ result = Running
        /\ d \in eof /\ written[d] = sent[d]
        /\ \E at \in {"shutting_down", "done"} : copy' = [copy EXCEPT ![d] = at]
        /\ UNCHANGED <<sent, eof, got, reset, read, written, result>>
    BY <1>3 DEF EndOfStream, ShutdownWrite, Flushed
  <2>2. TypeOK' BY <2>1
  <2>3. Flushed' BY <2>1 DEF Flushed
  <2> QED BY <2>1, <2>2, <2>3, Kinds DEF Counted
<1> QED
  BY <1>1, <1>2, <1>3 DEF Copying

LEMMA EndInv == RelayInv /\ (RelayFails \/ RelaySucceeds) => RelayInv'
<1> SUFFICES ASSUME RelayInv, RelayFails \/ RelaySucceeds PROVE RelayInv'
  OBVIOUS
<1>1. UNCHANGED <<sent, eof, got, reset, read, written, copy>>
  BY DEF RelayFails, RelaySucceeds, peerVars, relayVars
<1>2. written["tx"] \in Nat /\ written["rx"] \in Nat
  BY DEF RelayInv, TypeOK, Directions
<1>3. \/ result' = Err
      \/ result' = Traffic(written["tx"], written["rx"]) /\ \A d \in Directions : copy[d] = "done"
  BY DEF RelayFails, RelaySucceeds
<1>4. result' \in {Running, Err} \cup [kind : {"Ok"}, tx_bytes : Nat, rx_bytes : Nat]
  BY <1>2, <1>3 DEF Traffic
<1>5. Counted'
  BY <1>1, <1>3, Kinds DEF Counted
<1> QED
  BY <1>1, <1>4, <1>5 DEF RelayInv, TypeOK, Flushed

LEMMA NextInv == RelayInv /\ [Next]_vars => RelayInv'
<1> SUFFICES ASSUME RelayInv, [Next]_vars PROVE RelayInv'
  OBVIOUS
<1>1. CASE UNCHANGED vars
  BY <1>1 DEF vars, RelayInv, TypeOK, Flushed, Counted
<1> QED
  BY <1>1, PeersInv, CopyingInv, EndInv DEF Next, Terminated

\* A relay that reports statistics has delivered everything, and they are
\* true, for any amount of data (relay/strategy.rs:88-90, 149-152, 180-182).
THEOREM OkMeansDeliveredTheorem == Spec => []OkMeansDelivered
<1>1. RelayInv => OkMeansDelivered
  <2> SUFFICES ASSUME RelayInv, result.kind = "Ok"
               PROVE  /\ eof = Directions /\ written = sent
                      /\ result.tx_bytes = sent["tx"] /\ result.rx_bytes = sent["rx"]
    BY DEF OkMeansDelivered
  <2>1. \A d \in Directions : d \in eof /\ written[d] = sent[d]
    BY DEF RelayInv, Counted, Flushed
  <2>2. eof = Directions /\ written = sent
    BY <2>1 DEF RelayInv, TypeOK
  <2> QED
    BY <2>2 DEF RelayInv, Counted, Traffic
<1> QED
  BY <1>1, InitInv, NextInv, PTL DEF Spec
=============================================================================
