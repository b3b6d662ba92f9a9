--------------------------- MODULE MCHappyEyeballs --------------------------
(***************************************************************************)
(* HappyEyeballs for TLC: two addresses per family, in an order the sort   *)
(* has to change, and two statements of happy_eyeballs.rs that the code    *)
(* does not keep.                                                          *)
(***************************************************************************)
EXTENDS HappyEyeballs

AaaaAnswers == {<<>>, <<V6("global", 1), V6("loopback", 2)>>}
AAnswers    == {<<>>, <<V4("public", 3), V4("private", 4)>>}
Kinds       == {"ConnectionRefused", "NetworkUnreachable", "AddrNotAvailable"}

\* "DNS resolution succeeded but returned no IP addresses (neither IPv4 nor
\* IPv6)" (happy_eyeballs.rs:71-74): no lookup has returned one when connect()
\* says so.  The timeout of the join! drops the answer of the lookup that was
\* done, of either family, when the other one hangs (:473-493).
NoAddressesMeansNone ==
    (result = NoAddressesResolved)
        => \A f \in Families : lookup[f] = "answered" => answer[f] = <<>>

\* "Continue with remaining addresses at 250ms intervals"
\* (happy_eyeballs.rs:27): while addresses remain, the next attempt starts when
\* connection_attempt_delay has passed since the last.  Each failure makes a
\* new sleep (:570).
AtIntervals == (pc = "race" /\ Remaining(addrs)) => since <= AttemptDelay
=============================================================================
