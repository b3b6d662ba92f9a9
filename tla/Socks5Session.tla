---------------------------- MODULE Socks5Session ---------------------------
(***************************************************************************)
(* What a client may observe of a SOCKS5 connection and what the rest of   *)
(* the server relies on: the messages of the server, in an order that the  *)
(* protocol allows, and the phases of the connection.  A session is only   *)
(* handled after the dialogue has granted access, and only relayed after   *)
(* the dialogue has reported success as often as the command asks for.     *)
(***************************************************************************)
EXTENDS Naturals, Sequences

VARIABLES phase,     \* "negotiate", "handle", "relay" or "closed"
          command,   \* "none" until a request was accepted
          dialogue   \* what the server has said

sessionVars == <<phase, command, dialogue>>

Failures == {"GeneralFailure", "NetworkUnreachable", "HostUnreachable",
             "ConnectionRefused", "CommandNotSupported"}
Methods  == {"UsernamePassword", "NoAuthenticationRequired", "NoAcceptableMethods"}
Statuses == {"Success", "Failure"}
Commands == {"ConnectIp", "ConnectDomain", "Bind", "UdpAssociate"}

Access == {<<"NoAuthenticationRequired">>, <<"UsernamePassword", "Success">>}

\* Only BIND reports success twice, UDP ASSOCIATE never does.
Successes(c) == IF c = "Bind" THEN <<"Succeeded", "Succeeded">>
                ELSE IF c \in {"ConnectIp", "ConnectDomain"} THEN <<"Succeeded">>
                ELSE <<>>

Granted  == dialogue \in Access
Complete == command # "UdpAssociate" /\ \E a \in Access : dialogue = a \o Successes(command)

\* What may be said next in the negotiation and in the handling of a request.
MethodOrStatus(m) ==
    \/ dialogue = <<>> /\ m \in Methods
    \/ dialogue = <<"UsernamePassword">> /\ m \in Statuses

Reply(m) ==
    \E a \in Access :
        \E n \in 0..Len(Successes(command)) :
            /\ dialogue = a \o SubSeq(Successes(command), 1, n)
            /\ \/ m \in Failures
               \/ n < Len(Successes(command)) /\ m = "Succeeded"

Init == phase = "negotiate" /\ command = "none" /\ dialogue = <<>>

SayInNegotiation(m) ==
    /\ phase = "negotiate"
    /\ MethodOrStatus(m)
    /\ dialogue' = Append(dialogue, m)
    /\ phase' = IF dialogue' \in Access THEN "handle" ELSE "negotiate"
    /\ UNCHANGED command

AcceptRequest(c) ==
    /\ phase = "handle"
    /\ command = "none"
    /\ Granted
    /\ command' = c
    /\ UNCHANGED <<phase, dialogue>>

\* The last success hands the connection over to the relay.
SayInHandling(m) ==
    /\ phase = "handle"
    /\ command # "none"
    /\ Reply(m)
    /\ dialogue' = Append(dialogue, m)
    /\ phase' = IF Complete' THEN "relay" ELSE "handle"
    /\ UNCHANGED command

End ==
    /\ phase # "closed"
    /\ phase' = "closed"
    /\ UNCHANGED <<command, dialogue>>

Next ==
    \/ \E m \in Methods \cup Statuses : SayInNegotiation(m)
    \/ \E c \in Commands : AcceptRequest(c)
    \/ \E m \in Failures \cup {"Succeeded"} : SayInHandling(m)
    \/ End

Spec == Init /\ [][Next]_sessionVars
=============================================================================
