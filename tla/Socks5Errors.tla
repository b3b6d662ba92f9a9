---------------------------- MODULE Socks5Errors ----------------------------
(***************************************************************************)
(* The error values of a SOCKS5 connection and the replies they become:    *)
(* noxen-proxy/src/handler/socks5/error.rs, and the part of                *)
(* HappyEyeballsError that net/happy_eyeballs.rs can return.               *)
(*                                                                         *)
(* An error is a record of its variant and, where the code looks at it,    *)
(* the io::ErrorKind; the texts are left out.                              *)
(***************************************************************************)
EXTENDS Naturals, Sequences

IoKinds == {"ConnectionRefused", "NotFound", "AddrNotAvailable", "NetworkUnreachable",
            "HostUnreachable", "TimedOut", "UnexpectedEof", "Other"}

ProtocolErrors == {"FrameTooLarge", "Malformed"}

\* The kinds a connection attempt ends with.
ConnectKinds == {"ConnectionRefused", "AddrNotAvailable", "NetworkUnreachable",
                 "HostUnreachable", "TimedOut", "Other"}

-----------------------------------------------------------------------------
Err(variant, kind) == [variant |-> variant, kind |-> kind]

Io(kind)                     == Err("Io", kind)
Protocol(kind)               == Err("Protocol", kind)
TargetConnectionFailed(kind) == Err("TargetConnectionFailed", kind)
AuthenticationFailed         == Err("AuthenticationFailed", "none")
NoAcceptableMethod           == Err("NoAcceptableMethod", "none")
CommandNotSupported          == Err("CommandNotSupported", "none")
DnsResolutionFailed          == Err("DnsResolutionFailed", "none")
Timeout                      == Err("Timeout", "none")

\* Not values of Socks5Error: no error yet, the end of a task by the shutdown
\* branch of a select!, by a panic, or by the end of a relay.
NoError   == Err("none", "none")
Cancelled == Err("cancelled", "none")
Panicked  == Err("panicked", "none")
Relayed   == Err("relayed", "none")

Socks5Error ==
    {Err(v, k) : v \in {"Io", "TargetConnectionFailed"}, k \in IoKinds}
        \cup {Protocol(k) : k \in ProtocolErrors}
        \cup {AuthenticationFailed, NoAcceptableMethod, CommandNotSupported,
              DnsResolutionFailed, Timeout}

Replies == {"Succeeded", "GeneralFailure", "NetworkUnreachable", "HostUnreachable",
            "ConnectionRefused", "CommandNotSupported"}

-----------------------------------------------------------------------------
\* Socks5Error::to_reply.
ToReply(e) ==
    IF e.variant \in {"Timeout", "DnsResolutionFailed"} THEN "HostUnreachable"
    ELSE IF e.variant \notin {"TargetConnectionFailed", "Io"} THEN "GeneralFailure"
    ELSE IF e.kind \in {"ConnectionRefused", "NetworkUnreachable"} THEN e.kind
    ELSE IF e.kind \in {"NotFound", "AddrNotAvailable"} THEN "HostUnreachable"
    ELSE "GeneralFailure"

-----------------------------------------------------------------------------
Occurs(kind, errors) == \E i \in 1..Len(errors) : errors[i] = kind

\* Mutant: the first attempt to fail speaks for all.
Representative_First(errors) == errors[1]

\* The kind that stands for all the attempts that failed, whatever the order
\* in which they did; without one of the three it is the first failure.
Representative(errors) ==
    IF Occurs("ConnectionRefused", errors) THEN "ConnectionRefused"
    ELSE IF Occurs("NetworkUnreachable", errors) THEN "NetworkUnreachable"
    ELSE IF Occurs("TimedOut", errors) THEN "TimedOut"
    ELSE errors[1]

\* The errors of happy_eyeballs::connect with up to n attempts.  It maps every
\* failure of a lookup to an empty answer, so DnsResolution does not occur.
HappyEyeballsErrors(n) ==
    {[variant |-> "NoAddressesResolved", errors |-> <<>>]}
        \cup {[variant |-> "AllAttemptsFailed", errors |-> s] :
                  s \in UNION {[1..m -> ConnectKinds] : m \in 1..n}}

\* From<HappyEyeballsError> for Socks5Error.
FromHappyEyeballs(e) ==
    IF e.variant = "NoAddressesResolved" THEN DnsResolutionFailed
    ELSE IF e.errors = <<>> THEN TargetConnectionFailed("Other")
    ELSE TargetConnectionFailed(Representative(e.errors))
=============================================================================
