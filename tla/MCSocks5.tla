------------------------------ MODULE MCSocks5 ------------------------------
(***************************************************************************)
(* Socks5Handler for TLC: clients that send any two messages ahead of what *)
(* the task has read, and two statements of the repository about the       *)
(* handler that the code does not keep.                                    *)
(***************************************************************************)
EXTENDS Socks5Handler

AnyMessages ==
    {Greeting({"UsernamePassword", "NoAuthenticationRequired"}),
     Greeting({"NoAuthenticationRequired"}), Greeting({"Gssapi"}),
     Auth(TRUE), Auth(FALSE)}
        \cup {Request(c) : c \in Commands} \cup {Bulk}

\* "Connection refused -> ConnectionRefused, Network unreachable ->
\* NetworkUnreachable, Host unreachable -> HostUnreachable, DNS errors ->
\* HostUnreachable, Other errors -> GeneralFailure" (state.rs:693-697): the
\* replies of send_error_reply.  to_reply has no arm for an unreachable host,
\* and one for three of the others (error.rs:95-101).
DocumentedReply(e) ==
    CASE e.kind \in {"ConnectionRefused", "NetworkUnreachable", "HostUnreachable"} -> e.kind
      [] e = DnsResolutionFailed -> "HostUnreachable"
      [] OTHER -> "GeneralFailure"

\* "preserves_extra_data" (codecs/server.rs:1165): what follows the request in
\* the read buffer is kept for the relay.  into_inner drops it (state.rs:495).
ExtraDataPreserved == [][(pc' = "relay" /\ pc # "relay") => buffer = <<>>]_vars
=============================================================================
