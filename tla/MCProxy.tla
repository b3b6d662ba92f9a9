------------------------------- MODULE MCProxy ------------------------------
(***************************************************************************)
(* Proxy for TLC: two clients and one permit, so that the connection in    *)
(* full waits for the other one, or the other one for it.                  *)
(***************************************************************************)
EXTENDS Proxy

\* The frames of Socks5Handler, written out: a constant of its instance H that
\* is defined by operators of H is circular for TLC's statistics.
FewMessages ==
    {[type |-> "greeting", methods |-> {m}] : m \in {"UsernamePassword", "Gssapi"}}
        \cup {[type |-> "auth", valid |-> v] : v \in BOOLEAN}
        \cup {[type |-> "request", command |-> c] : c \in {"ConnectIp", "Bind"}}
=============================================================================
