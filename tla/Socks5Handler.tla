---------------------------- MODULE Socks5Handler ---------------------------
(***************************************************************************)
(* One SOCKS5 connection up to its tunnel: Socks5Handler of                *)
(* noxen-proxy/src/handler/socks5/state.rs, under the select! of           *)
(* Handler::run (server/mod.rs), over a Framed stream with the decoders of *)
(* noxen-socks5/src/codecs/server.rs.                                      *)
(*                                                                         *)
(* pc is the await at which the task is suspended.  The client, the peer   *)
(* of a BIND, the target and the clock act between any two of them.        *)
(***************************************************************************)
EXTENDS Socks5Errors

CONSTANTS Messages,      \* what clients may send
          MaxUnread,     \* bound: messages sent and not yet read
          MaxAttempts    \* bound: addresses a domain resolves to

(***************************************************************************)
(* Messages are what the decoder of the phase would make of the bytes: a   *)
(* complete frame, bytes that are no frame of any phase ("data"), or more  *)
(* such bytes than any frame may have ("bulk").  A frame that is not       *)
(* complete yet is a message that is not sent yet; Socks5Framed looks at   *)
(* the bytes.                                                              *)
(***************************************************************************)
Greeting(methods) == [type |-> "greeting", methods |-> methods]
Auth(valid)       == [type |-> "auth", valid |-> valid]
Request(command)  == [type |-> "request", command |-> command]
Data              == [type |-> "data"]
Bulk              == [type |-> "bulk"]

OfferedMethods == {"UsernamePassword", "NoAuthenticationRequired", "Gssapi"}
Commands       == {"ConnectIp", "ConnectDomain", "Bind", "UdpAssociate"}
ClientMessages == {Greeting(ms) : ms \in SUBSET OfferedMethods}
                    \cup {Auth(v) : v \in BOOLEAN}
                    \cup {Request(c) : c \in Commands}
                    \cup {Data, Bulk}

ASSUME HandlerAssumption ==
    /\ Messages \subseteq ClientMessages
    /\ MaxUnread \in Nat
    /\ MaxAttempts \in Nat \ {0}

VARIABLES
    allow_no_auth,    \* config.allow_no_auth
    pc,               \* the await the task is at
    client,           \* "open", "eof" (has shut its write side) or "reset"
    rx,               \* received by the kernel, not read by the task
    buffer,           \* the read buffer of `framed`
    offered,          \* the methods of the greeting
    verified,         \* has the auth provider accepted the credentials?
    command,          \* the command of the request
    wire,             \* what was written to the client
    outgoing,         \* the message of a send_and_shutdown
    sockets,          \* the sockets the task owns
    error,            \* what the task ends with
    notify_shutdown   \* is the broadcast sender alive?

vars == <<allow_no_auth, pc, client, rx, buffer, offered, verified, command, wire, outgoing,
          sockets, error, notify_shutdown>>

readVars   == <<rx, buffer>>
clientVars == <<client, notify_shutdown, allow_no_auth>>
dialogVars == <<offered, verified, command>>
endVars    == <<outgoing, error>>

-----------------------------------------------------------------------------
Receiving == {"recv_greeting", "recv_auth", "recv_request"}
Sending   == {"send_method", "send_status", "send_connected", "send_first", "send_second"}
Handshake == Receiving \cup Sending
                 \cup {"connect", "bind", "accept", "send_final", "shutdown"}

Init ==
    /\ allow_no_auth \in BOOLEAN
    /\ pc = "recv_greeting"
    /\ client = "open"
    /\ rx = <<>>
    /\ buffer = <<>>
    /\ offered = {}
    /\ verified = FALSE
    /\ command = "none"
    /\ wire = <<>>
    /\ outgoing = "none"
    /\ sockets = {"downstream"}
    /\ error = NoError
    /\ notify_shutdown = TRUE

-----------------------------------------------------------------------------
(* The environment.                                                        *)

\* What is sent after the request was read stays in the kernel, where only
\* the relay reads it: the model leaves it out.
ClientSends(m) ==
    /\ client = "open"
    /\ pc \in Receiving \cup {"send_method", "send_status"}
    /\ Len(rx) < MaxUnread
    /\ rx' = Append(rx, m)
    /\ UNCHANGED <<pc, buffer, clientVars, dialogVars, wire, endVars, sockets>>

ClientShutsDown ==
    /\ client = "open"
    /\ pc \in Handshake
    /\ client' = "eof"
    /\ UNCHANGED <<pc, readVars, allow_no_auth, notify_shutdown, dialogVars, wire, endVars, sockets>>

\* What was received before a reset may or may not still be read.
ClientResets ==
    /\ client # "reset"
    /\ pc \in Handshake
    /\ client' = "reset"
    /\ rx' \in {rx, <<>>}
    /\ UNCHANGED <<pc, buffer, allow_no_auth, notify_shutdown, dialogVars, wire, endVars, sockets>>

ServerShutsDown ==
    /\ notify_shutdown
    /\ notify_shutdown' = FALSE
    /\ UNCHANGED <<allow_no_auth, pc, client, readVars, dialogVars, wire, endVars, sockets>>

-----------------------------------------------------------------------------
(* recv, send, send_and_shutdown.                                          *)

\* What `framed` can hold when it decodes, with what is left in the kernel:
\* its buffer, or if that is empty, what the next read returns.
Available ==
    IF buffer # <<>> THEN {<<buffer, rx>>}
    ELSE {<<SubSeq(rx, 1, n), SubSeq(rx, n + 1, Len(rx))>> : n \in 1..Len(rx)}

\* The decoders compare the size of the whole buffer with that of a frame.
TooLarge(b) == \E i \in 1..Len(b) : b[i] = Bulk

\* What starts with a whole frame of the phase, and taking that frame.
Frames(type) == {held \in Available : ~TooLarge(held[1]) /\ Head(held[1]).type = type}
Take(held)   == buffer' = Tail(held[1]) /\ rx' = held[2]

Expected == [recv_greeting |-> "greeting", recv_auth |-> "auth", recv_request |-> "request"]

\* Mutant: accept runs in a task of its own, which keeps the listener of a BIND
\* when the handle to it is dropped.
Close_DetachesAccept(e) ==
    /\ pc' = "closed"
    /\ error' = e
    /\ sockets' = sockets \cap {"listener"}
    /\ buffer' = <<>>
    /\ rx' = <<>>

\* The task returns: everything it owns is dropped, what was not read too.
Close(e) ==
    /\ pc' = "closed"
    /\ error' = e
    /\ sockets' = {}
    /\ buffer' = <<>>
    /\ rx' = <<>>

\* A frame that does not decode ends the connection without a reply.
RecvMalformed ==
    /\ pc \in Receiving
    /\ \E held \in Available :
         \/ TooLarge(held[1]) /\ Close(Protocol("FrameTooLarge"))
         \/ /\ ~TooLarge(held[1])
            /\ Head(held[1]).type # Expected[pc]
            /\ Close(Protocol("Malformed"))
    /\ UNCHANGED <<clientVars, dialogVars, wire, outgoing>>

\* So does the end of the stream, or an error on it, before a whole frame; the
\* end in the middle of a frame is an error of the Framed.
RecvEnds ==
    /\ pc \in Receiving
    /\ client # "open"
    /\ buffer = <<>>
    /\ rx = <<>>
    /\ \E kind \in {"UnexpectedEof", "Other"} :
         /\ kind = "UnexpectedEof" => client = "eof"
         /\ Close(Io(kind))
    /\ UNCHANGED <<clientVars, dialogVars, wire, outgoing>>

Send(at, m) ==
    /\ pc = at
    /\ client # "reset"
    /\ wire' = Append(wire, m)
    /\ UNCHANGED <<clientVars, dialogVars, endVars>>

SendFails ==
    /\ pc \in Sending
    /\ client = "reset"
    /\ Close(Io("Other"))
    /\ UNCHANGED <<clientVars, dialogVars, wire, outgoing>>

\* send_and_shutdown(m), after which the task returns Err(e).
Reject(m, e) ==
    /\ pc' = "send_final"
    /\ outgoing' = m
    /\ error' = e

\* send_error_reply(e).
ErrorReply(e) == Reject(ToReply(e), e)

\* The last message is sent if it can be; the stream is shut down in any case.
SendFinal ==
    /\ pc = "send_final"
    /\ pc' = "shutdown"
    /\ wire' = IF client = "reset" THEN wire ELSE Append(wire, outgoing)
    /\ UNCHANGED <<readVars, clientVars, dialogVars, endVars, sockets>>

ShutdownStream ==
    /\ pc = "shutdown"
    /\ Close(error)
    /\ UNCHANGED <<clientVars, dialogVars, wire, outgoing>>

-----------------------------------------------------------------------------
(* negotiate and authenticate.                                             *)

\* Username and password are preferred, no authentication must be allowed.
\* Mutant: the configuration is not looked at.
Acceptable_Always == {"UsernamePassword", "NoAuthenticationRequired"}

Acceptable == {"UsernamePassword"}
                  \cup (IF allow_no_auth THEN {"NoAuthenticationRequired"} ELSE {})

RecvGreeting ==
    /\ pc = "recv_greeting"
    /\ \E held \in Frames("greeting") :
         /\ Take(held)
         /\ offered' = Head(held[1]).methods
    /\ IF offered' \cap Acceptable # {}
         THEN /\ pc' = "send_method"
              /\ UNCHANGED endVars
         ELSE Reject("NoAcceptableMethods", NoAcceptableMethod)
    /\ UNCHANGED <<clientVars, verified, command, wire, sockets>>

SendMethod ==
    /\ IF "UsernamePassword" \in offered
         THEN Send("send_method", "UsernamePassword") /\ pc' = "recv_auth"
         ELSE Send("send_method", "NoAuthenticationRequired") /\ pc' = "recv_request"
    /\ UNCHANGED <<readVars, sockets>>

RecvAuth ==
    /\ pc = "recv_auth"
    /\ \E held \in Frames("auth") :
         /\ Take(held)
         /\ verified' = Head(held[1]).valid
    /\ IF verified'
         THEN /\ pc' = "send_status"
              /\ UNCHANGED endVars
         ELSE Reject("Failure", AuthenticationFailed)
    /\ UNCHANGED <<clientVars, offered, command, wire, sockets>>

SendStatus ==
    /\ Send("send_status", "Success")
    /\ pc' = "recv_request"
    /\ UNCHANGED <<readVars, sockets>>

-----------------------------------------------------------------------------
(* handle.                                                                 *)

RecvRequest ==
    /\ pc = "recv_request"
    /\ \E held \in Frames("request") :
         /\ Take(held)
         /\ command' = Head(held[1]).command
    /\ CASE command' = "Bind" -> pc' = "bind" /\ UNCHANGED endVars
         [] command' = "UdpAssociate" -> Reject("CommandNotSupported", CommandNotSupported)
         [] OTHER -> pc' = "connect" /\ UNCHANGED endVars
    /\ UNCHANGED <<clientVars, offered, verified, wire, sockets>>

-----------------------------------------------------------------------------
(* handle_connect.                                                         *)

Connects ==
    /\ pc = "connect"
    /\ pc' = "send_connected"
    /\ sockets' = sockets \cup {"upstream"}
    /\ UNCHANGED <<readVars, clientVars, dialogVars, wire, endVars>>

ConnectErrors ==
    IF command = "ConnectDomain" THEN {FromHappyEyeballs(e) : e \in HappyEyeballsErrors(MaxAttempts)}
                                 ELSE {TargetConnectionFailed(k) : k \in ConnectKinds}

ConnectFails ==
    /\ pc = "connect"
    /\ \E e \in ConnectErrors : ErrorReply(e)
    /\ UNCHANGED <<readVars, clientVars, dialogVars, wire, sockets>>

\* Mutant: the `?` of the timeout leaves handle_connect without a reply.
ConnectTimesOut_Silent ==
    /\ pc = "connect"
    /\ Close(Timeout)
    /\ UNCHANGED <<clientVars, dialogVars, wire, outgoing>>

\* The timer of connect_timeout fires while the attempt is pending.
ConnectTimesOut ==
    /\ pc = "connect"
    /\ ErrorReply(Timeout)
    /\ UNCHANGED <<readVars, clientVars, dialogVars, wire, sockets>>

\* DEFAULT_CONNECTOR panics when the resolver configuration cannot be read,
\* and so does every later use of it.
ConnectPanics ==
    /\ pc = "connect"
    /\ command = "ConnectDomain"
    /\ Close(Panicked)
    /\ UNCHANGED <<clientVars, dialogVars, wire, outgoing>>

\* The reply is out: into_inner drops the read buffer, the tunnel is made.
Tunnel ==
    /\ pc' = "relay"
    /\ buffer' = <<>>
    /\ UNCHANGED rx

SendConnected ==
    /\ Send("send_connected", "Succeeded")
    /\ Tunnel
    /\ UNCHANGED sockets

-----------------------------------------------------------------------------
(* handle_bind.                                                            *)

BindListens ==
    /\ pc = "bind"
    /\ pc' = "send_first"
    /\ sockets' = sockets \cup {"listener"}
    /\ UNCHANGED <<readVars, clientVars, dialogVars, wire, endVars>>

\* bind fails, or local_addr does, with the listener open.
BindFails ==
    /\ pc = "bind"
    /\ \E k \in {"AddrNotAvailable", "Other"} : ErrorReply(Io(k))
    /\ sockets' \in {sockets, sockets \cup {"listener"}}
    /\ UNCHANGED <<readVars, clientVars, dialogVars, wire>>

\* Mutant: the first success is taken for the last, as in CONNECT.
SendFirst_Tunnels ==
    /\ Send("send_first", "Succeeded")
    /\ Tunnel
    /\ UNCHANGED sockets

SendFirst ==
    /\ Send("send_first", "Succeeded")
    /\ pc' = "accept"
    /\ UNCHANGED <<readVars, sockets>>

\* Mutant: the listener lives to the end of handle_bind.
PeerConnects_KeepsListener ==
    /\ pc = "accept"
    /\ pc' = "send_second"
    /\ sockets' = sockets \cup {"upstream"}
    /\ UNCHANGED <<readVars, clientVars, dialogVars, wire, endVars>>

\* The listener is dropped as soon as it has accepted its one connection.
PeerConnects ==
    /\ pc = "accept"
    /\ pc' = "send_second"
    /\ sockets' = (sockets \cup {"upstream"}) \ {"listener"}
    /\ UNCHANGED <<readVars, clientVars, dialogVars, wire, endVars>>

AcceptFails ==
    /\ pc = "accept"
    /\ ErrorReply(Io("Other"))
    /\ UNCHANGED <<readVars, clientVars, dialogVars, wire, sockets>>

\* Mutant: accept is awaited without a timeout.
BindTimesOut_Never == FALSE

\* The timer of bind_timeout fires while accept is pending.
BindTimesOut ==
    /\ pc = "accept"
    /\ ErrorReply(Timeout)
    /\ UNCHANGED <<readVars, clientVars, dialogVars, wire, sockets>>

SendSecond ==
    /\ Send("send_second", "Succeeded")
    /\ Tunnel
    /\ UNCHANGED sockets

-----------------------------------------------------------------------------
(* Handler::run.                                                           *)

\* Mutant: only the negotiation is under a select!.
ShutdownCancels_OnlyNegotiation ==
    /\ ~notify_shutdown
    /\ pc \in {"recv_greeting", "send_method", "recv_auth", "send_status"}
    /\ Close(Cancelled)
    /\ UNCHANGED <<clientVars, dialogVars, wire, outgoing>>

\* Mutant: the tunnel is under a select! too.
ShutdownCancels_Relay ==
    /\ ~notify_shutdown
    /\ pc \in Handshake \cup {"relay"}
    /\ Close(Cancelled)
    /\ UNCHANGED <<clientVars, dialogVars, wire, outgoing>>

\* The shutdown branch of either select!: the future of the phase is dropped.
ShutdownCancels ==
    /\ ~notify_shutdown
    /\ pc \in Handshake
    /\ Close(Cancelled)
    /\ UNCHANGED <<clientVars, dialogVars, wire, outgoing>>

\* The runtime is dropped at the end of the drain, and drops the task at
\* whatever await it is.
RuntimeDrops ==
    /\ ~notify_shutdown
    /\ pc # "closed"
    /\ Close(Cancelled)
    /\ UNCHANGED <<clientVars, dialogVars, wire, outgoing>>

\* The tunnel ends, which the shutdown does not make it do.
RelayEnds ==
    /\ pc = "relay"
    /\ Close(Relayed)
    /\ UNCHANGED <<clientVars, dialogVars, wire, outgoing>>

Terminated ==
    /\ pc = "closed"
    /\ UNCHANGED vars

-----------------------------------------------------------------------------
Client  == (\E m \in Messages : ClientSends(m)) \/ ClientShutsDown \/ ClientResets
Network == Connects \/ ConnectFails \/ ConnectPanics \/ PeerConnects \/ AcceptFails
              \/ RelayEnds
Task ==
    \/ RecvGreeting
    \/ SendMethod
    \/ RecvAuth
    \/ SendStatus
    \/ RecvRequest
    \/ RecvMalformed
    \/ RecvEnds
    \/ SendFails
    \/ SendConnected
    \/ BindListens
    \/ BindFails
    \/ SendFirst
    \/ SendSecond
    \/ SendFinal
    \/ ShutdownStream
    \/ ShutdownCancels
    \/ ConnectTimesOut
    \/ BindTimesOut

Next ==
    \/ Client
    \/ ServerShutsDown
    \/ RuntimeDrops
    \/ Network
    \/ Task
    \/ Terminated

Spec == Init /\ [][Next]_vars

\* The runtime polls a task that can go on, and timers fire.  Nothing is
\* assumed of the client, of the target or of the peer of a BIND.
FairSpec == Spec /\ WF_vars(Task)

-----------------------------------------------------------------------------
(* Properties.                                                             *)

ServerMessages == Replies \cup OfferedMethods \cup {"NoAcceptableMethods", "Success", "Failure"}

\* The types: what is written is a message of the protocol, a final message is
\* not a success, and what the task ends with is an error of Socks5Error or one
\* of its other ends (error.rs:33-104).
TypeOK ==
    /\ allow_no_auth \in BOOLEAN
    /\ pc \in Handshake \cup {"relay", "closed"}
    /\ client \in {"open", "eof", "reset"}
    /\ rx \in Seq(ClientMessages)
    /\ buffer \in Seq(ClientMessages)
    /\ offered \subseteq OfferedMethods
    /\ verified \in BOOLEAN
    /\ command \in Commands \cup {"none"}
    /\ wire \in Seq(ServerMessages)
    /\ outgoing \in (Replies \ {"Succeeded"}) \cup {"none", "NoAcceptableMethods", "Failure"}
    /\ pc = "send_final" => outgoing # "none"
    /\ sockets \subseteq {"downstream", "upstream", "listener"}
    /\ error \in Socks5Error \cup {NoError, Cancelled, Panicked, Relayed}
    /\ notify_shutdown \in BOOLEAN

\* Nothing is connected, bound or accepted for a client that has not given
\* valid credentials, unless allow_no_auth is set and the client offered to do
\* without and did not offer a password (state.rs:264-277).
Authorized ==
    \/ verified
    \/ /\ allow_no_auth
       /\ "NoAuthenticationRequired" \in offered
       /\ "UsernamePassword" \notin offered
AuthorizedOnly ==
    (pc \in {"connect", "bind", "relay"} \/ {"upstream", "listener"} \cap sockets # {})
        => Authorized

\* What the task has learned of the client when it is at an await.
Handling == {"recv_request", "connect", "send_connected",
             "bind", "send_first", "accept", "send_second", "relay"}
AccessMatches ==
    /\ pc = "send_method" => offered \cap Acceptable # {}
    /\ pc = "send_status" => verified
    /\ pc \in Handling \/ "listener" \in sockets => Authorized

\* What the task owns at an await.
SocketsMatch ==
    sockets \in
        CASE pc \in {"send_connected", "send_second", "relay"} -> {{"downstream", "upstream"}}
          [] pc \in {"send_first", "accept"}   -> {{"downstream", "listener"}}
          [] pc \in {"send_final", "shutdown"} -> {{"downstream"}, {"downstream", "listener"}}
          [] pc = "closed"                     -> {{}}
          [] OTHER                             -> {{"downstream"}}

\* The inductive invariant: AuthorizedOnly is not preserved without what the
\* task has learned before it sends the method and the status, nor without
\* knowing that nothing is owned while that can still change.
HandlerInv == TypeOK /\ AccessMatches /\ SocketsMatch

\* What is told of an error.  Refused connections, unreachable networks, names
\* that do not resolve and other errors are told as documented (state.rs:46-51,
\* 693-697).  Timeouts and two kinds of io::Error are told as an unreachable host
\* (error.rs:97, 101), and an unreachable host as a general failure, which is
\* not what is documented: the run socks5_reply.
Telling(e) ==
    CASE e = NoAcceptableMethod   -> "NoAcceptableMethods"
      [] e = AuthenticationFailed -> "Failure"
      [] e = CommandNotSupported  -> "CommandNotSupported"
      [] e = DnsResolutionFailed  -> "HostUnreachable"
      [] e.kind \in {"ConnectionRefused", "NetworkUnreachable"} -> e.kind
      [] e = Timeout \/ e.kind \in {"NotFound", "AddrNotAvailable"} -> "HostUnreachable"
      [] OTHER -> "GeneralFailure"

\* A connection that ends by the decision of the server, or because the target
\* or the peer could not be reached, ends with the message for that, on
\* every path; one that ends by a violation of the protocol ends without
\* (state.rs:46-51, 683-714).
RejectionTold ==
    (pc = "closed" /\ client = "open") =>
        CASE error.variant = "Protocol" ->
               \A i \in 1..Len(wire) :
                   wire[i] \in {"UsernamePassword", "NoAuthenticationRequired", "Success"}
          [] error \in Socks5Error /\ error.variant # "Protocol" ->
               wire # <<>> /\ wire[Len(wire)] = Telling(error)
          [] OTHER -> TRUE

\* Success is only reported for what is there: after the last reply, the
\* upstream connection is open until the task ends, and the port of a BIND is
\* released before the client is told who connected (state.rs:581-596).
SuccessIsTrue ==
    /\ pc = "relay" => sockets = {"downstream", "upstream"}
    /\ (pc # "closed" /\ wire # <<>> /\ wire[Len(wire)] = "Succeeded")
           => {"upstream", "listener"} \cap sockets # {}
    /\ pc = "send_second" => "listener" \notin sockets

\* The handler keeps to the dialogue and the phases of Socks5Session.
Session == INSTANCE Socks5Session WITH
    phase    <- CASE pc \in {"recv_greeting", "send_method", "recv_auth", "send_status"} -> "negotiate"
                  [] pc \in {"send_final", "shutdown"} /\ command = "none" -> "negotiate"
                  [] pc \in {"relay", "closed"} -> pc
                  [] OTHER -> "handle",
    dialogue <- wire
ImplementsSession == Session!Spec

\* Only the client can keep a handshake waiting: a connect, a BIND and the
\* sending of a reply end by themselves (state.rs:560-579, 675-680).
OnlyClientStalls == pc \in Handshake \ Receiving ~> pc \in Receiving \cup {"relay", "closed"}

\* Nothing in the handshake outlives the shutdown signal, whatever the client
\* and the target do or do not do (mod.rs:97-100, 114-117).
ShutdownEndsHandshake == ~notify_shutdown ~> pc \in {"relay", "closed"}
=============================================================================
