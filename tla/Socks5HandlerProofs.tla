------------------------- MODULE Socks5HandlerProofs ------------------------
(***************************************************************************)
(* Theorems about module Socks5Handler, for every set of messages clients  *)
(* may send, any number of them unread and any number of addresses.        *)
(***************************************************************************)
EXTENDS Socks5Handler, SequenceTheorems, TLAPS

USE HandlerAssumption

-----------------------------------------------------------------------------
(* The errors and their replies.                                           *)

\* A failure of the connector is a resolution or a connection failure.
LEMMA FromHappyEyeballsType ==
    ASSUME NEW e \in HappyEyeballsErrors(MaxAttempts)
    PROVE  FromHappyEyeballs(e) \in {DnsResolutionFailed}
               \cup {TargetConnectionFailed(k) : k \in ConnectKinds}
<1>1. CASE e = [variant |-> "NoAddressesResolved", errors |-> <<>>]
    BY <1>1 DEF FromHappyEyeballs
<1>2. CASE \E m \in 1..MaxAttempts : \E s \in [1..m -> ConnectKinds] :
               e = [variant |-> "AllAttemptsFailed", errors |-> s]
  <2>1. PICK m \in 1..MaxAttempts : \E s \in [1..m -> ConnectKinds] :
            e = [variant |-> "AllAttemptsFailed", errors |-> s]
      BY <1>2
  <2>6. PICK s \in [1..m -> ConnectKinds] :
            e = [variant |-> "AllAttemptsFailed", errors |-> s]
      BY <2>1
  <2>2. s[1] \in ConnectKinds
      OBVIOUS
  <2>3. Representative(s) \in ConnectKinds
      BY <2>2 DEF Representative, ConnectKinds
  <2>4. "Other" \in ConnectKinds
      BY DEF ConnectKinds
  <2>5. QED
      BY <2>6, <2>3, <2>4 DEF FromHappyEyeballs
<1>3. QED
    BY <1>1, <1>2 DEF HappyEyeballsErrors

LEMMA ConnectErrorsType == ConnectErrors \subseteq Socks5Error
<1>1. {DnsResolutionFailed} \cup {TargetConnectionFailed(k) : k \in ConnectKinds} \subseteq Socks5Error
    BY DEF Socks5Error, TargetConnectionFailed, ConnectKinds, IoKinds
<1>2. QED
    BY <1>1, FromHappyEyeballsType DEF ConnectErrors

\* No error is told as a success.
LEMMA ToReplyFails ==
    ASSUME NEW e
    PROVE  ToReply(e) \in Replies \ {"Succeeded"}
BY DEF ToReply, Replies

-----------------------------------------------------------------------------
(* What is read and what is left.                                          *)

LEMMA AvailableType ==
    ASSUME TypeOK, NEW held \in Available
    PROVE  /\ held[1] \in Seq(ClientMessages) /\ held[1] # <<>>
           /\ held[2] \in Seq(ClientMessages)
           /\ Tail(held[1]) \in Seq(ClientMessages)
           /\ Head(held[1]) \in ClientMessages
<1>1. held[1] \in Seq(ClientMessages) /\ held[1] # <<>> /\ held[2] \in Seq(ClientMessages)
  <2>1. CASE buffer # <<>>
      BY <2>1 DEF Available, TypeOK
  <2>2. CASE buffer = <<>>
    <3>1. PICK n \in 1..Len(rx) : held = <<SubSeq(rx, 1, n), SubSeq(rx, n + 1, Len(rx))>>
        BY <2>2 DEF Available
    <3>2. rx \in Seq(ClientMessages) /\ Len(rx) \in Nat
        BY DEF TypeOK
    <3>3. /\ SubSeq(rx, 1, n) \in Seq(ClientMessages)
          /\ Len(SubSeq(rx, 1, n)) = n
        BY <3>1, <3>2
    <3>4. SubSeq(rx, n + 1, Len(rx)) \in Seq(ClientMessages)
        BY <3>1, <3>2
    <3>5. held[1] = SubSeq(rx, 1, n) /\ held[2] = SubSeq(rx, n + 1, Len(rx))
        BY <3>1
    <3>6. SubSeq(rx, 1, n) # <<>>
        BY <3>2, <3>3
    <3>7. QED
        BY <3>3, <3>4, <3>5, <3>6
  <2>3. QED
      BY <2>1, <2>2
<1>2. QED
    BY <1>1

\* A frame of a phase is a message of that type, with the fields it has.
LEMMA MessageFields ==
    ASSUME NEW m \in ClientMessages
    PROVE  /\ m.type = "greeting" => m.methods \subseteq OfferedMethods
           /\ m.type = "auth" => m.valid \in BOOLEAN
           /\ m.type = "request" => m.command \in Commands
BY DEF ClientMessages, Greeting, Auth, Request, Data, Bulk

-----------------------------------------------------------------------------
(* The invariant holds initially and every action preserves it.            *)

LEMMA InitInv == Init => HandlerInv
<1> SUFFICES ASSUME Init PROVE HandlerInv
    OBVIOUS
<1>1. TypeOK
  <2>1. <<>> \in Seq(ClientMessages) /\ <<>> \in Seq(ServerMessages)
      OBVIOUS
  <2>2. QED
      BY <2>1 DEF Init, TypeOK, Handshake, Receiving, NoError
<1>2. AccessMatches /\ SocketsMatch
    BY DEF Init, AccessMatches, SocketsMatch, Handling
<1>3. QED
    BY <1>1, <1>2 DEF HandlerInv

\* The client and the signal change nothing that the task has learned.
LEMMA EnvironmentInv ==
    ASSUME HandlerInv,
           \/ \E m \in Messages : ClientSends(m)
           \/ ClientShutsDown
           \/ ClientResets
           \/ ServerShutsDown
           \/ UNCHANGED vars
    PROVE  HandlerInv'
<1>1. /\ rx' \in Seq(ClientMessages)
      /\ client' \in {"open", "eof", "reset"}
      /\ notify_shutdown' \in BOOLEAN
  <2>1. CASE \E m \in Messages : ClientSends(m)
    <3>1. PICK m \in Messages : ClientSends(m)
        BY <2>1
    <3>2. m \in ClientMessages /\ rx \in Seq(ClientMessages)
        BY DEF HandlerInv, TypeOK, HandlerAssumption
    <3>3. rx' \in Seq(ClientMessages)
        BY <3>1, <3>2 DEF ClientSends
    <3>4. QED
        BY <3>1, <3>3 DEF HandlerInv, TypeOK, ClientSends, clientVars
  <2>2. CASE ClientShutsDown \/ ClientResets \/ ServerShutsDown \/ UNCHANGED vars
    <3>1. <<>> \in Seq(ClientMessages)
        OBVIOUS
    <3>2. QED
        BY <2>2, <3>1 DEF HandlerInv, TypeOK, ClientShutsDown, ClientResets, ServerShutsDown,
                          vars, readVars
  <2>3. QED
      BY <2>1, <2>2
<1>2. UNCHANGED <<allow_no_auth, pc, buffer, offered, verified, command, wire, outgoing, sockets, error>>
    BY DEF ClientSends, ClientShutsDown, ClientResets, ServerShutsDown, vars, clientVars, readVars,
           dialogVars, endVars
<1>3. TypeOK'
    BY <1>1, <1>2 DEF HandlerInv, TypeOK
<1>4. AccessMatches' /\ SocketsMatch'
    BY <1>2 DEF HandlerInv, AccessMatches, SocketsMatch, Authorized, Acceptable
<1>5. QED
    BY <1>3, <1>4 DEF HandlerInv

Ends == Socks5Error \cup {NoError, Cancelled, Panicked, Relayed}

LEMMA ErrorValues ==
    /\ \A k \in IoKinds : Io(k) \in Socks5Error
    /\ \A k \in ProtocolErrors : Protocol(k) \in Socks5Error
    /\ {AuthenticationFailed, NoAcceptableMethod, CommandNotSupported, Timeout} \subseteq Socks5Error
BY DEF Socks5Error, Io

\* A task that returns owns nothing, whatever it was doing.
LEMMA CloseInv ==
    ASSUME HandlerInv, NEW e \in Ends, Close(e),
           UNCHANGED <<clientVars, dialogVars, wire, outgoing>>
    PROVE  HandlerInv'
<1>1. TypeOK'
  <2>1. <<>> \in Seq(ClientMessages)
      OBVIOUS
  <2>2. QED
      BY <2>1 DEF HandlerInv, TypeOK, Close, Ends, clientVars, dialogVars
<1>2. AccessMatches' /\ SocketsMatch'
    BY DEF Close, AccessMatches, SocketsMatch, Handling
<1>3. QED
    BY <1>1, <1>2 DEF HandlerInv

\* A rejection keeps what the task owns, but for a listener it may have opened.
LEMMA RejectInv ==
    ASSUME HandlerInv,
           NEW m \in (Replies \ {"Succeeded"}) \cup {"NoAcceptableMethods", "Failure"},
           NEW e \in Ends, Reject(m, e),
           rx' \in Seq(ClientMessages), buffer' \in Seq(ClientMessages),
           offered' \subseteq OfferedMethods, verified' \in BOOLEAN,
           command' \in Commands \cup {"none"},
           sockets' \in {{"downstream"}, {"downstream", "listener"}},
           "listener" \in sockets' => Authorized',
           UNCHANGED <<clientVars, wire>>
    PROVE  HandlerInv'
<1>1. m # "none" /\ m \in (Replies \ {"Succeeded"}) \cup {"none", "NoAcceptableMethods", "Failure"}
    BY DEF Replies
<1>2. TypeOK'
    BY <1>1 DEF HandlerInv, TypeOK, Reject, Handshake, Ends, clientVars
<1>3. AccessMatches' /\ SocketsMatch'
    BY DEF Reject, AccessMatches, SocketsMatch, Handling
<1>4. QED
    BY <1>2, <1>3 DEF HandlerInv

\* An error reply of the handling of a request.
LEMMA ErrorReplyInv ==
    ASSUME HandlerInv, pc \in {"connect", "bind", "accept"},
           NEW e \in Socks5Error, ErrorReply(e),
           sockets' \in {sockets, sockets \cup {"listener"}},
           pc # "bind" => sockets' = sockets,
           UNCHANGED <<readVars, clientVars, dialogVars, wire>>
    PROVE  HandlerInv'
<1>1. ToReply(e) \in Replies \ {"Succeeded"}
    BY ToReplyFails
<1>2. sockets' \in {{"downstream"}, {"downstream", "listener"}}
    BY DEF HandlerInv, SocketsMatch
<1>3. Authorized'
    BY DEF HandlerInv, AccessMatches, Handling, Authorized, clientVars, dialogVars
<1>4. e \in Ends
    BY DEF Ends
<1>5. /\ rx' \in Seq(ClientMessages)
      /\ buffer' \in Seq(ClientMessages)
      /\ offered' \subseteq OfferedMethods
      /\ verified' \in BOOLEAN
      /\ command' \in Commands \cup {"none"}
    BY DEF HandlerInv, TypeOK, readVars, dialogVars
<1>6. Reject(ToReply(e), e)
    BY DEF ErrorReply
<1>7. UNCHANGED <<clientVars, wire>>
    OBVIOUS
<1>8. QED
    BY <1>1, <1>2, <1>3, <1>4, <1>5, <1>6, <1>7, RejectInv

-----------------------------------------------------------------------------
(* Every end of the task is one of the values it may end with.             *)

LEMMA EndsInv ==
    ASSUME HandlerInv,
           RecvMalformed \/ RecvEnds \/ SendFails \/ ShutdownStream \/ ConnectPanics
               \/ ShutdownCancels \/ RuntimeDrops \/ RelayEnds
    PROVE  HandlerInv'
<1>1. PICK e \in Ends : Close(e)
  <2>1. CASE RecvMalformed
    <3>1. Protocol("FrameTooLarge") \in Ends /\ Protocol("Malformed") \in Ends
        BY ErrorValues DEF ProtocolErrors, Ends
    <3>2. QED
        BY <2>1, <3>1 DEF RecvMalformed
  <2>2. CASE RecvEnds \/ SendFails
    <3>1. Io("UnexpectedEof") \in Ends /\ Io("Other") \in Ends
        BY ErrorValues DEF IoKinds, Ends
    <3>2. QED
        BY <2>2, <3>1 DEF RecvEnds, SendFails
  <2>3. CASE ShutdownStream
      BY <2>3 DEF ShutdownStream, HandlerInv, TypeOK, Ends
  <2>4. CASE ConnectPanics \/ ShutdownCancels \/ RuntimeDrops \/ RelayEnds
    <3>1. Panicked \in Ends /\ Cancelled \in Ends /\ Relayed \in Ends
        BY DEF Ends
    <3>2. QED
        BY <2>4, <3>1 DEF ConnectPanics, ShutdownCancels, RuntimeDrops, RelayEnds
  <2>5. QED
      BY <2>1, <2>2, <2>3, <2>4
<1>2. UNCHANGED <<clientVars, dialogVars, wire, outgoing>>
    BY DEF RecvMalformed, RecvEnds, SendFails, ShutdownStream, ConnectPanics, ShutdownCancels,
           RuntimeDrops, RelayEnds
<1>3. QED
    BY <1>1, <1>2, CloseInv

-----------------------------------------------------------------------------
(* The negotiation.                                                        *)

LEMMA RecvGreetingInv == HandlerInv /\ RecvGreeting => HandlerInv'
<1> SUFFICES ASSUME HandlerInv, RecvGreeting PROVE HandlerInv'
    OBVIOUS
<1>1. PICK held \in Frames("greeting") : Take(held) /\ offered' = Head(held[1]).methods
    BY DEF RecvGreeting
<1>2. /\ rx' \in Seq(ClientMessages)
      /\ buffer' \in Seq(ClientMessages)
      /\ offered' \subseteq OfferedMethods
  <2>1. TypeOK /\ held \in Available /\ Head(held[1]).type = "greeting"
      BY DEF HandlerInv, Frames
  <2>2. /\ held[2] \in Seq(ClientMessages)
        /\ Tail(held[1]) \in Seq(ClientMessages)
        /\ Head(held[1]) \in ClientMessages
      BY <2>1, AvailableType
  <2>3. Head(held[1]).methods \subseteq OfferedMethods
      BY <2>1, <2>2, MessageFields
  <2>4. QED
      BY <1>1, <2>2, <2>3 DEF Take
<1>3. /\ pc = "recv_greeting"
      /\ sockets' = {"downstream"}
      /\ UNCHANGED <<clientVars, verified, command, wire, sockets>>
    BY DEF RecvGreeting, HandlerInv, SocketsMatch
<1>4. verified' \in BOOLEAN /\ command' \in Commands \cup {"none"}
    BY <1>3 DEF HandlerInv, TypeOK
<1>5. CASE offered' \cap Acceptable # {}
  <2>1. pc' = "send_method" /\ UNCHANGED endVars
      BY <1>5 DEF RecvGreeting
  <2>2. TypeOK'
      BY <1>2, <1>3, <2>1 DEF HandlerInv, TypeOK, Handshake, Sending, clientVars, endVars
  <2>3. AccessMatches'
      BY <1>3, <1>5, <2>1 DEF AccessMatches, Handling, Acceptable, clientVars
  <2>4. SocketsMatch'
      BY <1>3, <2>1 DEF SocketsMatch
  <2>5. QED
      BY <2>2, <2>3, <2>4 DEF HandlerInv
<1>6. CASE offered' \cap Acceptable = {}
  <2>1. Reject("NoAcceptableMethods", NoAcceptableMethod)
      BY <1>6 DEF RecvGreeting
  <2>2. NoAcceptableMethod \in Ends
      BY ErrorValues DEF Ends
  <2>3. "listener" \notin sockets'
      BY <1>3
  <2>4. QED
      BY <1>2, <1>3, <1>4, <2>1, <2>2, <2>3, RejectInv
<1>7. QED
    BY <1>5, <1>6

LEMMA RecvAuthInv == HandlerInv /\ RecvAuth => HandlerInv'
<1> SUFFICES ASSUME HandlerInv, RecvAuth PROVE HandlerInv'
    OBVIOUS
<1>1. PICK held \in Frames("auth") : Take(held) /\ verified' = Head(held[1]).valid
    BY DEF RecvAuth
<1>2. /\ rx' \in Seq(ClientMessages)
      /\ buffer' \in Seq(ClientMessages)
      /\ verified' \in BOOLEAN
  <2>1. TypeOK /\ held \in Available /\ Head(held[1]).type = "auth"
      BY DEF HandlerInv, Frames
  <2>2. /\ held[2] \in Seq(ClientMessages)
        /\ Tail(held[1]) \in Seq(ClientMessages)
        /\ Head(held[1]) \in ClientMessages
      BY <2>1, AvailableType
  <2>3. Head(held[1]).valid \in BOOLEAN
      BY <2>1, <2>2, MessageFields
  <2>4. QED
      BY <1>1, <2>2, <2>3 DEF Take
<1>3. /\ pc = "recv_auth"
      /\ sockets' = {"downstream"}
      /\ UNCHANGED <<clientVars, offered, command, wire, sockets>>
    BY DEF RecvAuth, HandlerInv, SocketsMatch
<1>4. offered' \subseteq OfferedMethods /\ command' \in Commands \cup {"none"}
    BY <1>3 DEF HandlerInv, TypeOK
<1>5. CASE verified'
  <2>1. pc' = "send_status" /\ UNCHANGED endVars
      BY <1>5 DEF RecvAuth
  <2>2. TypeOK'
      BY <1>2, <1>3, <2>1 DEF HandlerInv, TypeOK, Handshake, Sending, clientVars, endVars
  <2>3. AccessMatches'
      BY <1>3, <1>5, <2>1 DEF AccessMatches, Handling
  <2>4. SocketsMatch'
      BY <1>3, <2>1 DEF SocketsMatch
  <2>5. QED
      BY <2>2, <2>3, <2>4 DEF HandlerInv
<1>6. CASE ~verified'
  <2>1. Reject("Failure", AuthenticationFailed)
      BY <1>6 DEF RecvAuth
  <2>2. AuthenticationFailed \in Ends
      BY ErrorValues DEF Ends
  <2>3. "listener" \notin sockets'
      BY <1>3
  <2>4. QED
      BY <1>2, <1>3, <1>4, <2>1, <2>2, <2>3, RejectInv
<1>7. QED
    BY <1>5, <1>6

\* A message that is sent is one of the server's.
LEMMA SendType ==
    ASSUME TypeOK, NEW at, NEW m \in ServerMessages, Send(at, m)
    PROVE  wire' \in Seq(ServerMessages)
BY DEF Send, TypeOK

LEMMA ServerMessagesHave ==
    {"UsernamePassword", "NoAuthenticationRequired", "Success", "Succeeded"} \subseteq ServerMessages
BY DEF ServerMessages, OfferedMethods, Replies

\* Without a password among the offered methods, what is acceptable is to do
\* without, and that is authorized.
LEMMA SendMethodInv == HandlerInv /\ SendMethod => HandlerInv'
<1> SUFFICES ASSUME HandlerInv, SendMethod PROVE HandlerInv'
    OBVIOUS
<1>1. /\ pc = "send_method"
      /\ UNCHANGED <<clientVars, dialogVars, endVars, readVars, sockets>>
      /\ sockets = {"downstream"}
    BY DEF SendMethod, Send, HandlerInv, SocketsMatch
<1>2. wire' \in Seq(ServerMessages)
    BY SendType, ServerMessagesHave DEF HandlerInv, SendMethod
<1>3. pc' = IF "UsernamePassword" \in offered THEN "recv_auth" ELSE "recv_request"
    BY DEF SendMethod
<1>4. TypeOK'
    BY <1>1, <1>2, <1>3 DEF HandlerInv, TypeOK, Handshake, Receiving, clientVars, dialogVars,
       endVars, readVars
<1>5. AccessMatches'
  <2>1. CASE "UsernamePassword" \in offered
      BY <1>1, <1>3, <2>1 DEF AccessMatches, Handling
  <2>2. CASE "UsernamePassword" \notin offered
    <3>1. allow_no_auth /\ "NoAuthenticationRequired" \in offered
        BY <1>1, <2>2 DEF HandlerInv, AccessMatches, Acceptable
    <3>2. Authorized'
        BY <1>1, <2>2, <3>1 DEF Authorized, clientVars, dialogVars
    <3>3. QED
        BY <1>3, <2>2, <3>2 DEF AccessMatches
  <2>3. QED
      BY <2>1, <2>2
<1>6. SocketsMatch'
    BY <1>1, <1>3 DEF SocketsMatch
<1>7. QED
    BY <1>4, <1>5, <1>6 DEF HandlerInv

LEMMA SendStatusInv == HandlerInv /\ SendStatus => HandlerInv'
<1> SUFFICES ASSUME HandlerInv, SendStatus PROVE HandlerInv'
    OBVIOUS
<1>1. /\ pc = "send_status" /\ pc' = "recv_request"
      /\ UNCHANGED <<clientVars, dialogVars, endVars, readVars, sockets>>
      /\ sockets = {"downstream"}
      /\ verified
    BY DEF SendStatus, Send, HandlerInv, SocketsMatch, AccessMatches
<1>2. wire' \in Seq(ServerMessages)
    BY SendType, ServerMessagesHave DEF HandlerInv, SendStatus
<1>3. TypeOK'
    BY <1>1, <1>2 DEF HandlerInv, TypeOK, Handshake, Receiving, clientVars, dialogVars,
       endVars, readVars
<1>4. AccessMatches' /\ SocketsMatch'
    BY <1>1 DEF AccessMatches, SocketsMatch, Authorized, dialogVars
<1>5. QED
    BY <1>3, <1>4 DEF HandlerInv

-----------------------------------------------------------------------------
(* The handling of a request.                                              *)

LEMMA RecvRequestInv == HandlerInv /\ RecvRequest => HandlerInv'
<1> SUFFICES ASSUME HandlerInv, RecvRequest PROVE HandlerInv'
    OBVIOUS
<1>1. PICK held \in Frames("request") : Take(held) /\ command' = Head(held[1]).command
    BY DEF RecvRequest
<1>2. /\ rx' \in Seq(ClientMessages)
      /\ buffer' \in Seq(ClientMessages)
      /\ command' \in Commands
  <2>1. TypeOK /\ held \in Available /\ Head(held[1]).type = "request"
      BY DEF HandlerInv, Frames
  <2>2. /\ held[2] \in Seq(ClientMessages)
        /\ Tail(held[1]) \in Seq(ClientMessages)
        /\ Head(held[1]) \in ClientMessages
      BY <2>1, AvailableType
  <2>3. Head(held[1]).command \in Commands
      BY <2>1, <2>2, MessageFields
  <2>4. QED
      BY <1>1, <2>2, <2>3 DEF Take
<1>3. /\ pc = "recv_request"
      /\ sockets' = {"downstream"}
      /\ UNCHANGED <<clientVars, offered, verified, wire, sockets>>
    BY DEF RecvRequest, HandlerInv, SocketsMatch
<1>4. /\ Authorized'
      /\ offered' \subseteq OfferedMethods
      /\ verified' \in BOOLEAN
    BY <1>3 DEF HandlerInv, TypeOK, AccessMatches, Handling, Authorized, clientVars
<1>5. CASE command' # "UdpAssociate"
  <2>1. pc' \in {"bind", "connect"} /\ UNCHANGED endVars
      BY <1>5 DEF RecvRequest
  <2>2. TypeOK'
      BY <1>2, <1>3, <2>1 DEF HandlerInv, TypeOK, Handshake, clientVars, endVars
  <2>3. AccessMatches' /\ SocketsMatch'
      BY <1>3, <1>4, <2>1 DEF AccessMatches, SocketsMatch
  <2>4. QED
      BY <2>2, <2>3 DEF HandlerInv
<1>6. CASE command' = "UdpAssociate"
  <2>1. Reject("CommandNotSupported", CommandNotSupported)
      BY <1>6 DEF RecvRequest
  <2>2. CommandNotSupported \in Ends /\ "CommandNotSupported" \in Replies \ {"Succeeded"}
      BY ErrorValues DEF Ends, Replies
  <2>3. QED
      BY <1>2, <1>3, <1>4, <2>1, <2>2, RejectInv
<1>7. QED
    BY <1>5, <1>6

\* Every way in which a connect, a bind or an accept fails.
LEMMA FailuresInv ==
    ASSUME HandlerInv,
           ConnectFails \/ ConnectTimesOut \/ BindFails \/ AcceptFails \/ BindTimesOut
    PROVE  HandlerInv'
<1>1. PICK e \in Socks5Error : ErrorReply(e)
  <2>1. CASE ConnectFails
      BY <2>1, ConnectErrorsType DEF ConnectFails
  <2>2. CASE BindFails
    <3>1. Io("AddrNotAvailable") \in Socks5Error /\ Io("Other") \in Socks5Error
        BY ErrorValues DEF IoKinds
    <3>2. QED
        BY <2>2, <3>1 DEF BindFails
  <2>3. CASE AcceptFails
    <3>1. Io("Other") \in Socks5Error
        BY ErrorValues DEF IoKinds
    <3>2. QED
        BY <2>3, <3>1 DEF AcceptFails
  <2>4. CASE ConnectTimesOut \/ BindTimesOut
      BY <2>4, ErrorValues DEF ConnectTimesOut, BindTimesOut
  <2>5. QED
      BY <2>1, <2>2, <2>3, <2>4
<1>2. /\ pc \in {"connect", "bind", "accept"}
      /\ sockets' \in {sockets, sockets \cup {"listener"}}
      /\ pc # "bind" => sockets' = sockets
      /\ UNCHANGED <<readVars, clientVars, dialogVars, wire>>
    BY DEF ConnectFails, ConnectTimesOut, BindFails, AcceptFails, BindTimesOut
<1>3. QED
    BY <1>1, <1>2, ErrorReplyInv

\* What the task comes to own it owns for a client it has authorized.
LEMMA AcquiresInv ==
    ASSUME HandlerInv, Connects \/ BindListens \/ PeerConnects
    PROVE  HandlerInv'
<1>1. /\ pc \in {"connect", "bind", "accept"}
      /\ UNCHANGED <<readVars, clientVars, dialogVars, wire, endVars>>
    BY DEF Connects, BindListens, PeerConnects
<1>2. /\ pc' \in {"send_connected", "send_first", "send_second"}
      /\ sockets' = IF pc' = "send_first" THEN {"downstream", "listener"}
                                        ELSE {"downstream", "upstream"}
    BY DEF Connects, BindListens, PeerConnects, HandlerInv, SocketsMatch
<1>3. TypeOK'
    BY <1>1, <1>2 DEF HandlerInv, TypeOK, Handshake, Sending, readVars, clientVars, dialogVars,
       endVars
<1>4. Authorized'
    BY <1>1 DEF HandlerInv, AccessMatches, Handling, Authorized, clientVars, dialogVars
<1>5. AccessMatches' /\ SocketsMatch'
    BY <1>2, <1>4 DEF AccessMatches, SocketsMatch
<1>6. QED
    BY <1>3, <1>5 DEF HandlerInv

\* A success that is sent.
LEMMA SuccessesInv ==
    ASSUME HandlerInv, SendConnected \/ SendFirst \/ SendSecond
    PROVE  HandlerInv'
<1>1. /\ pc \in {"send_connected", "send_first", "send_second"}
      /\ Send(pc, "Succeeded")
      /\ UNCHANGED <<rx, clientVars, dialogVars, endVars, sockets>>
      /\ pc' = IF pc = "send_first" THEN "accept" ELSE "relay"
    BY DEF SendConnected, SendFirst, SendSecond, Send, Tunnel, readVars
<1>2. wire' \in Seq(ServerMessages)
    BY <1>1, SendType, ServerMessagesHave DEF HandlerInv
<1>3. buffer' \in Seq(ClientMessages)
  <2>1. <<>> \in Seq(ClientMessages)
      OBVIOUS
  <2>2. QED
      BY <2>1 DEF SendConnected, SendFirst, SendSecond, Tunnel, readVars, HandlerInv, TypeOK
<1>4. TypeOK'
    BY <1>1, <1>2, <1>3 DEF HandlerInv, TypeOK, Handshake, clientVars, dialogVars, endVars
<1>5. Authorized'
    BY <1>1 DEF HandlerInv, AccessMatches, Handling, Authorized, clientVars, dialogVars
<1>6. AccessMatches'
    BY <1>1, <1>5 DEF AccessMatches
<1>7. SocketsMatch'
    BY <1>1 DEF HandlerInv, SocketsMatch
<1>8. QED
    BY <1>4, <1>6, <1>7 DEF HandlerInv

LEMMA SendFinalInv == HandlerInv /\ SendFinal => HandlerInv'
<1> SUFFICES ASSUME HandlerInv, SendFinal PROVE HandlerInv'
    OBVIOUS
<1>1. /\ pc = "send_final" /\ pc' = "shutdown"
      /\ UNCHANGED <<readVars, clientVars, dialogVars, endVars, sockets>>
    BY DEF SendFinal
<1>2. outgoing \in ServerMessages
    BY <1>1 DEF HandlerInv, TypeOK, ServerMessages
<1>3. wire' \in Seq(ServerMessages)
    BY <1>2 DEF SendFinal, HandlerInv, TypeOK
<1>4. TypeOK'
    BY <1>1, <1>3 DEF HandlerInv, TypeOK, Handshake, readVars, clientVars, dialogVars, endVars
<1>5. AccessMatches' /\ SocketsMatch'
    BY <1>1 DEF HandlerInv, AccessMatches, SocketsMatch, Handling, Authorized, clientVars, dialogVars
<1>6. QED
    BY <1>4, <1>5 DEF HandlerInv

LEMMA NextInv == HandlerInv /\ [Next]_vars => HandlerInv'
<1> SUFFICES ASSUME HandlerInv, [Next]_vars PROVE HandlerInv'
    OBVIOUS
<1>1. CASE Client \/ ServerShutsDown \/ Terminated \/ UNCHANGED vars
    BY <1>1, EnvironmentInv DEF Client, Terminated
<1>2. CASE Network \/ RuntimeDrops
    BY <1>2, AcquiresInv, FailuresInv, EndsInv DEF Network
<1>3. CASE Task
    BY <1>3, RecvGreetingInv, SendMethodInv, RecvAuthInv, SendStatusInv, RecvRequestInv, EndsInv,
       SuccessesInv, AcquiresInv, FailuresInv, SendFinalInv DEF Task
<1>4. QED
    BY <1>1, <1>2, <1>3 DEF Next

-----------------------------------------------------------------------------
(* The theorems.                                                           *)

\* At every await the task knows of the client, and owns, what it must: the
\* dialogue has authorized what is being handled, and every socket that was
\* opened is released by the return of the task (state.rs, all of the phases).
THEOREM HandlerInvTheorem == Spec => []HandlerInv
<1>1. Init => HandlerInv
    BY InitInv
<1>2. HandlerInv /\ [Next]_vars => HandlerInv'
    BY NextInv
<1>3. QED
    BY <1>1, <1>2, PTL DEF Spec

\* No client makes the server connect, bind or accept without valid credentials
\* or the leave of the configuration (state.rs:264-277, 303-318, 366-404), whatever it
\* sends, in whatever pieces, and whenever it leaves.
THEOREM AuthorizedOnlyTheorem == Spec => []AuthorizedOnly
<1>1. HandlerInv => AuthorizedOnly
  <2> SUFFICES ASSUME HandlerInv,
                      pc \in {"connect", "bind", "relay"} \/ {"upstream", "listener"} \cap sockets # {}
               PROVE  Authorized
      BY DEF AuthorizedOnly
  <2>1. CASE pc \in Handling \/ "listener" \in sockets
      BY <2>1 DEF HandlerInv, AccessMatches
  <2>2. CASE pc \notin Handling /\ "listener" \notin sockets
    <3>1. sockets \subseteq {"downstream"} /\ pc \notin {"connect", "bind", "relay"}
        BY <2>2 DEF HandlerInv, SocketsMatch, Handling
    <3>2. QED
        BY <3>1
  <2>3. QED
      BY <2>1, <2>2
<1>2. QED
    BY <1>1, HandlerInvTheorem, PTL

-----------------------------------------------------------------------------
(* What is told.                                                           *)

\* A success that was told last is backed by an open socket.
Backed == (pc # "closed" /\ wire # <<>> /\ wire[Len(wire)] = "Succeeded")
              => {"upstream", "listener"} \cap sockets # {}

\* What was backed stays backed as long as nothing is told or dropped.
LEMMA BackedQuiet ==
    ASSUME Backed, UNCHANGED wire, pc # "closed" \/ pc' = "closed",
           \/ pc' = "closed"
           \/ sockets \subseteq sockets'
           \/ "upstream" \in sockets'
    PROVE  Backed'
BY DEF Backed

LEMMA LastSent ==
    ASSUME TypeOK, NEW at, NEW m, Send(at, m)
    PROVE  wire'[Len(wire')] = m
<1>1. wire \in Seq(ServerMessages) /\ wire' = Append(wire, m)
    BY DEF TypeOK, Send
<1>2. QED
    BY <1>1

LEMMA NextBacked == HandlerInv /\ Backed /\ [Next]_vars => Backed'
<1> SUFFICES ASSUME HandlerInv, Backed, [Next]_vars PROVE Backed'
    OBVIOUS
<1>1. CASE Client \/ ServerShutsDown \/ Terminated \/ UNCHANGED vars
    BY <1>1 DEF Client, ClientSends, ClientShutsDown, ClientResets, ServerShutsDown, Terminated,
       vars, Backed
<1>2. CASE \/ RecvMalformed \/ RecvEnds \/ SendFails \/ ShutdownStream \/ ConnectPanics
           \/ ShutdownCancels \/ RuntimeDrops \/ RelayEnds
  <2>1. pc' = "closed"
      BY <1>2 DEF RecvMalformed, RecvEnds, SendFails, ShutdownStream, ConnectPanics,
         ShutdownCancels, RuntimeDrops, RelayEnds, Close
  <2>2. QED
      BY <2>1 DEF Backed
<1>3. CASE \/ RecvGreeting \/ RecvAuth \/ RecvRequest \/ Connects \/ BindListens \/ PeerConnects
           \/ ConnectFails \/ ConnectTimesOut \/ BindFails \/ AcceptFails \/ BindTimesOut
  <2>1. UNCHANGED wire /\ pc # "closed"
      BY <1>3 DEF RecvGreeting, RecvAuth, RecvRequest, Connects, BindListens, PeerConnects,
         ConnectFails, ConnectTimesOut, BindFails, AcceptFails, BindTimesOut
  <2>2. sockets \subseteq sockets' \/ "upstream" \in sockets'
      BY <1>3 DEF RecvGreeting, RecvAuth, RecvRequest, Connects, BindListens, PeerConnects,
         ConnectFails, ConnectTimesOut, BindFails, AcceptFails, BindTimesOut
  <2>3. QED
      BY <2>1, <2>2, BackedQuiet
<1>4. CASE SendMethod \/ SendStatus
  <2>1. PICK m \in {"UsernamePassword", "NoAuthenticationRequired", "Success"} :
            Send("send_method", m) \/ Send("send_status", m)
      BY <1>4 DEF SendMethod, SendStatus
  <2>2. wire'[Len(wire')] # "Succeeded"
      BY <2>1, LastSent DEF HandlerInv
  <2>3. QED
      BY <2>2 DEF Backed
<1>5. CASE SendConnected \/ SendFirst \/ SendSecond
    BY <1>5 DEF SendConnected, SendFirst, SendSecond, Send, HandlerInv, SocketsMatch, Backed
<1>6. CASE SendFinal
  <2>1. CASE wire' = wire
      BY <1>6, <2>1, BackedQuiet DEF SendFinal
  <2>2. CASE wire' = Append(wire, outgoing)
    <3>1. wire \in Seq(ServerMessages) /\ outgoing # "Succeeded"
        BY DEF HandlerInv, TypeOK
    <3>2. wire'[Len(wire')] = outgoing
        BY <2>2, <3>1
    <3>3. QED
        BY <3>1, <3>2 DEF Backed
  <2>3. QED
      BY <1>6, <2>1, <2>2 DEF SendFinal
<1>7. QED
    BY <1>1, <1>2, <1>3, <1>4, <1>5, <1>6 DEF Next, Network, Task

\* No client is told of a success that is not there, and a BIND has released its
\* port before the client learns who connected (state.rs:481-497, 581-604).
THEOREM SuccessIsTrueTheorem == Spec => []SuccessIsTrue
<1>1. Init => Backed
    BY DEF Init, Backed
<1>2. HandlerInv /\ Backed /\ [Next]_vars => Backed'
    BY NextBacked
<1>3. HandlerInv /\ Backed => SuccessIsTrue
  <2> SUFFICES ASSUME HandlerInv, Backed PROVE SuccessIsTrue
      OBVIOUS
  <2>1. pc = "relay" => sockets = {"downstream", "upstream"}
      BY DEF HandlerInv, SocketsMatch
  <2>2. pc = "send_second" => "listener" \notin sockets
      BY DEF HandlerInv, SocketsMatch
  <2>3. QED
      BY <2>1, <2>2 DEF SuccessIsTrue, Backed
<1>4. QED
    BY <1>1, <1>2, <1>3, HandlerInvTheorem, PTL DEF Spec
=============================================================================
