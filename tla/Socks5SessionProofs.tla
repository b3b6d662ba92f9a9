------------------------- MODULE Socks5SessionProofs ------------------------
(***************************************************************************)
(* Theorems about what module Socks5Handler tells its client: that the     *)
(* dialogue is one of module Socks5Session, and that a rejection is told.  *)
(***************************************************************************)
EXTENDS Socks5HandlerProofs

USE HandlerAssumption

-----------------------------------------------------------------------------
(* The dialogues.                                                          *)

\* What was said when access was granted, and after each success.
Granted == {<<"NoAuthenticationRequired">>, <<"UsernamePassword", "Success">>}
Once    == {<<"NoAuthenticationRequired", "Succeeded">>,
            <<"UsernamePassword", "Success", "Succeeded">>}
Twice   == {<<"NoAuthenticationRequired", "Succeeded", "Succeeded">>,
            <<"UsernamePassword", "Success", "Succeeded", "Succeeded">>}

\* Sequences of the same length with the same members are the same.
LEMMA Appended ==
    ASSUME NEW S, NEW s \in Seq(S), NEW m \in S, NEW t \in Seq(S),
           Len(t) = Len(s) + 1,
           \A i \in 1..Len(s) : t[i] = s[i],
           t[Len(s) + 1] = m
    PROVE  Append(s, m) = t
<1>1. /\ Append(s, m) \in Seq(S)
      /\ Len(Append(s, m)) = Len(t)
      /\ Len(s) \in Nat
      /\ \A i \in 1..Len(t) : Append(s, m)[i] = t[i]
    OBVIOUS
<1>2. QED
    BY <1>1, SeqEqual

LEMMA Dialogues ==
    /\ \A a \in ServerMessages : Append(<<>>, a) = <<a>>
    /\ \A a, b \in ServerMessages : Append(<<a>>, b) = <<a, b>>
    /\ \A a, b, c \in ServerMessages : Append(<<a, b>>, c) = <<a, b, c>>
    /\ \A a, b, c, d \in ServerMessages : Append(<<a, b, c>>, d) = <<a, b, c, d>>
<1> DEFINE S == ServerMessages
<1>1. ASSUME NEW a \in S
      PROVE  Append(<<>>, a) = <<a>>
    BY Appended
<1>2. ASSUME NEW a \in S, NEW b \in S
      PROVE  Append(<<a>>, b) = <<a, b>>
  <2> DEFINE s == <<a>>
             t == <<a, b>>
  <2>1. /\ s \in Seq(S) /\ Len(s) = 1 /\ s[1] = a
        /\ t \in Seq(S) /\ Len(t) = 2 /\ t[1] = a /\ t[2] = b
      OBVIOUS
  <2> HIDE DEF s, t
  <2>2. /\ \A i \in 1..Len(s) : t[i] = s[i]
        /\ Len(t) = Len(s) + 1 /\ t[Len(s) + 1] = b
      BY <2>1
  <2>3. Append(s, b) = t
      BY <2>1, <2>2, Appended, Zenon
  <2>4. QED
      BY <2>3 DEF s, t
<1>3. ASSUME NEW a \in S, NEW b \in S, NEW c \in S
      PROVE  Append(<<a, b>>, c) = <<a, b, c>>
  <2> DEFINE s == <<a, b>>
             t == <<a, b, c>>
  <2>1. /\ s \in Seq(S) /\ Len(s) = 2 /\ s[1] = a /\ s[2] = b
        /\ t \in Seq(S) /\ Len(t) = 3 /\ t[1] = a /\ t[2] = b /\ t[3] = c
      OBVIOUS
  <2> HIDE DEF s, t
  <2>2. \A i \in 1..Len(s) : t[i] = s[i]
    <3>1. \A i \in 1..2 : i = 1 \/ i = 2
        OBVIOUS
    <3>2. QED
        BY <2>1, <3>1
  <2>3. Len(t) = Len(s) + 1 /\ t[Len(s) + 1] = c
      BY <2>1
  <2>4. Append(s, c) = t
      BY <2>1, <2>2, <2>3, Appended, Zenon
  <2>5. QED
      BY <2>4 DEF s, t
<1>4. ASSUME NEW a \in S, NEW b \in S, NEW c \in S, NEW d \in S
      PROVE  Append(<<a, b, c>>, d) = <<a, b, c, d>>
  <2> DEFINE s == <<a, b, c>>
             t == <<a, b, c, d>>
  <2>1. /\ s \in Seq(S) /\ Len(s) = 3 /\ s[1] = a /\ s[2] = b /\ s[3] = c
        /\ t \in Seq(S) /\ Len(t) = 4 /\ t[1] = a /\ t[2] = b /\ t[3] = c /\ t[4] = d
      OBVIOUS
  <2> HIDE DEF s, t
  <2>2. \A i \in 1..Len(s) : t[i] = s[i]
    <3>1. \A i \in 1..3 : i = 1 \/ i = 2 \/ i = 3
        OBVIOUS
    <3>2. QED
        BY <2>1, <3>1
  <2>3. Len(t) = Len(s) + 1 /\ t[Len(s) + 1] = d
      BY <2>1
  <2>4. Append(s, d) = t
      BY <2>1, <2>2, <2>3, Appended, Zenon
  <2>5. QED
      BY <2>4 DEF s, t
<1>5. QED
    BY <1>1, <1>2, <1>3, <1>4

\* The same for what the session says, where a success is put behind the access.
LEMMA Concatenated ==
    ASSUME NEW s \in Seq(ServerMessages), NEW m \in ServerMessages
    PROVE  /\ s \o <<>> = s
           /\ s \o <<m>> = Append(s, m)
           /\ s \o <<m, m>> = Append(Append(s, m), m)
<1> DEFINE S == ServerMessages
<1>1. \A t \in Seq(S) : t \o <<m>> = Append(t, m)
  <2> TAKE t \in Seq(S)
  <2>1. <<m>> \in Seq(S) /\ Len(<<m>>) = 1 /\ <<m>>[1] = m
      OBVIOUS
  <2>2. /\ t \o <<m>> \in Seq(S)
        /\ Len(t \o <<m>>) = Len(t) + 1
        /\ \A i \in 1..Len(t) + 1 : (t \o <<m>>)[i] = IF i <= Len(t) THEN t[i] ELSE <<m>>[i - Len(t)]
      BY <2>1, ConcatProperties
  <2>3. Len(t) \in Nat
      OBVIOUS
  <2>4. (t \o <<m>>)[Len(t) + 1] = m
      BY <2>1, <2>2, <2>3
  <2>5. \A i \in 1..Len(t) : (t \o <<m>>)[i] = t[i]
      BY <2>2, <2>3
  <2>6. QED
      BY <2>2, <2>4, <2>5, Appended
<1>2. s \o <<>> = s
    BY ConcatEmptySeq
<1>3. s \o <<m, m>> = Append(Append(s, m), m)
  <2>1. <<m>> \in Seq(S) /\ <<m, m>> = Append(<<m>>, m)
      BY Dialogues
  <2>2. <<m, m>> = <<m>> \o <<m>>
      BY <1>1, <2>1
  <2>3. s \o <<m, m>> = (s \o <<m>>) \o <<m>>
      BY <2>1, <2>2, ConcatAssociative
  <2>4. s \o <<m>> \in Seq(S) /\ s \o <<m>> = Append(s, m)
      BY <1>1, <2>1, ConcatProperties
  <2>5. QED
      BY <1>1, <2>3, <2>4
<1>4. QED
    BY <1>1, <1>2, <1>3

LEMMA Prefixes ==
    ASSUME NEW S, NEW a \in S, NEW b \in S
    PROVE  /\ SubSeq(<<>>, 1, 0) = <<>>
           /\ SubSeq(<<a>>, 1, 0) = <<>>
           /\ SubSeq(<<a>>, 1, 1) = <<a>>
           /\ SubSeq(<<a, b>>, 1, 0) = <<>>
           /\ SubSeq(<<a, b>>, 1, 1) = <<a>>
           /\ SubSeq(<<a, b>>, 1, 2) = <<a, b>>
<1>1. /\ <<a>> \in Seq(S) /\ Len(<<a>>) = 1
      /\ <<a, b>> \in Seq(S) /\ Len(<<a, b>>) = 2
      /\ <<a, b>>[1] = a
      /\ <<a>>[1] = a
    OBVIOUS
<1>2. \A s : SubSeq(s, 1, 0) = <<>>
    BY SubSeqEmpty
<1>3. SubSeq(<<a>>, 1, 1) = <<a>> /\ SubSeq(<<a, b>>, 1, 2) = <<a, b>>
    BY <1>1, SubSeqFull
<1>4. SubSeq(<<a, b>>, 1, 1) = <<a>>
  <2> DEFINE t == <<a, b>>
             u == <<a>>
  <2>1. /\ t \in Seq(S) /\ Len(t) = 2 /\ t[1] = a
        /\ u \in Seq(S) /\ Len(u) = 1 /\ u[1] = a
      OBVIOUS
  <2> HIDE DEF t, u
  <2>2. /\ SubSeq(t, 1, 1) \in Seq(S)
        /\ Len(SubSeq(t, 1, 1)) = 1
        /\ SubSeq(t, 1, 1)[1] = a
      BY <2>1
  <2>3. SubSeq(t, 1, 1) = u
      BY <2>1, <2>2, SeqEqual
  <2>4. QED
      BY <2>3 DEF t, u
<1>5. QED
    BY <1>2, <1>3, <1>4
\* How the dialogue goes on from where it can be.
LEMMA SaidNext ==
    ASSUME NEW m \in ServerMessages
    PROVE  /\ wire = <<>> => Append(wire, m) = <<m>>
           /\ wire = <<"UsernamePassword">> => Append(wire, m) = <<"UsernamePassword", m>>
           /\ wire \in Granted =>
                 Append(wire, m) \in {<<"NoAuthenticationRequired", m>>,
                                     <<"UsernamePassword", "Success", m>>}
           /\ wire \in Once =>
                 Append(wire, m) \in {<<"NoAuthenticationRequired", "Succeeded", m>>,
                                     <<"UsernamePassword", "Success", "Succeeded", m>>}
<1>1. {"UsernamePassword", "NoAuthenticationRequired", "Success", "Succeeded"} \subseteq ServerMessages
    BY ServerMessagesHave
<1>2. /\ Append(<<>>, m) = <<m>>
      /\ Append(<<"UsernamePassword">>, m) = <<"UsernamePassword", m>>
      /\ Append(<<"NoAuthenticationRequired">>, m) = <<"NoAuthenticationRequired", m>>
    BY <1>1, Dialogues, Zenon
<1>3. /\ Append(<<"UsernamePassword", "Success">>, m) = <<"UsernamePassword", "Success", m>>
      /\ Append(<<"NoAuthenticationRequired", "Succeeded">>, m)
            = <<"NoAuthenticationRequired", "Succeeded", m>>
    BY <1>1, Dialogues, Zenon
<1>4. Append(<<"UsernamePassword", "Success", "Succeeded">>, m)
          = <<"UsernamePassword", "Success", "Succeeded", m>>
  <2>1. \A a, b, c, d \in ServerMessages : Append(<<a, b, c>>, d) = <<a, b, c, d>>
      BY Dialogues, Zenon
  <2>2. /\ "UsernamePassword" \in ServerMessages
        /\ "Success" \in ServerMessages
        /\ "Succeeded" \in ServerMessages
      BY <1>1
  <2>3. QED
      BY <2>1, <2>2, Zenon
<1>5. QED
    BY <1>2, <1>3, <1>4 DEF Granted, Once

LEMMA GrantedType ==
    /\ Granted \cup Once \cup Twice \cup {<<>>, <<"UsernamePassword">>} \subseteq Seq(ServerMessages)
    /\ \A a \in Granted : Append(a, "Succeeded") \in Once
    /\ \A a \in Once : Append(a, "Succeeded") \in Twice
<1>1. /\ \A x \in ServerMessages : <<x>> \in Seq(ServerMessages)
      /\ \A x, y \in ServerMessages : <<x, y>> \in Seq(ServerMessages)
      /\ \A x, y, z \in ServerMessages : <<x, y, z>> \in Seq(ServerMessages)
      /\ \A x, y, z, w \in ServerMessages : <<x, y, z, w>> \in Seq(ServerMessages)
      /\ <<>> \in Seq(ServerMessages)
    OBVIOUS
<1>2. Granted \cup Once \cup Twice \cup {<<>>, <<"UsernamePassword">>} \subseteq Seq(ServerMessages)
    BY <1>1, ServerMessagesHave DEF Granted, Once, Twice
<1>3. /\ \A a \in Granted : Append(a, "Succeeded") \in Once
      /\ \A a \in Once : Append(a, "Succeeded") \in Twice
    BY ServerMessagesHave, Dialogues DEF Granted, Once, Twice
<1>4. QED
    BY <1>2, <1>3

-----------------------------------------------------------------------------
(* The same in the words of Socks5Session.                                 *)

LEMMA AccessWords == Session!Access = Granted
BY DEF Session!Access, Granted

Completed ==
    \/ command = "Bind" /\ wire \in Twice
    \/ command \in {"ConnectIp", "ConnectDomain"} /\ wire \in Once
    \/ command \notin Commands /\ wire \in Granted

LEMMA CompletedWords == Session!Complete <=> Completed
<1>1. \A a \in Granted : /\ a \o <<>> = a
                          /\ a \o <<"Succeeded">> = Append(a, "Succeeded")
                          /\ a \o <<"Succeeded", "Succeeded">> = Append(Append(a, "Succeeded"), "Succeeded")
    BY GrantedType, ServerMessagesHave, Concatenated
<1>2. /\ {Append(a, "Succeeded") : a \in Granted} = Once
      /\ {Append(Append(a, "Succeeded"), "Succeeded") : a \in Granted} = Twice
    BY ServerMessagesHave, Dialogues DEF Granted, Once, Twice
<1>3. QED
    BY AccessWords, <1>1, <1>2 DEF Completed, Session!Complete, Session!Successes, Commands

LEMMA CompletedWordsNext == Session!Complete' <=> Completed'
BY CompletedWords, PTL

LEMMA Distinct == Once \cap Twice = {}
BY DEF Once, Twice

\* The phase the refinement mapping gives the session.
Phase == CASE pc \in {"recv_greeting", "send_method", "recv_auth", "send_status"} -> "negotiate"
           [] pc \in {"send_final", "shutdown"} /\ command = "none" -> "negotiate"
           [] pc \in {"relay", "closed"} -> pc
           [] OTHER -> "handle"

LEMMA SayInNegotiationStep ==
    ASSUME NEW m,
           \/ wire = <<>> /\ m \in Session!Methods
           \/ wire = <<"UsernamePassword">> /\ m \in Session!Statuses,
           Phase = "negotiate",
           Phase' = IF wire' \in Granted THEN "handle" ELSE "negotiate",
           wire' = Append(wire, m), command' = command
    PROVE  Session!Next
<1>1. m \in Session!Methods \cup Session!Statuses
    OBVIOUS
<1>2. Session!SayInNegotiation(m)
    BY DEF Session!SayInNegotiation, Session!MethodOrStatus, Session!Access, Granted, Phase
<1>3. QED
    BY <1>1, <1>2 DEF Session!Next

LEMMA AcceptRequestStep ==
    ASSUME wire \in Granted, wire' = wire,
           command = "none", command' \in Commands,
           Phase = "handle", Phase' = "handle"
    PROVE  Session!Next
<1>1. command' \in Session!Commands
    BY DEF Session!Commands, Commands
<1>2. Session!AcceptRequest(command')
    BY AccessWords DEF Session!AcceptRequest, Session!Granted, Phase
<1>3. QED
    BY <1>1, <1>2 DEF Session!Next

\* What may be replied: a failure at any time, a success while one is due.
LEMMA ReplyAllowed ==
    ASSUME NEW m,
           \/ wire \in Granted /\ m \in Session!Failures
           \/ wire \in Granted /\ m = "Succeeded" /\ command \in {"ConnectIp", "ConnectDomain", "Bind"}
           \/ wire \in Once /\ command = "Bind" /\ m \in Session!Failures \cup {"Succeeded"}
    PROVE  Session!Reply(m)
<1> DEFINE succeeded == Session!Successes(command)
<1>1. /\ succeeded \in Seq(ServerMessages) /\ SubSeq(succeeded, 1, 0) = <<>>
      /\ Len(succeeded) = IF command = "Bind" THEN 2
                         ELSE IF command \in {"ConnectIp", "ConnectDomain"} THEN 1 ELSE 0
      /\ command = "Bind" => SubSeq(succeeded, 1, 1) = <<"Succeeded">>
    BY ServerMessagesHave, Prefixes DEF Session!Successes
<1>2. CASE wire \in Granted
  <2>1. wire = wire \o SubSeq(succeeded, 1, 0)
      BY <1>1, <1>2, GrantedType, ConcatEmptySeq
  <2>2. 0 \in 0..Len(succeeded) /\ (m = "Succeeded" => 0 < Len(succeeded) \/ m \in Session!Failures)
      BY <1>1, <1>2 DEF Granted, Once
  <2>3. QED
      BY <1>2, <2>1, <2>2, AccessWords DEF Session!Reply
<1>3. CASE wire \in Once /\ command = "Bind"
  <2>1. PICK a \in Granted : wire = a \o SubSeq(succeeded, 1, 1)
    <3>1. PICK a \in Granted : wire = Append(a, "Succeeded")
        BY <1>3, ServerMessagesHave, Dialogues DEF Granted, Once
    <3>2. QED
        BY <1>1, <1>3, <3>1, GrantedType, ServerMessagesHave, Concatenated
  <2>2. 1 \in 0..Len(succeeded) /\ 1 < Len(succeeded)
      BY <1>1, <1>3
  <2>3. QED
      BY <1>3, <2>1, <2>2, AccessWords DEF Session!Reply
<1>4. QED
    BY <1>2, <1>3

LEMMA SayInHandlingStep ==
    ASSUME NEW m \in Session!Failures \cup {"Succeeded"},
           Session!Reply(m),
           command # "none", command' = command,
           wire' = Append(wire, m),
           Phase = "handle",
           Phase' = IF Session!Complete' THEN "relay" ELSE "handle"
    PROVE  Session!Next
<1>1. Session!SayInHandling(m)
    BY DEF Session!SayInHandling, Phase
<1>2. QED
    BY <1>1 DEF Session!Next

LEMMA EndStep ==
    ASSUME Phase # "closed", Phase' = "closed", UNCHANGED <<command, wire>>
    PROVE  Session!Next
<1>1. Session!End
    BY DEF Session!End, Phase
<1>2. QED
    BY <1>1 DEF Session!Next

LEMMA Stutter ==
    ASSUME Phase' = Phase, UNCHANGED <<command, wire>>
    PROVE  UNCHANGED Session!sessionVars
BY DEF Session!sessionVars, Phase

-----------------------------------------------------------------------------
(* What was said at an await, and the last message of a rejection.         *)

FinalMatches ==
    \/ command = "none" /\ wire = <<>> /\ outgoing = "NoAcceptableMethods"
    \/ command = "none" /\ wire = <<"UsernamePassword">> /\ outgoing = "Failure"
    \/ command \in Commands /\ wire \in Granted /\ outgoing \in Session!Failures
    \/ command = "Bind" /\ wire \in Once /\ outgoing \in Session!Failures

DialogueMatches ==
    /\ wire \in
         CASE pc \in {"recv_greeting", "send_method"} -> {<<>>}
           [] pc \in {"recv_auth", "send_status"} -> {<<"UsernamePassword">>}
           [] pc \in {"recv_request", "connect", "bind", "send_connected", "send_first"} -> Granted
           [] pc \in {"accept", "send_second"} -> Once
           [] OTHER -> Seq(ServerMessages)
    /\ command \in
         CASE pc \in {"connect", "send_connected"} -> {"ConnectIp", "ConnectDomain"}
           [] pc \in {"bind", "send_first", "accept", "send_second"} -> {"Bind"}
           [] pc \in {"send_final", "shutdown", "relay", "closed"} -> Commands \cup {"none"}
           [] OTHER -> {"none"}
    /\ pc = "send_final" => FinalMatches

LEMMA InitDialogue == Init => DialogueMatches /\ Session!Init
BY DEF Init, DialogueMatches, Session!Init

Steps == DialogueMatches' /\ [Session!Next]_(Session!sessionVars)

\* The client and the signal say nothing for the server.
LEMMA EnvironmentSteps ==
    ASSUME HandlerInv, DialogueMatches,
           Client \/ ServerShutsDown \/ Terminated \/ UNCHANGED vars
    PROVE  Steps
<1>1. UNCHANGED <<pc, command, wire, outgoing>>
    BY DEF Client, ClientSends, ClientShutsDown, ClientResets, ServerShutsDown, Terminated, vars,
       clientVars, readVars, dialogVars, endVars
<1>2. Phase' = Phase
    BY <1>1 DEF Phase
<1>3. QED
    BY <1>1, <1>2, Stutter DEF DialogueMatches, FinalMatches, Steps

LEMMA EndSteps ==
    ASSUME HandlerInv, DialogueMatches,
           RecvMalformed \/ RecvEnds \/ SendFails \/ ShutdownStream \/ ConnectPanics
               \/ ShutdownCancels \/ RuntimeDrops \/ RelayEnds
    PROVE  Steps
<1>1. pc # "closed" /\ pc' = "closed" /\ UNCHANGED <<command, wire>>
    BY DEF RecvMalformed, RecvEnds, SendFails, ShutdownStream, ConnectPanics, ShutdownCancels,
       RuntimeDrops, RelayEnds, Close, Receiving, Sending, Handshake, dialogVars
<1>2. Phase # "closed" /\ Phase' = "closed"
    BY <1>1 DEF Phase
<1>3. DialogueMatches'
    BY <1>1 DEF DialogueMatches, HandlerInv, TypeOK
<1>4. QED
    BY <1>1, <1>2, <1>3, EndStep DEF Steps

LEMMA NegotiationSteps ==
    ASSUME HandlerInv, DialogueMatches, RecvGreeting \/ RecvAuth
    PROVE  Steps
<1>1. /\ UNCHANGED <<command, wire>>
      /\ \/ pc = "recv_greeting" /\ pc' = "send_method"
         \/ pc = "recv_greeting" /\ pc' = "send_final" /\ outgoing' = "NoAcceptableMethods"
         \/ pc = "recv_auth" /\ pc' = "send_status"
         \/ pc = "recv_auth" /\ pc' = "send_final" /\ outgoing' = "Failure"
    BY DEF RecvGreeting, RecvAuth, Reject
<1>2. Phase' = Phase
    BY <1>1 DEF Phase, DialogueMatches
<1>3. DialogueMatches'
    BY <1>1 DEF DialogueMatches, FinalMatches, HandlerInv, TypeOK
<1>4. QED
    BY <1>1, <1>2, <1>3, Stutter DEF Steps

LEMMA GrantSteps ==
    ASSUME HandlerInv, DialogueMatches, SendMethod \/ SendStatus
    PROVE  Steps
<1>1. PICK m \in {"UsernamePassword", "NoAuthenticationRequired", "Success"} :
        /\ wire' = Append(wire, m) /\ command' = command
        /\ \/ pc = "send_method" /\ pc' = "recv_auth" /\ m = "UsernamePassword"
           \/ pc = "send_method" /\ pc' = "recv_request" /\ m = "NoAuthenticationRequired"
           \/ pc = "send_status" /\ pc' = "recv_request" /\ m = "Success"
    BY DEF SendMethod, SendStatus, Send, dialogVars
<1>2. wire' = IF pc = "send_method" THEN <<m>> ELSE <<"UsernamePassword", m>>
    BY <1>1, SaidNext, ServerMessagesHave DEF DialogueMatches
<1>3. /\ \/ wire = <<>> /\ m \in Session!Methods
         \/ wire = <<"UsernamePassword">> /\ m \in Session!Statuses
      /\ Phase = "negotiate"
      /\ Phase' = IF wire' \in Granted THEN "handle" ELSE "negotiate"
    BY <1>1, <1>2 DEF DialogueMatches, Session!Methods, Session!Statuses, Phase, Granted
<1>4. DialogueMatches'
    BY <1>1, <1>2 DEF DialogueMatches, Granted
<1>5. QED
    BY <1>1, <1>3, <1>4, SayInNegotiationStep DEF Steps

LEMMA RequestSteps == HandlerInv /\ HandlerInv' /\ DialogueMatches /\ RecvRequest => Steps
<1> SUFFICES ASSUME HandlerInv, HandlerInv', DialogueMatches, RecvRequest PROVE Steps
    OBVIOUS
<1>1. /\ pc = "recv_request" /\ wire' = wire
      /\ \/ command' = "Bind" /\ pc' = "bind"
         \/ /\ command' = "UdpAssociate" /\ pc' = "send_final"
            /\ outgoing' = "CommandNotSupported"
         \/ command' \notin {"Bind", "UdpAssociate"} /\ pc' = "connect"
    BY DEF RecvRequest, Reject
<1>2. command' \in Commands
  <2>1. PICK held \in Frames("request") : command' = Head(held[1]).command
      BY DEF RecvRequest
  <2>2. TypeOK /\ held \in Available /\ Head(held[1]).type = "request"
      BY <2>1 DEF HandlerInv, Frames
  <2>3. QED
      BY <2>1, <2>2, AvailableType, MessageFields
<1>3. command = "none" /\ wire \in Granted /\ Phase = "handle" /\ Phase' = "handle"
    BY <1>1, <1>2 DEF DialogueMatches, Phase, Commands
<1>4. DialogueMatches'
    BY <1>1, <1>2, <1>3 DEF DialogueMatches, FinalMatches, HandlerInv, TypeOK, Commands,
       Session!Failures
<1>5. QED
    BY <1>1, <1>2, <1>3, <1>4, AcceptRequestStep DEF Steps

\* What connects, listens or fails is silent.
LEMMA HandlingSteps ==
    ASSUME HandlerInv, HandlerInv', DialogueMatches,
           \/ Connects \/ BindListens \/ PeerConnects
           \/ ConnectFails \/ ConnectTimesOut \/ BindFails \/ AcceptFails \/ BindTimesOut
    PROVE  Steps
<1>1. /\ UNCHANGED <<command, wire>>
      /\ \/ pc = "connect" /\ pc' = "send_connected"
         \/ pc = "bind" /\ pc' = "send_first"
         \/ pc = "accept" /\ pc' = "send_second"
         \/ /\ pc \in {"connect", "bind", "accept"} /\ pc' = "send_final"
            /\ \E e : outgoing' = ToReply(e)
    BY DEF Connects, BindListens, PeerConnects, ConnectFails, ConnectTimesOut, BindFails,
       AcceptFails, BindTimesOut, ErrorReply, Reject, dialogVars
<1>2. pc' = "send_final" => outgoing' \in Session!Failures
    BY <1>1, ToReplyFails DEF Session!Failures, Replies
<1>3. Phase' = Phase
    BY <1>1 DEF Phase, DialogueMatches
<1>4. DialogueMatches'
    BY <1>1, <1>2 DEF DialogueMatches, FinalMatches, HandlerInv, TypeOK, Commands
<1>5. QED
    BY <1>1, <1>3, <1>4, Stutter DEF Steps

\* A success is due, and the last of them starts the relay.
LEMMA SuccessSteps ==
    ASSUME HandlerInv, HandlerInv', DialogueMatches,
           SendConnected \/ SendFirst \/ SendSecond
    PROVE  Steps
<1>1. /\ wire' = Append(wire, "Succeeded") /\ command' = command
      /\ \/ pc = "send_connected" /\ pc' = "relay"
         \/ pc = "send_first" /\ pc' = "accept"
         \/ pc = "send_second" /\ pc' = "relay"
    BY DEF SendConnected, SendFirst, SendSecond, Send, Tunnel, dialogVars
<1>2. CASE pc \in {"send_connected", "send_first"}
  <2>1. wire \in Granted /\ command \in {"ConnectIp", "ConnectDomain", "Bind"}
      BY <1>2 DEF DialogueMatches
  <2>2. wire' \in Once /\ wire' \notin Twice
      BY <1>1, <2>1, GrantedType, Distinct
  <2>3. Session!Complete' <=> pc = "send_connected"
    <3>1. \/ command = "Bind" /\ pc = "send_first"
          \/ command \in {"ConnectIp", "ConnectDomain"} /\ pc = "send_connected"
        BY <1>2 DEF DialogueMatches
    <3>2. Session!Complete' <=> command \in {"ConnectIp", "ConnectDomain"}
        BY <1>1, <2>1, <2>2, CompletedWordsNext DEF Completed, Commands
    <3>3. QED
        BY <3>1, <3>2
  <2>4. Phase = "handle" /\ Phase' = IF Session!Complete' THEN "relay" ELSE "handle"
      BY <1>1, <1>2, <2>3 DEF Phase
  <2>5. DialogueMatches'
      BY <1>1, <1>2, <2>1, <2>2 DEF DialogueMatches, HandlerInv, TypeOK
  <2>6. Session!Reply("Succeeded") /\ command # "none"
      BY <2>1, ReplyAllowed
  <2>7. QED
      BY <1>1, <2>4, <2>5, <2>6, SayInHandlingStep DEF Steps
<1>3. CASE pc = "send_second"
  <2>1. wire \in Once /\ command = "Bind"
      BY <1>3 DEF DialogueMatches
  <2>2. wire' \in Twice
      BY <1>1, <2>1, GrantedType
  <2>3. Session!Complete'
      BY <1>1, <2>1, <2>2, CompletedWordsNext DEF Completed
  <2>4. Phase = "handle" /\ Phase' = "relay"
      BY <1>1, <1>3 DEF Phase
  <2>5. DialogueMatches'
      BY <1>1, <1>3, <2>1 DEF DialogueMatches, HandlerInv, TypeOK
  <2>6. Session!Reply("Succeeded") /\ command # "none"
      BY <2>1, ReplyAllowed
  <2>7. QED
      BY <1>1, <2>3, <2>4, <2>5, <2>6, SayInHandlingStep DEF Steps
<1>4. QED
    BY <1>1, <1>2, <1>3

\* The last message ends the dialogue, or is lost with the client.
LEMMA FinalSteps ==
    ASSUME HandlerInv, HandlerInv', DialogueMatches, SendFinal
    PROVE  Steps
<1>1. /\ pc = "send_final" /\ pc' = "shutdown" /\ command' = command
      /\ wire' = wire \/ wire' = Append(wire, outgoing)
    BY DEF SendFinal, dialogVars
<1>2. Phase' = Phase
    BY <1>1 DEF Phase
<1>3. DialogueMatches'
    BY <1>1 DEF DialogueMatches, FinalMatches, HandlerInv, TypeOK, Commands
<1>4. CASE wire' = wire
    BY <1>1, <1>2, <1>3, <1>4, Stutter DEF Steps
<1>5. CASE wire' = Append(wire, outgoing)
  <2>1. FinalMatches /\ outgoing \in ServerMessages
      BY <1>1 DEF DialogueMatches, HandlerInv, TypeOK, ServerMessages
  <2>2. CASE command = "none"
    <3>1. /\ \/ wire = <<>> /\ outgoing \in Session!Methods
             \/ wire = <<"UsernamePassword">> /\ outgoing \in Session!Statuses
          /\ outgoing \notin {"NoAuthenticationRequired", "Success"}
        BY <2>1, <2>2 DEF FinalMatches, Session!Methods, Session!Statuses, Commands
    <3>2. wire' \in {<<outgoing>>, <<"UsernamePassword", outgoing>>} /\ wire' \notin Granted
        BY <1>5, <2>1, <3>1, SaidNext DEF Granted
    <3>3. Phase = "negotiate"
        BY <1>1, <2>2 DEF Phase
    <3>4. QED
        BY <1>1, <1>2, <1>3, <1>5, <3>1, <3>2, <3>3, SayInNegotiationStep DEF Steps
  <2>3. CASE command # "none"
    <3>1. /\ outgoing \in Session!Failures /\ command \in Commands
          /\ wire \in Granted \/ (wire \in Once /\ command = "Bind")
        BY <2>1, <2>3 DEF FinalMatches, Commands
    <3>2. wire' \notin Granted \cup Once \cup Twice
      <4>1. outgoing \notin {"Success", "Succeeded"}
          BY <3>1 DEF Session!Failures
      <4>2. CASE wire \in Granted
          BY <1>5, <2>1, <4>1, <4>2, SaidNext DEF Granted, Once, Twice
      <4>3. CASE wire \in Once
          BY <1>5, <2>1, <4>1, <4>3, SaidNext DEF Granted, Once, Twice
      <4>4. QED
          BY <3>1, <4>2, <4>3
    <3>3. ~Session!Complete'
        BY <3>2, CompletedWordsNext DEF Completed
    <3>4. Phase = "handle"
        BY <1>1, <2>3 DEF Phase
    <3>5. Session!Reply(outgoing)
        BY <3>1, ReplyAllowed
    <3>6. QED
        BY <1>1, <1>2, <1>3, <1>5, <2>3, <3>1, <3>3, <3>4, <3>5, SayInHandlingStep DEF Steps
  <2>4. QED
      BY <2>2, <2>3
<1>6. QED
    BY <1>1, <1>4, <1>5

LEMMA NextSteps == HandlerInv /\ HandlerInv' /\ DialogueMatches /\ [Next]_vars => Steps
<1> SUFFICES ASSUME HandlerInv, HandlerInv', DialogueMatches, [Next]_vars PROVE Steps
    OBVIOUS
<1>1. CASE Client \/ ServerShutsDown \/ Terminated \/ UNCHANGED vars
    BY <1>1, EnvironmentSteps
<1>2. CASE Network \/ RuntimeDrops
    BY <1>2, HandlingSteps, EndSteps DEF Network
<1>3. CASE Task
    BY <1>3, NegotiationSteps, GrantSteps, RequestSteps, HandlingSteps, SuccessSteps, FinalSteps,
       EndSteps DEF Task
<1>4. QED
    BY <1>1, <1>2, <1>3 DEF Next

\* The handler keeps to the dialogue and the phases of Socks5Session: no request
\* before access was granted, no relay before the last success, one failure at
\* most and nothing after it (state.rs, all of the phases).
THEOREM ImplementsSessionTheorem == Spec => ImplementsSession
<1>1. Init => DialogueMatches /\ Session!Init
    BY InitDialogue
<1>2. HandlerInv /\ HandlerInv' /\ DialogueMatches /\ [Next]_vars
          => DialogueMatches' /\ [Session!Next]_(Session!sessionVars)
    BY NextSteps DEF Steps
<1>3. Spec => Session!Init /\ [][Session!Next]_(Session!sessionVars)
    BY <1>1, <1>2, HandlerInvTheorem, PTL DEF Spec
<1>4. QED
    BY <1>3 DEF ImplementsSession, Session!Spec

-----------------------------------------------------------------------------
(* That a rejection is told.                                               *)

\* The errors that become a reply.
Reported == {Err(v, k) : v \in {"Io", "TargetConnectionFailed"}, k \in IoKinds}
                \cup {DnsResolutionFailed, Timeout}

LEMMA ReportedTold ==
    ASSUME NEW e \in Reported
    PROVE  /\ e \in Socks5Error /\ e.variant # "Protocol"
           /\ ToReply(e) = Telling(e)
<1>1. CASE e \in {DnsResolutionFailed, Timeout}
    BY <1>1 DEF Socks5Error, ToReply, Telling, DnsResolutionFailed, Timeout, NoAcceptableMethod,
       AuthenticationFailed, CommandNotSupported, Err
<1>2. CASE e \in {Err(v, k) : v \in {"Io", "TargetConnectionFailed"}, k \in IoKinds}
  <2>1. PICK v \in {"Io", "TargetConnectionFailed"}, k \in IoKinds : e = Err(v, k)
      BY <1>2
  <2>2. e.variant = v /\ e.kind = k /\ e \in Socks5Error /\ k # "none"
      BY <2>1 DEF Err, Socks5Error, IoKinds
  <2>3. e \notin {NoAcceptableMethod, AuthenticationFailed, CommandNotSupported, DnsResolutionFailed,
                   Timeout}
      BY <2>2 DEF NoAcceptableMethod, AuthenticationFailed, CommandNotSupported,
         DnsResolutionFailed, Timeout, Err
  <2>4. ToReply(e) = Telling(e)
    <3>1. e.variant \notin {"Timeout", "DnsResolutionFailed"}
        BY <2>2
    <3>2. CASE k \in {"ConnectionRefused", "NetworkUnreachable"}
        BY <2>2, <2>3, <3>1, <3>2 DEF ToReply, Telling
    <3>3. CASE k \in {"NotFound", "AddrNotAvailable"}
        BY <2>2, <2>3, <3>1, <3>3 DEF ToReply, Telling
    <3>4. CASE k \notin {"ConnectionRefused", "NetworkUnreachable", "NotFound", "AddrNotAvailable"}
        BY <2>2, <2>3, <3>1, <3>4 DEF ToReply, Telling
    <3>5. QED
        BY <3>2, <3>3, <3>4
  <2>5. QED
      BY <2>2, <2>4
<1>3. QED
    BY <1>1, <1>2 DEF Reported

LEMMA SilentErrors ==
    /\ NoAcceptableMethod \in Socks5Error /\ Telling(NoAcceptableMethod) = "NoAcceptableMethods"
    /\ AuthenticationFailed \in Socks5Error /\ Telling(AuthenticationFailed) = "Failure"
    /\ CommandNotSupported \in Socks5Error
    /\ Telling(CommandNotSupported) = "CommandNotSupported"
    /\ \A e \in {NoAcceptableMethod, AuthenticationFailed, CommandNotSupported} : e.variant # "Protocol"
<1>1. /\ NoAcceptableMethod.variant = "NoAcceptableMethod" /\ NoAcceptableMethod.kind = "none"
      /\ AuthenticationFailed.variant = "AuthenticationFailed" /\ AuthenticationFailed.kind = "none"
      /\ CommandNotSupported.variant = "CommandNotSupported" /\ CommandNotSupported.kind = "none"
      /\ DnsResolutionFailed.variant = "DnsResolutionFailed"
      /\ Timeout.variant = "Timeout"
    BY DEF NoAcceptableMethod, AuthenticationFailed, CommandNotSupported, DnsResolutionFailed,
       Timeout, Err
<1>2. {NoAcceptableMethod, AuthenticationFailed, CommandNotSupported} \subseteq Socks5Error
    BY DEF Socks5Error
<1>3. Telling(NoAcceptableMethod) = "NoAcceptableMethods"
    BY <1>1 DEF Telling
<1>4. Telling(AuthenticationFailed) = "Failure"
    BY <1>1 DEF Telling
<1>5. Telling(CommandNotSupported) = "CommandNotSupported"
    BY <1>1 DEF Telling
<1>6. QED
    BY <1>1, <1>2, <1>3, <1>4, <1>5

LEMMA OtherEnds ==
    /\ \A e \in {Cancelled, Panicked, Relayed} : e \notin Socks5Error /\ e.variant # "Protocol"
    /\ \A k : Protocol(k).variant = "Protocol"
<1>1. \A v, k : Err(v, k).variant = v
    BY DEF Err
<1>2. \A e \in Socks5Error :
          e.variant \in {"Io", "TargetConnectionFailed", "Protocol", "AuthenticationFailed",
                        "NoAcceptableMethod", "CommandNotSupported", "DnsResolutionFailed", "Timeout"}
  <2> SUFFICES ASSUME NEW e \in Socks5Error, NEW v, NEW k, e = Err(v, k),
                      v \in {"Io", "TargetConnectionFailed", "Protocol", "AuthenticationFailed",
                            "NoAcceptableMethod", "CommandNotSupported", "DnsResolutionFailed", "Timeout"}
               PROVE  e.variant = v
      BY DEF Socks5Error, Protocol, AuthenticationFailed, NoAcceptableMethod, CommandNotSupported,
         DnsResolutionFailed, Timeout
  <2>1. QED
      BY <1>1
<1>3. Cancelled.variant = "cancelled" /\ Panicked.variant = "panicked" /\ Relayed.variant = "relayed"
    BY DEF Cancelled, Panicked, Relayed, Err
<1>4. \A k : Protocol(k).variant = "Protocol"
    BY DEF Protocol, Err
<1>5. QED
    BY <1>2, <1>3, <1>4

Rejects(e) == e \in Socks5Error /\ e.variant # "Protocol"
Tells(e)   == wire # <<>> /\ wire[Len(wire)] = Telling(e)

Told ==
    /\ pc \in {"send_final", "shutdown"} => Rejects(error)
    /\ pc = "send_final" => outgoing = Telling(error)
    /\ pc = "shutdown" /\ client # "reset" => Tells(error)
    /\ RejectionTold

LEMMA InitTold == Init => Told
BY DEF Init, Told, RejectionTold

\* Only a client that stays can be told, and it does not come back.
LEMMA EnvironmentTold ==
    ASSUME Told, Client \/ ServerShutsDown \/ Terminated \/ UNCHANGED vars
    PROVE  Told'
<1>1. /\ UNCHANGED <<pc, wire, outgoing, error>>
      /\ client' # "reset" => client # "reset"
      /\ client' = "open" => client = "open"
    BY DEF Client, ClientSends, ClientShutsDown, ClientResets, ServerShutsDown, Terminated, vars,
       clientVars, readVars, dialogVars, endVars
<1>2. QED
    BY <1>1 DEF Told, RejectionTold, Rejects, Tells

\* What ends silently violates the protocol, or is no decision of the server.
LEMMA SilentTold ==
    ASSUME HandlerInv, DialogueMatches, Told,
           RecvMalformed \/ RecvEnds \/ SendFails \/ ConnectPanics \/ ShutdownCancels
               \/ RuntimeDrops \/ RelayEnds
    PROVE  Told'
<1>1. pc' = "closed" /\ UNCHANGED <<client, wire>>
    BY DEF RecvMalformed, RecvEnds, SendFails, ConnectPanics, ShutdownCancels, RuntimeDrops,
       RelayEnds, Close, clientVars
<1>2. CASE RecvMalformed
  <2>1. PICK k : error' = Protocol(k)
      BY <1>2 DEF RecvMalformed, Close
  <2>2. wire \in {<<>>, <<"UsernamePassword">>} \cup Granted
      BY <1>2 DEF RecvMalformed, Receiving, DialogueMatches
  <2>3. \A i \in 1..Len(wire) : wire[i] \in {"UsernamePassword", "NoAuthenticationRequired", "Success"}
    <3>1. /\ Len(<<>>) = 0 /\ Len(<<"UsernamePassword">>) = 1
          /\ Len(<<"NoAuthenticationRequired">>) = 1 /\ Len(<<"UsernamePassword", "Success">>) = 2
        OBVIOUS
    <3>2. \A i \in 1..2 : i = 1 \/ i = 2
        OBVIOUS
    <3>3. QED
        BY <2>2, <3>1, <3>2 DEF Granted
  <2>4. error'.variant = "Protocol"
      BY <2>1, OtherEnds
  <2>5. QED
      BY <1>1, <2>3, <2>4 DEF Told, RejectionTold
<1>3. CASE RecvEnds \/ SendFails
    BY <1>1, <1>3 DEF RecvEnds, SendFails, Told, RejectionTold
<1>4. CASE ConnectPanics \/ ShutdownCancels \/ RuntimeDrops \/ RelayEnds
  <2>1. error' \in {Cancelled, Panicked, Relayed}
      BY <1>4 DEF ConnectPanics, ShutdownCancels, RuntimeDrops, RelayEnds, Close
  <2>2. error' \notin Socks5Error /\ error'.variant # "Protocol"
      BY <2>1, OtherEnds
  <2>3. QED
      BY <1>1, <2>2 DEF Told, RejectionTold
<1>5. QED
    BY <1>2, <1>3, <1>4

\* What goes on has nothing to tell yet.
LEMMA OngoingTold ==
    ASSUME pc' \notin {"send_final", "shutdown", "closed"}
    PROVE  Told'
BY DEF Told, RejectionTold

LEMMA RejectTold ==
    ASSUME NEW m, NEW e, Reject(m, e), Rejects(e), m = Telling(e)
    PROVE  Told'
BY DEF Reject, Rejects, Told, RejectionTold

LEMMA FailuresTold ==
    ASSUME ConnectFails \/ ConnectTimesOut \/ BindFails \/ AcceptFails \/ BindTimesOut
    PROVE  Told'
<1>1. PICK e \in Reported : ErrorReply(e)
  <2>1. ConnectErrors \subseteq Reported
    <3>1. {DnsResolutionFailed} \cup {TargetConnectionFailed(k) : k \in ConnectKinds} \subseteq Reported
        BY DEF Reported, TargetConnectionFailed, ConnectKinds, IoKinds
    <3>2. QED
        BY <3>1, FromHappyEyeballsType DEF ConnectErrors
  <2>2. Timeout \in Reported /\ Io("AddrNotAvailable") \in Reported /\ Io("Other") \in Reported
      BY DEF Reported, Io, IoKinds
  <2>3. QED
      BY <2>1, <2>2 DEF ConnectFails, ConnectTimesOut, BindFails, AcceptFails, BindTimesOut
<1>2. QED
    BY <1>1, ReportedTold, RejectTold DEF ErrorReply, Rejects

LEMMA RejectionsTold ==
    ASSUME RecvGreeting \/ RecvAuth \/ RecvRequest
    PROVE  Told'
<1>1. CASE RecvGreeting
  <2>1. pc' = "send_method" \/ Reject("NoAcceptableMethods", NoAcceptableMethod)
      BY <1>1 DEF RecvGreeting
  <2>2. QED
      BY <2>1, OngoingTold, RejectTold, SilentErrors DEF Rejects
<1>2. CASE RecvAuth
  <2>1. pc' = "send_status" \/ Reject("Failure", AuthenticationFailed)
      BY <1>2 DEF RecvAuth
  <2>2. QED
      BY <2>1, OngoingTold, RejectTold, SilentErrors DEF Rejects
<1>3. CASE RecvRequest
  <2>1. \/ pc' \in {"bind", "connect"}
        \/ Reject("CommandNotSupported", CommandNotSupported)
      BY <1>3 DEF RecvRequest
  <2>2. QED
      BY <2>1, OngoingTold, RejectTold, SilentErrors DEF Rejects
<1>4. QED
    BY <1>1, <1>2, <1>3

\* The last message is sent before the stream is shut down, and the task returns
\* the error it was about.
LEMMA FinalTold ==
    ASSUME HandlerInv, Told, SendFinal \/ ShutdownStream
    PROVE  Told'
<1>1. CASE SendFinal
  <2>1. /\ pc = "send_final" /\ pc' = "shutdown" /\ UNCHANGED <<client, error>>
        /\ wire' = IF client = "reset" THEN wire ELSE Append(wire, outgoing)
      BY <1>1 DEF SendFinal, clientVars, endVars
  <2>2. client # "reset" => wire' # <<>> /\ wire'[Len(wire')] = outgoing
    <3>1. wire \in Seq(ServerMessages)
        BY DEF HandlerInv, TypeOK
    <3>2. QED
        BY <2>1, <3>1
  <2>3. QED
      BY <2>1, <2>2 DEF Told, RejectionTold, Rejects, Tells
<1>2. CASE ShutdownStream
    BY <1>2 DEF ShutdownStream, Close, Told, RejectionTold, Rejects, Tells, clientVars
<1>3. QED
    BY <1>1, <1>2

LEMMA NextTold == HandlerInv /\ DialogueMatches /\ Told /\ [Next]_vars => Told'
<1> SUFFICES ASSUME HandlerInv, DialogueMatches, Told, [Next]_vars PROVE Told'
    OBVIOUS
<1>1. CASE Client \/ ServerShutsDown \/ Terminated \/ UNCHANGED vars
    BY <1>1, EnvironmentTold
<1>2. CASE Connects \/ BindListens \/ PeerConnects \/ SendMethod \/ SendStatus \/ SendConnected
              \/ SendFirst \/ SendSecond
  <2>1. pc' \notin {"send_final", "shutdown", "closed"}
      BY <1>2 DEF Connects, BindListens, PeerConnects, SendMethod, SendStatus, SendConnected,
         SendFirst, SendSecond, Tunnel
  <2>2. QED
      BY <2>1, OngoingTold
<1>3. CASE Network \/ RuntimeDrops
    BY <1>2, <1>3, FailuresTold, SilentTold DEF Network
<1>4. CASE Task
    BY <1>2, <1>4, RejectionsTold, FailuresTold, SilentTold, FinalTold DEF Task
<1>5. QED
    BY <1>1, <1>3, <1>4 DEF Next

\* On every path on which the server, the target or the peer of a BIND ends a
\* connection, the client that is still there is told, and with the documented
\* message where the code keeps to one; a violation of the protocol ends it
\* without (state.rs:46-51, 683-714).
THEOREM RejectionToldTheorem == Spec => []RejectionTold
<1>1. Init => DialogueMatches /\ Told
    BY InitDialogue, InitTold
<1>2. HandlerInv /\ HandlerInv' /\ DialogueMatches /\ Told /\ [Next]_vars => DialogueMatches' /\ Told'
    BY NextSteps, NextTold DEF Steps
<1>3. Told => RejectionTold
    BY DEF Told
<1>4. QED
    BY <1>1, <1>2, <1>3, HandlerInvTheorem, PTL DEF Spec
=============================================================================
