---------------------------- MODULE Socks5Framed ----------------------------
(***************************************************************************)
(* The Framed stream of one connection, byte by byte: recv, send and       *)
(* into_state of noxen-proxy/src/handler/socks5/state.rs over the decoders *)
(* of Socks5Codec.  The client's bytes arrive in pieces of any size, cut   *)
(* anywhere and running over the ends of frames; the read buffer is handed *)
(* from the codec of one typestate to that of the next.                    *)
(*                                                                         *)
(* Which answer is given is the subject of Socks5Handler; any is given     *)
(* here.  What Socks5Handler calls a message that was received is a frame  *)
(* whose last byte has arrived.                                            *)
(***************************************************************************)
EXTENDS Socks5Codec, SequencesExt

CONSTANTS Scripts,    \* what clients send: sequences of frames
          Responses   \* the responses of the handling of requests

(***************************************************************************)
(* A frame of a script is for one codec, is some bytes, and yields an item *)
(* or an error, which the client's author knows from the protocol.         *)
(***************************************************************************)
Item(codec, bytes, item) == [codec |-> codec, bytes |-> bytes, yields |-> Frame(item, Len(bytes))]
Malformed(codec, bytes, e) == [codec |-> codec, bytes |-> bytes, yields |-> Error(e)]

Stream(s) == FlattenSeq([i \in DOMAIN s |-> s[i].bytes])

\* The host of an address has the octets of its type, or is a name.
HostLens(atyp) ==
    CASE atyp = "Ipv4" -> {Ipv4Len}
      [] atyp = "Ipv6" -> {Ipv6Len}
      [] OTHER         -> Byte

Addresses ==
    [atyp : DOMAIN AddressType, host : Seq(Byte), port : 0..((MaxByte + 1) * (MaxByte + 1) - 1)]

ASSUME FramedAssumption ==
    /\ \A s \in Scripts : s \in Seq(Range(s)) /\ \A f \in Range(s) : f.bytes \in Seq(Byte)
    /\ \A r \in Responses : /\ r \in [reply : DOMAIN Reply, bnd_address : Addresses]
                           /\ Len(r.bnd_address.host) \in HostLens(r.bnd_address.atyp)

VARIABLES
    script,     \* the frames this client sends
    stream,     \* their bytes
    arrived,    \* how many of them the task has read
    taken,      \* how many of those were taken out of the buffer as frames
    buffer,     \* the read buffer of `framed`
    codec,      \* the codec of `framed`
    pc,         \* "read", "decode", "answer" or "closed"
    received,   \* the items recv has returned
    error,      \* what the connection ended with
    said,       \* the messages the server has sent
    wire,       \* their bytes, as far as the client has not read them
    heard       \* the messages the client has made of the rest

vars == <<script, stream, arrived, taken, buffer, codec, pc, received, error, said, wire, heard>>

clientVars == <<script, stream>>
readVars   == <<arrived, taken, buffer, received>>
replyVars  == <<said, wire, heard>>

Init ==
    /\ script \in Scripts
    /\ stream = Stream(script)
    /\ arrived = 0
    /\ taken = 0
    /\ buffer = <<>>
    /\ codec = "greeting"
    /\ pc = "read"
    /\ received = <<>>
    /\ error = "none"
    /\ said = <<>>
    /\ wire = <<>>
    /\ heard = <<>>

-----------------------------------------------------------------------------
(* recv.                                                                   *)

\* The task is polled with n more bytes in the socket.
Read ==
    /\ pc = "read"
    /\ \E n \in 1..(Len(stream) - arrived) :
         /\ buffer' = buffer \o SubSeq(stream, arrived + 1, arrived + n)
         /\ arrived' = arrived + n
    /\ pc' = "decode"
    /\ UNCHANGED <<clientVars, taken, codec, received, error, replyVars>>

Close(e) ==
    /\ pc' = "closed"
    /\ error' = e
    /\ UNCHANGED <<clientVars, readVars, codec, replyVars>>

\* The client stops sending, wherever it is.  Between frames that is the end
\* of the stream, which recv makes an error; inside a frame Framed does.
ReadEnds ==
    /\ pc = "read"
    /\ Close(IF buffer = <<>> THEN "UnexpectedEof" ELSE "Other")

DecodeIncomplete ==
    /\ pc = "decode"
    /\ Decode(codec, buffer) = Incomplete
    /\ pc' = "read"
    /\ UNCHANGED <<clientVars, readVars, codec, error, replyVars>>

DecodeFails ==
    /\ pc = "decode"
    /\ Decode(codec, buffer).kind = "error"
    /\ Close(Decode(codec, buffer).error)

DecodeFrame ==
    /\ pc = "decode"
    /\ LET frame == Decode(codec, buffer) IN
         /\ frame.kind = "frame"
         /\ buffer' = SubSeq(buffer, frame.consumed + 1, Len(buffer))
         /\ taken' = taken + frame.consumed
         /\ received' = Append(received, [codec |-> codec, item |-> frame.item])
    /\ pc' = "answer"
    /\ UNCHANGED <<clientVars, arrived, codec, error, replyVars>>

-----------------------------------------------------------------------------
(* send and into_state.                                                    *)

Say(m, bytes) ==
    /\ said' = Append(said, m)
    /\ wire' = wire \o bytes
    /\ UNCHANGED <<clientVars, arrived, taken, received, heard>>

\* Mutants: into_state makes a new Framed of the stream, or one that reads
\* before it looks at the buffer it was given.
IntoState_NewFramed(c) ==
    /\ codec' = c
    /\ pc' = "decode"
    /\ buffer' = <<>>
    /\ UNCHANGED error
IntoState_ReadsFirst(c) ==
    /\ codec' = c
    /\ pc' = "read"
    /\ UNCHANGED <<buffer, error>>

\* map_codec keeps the buffer, and tries to decode it before it reads.
IntoState(c) ==
    /\ codec' = c
    /\ pc' = "decode"
    /\ UNCHANGED <<buffer, error>>

\* Nothing more is received: a rejection, a failure, or the tunnel.
LastAnswer ==
    /\ pc' = "closed"
    /\ UNCHANGED <<buffer, codec, error>>

SelectMethod ==
    /\ pc = "answer"
    /\ codec = "greeting"
    /\ \E m \in {"UsernamePassword", "NoAuthenticationRequired", "NoAcceptableMethods"} :
         /\ Say([method |-> m], GreetingEncode([method |-> m]))
         /\ CASE m = "UsernamePassword"         -> IntoState("auth")
              [] m = "NoAuthenticationRequired" -> IntoState("request")
              [] OTHER                          -> LastAnswer

AnswerCredentials ==
    /\ pc = "answer"
    /\ codec = "auth"
    /\ \E s \in {"Success", "Failure"} :
         /\ Say([status |-> s], AuthEncode([status |-> s]))
         /\ IF s = "Success" THEN IntoState("request") ELSE LastAnswer

\* A BIND may be answered again after a success.
Respond ==
    /\ pc = "answer"
    /\ codec = "request"
    /\ \E r \in Responses :
         /\ Say(r, ResponseEncode(r))
         /\ \/ LastAnswer
            \/ /\ r.reply = "Succeeded"
               /\ received[Len(received)].item.command = "Bind"
               /\ Last(said) \notin Responses
               /\ UNCHANGED <<buffer, codec, pc, error>>

-----------------------------------------------------------------------------
(* The client reads by the lengths the protocol gives: two bytes for a     *)
(* method or a status, and a response by the type of its address.          *)

ResponseLen ==
    CASE Len(wire) < 5                -> 5
      [] wire[4] = AddressType.Ipv4   -> 6 + Ipv4Len
      [] wire[4] = AddressType.Ipv6   -> 6 + Ipv6Len
      [] OTHER                        -> 7 + wire[5]

ReadResponse ==
    LET atyp == TryFrom(AddressType, wire[4]) IN
    [reply |-> TryFrom(Reply, wire[2]),
     bnd_address |-> Address(atyp, SubSeq(wire, IF atyp = "Domain" THEN 6 ELSE 5, ResponseLen - 2),
                             wire[ResponseLen - 1] * (MaxByte + 1) + wire[ResponseLen])]

Hear(n, m) ==
    /\ Len(wire) >= n
    /\ heard' = Append(heard, m)
    /\ wire' = SubSeq(wire, n + 1, Len(wire))
    /\ UNCHANGED <<clientVars, readVars, codec, pc, error, said>>

ClientHears ==
    /\ wire # <<>>
    /\ CASE heard = <<>> ->
              Hear(2, [method |-> TryFrom(AuthMethod, wire[2])])
         [] heard = <<[method |-> "UsernamePassword"]>> ->
              Hear(2, [status |-> TryFrom(AuthStatus, wire[2])])
         [] OTHER -> Hear(ResponseLen, ReadResponse)

Terminated ==
    /\ pc = "closed"
    /\ wire = <<>>
    /\ UNCHANGED vars

Next ==
    \/ Read
    \/ ReadEnds
    \/ DecodeIncomplete
    \/ DecodeFails
    \/ DecodeFrame
    \/ SelectMethod
    \/ AnswerCredentials
    \/ Respond
    \/ ClientHears
    \/ Terminated

Spec == Init /\ [][Next]_vars

-----------------------------------------------------------------------------
(* Properties.                                                             *)

TypeOK ==
    /\ stream \in Seq(Byte)
    /\ taken \in 0..arrived
    /\ arrived \in 0..Len(stream)
    /\ codec \in Codecs
    /\ pc \in {"read", "decode", "answer", "closed"}

\* No byte is lost, repeated or reordered between the socket and the frames:
\* what was read and not taken is in the buffer, across every change of codec
\* (codecs/server.rs:127-129; state.rs:159-165).
BytesConserved == buffer = SubSeq(stream, taken + 1, arrived)

\* The handler waits for the client only if what it has is no frame of its
\* phase and no error: frames that were pipelined are not left in the buffer
\* for the next byte to arrive.
NeverWaitsInVain == pc = "read" => Decode(codec, buffer) = Incomplete

\* "DoS protection" (codecs/server.rs:74): a client can make the handler keep
\* less than one frame of its phase between two reads, whatever it sends.
BufferBounded == pc = "read" => Len(buffer) < MaxFrame(codec)

FramingInv == TypeOK /\ BytesConserved /\ NeverWaitsInVain

\* The frames before the i-th were each read by the codec they are for.
InStep(i) == \A j \in 1..i : j <= Len(script) /\ script[j].codec = received[j].codec

\* What recv returns is what the client meant, wherever the stream was cut: a
\* client that keeps to the phases is never misread, and is turned down for
\* the error it made or, too soon, for the size of what it has sent.
Meant ==
    \A i \in 1..Len(received) :
        InStep(i) => script[i].yields = Frame(received[i].item, Len(script[i].bytes))
Blamed ==
    LET n == Len(received) + 1 IN
    (error \notin {"none", "FrameTooLarge", "UnexpectedEof", "Other"} /\ InStep(n - 1)
        /\ n <= Len(script) /\ script[n].codec = codec)
        => script[n].yields = Error(error)
Faithful == Meant /\ Blamed

\* The client makes of the server's bytes the messages the server has sent.
RepliesUnderstood ==
    /\ IsPrefix(heard, said)
    /\ wire = <<>> => heard = said
=============================================================================
