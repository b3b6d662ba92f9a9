----------------------------- MODULE Socks5Codec ----------------------------
(***************************************************************************)
(* The server's codecs of noxen-socks5/src/codecs/server.rs, with the      *)
(* types and messages they are made of.                                    *)
(*                                                                         *)
(* A decoder is a function of the read buffer: it asks for more, fails, or *)
(* takes a frame off the front.  The order of the checks is the code's, for*)
(* it decides which error is reported and how early.                       *)
(***************************************************************************)
EXTENDS Naturals, Sequences

CONSTANTS MaxByte,   \* the largest byte: 255
          Ipv4Len,   \* octets of an IPv4 address: 4
          Ipv6Len,   \* octets of an IPv6 address: 16
          Utf8(_)    \* does str::from_utf8 accept the bytes?

ASSUME CodecAssumption ==
    /\ MaxByte \in Nat /\ MaxByte > 8
    /\ Ipv4Len \in 1..MaxByte
    /\ Ipv6Len \in 1..MaxByte

Byte == 0..MaxByte

-----------------------------------------------------------------------------
(* types.rs and messages.rs.                                               *)

SOCKS5_VER      == 5
SOCKS5_AUTH_VER == 1
SOCKS5_RSV      == 0

MAX_GREETING_FRAME_SIZE == 2 + MaxByte
MAX_AUTH_FRAME_SIZE     == 3 + 2 * MaxByte
MAX_REQUEST_FRAME_SIZE  == 7 + MaxByte

AuthMethod == [NoAuthenticationRequired |-> 0, Gssapi |-> 1, UsernamePassword |-> 2,
               NoAcceptableMethods |-> MaxByte]
AuthStatus == [Success |-> 0, Failure |-> 1]
AddressType == [Ipv4 |-> 1, Domain |-> 3, Ipv6 |-> 4]
Command == [Connect |-> 1, Bind |-> 2, UdpAssociate |-> 3]
Reply == [Succeeded |-> 0, GeneralFailure |-> 1, ConnectionNotAllowed |-> 2,
          NetworkUnreachable |-> 3, HostUnreachable |-> 4, ConnectionRefused |-> 5,
          TtlExpired |-> 6, CommandNotSupported |-> 7, AddressTypeNotSupported |-> 8]

\* TryFrom<u8> of an enum: the bytes it accepts, and the value for one of them.
Bytes(enum)      == {enum[v] : v \in DOMAIN enum}
TryFrom(enum, b) == CHOOSE v \in DOMAIN enum : enum[v] = b

Address(atyp, host, port) == [atyp |-> atyp, host |-> host, port |-> port]

-----------------------------------------------------------------------------
(* Decoding.                                                               *)

Incomplete     == [kind |-> "incomplete"]
Error(e)       == [kind |-> "error", error |-> e]
Frame(item, n) == [kind |-> "frame", item |-> item, consumed |-> n]

\* The end of every decoder: buf.advance(total_len), Ok(Some(item)).
Decoded(b, total, item) == Frame(item, total)

\* Unknown methods are left out: the list may come out empty.
Methods(bytes) ==
    LET known == SelectSeq(bytes, LAMBDA m : m \in Bytes(AuthMethod))
    IN  [i \in DOMAIN known |-> TryFrom(AuthMethod, known[i])]

GreetingDecode(b) ==
    IF Len(b) > MAX_GREETING_FRAME_SIZE THEN Error("FrameTooLarge")
    ELSE IF Len(b) < 2 THEN Incomplete
    ELSE IF b[1] # SOCKS5_VER THEN Error("InvalidVersion")
    ELSE IF b[2] = 0 THEN Error("EmptyMethodsList")
    ELSE LET total == 2 + b[2] IN
         IF Len(b) < total THEN Incomplete
         ELSE Decoded(b, total, [methods |-> Methods(SubSeq(b, 3, total))])

\* The fields of a whole frame, with the password length at plen.
AuthFields(b, plen) ==
    LET total    == plen + b[plen]
        username == SubSeq(b, 3, plen - 1)
        password == SubSeq(b, plen + 1, total)
    IN  IF ~Utf8(username) THEN Error("InvalidUsernameEncoding")
        ELSE IF ~Utf8(password) THEN Error("InvalidPasswordEncoding")
        ELSE Decoded(b, total, [username |-> username, password |-> password])

\* Mutant: the password length is looked for one byte too early.
AuthDecode_PlenOffset(b) ==
    IF Len(b) > MAX_AUTH_FRAME_SIZE THEN Error("FrameTooLarge")
    ELSE IF Len(b) < 2 THEN Incomplete
    ELSE IF b[1] # SOCKS5_AUTH_VER THEN Error("InvalidAuthVersion")
    ELSE IF b[2] = 0 THEN Error("EmptyUsername")
    ELSE LET plen == 2 + b[2] IN
         IF Len(b) < plen THEN Incomplete
         ELSE IF b[plen] = 0 THEN Error("EmptyPassword")
         ELSE IF Len(b) < plen + b[plen] THEN Incomplete
         ELSE AuthFields(b, plen)

AuthDecode(b) ==
    IF Len(b) > MAX_AUTH_FRAME_SIZE THEN Error("FrameTooLarge")
    ELSE IF Len(b) < 2 THEN Incomplete
    ELSE IF b[1] # SOCKS5_AUTH_VER THEN Error("InvalidAuthVersion")
    ELSE IF b[2] = 0 THEN Error("EmptyUsername")
    ELSE LET plen == 3 + b[2] IN
         IF Len(b) < plen THEN Incomplete
         ELSE IF b[plen] = 0 THEN Error("EmptyPassword")
         ELSE IF Len(b) < plen + b[plen] THEN Incomplete
         ELSE AuthFields(b, plen)

\* The length of the address field, once the byte it depends on is there.  A
\* domain may have no bytes at all.
AddressLen(b) ==
    CASE b[4] = AddressType.Ipv4 -> Ipv4Len
      [] b[4] = AddressType.Ipv6 -> Ipv6Len
      [] OTHER -> 1 + b[5]

\* The fields of a whole request.
RequestFields(b, total) ==
    LET atyp == TryFrom(AddressType, b[4])
        host == SubSeq(b, IF atyp = "Domain" THEN 6 ELSE 5, total - 2)
        port == b[total - 1] * (MaxByte + 1) + b[total]
    IN  IF atyp = "Domain" /\ ~Utf8(host) THEN Error("InvalidDomainEncoding")
        ELSE Decoded(b, total, [command     |-> TryFrom(Command, b[2]),
                                dst_address |-> Address(atyp, host, port)])

RequestDecode(b) ==
    IF Len(b) > MAX_REQUEST_FRAME_SIZE THEN Error("FrameTooLarge")
    ELSE IF Len(b) < 4 THEN Incomplete
    ELSE IF b[1] # SOCKS5_VER THEN Error("InvalidVersion")
    ELSE IF b[2] \notin Bytes(Command) THEN Error("InvalidCommand")
    ELSE IF b[3] # SOCKS5_RSV THEN Error("InvalidReserved")
    ELSE IF b[4] \notin Bytes(AddressType) THEN Error("InvalidAddressType")
    ELSE IF b[4] = AddressType.Domain /\ Len(b) < 5 THEN Incomplete
    ELSE LET total == 6 + AddressLen(b) IN
         IF Len(b) < total THEN Incomplete ELSE RequestFields(b, total)

\* The codec of each typestate, and the largest frame of each.
Codecs == {"greeting", "auth", "request"}

Decode(codec, b) ==
    CASE codec = "greeting" -> GreetingDecode(b)
      [] codec = "auth"     -> AuthDecode(b)
      [] OTHER              -> RequestDecode(b)

MaxFrame(codec) ==
    CASE codec = "greeting" -> MAX_GREETING_FRAME_SIZE
      [] codec = "auth"     -> MAX_AUTH_FRAME_SIZE
      [] OTHER              -> MAX_REQUEST_FRAME_SIZE

-----------------------------------------------------------------------------
(* Encoding.  Reply codes and lengths are cast to a byte, ports are big    *)
(* endian.                                                                 *)

GreetingEncode(m) == <<SOCKS5_VER, AuthMethod[m.method]>>

AuthEncode(m) == <<SOCKS5_AUTH_VER, AuthStatus[m.status]>>

\* Mutant: every address is encoded as the IPv4 address that errors carry.
ResponseEncode_Ipv4(m) ==
    <<SOCKS5_VER, Reply[m.reply], SOCKS5_RSV, AddressType.Ipv4>>
        \o m.bnd_address.host
        \o <<m.bnd_address.port \div (MaxByte + 1), m.bnd_address.port % (MaxByte + 1)>>

ResponseEncode(m) ==
    LET a == m.bnd_address IN
    <<SOCKS5_VER, Reply[m.reply], SOCKS5_RSV, AddressType[a.atyp]>>
        \o (IF a.atyp = "Domain" THEN <<Len(a.host) % (MaxByte + 1)>> ELSE <<>>)
        \o a.host
        \o <<a.port \div (MaxByte + 1), a.port % (MaxByte + 1)>>
=============================================================================
