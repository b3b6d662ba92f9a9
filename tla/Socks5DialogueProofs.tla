------------------------ MODULE Socks5DialogueProofs ------------------------
(***************************************************************************)
(* Both sides of a connection understand each other, for every length of   *)
(* the fields: the client makes of the server's bytes the messages that    *)
(* were sent, and the frames of a client that keeps to the protocol are    *)
(* decoded to what it put into them.                                       *)
(***************************************************************************)
EXTENDS Socks5FramedProofs

-----------------------------------------------------------------------------
(* What is encoded is decoded.                                             *)

\* TryFrom<u8> and the cast of an enum are inverse.
LEMMA TryFromInverse ==
    /\ \A m \in DOMAIN AuthMethod : AuthMethod[m] \in Byte /\ TryFrom(AuthMethod, AuthMethod[m]) = m
    /\ \A x \in DOMAIN AuthStatus : AuthStatus[x] \in Byte /\ TryFrom(AuthStatus, AuthStatus[x]) = x
    /\ \A t \in DOMAIN AddressType : AddressType[t] \in Byte /\ TryFrom(AddressType, AddressType[t]) = t
    /\ \A x \in DOMAIN Command : Command[x] \in Byte /\ TryFrom(Command, Command[x]) = x
    /\ \A x \in DOMAIN Reply : Reply[x] \in Byte /\ TryFrom(Reply, Reply[x]) = x
<1> DEFINE Injective(enum) == \A v, w \in DOMAIN enum : enum[v] = enum[w] => v = w
           InBytes(enum) == \A v \in DOMAIN enum : enum[v] \in Byte
<1>1. ASSUME NEW enum, Injective(enum), NEW v \in DOMAIN enum
      PROVE  TryFrom(enum, enum[v]) = v
  BY <1>1, Zenon DEF TryFrom
<1>2. Injective(AuthMethod) /\ InBytes(AuthMethod)
  BY CodecAssumption DEF AuthMethod, Byte
<1>3. Injective(AuthStatus) /\ InBytes(AuthStatus)
  BY CodecAssumption DEF AuthStatus, Byte
<1>4. Injective(AddressType) /\ InBytes(AddressType)
  BY CodecAssumption DEF AddressType, Byte
<1>5. Injective(Command) /\ InBytes(Command)
  BY CodecAssumption DEF Command, Byte
<1>6. Injective(Reply) /\ InBytes(Reply)
  BY CodecAssumption DEF Reply, Byte
<1> QED
  BY <1>1, <1>2, <1>3, <1>4, <1>5, <1>6

\* A port is two bytes, the higher one first.
LEMMA PortBytes ==
    ASSUME NEW p \in 0..((MaxByte + 1) * (MaxByte + 1) - 1)
    PROVE  /\ p \div (MaxByte + 1) \in Byte /\ p % (MaxByte + 1) \in Byte
           /\ (p \div (MaxByte + 1)) * (MaxByte + 1) + (p % (MaxByte + 1)) = p
<1> DEFINE B == MaxByte + 1
<1>1. B \in Nat /\ B > 0 /\ p \in 0..(B * B - 1) /\ Byte = 0..(B - 1)
  BY CodecAssumption DEF Byte
<1> HIDE DEF B
<1>2. ((p \div B) * B) + (p % B) = p
  BY <1>1
<1>3. p % B \in 0..(B - 1)
  BY <1>1
<1>4. p \div B \in 0..(B - 1)
  BY <1>1
<1> QED
  BY <1>1, <1>2, <1>3, <1>4 DEF B

\* The length of a name is cast to a byte without loss.
LEMMA SmallMod ==
    ASSUME NEW B \in Nat, B > 0, NEW l \in 0..(B - 1)
    PROVE  l % B = l
<1> DEFINE q == l \div B
           r == l % B
<1>1. (q * B) + r = l
  OBVIOUS
<1>2. q \in Int /\ r \in 0..(B - 1)
  OBVIOUS
<1> HIDE DEF q, r
<1>3. CASE q >= 1
  <2>1. q * B >= B
    BY <1>2, <1>3
  <2> QED
    BY <1>1, <1>2, <2>1
<1>4. CASE q <= -1
  <2>1. q * B <= -B
    BY <1>2, <1>4
  <2> QED
    BY <1>1, <1>2, <2>1
<1>5. CASE q = 0
  BY <1>1, <1>2, <1>5 DEF r
<1> QED
  BY <1>2, <1>3, <1>4, <1>5

LEMMA ConcatAt ==
    ASSUME NEW s \in Seq(Byte), NEW t \in Seq(Byte), NEW m \in Nat, NEW n \in Nat,
           Len(s) = m, Len(t) = n
    PROVE  /\ s \o t \in Seq(Byte) /\ Len(s \o t) = m + n
           /\ \A i \in 1..(m + n) : (s \o t)[i] = IF i <= m THEN s[i] ELSE t[i - m]
BY ConcatProperties

(***************************************************************************)
(* A request and a response end with an address: the byte of its type, the *)
(* length of a name, the host and the port.                                *)
(***************************************************************************)
WellFormed(a) == a \in Addresses /\ Len(a.host) \in HostLens(a.atyp)

NameLen(a) == IF a.atyp = "Domain" THEN <<Len(a.host) % (MaxByte + 1)>> ELSE <<>>

WithAddress(x, a) ==
    <<SOCKS5_VER, x, SOCKS5_RSV, AddressType[a.atyp]>>
        \o NameLen(a) \o a.host
        \o <<a.port \div (MaxByte + 1), a.port % (MaxByte + 1)>>

HostAt(a) == IF a.atyp = "Domain" THEN 6 ELSE 5

\* Where its fields are.
LEMMA FieldsOfAddress ==
    ASSUME NEW x \in Byte, NEW a, WellFormed(a)
    PROVE  LET e == WithAddress(x, a)
               n == HostAt(a) + Len(a.host)
           IN  /\ e \in Seq(Byte) /\ Len(e) = n + 1
               /\ Len(a.host) \in Byte /\ Len(a.host) % (MaxByte + 1) = Len(a.host)
               /\ e[1] = SOCKS5_VER /\ e[2] = x /\ e[3] = SOCKS5_RSV
               /\ e[4] = AddressType[a.atyp]
               /\ a.atyp = "Domain" => e[5] = Len(a.host)
               /\ \A k \in 1..Len(a.host) : e[(HostAt(a) - 1) + k] = a.host[k]
               /\ e[n] = a.port \div (MaxByte + 1) /\ e[n + 1] = a.port % (MaxByte + 1)
<1> DEFINE h == <<SOCKS5_VER, x, SOCKS5_RSV, AddressType[a.atyp]>>
           d == NameLen(a)
           q == <<a.port \div (MaxByte + 1), a.port % (MaxByte + 1)>>
           host == a.host
           B == MaxByte + 1
<1>1. /\ a.host \in Seq(Byte) /\ a.atyp \in DOMAIN AddressType
      /\ a.port \in 0..((MaxByte + 1) * (MaxByte + 1) - 1)
  BY DEF WellFormed, Addresses
<1>2. Len(a.host) \in Byte
  <2>1. Len(a.host) \in HostLens(a.atyp)
    BY DEF WellFormed
  <2>2. Ipv4Len \in Byte /\ Ipv6Len \in Byte
    BY CodecAssumption DEF Byte
  <2>3. HostLens(a.atyp) \subseteq Byte
    <3>1. CASE a.atyp = "Ipv4"
      BY <2>2, <3>1 DEF HostLens
    <3>2. CASE a.atyp = "Ipv6"
      BY <2>2, <3>2 DEF HostLens
    <3>3. CASE a.atyp = "Domain"
      BY <3>3 DEF HostLens
    <3> QED
      BY <1>1, <3>1, <3>2, <3>3 DEF AddressType
  <2> QED
    BY <2>1, <2>3
<1>3. Len(a.host) % (MaxByte + 1) = Len(a.host)
  <2>1. \A l \in 0..(B - 1) : l % B = l
    <3>1. B \in Nat /\ B > 0
      BY CodecAssumption
    <3> HIDE DEF B
    <3> QED
      BY <3>1, SmallMod
  <2> QED
    <3>1. Byte = 0..(B - 1)
      BY CodecAssumption DEF Byte
    <3> QED
      BY <1>2, <2>1, <3>1
<1>4. h \in Seq(Byte) /\ Len(h) = 4
      /\ h[1] = SOCKS5_VER /\ h[2] = x /\ h[3] = SOCKS5_RSV /\ h[4] = AddressType[a.atyp]
  BY <1>1, TryFromInverse, CodecAssumption DEF Byte, SOCKS5_VER, SOCKS5_RSV
<1>5. /\ d \in Seq(Byte) /\ Len(d) = HostAt(a) - 5
      /\ a.atyp = "Domain" => d[1] = Len(a.host) /\ Len(d) = 1
  BY <1>2, <1>3 DEF NameLen, HostAt
<1>6. q \in Seq(Byte) /\ Len(q) = 2
      /\ q[1] = a.port \div (MaxByte + 1) /\ q[2] = a.port % (MaxByte + 1)
  BY <1>1, PortBytes
<1>7. host \in Seq(Byte) /\ Len(host) \in Nat
  BY <1>1, LenProperties
<1>8. HostAt(a) \in {5, 6} /\ (a.atyp = "Domain" <=> HostAt(a) = 6)
  BY DEF HostAt
<1> DEFINE e == ((h \o d) \o host) \o q
<1>9. WithAddress(x, a) = e
  BY DEF WithAddress
<1> HIDE DEF h, d, q, B
<1>10. /\ h \o d \in Seq(Byte) /\ Len(h \o d) = 4 + Len(d)
       /\ \A i \in 1..(4 + Len(d)) : (h \o d)[i] = IF i <= 4 THEN h[i] ELSE d[i - 4]
  <2>1. 4 \in Nat /\ Len(d) \in Nat
    BY <1>5, <1>8
  <2> QED
    BY <1>4, <1>5, <2>1, ConcatAt
<1> DEFINE hd == h \o d
           s == HostAt(a) - 1
           l == Len(host)
<1> HIDE DEF hd
<1>11. /\ hd \in Seq(Byte) /\ Len(hd) = s
       /\ hd[1] = h[1] /\ hd[2] = h[2] /\ hd[3] = h[3] /\ hd[4] = h[4]
       /\ a.atyp = "Domain" => hd[5] = d[1]
  BY <1>5, <1>8, <1>10 DEF hd
<1>12. s \in {4, 5} /\ (a.atyp = "Domain" <=> s = 5)
  BY <1>8
<1> HIDE DEF s, l
<1>14. l \in Nat /\ s \in Nat
  BY <1>7, <1>12 DEF l
<1>13. /\ hd \o host \in Seq(Byte) /\ Len(hd \o host) = s + l
       /\ \A i \in 1..(s + l) : (hd \o host)[i] = IF i <= s THEN hd[i] ELSE host[i - s]
  <2>1. Len(host) = l
    BY DEF l
  <2>2. hd \in Seq(Byte) /\ Len(hd) = s
    BY <1>11
  <2> HIDE DEF host, e
  <2> QED
    BY <1>7, <1>14, <2>1, <2>2, ConcatAt
<1> DEFINE hdh == hd \o host
<1> HIDE DEF hdh
<1>15. /\ hdh \o q \in Seq(Byte) /\ Len(hdh \o q) = s + l + 2
       /\ \A i \in 1..(s + l + 2) : (hdh \o q)[i] = IF i <= s + l THEN hdh[i] ELSE q[i - (s + l)]
  <2>1. hdh \in Seq(Byte) /\ Len(hdh) = s + l /\ s + l \in Nat /\ 2 \in Nat
    BY <1>13, <1>14 DEF hdh
  <2> QED
    BY <1>6, <2>1, ConcatAt
<1>16. hdh \o q = e
  BY DEF hdh, hd
<1> HIDE DEF e
<1>17. \A i \in 1..s : e[i] = hd[i]
  <2>1. \A i \in 1..s : i \in 1..(s + l + 2) /\ i \in 1..(s + l) /\ i <= s + l /\ i <= s
    BY <1>14
  <2> QED
    BY <1>13, <1>15, <1>16, <2>1 DEF hdh
<1>18. \A k \in 1..l : e[s + k] = host[k]
  <2>1. \A k \in 1..l : /\ s + k \in 1..(s + l + 2) /\ s + k \in 1..(s + l) /\ s + k <= s + l
                        /\ ~(s + k <= s) /\ (s + k) - s = k
    BY <1>14
  <2> QED
    BY <1>13, <1>15, <1>16, <2>1 DEF hdh
<1>19. e[s + l + 1] = q[1] /\ e[s + l + 2] = q[2]
  <2>1. /\ s + l + 1 \in 1..(s + l + 2) /\ ~(s + l + 1 <= s + l) /\ (s + l + 1) - (s + l) = 1
        /\ s + l + 2 \in 1..(s + l + 2) /\ ~(s + l + 2 <= s + l) /\ (s + l + 2) - (s + l) = 2
    BY <1>14
  <2> QED
    BY <1>15, <1>16, <2>1
<1>20. HostAt(a) + l = s + l + 1 /\ (HostAt(a) + l) + 1 = s + l + 2
  BY <1>8, <1>14 DEF s
<1>21. e[1] = h[1] /\ e[2] = h[2] /\ e[3] = h[3] /\ e[4] = h[4] /\ (a.atyp = "Domain" => e[5] = d[1])
  <2>1. 1 \in 1..s /\ 2 \in 1..s /\ 3 \in 1..s /\ 4 \in 1..s /\ (a.atyp = "Domain" => 5 \in 1..s)
    BY <1>12
  <2> QED
    BY <1>11, <1>17, <2>1
<1> HIDE DEF host
<1>22. /\ e \in Seq(Byte) /\ Len(e) = (HostAt(a) + l) + 1
       /\ e[HostAt(a) + l] = q[1] /\ e[(HostAt(a) + l) + 1] = q[2]
  BY <1>15, <1>16, <1>19, <1>20
<1> QED
  BY <1>2, <1>3, <1>4, <1>5, <1>6, <1>9, <1>18, <1>21, <1>22 DEF host, s, l

-----------------------------------------------------------------------------
(* The client reads a response by the type of its address.                 *)

\* A part of a sequence, found by its elements.
LEMMA Slice ==
    ASSUME NEW w, NEW s \in Seq(Byte), NEW i \in Nat, NEW j \in Int, j - i + 1 = Len(s),
           \A k \in 1..Len(s) : w[(i - 1) + k] = s[k]
    PROVE  SubSeq(w, i, j) = s
<1>1. Len(s) \in Nat
  BY LenProperties
<1>2. \A k \in i..j : w[k] \in Byte
  <2> SUFFICES ASSUME NEW k \in i..j PROVE w[k] \in Byte
    OBVIOUS
  <2>1. k - i + 1 \in 1..Len(s) /\ (i - 1) + (k - i + 1) = k
    OBVIOUS
  <2> QED
    BY <2>1, ElementOfSeq
<1>3. /\ SubSeq(w, i, j) \in Seq(Byte)
      /\ Len(SubSeq(w, i, j)) = IF i <= j THEN j - i + 1 ELSE 0
      /\ \A k \in 1..(j - i + 1) : SubSeq(w, i, j)[k] = w[i + k - 1]
  BY <1>2, SubSeqProperties
<1>4. (IF i <= j THEN j - i + 1 ELSE 0) = Len(s)
  BY <1>1
<1>5. \A k \in 1..Len(s) : k \in 1..(j - i + 1) /\ i + k - 1 = (i - 1) + k
  BY <1>1
<1>6. \A k \in 1..Len(s) : SubSeq(w, i, j)[k] = s[k]
  BY <1>3, <1>5
<1> QED
  BY <1>3, <1>4, <1>6, SeqEqual

LEMMA ResponseIsWithAddress ==
    ASSUME NEW r
    PROVE  ResponseEncode(r) = WithAddress(Reply[r.reply], r.bnd_address)
BY DEF ResponseEncode, WithAddress, NameLen

LEMMA ResponsesWellFormed ==
    ASSUME NEW r \in Responses
    PROVE  /\ r.reply \in DOMAIN Reply /\ Reply[r.reply] \in Byte
           /\ WellFormed(r.bnd_address)
           /\ r = [reply |-> r.reply, bnd_address |-> r.bnd_address]
           /\ r.bnd_address = Address(r.bnd_address.atyp, r.bnd_address.host, r.bnd_address.port)
<1>1. r \in [reply : DOMAIN Reply, bnd_address : Addresses]
      /\ Len(r.bnd_address.host) \in HostLens(r.bnd_address.atyp)
  BY FramedAssumption
<1>2. r.bnd_address \in Addresses
  BY <1>1
<1>3. WellFormed(r.bnd_address)
  BY <1>1, <1>2 DEF WellFormed
<1>4. \A a \in Addresses : a = Address(a.atyp, a.host, a.port)
  BY DEF Addresses, Address
<1> HIDE DEF Addresses
<1> QED
  BY <1>1, <1>2, <1>3, <1>4, TryFromInverse

LEMMA ResponseRead ==
    ASSUME NEW r \in Responses, NEW rest \in Seq(Byte), wire = ResponseEncode(r) \o rest
    PROVE  /\ ResponseEncode(r) \in Seq(Byte) /\ ResponseLen = Len(ResponseEncode(r))
           /\ ReadResponse = r
<1> DEFINE a == r.bnd_address
           e == ResponseEncode(r)
           n == HostAt(a) + Len(a.host)
<1>1. /\ r.reply \in DOMAIN Reply /\ Reply[r.reply] \in Byte /\ WellFormed(a)
      /\ r = [reply |-> r.reply, bnd_address |-> a]
      /\ a = Address(a.atyp, a.host, a.port)
  BY ResponsesWellFormed
<1>2. e = WithAddress(Reply[r.reply], a)
  BY ResponseIsWithAddress
<1>3. wire = e \o rest
  OBVIOUS
<1> HIDE DEF e, a
<1>4. /\ e \in Seq(Byte) /\ Len(e) = n + 1 /\ Len(a.host) \in Byte
      /\ e[2] = Reply[r.reply] /\ e[4] = AddressType[a.atyp]
      /\ a.atyp = "Domain" => e[5] = Len(a.host)
      /\ \A k \in 1..Len(a.host) : e[(HostAt(a) - 1) + k] = a.host[k]
      /\ e[n] = a.port \div (MaxByte + 1) /\ e[n + 1] = a.port % (MaxByte + 1)
  BY <1>1, <1>2, FieldsOfAddress
<1>5. /\ a.host \in Seq(Byte) /\ a.atyp \in DOMAIN AddressType
      /\ a.port \in 0..((MaxByte + 1) * (MaxByte + 1) - 1)
      /\ Len(a.host) \in HostLens(a.atyp)
  BY <1>1 DEF WellFormed, Addresses
<1>6. a.atyp \in {"Ipv4", "Domain", "Ipv6"} /\ Len(a.host) \in Nat
  BY <1>5, LenProperties DEF AddressType
<1>7. HostAt(a) \in {5, 6} /\ n \in Nat /\ n >= 5 /\ (Len(a.host) >= 1 \/ HostAt(a) = 6)
  <2>1. a.atyp # "Domain" => Len(a.host) >= 1
    <3>1. CASE a.atyp = "Ipv4"
      BY <1>5, <3>1, CodecAssumption DEF HostLens
    <3>2. CASE a.atyp = "Ipv6"
      BY <1>5, <3>2, CodecAssumption DEF HostLens
    <3> QED
      BY <1>6, <3>1, <3>2
  <2>2. HostAt(a) \in {5, 6} /\ (a.atyp = "Domain" => HostAt(a) = 6)
    BY DEF HostAt
  <2> QED
    BY <1>6, <2>1, <2>2
<1> HIDE DEF n
<1>8. /\ Len(wire) = (n + 1) + Len(rest) /\ Len(rest) \in Nat
      /\ \A i \in 1..(n + 1) : wire[i] = e[i]
  <2>1. n + 1 \in Nat /\ Len(rest) \in Nat
    BY <1>7, LenProperties
  <2>2. \A i \in 1..(n + 1) : i \in 1..((n + 1) + Len(rest)) /\ i <= n + 1
    BY <2>1
  <2>3. /\ Len(e \o rest) = (n + 1) + Len(rest)
        /\ \A i \in 1..((n + 1) + Len(rest)) :
              (e \o rest)[i] = IF i <= n + 1 THEN e[i] ELSE rest[i - (n + 1)]
    BY <1>4, <2>1, ConcatAt
  <2> QED
    BY <1>3, <2>1, <2>2, <2>3
<1>9. n = HostAt(a) + Len(a.host)
  BY DEF n
<1>10. /\ wire[2] = Reply[r.reply] /\ wire[4] = AddressType[a.atyp] /\ wire[5] = e[5]
       /\ wire[n] = a.port \div (MaxByte + 1) /\ wire[n + 1] = a.port % (MaxByte + 1)
       /\ \A k \in 1..Len(a.host) : wire[(HostAt(a) - 1) + k] = a.host[k]
  <2>1. 2 \in 1..(n + 1) /\ 4 \in 1..(n + 1) /\ 5 \in 1..(n + 1) /\ n \in 1..(n + 1)
        /\ n + 1 \in 1..(n + 1)
    BY <1>7
  <2>2. \A k \in 1..Len(a.host) : (HostAt(a) - 1) + k \in 1..(n + 1)
    <3>1. \A t \in {5, 6}, l \in Nat : \A k \in 1..l : (t - 1) + k \in 1..((t + l) + 1)
      OBVIOUS
    <3> QED
      BY <1>6, <1>7, <1>9, <3>1
  <2> QED
    BY <1>4, <1>8, <2>1, <2>2
<1>11. ResponseLen = n + 1
  <2>1. ~(Len(wire) < 5)
    BY <1>7, <1>8
  <2>2. AddressType.Ipv4 = 1 /\ AddressType.Ipv6 = 4 /\ AddressType.Domain = 3
    BY DEF AddressType
  <2>3. CASE a.atyp = "Ipv4"
    <3>1. wire[4] = AddressType.Ipv4 /\ HostAt(a) = 5 /\ Len(a.host) = Ipv4Len
      BY <1>5, <1>10, <2>3 DEF HostLens, HostAt
    <3>2. ResponseLen = 6 + Ipv4Len
      BY <2>1, <2>2, <3>1 DEF ResponseLen
    <3> QED
      BY <1>9, <3>1, <3>2, CodecAssumption
  <2>4. CASE a.atyp = "Ipv6"
    <3>1. wire[4] = AddressType.Ipv6 /\ HostAt(a) = 5 /\ Len(a.host) = Ipv6Len
      BY <1>5, <1>10, <2>4 DEF HostLens, HostAt
    <3>2. ResponseLen = 6 + Ipv6Len
      BY <2>1, <2>2, <3>1 DEF ResponseLen
    <3> QED
      BY <1>9, <3>1, <3>2, CodecAssumption
  <2>5. CASE a.atyp = "Domain"
    <3>1. wire[4] = 3 /\ HostAt(a) = 6 /\ wire[5] = Len(a.host)
      BY <1>4, <1>10, <2>2, <2>5 DEF HostAt
    <3>2. ResponseLen = 7 + wire[5]
      BY <2>1, <2>2, <3>1 DEF ResponseLen
    <3> QED
      BY <1>6, <1>9, <3>1, <3>2
  <2> QED
    BY <1>6, <2>3, <2>4, <2>5
<1>12. TryFrom(AddressType, wire[4]) = a.atyp /\ TryFrom(Reply, wire[2]) = r.reply
  BY <1>1, <1>5, <1>10, TryFromInverse
<1>13. SubSeq(wire, HostAt(a), (n + 1) - 2) = a.host
  <2>1. HostAt(a) \in Nat /\ (n + 1) - 2 \in Int
    BY <1>7
  <2>2. ((n + 1) - 2) - HostAt(a) + 1 = Len(a.host)
    <3>1. \A t \in {5, 6}, l \in Nat : (((t + l) + 1) - 2) - t + 1 = l
      OBVIOUS
    <3> QED
      BY <1>6, <1>7, <1>9, <3>1
  <2> QED
    BY <1>5, <1>10, <2>1, <2>2, Slice
<1>14. wire[(n + 1) - 1] * (MaxByte + 1) + wire[n + 1] = a.port
  <2>1. (n + 1) - 1 = n
    BY <1>7
  <2> QED
    BY <1>5, <1>10, <2>1, PortBytes
<1>15. ReadResponse = r
  <2>1. ReadResponse = [reply |-> r.reply, bnd_address |-> Address(a.atyp, a.host, a.port)]
    BY <1>11, <1>12, <1>13, <1>14 DEF ReadResponse, HostAt
  <2> QED
    BY <1>1, <2>1
<1> QED
  BY <1>4, <1>11, <1>15 DEF e

-----------------------------------------------------------------------------
(* What the server says in each phase, and the bytes of it on their way.   *)

AsksCredentials(m) == m = [method |-> "UsernamePassword"]

Selections == [method : DOMAIN AuthMethod]
Statuses   == [status : DOMAIN AuthStatus]
Messages   == Selections \cup Statuses \cup Responses

\* The messages that may be the i-th of those the server sends.
Expected(s, i) ==
    IF i = 1 THEN Selections
    ELSE IF i = 2 /\ AsksCredentials(s[1]) THEN Statuses
    ELSE Responses

\* The bytes of the i-th.
Encoding(s, i) ==
    IF i = 1 THEN GreetingEncode(s[i])
    ELSE IF i = 2 /\ AsksCredentials(s[1]) THEN AuthEncode(s[i])
    ELSE ResponseEncode(s[i])

SaidInv ==
    /\ said \in Seq(Messages)
    /\ \A i \in 1..Len(said) : said[i] \in Expected(said, i)
    /\ pc # "closed" /\ codec = "greeting" => said = <<>>
    /\ pc # "closed" /\ codec = "auth" => Len(said) = 1 /\ AsksCredentials(said[1])
    /\ pc # "closed" /\ codec = "request" =>
         Len(said) >= 1 /\ (AsksCredentials(said[1]) => Len(said) >= 2)

HeardInv ==
    /\ heard \in Seq(Messages)
    /\ Len(heard) <= Len(said)
    /\ \A i \in 1..Len(heard) : heard[i] = said[i]

\* left[i] is what is left of the wire when the client has heard i messages.
Leaves(left) ==
    /\ left \in [Len(heard)..Len(said) -> Seq(Byte)]
    /\ left[Len(heard)] = wire
    /\ left[Len(said)] = <<>>
    /\ \A i \in (Len(heard) + 1)..Len(said) : left[i - 1] = Encoding(said, i) \o left[i]

WireInv == \E left : Leaves(left)

DialogueInv == SaidInv /\ HeardInv /\ WireInv

LEMMA DialogueInit == Init => DialogueInv
<1> SUFFICES ASSUME Init PROVE DialogueInv
  OBVIOUS
<1>1. said = <<>> /\ heard = <<>> /\ wire = <<>> /\ codec = "greeting" /\ Len(said) = 0 /\ Len(heard) = 0
  BY DEF Init
<1>2. SaidInv
  BY <1>1 DEF SaidInv
<1>3. HeardInv
  BY <1>1 DEF HeardInv
<1>4. Leaves([i \in 0..0 |-> <<>>])
  BY <1>1 DEF Leaves
<1> QED
  BY <1>2, <1>3, <1>4 DEF DialogueInv, WireInv

LEMMA Lengths ==
    ASSUME DialogueInv
    PROVE  Len(said) \in Nat /\ Len(heard) \in Nat /\ Len(heard) <= Len(said)
BY LenProperties DEF DialogueInv, SaidInv, HeardInv

\* Each message is encoded in at least a byte.
LEMMA EncodingType ==
    ASSUME NEW s, NEW i, s[i] \in Expected(s, i)
    PROVE  Encoding(s, i) \in Seq(Byte) /\ Len(Encoding(s, i)) >= 1
<1>0. SOCKS5_VER \in Byte /\ SOCKS5_AUTH_VER \in Byte
  BY CodecAssumption DEF SOCKS5_VER, SOCKS5_AUTH_VER, Byte
<1>1. CASE i = 1
  <2>1. s[i].method \in DOMAIN AuthMethod
    BY <1>1 DEF Expected, Selections
  <2> QED
    BY <1>0, <1>1, <2>1, TryFromInverse DEF Encoding, GreetingEncode
<1>2. CASE i # 1 /\ i = 2 /\ AsksCredentials(s[1])
  <2>1. s[i].status \in DOMAIN AuthStatus
    BY <1>2 DEF Expected, Statuses
  <2> QED
    BY <1>0, <1>2, <2>1, TryFromInverse DEF Encoding, AuthEncode
<1>3. CASE i # 1 /\ ~(i = 2 /\ AsksCredentials(s[1]))
  <2> DEFINE r == s[i]
             a == r.bnd_address
             e == WithAddress(Reply[r.reply], a)
  <2>1. r \in Responses /\ Encoding(s, i) = e
    BY <1>3, ResponseIsWithAddress DEF Expected, Encoding
  <2>2. Reply[r.reply] \in Byte /\ WellFormed(a)
    BY <2>1, ResponsesWellFormed
  <2>3. e \in Seq(Byte) /\ Len(e) = (HostAt(a) + Len(a.host)) + 1 /\ Len(a.host) \in Byte
    BY <2>2, FieldsOfAddress
  <2>4. HostAt(a) \in {5, 6}
    BY DEF HostAt
  <2> HIDE DEF e
  <2>5. \A t \in {5, 6}, l \in Nat : (t + l) + 1 >= 1
    OBVIOUS
  <2>6. Len(a.host) \in Nat
    BY <2>3 DEF Byte
  <2> QED
    BY <2>1, <2>3, <2>4, <2>5, <2>6
<1> QED
  BY <1>1, <1>2, <1>3

\* The server says one more message.
LEMMA SayInv ==
    ASSUME DialogueInv, NEW m \in Messages, NEW bytes,
           said' = Append(said, m), wire' = wire \o bytes, heard' = heard,
           m \in Expected(said', Len(said) + 1),
           bytes = Encoding(said', Len(said) + 1)
    PROVE  /\ HeardInv' /\ WireInv'
           /\ said' \in Seq(Messages) /\ Len(said') = Len(said) + 1 /\ said'[Len(said) + 1] = m
           /\ \A i \in 1..Len(said) : said'[i] = said[i]
           /\ \A i \in 1..Len(said') : said'[i] \in Expected(said', i)
<1>0. PICK n \in Nat, h \in Nat : n = Len(said) /\ h = Len(heard) /\ h <= n
  BY Lengths
<1>1. /\ said' \in Seq(Messages) /\ Len(said') = n + 1 /\ said'[n + 1] = m
      /\ \A i \in 1..n : said'[i] = said[i]
  BY <1>0, AppendProperties DEF DialogueInv, SaidInv
<1>2. HeardInv'
  <2>1. \A i \in 1..h : i \in 1..n
    BY <1>0
  <2> QED
    BY <1>0, <1>1, <2>1 DEF DialogueInv, HeardInv
<1>3. \A i \in 1..n : /\ Expected(said', i) = Expected(said, i)
                      /\ Encoding(said', i) = Encoding(said, i)
  <2>1. \A i \in 1..n : i = 2 => 1 \in 1..n
    OBVIOUS
  <2>2. \A i \in 1..n : i = 2 => said'[1] = said[1]
    BY <1>1, <2>1
  <2> QED
    BY <1>1, <2>2, Zenon DEF Expected, Encoding
<1>4. \A i \in 1..(n + 1) : said'[i] \in Expected(said', i)
  <2>1. \A i \in 1..(n + 1) : i \in 1..n \/ i = n + 1
    OBVIOUS
  <2>2. \A i \in 1..n : said[i] \in Expected(said, i)
    BY <1>0 DEF DialogueInv, SaidInv
  <2> QED
    BY <1>0, <1>1, <1>3, <2>1, <2>2
<1>5. PICK left : Leaves(left)
  BY DEF DialogueInv, WireInv
<1>6. /\ left \in [h..n -> Seq(Byte)] /\ left[h] = wire /\ left[n] = <<>>
      /\ \A i \in (h + 1)..n : left[i - 1] = Encoding(said, i) \o left[i]
  BY <1>0, <1>5 DEF Leaves
<1>7. bytes \in Seq(Byte)
  <2>1. n + 1 \in 1..(n + 1)
    OBVIOUS
  <2> QED
    BY <1>0, <1>4, <2>1, EncodingType
<1> DEFINE more == [i \in h..(n + 1) |-> IF i = n + 1 THEN <<>> ELSE left[i] \o bytes]
<1>8. more \in [h..(n + 1) -> Seq(Byte)]
  <2>1. \A i \in h..(n + 1) : i # n + 1 => i \in h..n
    OBVIOUS
  <2>2. \A i \in h..n : left[i] \o bytes \in Seq(Byte)
    BY <1>6, <1>7, ConcatProperties
  <2>3. <<>> \in Seq(Byte)
    OBVIOUS
  <2> QED
    BY <2>1, <2>2, <2>3
<1>9. more[h] = wire' /\ more[n + 1] = <<>> /\ \A i \in h..n : more[i] = left[i] \o bytes
  <2>1. h \in h..n /\ n + 1 \in h..(n + 1) /\ \A i \in h..n : i # n + 1 /\ i \in h..(n + 1)
    BY <1>0
  <2> QED
    BY <1>6, <2>1
<1>10. ASSUME NEW i \in (h + 1)..(n + 1)
       PROVE  more[i - 1] = Encoding(said', i) \o more[i]
  <2>1. CASE i = n + 1
    <3>1. i - 1 = n /\ n \in h..n
      BY <1>0, <2>1
    <3>2. more[n] = <<>> \o bytes
      BY <1>6, <1>9, <3>1
    <3>3. <<>> \o bytes = bytes /\ bytes \o <<>> = bytes
      BY <1>7, ConcatEmptySeq
    <3> HIDE DEF more
    <3> QED
      BY <1>0, <1>9, <2>1, <3>1, <3>2, <3>3
  <2>2. CASE i # n + 1
    <3>1. i \in (h + 1)..n /\ i \in 1..n /\ i \in h..n /\ i - 1 \in h..n
      BY <1>0, <2>2
    <3>2. said[i] \in Expected(said, i)
      BY <1>0, <3>1 DEF DialogueInv, SaidInv
    <3>3. Encoding(said, i) \in Seq(Byte) /\ left[i] \in Seq(Byte)
      BY <1>6, <3>1, <3>2, EncodingType
    <3>4. left[i - 1] = Encoding(said, i) \o left[i]
      BY <1>6, <3>1
    <3>5. (Encoding(said, i) \o left[i]) \o bytes = Encoding(said, i) \o (left[i] \o bytes)
      <4>1. \A x, y, z \in Seq(Byte) : (x \o y) \o z = x \o (y \o z)
        BY ConcatAssociative
      <4> QED
        BY <1>7, <3>3, <4>1, Zenon
    <3> HIDE DEF more
    <3> QED
      BY <1>3, <1>9, <3>1, <3>4, <3>5
  <2> QED
    BY <2>1, <2>2
<1> HIDE DEF more
<1>11. WireInv'
  <2>1. Len(heard)' = h /\ Len(said)' = n + 1
    BY <1>0, <1>1
  <2>2. Leaves(more)'
    BY <1>8, <1>9, <1>10, <2>1 DEF Leaves
  <2> QED
    BY <2>2 DEF WireInv
<1> QED
  BY <1>0, <1>1, <1>2, <1>4, <1>11

\* The client reads the next message as it was said, and leaves the rest.
LEMMA HearInv == DialogueInv /\ ClientHears => HeardInv' /\ WireInv'
<1> SUFFICES ASSUME DialogueInv, ClientHears PROVE HeardInv' /\ WireInv'
  OBVIOUS
<1>0. PICK n \in Nat, h \in Nat : n = Len(said) /\ h = Len(heard) /\ h <= n
  BY Lengths
<1>1. PICK left : Leaves(left)
  BY DEF DialogueInv, WireInv
<1>2. /\ left \in [h..n -> Seq(Byte)] /\ left[h] = wire /\ left[n] = <<>>
      /\ \A i \in (h + 1)..n : left[i - 1] = Encoding(said, i) \o left[i]
  BY <1>0, <1>1 DEF Leaves
<1>3. h < n
  BY <1>0, <1>2 DEF ClientHears
<1> DEFINE e == Encoding(said, h + 1)
           rest == left[h + 1]
<1>4. h + 1 \in (h + 1)..n /\ h + 1 \in h..n /\ (h + 1) - 1 = h /\ h + 1 \in 1..n
  BY <1>0, <1>3
<1>5. wire = e \o rest /\ rest \in Seq(Byte)
  BY <1>2, <1>4
<1>6. said[h + 1] \in Expected(said, h + 1)
  BY <1>0, <1>4 DEF DialogueInv, SaidInv
<1>7. e \in Seq(Byte) /\ Len(e) \in Nat
  BY <1>6, EncodingType
<1>8. /\ Len(wire) = Len(e) + Len(rest) /\ Len(rest) \in Nat
      /\ \A i \in 1..(Len(e) + Len(rest)) : wire[i] = IF i <= Len(e) THEN e[i] ELSE rest[i - Len(e)]
  <2> HIDE DEF e, rest
  <2>1. Len(rest) \in Nat
    BY <1>5, LenProperties
  <2> QED
    BY <1>5, <1>7, <2>1, ConcatAt
<1>9. \A i \in 1..Len(e) : wire[i] = e[i]
  <2> HIDE DEF e, rest
  <2>1. \A i \in 1..Len(e) : i \in 1..(Len(e) + Len(rest)) /\ i <= Len(e)
    BY <1>7, <1>8
  <2> QED
    BY <1>8, <2>1
<1>10. Hear(Len(e), said[h + 1])
  <2> DEFINE m == said[h + 1]
  <2>1. CASE h = 0
    <3>1. heard = <<>>
      BY <1>0, <2>1, EmptySeq DEF DialogueInv, HeardInv
    <3>2. m \in Selections /\ e = <<SOCKS5_VER, AuthMethod[m.method]>>
      BY <1>6, <2>1 DEF Expected, Encoding, GreetingEncode
    <3>3. Len(e) = 2 /\ e[2] = AuthMethod[m.method]
      BY <3>2
    <3>4. wire[2] = e[2]
      BY <1>9, <3>3
    <3>5. m = [method |-> m.method] /\ m.method \in DOMAIN AuthMethod
      BY <3>2 DEF Selections
    <3>6. TryFrom(AuthMethod, wire[2]) = m.method
      BY <3>3, <3>4, <3>5, TryFromInverse
    <3>7. Hear(2, [method |-> TryFrom(AuthMethod, wire[2])])
      BY <3>1, Zenon DEF ClientHears
    <3> QED
      BY <3>3, <3>5, <3>6, <3>7
  <2>2. CASE h = 1 /\ AsksCredentials(said[1])
    <3>1. heard = <<[method |-> "UsernamePassword"]>>
      <4>1. heard[1] = said[1] /\ heard \in Seq(Messages) /\ Len(heard) = 1
        BY <1>0, <2>2 DEF DialogueInv, HeardInv
      <4> QED
        BY <2>2, <4>1 DEF AsksCredentials
    <3>2. m \in Statuses /\ e = <<SOCKS5_AUTH_VER, AuthStatus[m.status]>>
      BY <1>6, <2>2 DEF Expected, Encoding, AuthEncode
    <3>3. Len(e) = 2 /\ e[2] = AuthStatus[m.status]
      BY <3>2
    <3>4. wire[2] = e[2]
      BY <1>9, <3>3
    <3>5. m = [status |-> m.status] /\ m.status \in DOMAIN AuthStatus
      BY <3>2 DEF Statuses
    <3>6. TryFrom(AuthStatus, wire[2]) = m.status
      BY <3>3, <3>4, <3>5, TryFromInverse
    <3>7. Hear(2, [status |-> TryFrom(AuthStatus, wire[2])])
      <4>1. heard # <<>>
        BY <3>1
      <4> QED
        BY <3>1, <4>1, Zenon DEF ClientHears
    <3> QED
      BY <3>3, <3>5, <3>6, <3>7
  <2>3. CASE ~(h = 0) /\ ~(h = 1 /\ AsksCredentials(said[1]))
    <3>1. heard # <<>> /\ heard # <<[method |-> "UsernamePassword"]>>
      <4>1. heard # <<>>
        BY <1>0, <2>3
      <4>2. ASSUME heard = <<[method |-> "UsernamePassword"]>> PROVE FALSE
        <5>1. Len(heard) = 1 /\ heard[1] = [method |-> "UsernamePassword"] /\ 1 \in 1..Len(heard)
          BY <4>2
        <5>2. heard[1] = said[1]
          BY <5>1 DEF DialogueInv, HeardInv
        <5> QED
          BY <1>0, <2>3, <5>1, <5>2 DEF AsksCredentials
      <4> QED
        BY <4>1, <4>2
    <3>2. h + 1 # 1 /\ ~(h + 1 = 2 /\ AsksCredentials(said[1]))
      BY <2>3
    <3>3. m \in Responses /\ e = ResponseEncode(m)
      BY <1>6, <3>2, Zenon DEF Expected, Encoding
    <3>4. ResponseLen = Len(e) /\ ReadResponse = m
      BY <1>5, <3>3, ResponseRead
    <3>5. Hear(ResponseLen, ReadResponse)
      BY <3>1, Zenon DEF ClientHears
    <3> QED
      BY <3>4, <3>5
  <2> QED
    BY <2>1, <2>2, <2>3
<1>11. /\ heard' = Append(heard, said[h + 1]) /\ said' = said
      /\ wire' = SubSeq(wire, Len(e) + 1, Len(wire))
  BY <1>10 DEF Hear
<1>12. wire' = rest
  <2> DEFINE i == Len(e) + 1
             j == Len(wire)
  <2> HIDE DEF e, rest
  <2>1. i \in Nat /\ j \in Int /\ j - i + 1 = Len(rest)
    BY <1>7, <1>8
  <2>2. \A k \in 1..Len(rest) : /\ (i - 1) + k \in 1..(Len(e) + Len(rest))
                                /\ ~((i - 1) + k <= Len(e))
                                /\ ((i - 1) + k) - Len(e) = k
    BY <1>7, <1>8
  <2>3. \A k \in 1..Len(rest) : wire[(i - 1) + k] = rest[k]
    BY <1>8, <2>2
  <2> HIDE DEF i, j
  <2>4. SubSeq(wire, i, j) = rest
    BY <1>5, <2>1, <2>3, Slice
  <2> QED
    BY <1>11, <2>4 DEF i, j
<1>13. HeardInv'
  <2>1. said[h + 1] \in Messages
    BY <1>0, <1>4, ElementOfSeq DEF DialogueInv, SaidInv
  <2>2. /\ heard' \in Seq(Messages) /\ Len(heard') = h + 1 /\ heard'[h + 1] = said[h + 1]
        /\ \A i \in 1..h : heard'[i] = heard[i]
    BY <1>0, <1>11, <2>1, AppendProperties DEF DialogueInv, HeardInv
  <2>3. \A i \in 1..h : heard[i] = said[i]
    BY <1>0 DEF DialogueInv, HeardInv
  <2>4. \A i \in 1..(h + 1) : i \in 1..h \/ i = h + 1
    BY <1>0
  <2>5. h + 1 <= n
    BY <1>0, <1>3
  <2> QED
    BY <1>0, <1>11, <2>2, <2>3, <2>4, <2>5 DEF HeardInv
<1>14. WireInv'
  <2> DEFINE more == [i \in (h + 1)..n |-> left[i]]
  <2>1. \A i \in (h + 1)..n : i \in h..n
    BY <1>0
  <2>2. more \in [(h + 1)..n -> Seq(Byte)] /\ more[h + 1] = rest /\ more[n] = <<>>
    <3>1. n \in (h + 1)..n
      BY <1>0, <1>3
    <3> QED
      BY <1>2, <1>4, <2>1, <3>1
  <2>3. \A i \in ((h + 1) + 1)..n : more[i - 1] = Encoding(said, i) \o more[i]
    <3>1. \A i \in ((h + 1) + 1)..n : i \in (h + 1)..n /\ i - 1 \in (h + 1)..n
      BY <1>0
    <3> QED
      BY <1>2, <3>1
  <2>4. Len(heard)' = h + 1 /\ Len(said)' = n
    BY <1>0, <1>11, AppendProperties DEF DialogueInv, HeardInv
  <2> HIDE DEF more, rest
  <2>5. Leaves(more)'
    BY <1>11, <1>12, <2>2, <2>3, <2>4 DEF Leaves
  <2> QED
    BY <2>5 DEF WireInv
<1> QED
  BY <1>13, <1>14

\* What SayInv asks of the steps in which the server speaks.
LEMMA SelectInv == DialogueInv /\ SelectMethod => DialogueInv'
<1> SUFFICES ASSUME DialogueInv, SelectMethod PROVE DialogueInv'
  OBVIOUS
<1>1. PICK m \in {"UsernamePassword", "NoAuthenticationRequired", "NoAcceptableMethods"} :
        /\ Say([method |-> m], GreetingEncode([method |-> m]))
        /\ CASE m = "UsernamePassword"         -> IntoState("auth")
             [] m = "NoAuthenticationRequired" -> IntoState("request")
             [] OTHER                          -> LastAnswer
  BY DEF SelectMethod
<1> DEFINE x == [method |-> m]
<1>2. said = <<>> /\ Len(said) = 0
  BY DEF SelectMethod, DialogueInv, SaidInv
<1>3. said' = Append(said, x) /\ wire' = wire \o GreetingEncode(x) /\ heard' = heard
  BY <1>1 DEF Say
<1>4. x \in Selections /\ x \in Messages
  BY DEF Selections, Messages, AuthMethod
<1>5. Expected(said', Len(said) + 1) = Selections
  BY <1>2 DEF Expected
<1>6. said'[1] = x /\ Len(said') = 1
  BY <1>2, <1>3
<1>7. GreetingEncode(x) = Encoding(said', Len(said) + 1)
  BY <1>2, <1>6 DEF Encoding
<1>8. HeardInv' /\ WireInv' /\ said' \in Seq(Messages)
      /\ \A i \in 1..Len(said') : said'[i] \in Expected(said', i)
  BY <1>3, <1>4, <1>5, <1>7, SayInv
<1>9. \/ pc' = "closed"
      \/ codec' = "auth" /\ AsksCredentials(x)
      \/ codec' = "request" /\ ~AsksCredentials(x)
  <2>1. CASE m = "UsernamePassword"
    BY <1>1, <2>1 DEF IntoState, AsksCredentials
  <2>2. CASE m = "NoAuthenticationRequired"
    BY <1>1, <2>2 DEF IntoState, AsksCredentials
  <2>3. CASE m = "NoAcceptableMethods"
    BY <1>1, <2>3 DEF LastAnswer
  <2> QED
    BY <2>1, <2>2, <2>3
<1>10. SaidInv'
  BY <1>6, <1>8, <1>9 DEF SaidInv
<1> QED
  BY <1>8, <1>10 DEF DialogueInv

LEMMA StatusInv == DialogueInv /\ AnswerCredentials => DialogueInv'
<1> SUFFICES ASSUME DialogueInv, AnswerCredentials PROVE DialogueInv'
  OBVIOUS
<1>1. PICK s \in {"Success", "Failure"} :
        /\ Say([status |-> s], AuthEncode([status |-> s]))
        /\ IF s = "Success" THEN IntoState("request") ELSE LastAnswer
  BY DEF AnswerCredentials
<1> DEFINE x == [status |-> s]
<1>2. Len(said) = 1 /\ AsksCredentials(said[1])
  BY DEF AnswerCredentials, DialogueInv, SaidInv
<1>3. said' = Append(said, x) /\ wire' = wire \o AuthEncode(x) /\ heard' = heard
  BY <1>1 DEF Say
<1>4. x \in Statuses /\ x \in Messages
  BY DEF Statuses, Messages, AuthStatus
<1>5. Len(said') = 2 /\ said'[2] = x /\ said'[1] = said[1]
  <2>1. 1 \in 1..Len(said) /\ Len(said) + 1 = 2 /\ said \in Seq(Messages)
    BY <1>2 DEF DialogueInv, SaidInv
  <2> HIDE DEF x
  <2> QED
    BY <1>3, <1>4, <2>1, AppendProperties
<1>6. Len(said) + 1 = 2
  BY <1>2
<1>7. Expected(said', 2) = Statuses /\ AuthEncode(x) = Encoding(said', 2)
  BY <1>2, <1>5 DEF Expected, Encoding
<1>8. HeardInv' /\ WireInv' /\ said' \in Seq(Messages)
      /\ \A i \in 1..Len(said') : said'[i] \in Expected(said', i)
  BY <1>3, <1>4, <1>6, <1>7, SayInv
<1>9. pc' = "closed" \/ codec' = "request"
  BY <1>1 DEF IntoState, LastAnswer
<1>10. SaidInv'
  BY <1>5, <1>8, <1>9 DEF SaidInv
<1> QED
  BY <1>8, <1>10 DEF DialogueInv

LEMMA RespondInv == DialogueInv /\ Respond => DialogueInv'
<1> SUFFICES ASSUME DialogueInv, Respond PROVE DialogueInv'
  OBVIOUS
<1>1. PICK r \in Responses :
        /\ Say(r, ResponseEncode(r))
        /\ pc' = "closed" \/ UNCHANGED <<codec, pc>>
  BY DEF Respond, LastAnswer
<1>0. PICK n \in Nat : n = Len(said)
  BY Lengths
<1>2. n >= 1 /\ (AsksCredentials(said[1]) => n >= 2) /\ codec = "request"
  BY <1>0 DEF Respond, DialogueInv, SaidInv
<1>3. said' = Append(said, r) /\ wire' = wire \o ResponseEncode(r) /\ heard' = heard
  BY <1>1 DEF Say
<1>4. r \in Messages
  BY DEF Messages
<1>5. Len(said') = n + 1 /\ said'[n + 1] = r /\ said'[1] = said[1]
  <2>1. 1 \in 1..n
    BY <1>2
  <2> QED
    BY <1>0, <1>3, <1>4, <2>1, AppendProperties DEF DialogueInv, SaidInv
<1>6. n + 1 # 1 /\ ~(n + 1 = 2 /\ AsksCredentials(said'[1]))
  BY <1>2, <1>5
<1>7. Expected(said', n + 1) = Responses /\ ResponseEncode(r) = Encoding(said', n + 1)
  BY <1>5, <1>6 DEF Expected, Encoding
<1>8. HeardInv' /\ WireInv' /\ said' \in Seq(Messages)
      /\ \A i \in 1..Len(said') : said'[i] \in Expected(said', i)
  BY <1>0, <1>3, <1>4, <1>7, SayInv
<1>9. pc' = "closed" \/ codec' = "request"
  BY <1>1, <1>2
<1>10. SaidInv'
  <2>1. n + 1 >= 1 /\ (AsksCredentials(said'[1]) => n + 1 >= 2)
    BY <1>2, <1>5
  <2> QED
    BY <1>5, <1>8, <1>9, <2>1 DEF SaidInv
<1> QED
  BY <1>8, <1>10 DEF DialogueInv

\* Steps in which nobody speaks or listens.
Silent == UNCHANGED <<said, wire, heard, codec>> /\ (pc' = "closed" \/ pc # "closed" \/ pc' = pc)

LEMMA SilentInv == DialogueInv /\ Silent => DialogueInv'
BY DEF DialogueInv, SaidInv, HeardInv, WireInv, Leaves, Silent

LEMMA DialogueNext == DialogueInv /\ [Next]_vars => DialogueInv'
<1> SUFFICES ASSUME DialogueInv, [Next]_vars PROVE DialogueInv'
  OBVIOUS
<1>1. CASE Silent
  BY <1>1, SilentInv
<1>2. CASE SelectMethod
  BY <1>2, SelectInv
<1>3. CASE AnswerCredentials
  BY <1>3, StatusInv
<1>4. CASE Respond
  BY <1>4, RespondInv
<1>5. CASE ClientHears
  <2>1. UNCHANGED <<said, codec, pc>>
    BY <1>5 DEF ClientHears, Hear
  <2>2. SaidInv'
    BY <2>1 DEF DialogueInv, SaidInv
  <2> QED
    BY <1>5, <2>2, HearInv DEF DialogueInv
<1>6. Read => Silent
  BY DEF Read, Silent, replyVars
<1>7. ReadEnds => Silent
  BY DEF ReadEnds, Close, Silent, replyVars
<1>8. DecodeIncomplete => Silent
  BY DEF DecodeIncomplete, Silent, replyVars
<1>9. DecodeFails => Silent
  BY DEF DecodeFails, Close, Silent, replyVars
<1>10. DecodeFrame => Silent
  BY DEF DecodeFrame, Silent, replyVars
<1>11. UNCHANGED vars => Silent
  BY DEF vars, Silent
<1> QED
  BY <1>1, <1>2, <1>3, <1>4, <1>5, <1>6, <1>7, <1>8, <1>9, <1>10, <1>11 DEF Next, Terminated

LEMMA DialogueUnderstood == DialogueInv => RepliesUnderstood
<1> SUFFICES ASSUME DialogueInv PROVE RepliesUnderstood
  OBVIOUS
<1>0. PICK n \in Nat, h \in Nat : n = Len(said) /\ h = Len(heard) /\ h <= n
  BY Lengths
<1>1. /\ said \in Seq(Messages) /\ heard \in Seq(Messages)
      /\ \A i \in 1..h : heard[i] = said[i]
  BY <1>0 DEF DialogueInv, SaidInv, HeardInv
<1>2. SubSeq(said, 1, h) = heard /\ SubSeq(heard, 1, h) = heard
  <2>1. 1 \in Int /\ h \in Int /\ h - 1 + 1 = h /\ (IF 1 <= h THEN h - 1 + 1 ELSE 0) = h
        /\ \A k \in 1..h : k \in 1..n /\ 1 + k - 1 = k
    BY <1>0
  <2>2. \A k \in 1..h : said[k] \in Messages
    BY <1>0, <1>1, <2>1, ElementOfSeq
  <2>3. /\ SubSeq(said, 1, h) \in Seq(Messages) /\ Len(SubSeq(said, 1, h)) = h
        /\ \A k \in 1..h : SubSeq(said, 1, h)[k] = said[k]
    BY <2>1, <2>2, SubSeqProperties
  <2>4. SubSeq(said, 1, h) = heard
    BY <1>0, <1>1, <2>3, SeqEqual
  <2> QED
    BY <1>0, <1>1, <2>4, SubSeqFull
<1>3. IsPrefix(heard, said)
  BY <1>0, <1>2 DEF IsPrefix
<1>4. ASSUME wire = <<>> PROVE heard = said
  <2>1. PICK left : Leaves(left)
    BY DEF DialogueInv, WireInv
  <2>2. CASE h < n
    <3>1. h + 1 \in (h + 1)..n /\ h + 1 \in h..n /\ (h + 1) - 1 = h /\ h + 1 \in 1..n
      BY <2>2
    <3>2. wire = Encoding(said, h + 1) \o left[h + 1] /\ left[h + 1] \in Seq(Byte)
      BY <1>0, <2>1, <3>1 DEF Leaves
    <3>3. said[h + 1] \in Expected(said, h + 1)
      BY <1>0, <3>1 DEF DialogueInv, SaidInv
    <3>4. Encoding(said, h + 1) \in Seq(Byte) /\ Len(Encoding(said, h + 1)) >= 1
      BY <3>3, EncodingType
    <3>5. Encoding(said, h + 1) = <<>>
      BY <1>4, <3>2, <3>4, ConcatSimplifications
    <3> QED
      BY <3>4, <3>5
  <2>3. CASE h = n
    BY <1>0, <1>1, <2>3, SeqEqual
  <2> QED
    BY <1>0, <2>2, <2>3
<1> QED
  BY <1>3, <1>4 DEF RepliesUnderstood

\* The client's reading of the server's bytes, message by message and with no
\* delimiters but the lengths, gives it the messages the server has sent, for
\* every sequence of responses (codecs/server.rs:138-147, 267-276, 448-486).
THEOREM RepliesUnderstoodTheorem == Spec => []RepliesUnderstood
BY DialogueInit, DialogueNext, DialogueUnderstood, PTL DEF Spec

-----------------------------------------------------------------------------
(* The frames of a client that keeps to the protocol are whole frames.     *)

ClientGreeting(methods) ==
    Item("greeting", <<SOCKS5_VER, Len(methods)>> \o methods, [methods |-> Methods(methods)])

ClientAuth(username, password) ==
    Item("auth",
         <<SOCKS5_AUTH_VER, Len(username)>> \o username \o <<Len(password)>> \o password,
         [username |-> username, password |-> password])

ClientRequest(command, dst_address) ==
    Item("request", WithAddress(Command[command], dst_address),
         [command |-> command, dst_address |-> dst_address])

\* A field that a byte can give the length of, and that is not empty.
Field == {s \in Seq(Byte) : Len(s) \in 1..MaxByte}

Destinations == {a \in Addresses : WellFormed(a) /\ (a.atyp = "Domain" => Utf8(a.host))}

ProtocolFrames ==
    {ClientGreeting(methods) : methods \in Field}
        \cup {ClientAuth(username, password) : username \in {s \in Field : Utf8(s)},
                                               password \in {s \in Field : Utf8(s)}}
        \cup {ClientRequest(command, a) : command \in DOMAIN Command, a \in Destinations}

LEMMA WholeItem ==
    ASSUME NEW c \in Codecs, NEW bytes, NEW item, Len(bytes) <= MaxFrame(c),
           Decode(c, bytes) = Frame(item, Len(bytes))
    PROVE  WholeFrame(Item(c, bytes, item))
<1> DEFINE f == Item(c, bytes, item)
<1>1. f.codec = c /\ f.bytes = bytes /\ f.yields = Frame(item, Len(bytes))
  BY DEF Item
<1> HIDE DEF f
<1> QED
  BY <1>1, Kinds DEF WholeFrame, f

LEMMA GreetingWhole ==
    ASSUME NEW methods \in Field
    PROVE  WholeFrame(ClientGreeting(methods))
<1> DEFINE h == <<SOCKS5_VER, Len(methods)>>
           b == h \o methods
           l == Len(methods)
<1>1. methods \in Seq(Byte) /\ l \in 1..MaxByte /\ l \in Nat /\ l \in Byte
  BY CodecAssumption DEF Field, Byte
<1>2. h \in Seq(Byte) /\ Len(h) = 2 /\ h[1] = SOCKS5_VER /\ h[2] = l
  BY <1>1, CodecAssumption DEF SOCKS5_VER, Byte
<1> HIDE DEF h
<1>3. /\ b \in Seq(Byte) /\ Len(b) = 2 + l
      /\ \A i \in 1..(2 + l) : b[i] = IF i <= 2 THEN h[i] ELSE methods[i - 2]
  <2>1. 2 \in Nat /\ Len(methods) = l
    OBVIOUS
  <2> HIDE DEF l
  <2> QED
    BY <1>1, <1>2, <2>1, ConcatAt
<1> HIDE DEF b
<1>4. b[1] = SOCKS5_VER /\ b[2] = l
  BY <1>1, <1>2, <1>3
<1>5. \A k \in 1..l : b[(3 - 1) + k] = methods[k]
  <2>1. \A k \in 1..l : (3 - 1) + k \in 1..(2 + l) /\ ~((3 - 1) + k <= 2) /\ ((3 - 1) + k) - 2 = k
    BY <1>1
  <2> QED
    BY <1>3, <2>1
<1>6. SubSeq(b, 3, 2 + l) = methods
  <2>1. 3 \in Nat /\ 2 + l \in Int /\ (2 + l) - 3 + 1 = Len(methods)
    BY <1>1
  <2> QED
    BY <1>1, <1>5, <2>1, Slice
<1>7. GreetingDecode(b) = Frame([methods |-> Methods(methods)], Len(b))
  <2>1. ~(Len(b) > MAX_GREETING_FRAME_SIZE) /\ ~(Len(b) < 2) /\ ~(Len(b) < 2 + b[2]) /\ b[2] # 0
    BY <1>1, <1>3, <1>4, CodecAssumption DEF MAX_GREETING_FRAME_SIZE
  <2> QED
    BY <1>3, <1>4, <1>6, <2>1, Zenon DEF GreetingDecode, Decoded
<1>8. "greeting" \in Codecs /\ Len(b) <= MaxFrame("greeting")
      /\ Decode("greeting", b) = GreetingDecode(b)
  BY <1>1, <1>3, CodecAssumption DEF Codecs, MaxFrame, Decode, MAX_GREETING_FRAME_SIZE
<1> QED
  BY <1>7, <1>8, WholeItem DEF ClientGreeting, b, h

\* The two bytes every frame begins with.
LEMMA TwoAhead ==
    ASSUME NEW s \in Seq(Byte), NEW t \in Seq(Byte), NEW n \in Nat, Len(s) = 2, Len(t) = n
    PROVE  /\ s \o t \in Seq(Byte) /\ Len(s \o t) = 2 + n
           /\ \A i \in 1..(2 + n) : (s \o t)[i] = IF i <= 2 THEN s[i] ELSE t[i - 2]
<1>1. /\ s \o t \in Seq(Byte) /\ Len(s \o t) = Len(s) + Len(t)
      /\ \A i \in 1..(Len(s) + Len(t)) : (s \o t)[i] = IF i <= Len(s) THEN s[i] ELSE t[i - Len(s)]
  BY ConcatProperties
<1> QED
  BY <1>1

LEMMA AuthWhole ==
    ASSUME NEW username \in Field, NEW password \in Field, Utf8(username), Utf8(password)
    PROVE  WholeFrame(ClientAuth(username, password))
<1> DEFINE h == <<SOCKS5_AUTH_VER, Len(username)>>
           q == <<Len(password)>>
           hu == h \o username
           huq == hu \o q
           b == huq \o password
           u == Len(username)
           p == Len(password)
<1>1. /\ username \in Seq(Byte) /\ u \in 1..MaxByte /\ u \in Nat /\ u \in Byte
      /\ password \in Seq(Byte) /\ p \in 1..MaxByte /\ p \in Nat /\ p \in Byte
  BY CodecAssumption DEF Field, Byte
<1>2. /\ h \in Seq(Byte) /\ Len(h) = 2 /\ h[1] = SOCKS5_AUTH_VER /\ h[2] = u
      /\ q \in Seq(Byte) /\ Len(q) = 1 /\ q[1] = p
  BY <1>1, CodecAssumption DEF SOCKS5_AUTH_VER, Byte
<1> HIDE DEF h, q
<1>3. /\ hu \in Seq(Byte) /\ Len(hu) = 2 + u
      /\ \A i \in 1..(2 + u) : hu[i] = IF i <= 2 THEN h[i] ELSE username[i - 2]
  <2>1. h \in Seq(Byte) /\ Len(h) = 2 /\ 2 \in Nat
    BY <1>2
  <2>2. username \in Seq(Byte) /\ Len(username) = u /\ u \in Nat
    BY <1>1
  <2> HIDE DEF u, b, huq, hu
  <2>3. /\ h \o username \in Seq(Byte) /\ Len(h \o username) = 2 + u
        /\ \A i \in 1..(2 + u) : (h \o username)[i] = IF i <= 2 THEN h[i] ELSE username[i - 2]
    BY <2>1, <2>2, TwoAhead
  <2> QED
    BY <2>3 DEF hu
<1> HIDE DEF hu
<1>4. /\ huq \in Seq(Byte) /\ Len(huq) = (2 + u) + 1
      /\ \A i \in 1..((2 + u) + 1) : huq[i] = IF i <= 2 + u THEN hu[i] ELSE q[i - (2 + u)]
  <2>1. hu \in Seq(Byte) /\ Len(hu) = 2 + u /\ 2 + u \in Nat
    BY <1>1, <1>3
  <2>2. q \in Seq(Byte) /\ Len(q) = 1 /\ 1 \in Nat
    BY <1>2
  <2> QED
    <3> HIDE DEF u
    <3> QED
      BY <2>1, <2>2, ConcatAt
<1> HIDE DEF huq
<1>5. /\ b \in Seq(Byte) /\ Len(b) = ((2 + u) + 1) + p
      /\ \A i \in 1..(((2 + u) + 1) + p) :
            b[i] = IF i <= (2 + u) + 1 THEN huq[i] ELSE password[i - ((2 + u) + 1)]
  <2>1. (2 + u) + 1 \in Nat /\ Len(password) = p
    BY <1>1
  <2> HIDE DEF u, p
  <2> QED
    BY <1>1, <1>4, <2>1, ConcatAt
<1> HIDE DEF b, u, p
<1>6. \A i \in 1..(2 + u) : b[i] = hu[i]
  <2>1. \A i \in 1..(2 + u) : /\ i \in 1..(((2 + u) + 1) + p) /\ i <= (2 + u) + 1
                              /\ i \in 1..((2 + u) + 1) /\ i <= 2 + u
    BY <1>1
  <2> QED
    BY <1>4, <1>5, <2>1
<1>7. b[1] = SOCKS5_AUTH_VER /\ b[2] = u
  <2>1. 1 \in 1..(2 + u) /\ 2 \in 1..(2 + u) /\ 1 <= 2 /\ 2 <= 2
    BY <1>1
  <2> QED
    BY <1>2, <1>3, <1>6, <2>1
<1>8. \A k \in 1..u : b[(3 - 1) + k] = username[k]
  <2>1. \A k \in 1..u : (3 - 1) + k \in 1..(2 + u) /\ ~((3 - 1) + k <= 2) /\ ((3 - 1) + k) - 2 = k
    BY <1>1
  <2> QED
    BY <1>3, <1>6, <2>1
<1>9. b[3 + u] = p
  <2>1. /\ 3 + u \in 1..(((2 + u) + 1) + p) /\ 3 + u <= (2 + u) + 1
        /\ 3 + u \in 1..((2 + u) + 1) /\ ~(3 + u <= 2 + u) /\ (3 + u) - (2 + u) = 1
    BY <1>1
  <2> QED
    BY <1>2, <1>4, <1>5, <2>1
<1>10. \A k \in 1..p : b[(((3 + u) + 1) - 1) + k] = password[k]
  <2>1. \A k \in 1..p : LET i == (((3 + u) + 1) - 1) + k IN
           i \in 1..(((2 + u) + 1) + p) /\ ~(i <= (2 + u) + 1) /\ i - ((2 + u) + 1) = k
    BY <1>1
  <2> QED
    BY <1>5, <2>1
<1>11. SubSeq(b, 3, (3 + u) - 1) = username
  <2>1. 3 \in Nat /\ (3 + u) - 1 \in Int /\ ((3 + u) - 1) - 3 + 1 = u
    BY <1>1
  <2> QED
    BY <1>1, <1>8, <2>1, Slice DEF u
<1>12. SubSeq(b, (3 + u) + 1, (3 + u) + p) = password
  <2>1. (3 + u) + 1 \in Nat /\ (3 + u) + p \in Int /\ ((3 + u) + p) - ((3 + u) + 1) + 1 = p
    BY <1>1
  <2> QED
    BY <1>1, <1>10, <2>1, Slice DEF p
<1>13. Len(b) = (3 + u) + p
  BY <1>1, <1>5
<1>14. AuthFields(b, 3 + u) = Frame([username |-> username, password |-> password], Len(b))
  BY <1>9, <1>11, <1>12, <1>13, Zenon DEF AuthFields, Decoded
<1>15. AuthDecode(b) = AuthFields(b, 3 + u)
  <2>1. /\ ~(Len(b) > MAX_AUTH_FRAME_SIZE) /\ ~(Len(b) < 2) /\ u # 0 /\ p # 0
        /\ ~(Len(b) < 3 + u) /\ ~(Len(b) < (3 + u) + p)
    BY <1>1, <1>13, CodecAssumption DEF MAX_AUTH_FRAME_SIZE
  <2> QED
    BY <1>7, <1>9, <2>1, Zenon DEF AuthDecode
<1>16. "auth" \in Codecs /\ Len(b) <= MaxFrame("auth") /\ Decode("auth", b) = AuthDecode(b)
  BY <1>1, <1>13, CodecAssumption DEF Codecs, MaxFrame, Decode, MAX_AUTH_FRAME_SIZE
<1>17. WholeFrame(Item("auth", b, [username |-> username, password |-> password]))
  BY <1>14, <1>15, <1>16, WholeItem
<1> QED
  BY <1>17 DEF ClientAuth, b, huq, hu, h, q

LEMMA RequestWhole ==
    ASSUME NEW command \in DOMAIN Command, NEW a \in Destinations
    PROVE  WholeFrame(ClientRequest(command, a))
<1> DEFINE b == WithAddress(Command[command], a)
           n == HostAt(a) + Len(a.host)
           item == [command |-> command, dst_address |-> a]
<1>1. WellFormed(a) /\ (a.atyp = "Domain" => Utf8(a.host)) /\ Command[command] \in Byte
  BY TryFromInverse DEF Destinations
<1>2. /\ a.host \in Seq(Byte) /\ a.atyp \in DOMAIN AddressType
      /\ a.port \in 0..((MaxByte + 1) * (MaxByte + 1) - 1)
      /\ Len(a.host) \in HostLens(a.atyp)
      /\ a = Address(a.atyp, a.host, a.port)
  <2>1. a \in Addresses /\ Len(a.host) \in HostLens(a.atyp)
    BY <1>1 DEF WellFormed
  <2>2. \A x \in Addresses : x = Address(x.atyp, x.host, x.port)
    BY DEF Addresses, Address
  <2>3. \A x \in Addresses : /\ x.host \in Seq(Byte) /\ x.atyp \in DOMAIN AddressType
                             /\ x.port \in 0..((MaxByte + 1) * (MaxByte + 1) - 1)
    BY DEF Addresses
  <2> QED
    BY <2>1, <2>2, <2>3
<1>3. /\ b \in Seq(Byte) /\ Len(b) = n + 1 /\ Len(a.host) \in Byte
      /\ b[1] = SOCKS5_VER /\ b[2] = Command[command] /\ b[3] = SOCKS5_RSV
      /\ b[4] = AddressType[a.atyp]
      /\ a.atyp = "Domain" => b[5] = Len(a.host)
      /\ \A k \in 1..Len(a.host) : b[(HostAt(a) - 1) + k] = a.host[k]
      /\ b[n] = a.port \div (MaxByte + 1) /\ b[n + 1] = a.port % (MaxByte + 1)
  BY <1>1, FieldsOfAddress
<1>4. HostAt(a) \in {5, 6} /\ (a.atyp = "Domain" <=> HostAt(a) = 6)
  BY DEF HostAt
<1> DEFINE l == Len(a.host)
           t == HostAt(a)
<1>5. n = t + l
  OBVIOUS
<1> HIDE DEF b, n, l, t, item
<1>6. l \in 0..MaxByte /\ t \in {5, 6} /\ n \in Nat
  <2>1. l \in 0..MaxByte
    BY <1>3 DEF Byte, l
  <2>2. t \in {5, 6}
    BY <1>4 DEF t
  <2> QED
    BY <1>5, <2>1, <2>2, CodecAssumption
<1>7. 6 + AddressLen(b) = n + 1
  <2>1. AddressType.Ipv4 = 1 /\ AddressType.Ipv6 = 4 /\ AddressType.Domain = 3
    BY DEF AddressType
  <2>2. CASE a.atyp = "Ipv4"
    <3>1. b[4] = 1 /\ t = 5 /\ l = Ipv4Len
      BY <1>2, <1>3, <1>4, <2>1, <2>2 DEF HostLens, l, t
    <3>2. AddressLen(b) = Ipv4Len
      BY <2>1, <3>1 DEF AddressLen
    <3> QED
      BY <1>5, <1>6, <3>1, <3>2
  <2>3. CASE a.atyp = "Ipv6"
    <3>1. b[4] = 4 /\ t = 5 /\ l = Ipv6Len
      BY <1>2, <1>3, <1>4, <2>1, <2>3 DEF HostLens, l, t
    <3>2. AddressLen(b) = Ipv6Len
      BY <2>1, <3>1 DEF AddressLen
    <3> QED
      BY <1>5, <1>6, <3>1, <3>2
  <2>4. CASE a.atyp = "Domain"
    <3>1. b[4] = 3 /\ t = 6 /\ b[5] = l
      BY <1>3, <1>4, <2>1, <2>4 DEF l, t
    <3>2. AddressLen(b) = 1 + l
      BY <2>1, <3>1 DEF AddressLen
    <3> QED
      BY <1>5, <1>6, <3>1, <3>2
  <2> QED
    BY <1>2, <2>2, <2>3, <2>4 DEF AddressType
<1>8. TryFrom(AddressType, b[4]) = a.atyp /\ TryFrom(Command, b[2]) = command
      /\ b[4] \in Bytes(AddressType) /\ b[2] \in Bytes(Command)
  BY <1>2, <1>3, TryFromInverse, Zenon DEF Bytes
<1>9. SubSeq(b, t, (n + 1) - 2) = a.host
  <2>1. t \in Nat /\ (n + 1) - 2 \in Int /\ ((n + 1) - 2) - t + 1 = l
    BY <1>5, <1>6
  <2> QED
    BY <1>2, <1>3, <2>1, Slice DEF l, t
<1>10. b[(n + 1) - 1] * (MaxByte + 1) + b[n + 1] = a.port
  <2>1. (n + 1) - 1 = n
    BY <1>6
  <2> QED
    BY <1>2, <1>3, <2>1, PortBytes
<1>11. RequestFields(b, n + 1) = Frame(item, n + 1)
  <2>1. SubSeq(b, IF TryFrom(AddressType, b[4]) = "Domain" THEN 6 ELSE 5, (n + 1) - 2) = a.host
    BY <1>8, <1>9 DEF HostAt, t
  <2>2. [command |-> TryFrom(Command, b[2]),
         dst_address |-> Address(TryFrom(AddressType, b[4]), a.host,
                                 b[(n + 1) - 1] * (MaxByte + 1) + b[n + 1])] = item
    BY <1>2, <1>8, <1>10 DEF item
  <2> QED
    BY <1>1, <1>8, <2>1, <2>2, Zenon DEF RequestFields, Decoded
<1>12. RequestDecode(b) = RequestFields(b, n + 1)
  <2>1. /\ ~(Len(b) > MAX_REQUEST_FRAME_SIZE) /\ ~(Len(b) < 4) /\ ~(Len(b) < 5)
        /\ ~(Len(b) < n + 1)
    BY <1>3, <1>5, <1>6, CodecAssumption DEF MAX_REQUEST_FRAME_SIZE
  <2> QED
    BY <1>3, <1>7, <1>8, <2>1, Zenon DEF RequestDecode
<1>13. "request" \in Codecs /\ Len(b) <= MaxFrame("request") /\ Decode("request", b) = RequestDecode(b)
  BY <1>3, <1>5, <1>6, CodecAssumption DEF Codecs, MaxFrame, Decode, MAX_REQUEST_FRAME_SIZE
<1>14. WholeFrame(Item("request", b, item))
  BY <1>3, <1>11, <1>12, <1>13, WholeItem
<1> QED
  BY <1>14 DEF ClientRequest, b, item

\* Each message that the protocol lets a client send is decoded to what the
\* client put into it, and nothing of it is left in the buffer, for every
\* length of its fields (messages.rs:60-84, 125-149, 189-220;
\* codecs/server.rs:73-132, 190-261, 328-442).
THEOREM ProtocolFramesWhole == \A f \in ProtocolFrames : WholeFrame(f)
BY GreetingWhole, AuthWhole, RequestWhole DEF ProtocolFrames

\* So a client that sends such frames is never misread, wherever they are cut
\* (state.rs:172-185).
THEOREM ProtocolFaithful ==
    ASSUME \A s \in Scripts : \A i \in DOMAIN s : s[i] \in ProtocolFrames
    PROVE  Spec => []Faithful
BY ProtocolFramesWhole, FaithfulTheorem DEF WholeFrames
=============================================================================
