------------------------- MODULE Socks5FramedProofs -------------------------
(***************************************************************************)
(* Facts about the decoders of Socks5Codec for every buffer, every byte    *)
(* range and every notion of text, and the invariants of Socks5Framed for  *)
(* every set of scripts: how the buffer and the stream go together, and    *)
(* that the items received are those of the frames, wherever they are cut. *)
(***************************************************************************)
EXTENDS Socks5Framed, SequenceTheorems, WellFoundedInduction, TLAPS

-----------------------------------------------------------------------------
(* The results of a decoder are told apart by their kind.                  *)

LEMMA Kinds ==
    /\ Incomplete.kind = "incomplete"
    /\ \A e : Error(e).kind = "error"
    /\ \A item, n : Frame(item, n).kind = "frame" /\ Frame(item, n).consumed = n
    /\ \A b, n, item : Decoded(b, n, item) = Frame(item, n)
BY DEF Incomplete, Error, Frame, Decoded

\* The bytes of a buffer are numbers.
LEMMA BufferBytes ==
    ASSUME NEW b \in Seq(Byte), NEW i \in 1..Len(b)
    PROVE  b[i] \in 0..MaxByte
BY ElementOfSeq DEF Byte

(***************************************************************************)
(* What the decoders have in common: they take at least one byte and no    *)
(* more than there are, and they ask for more only below the size of the   *)
(* largest frame.                                                          *)
(***************************************************************************)
WellBehaved(d, b, max) ==
    /\ d.kind = "frame" => d.consumed \in 1..Len(b)
    /\ d = Incomplete => Len(b) < max

LEMMA GreetingWellBehaved ==
    ASSUME NEW b \in Seq(Byte)
    PROVE  WellBehaved(GreetingDecode(b), b, MAX_GREETING_FRAME_SIZE)
<1>1. CASE Len(b) < 2
  BY <1>1, Kinds, CodecAssumption
     DEF GreetingDecode, WellBehaved, MAX_GREETING_FRAME_SIZE
<1>2. CASE Len(b) >= 2
  <2>1. b[2] \in 0..MaxByte
    BY <1>2, BufferBytes
  <2> QED
    BY <1>2, <2>1, Kinds, CodecAssumption
       DEF GreetingDecode, WellBehaved, MAX_GREETING_FRAME_SIZE
<1> QED
  BY <1>1, <1>2

\* A whole frame is taken as it is, or has a field that is not text.
TakenOrBad(d, total) ==
    \/ d.kind = "frame" /\ d.consumed = total
    \/ d.kind = "error"

LEMMA AuthFieldsKind ==
    ASSUME NEW b, NEW plen
    PROVE  TakenOrBad(AuthFields(b, plen), plen + b[plen])
BY Kinds DEF TakenOrBad, AuthFields

LEMMA RequestFieldsKind ==
    ASSUME NEW b, NEW total
    PROVE  TakenOrBad(RequestFields(b, total), total)
BY Kinds DEF TakenOrBad, RequestFields

LEMMA AuthWellBehaved ==
    ASSUME NEW b \in Seq(Byte)
    PROVE  WellBehaved(AuthDecode(b), b, MAX_AUTH_FRAME_SIZE)
<1>1. Len(b) >= 2 => b[2] \in 0..MaxByte
  BY BufferBytes
<1>2. Len(b) >= 2 /\ Len(b) >= 3 + b[2] => b[3 + b[2]] \in 0..MaxByte
  BY <1>1, BufferBytes, CodecAssumption
<1>3. TakenOrBad(AuthFields(b, 3 + b[2]), 3 + b[2] + b[3 + b[2]])
  BY AuthFieldsKind
<1>4. CASE ~(Len(b) >= 2 /\ Len(b) >= 3 + b[2])
  BY <1>1, <1>4, Kinds, CodecAssumption
     DEF AuthDecode, WellBehaved, MAX_AUTH_FRAME_SIZE
<1>5. CASE Len(b) >= 2 /\ Len(b) >= 3 + b[2]
  <2> DEFINE total == 3 + b[2] + b[3 + b[2]]
  <2>1. total \in Nat /\ total >= 3 /\ total <= MAX_AUTH_FRAME_SIZE /\ Len(b) \in Nat
    BY <1>1, <1>2, <1>5, CodecAssumption DEF MAX_AUTH_FRAME_SIZE
  <2>2. ~(Len(b) < 2) /\ ~(Len(b) < 3 + b[2]) /\ Len(b) \in Nat
    BY <1>1, <1>5
  <2>3. \/ \E e : AuthDecode(b) = Error(e)
        \/ AuthDecode(b) = Incomplete /\ Len(b) < total
        \/ AuthDecode(b) = AuthFields(b, 3 + b[2]) /\ ~(Len(b) < total)
    BY <2>2, Zenon DEF AuthDecode
  <2>4. TakenOrBad(AuthFields(b, 3 + b[2]), total)
    BY <1>3
  <2> HIDE DEF total
  <2>5. CASE \E e : AuthDecode(b) = Error(e)
    BY <2>5, Kinds DEF WellBehaved
  <2>6. CASE AuthDecode(b) = Incomplete /\ Len(b) < total
    BY <2>1, <2>6, Kinds, CodecAssumption DEF WellBehaved, MAX_AUTH_FRAME_SIZE
  <2>7. CASE AuthDecode(b) = AuthFields(b, 3 + b[2]) /\ ~(Len(b) < total)
    BY <2>1, <2>2, <2>4, <2>7, Kinds DEF WellBehaved, TakenOrBad
  <2> QED
    BY <2>3, <2>5, <2>6, <2>7
<1> QED
  BY <1>4, <1>5

LEMMA AddressLens ==
    ASSUME NEW b \in Seq(Byte), Len(b) >= 4, b[4] \in Bytes(AddressType),
           b[4] = AddressType.Domain => Len(b) >= 5
    PROVE  AddressLen(b) \in 1..(1 + MaxByte)
<1>1. b[4] \in {1, 3, 4} /\ AddressType.Ipv4 = 1 /\ AddressType.Ipv6 = 4 /\ AddressType.Domain = 3
  BY DEF Bytes, AddressType
<1>2. Len(b) >= 5 => b[5] \in 0..MaxByte
  BY BufferBytes
<1> QED
  BY <1>1, <1>2, CodecAssumption DEF AddressLen

LEMMA RequestWellBehaved ==
    ASSUME NEW b \in Seq(Byte)
    PROVE  WellBehaved(RequestDecode(b), b, MAX_REQUEST_FRAME_SIZE)
<1>1. CASE \/ Len(b) < 4
           \/ b[4] \notin Bytes(AddressType)
           \/ b[4] = AddressType.Domain /\ Len(b) < 5
  BY <1>1, Kinds, CodecAssumption
     DEF RequestDecode, WellBehaved, MAX_REQUEST_FRAME_SIZE
<1>2. CASE ~ \/ Len(b) < 4
             \/ b[4] \notin Bytes(AddressType)
             \/ b[4] = AddressType.Domain /\ Len(b) < 5
  <2>1. AddressLen(b) \in 1..(1 + MaxByte)
    BY <1>2, AddressLens
  <2>2. TakenOrBad(RequestFields(b, 6 + AddressLen(b)), 6 + AddressLen(b))
    BY RequestFieldsKind
  <2> QED
    BY <1>2, <2>1, <2>2, Kinds, CodecAssumption
       DEF RequestDecode, WellBehaved, TakenOrBad, MAX_REQUEST_FRAME_SIZE
<1> QED
  BY <1>1, <1>2

\* No buffer as large as the largest frame leaves a decoder undecided, and a
\* frame is never taken from more bytes than there are.
THEOREM DecodersWellBehaved ==
    ASSUME NEW c \in Codecs, NEW b \in Seq(Byte)
    PROVE  WellBehaved(Decode(c, b), b, MaxFrame(c))
BY GreetingWellBehaved, AuthWellBehaved, RequestWellBehaved DEF Codecs, Decode, MaxFrame

-----------------------------------------------------------------------------
(* A decision is not changed by what arrives after it.                     *)

\* What is in the buffer is there when more has arrived.
LEMMA Extended ==
    ASSUME NEW b \in Seq(Byte), NEW more \in Seq(Byte)
    PROVE  /\ b \o more \in Seq(Byte)
           /\ Len(b \o more) = Len(b) + Len(more)
           /\ Len(b) \in Nat /\ Len(more) \in Nat
           /\ \A i \in 1..Len(b) : (b \o more)[i] = b[i]
BY ConcatProperties

LEMMA ExtendedSubSeq ==
    ASSUME NEW b \in Seq(Byte), NEW more \in Seq(Byte),
           NEW i \in 1..(Len(b) + 1), NEW j \in 0..Len(b)
    PROVE  SubSeq(b \o more, i, j) = SubSeq(b, i, j)
<1>1. CASE i <= j
  BY <1>1, SubSeqOfConcat1
<1>2. CASE j < i
  BY <1>2, SubSeqEmpty
<1> QED
  BY <1>1, <1>2

LEMMA GreetingStable ==
    ASSUME NEW b \in Seq(Byte), NEW more \in Seq(Byte), GreetingDecode(b) # Incomplete,
           Len(b \o more) <= MAX_GREETING_FRAME_SIZE
    PROVE  GreetingDecode(b \o more) = GreetingDecode(b)
<1> DEFINE x == b \o more
           total == 2 + b[2]
<1>1. Len(x) >= Len(b) /\ Len(x) \in Nat /\ Len(b) \in Nat
  BY Extended
<1>2. MAX_GREETING_FRAME_SIZE \in Nat
  BY CodecAssumption DEF MAX_GREETING_FRAME_SIZE
<1>3. ~(Len(b) > MAX_GREETING_FRAME_SIZE) /\ ~(Len(x) > MAX_GREETING_FRAME_SIZE)
  BY <1>1, <1>2
<1>4. ~(Len(b) < 2)
  BY <1>3 DEF GreetingDecode
<1>5. ~(Len(x) < 2) /\ x[1] = b[1] /\ x[2] = b[2] /\ b[2] \in 0..MaxByte
  BY <1>1, <1>4, Extended, BufferBytes
<1>6. CASE b[1] # SOCKS5_VER \/ b[2] = 0
  BY <1>3, <1>4, <1>5, <1>6, Zenon DEF GreetingDecode
<1>7. CASE ~(b[1] # SOCKS5_VER \/ b[2] = 0)
  <2>1. ~(Len(b) < total)
    BY <1>3, <1>4, <1>7, Zenon DEF GreetingDecode
  <2>2. ~(Len(x) < total) /\ total \in 0..Len(b) /\ 3 \in 1..(Len(b) + 1)
    BY <1>1, <1>5, <1>4, <2>1, CodecAssumption
  <2>3. SubSeq(x, 3, total) = SubSeq(b, 3, total)
    BY <2>2, ExtendedSubSeq
  <2> QED
    BY <1>3, <1>4, <1>5, <1>7, <2>1, <2>2, <2>3, Zenon DEF GreetingDecode, Decoded
<1> QED
  BY <1>6, <1>7

LEMMA AuthStable ==
    ASSUME NEW b \in Seq(Byte), NEW more \in Seq(Byte), AuthDecode(b) # Incomplete,
           Len(b \o more) <= MAX_AUTH_FRAME_SIZE
    PROVE  AuthDecode(b \o more) = AuthDecode(b)
<1> DEFINE x == b \o more
           plen == 3 + b[2]
           total == plen + b[plen]
<1>1. Len(x) >= Len(b) /\ Len(x) \in Nat /\ Len(b) \in Nat
  BY Extended
<1>2. MAX_AUTH_FRAME_SIZE \in Nat
  BY CodecAssumption DEF MAX_AUTH_FRAME_SIZE
<1>3. ~(Len(b) > MAX_AUTH_FRAME_SIZE) /\ ~(Len(x) > MAX_AUTH_FRAME_SIZE)
  BY <1>1, <1>2
<1>4. ~(Len(b) < 2)
  BY <1>3 DEF AuthDecode
<1>5. ~(Len(x) < 2) /\ x[1] = b[1] /\ x[2] = b[2] /\ b[2] \in 0..MaxByte
  BY <1>1, <1>4, Extended, BufferBytes
<1>6. CASE b[1] # SOCKS5_AUTH_VER \/ b[2] = 0
  BY <1>3, <1>4, <1>5, <1>6, Zenon DEF AuthDecode
<1>7. CASE ~(b[1] # SOCKS5_AUTH_VER \/ b[2] = 0)
  <2>1. ~(Len(b) < plen)
    BY <1>3, <1>4, <1>7, Zenon DEF AuthDecode
  <2>2. ~(Len(x) < plen) /\ plen \in 3..Len(b)
    BY <1>1, <1>5, <2>1, CodecAssumption
  <2>3. x[plen] = b[plen] /\ b[plen] \in 0..MaxByte
    BY <2>2, Extended, BufferBytes
  <2>4. CASE b[plen] = 0
    BY <1>3, <1>4, <1>5, <1>7, <2>1, <2>2, <2>3, <2>4, Zenon DEF AuthDecode
  <2>5. CASE b[plen] # 0
    <3>1. ~(Len(b) < total)
      BY <1>3, <1>4, <1>7, <2>1, <2>5, Zenon DEF AuthDecode
    <3>2. ~(Len(x) < total) /\ total \in plen..Len(b)
      BY <1>1, <2>2, <2>3, <3>1, CodecAssumption
    <3>3. SubSeq(x, 3, plen - 1) = SubSeq(b, 3, plen - 1)
      <4>1. 3 \in 1..(Len(b) + 1) /\ plen - 1 \in 0..Len(b)
        BY <1>1, <2>2
      <4> QED
        BY <4>1, ExtendedSubSeq
    <3>4. SubSeq(x, plen + 1, total) = SubSeq(b, plen + 1, total)
      <4>1. plen + 1 \in 1..(Len(b) + 1) /\ total \in 0..Len(b)
        BY <1>1, <2>2, <3>2
      <4> QED
        BY <4>1, ExtendedSubSeq
    <3>5. AuthFields(x, plen) = AuthFields(b, plen)
      BY <2>3, <3>3, <3>4, Zenon DEF AuthFields, Decoded
    <3> QED
      BY <1>3, <1>4, <1>5, <1>7, <2>1, <2>2, <2>3, <2>5, <3>1, <3>2, <3>5, Zenon
         DEF AuthDecode
  <2> QED
    BY <2>4, <2>5
<1> QED
  BY <1>6, <1>7

LEMMA RequestStable ==
    ASSUME NEW b \in Seq(Byte), NEW more \in Seq(Byte), RequestDecode(b) # Incomplete,
           Len(b \o more) <= MAX_REQUEST_FRAME_SIZE
    PROVE  RequestDecode(b \o more) = RequestDecode(b)
<1> DEFINE x == b \o more
           total == 6 + AddressLen(b)
           Bad == \/ b[1] # SOCKS5_VER
                  \/ b[2] \notin Bytes(Command)
                  \/ b[3] # SOCKS5_RSV
                  \/ b[4] \notin Bytes(AddressType)
<1>1. Len(x) >= Len(b) /\ Len(x) \in Nat /\ Len(b) \in Nat
  BY Extended
<1>2. MAX_REQUEST_FRAME_SIZE \in Nat
  BY CodecAssumption DEF MAX_REQUEST_FRAME_SIZE
<1>3. ~(Len(b) > MAX_REQUEST_FRAME_SIZE) /\ ~(Len(x) > MAX_REQUEST_FRAME_SIZE)
  BY <1>1, <1>2
<1>4. ~(Len(b) < 4)
  BY <1>3 DEF RequestDecode
<1>5. /\ ~(Len(x) < 4)
      /\ x[1] = b[1] /\ x[2] = b[2] /\ x[3] = b[3] /\ x[4] = b[4]
  BY <1>1, <1>4, Extended
<1>6. CASE Bad
  BY <1>3, <1>4, <1>5, <1>6, Zenon DEF RequestDecode
<1>7. CASE ~Bad
  <2>1. ~(b[4] = AddressType.Domain /\ Len(b) < 5)
    BY <1>3, <1>4, <1>7, Zenon DEF RequestDecode
  <2>2. ~(b[4] = AddressType.Domain /\ Len(x) < 5)
    BY <1>1, <1>5, <2>1
  <2>3. AddressLen(x) = AddressLen(b)
    <3>1. b[4] = AddressType.Domain => x[5] = b[5]
      BY <1>1, <2>1, Extended
    <3>2. b[4] \in {1, 3, 4} /\ AddressType.Ipv4 = 1 /\ AddressType.Ipv6 = 4 /\ AddressType.Domain = 3
      BY <1>7 DEF Bytes, AddressType
    <3> QED
      BY <1>5, <3>1, <3>2 DEF AddressLen
  <2>4. ~(Len(b) < total)
    BY <1>3, <1>4, <1>7, <2>1, Zenon DEF RequestDecode
  <2>5. AddressLen(b) \in 1..(1 + MaxByte)
    BY <1>1, <1>4, <1>7, <2>1, AddressLens
  <2>6. total \in 7..Len(b) /\ ~(Len(x) < total)
    BY <1>1, <2>4, <2>5, CodecAssumption
  <2>7. x[total - 1] = b[total - 1] /\ x[total] = b[total]
    BY <1>1, <2>6, Extended
  <2>8. \A i \in {5, 6} : SubSeq(x, i, total - 2) = SubSeq(b, i, total - 2)
    <3>1. 5 \in 1..(Len(b) + 1) /\ 6 \in 1..(Len(b) + 1) /\ total - 2 \in 0..Len(b)
      BY <1>1, <2>6
    <3> QED
      BY <3>1, ExtendedSubSeq
  <2>9. RequestFields(x, total) = RequestFields(b, total)
    <3> DEFINE first == IF TryFrom(AddressType, b[4]) = "Domain" THEN 6 ELSE 5
    <3>1. SubSeq(x, first, total - 2) = SubSeq(b, first, total - 2)
      BY <2>8, Zenon
    <3> QED
      BY <1>5, <2>7, <3>1, Zenon DEF RequestFields, Decoded
  <2> QED
    BY <1>3, <1>4, <1>5, <1>7, <2>1, <2>2, <2>3, <2>4, <2>6, <2>9, Zenon DEF RequestDecode
<1> QED
  BY <1>6, <1>7

\* A frame or an error is the same however many bytes of the next frames have
\* been read behind it, up to the limit the decoders put on the buffer: only
\* that limit makes the outcome depend on how the stream is cut into reads
\* (codecs/server.rs:73-132, 190-261, 328-442).
THEOREM PiecesDoNotMatter ==
    ASSUME NEW c \in Codecs, NEW b \in Seq(Byte), NEW more \in Seq(Byte),
           Decode(c, b) # Incomplete, Len(b \o more) <= MaxFrame(c)
    PROVE  Decode(c, b \o more) = Decode(c, b)
BY GreetingStable, AuthStable, RequestStable DEF Codecs, Decode, MaxFrame

-----------------------------------------------------------------------------
(* What FlattenSeq computes.  Induction over the natural numbers is stated *)
(* of a set of numbers, not of a predicate: it follows from < being well   *)
(* founded.                                                                *)

LEMMA LeastNumber ==
    ASSUME NEW T \in SUBSET Nat, T # {}
    PROVE  \E m \in T : \A k \in T : m <= k
<1> DEFINE R == {ss \in Nat \X Nat : ss[1] < ss[2]}
<1>1. IsWellFoundedOn(R, Nat)
  BY NatLessThanWellFounded, Zenon DEF OpToRel
<1>2. \A k, m \in Nat : <<k, m>> \in R <=> k < m
  OBVIOUS
<1> HIDE DEF R
<1>3. \E m \in T : \A k \in T : ~(<<k, m>> \in R)
  BY <1>1, WFMin
<1>4. \A k, m \in T : ~(<<k, m>> \in R) => m <= k
  BY <1>2
<1> QED
  BY <1>3, <1>4

LEMMA Induction ==
    ASSUME NEW T \in SUBSET Nat, 0 \in T, \A n \in T : n + 1 \in T
    PROVE  \A n \in Nat : n \in T
<1> SUFFICES ASSUME Nat \ T # {} PROVE FALSE
  OBVIOUS
<1>1. PICK m \in Nat \ T : \A k \in Nat \ T : m <= k
  BY LeastNumber
<1>2. m - 1 \in Nat
  BY <1>1
<1>3. m - 1 \in T
  BY <1>1, <1>2
<1>4. (m - 1) + 1 \in T
  BY <1>3
<1> QED
  BY <1>1, <1>2, <1>4

\* The first n of the sequences, one after the other, for each n.
Flattens(f, seqs) ==
    f = [i \in 1..Len(seqs) |-> IF i = 1 THEN seqs[i] ELSE f[i - 1] \o seqs[i]]

LEMMA FlattenDef ==
    ASSUME NEW seqs, Len(seqs) # 0
    PROVE  FlattenSeq(seqs) = (CHOOSE f : Flattens(f, seqs))[Len(seqs)]
BY Zenon DEF FlattenSeq, Flattens

LEMMA FlattenExists ==
    ASSUME NEW S, NEW seqs \in Seq(Seq(S))
    PROVE  \E f : Flattens(f, seqs)
<1> DEFINE len == Len(seqs)
           P(n, g) == \A i \in 1..n : g[i] = IF i = 1 THEN seqs[i] ELSE g[i - 1] \o seqs[i]
           T == {n \in Nat : n <= len => \E g \in [1..n -> Seq(S)] : P(n, g)}
<1>0. len \in Nat /\ \A i \in 1..len : seqs[i] \in Seq(S)
  BY LenProperties, ElementOfSeq
<1> HIDE DEF len, P
<1>1. 0 \in T
  <2>1. [i \in 1..0 |-> <<>>] \in [1..0 -> Seq(S)] /\ P(0, [i \in 1..0 |-> <<>>])
    BY DEF P
  <2> QED
    BY <2>1
<1>2. ASSUME NEW n \in T PROVE n + 1 \in T
  <2> SUFFICES ASSUME n + 1 <= len
               PROVE  \E g \in [1..(n + 1) -> Seq(S)] : P(n + 1, g)
    OBVIOUS
  <2>1. PICK g \in [1..n -> Seq(S)] : P(n, g)
    <3>1. n \in Nat /\ n <= len
      BY <1>0
    <3> QED
      BY <3>1
  <2> DEFINE x == IF n = 0 THEN seqs[1] ELSE g[n] \o seqs[n + 1]
             h == [i \in 1..(n + 1) |-> IF i = n + 1 THEN x ELSE g[i]]
  <2>2. x \in Seq(S)
    <3>1. CASE n = 0
      BY <1>0, <3>1
    <3>2. CASE n # 0
      <4>1. g[n] \in Seq(S) /\ seqs[n + 1] \in Seq(S)
        BY <1>0, <3>2
      <4> QED
        BY <3>2, <4>1, ConcatProperties
    <3> QED
      BY <3>1, <3>2
  <2> HIDE DEF x
  <2>3. h \in [1..(n + 1) -> Seq(S)]
    BY <2>2
  <2>4. \A i \in 1..n : h[i] = g[i]
    OBVIOUS
  <2>5. ASSUME NEW i \in 1..(n + 1)
        PROVE  h[i] = IF i = 1 THEN seqs[i] ELSE h[i - 1] \o seqs[i]
    <3> HIDE DEF h
    <3>1. CASE i \in 1..n
      <4>1. i = 1 \/ i - 1 \in 1..n
        BY <3>1
      <4> QED
        BY <2>1, <2>4, <3>1, <4>1 DEF P
    <3>2. CASE i = n + 1
      <4>1. h[n + 1] = x
        BY DEF h
      <4>2. n # 0 => h[n] = g[n]
        BY <2>4
      <4> QED
        BY <3>2, <4>1, <4>2 DEF x
    <3> QED
      BY <3>1, <3>2
  <2> HIDE DEF h
  <2> QED
    BY <2>3, <2>5 DEF P
<1>3. len \in T
  <2> HIDE DEF T
  <2>1. T \in SUBSET Nat
    BY DEF T
  <2>2. \A n \in Nat : n \in T
    BY <1>1, <1>2, <2>1, Induction
  <2> QED
    BY <1>0, <2>2
<1>4. PICK g \in [1..len -> Seq(S)] : P(len, g)
  BY <1>0, <1>3
<1>5. g = [i \in 1..len |-> IF i = 1 THEN seqs[i] ELSE g[i - 1] \o seqs[i]]
  BY <1>4 DEF P
<1> QED
  BY <1>5 DEF Flattens, len

\* The sequences lie in the flattened one side by side, each at its cut.
Cuts(seqs, flat, cut) ==
    /\ cut \in [0..Len(seqs) -> Nat]
    /\ cut[0] = 0 /\ cut[Len(seqs)] = Len(flat)
    /\ \A i \in 1..Len(seqs) :
         /\ cut[i] = cut[i - 1] + Len(seqs[i])
         /\ cut[i] <= Len(flat)
         /\ \A k \in 1..Len(seqs[i]) : flat[cut[i - 1] + k] = seqs[i][k]

LEMMA FlattenCuts ==
    ASSUME NEW S, NEW seqs \in Seq(Seq(S))
    PROVE  FlattenSeq(seqs) \in Seq(S) /\ \E cut : Cuts(seqs, FlattenSeq(seqs), cut)
<1> DEFINE len  == Len(seqs)
           flat == FlattenSeq(seqs)
<1>0. len \in Nat /\ \A i \in 1..len : seqs[i] \in Seq(S) /\ Len(seqs[i]) \in Nat
  BY LenProperties, ElementOfSeq
<1>1. CASE len = 0
  <2>1. flat = seqs /\ seqs = <<>>
    BY <1>1 DEF FlattenSeq
  <2>2. flat \in Seq(S) /\ Len(flat) = 0
    BY <2>1
  <2>3. Cuts(seqs, flat, [i \in 0..len |-> 0])
    BY <1>0, <1>1, <2>2 DEF Cuts
  <2> QED
    BY <2>2, <2>3
<1>2. CASE len # 0
  <2> DEFINE f == CHOOSE f : Flattens(f, seqs)
             c == [i \in 0..len |-> IF i = 0 THEN 0 ELSE Len(f[i])]
             T == {n \in Nat : n \in 1..len => f[n] \in Seq(S)}
             Holds(i, n) == /\ c[i] <= c[n]
                            /\ \A k \in 1..Len(seqs[i]) : f[n][c[i - 1] + k] = seqs[i][k]
             U == {n \in Nat : n \in 1..len => \A i \in 1..n : Holds(i, n)}
  <2>1. Flattens(f, seqs) /\ flat = f[len]
    BY <1>2, FlattenExists, FlattenDef
  <2> HIDE DEF f, flat, Holds
  <2>2. \A i \in 1..len : f[i] = IF i = 1 THEN seqs[i] ELSE f[i - 1] \o seqs[i]
    BY <2>1 DEF Flattens
  <2> HIDE DEF len
  <2>3. \A i \in 1..len : i = 1 \/ (i - 1 \in 1..len /\ f[i] = f[i - 1] \o seqs[i])
    <3> SUFFICES ASSUME NEW i \in 1..len, i # 1
                 PROVE  i - 1 \in 1..len /\ f[i] = f[i - 1] \o seqs[i]
      OBVIOUS
    <3>1. i - 1 \in 1..len
      BY <1>0
    <3>2. f[i] = f[i - 1] \o seqs[i]
      BY <2>2, Zenon
    <3> QED
      BY <3>1, <3>2
  <2>4. \A i \in 1..len : f[i] \in Seq(S) /\ Len(f[i]) \in Nat
    <3>1. 0 \in T
      OBVIOUS
    <3>2. ASSUME NEW n \in T PROVE n + 1 \in T
      <4> SUFFICES ASSUME n + 1 \in 1..len PROVE f[n + 1] \in Seq(S)
        OBVIOUS
      <4>1. CASE n = 0
        BY <1>0, <2>2, <4>1
      <4>2. CASE n # 0
        <5>1. n + 1 # 1 /\ (n + 1) - 1 = n /\ n \in 1..len
          BY <1>0, <4>2
        <5>2. f[n + 1] = f[n] \o seqs[n + 1]
          BY <2>2, <5>1
        <5>3. f[n] \in Seq(S) /\ seqs[n + 1] \in Seq(S)
          BY <1>0, <5>1
        <5> QED
          BY <5>2, <5>3, ConcatProperties
      <4> QED
        BY <4>1, <4>2
    <3>3. T \in SUBSET Nat
      OBVIOUS
    <3>4. \A n \in Nat : n \in T
      <4> HIDE DEF T
      <4> QED
        BY <3>1, <3>2, <3>3, Induction
    <3>5. \A i \in 1..len : f[i] \in Seq(S)
      BY <1>0, <3>4
    <3> QED
      BY <3>5, LenProperties
  <2>5. c \in [0..len -> Nat] /\ c[0] = 0 /\ c[len] = Len(flat)
    BY <1>0, <1>2, <2>1, <2>4
  <2>6. \A i \in 1..len : c[i] = Len(f[i]) /\ c[i] = c[i - 1] + Len(seqs[i])
    <3> SUFFICES ASSUME NEW i \in 1..len
                 PROVE  c[i] = Len(f[i]) /\ c[i] = c[i - 1] + Len(seqs[i])
      OBVIOUS
    <3>1. c[i] = Len(f[i])
      BY <1>0
    <3>2. CASE i = 1
      BY <1>0, <2>2, <2>5, <3>1, <3>2
    <3>3. CASE i # 1
      <4>1. i - 1 \in 1..len /\ f[i] = f[i - 1] \o seqs[i] /\ c[i - 1] = Len(f[i - 1])
        <5>1. i - 1 \in 1..len /\ f[i] = f[i - 1] \o seqs[i]
          BY <2>3, <3>3, Zenon
        <5>2. \A m \in 1..len : m \in 0..len /\ m # 0
          BY <1>0
        <5> QED
          BY <5>1, <5>2, Zenon
      <4>2. Len(f[i]) = Len(f[i - 1]) + Len(seqs[i])
        BY <1>0, <2>4, <4>1, ConcatProperties
      <4> QED
        BY <3>1, <4>1, <4>2
    <3> QED
      BY <3>1, <3>2, <3>3
  <2> HIDE DEF c, T
  <2>7. ASSUME NEW n \in 1..len, n + 1 \in 1..len, \A i \in 1..n : Holds(i, n)
        PROVE  \A i \in 1..(n + 1) : Holds(i, n + 1)
    <3>1. /\ f[n + 1] = f[n] \o seqs[n + 1]
          /\ f[n] \in Seq(S) /\ seqs[n + 1] \in Seq(S)
          /\ c[n + 1] = c[n] + Len(seqs[n + 1]) /\ c[n] = Len(f[n])
          /\ c[n] \in Nat /\ Len(seqs[n + 1]) \in Nat
      <4>1. n + 1 # 1 /\ (n + 1) - 1 = n
        BY <1>0
      <4> QED
        BY <1>0, <2>2, <2>4, <2>6, <2>7, <4>1
    <3>2. \A j \in 1..c[n + 1] : f[n + 1][j] =
              IF j <= c[n] THEN f[n][j] ELSE seqs[n + 1][j - c[n]]
      BY <3>1, ConcatProperties
    <3>3. Holds(n + 1, n + 1)
      <4> DEFINE s == seqs[n + 1]
                 a == c[n]
                 b == c[n + 1]
      <4>1. a \in Nat /\ Len(s) \in Nat /\ b = a + Len(s)
        BY <3>1
      <4>2. \A j \in 1..b : f[n + 1][j] = IF j <= a THEN f[n][j] ELSE s[j - a]
        BY <3>2
      <4>3. (n + 1) - 1 = n
        BY <1>0
      <4> HIDE DEF s, a, b
      <4>4. \A k \in 1..Len(s) : a + k \in 1..b /\ ~(a + k <= a) /\ (a + k) - a = k
        BY <4>1
      <4>5. \A k \in 1..Len(s) : f[n + 1][a + k] = s[k]
        BY <4>2, <4>4
      <4>6. b <= b
        BY <4>1
      <4> QED
        BY <4>3, <4>5, <4>6 DEF Holds, s, a, b
    <3>4. ASSUME NEW i \in 1..n PROVE Holds(i, n + 1)
      <4> DEFINE s == seqs[i]
                 l == c[i - 1]
                 a == c[n]
                 b == c[n + 1]
      <4>1. /\ c[i] = l + Len(s) /\ l \in Nat /\ Len(s) \in Nat /\ c[i] <= a
            /\ a \in Nat /\ b \in Nat /\ a <= b
        <5>1. i \in 1..len /\ i - 1 \in 0..len /\ n \in 0..len /\ n + 1 \in 0..len
          BY <1>0, <2>7
        <5>2. l \in Nat /\ a \in Nat /\ b \in Nat /\ Len(s) \in Nat
          BY <1>0, <2>5, <5>1, Zenon
        <5>3. c[i] = l + Len(s)
          BY <2>6, <5>1, Zenon
        <5>4. c[i] <= a
          BY <2>7, Zenon DEF Holds
        <5>5. b = a + Len(seqs[n + 1])
          BY <3>1
        <5>6. Len(seqs[n + 1]) \in Nat
          BY <3>1
        <5> HIDE DEF s, l, a, b
        <5>7. a <= b
          BY <5>2, <5>5, <5>6
        <5> QED
          BY <5>2, <5>3, <5>4, <5>7
      <4>2. \A j \in 1..b : f[n + 1][j] = IF j <= a THEN f[n][j] ELSE seqs[n + 1][j - a]
        BY <3>2
      <4>3. \A k \in 1..Len(s) : f[n][l + k] = s[k]
        BY <2>7 DEF Holds
      <4>4. c[i] \in Nat
        BY <4>1
      <4> HIDE DEF s, l, a, b
      <4>5. \A k \in 1..Len(s) : l + k \in 1..b /\ l + k <= a
        BY <4>1
      <4>6. \A k \in 1..Len(s) : f[n + 1][l + k] = s[k]
        BY <4>2, <4>3, <4>5
      <4>7. c[i] <= b
        BY <4>1, <4>4
      <4> QED
        BY <4>6, <4>7 DEF Holds, s, l, b
    <3>5. \A i \in 1..(n + 1) : i \in 1..n \/ i = n + 1
      BY <1>0
    <3> QED
      BY <3>3, <3>4, <3>5
  <2>8. \A i \in 1..len : Holds(i, len)
    <3>1. 0 \in U
      OBVIOUS
    <3>2. ASSUME NEW n \in U PROVE n + 1 \in U
      <4>1. CASE n = 0
        <5>1. ASSUME 1 \in 1..len PROVE Holds(1, 1)
          <6>1. f[1] = seqs[1] /\ c[1 - 1] = 0 /\ c[1] \in Nat /\ Len(seqs[1]) \in Nat
            BY <1>0, <2>2, <2>5, <5>1
          <6> QED
            BY <6>1 DEF Holds
        <5>2. \A i \in 1..(0 + 1) : i = 1
          OBVIOUS
        <5> QED
          BY <4>1, <5>1, <5>2
      <4>2. CASE n # 0
        <5>1. n + 1 \in 1..len => n \in 1..len
          BY <1>0, <4>2
        <5> QED
          BY <2>7, <5>1
      <4> QED
        BY <4>1, <4>2
    <3>3. U \in SUBSET Nat
      OBVIOUS
    <3>4. \A n \in Nat : n \in U
      <4> HIDE DEF U
      <4> QED
        BY <3>1, <3>2, <3>3, Induction
    <3>5. len \in U /\ len \in 1..len
      BY <1>0, <1>2, <3>4
    <3> QED
      BY <3>5
  <2>9. Cuts(seqs, flat, c)
    <3>1. \A i \in 1..len : /\ c[i] <= Len(flat)
                            /\ \A k \in 1..Len(seqs[i]) : flat[c[i - 1] + k] = seqs[i][k]
      BY <2>1, <2>5, <2>8 DEF Holds
    <3> QED
      BY <2>5, <2>6, <3>1 DEF Cuts, len
  <2>10. flat \in Seq(S)
    BY <1>0, <1>2, <2>1, <2>4
  <2> QED
    BY <2>9, <2>10 DEF flat
<1> QED
  BY <1>1, <1>2 DEF flat

(***************************************************************************)
(* The stream of a script: the bytes of its frames.                        *)
(***************************************************************************)
BytesOf(s) == [i \in DOMAIN s |-> s[i].bytes]

LEMMA ScriptBytes ==
    ASSUME NEW s \in Scripts
    PROVE  /\ Len(s) \in Nat /\ DOMAIN s = 1..Len(s)
           /\ BytesOf(s) \in Seq(Seq(Byte)) /\ Len(BytesOf(s)) = Len(s)
           /\ \A i \in 1..Len(s) : s[i].bytes \in Seq(Byte) /\ BytesOf(s)[i] = s[i].bytes
<1>1. s \in Seq(Range(s)) /\ \A f \in Range(s) : f.bytes \in Seq(Byte)
  BY FramedAssumption
<1>2. Len(s) \in Nat /\ DOMAIN s = 1..Len(s)
  BY <1>1, LenProperties
<1>3. \A i \in 1..Len(s) : s[i].bytes \in Seq(Byte)
  BY <1>1, <1>2, ElementOfSeq
<1>4. BytesOf(s) \in [1..Len(s) -> Seq(Byte)]
  BY <1>2, <1>3 DEF BytesOf
<1>5. BytesOf(s) \in Seq(Seq(Byte)) /\ Len(BytesOf(s)) = Len(s)
  BY <1>2, <1>4, LenProperties
<1> QED
  BY <1>2, <1>3, <1>5 DEF BytesOf

LEMMA StreamCuts ==
    ASSUME NEW s \in Scripts
    PROVE  Stream(s) \in Seq(Byte) /\ \E cut : Cuts(BytesOf(s), Stream(s), cut)
BY ScriptBytes, FlattenCuts DEF Stream, BytesOf

-----------------------------------------------------------------------------
(* The invariant of the stream.                                            *)

LEMMA InitInv == Init => FramingInv
<1> SUFFICES ASSUME Init PROVE FramingInv
  OBVIOUS
<1>1. stream \in Seq(Byte)
  BY StreamCuts DEF Init
<1>2. TypeOK
  BY <1>1, LenProperties DEF Init, TypeOK, Codecs
<1>3. BytesConserved
  BY SubSeqEmpty DEF Init, BytesConserved
<1>4. NeverWaitsInVain
  <2>1. Len(buffer) = 0 /\ codec = "greeting"
    BY DEF Init
  <2> QED
    BY <2>1, CodecAssumption
       DEF NeverWaitsInVain, Decode, GreetingDecode, MAX_GREETING_FRAME_SIZE
<1> QED
  BY <1>2, <1>3, <1>4 DEF FramingInv

\* What is in the buffer, as far as it is bytes at all.
LEMMA BufferType ==
    ASSUME TypeOK, BytesConserved
    PROVE  /\ buffer \in Seq(Byte)
           /\ Len(buffer) = arrived - taken
           /\ Len(stream) \in Nat
<1>1. stream \in Seq(Byte) /\ Len(stream) \in Nat /\ arrived \in 0..Len(stream) /\ taken \in 0..arrived
  BY LenProperties DEF TypeOK
<1>2. \A i \in (taken + 1)..arrived : stream[i] \in Byte
  BY <1>1, ElementOfSeq
<1> QED
  BY <1>1, <1>2, SubSeqProperties DEF BytesConserved

LEMMA ReadInv == FramingInv /\ Read => FramingInv'
<1> SUFFICES ASSUME FramingInv, Read PROVE FramingInv'
  OBVIOUS
<1> USE DEF FramingInv
<1>1. PICK n \in 1..(Len(stream) - arrived) :
          /\ buffer' = buffer \o SubSeq(stream, arrived + 1, arrived + n)
          /\ arrived' = arrived + n
  BY DEF Read
<1>2. /\ pc' = "decode" /\ stream' = stream /\ taken' = taken /\ codec' = codec
  BY DEF Read, clientVars
<1>3. Len(stream) \in Nat /\ arrived \in 0..Len(stream) /\ taken \in 0..arrived
  BY BufferType DEF TypeOK
<1>4. TypeOK'
  BY <1>1, <1>2, <1>3 DEF TypeOK
<1>5. BytesConserved'
  <2> DEFINE m == taken + 1
             j == arrived + n
  <2>1. /\ stream \in Seq(Byte) /\ m \in 1..(Len(stream) + 1)
        /\ arrived \in (m - 1)..Len(stream)
        /\ j \in arrived..Len(stream)
    BY <1>1, <1>3 DEF TypeOK
  <2>2. buffer = SubSeq(stream, m, arrived) /\ buffer' = buffer \o SubSeq(stream, arrived + 1, j)
    BY <1>1 DEF BytesConserved
  <2> SUFFICES buffer' = SubSeq(stream, m, j)
    BY <1>1, <1>2 DEF BytesConserved
  <2> HIDE DEF m, j
  <2> QED
    BY <2>1, <2>2, ConcatAdjacentSubSeq
<1> QED
  BY <1>2, <1>4, <1>5 DEF NeverWaitsInVain

\* Steps that leave the stream and the buffer alone and do not start to wait.
KeepsBuffer ==
    /\ UNCHANGED <<stream, arrived, taken, buffer>>
    /\ codec' \in Codecs
    /\ pc' \in {"decode", "answer", "closed"}

LEMMA KeepsBufferInv == FramingInv /\ KeepsBuffer => FramingInv'
BY DEF FramingInv, TypeOK, BytesConserved, NeverWaitsInVain, KeepsBuffer

LEMMA DecodeIncompleteInv == FramingInv /\ DecodeIncomplete => FramingInv'
BY DEF FramingInv, TypeOK, BytesConserved, NeverWaitsInVain, DecodeIncomplete, clientVars, readVars

LEMMA DecodeFrameInv == FramingInv /\ DecodeFrame => FramingInv'
<1> SUFFICES ASSUME FramingInv, DecodeFrame PROVE FramingInv'
  OBVIOUS
<1> DEFINE n == Decode(codec, buffer).consumed
<1>1. /\ Decode(codec, buffer).kind = "frame"
      /\ buffer' = SubSeq(buffer, n + 1, Len(buffer))
      /\ taken' = taken + n
      /\ pc' = "answer" /\ stream' = stream /\ arrived' = arrived /\ codec' = codec
  BY DEF DecodeFrame, clientVars
<1>2. buffer \in Seq(Byte) /\ Len(buffer) = arrived - taken /\ Len(stream) \in Nat
  BY BufferType DEF FramingInv
<1>3. n \in 1..Len(buffer)
  BY <1>1, <1>2, DecodersWellBehaved DEF WellBehaved, FramingInv, TypeOK
<1> HIDE DEF n
<1>4. stream \in Seq(Byte) /\ arrived \in 0..Len(stream) /\ taken \in 0..arrived
  BY DEF FramingInv, TypeOK
<1>5. TypeOK'
  BY <1>1, <1>2, <1>3, <1>4 DEF FramingInv, TypeOK
<1>6. BytesConserved'
  <2>1. buffer = SubSeq(stream, taken + 1, arrived)
    BY DEF FramingInv, BytesConserved
  <2>2. CASE n = Len(buffer)
    <3>1. /\ n + 1 \in Int /\ Len(buffer) \in Int /\ Len(buffer) < n + 1
          /\ taken + n + 1 \in Int /\ arrived \in Int /\ arrived < taken + n + 1
      BY <1>2, <1>3, <1>4, <2>2
    <3>2. buffer' = <<>>
      BY <1>1, <3>1, SubSeqEmpty
    <3>3. SubSeq(stream, taken + n + 1, arrived) = <<>>
      BY <3>1, SubSeqEmpty
    <3> QED
      BY <1>1, <3>2, <3>3 DEF BytesConserved
  <2>3. CASE n < Len(buffer)
    <3> DEFINE m == taken + 1
               k == n + 1
               l == Len(buffer)
    <3>1. /\ m \in 1..Len(stream) /\ arrived \in 1..Len(stream)
          /\ k \in 1..(arrived - m + 1)
          /\ l \in 1..(arrived - m + 1)
          /\ m + k - 1 = taken + n + 1
          /\ m + l - 1 = arrived
      BY <1>2, <1>3, <1>4, <2>3
    <3>2. buffer' = SubSeq(SubSeq(stream, m, arrived), k, l)
      BY <1>1, <2>1
    <3> HIDE DEF m, k, l
    <3>3. SubSeq(SubSeq(stream, m, arrived), k, l) = SubSeq(stream, m + k - 1, m + l - 1)
      BY <1>4, <3>1, SubSeqOfSubSeq
    <3> QED
      BY <1>1, <3>1, <3>2, <3>3 DEF BytesConserved
  <2> QED
    BY <1>2, <1>3, <1>4, <2>2, <2>3
<1> QED
  BY <1>1, <1>5, <1>6 DEF FramingInv, NeverWaitsInVain

LEMMA NextInv == FramingInv /\ [Next]_vars => FramingInv'
<1> SUFFICES ASSUME FramingInv, [Next]_vars PROVE FramingInv'
  OBVIOUS
<1>0. codec \in Codecs
  BY DEF FramingInv, TypeOK
<1>1. CASE Read
  BY <1>1, ReadInv
<1>2. CASE ReadEnds
  BY <1>0, <1>2, KeepsBufferInv DEF ReadEnds, Close, KeepsBuffer, clientVars, readVars
<1>3. CASE DecodeIncomplete
  BY <1>3, DecodeIncompleteInv
<1>4. CASE DecodeFails
  BY <1>0, <1>4, KeepsBufferInv DEF DecodeFails, Close, KeepsBuffer, clientVars, readVars
<1>5. CASE DecodeFrame
  BY <1>5, DecodeFrameInv
<1>6. CASE SelectMethod
  BY <1>0, <1>6, KeepsBufferInv
     DEF SelectMethod, Say, IntoState, LastAnswer, KeepsBuffer, Codecs, clientVars
<1>7. CASE AnswerCredentials
  BY <1>0, <1>7, KeepsBufferInv
     DEF AnswerCredentials, Say, IntoState, LastAnswer, KeepsBuffer, Codecs, clientVars
<1>8. CASE Respond
  BY <1>0, <1>8, KeepsBufferInv DEF Respond, Say, LastAnswer, KeepsBuffer, clientVars
<1>9. CASE ClientHears
  <2>1. UNCHANGED <<stream, arrived, taken, buffer, codec, pc>>
    BY <1>9 DEF ClientHears, Hear, clientVars, readVars
  <2> QED
    BY <2>1 DEF FramingInv, TypeOK, BytesConserved, NeverWaitsInVain
<1>10. CASE UNCHANGED vars
  BY <1>10 DEF FramingInv, TypeOK, BytesConserved, NeverWaitsInVain, vars
<1> QED
  BY <1>1, <1>2, <1>3, <1>4, <1>5, <1>6, <1>7, <1>8, <1>9, <1>10 DEF Next, Terminated

\* Every byte the client sends is in the frame it belongs to or in the buffer,
\* and the handler never waits with a decided buffer (state.rs:159-165).
THEOREM FramingInvTheorem == Spec => []FramingInv
<1>1. Init => FramingInv
  BY InitInv
<1>2. FramingInv /\ [Next]_vars => FramingInv'
  BY NextInv
<1> QED
  BY <1>1, <1>2, PTL DEF Spec

\* A waiting handler holds less than one frame, for every client: a read may
\* add to that, but the next decode uses it up (codecs/server.rs:74-82).
THEOREM BufferBoundedTheorem == Spec => []BufferBounded
<1>1. FramingInv => BufferBounded
  BY BufferType, DecodersWellBehaved
     DEF FramingInv, TypeOK, NeverWaitsInVain, BufferBounded, WellBehaved
<1> QED
  BY <1>1, FramingInvTheorem, PTL

-----------------------------------------------------------------------------
(* A client is understood however its stream is cut.                       *)

\* The frame is what the decoder of its phase makes of the whole of it.
WholeFrame(f) ==
    /\ f.codec \in Codecs
    /\ Len(f.bytes) <= MaxFrame(f.codec)
    /\ f.yields = Decode(f.codec, f.bytes)
    /\ f.yields # Incomplete
    /\ f.yields.kind = "frame" => f.yields.consumed = Len(f.bytes)

WholeFrames == \A s \in Scripts : \A i \in DOMAIN s : WholeFrame(s[i])

LEMMA DecodeResults ==
    ASSUME NEW c \in Codecs, NEW b
    PROVE  \/ Decode(c, b) = Incomplete
           \/ Decode(c, b) = Error(Decode(c, b).error)
           \/ Decode(c, b) = Frame(Decode(c, b).item, Decode(c, b).consumed)
<1> DEFINE Result(d) == \/ d = Incomplete
                        \/ d = Error(d.error)
                        \/ d = Frame(d.item, d.consumed)
<1>1. Result(Incomplete)
  OBVIOUS
<1>2. \A e : Result(Error(e))
  BY DEF Error
<1>3. \A t, item : Result(Decoded(b, t, item))
  BY DEF Decoded, Frame
<1> HIDE DEF Result
<1>4. Result(GreetingDecode(b))
  BY <1>1, <1>2, <1>3, Zenon DEF GreetingDecode
<1>5. \A plen : Result(AuthFields(b, plen))
  BY <1>2, <1>3, Zenon DEF AuthFields
<1>6. Result(AuthDecode(b))
  BY <1>1, <1>2, <1>5, Zenon DEF AuthDecode
<1>7. \A total : Result(RequestFields(b, total))
  BY <1>2, <1>3, Zenon DEF RequestFields
<1>8. Result(RequestDecode(b))
  BY <1>1, <1>2, <1>7, Zenon DEF RequestDecode
<1>9. Result(Decode(c, b))
  BY <1>4, <1>6, <1>8, Zenon DEF Decode, Codecs
<1> QED
  BY <1>9 DEF Result

LEMMA TooLarge ==
    ASSUME NEW c \in Codecs, NEW b \in Seq(Byte), Len(b) > MaxFrame(c)
    PROVE  Decode(c, b) = Error("FrameTooLarge")
BY DEF Codecs, Decode, MaxFrame, GreetingDecode, AuthDecode, RequestDecode

LEMMA MaxFrames == \A c \in Codecs : MaxFrame(c) \in Nat
BY CodecAssumption
   DEF Codecs, MaxFrame, MAX_GREETING_FRAME_SIZE, MAX_AUTH_FRAME_SIZE, MAX_REQUEST_FRAME_SIZE

\* A sequence that begins with another one is that one and the rest.
LEMMA BeginsWith ==
    ASSUME NEW s \in Seq(Byte), NEW t \in Seq(Byte), Len(s) <= Len(t),
           \A k \in 1..Len(s) : s[k] = t[k]
    PROVE  \E more \in Seq(Byte) : t = s \o more
<1>1. Len(s) \in Nat /\ Len(t) \in Nat /\ Len(s) \in 0..Len(t)
  BY LenProperties
<1> DEFINE more == SubSeq(t, Len(s) + 1, Len(t))
<1>2. SubSeq(t, 1, Len(s)) \o more = SubSeq(t, 1, Len(t))
  <2>1. 1 \in 1..(Len(t) + 1) /\ Len(s) \in (1 - 1)..Len(t) /\ Len(t) \in Len(s)..Len(t)
    BY <1>1
  <2> QED
    BY <2>1, ConcatAdjacentSubSeq
<1>3. SubSeq(t, 1, Len(t)) = t
  BY SubSeqFull
<1>4. SubSeq(t, 1, Len(s)) = s
  <2>1. \A k \in 1..Len(s) : t[k] \in Byte
    BY <1>1, ElementOfSeq
  <2>2. /\ SubSeq(t, 1, Len(s)) \in Seq(Byte)
        /\ Len(SubSeq(t, 1, Len(s))) = Len(s)
        /\ \A k \in 1..Len(s) : SubSeq(t, 1, Len(s))[k] = t[k]
    <3>1. 1 \in Int /\ Len(s) \in Int
      BY <1>1
    <3> QED
      BY <1>1, <2>1, <3>1, SubSeqProperties
  <2> QED
    BY <2>2, SeqEqual
<1>5. more \in Seq(Byte)
  <2>1. Len(s) + 1 \in Int /\ Len(t) \in Int /\ \A k \in (Len(s) + 1)..Len(t) : t[k] \in Byte
    BY <1>1, ElementOfSeq
  <2> QED
    BY <2>1, SubSeqProperties
<1> QED
  BY <1>2, <1>3, <1>4, <1>5

\* What a decoder makes of the beginning of a frame, or of a frame and what
\* follows it: what it makes of the frame, unless it waits or has too much.
LEMMA CutAnywhere ==
    ASSUME NEW f, WholeFrame(f), f.bytes \in Seq(Byte), NEW b \in Seq(Byte),
           \A k \in 1..Len(b) : k <= Len(f.bytes) => b[k] = f.bytes[k],
           Decode(f.codec, b) # Incomplete,
           Decode(f.codec, b) # Error("FrameTooLarge")
    PROVE  Decode(f.codec, b) = f.yields
<1> DEFINE c == f.codec
           w == f.bytes
<1>1. /\ Len(b) \in Nat /\ Len(w) \in Nat /\ MaxFrame(c) \in Nat /\ c \in Codecs
      /\ Len(w) <= MaxFrame(c) /\ Decode(c, w) = f.yields /\ f.yields # Incomplete
  BY LenProperties, MaxFrames DEF WholeFrame
<1> HIDE DEF c, w
<1>2. Len(b) <= MaxFrame(c)
  BY <1>1, TooLarge DEF c
<1>3. w \in Seq(Byte) /\ \A k \in 1..Len(b) : k <= Len(w) => b[k] = w[k]
  BY DEF w
<1>4. CASE Len(b) <= Len(w)
  <2>1. PICK more \in Seq(Byte) : w = b \o more
    <3>1. \A k \in 1..Len(b) : k <= Len(w)
      BY <1>1, <1>4
    <3> QED
      BY <1>3, <1>4, <3>1, BeginsWith
  <2>2. Decode(c, b \o more) = Decode(c, b)
    BY <1>1, <2>1, PiecesDoNotMatter DEF c
  <2> QED
    BY <1>1, <2>1, <2>2 DEF c
<1>5. CASE Len(w) <= Len(b)
  <2>1. PICK more \in Seq(Byte) : b = w \o more
    <3>1. \A k \in 1..Len(w) : k \in 1..Len(b) /\ k <= Len(w)
      BY <1>1, <1>5
    <3>2. \A k \in 1..Len(w) : w[k] = b[k]
      BY <1>3, <3>1
    <3> QED
      BY <1>3, <1>5, <3>2, BeginsWith
  <2>2. Decode(c, w \o more) = Decode(c, w)
    BY <1>1, <1>2, <1>3, <2>1, PiecesDoNotMatter
  <2> QED
    BY <1>1, <2>1, <2>2 DEF c
<1> QED
  BY <1>1, <1>4, <1>5

(***************************************************************************)
(* As long as the client has kept to the phases, the bytes that were taken *)
(* are those of whole frames.                                              *)
(***************************************************************************)
InPlace ==
    \E cut : /\ Cuts(BytesOf(script), stream, cut)
             /\ InStep(Len(received)) => taken = cut[Len(received)]

FaithfulInv ==
    /\ FramingInv
    /\ script \in Scripts
    /\ \E S : received \in Seq(S)
    /\ pc # "closed" => error = "none"
    /\ InPlace
    /\ Faithful

LEMMA FaithfulInit == Init => FaithfulInv
<1> SUFFICES ASSUME Init PROVE FaithfulInv
  OBVIOUS
<1>1. script \in Scripts /\ stream = Stream(script) /\ received = <<>> /\ taken = 0 /\ error = "none"
  BY DEF Init
<1>2. PICK cut : Cuts(BytesOf(script), stream, cut)
  BY <1>1, StreamCuts
<1>3. Len(received) = 0 /\ cut[0] = 0
  BY <1>1, <1>2 DEF Cuts
<1>4. InPlace
  BY <1>1, <1>2, <1>3 DEF InPlace
<1>5. Faithful
  BY <1>1, <1>3 DEF Faithful, Meant, Blamed
<1>6. received \in Seq({})
  BY <1>1
<1> QED
  BY <1>1, <1>4, <1>5, <1>6, InitInv DEF FaithfulInv

\* Steps that receive nothing and close, if they do, for no fault of a frame.
BlamesNoFrame ==
    /\ UNCHANGED <<script, stream, taken, received>>
    /\ \/ pc # "closed" /\ error' \in {error, "UnexpectedEof", "Other"}
       \/ UNCHANGED <<pc, codec, error>>
    /\ \/ pc' = "closed"
       \/ error' = error /\ pc # "closed"
       \/ UNCHANGED <<pc, error>>

LEMMA BlamesNoFrameInv == FaithfulInv /\ FramingInv' /\ BlamesNoFrame => FaithfulInv'
<1> SUFFICES ASSUME FaithfulInv, FramingInv', BlamesNoFrame PROVE FaithfulInv'
  OBVIOUS
<1>1. script' = script /\ stream' = stream /\ taken' = taken /\ received' = received
  BY DEF BlamesNoFrame
<1>2. \/ error' \in {"none", "UnexpectedEof", "Other"}
      \/ error' = error /\ codec' = codec
  BY DEF BlamesNoFrame, FaithfulInv
<1>3. pc' # "closed" => error' = "none"
  BY DEF BlamesNoFrame, FaithfulInv
<1>4. InPlace'
  BY <1>1 DEF FaithfulInv, InPlace, InStep
<1>5. Meant'
  BY <1>1 DEF FaithfulInv, Faithful, Meant, InStep
<1>6. Blamed'
  BY <1>1, <1>2 DEF FaithfulInv, Faithful, Blamed, InStep
<1> QED
  BY <1>1, <1>3, <1>4, <1>5, <1>6 DEF FaithfulInv, Faithful

\* The frame that is decoded when everything before it was in step.
LEMMA NextFrame ==
    ASSUME WholeFrames, FaithfulInv, InStep(Len(received)),
           Len(received) + 1 <= Len(script),
           script[Len(received) + 1].codec = codec,
           Decode(codec, buffer) # Incomplete,
           Decode(codec, buffer) # Error("FrameTooLarge")
    PROVE  Decode(codec, buffer) = script[Len(received) + 1].yields
<1> DEFINE n == Len(received)
           f == script[n + 1]
<1>1. n \in Nat
  BY LenProperties DEF FaithfulInv
<1>2. script \in Scripts
  BY DEF FaithfulInv
<1>3. n + 1 \in 1..Len(script) /\ (n + 1) - 1 = n
  BY <1>1, <1>2, ScriptBytes
<1>4. f.bytes \in Seq(Byte) /\ BytesOf(script)[n + 1] = f.bytes /\ Len(BytesOf(script)) = Len(script)
      /\ WholeFrame(f)
  BY <1>2, <1>3, ScriptBytes DEF WholeFrames
<1>5. PICK cut : Cuts(BytesOf(script), stream, cut) /\ taken = cut[n]
  BY DEF FaithfulInv, InPlace
<1>6. \A k \in 1..Len(f.bytes) : stream[taken + k] = f.bytes[k]
  BY <1>3, <1>4, <1>5 DEF Cuts
<1>7. buffer \in Seq(Byte) /\ Len(buffer) = arrived - taken /\ arrived \in Nat /\ taken \in 0..arrived
  BY BufferType DEF FaithfulInv, FramingInv, TypeOK
<1>8. \A k \in 1..Len(buffer) : buffer[k] = stream[taken + k]
  <2>1. buffer = SubSeq(stream, taken + 1, arrived) /\ stream \in Seq(Byte) /\ arrived \in 0..Len(stream)
    BY DEF FaithfulInv, FramingInv, BytesConserved, TypeOK
  <2>2. \A i \in (taken + 1)..arrived : stream[i] \in Byte
    BY <1>7, <2>1, ElementOfSeq
  <2>3. \A k \in 1..(arrived - (taken + 1) + 1) : buffer[k] = stream[(taken + 1) + k - 1]
    BY <1>7, <2>1, <2>2, SubSeqProperties
  <2>4. \A k \in 1..Len(buffer) : /\ k \in 1..(arrived - (taken + 1) + 1)
                                  /\ (taken + 1) + k - 1 = taken + k
    BY <1>7
  <2> QED
    BY <2>3, <2>4
<1> HIDE DEF f, n
<1>9. Len(f.bytes) \in Nat
  BY <1>4, LenProperties
<1>10. \A k \in 1..Len(buffer) : k <= Len(f.bytes) => buffer[k] = f.bytes[k]
  <2>1. \A k \in 1..Len(buffer) : k <= Len(f.bytes) => k \in 1..Len(f.bytes)
    BY <1>7, <1>9
  <2> QED
    BY <1>6, <1>8, <2>1
<1> QED
  BY <1>4, <1>7, <1>10, CutAnywhere DEF f, n

LEMMA FailsInv == WholeFrames /\ FaithfulInv /\ FramingInv' /\ DecodeFails => FaithfulInv'
<1> SUFFICES ASSUME WholeFrames, FaithfulInv, FramingInv', DecodeFails PROVE FaithfulInv'
  OBVIOUS
<1> DEFINE d == Decode(codec, buffer)
<1>1. /\ script' = script /\ stream' = stream /\ taken' = taken /\ received' = received
      /\ codec' = codec /\ pc' = "closed"
      /\ error' = d.error /\ d.kind = "error"
  BY DEF DecodeFails, Close, clientVars, readVars
<1>2. codec \in Codecs
  BY DEF FaithfulInv, FramingInv, TypeOK
<1>3. d = Error(error')
  BY <1>1, <1>2, DecodeResults, Kinds
<1> HIDE DEF d
<1>4. InPlace'
  BY <1>1 DEF FaithfulInv, InPlace, InStep
<1>5. Meant'
  BY <1>1 DEF FaithfulInv, Faithful, Meant, InStep
<1>6. Blamed'
  <2> DEFINE n == Len(received)
  <2>0. n \in Nat /\ (n + 1) - 1 = n
    BY LenProperties DEF FaithfulInv
  <2> SUFFICES ASSUME error' # "FrameTooLarge", InStep(n), n + 1 <= Len(script),
                      script[n + 1].codec = codec
               PROVE  script[n + 1].yields = Error(error')
    <3>1. InStep((n + 1) - 1)' => InStep(n)
      BY <1>1, <2>0 DEF InStep
    <3> QED
      BY <1>1, <3>1 DEF Blamed
  <2>1. d # Incomplete /\ d # Error("FrameTooLarge")
    BY <1>3, Kinds DEF Error
  <2> QED
    BY <1>3, <2>1, NextFrame DEF d
<1> QED
  BY <1>1, <1>4, <1>5, <1>6 DEF FaithfulInv, Faithful

LEMMA FrameInv == WholeFrames /\ FaithfulInv /\ FramingInv' /\ DecodeFrame => FaithfulInv'
<1> SUFFICES ASSUME WholeFrames, FaithfulInv, FramingInv', DecodeFrame PROVE FaithfulInv'
  OBVIOUS
<1> DEFINE d == Decode(codec, buffer)
           x == [codec |-> codec, item |-> d.item]
<1>0. PICK n \in Nat : n = Len(received)
  BY LenProperties DEF FaithfulInv
<1>1. /\ script' = script /\ stream' = stream /\ taken' = taken + d.consumed
      /\ received' = Append(received, x)
      /\ error' = error /\ codec' = codec /\ pc' = "answer" /\ pc = "decode"
      /\ d.kind = "frame"
  BY DEF DecodeFrame, clientVars
<1>2. codec \in Codecs /\ error = "none" /\ script \in Scripts
  BY <1>1 DEF FaithfulInv, FramingInv, TypeOK
<1>3. d = Frame(d.item, d.consumed)
  BY <1>1, <1>2, DecodeResults, Kinds
<1>4. PICK S : received \in Seq(S)
  BY DEF FaithfulInv
<1>5. /\ n \in Nat /\ Len(received') = n + 1 /\ received'[n + 1] = x
      /\ \A i \in 1..n : received'[i] = received[i]
      /\ received' \in Seq(S \cup {x})
  <2>1. received \in Seq(S \cup {x}) /\ x \in S \cup {x}
    BY <1>4, SeqMonotonic
  <2> HIDE DEF x
  <2> QED
    BY <1>0, <1>1, <1>4, <2>1, AppendProperties
<1>6. x.codec = codec /\ x.item = d.item
  OBVIOUS
<1> HIDE DEF d, x
<1>7. \A i \in 0..n : InStep(i)' => InStep(i)
  <2>1. \A i \in 0..n : \A j \in 1..i : j \in 1..n
    BY <1>5
  <2> QED
    BY <1>1, <1>5, <2>1 DEF InStep
<1>8. ASSUME InStep(n + 1)'
      PROVE  /\ InStep(n) /\ n + 1 \in 1..Len(script)
             /\ script[n + 1].yields = d /\ d.consumed = Len(script[n + 1].bytes)
  <2>1. n \in 0..n /\ n + 1 \in 1..(n + 1) /\ \A j \in 1..n : j \in 1..(n + 1)
    BY <1>5
  <2>2. InStep(n)
    BY <1>1, <1>5, <1>8, <2>1 DEF InStep
  <2>3. n + 1 <= Len(script) /\ script[n + 1].codec = codec
    BY <1>1, <1>5, <1>6, <1>8, <2>1 DEF InStep
  <2>4. d # Incomplete /\ d # Error("FrameTooLarge")
    BY <1>1, Kinds
  <2>5. d = script[n + 1].yields
    BY <1>0, <2>2, <2>3, <2>4, NextFrame DEF d
  <2>6. n + 1 \in 1..Len(script) /\ n + 1 \in DOMAIN script
    BY <1>2, <1>5, <2>3, ScriptBytes
  <2>7. d.consumed = Len(script[n + 1].bytes)
    BY <1>1, <1>2, <2>5, <2>6 DEF WholeFrames, WholeFrame
  <2> QED
    BY <2>2, <2>5, <2>6, <2>7
<1>9. InPlace'
  <2>1. PICK cut : Cuts(BytesOf(script), stream, cut) /\ (InStep(n) => taken = cut[n])
    BY <1>0 DEF FaithfulInv, InPlace
  <2>2. ASSUME InStep(n + 1)' PROVE taken' = cut[n + 1]
    <3>1. n + 1 \in 1..Len(script) /\ InStep(n) /\ (n + 1) - 1 = n
          /\ Len(script[n + 1].bytes) = d.consumed
      BY <1>5, <1>8, <2>2
    <3>2. BytesOf(script)[n + 1] = script[n + 1].bytes /\ Len(BytesOf(script)) = Len(script)
      BY <1>2, <3>1, ScriptBytes
    <3>3. cut[n + 1] = cut[n] + d.consumed
      BY <2>1, <3>1, <3>2 DEF Cuts
    <3> QED
      BY <1>1, <2>1, <3>1, <3>3
  <2>3. Len(received)' = n + 1
    BY <1>5
  <2> QED
    BY <1>1, <2>1, <2>2, <2>3 DEF InPlace
<1>10. Meant'
  <2> SUFFICES ASSUME NEW i \in 1..(n + 1), InStep(i)'
               PROVE  script[i].yields = Frame(received'[i].item, Len(script[i].bytes))
    BY <1>1, <1>5 DEF Meant
  <2>1. CASE i \in 1..n
    <3>1. i \in 0..n
      BY <1>5, <2>1
    <3> QED
      BY <1>0, <1>1, <1>5, <1>7, <2>1, <3>1 DEF FaithfulInv, Faithful, Meant
  <2>2. CASE i = n + 1
    BY <1>3, <1>5, <1>6, <1>8, <2>2
  <2> QED
    BY <1>5, <2>1, <2>2
<1>11. Blamed'
  BY <1>1, <1>2 DEF Blamed
<1> QED
  BY <1>1, <1>2, <1>5, <1>9, <1>10, <1>11 DEF FaithfulInv, Faithful

LEMMA FaithfulNext == WholeFrames /\ FaithfulInv /\ FramingInv' /\ [Next]_vars => FaithfulInv'
<1> SUFFICES ASSUME WholeFrames, FaithfulInv, FramingInv', [Next]_vars PROVE FaithfulInv'
  OBVIOUS
<1>1. CASE BlamesNoFrame
  BY <1>1, BlamesNoFrameInv
<1>2. CASE DecodeFails
  BY <1>2, FailsInv
<1>3. CASE DecodeFrame
  BY <1>3, FrameInv
<1>4. Read => BlamesNoFrame
  BY DEF Read, BlamesNoFrame, clientVars
<1>5. ReadEnds => BlamesNoFrame
  BY DEF ReadEnds, Close, BlamesNoFrame, clientVars, readVars
<1>6. DecodeIncomplete => BlamesNoFrame
  BY DEF DecodeIncomplete, BlamesNoFrame, clientVars, readVars
<1>7. SelectMethod => BlamesNoFrame
  BY DEF SelectMethod, Say, IntoState, LastAnswer, BlamesNoFrame, clientVars
<1>8. AnswerCredentials => BlamesNoFrame
  BY DEF AnswerCredentials, Say, IntoState, LastAnswer, BlamesNoFrame, clientVars
<1>9. Respond => BlamesNoFrame
  BY DEF Respond, Say, LastAnswer, BlamesNoFrame, clientVars
<1>10. ClientHears => BlamesNoFrame
  BY DEF ClientHears, Hear, BlamesNoFrame, clientVars, readVars
<1>11. UNCHANGED vars => BlamesNoFrame
  BY DEF vars, BlamesNoFrame
<1> QED
  BY <1>1, <1>2, <1>3, <1>4, <1>5, <1>6, <1>7, <1>8, <1>9, <1>10, <1>11 DEF Next, Terminated

\* Wherever the stream of a client is cut and joined, the items that recv
\* returns are those of its frames read whole, one after the other, and what it
\* is turned down for is the fault of its frame (state.rs:172-185;
\* codecs/server.rs:73-132, 190-261, 328-442).
THEOREM FaithfulTheorem ==
    ASSUME WholeFrames
    PROVE  Spec => []Faithful
<1>1. Init => FaithfulInv
  BY FaithfulInit
<1>2. FaithfulInv /\ [Next]_vars => FaithfulInv'
  BY NextInv, FaithfulNext DEF FaithfulInv
<1>3. FaithfulInv => Faithful
  BY DEF FaithfulInv
<1> QED
  BY <1>1, <1>2, <1>3, PTL DEF Spec
=============================================================================
