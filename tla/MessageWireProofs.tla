-------------------------- MODULE MessageWireProofs --------------------------
(* Proofs about MessageWire, for any media, commands, limits and number of     *)
(* calls. The first parts are about headers and about messages and their        *)
(* encodings, the next about what is on its way to an end and what it will find *)
(* there, and the rest about each action.                                       *)
EXTENDS MessageWire, SequenceTheorems, TLAPS

Byte  == 0 .. 255
Clock == 0 .. (StampModulus - 1)

\* No message has more fields than this.
Lengths == 0 .. 5

Writers ==
  [ts : Clock, delta : Clock, len : Lengths, type : Byte, sid : StreamIDs, new : BOOLEAN,
   fmt : 0..3, hts : Clock, hdelta : Clock, hlen : Lengths, htype : Byte, hsid : StreamIDs,
   rest : Nat]

Readers ==
  [ts : Clock, delta : Clock, len : Lengths, type : Byte, sid : StreamIDs, have : Nat,
   completed : BOOLEAN]

(* Bytes. *)

\* Division by 256, in parts.
LEMMA Division ==
  ASSUME NEW n \in Nat
  PROVE  \E q \in Nat, s \in Byte : q = n \div 256 /\ s = n % 256 /\ n = 256 * q + s
<1>1. PICK q \in Nat : q = n \div 256
  BY SMT
<1>2. PICK s \in Byte : s = n % 256
  BY SMT DEF Byte
<1>3. n = 256 * q + s
  BY <1>1, <1>2, SMT DEF Byte
<1> QED BY <1>1, <1>2, <1>3

\* Two divisions by 256 are one by 65536, three one by 16777216.
LEMMA Divisions ==
  ASSUME NEW n \in Nat
  PROVE  \E q \in Nat, s \in Byte, t \in Byte :
           /\ s = n % 256 /\ t = (n \div 256) % 256 /\ q = n \div 65536
           /\ n = 65536 * q + (256 * t + s)
<1>1. PICK p \in Nat, s \in Byte : p = n \div 256 /\ s = n % 256 /\ n = 256 * p + s
  BY Division
<1>2. PICK q \in Nat, t \in Byte : q = p \div 256 /\ t = p % 256 /\ p = 256 * q + t
  BY Division
<1>3. PICK u \in Nat : u = 256 * t + s
  BY SMT DEF Byte
<1>4. u <= 65535
  BY <1>3, SMT DEF Byte
<1>5. n = 65536 * q + u
  BY <1>1, <1>2, <1>3, SMT DEF Byte
<1>6. n \div 65536 = q
  BY <1>4, <1>5, SMT
<1> QED BY <1>1, <1>2, <1>3, <1>5, <1>6, SMT

\* The greatest number of three bytes.
LEMMA EscapeIs ==
  /\ Escape \in Nat /\ Escape >= 5
  /\ \A n \in Nat : n <= Escape => n < 16777216
<1>1. PICK m \in Byte : m = 255
  BY SMT DEF Byte
<1>2. Escape = m * 65536 + m * 256 + m
  <2>1. <<255, 255, 255>> = <<m, m, m>>
    BY <1>1
  <2>2. Escape = FromBE3(<<m, m, m>>)
    BY <2>1 DEF Escape
  <2> QED BY <2>2, SMT DEF FromBE3
<1>3. PICK e \in Nat : e = m * 65536 + m * 256 + m
  BY SMT DEF Byte
<1>4. e >= 5 /\ e <= 16777215
  BY <1>1, <1>3, SMT
<1> QED BY <1>2, <1>3, <1>4, SMT

\* Three bytes and back.
LEMMA ThreeBytes ==
  ASSUME NEW n \in Nat, n <= Escape
  PROVE  \E q, t, s \in Byte :
           /\ BE3(n) = <<q, t, s>>
           /\ n = q * 65536 + t * 256 + s
<1>1. n < 16777216
  BY EscapeIs, SMT
<1>2. PICK q \in Nat, s \in Byte, t \in Byte :
           /\ s = n % 256 /\ t = (n \div 256) % 256 /\ q = n \div 65536
           /\ n = 65536 * q + (256 * t + s)
  BY Divisions
<1>3. q <= 255
  BY <1>1, <1>2, SMT DEF Byte
<1>4. q % 256 = q /\ q \in Byte
  BY <1>3, SMT DEF Byte
<1>5. BE3(n) = <<q, t, s>>
  BY <1>2, <1>4, SMT DEF BE3
<1>7. q * 65536 + t * 256 + s = n
  BY <1>2, <1>4, SMT DEF Byte
<1> QED BY <1>4, <1>5, <1>7

\* Four bytes and back, in both orders.
LEMMA FourBytes ==
  ASSUME NEW n \in Nat, InFourBytes(n)
  PROVE  \E q, p, t, s \in Byte :
           /\ BE4(n) = <<q, p, t, s>> /\ LE4(n) = <<s, t, p, q>>
           /\ n = q * 16777216 + p * 65536 + t * 256 + s
<1>1. PICK a \in Nat, s \in Byte, t \in Byte :
           /\ s = n % 256 /\ t = (n \div 256) % 256 /\ a = n \div 65536
           /\ n = 65536 * a + (256 * t + s)
  BY Divisions
<1>2. PICK q \in Nat, p \in Byte : q = a \div 256 /\ p = a % 256 /\ a = 256 * q + p
  BY Division
<1>3. PICK u \in Nat : u = 65536 * p + (256 * t + s)
  BY SMT DEF Byte
<1>4. u <= 16777215
  BY <1>3, SMT DEF Byte
<1>5. n = 16777216 * q + u
  BY <1>1, <1>2, <1>3, SMT DEF Byte
<1>6. n \div 16777216 = q
  BY <1>4, <1>5, SMT
<1>7. q \in Byte /\ q % 256 = q
  <2>1. q < 256
    BY <1>6, SMT DEF InFourBytes
  <2> QED BY <2>1, SMT DEF Byte
<1>8. BE4(n) = <<q, p, t, s>> /\ LE4(n) = <<s, t, p, q>>
  BY <1>1, <1>2, <1>6, <1>7, SMT DEF BE4, BE3, LE4
<1>9. n = q * 16777216 + p * 65536 + t * 256 + s
  BY <1>3, <1>5, <1>7, SMT DEF Byte
<1> QED BY <1>7, <1>8, <1>9, SMT

-----------------------------------------------------------------------------
(* Headers. *)

\* p is in s behind its first k elements.
Holds(s, k, p) == k + Len(p) <= Len(s) /\ \A i \in 1 .. Len(p) : s[k + i] = p[i]

\* Both parts are in a concatenation.
LEMMA HoldsParts ==
  ASSUME NEW S, NEW p \in Seq(S), NEW q \in Seq(S)
  PROVE  Holds(p \o q, 0, p) /\ Holds(p \o q, Len(p), q)
<1>1. /\ Len(p \o q) = Len(p) + Len(q) /\ Len(p) \in Nat /\ Len(q) \in Nat
      /\ \A i \in 1 .. Len(p) + Len(q) : (p \o q)[i] = IF i <= Len(p) THEN p[i] ELSE q[i - Len(p)]
  BY ConcatProperties
<1>2. ASSUME NEW i \in 1 .. Len(p) PROVE (p \o q)[0 + i] = p[i]
  BY <1>1
<1>3. ASSUME NEW i \in 1 .. Len(q) PROVE (p \o q)[Len(p) + i] = q[i]
  <2>1. Len(p) + i \in 1 .. Len(p) + Len(q) /\ ~(Len(p) + i <= Len(p)) /\ (Len(p) + i) - Len(p) = i
    BY <1>1
  <2> QED BY <1>1, <2>1
<1>4. 0 + Len(p) <= Len(p \o q) /\ Len(p) + Len(q) <= Len(p \o q)
  BY <1>1
<1> QED BY <1>2, <1>3, <1>4 DEF Holds

\* What is in the first part is in the concatenation.
LEMMA HoldsOn ==
  ASSUME NEW S, NEW p \in Seq(S), NEW q \in Seq(S), NEW x \in Seq(S), NEW k \in Nat, Holds(p, k, x)
  PROVE  Holds(p \o q, k, x)
<1>1. /\ Len(p \o q) = Len(p) + Len(q)
      /\ \A i \in 1 .. Len(p) + Len(q) : (p \o q)[i] = IF i <= Len(p) THEN p[i] ELSE q[i - Len(p)]
  BY ConcatProperties
<1>0. Len(p) \in Nat /\ Len(q) \in Nat /\ Len(x) \in Nat
  OBVIOUS
<1>2. ASSUME NEW i \in 1 .. Len(x) PROVE (p \o q)[k + i] = x[i]
  <2>1. k + Len(x) <= Len(p) /\ p[k + i] = x[i]
    BY DEF Holds
  <2>2. k + i \in 1 .. Len(p) + Len(q) /\ k + i <= Len(p)
    BY <1>0, <2>1
  <2> QED BY <1>1, <2>1, <2>2
<1>3. k + Len(x) <= Len(p \o q)
  <2>1. k + Len(x) <= Len(p)
    BY DEF Holds
  <2> QED BY <1>0, <1>1, <2>1
<1> QED BY <1>2, <1>3 DEF Holds

Joins(p, q, n) ==
  /\ p \o q \in Seq(Byte) /\ Len(p \o q) = n + Len(q)
  /\ Holds(p \o q, 0, p) /\ Holds(p \o q, n, q)

\* A concatenation of bytes whose first part has a known length.
LEMMA Joined ==
  ASSUME NEW p \in Seq(Byte), NEW q \in Seq(Byte), NEW n \in Nat, Len(p) = n
  PROVE  Joins(p, q, n)
BY ConcatProperties, HoldsParts DEF Joins

\* The basic header says its length, its format and its chunk stream.
THEOREM BasicHeader ==
  ASSUME NEW fmt \in 0 .. 3, NEW id \in Nat, 2 <= id, id <= LastChunkStream
  PROVE  LET H == EncodeBasicHeader(fmt, id)
         IN  /\ H \in Seq(Byte) /\ Len(H) \in 1 .. 3 /\ BasicHeaderLength(H[1]) = Len(H)
             /\ \A b : Holds(b, 0, H) => DecodeBasicHeader(b) = [fmt |-> fmt, id |-> id]
<1>1. CASE id <= 63
  <2>1. EncodeBasicHeader(fmt, id) = <<fmt * 64 + id>>
    <3>1. id \in 2 .. 63 /\ id \notin 64 .. 319 /\ id \notin 320 .. LastChunkStream
      BY <1>1
    <3> QED BY <3>1, SMT DEF EncodeBasicHeader
  <2>2. PICK a \in Byte : a = fmt * 64 + id /\ a % 64 = id /\ a \div 64 = fmt
    BY <1>1, SMT DEF Byte
  <2>3. ~(a % 64 = 0) /\ ~(a % 64 = 1)
    BY <2>2
  <2>4. <<a>> \in Seq(Byte) /\ Len(<<a>>) = 1 /\ <<a>>[1] = a /\ BasicHeaderLength(a) = 1
    BY <2>3 DEF BasicHeaderLength
  <2>5. ASSUME NEW b, Holds(b, 0, <<a>>) PROVE DecodeBasicHeader(b) = [fmt |-> fmt, id |-> id]
    <3>1. b[1] = a
      BY <2>5 DEF Holds
    <3> QED BY <2>2, <2>3, <3>1 DEF DecodeBasicHeader
  <2> QED BY <2>1, <2>2, <2>4, <2>5
<1>2. CASE 64 <= id /\ id <= 319
  <2>1. EncodeBasicHeader(fmt, id) = <<fmt * 64, id - 64>>
    <3>1. id \notin 2 .. 63 /\ id \in 64 .. 319 /\ id \notin 320 .. LastChunkStream
      BY <1>2
    <3> QED BY <3>1, SMT DEF EncodeBasicHeader
  <2>2. PICK a \in Byte : a = fmt * 64 /\ a % 64 = 0 /\ a \div 64 = fmt
    BY SMT DEF Byte
  <2>3. PICK c \in Byte : c = id - 64 /\ c + 64 = id
    BY <1>2, SMT DEF Byte
  <2>4. <<a, c>> \in Seq(Byte) /\ Len(<<a, c>>) = 2 /\ <<a, c>>[1] = a /\ BasicHeaderLength(a) = 2
    BY <2>2 DEF BasicHeaderLength
  <2>5. ASSUME NEW b, Holds(b, 0, <<a, c>>) PROVE DecodeBasicHeader(b) = [fmt |-> fmt, id |-> id]
    <3>1. b[1] = a /\ b[2] = c
      BY <2>5 DEF Holds
    <3> QED BY <2>2, <2>3, <3>1 DEF DecodeBasicHeader
  <2> QED BY <2>1, <2>2, <2>3, <2>4, <2>5
<1>3. CASE 320 <= id
  <2>1. EncodeBasicHeader(fmt, id) = <<fmt * 64 + 1, (id - 64) % 256, (id - 64) \div 256>>
    BY <1>3, SMT DEF EncodeBasicHeader
  <2>2. PICK a \in Byte : a = fmt * 64 + 1 /\ a % 64 = 1 /\ a \div 64 = fmt
    BY SMT DEF Byte
  <2>3. PICK n \in Nat : n = id - 64 /\ n + 64 = id /\ n < 65536
    BY <1>3, SMT DEF LastChunkStream
  <2>4. PICK d \in Nat, c \in Byte : d = n \div 256 /\ c = n % 256 /\ n = 256 * d + c
    BY Division
  <2>5. d \in Byte
    BY <2>3, <2>4, SMT DEF Byte
  <2>6. /\ <<a, c, d>> \in Seq(Byte) /\ Len(<<a, c, d>>) = 3 /\ <<a, c, d>>[1] = a
        /\ BasicHeaderLength(a) = 3
    BY <2>2, <2>5 DEF BasicHeaderLength
  <2>7. ASSUME NEW b, Holds(b, 0, <<a, c, d>>) PROVE DecodeBasicHeader(b) = [fmt |-> fmt, id |-> id]
    <3>1. b[1] = a /\ b[2] = c /\ b[3] = d
      BY <2>7 DEF Holds
    <3>2. d * 256 + c + 64 = id
      BY <2>3, <2>4, <2>5, SMT DEF Byte
    <3> QED BY <2>2, <3>1, <3>2 DEF DecodeBasicHeader
  <2> QED BY <2>1, <2>2, <2>3, <2>4, <2>6, <2>7
<1> QED BY <1>1, <1>2, <1>3, SMT

\* A timestamp or a delta that does not fit three bytes is in the four behind.
LEMMA Stamped ==
  ASSUME NEW t \in Clock
  PROVE  /\ Stamp(t) \in Seq(Byte) /\ Len(Stamp(t)) = 3
         /\ Extended(t) \in Seq(Byte) /\ Len(Extended(t)) = IF t >= Escape THEN 4 ELSE 0
         /\ \A b : Holds(b, 0, Stamp(t)) => FromBE3(b) = IF t >= Escape THEN Escape ELSE t
         /\ t >= Escape => \A b : Holds(b, 0, Extended(t)) => FromBE4(b) = t
<1>1. PICK n \in Nat : n = (IF t >= Escape THEN Escape ELSE t) /\ n <= Escape
  BY EscapeIs DEF Clock
<1>2. PICK q \in Byte, u \in Byte, v \in Byte : BE3(n) = <<q, u, v>> /\ n = q * 65536 + u * 256 + v
  BY <1>1, ThreeBytes, SMT
<1>3. Stamp(t) = <<q, u, v>>
  BY <1>1, <1>2 DEF Stamp
<1>4. <<q, u, v>> \in Seq(Byte) /\ Len(<<q, u, v>>) = 3
  OBVIOUS
<1>5. ASSUME NEW b, Holds(b, 0, <<q, u, v>>) PROVE FromBE3(b) = n
  <2>1. b[1] = q /\ b[2] = u /\ b[3] = v
    BY <1>5 DEF Holds
  <2>2. FromBE3(b) = q * 65536 + u * 256 + v
    BY <2>1, SMT DEF FromBE3
  <2> QED BY <1>2, <2>2
<1>6. CASE t >= Escape
  <2>1. t \in Nat /\ InFourBytes(t)
    <3>1. PICK m \in Nat : m = StampModulus - 1
      BY StampAssumption
    <3>2. PICK c \in Nat : c = m \div 16777216 /\ c < 256
      BY <3>1, WireAssumption, SMT DEF InFourBytes
    <3>3. PICK d \in Nat : d = t \div 16777216
      BY SMT DEF Clock
    <3>4. t \in Nat /\ t <= m
      BY <3>1 DEF Clock
    <3>5. d <= c
      BY <3>2, <3>3, <3>4, SMT
    <3> QED BY <3>2, <3>3, <3>4, <3>5, SMT DEF InFourBytes
  <2>2. PICK a, c, d, e \in Byte :
          BE4(t) = <<a, c, d, e>> /\ t = a * 16777216 + c * 65536 + d * 256 + e
    BY <2>1, FourBytes, SMT
  <2>3. Extended(t) = <<a, c, d, e>>
    BY <1>6, <2>2 DEF Extended
  <2>4. <<a, c, d, e>> \in Seq(Byte) /\ Len(<<a, c, d, e>>) = 4
    BY <2>2
  <2>5. ASSUME NEW b, Holds(b, 0, <<a, c, d, e>>) PROVE FromBE4(b) = t
    <3>1. b[1] = a /\ b[2] = c /\ b[3] = d /\ b[4] = e
      BY <2>5 DEF Holds
    <3>2. FromBE4(b) = a * 16777216 + c * 65536 + d * 256 + e
      BY <3>1, SMT DEF FromBE4
    <3> QED BY <2>2, <3>2
  <2> QED BY <1>1, <1>3, <1>4, <1>5, <1>6, <2>3, <2>4, <2>5
<1>7. CASE ~(t >= Escape)
  <2>1. Extended(t) = <<>>
    BY <1>7 DEF Extended
  <2>2. <<>> \in Seq(Byte) /\ Len(<<>>) = 0
    OBVIOUS
  <2> QED BY <1>1, <1>3, <1>4, <1>5, <1>7, <2>1, <2>2
<1> QED BY <1>6, <1>7

\* What is behind the first k bytes is at the beginning of what is cut out.
LEMMA HoldsCut ==
  ASSUME NEW H \in Seq(Byte), NEW k \in Nat, NEW n \in Nat, NEW x, Len(x) = n, Holds(H, k, x)
  PROVE  Holds(SubSeq(H, k + 1, k + n), 0, x)
<1>1. Len(H) \in Nat /\ k + n <= Len(H)
  BY DEF Holds
<1>2. k + 1 \in 1 .. Len(H) + 1 /\ k + n \in k .. Len(H)
  BY <1>1
<1>3. /\ Len(SubSeq(H, k + 1, k + n)) = n
      /\ \A i \in 1 .. n : SubSeq(H, k + 1, k + n)[i] = H[k + i]
  BY <1>1, <1>2
<1> QED BY <1>3 DEF Holds

\* The length and the message stream ID of a header.
LEMMA Numbered ==
  ASSUME NEW n \in Lengths, NEW sid \in StreamIDs
  PROVE  /\ BE3(n) \in Seq(Byte) /\ Len(BE3(n)) = 3
         /\ \A b : Holds(b, 0, BE3(n)) => FromBE3(b) = n
         /\ LE4(sid) \in Seq(Byte) /\ Len(LE4(sid)) = 4
         /\ \A b : Holds(b, 0, LE4(sid)) => FromLE4(b) = sid
<1>1. n \in Nat /\ n <= Escape
  BY EscapeIs DEF Lengths
<1>2. PICK q, u, v \in Byte : BE3(n) = <<q, u, v>> /\ n = q * 65536 + u * 256 + v
  BY <1>1, ThreeBytes, SMT
<1>3. <<q, u, v>> \in Seq(Byte) /\ Len(<<q, u, v>>) = 3
  OBVIOUS
<1>4. ASSUME NEW b, Holds(b, 0, <<q, u, v>>) PROVE FromBE3(b) = n
  <2>1. b[1] = q /\ b[2] = u /\ b[3] = v
    BY <1>4 DEF Holds
  <2>2. FromBE3(b) = q * 65536 + u * 256 + v
    BY <2>1, SMT DEF FromBE3
  <2> QED BY <1>2, <2>2
<1>5. sid \in Nat /\ InFourBytes(sid)
  <2>1. sid \in 0 .. 1
    BY DEF StreamIDs, ControlStream, DataStream
  <2> QED BY <2>1, SMT DEF InFourBytes
<1>6. PICK a, c, d, e \in Byte :
        LE4(sid) = <<e, d, c, a>> /\ sid = a * 16777216 + c * 65536 + d * 256 + e
  BY <1>5, FourBytes, SMT
<1>7. <<e, d, c, a>> \in Seq(Byte) /\ Len(<<e, d, c, a>>) = 4
  OBVIOUS
<1>8. ASSUME NEW b, Holds(b, 0, <<e, d, c, a>>) PROVE FromLE4(b) = sid
  <2>1. b[1] = e /\ b[2] = d /\ b[3] = c /\ b[4] = a
    BY <1>8 DEF Holds
  <2>2. FromLE4(b) = a * 16777216 + c * 65536 + d * 256 + e
    BY <2>1, SMT DEF FromLE4
  <2> QED BY <1>6, <2>2
<1> QED BY <1>2, <1>3, <1>4, <1>6, <1>7, <1>8

\* What a header of this format says of header fields h.
Says(fmt, h) ==
  [fmt   |-> fmt,
   ts    |-> IF fmt = 0 THEN h.hts ELSE 0,
   delta |-> IF fmt \in {1, 2} THEN h.hdelta ELSE 0,
   len   |-> IF fmt < 2 THEN h.hlen ELSE 0,
   type  |-> IF fmt < 2 THEN h.htype ELSE 0,
   sid   |-> IF fmt = 0 THEN h.hsid ELSE 0]

\* The parts of a header of format 0.
LEMMA LongHeader ==
  ASSUME NEW h \in Writers
  PROVE  LET H == EncodeMessageHeader(0, h)
         IN  /\ H \in Seq(Byte) /\ Len(H) = 11 + Len(Extended(h.hts))
             /\ Holds(H, 0, Stamp(h.hts)) /\ Holds(H, 3, BE3(h.hlen)) /\ H[7] = h.htype
             /\ Holds(H, 7, LE4(h.hsid)) /\ Holds(H, 11, Extended(h.hts))
<1>1. h.hts \in Clock /\ h.hlen \in Lengths /\ h.hsid \in StreamIDs /\ h.htype \in Byte
  BY DEF Writers
<1> PICK S, L, T, I, X \in Seq(Byte) :
           S = Stamp(h.hts) /\ L = BE3(h.hlen) /\ T = <<h.htype>> /\ I = LE4(h.hsid) /\ X = Extended(h.hts)
  <2>1. <<h.htype>> \in Seq(Byte)
    BY <1>1
  <2> QED BY <1>1, <2>1, Stamped, Numbered
<1>2. Len(S) = 3 /\ Len(L) = 3 /\ Len(T) = 1 /\ Len(I) = 4 /\ Len(X) \in Nat /\ T[1] = h.htype
  BY <1>1, Stamped, Numbered
<1>3. EncodeMessageHeader(0, h) = S \o L \o T \o I \o X
  <2>1. EncodeMessageHeader(0, h) =
          Stamp(h.hts) \o BE3(h.hlen) \o <<h.htype>> \o LE4(h.hsid) \o Extended(h.hts)
    <3>1. ASSUME NEW fmt, fmt = 0
          PROVE  EncodeMessageHeader(fmt, h) =
                   Stamp(h.hts) \o BE3(h.hlen) \o <<h.htype>> \o LE4(h.hsid) \o Extended(h.hts)
      BY <3>1, SMT DEF EncodeMessageHeader
    <3> QED BY <3>1
  <2> QED BY <2>1
<1>4. PICK A \in Seq(Byte) : A = S \o L /\ Len(A) = 6 /\ Holds(A, 0, S) /\ Holds(A, 3, L)
  <2>1. Joins(S, L, 3)
    BY <1>2, Joined
  <2>2. S \o L \in Seq(Byte) /\ Len(S \o L) = 3 + Len(L) /\ Holds(S \o L, 0, S) /\ Holds(S \o L, 3, L)
    BY <2>1 DEF Joins
  <2>3. Len(S \o L) = 6
    BY <1>2, <2>2
  <2> QED BY <2>2, <2>3
<1>5. PICK B \in Seq(Byte) : B = A \o T /\ Len(B) = 7 /\ Holds(B, 6, T)
  <2>1. Joins(A, T, 6)
    BY <1>2, <1>4, Joined
  <2>2. A \o T \in Seq(Byte) /\ Len(A \o T) = 6 + Len(T) /\ Holds(A \o T, 0, A) /\ Holds(A \o T, 6, T)
    BY <2>1 DEF Joins
  <2>3. Len(A \o T) = 7
    BY <1>2, <2>2
  <2> QED BY <2>2, <2>3
<1>6. Holds(B, 0, S) /\ Holds(B, 3, L)
  BY <1>4, <1>5, HoldsOn
<1>7. PICK C \in Seq(Byte) : C = B \o I /\ Len(C) = 11 /\ Holds(C, 7, I)
  <2>1. Joins(B, I, 7)
    BY <1>2, <1>5, Joined
  <2>2. B \o I \in Seq(Byte) /\ Len(B \o I) = 7 + Len(I) /\ Holds(B \o I, 0, B) /\ Holds(B \o I, 7, I)
    BY <2>1 DEF Joins
  <2>3. Len(B \o I) = 11
    BY <1>2, <2>2
  <2> QED BY <2>2, <2>3
<1>8. Holds(C, 0, S) /\ Holds(C, 3, L) /\ Holds(C, 6, T)
  BY <1>5, <1>6, <1>7, HoldsOn
<1>9. PICK D \in Seq(Byte) : D = C \o X /\ Len(D) = 11 + Len(X) /\ Holds(D, 11, X)
  <2>1. Joins(C, X, 11)
    BY <1>2, <1>7, Joined
  <2>2. C \o X \in Seq(Byte) /\ Len(C \o X) = 11 + Len(X) /\ Holds(C \o X, 0, C) /\ Holds(C \o X, 11, X)
    BY <2>1 DEF Joins
  <2>3. Len(C \o X) = 11 + Len(X)
    BY <1>2, <2>2
  <2> QED BY <2>2, <2>3
<1>10. Holds(D, 0, S) /\ Holds(D, 3, L) /\ Holds(D, 6, T) /\ Holds(D, 7, I)
  BY <1>7, <1>8, <1>9, HoldsOn
<1>11. D[7] = h.htype
  <2>1. 1 \in 1 .. Len(T) /\ 6 + 1 = 7
    BY <1>2
  <2> QED BY <1>2, <1>10, <2>1 DEF Holds
<1> QED BY <1>3, <1>4, <1>5, <1>7, <1>9, <1>10, <1>11

\* The parts of a header of format 1.
LEMMA MiddleHeader ==
  ASSUME NEW h \in Writers
  PROVE  LET H == EncodeMessageHeader(1, h)
         IN  /\ H \in Seq(Byte) /\ Len(H) = 7 + Len(Extended(h.hdelta))
             /\ Holds(H, 0, Stamp(h.hdelta)) /\ Holds(H, 3, BE3(h.hlen)) /\ H[7] = h.htype
             /\ Holds(H, 7, Extended(h.hdelta))
<1>1. h.hdelta \in Clock /\ h.hlen \in Lengths /\ h.hsid \in StreamIDs /\ h.htype \in Byte
  BY DEF Writers
<1> PICK S, L, T, X \in Seq(Byte) :
           S = Stamp(h.hdelta) /\ L = BE3(h.hlen) /\ T = <<h.htype>> /\ X = Extended(h.hdelta)
  <2>1. <<h.htype>> \in Seq(Byte)
    BY <1>1
  <2> QED BY <1>1, <2>1, Stamped, Numbered
<1>2. Len(S) = 3 /\ Len(L) = 3 /\ Len(T) = 1 /\ Len(X) \in Nat /\ T[1] = h.htype
  BY <1>1, Stamped, Numbered
<1>3. EncodeMessageHeader(1, h) = S \o L \o T \o X
  BY DEF EncodeMessageHeader
<1>4. PICK A \in Seq(Byte) : A = S \o L /\ Len(A) = 6 /\ Holds(A, 0, S) /\ Holds(A, 3, L)
  <2>1. Joins(S, L, 3)
    BY <1>2, Joined
  <2>2. S \o L \in Seq(Byte) /\ Len(S \o L) = 3 + Len(L) /\ Holds(S \o L, 0, S) /\ Holds(S \o L, 3, L)
    BY <2>1 DEF Joins
  <2>3. Len(S \o L) = 6
    BY <1>2, <2>2
  <2> QED BY <2>2, <2>3
<1>5. PICK B \in Seq(Byte) : B = A \o T /\ Len(B) = 7 /\ Holds(B, 6, T)
  <2>1. Joins(A, T, 6)
    BY <1>2, <1>4, Joined
  <2>2. A \o T \in Seq(Byte) /\ Len(A \o T) = 6 + Len(T) /\ Holds(A \o T, 0, A) /\ Holds(A \o T, 6, T)
    BY <2>1 DEF Joins
  <2>3. Len(A \o T) = 7
    BY <1>2, <2>2
  <2> QED BY <2>2, <2>3
<1>6. Holds(B, 0, S) /\ Holds(B, 3, L)
  BY <1>4, <1>5, HoldsOn
<1>7. PICK D \in Seq(Byte) : D = B \o X /\ Len(D) = 7 + Len(X) /\ Holds(D, 7, X)
  <2>1. Joins(B, X, 7)
    BY <1>2, <1>5, Joined
  <2>2. B \o X \in Seq(Byte) /\ Len(B \o X) = 7 + Len(X) /\ Holds(B \o X, 0, B) /\ Holds(B \o X, 7, X)
    BY <2>1 DEF Joins
  <2>3. Len(B \o X) = 7 + Len(X)
    BY <1>2, <2>2
  <2> QED BY <2>2, <2>3
<1>8. Holds(D, 0, S) /\ Holds(D, 3, L) /\ Holds(D, 6, T)
  BY <1>5, <1>6, <1>7, HoldsOn
<1>9. D[7] = h.htype
  <2>1. 1 \in 1 .. Len(T) /\ 6 + 1 = 7
    BY <1>2
  <2> QED BY <1>2, <1>8, <2>1 DEF Holds
<1> QED BY <1>3, <1>4, <1>5, <1>7, <1>8, <1>9

\* The parts of a header of format 2.
LEMMA ShortHeader ==
  ASSUME NEW h \in Writers
  PROVE  LET H == EncodeMessageHeader(2, h)
         IN  /\ H \in Seq(Byte) /\ Len(H) = 3 + Len(Extended(h.hdelta))
             /\ Holds(H, 0, Stamp(h.hdelta)) /\ Holds(H, 3, Extended(h.hdelta))
<1>1. h.hdelta \in Clock
  BY DEF Writers
<1> PICK S, X \in Seq(Byte) : S = Stamp(h.hdelta) /\ X = Extended(h.hdelta)
  BY <1>1, Stamped
<1>2. Len(S) = 3 /\ Len(X) \in Nat
  BY <1>1, Stamped
<1>3. EncodeMessageHeader(2, h) = S \o X
  BY DEF EncodeMessageHeader
<1>4. S \o X \in Seq(Byte) /\ Len(S \o X) = 3 + Len(X) /\ Holds(S \o X, 0, S) /\ Holds(S \o X, 3, X)
  <2>1. Joins(S, X, 3)
    BY <1>2, Joined
  <2> QED BY <2>1 DEF Joins
<1> QED BY <1>3, <1>4

\* A message header says how long it is and is read as it was written.
LEMMA MessageHeader ==
  ASSUME NEW fmt \in 0 .. 3, NEW h \in Writers
  PROVE  LET H == EncodeMessageHeader(fmt, h)
         IN  /\ H \in Seq(Byte) /\ Len(H) \in Nat /\ (fmt # 3 => Len(H) >= 3)
             /\ \A b : Holds(b, 0, SubSeq(H, 1, 3)) \/ fmt = 3 => MessageHeaderLength(fmt, b) = Len(H)
             /\ DecodeMessageHeader(fmt, H) = Says(fmt, h)
<1> PICK H : H = EncodeMessageHeader(fmt, h)
  OBVIOUS
<1>1. /\ h.hts \in Clock /\ h.hdelta \in Clock /\ h.hlen \in Lengths /\ h.hsid \in StreamIDs
      /\ h.htype \in Byte
  BY DEF Writers
<1>2. ASSUME H \in Seq(Byte), NEW t \in Clock, Holds(H, 0, Stamp(t)), fmt # 3,
             Len(H) = ShortLength(fmt) + Len(Extended(t))
      PROVE  /\ FromBE3(H) = (IF t >= Escape THEN Escape ELSE t)
             /\ Len(H) \in Nat /\ Len(H) >= 3
             /\ IsExtended(fmt, H) <=> t >= Escape
             /\ \A b : Holds(b, 0, SubSeq(H, 1, 3)) => MessageHeaderLength(fmt, b) = Len(H)
  <2>1. FromBE3(H) = (IF t >= Escape THEN Escape ELSE t)
    BY <1>2, Stamped
  <2>2. ASSUME NEW b, FromBE3(b) = FromBE3(H) PROVE IsExtended(fmt, b) <=> t >= Escape
    BY <1>2, <2>1, <2>2, EscapeIs DEF IsExtended, Clock
  <2>3. Len(Extended(t)) = (IF t >= Escape THEN 4 ELSE 0) /\ Len(Stamp(t)) = 3
    BY Stamped
  <2>4. ASSUME NEW b, FromBE3(b) = FromBE3(H) PROVE MessageHeaderLength(fmt, b) = Len(H)
    BY <1>2, <2>2, <2>3, <2>4 DEF MessageHeaderLength
  <2>5. ASSUME NEW b, Holds(b, 0, SubSeq(H, 1, 3)) PROVE FromBE3(b) = FromBE3(H)
    <3>1. Len(H) \in Nat /\ 3 <= Len(H)
      BY <1>2, <2>3 DEF Holds
    <3>2. Len(SubSeq(H, 1, 3)) = 3 /\ SubSeq(H, 1, 3)[1] = H[1] /\ SubSeq(H, 1, 3)[2] = H[2] /\ SubSeq(H, 1, 3)[3] = H[3]
      BY <1>2, <3>1
    <3>3. b[1] = H[1] /\ b[2] = H[2] /\ b[3] = H[3]
      BY <2>5, <3>2 DEF Holds
    <3> QED BY <3>3, SMT DEF FromBE3
  <2>6. Len(H) \in Nat /\ Len(H) >= 3
    BY <1>2, <2>3 DEF Holds
  <2> QED BY <2>1, <2>2, <2>4, <2>5, <2>6
<1> DEFINE stamp(t) == IF IsExtended(fmt, H)
                       THEN FromBE4(SubSeq(H, ShortLength(fmt) + 1, ShortLength(fmt) + 4))
                       ELSE FromBE3(H)
<1>3. ASSUME H \in Seq(Byte), NEW t \in Clock, Holds(H, 0, Stamp(t)), fmt # 3,
             Len(H) = ShortLength(fmt) + Len(Extended(t)), Holds(H, ShortLength(fmt), Extended(t))
      PROVE  stamp(t) = t
  <2>1. CASE t >= Escape
    <3>1. Len(Extended(t)) = 4 /\ ShortLength(fmt) \in Nat
      BY <1>3, <2>1, Stamped DEF ShortLength
    <3>2. Holds(SubSeq(H, ShortLength(fmt) + 1, ShortLength(fmt) + 4), 0, Extended(t))
      BY <1>3, <3>1, HoldsCut
    <3>3. IsExtended(fmt, H)
      BY <1>2, <1>3, <2>1
    <3> QED BY <2>1, <3>2, <3>3, Stamped
  <2>2. CASE ~(t >= Escape)
    <3>1. ~IsExtended(fmt, H) /\ FromBE3(H) = t
      BY <1>2, <1>3, <2>2
    <3> QED BY <3>1
  <2> QED BY <2>1, <2>2
<1> HIDE DEF stamp
<1>4. CASE fmt = 0
  <2>1. /\ H \in Seq(Byte) /\ Len(H) = ShortLength(fmt) + Len(Extended(h.hts))
        /\ Holds(H, 0, Stamp(h.hts)) /\ Holds(H, 3, BE3(h.hlen)) /\ H[7] = h.htype
        /\ Holds(H, 7, LE4(h.hsid)) /\ Holds(H, ShortLength(fmt), Extended(h.hts))
    BY <1>4, LongHeader DEF ShortLength
  <2>2. stamp(h.hts) = h.hts
    BY <1>1, <1>3, <1>4, <2>1
  <2>3. FromBE3(SubSeq(H, 4, 6)) = h.hlen
    <3>1. Holds(SubSeq(H, 3 + 1, 3 + 3), 0, BE3(h.hlen))
      BY <1>1, <2>1, Numbered, HoldsCut
    <3> QED BY <1>1, <3>1, Numbered
  <2>4. FromLE4(SubSeq(H, 8, 11)) = h.hsid
    <3>1. Holds(SubSeq(H, 7 + 1, 7 + 4), 0, LE4(h.hsid))
      BY <1>1, <2>1, Numbered, HoldsCut
    <3> QED BY <1>1, <3>1, Numbered
  <2>5. DecodeMessageHeader(fmt, H) = Says(fmt, h)
    BY <1>4, <2>1, <2>2, <2>3, <2>4 DEF DecodeMessageHeader, Says, stamp
  <2> QED BY <1>1, <1>2, <1>4, <2>1, <2>5
<1>5. CASE fmt = 1
  <2>1. /\ H \in Seq(Byte) /\ Len(H) = ShortLength(fmt) + Len(Extended(h.hdelta))
        /\ Holds(H, 0, Stamp(h.hdelta)) /\ Holds(H, 3, BE3(h.hlen)) /\ H[7] = h.htype
        /\ Holds(H, ShortLength(fmt), Extended(h.hdelta))
    BY <1>5, MiddleHeader DEF ShortLength
  <2>2. stamp(h.hdelta) = h.hdelta
    BY <1>1, <1>3, <1>5, <2>1
  <2>3. FromBE3(SubSeq(H, 4, 6)) = h.hlen
    <3>1. Holds(SubSeq(H, 3 + 1, 3 + 3), 0, BE3(h.hlen))
      BY <1>1, <2>1, Numbered, HoldsCut
    <3> QED BY <1>1, <3>1, Numbered
  <2>4. DecodeMessageHeader(fmt, H) = Says(fmt, h)
    BY <1>5, <2>1, <2>2, <2>3 DEF DecodeMessageHeader, Says, stamp
  <2> QED BY <1>1, <1>2, <1>5, <2>1, <2>4
<1>6. CASE fmt = 2
  <2>1. /\ H \in Seq(Byte) /\ Len(H) = ShortLength(fmt) + Len(Extended(h.hdelta))
        /\ Holds(H, 0, Stamp(h.hdelta)) /\ Holds(H, ShortLength(fmt), Extended(h.hdelta))
    BY <1>6, ShortHeader DEF ShortLength
  <2>2. stamp(h.hdelta) = h.hdelta
    BY <1>1, <1>3, <1>6, <2>1
  <2>3. DecodeMessageHeader(fmt, H) = Says(fmt, h)
    BY <1>6, <2>1, <2>2 DEF DecodeMessageHeader, Says, stamp
  <2> QED BY <1>1, <1>2, <1>6, <2>1, <2>3
<1>7. CASE fmt = 3
  <2>1. H = <<>>
    BY <1>7 DEF EncodeMessageHeader
  <2>2. DecodeMessageHeader(fmt, H) = Says(fmt, h)
    <3>1. ~IsExtended(fmt, H)
      BY <1>7 DEF IsExtended
    <3> QED BY <1>7, <3>1 DEF DecodeMessageHeader, Says
  <2>3. \A b : MessageHeaderLength(fmt, b) = 0
    BY <1>7 DEF MessageHeaderLength, ShortLength, IsExtended
  <2>4. <<>> \in Seq(Byte) /\ Len(<<>>) = 0
    OBVIOUS
  <2>5. H \in Seq(Byte) /\ Len(H) = 0
    BY <2>1, <2>4
  <2>6. \A b : MessageHeaderLength(fmt, b) = Len(H)
    BY <2>3, <2>5
  <2>7. Len(H) \in Nat
    BY <2>5
  <2> QED BY <1>7, <2>2, <2>5, <2>6, <2>7
<1> QED BY <1>4, <1>5, <1>6, <1>7

-----------------------------------------------------------------------------
(* What both ends remember. *)

\* What a writer whose message is new makes of its header.
LEMMA NextHeader ==
  ASSUME NEW x \in Writers, x.new
  PROVE  LET u == UpdateWriterHeader(x)
         IN  /\ u \in Writers
             /\ u.hts = x.ts /\ u.hlen = x.len /\ u.htype = x.type /\ u.hsid = x.sid
             /\ u.hdelta = IF x.ts < x.hts THEN 0 ELSE x.ts - x.hts
             /\ u.fmt = IF x.sid # x.hsid \/ x.ts < x.hts THEN 0
                        ELSE IF x.len # x.hlen \/ x.type # x.htype THEN 1
                        ELSE IF u.hdelta # x.hdelta THEN 2 ELSE 3
<1>1. /\ x.ts \in Clock /\ x.hts \in Clock /\ x.len \in Lengths /\ x.type \in Byte
      /\ x.sid \in StreamIDs /\ x.hdelta \in Clock
  BY DEF Writers
<1>2. PICK delta \in Clock : delta = IF x.ts < x.hts THEN 0 ELSE x.ts - x.hts
  BY <1>1, StampAssumption DEF Clock
<1>3. PICK fmt \in 0..3 : fmt = IF x.sid # x.hsid \/ x.ts < x.hts THEN 0
                               ELSE IF x.len # x.hlen \/ x.type # x.htype THEN 1
                               ELSE IF delta # x.hdelta THEN 2 ELSE 3
  OBVIOUS
<1>4. UpdateWriterHeader(x) =
        [x EXCEPT !.fmt = fmt, !.new = FALSE, !.delta = delta, !.hdelta = delta,
                  !.hts = x.ts, !.hlen = x.len, !.htype = x.type, !.hsid = x.sid]
  <2> DEFINE stamp == x.ts # x.hts \/ x.new
             back  == stamp /\ x.ts < x.hts
             d     == CASE ~stamp -> x.delta
                        [] back   -> 0
                        [] OTHER  -> x.ts - x.hts
             f     == IF x.sid # x.hsid \/ back THEN 0
                      ELSE IF x.len # x.hlen \/ x.type # x.htype THEN 1
                      ELSE IF d # x.hdelta THEN 2 ELSE 3
  <2>1. UpdateWriterHeader(x) =
          [x EXCEPT !.fmt = f, !.new = FALSE, !.delta = d, !.hdelta = d,
                    !.hts = x.ts, !.hlen = x.len, !.htype = x.type, !.hsid = x.sid]
    BY DEF UpdateWriterHeader
  <2>2. stamp /\ (back <=> x.ts < x.hts)
    OBVIOUS
  <2>3. d = delta
    <3> HIDE DEF stamp, back
    <3> QED BY <1>2, <2>2
  <2>4. f = fmt
    <3> HIDE DEF stamp, back, d
    <3> QED BY <1>3, <2>2, <2>3
  <2> HIDE DEF stamp, back, d, f
  <2> QED BY <2>1, <2>3, <2>4
<1> DEFINE u == UpdateWriterHeader(x)
<1>5. u \in Writers
  <2>1. PICK no \in BOOLEAN : no = FALSE
    OBVIOUS
  <2>2. PICK a \in Writers : a = [x EXCEPT !.fmt = fmt, !.new = no, !.delta = delta]
    BY <2>1 DEF Writers
  <2>3. PICK b \in Writers : b = [a EXCEPT !.hdelta = delta, !.hts = x.ts, !.hlen = x.len]
    BY <1>1, <2>2 DEF Writers
  <2>4. [b EXCEPT !.htype = x.type, !.hsid = x.sid] \in Writers
    BY <1>1, <2>3 DEF Writers
  <2>5. u = [b EXCEPT !.htype = x.type, !.hsid = x.sid]
    BY <1>4, <2>1, <2>2, <2>3
  <2> QED BY <2>4, <2>5
<1>6. /\ u.hts = x.ts /\ u.hlen = x.len /\ u.htype = x.type /\ u.hsid = x.sid
      /\ u.hdelta = delta /\ u.fmt = fmt
  BY <1>4 DEF Writers
<1> HIDE DEF u
<1>7. /\ u.hdelta = IF x.ts < x.hts THEN 0 ELSE x.ts - x.hts
      /\ u.fmt = IF x.sid # x.hsid \/ x.ts < x.hts THEN 0
                 ELSE IF x.len # x.hlen \/ x.type # x.htype THEN 1
                 ELSE IF u.hdelta # x.hdelta THEN 2 ELSE 3
  BY <1>2, <1>3, <1>6
<1> QED BY <1>5, <1>6, <1>7 DEF u

\* A reader that has read the header of writer u.
LEMMA HeaderRead ==
  ASSUME NEW y \in Readers, NEW u \in Writers
  PROVE  LET z == ReadHeader(y, Says(u.fmt, u))
         IN  /\ z \in Readers
             /\ z.len = IF u.fmt < 2 THEN u.hlen ELSE y.len
             /\ z.type = IF u.fmt < 2 THEN u.htype ELSE y.type
             /\ z.sid = IF u.fmt = 0 THEN u.hsid ELSE y.sid
             /\ z.ts = IF u.fmt = 0 THEN u.hts ELSE y.ts
             /\ z.delta = IF u.fmt = 0 THEN 0 ELSE IF u.fmt = 3 THEN y.delta ELSE u.hdelta
<1>1. PICK s \in Readers : /\ s = Started(y)
                           /\ s.ts = y.ts /\ s.delta = y.delta /\ s.len = y.len
                           /\ s.type = y.type /\ s.sid = y.sid
  <2>1. CASE y.completed
    <3>1. PICK no \in BOOLEAN, n \in Nat : no = FALSE /\ n = 0
      OBVIOUS
    <3>2. Started(y) = [y EXCEPT !.have = n, !.completed = no]
      BY <2>1, <3>1 DEF Started
    <3> QED BY <3>1, <3>2 DEF Readers
  <2>2. CASE ~y.completed
    <3>1. Started(y) = y
      BY <2>2 DEF Started
    <3> QED BY <3>1
  <2> QED BY <2>1, <2>2
<1>2. /\ u.fmt \in 0..3 /\ u.hts \in Clock /\ u.hdelta \in Clock /\ u.hlen \in Lengths
      /\ u.htype \in Byte /\ u.hsid \in StreamIDs
  BY DEF Writers
<1> PICK c : c = Says(u.fmt, u)
  OBVIOUS
<1>3. /\ c.fmt = u.fmt
      /\ c.ts = (IF u.fmt = 0 THEN u.hts ELSE 0)
      /\ c.delta = (IF u.fmt \in {1, 2} THEN u.hdelta ELSE 0)
      /\ c.len = (IF u.fmt < 2 THEN u.hlen ELSE 0)
      /\ c.type = (IF u.fmt < 2 THEN u.htype ELSE 0)
      /\ c.sid = (IF u.fmt = 0 THEN u.hsid ELSE 0)
  BY DEF Says
<1>4. CASE u.fmt = 0
  <2>1. PICK zero \in Clock : zero = 0
    BY StampAssumption DEF Clock
  <2>2. ReadHeader(y, c) = [s EXCEPT !.ts = u.hts, !.delta = zero, !.len = u.hlen,
                                     !.type = u.htype, !.sid = u.hsid]
    BY <1>1, <1>3, <1>4, <2>1 DEF ReadHeader
  <2>3. ReadHeader(y, c) \in Readers
    BY <1>1, <1>2, <2>2 DEF Readers
  <2>4. /\ ReadHeader(y, c).ts = u.hts /\ ReadHeader(y, c).delta = zero
        /\ ReadHeader(y, c).len = u.hlen /\ ReadHeader(y, c).type = u.htype
        /\ ReadHeader(y, c).sid = u.hsid
    BY <1>1, <2>2 DEF Readers
  <2> QED BY <1>4, <2>1, <2>3, <2>4
<1>5. CASE u.fmt = 1
  <2>1. ReadHeader(y, c) = [s EXCEPT !.delta = u.hdelta, !.len = u.hlen, !.type = u.htype]
    BY <1>1, <1>3, <1>5 DEF ReadHeader
  <2>2. ReadHeader(y, c) \in Readers
    BY <1>1, <1>2, <2>1 DEF Readers
  <2>3. /\ ReadHeader(y, c).ts = s.ts /\ ReadHeader(y, c).delta = u.hdelta
        /\ ReadHeader(y, c).len = u.hlen /\ ReadHeader(y, c).type = u.htype
        /\ ReadHeader(y, c).sid = s.sid
    BY <1>1, <2>1 DEF Readers
  <2> QED BY <1>1, <1>5, <2>2, <2>3
<1>6. CASE u.fmt = 2
  <2>1. ReadHeader(y, c) = [s EXCEPT !.delta = u.hdelta]
    BY <1>1, <1>3, <1>6 DEF ReadHeader
  <2>2. ReadHeader(y, c) \in Readers
    BY <1>1, <1>2, <2>1 DEF Readers
  <2>3. /\ ReadHeader(y, c).ts = s.ts /\ ReadHeader(y, c).delta = u.hdelta
        /\ ReadHeader(y, c).len = s.len /\ ReadHeader(y, c).type = s.type
        /\ ReadHeader(y, c).sid = s.sid
    BY <1>1, <2>1 DEF Readers
  <2> QED BY <1>1, <1>6, <2>2, <2>3
<1>7. CASE u.fmt = 3
  <2>1. ReadHeader(y, c) = s
    BY <1>1, <1>3, <1>7 DEF ReadHeader
  <2> QED BY <1>1, <1>7, <2>1
<1> QED BY <1>2, <1>4, <1>5, <1>6, <1>7

\* Writer x and reader y of chunk stream c know the same: nothing, or the last
\* message's header. Commands and control messages of this library have no
\* timestamp, media one message stream.
Level(c, x, y) ==
  /\ y.len = x.hlen /\ y.type = x.htype /\ y.sid = x.hsid /\ y.delta = x.hdelta
  /\ \/ y.ts = 0 /\ x.hts = StampModulus - 1 /\ x.hsid = 0 /\ x.hdelta = 0
     \/ y.ts = x.hts /\ IF c \in {ControlChunkStream, CommandChunkStream}
                       THEN x.hts = 0 /\ x.hdelta = 0
                       ELSE x.hsid = DataStream

\* What may be sent on chunk stream c.
OnItsStream(c, ts, sid) ==
  IF c \in {ControlChunkStream, CommandChunkStream} THEN ts = 0 ELSE sid = DataStream

\* A reader when the message is complete.
Complete(z) == [z EXCEPT !.ts = StampOf(z), !.completed = TRUE]

\* The timestamp of a message is one of those there are.
LEMMA StampInClock ==
  ASSUME NEW z \in Readers
  PROVE  StampOf(z) \in Clock
BY StampAssumption DEF StampOf, Clock, Readers

\* A timestamp that is there is itself modulo StampModulus.
LEMMA ClockModulus ==
  ASSUME NEW t \in Clock
  PROVE  t % StampModulus = t
BY StampAssumption DEF Clock

\* A reader stays a reader, and knows the timestamp.
LEMMA Completed ==
  ASSUME NEW z \in Readers
  PROVE  /\ Complete(z) \in Readers /\ Complete(z).ts = StampOf(z) /\ Complete(z).len = z.len
         /\ Complete(z).type = z.type /\ Complete(z).sid = z.sid /\ Complete(z).delta = z.delta
<1>1. PICK t \in Clock, yes \in BOOLEAN : t = StampOf(z) /\ yes = TRUE
  BY StampInClock
<1>2. Complete(z) = [z EXCEPT !.ts = t, !.completed = yes]
  BY <1>1 DEF Complete
<1>3. [z EXCEPT !.ts = t, !.completed = yes] \in Readers
  BY DEF Readers
<1> QED BY <1>1, <1>2, <1>3 DEF Readers

\* updateWriterHeader and readChunk undo each other: the reader is told the
\* message's header and both ends know the same again.
THEOREM HeaderCarried ==
  ASSUME NEW x \in Writers, NEW y \in Readers, NEW c, x.new, Level(c, x, y),
         OnItsStream(c, x.ts, x.sid)
  PROVE  LET u == UpdateWriterHeader(x)
             z == ReadHeader(y, Says(u.fmt, u))
         IN  /\ z \in Readers /\ StampOf(z) = x.ts
             /\ z.len = x.len /\ z.type = x.type /\ z.sid = x.sid
             /\ Level(c, u, Complete(z))
<1> PICK u \in Writers :
      /\ u = UpdateWriterHeader(x)
      /\ u.hts = x.ts /\ u.hlen = x.len /\ u.htype = x.type /\ u.hsid = x.sid
      /\ u.hdelta = IF x.ts < x.hts THEN 0 ELSE x.ts - x.hts
      /\ u.fmt = IF x.sid # x.hsid \/ x.ts < x.hts THEN 0
                 ELSE IF x.len # x.hlen \/ x.type # x.htype THEN 1
                 ELSE IF u.hdelta # x.hdelta THEN 2 ELSE 3
  BY NextHeader
<1>1. PICK z \in Readers :
      /\ z = ReadHeader(y, Says(u.fmt, u))
      /\ z.len = IF u.fmt < 2 THEN u.hlen ELSE y.len
      /\ z.type = IF u.fmt < 2 THEN u.htype ELSE y.type
      /\ z.sid = IF u.fmt = 0 THEN u.hsid ELSE y.sid
      /\ z.ts = IF u.fmt = 0 THEN u.hts ELSE y.ts
      /\ z.delta = IF u.fmt = 0 THEN 0 ELSE IF u.fmt = 3 THEN y.delta ELSE u.hdelta
  BY HeaderRead
<1>2. /\ x.ts \in Clock /\ x.hts \in Clock /\ x.hdelta \in Clock /\ y.ts \in Clock
      /\ u.fmt \in 0 .. 3 /\ u.hdelta \in Clock /\ y.delta \in Clock
  BY DEF Writers, Readers
<1>3. /\ y.len = x.hlen /\ y.type = x.htype /\ y.sid = x.hsid /\ y.delta = x.hdelta
  BY DEF Level
<1>4. z.len = x.len /\ z.type = x.type /\ z.sid = x.sid
  BY <1>1, <1>3
<1>5. u.fmt = 0 => z.ts = x.ts /\ z.delta = 0
  BY <1>1
<1>6. u.fmt # 0 => z.ts = y.ts /\ z.delta = u.hdelta /\ u.hdelta = x.ts - x.hts /\ x.sid = x.hsid /\ x.ts >= x.hts
  BY <1>1, <1>2, <1>3 DEF Clock
<1> DEFINE fresh == y.ts = 0 /\ x.hts = StampModulus - 1 /\ x.hsid = 0 /\ x.hdelta = 0
           first == c \in {ControlChunkStream, CommandChunkStream}
<1>7. fresh \/ (y.ts = x.hts /\ IF first THEN x.hts = 0 /\ x.hdelta = 0 ELSE x.hsid = DataStream)
  BY DEF Level
<1>8. IF first THEN x.ts = 0 ELSE x.sid = DataStream
  BY DEF OnItsStream
<1> HIDE DEF first
<1>9. /\ fresh => u.fmt = 0 /\ u.hdelta = 0
      /\ ~fresh => y.ts = x.hts /\ (u.fmt = 0 => u.hdelta = 0)
  <2>1. StampModulus > 1 /\ StampModulus \in Nat /\ DataStream # 0
    BY WireAssumption, StampAssumption, SMT DEF DataStream
  <2>2. ASSUME fresh PROVE u.fmt = 0 /\ u.hdelta = 0
    <3>1. x.ts < x.hts \/ x.ts = x.hts
      BY <1>2, <2>1, <2>2 DEF Clock
    <3>2. x.ts = x.hts => x.sid # x.hsid
      BY <1>8, <2>1, <2>2
    <3> QED BY <1>2, <3>1, <3>2 DEF Clock
  <2>3. ASSUME ~fresh PROVE y.ts = x.hts /\ (u.fmt = 0 => u.hdelta = 0)
    <3>1. CASE first
      <4>1. x.ts = 0 /\ x.hts = 0 /\ y.ts = x.hts
        BY <1>7, <1>8, <2>3, <3>1
      <4> QED BY <4>1
    <3>2. CASE ~first
      <4>1. x.sid = x.hsid /\ y.ts = x.hts
        BY <1>7, <1>8, <2>3, <3>2
      <4>2. u.fmt = 0 => x.ts < x.hts
        BY <4>1
      <4> QED BY <4>1, <4>2
    <3> QED BY <3>1, <3>2
  <2> QED BY <2>2, <2>3
<1> HIDE DEF fresh
<1>10. StampOf(z) = x.ts
  <2>1. z.ts + z.delta = x.ts
    BY <1>2, <1>5, <1>6, <1>9 DEF Clock
  <2> QED BY <1>2, <2>1, ClockModulus DEF StampOf
<1>11. z.delta = u.hdelta
  BY <1>5, <1>6, <1>9
<1>12. Complete(z) \in Readers /\ Complete(z).ts = x.ts /\ Complete(z).len = z.len
       /\ Complete(z).type = z.type /\ Complete(z).sid = z.sid /\ Complete(z).delta = z.delta
  BY <1>10, Completed
<1>13. first => u.hts = 0 /\ u.hdelta = 0
  <2>1. ASSUME first PROVE u.hts = 0 /\ u.hdelta = 0
    <3>1. x.ts = 0
      BY <1>8, <2>1
    <3>2. CASE fresh
      BY <1>9, <3>1, <3>2
    <3>3. CASE ~fresh
      <4>1. x.hts = 0
        BY <1>7, <2>1, <3>3
      <4> QED BY <3>1, <4>1
    <3> QED BY <3>2, <3>3, <3>1
  <2> QED BY <2>1
<1>14. Level(c, u, Complete(z))
  <2>1. Complete(z).ts = u.hts /\ IF first THEN u.hts = 0 /\ u.hdelta = 0 ELSE u.hsid = DataStream
    BY <1>8, <1>12, <1>13
  <2>2. /\ Complete(z).len = u.hlen /\ Complete(z).type = u.htype /\ Complete(z).sid = u.hsid
        /\ Complete(z).delta = u.hdelta
    BY <1>4, <1>11, <1>12
  <2> QED BY <2>1, <2>2 DEF Level, first
<1> QED BY <1>1, <1>4, <1>10, <1>14

-----------------------------------------------------------------------------
(* Messages. *)

\* q is a sequence, of whatever.
Sequence(q) == \E S : q \in Seq(S)

\* Message m is encoded in a few fields and decoded again.
Legible(m) ==
  /\ m.type \in DOMAIN TypeIDs /\ TypeID(m) \in Byte
  /\ Sequence(Encode(m)) /\ Len(Encode(m)) \in Lengths /\ Len(Encode(m)) # 0
  /\ Decode(TypeID(m), Encode(m)) = m /\ m # Failed

\* A sequence is one.
LEMMA IsSequence ==
  ASSUME NEW S, NEW q \in Seq(S)
  PROVE  Sequence(q)
BY DEF Sequence

\* The first two fields are cut off what is behind them.
LEMMA BehindTwo ==
  ASSUME NEW a, NEW b, NEW body, Sequence(body)
  PROVE  LET p == <<a, b>> \o body
         IN  /\ Sequence(p) /\ Len(p) = 2 + Len(body) /\ p[1] = a /\ p[2] = b
             /\ From(p, 3) = body /\ Len(body) \in Nat
<1>1. PICK S : body \in Seq(S)
  BY DEF Sequence
<1> DEFINE T == S \cup {a, b}
<1>2. body \in Seq(T)
  BY <1>1, SeqMonotonic
<1>3. <<a, b>> \in Seq(T) /\ Len(<<a, b>>) = 2
  OBVIOUS
<1> HIDE DEF T
<1> PICK h \in Seq(T) : h = <<a, b>>
  BY <1>3
<1>4. PICK p \in Seq(T) : /\ p = h \o body /\ Len(p) = 2 + Len(body)
                          /\ \A i \in 1 .. 2 + Len(body) : p[i] = IF i <= 2 THEN h[i] ELSE body[i - 2]
  <2>1. /\ h \o body \in Seq(T) /\ Len(h \o body) = Len(h) + Len(body)
        /\ \A i \in 1 .. Len(h) + Len(body) :
             (h \o body)[i] = IF i <= Len(h) THEN h[i] ELSE body[i - Len(h)]
    BY <1>2, ConcatProperties
  <2> QED BY <1>3, <2>1
<1>5. Len(body) \in Nat
  BY <1>2
<1>6. p[1] = a /\ p[2] = b
  <2>1. 1 \in 1 .. 2 + Len(body) /\ 2 \in 1 .. 2 + Len(body)
    BY <1>5
  <2> QED BY <1>4, <2>1
<1>7. From(p, 3) = body
  <2>1. \A i \in 3 .. Len(p) : p[i] \in T
    BY <1>4, <1>5
  <2>2. /\ From(p, 3) \in Seq(T) /\ Len(From(p, 3)) = (IF 3 <= Len(p) THEN Len(p) - 3 + 1 ELSE 0)
        /\ \A i \in 1 .. Len(p) - 3 + 1 : From(p, 3)[i] = p[3 + i - 1]
    BY <1>4, <1>5, <2>1, SubSeqProperties DEF From
  <2>3. Len(From(p, 3)) = Len(body)
    <3>1. Len(p) = 2 + Len(body) /\ Len(From(p, 3)) = (IF 3 <= Len(p) THEN Len(p) - 3 + 1 ELSE 0)
      BY <1>4, <2>2
    <3> QED BY <1>5, <3>1
  <2>4. ASSUME NEW i \in 1 .. Len(body) PROVE From(p, 3)[i] = body[i]
    <3>1. /\ i \in 1 .. Len(p) - 3 + 1 /\ 3 + i - 1 \in 1 .. 2 + Len(body) /\ ~(3 + i - 1 <= 2)
          /\ (3 + i - 1) - 2 = i
      BY <1>4, <1>5
    <3> QED BY <1>4, <2>2, <3>1
  <2> QED BY <1>2, <2>2, <2>3, <2>4, SeqEqual
<1>8. Sequence(p)
  BY DEF Sequence
<1> QED BY <1>4, <1>5, <1>6, <1>7, <1>8

\* The first field is cut off what is behind it.
LEMMA BehindOne ==
  ASSUME NEW a, NEW body, Sequence(body)
  PROVE  LET p == <<a>> \o body
         IN  /\ Sequence(p) /\ Len(p) = 1 + Len(body) /\ p[1] = a
             /\ From(p, 2) = body /\ Len(body) \in Nat
<1>1. PICK S : body \in Seq(S)
  BY DEF Sequence
<1> DEFINE T == S \cup {a}
<1>2. body \in Seq(T)
  BY <1>1, SeqMonotonic
<1>3. <<a>> \in Seq(T) /\ Len(<<a>>) = 1
  OBVIOUS
<1> HIDE DEF T
<1> PICK h \in Seq(T) : h = <<a>>
  BY <1>3
<1>4. PICK p \in Seq(T) : /\ p = h \o body /\ Len(p) = 1 + Len(body)
                          /\ \A i \in 1 .. 1 + Len(body) : p[i] = IF i <= 1 THEN h[i] ELSE body[i - 1]
  <2>1. /\ h \o body \in Seq(T) /\ Len(h \o body) = Len(h) + Len(body)
        /\ \A i \in 1 .. Len(h) + Len(body) :
             (h \o body)[i] = IF i <= Len(h) THEN h[i] ELSE body[i - Len(h)]
    BY <1>2, ConcatProperties
  <2> QED BY <1>3, <2>1
<1>5. Len(body) \in Nat
  BY <1>2
<1>6. p[1] = a
  <2>1. 1 \in 1 .. 1 + Len(body)
    BY <1>5
  <2> QED BY <1>4, <2>1
<1>7. From(p, 2) = body
  <2>1. \A i \in 2 .. Len(p) : p[i] \in T
    BY <1>4, <1>5
  <2>2. /\ From(p, 2) \in Seq(T) /\ Len(From(p, 2)) = (IF 2 <= Len(p) THEN Len(p) - 2 + 1 ELSE 0)
        /\ \A i \in 1 .. Len(p) - 2 + 1 : From(p, 2)[i] = p[2 + i - 1]
    BY <1>4, <1>5, <2>1, SubSeqProperties DEF From
  <2>3. Len(From(p, 2)) = Len(body)
    <3>1. Len(p) = 1 + Len(body) /\ Len(From(p, 2)) = (IF 2 <= Len(p) THEN Len(p) - 2 + 1 ELSE 0)
      BY <1>4, <2>2
    <3> QED BY <1>5, <3>1
  <2>4. ASSUME NEW i \in 1 .. Len(body) PROVE From(p, 2)[i] = body[i]
    <3>1. /\ i \in 1 .. Len(p) - 2 + 1 /\ 2 + i - 1 \in 1 .. 1 + Len(body) /\ ~(2 + i - 1 <= 1)
          /\ (2 + i - 1) - 1 = i
      BY <1>4, <1>5
    <3> QED BY <1>4, <2>2, <3>1
  <2> QED BY <1>2, <2>2, <2>3, <2>4, SeqEqual
<1>8. Sequence(p)
  BY DEF Sequence
<1> QED BY <1>4, <1>5, <1>6, <1>7, <1>8

\* Commands are legible.
LEMMA LegibleCommand ==
  ASSUME NEW name, NEW txn, NEW body, Sequence(body), Len(body) <= 3
  PROVE  Legible([type |-> "Command", name |-> name, txn |-> txn, body |-> body])
<1> DEFINE m == [type |-> "Command", name |-> name, txn |-> txn, body |-> body]
<1>1. PICK p : /\ p = <<String(name), Number(txn)>> \o body
               /\ Sequence(p) /\ Len(p) = 2 + Len(body) /\ p[1] = String(name) /\ p[2] = Number(txn)
               /\ From(p, 3) = body /\ Len(body) \in Nat
  BY BehindTwo
<1>2. TypeID(m) = 20 /\ m.type \in DOMAIN TypeIDs
  BY DEF TypeID, TypeIDs
<1>3. Encode(m) = p
  BY <1>1 DEF Encode
<1>4. Begins(p, <<"string", "number">>)
  BY <1>1 DEF Begins, String, Number
<1>5. Decode(20, p) = [type |-> "Command", name |-> p[1].string, txn |-> p[2].number, body |-> From(p, 3)]
  BY <1>4 DEF Decode
<1>6. p[1].string = name /\ p[2].number = txn
  BY <1>1 DEF String, Number
<1>7. m # Failed
  BY DEF Failed
<1>8. Len(p) \in Lengths /\ Len(p) # 0 /\ 20 \in Byte
  BY <1>1 DEF Lengths, Byte
<1>9. Decode(TypeID(m), Encode(m)) = m
  BY <1>1, <1>2, <1>3, <1>5, <1>6
<1> HIDE DEF m
<1>10. Legible(m)
  BY <1>1, <1>2, <1>3, <1>7, <1>8, <1>9 DEF Legible
<1> QED BY <1>10 DEF m

\* Data is legible.
LEMMA LegibleData ==
  ASSUME NEW name, NEW body, Sequence(body), Len(body) <= 3
  PROVE  Legible([type |-> "Data", name |-> name, body |-> body])
<1> DEFINE m == [type |-> "Data", name |-> name, body |-> body]
<1>1. PICK p : /\ p = <<String(name)>> \o body
               /\ Sequence(p) /\ Len(p) = 1 + Len(body) /\ p[1] = String(name)
               /\ From(p, 2) = body /\ Len(body) \in Nat
  BY BehindOne
<1>2. TypeID(m) = 18 /\ m.type \in DOMAIN TypeIDs
  BY DEF TypeID, TypeIDs
<1>3. Encode(m) = p
  BY <1>1 DEF Encode
<1>4. Begins(p, <<"string">>)
  BY <1>1 DEF Begins, String
<1>5. Decode(18, p) = [type |-> "Data", name |-> p[1].string, body |-> From(p, 2)]
  BY <1>4 DEF Decode
<1>6. p[1].string = name
  BY <1>1 DEF String
<1>7. m # Failed
  BY DEF Failed
<1>8. Len(p) \in Lengths /\ Len(p) # 0 /\ 18 \in Byte
  BY <1>1 DEF Lengths, Byte
<1>9. Decode(TypeID(m), Encode(m)) = m
  BY <1>1, <1>2, <1>3, <1>5, <1>6
<1> HIDE DEF m
<1>10. Legible(m)
  BY <1>1, <1>2, <1>3, <1>7, <1>8, <1>9 DEF Legible
<1> QED BY <1>10 DEF m

\* One field.
LEMMA OneField ==
  ASSUME NEW f
  PROVE  Sequence(<<f>>) /\ Len(<<f>>) \in Lengths /\ Len(<<f>>) # 0
<1>1. <<f>> \in Seq({f}) /\ Len(<<f>>) = 1
  OBVIOUS
<1>2. Sequence(<<f>>)
  BY <1>1, IsSequence
<1> QED BY <1>1, <1>2 DEF Lengths

\* Two fields.
LEMMA TwoFields ==
  ASSUME NEW f, NEW g
  PROVE  Sequence(<<f, g>>) /\ Len(<<f, g>>) \in Lengths /\ Len(<<f, g>>) # 0
<1>1. <<f, g>> \in Seq({f, g}) /\ Len(<<f, g>>) = 2
  OBVIOUS
<1>2. Sequence(<<f, g>>)
  BY <1>1, IsSequence
<1> QED BY <1>1, <1>2 DEF Lengths

\* Audio and video are legible.
LEMMA LegibleMedia ==
  ASSUME NEW kind \in {"Audio", "Video"}, NEW payload
  PROVE  Legible([type |-> kind, payload |-> payload])
<1> DEFINE m == [type |-> kind, payload |-> payload]
<1>1. TypeID(m) = (IF kind = "Audio" THEN 8 ELSE 9) /\ m.type \in DOMAIN TypeIDs
  BY DEF TypeID, TypeIDs
<1>2. Encode(m) = <<Raw(payload)>>
  BY DEF Encode
<1>3. Begins(<<Raw(payload)>>, <<"raw">>) /\ <<Raw(payload)>>[1].raw = payload
  BY DEF Begins, Raw
<1>4. Decode(TypeID(m), <<Raw(payload)>>) = m
  BY <1>1, <1>3 DEF Decode
<1>5. m # Failed
  BY DEF Failed
<1>6. TypeID(m) \in Byte
  BY <1>1 DEF Byte
<1>7. Sequence(Encode(m)) /\ Len(Encode(m)) \in Lengths /\ Len(Encode(m)) # 0
  BY <1>2, OneField
<1> HIDE DEF m
<1>8. Legible(m)
  BY <1>1, <1>2, <1>4, <1>5, <1>6, <1>7 DEF Legible
<1> QED BY <1>8 DEF m

\* The sizes of acknowledgement windows and bandwidths survive uint32 and int32.
LEMMA SizesSurvive ==
  ASSUME NEW n \in 0 .. (Word \div 2 - 1)
  PROVE  Int32(Uint32(n)) = n
BY WordAssumption DEF Int32, Uint32

\* A chunk size is legible.
LEMMA LegibleChunkSize ==
  ASSUME NEW size \in 1 .. (Word \div 2 - 1)
  PROVE  Legible([type |-> "SetChunkSize", size |-> size])
<1> DEFINE m == [type |-> "SetChunkSize", size |-> size]
<1>1. TypeID(m) = 1 /\ m.type \in DOMAIN TypeIDs
  BY DEF TypeID, TypeIDs
<1>2. Encode(m) = <<U32(size)>>
  BY DEF Encode
<1>3. Begins(<<U32(size)>>, <<"u32">>) /\ <<U32(size)>>[1].u32 = size
  BY DEF Begins, U32
<1>4. Decode(1, <<U32(size)>>) = m
  BY <1>3 DEF Decode
<1>5. m # Failed
  BY DEF Failed
<1>6. 1 \in Byte
  BY DEF Byte
<1>7. Sequence(Encode(m)) /\ Len(Encode(m)) \in Lengths /\ Len(Encode(m)) # 0
  BY <1>2, OneField
<1> HIDE DEF m
<1>8. Legible(m)
  BY <1>1, <1>2, <1>4, <1>5, <1>6, <1>7 DEF Legible
<1> QED BY <1>8 DEF m

\* An acknowledgement is legible.
LEMMA LegibleAck ==
  ASSUME NEW number
  PROVE  Legible([type |-> "Ack", number |-> number])
<1> DEFINE m == [type |-> "Ack", number |-> number]
<1>1. TypeID(m) = 3 /\ m.type \in DOMAIN TypeIDs
  BY DEF TypeID, TypeIDs
<1>2. Encode(m) = <<U32(number)>>
  BY DEF Encode
<1>3. Begins(<<U32(number)>>, <<"u32">>) /\ <<U32(number)>>[1].u32 = number
  BY DEF Begins, U32
<1>4. Decode(3, <<U32(number)>>) = m
  BY <1>3 DEF Decode
<1>5. m # Failed
  BY DEF Failed
<1>6. 3 \in Byte
  BY DEF Byte
<1>7. Sequence(Encode(m)) /\ Len(Encode(m)) \in Lengths /\ Len(Encode(m)) # 0
  BY <1>2, OneField
<1> HIDE DEF m
<1>8. Legible(m)
  BY <1>1, <1>2, <1>4, <1>5, <1>6, <1>7 DEF Legible
<1> QED BY <1>8 DEF m

\* A window size is legible.
LEMMA LegibleWindow ==
  ASSUME NEW size \in 0 .. (Word \div 2 - 1)
  PROVE  Legible([type |-> "WinAckSize", size |-> size])
<1> DEFINE m == [type |-> "WinAckSize", size |-> size]
           f == U32(Uint32(size))
<1>1. TypeID(m) = 5 /\ m.type \in DOMAIN TypeIDs
  BY DEF TypeID, TypeIDs
<1>2. Encode(m) = <<f>>
  BY DEF Encode
<1>3. Begins(<<f>>, <<"u32">>) /\ <<f>>[1].u32 = Uint32(size)
  BY DEF Begins, U32
<1> HIDE DEF f
<1>4. Decode(5, <<f>>) = m
  BY <1>3, SizesSurvive DEF Decode
<1>5. m # Failed
  BY DEF Failed
<1>6. 5 \in Byte
  BY DEF Byte
<1>7. Sequence(Encode(m)) /\ Len(Encode(m)) \in Lengths /\ Len(Encode(m)) # 0
  BY <1>2, OneField
<1> HIDE DEF m
<1>8. Legible(m)
  BY <1>1, <1>2, <1>4, <1>5, <1>6, <1>7 DEF Legible
<1> QED BY <1>8 DEF m

\* A bandwidth is legible.
LEMMA LegibleBandwidth ==
  ASSUME NEW size \in 0 .. (Word \div 2 - 1), NEW limit
  PROVE  Legible([type |-> "SetPeerBandwidth", size |-> size, limit |-> limit])
<1> DEFINE m == [type |-> "SetPeerBandwidth", size |-> size, limit |-> limit]
           f == U32(Uint32(size))
           g == U8(limit)
<1>1. TypeID(m) = 6 /\ m.type \in DOMAIN TypeIDs
  BY DEF TypeID, TypeIDs
<1>2. Encode(m) = <<f, g>>
  BY DEF Encode
<1>3. Begins(<<f, g>>, <<"u32", "u8">>) /\ <<f, g>>[1].u32 = Uint32(size) /\ <<f, g>>[2].u8 = limit
  BY DEF Begins, U32, U8
<1> HIDE DEF f, g
<1>4. Decode(6, <<f, g>>) = m
  BY <1>3, SizesSurvive DEF Decode
<1>5. m # Failed
  BY DEF Failed
<1>6. 6 \in Byte
  BY DEF Byte
<1>7. Sequence(Encode(m)) /\ Len(Encode(m)) \in Lengths /\ Len(Encode(m)) # 0
  BY <1>2, TwoFields
<1> HIDE DEF m
<1>8. Legible(m)
  BY <1>1, <1>2, <1>4, <1>5, <1>6, <1>7 DEF Legible
<1> QED BY <1>8 DEF m

\* The events' numbers are different.
LEMMA EventKnown ==
  ASSUME NEW event \in DOMAIN EventID
  PROVE  (CHOOSE x \in DOMAIN EventID : EventID[event] = EventID[x]) = event
<1>1. DOMAIN EventID = {"StreamBegin", "StreamEOF", "StreamDry", "SetBufferLength",
                        "StreamIsRecorded", "PingRequest", "PingResponse"}
  BY DEF EventID
<1>2. /\ EventID["StreamBegin"] = 0 /\ EventID["StreamEOF"] = 1 /\ EventID["StreamDry"] = 2
      /\ EventID["SetBufferLength"] = 3 /\ EventID["StreamIsRecorded"] = 4
      /\ EventID["PingRequest"] = 6 /\ EventID["PingResponse"] = 7
  BY DEF EventID
<1>3. \A x \in DOMAIN EventID : EventID[event] = EventID[x] => x = event
  BY <1>1, <1>2
<1> QED BY <1>3

\* User control events are legible.
LEMMA LegibleEvent ==
  ASSUME NEW e, e.event \in DOMAIN EventID,
         e = IF e.event = "SetBufferLength"
             THEN [event |-> e.event, value |-> e.value, length |-> e.length]
             ELSE [event |-> e.event, value |-> e.value]
  PROVE  Legible([type |-> "UserCtrl", event |-> e])
<1> DEFINE m == [type |-> "UserCtrl", event |-> e]
           f == U16(EventID[e.event])
           g == U32(e.value)
           h == U32(e.length)
<1>1. TypeID(m) = 4 /\ m.type \in DOMAIN TypeIDs /\ 4 \in Byte
  BY DEF TypeID, TypeIDs, Byte
<1>2. Encode(m) = EncodeEvent(e)
  BY DEF Encode
<1>3. m # Failed
  BY DEF Failed
<1>4. f.u16 = EventID[e.event] /\ g.u32 = e.value /\ h.u32 = e.length
  BY DEF U16, U32
<1>5. "u16" \in DOMAIN f /\ "u32" \in DOMAIN g /\ "u32" \in DOMAIN h
  BY DEF U16, U32
<1>6. ASSUME NEW p, p[1] = f, p[2] = g, Len(p) \in Nat, Len(p) >= 2
      PROVE  DecodeEvent(p) =
               IF e.event # "SetBufferLength"
               THEN [type |-> "UserCtrl", event |-> [event |-> e.event, value |-> p[2].u32]]
               ELSE IF Begins(p, <<"u16", "u32", "u32">>)
                    THEN [type |-> "UserCtrl", event |->
                           [event |-> e.event, value |-> p[2].u32, length |-> p[3].u32]]
                    ELSE Failed
  <2>1. Begins(p, <<"u16", "u32">>)
    <3>1. Len(<<"u16", "u32">>) = 2 /\ <<"u16", "u32">>[1] = "u16" /\ <<"u16", "u32">>[2] = "u32"
      OBVIOUS
    <3> HIDE DEF f, g
    <3>2. \A i \in 1 .. 2 : <<"u16", "u32">>[i] \in DOMAIN p[i]
      BY <1>5, <1>6, <3>1
    <3> QED BY <1>6, <3>1, <3>2 DEF Begins
  <2> HIDE DEF f
  <2>2. \E event \in DOMAIN EventID : Begins(p, <<"u16", "u32">>) /\ p[1].u16 = EventID[event]
    BY <1>4, <1>6, <2>1
  <2>3. (CHOOSE x \in DOMAIN EventID : p[1].u16 = EventID[x]) = e.event
    BY <1>4, <1>6, EventKnown
  <2> QED BY <2>2, <2>3 DEF DecodeEvent
<1> HIDE DEF f, g, h
<1>7. CASE e.event # "SetBufferLength"
  <2>1. EncodeEvent(e) = <<f, g>>
    <3>1. EncodeEvent(e) = <<f, g>> \o <<>>
      BY <1>7 DEF EncodeEvent, f, g
    <3>2. <<f, g>> \in Seq({f, g})
      OBVIOUS
    <3> QED BY <3>1, <3>2, ConcatEmptySeq
  <2>2. Sequence(<<f, g>>) /\ Len(<<f, g>>) \in Lengths /\ Len(<<f, g>>) # 0
    BY TwoFields
  <2>3. DecodeEvent(<<f, g>>) = [type |-> "UserCtrl", event |-> [event |-> e.event, value |-> g.u32]]
    <3> PICK p : p = <<f, g>>
      OBVIOUS
    <3>1. p[1] = f /\ p[2] = g /\ Len(p) \in Nat /\ Len(p) >= 2
      OBVIOUS
    <3>2. p[2].u32 = g.u32
      BY <3>1
    <3>3. DecodeEvent(p) = [type |-> "UserCtrl", event |-> [event |-> e.event, value |-> p[2].u32]]
      BY <1>6, <1>7, <3>1
    <3> QED BY <3>2, <3>3
  <2>4. Decode(4, <<f, g>>) = m
    <3>1. Decode(4, <<f, g>>) = DecodeEvent(<<f, g>>)
      BY DEF Decode
    <3>2. e = [event |-> e.event, value |-> e.value]
      BY <1>7
    <3> QED BY <1>4, <2>3, <3>1, <3>2
  <2> HIDE DEF m
  <2>5. Legible(m)
    BY <1>1, <1>2, <1>3, <2>1, <2>2, <2>4 DEF Legible
  <2> QED BY <2>5 DEF m
<1>8. CASE e.event = "SetBufferLength"
  <2>1. EncodeEvent(e) = <<f, g>> \o <<h>>
    BY <1>8 DEF EncodeEvent, f, g, h
  <2>2. Sequence(<<h>>) /\ Len(<<h>>) = 1 /\ <<h>>[1] = h
    BY OneField
  <2>3. PICK p : /\ p = <<f, g>> \o <<h>> /\ Sequence(p) /\ Len(p) = 2 + 1 /\ p[1] = f /\ p[2] = g
                 /\ From(p, 3) = <<h>>
    <3>1. /\ Sequence(<<f, g>> \o <<h>>) /\ Len(<<f, g>> \o <<h>>) = 2 + Len(<<h>>)
          /\ (<<f, g>> \o <<h>>)[1] = f /\ (<<f, g>> \o <<h>>)[2] = g
          /\ From(<<f, g>> \o <<h>>, 3) = <<h>>
      BY <2>2, BehindTwo
    <3> QED BY <2>2, <3>1
  <2>4. p[3] = h
    <3>1. PICK S : p \in Seq(S)
      BY <2>3 DEF Sequence
    <3>2. \A i \in 3 .. 3 : p[i] \in S
      BY <2>3, <3>1
    <3>3. \A i \in 1 .. 3 - 3 + 1 : SubSeq(p, 3, 3)[i] = p[3 + i - 1]
      BY <3>2, SubSeqProperties
    <3>4. 1 \in 1 .. 3 - 3 + 1 /\ 3 + 1 - 1 = 3 /\ SubSeq(p, 3, 3) = <<h>>
      BY <2>3 DEF From
    <3> QED BY <2>2, <3>3, <3>4
  <2>5. Begins(p, <<"u16", "u32", "u32">>)
    <3>1. /\ Len(<<"u16", "u32", "u32">>) = 3 /\ <<"u16", "u32", "u32">>[1] = "u16"
          /\ <<"u16", "u32", "u32">>[2] = "u32" /\ <<"u16", "u32", "u32">>[3] = "u32"
      OBVIOUS
    <3>2. \A i \in 1 .. 3 : <<"u16", "u32", "u32">>[i] \in DOMAIN p[i]
      BY <1>5, <2>3, <2>4, <3>1
    <3> QED BY <2>3, <3>1, <3>2 DEF Begins
  <2>6. DecodeEvent(p) = [type |-> "UserCtrl", event |->
                           [event |-> e.event, value |-> p[2].u32, length |-> p[3].u32]]
    <3>1. Len(p) \in Nat /\ Len(p) >= 2
      BY <2>3
    <3> QED BY <1>6, <1>8, <2>3, <2>5, <3>1
  <2>7. Decode(4, p) = m
    <3>1. Decode(4, p) = DecodeEvent(p)
      BY DEF Decode
    <3>2. e = [event |-> e.event, value |-> e.value, length |-> e.length]
      BY <1>8
    <3> QED BY <1>4, <2>3, <2>4, <2>6, <3>1, <3>2
  <2>8. Len(p) \in Lengths /\ Len(p) # 0
    BY <2>3 DEF Lengths
  <2> HIDE DEF m
  <2>9. Legible(m)
    BY <1>1, <1>2, <1>3, <2>1, <2>3, <2>7, <2>8 DEF Legible
  <2> QED BY <2>9 DEF m
<1> QED BY <1>7, <1>8

-----------------------------------------------------------------------------
(* Bodies. *)

\* The arguments of every body are a sequence of one to three.
LEMMA ArgsAre ==
  ASSUME NEW b, b.body \in {"connect", "connectResult", "createStreamResult", "deleteStream", "publish",
                            "play", "onStatus", "@setDataFrame"} \cup NullCommands \cup NameCommands
  PROVE  Sequence(ToArgs(b)) /\ Len(ToArgs(b)) \in 1 .. 3
<1>1. ASSUME NEW f PROVE <<f>> \in Seq({f}) /\ Len(<<f>>) = 1
  OBVIOUS
<1>2. ASSUME NEW f, NEW g PROVE <<f, g>> \in Seq({f, g}) /\ Len(<<f, g>>) = 2
  OBVIOUS
<1>3. ASSUME NEW f, NEW g, NEW h PROVE <<f, g, h>> \in Seq({f, g, h}) /\ Len(<<f, g, h>>) = 3
  OBVIOUS
<1>4. ASSUME NEW f PROVE Sequence(<<f>>) /\ Len(<<f>>) \in 1 .. 3
  <2>1. Sequence(<<f>>)
    BY <1>1, IsSequence
  <2> QED BY <1>1, <2>1
<1>5. ASSUME NEW f, NEW g PROVE Sequence(<<f, g>>) /\ Len(<<f, g>>) \in 1 .. 3
  <2>1. Sequence(<<f, g>>)
    BY <1>2, IsSequence
  <2> QED BY <1>2, <2>1
<1>6. ASSUME NEW f, NEW g, NEW h PROVE Sequence(<<f, g, h>>) /\ Len(<<f, g, h>>) \in 1 .. 3
  <2>1. Sequence(<<f, g, h>>)
    BY <1>3, IsSequence
  <2> QED BY <1>3, <2>1
<1>7. CASE b.body \in NullCommands
  <2>1. ToArgs(b) = <<Null>>
    BY <1>7 DEF ToArgs, NullCommands, NameCommands
  <2> QED BY <1>4, <2>1
<1>8. CASE b.body \in NameCommands
  <2>1. ToArgs(b) = <<Null, String(b.name)>>
    BY <1>8 DEF ToArgs, NullCommands, NameCommands
  <2> QED BY <1>5, <2>1
<1>9. CASE b.body = "connect"
  <2>1. ToArgs(b) = <<Object(b.command)>>
    BY <1>9 DEF ToArgs, NullCommands, NameCommands
  <2> QED BY <1>4, <2>1
<1>10. CASE b.body = "connectResult"
  <2>1. ToArgs(b) = <<Object(b.properties), Object(b.information)>>
    BY <1>10 DEF ToArgs, NullCommands, NameCommands
  <2> QED BY <1>5, <2>1
<1>11. CASE b.body \in {"createStreamResult", "deleteStream"}
  <2>1. ToArgs(b) = <<Null, Number(b.id)>>
    BY <1>11 DEF ToArgs, NullCommands, NameCommands
  <2> QED BY <1>5, <2>1
<1>12. CASE b.body = "publish"
  <2>1. ToArgs(b) = <<Null, String(b.name), String(b.kind)>>
    BY <1>12 DEF ToArgs, NullCommands, NameCommands
  <2> QED BY <1>6, <2>1
<1>13. CASE b.body = "play"
  <2>1. ToArgs(b) = <<Null, String(b.name), Number(b.start)>>
    BY <1>13 DEF ToArgs, NullCommands, NameCommands
  <2> QED BY <1>6, <2>1
<1>14. CASE b.body = "onStatus"
  <2>1. ToArgs(b) = <<Null, Object(b.info)>>
    BY <1>14 DEF ToArgs, NullCommands, NameCommands
  <2> QED BY <1>5, <2>1
<1>15. CASE b.body = "@setDataFrame"
  <2>1. ToArgs(b) = <<String("onMetaData"), Object(b.data)>>
    BY <1>15 DEF ToArgs, NullCommands, NameCommands
  <2> QED BY <1>5, <2>1
<1> QED BY <1>7, <1>8, <1>9, <1>10, <1>11, <1>12, <1>13, <1>14, <1>15

\* The same, for short.
LEMMA Arguments ==
  ASSUME NEW b, b.body \in {"connect", "createStream", "deleteStream", "publish", "play", "onStatus",
                            "connectResult", "createStreamResult", "@setDataFrame", "ping", "closeStream",
                            "releaseStream", "FCPublish", "FCUnpublish", "getStreamLength"}
  PROVE  \E body : body = ToArgs(b) /\ Sequence(body) /\ Len(body) <= 3
<1>1. b.body \in {"connect", "connectResult", "createStreamResult", "deleteStream", "publish",
                  "play", "onStatus", "@setDataFrame"} \cup NullCommands \cup NameCommands
  BY DEF NullCommands, NameCommands
<1>2. PICK body : body = ToArgs(b)
  OBVIOUS
<1>3. Sequence(body) /\ Len(body) \in 1 .. 3
  BY <1>1, <1>2, ArgsAre, Zenon
<1>4. \A n \in 1 .. 3 : n <= 3
  OBVIOUS
<1>6. Len(body) <= 3
  BY <1>3, <1>4, Zenon
<1> QED BY <1>2, <1>3, <1>6, Zenon

\* The second of two arguments is what is left from it.
LEMMA SecondOfTwo ==
  ASSUME NEW f, NEW g
  PROVE  From(<<f, g>>, 2) = <<g>>
<1>1. <<f>> \in Seq({f, g}) /\ <<g>> \in Seq({f, g}) /\ Len(<<f>>) = 1 /\ Len(<<g>>) = 1
  OBVIOUS
<1> PICK p : p = <<f, g>>
  OBVIOUS
<1>2. Len(p) = 2 /\ p[1] = f /\ p[2] = g
  OBVIOUS
<1>3. \A i \in 2 .. 2 : p[i] \in {f, g}
  BY <1>2
<1>4. /\ SubSeq(p, 2, 2) \in Seq({f, g}) /\ Len(SubSeq(p, 2, 2)) = (IF 2 <= 2 THEN 2 - 2 + 1 ELSE 0)
      /\ \A i \in 1 .. 2 - 2 + 1 : SubSeq(p, 2, 2)[i] = p[2 + i - 1]
  BY <1>3, SubSeqProperties
<1>5. Len(SubSeq(p, 2, 2)) = 1 /\ SubSeq(p, 2, 2)[1] = g
  <2>1. 1 \in 1 .. 2 - 2 + 1 /\ 2 + 1 - 1 = 2 /\ (IF 2 <= 2 THEN 2 - 2 + 1 ELSE 0) = 1
    OBVIOUS
  <2> QED BY <1>2, <1>4, <2>1
<1>6. SubSeq(p, 2, 2) = <<g>>
  <2>1. \A i \in 1 .. 1 : SubSeq(p, 2, 2)[i] = <<g>>[i]
    BY <1>5
  <2> QED BY <1>1, <1>4, <1>5, <2>1, SeqEqual
<1> QED BY <1>2, <1>6 DEF From

\* The second and the third of three arguments.
LEMMA LastOfThree ==
  ASSUME NEW f, NEW g, NEW h
  PROVE  From(<<f, g, h>>, 2) = <<g, h>> /\ From(<<f, g, h>>, 3) = <<h>>
<1> PICK S : S = {f, g, h}
  OBVIOUS
<1>1. /\ <<g, h>> \in Seq(S) /\ <<h>> \in Seq(S) /\ Len(<<g, h>>) = 2 /\ Len(<<h>>) = 1
      /\ <<g, h>>[1] = g /\ <<g, h>>[2] = h /\ <<h>>[1] = h
  OBVIOUS
<1> PICK p : p = <<f, g, h>>
  OBVIOUS
<1>2. Len(p) = 3 /\ p[1] = f /\ p[2] = g /\ p[3] = h
  OBVIOUS
<1>3. (\A i \in 2 .. 3 : p[i] \in S) /\ (\A i \in 3 .. 3 : p[i] \in S)
  BY <1>2
<1>4. /\ SubSeq(p, 2, 3) \in Seq(S) /\ Len(SubSeq(p, 2, 3)) = (IF 2 <= 3 THEN 3 - 2 + 1 ELSE 0)
      /\ \A i \in 1 .. 3 - 2 + 1 : SubSeq(p, 2, 3)[i] = p[2 + i - 1]
  BY <1>3, SubSeqProperties
<1>5. Len(SubSeq(p, 2, 3)) = 2 /\ SubSeq(p, 2, 3)[1] = g /\ SubSeq(p, 2, 3)[2] = h
  <2>1. /\ 1 \in 1 .. 3 - 2 + 1 /\ 2 \in 1 .. 3 - 2 + 1 /\ 2 + 1 - 1 = 2 /\ 2 + 2 - 1 = 3
        /\ (IF 2 <= 3 THEN 3 - 2 + 1 ELSE 0) = 2
    OBVIOUS
  <2> QED BY <1>2, <1>4, <2>1
<1>6. SubSeq(p, 2, 3) = <<g, h>>
  <2>1. \A i \in 1 .. 2 : SubSeq(p, 2, 3)[i] = <<g, h>>[i]
    BY <1>1, <1>5
  <2> QED BY <1>1, <1>4, <1>5, <2>1, SeqEqual
<1>7. /\ SubSeq(p, 3, 3) \in Seq(S) /\ Len(SubSeq(p, 3, 3)) = (IF 3 <= 3 THEN 3 - 3 + 1 ELSE 0)
      /\ \A i \in 1 .. 3 - 3 + 1 : SubSeq(p, 3, 3)[i] = p[3 + i - 1]
  BY <1>3, SubSeqProperties
<1>8. Len(SubSeq(p, 3, 3)) = 1 /\ SubSeq(p, 3, 3)[1] = h
  <2>1. 1 \in 1 .. 3 - 3 + 1 /\ 3 + 1 - 1 = 3 /\ (IF 3 <= 3 THEN 3 - 3 + 1 ELSE 0) = 1
    OBVIOUS
  <2> QED BY <1>2, <1>7, <2>1
<1>9. SubSeq(p, 3, 3) = <<h>>
  <2>1. \A i \in 1 .. 1 : SubSeq(p, 3, 3)[i] = <<h>>[i]
    BY <1>1, <1>8
  <2> QED BY <1>1, <1>7, <1>8, <2>1, SeqEqual
<1> QED BY <1>2, <1>6, <1>9 DEF From

\* One field of the kind that is wanted.
LEMMA BeginsOne ==
  ASSUME NEW f, NEW kind, kind \in DOMAIN f
  PROVE  Begins(<<f>>, <<kind>>)
<1>1. Len(<<f>>) = 1 /\ Len(<<kind>>) = 1 /\ <<f>>[1] = f /\ <<kind>>[1] = kind
  OBVIOUS
<1> QED BY <1>1 DEF Begins

\* The bodies without a name or a number are decoded as they were encoded.
LEMMA PlainBodies ==
  /\ \A c : DecodeBody("connect", ToArgs([body |-> "connect", command |-> c]))
              = [body |-> "connect", command |-> c]
  /\ \A name \in NullCommands : DecodeBody(name, ToArgs([body |-> name])) = [body |-> name]
<1>1. ASSUME NEW c
      PROVE  DecodeBody("connect", ToArgs([body |-> "connect", command |-> c]))
               = [body |-> "connect", command |-> c]
  <2>1. ToArgs([body |-> "connect", command |-> c]) = <<Object(c)>>
    BY DEF ToArgs, NullCommands, NameCommands
  <2>2. Begins(<<Object(c)>>, <<"object">>) /\ <<Object(c)>>[1].object = c
    BY BeginsOne DEF Object
  <2>3. DecodeBody("connect", <<Object(c)>>) = [body |-> "connect", command |-> c]
    BY <2>2 DEF DecodeBody, NullCommands, NameCommands
  <2> QED BY <2>1, <2>3
<1>2. ASSUME NEW name \in NullCommands
      PROVE  DecodeBody(name, ToArgs([body |-> name])) = [body |-> name]
  <2>1. ToArgs([body |-> name]) = <<Null>>
    BY DEF ToArgs, NullCommands, NameCommands
  <2>2. <<Null>> # <<>>
    OBVIOUS
  <2>3. DecodeBody(name, <<Null>>) = [body |-> name]
    BY <2>2 DEF DecodeBody, NullCommands, NameCommands
  <2> QED BY <2>1, <2>3
<1> QED BY <1>1, <1>2

\* So are those with a second argument.
LEMMA NamedBodies ==
  /\ \A name \in NameCommands : \A x :
       DecodeBody(name, ToArgs([body |-> name, name |-> x])) = [body |-> name, name |-> x]
  /\ \A id : DecodeBody("deleteStream", ToArgs([body |-> "deleteStream", id |-> id]))
               = [body |-> "deleteStream", id |-> id]
<1>1. ASSUME NEW name \in NameCommands, NEW x
      PROVE  DecodeBody(name, ToArgs([body |-> name, name |-> x])) = [body |-> name, name |-> x]
  <2>1. ToArgs([body |-> name, name |-> x]) = <<Null, String(x)>>
    BY DEF ToArgs, NullCommands, NameCommands
  <2> PICK p : p = <<Null, String(x)>>
    OBVIOUS
  <2>2. Begins(From(p, 2), <<"string">>)
    BY SecondOfTwo, BeginsOne DEF String
  <2>3. Len(p) >= 2 /\ p[2].string = x
    BY DEF String
  <2>4. DecodeBody(name, p) = [body |-> name, name |-> x]
    BY <2>2, <2>3 DEF DecodeBody, NullCommands, NameCommands
  <2> QED BY <2>1, <2>4
<1>2. ASSUME NEW id
      PROVE  DecodeBody("deleteStream", ToArgs([body |-> "deleteStream", id |-> id]))
               = [body |-> "deleteStream", id |-> id]
  <2>1. ToArgs([body |-> "deleteStream", id |-> id]) = <<Null, Number(id)>>
    BY DEF ToArgs, NullCommands, NameCommands
  <2> PICK p : p = <<Null, Number(id)>>
    OBVIOUS
  <2>2. Begins(From(p, 2), <<"number">>)
    BY SecondOfTwo, BeginsOne DEF Number
  <2>3. Len(p) >= 2 /\ p[2].number = id
    BY DEF Number
  <2>4. DecodeBody("deleteStream", p) = [body |-> "deleteStream", id |-> id]
    BY <2>2, <2>3 DEF DecodeBody, NullCommands, NameCommands
  <2> QED BY <2>1, <2>4
<1> QED BY <1>1, <1>2

\* publish and play are, with and without their last argument.
LEMMA OpeningBodies ==
  ASSUME NEW name, NEW kind, NEW start
  PROVE  LET publish == ToArgs([body |-> "publish", name |-> name, kind |-> kind])
             play    == ToArgs([body |-> "play", name |-> name, start |-> start])
         IN  /\ DecodeBody("publish", publish) = [body |-> "publish", name |-> name, kind |-> kind]
             /\ DecodeBody("play", play) = [body |-> "play", name |-> name, start |-> start]
             /\ DecodeBody("publish", SubSeq(publish, 1, 2)) = [body |-> "publish", name |-> name, kind |-> "live"]
             /\ DecodeBody("play", SubSeq(play, 1, 2)) = [body |-> "play", name |-> name, start |-> 0]
             /\ Sequence(SubSeq(publish, 1, 2)) /\ Len(SubSeq(publish, 1, 2)) = 2
             /\ Sequence(SubSeq(play, 1, 2)) /\ Len(SubSeq(play, 1, 2)) = 2
<1>1. ASSUME NEW f, NEW g, NEW h
      PROVE  SubSeq(<<f, g, h>>, 1, 2) = <<f, g>>
  <2> PICK S : S = {f, g, h}
    OBVIOUS
  <2>1. <<f, g>> \in Seq(S) /\ Len(<<f, g>>) = 2 /\ <<f, g>>[1] = f /\ <<f, g>>[2] = g
    OBVIOUS
  <2> PICK p : p = <<f, g, h>>
    OBVIOUS
  <2>2. p[1] = f /\ p[2] = g
    OBVIOUS
  <2>3. \A i \in 1 .. 2 : p[i] \in S
    BY <2>2
  <2>4. /\ SubSeq(p, 1, 2) \in Seq(S) /\ Len(SubSeq(p, 1, 2)) = (IF 1 <= 2 THEN 2 - 1 + 1 ELSE 0)
        /\ \A i \in 1 .. 2 - 1 + 1 : SubSeq(p, 1, 2)[i] = p[1 + i - 1]
    BY <2>3, SubSeqProperties
  <2>5. Len(SubSeq(p, 1, 2)) = 2 /\ SubSeq(p, 1, 2)[1] = f /\ SubSeq(p, 1, 2)[2] = g
    <3>1. /\ 1 \in 1 .. 2 - 1 + 1 /\ 2 \in 1 .. 2 - 1 + 1 /\ 1 + 1 - 1 = 1 /\ 1 + 2 - 1 = 2
          /\ (IF 1 <= 2 THEN 2 - 1 + 1 ELSE 0) = 2
      OBVIOUS
    <3> QED BY <2>2, <2>4, <3>1
  <2>6. \A i \in 1 .. 2 : SubSeq(p, 1, 2)[i] = <<f, g>>[i]
    BY <2>1, <2>5
  <2> QED BY <2>1, <2>4, <2>5, <2>6, SeqEqual
<1>2. ASSUME NEW f, NEW g
      PROVE  Sequence(<<f, g>>) /\ Len(<<f, g>>) = 2 /\ <<f, g>>[2] = g
  BY TwoFields
<1>3. ASSUME NEW f, NEW g, NEW h
      PROVE  Len(<<f, g, h>>) = 3 /\ <<f, g, h>>[2] = g /\ <<f, g, h>>[3] = h
  OBVIOUS
<1>4. ASSUME NEW f, NEW g, NEW h, "string" \in DOMAIN g
      PROVE  Begins(From(<<f, g>>, 2), <<"string">>) /\ Begins(From(<<f, g, h>>, 2), <<"string">>)
  <2>1. Begins(<<g>>, <<"string">>)
    BY <1>4, BeginsOne
  <2>2. Begins(<<g, h>>, <<"string">>)
    <3>1. Len(<<g, h>>) = 2 /\ Len(<<"string">>) = 1 /\ <<g, h>>[1] = g /\ <<"string">>[1] = "string"
      OBVIOUS
    <3> QED BY <1>4, <3>1 DEF Begins
  <2> QED BY <2>1, <2>2, SecondOfTwo, LastOfThree
<1>5. ASSUME NEW f, NEW g, NEW h, NEW k, k \in DOMAIN h
      PROVE  Begins(From(<<f, g, h>>, 3), <<k>>)
  BY <1>5, LastOfThree, BeginsOne
<1>6. "string" \in DOMAIN String(name) /\ String(name).string = name
  BY DEF String
<1>7. "string" \in DOMAIN String(kind) /\ String(kind).string = kind
  BY DEF String
<1>8. "number" \in DOMAIN Number(start) /\ Number(start).number = start
  BY DEF Number
<1> PICK publish, play :
      publish = <<Null, String(name), String(kind)>> /\ play = <<Null, String(name), Number(start)>>
  OBVIOUS
<1> PICK short : short = <<Null, String(name)>>
  OBVIOUS
<1>9. /\ ToArgs([body |-> "publish", name |-> name, kind |-> kind]) = publish
      /\ ToArgs([body |-> "play", name |-> name, start |-> start]) = play
  BY DEF ToArgs, NullCommands, NameCommands
<1>10. SubSeq(publish, 1, 2) = short /\ SubSeq(play, 1, 2) = short /\ Sequence(short) /\ Len(short) = 2
  BY <1>1, <1>2
<1>11. /\ Len(publish) = 3 /\ publish[2].string = name /\ publish[3].string = kind
       /\ Len(play) = 3 /\ play[2].string = name /\ play[3].number = start
       /\ short[2].string = name
  BY <1>2, <1>3, <1>6, <1>7, <1>8
<1>12. /\ Begins(From(publish, 2), <<"string">>) /\ Begins(From(publish, 3), <<"string">>)
       /\ Begins(From(play, 2), <<"string">>) /\ Begins(From(play, 3), <<"number">>)
       /\ Begins(From(short, 2), <<"string">>)
  BY <1>4, <1>5, <1>6, <1>7, <1>8
<1>13. /\ DecodePublish(publish) = [body |-> "publish", name |-> name, kind |-> kind]
       /\ DecodePublish(short) = [body |-> "publish", name |-> name, kind |-> "live"]
       /\ DecodePlay(play) = [body |-> "play", name |-> name, start |-> start]
       /\ DecodePlay(short) = [body |-> "play", name |-> name, start |-> 0]
  BY <1>10, <1>11, <1>12 DEF DecodePublish, DecodePlay, Optional
<1>14. \A p : DecodeBody("publish", p) = DecodePublish(p) /\ DecodeBody("play", p) = DecodePlay(p)
  BY DEF DecodeBody, NullCommands, NameCommands
<1> QED BY <1>9, <1>10, <1>13, <1>14

\* Nobody decodes onStatus, nor data of another name.
LEMMA UnknownBodies ==
  /\ \A p : DecodeBody("onStatus", p) = Unknown
  /\ \A name, p : DecodeData(name, p) =
       IF name = "@setDataFrame" THEN [body |-> "@setDataFrame", payload |-> p] ELSE Unknown
BY DEF DecodeBody, DecodeData, NullCommands, NameCommands

\* The replies' bodies are decoded as they were encoded.
LEMMA ReplyBodies ==
  /\ \A x, y : DecodeConnectResult(ToArgs([body |-> "connectResult", properties |-> x, information |-> y]))
                 = [body |-> "connectResult", properties |-> x, information |-> y]
  /\ \A id : DecodeCreateStreamResult(ToArgs([body |-> "createStreamResult", id |-> id]))
               = [body |-> "createStreamResult", id |-> id]
<1>1. ASSUME NEW x, NEW y
      PROVE  DecodeConnectResult(ToArgs([body |-> "connectResult", properties |-> x, information |-> y]))
               = [body |-> "connectResult", properties |-> x, information |-> y]
  <2>1. ToArgs([body |-> "connectResult", properties |-> x, information |-> y]) = <<Object(x), Object(y)>>
    BY DEF ToArgs, NullCommands, NameCommands
  <2> PICK p : p = <<Object(x), Object(y)>>
    OBVIOUS
  <2>2. p[1].object = x /\ p[2].object = y /\ Len(p) = 2 /\ "object" \in DOMAIN p[1] /\ "object" \in DOMAIN p[2]
    BY DEF Object
  <2>3. Begins(p, <<"object", "object">>)
    <3>1. Len(<<"object", "object">>) = 2 /\ <<"object", "object">>[1] = "object" /\ <<"object", "object">>[2] = "object"
      OBVIOUS
    <3> QED BY <2>2, <3>1 DEF Begins
  <2> QED BY <2>1, <2>2, <2>3 DEF DecodeConnectResult
<1>2. ASSUME NEW id
      PROVE  DecodeCreateStreamResult(ToArgs([body |-> "createStreamResult", id |-> id]))
               = [body |-> "createStreamResult", id |-> id]
  <2>1. ToArgs([body |-> "createStreamResult", id |-> id]) = <<Null, Number(id)>>
    BY DEF ToArgs, NullCommands, NameCommands
  <2> PICK p : p = <<Null, Number(id)>>
    OBVIOUS
  <2>2. Begins(From(p, 2), <<"number">>)
    BY SecondOfTwo, BeginsOne DEF Number
  <2>3. Len(p) >= 2 /\ p[2].number = id
    BY DEF Number
  <2> QED BY <2>1, <2>2, <2>3 DEF DecodeCreateStreamResult
<1> QED BY <1>1, <1>2

-----------------------------------------------------------------------------
(* A message on the wire. *)

\* A function from 1..n is a sequence.
LEMMA FunctionSequence ==
  ASSUME NEW S, NEW n \in Nat, NEW q \in [1 .. n -> S]
  PROVE  q \in Seq(S) /\ Len(q) = n
<1>1. q \in Seq(S)
  BY SeqDef
<1> QED BY <1>1, LenProperties

\* p \o q is a sequence that begins with p.
Cats(p, q) ==
  /\ Sequence(p \o q) /\ Len(p \o q) = Len(p) + Len(q)
  /\ Len(p) \in Nat /\ Len(q) \in Nat
  /\ \A i \in 1 .. Len(p) : (p \o q)[i] = p[i]

\* Sequences one behind the other are one.
LEMMA SequenceCat ==
  ASSUME NEW p, NEW q, Sequence(p), Sequence(q)
  PROVE  Cats(p, q)
<1>1. PICK S : p \in Seq(S)
  BY DEF Sequence
<1>2. PICK T : q \in Seq(T)
  BY DEF Sequence
<1> PICK U : U = S \cup T
  OBVIOUS
<1>3. p \in Seq(U) /\ q \in Seq(U)
  BY <1>1, <1>2, SeqMonotonic
<1>4. /\ p \o q \in Seq(U) /\ Len(p \o q) = Len(p) + Len(q)
      /\ \A i \in 1 .. Len(p) + Len(q) : (p \o q)[i] = IF i <= Len(p) THEN p[i] ELSE q[i - Len(p)]
  BY <1>3, ConcatProperties
<1>5. Len(p) \in Nat /\ Len(q) \in Nat
  BY <1>3
<1>6. ASSUME NEW i \in 1 .. Len(p) PROVE (p \o q)[i] = p[i]
  <2>1. i \in 1 .. Len(p) + Len(q) /\ i <= Len(p)
    BY <1>5
  <2> QED BY <1>4, <2>1
<1>7. Sequence(p \o q)
  BY <1>4, IsSequence
<1> QED BY <1>4, <1>5, <1>6, <1>7 DEF Cats

\* Concatenation is associative.
LEMMA CatCat ==
  ASSUME NEW p, NEW q, NEW s, Sequence(p), Sequence(q), Sequence(s)
  PROVE  (p \o q) \o s = p \o (q \o s)
<1>1. PICK S : p \in Seq(S)
  BY DEF Sequence
<1>2. PICK T : q \in Seq(T)
  BY DEF Sequence
<1>3. PICK R : s \in Seq(R)
  BY DEF Sequence
<1> PICK U : U = S \cup T \cup R
  OBVIOUS
<1>4. p \in Seq(U) /\ q \in Seq(U) /\ s \in Seq(U)
  BY <1>1, <1>2, <1>3, SeqMonotonic
<1> QED BY <1>4, ConcatAssociative

\* The empty sequence.
LEMMA CatNothing ==
  /\ Sequence(<<>>) /\ Len(<<>>) = 0
  /\ \A q : Sequence(q) => q \o <<>> = q /\ <<>> \o q = q
<1>1. ASSUME NEW q, Sequence(q) PROVE q \o <<>> = q /\ <<>> \o q = q
  <2>1. PICK S : q \in Seq(S)
    BY <1>1 DEF Sequence
  <2> QED BY <2>1, ConcatEmptySeq
<1>2. <<>> \in Seq({}) /\ Len(<<>>) = 0
  OBVIOUS
<1>3. Sequence(<<>>)
  BY <1>2, IsSequence
<1> QED BY <1>1, <1>2, <1>3

\* The middle and the end of a sequence.
LEMMA MiddleAndEnd ==
  ASSUME NEW p, NEW q, NEW s, Sequence(p), Sequence(q), Sequence(s), Len(q) # 0
  PROVE  LET whole == (p \o q) \o s
         IN  /\ SubSeq(whole, Len(p) + 1, Len(p) + Len(q)) = q
             /\ From(whole, Len(p) + Len(q) + 1) = s
             /\ Len(whole) >= Len(p) + Len(q)
<1>1. PICK S : p \in Seq(S)
  BY DEF Sequence
<1>2. PICK T : q \in Seq(T)
  BY DEF Sequence
<1>3. PICK R : s \in Seq(R)
  BY DEF Sequence
<1> PICK U : U = S \cup T \cup R
  OBVIOUS
<1>4. p \in Seq(U) /\ q \in Seq(U) /\ s \in Seq(U)
  BY <1>1, <1>2, <1>3, SeqMonotonic
<1>5. PICK a \in Nat, b \in Nat, c \in Nat : a = Len(p) /\ b = Len(q) /\ c = Len(s)
  BY <1>4
<1>6. PICK v \in Seq(U) : /\ v = p \o q /\ Len(v) = a + b
                          /\ \A i \in 1 .. a + b : v[i] = IF i <= a THEN p[i] ELSE q[i - a]
  <2>1. /\ p \o q \in Seq(U) /\ Len(p \o q) = Len(p) + Len(q)
        /\ \A i \in 1 .. Len(p) + Len(q) : (p \o q)[i] = IF i <= Len(p) THEN p[i] ELSE q[i - Len(p)]
    BY <1>4, ConcatProperties
  <2> QED BY <1>5, <2>1
<1>7. PICK w \in Seq(U) : /\ w = v \o s /\ Len(w) = a + b + c
                          /\ \A i \in 1 .. a + b + c : w[i] = IF i <= a + b THEN v[i] ELSE s[i - (a + b)]
  <2>1. /\ v \o s \in Seq(U) /\ Len(v \o s) = Len(v) + Len(s)
        /\ \A i \in 1 .. Len(v) + Len(s) : (v \o s)[i] = IF i <= Len(v) THEN v[i] ELSE s[i - Len(v)]
    BY <1>4, ConcatProperties
  <2>2. Len(v) = a + b /\ Len(s) = c
    BY <1>5, <1>6
  <2> QED BY <2>1, <2>2
<1>8. \A i \in 1 .. a + b + c : w[i] \in U
  BY <1>7
<1>9. SubSeq(w, a + 1, a + b) = q
  <2>1. \A i \in a + 1 .. a + b : w[i] \in U
    BY <1>8
  <2>2. /\ SubSeq(w, a + 1, a + b) \in Seq(U)
        /\ Len(SubSeq(w, a + 1, a + b)) = (IF a + 1 <= a + b THEN a + b - (a + 1) + 1 ELSE 0)
        /\ \A i \in 1 .. a + b - (a + 1) + 1 : SubSeq(w, a + 1, a + b)[i] = w[(a + 1) + i - 1]
    BY <2>1, SubSeqProperties
  <2>3. (IF a + 1 <= a + b THEN a + b - (a + 1) + 1 ELSE 0) = b /\ a + b - (a + 1) + 1 = b
    OBVIOUS
  <2>4. ASSUME NEW i \in 1 .. b PROVE SubSeq(w, a + 1, a + b)[i] = q[i]
    <3>1. /\ (a + 1) + i - 1 = a + i /\ a + i \in 1 .. a + b + c /\ a + i <= a + b /\ a + i \in 1 .. a + b
          /\ ~(a + i <= a) /\ (a + i) - a = i
      OBVIOUS
    <3> QED BY <1>6, <1>7, <2>2, <2>3, <3>1
  <2>5. Len(SubSeq(w, a + 1, a + b)) = b
    BY <2>2, <2>3
  <2> QED BY <1>4, <1>5, <2>2, <2>4, <2>5, SeqEqual
<1>10. From(w, a + b + 1) = s
  <2>1. \A i \in a + b + 1 .. a + b + c : w[i] \in U
    BY <1>8
  <2>2. /\ SubSeq(w, a + b + 1, a + b + c) \in Seq(U)
        /\ Len(SubSeq(w, a + b + 1, a + b + c)) = (IF a + b + 1 <= a + b + c THEN a + b + c - (a + b + 1) + 1 ELSE 0)
        /\ \A i \in 1 .. a + b + c - (a + b + 1) + 1 : SubSeq(w, a + b + 1, a + b + c)[i] = w[(a + b + 1) + i - 1]
    BY <2>1, SubSeqProperties
  <2>3. /\ (IF a + b + 1 <= a + b + c THEN a + b + c - (a + b + 1) + 1 ELSE 0) = c
        /\ a + b + c - (a + b + 1) + 1 = c
    OBVIOUS
  <2>4. ASSUME NEW i \in 1 .. c PROVE SubSeq(w, a + b + 1, a + b + c)[i] = s[i]
    <3>1. /\ (a + b + 1) + i - 1 = a + b + i /\ a + b + i \in 1 .. a + b + c /\ ~(a + b + i <= a + b)
          /\ (a + b + i) - (a + b) = i
      OBVIOUS
    <3> QED BY <1>7, <2>2, <2>3, <3>1
  <2>5. Len(SubSeq(w, a + b + 1, a + b + c)) = c
    BY <2>2, <2>3
  <2>6. SubSeq(w, a + b + 1, a + b + c) = s
    BY <1>4, <1>5, <2>2, <2>4, <2>5, SeqEqual
  <2> QED BY <1>7, <2>6 DEF From
<1>11. Len(w) >= a + b
  BY <1>7
<1> QED BY <1>5, <1>6, <1>7, <1>9, <1>10, <1>11

\* The bytes of a header and what they are on the wire.
Header(u, id) == EncodeBasicHeader(u.fmt, id) \o EncodeMessageHeader(u.fmt, u)
Cells(H) == [i \in 1 .. Len(H) |-> [byte |-> H[i]]]

\* Bytes that are on the wire from place k + 1 on.
LEMMA BytesAre ==
  ASSUME NEW q \in Seq(Byte), NEW k \in Nat, NEW wire,
         \A i \in 1 .. Len(q) : wire[k + i].byte = q[i]
  PROVE  Bytes(wire, k + 1, k + Len(q)) = q
<1>1. Len(q) \in Nat /\ k + Len(q) - (k + 1) + 1 = Len(q)
  OBVIOUS
<1>2. Bytes(wire, k + 1, k + Len(q)) = [i \in 1 .. Len(q) |-> wire[k + 1 + i - 1].byte]
  BY <1>1 DEF Bytes
<1>3. \A i \in 1 .. Len(q) : k + 1 + i - 1 = k + i
  OBVIOUS
<1>4. [i \in 1 .. Len(q) |-> wire[k + 1 + i - 1].byte] = [i \in 1 .. Len(q) |-> q[i]]
  BY <1>3
<1>5. [i \in 1 .. Len(q) |-> q[i]] = q
  BY LenProperties
<1> QED BY <1>2, <1>4, <1>5

\* The cells of a header are a sequence.
LEMMA CellsAre ==
  ASSUME NEW H \in Seq(Byte)
  PROVE  /\ Sequence(Cells(H)) /\ Len(Cells(H)) = Len(H) /\ Len(H) \in Nat
         /\ \A i \in 1 .. Len(H) : Cells(H)[i].byte = H[i] /\ "byte" \in DOMAIN Cells(H)[i]
<1>1. Len(H) \in Nat
  OBVIOUS
<1>2. Cells(H) \in [1 .. Len(H) -> [byte : Byte]]
  BY DEF Cells
<1>3. Cells(H) \in Seq([byte : Byte]) /\ Len(Cells(H)) = Len(H)
  <2> PICK S : S = [byte : Byte]
    OBVIOUS
  <2>0. PICK n \in Nat : n = Len(H)
    BY <1>1
  <2>1. PICK q \in [1 .. n -> S] : q = Cells(H)
    BY <1>2, <2>0
  <2>2. q \in Seq(S) /\ Len(q) = n
    BY FunctionSequence
  <2> QED BY <2>0, <2>1, <2>2
<1>4. \A i \in 1 .. Len(H) : Cells(H)[i].byte = H[i] /\ "byte" \in DOMAIN Cells(H)[i]
  BY DEF Cells
<1>5. Sequence(Cells(H))
  BY <1>3, IsSequence
<1> QED BY <1>1, <1>3, <1>4, <1>5

\* The wire begins with a chunk of payload p, whose basic header has n bytes and
\* whose headers have m.
ChunkAt(u, id, p, rest, wire, n, m) ==
  /\ wire # <<>> /\ Sequence(wire)
  /\ n = BasicHeaderLength(wire[1].byte)
  /\ DecodeBasicHeader(Bytes(wire, 1, n)) = [fmt |-> u.fmt, id |-> id]
  /\ m = n + MessageHeaderLength(u.fmt, Bytes(wire, n + 1, n + 3))
  /\ DecodeMessageHeader(u.fmt, Bytes(wire, n + 1, m)) = Says(u.fmt, u)
  /\ AreBytes(wire, m) /\ Len(wire) >= m + Len(p)
  /\ SubSeq(wire, m + 1, m + Len(p)) = p /\ From(wire, m + Len(p) + 1) = rest

\* What readChunk finds on a wire that begins with a chunk.
LEMMA ChunkFound ==
  ASSUME NEW u \in Writers, NEW id \in Nat, 2 <= id, id <= LastChunkStream,
         NEW p, Sequence(p), Len(p) # 0, NEW rest, Sequence(rest), NEW wire,
         wire = (Cells(Header(u, id)) \o p) \o rest
  PROVE  \E n \in 1 .. 3, m \in Nat : ChunkAt(u, id, p, rest, wire, n, m)
<1>1. u.fmt \in 0 .. 3
  BY DEF Writers
<1>2. PICK A \in Seq(Byte), n \in 1 .. 3 :
         /\ A = EncodeBasicHeader(u.fmt, id) /\ n = Len(A) /\ BasicHeaderLength(A[1]) = n
         /\ \A b : Holds(b, 0, A) => DecodeBasicHeader(b) = [fmt |-> u.fmt, id |-> id]
  BY <1>1, BasicHeader
<1>3. PICK B \in Seq(Byte), k \in Nat :
         /\ B = EncodeMessageHeader(u.fmt, u) /\ k = Len(B) /\ (u.fmt # 3 => k >= 3)
         /\ \A b : Holds(b, 0, SubSeq(B, 1, 3)) \/ u.fmt = 3 => MessageHeaderLength(u.fmt, b) = k
         /\ DecodeMessageHeader(u.fmt, B) = Says(u.fmt, u)
  BY <1>1, MessageHeader
<1>4. PICK H \in Seq(Byte) :
         /\ H = Header(u, id) /\ Len(H) = n + k
         /\ \A i \in 1 .. n + k : H[i] = IF i <= n THEN A[i] ELSE B[i - n]
  <2>1. /\ A \o B \in Seq(Byte) /\ Len(A \o B) = Len(A) + Len(B)
        /\ \A i \in 1 .. Len(A) + Len(B) : (A \o B)[i] = IF i <= Len(A) THEN A[i] ELSE B[i - Len(A)]
    BY ConcatProperties
  <2>2. Header(u, id) = A \o B
    BY <1>2, <1>3 DEF Header
  <2>3. Len(A) = n /\ Len(B) = k
    BY <1>2, <1>3
  <2>4. /\ A \o B \in Seq(Byte) /\ Len(A \o B) = n + k
        /\ \A i \in 1 .. n + k : (A \o B)[i] = IF i <= n THEN A[i] ELSE B[i - n]
    BY <2>1, <2>3
  <2> QED BY <2>2, <2>4
<1>0. PICK m \in Nat : m = n + k
  OBVIOUS
<1>5. PICK cells : /\ cells = Cells(H) /\ Sequence(cells) /\ Len(cells) = m
                   /\ \A i \in 1 .. m : cells[i].byte = H[i] /\ "byte" \in DOMAIN cells[i]
  BY <1>0, <1>4, CellsAre
<1>6. wire = (cells \o p) \o rest
  BY <1>4, <1>5
<1>7. /\ Sequence(cells \o p) /\ Len(cells \o p) = m + Len(p) /\ Len(p) \in Nat
      /\ \A i \in 1 .. m : (cells \o p)[i] = cells[i]
  <2>1. Cats(cells, p)
    BY <1>5, SequenceCat
  <2> QED BY <1>5, <2>1 DEF Cats
<1>8. /\ Sequence(wire) /\ Len(wire) = m + Len(p) + Len(rest) /\ Len(rest) \in Nat
      /\ \A i \in 1 .. m + Len(p) : wire[i] = (cells \o p)[i]
  <2>1. Cats(cells \o p, rest)
    BY <1>7, SequenceCat
  <2> QED BY <1>6, <1>7, <2>1 DEF Cats
<1>9. \A i \in 1 .. m : wire[i].byte = H[i] /\ "byte" \in DOMAIN wire[i]
  <2>1. \A i \in 1 .. m : i \in 1 .. m + Len(p)
    BY <1>7
  <2> QED BY <1>5, <1>7, <1>8, <2>1
<1>10. Len(wire) >= m + Len(p) /\ Len(wire) >= m /\ wire # <<>>
  <2>1. Len(wire) >= m + Len(p) /\ Len(wire) >= m /\ Len(wire) # 0
    BY <1>7, <1>8
  <2> QED BY <2>1, CatNothing
<1>11. AreBytes(wire, m)
  BY <1>9, <1>10 DEF AreBytes
<1>12. SubSeq(wire, m + 1, m + Len(p)) = p /\ From(wire, m + Len(p) + 1) = rest
  <2>0. Sequence(cells)
    BY <1>5
  <2>1. /\ SubSeq((cells \o p) \o rest, Len(cells) + 1, Len(cells) + Len(p)) = p
        /\ From((cells \o p) \o rest, Len(cells) + Len(p) + 1) = rest
    BY <2>0, MiddleAndEnd
  <2> QED BY <1>5, <1>6, <2>1
<1>13. \A i \in 1 .. n : wire[0 + i].byte = A[i]
  <2>1. ASSUME NEW i \in 1 .. n PROVE wire[0 + i].byte = A[i]
    <3>1. i \in 1 .. m /\ i \in 1 .. n + k /\ i <= n /\ 0 + i = i
      BY <1>0
    <3> QED BY <1>4, <1>9, <3>1
  <2> QED BY <2>1
<1>14. \A i \in 1 .. k : wire[n + i].byte = B[i]
  <2>1. ASSUME NEW i \in 1 .. k PROVE wire[n + i].byte = B[i]
    <3>1. n + i \in 1 .. m /\ n + i \in 1 .. n + k /\ ~(n + i <= n) /\ (n + i) - n = i
      BY <1>0
    <3> QED BY <1>4, <1>9, <3>1
  <2> QED BY <2>1
<1>15. Bytes(wire, 1, n) = A
  <2>1. Bytes(wire, 0 + 1, 0 + Len(A)) = A
    <3>1. 0 \in Nat /\ \A i \in 1 .. Len(A) : wire[0 + i].byte = A[i]
      BY <1>2, <1>13
    <3> QED BY <3>1, BytesAre
  <2>2. 0 + 1 = 1 /\ 0 + Len(A) = n
    BY <1>2
  <2> QED BY <2>1, <2>2
<1>16. Bytes(wire, n + 1, m) = B
  <2>0. n \in Nat
    OBVIOUS
  <2>1. \A i \in 1 .. Len(B) : wire[n + i].byte = B[i]
    BY <1>3, <1>14
  <2>2. Bytes(wire, n + 1, n + Len(B)) = B
    BY <2>0, <2>1, BytesAre
  <2> QED BY <1>0, <1>3, <2>2
<1>17. n = BasicHeaderLength(wire[1].byte)
  <2>1. wire[1].byte = A[1]
    <3>1. 1 \in 1 .. n /\ 0 + 1 = 1
      OBVIOUS
    <3> QED BY <1>13, <3>1
  <2> QED BY <1>2, <2>1
<1>18. DecodeBasicHeader(Bytes(wire, 1, n)) = [fmt |-> u.fmt, id |-> id]
  <2>1. Holds(A, 0, A)
    BY <1>2 DEF Holds
  <2> QED BY <1>2, <1>15, <2>1
<1>19. MessageHeaderLength(u.fmt, Bytes(wire, n + 1, n + 3)) = k
  <2>1. CASE u.fmt = 3
    BY <1>3, <2>1
  <2>2. CASE u.fmt # 3
    <3>0. k >= 3 /\ k = Len(B)
      BY <1>3, <2>2
    <3>1. PICK C \in Seq(Byte) : C = SubSeq(B, 1, 3) /\ Len(C) = 3 /\ \A i \in 1 .. 3 : C[i] = B[i]
      <4>1. \A i \in 1 .. 3 : B[i] \in Byte
        BY <3>0
      <4>2. /\ SubSeq(B, 1, 3) \in Seq(Byte) /\ Len(SubSeq(B, 1, 3)) = (IF 1 <= 3 THEN 3 - 1 + 1 ELSE 0)
            /\ \A i \in 1 .. 3 - 1 + 1 : SubSeq(B, 1, 3)[i] = B[1 + i - 1]
        BY <4>1, SubSeqProperties
      <4>3. (IF 1 <= 3 THEN 3 - 1 + 1 ELSE 0) = 3 /\ 3 - 1 + 1 = 3 /\ \A i \in 1 .. 3 : 1 + i - 1 = i
        OBVIOUS
      <4> QED BY <4>2, <4>3
    <3>2. \A i \in 1 .. 3 : wire[n + i].byte = C[i]
      <4>1. \A i \in 1 .. 3 : i \in 1 .. k
        BY <3>0
      <4> QED BY <1>14, <3>1, <4>1
    <3>3. Bytes(wire, n + 1, n + 3) = C
      <4>0. n \in Nat
        OBVIOUS
      <4>1. \A i \in 1 .. Len(C) : wire[n + i].byte = C[i]
        BY <3>1, <3>2
      <4>2. Bytes(wire, n + 1, n + Len(C)) = C
        BY <4>0, <4>1, BytesAre
      <4> QED BY <3>1, <4>2
    <3>4. Holds(C, 0, C)
      BY <3>1 DEF Holds
    <3> QED BY <1>3, <3>1, <3>3, <3>4
  <2> QED BY <2>1, <2>2
<1>20. DecodeMessageHeader(u.fmt, Bytes(wire, n + 1, m)) = Says(u.fmt, u)
  BY <1>3, <1>16
<1>21. m = n + MessageHeaderLength(u.fmt, Bytes(wire, n + 1, n + 3))
  BY <1>0, <1>19
<1>22. ChunkAt(u, id, p, rest, wire, n, m)
  BY <1>8, <1>10, <1>11, <1>12, <1>17, <1>18, <1>20, <1>21, Zenon DEF ChunkAt
<1> QED BY <1>22
\* A header is a few bytes.
LEMMA HeaderIs ==
  ASSUME NEW u \in Writers, NEW c \in ChunkStreams
  PROVE  /\ Header(u, c) \in Seq(Byte)
         /\ Header(u, c) = EncodeBasicHeader(u.fmt, c) \o EncodeMessageHeader(u.fmt, u)
         /\ c \in Nat /\ 2 <= c /\ c <= LastChunkStream
<1>1. c \in Nat /\ 2 <= c /\ c <= LastChunkStream
  <2>1. \A f \in Media : f.cs \in 4 .. LastChunkStream
    BY WireAssumption
  <2>2. LastChunkStream \in Nat /\ LastChunkStream >= 3
    BY SMT DEF LastChunkStream
  <2>3. CASE c \in {ControlChunkStream, CommandChunkStream}
    BY <2>2, <2>3 DEF ControlChunkStream, CommandChunkStream
  <2>4. CASE c \notin {ControlChunkStream, CommandChunkStream}
    <3>1. PICK f \in Media : c = f.cs
      BY <2>4 DEF ChunkStreams
    <3> QED BY <2>1, <2>2, <3>1
  <2> QED BY <2>3, <2>4
<1>2. u.fmt \in 0 .. 3
  BY DEF Writers
<1>3. PICK A \in Seq(Byte) : A = EncodeBasicHeader(u.fmt, c)
  BY <1>1, <1>2, BasicHeader
<1>4. PICK B \in Seq(Byte) : B = EncodeMessageHeader(u.fmt, u)
  BY <1>2, MessageHeader
<1>5. A \o B \in Seq(Byte)
  OBVIOUS
<1> QED BY <1>1, <1>3, <1>4, <1>5 DEF Header

-----------------------------------------------------------------------------
(* What handling a message does. *)

States == {"NotConnected", "Connected", "none", "Inactive", "Publish", "Play"}

\* How an end stands that has handled the messages so far: the states of the
\* server's streams, how many publish and play it was asked for, or onStatus has
\* come, how many requests or replies, and whether a reply was an error.
Standings == [s : [StreamIDs -> States], n : Nat, k : Nat, g : BOOLEAN]

Below(a, b) == a.n <= b.n /\ a.k <= b.k /\ (a.g => b.g)

\* A message that can be written, read, and handled when it is there.
Sendable(o) ==
  /\ o.cs \in ChunkStreams /\ o.sid \in StreamIDs /\ o.ts \in Clock
  /\ OnItsStream(o.cs, o.ts, o.sid)
  /\ Legible(o.msg)
  /\ o.msg.type = "Command" => o.cs = CommandChunkStream
  /\ o.msg.type = "SetChunkSize" => o.msg.size \in Nat \ {0}
  /\ o.msg.type = "WinAckSize" => o.msg.size \in Nat

IsControl(m) == m.type \in {"SetChunkSize", "WinAckSize"}
Asks(m)      == m.type = "Command" /\ m.name \in {"connect", "createStream"}
Opens(m)     == m.type = "Command" /\ m.name \in {"publish", "play"}

\* The handler of its stream has a case for the message.
Served(s, o) == ~IsControl(o.msg) /\ CaseOf(o.msg) \in Cases(s[o.sid])

\* The call of a message that is served, and of one that is passed through.
HandlerCall(o) ==
  LET b == Body(o.msg)
      c == CaseOf(o.msg)
  IN  /\ c = "connect" => o.wants = Call("OnConnect", o.ts, b)
      /\ c = "createStream" => o.wants = Call("OnCreateStream", o.ts, b)
      /\ c = "deleteStream" => o.wants = Call("OnDeleteStream", o.ts, b)
      /\ c \in DOMAIN NameCall => o.wants = Call(NameCall[c], o.ts, b)
      /\ c = "publish" => o.wants = Call("OnPublish", o.ts, [stream |-> o.sid, cmd |-> b])
      /\ c = "play" => o.wants = Call("OnPlay", o.ts, [stream |-> o.sid, cmd |-> b])
      /\ c = "Audio" => o.wants = Call("OnAudio", o.ts, o.msg.payload)
      /\ c = "Video" => o.wants = Call("OnVideo", o.ts, o.msg.payload)
      /\ c = "@setDataFrame" => o.wants = Call("OnSetDataFrame", o.ts, b.payload)

PassCall(o) ==
  /\ o.msg.type = "Command" => o.wants = Call("OnUnknownCommandMessage", o.ts, o.msg.name)
  /\ o.msg.type = "Data" => o.wants = Call("OnUnknownDataMessage", o.ts, o.msg.name)
  /\ o.msg.type \notin {"Command", "Data"} => o.wants = Call("OnUnknownMessage", o.ts, o.msg)

\* Message o wants the call that a server with streams s comes to.
Wanted(s, o) ==
  /\ o.msg.type = "SetChunkSize" => o.wants = Call("SetChunkSize", o.ts, o.msg.size)
  /\ o.msg.type = "WinAckSize" => o.wants = Call("SetAckWindowSize", o.ts, o.msg.size)
  /\ ~IsControl(o.msg) =>
       /\ Body(o.msg) = Unknown => o.wants = Call("Ignored", o.ts, o.msg)
       /\ Served(s, o) => HandlerCall(o)
       /\ Body(o.msg) # Unknown /\ ~Served(s, o) => PassCall(o)

\* The streams after it.
After(s, o) ==
  IF ~Served(s, o) THEN s
  ELSE IF CaseOf(o.msg) = "connect" THEN [s EXCEPT ![ControlStream] = "Connected"]
  ELSE IF CaseOf(o.msg) = "createStream" THEN [s EXCEPT ![DataStream] = "Inactive"]
  ELSE IF CaseOf(o.msg) = "deleteStream" THEN [s EXCEPT ![DataStream] = "none"]
  ELSE IF CaseOf(o.msg) = "publish" THEN [s EXCEPT ![o.sid] = "Publish"]
  ELSE IF CaseOf(o.msg) = "play" THEN [s EXCEPT ![o.sid] = "Play"]
  ELSE s

\* The server handles message o. The first request is connect.
MetUp(a, o, b) ==
  /\ a.s[o.sid] # "none" /\ ~IsReply(o.msg) /\ Body(o.msg) # Unreadable
  /\ Wanted(a.s, o)
  /\ CaseOf(o.msg) = "deleteStream" => a.s[DataStream] # "none" /\ Body(o.msg).id = DataStream
  /\ Asks(o.msg) => Served(a.s, o) /\ (o.msg.name = "connect" <=> a.k = 0)
                    /\ (o.msg.name = "createStream" => o.msg.txn = 2)
  /\ b.s = After(a.s, o)
  /\ b.n = a.n + IF Opens(o.msg) THEN 1 ELSE 0
  /\ b.k = a.k + IF Asks(o.msg) THEN 1 ELSE 0

\* The reply to request k + 1.
Replies(k, o) ==
  /\ IsReply(o.msg) /\ o.sid = ControlStream
  /\ k = 0 => /\ o.msg.txn = 1 /\ DecodeConnectResult(o.msg.body) # Unreadable
              /\ o.wants = Call("Reply", o.ts, DecodeConnectResult(o.msg.body))
  /\ k # 0 => /\ o.msg.txn = 2 /\ DecodeCreateStreamResult(o.msg.body) # Unreadable
              /\ o.wants = Call("Reply", o.ts, DecodeCreateStreamResult(o.msg.body))

\* The client handles message o.
MetDown(a, o, b) ==
  /\ \/ Replies(a.k, o)
     \/ /\ o.sid = ControlStream /\ o.msg.type = "WinAckSize"
        /\ o.wants = Call("SetAckWindowSize", o.ts, o.msg.size)
     \/ /\ o.sid = ControlStream /\ o.msg.type \in {"SetPeerBandwidth", "UserCtrl", "Ack"}
        /\ o.wants = Call("OnUnknownMessage", o.ts, o.msg)
     \/ /\ o.sid = DataStream /\ o.msg.type = "Command" /\ o.msg.name = "onStatus"
        /\ o.wants = Call("Ignored", o.ts, o.msg)
  /\ b.n = a.n + IF o.sid = DataStream THEN 1 ELSE 0
  /\ b.k = a.k + IF IsReply(o.msg) THEN 1 ELSE 0
  /\ b.g = (a.g \/ (IsReply(o.msg) /\ o.msg.name = "_error"))

\* An end that stands like a stands like b after message o.
Met(d, a, o, b) ==
  /\ Sendable(o) /\ a \in Standings /\ b \in Standings /\ Below(a, b)
  /\ IF d = "up" THEN MetUp(a, o, b) ELSE MetDown(a, o, b)

\* Each is below itself, and below what is above one above it.
LEMMA BelowIs ==
  /\ \A a \in Standings : Below(a, a)
  /\ \A a, b, c \in Standings : Below(a, b) /\ Below(b, c) => Below(a, c)
BY DEF Below, Standings

\* A sequence with one more element, and without its first.
LEMMA Appended ==
  ASSUME NEW os, NEW o, Sequence(os)
  PROVE  \E n \in Nat : /\ n = Len(os) /\ Len(Append(os, o)) = n + 1 /\ Append(os, o)[n + 1] = o
                        /\ \A i \in 1 .. n : Append(os, o)[i] = os[i]
<1>1. PICK S : os \in Seq(S)
  BY DEF Sequence
<1>2. PICK R : R = S \cup {o}
  OBVIOUS
<1>3. os \in Seq(R) /\ o \in R
  BY <1>1, <1>2, SeqMonotonic
<1>4. PICK n \in Nat : n = Len(os)
  BY <1>3
<1>5. /\ Len(Append(os, o)) = n + 1 /\ Append(os, o)[n + 1] = o
      /\ \A i \in 1 .. n : Append(os, o)[i] = os[i]
  BY <1>3, <1>4
<1> QED BY <1>4, <1>5

\* The same of the sequence that is left.
LEMMA Beheaded ==
  ASSUME NEW os, Sequence(os), os # <<>>
  PROVE  \E n \in Nat : /\ Len(os) = n + 1 /\ Len(Tail(os)) = n /\ Head(os) = os[1]
                        /\ \A i \in 1 .. n : Tail(os)[i] = os[i + 1]
<1>1. PICK R : os \in Seq(R)
  BY DEF Sequence
<1>2. Len(os) \in Nat \ {0}
  BY <1>1
<1>3. PICK n \in Nat : Len(os) = n + 1
  BY <1>2
<1>4. /\ Len(Tail(os)) = n /\ Head(os) = os[1]
      /\ \A i \in 1 .. n : Tail(os)[i] = os[i + 1]
  BY <1>1, <1>3
<1> QED BY <1>3, <1>4

\* Both stay sequences.
LEMMA StillSequences ==
  ASSUME NEW os, NEW o, Sequence(os)
  PROVE  /\ Sequence(Append(os, o)) /\ Append(os, o) # <<>>
         /\ os # <<>> => Sequence(Tail(os))
<1>1. PICK S : os \in Seq(S)
  BY DEF Sequence
<1>2. PICK R : R = S \cup {o}
  OBVIOUS
<1>3. os \in Seq(R) /\ o \in R
  BY <1>1, <1>2, SeqMonotonic
<1>4. Append(os, o) \in Seq(R)
  BY <1>3
<1>6. Append(os, o) # <<>>
  <2>1. PICK n \in Nat : Len(Append(os, o)) = n + 1
    BY Appended
  <2> QED BY <2>1, CatNothing
<1>5. os # <<>> => Tail(os) \in Seq(R)
  BY <1>3
<1> QED BY <1>4, <1>5, <1>6, IsSequence

-----------------------------------------------------------------------------
(* Messages on their way. *)

\* Writers and readers know the same on every chunk stream.
Levels(w, rr) ==
  /\ rr \in [ChunkStreams -> Readers]
  /\ \A c \in ChunkStreams : Level(c, w[c], rr[c])

\* A side of the connection.
Links(l) ==
  /\ l = [w |-> l.w, wire |-> l.wire, under |-> l.under]
  /\ l.w \in [ChunkStreams -> Writers] /\ Sequence(l.wire) /\ Sequence(l.under)

\* The reading of message o takes readers e.r and what is on the wire to f's.
Arrives(e, o, f) ==
  \E u \in Writers, z \in Readers :
    /\ z = ReadHeader(e.r[o.cs], Says(u.fmt, u))
    /\ z.len = Len(Encode(o.msg)) /\ z.type = TypeID(o.msg) /\ z.sid = o.sid /\ StampOf(z) = o.ts
    /\ Sequence(f.wire) /\ e.wire = (Cells(Header(u, o.cs)) \o Encode(o.msg)) \o f.wire
    /\ f.r = [e.r EXCEPT ![o.cs] = Complete(z)]

\* Reading and handling.
Step(d, e, o, f) == Arrives(e, o, f) /\ Met(d, e.at, o, f.at)

\* Messages os take end e to f.
Leads(d, e, os, f) ==
  \E T : /\ T[0] = e /\ T[Len(os)] = f
         /\ \A i \in 1 .. Len(os) : Step(d, T[i - 1], os[i], T[i])
         /\ \A i \in 0 .. Len(os) : T[i].at \in Standings /\ Below(T[i].at, f.at)

\* With nothing on the way an end stays what it is.
LEMMA LeadsNowhere ==
  ASSUME NEW e, NEW d, e.at \in Standings
  PROVE  Leads(d, e, <<>>, e)
<1> DEFINE T == [i \in 0 .. 0 |-> e]
<1>1. Len(<<>>) = 0
  OBVIOUS
<1>2. T[0] = e /\ T[Len(<<>>)] = e
  BY <1>1
<1>3. \A i \in 0 .. Len(<<>>) : T[i] = e
  BY <1>1
<1>4. \A i \in 1 .. Len(<<>>) : FALSE
  BY <1>1
<1> HIDE DEF T
<1>5. \A i \in 0 .. Len(<<>>) : T[i].at \in Standings /\ Below(T[i].at, e.at)
  BY <1>3, BelowIs
<1> QED BY <1>2, <1>4, <1>5 DEF Leads

\* An end that nothing is on the way to.
LEMMA LeadsNil ==
  ASSUME NEW e, NEW f, NEW d, Leads(d, e, <<>>, f)
  PROVE  e = f
BY DEF Leads

\* An end and what comes behind.
Followed(e, W) == [r |-> e.r, wire |-> e.wire \o W, at |-> e.at]

\* What comes behind a message does not matter to it.
LEMMA StepFollowed ==
  ASSUME NEW d, NEW e, NEW o, NEW f, NEW W, Sequence(W), Step(d, e, o, f)
  PROVE  Step(d, Followed(e, W), o, Followed(f, W))
<1>1. PICK u \in Writers, z \in Readers :
        /\ z = ReadHeader(e.r[o.cs], Says(u.fmt, u))
        /\ z.len = Len(Encode(o.msg)) /\ z.type = TypeID(o.msg) /\ z.sid = o.sid /\ StampOf(z) = o.ts
        /\ Sequence(f.wire) /\ e.wire = (Cells(Header(u, o.cs)) \o Encode(o.msg)) \o f.wire
        /\ f.r = [e.r EXCEPT ![o.cs] = Complete(z)]
  BY DEF Step, Arrives
<1> DEFINE chunk == Cells(Header(u, o.cs)) \o Encode(o.msg)
<1>2. Sequence(chunk)
  <2>1. Sequence(Encode(o.msg)) /\ o.cs \in ChunkStreams
    BY DEF Step, Met, Sendable, Legible
  <2>2. Header(u, o.cs) \in Seq(Byte)
    BY <2>1, HeaderIs
  <2>3. Sequence(Cells(Header(u, o.cs)))
    BY <2>2, CellsAre
  <2> QED BY <2>1, <2>3, SequenceCat DEF Cats
<1> HIDE DEF chunk
<1>3. (chunk \o f.wire) \o W = chunk \o (f.wire \o W)
  <2>0. PICK ch, rest : ch = chunk /\ rest = f.wire
    OBVIOUS
  <2>1. Sequence(ch) /\ Sequence(rest)
    BY <1>1, <1>2, <2>0
  <2>2. (ch \o rest) \o W = ch \o (rest \o W)
    BY <2>1, CatCat
  <2> QED BY <2>0, <2>2
<1>4. Sequence(f.wire \o W)
  BY <1>1, SequenceCat DEF Cats
<1>5. Arrives(Followed(e, W), o, Followed(f, W))
  <2>1. /\ Followed(e, W).r = e.r /\ Followed(f, W).r = f.r
        /\ Followed(e, W).wire = e.wire \o W /\ Followed(f, W).wire = f.wire \o W
    BY DEF Followed
  <2>2. e.wire \o W = chunk \o (f.wire \o W)
    BY <1>1, <1>3 DEF chunk
  <2>3. z = ReadHeader(Followed(e, W).r[o.cs], Says(u.fmt, u))
    BY <1>1, <2>1
  <2>4. Followed(e, W).wire = (Cells(Header(u, o.cs)) \o Encode(o.msg)) \o Followed(f, W).wire
    BY <2>1, <2>2 DEF chunk
  <2>5. Followed(f, W).r = [Followed(e, W).r EXCEPT ![o.cs] = Complete(z)] /\ Sequence(Followed(f, W).wire)
    BY <1>1, <1>4, <2>1
  <2> QED BY <1>1, <2>3, <2>4, <2>5 DEF Arrives
<1>6. Followed(e, W).at = e.at /\ Followed(f, W).at = f.at
  BY DEF Followed
<1> QED BY <1>5, <1>6 DEF Step

\* One more message, with its chunk at the end of the wire.
LEMMA LeadsOn ==
  ASSUME NEW d, NEW os, NEW e, NEW f, NEW o, NEW g, NEW W,
         Sequence(os), Leads(d, e, os, f), Sequence(W), Step(d, Followed(f, W), o, g)
  PROVE  Leads(d, Followed(e, W), Append(os, o), g)
<1>1. PICK T : /\ T[0] = e /\ T[Len(os)] = f
               /\ \A i \in 1 .. Len(os) : Step(d, T[i - 1], os[i], T[i])
               /\ \A i \in 0 .. Len(os) : T[i].at \in Standings /\ Below(T[i].at, f.at)
  BY DEF Leads
<1>2. PICK oo : oo = Append(os, o)
  OBVIOUS
<1>3. PICK n \in Nat : /\ n = Len(os) /\ Len(oo) = n + 1 /\ oo[n + 1] = o
                       /\ \A i \in 1 .. n : oo[i] = os[i]
  BY <1>2, Appended
<1>4. PICK U : U = [i \in 0 .. n + 1 |-> IF i <= n THEN Followed(T[i], W) ELSE g]
  OBVIOUS
<1>5. /\ \A i \in 0 .. n : U[i] = Followed(T[i], W)
      /\ U[n + 1] = g
  BY <1>4
<1>6. U[0] = Followed(e, W) /\ U[n] = Followed(f, W)
  <2>1. 0 \in 0 .. n /\ n \in 0 .. n
    OBVIOUS
  <2>2. T[0] = e /\ T[n] = f
    BY <1>1, <1>3
  <2> QED BY <1>5, <2>1, <2>2
<1>7. ASSUME NEW i \in 1 .. n + 1 PROVE Step(d, U[i - 1], oo[i], U[i])
  <2>1. CASE i <= n
    <3>1. i \in 1 .. n /\ i - 1 \in 0 .. n /\ i \in 0 .. n
      BY <2>1
    <3>2. Step(d, T[i - 1], os[i], T[i])
      BY <1>1, <1>3, <3>1
    <3>3. Step(d, Followed(T[i - 1], W), os[i], Followed(T[i], W))
      BY <3>2, StepFollowed
    <3> QED BY <1>3, <1>5, <3>1, <3>3
  <2>2. CASE ~(i <= n)
    <3>1. i = n + 1 /\ i - 1 = n
      BY <2>2
    <3> QED BY <1>3, <1>5, <1>6, <3>1
  <2> QED BY <2>1, <2>2
<1>8. Met(d, f.at, o, g.at)
  BY DEF Step, Followed
<1>9. ASSUME NEW i \in 0 .. n + 1 PROVE U[i].at \in Standings /\ Below(U[i].at, g.at)
  <2>1. f.at \in Standings /\ g.at \in Standings /\ Below(f.at, g.at)
    BY <1>8 DEF Met
  <2>2. CASE i <= n
    <3>1. i \in 0 .. n
      BY <2>2
    <3>2. T[i].at \in Standings /\ Below(T[i].at, f.at)
      BY <1>1, <1>3, <3>1
    <3>3. U[i] = Followed(T[i], W)
      BY <1>5, <3>1
    <3>4. U[i].at = T[i].at
      BY <3>3 DEF Followed
    <3> QED BY <2>1, <3>2, <3>4, BelowIs
  <2>3. CASE ~(i <= n)
    <3>1. i = n + 1
      BY <2>3
    <3> QED BY <1>5, <2>1, <3>1, BelowIs
  <2> QED BY <2>2, <2>3
<1>10. Leads(d, Followed(e, W), oo, g)
  <2>1. U[0] = Followed(e, W) /\ U[Len(oo)] = g
    BY <1>3, <1>5, <1>6
  <2>2. \A i \in 1 .. Len(oo) : Step(d, U[i - 1], oo[i], U[i])
    BY <1>3, <1>7
  <2>3. \A i \in 0 .. Len(oo) : U[i].at \in Standings /\ Below(U[i].at, g.at)
    BY <1>3, <1>9
  <2> QED BY <2>1, <2>2, <2>3 DEF Leads
<1> QED BY <1>2, <1>10

\* The first message is read and handled.
LEMMA LeadsOff ==
  ASSUME NEW d, NEW os, NEW e, NEW g, Sequence(os), os # <<>>, Leads(d, e, os, g)
  PROVE  \E f : /\ Step(d, e, Head(os), f) /\ Leads(d, f, Tail(os), g)
                /\ Below(f.at, g.at)
<1>1. PICK T : /\ T[0] = e /\ T[Len(os)] = g
               /\ \A i \in 1 .. Len(os) : Step(d, T[i - 1], os[i], T[i])
               /\ \A i \in 0 .. Len(os) : T[i].at \in Standings /\ Below(T[i].at, g.at)
  BY DEF Leads
<1>2. PICK oo : oo = Tail(os)
  OBVIOUS
<1>3. PICK n \in Nat : /\ Len(os) = n + 1 /\ Len(oo) = n /\ Head(os) = os[1]
                       /\ \A i \in 1 .. n : oo[i] = os[i + 1]
  BY <1>2, Beheaded
<1>4. PICK U : U = [i \in 0 .. n |-> T[i + 1]]
  OBVIOUS
<1>5. \A i \in 0 .. n : U[i] = T[i + 1]
  BY <1>4
<1>6. U[0] = T[1] /\ U[n] = g
  <2>1. 0 \in 0 .. n /\ n \in 0 .. n /\ 0 + 1 = 1
    OBVIOUS
  <2>2. T[n + 1] = g
    BY <1>1, <1>3
  <2>3. U[0] = T[0 + 1] /\ U[n] = T[n + 1]
    BY <1>5, <2>1
  <2> QED BY <2>1, <2>2, <2>3
<1>7. ASSUME NEW i \in 1 .. n PROVE Step(d, U[i - 1], oo[i], U[i])
  <2>1. i - 1 \in 0 .. n /\ i \in 0 .. n /\ i + 1 \in 1 .. n + 1 /\ (i - 1) + 1 = i /\ (i + 1) - 1 = i
    OBVIOUS
  <2>2. U[i - 1] = T[i] /\ U[i] = T[i + 1] /\ oo[i] = os[i + 1]
    BY <1>3, <1>5, <2>1
  <2>3. Step(d, T[(i + 1) - 1], os[i + 1], T[i + 1])
    BY <1>1, <1>3, <2>1
  <2> QED BY <2>1, <2>2, <2>3
<1>8. ASSUME NEW i \in 0 .. n PROVE U[i].at \in Standings /\ Below(U[i].at, g.at)
  <2>1. i + 1 \in 0 .. n + 1
    OBVIOUS
  <2>2. T[i + 1].at \in Standings /\ Below(T[i + 1].at, g.at)
    BY <1>1, <1>3, <2>1
  <2> QED BY <1>5, <2>2
<1>9. Leads(d, T[1], oo, g)
  <2>1. U[0] = T[1] /\ U[Len(oo)] = g
    BY <1>3, <1>6
  <2>2. \A i \in 1 .. Len(oo) : Step(d, U[i - 1], oo[i], U[i])
    BY <1>3, <1>7
  <2>3. \A i \in 0 .. Len(oo) : U[i].at \in Standings /\ Below(U[i].at, g.at)
    BY <1>3, <1>8
  <2> QED BY <2>1, <2>2, <2>3 DEF Leads
<1>10. Step(d, e, Head(os), T[1])
  <2>1. 1 \in 1 .. Len(os) /\ 1 - 1 = 0
    BY <1>3
  <2>2. Step(d, T[1 - 1], os[1], T[1])
    BY <1>1, <2>1
  <2> QED BY <1>1, <1>3, <2>1, <2>2
<1>11. Below(T[1].at, g.at)
  BY <1>6, <1>8
<1> QED BY <1>2, <1>9, <1>10, <1>11

\* What is on side l of the connection, when readers rr have read the rest and
\* the end that reads stands like a, leaves it like b.
OnTheWay(d, rr, a, l, b) ==
  \E e, f : /\ e.r = rr /\ e.wire = l.wire /\ e.at = a
            /\ f.wire = <<>> /\ f.at = b /\ Levels(l.w, f.r)
            /\ Leads(d, e, l.under, f)

\* The chunk writer of a message that is put on the wire.
Prepared(x, o) ==
  [x EXCEPT !.ts = o.ts, !.len = Len(Encode(o.msg)), !.new = TRUE, !.type = TypeID(o.msg), !.sid = o.sid]

\* It is one, and knows what it knew.
LEMMA PreparedIs ==
  ASSUME NEW x \in Writers, NEW o, Sendable(o)
  PROVE  /\ Prepared(x, o) \in Writers /\ Prepared(x, o).new
         /\ Prepared(x, o).ts = o.ts /\ Prepared(x, o).len = Len(Encode(o.msg))
         /\ Prepared(x, o).type = TypeID(o.msg) /\ Prepared(x, o).sid = o.sid
         /\ \A c, y : Level(c, x, y) => Level(c, Prepared(x, o), y)
<1>1. PICK ts \in Clock, len \in Lengths, type \in Byte, sid \in StreamIDs, yes \in BOOLEAN :
        ts = o.ts /\ len = Len(Encode(o.msg)) /\ type = TypeID(o.msg) /\ sid = o.sid /\ yes = TRUE
  BY DEF Sendable, Legible
<1>2. PICK v \in Writers : v = [x EXCEPT !.ts = ts, !.len = len]
  BY DEF Writers
<1>3. /\ v.ts = ts /\ v.len = len
      /\ v.hts = x.hts /\ v.hdelta = x.hdelta /\ v.hlen = x.hlen /\ v.htype = x.htype /\ v.hsid = x.hsid
  BY <1>2 DEF Writers
<1>4. PICK w \in Writers : w = [v EXCEPT !.new = yes, !.type = type, !.sid = sid]
  BY DEF Writers
<1>5. /\ w.new = yes /\ w.ts = v.ts /\ w.len = v.len /\ w.type = type /\ w.sid = sid
      /\ w.hts = v.hts /\ w.hdelta = v.hdelta /\ w.hlen = v.hlen /\ w.htype = v.htype /\ w.hsid = v.hsid
  BY <1>4 DEF Writers
<1>6. Prepared(x, o) = w
  BY <1>1, <1>2, <1>4 DEF Prepared
<1>7. \A c, y : Level(c, x, y) => Level(c, w, y)
  BY <1>3, <1>5 DEF Level
<1> QED BY <1>1, <1>3, <1>5, <1>6, <1>7

\* What Put makes of a side of the connection.
LEMMA PutIs ==
  ASSUME NEW l, Links(l), NEW o, Sendable(o)
  PROVE  \E u \in Writers :
           /\ u = UpdateWriterHeader(Prepared(l.w[o.cs], o))
           /\ Put(l, o) = [w |-> [l.w EXCEPT ![o.cs] = u],
                           wire |-> l.wire \o (Cells(Header(u, o.cs)) \o Encode(o.msg)),
                           under |-> Append(l.under, o)]
           /\ Links(Put(l, o))
<1>1. o.cs \in ChunkStreams /\ Sequence(Encode(o.msg))
  BY DEF Sendable, Legible
<1>2. /\ l.w \in [ChunkStreams -> Writers] /\ l.w[o.cs] \in Writers
      /\ Sequence(l.wire) /\ Sequence(l.under)
  BY <1>1 DEF Links
<1>3. PICK u \in Writers : u = UpdateWriterHeader(Prepared(l.w[o.cs], o))
  <2>1. PICK x \in Writers : x = Prepared(l.w[o.cs], o) /\ x.new
    BY <1>2, PreparedIs
  <2>2. UpdateWriterHeader(x) \in Writers
    BY <2>1, NextHeader
  <2> QED BY <2>1, <2>2
<1>4. PICK cells : cells = Cells(Header(u, o.cs)) /\ Sequence(cells)
  <2>1. Header(u, o.cs) \in Seq(Byte)
    BY <1>1, HeaderIs
  <2> QED BY <2>1, CellsAre
<1>5. PICK p, wire : p = Encode(o.msg) /\ wire = l.wire
  OBVIOUS
<1>6. Sequence(p) /\ Sequence(wire) /\ Sequence(cells)
  BY <1>1, <1>2, <1>4, <1>5
<1>7. (wire \o cells) \o p = wire \o (cells \o p)
  BY <1>6, CatCat
<1>8. Sequence(wire \o (cells \o p))
  <2>1. Sequence(cells \o p)
    BY <1>6, SequenceCat DEF Cats
  <2> QED BY <1>6, <2>1, SequenceCat DEF Cats
<1>9. Put(l, o) = [w |-> [l.w EXCEPT ![o.cs] = u], wire |-> wire \o (cells \o p),
                   under |-> Append(l.under, o)]
  <2>1. Put(l, o) = [w |-> [l.w EXCEPT ![o.cs] = u], wire |-> (wire \o cells) \o p,
                     under |-> Append(l.under, o)]
    <3>1. PICK H : H = Header(u, o.cs)
      OBVIOUS
    <3>2. H = EncodeBasicHeader(u.fmt, o.cs) \o EncodeMessageHeader(u.fmt, u)
      BY <3>1 DEF Header
    <3>3. Put(l, o) = [w |-> [l.w EXCEPT ![o.cs] = u], wire |-> (l.wire \o Cells(H)) \o Encode(o.msg),
                       under |-> Append(l.under, o)]
      BY <1>3, <3>2 DEF Put, Prepared, Cells
    <3> QED BY <1>4, <1>5, <3>1, <3>3
  <2> QED BY <1>7, <2>1
<1>10. Links(Put(l, o))
  <2>1. [l.w EXCEPT ![o.cs] = u] \in [ChunkStreams -> Writers]
    BY <1>2
  <2>2. Sequence(Append(l.under, o))
    BY <1>2, StillSequences
  <2>3. PICK nw, nwire, under : /\ nw = [l.w EXCEPT ![o.cs] = u] /\ nwire = wire \o (cells \o p)
                                /\ under = Append(l.under, o)
    OBVIOUS
  <2>4. PICK g : g = [w |-> nw, wire |-> nwire, under |-> under]
    OBVIOUS
  <2>5. g.w = nw /\ g.wire = nwire /\ g.under = under
    BY <2>4
  <2>6. Links(g)
    BY <1>8, <2>1, <2>2, <2>3, <2>4, <2>5 DEF Links
  <2> QED BY <1>9, <2>3, <2>4, <2>6
<1> QED BY <1>3, <1>4, <1>5, <1>9, <1>10

\* A message that is put on the wire is on its way.
LEMMA Sent ==
  ASSUME NEW d, NEW rr, NEW a, NEW l, NEW b, NEW o, NEW c,
         Links(l), OnTheWay(d, rr, a, l, b), Met(d, b, o, c)
  PROVE  OnTheWay(d, rr, a, Put(l, o), c) /\ Links(Put(l, o))
<1>1. Sendable(o)
  BY DEF Met
<1>2. PICK e, f : /\ e.r = rr /\ e.wire = l.wire /\ e.at = a
                  /\ f.wire = <<>> /\ f.at = b /\ Levels(l.w, f.r)
                  /\ Leads(d, e, l.under, f)
  BY DEF OnTheWay
<1>3. PICK u \in Writers :
           /\ u = UpdateWriterHeader(Prepared(l.w[o.cs], o))
           /\ Put(l, o) = [w |-> [l.w EXCEPT ![o.cs] = u],
                           wire |-> l.wire \o (Cells(Header(u, o.cs)) \o Encode(o.msg)),
                           under |-> Append(l.under, o)]
           /\ Links(Put(l, o))
  BY <1>1, PutIs
<1>4. PICK g : /\ g = Put(l, o) /\ g.w = [l.w EXCEPT ![o.cs] = u]
               /\ g.wire = l.wire \o (Cells(Header(u, o.cs)) \o Encode(o.msg))
               /\ g.under = Append(l.under, o)
  <2>1. PICK nw, nwire, under : /\ nw = [l.w EXCEPT ![o.cs] = u]
                                /\ nwire = l.wire \o (Cells(Header(u, o.cs)) \o Encode(o.msg))
                                /\ under = Append(l.under, o)
    OBVIOUS
  <2>2. PICK g : g = [w |-> nw, wire |-> nwire, under |-> under]
    OBVIOUS
  <2>3. g.w = nw /\ g.wire = nwire /\ g.under = under
    BY <2>2
  <2>4. g = Put(l, o)
    BY <1>3, <2>1, <2>2
  <2> QED BY <2>1, <2>3, <2>4
<1>5. /\ o.cs \in ChunkStreams /\ OnItsStream(o.cs, o.ts, o.sid) /\ Sequence(Encode(o.msg))
      /\ l.w \in [ChunkStreams -> Writers] /\ l.w[o.cs] \in Writers
      /\ Sequence(l.under)
  BY <1>1 DEF Sendable, Legible, Links
<1>6. f.r \in [ChunkStreams -> Readers] /\ f.r[o.cs] \in Readers /\ Level(o.cs, l.w[o.cs], f.r[o.cs])
  BY <1>2, <1>5 DEF Levels
<1>7. PICK x \in Writers : /\ x = Prepared(l.w[o.cs], o) /\ x.new
                           /\ x.ts = o.ts /\ x.len = Len(Encode(o.msg))
                           /\ x.type = TypeID(o.msg) /\ x.sid = o.sid
                           /\ Level(o.cs, x, f.r[o.cs])
  BY <1>1, <1>5, <1>6, PreparedIs
<1>8. PICK z \in Readers : /\ z = ReadHeader(f.r[o.cs], Says(u.fmt, u))
                           /\ z.len = Len(Encode(o.msg)) /\ z.type = TypeID(o.msg) /\ z.sid = o.sid
                           /\ StampOf(z) = o.ts /\ Level(o.cs, u, Complete(z))
  BY <1>3, <1>5, <1>6, <1>7, HeaderCarried
<1>9. PICK W, cells, p : /\ cells = Cells(Header(u, o.cs)) /\ p = Encode(o.msg) /\ W = cells \o p
  OBVIOUS
<1>10. Sequence(cells) /\ Sequence(p)
  <2>1. Header(u, o.cs) \in Seq(Byte)
    BY <1>5, HeaderIs
  <2> QED BY <1>5, <1>9, <2>1, CellsAre
<1>11. Sequence(W) /\ W \o <<>> = W /\ <<>> \o W = W /\ Sequence(<<>>)
  <2>1. Sequence(W)
    BY <1>9, <1>10, SequenceCat DEF Cats
  <2> QED BY <2>1, CatNothing
<1>12. PICK h : h = [r |-> [f.r EXCEPT ![o.cs] = Complete(z)], wire |-> <<>>, at |-> c]
  OBVIOUS
<1>13. h.r = [f.r EXCEPT ![o.cs] = Complete(z)] /\ h.wire = <<>> /\ h.at = c
  BY <1>12
<1>14. PICK k : /\ k = Followed(f, W) /\ k.r = f.r /\ k.wire = W /\ k.at = b
  <2>1. Followed(f, W).r = f.r /\ Followed(f, W).wire = f.wire \o W /\ Followed(f, W).at = f.at
    BY DEF Followed
  <2>2. f.wire \o W = W
    BY <1>2, <1>11
  <2> QED BY <1>2, <2>1, <2>2
<1>15. Step(d, k, o, h)
  <2>1. k.wire = (Cells(Header(u, o.cs)) \o Encode(o.msg)) \o h.wire
    BY <1>9, <1>11, <1>13, <1>14
  <2>2. z = ReadHeader(k.r[o.cs], Says(u.fmt, u)) /\ h.r = [k.r EXCEPT ![o.cs] = Complete(z)]
        /\ Sequence(h.wire)
    BY <1>8, <1>11, <1>13, <1>14
  <2>3. Arrives(k, o, h)
    BY <1>8, <2>1, <2>2 DEF Arrives
  <2> QED BY <1>13, <1>14, <2>3 DEF Step
<1>16. Leads(d, Followed(e, W), g.under, h)
  <2>1. Leads(d, Followed(e, W), Append(l.under, o), h)
    BY <1>2, <1>5, <1>11, <1>14, <1>15, LeadsOn
  <2> QED BY <1>4, <2>1
<1>17. Levels(g.w, h.r)
  <2>1. Complete(z) \in Readers
    BY Completed
  <2>2. h.r \in [ChunkStreams -> Readers]
    BY <1>6, <1>13, <2>1
  <2>3. ASSUME NEW i \in ChunkStreams PROVE Level(i, g.w[i], h.r[i])
    <3>1. CASE i = o.cs
      <4>1. g.w[i] = u /\ h.r[i] = Complete(z)
        BY <1>4, <1>5, <1>6, <1>13, <3>1
      <4> QED BY <1>8, <3>1, <4>1
    <3>2. CASE i # o.cs
      <4>1. g.w[i] = l.w[i] /\ h.r[i] = f.r[i]
        BY <1>4, <1>5, <1>6, <1>13, <3>2
      <4>2. Level(i, l.w[i], f.r[i])
        BY <1>2 DEF Levels
      <4> QED BY <4>1, <4>2
    <3> QED BY <3>1, <3>2
  <2> QED BY <2>2, <2>3 DEF Levels
<1>18. OnTheWay(d, rr, a, g, c)
  <2>1. PICK j : j = Followed(e, W)
    OBVIOUS
  <2>2. j.r = rr /\ j.at = a /\ j.wire = g.wire
    BY <1>2, <1>4, <1>9, <2>1 DEF Followed
  <2>3. Leads(d, j, g.under, h)
    BY <1>16, <2>1
  <2> QED BY <1>13, <1>17, <2>2, <2>3 DEF OnTheWay
<1> QED BY <1>3, <1>4, <1>18

\* Side l without its first message o.
Without(l, rest) == [w |-> l.w, wire |-> rest, under |-> Tail(l.under)]

\* The chunk of message o, written by u, takes the reader to z and leaves rest
\* on the wire; the end that reads stands like c then.
Arrived(d, rr, a, l, b, u, z, o, c, rest) ==
  /\ o = Head(l.under) /\ Met(d, a, o, c) /\ Below(c, b)
  /\ z = ReadHeader(rr[o.cs], Says(u.fmt, u))
  /\ z.len = Len(Encode(o.msg)) /\ z.type = TypeID(o.msg) /\ z.sid = o.sid /\ StampOf(z) = o.ts
  /\ Sequence(rest) /\ l.wire = (Cells(Header(u, o.cs)) \o Encode(o.msg)) \o rest
  /\ Links(Without(l, rest))
  /\ OnTheWay(d, [rr EXCEPT ![o.cs] = Complete(z)], c, Without(l, rest), b)

\* The chunk at the head of the wire is that of the message written first.
LEMMA Received ==
  ASSUME NEW d, NEW rr, NEW a, NEW l, NEW b, Links(l), OnTheWay(d, rr, a, l, b)
  PROVE  l.wire # <<>> => \E u \in Writers, z \in Readers : \E o, c, rest :
           Arrived(d, rr, a, l, b, u, z, o, c, rest)
<1>0. SUFFICES ASSUME l.wire # <<>>
               PROVE  \E u \in Writers, z \in Readers : \E o, c, rest :
                        Arrived(d, rr, a, l, b, u, z, o, c, rest)
  OBVIOUS
<1>1. PICK e, f : /\ e.r = rr /\ e.wire = l.wire /\ e.at = a
                  /\ f.wire = <<>> /\ f.at = b /\ Levels(l.w, f.r)
                  /\ Leads(d, e, l.under, f)
  BY DEF OnTheWay
<1>2. l.under # <<>>
  <2>1. SUFFICES ASSUME l.under = <<>> PROVE FALSE
    OBVIOUS
  <2>2. e = f
    BY <1>1, <2>1, LeadsNil
  <2> QED BY <1>0, <1>1, <2>2
<1>3. Sequence(l.under)
  BY DEF Links
<1>4. PICK g : Step(d, e, Head(l.under), g) /\ Leads(d, g, Tail(l.under), f) /\ Below(g.at, f.at)
  BY <1>1, <1>2, <1>3, LeadsOff
<1>5. PICK o, c, rest : o = Head(l.under) /\ c = g.at /\ rest = g.wire
  OBVIOUS
<1>6. Arrives(e, o, g) /\ Met(d, a, o, c) /\ Below(c, b)
  BY <1>1, <1>4, <1>5 DEF Step
<1>7. PICK u \in Writers, z \in Readers :
        /\ z = ReadHeader(e.r[o.cs], Says(u.fmt, u))
        /\ z.len = Len(Encode(o.msg)) /\ z.type = TypeID(o.msg) /\ z.sid = o.sid /\ StampOf(z) = o.ts
        /\ Sequence(g.wire) /\ e.wire = (Cells(Header(u, o.cs)) \o Encode(o.msg)) \o g.wire
        /\ g.r = [e.r EXCEPT ![o.cs] = Complete(z)]
  BY <1>6 DEF Arrives
<1>8. PICK k, under : k = Without(l, rest) /\ under = Tail(l.under)
  OBVIOUS
<1>9. /\ k.w = l.w /\ k.wire = rest /\ k.under = under
      /\ k = [w |-> k.w, wire |-> k.wire, under |-> k.under]
  BY <1>8 DEF Without
<1>10. Links(k)
  <2>0. Sequence(rest)
    BY <1>5, <1>7
  <2>1. Sequence(under)
    BY <1>2, <1>3, <1>8, StillSequences
  <2>2. l.w \in [ChunkStreams -> Writers]
    BY DEF Links
  <2> QED BY <1>9, <2>0, <2>1, <2>2 DEF Links
<1>11. OnTheWay(d, [rr EXCEPT ![o.cs] = Complete(z)], c, k, b)
  <2>0. e.r = rr
    BY <1>1
  <2>1. g.r = [rr EXCEPT ![o.cs] = Complete(z)]
    BY <1>7, <2>0
  <2>3. g.wire = k.wire /\ g.at = c
    BY <1>5, <1>9
  <2>4. Leads(d, g, under, f)
    BY <1>4, <1>8
  <2>2. Leads(d, g, k.under, f) /\ Levels(k.w, f.r)
    BY <1>1, <1>9, <2>4
  <2>5. f.wire = <<>> /\ f.at = b
    BY <1>1
  <2> QED BY <2>1, <2>2, <2>3, <2>5 DEF OnTheWay
<1>12. /\ z = ReadHeader(rr[o.cs], Says(u.fmt, u))
       /\ z.len = Len(Encode(o.msg)) /\ z.type = TypeID(o.msg) /\ z.sid = o.sid /\ StampOf(z) = o.ts
  <2>1. e.r = rr
    BY <1>1
  <2> QED BY <1>7, <2>1
<1>13. Sequence(rest) /\ l.wire = (Cells(Header(u, o.cs)) \o Encode(o.msg)) \o rest
  <2>1. e.wire = l.wire /\ g.wire = rest
    BY <1>1, <1>5
  <2> QED BY <1>7, <2>1
<1>14. Links(Without(l, rest)) /\ OnTheWay(d, [rr EXCEPT ![o.cs] = Complete(z)], c, Without(l, rest), b)
  BY <1>8, <1>10, <1>11
<1>15. o = Head(l.under)
  BY <1>5
<1>16. Arrived(d, rr, a, l, b, u, z, o, c, rest)
  BY <1>6, <1>12, <1>13, <1>14, <1>15 DEF Arrived
<1> QED BY <1>16

\* The way of what is below.
LEMMA WayBelow ==
  ASSUME NEW d, NEW rr, NEW a, NEW l, NEW b, Links(l), OnTheWay(d, rr, a, l, b)
  PROVE  Below(a, b) /\ a \in Standings /\ b \in Standings
<1>1. PICK e, f : e.at = a /\ f.at = b /\ Leads(d, e, l.under, f)
  BY DEF OnTheWay
<1>2. PICK T : /\ T[0] = e /\ T[Len(l.under)] = f
               /\ \A i \in 0 .. Len(l.under) : T[i].at \in Standings /\ Below(T[i].at, f.at)
  BY <1>1 DEF Leads
<1>3. Len(l.under) \in Nat
  BY Appended DEF Links
<1>4. 0 \in 0 .. Len(l.under) /\ Len(l.under) \in 0 .. Len(l.under)
  BY <1>3
<1> QED BY <1>1, <1>2, <1>4

\* Writer u has put message o on the wire before the rest, reader z is that of rr
\* after its header, and n bytes are read of the basic header.
OneChunk(u, z, o, rest, wire, n, rr) ==
  /\ Sendable(o) /\ Sequence(rest) /\ wire = (Cells(Header(u, o.cs)) \o Encode(o.msg)) \o rest
  /\ z = ReadHeader(rr[o.cs], Says(u.fmt, u))
  /\ z.len = Len(Encode(o.msg)) /\ z.type = TypeID(o.msg)
  /\ n \in TakenForBasicHeader(wire[1].byte, Len(wire)) /\ ~(n > BasicHeaderLength(wire[1].byte))

\* What readChunk makes of such a wire.
ReadAs(z, o, rest, wire, n, rr) ==
  LET b == DecodeBasicHeader(Bytes(wire, 1, n))
      m == n + MessageHeaderLength(b.fmt, Bytes(wire, n + 1, n + 3))
      h == DecodeMessageHeader(b.fmt, Bytes(wire, n + 1, m))
      x == ReadHeader(rr[b.id], h)
      size == m + x.len
  IN  /\ b.id = o.cs /\ x = z /\ size \in Nat
      /\ AreBytes(wire, m) /\ b.id \in ChunkStreams /\ x.len # 0 /\ ~(Len(wire) < size)
      /\ Decode(x.type, SubSeq(wire, m + 1, size)) = o.msg /\ o.msg # Failed
      /\ From(wire, size + 1) = rest

\* It finds the message, and what is behind it.
LEMMA ChunkIs ==
  ASSUME NEW u \in Writers, NEW z, NEW o, NEW rest, NEW wire, NEW n, NEW rr,
         OneChunk(u, z, o, rest, wire, n, rr)
  PROVE  ReadAs(z, o, rest, wire, n, rr)
<1>1. Sendable(o)
  BY Zenon DEF OneChunk
<1>2. PICK p : p = Encode(o.msg)
  OBVIOUS
<1>3. /\ o.cs \in ChunkStreams /\ Sequence(p) /\ Len(p) \in Nat /\ Len(p) # 0
      /\ Decode(TypeID(o.msg), p) = o.msg /\ o.msg # Failed
  BY <1>1, <1>2 DEF Sendable, Legible, Lengths
<1>4. PICK id \in Nat : id = o.cs /\ 2 <= id /\ id <= LastChunkStream
  BY <1>3, HeaderIs
<1>5. wire = (Cells(Header(u, id)) \o p) \o rest /\ Sequence(rest)
  BY <1>2, <1>4, Zenon DEF OneChunk
<1>6. z = ReadHeader(rr[id], Says(u.fmt, u)) /\ z.len = Len(p) /\ z.type = TypeID(o.msg)
  BY <1>2, <1>4, Zenon DEF OneChunk
<1>7. PICK k \in 1 .. 3, m \in Nat : ChunkAt(u, id, p, rest, wire, k, m)
  <2>1. Sequence(p) /\ Len(p) # 0 /\ 2 <= id /\ id <= LastChunkStream
    BY <1>3, <1>4, Zenon
  <2> QED BY <1>5, <2>1, ChunkFound
<1>8. /\ k = BasicHeaderLength(wire[1].byte)
      /\ DecodeBasicHeader(Bytes(wire, 1, k)) = [fmt |-> u.fmt, id |-> id]
      /\ m = k + MessageHeaderLength(u.fmt, Bytes(wire, k + 1, k + 3))
      /\ DecodeMessageHeader(u.fmt, Bytes(wire, k + 1, m)) = Says(u.fmt, u)
      /\ AreBytes(wire, m)
  BY <1>7, Zenon DEF ChunkAt
<1>9. /\ Len(wire) >= m + Len(p)
      /\ SubSeq(wire, m + 1, m + Len(p)) = p /\ From(wire, m + Len(p) + 1) = rest
  BY <1>7, Zenon DEF ChunkAt
<1>10. n = k
  <2>1. n \in TakenForBasicHeader(wire[1].byte, Len(wire)) /\ ~(n > BasicHeaderLength(wire[1].byte))
    BY Zenon DEF OneChunk
  <2>2. PICK l : l = BasicHeaderLength(wire[1].byte) /\ l = k
    BY <1>8, Zenon
  <2>3. PICK there : there = Len(wire)
    OBVIOUS
  <2>4. n \in (IF k = 3 THEN 3 .. there ELSE {k}) /\ ~(n > k)
    BY <2>1, <2>2, <2>3 DEF TakenForBasicHeader
  <2> QED BY <2>4
<1> DEFINE b == DecodeBasicHeader(Bytes(wire, 1, n))
           mm == n + MessageHeaderLength(b.fmt, Bytes(wire, n + 1, n + 3))
           h == DecodeMessageHeader(b.fmt, Bytes(wire, n + 1, mm))
           x == ReadHeader(rr[b.id], h)
           size == mm + x.len
<1>11. b.fmt = u.fmt /\ b.id = id
  <2>1. b = [fmt |-> u.fmt, id |-> id]
    BY <1>8, <1>10, Zenon
  <2> HIDE DEF b
  <2> QED BY <2>1
<1> HIDE DEF b
<1>12. mm = m
  BY <1>8, <1>10, <1>11, Zenon DEF b
<1> HIDE DEF mm
<1>13. h = Says(u.fmt, u)
  BY <1>8, <1>10, <1>11, <1>12, Zenon
<1> HIDE DEF h
<1>14. x = z
  BY <1>6, <1>11, <1>13, Zenon
<1> HIDE DEF x
<1>15. size = m + Len(p)
  BY <1>6, <1>12, <1>14, Zenon
<1> HIDE DEF size
<1>16. PICK len \in Nat : len = Len(p)
  BY <1>3
<1>17. size \in Nat
  BY <1>15, <1>16
<1>18. x.len # 0
  BY <1>3, <1>6, <1>14, Zenon
<1>19. ~(Len(wire) < size)
  <2>1. Sequence(wire)
    BY <1>7, Zenon DEF ChunkAt
  <2>2. PICK there \in Nat : there = Len(wire)
    BY <2>1, Appended
  <2>3. there >= m + len
    BY <1>9, <1>16, <2>2
  <2> QED BY <1>15, <1>16, <2>2, <2>3
<1>20. From(wire, size + 1) = rest
  BY <1>9, <1>15, Zenon
<1>21. Decode(x.type, SubSeq(wire, mm + 1, size)) = o.msg
  <2>1. SubSeq(wire, mm + 1, size) = p
    BY <1>9, <1>12, <1>15, Zenon
  <2> QED BY <1>3, <1>6, <1>14, <2>1, Zenon
<1>22. AreBytes(wire, mm) /\ b.id = o.cs /\ b.id \in ChunkStreams
  BY <1>3, <1>4, <1>8, <1>11, <1>12, Zenon
<1>23. o.msg # Failed
  BY <1>3, Zenon
<1> QED BY <1>14, <1>17, <1>18, <1>19, <1>20, <1>21, <1>22, <1>23, Zenon DEF b, mm, h, x, size, ReadAs

\* n bytes are read of a basic header that is as long.
Ready(d, a, b, n) ==
  /\ n \in TakenForBasicHeader(link[d].wire[1].byte, Len(link[d].wire))
  /\ ~(n > BasicHeaderLength(link[d].wire[1].byte))
  /\ Links(link[d]) /\ r[d] \in [ChunkStreams -> Readers] /\ link[d].wire # <<>>
  /\ OnTheWay(d, r[d], a, link[d], b)

\* The ack of so many bytes.
AckOf(number) ==
  LET ack == [type |-> "Ack", number |-> number]
  IN  Written(ControlChunkStream, 0, ControlStream, ack, Call("OnUnknownMessage", 0, ack))

\* Message o has been read.
Found(d, a, b, z, size, acks, o, c, l, number) ==
  /\ o = Head(link[d].under) /\ o.cs \in ChunkStreams
  /\ Met(d, a, o, c) /\ Below(c, b)
  /\ r' = [r EXCEPT ![d][o.cs] = Complete(z)]
  /\ inbox' = [inbox EXCEPT ![d] = [cs |-> o.cs, ts |-> o.ts, sid |-> o.sid, msg |-> o.msg]]
  /\ due' = [due EXCEPT ![d] = o] /\ UNCHANGED loop
  /\ count' = [count EXCEPT ![d] = [total |-> count[d].total + size,
                                    fragment |-> IF acks THEN 0 ELSE count[d].fragment + size]]
  /\ link' = [link EXCEPT ![d] = l, ![Other(d)] = IF acks THEN Put(@, AckOf(number)) ELSE @]
  /\ Links(l) /\ OnTheWay(d, [r[d] EXCEPT ![o.cs] = Complete(z)], c, l, b)

\* What Read returns is what was written, and its reader and the wire are those
\* of the messages that come behind.
LEMMA ReadFound ==
  ASSUME NEW d \in Dirs, NEW a, NEW b, NEW n, Ready(d, a, b, n), ReadChunk(d, n)
  PROVE  \E z \in Readers, size \in Nat, acks \in BOOLEAN : \E o, c, l, number :
           Found(d, a, b, z, size, acks, o, c, l, number)
<1>1. PICK u \in Writers, z \in Readers : \E o, c, rest :
         Arrived(d, r[d], a, link[d], b, u, z, o, c, rest)
  <2>1. Links(link[d]) /\ OnTheWay(d, r[d], a, link[d], b) /\ link[d].wire # <<>>
    BY Zenon DEF Ready
  <2> QED BY <2>1, Received
<1>2. PICK o, c, rest : Arrived(d, r[d], a, link[d], b, u, z, o, c, rest)
  BY <1>1
<1>3. PICK l : /\ l = Without(link[d], rest) /\ Links(l)
               /\ OnTheWay(d, [r[d] EXCEPT ![o.cs] = Complete(z)], c, l, b)
  BY <1>2, Zenon DEF Arrived
<1>4. PICK wire, rr : wire = link[d].wire /\ rr = r[d]
  OBVIOUS
<1>5. OneChunk(u, z, o, rest, wire, n, rr) /\ Met(d, a, o, c)
  <2>1. Sendable(o) /\ Met(d, a, o, c)
    BY <1>2, Zenon DEF Arrived, Met
  <2> QED BY <1>2, <1>4, <2>1, Zenon DEF Arrived, Ready, OneChunk
<1>6. o = Head(link[d].under) /\ Below(c, b) /\ z.sid = o.sid /\ StampOf(z) = o.ts
  BY <1>2, Zenon DEF Arrived
<1> DEFINE bh    == DecodeBasicHeader(Bytes(wire, 1, n))
           m     == n + MessageHeaderLength(bh.fmt, Bytes(wire, n + 1, n + 3))
           h     == DecodeMessageHeader(bh.fmt, Bytes(wire, n + 1, m))
           x     == ReadHeader(rr[bh.id], h)
           size  == m + x.len
           msg   == Decode(x.type, SubSeq(wire, m + 1, size))
           total == count[d].total + size
           fragment == count[d].fragment + size
           acks == fragment >= Uint32(peer[d].window \div 2)
           ack  == [type |-> "Ack", number |-> total]
           rst  == [link[d] EXCEPT !.wire = From(wire, size + 1), !.under = Tail(@)]
<1>7. /\ bh.id = o.cs /\ x = z /\ size \in Nat
      /\ AreBytes(wire, m) /\ bh.id \in ChunkStreams /\ x.len # 0 /\ ~(Len(wire) < size)
      /\ msg = o.msg /\ o.msg # Failed
      /\ From(wire, size + 1) = rest
  <2>1. ReadAs(z, o, rest, wire, n, rr)
    BY <1>5, ChunkIs
  <2> QED BY <2>1, Zenon DEF ReadAs
<1>8. IF ~AreBytes(wire, m) \/ bh.id \notin ChunkStreams \/ x.len = 0 \/ Len(wire) < size
      THEN Ends(d, "failed") /\ UNCHANGED <<link, r, inbox, due, count>>
      ELSE /\ r' = [r EXCEPT ![d][bh.id] = [x EXCEPT !.ts = StampOf(x), !.completed = TRUE]]
           /\ link' = [link EXCEPT
                ![d] = rst,
                ![Other(d)] =
                   IF acks THEN Put(@, Written(ControlChunkStream, 0, ControlStream, ack,
                                               Call("OnUnknownMessage", 0, ack)))
                           ELSE @]
           /\ count' = [count EXCEPT ![d] = [total |-> total, fragment |-> IF acks THEN 0 ELSE fragment]]
           /\ inbox' = [inbox EXCEPT ![d] = [cs |-> bh.id, ts |-> StampOf(x), sid |-> x.sid, msg |-> msg]]
           /\ due' = [due EXCEPT ![d] = Head(link[d].under)]
           /\ IF msg = Failed THEN Ends(d, "failed") ELSE UNCHANGED loop
  BY <1>4, Zenon DEF ReadChunk
<1>9. PICK yes \in BOOLEAN : yes <=> acks
  <2> HIDE DEF acks
  <2> QED OBVIOUS
<1>20. PICK number : number = total
  OBVIOUS
<1>10. AckOf(number) = Written(ControlChunkStream, 0, ControlStream, ack, Call("OnUnknownMessage", 0, ack))
  <2> HIDE DEF total
  <2> QED BY <1>20, Zenon DEF AckOf
<1>11. PICK len \in Nat : len = size
  BY <1>7, Zenon
<1>12. total = count[d].total + len /\ fragment = count[d].fragment + len
  BY <1>11, Zenon
<1>13. rst = l
  <2>1. link[d] = [w |-> link[d].w, wire |-> link[d].wire, under |-> link[d].under]
    BY Zenon DEF Ready, Links
  <2>2. PICK w, before, under, after : /\ w = link[d].w /\ before = link[d].wire /\ under = link[d].under
                                       /\ after = Tail(under)
    OBVIOUS
  <2>3. link[d] = [w |-> w, wire |-> before, under |-> under]
    BY <2>1, <2>2, Zenon
  <2>4. l = [w |-> w, wire |-> rest, under |-> after]
    BY <1>3, <2>2, Zenon DEF Without
  <2>5. PICK whole : whole = [w |-> w, wire |-> before, under |-> under]
    OBVIOUS
  <2>6. rst = [whole EXCEPT !.wire = rest, !.under = after]
    BY <1>7, <2>2, <2>3, <2>5, Zenon
  <2>7. [whole EXCEPT !.wire = rest, !.under = after] = [w |-> w, wire |-> rest, under |-> after]
    <3>1. PICK e : e = [whole EXCEPT !.wire = rest]
      OBVIOUS
    <3>2. e = [w |-> w, wire |-> rest, under |-> under]
      BY <2>5, <3>1
    <3>3. [whole EXCEPT !.wire = rest, !.under = after] = [e EXCEPT !.under = after]
      BY <3>1
    <3>4. [e EXCEPT !.under = after] = [w |-> w, wire |-> rest, under |-> after]
      BY <3>2
    <3> QED BY <3>3, <3>4
  <2> HIDE DEF rst
  <2> QED BY <2>4, <2>6, <2>7, Zenon
<1>14. Complete(z) = [x EXCEPT !.ts = StampOf(x), !.completed = TRUE]
  <2> HIDE DEF x
  <2> QED BY <1>7, Zenon DEF Complete
<1> HIDE DEF bh, m, h, x, size, msg, acks, ack, rst
<1>15. /\ r' = [r EXCEPT ![d][o.cs] = Complete(z)]
       /\ link' = [link EXCEPT ![d] = l, ![Other(d)] = IF yes THEN Put(@, AckOf(number)) ELSE @]
  BY <1>7, <1>8, <1>9, <1>10, <1>13, <1>14, Zenon
<1>16. count' = [count EXCEPT ![d] = [total |-> count[d].total + len,
                                     fragment |-> IF yes THEN 0 ELSE count[d].fragment + len]]
  <2> HIDE DEF total, fragment
  <2> QED BY <1>7, <1>8, <1>9, <1>12, Zenon
<1>17. /\ inbox' = [inbox EXCEPT ![d] = [cs |-> o.cs, ts |-> o.ts, sid |-> o.sid, msg |-> o.msg]]
       /\ due' = [due EXCEPT ![d] = o] /\ UNCHANGED loop
  BY <1>6, <1>7, <1>8, Zenon
<1>18. Found(d, a, b, z, len, yes, o, c, l, number)
  <2> HIDE DEF total, fragment
  <2> QED BY <1>3, <1>5, <1>6, <1>7, <1>15, <1>16, <1>17, Zenon DEF Found
<1> QED BY <1>18

-----------------------------------------------------------------------------
(* The messages of both ends. *)

\* A command is what it is decoded as.
LEMMA CommandIs ==
  ASSUME NEW name, NEW txn, NEW body
  PROVE  LET m == [type |-> "Command", name |-> name, txn |-> txn, body |-> body]
         IN  /\ m.type = "Command" /\ m.name = name /\ m.txn = txn /\ m.body = body
             /\ Body(m) = DecodeBody(name, body) /\ CaseOf(m) = DecodeBody(name, body).body
             /\ ~IsControl(m)
             /\ IsReply(m) <=> name \in {"_result", "_error"}
             /\ Asks(m) <=> name \in {"connect", "createStream"}
             /\ Opens(m) <=> name \in {"publish", "play"}
<1>1. PICK m : m = [type |-> "Command", name |-> name, txn |-> txn, body |-> body]
  OBVIOUS
<1>2. m.type = "Command" /\ m.name = name /\ m.txn = txn /\ m.body = body
  BY <1>1
<1>3. Body(m) = DecodeBody(name, body)
  BY <1>2 DEF Body
<1>4. CaseOf(m) = DecodeBody(name, body).body
  BY <1>2, <1>3 DEF CaseOf
<1>5. ~IsControl(m)
  BY <1>2 DEF IsControl
<1>6. /\ IsReply(m) <=> name \in {"_result", "_error"}
      /\ Asks(m) <=> name \in {"connect", "createStream"}
      /\ Opens(m) <=> name \in {"publish", "play"}
  BY <1>2 DEF IsReply, Asks, Opens
<1> QED BY <1>1, <1>2, <1>3, <1>4, <1>5, <1>6

\* A message that is no command asks for nothing and opens nothing.
LEMMA NoCommand ==
  ASSUME NEW m, m.type # "Command"
  PROVE  ~IsReply(m) /\ ~Asks(m) /\ ~Opens(m)
BY DEF IsReply, Asks, Opens

\* A message that is neither command nor data has no body.
LEMMA BareIs ==
  ASSUME NEW m, m.type \notin {"Command", "Data"}
  PROVE  /\ CaseOf(m) = m.type /\ Body(m) # Unknown /\ Body(m) # Unreadable
         /\ ~IsReply(m) /\ ~Asks(m) /\ ~Opens(m)
<1>1. Body(m) = [body |-> "none"]
  BY DEF Body
<1>2. Body(m).body = "none"
  BY <1>1
<1>3. Unknown.body # "none" /\ Unreadable.body # "none"
  BY DEF Unknown, Unreadable
<1>4. CaseOf(m) = m.type
  BY DEF CaseOf
<1> QED BY <1>2, <1>3, <1>4 DEF IsReply, Asks, Opens

\* What the server's handlers have cases for.
LEMMA CasesAre ==
  /\ Cases("NotConnected") = {"connect"}
  /\ Cases("Connected") = {"createStream", "deleteStream", "releaseStream", "FCPublish", "FCUnpublish"}
  /\ Cases("Inactive") = {"publish", "play"}
  /\ Cases("Publish") = {"Audio", "Video", "@setDataFrame"}
  /\ Cases("Play") = {}
  /\ DOMAIN NameCall = {"releaseStream", "FCPublish", "FCUnpublish"}
<1>1. DOMAIN NameCall = {"releaseStream", "FCPublish", "FCUnpublish"}
  BY DEF NameCall
<1>2. Cases("Connected") = {"createStream", "deleteStream"} \cup DOMAIN NameCall
  BY DEF Cases
<1>3. Cases("NotConnected") = {"connect"} /\ Cases("Inactive") = {"publish", "play"}
  BY DEF Cases
<1>4. Cases("Publish") = {"Audio", "Video", "@setDataFrame"} /\ Cases("Play") = {}
  BY DEF Cases
<1>5. Cases("Connected") = {"createStream", "deleteStream", "releaseStream", "FCPublish", "FCUnpublish"}
  BY <1>1, <1>2
<1> QED BY <1>1, <1>3, <1>4, <1>5

\* The streams stay streams.
LEMMA AfterIs ==
  ASSUME NEW s \in [StreamIDs -> States], NEW o, o.sid \in StreamIDs
  PROVE  After(s, o) \in [StreamIDs -> States]
<1>1. PICK states : /\ states = States
                    /\ "Connected" \in states /\ "Inactive" \in states /\ "none" \in states
                    /\ "Publish" \in states /\ "Play" \in states
  BY DEF States
<1>2. ControlStream \in StreamIDs /\ DataStream \in StreamIDs
  BY DEF StreamIDs
<1>3. \A i \in StreamIDs, x \in states : [s EXCEPT ![i] = x] \in [StreamIDs -> states]
  BY <1>1
<1>4. CASE ~Served(s, o)
  BY <1>4 DEF After
<1>5. CASE Served(s, o)
  <2>1. After(s, o) \in {s, [s EXCEPT ![ControlStream] = "Connected"], [s EXCEPT ![DataStream] = "Inactive"],
                         [s EXCEPT ![DataStream] = "none"], [s EXCEPT ![o.sid] = "Publish"],
                         [s EXCEPT ![o.sid] = "Play"]}
    BY <1>5 DEF After
  <2> QED BY <1>1, <1>2, <1>3, <2>1
<1> QED BY <1>4, <1>5

\* What a message must be for the server to handle it as it wants.
Welcome(a, o) ==
  /\ Sendable(o) /\ a.s[o.sid] # "none" /\ ~IsReply(o.msg) /\ Body(o.msg) # Unreadable
  /\ Wanted(a.s, o)
  /\ CaseOf(o.msg) = "deleteStream" => a.s[DataStream] # "none" /\ Body(o.msg).id = DataStream
  /\ Asks(o.msg) => Served(a.s, o) /\ (o.msg.name = "connect" <=> a.k = 0)
                    /\ (o.msg.name = "createStream" => o.msg.txn = 2)

\* How the server stands then.
LEMMA Welcomed ==
  ASSUME NEW a \in Standings, NEW o, Welcome(a, o)
  PROVE  \E c \in Standings :
           /\ Met("up", a, o, c) /\ c.s = After(a.s, o)
           /\ c.n = a.n + (IF Opens(o.msg) THEN 1 ELSE 0)
           /\ c.k = a.k + (IF Asks(o.msg) THEN 1 ELSE 0)
<1>1. /\ a.s \in [StreamIDs -> States] /\ a.n \in Nat /\ a.k \in Nat /\ a.g \in BOOLEAN
  BY DEF Standings
<1>2. Sendable(o) /\ o.sid \in StreamIDs
  BY DEF Welcome, Sendable
<1>3. PICK s \in [StreamIDs -> States], n \in Nat, k \in Nat :
         /\ s = After(a.s, o)
         /\ n = a.n + (IF Opens(o.msg) THEN 1 ELSE 0)
         /\ k = a.k + (IF Asks(o.msg) THEN 1 ELSE 0)
  BY <1>1, <1>2, AfterIs
<1>4. PICK c : c = [s |-> s, n |-> n, k |-> k, g |-> a.g]
  OBVIOUS
<1>5. c \in Standings /\ c.s = s /\ c.n = n /\ c.k = k /\ c.g = a.g
  BY <1>1, <1>4 DEF Standings
<1>6. Below(a, c)
  BY <1>1, <1>3, <1>5 DEF Below
<1>7. MetUp(a, o, c)
  BY <1>3, <1>5, Zenon DEF MetUp, Welcome
<1>8. Met("up", a, o, c)
  BY <1>2, <1>5, <1>6, <1>7, Zenon DEF Met
<1> QED BY <1>3, <1>5, <1>8

\* What a message that is written is made of.
LEMMA WrittenIs ==
  ASSUME NEW cs, NEW ts, NEW sid, NEW msg, NEW wants
  PROVE  \E o : /\ o = Written(cs, ts, sid, msg, wants)
                /\ o.cs = cs /\ o.ts = ts /\ o.sid = sid /\ o.msg = msg /\ o.wants = wants
<1>1. PICK o : o = [cs |-> cs, ts |-> ts, sid |-> sid, msg |-> msg, wants |-> wants]
  OBVIOUS
<1>2. o.cs = cs /\ o.ts = ts /\ o.sid = sid /\ o.msg = msg /\ o.wants = wants
  BY <1>1
<1> QED BY <1>1, <1>2 DEF Written

\* Zero is a timestamp, and the library's chunk streams are those of commands and
\* control messages.
LEMMA ZeroStamp ==
  /\ 0 \in Clock /\ ControlStream \in StreamIDs /\ DataStream \in StreamIDs
  /\ CommandChunkStream \in ChunkStreams /\ ControlChunkStream \in ChunkStreams
  /\ \A sid : OnItsStream(CommandChunkStream, 0, sid) /\ OnItsStream(ControlChunkStream, 0, sid)
  /\ ControlStream # DataStream /\ ControlStream = 0 /\ DataStream = 1
<1>1. 0 \in Clock
  BY StampAssumption DEF Clock
<1> QED BY <1>1 DEF StreamIDs, ChunkStreams, OnItsStream, ControlStream, DataStream

\* Message o is the command with this name, transaction and body.
IsCommand(o, sid, name, txn, body, wants) ==
  /\ o = Written(CommandChunkStream, 0, sid,
                 [type |-> "Command", name |-> name, txn |-> txn, body |-> body], wants)
  /\ Sendable(o) /\ o.cs = CommandChunkStream /\ o.ts = 0 /\ o.sid = sid /\ o.wants = wants
  /\ o.msg.type = "Command" /\ o.msg.name = name /\ o.msg.txn = txn /\ o.msg.body = body
  /\ Body(o.msg) = DecodeBody(name, body) /\ CaseOf(o.msg) = DecodeBody(name, body).body
  /\ ~IsControl(o.msg)
  /\ IsReply(o.msg) <=> name \in {"_result", "_error"}
  /\ Asks(o.msg) <=> name \in {"connect", "createStream"}
  /\ Opens(o.msg) <=> name \in {"publish", "play"}

\* Every command can be sent.
LEMMA CommandSent ==
  ASSUME NEW sid \in StreamIDs, NEW name, NEW txn, NEW body, NEW wants, Sequence(body), Len(body) <= 3
  PROVE  \E o : IsCommand(o, sid, name, txn, body, wants)
<1>1. PICK m : m = [type |-> "Command", name |-> name, txn |-> txn, body |-> body]
  OBVIOUS
<1>2. /\ m.type = "Command" /\ m.name = name /\ m.txn = txn /\ m.body = body
      /\ Body(m) = DecodeBody(name, body) /\ CaseOf(m) = DecodeBody(name, body).body
      /\ ~IsControl(m)
      /\ IsReply(m) <=> name \in {"_result", "_error"}
      /\ Asks(m) <=> name \in {"connect", "createStream"}
      /\ Opens(m) <=> name \in {"publish", "play"}
  BY <1>1, CommandIs
<1>3. Legible(m)
  BY <1>1, LegibleCommand, Zenon
<1>4. PICK o : /\ o = Written(CommandChunkStream, 0, sid, m, wants)
               /\ o.cs = CommandChunkStream /\ o.ts = 0 /\ o.sid = sid /\ o.msg = m /\ o.wants = wants
  BY WrittenIs
<1>5. Sendable(o)
  <2>1. /\ o.cs \in ChunkStreams /\ o.sid \in StreamIDs /\ o.ts \in Clock
        /\ OnItsStream(o.cs, o.ts, o.sid)
    BY <1>4, ZeroStamp, Zenon
  <2>2. o.msg.type = "Command" /\ o.cs = CommandChunkStream /\ Legible(o.msg)
    BY <1>2, <1>3, <1>4, Zenon
  <2>3. "Command" # "SetChunkSize" /\ "Command" # "WinAckSize"
    OBVIOUS
  <2> QED BY <2>1, <2>2, <2>3, Zenon DEF Sendable
<1>6. IsCommand(o, sid, name, txn, body, wants)
  BY <1>1, <1>2, <1>4, <1>5, Zenon DEF IsCommand
<1> QED BY <1>6

\* A body is known by its name, unknown, or cannot be read.
LEMMA DecodedAs ==
  ASSUME NEW name, NEW p
  PROVE  \/ DecodeBody(name, p) = Unknown \/ DecodeBody(name, p) = Unreadable
         \/ /\ DecodeBody(name, p).body = name
            /\ name \in {"connect", "deleteStream", "publish", "play"} \cup NullCommands \cup NameCommands
<1>1. CASE name = "connect"
  BY <1>1 DEF DecodeBody, NullCommands, NameCommands
<1>2. CASE name \in NullCommands
  BY <1>2 DEF DecodeBody, NullCommands, NameCommands
<1>3. CASE name \in NameCommands
  BY <1>3 DEF DecodeBody, NullCommands, NameCommands
<1>4. CASE name = "deleteStream"
  BY <1>4 DEF DecodeBody, NullCommands, NameCommands
<1>5. CASE name = "publish"
  BY <1>5 DEF DecodeBody, DecodePublish, NullCommands, NameCommands
<1>6. CASE name = "play"
  BY <1>6 DEF DecodeBody, DecodePlay, NullCommands, NameCommands
<1>7. CASE name \notin {"connect", "deleteStream", "publish", "play"} \cup NullCommands \cup NameCommands
  BY <1>7 DEF DecodeBody, NullCommands, NameCommands
<1> QED BY <1>1, <1>2, <1>3, <1>4, <1>5, <1>6, <1>7

\* What the case of a message says of it.
LEMMA CaseSays ==
  ASSUME NEW m, m.type \in DOMAIN TypeIDs
  PROVE  LET c == CaseOf(m)
         IN  /\ c \in {"connect", "createStream", "deleteStream", "releaseStream", "FCPublish", "FCUnpublish",
                       "publish", "play"} => m.type = "Command" /\ m.name = c
             /\ c = "@setDataFrame" => m.type = "Data"
             /\ c \in {"Audio", "Video"} => m.type = c
             /\ Body(m) = Unknown => c = "unknown" /\ ~IsControl(m)
             /\ Body(m) = Unreadable => c = "unreadable" /\ ~IsControl(m)
             /\ IsControl(m) => c = m.type
<1>1. Unknown.body = "unknown" /\ Unreadable.body = "unreadable"
  BY DEF Unknown, Unreadable
<1>2. CASE m.type = "Command"
  <2>1. CaseOf(m) = Body(m).body /\ Body(m) = DecodeBody(m.name, m.body)
    BY <1>2 DEF CaseOf, Body
  <2>2. \/ CaseOf(m) = "unknown" \/ CaseOf(m) = "unreadable"
        \/ /\ CaseOf(m) = m.name
           /\ m.name \in {"connect", "deleteStream", "publish", "play"} \cup NullCommands \cup NameCommands
    BY <1>1, <2>1, DecodedAs
  <2>3. CaseOf(m) \notin {"@setDataFrame", "Audio", "Video"}
    BY <2>2 DEF NullCommands, NameCommands
  <2>4. ~IsControl(m)
    BY <1>2 DEF IsControl
  <2> QED BY <1>1, <1>2, <2>1, <2>2, <2>3, <2>4
<1>3. CASE m.type = "Data"
  <2>1. CaseOf(m) = Body(m).body /\ Body(m) = DecodeData(m.name, m.body)
    BY <1>3 DEF CaseOf, Body
  <2>2. CaseOf(m) \in {"@setDataFrame", "unknown"}
    BY <1>1, <2>1 DEF DecodeData
  <2>3. ~IsControl(m)
    BY <1>3 DEF IsControl
  <2> QED BY <1>1, <1>3, <2>1, <2>2, <2>3
<1>4. CASE m.type \notin {"Command", "Data"}
  <2>1. CaseOf(m) = m.type /\ Body(m) # Unknown /\ Body(m) # Unreadable
    BY <1>4, BareIs
  <2>2. m.type \in {"SetChunkSize", "AbortMessage", "Ack", "UserCtrl", "WinAckSize",
                    "SetPeerBandwidth", "Audio", "Video"}
    BY <1>4 DEF TypeIDs
  <2> QED BY <1>4, <2>1, <2>2
<1> QED BY <1>2, <1>3, <1>4

\* The callbacks of the commands that are served, and the streams after them.
CommandCall ==
  [connect |-> "OnConnect", createStream |-> "OnCreateStream", deleteStream |-> "OnDeleteStream",
   releaseStream |-> "OnReleaseStream", FCPublish |-> "OnFCPublish", FCUnpublish |-> "OnFCUnpublish",
   publish |-> "OnPublish", play |-> "OnPlay"]

WantsCall(name, sid, b) ==
  Call(CommandCall[name], 0, IF name \in {"publish", "play"} THEN [stream |-> sid, cmd |-> b] ELSE b)

StreamsAfter(s, sid, name) ==
  IF name = "connect" THEN [s EXCEPT ![ControlStream] = "Connected"]
  ELSE IF name = "createStream" THEN [s EXCEPT ![DataStream] = "Inactive"]
  ELSE IF name = "deleteStream" THEN [s EXCEPT ![DataStream] = "none"]
  ELSE IF name = "publish" THEN [s EXCEPT ![sid] = "Publish"]
  ELSE IF name = "play" THEN [s EXCEPT ![sid] = "Play"]
  ELSE s

\* Command name with body b can be served at a.
Servable(a, sid, name, txn, b) ==
  /\ a.s[sid] # "none" /\ name \in Cases(a.s[sid]) /\ name \in DOMAIN CommandCall
  /\ b.body = name
  /\ name = "connect" <=> name \in {"connect", "createStream"} /\ a.k = 0
  /\ name = "createStream" => txn = 2
  /\ name = "deleteStream" => a.s[DataStream] # "none" /\ b.id = DataStream

\* A command that the handler of its stream has a case for is served.
LEMMA ServedGoes ==
  ASSUME NEW a \in Standings, NEW sid \in StreamIDs, NEW name, NEW txn, NEW b, NEW body,
         Servable(a, sid, name, txn, b), Sequence(body), Len(body) <= 3, DecodeBody(name, body) = b
  PROVE  \E c \in Standings :
           /\ Met("up", a, Written(CommandChunkStream, 0, sid,
                                   [type |-> "Command", name |-> name, txn |-> txn, body |-> body],
                                   WantsCall(name, sid, b)), c)
           /\ c.s = StreamsAfter(a.s, sid, name)
           /\ c.n = a.n + (IF name \in {"publish", "play"} THEN 1 ELSE 0)
           /\ c.k = a.k + (IF name \in {"connect", "createStream"} THEN 1 ELSE 0)
<1>1. PICK wants : wants = WantsCall(name, sid, b)
  OBVIOUS
<1>2. PICK o : IsCommand(o, sid, name, txn, body, wants)
  BY CommandSent
<1>3. /\ a.s[sid] # "none" /\ name \in Cases(a.s[sid]) /\ name \in DOMAIN CommandCall /\ b.body = name
      /\ name = "connect" <=> name \in {"connect", "createStream"} /\ a.k = 0
      /\ name = "createStream" => txn = 2
      /\ name = "deleteStream" => a.s[DataStream] # "none" /\ b.id = DataStream
  BY Zenon DEF Servable
<1>4. name \in {"connect", "createStream", "deleteStream", "releaseStream", "FCPublish", "FCUnpublish",
                "publish", "play"}
  BY <1>3 DEF CommandCall
<1>5. /\ Sendable(o) /\ o.ts = 0 /\ o.sid = sid /\ o.wants = wants
      /\ o.msg.name = name /\ o.msg.txn = txn /\ Body(o.msg) = b /\ CaseOf(o.msg) = name
      /\ ~IsControl(o.msg) /\ ~IsReply(o.msg)
      /\ Asks(o.msg) <=> name \in {"connect", "createStream"}
      /\ Opens(o.msg) <=> name \in {"publish", "play"}
  <2>1. name \notin {"_result", "_error"}
    BY <1>4
  <2>2. DecodeBody(name, body) = b /\ b.body = name
    BY <1>3
  <2> QED BY <1>2, <2>1, <2>2, Zenon DEF IsCommand
<1>6. b # Unknown /\ b # Unreadable
  BY <1>3, <1>4 DEF Unknown, Unreadable
<1>7. Served(a.s, o)
  BY <1>3, <1>5, Zenon DEF Served
<1>8. HandlerCall(o)
  <2>1. /\ CommandCall["connect"] = "OnConnect" /\ CommandCall["createStream"] = "OnCreateStream"
        /\ CommandCall["deleteStream"] = "OnDeleteStream"
        /\ CommandCall["publish"] = "OnPublish" /\ CommandCall["play"] = "OnPlay"
        /\ \A x \in DOMAIN NameCall : CommandCall[x] = NameCall[x]
    BY DEF CommandCall, NameCall
  <2>2. wants = Call(CommandCall[name], 0, IF name \in {"publish", "play"} THEN [stream |-> sid, cmd |-> b] ELSE b)
    BY <1>1 DEF WantsCall
  <2>3. PICK d : d = DOMAIN NameCall
    OBVIOUS
  <2>4. d = {"releaseStream", "FCPublish", "FCUnpublish"}
    BY <2>3, CasesAre
  <2>5. \A x \in d : CommandCall[x] = NameCall[x]
    BY <2>1, <2>3
  <2>6. /\ name = "connect" => wants = Call("OnConnect", 0, b)
        /\ name = "createStream" => wants = Call("OnCreateStream", 0, b)
        /\ name = "deleteStream" => wants = Call("OnDeleteStream", 0, b)
        /\ name = "publish" => wants = Call("OnPublish", 0, [stream |-> sid, cmd |-> b])
        /\ name = "play" => wants = Call("OnPlay", 0, [stream |-> sid, cmd |-> b])
    BY <2>1, <2>2
  <2>7. name \in DOMAIN NameCall => wants = Call(NameCall[name], 0, b)
    <3>1. name \in d => name \notin {"publish", "play"}
      BY <2>4
    <3> QED BY <2>2, <2>3, <2>5, <3>1
  <2>8. name \notin {"Audio", "Video", "@setDataFrame"}
    BY <1>4
  <2>9. /\ name # "Audio" /\ name # "Video" /\ name # "@setDataFrame"
    BY <2>8
  <2> QED BY <1>5, <2>6, <2>7, <2>9, Zenon DEF HandlerCall
<1>9. Wanted(a.s, o)
  <2>1. o.msg.type # "SetChunkSize" /\ o.msg.type # "WinAckSize"
    BY <1>5 DEF IsControl
  <2> QED BY <1>5, <1>6, <1>7, <1>8, <2>1, Zenon DEF Wanted
<1>10. Welcome(a, o)
  <2>1. /\ name = "createStream" => txn = 2
        /\ Asks(o.msg) => (name = "connect" <=> a.k = 0)
    BY <1>3, <1>5
  <2> QED BY <1>3, <1>5, <1>6, <1>7, <1>9, <2>1, Zenon DEF Welcome
<1>11. After(a.s, o) = StreamsAfter(a.s, sid, name)
  BY <1>5, <1>7, Zenon DEF After, StreamsAfter
<1>12. PICK c \in Standings : /\ Met("up", a, o, c) /\ c.s = After(a.s, o)
                              /\ c.n = a.n + (IF Opens(o.msg) THEN 1 ELSE 0)
                              /\ c.k = a.k + (IF Asks(o.msg) THEN 1 ELSE 0)
  BY <1>10, Welcomed
<1>13. o = Written(CommandChunkStream, 0, sid,
                   [type |-> "Command", name |-> name, txn |-> txn, body |-> body], WantsCall(name, sid, b))
  BY <1>1, <1>2, Zenon DEF IsCommand
<1> QED BY <1>5, <1>11, <1>12, <1>13, Zenon

\* The client's connect finds a server it is not connected to.
LEMMA ConnectGoes ==
  ASSUME NEW a \in Standings, a.s[ControlStream] = "NotConnected", a.k = 0
  PROVE  LET b == [body |-> "connect", command |-> "app"]
         IN  \E c \in Standings :
               /\ Met("up", a, Written(CommandChunkStream, 0, ControlStream, Command("connect", 1, b),
                                       Call("OnConnect", 0, b)), c)
               /\ c.s = [a.s EXCEPT ![ControlStream] = "Connected"] /\ c.n = a.n /\ c.k = 1
<1>1. PICK b : b = [body |-> "connect", command |-> "app"]
  OBVIOUS
<1>2. b.body = "connect"
  BY <1>1
<1>3. PICK body : body = ToArgs(b) /\ Sequence(body) /\ Len(body) <= 3
  BY <1>2, Arguments
<1>4. DecodeBody("connect", body) = b
  BY <1>1, <1>3, PlainBodies
<1>5. Servable(a, ControlStream, "connect", 1, b)
  <2>1. "connect" \in DOMAIN CommandCall
    BY DEF CommandCall
  <2> QED BY <1>2, <2>1, CasesAre DEF Servable
<1>6. WantsCall("connect", ControlStream, b) = Call("OnConnect", 0, b)
  BY DEF WantsCall, CommandCall
<1>7. StreamsAfter(a.s, ControlStream, "connect") = [a.s EXCEPT ![ControlStream] = "Connected"]
  BY DEF StreamsAfter
<1>8. Command("connect", 1, b) = [type |-> "Command", name |-> "connect", txn |-> 1, body |-> body]
  BY <1>3 DEF Command
<1>9. PICK c \in Standings :
           /\ Met("up", a, Written(CommandChunkStream, 0, ControlStream,
                                   [type |-> "Command", name |-> "connect", txn |-> 1, body |-> body],
                                   WantsCall("connect", ControlStream, b)), c)
           /\ c.s = StreamsAfter(a.s, ControlStream, "connect")
           /\ c.n = a.n + (IF "connect" \in {"publish", "play"} THEN 1 ELSE 0)
           /\ c.k = a.k + (IF "connect" \in {"connect", "createStream"} THEN 1 ELSE 0)
  BY <1>3, <1>4, <1>5, ServedGoes, ZeroStamp
<1>10. c.n = a.n /\ c.k = 1
  BY <1>9 DEF Standings
<1> QED BY <1>1, <1>6, <1>7, <1>8, <1>9, <1>10, Zenon

\* Its createStream finds a connected server without the stream.
LEMMA CreateGoes ==
  ASSUME NEW a \in Standings, a.s[ControlStream] = "Connected", a.k # 0
  PROVE  LET b == [body |-> "createStream"]
         IN  \E c \in Standings :
               /\ Met("up", a, Written(CommandChunkStream, 0, ControlStream, Command("createStream", 2, b),
                                       Call("OnCreateStream", 0, b)), c)
               /\ c.s = [a.s EXCEPT ![DataStream] = "Inactive"] /\ c.n = a.n /\ c.k = a.k + 1
<1>1. PICK b : b = [body |-> "createStream"]
  OBVIOUS
<1>2. b.body = "createStream" /\ "createStream" \in NullCommands
  BY <1>1 DEF NullCommands
<1>3. PICK body : body = ToArgs(b) /\ Sequence(body) /\ Len(body) <= 3
  BY <1>2, Arguments
<1>4. DecodeBody("createStream", body) = b
  BY <1>1, <1>2, <1>3, PlainBodies
<1>5. Servable(a, ControlStream, "createStream", 2, b)
  <2>1. "createStream" \in DOMAIN CommandCall
    BY DEF CommandCall
  <2> QED BY <1>2, <2>1, CasesAre DEF Servable
<1>6. WantsCall("createStream", ControlStream, b) = Call("OnCreateStream", 0, b)
  BY DEF WantsCall, CommandCall
<1>7. StreamsAfter(a.s, ControlStream, "createStream") = [a.s EXCEPT ![DataStream] = "Inactive"]
  BY DEF StreamsAfter
<1>8. Command("createStream", 2, b) = [type |-> "Command", name |-> "createStream", txn |-> 2, body |-> body]
  BY <1>3 DEF Command
<1>9. PICK c \in Standings :
           /\ Met("up", a, Written(CommandChunkStream, 0, ControlStream,
                                   [type |-> "Command", name |-> "createStream", txn |-> 2, body |-> body],
                                   WantsCall("createStream", ControlStream, b)), c)
           /\ c.s = StreamsAfter(a.s, ControlStream, "createStream")
           /\ c.n = a.n + (IF "createStream" \in {"publish", "play"} THEN 1 ELSE 0)
           /\ c.k = a.k + (IF "createStream" \in {"connect", "createStream"} THEN 1 ELSE 0)
  BY <1>3, <1>4, <1>5, ServedGoes, ZeroStamp
<1>10. c.n = a.n /\ c.k = a.k + 1
  BY <1>9 DEF Standings
<1> QED BY <1>1, <1>6, <1>7, <1>8, <1>9, <1>10, Zenon

\* Its deleteStream finds the stream.
LEMMA DeleteGoes ==
  ASSUME NEW a \in Standings, a.s[ControlStream] = "Connected", a.s[DataStream] # "none"
  PROVE  LET b == [body |-> "deleteStream", id |-> DataStream]
         IN  \E c \in Standings :
               /\ Met("up", a, Written(CommandChunkStream, 0, ControlStream, Command("deleteStream", 0, b),
                                       Call("OnDeleteStream", 0, b)), c)
               /\ c.s = [a.s EXCEPT ![DataStream] = "none"] /\ c.n = a.n /\ c.k = a.k
<1>1. PICK b : b = [body |-> "deleteStream", id |-> DataStream]
  OBVIOUS
<1>2. b.body = "deleteStream" /\ b.id = DataStream
  BY <1>1
<1>3. PICK body : body = ToArgs(b) /\ Sequence(body) /\ Len(body) <= 3
  BY <1>2, Arguments
<1>4. DecodeBody("deleteStream", body) = b
  BY <1>1, <1>3, NamedBodies
<1>5. Servable(a, ControlStream, "deleteStream", 0, b)
  <2>1. "deleteStream" \in DOMAIN CommandCall
    BY DEF CommandCall
  <2> QED BY <1>2, <2>1, CasesAre DEF Servable
<1>6. WantsCall("deleteStream", ControlStream, b) = Call("OnDeleteStream", 0, b)
  BY DEF WantsCall, CommandCall
<1>7. StreamsAfter(a.s, ControlStream, "deleteStream") = [a.s EXCEPT ![DataStream] = "none"]
  BY DEF StreamsAfter
<1>8. Command("deleteStream", 0, b) = [type |-> "Command", name |-> "deleteStream", txn |-> 0, body |-> body]
  BY <1>3 DEF Command
<1>9. PICK c \in Standings :
           /\ Met("up", a, Written(CommandChunkStream, 0, ControlStream,
                                   [type |-> "Command", name |-> "deleteStream", txn |-> 0, body |-> body],
                                   WantsCall("deleteStream", ControlStream, b)), c)
           /\ c.s = StreamsAfter(a.s, ControlStream, "deleteStream")
           /\ c.n = a.n + (IF "deleteStream" \in {"publish", "play"} THEN 1 ELSE 0)
           /\ c.k = a.k + (IF "deleteStream" \in {"connect", "createStream"} THEN 1 ELSE 0)
  BY <1>3, <1>4, <1>5, ServedGoes, ZeroStamp
<1>10. c.n = a.n /\ c.k = a.k
  BY <1>9 DEF Standings
<1> QED BY <1>1, <1>6, <1>7, <1>8, <1>9, <1>10, Zenon

\* publish and play find a stream that nobody has published or plays, with all
\* their arguments or without the last.
LEMMA OpeningGoes ==
  ASSUME NEW a \in Standings, a.s[DataStream] = "Inactive", NEW b \in Openings, NEW full \in BOOLEAN
  PROVE  LET whole == Command(b.body, 0, b)
             msg   == IF full THEN whole ELSE [whole EXCEPT !.body = SubSeq(@, 1, 2)]
             meant == IF full THEN b
                      ELSE IF b.body = "publish" THEN [b EXCEPT !.kind = "live"]
                      ELSE [b EXCEPT !.start = 0]
         IN  \E c \in Standings :
               /\ Met("up", a, Written(CommandChunkStream, 0, DataStream, msg,
                                       Call(IF b.body = "publish" THEN "OnPublish" ELSE "OnPlay", 0,
                                            [stream |-> DataStream, cmd |-> meant])), c)
               /\ c.s = [a.s EXCEPT ![DataStream] = IF b.body = "publish" THEN "Publish" ELSE "Play"]
               /\ c.n = a.n + 1 /\ c.k = a.k
<1> DEFINE Whole == Command(b.body, 0, b)
           Msg   == IF full THEN Whole ELSE [Whole EXCEPT !.body = SubSeq(@, 1, 2)]
           Meant == IF full THEN b
                    ELSE IF b.body = "publish" THEN [b EXCEPT !.kind = "live"]
                    ELSE [b EXCEPT !.start = 0]
<1>1. PICK publish, play : /\ publish = [body |-> "publish", name |-> b.name, kind |-> b.kind]
                           /\ play = [body |-> "play", name |-> b.name, start |-> b.start]
  OBVIOUS
<1>2. \/ b.body = "publish" /\ b = publish
      \/ b.body = "play" /\ b = play
  <2>1. \/ b.body = "publish" /\ b = [body |-> b.body, name |-> b.name, kind |-> b.kind]
        \/ b.body = "play" /\ b = [body |-> b.body, name |-> b.name, start |-> b.start]
    BY InputAssumption, Zenon
  <2>2. CASE b.body = "publish"
    <3>1. b.body # "play"
      BY <2>2
    <3> QED BY <1>1, <2>1, <2>2, <3>1, Zenon
  <2>3. CASE b.body = "play"
    <3>1. b.body # "publish"
      BY <2>3
    <3> QED BY <1>1, <2>1, <2>3, <3>1, Zenon
  <2> QED BY <2>1, <2>2, <2>3
<1>3. PICK args : args = ToArgs(b) /\ Sequence(args) /\ Len(args) <= 3
  <2>1. b.body \in {"publish", "play"}
    BY <1>2
  <2> QED BY <2>1, Arguments
<1>4. PICK meant, body : meant = Meant /\ body = IF full THEN args ELSE SubSeq(args, 1, 2)
  OBVIOUS
<1>5. /\ DecodeBody(b.body, body) = meant /\ Sequence(body) /\ Len(body) <= 3
      /\ meant.body = b.body
  <2>1. CASE b.body = "publish"
    <3>1. b = publish /\ args = ToArgs(publish)
      BY <1>2, <1>3, <2>1
    <3>2. [b EXCEPT !.kind = "live"] = [body |-> "publish", name |-> b.name, kind |-> "live"]
      BY <1>1, <3>1
    <3>3. meant = IF full THEN [body |-> "publish", name |-> b.name, kind |-> b.kind]
                  ELSE [body |-> "publish", name |-> b.name, kind |-> "live"]
      BY <1>1, <1>4, <2>1, <3>1, <3>2
    <3>4. /\ DecodeBody("publish", args) = [body |-> "publish", name |-> b.name, kind |-> b.kind]
          /\ DecodeBody("publish", SubSeq(args, 1, 2)) = [body |-> "publish", name |-> b.name, kind |-> "live"]
          /\ Sequence(SubSeq(args, 1, 2)) /\ Len(SubSeq(args, 1, 2)) = 2
      BY <1>1, <3>1, OpeningBodies
    <3> HIDE DEF Whole, Msg, Meant
    <3>5. DecodeBody("publish", body) = meant /\ Sequence(body)
      BY <1>3, <1>4, <3>3, <3>4, Zenon
    <3>6. Len(body) <= 3
      BY <1>3, <1>4, <3>4
    <3>7. meant.body = "publish"
      BY <3>3
    <3> QED BY <2>1, <3>5, <3>6, <3>7
  <2>2. CASE b.body = "play"
    <3>1. b = play /\ args = ToArgs(play)
      BY <1>2, <1>3, <2>2
    <3>2. [b EXCEPT !.start = 0] = [body |-> "play", name |-> b.name, start |-> 0]
      BY <1>1, <3>1
    <3>3. meant = IF full THEN [body |-> "play", name |-> b.name, start |-> b.start]
                  ELSE [body |-> "play", name |-> b.name, start |-> 0]
      BY <1>1, <1>4, <2>2, <3>1, <3>2
    <3>4. /\ DecodeBody("play", args) = [body |-> "play", name |-> b.name, start |-> b.start]
          /\ DecodeBody("play", SubSeq(args, 1, 2)) = [body |-> "play", name |-> b.name, start |-> 0]
          /\ Sequence(SubSeq(args, 1, 2)) /\ Len(SubSeq(args, 1, 2)) = 2
      BY <1>1, <3>1, OpeningBodies
    <3> HIDE DEF Whole, Msg, Meant
    <3>5. DecodeBody("play", body) = meant /\ Sequence(body)
      BY <1>3, <1>4, <3>3, <3>4, Zenon
    <3>6. Len(body) <= 3
      BY <1>3, <1>4, <3>4
    <3>7. meant.body = "play"
      BY <3>3
    <3> QED BY <2>2, <3>5, <3>6, <3>7
  <2> QED BY <1>2, <2>1, <2>2
<1>6. Servable(a, DataStream, b.body, 0, meant)
  <2>1. b.body \in {"publish", "play"}
    BY <1>2
  <2>2. b.body \in DOMAIN CommandCall
    BY <2>1 DEF CommandCall
  <2> HIDE DEF Meant
  <2> QED BY <1>5, <2>1, <2>2, CasesAre DEF Servable
<1>7. Msg = [type |-> "Command", name |-> b.body, txn |-> 0, body |-> body]
  <2>1. Whole = [type |-> "Command", name |-> b.body, txn |-> 0, body |-> args]
    BY <1>3 DEF Command
  <2>2. [Whole EXCEPT !.body = SubSeq(@, 1, 2)] = [type |-> "Command", name |-> b.body, txn |-> 0,
                                                   body |-> SubSeq(args, 1, 2)]
    <3>1. PICK cut : cut = SubSeq(args, 1, 2)
      OBVIOUS
    <3>2. PICK w : w = Whole
      OBVIOUS
    <3>3. w.body = args
      BY <2>1, <3>2
    <3>4. [Whole EXCEPT !.body = SubSeq(@, 1, 2)] = [w EXCEPT !.body = cut]
      BY <3>1, <3>2, <3>3
    <3>5. [w EXCEPT !.body = cut] = [type |-> "Command", name |-> b.body, txn |-> 0, body |-> cut]
      BY <2>1, <3>2
    <3> QED BY <3>1, <3>4, <3>5
  <2> HIDE DEF Whole
  <2> QED BY <1>4, <2>1, <2>2
<1> HIDE DEF Whole, Msg, Meant
<1>8. WantsCall(b.body, DataStream, meant)
        = Call(IF b.body = "publish" THEN "OnPublish" ELSE "OnPlay", 0, [stream |-> DataStream, cmd |-> meant])
  BY <1>2 DEF WantsCall, CommandCall
<1>9. StreamsAfter(a.s, DataStream, b.body)
        = [a.s EXCEPT ![DataStream] = IF b.body = "publish" THEN "Publish" ELSE "Play"]
  BY <1>2 DEF StreamsAfter
<1>10. PICK c \in Standings :
           /\ Met("up", a, Written(CommandChunkStream, 0, DataStream,
                                   [type |-> "Command", name |-> b.body, txn |-> 0, body |-> body],
                                   WantsCall(b.body, DataStream, meant)), c)
           /\ c.s = StreamsAfter(a.s, DataStream, b.body)
           /\ c.n = a.n + (IF b.body \in {"publish", "play"} THEN 1 ELSE 0)
           /\ c.k = a.k + (IF b.body \in {"connect", "createStream"} THEN 1 ELSE 0)
  BY <1>5, <1>6, ServedGoes, ZeroStamp
<1>11. c.n = a.n + 1 /\ c.k = a.k
  BY <1>2, <1>10 DEF Standings
<1> QED BY <1>4, <1>7, <1>8, <1>9, <1>10, <1>11, Zenon DEF Whole, Msg, Meant

\* A message that changes nothing.
LEMMA Unmoved ==
  ASSUME NEW a \in Standings, NEW o, Welcome(a, o), After(a.s, o) = a.s, ~Asks(o.msg), ~Opens(o.msg)
  PROVE  Met("up", a, o, a)
<1>1. a.n + 0 = a.n /\ a.k + 0 = a.k
  BY DEF Standings
<1>2. MetUp(a, o, a)
  <2>1. a.n = a.n + (IF Opens(o.msg) THEN 1 ELSE 0) /\ a.k = a.k + (IF Asks(o.msg) THEN 1 ELSE 0)
    BY <1>1, Zenon
  <2> QED BY <2>1, Zenon DEF MetUp, Welcome
<1> QED BY <1>2, BelowIs, Zenon DEF Met, Welcome

\* What no handler has a case for, but some call is for.
LEMMA PassedGoes ==
  ASSUME NEW a \in Standings, NEW o, Sendable(o), a.s[o.sid] # "none", ~Served(a.s, o),
         ~IsReply(o.msg), ~Asks(o.msg), ~Opens(o.msg), Body(o.msg) # Unreadable,
         CaseOf(o.msg) # "deleteStream", Wanted(a.s, o)
  PROVE  Met("up", a, o, a)
<1>1. After(a.s, o) = a.s
  BY Zenon DEF After
<1>2. Welcome(a, o)
  BY Zenon DEF Welcome
<1> QED BY <1>1, <1>2, Unmoved

\* A message that is neither command nor data and has no case in any handler is
\* for OnUnknownMessage.
LEMMA BareGoes ==
  ASSUME NEW a \in Standings, NEW o, Sendable(o), a.s[o.sid] # "none",
         o.msg.type \in {"Ack", "UserCtrl", "SetPeerBandwidth"},
         o.wants = Call("OnUnknownMessage", o.ts, o.msg)
  PROVE  Met("up", a, o, a)
<1>1. /\ CaseOf(o.msg) = o.msg.type /\ Body(o.msg) # Unknown /\ Body(o.msg) # Unreadable
      /\ ~IsReply(o.msg) /\ ~Asks(o.msg) /\ ~Opens(o.msg)
  BY BareIs
<1>2. a.s[o.sid] \in States
  BY DEF Sendable, Standings
<1>3. ~Served(a.s, o)
  <2>1. a.s[o.sid] \in {"NotConnected", "Connected", "Inactive", "Publish", "Play"}
    BY <1>2 DEF States
  <2>2. CaseOf(o.msg) \notin Cases(a.s[o.sid])
    BY <1>1, <2>1, CasesAre
  <2> QED BY <2>2 DEF Served
<1>4. ~IsControl(o.msg) /\ o.msg.type # "SetChunkSize" /\ o.msg.type # "WinAckSize"
  BY DEF IsControl
<1>5. PassCall(o)
  BY DEF PassCall
<1>6. Wanted(a.s, o)
  BY <1>1, <1>3, <1>4, <1>5, Zenon DEF Wanted
<1>7. CaseOf(o.msg) # "deleteStream"
  BY <1>1
<1> QED BY <1>1, <1>3, <1>6, <1>7, PassedGoes

\* A chunk size or a window is for the server's peerState.
LEMMA SizeGoes ==
  ASSUME NEW a \in Standings, NEW o, Sendable(o), a.s[o.sid] # "none", IsControl(o.msg),
         o.wants = Call(IF o.msg.type = "SetChunkSize" THEN "SetChunkSize" ELSE "SetAckWindowSize",
                        o.ts, o.msg.size)
  PROVE  Met("up", a, o, a)
<1>1. /\ CaseOf(o.msg) = o.msg.type /\ Body(o.msg) # Unknown /\ Body(o.msg) # Unreadable
      /\ ~IsReply(o.msg) /\ ~Asks(o.msg) /\ ~Opens(o.msg)
  <2>1. o.msg.type \notin {"Command", "Data"}
    BY DEF IsControl
  <2> QED BY <2>1, BareIs
<1>2. ~Served(a.s, o)
  BY DEF Served
<1>3. Wanted(a.s, o)
  <2>1. o.msg.type = "SetChunkSize" => o.msg.type # "WinAckSize"
    OBVIOUS
  <2> QED BY <2>1, Zenon DEF Wanted
<1>4. CaseOf(o.msg) # "deleteStream"
  BY <1>1 DEF IsControl
<1> QED BY <1>1, <1>2, <1>3, <1>4, PassedGoes

\* The client announces a chunk size.
LEMMA ChunkSizeGoes ==
  ASSUME NEW a \in Standings, a.s[ControlStream] # "none", NEW size \in Sizes
  PROVE  Met("up", a, Written(ControlChunkStream, 0, ControlStream, [type |-> "SetChunkSize", size |-> size],
                              Call("SetChunkSize", 0, size)), a)
<1>1. PICK m : m = [type |-> "SetChunkSize", size |-> size]
  OBVIOUS
<1>2. m.type = "SetChunkSize" /\ m.size = size
  BY <1>1
<1>3. size \in 1 .. (Word \div 2 - 1)
  BY WireAssumption
<1>4. PICK o : /\ o = Written(ControlChunkStream, 0, ControlStream, m, Call("SetChunkSize", 0, size))
               /\ o.cs = ControlChunkStream /\ o.ts = 0 /\ o.sid = ControlStream /\ o.msg = m
               /\ o.wants = Call("SetChunkSize", 0, size)
  BY WrittenIs
<1>5. Legible(m)
  BY <1>1, <1>3, LegibleChunkSize
<1>6. size \in Nat \ {0}
  <2>1. PICK w : w = Word \div 2 - 1
    OBVIOUS
  <2>2. size \in 1 .. w
    BY <1>3, <2>1
  <2> QED BY <2>2
<1>7. Sendable(o)
  <2>1. m.type # "Command" /\ m.type # "WinAckSize"
    BY <1>2
  <2> QED BY <1>2, <1>4, <1>5, <1>6, <2>1, ZeroStamp, Zenon DEF Sendable
<1>8. Met("up", a, o, a)
  <2>1. IsControl(m)
    BY <1>2 DEF IsControl
  <2> QED BY <1>2, <1>4, <1>7, <2>1, SizeGoes
<1> QED BY <1>1, <1>4, <1>8

\* What a client may send on its stream besides.
LEMMA ControlGoes ==
  ASSUME NEW a \in Standings, a.s[DataStream] # "none", NEW m \in Controls
  PROVE  Met("up", a, Written(ControlChunkStream, 0, DataStream, m,
                              IF m.type = "WinAckSize" THEN Call("SetAckWindowSize", 0, m.size)
                                                       ELSE Call("OnUnknownMessage", 0, m)), a)
<1>1. PICK wants : wants = IF m.type = "WinAckSize" THEN Call("SetAckWindowSize", 0, m.size)
                                                    ELSE Call("OnUnknownMessage", 0, m)
  OBVIOUS
<1>2. PICK o : /\ o = Written(ControlChunkStream, 0, DataStream, m, wants)
               /\ o.cs = ControlChunkStream /\ o.ts = 0 /\ o.sid = DataStream /\ o.msg = m /\ o.wants = wants
  BY WrittenIs
<1>3. ASSUME Legible(m), m.type \in {"WinAckSize", "SetPeerBandwidth", "UserCtrl"},
             m.type = "WinAckSize" => m.size \in Nat
      PROVE  Met("up", a, o, a)
  <2>1. m.type # "Command" /\ m.type # "SetChunkSize"
    BY <1>3
  <2>2. Sendable(o)
    BY <1>2, <1>3, <2>1, ZeroStamp, Zenon DEF Sendable
  <2>3. CASE m.type = "WinAckSize"
    <3>1. IsControl(m) /\ wants = Call("SetAckWindowSize", 0, m.size)
      BY <1>1, <2>3 DEF IsControl
    <3>2. IsControl(o.msg) /\ a.s[o.sid] # "none"
          /\ o.wants = Call(IF o.msg.type = "SetChunkSize" THEN "SetChunkSize" ELSE "SetAckWindowSize",
                            o.ts, o.msg.size)
      BY <1>2, <2>1, <3>1
    <3> QED BY <2>2, <3>2, SizeGoes
  <2>4. CASE m.type # "WinAckSize"
    <3>1. o.msg.type \in {"Ack", "UserCtrl", "SetPeerBandwidth"} /\ a.s[o.sid] # "none"
      BY <1>2, <1>3, <2>4
    <3>2. o.wants = Call("OnUnknownMessage", o.ts, o.msg)
      BY <1>1, <1>2, <2>4
    <3> QED BY <2>2, <3>1, <3>2, BareGoes
  <2> QED BY <2>3, <2>4
<1>4. \/ m.type = "WinAckSize" /\ m = [type |-> m.type, size |-> m.size]
         /\ m.size \in 0..(Word \div 2 - 1)
      \/ m.type = "SetPeerBandwidth" /\ m = [type |-> m.type, size |-> m.size, limit |-> m.limit]
         /\ m.size \in 0..(Word \div 2 - 1)
      \/ m.type = "UserCtrl" /\ m = [type |-> m.type, event |-> m.event]
         /\ m.event.event \in DOMAIN EventID
         /\ m.event = IF m.event.event = "SetBufferLength"
                      THEN [event |-> m.event.event, value |-> m.event.value, length |-> m.event.length]
                      ELSE [event |-> m.event.event, value |-> m.event.value]
  BY InputAssumption, Zenon
<1>5. CASE m.type = "WinAckSize" /\ m = [type |-> m.type, size |-> m.size]
         /\ m.size \in 0..(Word \div 2 - 1)
  <2>1. Legible([type |-> "WinAckSize", size |-> m.size])
    BY <1>5, LegibleWindow
  <2>2. Legible(m)
    BY <1>5, <2>1
  <2>3. m.size \in Nat
    <3>1. PICK w : w = Word \div 2 - 1
      OBVIOUS
    <3>2. m.size \in 0 .. w
      BY <1>5, <3>1
    <3> QED BY <3>2
  <2> QED BY <1>2, <1>1, <1>3, <1>5, <2>2, <2>3
<1>6. CASE m.type = "SetPeerBandwidth" /\ m = [type |-> m.type, size |-> m.size, limit |-> m.limit]
         /\ m.size \in 0..(Word \div 2 - 1)
  <2>1. Legible([type |-> "SetPeerBandwidth", size |-> m.size, limit |-> m.limit])
    BY <1>6, LegibleBandwidth
  <2>2. Legible(m)
    BY <1>6, <2>1
  <2> QED BY <1>2, <1>1, <1>3, <1>6, <2>2
<1>7. CASE m.type = "UserCtrl" /\ m = [type |-> m.type, event |-> m.event]
         /\ m.event.event \in DOMAIN EventID
         /\ m.event = IF m.event.event = "SetBufferLength"
                      THEN [event |-> m.event.event, value |-> m.event.value, length |-> m.event.length]
                      ELSE [event |-> m.event.event, value |-> m.event.value]
  <2>1. PICK e : e = m.event
    OBVIOUS
  <2>2. /\ e.event \in DOMAIN EventID
        /\ e = IF e.event = "SetBufferLength"
               THEN [event |-> e.event, value |-> e.value, length |-> e.length]
               ELSE [event |-> e.event, value |-> e.value]
    BY <1>7, <2>1, Zenon
  <2>3. Legible([type |-> "UserCtrl", event |-> e])
    BY <2>2, LegibleEvent, Zenon
  <2>4. Legible(m)
    BY <1>7, <2>1, <2>3, Zenon
  <2> QED BY <1>2, <1>1, <1>3, <1>7, <2>4
<1> QED BY <1>1, <1>2, <1>4, <1>5, <1>6, <1>7

\* What media is.
LEMMA FrameIs ==
  ASSUME NEW kind \in {"Audio", "Video", "@setDataFrame", "onCuePoint"}, NEW n
  PROVE  LET m == Frame(kind, n)
         IN  /\ Legible(m)
             /\ kind \in {"Audio", "Video"} => m.type = kind /\ CaseOf(m) = kind /\ m.payload = n
             /\ kind \notin {"Audio", "Video"} => m.type = "Data" /\ m.name = kind
             /\ kind = "onCuePoint" => Body(m) = Unknown /\ CaseOf(m) = "unknown"
             /\ kind = "@setDataFrame" => Body(m) # Unknown /\ Body(m).payload = m.body /\ CaseOf(m) = kind
             /\ kind # "onCuePoint" => Body(m) # Unknown
             /\ Body(m) # Unreadable /\ ~IsReply(m) /\ ~Asks(m) /\ ~Opens(m) /\ ~IsControl(m)
             /\ m.type # "Command"
<1>1. CASE kind \in {"Audio", "Video"}
  <2>1. PICK m : m = [type |-> kind, payload |-> n]
    OBVIOUS
  <2>2. Frame(kind, n) = m
    BY <1>1, <2>1 DEF Frame
  <2>3. m.type = kind /\ m.payload = n
    BY <2>1
  <2>4. Legible(m)
    BY <1>1, <2>1, LegibleMedia
  <2>5. /\ CaseOf(m) = m.type /\ Body(m) # Unknown /\ Body(m) # Unreadable
        /\ ~IsReply(m) /\ ~Asks(m) /\ ~Opens(m)
    <3>1. m.type \notin {"Command", "Data"}
      BY <1>1, <2>3
    <3> QED BY <3>1, BareIs
  <2>6. ~IsControl(m) /\ m.type # "Command"
    BY <1>1, <2>3 DEF IsControl
  <2>7. kind # "onCuePoint" /\ kind # "@setDataFrame"
    BY <1>1
  <2> QED BY <1>1, <2>2, <2>3, <2>4, <2>5, <2>6, <2>7, Zenon
<1>2. CASE kind \in {"@setDataFrame", "onCuePoint"}
  <2>1. PICK b : b = [body |-> "@setDataFrame", data |-> n]
    OBVIOUS
  <2>2. b.body = "@setDataFrame"
    BY <2>1
  <2>3. PICK body : body = ToArgs(b) /\ Sequence(body) /\ Len(body) <= 3
    BY <2>2, Arguments
  <2>4. PICK m : m = [type |-> "Data", name |-> kind, body |-> body]
    OBVIOUS
  <2>5. Frame(kind, n) = m
    <3>1. kind \notin {"Audio", "Video"}
      BY <1>2
    <3>2. Frame(kind, n) = [type |-> "Data", name |-> kind, body |-> ToArgs(b)]
      BY <2>1, <3>1 DEF Frame
    <3> QED BY <2>3, <2>4, <3>2, Zenon
  <2>6. m.type = "Data" /\ m.name = kind /\ m.body = body
    BY <2>4
  <2>7. Legible(m)
    BY <2>3, <2>4, LegibleData
  <2>8. Body(m) = DecodeData(kind, body) /\ CaseOf(m) = DecodeData(kind, body).body
    BY <2>6 DEF Body, CaseOf
  <2>9. ~IsReply(m) /\ ~Asks(m) /\ ~Opens(m) /\ m.type # "Command"
    BY <2>6, NoCommand
  <2>10. ~IsControl(m)
    BY <2>6 DEF IsControl
  <2>11. CASE kind = "onCuePoint"
    <3>1. DecodeData(kind, body) = Unknown /\ Unknown # Unreadable /\ Unknown.body = "unknown"
      BY <2>11 DEF DecodeData, Unknown, Unreadable
    <3>2. kind # "@setDataFrame" /\ kind \notin {"Audio", "Video"}
      BY <2>11
    <3> QED BY <2>5, <2>6, <2>7, <2>8, <2>9, <2>10, <2>11, <3>1, <3>2, Zenon
  <2>12. CASE kind = "@setDataFrame"
    <3>1. DecodeData(kind, body) = [body |-> kind, payload |-> body]
      BY <2>12 DEF DecodeData
    <3>2. PICK d : d = [body |-> kind, payload |-> body]
      OBVIOUS
    <3>3. d.body = kind /\ d.payload = body
      BY <3>2
    <3>4. d # Unknown /\ d # Unreadable
      BY <2>12, <3>3 DEF Unknown, Unreadable
    <3>5. kind # "onCuePoint" /\ kind \notin {"Audio", "Video"}
      BY <2>12
    <3> QED BY <2>5, <2>6, <2>7, <2>8, <2>9, <2>10, <2>12, <3>1, <3>2, <3>3, <3>4, <3>5, Zenon
  <2> QED BY <1>2, <2>11, <2>12
<1> QED BY <1>1, <1>2

\* Media finds the stream published, or is for the calls of unknown messages.
LEMMA MediaGoes ==
  ASSUME NEW a \in Standings, NEW f \in Media, NEW n, NEW published \in BOOLEAN,
         a.s[DataStream] \in {"Inactive", "Publish", "Play"}, published <=> a.s[DataStream] = "Publish"
  PROVE  LET m == Frame(f.kind, n)
             wants == IF f.kind = "onCuePoint" THEN Call("Ignored", f.ts, m)
                      ELSE IF published
                      THEN IF f.kind \in {"Audio", "Video"} THEN Call(MediaCall[f.kind], f.ts, m.payload)
                           ELSE Call("OnSetDataFrame", f.ts, m.body)
                      ELSE IF m.type = "Data" THEN Call("OnUnknownDataMessage", f.ts, f.kind)
                      ELSE Call("OnUnknownMessage", f.ts, m)
         IN  Met("up", a, Written(f.cs, f.ts, DataStream, m, wants), a)
<1>1. f.kind \in {"Audio", "Video", "@setDataFrame", "onCuePoint"} /\ f.ts \in Clock
      /\ f.cs \in ChunkStreams /\ f.cs \notin {ControlChunkStream, CommandChunkStream}
  <2>1. f.cs \in 4..LastChunkStream /\ f.ts \in 0..(StampModulus - 1)
        /\ f.kind \in {"Audio", "Video", "@setDataFrame", "onCuePoint"}
    BY WireAssumption
  <2>2. f.cs \in ChunkStreams
    BY DEF ChunkStreams
  <2>3. f.cs \notin {2, 3}
    <3>1. PICK last : last = LastChunkStream
      OBVIOUS
    <3>2. f.cs \in 4 .. last
      BY <2>1, <3>1
    <3> QED BY <3>2
  <2> QED BY <2>1, <2>2, <2>3 DEF Clock, ControlChunkStream, CommandChunkStream
<1>2. PICK kind : kind = f.kind
  OBVIOUS
<1>3. kind \in {"Audio", "Video", "@setDataFrame", "onCuePoint"}
  BY <1>1, <1>2
<1>4. PICK m : m = Frame(kind, n)
  OBVIOUS
<1>5. /\ Legible(m)
      /\ kind \in {"Audio", "Video"} => m.type = kind /\ CaseOf(m) = kind /\ m.payload = n
      /\ kind \notin {"Audio", "Video"} => m.type = "Data" /\ m.name = kind
      /\ kind = "onCuePoint" => Body(m) = Unknown /\ CaseOf(m) = "unknown"
      /\ kind = "@setDataFrame" => Body(m) # Unknown /\ Body(m).payload = m.body /\ CaseOf(m) = kind
      /\ kind # "onCuePoint" => Body(m) # Unknown
      /\ Body(m) # Unreadable /\ ~IsReply(m) /\ ~Asks(m) /\ ~Opens(m) /\ ~IsControl(m)
      /\ m.type # "Command"
  BY <1>3, <1>4, FrameIs
<1>6. PICK wants : wants = IF kind = "onCuePoint" THEN Call("Ignored", f.ts, m)
                           ELSE IF published
                           THEN IF kind \in {"Audio", "Video"} THEN Call(MediaCall[kind], f.ts, m.payload)
                                ELSE Call("OnSetDataFrame", f.ts, m.body)
                           ELSE IF m.type = "Data" THEN Call("OnUnknownDataMessage", f.ts, kind)
                           ELSE Call("OnUnknownMessage", f.ts, m)
  OBVIOUS
<1>7. PICK o : /\ o = Written(f.cs, f.ts, DataStream, m, wants)
               /\ o.cs = f.cs /\ o.ts = f.ts /\ o.sid = DataStream /\ o.msg = m /\ o.wants = wants
  BY WrittenIs
<1>8. Sendable(o)
  <2>1. m.type # "SetChunkSize" /\ m.type # "WinAckSize"
    BY <1>5 DEF IsControl
  <2>2. OnItsStream(f.cs, f.ts, DataStream)
    BY <1>1 DEF OnItsStream
  <2> QED BY <1>1, <1>5, <1>7, <2>1, <2>2, ZeroStamp, Zenon DEF Sendable
<1>9. Served(a.s, o) <=> published /\ kind # "onCuePoint"
  <2>1. o.sid = DataStream /\ o.msg = m /\ ~IsControl(m)
    BY <1>5, <1>7, Zenon
  <2>2. CaseOf(m) = IF kind = "onCuePoint" THEN "unknown" ELSE kind
    BY <1>3, <1>5
  <2>3. CaseOf(m) \in Cases(a.s[DataStream]) <=> published /\ kind # "onCuePoint"
    BY <1>3, <2>2, CasesAre
  <2> QED BY <2>1, <2>3, Zenon DEF Served
<1>10. published /\ kind # "onCuePoint" => HandlerCall(o)
  <2> SUFFICES ASSUME published, kind # "onCuePoint" PROVE HandlerCall(o)
    OBVIOUS
  <2>1. CaseOf(o.msg) = kind
    BY <1>3, <1>5, <1>7
  <2>2. kind \notin {"connect", "createStream", "deleteStream", "publish", "play", "releaseStream",
                     "FCPublish", "FCUnpublish"}
    BY <1>3
  <2>3. kind \notin DOMAIN NameCall
    BY <2>2, CasesAre
  <2>4. MediaCall["Audio"] = "OnAudio" /\ MediaCall["Video"] = "OnVideo"
    BY DEF MediaCall
  <2>5. /\ kind = "Audio" => o.wants = Call("OnAudio", o.ts, o.msg.payload)
        /\ kind = "Video" => o.wants = Call("OnVideo", o.ts, o.msg.payload)
    BY <1>6, <1>7, <2>4
  <2>6. kind = "@setDataFrame" => o.wants = Call("OnSetDataFrame", o.ts, Body(o.msg).payload)
    BY <1>5, <1>6, <1>7
  <2>7. /\ kind # "connect" /\ kind # "createStream" /\ kind # "deleteStream" /\ kind # "publish"
        /\ kind # "play"
    BY <2>2
  <2> QED BY <2>1, <2>3, <2>5, <2>6, <2>7, Zenon DEF HandlerCall
<1>11. ~published /\ kind # "onCuePoint" => PassCall(o)
  <2> SUFFICES ASSUME ~published, kind # "onCuePoint" PROVE PassCall(o)
    OBVIOUS
  <2>1. m.type = "Data" => kind \notin {"Audio", "Video"}
    BY <1>5
  <2>2. m.type = "Data" => wants = Call("OnUnknownDataMessage", o.ts, m.name)
    BY <1>5, <1>6, <1>7, <2>1
  <2>3. m.type # "Data" => wants = Call("OnUnknownMessage", o.ts, m)
    BY <1>6, <1>7
  <2> QED BY <1>5, <1>7, <2>2, <2>3 DEF PassCall
<1>12. kind = "onCuePoint" => wants = Call("Ignored", o.ts, o.msg)
  BY <1>6, <1>7
<1>13. Wanted(a.s, o)
  <2>1. m.type # "SetChunkSize" /\ m.type # "WinAckSize"
    BY <1>5 DEF IsControl
  <2> QED BY <1>5, <1>7, <1>9, <1>10, <1>11, <1>12, <2>1, Zenon DEF Wanted
<1>14. CaseOf(m) \in {"Audio", "Video", "@setDataFrame", "unknown"}
  BY <1>3, <1>5
<1>15. CaseOf(m) \notin {"connect", "createStream", "deleteStream", "publish", "play"}
  BY <1>14
<1>16. After(a.s, o) = a.s
  BY <1>7, <1>15 DEF After
<1>17. Welcome(a, o)
  <2>1. a.s[o.sid] # "none" /\ CaseOf(o.msg) # "deleteStream"
    BY <1>7, <1>15
  <2> QED BY <1>5, <1>7, <1>8, <1>13, <2>1, Zenon DEF Welcome
<1>18. Met("up", a, o, a)
  BY <1>5, <1>7, <1>16, <1>17, Unmoved
<1> QED BY <1>2, <1>4, <1>6, <1>7, <1>18, Zenon

\* Other clients' commands on the control stream find a connected server.
LEMMA NamedGoes ==
  ASSUME NEW a \in Standings, a.s[ControlStream] = "Connected", NEW b \in Commands
  PROVE  \E c \in Standings :
           /\ Met("up", a, Written(CommandChunkStream, 0, ControlStream, Command(b.body, 0, b),
                                   IF b.body \in DOMAIN NameCall
                                   THEN Call(NameCall[b.body], 0, b)
                                   ELSE Call("OnUnknownCommandMessage", 0, b.body)), c)
           /\ c.s = a.s /\ c.n = a.n /\ c.k = a.k
<1>1. PICK name : name = b.body
  OBVIOUS
<1>2. name \in NameCommands \/ name \in {"ping", "closeStream"}
  BY <1>1, InputAssumption
<1>3. PICK body : body = ToArgs(b) /\ Sequence(body) /\ Len(body) <= 3
  <2>1. name \in {"releaseStream", "FCPublish", "FCUnpublish", "getStreamLength", "ping", "closeStream"}
    BY <1>2 DEF NameCommands
  <2> QED BY <1>1, <2>1, Arguments
<1>4. DecodeBody(name, body) = b
  <2>1. CASE name \in NameCommands /\ b = [body |-> name, name |-> b.name]
    BY <1>3, <2>1, NamedBodies
  <2>2. CASE name \in {"ping", "closeStream"} /\ b = [body |-> name]
    <3>1. name \in NullCommands
      BY <2>2 DEF NullCommands
    <3> QED BY <1>3, <2>2, <3>1, PlainBodies
  <2> QED BY <1>1, <2>1, <2>2, InputAssumption
<1>5. Command(name, 0, b) = [type |-> "Command", name |-> name, txn |-> 0, body |-> body]
  BY <1>3 DEF Command
<1>6. name \in {"releaseStream", "FCPublish", "FCUnpublish", "getStreamLength", "ping", "closeStream"}
  BY <1>2 DEF NameCommands
<1>7. CASE name \in {"releaseStream", "FCPublish", "FCUnpublish"}
  <2>1. Servable(a, ControlStream, name, 0, b)
    <3>1. name \in DOMAIN CommandCall
      BY <1>7 DEF CommandCall
    <3> QED BY <1>1, <1>7, <3>1, CasesAre DEF Servable
  <2>2. WantsCall(name, ControlStream, b) = Call(NameCall[name], 0, b) /\ name \in DOMAIN NameCall
    BY <1>7 DEF WantsCall, CommandCall, NameCall
  <2>3. StreamsAfter(a.s, ControlStream, name) = a.s
    BY <1>7 DEF StreamsAfter
  <2>4. PICK c \in Standings :
           /\ Met("up", a, Written(CommandChunkStream, 0, ControlStream,
                                   [type |-> "Command", name |-> name, txn |-> 0, body |-> body],
                                   WantsCall(name, ControlStream, b)), c)
           /\ c.s = StreamsAfter(a.s, ControlStream, name)
           /\ c.n = a.n + (IF name \in {"publish", "play"} THEN 1 ELSE 0)
           /\ c.k = a.k + (IF name \in {"connect", "createStream"} THEN 1 ELSE 0)
    BY <1>3, <1>4, <2>1, ServedGoes, ZeroStamp
  <2>5. c.n = a.n /\ c.k = a.k
    BY <1>7, <2>4 DEF Standings
  <2> QED BY <1>1, <1>5, <2>2, <2>3, <2>4, <2>5, Zenon
<1>8. CASE name \in {"getStreamLength", "ping", "closeStream"}
  <2>1. PICK wants : wants = Call("OnUnknownCommandMessage", 0, name)
    OBVIOUS
  <2>2. PICK o : IsCommand(o, ControlStream, name, 0, body, wants)
    BY <1>3, CommandSent, ZeroStamp
  <2>3. /\ Sendable(o) /\ o.ts = 0 /\ o.sid = ControlStream /\ o.wants = wants
        /\ o.msg.type = "Command" /\ o.msg.name = name /\ Body(o.msg) = b /\ CaseOf(o.msg) = name
        /\ ~IsControl(o.msg) /\ ~IsReply(o.msg) /\ ~Asks(o.msg) /\ ~Opens(o.msg)
    <3>1. name \notin {"_result", "_error"} /\ name \notin {"connect", "createStream"}
          /\ name \notin {"publish", "play"}
      BY <1>8
    <3>2. DecodeBody(name, body) = b /\ b.body = name
      BY <1>1, <1>4
    <3> QED BY <2>2, <3>1, <3>2, Zenon DEF IsCommand
  <2>4. b # Unknown /\ b # Unreadable
    BY <1>1, <1>8 DEF Unknown, Unreadable
  <2>5. ~Served(a.s, o) /\ name # "deleteStream"
    <3>1. name \notin Cases("Connected") /\ name # "deleteStream"
      BY <1>8, CasesAre
    <3> QED BY <2>3, <3>1, Zenon DEF Served
  <2>6. PassCall(o)
    BY <2>1, <2>3 DEF PassCall
  <2>7. Wanted(a.s, o)
    <3>1. o.msg.type # "SetChunkSize" /\ o.msg.type # "WinAckSize"
      BY <2>3
    <3> QED BY <2>3, <2>4, <2>5, <2>6, <3>1, Zenon DEF Wanted
  <2>8. a.s[o.sid] # "none"
    BY <2>3
  <2>9. Met("up", a, o, a)
    BY <2>3, <2>4, <2>5, <2>7, <2>8, PassedGoes
  <2>10. name \notin DOMAIN NameCall
    BY <1>8, CasesAre
  <2>11. o = Written(CommandChunkStream, 0, ControlStream,
                     [type |-> "Command", name |-> name, txn |-> 0, body |-> body], wants)
    BY <2>2, Zenon DEF IsCommand
  <2> QED BY <1>1, <1>5, <2>1, <2>9, <2>10, <2>11, Zenon
<1> QED BY <1>6, <1>7, <1>8

\* The server passes an ack through.
LEMMA AckGoes ==
  ASSUME NEW a \in Standings, a.s[ControlStream] # "none", NEW number
  PROVE  Met("up", a, AckOf(number), a)
<1>1. PICK m : m = [type |-> "Ack", number |-> number]
  OBVIOUS
<1>2. m.type = "Ack"
  BY <1>1
<1>3. PICK o : /\ o = Written(ControlChunkStream, 0, ControlStream, m, Call("OnUnknownMessage", 0, m))
               /\ o.cs = ControlChunkStream /\ o.ts = 0 /\ o.sid = ControlStream /\ o.msg = m
               /\ o.wants = Call("OnUnknownMessage", 0, m)
  BY WrittenIs
<1>4. Legible(m)
  BY <1>1, LegibleAck
<1>5. Sendable(o)
  <2>1. m.type # "Command" /\ m.type # "WinAckSize" /\ m.type # "SetChunkSize"
    BY <1>2
  <2> QED BY <1>3, <1>4, <2>1, ZeroStamp, Zenon DEF Sendable
<1>6. Met("up", a, o, a)
  BY <1>2, <1>3, <1>5, BareGoes
<1> QED BY <1>1, <1>3, <1>6, Zenon DEF AckOf

\* A control message that the client takes note of, or passes through.
LEMMA QuietComes ==
  ASSUME NEW q \in Standings, NEW o, Sendable(o), o.sid = ControlStream,
         \/ o.msg.type = "WinAckSize" /\ o.wants = Call("SetAckWindowSize", o.ts, o.msg.size)
         \/ /\ o.msg.type \in {"SetPeerBandwidth", "UserCtrl", "Ack"}
            /\ o.wants = Call("OnUnknownMessage", o.ts, o.msg)
  PROVE  Met("down", q, o, q)
<1>1. q.n + 0 = q.n /\ q.k + 0 = q.k
  BY DEF Standings
<1>2. ~IsReply(o.msg)
  BY DEF IsReply
<1>3. o.sid # DataStream
  BY ZeroStamp
<1>4. q.n = q.n + (IF o.sid = DataStream THEN 1 ELSE 0) /\ q.k = q.k + (IF IsReply(o.msg) THEN 1 ELSE 0)
      /\ q.g = (q.g \/ (IsReply(o.msg) /\ o.msg.name = "_error"))
  <2>1. q.n = q.n + (IF o.sid = DataStream THEN 1 ELSE 0) /\ q.k = q.k + (IF IsReply(o.msg) THEN 1 ELSE 0)
    BY <1>1, <1>2, <1>3, Zenon
  <2>2. q.g \in BOOLEAN
    BY DEF Standings
  <2>3. q.g = (q.g \/ (IsReply(o.msg) /\ o.msg.name = "_error"))
    BY <1>2, <2>2
  <2> QED BY <2>1, <2>3, Zenon
<1>5. \/ o.sid = ControlStream /\ o.msg.type = "WinAckSize"
         /\ o.wants = Call("SetAckWindowSize", o.ts, o.msg.size)
      \/ /\ o.sid = ControlStream /\ o.msg.type \in {"SetPeerBandwidth", "UserCtrl", "Ack"}
         /\ o.wants = Call("OnUnknownMessage", o.ts, o.msg)
  OBVIOUS
<1>6. MetDown(q, o, q)
  BY <1>4, <1>5, Zenon DEF MetDown
<1>7. Below(q, q)
  BY BelowIs
<1>8. "down" # "up"
  OBVIOUS
<1> QED BY <1>6, <1>7, <1>8, Zenon DEF Met

\* What the server announces before the reply to connect.
LEMMA WelcomeComes ==
  ASSUME NEW q \in Standings
  PROVE  LET ctrl(m, call, args) ==
               Written(ControlChunkStream, 0, ControlStream, m, Call(call, 0, args))
             win   == [type |-> "WinAckSize", size |-> SelfWindow]
             bw    == [type |-> "SetPeerBandwidth", size |-> MaxWindow, limit |-> 0]
             begin == [type |-> "UserCtrl", event |-> [event |-> "StreamBegin", value |-> ControlStream]]
         IN  /\ Met("down", q, ctrl(win, "SetAckWindowSize", SelfWindow), q)
             /\ Met("down", q, ctrl(bw, "OnUnknownMessage", bw), q)
             /\ Met("down", q, ctrl(begin, "OnUnknownMessage", begin), q)
<1>1. ASSUME NEW m, NEW wants, Legible(m), m.type \in {"WinAckSize", "SetPeerBandwidth", "UserCtrl"},
             m.type = "WinAckSize" => m.size \in Nat /\ wants = Call("SetAckWindowSize", 0, m.size),
             m.type # "WinAckSize" => wants = Call("OnUnknownMessage", 0, m)
      PROVE  Met("down", q, Written(ControlChunkStream, 0, ControlStream, m, wants), q)
  <2>1. PICK o : /\ o = Written(ControlChunkStream, 0, ControlStream, m, wants)
                 /\ o.cs = ControlChunkStream /\ o.ts = 0 /\ o.sid = ControlStream /\ o.msg = m
                 /\ o.wants = wants
    BY WrittenIs
  <2>2. m.type # "Command" /\ m.type # "SetChunkSize"
    BY <1>1
  <2>3. Sendable(o)
    BY <1>1, <2>1, <2>2, ZeroStamp, Zenon DEF Sendable
  <2>4. \/ o.msg.type = "WinAckSize" /\ o.wants = Call("SetAckWindowSize", o.ts, o.msg.size)
        \/ /\ o.msg.type \in {"SetPeerBandwidth", "UserCtrl", "Ack"}
           /\ o.wants = Call("OnUnknownMessage", o.ts, o.msg)
    BY <1>1, <2>1
  <2>5. Met("down", q, o, q)
    BY <2>1, <2>3, <2>4, QuietComes
  <2> QED BY <2>1, <2>5
<1>2. SelfWindow \in 0..(Word \div 2 - 1) /\ MaxWindow \in 0..(Word \div 2 - 1)
  BY WireAssumption
<1>3. SelfWindow \in Nat
  <2>1. PICK w : w = Word \div 2 - 1
    OBVIOUS
  <2>2. SelfWindow \in 0 .. w
    BY <1>2, <2>1
  <2> QED BY <2>2
<1>4. PICK win : win = [type |-> "WinAckSize", size |-> SelfWindow]
  OBVIOUS
<1>5. win.type = "WinAckSize" /\ win.size = SelfWindow
  BY <1>4
<1>6. Met("down", q, Written(ControlChunkStream, 0, ControlStream, win,
                             Call("SetAckWindowSize", 0, SelfWindow)), q)
  <2>1. Legible(win)
    BY <1>2, <1>4, LegibleWindow
  <2> QED BY <1>1, <1>3, <1>5, <2>1
<1>7. PICK bw : bw = [type |-> "SetPeerBandwidth", size |-> MaxWindow, limit |-> 0]
  OBVIOUS
<1>8. bw.type = "SetPeerBandwidth"
  BY <1>7
<1>9. Met("down", q, Written(ControlChunkStream, 0, ControlStream, bw, Call("OnUnknownMessage", 0, bw)), q)
  <2>1. Legible(bw)
    BY <1>2, <1>7, LegibleBandwidth
  <2> QED BY <1>1, <1>8, <2>1
<1>10. PICK e : e = [event |-> "StreamBegin", value |-> ControlStream]
  OBVIOUS
<1>11. PICK begin : begin = [type |-> "UserCtrl", event |-> e]
  OBVIOUS
<1>12. begin.type = "UserCtrl"
  BY <1>11
<1>13. Met("down", q, Written(ControlChunkStream, 0, ControlStream, begin,
                              Call("OnUnknownMessage", 0, begin)), q)
  <2>1. e.event \in DOMAIN EventID /\ e = [event |-> e.event, value |-> e.value]
        /\ e.event # "SetBufferLength"
    BY <1>10 DEF EventID
  <2>2. Legible(begin)
    BY <1>11, <2>1, LegibleEvent
  <2> QED BY <1>1, <1>12, <2>2
<1> QED BY <1>4, <1>6, <1>7, <1>9, <1>10, <1>11, <1>13, Zenon

\* The client passes an ack through as well.
LEMMA AckComes ==
  ASSUME NEW q \in Standings, NEW number
  PROVE  Met("down", q, AckOf(number), q)
<1>1. PICK m : m = [type |-> "Ack", number |-> number]
  OBVIOUS
<1>2. m.type = "Ack"
  BY <1>1
<1>3. PICK o : /\ o = Written(ControlChunkStream, 0, ControlStream, m, Call("OnUnknownMessage", 0, m))
               /\ o.cs = ControlChunkStream /\ o.ts = 0 /\ o.sid = ControlStream /\ o.msg = m
               /\ o.wants = Call("OnUnknownMessage", 0, m)
  BY WrittenIs
<1>4. Legible(m)
  BY <1>1, LegibleAck
<1>5. Sendable(o)
  <2>1. m.type # "Command" /\ m.type # "WinAckSize" /\ m.type # "SetChunkSize"
    BY <1>2
  <2> QED BY <1>3, <1>4, <2>1, ZeroStamp, Zenon DEF Sendable
<1>6. Met("down", q, o, q)
  BY <1>2, <1>3, <1>5, QuietComes
<1> QED BY <1>1, <1>3, <1>6, Zenon DEF AckOf

\* A reply answers the request that is next, whatever it says.
LEMMA ReplyComes ==
  ASSUME NEW q \in Standings, NEW ok \in BOOLEAN, NEW b, NEW body, Sequence(body), Len(body) <= 3,
         b # Unreadable,
         IF q.k = 0 THEN DecodeConnectResult(body) = b ELSE DecodeCreateStreamResult(body) = b
  PROVE  LET name == IF ok THEN "_result" ELSE "_error"
             txn  == IF q.k = 0 THEN 1 ELSE 2
         IN  \E c \in Standings :
               /\ Met("down", q, Written(CommandChunkStream, 0, ControlStream,
                                         [type |-> "Command", name |-> name, txn |-> txn, body |-> body],
                                         Call("Reply", 0, b)), c)
               /\ c.n = q.n /\ c.k = q.k + 1 /\ c.g = (q.g \/ ~ok)
<1>1. PICK name, txn, wants : /\ name = (IF ok THEN "_result" ELSE "_error")
                              /\ txn = (IF q.k = 0 THEN 1 ELSE 2)
                              /\ wants = Call("Reply", 0, b)
  OBVIOUS
<1>2. PICK o : IsCommand(o, ControlStream, name, txn, body, wants)
  BY CommandSent, ZeroStamp
<1>3. /\ Sendable(o) /\ o.ts = 0 /\ o.sid = ControlStream /\ o.wants = wants
      /\ o.msg.name = name /\ o.msg.txn = txn /\ o.msg.body = body /\ IsReply(o.msg)
  <2>1. name \in {"_result", "_error"}
    BY <1>1
  <2> QED BY <1>2, <2>1, Zenon DEF IsCommand
<1>4. Replies(q.k, o)
  BY <1>1, <1>3 DEF Replies
<1>5. q.n \in Nat /\ q.k \in Nat /\ q.g \in BOOLEAN /\ q.s \in [StreamIDs -> States]
  BY DEF Standings
<1>6. PICK n \in Nat, k \in Nat, g \in BOOLEAN : n = q.n /\ k = q.k + 1 /\ g = (q.g \/ ~ok)
  <2>1. PICK n \in Nat, k \in Nat : n = q.n /\ k = q.k + 1
    BY <1>5
  <2>2. (q.g \/ ~ok) \in BOOLEAN
    OBVIOUS
  <2>3. PICK g \in BOOLEAN : g = (q.g \/ ~ok)
    BY <2>2, Zenon
  <2> QED BY <2>1, <2>3, Zenon
<1>7. PICK c : c = [s |-> q.s, n |-> n, k |-> k, g |-> g]
  OBVIOUS
<1>8. c \in Standings /\ c.n = n /\ c.k = k /\ c.g = g
  BY <1>5, <1>7 DEF Standings
<1>9. Below(q, c)
  BY <1>5, <1>6, <1>8 DEF Below
<1>10. MetDown(q, o, c)
  <2>1. o.sid # DataStream
    BY <1>3, ZeroStamp
  <2>2. c.n = q.n + (IF o.sid = DataStream THEN 1 ELSE 0)
    BY <1>5, <1>6, <1>8, <2>1
  <2>3. c.k = q.k + (IF IsReply(o.msg) THEN 1 ELSE 0)
    BY <1>3, <1>6, <1>8
  <2>4. name = "_error" <=> ~ok
    BY <1>1
  <2>5. c.g = (q.g \/ (IsReply(o.msg) /\ o.msg.name = "_error"))
    BY <1>3, <1>6, <1>8, <2>4
  <2> QED BY <1>4, <2>2, <2>3, <2>5, Zenon DEF MetDown
<1>11. Met("down", q, o, c)
  <2>1. "down" # "up"
    OBVIOUS
  <2> QED BY <1>3, <1>8, <1>9, <1>10, <2>1, Zenon DEF Met
<1>12. o = Written(CommandChunkStream, 0, ControlStream,
                   [type |-> "Command", name |-> name, txn |-> txn, body |-> body], wants)
  BY <1>2, Zenon DEF IsCommand
<1> QED BY <1>1, <1>6, <1>8, <1>11, <1>12, Zenon

\* The reply to connect.
LEMMA ConnectReplyComes ==
  ASSUME NEW q \in Standings, q.k = 0, NEW ok \in BOOLEAN
  PROVE  LET b == [body |-> "connectResult", properties |-> "fms", information |-> ok]
         IN  \E c \in Standings :
               /\ Met("down", q, Written(CommandChunkStream, 0, ControlStream,
                                         Command(IF ok THEN "_result" ELSE "_error", 1, b),
                                         Call("Reply", 0, b)), c)
               /\ c.n = q.n /\ c.k = 1 /\ c.g = (q.g \/ ~ok)
<1>1. PICK b : b = [body |-> "connectResult", properties |-> "fms", information |-> ok]
  OBVIOUS
<1>2. b.body = "connectResult"
  BY <1>1
<1>3. PICK body : body = ToArgs(b) /\ Sequence(body) /\ Len(body) <= 3
  BY <1>2, Arguments
<1>4. DecodeConnectResult(body) = b
  BY <1>1, <1>3, ReplyBodies
<1>5. b # Unreadable
  BY <1>2 DEF Unreadable
<1>6. PICK name : name = IF ok THEN "_result" ELSE "_error"
  OBVIOUS
<1>7. PICK c \in Standings :
           /\ Met("down", q, Written(CommandChunkStream, 0, ControlStream,
                                     [type |-> "Command", name |-> name, txn |-> 1, body |-> body],
                                     Call("Reply", 0, b)), c)
           /\ c.n = q.n /\ c.k = q.k + 1 /\ c.g = (q.g \/ ~ok)
  BY <1>3, <1>4, <1>5, <1>6, ReplyComes
<1>8. Command(name, 1, b) = [type |-> "Command", name |-> name, txn |-> 1, body |-> body]
  BY <1>3 DEF Command
<1>9. c.k = 1
  BY <1>7
<1> QED BY <1>1, <1>6, <1>7, <1>8, <1>9, Zenon

\* The reply to createStream.
LEMMA CreateReplyComes ==
  ASSUME NEW q \in Standings, q.k # 0, NEW ok \in BOOLEAN
  PROVE  LET b == [body |-> "createStreamResult", id |-> IF ok THEN DataStream ELSE 0]
         IN  \E c \in Standings :
               /\ Met("down", q, Written(CommandChunkStream, 0, ControlStream,
                                         Command(IF ok THEN "_result" ELSE "_error", 2, b),
                                         Call("Reply", 0, b)), c)
               /\ c.n = q.n /\ c.k = q.k + 1 /\ c.g = (q.g \/ ~ok)
<1>1. PICK b : b = [body |-> "createStreamResult", id |-> IF ok THEN DataStream ELSE 0]
  OBVIOUS
<1>2. b.body = "createStreamResult"
  BY <1>1
<1>3. PICK body : body = ToArgs(b) /\ Sequence(body) /\ Len(body) <= 3
  BY <1>2, Arguments
<1>4. DecodeCreateStreamResult(body) = b
  BY <1>1, <1>3, ReplyBodies
<1>5. b # Unreadable
  BY <1>2 DEF Unreadable
<1>6. PICK name : name = IF ok THEN "_result" ELSE "_error"
  OBVIOUS
<1>7. PICK c \in Standings :
           /\ Met("down", q, Written(CommandChunkStream, 0, ControlStream,
                                     [type |-> "Command", name |-> name, txn |-> 2, body |-> body],
                                     Call("Reply", 0, b)), c)
           /\ c.n = q.n /\ c.k = q.k + 1 /\ c.g = (q.g \/ ~ok)
  BY <1>3, <1>4, <1>5, <1>6, ReplyComes
<1>8. Command(name, 2, b) = [type |-> "Command", name |-> name, txn |-> 2, body |-> body]
  BY <1>3 DEF Command
<1> QED BY <1>1, <1>6, <1>7, <1>8, Zenon

\* onStatus, which nobody decodes.
LEMMA StatusComes ==
  ASSUME NEW q \in Standings, NEW info
  PROVE  LET b == [body |-> "onStatus", info |-> info]
             note == Command("onStatus", 0, b)
         IN  \E c \in Standings :
               /\ Met("down", q, Written(CommandChunkStream, 0, DataStream, note,
                                         Call("Ignored", 0, note)), c)
               /\ c.n = q.n + 1 /\ c.k = q.k /\ c.g = q.g
<1>1. PICK b : b = [body |-> "onStatus", info |-> info]
  OBVIOUS
<1>2. b.body = "onStatus"
  BY <1>1
<1>3. PICK body : body = ToArgs(b) /\ Sequence(body) /\ Len(body) <= 3
  BY <1>2, Arguments
<1>4. PICK m : m = [type |-> "Command", name |-> "onStatus", txn |-> 0, body |-> body]
  OBVIOUS
<1>5. Command("onStatus", 0, b) = m
  BY <1>3, <1>4 DEF Command
<1>6. PICK wants : wants = Call("Ignored", 0, m)
  OBVIOUS
<1>7. PICK o : IsCommand(o, DataStream, "onStatus", 0, body, wants)
  BY <1>3, CommandSent, ZeroStamp
<1>8. /\ Sendable(o) /\ o.ts = 0 /\ o.sid = DataStream /\ o.wants = wants
      /\ o.msg.type = "Command" /\ o.msg.name = "onStatus" /\ ~IsReply(o.msg)
      /\ o = Written(CommandChunkStream, 0, DataStream, m, wants)
  <2>1. "onStatus" \notin {"_result", "_error"}
    OBVIOUS
  <2> QED BY <1>4, <1>7, <2>1, Zenon DEF IsCommand
<1>9. o.msg = m
  <2>1. PICK w : /\ w = Written(CommandChunkStream, 0, DataStream, m, wants) /\ w.msg = m
    BY WrittenIs
  <2> QED BY <1>8, <2>1, Zenon
<1>10. q.n \in Nat /\ q.k \in Nat /\ q.g \in BOOLEAN /\ q.s \in [StreamIDs -> States]
  BY DEF Standings
<1>11. PICK n \in Nat, k \in Nat, g \in BOOLEAN : n = q.n + 1 /\ k = q.k /\ g = q.g
  BY <1>10
<1>12. PICK c : c = [s |-> q.s, n |-> n, k |-> k, g |-> g]
  OBVIOUS
<1>13. c \in Standings /\ c.n = n /\ c.k = k /\ c.g = g
  BY <1>10, <1>12 DEF Standings
<1>14. Below(q, c)
  BY <1>10, <1>11, <1>13 DEF Below
<1>15. MetDown(q, o, c)
  <2>1. c.n = q.n + (IF o.sid = DataStream THEN 1 ELSE 0)
    BY <1>8, <1>11, <1>13
  <2>2. c.k = q.k + (IF IsReply(o.msg) THEN 1 ELSE 0)
    BY <1>8, <1>10, <1>11, <1>13
  <2>3. c.g = (q.g \/ (IsReply(o.msg) /\ o.msg.name = "_error"))
    BY <1>8, <1>10, <1>11, <1>13
  <2>4. o.wants = Call("Ignored", o.ts, o.msg)
    BY <1>6, <1>8, <1>9, Zenon
  <2> QED BY <1>8, <2>1, <2>2, <2>3, <2>4, Zenon DEF MetDown
<1>16. Met("down", q, o, c)
  <2>1. "down" # "up"
    OBVIOUS
  <2> QED BY <1>8, <1>13, <1>14, <1>15, <2>1, Zenon DEF Met
<1> QED BY <1>1, <1>5, <1>6, <1>8, <1>11, <1>13, <1>16, Zenon

-----------------------------------------------------------------------------
(* The invariant. *)

Running(d) == loop[d] = "running"

\* What is on its way to end d, which stands like a before it has handled the
\* message it has read (in), that was written as du: the end will stand like b.
Coming(d, rr, in, du, l, a, b) ==
  \E c : (IF in = None THEN c = a ELSE Met(d, a, du, c)) /\ OnTheWay(d, rr, c, l, b)

Ahead(d, a, b) == Coming(d, r[d], inbox[d], due[d], link[d], a, b)

\* The state of the data stream at the server, once it has handled everything.
StateOf == [none |-> "none", open |-> "Inactive", publish |-> "Publish", play |-> "Play"]

Agrees(s) ==
  /\ phase # "refused"
  /\ s[ControlStream] = IF phase = "new" THEN "NotConnected" ELSE "Connected"
  /\ s[DataStream] = IF phase = "creating" THEN "Inactive" ELSE StateOf[stream]

\* The client has had j replies to k requests.
Counted(j, k) ==
  /\ phase = "new" => j = 0 /\ k = 0
  /\ phase = "connecting" => j = 0 /\ k = 1
  /\ phase \in {"connected", "refused"} => j # 0 /\ k = j
  /\ phase = "creating" => j # 0 /\ k = j + 1

\* The calls it takes to have asked n times to publish or play.
Bound(n) ==
  2 * n + (IF phase = "creating" \/ stream = "open" THEN 1 ELSE 0)
    <= calls + (IF stream \in {"publish", "play"} THEN 1 ELSE 0)

\* The server stands like a and will stand like b; the client stands like p and
\* will stand like q.
Up(a, b) == Running("up") => a.s = sstate /\ Ahead("up", a, b) /\ Agrees(b.s)

Numbers(b, p, q) ==
  /\ ignored["down"] <= p.n /\ Counted(p.k, b.k) /\ Bound(b.n) /\ q.n <= b.n /\ q.k <= b.k

Down(b, p, q) == Running("down") => Ahead("down", p, q) /\ Numbers(b, p, q)

Both(a, q) == Running("up") /\ Running("down") => q.n <= a.n /\ q.k = a.k /\ ~q.g

Ordered(a, b, p, q) == Up(a, b) /\ Down(b, p, q) /\ Both(a, q)

Order == \E a, b, p, q \in Standings : Ordered(a, b, p, q)

Client ==
  /\ phase \in {"new", "connecting", "connected", "creating", "refused"}
  /\ stream \in {"none", "open", "publish", "play"}
  /\ phase # "connected" => stream = "none"
  /\ calls \in Nat /\ calls <= MaxCalls

Streams ==
  /\ sstate \in [StreamIDs -> States]
  /\ sstate[ControlStream] \in {"NotConnected", "Connected"}
  /\ sstate[DataStream] \in {"none", "Inactive", "Publish", "Play"}

\* The server's loop never fails; the client's does when it has ignored too many.
Loops ==
  /\ loop \in [Dirs -> {"running", "refused", "lost", "failed"}]
  /\ loop["up"] # "failed"
  /\ IgnoreNotExist /\ MaxCalls <= 2 * Threshold => loop["down"] # "failed"

Peers ==
  /\ peer \in [Dirs -> [chunk : Nat \ {0}, window : Int]]
  /\ \A d \in Dirs : peer[d].chunk <= MaxChunkSize /\ peer[d].window <= MaxWindow

Counts ==
  /\ count \in [Dirs -> [total : Nat, fragment : Nat]]
  /\ \A d \in Dirs : count[d].fragment <= count[d].total

Drops == ignored \in [Dirs -> 0 .. Threshold]

Sides ==
  /\ link = [d \in Dirs |-> link[d]] /\ \A d \in Dirs : Links(link[d])
  /\ r \in [Dirs -> [ChunkStreams -> Readers]]

Boxes ==
  /\ inbox = [d \in Dirs |-> inbox[d]] /\ due = [d \in Dirs |-> due[d]]
  /\ called = [d \in Dirs |-> called[d]]
  /\ ReadAsWritten /\ CalledAsAsked

Shape == Client /\ Streams /\ Loops /\ Peers /\ Counts /\ Drops /\ Sides /\ Boxes

IInv == Shape /\ Order

\* Side l, on which an end will stand like b, has grown to m, after which it will
\* stand like c.
Grown(d, l, b, m, c) ==
  /\ Links(m)
  /\ \A rr, in, du, a : Coming(d, rr, in, du, l, a, b) => Coming(d, rr, in, du, m, a, c)

\* It has when nothing was put on it.
LEMMA GrownNot ==
  ASSUME NEW d, NEW l, NEW b, Links(l)
  PROVE  Grown(d, l, b, l, b)
BY Zenon DEF Grown

\* It has when a message was that the end can handle.
LEMMA GrownPut ==
  ASSUME NEW d, NEW l, NEW b, NEW o, NEW c, Links(l), Met(d, b, o, c)
  PROVE  Grown(d, l, b, Put(l, o), c)
<1>1. Links(Put(l, o))
  <2>1. Sendable(o)
    BY Zenon DEF Met
  <2> QED BY <2>1, PutIs
<1>2. ASSUME NEW rr, NEW in, NEW du, NEW a, Coming(d, rr, in, du, l, a, b)
      PROVE  Coming(d, rr, in, du, Put(l, o), a, c)
  <2>1. PICK e : (IF in = None THEN e = a ELSE Met(d, a, du, e)) /\ OnTheWay(d, rr, e, l, b)
    BY <1>2, Zenon DEF Coming
  <2>2. OnTheWay(d, rr, e, Put(l, o), c)
    BY <2>1, Sent
  <2> QED BY <2>1, <2>2, Zenon DEF Coming
<1> QED BY <1>1, <1>2, Zenon DEF Grown

\* It has when it grew twice.
LEMMA GrownOn ==
  ASSUME NEW d, NEW l, NEW b, NEW m, NEW c, NEW n, NEW e, Grown(d, l, b, m, c), Grown(d, m, c, n, e)
  PROVE  Grown(d, l, b, n, e)
BY Zenon DEF Grown

\* What it takes to know of the way to an end.
LEMMA ComingBelow ==
  ASSUME NEW d, NEW rr, NEW in, NEW du, NEW l, NEW a \in Standings, NEW b, Links(l),
         Coming(d, rr, in, du, l, a, b)
  PROVE  Below(a, b) /\ b \in Standings
<1>1. PICK c : (IF in = None THEN c = a ELSE Met(d, a, du, c)) /\ OnTheWay(d, rr, c, l, b)
  BY Zenon DEF Coming
<1>2. Below(c, b) /\ c \in Standings /\ b \in Standings
  BY <1>1, WayBelow
<1>3. Below(a, c)
  BY <1>1, BelowIs, Zenon DEF Met
<1> QED BY <1>2, <1>3, BelowIs

\* The client has written: the server will stand like c.
LEMMA ClientStep ==
  ASSUME NEW a \in Standings, NEW b \in Standings, NEW p \in Standings, NEW q \in Standings,
         NEW c \in Standings, NEW m, Ordered(a, b, p, q), Running("up"), Running("down"), Sides,
         Grown("up", link["up"], b, m, c), Below(b, c), link' = [link EXCEPT !["up"] = m],
         UNCHANGED <<readVars, sstate>>, Agrees(c.s)', Counted(p.k, c.k)', Bound(c.n)'
  PROVE  Ordered(a, c, p, q)'
<1>1. link'["up"] = m /\ link'["down"] = link["down"]
  BY DEF Sides, Dirs
<1>2. r' = r /\ inbox' = inbox /\ due' = due /\ loop' = loop /\ ignored' = ignored /\ sstate' = sstate
  BY DEF readVars
<1>3. Up(a, b) /\ Down(b, p, q) /\ Both(a, q)
  BY Zenon DEF Ordered
<1>4. Up(a, c)'
  <2>1. a.s = sstate /\ Coming("up", r["up"], inbox["up"], due["up"], link["up"], a, b)
    BY <1>3, Zenon DEF Up, Ahead
  <2>2. Coming("up", r["up"], inbox["up"], due["up"], m, a, c)
    BY <2>1, Zenon DEF Grown
  <2>3. Ahead("up", a, c)'
    BY <1>1, <1>2, <2>2, Zenon DEF Ahead
  <2> QED BY <1>2, <2>1, <2>3, Zenon DEF Up
<1>5. Down(c, p, q)'
  <2>1. Ahead("down", p, q) /\ Numbers(b, p, q)
    BY <1>3, Zenon DEF Down
  <2>2. Ahead("down", p, q)'
    BY <1>1, <1>2, <2>1, Zenon DEF Ahead
  <2>3. q.n <= c.n /\ q.k <= c.k
    BY <2>1 DEF Numbers, Below, Standings
  <2>4. ignored'["down"] <= p.n
    BY <1>2, <2>1, Zenon DEF Numbers
  <2>5. Numbers(c, p, q)'
    BY <2>3, <2>4, Zenon DEF Numbers
  <2> QED BY <2>2, <2>5, Zenon DEF Down
<1>6. Both(a, q)'
  BY <1>2, <1>3, Zenon DEF Both, Running
<1> QED BY <1>4, <1>5, <1>6, Zenon DEF Ordered

\* The server has handled the message it had read: it stands like c. The client
\* will stand like e, when it has handled what the server has written besides.
LEMMA ServerStep ==
  ASSUME NEW a \in Standings, NEW b \in Standings, NEW p \in Standings, NEW q \in Standings,
         NEW c \in Standings, NEW e \in Standings, NEW m, Ordered(a, b, p, q), Running("up"), Sides,
         inbox = [d \in Dirs |-> inbox[d]],
         OnTheWay("up", r["up"], c, link["up"], b), Running("down") => Grown("down", link["down"], q, m, e),
         link' = [link EXCEPT !["down"] = m], inbox' = [inbox EXCEPT !["up"] = None],
         UNCHANGED <<r, due, ignored, clientVars>>, loop'["down"] = loop["down"],
         Running("up")' => sstate' = c.s,
         Running("down") => e.n <= b.n /\ e.k <= b.k,
         Running("up")' /\ Running("down") => e.n <= c.n /\ e.k = c.k /\ ~e.g
  PROVE  Ordered(c, b, p, e)'
<1>1. /\ link'["down"] = m /\ link'["up"] = link["up"]
      /\ inbox'["up"] = None /\ inbox'["down"] = inbox["down"]
  BY DEF Sides, Dirs
<1>2. r' = r /\ due' = due /\ ignored' = ignored /\ phase' = phase /\ stream' = stream /\ calls' = calls
  BY DEF clientVars
<1>3. Up(a, b) /\ Down(b, p, q) /\ Both(a, q)
  BY Zenon DEF Ordered
<1>4. Up(c, b)'
  <2>1. Agrees(b.s)'
    BY <1>2, <1>3 DEF Up, Agrees
  <2>2. Coming("up", r'["up"], inbox'["up"], due'["up"], link'["up"], c, b)
    <3>1. OnTheWay("up", r'["up"], c, link'["up"], b)
      BY <1>1, <1>2, Zenon
    <3> QED BY <1>1, <3>1, Zenon DEF Coming
  <2> QED BY <2>1, <2>2, Zenon DEF Up, Ahead
<1>5. Down(b, p, e)'
  <2> SUFFICES ASSUME Running("down")' PROVE Ahead("down", p, e)' /\ Numbers(b, p, e)'
    BY Zenon DEF Down
  <2>1. Running("down")
    BY Zenon DEF Running
  <2>2. Coming("down", r["down"], inbox["down"], due["down"], link["down"], p, q) /\ Numbers(b, p, q)
    BY <1>3, <2>1, Zenon DEF Down, Ahead
  <2>3. Coming("down", r["down"], inbox["down"], due["down"], m, p, e)
    BY <2>1, <2>2, Zenon DEF Grown
  <2>4. Ahead("down", p, e)'
    BY <1>1, <1>2, <2>3, Zenon DEF Ahead
  <2>5. ignored'["down"] <= p.n
    BY <1>2, <2>2, Zenon DEF Numbers
  <2>6. Counted(p.k, b.k)'
    BY <1>2, <2>2 DEF Numbers, Counted
  <2>7. Bound(b.n)'
    BY <1>2, <2>2 DEF Numbers, Bound
  <2> QED BY <2>1, <2>4, <2>5, <2>6, <2>7, Zenon DEF Numbers
<1>6. Both(c, e)'
  <2> SUFFICES ASSUME Running("up")', Running("down")' PROVE e.n <= c.n /\ e.k = c.k /\ ~e.g
    BY Zenon DEF Both
  <2>1. Running("down")
    BY Zenon DEF Running
  <2> QED BY <2>1, Zenon
<1> QED BY <1>4, <1>5, <1>6, Zenon DEF Ordered

\* The client has handled the message it had read: it stands like e.
LEMMA HandledStep ==
  ASSUME NEW a \in Standings, NEW b \in Standings, NEW p \in Standings, NEW q \in Standings,
         NEW e \in Standings, Ordered(a, b, p, q), Running("down"),
         inbox = [d \in Dirs |-> inbox[d]],
         OnTheWay("down", r["down"], e, link["down"], q), inbox' = [inbox EXCEPT !["down"] = None],
         UNCHANGED <<r, due, link, sstate>>, loop'["up"] = loop["up"],
         Running("up") => Agrees(b.s)',
         Running("down")' => ignored'["down"] <= e.n /\ Counted(e.k, b.k)' /\ Bound(b.n)'
  PROVE  Ordered(a, b, e, q)'
<1>1. inbox'["down"] = None /\ inbox'["up"] = inbox["up"]
  BY DEF Dirs
<1>2. r' = r /\ due' = due /\ link' = link /\ sstate' = sstate
  OBVIOUS
<1>3. Up(a, b) /\ Down(b, p, q) /\ Both(a, q)
  BY Zenon DEF Ordered
<1>4. Up(a, b)'
  <2> SUFFICES ASSUME Running("up")' PROVE a.s = sstate' /\ Ahead("up", a, b)' /\ Agrees(b.s)'
    BY Zenon DEF Up
  <2>1. Running("up")
    BY Zenon DEF Running
  <2>2. a.s = sstate /\ Ahead("up", a, b)
    BY <1>3, <2>1, Zenon DEF Up
  <2>3. Ahead("up", a, b)'
    BY <1>1, <1>2, <2>2, Zenon DEF Ahead
  <2> QED BY <1>2, <2>1, <2>2, <2>3, Zenon
<1>5. Down(b, e, q)'
  <2> SUFFICES ASSUME Running("down")' PROVE Ahead("down", e, q)' /\ Numbers(b, e, q)'
    BY Zenon DEF Down
  <2>1. OnTheWay("down", r'["down"], e, link'["down"], q)
    BY <1>2, Zenon
  <2>2. Ahead("down", e, q)'
    BY <1>1, <2>1, Zenon DEF Ahead, Coming
  <2>3. q.n <= b.n /\ q.k <= b.k
    BY <1>3, Zenon DEF Down, Numbers
  <2> QED BY <2>2, <2>3, Zenon DEF Numbers
<1>6. Both(a, q)'
  <2> SUFFICES ASSUME Running("up")', Running("down")' PROVE q.n <= a.n /\ q.k = a.k /\ ~q.g
    BY Zenon DEF Both
  <2>1. Running("up") /\ Running("down")
    BY Zenon DEF Running
  <2> QED BY <1>3, <2>1, Zenon DEF Both
<1> QED BY <1>4, <1>5, <1>6, Zenon DEF Ordered

\* A loop has lost its place on the wire.
LEMMA LostStep ==
  ASSUME NEW a \in Standings, NEW b \in Standings, NEW p \in Standings, NEW q \in Standings,
         NEW d \in Dirs, Ordered(a, b, p, q), Loops, loop' = [loop EXCEPT ![d] = "lost"],
         UNCHANGED <<r, inbox, due, link, ignored, sstate, clientVars>>
  PROVE  Ordered(a, b, p, q)'
<1>1. /\ r' = r /\ due' = due /\ link' = link /\ sstate' = sstate /\ inbox' = inbox /\ ignored' = ignored
      /\ phase' = phase /\ stream' = stream /\ calls' = calls
  BY DEF clientVars
<1>2. Up(a, b) /\ Down(b, p, q) /\ Both(a, q)
  BY Zenon DEF Ordered
<1>3. \A x \in Dirs : Running(x)' => Running(x)
  BY DEF Running, Loops
<1>4. "up" \in Dirs /\ "down" \in Dirs
  BY DEF Dirs
<1>5. \A x : Agrees(x)' <=> Agrees(x)
  BY <1>1 DEF Agrees
<1>6. Up(a, b)'
  BY <1>1, <1>2, <1>3, <1>4, <1>5, Zenon DEF Up, Ahead
<1>7. Numbers(b, p, q) => Numbers(b, p, q)'
  BY <1>1 DEF Numbers, Counted, Bound
<1>8. Down(b, p, q)'
  BY <1>1, <1>2, <1>3, <1>4, <1>7, Zenon DEF Down, Ahead
<1>9. Both(a, q)'
  BY <1>2, <1>3, <1>4, Zenon DEF Both
<1> QED BY <1>6, <1>8, <1>9, Zenon DEF Ordered

\* What an end has read is no longer nothing.
LEMMA BoxFull ==
  ASSUME NEW cs, NEW ts, NEW sid, NEW msg
  PROVE  [cs |-> cs, ts |-> ts, sid |-> sid, msg |-> msg] # None
BY DEF None

\* An end has read message o.
ReadOne(d, z, o, c, l, m, a, b) ==
  /\ Met(d, a, o, c)
  /\ r' = [r EXCEPT ![d][o.cs] = Complete(z)]
  /\ inbox' = [inbox EXCEPT ![d] = [cs |-> o.cs, ts |-> o.ts, sid |-> o.sid, msg |-> o.msg]]
  /\ due' = [due EXCEPT ![d] = o] /\ loop' = loop
  /\ link' = [link EXCEPT ![d] = l, ![Other(d)] = m]
  /\ OnTheWay(d, [r[d] EXCEPT ![o.cs] = Complete(z)], c, l, b)

\* The tables after it, by direction.
ReadSides(d, e, z, o, l, m) ==
  /\ link'[d] = l /\ link'[e] = m /\ r'[d] = [r[d] EXCEPT ![o.cs] = Complete(z)] /\ r'[e] = r[e]
  /\ inbox'[d] = [cs |-> o.cs, ts |-> o.ts, sid |-> o.sid, msg |-> o.msg] /\ inbox'[e] = inbox[e]
  /\ due'[d] = o /\ due'[e] = due[e] /\ inbox'[d] # None

\* They are so.
LEMMA TablesRead ==
  ASSUME NEW d \in Dirs, NEW e \in Dirs, e = Other(d), NEW z, NEW o, NEW c, NEW l, NEW m, NEW a, NEW b, Sides,
         Boxes, ReadOne(d, z, o, c, l, m, a, b)
  PROVE  ReadSides(d, e, z, o, l, m)
<1>1. d # e /\ Dirs = {"up", "down"}
  BY DEF Dirs, Other
<1>2. /\ link = [x \in Dirs |-> link[x]] /\ inbox = [x \in Dirs |-> inbox[x]] /\ due = [x \in Dirs |-> due[x]]
  BY Zenon DEF Sides, Boxes
<1>3. r \in [Dirs -> [ChunkStreams -> Readers]]
  BY Zenon DEF Sides
<1>4. link' = [link EXCEPT ![d] = l, ![e] = m]
  BY Zenon DEF ReadOne
<1>5. link'[d] = l /\ link'[e] = m
  BY <1>1, <1>2, <1>4
<1>6. PICK g : g = Complete(z)
  OBVIOUS
<1>7. r' = [r EXCEPT ![d][o.cs] = g]
  BY <1>6, Zenon DEF ReadOne
<1>8. r'[d] = [r[d] EXCEPT ![o.cs] = g] /\ r'[e] = r[e]
  BY <1>1, <1>3, <1>7
<1>9. PICK i : i = [cs |-> o.cs, ts |-> o.ts, sid |-> o.sid, msg |-> o.msg]
  OBVIOUS
<1>10. inbox' = [inbox EXCEPT ![d] = i] /\ due' = [due EXCEPT ![d] = o]
  BY <1>9, Zenon DEF ReadOne
<1>11. inbox'[d] = i /\ inbox'[e] = inbox[e] /\ due'[d] = o /\ due'[e] = due[e]
  BY <1>1, <1>2, <1>10
<1>12. i # None
  BY <1>9, BoxFull
<1> QED BY <1>5, <1>6, <1>8, <1>9, <1>11, <1>12, Zenon DEF ReadSides

\* The server has read a message, and put an ack on the client's side or not.
LEMMA ServerReads ==
  ASSUME NEW a \in Standings, NEW b \in Standings, NEW p \in Standings, NEW q \in Standings,
         Ordered(a, b, p, q), Running("up"), Sides, Boxes, NEW z, NEW o, NEW c, NEW l, NEW m,
         ReadOne("up", z, o, c, l, m, a, b), Grown("down", link["down"], q, m, q),
         UNCHANGED <<ignored, sstate, clientVars>>
  PROVE  Ordered(a, b, p, q)'
<1>4. "up" \in Dirs /\ "down" \in Dirs /\ "down" = Other("up")
  BY DEF Dirs, Other
<1>5. /\ link'["up"] = l /\ link'["down"] = m /\ r'["up"] = [r["up"] EXCEPT ![o.cs] = Complete(z)]
      /\ r'["down"] = r["down"]
      /\ inbox'["down"] = inbox["down"]
      /\ due'["up"] = o /\ due'["down"] = due["down"] /\ inbox'["up"] # None
  <2>1. ReadSides("up", "down", z, o, l, m)
    BY <1>4, TablesRead
  <2> QED BY <2>1, Zenon DEF ReadSides
<1>6. /\ Met("up", a, o, c) /\ loop' = loop
      /\ OnTheWay("up", [r["up"] EXCEPT ![o.cs] = Complete(z)], c, l, b)
  BY Zenon DEF ReadOne
<1>7. ignored' = ignored /\ phase' = phase /\ stream' = stream /\ calls' = calls /\ sstate' = sstate
  BY DEF clientVars
<1>8. Up(a, b) /\ Down(b, p, q) /\ Both(a, q)
  BY Zenon DEF Ordered
<1>9. Up(a, b)'
  <2>1. Agrees(b.s)'
    BY <1>7, <1>8 DEF Up, Agrees
  <2>2. Ahead("up", a, b)'
    BY <1>5, <1>6, Zenon DEF Ahead, Coming
  <2> QED BY <1>7, <1>8, <2>1, <2>2, Zenon DEF Up
<1>10. Down(b, p, q)'
  <2> SUFFICES ASSUME Running("down")' PROVE Ahead("down", p, q)' /\ Numbers(b, p, q)'
    BY Zenon DEF Down
  <2>1. Running("down")
    BY <1>6, Zenon DEF Running
  <2>2. Coming("down", r["down"], inbox["down"], due["down"], link["down"], p, q) /\ Numbers(b, p, q)
    BY <1>8, <2>1, Zenon DEF Down, Ahead
  <2>3. Coming("down", r["down"], inbox["down"], due["down"], m, p, q)
    BY <2>2, Zenon DEF Grown
  <2>4. Ahead("down", p, q)'
    BY <1>5, <2>3, Zenon DEF Ahead
  <2>5. Numbers(b, p, q)'
    BY <1>7, <2>2 DEF Numbers, Counted, Bound
  <2> QED BY <2>4, <2>5, Zenon
<1>11. Both(a, q)'
  BY <1>6, <1>8, Zenon DEF Both, Running
<1> QED BY <1>9, <1>10, <1>11, Zenon DEF Ordered

\* The client has, and put an ack on the server's.
LEMMA ClientReads ==
  ASSUME NEW a \in Standings, NEW b \in Standings, NEW p \in Standings, NEW q \in Standings,
         Ordered(a, b, p, q), Running("down"), Sides, Boxes, NEW z, NEW o, NEW c, NEW l, NEW m,
         ReadOne("down", z, o, c, l, m, p, q),
         Running("up") => Grown("up", link["up"], b, m, b),
         UNCHANGED <<ignored, sstate, clientVars>>
  PROVE  Ordered(a, b, p, q)'
<1>4. "up" \in Dirs /\ "down" \in Dirs /\ "up" = Other("down")
  BY DEF Dirs, Other
<1>5. /\ link'["down"] = l /\ link'["up"] = m /\ r'["down"] = [r["down"] EXCEPT ![o.cs] = Complete(z)]
      /\ r'["up"] = r["up"]
      /\ inbox'["up"] = inbox["up"]
      /\ due'["down"] = o /\ due'["up"] = due["up"] /\ inbox'["down"] # None
  <2>1. ReadSides("down", "up", z, o, l, m)
    BY <1>4, TablesRead
  <2> QED BY <2>1, Zenon DEF ReadSides
<1>6. /\ Met("down", p, o, c) /\ loop' = loop
      /\ OnTheWay("down", [r["down"] EXCEPT ![o.cs] = Complete(z)], c, l, q)
  BY Zenon DEF ReadOne
<1>7. ignored' = ignored /\ phase' = phase /\ stream' = stream /\ calls' = calls /\ sstate' = sstate
  BY DEF clientVars
<1>8. Up(a, b) /\ Down(b, p, q) /\ Both(a, q)
  BY Zenon DEF Ordered
<1>9. Up(a, b)'
  <2> SUFFICES ASSUME Running("up")' PROVE a.s = sstate' /\ Ahead("up", a, b)' /\ Agrees(b.s)'
    BY Zenon DEF Up
  <2>1. Running("up")
    BY <1>6, Zenon DEF Running
  <2>2. Coming("up", r["up"], inbox["up"], due["up"], link["up"], a, b) /\ a.s = sstate /\ Agrees(b.s)
    BY <1>8, <2>1, Zenon DEF Up, Ahead
  <2>3. Coming("up", r["up"], inbox["up"], due["up"], m, a, b)
    BY <2>1, <2>2, Zenon DEF Grown
  <2>4. Ahead("up", a, b)'
    BY <1>5, <2>3, Zenon DEF Ahead
  <2>5. Agrees(b.s)'
    BY <1>7, <2>2 DEF Agrees
  <2> QED BY <1>7, <2>2, <2>4, <2>5, Zenon
<1>10. Down(b, p, q)'
  <2>1. Numbers(b, p, q)
    BY <1>8, Zenon DEF Down
  <2>2. Numbers(b, p, q)'
    BY <1>7, <2>1 DEF Numbers, Counted, Bound
  <2>3. Ahead("down", p, q)'
    BY <1>5, <1>6, Zenon DEF Ahead, Coming
  <2> QED BY <2>2, <2>3, Zenon DEF Down
<1>11. Both(a, q)'
  BY <1>6, <1>8, Zenon DEF Both, Running
<1> QED BY <1>9, <1>10, <1>11, Zenon DEF Ordered

\* A side has grown, or been read from.
LEMMA SidesKept ==
  ASSUME Sides, NEW d \in Dirs, NEW m, Links(m), link' = [link EXCEPT ![d] = m], r' = r
  PROVE  Sides'
<1>1. link = [x \in Dirs |-> link[x]] /\ \A x \in Dirs : Links(link[x])
  BY Zenon DEF Sides
<1>2. link' = [x \in Dirs |-> link'[x]] /\ \A x \in Dirs : link'[x] = IF x = d THEN m ELSE link[x]
  BY <1>1
<1>3. \A x \in Dirs : Links(link'[x])
  BY <1>1, <1>2, Zenon
<1>4. r' \in [Dirs -> [ChunkStreams -> Readers]]
  BY Zenon DEF Sides
<1> QED BY <1>2, <1>3, <1>4, Zenon DEF Sides, Links

\* Handling a message empties its box, and the call is the one it wants.
LEMMA BoxesHandled ==
  ASSUME Boxes, Loops, NEW d \in Dirs, NEW c, inbox' = [inbox EXCEPT ![d] = None],
         called' = [called EXCEPT ![d] = c], due' = due, \A e \in Dirs : e # d => loop'[e] = loop[e],
         loop'[d] # "failed" => c = due[d].wants
  PROVE  Boxes'
<1>1. /\ inbox = [x \in Dirs |-> inbox[x]] /\ called = [x \in Dirs |-> called[x]]
      /\ due = [x \in Dirs |-> due[x]]
  BY Zenon DEF Boxes
<1>2. /\ inbox' = [x \in Dirs |-> inbox'[x]] /\ called' = [x \in Dirs |-> called'[x]]
      /\ due' = [x \in Dirs |-> due'[x]]
  BY <1>1
<1>3. \A x \in Dirs : /\ inbox'[x] = IF x = d THEN None ELSE inbox[x]
                      /\ called'[x] = IF x = d THEN c ELSE called[x]
                      /\ due'[x] = due[x]
  BY <1>1
<1>4. ReadAsWritten'
  <2>1. \A x \in Dirs : inbox[x] # None =>
          inbox[x] = [cs |-> due[x].cs, ts |-> due[x].ts, sid |-> due[x].sid, msg |-> due[x].msg]
    BY Zenon DEF Boxes, ReadAsWritten
  <2>2. \A x \in Dirs : inbox'[x] # None =>
          inbox'[x] = [cs |-> due'[x].cs, ts |-> due'[x].ts, sid |-> due'[x].sid, msg |-> due'[x].msg]
    BY <1>3, <2>1, Zenon
  <2> QED BY <2>2, Zenon DEF ReadAsWritten
<1>5. CalledAsAsked'
  <2>1. \A x \in Dirs : inbox[x] = None /\ due[x] # None /\ loop[x] # "failed" => called[x] = due[x].wants
    BY Zenon DEF Boxes, CalledAsAsked
  <2>2. \A x \in Dirs : inbox'[x] = None /\ due'[x] # None /\ loop'[x] # "failed" =>
                        called'[x] = due'[x].wants
    <3> SUFFICES ASSUME NEW x \in Dirs, inbox'[x] = None, due'[x] # None, loop'[x] # "failed"
                 PROVE  called'[x] = due'[x].wants
      BY Zenon
    <3>1. CASE x = d
      BY <1>3, <3>1, Zenon
    <3>2. CASE x # d
      <4>1. /\ inbox'[x] = inbox[x] /\ called'[x] = called[x] /\ due'[x] = due[x] /\ loop'[x] = loop[x]
        BY <1>3, <3>2, Zenon
      <4> QED BY <2>1, <4>1, Zenon
    <3> QED BY <3>1, <3>2, Zenon
  <2> QED BY <2>2, Zenon DEF CalledAsAsked
<1> QED BY <1>2, <1>4, <1>5, Zenon DEF Boxes

\* Reading one fills it with what was written.
LEMMA BoxesRead ==
  ASSUME Boxes, Sides, NEW d \in Dirs, NEW z, NEW o, NEW c, NEW l, NEW m, NEW a, NEW b,
         ReadOne(d, z, o, c, l, m, a, b), called' = called
  PROVE  Boxes'
<1>1. /\ inbox = [x \in Dirs |-> inbox[x]] /\ called = [x \in Dirs |-> called[x]]
      /\ due = [x \in Dirs |-> due[x]]
  BY Zenon DEF Boxes
<1>2. PICK i : i = [cs |-> o.cs, ts |-> o.ts, sid |-> o.sid, msg |-> o.msg]
  OBVIOUS
<1>3. i # None
  BY <1>2, BoxFull
<1>4. inbox' = [inbox EXCEPT ![d] = i] /\ due' = [due EXCEPT ![d] = o] /\ loop' = loop
  BY <1>2, Zenon DEF ReadOne
<1>5. /\ inbox' = [x \in Dirs |-> inbox'[x]] /\ called' = [x \in Dirs |-> called'[x]]
      /\ due' = [x \in Dirs |-> due'[x]]
  BY <1>1, <1>4
<1>6. \A x \in Dirs : /\ inbox'[x] = IF x = d THEN i ELSE inbox[x]
                      /\ due'[x] = IF x = d THEN o ELSE due[x]
  BY <1>1, <1>4
<1>7. ReadAsWritten'
  <2>1. \A x \in Dirs : inbox[x] # None =>
          inbox[x] = [cs |-> due[x].cs, ts |-> due[x].ts, sid |-> due[x].sid, msg |-> due[x].msg]
    BY Zenon DEF Boxes, ReadAsWritten
  <2>2. \A x \in Dirs : inbox'[x] # None =>
          inbox'[x] = [cs |-> due'[x].cs, ts |-> due'[x].ts, sid |-> due'[x].sid, msg |-> due'[x].msg]
    BY <1>2, <1>6, <2>1, Zenon
  <2> QED BY <2>2, Zenon DEF ReadAsWritten
<1>8. CalledAsAsked'
  <2>1. \A x \in Dirs : inbox[x] = None /\ due[x] # None /\ loop[x] # "failed" => called[x] = due[x].wants
    BY Zenon DEF Boxes, CalledAsAsked
  <2>2. \A x \in Dirs : inbox'[x] = None /\ due'[x] # None /\ loop'[x] # "failed" =>
                        called'[x] = due'[x].wants
    <3> SUFFICES ASSUME NEW x \in Dirs, inbox'[x] = None, due'[x] # None, loop'[x] # "failed"
                 PROVE  called'[x] = due'[x].wants
      BY Zenon
    <3>1. x # d
      BY <1>3, <1>6, Zenon
    <3>2. inbox'[x] = inbox[x] /\ due'[x] = due[x]
      BY <1>6, <3>1, Zenon
    <3> QED BY <1>4, <2>1, <3>2, Zenon
  <2> QED BY <2>2, Zenon DEF CalledAsAsked
<1> QED BY <1>5, <1>7, <1>8, Zenon DEF Boxes

\* Reading counts what was read.
LEMMA CountsRead ==
  ASSUME Counts, NEW d \in Dirs, NEW size \in Nat, NEW acks \in BOOLEAN,
         count' = [count EXCEPT ![d] = [total |-> count[d].total + size,
                                        fragment |-> IF acks THEN 0 ELSE count[d].fragment + size]]
  PROVE  Counts'
<1>1. count[d].total \in Nat /\ count[d].fragment \in Nat /\ count[d].fragment <= count[d].total
  BY DEF Counts
<1>2. PICK t \in Nat, f \in Nat : /\ t = count[d].total + size
                                  /\ f = (IF acks THEN 0 ELSE count[d].fragment + size)
  BY <1>1
<1>3. f <= t
  BY <1>1, <1>2
<1>4. PICK g : g = [total |-> t, fragment |-> f]
  OBVIOUS
<1>5. g \in [total : Nat, fragment : Nat] /\ g.total = t /\ g.fragment = f
  BY <1>4
<1>6. count' = [count EXCEPT ![d] = g]
  BY <1>2, <1>4, Zenon
<1>7. count \in [Dirs -> [total : Nat, fragment : Nat]]
  BY Zenon DEF Counts
<1>8. count' \in [Dirs -> [total : Nat, fragment : Nat]]
  BY <1>5, <1>6, <1>7
<1>9. \A x \in Dirs : count'[x] = IF x = d THEN g ELSE count[x]
  BY <1>6, <1>7
<1>10. \A x \in Dirs : count'[x].fragment <= count'[x].total
  BY <1>3, <1>5, <1>9, Zenon DEF Counts
<1> QED BY <1>8, <1>10, Zenon DEF Counts

\* Its readers stay readers, and both sides sides.
LEMMA SidesRead ==
  ASSUME Sides, NEW d \in Dirs, NEW e \in Dirs, e = Other(d), NEW z \in Readers, NEW o, NEW c, NEW l, NEW m,
         NEW a, NEW b, ReadOne(d, z, o, c, l, m, a, b), o.cs \in ChunkStreams, Links(l), Links(m)
  PROVE  Sides'
<1>1. link = [x \in Dirs |-> link[x]] /\ r \in [Dirs -> [ChunkStreams -> Readers]]
  BY Zenon DEF Sides
<1>2. d # e /\ Dirs = {d, e}
  BY DEF Dirs, Other
<1>3. link' = [link EXCEPT ![d] = l, ![e] = m]
  BY Zenon DEF ReadOne
<1>4. link' = [x \in Dirs |-> link'[x]] /\ link'[d] = l /\ link'[e] = m
  BY <1>1, <1>2, <1>3
<1>5. \A x \in Dirs : Links(link'[x])
  BY <1>2, <1>4
<1>6. PICK g \in Readers : g = Complete(z)
  BY Completed
<1>7. r' = [r EXCEPT ![d][o.cs] = g]
  BY <1>6, Zenon DEF ReadOne
<1>8. r' \in [Dirs -> [ChunkStreams -> Readers]]
  BY <1>1, <1>7
<1> QED BY <1>4, <1>5, <1>8, Zenon DEF Sides, Links

\* The tables nobody has touched.
LEMMA Untouched ==
  /\ Client /\ UNCHANGED clientVars => Client'
  /\ Streams /\ UNCHANGED sstate => Streams'
  /\ Loops /\ UNCHANGED loop => Loops'
  /\ Peers /\ UNCHANGED peer => Peers'
  /\ Counts /\ UNCHANGED count => Counts'
  /\ Drops /\ UNCHANGED ignored => Drops'
  /\ Sides /\ UNCHANGED <<link, r>> => Sides'
<1>1. Client /\ UNCHANGED clientVars => Client'
  BY Zenon DEF Client, clientVars
<1>2. Streams /\ UNCHANGED sstate => Streams'
  BY Zenon DEF Streams
<1>3. Loops /\ UNCHANGED loop => Loops'
  BY Zenon DEF Loops
<1>4. Peers /\ UNCHANGED peer => Peers'
  BY Zenon DEF Peers
<1>5. Counts /\ UNCHANGED count => Counts'
  BY Zenon DEF Counts
<1>6. Drops /\ UNCHANGED ignored => Drops'
  BY Zenon DEF Drops
<1>7. Sides /\ UNCHANGED <<link, r>> => Sides'
  BY Zenon DEF Sides, Links
<1> QED BY <1>1, <1>2, <1>3, <1>4, <1>5, <1>6, <1>7, Zenon

\* Some loop ends, but not by failing.
LEMMA LoopEnds ==
  ASSUME Loops, NEW d \in Dirs, NEW why \in {"refused", "lost"}, loop' = [loop EXCEPT ![d] = why]
  PROVE  /\ Loops' /\ loop'[d] = why /\ \A e \in Dirs : e # d => loop'[e] = loop[e]
<1>1. loop \in [Dirs -> {"running", "refused", "lost", "failed"}] /\ loop["up"] # "failed"
      /\ (IgnoreNotExist /\ MaxCalls <= 2 * Threshold => loop["down"] # "failed")
  BY Zenon DEF Loops
<1>2. loop' \in [Dirs -> {"running", "refused", "lost", "failed"}]
  BY <1>1
<1>3. loop'[d] = why /\ \A e \in Dirs : e # d => loop'[e] = loop[e]
  BY <1>1
<1>4. \A e \in Dirs : loop'[e] = "failed" => loop[e] = "failed"
  BY <1>1
<1>5. "up" \in Dirs /\ "down" \in Dirs
  BY DEF Dirs
<1> QED BY <1>1, <1>2, <1>3, <1>4, <1>5, Zenon DEF Loops

\* What an end that has handled its message stands like is what it stood like.
LEMMA NothingRead ==
  ASSUME NEW d, NEW a, NEW b, inbox[d] = None, Ahead(d, a, b)
  PROVE  OnTheWay(d, r[d], a, link[d], b)
BY Zenon DEF Ahead, Coming

\* A message is read.
LEMMA ReadKeeps ==
  ASSUME IInv, NEW d \in Dirs, Read(d)
  PROVE  IInv'
<1>1. /\ loop[d] = "running" /\ inbox[d] = None /\ link[d].wire # <<>>
      /\ UNCHANGED <<called, peer, ignored, sstate, clientVars>>
      /\ \E n \in TakenForBasicHeader(link[d].wire[1].byte, Len(link[d].wire)) :
           IF n > BasicHeaderLength(link[d].wire[1].byte)
           THEN Ends(d, "lost") /\ UNCHANGED <<link, r, inbox, due, count>>
           ELSE ReadChunk(d, n)
  BY Zenon DEF Read
<1>2. PICK n \in TakenForBasicHeader(link[d].wire[1].byte, Len(link[d].wire)) :
        IF n > BasicHeaderLength(link[d].wire[1].byte)
        THEN Ends(d, "lost") /\ UNCHANGED <<link, r, inbox, due, count>>
        ELSE ReadChunk(d, n)
  BY <1>1, Zenon
<1>3. Client /\ Streams /\ Loops /\ Peers /\ Counts /\ Drops /\ Sides /\ Boxes
  BY Zenon DEF IInv, Shape
<1>4. PICK a \in Standings, b \in Standings, p \in Standings, q \in Standings : Ordered(a, b, p, q)
  BY Zenon DEF IInv, Order
<1>5. Client' /\ Streams' /\ Peers' /\ Drops'
  BY <1>1, <1>3, Untouched, Zenon
<1>6. "up" \in Dirs /\ "down" \in Dirs /\ Dirs = {"up", "down"} /\ Other("up") = "down" /\ Other("down") = "up"
  BY DEF Dirs, Other
<1>7. CASE n > BasicHeaderLength(link[d].wire[1].byte)
  <2>1. /\ loop' = [loop EXCEPT ![d] = "lost"] /\ link' = link /\ r' = r /\ inbox' = inbox /\ due' = due
        /\ count' = count
    BY <1>2, <1>7, Zenon DEF Ends
  <2>2. Loops' /\ loop'[d] = "lost" /\ \A e \in Dirs : e # d => loop'[e] = loop[e]
    BY <1>3, <2>1, LoopEnds
  <2>3. Counts' /\ Sides'
    BY <1>3, <2>1, Untouched, Zenon
  <2>4. CalledAsAsked'
    <3>1. \A x \in Dirs : inbox[x] = None /\ due[x] # None /\ loop[x] # "failed" => called[x] = due[x].wants
      BY <1>3, Zenon DEF Boxes, CalledAsAsked
    <3>2. \A x \in Dirs : loop'[x] # "failed" => loop[x] # "failed"
      BY <1>1, <2>2
    <3>3. called' = called
      BY <1>1, Zenon
    <3> QED BY <2>1, <3>1, <3>2, <3>3, Zenon DEF CalledAsAsked
  <2>5. Boxes'
    <3>1. called' = called
      BY <1>1, Zenon
    <3> QED BY <1>3, <2>1, <2>4, <3>1, Zenon DEF Boxes, ReadAsWritten
  <2>6. Ordered(a, b, p, q)'
    BY <1>1, <1>3, <1>4, <2>1, LostStep, Zenon
  <2> QED BY <1>4, <1>5, <2>2, <2>3, <2>5, <2>6, Zenon DEF IInv, Shape, Order
<1>8. CASE ~(n > BasicHeaderLength(link[d].wire[1].byte))
  <2>1. ReadChunk(d, n)
    BY <1>2, <1>8, Zenon
  <2>2. PICK at \in Standings, will \in Standings :
          /\ d = "up" => at = a /\ will = b
          /\ d = "down" => at = p /\ will = q
          /\ OnTheWay(d, r[d], at, link[d], will)
    <3>1. CASE d = "up"
      <4>1. Ahead("up", a, b)
        BY <1>1, <1>4, <3>1, Zenon DEF Ordered, Up, Running
      <4>2. OnTheWay("up", r["up"], a, link["up"], b)
        BY <1>1, <3>1, <4>1, NothingRead
      <4>3. d # "down"
        BY <3>1
      <4> QED BY <3>1, <4>2, <4>3, Zenon
    <3>2. CASE d = "down"
      <4>1. Ahead("down", p, q)
        BY <1>1, <1>4, <3>2, Zenon DEF Ordered, Down, Running
      <4>2. OnTheWay("down", r["down"], p, link["down"], q)
        BY <1>1, <3>2, <4>1, NothingRead
      <4>3. d # "up"
        BY <3>2
      <4> QED BY <3>2, <4>2, <4>3, Zenon
    <3> QED BY <1>6, <3>1, <3>2
  <2>3. Ready(d, at, will, n)
    <3>1. Links(link[d]) /\ r[d] \in [ChunkStreams -> Readers]
      BY <1>3 DEF Sides
    <3> QED BY <1>1, <1>8, <2>2, <3>1, Zenon DEF Ready
  <2>4. PICK z \in Readers, size \in Nat, acks \in BOOLEAN : \E o, c, l, number :
           Found(d, at, will, z, size, acks, o, c, l, number)
    BY <2>1, <2>3, ReadFound
  <2>5. PICK o, c, l, number : Found(d, at, will, z, size, acks, o, c, l, number)
    BY <2>4
  <2>6. PICK e \in Dirs : e = Other(d) /\ e # d
    BY <1>6
  <2>7. PICK m : m = IF acks THEN Put(link[e], AckOf(number)) ELSE link[e]
    OBVIOUS
  <2>8. link' = [link EXCEPT ![d] = l, ![e] = m]
    <3>1. link' = [link EXCEPT ![d] = l, ![e] = IF acks THEN Put(@, AckOf(number)) ELSE @]
      BY <2>5, <2>6, Zenon DEF Found
    <3>2. link = [x \in Dirs |-> link[x]] /\ e # d
      BY <1>3, <2>6, Zenon DEF Sides
    <3>3. /\ [link EXCEPT ![d] = l, ![e] = Put(@, AckOf(number))]
               = [link EXCEPT ![d] = l, ![e] = Put(link[e], AckOf(number))]
          /\ [link EXCEPT ![d] = l, ![e] = @] = [link EXCEPT ![d] = l, ![e] = link[e]]
      BY <3>2
    <3>4. CASE acks
      <4>1. link' = [link EXCEPT ![d] = l, ![e] = Put(@, AckOf(number))]
        BY <3>1, <3>4
      <4>2. m = Put(link[e], AckOf(number))
        BY <2>7, <3>4, Zenon
      <4> QED BY <3>3, <4>1, <4>2, Zenon
    <3>5. CASE ~acks
      <4>1. link' = [link EXCEPT ![d] = l, ![e] = @]
        BY <3>1, <3>5
      <4>2. m = link[e]
        BY <2>7, <3>5, Zenon
      <4> QED BY <3>3, <4>1, <4>2, Zenon
    <3> QED BY <3>4, <3>5, Zenon
  <2>9. ReadOne(d, z, o, c, l, m, at, will)
    BY <2>5, <2>6, <2>8, Zenon DEF Found, ReadOne
  <2>10. Links(m)
    <3>1. Links(link[e])
      BY <1>3, Zenon DEF Sides
    <3>2. Sendable(AckOf(number))
      BY AckComes, Zenon DEF Met
    <3>3. Links(Put(link[e], AckOf(number)))
      BY <3>1, <3>2, PutIs
    <3> QED BY <2>7, <3>1, <3>3, Zenon
  <2>11. Counts'
    <3>1. count' = [count EXCEPT ![d] = [total |-> count[d].total + size,
                                         fragment |-> IF acks THEN 0 ELSE count[d].fragment + size]]
      BY <2>5, Zenon DEF Found
    <3> QED BY <1>3, <3>1, CountsRead
  <2>12. Sides'
    <3>1. o.cs \in ChunkStreams /\ Links(l)
      BY <2>5, Zenon DEF Found
    <3> QED BY <1>3, <2>6, <2>9, <2>10, <3>1, SidesRead
  <2>13. Boxes'
    BY <1>1, <1>3, <2>9, BoxesRead, Zenon
  <2>14. Loops'
    <3>1. loop' = loop
      BY <2>5, Zenon DEF Found
    <3> QED BY <1>3, <3>1, Untouched, Zenon
  <2>15. Ordered(a, b, p, q)'
    <3>1. UNCHANGED <<ignored, sstate, clientVars>>
      BY <1>1, Zenon
    <3>2. CASE d = "up"
      <4>1. e = "down" /\ at = a /\ will = b /\ Links(link["down"]) /\ Running("up")
        BY <1>1, <1>3, <1>6, <2>2, <2>6, <3>2, Zenon DEF Sides, Running
      <4>2. Grown("down", link["down"], q, m, q)
        <5>1. Grown("down", link["down"], q, Put(link["down"], AckOf(number)), q)
          BY <4>1, AckComes, GrownPut
        <5>2. Grown("down", link["down"], q, link["down"], q)
          BY <4>1, GrownNot
        <5> QED BY <2>7, <4>1, <5>1, <5>2, Zenon
      <4>3. ReadOne("up", z, o, c, l, m, a, b)
        BY <2>9, <3>2, <4>1, Zenon
      <4> QED BY <1>3, <1>4, <3>1, <4>1, <4>2, <4>3, ServerReads, Zenon
    <3>3. CASE d = "down"
      <4>1. e = "up" /\ at = p /\ will = q /\ Links(link["up"]) /\ Running("down")
        BY <1>1, <1>3, <1>6, <2>2, <2>6, <3>3, Zenon DEF Sides, Running
      <4>2. Running("up") => Grown("up", link["up"], b, m, b)
        <5> SUFFICES ASSUME Running("up") PROVE Grown("up", link["up"], b, m, b)
          OBVIOUS
        <5>1. Agrees(b.s)
          BY <1>4, Zenon DEF Ordered, Up
        <5>2. b.s[ControlStream] # "none"
          BY <5>1 DEF Agrees
        <5>3. Grown("up", link["up"], b, Put(link["up"], AckOf(number)), b)
          BY <4>1, <5>2, AckGoes, GrownPut
        <5>4. Grown("up", link["up"], b, link["up"], b)
          BY <4>1, GrownNot
        <5> QED BY <2>7, <4>1, <5>3, <5>4, Zenon
      <4>3. ReadOne("down", z, o, c, l, m, p, q)
        BY <2>9, <3>3, <4>1, Zenon
      <4> QED BY <1>3, <1>4, <3>1, <4>1, <4>2, <4>3, ClientReads, Zenon
    <3> QED BY <1>6, <3>2, <3>3
  <2> QED BY <1>4, <1>5, <2>11, <2>12, <2>13, <2>14, <2>15, Zenon DEF IInv, Shape, Order
<1> QED BY <1>7, <1>8

-----------------------------------------------------------------------------
(* The beginning. *)

\* A new side of the connection, and new readers.
LEMMA NewEnds ==
  ASSUME NEW d, NEW a \in Standings
  PROVE  LET l == [w |-> [c \in ChunkStreams |-> NewWriter], wire |-> <<>>, under |-> <<>>]
             rr == [c \in ChunkStreams |-> NewReader]
         IN  Links(l) /\ rr \in [ChunkStreams -> Readers] /\ OnTheWay(d, rr, a, l, a)
<1>1. PICK x : x = NewWriter
  OBVIOUS
<1>2. PICK y : y = NewReader
  OBVIOUS
<1>3. x \in Writers
  BY <1>1, StampAssumption, WireAssumption, ZeroStamp DEF NewWriter, Writers, Clock, Lengths, Byte, ControlStream
<1>4. y \in Readers
  BY <1>2, ZeroStamp DEF NewReader, Readers, Lengths, Byte, ControlStream
<1>5. \A c : Level(c, x, y)
  BY <1>1, <1>2 DEF Level, NewWriter, NewReader
<1>6. PICK w : w = [c \in ChunkStreams |-> x]
  OBVIOUS
<1>7. PICK rr : rr = [c \in ChunkStreams |-> y]
  OBVIOUS
<1>8. w \in [ChunkStreams -> Writers] /\ rr \in [ChunkStreams -> Readers]
  BY <1>3, <1>4, <1>6, <1>7
<1>9. Levels(w, rr)
  <2>1. \A c \in ChunkStreams : w[c] = x /\ rr[c] = y
    BY <1>6, <1>7
  <2> QED BY <1>5, <1>8, <2>1, Zenon DEF Levels
<1>10. PICK l : l = [w |-> w, wire |-> <<>>, under |-> <<>>]
  OBVIOUS
<1>11. l.w = w /\ l.wire = <<>> /\ l.under = <<>>
  BY <1>10
<1>12. Links(l)
  BY <1>8, <1>10, <1>11, CatNothing, Zenon DEF Links
<1>13. PICK e : e = [r |-> rr, wire |-> <<>>, at |-> a]
  OBVIOUS
<1>14. e.r = rr /\ e.wire = <<>> /\ e.at = a
  BY <1>13
<1>15. Leads(d, e, <<>>, e)
  BY <1>14, LeadsNowhere
<1>16. OnTheWay(d, rr, a, l, a)
  BY <1>9, <1>11, <1>14, <1>15, Zenon DEF OnTheWay
<1> QED BY <1>1, <1>2, <1>6, <1>7, <1>8, <1>10, <1>12, <1>16, Zenon

\* The invariant holds when nothing has been sent.
LEMMA InitKeeps ==
  ASSUME Init
  PROVE  IInv
<1>1. "up" \in Dirs /\ "down" \in Dirs /\ Dirs = {"up", "down"}
  BY DEF Dirs
<1>2. phase = "new" /\ stream = "none" /\ calls = 0
  BY Zenon DEF Init
<1>3. PICK l : l = [w |-> [c \in ChunkStreams |-> NewWriter], wire |-> <<>>, under |-> <<>>]
  OBVIOUS
<1>4. PICK rr : rr = [c \in ChunkStreams |-> NewReader]
  OBVIOUS
<1>5. link = [d \in Dirs |-> l] /\ r = [d \in Dirs |-> rr]
  BY <1>3, <1>4, Zenon DEF Init
<1>6. /\ inbox = [d \in Dirs |-> None] /\ due = [d \in Dirs |-> None] /\ called = [d \in Dirs |-> None]
      /\ loop = [d \in Dirs |-> "running"] /\ ignored = [d \in Dirs |-> 0]
      /\ peer = [d \in Dirs |-> [chunk |-> 128, window |-> MaxWindow]]
      /\ count = [d \in Dirs |-> [total |-> 0, fragment |-> 0]]
      /\ sstate = [s \in StreamIDs |-> IF s = ControlStream THEN "NotConnected" ELSE "none"]
  BY Zenon DEF Init
<1>7. Streams
  BY <1>6, ZeroStamp DEF Streams, States, StreamIDs
<1>8. PICK a : a = [s |-> sstate, n |-> 0, k |-> 0, g |-> FALSE]
  OBVIOUS
<1>9. a \in Standings /\ a.s = sstate /\ a.n = 0 /\ a.k = 0 /\ ~a.g
  <2>1. sstate \in [StreamIDs -> States]
    BY <1>7, Zenon DEF Streams
  <2> QED BY <1>8, <2>1 DEF Standings
<1>10. Links(l) /\ rr \in [ChunkStreams -> Readers] /\ \A d : OnTheWay(d, rr, a, l, a)
  BY <1>3, <1>4, <1>9, NewEnds
<1>11. Client
  BY <1>2, WireAssumption DEF Client
<1>12. Loops
  BY <1>1, <1>6 DEF Loops
<1>13. Peers
  <2>1. 128 <= MaxChunkSize /\ MaxWindow \in Int
    BY WireAssumption
  <2> QED BY <1>6, <2>1 DEF Peers
<1>14. Counts
  BY <1>6 DEF Counts
<1>15. Drops
  <2>1. Threshold \in Nat
    BY WireAssumption
  <2> QED BY <1>6, <2>1 DEF Drops
<1>16. Sides
  <2>1. link = [d \in Dirs |-> link[d]] /\ \A d \in Dirs : link[d] = l
    BY <1>5
  <2>2. r \in [Dirs -> [ChunkStreams -> Readers]]
    BY <1>5, <1>10
  <2> QED BY <1>10, <2>1, <2>2, Zenon DEF Sides, Links
<1>17. Boxes
  <2>1. /\ inbox = [d \in Dirs |-> inbox[d]] /\ due = [d \in Dirs |-> due[d]]
        /\ called = [d \in Dirs |-> called[d]]
        /\ \A d \in Dirs : inbox[d] = None /\ due[d] = None
    BY <1>6
  <2> QED BY <2>1, Zenon DEF Boxes, ReadAsWritten, CalledAsAsked
<1>18. Ordered(a, a, a, a)
  <2>1. \A d \in Dirs : link[d] = l /\ r[d] = rr /\ inbox[d] = None /\ ignored[d] = 0
    BY <1>5, <1>6
  <2>2. Ahead("up", a, a) /\ Ahead("down", a, a)
    BY <1>1, <1>10, <2>1, Zenon DEF Ahead, Coming
  <2>3. Agrees(a.s)
    BY <1>2, <1>6, <1>9, ZeroStamp DEF Agrees, StateOf, StreamIDs
  <2>4. Numbers(a, a, a)
    BY <1>1, <1>2, <1>9, <2>1 DEF Numbers, Counted, Bound
  <2>5. Both(a, a)
    BY <1>9 DEF Both
  <2> QED BY <1>9, <2>2, <2>3, <2>4, <2>5, Zenon DEF Ordered, Up, Down
<1> QED BY <1>7, <1>9, <1>11, <1>12, <1>13, <1>14, <1>15, <1>16, <1>17, <1>18, Zenon DEF IInv, Shape, Order

-----------------------------------------------------------------------------
(* The client's calls. *)

\* What the client knows of a server that will stand like b, standing like p.
Knows(b, p) == Agrees(b.s) /\ Counted(p.k, b.k) /\ Bound(b.n)

\* The standings of the ends when the client may write.
Finds(a, b, p, q) ==
  /\ a \in Standings /\ b \in Standings /\ p \in Standings /\ q \in Standings
  /\ Ordered(a, b, p, q) /\ Running("up") /\ Running("down")
  /\ Knows(b, p) /\ Links(link["up"]) /\ Shape

\* There are some.
LEMMA Found4 ==
  ASSUME IInv, ClientMay
  PROVE  \E a, b, p, q : Finds(a, b, p, q)
<1>1. PICK a \in Standings, b \in Standings, p \in Standings, q \in Standings : Ordered(a, b, p, q)
  BY Zenon DEF IInv, Order
<1>2. "up" \in Dirs /\ "down" \in Dirs
  BY DEF Dirs
<1>3. Running("up") /\ Running("down")
  BY <1>2, Zenon DEF ClientMay, Running
<1>4. Knows(b, p)
  BY <1>1, <1>3, Zenon DEF Ordered, Up, Down, Numbers, Knows
<1>5. Shape /\ Links(link["up"])
  BY <1>2, Zenon DEF IInv, Shape, Sides
<1> QED BY <1>1, <1>3, <1>4, <1>5, Zenon DEF Finds

\* The client has written what the server can handle.
LEMMA ClientKeeps ==
  ASSUME NEW a, NEW b, NEW p, NEW q, NEW c \in Standings, NEW m, Finds(a, b, p, q), Below(b, c),
         Grown("up", link["up"], b, m, c), link' = [link EXCEPT !["up"] = m],
         UNCHANGED <<readVars, sstate>>, Client', Knows(c, p)'
  PROVE  IInv'
<1>1. /\ r' = r /\ inbox' = inbox /\ due' = due /\ called' = called /\ loop' = loop /\ peer' = peer
      /\ count' = count /\ ignored' = ignored /\ sstate' = sstate
  BY DEF readVars
<1>2. Client /\ Streams /\ Loops /\ Peers /\ Counts /\ Drops /\ Sides /\ Boxes
  BY Zenon DEF Finds, Shape
<1>3. Streams' /\ Loops' /\ Peers' /\ Counts' /\ Drops'
  BY <1>1, <1>2, Untouched, Zenon
<1>4. Sides'
  <2>1. "up" \in Dirs /\ Links(m)
    BY Zenon DEF Dirs, Grown
  <2> QED BY <1>1, <1>2, <2>1, SidesKept
<1>5. Boxes'
  BY <1>1, <1>2, Zenon DEF Boxes, ReadAsWritten, CalledAsAsked
<1>6. Ordered(a, c, p, q)'
  <2>1. /\ a \in Standings /\ b \in Standings /\ p \in Standings /\ q \in Standings
        /\ Ordered(a, b, p, q) /\ Running("up") /\ Running("down")
    BY Zenon DEF Finds
  <2>2. Agrees(c.s)' /\ Counted(p.k, c.k)' /\ Bound(c.n)'
    BY Zenon DEF Knows
  <2> QED BY <1>2, <2>1, <2>2, ClientStep
<1>7. a \in Standings /\ p \in Standings /\ q \in Standings
  BY Zenon DEF Finds
<1> QED BY <1>3, <1>4, <1>5, <1>6, <1>7, Zenon DEF IInv, Shape, Order

\* The client has written one message.
LEMMA SendsKeeps ==
  ASSUME NEW a, NEW b, NEW p, NEW q, NEW c, NEW o, Finds(a, b, p, q), Met("up", b, o, c),
         Sends(o), UNCHANGED <<readVars, sstate>>, Client', Knows(c, p)'
  PROVE  IInv'
<1>1. Links(link["up"])
  BY Zenon DEF Finds
<1>2. Grown("up", link["up"], b, Put(link["up"], o), c)
  BY <1>1, GrownPut
<1>3. Below(b, c) /\ c \in Standings
  BY Zenon DEF Met
<1>4. link' = [link EXCEPT !["up"] = Put(link["up"], o)]
  BY DEF Sends
<1> QED BY <1>2, <1>3, <1>4, ClientKeeps

\* Connect.
LEMMA ConnectKeeps ==
  ASSUME IInv, Connect
  PROVE  IInv'
<1>1. PICK a, b, p, q : Finds(a, b, p, q)
  BY Found4, Zenon DEF Connect
<1>2. Knows(b, p) /\ b \in Standings /\ Client /\ b.s \in [StreamIDs -> States] /\ b.k \in Nat
  BY <1>1 DEF Finds, Shape, Standings
<1>3. phase = "new" /\ phase' = "connecting" /\ stream' = stream /\ calls' = calls
  BY Zenon DEF Connect
<1>4. stream = "none" /\ b.s[ControlStream] = "NotConnected" /\ b.k = 0 /\ b.s[DataStream] = "none" /\ p.k = 0
  BY <1>2, <1>3 DEF Client, Knows, Agrees, Counted, StateOf
<1>5. PICK o : /\ o = Written(CommandChunkStream, 0, ControlStream,
                              Command("connect", 1, [body |-> "connect", command |-> "app"]),
                              Call("OnConnect", 0, [body |-> "connect", command |-> "app"]))
               /\ Sends(o)
  BY Zenon DEF Connect
<1>6. PICK c \in Standings : /\ Met("up", b, o, c)
                             /\ c.s = [b.s EXCEPT ![ControlStream] = "Connected"] /\ c.n = b.n /\ c.k = 1
  BY <1>2, <1>4, <1>5, ConnectGoes
<1>7. UNCHANGED <<readVars, sstate>>
  BY Zenon DEF Connect, readVars
<1>8. Client'
  BY <1>2, <1>3, <1>4 DEF Client
<1>9. Knows(c, p)'
  <2>1. c.s[ControlStream] = "Connected" /\ c.s[DataStream] = "none"
    BY <1>2, <1>4, <1>6, ZeroStamp
  <2>2. Agrees(c.s)'
    BY <1>3, <1>4, <2>1 DEF Agrees, StateOf
  <2>3. Counted(p.k, c.k)'
    BY <1>3, <1>4, <1>6 DEF Counted
  <2>4. Bound(c.n)'
    BY <1>2, <1>3, <1>4, <1>6 DEF Knows, Bound
  <2> QED BY <2>2, <2>3, <2>4, Zenon DEF Knows
<1> QED BY <1>1, <1>5, <1>6, <1>7, <1>8, <1>9, SendsKeeps, Zenon

\* DeleteStream.
LEMMA DeleteKeeps ==
  ASSUME IInv, DeleteStream
  PROVE  IInv'
<1>1. PICK a, b, p, q : Finds(a, b, p, q)
  BY Found4, Zenon DEF DeleteStream
<1>2. Knows(b, p) /\ b \in Standings /\ Client /\ b.s \in [StreamIDs -> States] /\ b.k \in Nat /\ b.n \in Nat
  BY <1>1 DEF Finds, Shape, Standings
<1>3. /\ phase = "connected" /\ stream # "none" /\ calls < MaxCalls
      /\ phase' = phase /\ stream' = "none" /\ calls' = calls + 1
  BY Zenon DEF DeleteStream
<1>4. b.s[ControlStream] = "Connected" /\ b.s[DataStream] # "none"
  BY <1>2, <1>3 DEF Client, Knows, Agrees, StateOf
<1>5. PICK o : /\ o = Written(CommandChunkStream, 0, ControlStream,
                              Command("deleteStream", 0, [body |-> "deleteStream", id |-> DataStream]),
                              Call("OnDeleteStream", 0, [body |-> "deleteStream", id |-> DataStream]))
               /\ Sends(o)
  BY Zenon DEF DeleteStream
<1>6. PICK c \in Standings : /\ Met("up", b, o, c)
                             /\ c.s = [b.s EXCEPT ![DataStream] = "none"] /\ c.n = b.n /\ c.k = b.k
  BY <1>2, <1>4, <1>5, DeleteGoes
<1>7. UNCHANGED <<readVars, sstate>>
  BY Zenon DEF DeleteStream, readVars
<1>8. Client'
  <2>1. MaxCalls \in Nat
    BY WireAssumption
  <2> QED BY <1>2, <1>3, <2>1 DEF Client
<1>9. Knows(c, p)'
  <2>1. c.s[ControlStream] = "Connected" /\ c.s[DataStream] = "none"
    BY <1>2, <1>4, <1>6, ZeroStamp
  <2>2. Agrees(c.s)'
    BY <1>3, <2>1 DEF Agrees, StateOf
  <2>3. Counted(p.k, c.k)'
    BY <1>2, <1>3, <1>6 DEF Knows, Counted
  <2>4. Bound(c.n)'
    BY <1>2, <1>3, <1>6 DEF Knows, Bound, Client
  <2> QED BY <2>2, <2>3, <2>4, Zenon DEF Knows
<1> QED BY <1>1, <1>5, <1>6, <1>7, <1>8, <1>9, SendsKeeps, Zenon

\* publish and play.
LEMMA OpenKeeps ==
  ASSUME IInv, NEW y \in Openings, NEW full \in BOOLEAN, Open(y, full)
  PROVE  IInv'
<1>1. PICK a, b, p, q : Finds(a, b, p, q)
  BY Found4, Zenon DEF Open
<1>2. Knows(b, p) /\ b \in Standings /\ Client /\ b.s \in [StreamIDs -> States] /\ b.k \in Nat /\ b.n \in Nat
  BY <1>1 DEF Finds, Shape, Standings
<1>3. stream = "open" /\ phase' = phase /\ stream' = y.body /\ calls' = calls /\ y.body \in {"publish", "play"}
  <2>1. y.body \in {"publish", "play"}
    BY InputAssumption
  <2> QED BY <2>1, Zenon DEF Open
<1>4. phase = "connected" /\ b.s[ControlStream] = "Connected" /\ b.s[DataStream] = "Inactive"
  BY <1>2, <1>3 DEF Client, Knows, Agrees, StateOf
<1>5. PICK o, c : /\ Sends(o) /\ c \in Standings /\ Met("up", b, o, c)
                  /\ c.s = [b.s EXCEPT ![DataStream] = IF y.body = "publish" THEN "Publish" ELSE "Play"]
                  /\ c.n = b.n + 1 /\ c.k = b.k
  <2>1. PICK whole : whole = Command(y.body, 0, y)
    OBVIOUS
  <2>2. PICK msg : msg = IF full THEN whole ELSE [whole EXCEPT !.body = SubSeq(@, 1, 2)]
    OBVIOUS
  <2>3. PICK meant : meant = IF full THEN y
                             ELSE IF y.body = "publish" THEN [y EXCEPT !.kind = "live"]
                             ELSE [y EXCEPT !.start = 0]
    OBVIOUS
  <2>4. PICK o : o = Written(CommandChunkStream, 0, DataStream, msg,
                             Call(IF y.body = "publish" THEN "OnPublish" ELSE "OnPlay", 0,
                                  [stream |-> DataStream, cmd |-> meant]))
    OBVIOUS
  <2>5. Sends(o)
    BY <2>1, <2>2, <2>3, <2>4 DEF Open
  <2>6. \E c \in Standings :
          /\ Met("up", b, o, c)
          /\ c.s = [b.s EXCEPT ![DataStream] = IF y.body = "publish" THEN "Publish" ELSE "Play"]
          /\ c.n = b.n + 1 /\ c.k = b.k
    BY <1>2, <1>4, <2>1, <2>2, <2>3, <2>4, OpeningGoes
  <2> QED BY <2>5, <2>6, Zenon
<1>6. UNCHANGED <<readVars, sstate>>
  BY Zenon DEF Open, readVars
<1>7. Client'
  BY <1>2, <1>3, <1>4 DEF Client
<1>8. Knows(c, p)'
  <2>1. /\ c.s[ControlStream] = "Connected"
        /\ c.s[DataStream] = IF y.body = "publish" THEN "Publish" ELSE "Play"
    BY <1>2, <1>4, <1>5, ZeroStamp
  <2>2. Agrees(c.s)'
    BY <1>3, <1>4, <2>1 DEF Agrees, StateOf
  <2>3. Counted(p.k, c.k)'
    BY <1>2, <1>3, <1>5 DEF Knows, Counted
  <2>4. Bound(c.n)'
    BY <1>2, <1>3, <1>4, <1>5 DEF Knows, Bound, Client
  <2> QED BY <2>2, <2>3, <2>4, Zenon DEF Knows
<1> QED BY <1>1, <1>5, <1>6, <1>7, <1>8, SendsKeeps, Zenon

\* A call that changes nothing but the number of calls.
LEMMA CallKeeps ==
  ASSUME IInv, NEW a, NEW b, NEW p, NEW q, NEW c, NEW o, Finds(a, b, p, q), Met("up", b, o, c),
         c.s = b.s, c.n = b.n, c.k = b.k, Sends(o), UNCHANGED <<readVars, sstate>>,
         calls < MaxCalls, calls' = calls + 1, UNCHANGED <<phase, stream>>
  PROVE  IInv'
<1>1. Knows(b, p) /\ b \in Standings /\ Client /\ b.n \in Nat
  BY DEF Finds, Shape, Standings
<1>2. MaxCalls \in Nat
  BY WireAssumption
<1>3. Client'
  BY <1>1, <1>2 DEF Client
<1>4. Agrees(c.s)'
  BY <1>1 DEF Knows, Agrees
<1>5. Counted(p.k, c.k)'
  BY <1>1 DEF Knows, Counted
<1>6. Bound(c.n)'
  BY <1>1 DEF Knows, Bound, Client
<1> QED BY <1>3, <1>4, <1>5, <1>6, SendsKeeps, Zenon DEF Knows

\* Media.
LEMMA MediaKeeps ==
  ASSUME IInv, NEW f \in Media, WriteMedia(f.cs, f.ts, f.kind)
  PROVE  IInv'
<1>1. PICK a, b, p, q : Finds(a, b, p, q)
  BY Found4, Zenon DEF WriteMedia
<1>2. Knows(b, p) /\ b \in Standings /\ Client
  BY <1>1, Zenon DEF Finds, Shape
<1>3. /\ stream # "none" /\ calls < MaxCalls /\ calls' = calls + 1
      /\ UNCHANGED <<phase, stream>> /\ UNCHANGED <<readVars, sstate>>
  BY Zenon DEF WriteMedia, readVars
<1>4. PICK published \in BOOLEAN : published = (stream = "publish")
  OBVIOUS
<1>5. /\ b.s[DataStream] \in {"Inactive", "Publish", "Play"}
      /\ published <=> b.s[DataStream] = "Publish"
  <2>1. phase = "connected" /\ stream \in {"open", "publish", "play"}
    BY <1>2, <1>3 DEF Client
  <2>2. b.s[DataStream] = StateOf[stream]
    BY <1>2, <2>1 DEF Knows, Agrees
  <2>3. StateOf["open"] = "Inactive" /\ StateOf["publish"] = "Publish" /\ StateOf["play"] = "Play"
    BY DEF StateOf
  <2> QED BY <1>4, <2>1, <2>2, <2>3
<1>6. PICK o : Sends(o) /\ Met("up", b, o, b)
  BY <1>2, <1>4, <1>5, MediaGoes DEF WriteMedia
<1> QED BY <1>1, <1>3, <1>6, CallKeeps

\* Control messages on the data stream.
LEMMA ControlKeeps ==
  ASSUME IInv, NEW m \in Controls, WriteControl(m)
  PROVE  IInv'
<1>1. PICK a, b, p, q : Finds(a, b, p, q)
  BY Found4, Zenon DEF WriteControl
<1>2. Knows(b, p) /\ b \in Standings /\ Client
  BY <1>1, Zenon DEF Finds, Shape
<1>3. /\ stream # "none" /\ calls < MaxCalls /\ calls' = calls + 1
      /\ UNCHANGED <<phase, stream>> /\ UNCHANGED <<readVars, sstate>>
  BY Zenon DEF WriteControl, readVars
<1>4. b.s[DataStream] # "none"
  BY <1>2, <1>3 DEF Client, Knows, Agrees, StateOf
<1>5. PICK o : Sends(o) /\ Met("up", b, o, b)
  BY <1>2, <1>4, ControlGoes, Zenon DEF WriteControl
<1> QED BY <1>1, <1>3, <1>5, CallKeeps

\* Commands on the control stream.
LEMMA CommandKeeps ==
  ASSUME IInv, NEW y \in Commands, WriteCommand(y)
  PROVE  IInv'
<1>1. PICK a, b, p, q : Finds(a, b, p, q)
  BY Found4, Zenon DEF WriteCommand
<1>2. Knows(b, p) /\ b \in Standings /\ Client
  BY <1>1, Zenon DEF Finds, Shape
<1>3. /\ phase \in {"connecting", "connected"} /\ calls < MaxCalls /\ calls' = calls + 1
      /\ UNCHANGED <<phase, stream>> /\ UNCHANGED <<readVars, sstate>>
  BY Zenon DEF WriteCommand, readVars
<1>4. b.s[ControlStream] = "Connected"
  BY <1>2, <1>3 DEF Knows, Agrees
<1>5. PICK o, c : Sends(o) /\ Met("up", b, o, c) /\ c.s = b.s /\ c.n = b.n /\ c.k = b.k
  BY <1>2, <1>4, NamedGoes, Zenon DEF WriteCommand
<1> QED BY <1>1, <1>3, <1>5, CallKeeps

\* CreateStream, with or without a chunk size before it.
LEMMA CreateKeeps ==
  ASSUME IInv, NEW size \in Sizes \cup {0}, CreateStream(size)
  PROVE  IInv'
<1>1. PICK a, b, p, q : Finds(a, b, p, q)
  BY Found4, Zenon DEF CreateStream
<1>2. Knows(b, p) /\ b \in Standings /\ Client /\ b.s \in [StreamIDs -> States] /\ b.k \in Nat /\ b.n \in Nat
      /\ Links(link["up"])
  BY <1>1 DEF Finds, Shape, Standings
<1>3. /\ phase = "connected" /\ stream = "none" /\ calls < MaxCalls
      /\ phase' = "creating" /\ stream' = stream /\ calls' = calls + 1
      /\ UNCHANGED <<readVars, sstate>>
  BY Zenon DEF CreateStream, readVars
<1>4. /\ b.s[ControlStream] = "Connected" /\ b.s[DataStream] = "none" /\ b.k # 0
  BY <1>2, <1>3 DEF Knows, Agrees, Counted, StateOf
<1>5. PICK sized : sized = IF size \in {0, peer["up"].chunk} THEN link["up"]
                           ELSE Put(link["up"], Written(ControlChunkStream, 0, ControlStream,
                                      [type |-> "SetChunkSize", size |-> size],
                                      Call("SetChunkSize", 0, size)))
  OBVIOUS
<1>6. PICK o : o = Written(CommandChunkStream, 0, ControlStream,
                           Command("createStream", 2, [body |-> "createStream"]),
                           Call("OnCreateStream", 0, [body |-> "createStream"]))
  OBVIOUS
<1>7. link' = [link EXCEPT !["up"] = Put(sized, o)]
  BY <1>5, <1>6, Zenon DEF CreateStream
<1>8. Grown("up", link["up"], b, sized, b)
  <2>1. CASE size \in {0, peer["up"].chunk}
    BY <1>2, <1>5, <2>1, GrownNot
  <2>2. CASE size \notin {0, peer["up"].chunk}
    <3>1. size \in Sizes
      BY <2>2
    <3>2. b.s[ControlStream] # "none"
      BY <1>4
    <3>3. Met("up", b, Written(ControlChunkStream, 0, ControlStream, [type |-> "SetChunkSize", size |-> size],
                               Call("SetChunkSize", 0, size)), b)
      BY <1>2, <3>1, <3>2, ChunkSizeGoes
    <3>4. sized = Put(link["up"], Written(ControlChunkStream, 0, ControlStream,
                                          [type |-> "SetChunkSize", size |-> size],
                                          Call("SetChunkSize", 0, size)))
      BY <1>5, <2>2, Zenon
    <3> QED BY <1>2, <3>3, <3>4, GrownPut
  <2> QED BY <2>1, <2>2
<1>9. PICK c \in Standings : /\ Met("up", b, o, c)
                             /\ c.s = [b.s EXCEPT ![DataStream] = "Inactive"] /\ c.n = b.n /\ c.k = b.k + 1
  BY <1>2, <1>4, <1>6, CreateGoes
<1>10. Grown("up", link["up"], b, Put(sized, o), c)
  <2>1. Links(sized)
    BY <1>8, Zenon DEF Grown
  <2>2. Grown("up", sized, b, Put(sized, o), c)
    BY <1>9, <2>1, GrownPut
  <2> QED BY <1>8, <2>2, GrownOn
<1>11. Below(b, c)
  BY <1>9, Zenon DEF Met
<1>12. Client'
  <2>1. MaxCalls \in Nat
    BY WireAssumption
  <2> QED BY <1>2, <1>3, <2>1 DEF Client
<1>13. Knows(c, p)'
  <2>1. c.s[ControlStream] = "Connected" /\ c.s[DataStream] = "Inactive"
    BY <1>2, <1>4, <1>9, ZeroStamp
  <2>2. Agrees(c.s)'
    BY <1>3, <2>1 DEF Agrees
  <2>3. Counted(p.k, c.k)'
    BY <1>2, <1>3, <1>9 DEF Knows, Counted
  <2>4. Bound(c.n)'
    BY <1>2, <1>3, <1>9 DEF Knows, Bound, Client
  <2> QED BY <2>2, <2>3, <2>4, Zenon DEF Knows
<1> QED BY <1>1, <1>3, <1>7, <1>9, <1>10, <1>11, <1>12, <1>13, ClientKeeps

-----------------------------------------------------------------------------
(* The server handles. *)

\* The server, which stands like a and will stand like b, has read message o and
\* will stand like c after it; the client stands like p and will stand like q.
Serving(a, b, p, q, c, o) ==
  /\ a \in Standings /\ b \in Standings /\ p \in Standings /\ q \in Standings /\ c \in Standings
  /\ Ordered(a, b, p, q) /\ Running("up") /\ Shape
  /\ o = due["up"] /\ inbox["up"].cs = o.cs /\ inbox["up"].ts = o.ts
  /\ inbox["up"].sid = o.sid /\ inbox["up"].msg = o.msg
  /\ Met("up", a, o, c) /\ OnTheWay("up", r["up"], c, link["up"], b) /\ Below(c, b)
  /\ a.s = sstate /\ q.n <= a.n /\ q.k = a.k /\ ~q.g

\* What has been read is what was written.
LEMMA BoxIs ==
  ASSUME Shape, NEW d \in Dirs, inbox[d] # None
  PROVE  /\ inbox[d].cs = due[d].cs /\ inbox[d].ts = due[d].ts
         /\ inbox[d].sid = due[d].sid /\ inbox[d].msg = due[d].msg
<1>1. inbox[d] = [cs |-> due[d].cs, ts |-> due[d].ts, sid |-> due[d].sid, msg |-> due[d].msg]
  BY Zenon DEF Shape, Boxes, ReadAsWritten
<1> QED BY <1>1

\* It is so when the server has a message. Where its client is gone it may be
\* taken for one that has had all its replies.
LEMMA ServingIs ==
  ASSUME IInv, At("up")
  PROVE  \E a, b, p, q, c, o : Serving(a, b, p, q, c, o)
<1>1. PICK a \in Standings, b \in Standings, p \in Standings, t \in Standings : Ordered(a, b, p, t)
  BY Zenon DEF IInv, Order
<1>2. "up" \in Dirs /\ inbox["up"] # None /\ Running("up") /\ Shape
  BY DEF At, Running, Dirs, IInv
<1>3. PICK x : x = [s |-> a.s, n |-> 0, k |-> a.k, g |-> FALSE]
  OBVIOUS
<1>4. a.s \in [StreamIDs -> States] /\ a.n \in Nat /\ a.k \in Nat
  BY DEF Standings
<1>5. x \in Standings /\ x.n <= a.n /\ x.k = a.k /\ ~x.g
  BY <1>3, <1>4 DEF Standings
<1>6. PICK q \in Standings : /\ Running("down") => q = t
                             /\ q.n <= a.n /\ q.k = a.k /\ ~q.g
  <2>1. CASE Running("down")
    <3>1. t.n <= a.n /\ t.k = a.k /\ ~t.g
      BY <1>1, <1>2, <2>1, Zenon DEF Ordered, Both
    <3> QED BY <3>1, Zenon
  <2>2. CASE ~Running("down")
    BY <1>5, <2>2, Zenon
  <2> QED BY <2>1, <2>2
<1>7. Ordered(a, b, p, q)
  BY <1>1, <1>6, Zenon DEF Ordered, Down, Both
<1>8. PICK o : o = due["up"]
  OBVIOUS
<1>9. PICK c : Met("up", a, o, c) /\ OnTheWay("up", r["up"], c, link["up"], b)
  BY <1>1, <1>2, <1>8, Zenon DEF Ordered, Up, Ahead, Coming
<1>10. Links(link["up"])
  BY <1>2, Zenon DEF Shape, Sides
<1>11. Below(c, b) /\ c \in Standings
  BY <1>9, <1>10, WayBelow
<1>12. a.s = sstate
  BY <1>1, <1>2, Zenon DEF Ordered, Up
<1>13. inbox["up"].cs = o.cs /\ inbox["up"].ts = o.ts /\ inbox["up"].sid = o.sid /\ inbox["up"].msg = o.msg
  BY <1>2, <1>8, BoxIs
<1> QED BY <1>1, <1>2, <1>6, <1>7, <1>8, <1>9, <1>11, <1>12, <1>13, Zenon DEF Serving

\* The loop goes on, or is ended by an error of a Handler or a limit.
GoesOn(d) == loop' = loop \/ loop' = [loop EXCEPT ![d] = "refused"]

\* Then it has not failed.
LEMMA GoneOn ==
  ASSUME Loops, NEW d \in Dirs, GoesOn(d)
  PROVE  /\ Loops' /\ \A e \in Dirs : e # d => loop'[e] = loop[e]
<1>1. CASE loop' = loop
  BY <1>1, Untouched, Zenon
<1>2. CASE loop' = [loop EXCEPT ![d] = "refused"]
  BY <1>2, LoopEnds
<1> QED BY <1>1, <1>2 DEF GoesOn

\* The server has handled the message with the call it wants, and nobody else has
\* done anything.
Dispatched(o) ==
  Handled("up", o.wants) /\ GoesOn("up") /\ UNCHANGED <<ignored, clientVars>> /\ Streams' /\ Peers'

\* It has put on the client's side what takes the client from q to e.
Answered(b, q, c, m, e) ==
  /\ e \in Standings /\ link' = [link EXCEPT !["down"] = m] /\ Grown("down", link["down"], q, m, e)
  /\ e.n <= b.n /\ e.k <= b.k
  /\ loop'["up"] = "running" => sstate' = c.s /\ e.n <= c.n /\ e.k = c.k /\ ~e.g

\* Then all is as it was.
LEMMA ServerKeeps ==
  ASSUME NEW a, NEW b, NEW p, NEW q, NEW c, NEW o, Serving(a, b, p, q, c, o), Dispatched(o),
         NEW m, NEW e, Answered(b, q, c, m, e)
  PROVE  IInv'
<1>0. /\ e \in Standings /\ link' = [link EXCEPT !["down"] = m] /\ Grown("down", link["down"], q, m, e)
      /\ e.n <= b.n /\ e.k <= b.k
      /\ loop'["up"] = "running" => sstate' = c.s /\ e.n <= c.n /\ e.k = c.k /\ ~e.g
      /\ Handled("up", o.wants) /\ GoesOn("up") /\ UNCHANGED <<ignored, clientVars>> /\ Streams' /\ Peers'
  BY Zenon DEF Dispatched, Answered
<1>1. /\ a \in Standings /\ b \in Standings /\ p \in Standings /\ q \in Standings /\ c \in Standings
      /\ Ordered(a, b, p, q) /\ Running("up") /\ o = due["up"]
      /\ OnTheWay("up", r["up"], c, link["up"], b)
      /\ Client /\ Streams /\ Loops /\ Peers /\ Counts /\ Drops /\ Sides /\ Boxes
  BY Zenon DEF Serving, Shape
<1>2. "up" \in Dirs /\ "down" \in Dirs /\ "up" # "down"
  BY DEF Dirs
<1>3. /\ inbox' = [inbox EXCEPT !["up"] = None] /\ called' = [called EXCEPT !["up"] = o.wants]
      /\ r' = r /\ due' = due /\ count' = count
  BY <1>0, Zenon DEF Handled
<1>4. Loops' /\ loop'["down"] = loop["down"] /\ \A x \in Dirs : x # "up" => loop'[x] = loop[x]
  BY <1>0, <1>1, <1>2, GoneOn
<1>5. Client' /\ Counts' /\ Drops'
  BY <1>0, <1>1, <1>3, Untouched, Zenon
<1>6. Sides'
  <2>1. Links(m)
    BY <1>0, Zenon DEF Grown
  <2> QED BY <1>0, <1>1, <1>2, <1>3, <2>1, SidesKept
<1>7. Boxes'
  BY <1>0, <1>1, <1>2, <1>3, <1>4, BoxesHandled
<1>8. inbox = [d \in Dirs |-> inbox[d]]
  BY <1>1, Zenon DEF Boxes
<1>9. Running("up")' => sstate' = c.s /\ e.n <= c.n /\ e.k = c.k /\ ~e.g
  BY <1>0, Zenon DEF Running
<1>10. Ordered(c, b, p, e)'
  BY <1>0, <1>1, <1>3, <1>4, <1>8, <1>9, ServerStep
<1> QED BY <1>0, <1>1, <1>4, <1>5, <1>6, <1>7, <1>10, Zenon DEF IInv, Shape, Order

\* The same when it has put nothing there and was not asked for a reply.
LEMMA ServerStays ==
  ASSUME NEW a, NEW b, NEW p, NEW q, NEW c, NEW o, Serving(a, b, p, q, c, o), ~Asks(o.msg),
         Dispatched(o), link' = link, loop'["up"] = "running" => sstate' = c.s
  PROVE  IInv'
<1>1. /\ a \in Standings /\ b \in Standings /\ q \in Standings /\ c \in Standings
      /\ Sides /\ Met("up", a, o, c) /\ Below(c, b) /\ q.n <= a.n /\ q.k = a.k /\ ~q.g
  BY Zenon DEF Serving, Shape
<1>2. "down" \in Dirs /\ Links(link["down"]) /\ link = [x \in Dirs |-> link[x]]
  BY <1>1 DEF Sides, Dirs
<1>3. Grown("down", link["down"], q, link["down"], q)
  BY <1>2, GrownNot
<1>4. link' = [link EXCEPT !["down"] = link["down"]]
  BY <1>2
<1>5. c.k = a.k /\ a.n <= c.n
  <2>1. Below(a, c) /\ MetUp(a, o, c)
    BY <1>1, Zenon DEF Met
  <2> QED BY <1>1, <2>1 DEF Below, MetUp, Standings
<1>6. q.n <= c.n /\ q.k = c.k /\ q.n <= b.n /\ q.k <= b.k
  BY <1>1, <1>5 DEF Below, Standings
<1>7. loop'["up"] = "running" => sstate' = c.s /\ q.n <= c.n /\ q.k = c.k /\ ~q.g
  BY <1>1, <1>6, Zenon
<1>8. q \in Standings /\ q.n <= b.n /\ q.k <= b.k
  BY <1>1, <1>6, Zenon
<1>9. Answered(b, q, c, link["down"], q)
  BY <1>3, <1>4, <1>7, <1>8, Zenon DEF Answered
<1> QED BY <1>9, ServerKeeps

\* peerState notes a chunk size or a window that is not too great.
LEMMA PeersNoted ==
  ASSUME Peers, NEW d \in Dirs, NEW o, Sendable(o), inbox[d].msg = o.msg, inbox[d].ts = o.ts, HandleState(d)
  PROVE  /\ Peers' /\ GoesOn(d) /\ UNCHANGED <<link, ignored, sstate, clientVars>> /\ IsControl(o.msg)
         /\ Handled(d, Call(IF o.msg.type = "SetChunkSize" THEN "SetChunkSize" ELSE "SetAckWindowSize",
                            o.ts, o.msg.size))
<1>1. /\ o.msg.type \in {"SetChunkSize", "WinAckSize"}
      /\ Handled(d, Call(IF o.msg.type = "SetChunkSize" THEN "SetChunkSize" ELSE "SetAckWindowSize",
                         o.ts, o.msg.size))
      /\ IF TooGreat(o.msg)
         THEN Ends(d, "refused") /\ UNCHANGED peer
         ELSE /\ peer' = IF o.msg.type = "SetChunkSize" THEN [peer EXCEPT ![d].chunk = o.msg.size]
                                                        ELSE [peer EXCEPT ![d].window = o.msg.size]
              /\ UNCHANGED loop
      /\ UNCHANGED <<link, ignored, sstate, clientVars>>
  BY Zenon DEF HandleState
<1>2. IsControl(o.msg)
  BY <1>1, Zenon DEF IsControl
<1>3. GoesOn(d)
  BY <1>1, Zenon DEF GoesOn, Ends
<1>4. Peers'
  <2>1. CASE TooGreat(o.msg)
    BY <1>1, <2>1, Untouched, Zenon
  <2>2. CASE ~TooGreat(o.msg) /\ o.msg.type = "SetChunkSize"
    <3>1. PICK n \in Nat \ {0} : n = o.msg.size
      BY <2>2, Zenon DEF Sendable
    <3>2. peer' = [peer EXCEPT ![d].chunk = n]
      BY <1>1, <2>2, <3>1, Zenon
    <3>3. n <= MaxChunkSize
      BY <2>2, <3>1, WireAssumption DEF TooGreat
    <3> QED BY <3>2, <3>3 DEF Peers
  <2>3. CASE ~TooGreat(o.msg) /\ o.msg.type = "WinAckSize"
    <3>1. PICK n \in Nat : n = o.msg.size
      BY <2>3, Zenon DEF Sendable
    <3>2. peer' = [peer EXCEPT ![d].window = n]
      BY <1>1, <2>3, <3>1
    <3>3. n <= MaxWindow
      BY <2>3, <3>1, WireAssumption DEF TooGreat
    <3> QED BY <3>2, <3>3 DEF Peers
  <2> QED BY <1>1, <2>1, <2>2, <2>3
<1> QED BY <1>1, <1>2, <1>3, <1>4, Zenon

\* What the server has read has its stream, and is no reply and not unreadable.
LEMMA ServingSays ==
  ASSUME NEW a, NEW b, NEW p, NEW q, NEW c, NEW o, Serving(a, b, p, q, c, o)
  PROVE  /\ Sendable(o) /\ sstate[o.sid] # "none" /\ ~IsReply(o.msg) /\ Body(o.msg) # Unreadable
         /\ Wanted(a.s, o) /\ c.s = After(a.s, o) /\ Streams /\ Peers
         /\ c.k = a.k + (IF Asks(o.msg) THEN 1 ELSE 0) /\ c.n = a.n + (IF Opens(o.msg) THEN 1 ELSE 0)
         /\ inbox["up"].cs = o.cs /\ inbox["up"].ts = o.ts
         /\ inbox["up"].sid = o.sid /\ inbox["up"].msg = o.msg
         /\ a.s = sstate
<1>1. MetUp(a, o, c) /\ Sendable(o)
  BY Zenon DEF Serving, Met
<1> QED BY <1>1, Zenon DEF Serving, Shape, MetUp

\* A message no handler has a case for.
LEMMA PassedOn ==
  ASSUME NEW a, NEW b, NEW p, NEW q, NEW c, NEW o, Serving(a, b, p, q, c, o), ~Served(a.s, o),
         Handled("up", o.wants), GoesOn("up"), UNCHANGED <<link, ignored, sstate, clientVars>>, Peers'
  PROVE  IInv'
<1>1. c.s = sstate /\ Streams /\ a.s = sstate
  <2>1. c.s = After(a.s, o) /\ Streams /\ a.s = sstate
    BY ServingSays
  <2> QED BY <2>1, Zenon DEF After
<1>2. ~Asks(o.msg)
  <2>1. MetUp(a, o, c)
    BY Zenon DEF Serving, Met
  <2> QED BY <2>1, Zenon DEF MetUp
<1>3. Streams'
  BY <1>1, Untouched, Zenon
<1>4. UNCHANGED <<ignored, clientVars>>
  OBVIOUS
<1>5. Dispatched(o)
  BY <1>3, <1>4, Zenon DEF Dispatched
<1>6. link' = link /\ sstate' = c.s
  BY <1>1
<1> QED BY <1>2, <1>5, <1>6, ServerStays

\* The server handles what is not for a stream's handler, or has no case there.
LEMMA HandleUpKeeps ==
  ASSUME IInv, Handle("up")
  PROVE  IInv'
<1>1. At("up")
  BY Zenon DEF Handle, HandleNotExist, HandleState, HandleUnknownBody, HandleReply, PassThrough
<1>2. PICK a, b, p, q, c, o : Serving(a, b, p, q, c, o)
  BY <1>1, ServingIs
<1>3. /\ Sendable(o) /\ sstate[o.sid] # "none" /\ ~IsReply(o.msg) /\ Body(o.msg) # Unreadable
      /\ Wanted(a.s, o) /\ Streams /\ Peers
      /\ inbox["up"].ts = o.ts /\ inbox["up"].sid = o.sid /\ inbox["up"].msg = o.msg /\ a.s = sstate
  BY <1>2, ServingSays
<1>4. "up" \in Dirs /\ o.msg.type \in DOMAIN TypeIDs
  BY <1>3, Zenon DEF Dirs, Sendable, Legible
<1>5. /\ Body(o.msg) = Unknown => CaseOf(o.msg) = "unknown" /\ ~IsControl(o.msg)
      /\ IsControl(o.msg) => CaseOf(o.msg) = o.msg.type
  BY <1>4, CaseSays
<1>6. \A s \in States : s # "none" => "unknown" \notin Cases(s)
  BY CasesAre DEF States
<1>7. ~HandleNotExist("up")
  BY <1>3 DEF HandleNotExist, Exists
<1>8. ~HandleReply("up")
  BY <1>3, Zenon DEF HandleReply
<1>9. CASE HandleState("up")
  <2>1. /\ Peers' /\ GoesOn("up") /\ UNCHANGED <<link, ignored, sstate, clientVars>> /\ IsControl(o.msg)
        /\ Handled("up", Call(IF o.msg.type = "SetChunkSize" THEN "SetChunkSize" ELSE "SetAckWindowSize",
                              o.ts, o.msg.size))
    BY <1>3, <1>4, <1>9, PeersNoted, Zenon
  <2>2. o.wants = Call(IF o.msg.type = "SetChunkSize" THEN "SetChunkSize" ELSE "SetAckWindowSize",
                       o.ts, o.msg.size)
    BY <1>3, <2>1 DEF Wanted, IsControl
  <2>3. ~Served(a.s, o)
    BY <2>1, Zenon DEF Served
  <2> QED BY <1>2, <2>1, <2>2, <2>3, PassedOn
<1>10. CASE HandleUnknownBody("up")
  <2>1. /\ Body(o.msg) \in {Unknown, Unreadable} /\ Handled("up", Call("Ignored", o.ts, o.msg))
        /\ Body(o.msg) = Unknown => loop' = loop
        /\ peer' = peer /\ UNCHANGED <<link, ignored, sstate, clientVars>>
    BY <1>3, <1>10 DEF HandleUnknownBody
  <2>2. Body(o.msg) = Unknown
    BY <1>3, <2>1
  <2>3. o.wants = Call("Ignored", o.ts, o.msg)
    BY <1>3, <1>5, <2>2, Zenon DEF Wanted
  <2>4. ~Served(a.s, o)
    <3>1. a.s[o.sid] \in States /\ a.s[o.sid] # "none"
      BY <1>3 DEF Sendable, Streams
    <3> QED BY <1>5, <1>6, <2>2, <3>1 DEF Served
  <2>5. GoesOn("up") /\ Peers'
    BY <1>3, <2>1, <2>2, Untouched, Zenon DEF GoesOn
  <2> QED BY <1>2, <2>1, <2>3, <2>4, <2>5, PassedOn
<1>11. ASSUME NEW ok \in BOOLEAN, PassThrough("up", ok) PROVE IInv'
  <2>1. /\ ~IsControl(o.msg) /\ Body(o.msg) # Unknown /\ CaseOf(o.msg) \notin Cases(sstate[o.sid])
        /\ Handled("up", UnknownCall("up")) /\ Returns("up", ok)
        /\ peer' = peer /\ UNCHANGED <<link, ignored, sstate, clientVars>>
    BY <1>3, <1>11 DEF PassThrough, IsControl
  <2>2. ~Served(a.s, o)
    BY <1>3, <2>1, Zenon DEF Served
  <2>3. PassCall(o)
    BY <1>3, <2>1, <2>2, Zenon DEF Wanted
  <2>4. UnknownCall("up") = o.wants
    <3>1. CASE o.msg.type = "Command"
      BY <1>3, <2>3, <3>1 DEF UnknownCall, PassCall
    <3>2. CASE o.msg.type = "Data"
      BY <1>3, <2>3, <3>2 DEF UnknownCall, PassCall
    <3>3. CASE o.msg.type \notin {"Command", "Data"}
      BY <1>3, <2>3, <3>3 DEF UnknownCall, PassCall
    <3> QED BY <3>1, <3>2, <3>3
  <2>5. GoesOn("up") /\ Peers'
    BY <1>3, <2>1, Untouched, Zenon DEF GoesOn, Returns, Ends
  <2> QED BY <1>2, <2>1, <2>2, <2>4, <2>5, PassedOn
<1> QED BY <1>7, <1>8, <1>9, <1>10, <1>11, Zenon DEF Handle

\* What is known of message o that the handler of state s has a case for.
Matches(s, a, c, o, kinds) ==
  /\ Sendable(o) /\ o.msg.type \in DOMAIN TypeIDs /\ a.s[o.sid] = s /\ CaseOf(o.msg) \in kinds
  /\ HandlerCall(o) /\ Served(a.s, o) /\ c.s = After(a.s, o)
  /\ c.k = a.k + (IF Asks(o.msg) THEN 1 ELSE 0) /\ c.n = a.n + (IF Opens(o.msg) THEN 1 ELSE 0)
  /\ inbox["up"].cs = o.cs /\ inbox["up"].ts = o.ts /\ inbox["up"].sid = o.sid /\ inbox["up"].msg = o.msg
  /\ a.s = sstate /\ Streams /\ Peers

\* It is that.
LEMMA ServedHere ==
  ASSUME NEW a, NEW b, NEW p, NEW q, NEW c, NEW o, Serving(a, b, p, q, c, o),
         NEW s \in {"NotConnected", "Connected", "Inactive", "Publish", "Play"}, NEW kinds, Serves(s, kinds)
  PROVE  Matches(s, a, c, o, kinds)
<1>1. /\ Sendable(o) /\ Wanted(a.s, o) /\ c.s = After(a.s, o) /\ Streams /\ Peers
      /\ c.k = a.k + (IF Asks(o.msg) THEN 1 ELSE 0) /\ c.n = a.n + (IF Opens(o.msg) THEN 1 ELSE 0)
      /\ inbox["up"].cs = o.cs /\ inbox["up"].ts = o.ts
      /\ inbox["up"].sid = o.sid /\ inbox["up"].msg = o.msg
      /\ a.s = sstate
  BY ServingSays
<1>2. a.s[o.sid] = s /\ CaseOf(o.msg) \in kinds /\ CaseOf(o.msg) \in Cases(s)
  <2>1. sstate[inbox["up"].sid] = s /\ CaseOf(inbox["up"].msg) \in kinds \cap Cases(s)
    BY Zenon DEF Serves
  <2> QED BY <1>1, <2>1
<1>3. o.msg.type \in DOMAIN TypeIDs
  BY <1>1, Zenon DEF Sendable, Legible
<1>4. "SetChunkSize" \notin Cases(s) /\ "WinAckSize" \notin Cases(s)
  BY CasesAre
<1>5. IsControl(o.msg) => CaseOf(o.msg) \in {"SetChunkSize", "WinAckSize"}
  <2>1. IsControl(o.msg) => CaseOf(o.msg) = o.msg.type
    BY <1>3, CaseSays
  <2> QED BY <2>1 DEF IsControl
<1>6. ~IsControl(o.msg) /\ Served(a.s, o)
  BY <1>2, <1>4, <1>5 DEF Served
<1>7. HandlerCall(o)
  BY <1>1, <1>6, Zenon DEF Wanted
<1> QED BY <1>1, <1>2, <1>3, <1>6, <1>7, Zenon DEF Matches

\* The Handler was called with what the message wants.
LEMMA Called ==
  ASSUME NEW o, NEW name, NEW args, NEW ok \in BOOLEAN, CallHandler(name, args, ok), Peers, Streams',
         inbox["up"].ts = o.ts, o.wants = Call(name, o.ts, args)
  PROVE  /\ Dispatched(o)
         /\ ok => loop' = loop
         /\ ~ok => loop' = [loop EXCEPT !["up"] = "refused"]
<1>1. /\ Handled("up", Call(name, o.ts, args)) /\ Returns("up", ok) /\ peer' = peer
      /\ ignored' = ignored /\ clientVars' = clientVars
  BY DEF CallHandler
<1>2. GoesOn("up") /\ (ok => loop' = loop) /\ (~ok => loop' = [loop EXCEPT !["up"] = "refused"])
  BY <1>1 DEF Returns, GoesOn, Ends
<1>3. Peers'
  BY <1>1, Untouched, Zenon
<1>4. UNCHANGED <<ignored, clientVars>>
  BY <1>1
<1> QED BY <1>1, <1>2, <1>3, <1>4, Zenon DEF Dispatched

\* A loop that was refused does not run.
LEMMA RefusedEnds ==
  ASSUME Loops, loop' = [loop EXCEPT !["up"] = "refused"]
  PROVE  loop'["up"] # "running"
BY DEF Loops, Dirs

\* releaseStream, FCPublish and FCUnpublish.
LEMMA NameKeeps ==
  ASSUME IInv, NEW ok \in BOOLEAN, OnName(ok)
  PROVE  IInv'
<1>1. Serves("Connected", DOMAIN NameCall) /\ At("up")
  BY Zenon DEF OnName, Serves
<1>2. PICK a, b, p, q, c, o : Serving(a, b, p, q, c, o)
  BY <1>1, ServingIs
<1>3. Matches("Connected", a, c, o, DOMAIN NameCall)
  BY <1>1, <1>2, ServedHere
<1>4. CaseOf(o.msg) \in {"releaseStream", "FCPublish", "FCUnpublish"} /\ CaseOf(o.msg) \in DOMAIN NameCall
  BY <1>3, CasesAre, Zenon DEF Matches
<1>5. o.msg.type = "Command" /\ o.msg.name = CaseOf(o.msg)
  <2>1. o.msg.type \in DOMAIN TypeIDs
    BY <1>3, Zenon DEF Matches
  <2> QED BY <1>4, <2>1, CaseSays
<1>6. CaseOf(o.msg) = Body(o.msg).body /\ ~Asks(o.msg)
  BY <1>4, <1>5 DEF CaseOf, Asks
<1>7. o.wants = Call(NameCall[Body(o.msg).body], o.ts, Body(o.msg))
  BY <1>3, <1>4, <1>6, Zenon DEF Matches, HandlerCall
<1>8. /\ CallHandler(NameCall[Body(o.msg).body], Body(o.msg), ok) /\ link' = link /\ sstate' = sstate
      /\ inbox["up"].ts = o.ts /\ Streams /\ Peers
  <2>1. inbox["up"].msg = o.msg /\ inbox["up"].ts = o.ts /\ Streams /\ Peers
    BY <1>3, Zenon DEF Matches
  <2> QED BY <2>1, Zenon DEF OnName
<1>9. Dispatched(o)
  <2>1. Streams'
    BY <1>8, Untouched, Zenon
  <2> QED BY <1>7, <1>8, <2>1, Called
<1>10. sstate' = c.s
  <2>1. c.s = After(a.s, o) /\ a.s = sstate
    BY <1>3, Zenon DEF Matches
  <2>2. After(a.s, o) = a.s
    BY <1>4 DEF After
  <2> QED BY <1>8, <2>1, <2>2, Zenon
<1> QED BY <1>2, <1>6, <1>8, <1>9, <1>10, ServerStays

\* Audio, video and metadata.
LEMMA OnMediaKeeps ==
  ASSUME IInv, NEW ok \in BOOLEAN, OnMedia(ok)
  PROVE  IInv'
<1> DEFINE kinds == {"Audio", "Video", "@setDataFrame"}
<1>1. Serves("Publish", kinds) /\ At("up")
  BY Zenon DEF OnMedia, Serves
<1>2. PICK a, b, p, q, c, o : Serving(a, b, p, q, c, o)
  BY <1>1, ServingIs
<1>3. Matches("Publish", a, c, o, kinds)
  BY <1>1, <1>2, ServedHere
<1>4. CaseOf(o.msg) \in kinds /\ o.msg.type \in DOMAIN TypeIDs /\ HandlerCall(o)
      /\ inbox["up"].msg = o.msg /\ inbox["up"].ts = o.ts /\ Streams /\ Peers /\ a.s = sstate
      /\ c.s = After(a.s, o)
  BY <1>3, Zenon DEF Matches
<1>5. /\ CaseOf(o.msg) = "@setDataFrame" => o.msg.type = "Data"
      /\ CaseOf(o.msg) \in {"Audio", "Video"} => o.msg.type = CaseOf(o.msg)
  BY <1>4, CaseSays
<1>6. ~Asks(o.msg)
  BY <1>4, <1>5 DEF Asks
<1>7. link' = link /\ sstate' = sstate
  BY Zenon DEF OnMedia
<1>8. Streams'
  BY <1>4, <1>7, Untouched, Zenon
<1>9. Dispatched(o)
  <2>1. CASE o.msg.type = "Data"
    <3>1. CaseOf(o.msg) = "@setDataFrame"
      BY <1>4, <1>5, <2>1
    <3>2. o.wants = Call("OnSetDataFrame", o.ts, Body(o.msg).payload)
      BY <1>4, <3>1, Zenon DEF HandlerCall
    <3>3. CallHandler("OnSetDataFrame", Body(o.msg).payload, ok)
      BY <1>4, <2>1, Zenon DEF OnMedia
    <3> QED BY <1>4, <1>8, <3>2, <3>3, Called
  <2>2. CASE o.msg.type # "Data"
    <3>1. CaseOf(o.msg) \in {"Audio", "Video"} /\ o.msg.type = CaseOf(o.msg)
      BY <1>4, <1>5, <2>2
    <3>2. MediaCall["Audio"] = "OnAudio" /\ MediaCall["Video"] = "OnVideo"
      BY DEF MediaCall
    <3>3. o.wants = Call(MediaCall[o.msg.type], o.ts, o.msg.payload)
      <4>1. CASE CaseOf(o.msg) = "Audio"
        BY <1>4, <3>1, <3>2, <4>1, Zenon DEF HandlerCall
      <4>2. CASE CaseOf(o.msg) = "Video"
        BY <1>4, <3>1, <3>2, <4>2, Zenon DEF HandlerCall
      <4> QED BY <3>1, <4>1, <4>2
    <3>4. CallHandler(MediaCall[o.msg.type], o.msg.payload, ok)
      BY <1>4, <2>2, Zenon DEF OnMedia
    <3> QED BY <1>4, <1>8, <3>3, <3>4, Called
  <2> QED BY <2>1, <2>2
<1>10. After(a.s, o) = a.s
  BY <1>4 DEF After
<1>11. sstate' = c.s
  BY <1>4, <1>7, <1>10, Zenon
<1> QED BY <1>2, <1>6, <1>7, <1>9, <1>11, ServerStays

\* deleteStream: the stream it names is there.
LEMMA OnDeleteKeeps ==
  ASSUME IInv, NEW ok \in BOOLEAN, OnDeleteStream(ok)
  PROVE  IInv'
<1>1. Serves("Connected", {"deleteStream"}) /\ At("up")
  BY Zenon DEF OnDeleteStream, Serves
<1>2. PICK a, b, p, q, c, o : Serving(a, b, p, q, c, o)
  BY <1>1, ServingIs
<1>3. Matches("Connected", a, c, o, {"deleteStream"})
  BY <1>1, <1>2, ServedHere
<1>4. CaseOf(o.msg) = "deleteStream" /\ o.msg.type \in DOMAIN TypeIDs /\ HandlerCall(o)
      /\ inbox["up"].msg = o.msg /\ inbox["up"].ts = o.ts /\ Streams /\ Peers /\ a.s = sstate
      /\ c.s = After(a.s, o) /\ Served(a.s, o)
  BY <1>3 DEF Matches
<1>5. o.msg.type = "Command" /\ o.msg.name = "deleteStream"
  BY <1>4, CaseSays
<1>6. ~Asks(o.msg)
  BY <1>5 DEF Asks
<1>7. Body(o.msg).id = DataStream /\ sstate[DataStream] # "none"
  <2>1. MetUp(a, o, c)
    BY <1>2, Zenon DEF Serving, Met
  <2> QED BY <1>4, <2>1 DEF MetUp
<1>8. /\ CallHandler("OnDeleteStream", Body(o.msg), ok /\ sstate[DataStream] # "none") /\ link' = link
      /\ sstate' = IF ok THEN [sstate EXCEPT ![DataStream] = "none"] ELSE sstate
  BY <1>4, <1>7, Zenon DEF OnDeleteStream
<1>9. (ok /\ sstate[DataStream] # "none") = ok
  BY <1>7
<1>10. CallHandler("OnDeleteStream", Body(o.msg), ok)
  BY <1>8, <1>9, Zenon
<1>11. Streams'
  BY <1>4, <1>8, ZeroStamp DEF Streams, States
<1>12. o.wants = Call("OnDeleteStream", o.ts, Body(o.msg))
  BY <1>4, Zenon DEF HandlerCall
<1>13. Dispatched(o) /\ (~ok => loop' = [loop EXCEPT !["up"] = "refused"])
  BY <1>4, <1>10, <1>11, <1>12, Called
<1>14. loop'["up"] = "running" => sstate' = c.s
  <2>1. Loops
    BY Zenon DEF IInv, Shape
  <2>2. CASE ok
    <3>1. After(a.s, o) = [a.s EXCEPT ![DataStream] = "none"]
      BY <1>4 DEF After
    <3> QED BY <1>4, <1>8, <2>2, <3>1
  <2>3. CASE ~ok
    BY <1>13, <2>1, <2>3, RefusedEnds
  <2> QED BY <2>2, <2>3
<1> QED BY <1>2, <1>6, <1>8, <1>13, <1>14, ServerStays

\* Window, bandwidth and StreamBegin, put on side l.
Announced(ts, l) ==
  LET ctrl(m, call, args) ==
        Written(ControlChunkStream, ts, ControlStream, m, Call(call, ts, args))
      win   == [type |-> "WinAckSize", size |-> SelfWindow]
      bw    == [type |-> "SetPeerBandwidth", size |-> MaxWindow, limit |-> 0]
      begin == [type |-> "UserCtrl", event |-> [event |-> "StreamBegin", value |-> ControlStream]]
  IN  Put(Put(Put(l, ctrl(win, "SetAckWindowSize", SelfWindow)), ctrl(bw, "OnUnknownMessage", bw)),
          ctrl(begin, "OnUnknownMessage", begin))

\* They change nothing for the client.
LEMMA AnnouncedGrows ==
  ASSUME NEW q \in Standings, NEW l, Links(l)
  PROVE  Grown("down", l, q, Announced(0, l), q)
<1>1. PICK x, y, z : /\ Met("down", q, x, q) /\ Met("down", q, y, q) /\ Met("down", q, z, q)
                     /\ Announced(0, l) = Put(Put(Put(l, x), y), z)
  BY WelcomeComes DEF Announced
<1>2. Grown("down", l, q, Put(l, x), q)
  BY <1>1, GrownPut
<1>3. Grown("down", Put(l, x), q, Put(Put(l, x), y), q)
  BY <1>1, <1>2, GrownPut, Zenon DEF Grown
<1>4. Grown("down", Put(Put(l, x), y), q, Put(Put(Put(l, x), y), z), q)
  BY <1>1, <1>3, GrownPut, Zenon DEF Grown
<1>5. Grown("down", l, q, Put(Put(l, x), y), q)
  BY <1>2, <1>3, GrownOn
<1>6. Grown("down", l, q, Put(Put(Put(l, x), y), z), q)
  BY <1>4, <1>5, GrownOn
<1> QED BY <1>1, <1>6, Zenon

\* An answer to message o, which was a command.
LEMMA AnswerIs ==
  ASSUME NEW o, Sendable(o), o.msg.type = "Command", inbox["up"].cs = o.cs, inbox["up"].ts = o.ts
  PROVE  /\ inbox["up"].cs = CommandChunkStream /\ inbox["up"].ts = 0 /\ o.ts = 0
         /\ \A sid, name, txn, b, wants :
              Answer(sid, name, txn, b, wants) = Written(CommandChunkStream, 0, sid, Command(name, txn, b), wants)
<1>1. o.cs = CommandChunkStream /\ OnItsStream(o.cs, o.ts, o.sid)
  BY Zenon DEF Sendable
<1>2. o.ts = 0
  BY <1>1 DEF OnItsStream
<1> QED BY <1>1, <1>2, Zenon DEF Answer

\* What is known of numbers when the client goes from q to e.
LEMMA AnswerCounts ==
  ASSUME NEW a, NEW b, NEW p, NEW q, NEW c, NEW o, Serving(a, b, p, q, c, o), NEW e \in Standings,
         NEW ok \in BOOLEAN, e.n <= c.n, e.k = c.k, e.g = (q.g \/ ~ok), NEW m,
         Grown("down", link["down"], q, m, e), link' = [link EXCEPT !["down"] = m],
         ok => sstate' = c.s, ~ok => loop' = [loop EXCEPT !["up"] = "refused"]
  PROVE  Answered(b, q, c, m, e)
<1>1. Below(c, b) /\ b \in Standings /\ c \in Standings /\ ~q.g /\ Loops
  BY Zenon DEF Serving, Shape
<1>2. e.n <= b.n /\ e.k <= b.k
  BY <1>1 DEF Below, Standings
<1>3. loop'["up"] = "running" => ok
  BY <1>1, RefusedEnds
<1>4. ok => ~e.g
  BY <1>1
<1> QED BY <1>2, <1>3, <1>4, Zenon DEF Answered

\* connect.
LEMMA OnConnectKeeps ==
  ASSUME IInv, NEW ok \in BOOLEAN, OnConnect(ok)
  PROVE  IInv'
<1>1. Serves("NotConnected", {"connect"}) /\ At("up")
  BY Zenon DEF OnConnect, Serves
<1>2. PICK a, b, p, q, c, o : Serving(a, b, p, q, c, o)
  BY <1>1, ServingIs
<1>3. Matches("NotConnected", a, c, o, {"connect"})
  BY <1>1, <1>2, ServedHere
<1>4. /\ CaseOf(o.msg) = "connect" /\ o.msg.type \in DOMAIN TypeIDs /\ HandlerCall(o) /\ Sendable(o)
      /\ inbox["up"].msg = o.msg /\ inbox["up"].ts = o.ts /\ inbox["up"].cs = o.cs
      /\ Streams /\ Peers /\ a.s = sstate /\ c.s = After(a.s, o) /\ Served(a.s, o)
      /\ c.k = a.k + (IF Asks(o.msg) THEN 1 ELSE 0) /\ c.n = a.n + (IF Opens(o.msg) THEN 1 ELSE 0)
  BY <1>3 DEF Matches
<1>5. o.msg.type = "Command" /\ o.msg.name = "connect"
  BY <1>4, CaseSays
<1>6. Asks(o.msg) /\ ~Opens(o.msg)
  BY <1>5 DEF Asks, Opens
<1>7. q \in Standings /\ a \in Standings /\ q.n <= a.n /\ q.k = a.k /\ Links(link["down"])
  BY <1>2 DEF Serving, Shape, Sides, Dirs
<1>8. a.k = 0
  <2>1. MetUp(a, o, c)
    BY <1>2, Zenon DEF Serving, Met
  <2> QED BY <1>5, <1>6, <2>1 DEF MetUp
<1>9. o.wants = Call("OnConnect", o.ts, Body(o.msg))
  BY <1>4, Zenon DEF HandlerCall
<1>10. /\ CallHandler("OnConnect", Body(o.msg), ok)
       /\ sstate' = IF ok THEN [sstate EXCEPT ![ControlStream] = "Connected"] ELSE sstate
  BY <1>4, Zenon DEF OnConnect
<1>11. Streams'
  BY <1>4, <1>10, ZeroStamp DEF Streams, States
<1>12. Dispatched(o) /\ (~ok => loop' = [loop EXCEPT !["up"] = "refused"])
  BY <1>4, <1>9, <1>10, <1>11, Called
<1>13. ok => sstate' = c.s
  <2>1. After(a.s, o) = [a.s EXCEPT ![ControlStream] = "Connected"]
    BY <1>4 DEF After
  <2> QED BY <1>4, <1>10, <2>1
<1>14. PICK l : l = IF ok THEN Announced(0, link["down"]) ELSE link["down"]
  OBVIOUS
<1>15. PICK y : /\ y = [body |-> "connectResult", properties |-> "fms", information |-> ok]
  OBVIOUS
<1>16. PICK w : w = Written(CommandChunkStream, 0, ControlStream,
                            Command(IF ok THEN "_result" ELSE "_error", 1, y), Call("Reply", 0, y))
  OBVIOUS
<1>17. link' = [link EXCEPT !["down"] = Put(l, w)]
  <2>1. inbox["up"].ts = 0 /\ ConnectResult(ok) = w
    <3>1. ConnectResult(ok) = Answer(ControlStream, IF ok THEN "_result" ELSE "_error", 1, y,
                                     Call("Reply", inbox["up"].ts, y))
      BY <1>15, Zenon DEF ConnectResult
    <3>2. inbox["up"].ts = 0
      BY <1>4, <1>5, AnswerIs
    <3>3. ConnectResult(ok) = Answer(ControlStream, IF ok THEN "_result" ELSE "_error", 1, y,
                                     Call("Reply", 0, y))
      BY <3>1, <3>2, Zenon
    <3>4. Answer(ControlStream, IF ok THEN "_result" ELSE "_error", 1, y, Call("Reply", 0, y)) = w
      BY <1>4, <1>5, <1>16, AnswerIs
    <3> QED BY <3>2, <3>3, <3>4, Zenon
  <2>2. link' = [link EXCEPT !["down"] = Put(IF ok THEN Announced(inbox["up"].ts, link["down"]) ELSE link["down"],
                                             ConnectResult(ok))]
    BY DEF OnConnect, Announced
  <2> QED BY <1>14, <2>1, <2>2, Zenon
<1>18. Grown("down", link["down"], q, l, q)
  <2>1. CASE ok
    BY <1>7, <1>14, <2>1, AnnouncedGrows, Zenon
  <2>2. CASE ~ok
    BY <1>7, <1>14, <2>2, GrownNot, Zenon
  <2> QED BY <2>1, <2>2
<1>19. PICK e \in Standings : /\ Met("down", q, w, e)
                              /\ e.n = q.n /\ e.k = 1 /\ e.g = (q.g \/ ~ok)
  BY <1>7, <1>8, <1>15, <1>16, ConnectReplyComes
<1>20. Grown("down", link["down"], q, Put(l, w), e)
  <2>1. Grown("down", l, q, Put(l, w), e)
    BY <1>18, <1>19, GrownPut, Zenon DEF Grown
  <2> QED BY <1>18, <2>1, GrownOn
<1>21. e.n <= c.n /\ e.k = c.k
  BY <1>4, <1>6, <1>7, <1>8, <1>19 DEF Standings
<1>22. Answered(b, q, c, Put(l, w), e)
  BY <1>2, <1>12, <1>13, <1>17, <1>19, <1>20, <1>21, AnswerCounts
<1> QED BY <1>2, <1>12, <1>22, ServerKeeps

\* createStream.
LEMMA OnCreateKeeps ==
  ASSUME IInv, NEW ok \in BOOLEAN, OnCreateStream(ok)
  PROVE  IInv'
<1>1. Serves("Connected", {"createStream"}) /\ At("up")
  BY Zenon DEF OnCreateStream, Serves
<1>2. PICK a, b, p, q, c, o : Serving(a, b, p, q, c, o)
  BY <1>1, ServingIs
<1>3. Matches("Connected", a, c, o, {"createStream"})
  BY <1>1, <1>2, ServedHere
<1>4. /\ CaseOf(o.msg) = "createStream" /\ o.msg.type \in DOMAIN TypeIDs /\ HandlerCall(o) /\ Sendable(o)
      /\ inbox["up"].msg = o.msg /\ inbox["up"].ts = o.ts /\ inbox["up"].cs = o.cs
      /\ Streams /\ Peers /\ a.s = sstate /\ c.s = After(a.s, o) /\ Served(a.s, o)
      /\ c.k = a.k + (IF Asks(o.msg) THEN 1 ELSE 0) /\ c.n = a.n + (IF Opens(o.msg) THEN 1 ELSE 0)
  BY <1>3 DEF Matches
<1>5. o.msg.type = "Command" /\ o.msg.name = "createStream"
  BY <1>4, CaseSays
<1>6. Asks(o.msg) /\ ~Opens(o.msg)
  BY <1>5 DEF Asks, Opens
<1>7. q \in Standings /\ a \in Standings /\ q.n <= a.n /\ q.k = a.k /\ Links(link["down"])
  BY <1>2 DEF Serving, Shape, Sides, Dirs
<1>8. a.k # 0 /\ o.msg.txn = 2
  <2>1. MetUp(a, o, c)
    BY <1>2, Zenon DEF Serving, Met
  <2> QED BY <1>5, <1>6, <2>1 DEF MetUp
<1>9. o.wants = Call("OnCreateStream", o.ts, Body(o.msg))
  BY <1>4, Zenon DEF HandlerCall
<1>10. /\ CallHandler("OnCreateStream", Body(o.msg), ok)
       /\ sstate' = IF ok THEN [sstate EXCEPT ![DataStream] = "Inactive"] ELSE sstate
  BY <1>4, Zenon DEF OnCreateStream
<1>11. Streams'
  BY <1>4, <1>10, ZeroStamp DEF Streams, States
<1>12. Dispatched(o) /\ (~ok => loop' = [loop EXCEPT !["up"] = "refused"])
  BY <1>4, <1>9, <1>10, <1>11, Called
<1>13. ok => sstate' = c.s
  <2>1. After(a.s, o) = [a.s EXCEPT ![DataStream] = "Inactive"]
    BY <1>4 DEF After
  <2> QED BY <1>4, <1>10, <2>1
<1>14. PICK y : /\ y = [body |-> "createStreamResult", id |-> IF ok THEN DataStream ELSE 0]
  OBVIOUS
<1>15. PICK w : w = Written(CommandChunkStream, 0, ControlStream,
                            Command(IF ok THEN "_result" ELSE "_error", 2, y), Call("Reply", 0, y))
  OBVIOUS
<1>16. link' = [link EXCEPT !["down"] = Put(link["down"], w)]
  <2>1. link' = [link EXCEPT !["down"] =
           Put(@, Answer(ControlStream, IF ok THEN "_result" ELSE "_error", inbox["up"].msg.txn, y,
                         Call("Reply", inbox["up"].ts, y)))]
    BY <1>14, Zenon DEF OnCreateStream
  <2>2. link' = [link EXCEPT !["down"] =
           Put(link["down"], Answer(ControlStream, IF ok THEN "_result" ELSE "_error", inbox["up"].msg.txn, y,
                                    Call("Reply", inbox["up"].ts, y)))]
    BY <2>1
  <2>3. inbox["up"].ts = 0 /\ inbox["up"].msg.txn = 2
    BY <1>4, <1>5, <1>8, AnswerIs
  <2>4. Answer(ControlStream, IF ok THEN "_result" ELSE "_error", 2, y, Call("Reply", 0, y)) = w
    BY <1>4, <1>5, <1>15, AnswerIs
  <2> QED BY <2>2, <2>3, <2>4, Zenon
<1>17. PICK e \in Standings : /\ Met("down", q, w, e)
                              /\ e.n = q.n /\ e.k = q.k + 1 /\ e.g = (q.g \/ ~ok)
  BY <1>7, <1>8, <1>14, <1>15, CreateReplyComes
<1>18. Grown("down", link["down"], q, Put(link["down"], w), e)
  BY <1>7, <1>17, GrownPut
<1>19. e.n <= c.n /\ e.k = c.k
  BY <1>4, <1>6, <1>7, <1>17 DEF Standings
<1>20. Answered(b, q, c, Put(link["down"], w), e)
  BY <1>2, <1>12, <1>13, <1>16, <1>17, <1>18, <1>19, AnswerCounts
<1> QED BY <1>2, <1>12, <1>20, ServerKeeps

\* publish and play.
LEMMA OnOpenKeeps ==
  ASSUME IInv, NEW ok \in BOOLEAN, OnOpen(ok)
  PROVE  IInv'
<1>1. Serves("Inactive", {"publish", "play"}) /\ At("up")
  BY Zenon DEF OnOpen, Serves
<1>2. PICK a, b, p, q, c, o : Serving(a, b, p, q, c, o)
  BY <1>1, ServingIs
<1>3. Matches("Inactive", a, c, o, {"publish", "play"})
  BY <1>1, <1>2, ServedHere
<1>4. /\ CaseOf(o.msg) \in {"publish", "play"} /\ o.msg.type \in DOMAIN TypeIDs /\ HandlerCall(o)
      /\ Sendable(o) /\ inbox["up"].msg = o.msg /\ inbox["up"].ts = o.ts /\ inbox["up"].cs = o.cs
      /\ inbox["up"].sid = o.sid /\ a.s[o.sid] = "Inactive"
      /\ Streams /\ Peers /\ a.s = sstate /\ c.s = After(a.s, o) /\ Served(a.s, o)
      /\ c.k = a.k + (IF Asks(o.msg) THEN 1 ELSE 0) /\ c.n = a.n + (IF Opens(o.msg) THEN 1 ELSE 0)
  BY <1>3 DEF Matches
<1>5. o.msg.type = "Command" /\ o.msg.name = CaseOf(o.msg)
  BY <1>4, CaseSays
<1>6. ~Asks(o.msg) /\ Opens(o.msg) /\ CaseOf(o.msg) = Body(o.msg).body
  BY <1>4, <1>5 DEF Asks, Opens, CaseOf
<1>7. q \in Standings /\ a \in Standings /\ q.n <= a.n /\ q.k = a.k /\ Links(link["down"])
  BY <1>2 DEF Serving, Shape, Sides, Dirs
<1>8. o.sid = DataStream
  BY <1>4 DEF Sendable, Streams, StreamIDs
<1>9. PICK play \in BOOLEAN : play = (Body(o.msg).body = "play")
  OBVIOUS
<1>10. o.wants = Call(IF play THEN "OnPlay" ELSE "OnPublish", o.ts, [stream |-> o.sid, cmd |-> Body(o.msg)])
  <2>1. CASE CaseOf(o.msg) = "play"
    BY <1>4, <1>6, <1>9, <2>1 DEF HandlerCall
  <2>2. CASE CaseOf(o.msg) = "publish"
    BY <1>4, <1>6, <1>9, <2>2 DEF HandlerCall
  <2> QED BY <1>4, <2>1, <2>2
<1>11. /\ CallHandler(IF play THEN "OnPlay" ELSE "OnPublish", [stream |-> o.sid, cmd |-> Body(o.msg)], ok)
       /\ sstate' = IF ok THEN [sstate EXCEPT ![DataStream] = IF play THEN "Play" ELSE "Publish"] ELSE sstate
  BY <1>4, <1>8, <1>9, Zenon DEF OnOpen
<1>12. Streams'
  BY <1>4, <1>11, ZeroStamp DEF Streams, States
<1>13. Dispatched(o) /\ (~ok => loop' = [loop EXCEPT !["up"] = "refused"])
  BY <1>4, <1>10, <1>11, <1>12, Called
<1>14. ok => sstate' = c.s
  <2>1. CaseOf(o.msg) = "play" => After(a.s, o) = [a.s EXCEPT ![DataStream] = "Play"]
    BY <1>4, <1>8 DEF After
  <2>2. CaseOf(o.msg) = "publish" => After(a.s, o) = [a.s EXCEPT ![DataStream] = "Publish"]
    BY <1>4, <1>8 DEF After
  <2> QED BY <1>4, <1>6, <1>9, <1>11, <2>1, <2>2
<1>15. PICK y : /\ y = [body |-> "onStatus", info |-> <<Body(o.msg).body, ok>>]
  OBVIOUS
<1>16. PICK w : w = Written(CommandChunkStream, 0, DataStream, Command("onStatus", 0, y),
                            Call("Ignored", 0, Command("onStatus", 0, y)))
  OBVIOUS
<1>17. link' = [link EXCEPT !["down"] = Put(link["down"], w)]
  <2>1. link' = [link EXCEPT !["down"] =
           Put(@, Answer(DataStream, "onStatus", 0, y, Call("Ignored", inbox["up"].ts, Command("onStatus", 0, y))))]
    BY <1>4, <1>8, <1>15, Zenon DEF OnOpen
  <2>2. link' = [link EXCEPT !["down"] =
           Put(link["down"], Answer(DataStream, "onStatus", 0, y,
                                    Call("Ignored", inbox["up"].ts, Command("onStatus", 0, y))))]
    BY <2>1
  <2>3. inbox["up"].ts = 0
    BY <1>4, <1>5, AnswerIs
  <2>4. Answer(DataStream, "onStatus", 0, y, Call("Ignored", 0, Command("onStatus", 0, y))) = w
    BY <1>4, <1>5, <1>16, AnswerIs
  <2> QED BY <2>2, <2>3, <2>4, Zenon
<1>18. PICK e \in Standings : /\ Met("down", q, w, e)
                              /\ e.n = q.n + 1 /\ e.k = q.k /\ e.g = q.g
  BY <1>7, <1>15, <1>16, StatusComes
<1>19. Grown("down", link["down"], q, Put(link["down"], w), e)
  BY <1>7, <1>18, GrownPut
<1>20. e.n <= c.n /\ e.k = c.k /\ ~e.g
  <2>1. ~q.g
    BY <1>2, Zenon DEF Serving
  <2> QED BY <1>4, <1>6, <1>7, <1>18, <2>1 DEF Standings
<1>21. Answered(b, q, c, Put(link["down"], w), e)
  <2>1. Below(c, b) /\ b \in Standings /\ c \in Standings /\ Loops
    BY <1>2, Zenon DEF Serving, Shape
  <2>2. e.n <= b.n /\ e.k <= b.k
    BY <1>18, <1>20, <2>1 DEF Below, Standings
  <2>3. loop'["up"] = "running" => ok
    BY <1>13, <2>1, RefusedEnds
  <2> QED BY <1>14, <1>17, <1>18, <1>19, <1>20, <2>2, <2>3, Zenon DEF Answered
<1> QED BY <1>2, <1>13, <1>21, ServerKeeps

-----------------------------------------------------------------------------
(* The client handles. *)

\* The client, which stands like p and will stand like q, has read message o and
\* will stand like e after it; the server will stand like b.
Hearing(a, b, p, q, e, o) ==
  /\ a \in Standings /\ b \in Standings /\ p \in Standings /\ q \in Standings /\ e \in Standings
  /\ Ordered(a, b, p, q) /\ Running("down") /\ Shape /\ Numbers(b, p, q)
  /\ o = due["down"] /\ inbox["down"].ts = o.ts /\ inbox["down"].sid = o.sid /\ inbox["down"].msg = o.msg
  /\ Met("down", p, o, e) /\ OnTheWay("down", r["down"], e, link["down"], q) /\ Below(e, q)

\* It is so when the client has a message.
LEMMA HearingIs ==
  ASSUME IInv, At("down")
  PROVE  \E a, b, p, q, e, o : Hearing(a, b, p, q, e, o)
<1>1. PICK a \in Standings, b \in Standings, p \in Standings, q \in Standings : Ordered(a, b, p, q)
  BY Zenon DEF IInv, Order
<1>2. "down" \in Dirs /\ inbox["down"] # None /\ Running("down") /\ Shape
  BY DEF At, Running, Dirs, IInv
<1>3. PICK o : o = due["down"]
  OBVIOUS
<1>4. PICK e : Met("down", p, o, e) /\ OnTheWay("down", r["down"], e, link["down"], q)
  BY <1>1, <1>2, <1>3, Zenon DEF Ordered, Down, Ahead, Coming
<1>5. Links(link["down"])
  BY <1>2, Zenon DEF Shape, Sides
<1>6. Below(e, q) /\ e \in Standings
  BY <1>4, <1>5, WayBelow
<1>7. inbox["down"].ts = o.ts /\ inbox["down"].sid = o.sid /\ inbox["down"].msg = o.msg
  BY <1>2, <1>3, BoxIs
<1>8. Numbers(b, p, q)
  BY <1>1, <1>2, Zenon DEF Ordered, Down
<1> QED BY <1>1, <1>2, <1>3, <1>4, <1>6, <1>7, <1>8, Zenon DEF Hearing

\* The client has handled message o with the call it wants and stands like e,
\* and the tables are what they are to be.
Heard(b, e, o) ==
  /\ Handled("down", o.wants) /\ UNCHANGED <<link, sstate>>
  /\ loop'["up"] = loop["up"] /\ Loops' /\ Client' /\ Peers' /\ Drops'
  /\ Running("up") => Agrees(b.s)'
  /\ Running("down")' => ignored'["down"] <= e.n /\ Counted(e.k, b.k)' /\ Bound(b.n)'

\* Then all is as it was.
LEMMA HeardKeeps ==
  ASSUME NEW a, NEW b, NEW p, NEW q, NEW e, NEW o, Hearing(a, b, p, q, e, o), Heard(b, e, o)
  PROVE  IInv'
<1>1. /\ a \in Standings /\ b \in Standings /\ p \in Standings /\ q \in Standings /\ e \in Standings
      /\ Ordered(a, b, p, q) /\ Running("down") /\ o = due["down"]
      /\ OnTheWay("down", r["down"], e, link["down"], q)
      /\ Streams /\ Loops /\ Counts /\ Sides /\ Boxes
  BY Zenon DEF Hearing, Shape
<1>2. /\ inbox' = [inbox EXCEPT !["down"] = None] /\ called' = [called EXCEPT !["down"] = o.wants]
      /\ r' = r /\ due' = due /\ count' = count
  BY Zenon DEF Heard, Handled
<1>3. link' = link /\ sstate' = sstate
  BY DEF Heard
<1>4. /\ loop'["up"] = loop["up"] /\ Loops' /\ Client' /\ Peers' /\ Drops'
      /\ Running("up") => Agrees(b.s)'
      /\ Running("down")' => ignored'["down"] <= e.n /\ Counted(e.k, b.k)' /\ Bound(b.n)'
  BY Zenon DEF Heard
<1>5. "down" \in Dirs /\ \A x \in Dirs : x # "down" => loop'[x] = loop[x]
  BY <1>4 DEF Dirs
<1>6. Counts' /\ Streams' /\ Sides'
  BY <1>1, <1>2, <1>3, Untouched, Zenon
<1>7. Boxes'
  BY <1>1, <1>2, <1>5, BoxesHandled
<1>8. inbox = [d \in Dirs |-> inbox[d]]
  BY <1>1, Zenon DEF Boxes
<1>9. UNCHANGED <<r, due, link, sstate>>
  BY <1>2, <1>3
<1>10. Ordered(a, b, e, q)'
  BY <1>1, <1>2, <1>4, <1>8, <1>9, HandledStep
<1> QED BY <1>1, <1>4, <1>6, <1>7, <1>10, Zenon DEF IInv, Shape, Order

\* What is known of the numbers.
LEMMA HearingSays ==
  ASSUME NEW a, NEW b, NEW p, NEW q, NEW e, NEW o, Hearing(a, b, p, q, e, o)
  PROVE  /\ Sendable(o) /\ MetDown(p, o, e) /\ Client /\ Loops /\ Peers /\ Drops
         /\ inbox["down"].ts = o.ts /\ inbox["down"].sid = o.sid /\ inbox["down"].msg = o.msg
         /\ ignored["down"] <= p.n /\ Counted(p.k, b.k) /\ Bound(b.n)
         /\ Running("up") => Agrees(b.s)
         /\ p.n \in Nat /\ p.k \in Nat /\ e.n \in Nat /\ e.k \in Nat /\ b.n \in Nat /\ b.k \in Nat
         /\ e.n <= b.n /\ e.k <= b.k /\ e.g \in BOOLEAN /\ b.s \in [StreamIDs -> States]
         /\ Running("up") => ~e.g
<1>1. "up" # "down"
  OBVIOUS
<1>2. /\ a \in Standings /\ b \in Standings /\ p \in Standings /\ q \in Standings /\ e \in Standings
      /\ Ordered(a, b, p, q) /\ Running("down") /\ Shape /\ Numbers(b, p, q)
      /\ Met("down", p, o, e) /\ Below(e, q)
      /\ inbox["down"].ts = o.ts /\ inbox["down"].sid = o.sid /\ inbox["down"].msg = o.msg
  BY Zenon DEF Hearing
<1>3. Sendable(o) /\ MetDown(p, o, e)
  BY <1>1, <1>2, Zenon DEF Met
<1>4. Client /\ Loops /\ Peers /\ Drops
  BY <1>2, Zenon DEF Shape
<1>5. Running("up") => Agrees(b.s) /\ ~q.g
  BY <1>2, Zenon DEF Ordered, Up, Both
<1>6. ignored["down"] <= p.n /\ Counted(p.k, b.k) /\ Bound(b.n) /\ q.n <= b.n /\ q.k <= b.k
  BY <1>2, Zenon DEF Numbers
<1>7. /\ p.n \in Nat /\ p.k \in Nat /\ e.n \in Nat /\ e.k \in Nat /\ b.n \in Nat /\ b.k \in Nat
      /\ e.g \in BOOLEAN /\ b.s \in [StreamIDs -> States]
      /\ q.n \in Nat /\ q.k \in Nat
  BY <1>2 DEF Standings
<1>8. e.n <= b.n /\ e.k <= b.k /\ (Running("up") => ~e.g)
  BY <1>2, <1>5, <1>6, <1>7 DEF Below
<1> QED BY <1>2, <1>3, <1>4, <1>5, <1>6, <1>7, <1>8, Zenon

\* A message that changes nothing the client has asked for.
LEMMA QuietHeard ==
  ASSUME NEW a, NEW b, NEW p, NEW q, NEW e, NEW o, Hearing(a, b, p, q, e, o), e.k = p.k,
         Handled("down", o.wants), UNCHANGED <<link, sstate>>, UNCHANGED <<phase, stream, calls>>,
         loop'["up"] = loop["up"], Loops', Peers', Drops',
         Running("down")' => ignored'["down"] <= e.n
  PROVE  IInv'
<1>1. Client /\ Counted(p.k, b.k) /\ Bound(b.n) /\ (Running("up") => Agrees(b.s))
  BY HearingSays
<1>2. phase' = phase /\ stream' = stream /\ calls' = calls
  OBVIOUS
<1>3. Client'
  BY <1>1, <1>2 DEF Client
<1>4. Running("up") => Agrees(b.s)'
  BY <1>1, <1>2 DEF Agrees
<1>5. Counted(e.k, b.k)'
  BY <1>1, <1>2 DEF Counted
<1>6. Bound(b.n)'
  BY <1>1, <1>2 DEF Bound
<1>7. Heard(b, e, o)
  BY <1>3, <1>4, <1>5, <1>6, Zenon DEF Heard
<1> QED BY <1>7, HeardKeeps

\* What comes to the client: a reply, a window, what it passes through, or a
\* note of publish or play, which nobody decodes.
LEMMA KindsDown ==
  ASSUME NEW p, NEW o, NEW e, MetDown(p, o, e), p.n \in Nat, p.k \in Nat
  PROVE  \/ /\ IsReply(o.msg) /\ Replies(p.k, o) /\ e.n = p.n /\ e.k = p.k + 1
            /\ e.g = (p.g \/ o.msg.name = "_error")
         \/ /\ ~IsReply(o.msg) /\ o.sid = ControlStream /\ o.msg.type = "WinAckSize" /\ e.n = p.n /\ e.k = p.k
            /\ o.wants = Call("SetAckWindowSize", o.ts, o.msg.size)
         \/ /\ ~IsReply(o.msg) /\ o.sid = ControlStream /\ o.msg.type \in {"SetPeerBandwidth", "UserCtrl", "Ack"}
            /\ o.wants = Call("OnUnknownMessage", o.ts, o.msg) /\ e.n = p.n /\ e.k = p.k
            /\ Body(o.msg) \notin {Unknown, Unreadable}
         \/ /\ ~IsReply(o.msg) /\ o.sid = DataStream /\ o.msg.type = "Command"
            /\ o.wants = Call("Ignored", o.ts, o.msg) /\ e.n = p.n + 1 /\ e.k = p.k
            /\ Body(o.msg) = Unknown /\ Body(o.msg) # Unreadable
<1>1. /\ e.n = p.n + (IF o.sid = DataStream THEN 1 ELSE 0)
      /\ e.k = p.k + (IF IsReply(o.msg) THEN 1 ELSE 0)
      /\ e.g = (p.g \/ (IsReply(o.msg) /\ o.msg.name = "_error"))
  BY Zenon DEF MetDown
<1>2. ControlStream # DataStream
  BY ZeroStamp
<1>3. CASE Replies(p.k, o)
  <2>1. IsReply(o.msg) /\ o.sid = ControlStream
    BY <1>3, Zenon DEF Replies
  <2>2. e.n = p.n /\ e.k = p.k + 1
    BY <1>1, <1>2, <2>1
  <2>3. e.g = (p.g \/ o.msg.name = "_error")
    BY <1>1, <2>1, Zenon
  <2> QED BY <1>3, <2>1, <2>2, <2>3, Zenon
<1>4. CASE /\ o.sid = ControlStream /\ o.msg.type = "WinAckSize"
           /\ o.wants = Call("SetAckWindowSize", o.ts, o.msg.size)
  <2>1. ~IsReply(o.msg)
    BY <1>4 DEF IsReply
  <2>2. e.n = p.n /\ e.k = p.k
    BY <1>1, <1>2, <1>4, <2>1
  <2> QED BY <1>4, <2>1, <2>2, Zenon
<1>5. CASE /\ o.sid = ControlStream /\ o.msg.type \in {"SetPeerBandwidth", "UserCtrl", "Ack"}
           /\ o.wants = Call("OnUnknownMessage", o.ts, o.msg)
  <2>1. o.msg.type \notin {"Command", "Data"}
    BY <1>5
  <2>2. ~IsReply(o.msg) /\ Body(o.msg) # Unknown /\ Body(o.msg) # Unreadable
    BY <2>1, BareIs
  <2>3. e.n = p.n /\ e.k = p.k
    BY <1>1, <1>2, <1>5, <2>2
  <2> QED BY <1>5, <2>2, <2>3
<1>6. CASE /\ o.sid = DataStream /\ o.msg.type = "Command" /\ o.msg.name = "onStatus"
           /\ o.wants = Call("Ignored", o.ts, o.msg)
  <2>1. ~IsReply(o.msg)
    BY <1>6 DEF IsReply
  <2>2. Body(o.msg) = Unknown /\ Body(o.msg) # Unreadable
    <3>1. Body(o.msg) = DecodeBody("onStatus", o.msg.body)
      BY <1>6 DEF Body
    <3>2. DecodeBody("onStatus", o.msg.body) = Unknown
      BY DEF DecodeBody, NullCommands, NameCommands
    <3>3. Unknown # Unreadable
      BY DEF Unknown, Unreadable
    <3> QED BY <3>1, <3>2, <3>3
  <2>3. e.n = p.n + 1 /\ e.k = p.k
    BY <1>1, <1>6, <2>1
  <2> QED BY <1>6, <2>1, <2>2, <2>3, Zenon
<1> QED BY <1>3, <1>4, <1>5, <1>6, Zenon DEF MetDown

\* The client's loop has failed.
LEMMA LoopFails ==
  ASSUME Loops, loop' = [loop EXCEPT !["down"] = "failed"],
         IgnoreNotExist => ~(MaxCalls <= 2 * Threshold)
  PROVE  Loops' /\ loop'["up"] = loop["up"] /\ loop'["down"] # "running"
BY DEF Loops, Dirs

\* A message for a stream the client has deleted. It has asked for as many notes
\* as it may ignore when half its calls are not more.
LEMMA NotExistHeard ==
  ASSUME IInv, HandleNotExist("down")
  PROVE  IInv'
<1>1. PICK a, b, p, q, e, o : Hearing(a, b, p, q, e, o)
  BY HearingIs, Zenon DEF HandleNotExist
<1>2. /\ MetDown(p, o, e) /\ Client /\ Loops /\ Peers /\ Drops
      /\ inbox["down"].ts = o.ts /\ inbox["down"].sid = o.sid /\ inbox["down"].msg = o.msg
      /\ ignored["down"] <= p.n /\ Bound(b.n)
      /\ p.n \in Nat /\ p.k \in Nat /\ e.n \in Nat /\ b.n \in Nat /\ e.n <= b.n
  BY <1>1, HearingSays
<1>3. o.sid # ControlStream /\ stream = "none"
  BY <1>2 DEF HandleNotExist, Exists
<1>4. o.wants = Call("Ignored", o.ts, o.msg) /\ e.n = p.n + 1 /\ e.k = p.k
  BY <1>2, <1>3, KindsDown DEF Replies
<1>5. /\ Handled("down", Call("Ignored", o.ts, o.msg)) /\ UNCHANGED <<link, peer, sstate, clientVars>>
      /\ IF IgnoreNotExist /\ ignored["down"] < Threshold
         THEN ignored' = [ignored EXCEPT !["down"] = @ + 1] /\ UNCHANGED loop
         ELSE Ends("down", "failed") /\ UNCHANGED ignored
  BY <1>2, Zenon DEF HandleNotExist
<1>6. Handled("down", o.wants)
  BY <1>4, <1>5, Zenon
<1>7. Peers' /\ UNCHANGED <<link, sstate>> /\ UNCHANGED <<phase, stream, calls>>
  BY <1>2, <1>5, Untouched DEF clientVars
<1>8. CASE IgnoreNotExist /\ ignored["down"] < Threshold
  <2>1. Loops' /\ loop'["up"] = loop["up"]
    BY <1>2, <1>5, <1>8, Untouched, Zenon
  <2>2. PICK n \in 0 .. Threshold : n = ignored["down"]
    BY <1>2 DEF Drops, Dirs
  <2>3. Drops' /\ ignored'["down"] = n + 1
    <3>1. Threshold \in Nat
      BY WireAssumption
    <3> QED BY <1>2, <1>5, <1>8, <2>2, <3>1 DEF Drops, Dirs
  <2>4. ignored'["down"] <= e.n
    BY <1>2, <1>4, <2>2, <2>3
  <2> QED BY <1>1, <1>4, <1>6, <1>7, <2>1, <2>3, <2>4, QuietHeard
<1>9. CASE ~(IgnoreNotExist /\ ignored["down"] < Threshold)
  <2>1. Drops' /\ loop' = [loop EXCEPT !["down"] = "failed"]
    BY <1>2, <1>5, <1>9, Untouched, Zenon DEF Ends
  <2>2. IgnoreNotExist => ~(MaxCalls <= 2 * Threshold)
    <3> SUFFICES ASSUME IgnoreNotExist PROVE ~(MaxCalls <= 2 * Threshold)
      OBVIOUS
    <3>1. PICK n \in 0 .. Threshold : n = ignored["down"]
      BY <1>2 DEF Drops, Dirs
    <3>2. Threshold \in Nat /\ MaxCalls \in Nat
      BY WireAssumption
    <3>3. n = Threshold
      BY <1>9, <3>1, <3>2
    <3>4. Threshold + 1 <= b.n
      BY <1>2, <1>4, <3>1, <3>2, <3>3
    <3>5. calls \in Nat /\ calls <= MaxCalls /\ 2 * b.n <= calls
      BY <1>2, <1>3 DEF Client, Bound
    <3> QED BY <1>2, <3>2, <3>4, <3>5
  <2>3. Loops' /\ loop'["up"] = loop["up"] /\ loop'["down"] # "running"
    BY <1>2, <2>1, <2>2, LoopFails
  <2>4. ~Running("down")'
    BY <2>3, Zenon DEF Running
  <2> QED BY <1>1, <1>4, <1>6, <1>7, <2>1, <2>3, <2>4, QuietHeard
<1> QED BY <1>8, <1>9

\* A window.
LEMMA StateHeard ==
  ASSUME IInv, HandleState("down")
  PROVE  IInv'
<1>1. PICK a, b, p, q, e, o : Hearing(a, b, p, q, e, o)
  BY HearingIs, Zenon DEF HandleState
<1>2. /\ Sendable(o) /\ MetDown(p, o, e) /\ Loops /\ Peers /\ Drops
      /\ inbox["down"].ts = o.ts /\ inbox["down"].msg = o.msg
      /\ ignored["down"] <= p.n /\ p.n \in Nat /\ p.k \in Nat
  BY <1>1, HearingSays
<1>3. "down" \in Dirs
  BY DEF Dirs
<1>4. /\ Peers' /\ GoesOn("down") /\ UNCHANGED <<link, ignored, sstate, clientVars>> /\ IsControl(o.msg)
      /\ Handled("down", Call(IF o.msg.type = "SetChunkSize" THEN "SetChunkSize" ELSE "SetAckWindowSize",
                              o.ts, o.msg.size))
  BY <1>2, <1>3, PeersNoted, Zenon
<1>5. /\ o.msg.type = "WinAckSize" /\ o.wants = Call("SetAckWindowSize", o.ts, o.msg.size)
      /\ e.n = p.n /\ e.k = p.k
  <2>1. o.msg.type \in {"SetChunkSize", "WinAckSize"}
    BY <1>4, Zenon DEF IsControl
  <2> QED BY <1>2, <2>1, KindsDown DEF IsReply
<1>6. Handled("down", o.wants)
  <2>1. o.msg.type # "SetChunkSize"
    BY <1>5
  <2> QED BY <1>4, <1>5, <2>1, Zenon
<1>7. Loops' /\ loop'["up"] = loop["up"]
  <2>1. "up" \in Dirs /\ "up" # "down"
    BY DEF Dirs
  <2> QED BY <1>2, <1>3, <1>4, <2>1, GoneOn
<1>8. UNCHANGED <<link, sstate>> /\ UNCHANGED <<phase, stream, calls>> /\ ignored' = ignored
  BY <1>4 DEF clientVars
<1>9. Drops' /\ ignored'["down"] <= e.n
  BY <1>2, <1>5, <1>8, Untouched, Zenon
<1> QED BY <1>1, <1>4, <1>5, <1>6, <1>7, <1>8, <1>9, QuietHeard

\* A note of publish or play.
LEMMA UnknownHeard ==
  ASSUME IInv, HandleUnknownBody("down")
  PROVE  IInv'
<1>1. PICK a, b, p, q, e, o : Hearing(a, b, p, q, e, o)
  BY HearingIs, Zenon DEF HandleUnknownBody
<1>2. /\ MetDown(p, o, e) /\ Loops /\ Peers /\ Drops
      /\ inbox["down"].ts = o.ts /\ inbox["down"].msg = o.msg
      /\ ignored["down"] <= p.n /\ p.n \in Nat /\ p.k \in Nat
  BY <1>1, HearingSays
<1>3. /\ ~IsReply(o.msg) /\ Body(o.msg) \in {Unknown, Unreadable} /\ Handled("down", Call("Ignored", o.ts, o.msg))
      /\ IF Body(o.msg) = Unknown THEN UNCHANGED loop ELSE Ends("down", "failed")
      /\ UNCHANGED <<link, peer, ignored, sstate, clientVars>>
  BY <1>2, Zenon DEF HandleUnknownBody
<1>4. /\ Body(o.msg) = Unknown /\ o.wants = Call("Ignored", o.ts, o.msg)
      /\ e.n = p.n + 1 /\ e.k = p.k
  <2>1. o.msg.type # "WinAckSize"
    <3>1. o.msg.type = "WinAckSize" => Body(o.msg) # Unknown /\ Body(o.msg) # Unreadable
      BY BareIs
    <3> QED BY <1>3, <3>1
  <2> QED BY <1>2, <1>3, <2>1, KindsDown
<1>5. Handled("down", o.wants)
  BY <1>3, <1>4, Zenon
<1>6. /\ UNCHANGED <<link, sstate>> /\ UNCHANGED <<phase, stream, calls>> /\ ignored' = ignored
      /\ loop' = loop /\ peer' = peer
  BY <1>3, <1>4 DEF clientVars
<1>7. Loops' /\ loop'["up"] = loop["up"] /\ Peers' /\ Drops'
  BY <1>2, <1>6, Untouched, Zenon
<1>8. ignored'["down"] <= e.n
  <2>1. ignored["down"] \in Int
    BY <1>2, WireAssumption DEF Drops, Dirs
  <2> QED BY <1>2, <1>4, <1>6, <2>1
<1> QED BY <1>1, <1>4, <1>5, <1>6, <1>7, <1>8, QuietHeard

\* What the client passes through.
LEMMA PassHeard ==
  ASSUME IInv, NEW ok \in BOOLEAN, PassThrough("down", ok)
  PROVE  IInv'
<1>1. PICK a, b, p, q, e, o : Hearing(a, b, p, q, e, o)
  BY HearingIs, Zenon DEF PassThrough
<1>2. /\ MetDown(p, o, e) /\ Loops /\ Peers /\ Drops
      /\ inbox["down"].ts = o.ts /\ inbox["down"].sid = o.sid /\ inbox["down"].msg = o.msg
      /\ ignored["down"] <= p.n /\ p.n \in Nat /\ p.k \in Nat
  BY <1>1, HearingSays
<1>3. /\ ~IsReply(o.msg) /\ o.msg.type # "WinAckSize" /\ Body(o.msg) # Unknown /\ Handled("down", UnknownCall("down"))
      /\ o.sid = ControlStream => Returns("down", ok)
      /\ UNCHANGED <<link, peer, ignored, sstate, clientVars>>
  BY <1>2 DEF PassThrough
<1>4. /\ o.sid = ControlStream /\ o.msg.type \in {"SetPeerBandwidth", "UserCtrl", "Ack"}
      /\ o.wants = Call("OnUnknownMessage", o.ts, o.msg) /\ e.n = p.n /\ e.k = p.k
  BY <1>2, <1>3, KindsDown
<1>5. UnknownCall("down") = o.wants
  BY <1>2, <1>4 DEF UnknownCall
<1>6. Handled("down", o.wants)
  BY <1>3, <1>5, Zenon
<1>7. /\ UNCHANGED <<link, sstate>> /\ UNCHANGED <<phase, stream, calls>> /\ ignored' = ignored /\ peer' = peer
  BY <1>3 DEF clientVars
<1>8. GoesOn("down")
  BY <1>3, <1>4, Zenon DEF GoesOn, Returns, Ends
<1>9. Loops' /\ loop'["up"] = loop["up"]
  <2>1. "up" \in Dirs /\ "down" \in Dirs /\ "up" # "down"
    BY DEF Dirs
  <2> QED BY <1>2, <1>8, <2>1, GoneOn
<1>10. Peers' /\ Drops' /\ ignored'["down"] <= e.n
  BY <1>2, <1>4, <1>7, Untouched, Zenon
<1> QED BY <1>1, <1>4, <1>6, <1>7, <1>9, <1>10, QuietHeard

\* A reply comes to the call that waits for it: connect has no other before it,
\* and createStream is made when all have come.
LEMMA ReplyHeard ==
  ASSUME IInv, HandleReply("down")
  PROVE  IInv'
<1>1. PICK a, b, p, q, e, o : Hearing(a, b, p, q, e, o)
  BY HearingIs, Zenon DEF HandleReply
<1>2. /\ MetDown(p, o, e) /\ Client /\ Loops /\ Peers /\ Drops
      /\ inbox["down"].ts = o.ts /\ inbox["down"].sid = o.sid /\ inbox["down"].msg = o.msg
      /\ ignored["down"] <= p.n /\ p.n \in Nat /\ p.k \in Nat /\ b.n \in Nat /\ b.k \in Nat
      /\ Counted(p.k, b.k) /\ Bound(b.n) /\ e.k <= b.k
      /\ Running("up") => Agrees(b.s) /\ ~e.g
  BY <1>1, HearingSays
<1>3. IsReply(o.msg)
  BY <1>2, Zenon DEF HandleReply
<1>4. Replies(p.k, o) /\ e.n = p.n /\ e.k = p.k + 1 /\ e.g = (p.g \/ o.msg.name = "_error")
  BY <1>2, <1>3, KindsDown
<1>5. /\ phase \in {"connecting", "creating"} /\ stream = "none" /\ b.k = e.k
      /\ phase = "connecting" => p.k = 0
      /\ phase = "creating" => p.k # 0
  BY <1>2, <1>4 DEF Counted, Client
<1>6. PICK connects \in BOOLEAN : connects = (o.msg.txn = 1 /\ phase = "connecting")
  OBVIOUS
<1>7. PICK creates \in BOOLEAN : creates = (o.msg.txn = 2 /\ phase = "creating")
  OBVIOUS
<1>8. PICK y : y = IF connects THEN DecodeConnectResult(o.msg.body) ELSE DecodeCreateStreamResult(o.msg.body)
  OBVIOUS
<1>9. /\ Handled("down", Call("Reply", o.ts, y))
      /\ IF "down" = "down" /\ o.sid = ControlStream /\ (connects \/ creates)
         THEN /\ phase' = IF connects /\ (o.msg.name = "_error" \/ y = Unreadable)
                          THEN "refused" ELSE "connected"
              /\ stream' = IF creates /\ o.msg.name = "_result" /\ y # Unreadable
                           THEN "open" ELSE stream
              /\ UNCHANGED <<loop, calls>>
         ELSE Ends("down", "failed") /\ UNCHANGED clientVars
      /\ UNCHANGED <<link, peer, ignored, sstate>>
  BY <1>2, <1>6, <1>7, <1>8 DEF HandleReply
<1>10. o.sid = ControlStream /\ (connects <=> phase = "connecting") /\ (creates <=> phase = "creating")
       /\ y # Unreadable /\ o.wants = Call("Reply", o.ts, y)
  BY <1>4, <1>5, <1>6, <1>7, <1>8 DEF Replies
<1>11. /\ phase' = IF phase = "connecting" /\ o.msg.name = "_error" THEN "refused" ELSE "connected"
       /\ stream' = IF phase = "creating" /\ o.msg.name = "_result" THEN "open" ELSE "none"
       /\ loop' = loop /\ calls' = calls /\ link' = link /\ peer' = peer /\ ignored' = ignored /\ sstate' = sstate
  BY <1>5, <1>9, <1>10
<1>12. Handled("down", o.wants)
  BY <1>9, <1>10, Zenon
<1>13. Loops' /\ Peers' /\ Drops'
  BY <1>2, <1>11, Untouched, Zenon
<1>14. Client'
  BY <1>2, <1>5, <1>11 DEF Client
<1>15. Running("up") => Agrees(b.s)'
  <2> SUFFICES ASSUME Running("up") PROVE Agrees(b.s)'
    OBVIOUS
  <2>1. Agrees(b.s) /\ o.msg.name # "_error"
    BY <1>2, <1>4
  <2>2. o.msg.name = "_result"
    BY <1>3, <2>1 DEF IsReply
  <2>3. /\ b.s[ControlStream] = "Connected"
        /\ b.s[DataStream] = IF phase = "creating" THEN "Inactive" ELSE "none"
    BY <1>5, <2>1 DEF Agrees, StateOf
  <2>4. phase' = "connected" /\ stream' = IF phase = "creating" THEN "open" ELSE "none"
    BY <1>11, <2>1, <2>2
  <2> QED BY <2>3, <2>4 DEF Agrees, StateOf
<1>16. Counted(e.k, b.k)'
  BY <1>2, <1>4, <1>5, <1>11 DEF Counted
<1>17. Bound(b.n)'
  <2>1. calls \in Nat
    BY <1>2, Zenon DEF Client
  <2> QED BY <1>2, <1>5, <1>11, <2>1 DEF Bound
<1>18. ignored'["down"] <= e.n
  BY <1>2, <1>4, <1>11, Zenon
<1>19. UNCHANGED <<link, sstate>> /\ loop'["up"] = loop["up"]
  BY <1>11
<1>20. Heard(b, e, o)
  BY <1>12, <1>13, <1>14, <1>15, <1>16, <1>17, <1>18, <1>19, Zenon DEF Heard
<1> QED BY <1>1, <1>20, HeardKeeps

-----------------------------------------------------------------------------
(* The theorems. *)

\* Every step keeps the invariant.
LEMMA NextKeeps ==
  ASSUME IInv, [Next]_vars
  PROVE  IInv'
<1>1. CASE UNCHANGED vars
  <2>1. /\ phase' = phase /\ stream' = stream /\ link' = link /\ r' = r /\ inbox' = inbox /\ due' = due
        /\ called' = called /\ loop' = loop /\ peer' = peer /\ count' = count /\ ignored' = ignored
        /\ sstate' = sstate /\ calls' = calls
    BY <1>1 DEF vars
  <2>2. /\ Client /\ Streams /\ Loops /\ Peers /\ Counts /\ Drops /\ Sides /\ Boxes
    BY Zenon DEF IInv, Shape
  <2>3. UNCHANGED clientVars /\ UNCHANGED <<link, r>>
    BY <2>1 DEF clientVars
  <2>4. Client' /\ Streams' /\ Loops' /\ Peers' /\ Counts' /\ Drops' /\ Sides'
    BY <2>1, <2>2, <2>3, Untouched, Zenon
  <2>5. Boxes'
    BY <2>1, <2>2, Zenon DEF Boxes, ReadAsWritten, CalledAsAsked
  <2>6. PICK a \in Standings, b \in Standings, p \in Standings, q \in Standings : Ordered(a, b, p, q)
    BY Zenon DEF IInv, Order
  <2>7. Ordered(a, b, p, q)'
    <3>1. Agrees(b.s) => Agrees(b.s)'
      BY <2>1, Zenon DEF Agrees
    <3>2. Up(a, b)'
      BY <2>1, <2>6, <3>1, Zenon DEF Ordered, Up, Running, Ahead
    <3>3. Numbers(b, p, q) => Numbers(b, p, q)'
      BY <2>1, Zenon DEF Numbers, Counted, Bound
    <3>4. Down(b, p, q)'
      BY <2>1, <2>6, <3>3, Zenon DEF Ordered, Down, Running, Ahead
    <3>5. Both(a, q)'
      BY <2>1, <2>6, Zenon DEF Ordered, Both, Running
    <3> QED BY <3>2, <3>4, <3>5, Zenon DEF Ordered
  <2> QED BY <2>4, <2>5, <2>6, <2>7, Zenon DEF IInv, Shape, Order
<1>2. CASE Connect
  BY <1>2, ConnectKeeps
<1>3. CASE DeleteStream
  BY <1>3, DeleteKeeps
<1>4. ASSUME NEW size \in Sizes \cup {0}, CreateStream(size) PROVE IInv'
  BY <1>4, CreateKeeps
<1>5. ASSUME NEW b \in Openings, NEW full \in BOOLEAN, Open(b, full) PROVE IInv'
  BY <1>5, OpenKeeps
<1>6. ASSUME NEW f \in Media, WriteMedia(f.cs, f.ts, f.kind) PROVE IInv'
  BY <1>6, MediaKeeps
<1>7. ASSUME NEW m \in Controls, WriteControl(m) PROVE IInv'
  BY <1>7, ControlKeeps
<1>8. ASSUME NEW b \in Commands, WriteCommand(b) PROVE IInv'
  BY <1>8, CommandKeeps
<1>9. ASSUME NEW d \in Dirs, Read(d) PROVE IInv'
  BY <1>9, ReadKeeps
<1>10. ASSUME NEW d \in Dirs, Handle(d) PROVE IInv'
  <2>1. CASE d = "up"
    BY <1>10, <2>1, HandleUpKeeps
  <2>2. CASE d = "down"
    <3>1. Handle("down")
      BY <1>10, <2>2, Zenon
    <3> QED BY <3>1, NotExistHeard, StateHeard, UnknownHeard, ReplyHeard, PassHeard, Zenon DEF Handle
  <2> QED BY <2>1, <2>2 DEF Dirs
<1>11. ASSUME NEW ok \in BOOLEAN, Serve(ok) PROVE IInv'
  BY <1>11, OnConnectKeeps, OnCreateKeeps, OnDeleteKeeps, NameKeeps, OnOpenKeeps, OnMediaKeeps, Zenon DEF Serve
<1> QED BY <1>1, <1>2, <1>3, <1>4, <1>5, <1>6, <1>7, <1>8, <1>9, <1>10, <1>11, Zenon DEF Next

\* What is on the wire takes each end from where it stands to where it is to be:
\* each message will be read as it was written, and finds the streams it was
\* written for (ChunkStreamer, streamHandler).
THEOREM Invariant == Spec => []IInv
<1>1. Init => IInv
  BY InitKeeps
<1>2. IInv /\ [Next]_vars => IInv'
  BY NextKeeps
<1> QED BY <1>1, <1>2, PTL DEF Spec

\* Both ends' tables keep their types and limits.
THEOREM Types == Spec => []TypeOK
<1>1. IInv => TypeOK
  <2> SUFFICES ASSUME IInv PROVE TypeOK
    OBVIOUS
  <2>1. Client /\ Streams /\ Loops /\ Peers /\ Counts /\ Drops /\ Sides
    BY Zenon DEF IInv, Shape
  <2>2. /\ phase \in {"new", "connecting", "connected", "creating", "refused"}
        /\ stream \in {"none", "open", "publish", "play"}
        /\ sstate[ControlStream] \in {"NotConnected", "Connected"}
        /\ sstate[DataStream] \in {"none", "Inactive", "Publish", "Play"}
    BY <2>1, Zenon DEF Client, Streams
  <2>3. ASSUME NEW d \in Dirs
        PROVE  /\ loop[d] \in {"running", "refused", "lost", "failed"}
               /\ ignored[d] \in 0 .. Threshold
               /\ count[d].fragment \in 0 .. count[d].total
               /\ peer[d].chunk > 0 /\ peer[d].chunk <= MaxChunkSize /\ peer[d].window <= MaxWindow
               /\ \A c \in ChunkStreams : r[d][c].ts \in 0 .. (StampModulus - 1)
    <3>1. loop[d] \in {"running", "refused", "lost", "failed"} /\ ignored[d] \in 0 .. Threshold
      BY <2>1 DEF Loops, Drops
    <3>2. count[d].fragment \in 0 .. count[d].total
      BY <2>1 DEF Counts
    <3>3. peer[d].chunk > 0 /\ peer[d].chunk <= MaxChunkSize /\ peer[d].window <= MaxWindow
      BY <2>1 DEF Peers
    <3>4. \A c \in ChunkStreams : r[d][c].ts \in 0 .. (StampModulus - 1)
      BY <2>1 DEF Sides, Readers, Clock
    <3> QED BY <3>1, <3>2, <3>3, <3>4
  <2> QED BY <2>2, <2>3, Zenon DEF TypeOK
<1> QED BY <1>1, Invariant, PTL

\* What Read returns is what Write was given.
THEOREM WireKeepsMessages == Spec => []ReadAsWritten
<1>1. IInv => ReadAsWritten
  BY Zenon DEF IInv, Shape, Boxes
<1> QED BY <1>1, Invariant, PTL

\* The Handler is called for what the client called.
THEOREM CallsComeThrough == Spec => []CalledAsAsked
<1>1. IInv => CalledAsAsked
  BY Zenon DEF IInv, Shape, Boxes
<1> QED BY <1>1, Invariant, PTL

\* The server's loop does not fail, whatever the client may be asked to write
\* and however often a Handler refuses.
THEOREM ServerSurvives == Spec => [](loop["up"] # "failed")
<1>1. IInv => loop["up"] # "failed"
  BY Zenon DEF IInv, Shape, Loops
<1> QED BY <1>1, Invariant, PTL

\* Nor does the client's, when it ignores as many messages for streams that are
\* gone as half its calls.
THEOREM NoLoopFails ==
  ASSUME IgnoreNotExist, MaxCalls <= 2 * Threshold
  PROVE  Spec => []LoopsSurvive
<1>1. IInv => LoopsSurvive
  BY Zenon DEF IInv, Shape, Loops, LoopsSurvive, Dirs
<1> QED BY <1>1, Invariant, PTL
=============================================================================
