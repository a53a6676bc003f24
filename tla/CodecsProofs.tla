---------------------------- MODULE CodecsProofs ----------------------------
(* What goes over the wire as bytes, for any length, mask and maximum, and  *)
(* any bytes.                                                               *)
(* The first part proves what WsServer takes for granted of the frames      *)
(* (FrameHeader, Framing): lengths, masks and fragments are read as they    *)
(* were written.  The invariant says that what is on the wire leads, frame  *)
(* by frame, from what the reader has to what the writer has sent, as long  *)
(* as no message is longer than a size_t can say.                           *)
(* The second part is about texts (Parsers): what is percent-encoded comes  *)
(* back, from a query string and from the attributes of a header field.     *)
(* The parsers are recursive functions of the position; that such a         *)
(* function is what its equation says, and what it comes to, is shown by    *)
(* induction on the length.  The induction is about a SET of lengths        *)
(* (SetInduction), so that it needs no theorem with an operator as a        *)
(* parameter.                                                               *)
EXTENDS Codecs, SequenceTheorems, WellFoundedInduction, TLAPS

-----------------------------------------------------------------------------
(* The header of a frame is read as it was written, for every opcode and    *)
(* every length a size_t can hold.                                          *)

(* 2 to the power of 32 *)
Word == 65536 * 65536

(* What a size_t can hold. *)
Sizes == {n \in Nat : n < Word * Word}
Byte == 0 .. 255

(* A number below 65536 is read back from its two bytes. *)
LEMMA TwoBytes ==
  \A n \in Nat : /\ Two(n) \in Seq(Byte) /\ Len(Two(n)) = 2
                 /\ 256 * Two(n)[1] + Two(n)[2] = n % 65536
  <1> TAKE n \in Nat
  <1>1. /\ (n \div 256) % 256 \in Byte /\ n % 256 \in Byte
        /\ 256 * ((n \div 256) % 256) + (n % 256) = n % 65536
    BY SMT DEF Byte
  <1> QED BY <1>1, SMT DEF Two

(* Four bytes hold a number up to 2^32. *)
LEMMA FourBytes ==
  \A n \in Nat : /\ Four(n) \in Seq(Byte) /\ Len(Four(n)) = 4
                 /\ Value4(Four(n), 1) = n % Word
  <1> TAKE n \in Nat
  <1> DEFINE h == n \div 65536
  <1>1. h \in Nat
    BY SMT
  <1> HIDE DEF h
  <1>2. /\ Two(h) \in Seq(Byte) /\ Len(Two(h)) = 2
        /\ 256 * Two(h)[1] + Two(h)[2] = h % 65536
    BY <1>1, TwoBytes, SMT
  <1>3. /\ Two(n) \in Seq(Byte) /\ Len(Two(n)) = 2
        /\ 256 * Two(n)[1] + Two(n)[2] = n % 65536
    BY TwoBytes, SMT
  <1>4. /\ Four(n) \in Seq(Byte) /\ Len(Four(n)) = 4
        /\ Four(n)[1] = Two(h)[1] /\ Four(n)[2] = Two(h)[2]
        /\ Four(n)[3] = Two(n)[1] /\ Four(n)[4] = Two(n)[2]
    BY <1>2, <1>3, SMT DEF Four, h
  <1>5. Value4(Four(n), 1) = 65536 * (h % 65536) + (n % 65536)
    BY <1>2, <1>3, <1>4, SMT DEF Value4, Value2
  <1>6. 65536 * (h % 65536) + (n % 65536) = n % Word
    BY SMT DEF Word, h
  <1> QED BY <1>4, <1>5, <1>6, SMT

(* Eight bytes hold every length. *)
LEMMA EightBytes ==
  \A n \in Sizes : /\ Eight(n) \in Seq(Byte) /\ Len(Eight(n)) = 8
                     /\ Value8(Eight(n), 1) = n
  <1> TAKE n \in Sizes
  <1> DEFINE h == (n \div 65536) \div 65536
  <1>1. n \in Nat /\ n < Word * Word
    BY SMT DEF Sizes
  <1>0. h \in Nat /\ h < Word
    BY <1>1, SMT DEF Word
  <1> HIDE DEF h
  <1>2. /\ Four(h) \in Seq(Byte) /\ Len(Four(h)) = 4
        /\ Value4(Four(h), 1) = h % Word
    BY <1>0, FourBytes, SMT
  <1>3. /\ Four(n) \in Seq(Byte) /\ Len(Four(n)) = 4
        /\ Value4(Four(n), 1) = n % Word
    BY <1>1, FourBytes, SMT
  <1>4. /\ Eight(n) \in Seq(Byte) /\ Len(Eight(n)) = 8
        /\ Eight(n)[1] = Four(h)[1] /\ Eight(n)[2] = Four(h)[2]
        /\ Eight(n)[3] = Four(h)[3] /\ Eight(n)[4] = Four(h)[4]
        /\ Eight(n)[5] = Four(n)[1] /\ Eight(n)[6] = Four(n)[2]
        /\ Eight(n)[7] = Four(n)[3] /\ Eight(n)[8] = Four(n)[4]
    <2> DEFINE hi == Four(h)
               lo == Four(n)
    <2>1. /\ hi \in Seq(Byte) /\ Len(hi) = 4
          /\ lo \in Seq(Byte) /\ Len(lo) = 4
      BY <1>2, <1>3, Zenon
    <2>2. Eight(n) = hi \o lo
      BY DEF Eight, h
    <2> HIDE DEF hi, lo
    <2>3. /\ hi \o lo \in Seq(Byte)
          /\ Len(hi \o lo) = Len(hi) + Len(lo)
          /\ \A i \in 1..(Len(hi) + Len(lo)) :
                (hi \o lo)[i] = IF i <= Len(hi) THEN hi[i]
                                              ELSE lo[i - Len(hi)]
      BY <2>1, ConcatProperties
    <2>4. /\ Len(hi \o lo) = 8
          /\ (hi \o lo)[1] = hi[1] /\ (hi \o lo)[2] = hi[2]
          /\ (hi \o lo)[3] = hi[3] /\ (hi \o lo)[4] = hi[4]
          /\ (hi \o lo)[5] = lo[1] /\ (hi \o lo)[6] = lo[2]
          /\ (hi \o lo)[7] = lo[3] /\ (hi \o lo)[8] = lo[4]
      BY <2>1, <2>3, SMT
    <2> QED BY <2>2, <2>3, <2>4, Zenon DEF hi, lo
  <1>5. /\ Value4(Eight(n), 1) = Value4(Four(h), 1)
        /\ Value4(Eight(n), 5) = Value4(Four(n), 1)
    BY <1>4, SMT DEF Value4, Value2
  <1>6. h % Word = h
    BY <1>0, SMT DEF Word
  <1>7. 65536 * (65536 * h) + (n % Word) = n
    BY <1>1, SMT DEF Word, h
  <1> QED BY <1>2, <1>3, <1>4, <1>5, <1>6, <1>7, SMT DEF Value8

(* Whatever opcode and length send is given, masked or not, the first two   *)
(* bytes tell the reader the opcode, whether there is a mask and how many   *)
(* bytes the length takes; so many follow, and what is read from them is    *)
(* the length that was written.                                             *)
THEOREM HeaderRoundTrip ==
  ASSUME NEW opcode \in Byte, NEW len \in Sizes, NEW masked \in BOOLEAN
  PROVE  LET header == Header(opcode, len, masked)
             rest == SubSeq(header, 3, Len(header))
         IN  /\ header \in Seq(Byte)
             /\ header[1] = opcode
             /\ HasMask(header[2]) = masked
             /\ Len(header) = 2 + Following(header[2])
             /\ LengthRead(header[2], rest) = len
  <1> DEFINE second == LengthCode(len) + IF masked THEN 128 ELSE 0
             bytes == LengthBytes(len)
             header == Header(opcode, len, masked)
             rest == SubSeq(header, 3, Len(header))
  <1>0. len \in Nat
    BY SMT DEF Sizes
  <1>1. /\ len \in Nat /\ LengthCode(len) \in 0..127
        /\ second \in Byte /\ Code(second) = LengthCode(len)
        /\ HasMask(second) = masked
    BY <1>0, SMT DEF LengthCode, Code, HasMask, Byte
  <1>2. /\ bytes \in Seq(Byte) /\ Len(bytes) = Following(second)
        /\ LengthRead(second, bytes) = len
    <2>1. CASE len > 65535
      <3>1. bytes = Eight(len) /\ Code(second) = 127
        BY <1>1, <2>1, SMT DEF LengthBytes, LengthCode
      <3>2. Following(second) = 8
        BY <3>1, SMT DEF Following
      <3>3. /\ Eight(len) \in Seq(Byte) /\ Len(Eight(len)) = 8
            /\ Value8(Eight(len), 1) = len
        BY EightBytes, SMT
      <3> QED BY <3>1, <3>2, <3>3, SMT DEF LengthRead
    <2>2. CASE len <= 65535 /\ len >= 126
      <3>1. bytes = Two(len) /\ Code(second) = 126
        BY <1>1, <2>2, SMT DEF LengthBytes, LengthCode
      <3>2. Following(second) = 2
        BY <3>1, SMT DEF Following
      <3>3. len % 65536 = len
        BY <1>1, <2>2, SMT
      <3>4. /\ Two(len) \in Seq(Byte) /\ Len(Two(len)) = 2
            /\ 256 * Two(len)[1] + Two(len)[2] = len % 65536
        BY <1>1, TwoBytes, SMT
      <3> QED BY <3>1, <3>2, <3>3, <3>4, SMT DEF LengthRead, Value2
    <2>3. CASE len < 126
      <3>1. bytes = <<>> /\ Code(second) = len
        BY <1>1, <2>3, SMT DEF LengthBytes, LengthCode
      <3>2. Following(second) = 0
        BY <3>1, <2>3, <1>1, SMT DEF Following
      <3> QED BY <3>1, <3>2, SMT DEF LengthRead
    <2> QED BY <1>1, <2>1, <2>2, <2>3, SMT
  <1>3. /\ header \in Seq(Byte) /\ Len(header) = 2 + Len(bytes)
        /\ header[1] = opcode /\ header[2] = second
    BY <1>1, <1>2, SMT DEF Header
  <1>4. rest = bytes
    <2>1. header = <<opcode, second>> \o bytes
      BY SMT DEF Header
    <2>2. /\ Len(rest) = Len(bytes)
          /\ \A i \in 1..Len(bytes) : rest[i] = bytes[i]
      BY <1>1, <1>2, <1>3, <2>1, SMT
    <2>3. rest \in Seq(Byte)
      BY <1>2, <1>3, SMT
    <2> QED BY <1>2, <2>2, <2>3, SMT
  <1> QED BY <1>1, <1>2, <1>3, <1>4

-----------------------------------------------------------------------------
(* The mask *)

(* A byte is the sum of its bits. *)
LEMMA BitsOfByte ==
  \A n \in Byte :
     n = 1 * (n % 2) + 2 * ((n \div 2) % 2) + 4 * ((n \div 4) % 2)
           + 8 * ((n \div 8) % 2) + 16 * ((n \div 16) % 2)
           + 32 * ((n \div 32) % 2) + 64 * ((n \div 64) % 2)
           + 128 * ((n \div 128) % 2)
BY SMTT(60) DEF Byte

(* The bits of a sum of bits. *)
LEMMA ByteOfBits ==
  ASSUME NEW a \in {0, 1}, NEW b \in {0, 1}, NEW c \in {0, 1}, NEW d \in {0, 1},
         NEW e \in {0, 1}, NEW f \in {0, 1}, NEW g \in {0, 1}, NEW h \in {0, 1},
         NEW n, n = a + 2*b + 4*c + 8*d + 16*e + 32*f + 64*g + 128*h
  PROVE  /\ n \in Byte
         /\ n % 2 = a /\ (n \div 2) % 2 = b /\ (n \div 4) % 2 = c
         /\ (n \div 8) % 2 = d /\ (n \div 16) % 2 = e
         /\ (n \div 32) % 2 = f /\ (n \div 64) % 2 = g
         /\ (n \div 128) % 2 = h
BY SMTT(60) DEF Byte

(* A bit is the same when another one is added to it twice. *)
LEMMA BitTwice ==
  \A n, m \in Nat : /\ (n + m) % 2 \in {0, 1}
                    /\ (((n + m) % 2) + m) % 2 = n % 2
                    /\ ((n % 2) + m) % 2 = (n + m) % 2
BY SMT

(* What is masked twice is what it was. *)
LEMMA XorTwice ==
  ASSUME NEW a \in Byte, NEW b \in Byte
  PROVE  Xor(a, b) \in Byte /\ Xor(Xor(a, b), b) = a
<1> DEFINE bit(x, p) == (x \div p + b \div p) % 2
           x == Xor(a, b)
<1>1. \A p \in {1, 2, 4, 8, 16, 32, 64, 128} :
         a \div p \in Nat /\ b \div p \in Nat
  BY SMT DEF Byte
<1>2. \A p \in {1, 2, 4, 8, 16, 32, 64, 128} : bit(a, p) \in {0, 1}
  BY <1>1, BitTwice, ZenonT(40)
<1>3. x = bit(a, 1) + 2 * bit(a, 2) + 4 * bit(a, 4) + 8 * bit(a, 8)
            + 16 * bit(a, 16) + 32 * bit(a, 32) + 64 * bit(a, 64)
            + 128 * bit(a, 128)
  BY <1>2, SMT DEF Xor
<1> HIDE DEF x
<1>4. /\ x \in Byte
      /\ x % 2 = bit(a, 1) /\ (x \div 2) % 2 = bit(a, 2)
      /\ (x \div 4) % 2 = bit(a, 4) /\ (x \div 8) % 2 = bit(a, 8)
      /\ (x \div 16) % 2 = bit(a, 16) /\ (x \div 32) % 2 = bit(a, 32)
      /\ (x \div 64) % 2 = bit(a, 64) /\ (x \div 128) % 2 = bit(a, 128)
  <2> DEFINE y1 == bit(a, 1)
             y2 == bit(a, 2)
             y3 == bit(a, 4)
             y4 == bit(a, 8)
             y5 == bit(a, 16)
             y6 == bit(a, 32)
             y7 == bit(a, 64)
             y8 == bit(a, 128)
  <2>1. /\ y1 \in {0, 1} /\ y2 \in {0, 1} /\ y3 \in {0, 1} /\ y4 \in {0, 1}
        /\ y5 \in {0, 1} /\ y6 \in {0, 1} /\ y7 \in {0, 1} /\ y8 \in {0, 1}
    BY <1>2
  <2>2. x = y1 + 2*y2 + 4*y3 + 8*y4 + 16*y5 + 32*y6 + 64*y7 + 128*y8
    BY <1>3
  <2> HIDE DEF y1, y2, y3, y4, y5, y6, y7, y8
  <2>3. /\ x \in Byte
        /\ x % 2 = y1 /\ (x \div 2) % 2 = y2
        /\ (x \div 4) % 2 = y3 /\ (x \div 8) % 2 = y4
        /\ (x \div 16) % 2 = y5 /\ (x \div 32) % 2 = y6
        /\ (x \div 64) % 2 = y7 /\ (x \div 128) % 2 = y8
    BY <2>1, <2>2, ByteOfBits
  <2> QED
    BY <2>3 DEF y1, y2, y3, y4, y5, y6, y7, y8
<1>5. /\ x \div 1 = x
      /\ \A p \in {1, 2, 4, 8, 16, 32, 64, 128} : x \div p \in Nat
  BY <1>4, SMT DEF Byte
<1>6. \A p \in {1, 2, 4, 8, 16, 32, 64, 128} :
         (x \div p) % 2 = bit(a, p) => bit(x, p) = (a \div p) % 2
  <2> TAKE p \in {1, 2, 4, 8, 16, 32, 64, 128}
  <2> DEFINE i == a \div p
             j == b \div p
             k == x \div p
  <2>1. i \in Nat /\ j \in Nat /\ k \in Nat
    BY <1>1, <1>5
  <2> HIDE DEF i, j, k
  <2>2. k % 2 = (i + j) % 2 => (k + j) % 2 = i % 2
    BY <2>1, SMT
  <2> QED
    BY <2>2 DEF i, j, k
<1>7. Xor(x, b) = bit(x, 1) + 2 * bit(x, 2) + 4 * bit(x, 4) + 8 * bit(x, 8)
            + 16 * bit(x, 16) + 32 * bit(x, 32) + 64 * bit(x, 64)
            + 128 * bit(x, 128)
  <2>1. \A p \in {1, 2, 4, 8, 16, 32, 64, 128} : bit(x, p) \in {0, 1}
    BY <1>1, <1>5, BitTwice, ZenonT(40)
  <2> QED
    BY <2>1, SMT DEF Xor
<1>8. a \div 1 = a
  BY SMT DEF Byte
<1>9. Xor(x, b) = a
  <2>1. /\ bit(x, 1) = a % 2 /\ bit(x, 2) = (a \div 2) % 2
        /\ bit(x, 4) = (a \div 4) % 2 /\ bit(x, 8) = (a \div 8) % 2
        /\ bit(x, 16) = (a \div 16) % 2 /\ bit(x, 32) = (a \div 32) % 2
        /\ bit(x, 64) = (a \div 64) % 2 /\ bit(x, 128) = (a \div 128) % 2
    <3> HIDE DEF bit
    <3> QED
      BY <1>4, <1>5, <1>6, <1>8
  <2>2. a = 1 * (a % 2) + 2 * ((a \div 2) % 2) + 4 * ((a \div 4) % 2)
              + 8 * ((a \div 8) % 2) + 16 * ((a \div 16) % 2)
              + 32 * ((a \div 32) % 2) + 64 * ((a \div 64) % 2)
              + 128 * ((a \div 128) % 2)
    BY BitsOfByte, Zenon
  <2>3. a % 2 = 1 * (a % 2)
    BY SMT DEF Byte
  <2> HIDE DEF bit
  <2> QED
    BY <1>7, <2>1, <2>2, <2>3, ZenonT(40)
<1> QED
  BY <1>4, <1>9 DEF x

Keys == {mask \in Seq(Byte) : Len(mask) = 4}

(* What the mask is applied to twice is as it was. *)
LEMMA MaskedTwice ==
  ASSUME NEW bytes \in Seq(Byte), NEW mask \in Keys
  PROVE  /\ Masked(bytes, mask) \in Seq(Byte)
         /\ Masked(Masked(bytes, mask), mask) = bytes
<1> DEFINE n == Len(bytes)
           key(i) == mask[1 + ((i - 1) % 4)]
           once == Masked(bytes, mask)
<1>1. n \in Nat /\ DOMAIN bytes = 1..n /\ \A i \in 1..n : bytes[i] \in Byte
  OBVIOUS
<1>2. \A i \in 1..n : key(i) \in Byte
  <2>1. \A i \in 1..n : 1 + ((i - 1) % 4) \in 1..4
    BY <1>1
  <2>2. \A k \in 1..4 : mask[k] \in Byte
    <3>1. mask \in Seq(Byte) /\ Len(mask) = 4
      BY DEF Keys
    <3> QED
      BY <3>1, ElementOfSeq
  <2> QED
    BY <2>1, <2>2, Zenon
<1> HIDE DEF n
<1>3. once = [i \in 1..n |-> Xor(bytes[i], key(i))]
  BY <1>1 DEF Masked
<1> HIDE DEF key, once
<1>4. \A i \in 1..n : /\ Xor(bytes[i], key(i)) \in Byte
                      /\ Xor(Xor(bytes[i], key(i)), key(i)) = bytes[i]
  BY <1>1, <1>2, XorTwice
<1>5. once \in Seq(Byte) /\ DOMAIN once = 1..n
  <2>1. once \in [1..n -> Byte]
    BY <1>3, <1>4
  <2> QED
    BY <1>1, <2>1, SeqDef
<1>6. Masked(once, mask) = [i \in 1..n |-> Xor(once[i], key(i))]
  BY <1>5 DEF Masked, key
<1>7. Masked(once, mask) = [i \in 1..n |-> bytes[i]]
  BY <1>3, <1>4, <1>6
<1>8. bytes = [i \in 1..n |-> bytes[i]]
  BY <1>1
<1> QED
  BY <1>5, <1>7, <1>8 DEF once

-----------------------------------------------------------------------------
(* The frames on the wire *)

Messages == [op : Nat, length : Nat, bytes : Seq(Byte)]
Closings == [op : Nat, status : Nat, reason : Seq(Byte)]
Told == Messages \cup Closings
Records == [header : Seq(Byte), length : Nat, bytes : Seq(Byte)]

(* What send makes of a content. *)
OnWire(masked, op, len, bytes, mask) ==
    IF masked THEN [header |-> Header(op, len, TRUE) \o mask, length |-> len,
                    bytes |-> Masked(bytes, mask)]
              ELSE [header |-> Header(op, len, FALSE), length |-> len,
                    bytes |-> bytes]

(* A point between two frames: the message that has not come to its end,    *)
(* and what the application has been told.                                  *)
Points == [message : Messages, told : Seq(Told)]

(* s is what t begins with. *)
Begins(s, t) ==
    Len(s) <= Len(t) /\ \A i \in 1..Len(s) : t[i] = s[i]

(* He is told of a close with the status and the reason in these bytes. *)
Closes(len, bytes, a, b) ==
    \E status \in StatusCodes, reason \in Seq(Byte) :
       /\ len >= 2
       /\ bytes = StatusBytes(status) \o reason
       /\ b.told = Append(a.told, Closing(status, reason))

(* What a frame with this content means to one who is at a: it takes him to *)
(* b.                                                                       *)
Means(op, len, bytes, a, b) ==
    \/ /\ op = 129 /\ a.message = NoMessage /\ b.message = NoMessage
       /\ b.told = Append(a.told, InMessage(129, len, bytes))
    \/ /\ op = 1 /\ a.message = NoMessage
       /\ b.message = InMessage(129, len, bytes) /\ b.told = a.told
    \/ /\ op = 0 /\ a.message # NoMessage
       /\ b.message = Extend(a.message, len, bytes) /\ b.told = a.told
    \/ /\ op = 128 /\ a.message # NoMessage /\ b.message = NoMessage
       /\ b.told = Append(a.told, Extend(a.message, len, bytes))
    \/ /\ op = 137 /\ b.message = a.message
       /\ b.told = Append(a.told, InMessage(138, len, bytes))
    \/ /\ op = 136 /\ b.message = a.message
       /\ Closes(len, bytes, a, b)

(* The frame takes him there, and no sum of its length with what he has of  *)
(* a message or with the length of a mask wraps.                            *)
Takes(masked, written, a, b) ==
    \E op \in Byte, len \in Sizes, bytes \in Seq(Byte), mask \in Keys :
       /\ written = OnWire(masked, op, len, bytes, mask)
       /\ a.message.length + len < SizeMod /\ len + 4 < SizeMod
       /\ Means(op, len, bytes, a, b)

(* points is what lies between the frames of w, from a on and up to b. *)
Chain(masked, points, w, a, b) ==
    /\ points \in Seq(Points) /\ Len(points) = Len(w) + 1
    /\ points[1] = a /\ points[Len(points)] = b
    /\ \A i \in 1..Len(w) : Takes(masked, w[i], points[i], points[i + 1])
    /\ \A i \in 1..Len(points) : Begins(points[i].told, b.told)

Reader == [message |-> fragmented_in_message, told |-> got]
Writer == [message |-> unfinished, told |-> due]

FrameTypes ==
    /\ toServer \in BOOLEAN
    /\ wire \in Seq(Records)
    /\ count \in Nat
    /\ unfinished \in Messages /\ fragmented_in_message \in Messages
    /\ pc \in {"head", "length", "content", "closed", "refused"}
    /\ length \in Nat
    /\ due \in Seq(Told) /\ got \in Seq(Told)

(* What the reader has read of the frame. *)
ReadFit ==
    /\ pc \in {"length", "content", "refused"} => wire # <<>>
    /\ pc \in {"content", "refused"} => length = Frame.length
    /\ pc = "refused" => WouldBeTooBig

(* Nothing that is kept or handed over is too long. *)
KeptFit ==
    /\ fragmented_in_message.length <= MaxMessageSize
    /\ \A i \in DOMAIN got :
          OpCode(got[i].op) # 8 => got[i].length <= MaxMessageSize

FrameInv ==
    /\ FrameTypes
    /\ ReadFit
    /\ KeptFit
    /\ \E points : Chain(toServer, points, wire, Reader, Writer)

LEMMA BeginsTwice ==
  ASSUME NEW S, NEW s \in Seq(S), NEW t \in Seq(S), NEW u \in Seq(S),
         Begins(s, t), Begins(t, u)
  PROVE  Begins(s, u)
BY DEF Begins

LEMMA BeginsAppend ==
  ASSUME NEW S, NEW s \in Seq(S), NEW x \in S
  PROVE  Begins(s, s) /\ Begins(s, Append(s, x))
BY AppendProperties DEF Begins

LEMMA BeginsIsPrefix ==
  ASSUME NEW S, NEW s \in Seq(S), NEW t \in Seq(S), Begins(s, t)
  PROVE  IsPrefix(s, t)
<1> DEFINE n == Len(s)
<1>1. n \in Nat /\ \A i \in 1..n : s[i] = t[i]
  BY DEF Begins
<1>2. SubSeq(s, 1, n) = [i \in 1..n |-> s[i]]
  OBVIOUS
<1>3. SubSeq(t, 1, n) = [i \in 1..n |-> t[i]]
  BY DEF Begins
<1> HIDE DEF n
<1>4. SubSeq(s, 1, n) = SubSeq(t, 1, n)
  BY <1>1, <1>2, <1>3
<1> QED
  BY <1>4 DEF IsPrefix, Begins, n

(* A frame is put on the wire. *)
LEMMA ChainGrows ==
  ASSUME NEW masked, NEW points, NEW w \in Seq(Records), NEW a,
         NEW b \in Points, NEW c \in Points, NEW written \in Records,
         Chain(masked, points, w, a, b), Takes(masked, written, b, c),
         Begins(b.told, c.told)
  PROVE  Chain(masked, Append(points, c), Append(w, written), a, c)
<1> DEFINE n == Len(w)
           ps == Append(points, c)
           fs == Append(w, written)
<1>1. /\ points \in Seq(Points) /\ Len(points) = n + 1 /\ n \in Nat
      /\ points[1] = a /\ points[n + 1] = b
  BY DEF Chain
<1>2. /\ ps \in Seq(Points) /\ Len(ps) = n + 2 /\ ps[n + 2] = c
      /\ \A i \in 1..(n + 1) : ps[i] = points[i]
      /\ fs \in Seq(Records) /\ Len(fs) = n + 1 /\ fs[n + 1] = written
      /\ \A i \in 1..n : fs[i] = w[i]
  BY <1>1, AppendProperties
<1>3. \A i \in 1..n : Takes(masked, w[i], points[i], points[i + 1])
  BY DEF Chain
<1>4. \A i \in 1..(n + 1) : Begins(points[i].told, b.told)
  BY <1>1 DEF Chain
<1>5. \A i \in 1..(n + 1) : points[i].told \in Seq(Told)
  <2>1. \A i \in 1..(n + 1) : points[i] \in Points
    BY <1>1
  <2> QED
    BY <2>1 DEF Points
<1>6. b.told \in Seq(Told) /\ c.told \in Seq(Told)
  BY DEF Points
<1> HIDE DEF n, ps, fs
<1>7. \A i \in 1..(n + 1) : Takes(masked, fs[i], ps[i], ps[i + 1])
  <2> TAKE i \in 1..(n + 1)
  <2>1. CASE i = n + 1
    BY <1>1, <1>2, <2>1
  <2>2. CASE i \in 1..n
    <3>1. ps[i] = points[i] /\ ps[i + 1] = points[i + 1] /\ fs[i] = w[i]
      BY <1>1, <1>2, <2>2
    <3> QED
      BY <1>3, <2>2, <3>1
  <2> QED
    BY <1>1, <2>1, <2>2
<1>8. \A i \in 1..(n + 2) : Begins(ps[i].told, c.told)
  <2> TAKE i \in 1..(n + 2)
  <2>1. CASE i = n + 2
    BY <1>2, <1>6, <2>1 DEF Begins
  <2>2. CASE i \in 1..(n + 1)
    <3>1. ps[i] = points[i] /\ points[i].told \in Seq(Told)
          /\ Begins(points[i].told, b.told)
      BY <1>2, <1>4, <1>5, <2>2
    <3> QED
      BY <1>6, <3>1, BeginsTwice
  <2> QED
    BY <1>1, <2>1, <2>2
<1>9. ps[1] = a
  BY <1>1, <1>2
<1> QED
  BY <1>1, <1>2, <1>7, <1>8, <1>9 DEF Chain, ps, fs

(* A frame is read. *)
LEMMA ChainShrinks ==
  ASSUME NEW masked, NEW points, NEW w \in Seq(Records), NEW a, NEW b,
         Chain(masked, points, w, a, b), w # <<>>
  PROVE  /\ points[2] \in Points
         /\ Takes(masked, Head(w), a, points[2])
         /\ Chain(masked, Tail(points), Tail(w), points[2], b)
<1> DEFINE n == Len(w)
           ps == Tail(points)
           fs == Tail(w)
<1>1. /\ points \in Seq(Points) /\ Len(points) = n + 1 /\ n \in Nat /\ n > 0
      /\ points[1] = a /\ points[n + 1] = b
  BY DEF Chain
<1>2. /\ ps \in Seq(Points) /\ Len(ps) = n
      /\ \A i \in 1..n : ps[i] = points[i + 1]
      /\ fs \in Seq(Records) /\ Len(fs) = n - 1 /\ Head(w) = w[1]
      /\ \A i \in 1..(n - 1) : fs[i] = w[i + 1]
  BY <1>1, HeadTailProperties
<1>3. \A i \in 1..n : Takes(masked, w[i], points[i], points[i + 1])
  BY DEF Chain
<1>4. \A i \in 1..(n + 1) : Begins(points[i].told, b.told)
  BY <1>1 DEF Chain
<1>5. points[2] \in Points
  BY <1>1
<1> HIDE DEF n, ps, fs
<1>6. \A i \in 1..(n - 1) : Takes(masked, fs[i], ps[i], ps[i + 1])
  <2> TAKE i \in 1..(n - 1)
  <2>1. /\ i \in 1..n /\ i + 1 \in 1..n /\ ps[i] = points[i + 1]
        /\ ps[i + 1] = points[(i + 1) + 1] /\ fs[i] = w[i + 1]
    BY <1>1, <1>2
  <2> QED
    BY <1>3, <2>1
<1>7. \A i \in 1..n : Begins(ps[i].told, b.told)
  <2> TAKE i \in 1..n
  <2>1. i + 1 \in 1..(n + 1) /\ ps[i] = points[i + 1]
    BY <1>1, <1>2
  <2> QED
    BY <1>4, <2>1
<1>8. ps[1] = points[2] /\ ps[n] = b
  BY <1>1, <1>2
<1>9. Takes(masked, w[1], points[1], points[1 + 1])
  BY <1>1, <1>3
<1>10. Chain(masked, ps, fs, points[2], b)
  <2>1. Len(ps) = Len(fs) + 1 /\ Len(fs) = n - 1
    BY <1>1, <1>2
  <2> QED
    BY <1>2, <1>6, <1>7, <1>8, <2>1 DEF Chain
<1> QED
  BY <1>1, <1>2, <1>5, <1>9, <1>10 DEF ps, fs

-----------------------------------------------------------------------------
(* A frame is read as it was written. *)

LEMMA SizeT == \A n \in Nat : InSizeT(n) => n \in Sizes
<1> SUFFICES ASSUME NEW n \in Nat, InSizeT(n) PROVE n \in Sizes
  OBVIOUS
<1> DEFINE n1 == n \div 65536
           n2 == n1 \div 65536
           n3 == n2 \div 65536
<1>1. n1 \in Nat /\ n < 65536 * n1 + 65536
  BY SMT
<1>2. n2 \in Nat /\ n1 < 65536 * n2 + 65536
  BY <1>1, SMT
<1>3. n3 \in Nat /\ n2 < 65536 * n3 + 65536
  BY <1>2, SMT
<1>4. n3 \div 65536 = 0
  BY DEF InSizeT
<1> HIDE DEF n1, n2, n3
<1>5. n3 < 65536
  BY <1>3, <1>4, SMT
<1>6. n2 < Word
  BY <1>2, <1>3, <1>5, SMT DEF Word
<1>7. n1 < 65536 * Word
  BY <1>1, <1>2, <1>6, SMT DEF Word
<1>8. n < Word * Word
  <2>1. Word * Word = 65536 * (65536 * Word)
    BY SMT DEF Word
  <2>2. Word \in Nat
    BY SMT DEF Word
  <2> QED
    BY <1>1, <1>7, <2>1, <2>2, SMT
<1> QED
  BY <1>8 DEF Sizes

LEMMA FrameRead ==
  ASSUME toServer \in BOOLEAN, NEW op \in Byte, NEW len \in Sizes,
         NEW bytes \in Seq(Byte), NEW mask \in Keys,
         Frame = OnWire(toServer, op, len, bytes, mask)
  PROVE  /\ Frame \in Records
         /\ First = op /\ HasMask(Second) = toServer
         /\ LengthRead(Second, SubSeq(Frame.header, 3, 2 + Following(Second)))
              = len
         /\ Following(Second) = 0 => Code(Second) = len
         /\ Frame.length = len
         /\ Len(Frame.header) = 2 + Following(Second) + MaskBytes
         /\ Unmasked = bytes
<1> DEFINE H == Header(op, len, toServer)
<1>1. /\ H \in Seq(Byte) /\ H[1] = op /\ HasMask(H[2]) = toServer
      /\ Len(H) = 2 + Following(H[2])
      /\ LengthRead(H[2], SubSeq(H, 3, Len(H))) = len
  BY HeaderRoundTrip
<1>2. Len(H) \in Nat /\ Len(H) >= 2 /\ Following(H[2]) \in {0, 2, 8}
  <2>1. Following(H[2]) \in {0, 2, 8}
    BY DEF Following
  <2> QED
    BY <1>1, <2>1
<1>3. Following(H[2]) = 0 => Code(H[2]) = len
  BY <1>1 DEF LengthRead
<1>4. len \in Nat /\ mask \in Seq(Byte) /\ Len(mask) = 4
  BY DEF Sizes, Keys
<1>5. /\ Masked(bytes, mask) \in Seq(Byte)
      /\ Masked(Masked(bytes, mask), mask) = bytes
  BY MaskedTwice
<1> HIDE DEF H
<1>6. CASE toServer
  <2>1. /\ Frame = [header |-> H \o mask, length |-> len,
                    bytes |-> Masked(bytes, mask)]
        /\ Frame.header = H \o mask /\ Frame.length = len
        /\ Frame.bytes = Masked(bytes, mask)
    BY <1>6 DEF OnWire, H
  <2>2. /\ H \o mask \in Seq(Byte) /\ Len(H \o mask) = Len(H) + 4
        /\ (H \o mask)[1] = H[1] /\ (H \o mask)[2] = H[2]
    <3>1. /\ H \o mask \in Seq(Byte) /\ Len(H \o mask) = Len(H) + Len(mask)
          /\ \A i \in 1..Len(H) + Len(mask) :
                (H \o mask)[i] = IF i <= Len(H) THEN H[i]
                                ELSE mask[i - Len(H)]
      BY <1>1, <1>4, ConcatProperties
    <3>2. /\ 1 \in 1..Len(H) + Len(mask) /\ 1 <= Len(H)
          /\ 2 \in 1..Len(H) + Len(mask) /\ 2 <= Len(H)
      BY <1>2, <1>4
    <3> QED
      BY <1>4, <3>1, <3>2
  <2>3. SubSeq(H \o mask, 3, Len(H)) = SubSeq(H, 3, Len(H))
    BY <1>1, <1>2, <1>4, SubSeqOfConcat1
  <2>4. SubSeq(H \o mask, Len(H) + 1, Len(H) + 4) = mask
    <3>1. SubSeq(H \o mask, Len(H) + 1, Len(H) + 4) = SubSeq(mask, 1, 4)
      <4>1. /\ Len(H) + 1 \in Len(H) + 1 .. Len(H) + Len(mask)
            /\ Len(H) + 4 \in Len(H) + 1 .. Len(H) + Len(mask)
            /\ (Len(H) + 1) - Len(H) = 1 /\ (Len(H) + 4) - Len(H) = 4
        BY <1>2, <1>4
      <4>2. SubSeq(H \o mask, Len(H) + 1, Len(H) + 4)
              = SubSeq(mask, (Len(H) + 1) - Len(H), (Len(H) + 4) - Len(H))
        BY <1>1, <1>4, <4>1, SubSeqOfConcat2
      <4> QED
        BY <4>1, <4>2
    <3>2. SubSeq(mask, 1, 4) = mask
      BY <1>4, SubSeqFull
    <3> QED
      BY <3>1, <3>2
  <2>5. Unmasked = bytes
    <3>1. Len(Frame.header) - 3 = Len(H) + 1 /\ Len(Frame.header) = Len(H) + 4
      BY <1>2, <2>1, <2>2
    <3> QED
      BY <1>5, <1>6, <2>1, <2>4, <3>1 DEF Unmasked
  <2>6. First = H[1] /\ Second = H[2]
    BY <2>1, <2>2 DEF First, Second
  <2>7. Frame \in Records
    BY <1>4, <1>5, <2>1, <2>2 DEF Records
  <2> QED
    BY <1>1, <1>2, <1>3, <1>6, <2>1, <2>2, <2>3, <2>5, <2>6, <2>7 DEF MaskBytes
<1>7. CASE ~toServer
  <2>1. /\ Frame = [header |-> H, length |-> len, bytes |-> bytes]
        /\ Frame.header = H /\ Frame.length = len /\ Frame.bytes = bytes
    BY <1>7 DEF OnWire, H
  <2>2. First = H[1] /\ Second = H[2] /\ Unmasked = bytes
    BY <1>7, <2>1 DEF First, Second, Unmasked
  <2>3. Frame \in Records
    BY <1>1, <1>4, <2>1 DEF Records
  <2> QED
    BY <1>1, <1>2, <1>3, <1>7, <2>1, <2>2, <2>3 DEF MaskBytes
<1> QED
  BY <1>6, <1>7

(* What is first on the wire takes the reader to the next point. *)
LEMMA FirstFrame ==
  ASSUME FrameInv, wire # <<>>
  PROVE  \E points : \E b \in Points, op \in Byte, len \in Sizes,
                          bytes \in Seq(Byte), mask \in Keys :
            /\ Frame = OnWire(toServer, op, len, bytes, mask)
            /\ fragmented_in_message.length + len < SizeMod
            /\ len + 4 < SizeMod
            /\ Means(op, len, bytes, Reader, b)
            /\ Chain(toServer, points, Tail(wire), b, Writer)
<1>1. PICK points : Chain(toServer, points, wire, Reader, Writer)
  BY DEF FrameInv
<1>2. /\ points[2] \in Points
      /\ Takes(toServer, Head(wire), Reader, points[2])
      /\ Chain(toServer, Tail(points), Tail(wire), points[2], Writer)
  BY <1>1, ChainShrinks DEF FrameInv, FrameTypes
<1>3. PICK op \in Byte, len \in Sizes, bytes \in Seq(Byte), mask \in Keys :
         /\ Frame = OnWire(toServer, op, len, bytes, mask)
         /\ fragmented_in_message.length + len < SizeMod
         /\ len + 4 < SizeMod
         /\ Means(op, len, bytes, Reader, points[2])
  BY <1>2 DEF Takes, Frame, Reader
<1> QED
  BY <1>2, <1>3

(* Reader and wire agree, whatever the lengths and the masks are. *)
LEMMA ReadAsWritten ==
  ASSUME FrameInv, wire # <<>>
  PROVE  /\ HasMask(Second) = toServer
         /\ LengthRead(Second, SubSeq(Frame.header, 3, 2 + Following(Second)))
              = Frame.length
         /\ Following(Second) = 0 => Code(Second) = Frame.length
         /\ Len(Frame.header) = 2 + Following(Second) + MaskBytes
         /\ Following(Second) \in {0, 2, 8} /\ Frame.length \in Nat
         /\ Frame.length + 4 < SizeMod
<1>1. PICK op \in Byte, len \in Sizes, bytes \in Seq(Byte), mask \in Keys :
         Frame = OnWire(toServer, op, len, bytes, mask) /\ len + 4 < SizeMod
  BY FirstFrame
<1>2. toServer \in BOOLEAN
  BY DEF FrameInv, FrameTypes
<1>3. len \in Nat
  BY DEF Sizes
<1>4. Following(Second) \in {0, 2, 8}
  BY DEF Following
<1> QED
  BY <1>1, <1>2, <1>3, <1>4, FrameRead

-----------------------------------------------------------------------------
LEMMA FrameInitInv == FramingInit => FrameInv
<1> SUFFICES ASSUME FramingInit PROVE FrameInv
  OBVIOUS
<1>1. NoMessage \in Messages /\ NoMessage.length = 0
  BY DEF NoMessage, Messages
<1>2. FrameTypes
  BY <1>1 DEF FramingInit, FrameTypes
<1>3. ReadFit
  BY DEF FramingInit, ReadFit
<1>4. KeptFit
  BY <1>1, FramingAssumption DEF FramingInit, KeptFit
<1> DEFINE a == [message |-> NoMessage, told |-> <<>>]
<1>5. Reader = a /\ Writer = a
  BY DEF FramingInit, Reader, Writer
<1>6. a \in Points /\ a.told = <<>>
  BY <1>1 DEF Points
<1> HIDE DEF a
<1>7. <<a>> \in Seq(Points) /\ Len(<<a>>) = 1 /\ <<a>>[1] = a
  BY <1>6
<1>8. Chain(toServer, <<a>>, <<>>, a, a)
  BY <1>6, <1>7 DEF Chain, Begins
<1> QED
  BY <1>2, <1>3, <1>4, <1>5, <1>8 DEF FrameInv, FramingInit

-----------------------------------------------------------------------------
(* The sending side *)

(* What is sent does not disturb the frame that is being read.              *)
LEMMA SendInv ==
  ASSUME FrameInv, NEW op \in Byte, NEW len \in Sizes, NEW bytes \in Seq(Byte),
         NEW mask \in Masks, Send(op, len, bytes, mask),
         Means(op, len, bytes, Writer, Writer'),
         unfinished' \in Messages, due' \in Seq(Told), Begins(due, due'),
         fits', len + 4 < SizeMod
  PROVE  FrameInv'
<1> DEFINE written == OnWire(toServer, op, len, bytes, mask)
<1>1. /\ wire' = Append(wire, written) /\ count' = count + 1
      /\ UNCHANGED <<toServer, pc, length, fragmented_in_message, got>>
  BY DEF Send, OnWire
<1>2. mask \in Keys
  <2>1. mask \in Seq(Byte) /\ Len(mask) = 4
    BY MaskAssumption DEF Byte
  <2> QED
    BY <2>1 DEF Keys
<1>3. FrameTypes
  BY DEF FrameInv
<1>4. /\ len \in Nat /\ Masked(bytes, mask) \in Seq(Byte)
      /\ \A m \in BOOLEAN : Header(op, len, m) \in Seq(Byte)
  BY <1>2, MaskedTwice, HeaderRoundTrip DEF Sizes
<1>5. written \in Records
  <2>1. mask \in Seq(Byte)
    BY <1>2 DEF Keys
  <2>2. Header(op, len, TRUE) \o mask \in Seq(Byte)
    BY <1>4, <2>1, ConcatProperties
  <2>3. Header(op, len, FALSE) \in Seq(Byte)
    BY <1>4
  <2> QED
    BY <1>3, <1>4, <2>2, <2>3 DEF OnWire, Records, FrameTypes
<1> HIDE DEF written
<1>6. FrameTypes'
  BY <1>1, <1>3, <1>5, AppendProperties DEF FrameTypes
<1>7. wire # <<>> => wire' # <<>> /\ Frame' = Frame
  BY <1>1, <1>3, <1>5 DEF FrameTypes, Frame
<1>8. ReadFit'
  BY <1>1, <1>7 DEF FrameInv, ReadFit, WouldBeTooBig
<1>9. KeptFit'
  BY <1>1 DEF FrameInv, KeptFit
<1>10. /\ Reader' = Reader /\ Writer \in Points /\ Writer' \in Points
       /\ Begins(Writer.told, Writer'.told)
  BY <1>1, <1>3 DEF Reader, Writer, Points, FrameTypes
<1>11. PICK points : Chain(toServer, points, wire, Reader, Writer)
  BY DEF FrameInv
<1>12. Takes(toServer, written, Writer, Writer')
  <2>1. Writer.message.length + len < SizeMod
    BY DEF Send, Writer
  <2> QED
    BY <1>2, <2>1 DEF Takes, written
<1>13. Chain(toServer, Append(points, Writer'), Append(wire, written), Reader,
             Writer')
  BY <1>3, <1>5, <1>10, <1>11, <1>12, ChainGrows DEF FrameTypes
<1>14. Chain(toServer', Append(points, Writer'), wire', Reader', Writer')
  BY <1>1, <1>10, <1>13
<1> QED
  BY <1>6, <1>8, <1>9, <1>14 DEF FrameInv

(* The shown bytes of a content, and the messages they are put in. *)
LEMMA ContentBytes ==
  ASSUME NEW n \in Nat, NEW len \in Nat
  PROVE  Content(n, len) \in Seq(Byte)
<1> DEFINE k == IF len < Shown THEN len ELSE Shown
<1>1. k \in Nat /\ \A i \in 1..k : (83 * n + 29 * i) % 256 \in Byte
  BY SMT DEF Shown, Byte
<1>2. Content(n, len) = [i \in 1..k |-> (83 * n + 29 * i) % 256]
  BY DEF Content
<1> HIDE DEF k
<1>3. Content(n, len) \in [1..k -> Byte]
  BY <1>1, <1>2
<1> QED
  BY <1>1, <1>3, SeqDef

LEMMA MessageTypes ==
  ASSUME NEW len \in Nat, NEW bytes \in Seq(Byte)
  PROVE  /\ \A op \in Nat : InMessage(op, len, bytes) \in Messages
         /\ \A m \in Messages : Extend(m, len, bytes) \in Messages
         /\ \A m \in Messages : Extend(m, len, bytes).length = m.length + len
         /\ \A m \in Messages : m.length + len < SizeMod =>
               Join(m, len, bytes) = Extend(m, len, bytes)
<1>1. \A op \in Nat : InMessage(op, len, bytes) \in Messages
  BY DEF InMessage, Messages
<1>2. ASSUME NEW m \in Messages
      PROVE  /\ Extend(m, len, bytes) \in Messages
             /\ Extend(m, len, bytes).length = m.length + len
  <2>1. m.length + len \in Nat /\ m.bytes \o bytes \in Seq(Byte)
    BY <1>2, ConcatProperties DEF Messages
  <2> QED
    BY <1>2, <2>1 DEF Extend, Messages
<1>3. \A m \in Messages : m.length + len < SizeMod =>
         Join(m, len, bytes) = Extend(m, len, bytes)
  BY DEF Join, Extend, Sum
<1> QED
  BY <1>1, <1>2, <1>3


(* The numbers of the opcodes that are sent. *)
LEMMA OpCodes ==
  /\ {129, 1, 0, 128, 137, 138, 136} \subseteq Byte
  /\ OpCode(129) = 1 /\ OpCode(1) = 1 /\ OpCode(0) = 0 /\ OpCode(128) = 0
  /\ OpCode(137) = 9 /\ OpCode(138) = 10 /\ OpCode(136) = 8
  /\ Fin(129) /\ ~Fin(1) /\ ~Fin(0) /\ Fin(128) /\ SetFin(1) = 129
BY SMT DEF OpCode, Fin, SetFin, Byte

(* Two things and a sequence after them *)
LEMMA TwoThenMore ==
  ASSUME NEW S, NEW s \in Seq(S), Len(s) = 2, NEW r \in Seq(S)
  PROVE  /\ s \o r \in Seq(S) /\ (s \o r)[1] = s[1] /\ (s \o r)[2] = s[2]
         /\ SubSeq(s \o r, 3, Len(s \o r)) = r
<1>1. /\ s \o r \in Seq(S) /\ Len(s \o r) = Len(s) + Len(r)
      /\ \A i \in 1..Len(s) + Len(r) :
            (s \o r)[i] = IF i <= Len(s) THEN s[i] ELSE r[i - Len(s)]
  BY ConcatProperties
<1>2. Len(r) \in Nat /\ 1 \in 1..(2 + Len(r)) /\ 2 \in 1..(2 + Len(r))
  OBVIOUS
<1>3. (s \o r)[1] = s[1] /\ (s \o r)[2] = s[2]
  BY <1>1, <1>2
<1>4. CASE Len(r) = 0
  <2>1. r = <<>>
    BY <1>4, EmptySeq
  <2>2. SubSeq(s \o r, 3, 2) = <<>>
    BY SubSeqEmpty
  <2> QED
    BY <1>1, <1>3, <1>4, <2>1, <2>2
<1>5. CASE Len(r) > 0
  <2>1. /\ 3 \in Len(s) + 1 .. Len(s) + Len(r)
        /\ 2 + Len(r) \in Len(s) + 1 .. Len(s) + Len(r)
        /\ 3 - Len(s) = 1 /\ (2 + Len(r)) - Len(s) = Len(r)
    BY <1>2, <1>5
  <2>2. SubSeq(s \o r, 3, 2 + Len(r))
          = SubSeq(r, 3 - Len(s), (2 + Len(r)) - Len(s))
    BY <2>1, SubSeqOfConcat2
  <2>3. SubSeq(r, 1, Len(r)) = r
    BY SubSeqFull
  <2>4. SubSeq(s \o r, 3, 2 + Len(r)) = r
    BY <2>1, <2>2, <2>3
  <2>5. Len(s \o r) = 2 + Len(r)
    BY <1>1
  <2> QED
    BY <1>1, <1>3, <2>4, <2>5
<1>6. Len(r) = 0 \/ Len(r) > 0
  BY <1>2
<1> QED
  BY <1>4, <1>5, <1>6, Zenon

(* The status and the reason of a close are read back. *)
LEMMA StatusIsNat == StatusCodes \subseteq Nat
BY DEF StatusCodes

LEMMA StatusTwice ==
  ASSUME NEW status \in StatusCodes, NEW reason \in Seq(Byte)
  PROVE  /\ StatusBytes(status) \o reason \in Seq(Byte)
         /\ Status(StatusBytes(status) \o reason) = status
         /\ SubSeq(StatusBytes(status) \o reason, 3,
                   Len(StatusBytes(status) \o reason)) = reason
<1> DEFINE s == StatusBytes(status)
           all == s \o reason
<1>1. /\ status \div 256 \in Byte /\ status % 256 \in Byte
      /\ 256 * (status \div 256) + (status % 256) = status
  BY SMT DEF Byte, StatusCodes
<1>2. /\ s \in Seq(Byte) /\ Len(s) = 2 /\ s[1] = status \div 256
      /\ s[2] = status % 256
  BY <1>1 DEF StatusBytes
<1> HIDE DEF s
<1>3. /\ all \in Seq(Byte) /\ all[1] = s[1] /\ all[2] = s[2]
      /\ SubSeq(all, 3, Len(all)) = reason
  BY <1>2, TwoThenMore
<1> HIDE DEF all
<1>4. Status(all) = status
  BY <1>1, <1>2, <1>3 DEF Status
<1> QED
  BY <1>3, <1>4 DEF all, s

(* Whatever is sent, the message it belongs to goes on from what was sent   *)
(* before.                                                                  *)
LEMMA SendSomethingInv ==
  ASSUME FrameInv, SendSomething, fits'
  PROVE  FrameInv'
<1>1. PICK mask \in Masks :
        \/ \E len \in Lengths : \/ SendWhole(len, mask) \/ SendFirst(len, mask)
                                \/ SendMore(len, mask) \/ SendLast(len, mask)
        \/ \E len \in PingLengths : SendPing(len, mask)
        \/ \E status \in Statuses, len \in PingLengths :
              SendClose(status, len, mask)
  BY DEF SendSomething
<1>2. \A len \in Lengths \cup PingLengths :
         /\ len \in Nat /\ len \in Sizes /\ len + 2 \in Sizes
         /\ len + 4 < SizeMod /\ (len + 2) + 4 < SizeMod
  <2> TAKE len \in Lengths \cup PingLengths
  <2>1. len \in Nat /\ len + 2 \in Nat
    BY FramingAssumption
  <2>2. InSizeT(len) /\ InSizeT(len + 2) /\ len + 16 < SizeMod
    BY LengthAssumption
  <2>3. len \in Sizes /\ len + 2 \in Sizes
    BY <2>1, <2>2, SizeT, Zenon
  <2>4. len + 4 < SizeMod /\ (len + 2) + 4 < SizeMod
    BY <2>1, <2>2, FramingAssumption
  <2> QED
    BY <2>1, <2>3, <2>4
<1>3. /\ count \in Nat /\ unfinished \in Messages /\ due \in Seq(Told)
      /\ NoMessage \in Messages
  BY DEF FrameInv, FrameTypes, NoMessage, Messages
<1>4. ASSUME NEW len \in Lengths \cup PingLengths
      PROVE  /\ Content(count, len) \in Seq(Byte)
             /\ \A op \in Nat :
                   InMessage(op, len, Content(count, len)) \in Messages
             /\ Extend(unfinished, len, Content(count, len)) \in Messages
  <2>1. len \in Nat
    BY <1>2
  <2>2. Content(count, len) \in Seq(Byte)
    BY <1>3, <2>1, ContentBytes
  <2> QED
    BY <1>3, <2>1, <2>2, MessageTypes, Zenon
<1>5. \A x \in Told : /\ Append(due, x) \in Seq(Told)
                      /\ Begins(due, Append(due, x))
  BY <1>3, BeginsAppend, AppendProperties
<1>6. /\ Begins(due, due) /\ Writer.message = unfinished /\ Writer.told = due
      /\ Writer'.message = unfinished' /\ Writer'.told = due'
  BY <1>3 DEF Begins, Writer
<1>7. /\ {129, 1, 0, 128, 137, 138, 136} \subseteq Byte
      /\ {129, 1, 0, 128, 137, 138, 136} \subseteq Nat
  BY OpCodes
<1>8. ASSUME NEW len \in Lengths, SendWhole(len, mask) PROVE FrameInv'
  <2> DEFINE bytes == Content(count, len)
             x == InMessage(129, len, bytes)
  <2>1. /\ Send(129, len, bytes, mask) /\ unfinished = NoMessage
        /\ due' = Append(due, x) /\ unfinished' = unfinished
    BY <1>8 DEF SendWhole
  <2>2. x \in Told /\ bytes \in Seq(Byte)
    BY <1>4, <1>7 DEF Told
  <2>3. Means(129, len, bytes, Writer, Writer')
    BY <1>6, <2>1 DEF Means
  <2> HIDE DEF bytes, x
  <2> QED
    BY <1>2, <1>3, <1>5, <1>7, <2>1, <2>2, <2>3, SendInv
<1>9. ASSUME NEW len \in Lengths, SendFirst(len, mask) PROVE FrameInv'
  <2> DEFINE bytes == Content(count, len)
  <2>1. /\ Send(1, len, bytes, mask) /\ unfinished = NoMessage
        /\ due' = due /\ unfinished' = InMessage(129, len, bytes)
    BY <1>9 DEF SendFirst
  <2>2. unfinished' \in Messages /\ bytes \in Seq(Byte)
    BY <1>4, <1>7, <2>1
  <2>3. Means(1, len, bytes, Writer, Writer')
    BY <1>6, <2>1 DEF Means
  <2> HIDE DEF bytes
  <2> QED
    BY <1>2, <1>3, <1>6, <1>7, <2>1, <2>2, <2>3, SendInv
<1>10. ASSUME NEW len \in Lengths, SendMore(len, mask) PROVE FrameInv'
  <2> DEFINE bytes == Content(count, len)
  <2>1. /\ Send(0, len, bytes, mask) /\ unfinished # NoMessage
        /\ due' = due /\ unfinished' = Extend(unfinished, len, bytes)
    BY <1>10 DEF SendMore
  <2>2. unfinished' \in Messages /\ bytes \in Seq(Byte)
    BY <1>4, <2>1
  <2>3. Means(0, len, bytes, Writer, Writer')
    BY <1>6, <2>1 DEF Means
  <2> HIDE DEF bytes
  <2> QED
    BY <1>2, <1>3, <1>6, <1>7, <2>1, <2>2, <2>3, SendInv
<1>11. ASSUME NEW len \in Lengths, SendLast(len, mask) PROVE FrameInv'
  <2> DEFINE bytes == Content(count, len)
             x == Extend(unfinished, len, bytes)
  <2>1. /\ Send(128, len, bytes, mask) /\ unfinished # NoMessage
        /\ due' = Append(due, x) /\ unfinished' = NoMessage
    BY <1>11 DEF SendLast
  <2>2. x \in Told /\ bytes \in Seq(Byte)
    BY <1>4 DEF Told
  <2>3. Means(128, len, bytes, Writer, Writer')
    BY <1>6, <2>1 DEF Means
  <2> HIDE DEF bytes, x
  <2> QED
    BY <1>2, <1>3, <1>5, <1>7, <2>1, <2>2, <2>3, SendInv
<1>12. ASSUME NEW len \in PingLengths, SendPing(len, mask) PROVE FrameInv'
  <2> DEFINE bytes == Content(count, len)
             x == InMessage(138, len, bytes)
  <2>1. /\ Send(137, len, bytes, mask)
        /\ due' = Append(due, x) /\ unfinished' = unfinished
    BY <1>12 DEF SendPing
  <2>2. x \in Told /\ bytes \in Seq(Byte)
    BY <1>4, <1>7 DEF Told
  <2>3. Means(137, len, bytes, Writer, Writer')
    BY <1>6, <2>1 DEF Means
  <2> HIDE DEF bytes, x
  <2> QED
    BY <1>2, <1>3, <1>5, <1>7, <2>1, <2>2, <2>3, SendInv
<1>13. ASSUME NEW status \in Statuses, NEW len \in PingLengths,
              SendClose(status, len, mask)
       PROVE  FrameInv'
  <2> DEFINE reason == Content(count, len)
             bytes == StatusBytes(status) \o reason
             x == Closing(status, reason)
  <2>1. /\ Send(136, len + 2, bytes, mask)
        /\ due' = Append(due, x) /\ unfinished' = unfinished
    BY <1>13 DEF SendClose
  <2>2. reason \in Seq(Byte) /\ status \in StatusCodes
    BY <1>4, FramingAssumption
  <2>3. x \in Told /\ bytes \in Seq(Byte)
    <3>1. x \in Closings
      BY <2>2, StatusIsNat DEF Closing, Closings
    <3>2. bytes \in Seq(Byte)
      BY <2>2, StatusTwice
    <3> QED
      BY <3>1, <3>2 DEF Told
  <2>4. len + 2 >= 2
    BY <1>2
  <2> HIDE DEF reason
  <2>5. Means(136, len + 2, bytes, Writer, Writer')
    <3>1. Writer'.told = Append(Writer.told, x)
      BY <1>6, <2>1
    <3>2. Writer'.message = Writer.message
      BY <1>6, <2>1
    <3>3. Closes(len + 2, bytes, Writer, Writer')
      BY <2>2, <2>4, <3>1 DEF Closes
    <3> HIDE DEF bytes, x
    <3> QED
      BY <3>2, <3>3 DEF Means
  <2> HIDE DEF bytes, x
  <2> QED
    BY <1>2, <1>3, <1>5, <1>7, <2>1, <2>3, <2>5, SendInv
<1> QED
  BY <1>1, <1>8, <1>9, <1>10, <1>11, <1>12, <1>13

-----------------------------------------------------------------------------
(* The reading side *)

(* Nothing moves but what is read next. *)
LEMMA ReadOn ==
  ASSUME FrameInv, wire # <<>>, pc' \in {"length", "content", "refused"},
         UNCHANGED <<toServer, wire, count, unfinished, fragmented_in_message,
                     due, got>>,
         length' \in Nat, pc' # "length" => length' = Frame.length,
         pc' = "refused" => WouldBeTooBig /\ length' = length
  PROVE  FrameInv'
<1>1. FrameTypes'
  BY DEF FrameInv, FrameTypes
<1>2. Frame' = Frame
  BY DEF Frame
<1>3. ReadFit'
  BY <1>2 DEF ReadFit, WouldBeTooBig
<1>4. KeptFit'
  BY DEF FrameInv, KeptFit
<1>5. Reader' = Reader /\ Writer' = Writer
  BY DEF Reader, Writer
<1>6. PICK points : Chain(toServer, points, wire, Reader, Writer)
  BY DEF FrameInv
<1>7. Chain(toServer', points, wire', Reader', Writer')
  BY <1>5, <1>6
<1> QED
  BY <1>1, <1>3, <1>4, <1>7 DEF FrameInv

LEMMA TakeHeadInv ==
  ASSUME FrameInv, TakeHead
  PROVE  FrameInv'
<1>1. /\ wire # <<>> /\ length' = Code(Second)
      /\ pc' = IF HasMask(Second) # toServer THEN "refused"
               ELSE IF Following(Second) > 0 THEN "length" ELSE "content"
      /\ UNCHANGED <<toServer, wire, count, unfinished, fragmented_in_message,
                     due, got>>
  BY DEF TakeHead
<1>2. /\ HasMask(Second) = toServer /\ Following(Second) \in {0, 2, 8}
      /\ Following(Second) = 0 => Code(Second) = Frame.length
      /\ Code(Second) \in Nat
  <2>1. /\ HasMask(Second) = toServer /\ Following(Second) \in {0, 2, 8}
        /\ Following(Second) = 0 => Code(Second) = Frame.length
        /\ Frame.length \in Nat
    BY <1>1, ReadAsWritten, Zenon
  <2>2. Following(Second) # 0 => Code(Second) \in {126, 127}
    BY DEF Following
  <2> QED
    BY <2>1, <2>2
<1>3. CASE Following(Second) = 0
  BY <1>1, <1>2, <1>3, ReadOn
<1>4. CASE Following(Second) > 0
  BY <1>1, <1>2, <1>4, ReadOn
<1> QED
  BY <1>2, <1>3, <1>4

LEMMA TakeLengthInv ==
  ASSUME FrameInv, TakeLength
  PROVE  FrameInv'
<1>1. wire # <<>>
  BY DEF FrameInv, ReadFit, TakeLength
<1>2. length' = Frame.length /\ length' \in Nat
  BY <1>1, ReadAsWritten DEF TakeLength
<1> QED
  BY <1>1, <1>2, ReadOn DEF TakeLength

LEMMA TakeTooBigInv ==
  ASSUME FrameInv, TakeTooBig
  PROVE  FrameInv'
<1>1. wire # <<>> /\ length = Frame.length /\ length \in Nat
  BY DEF FrameInv, ReadFit, TakeTooBig, FrameTypes
<1> QED
  BY <1>1, ReadOn DEF TakeTooBig

(* The frame has been read: the reader is at the next point. *)
LEMMA ContentInv ==
  ASSUME FrameInv, NEW tell \in Seq(Told), NEW next \in {"head", "closed"},
         NEW fragments \in Messages, TakeContent(tell, next, fragments),
         fragments.length <= MaxMessageSize,
         \A i \in DOMAIN tell :
            OpCode(tell[i].op) # 8 => tell[i].length <= MaxMessageSize,
         NEW points, NEW b \in Points,
         b.message = fragments, b.told = got \o tell,
         Chain(toServer, points, Tail(wire), b, Writer), wire # <<>>
  PROVE  FrameInv'
<1>1. /\ got' = got \o tell /\ wire' = Tail(wire) /\ pc' = next
      /\ fragmented_in_message' = fragments
      /\ UNCHANGED <<toServer, count, unfinished, length, due>>
  BY DEF TakeContent
<1>2. got \in Seq(Told) /\ wire \in Seq(Records)
  BY DEF FrameInv, FrameTypes
<1>3. /\ got' \in Seq(Told) /\ Len(got') = Len(got) + Len(tell)
      /\ Len(got) \in Nat /\ Len(tell) \in Nat
      /\ \A i \in 1..(Len(got) + Len(tell)) :
            got'[i] = IF i <= Len(got) THEN got[i] ELSE tell[i - Len(got)]
  BY <1>1, <1>2, ConcatProperties
<1>4. FrameTypes'
  BY <1>1, <1>2, <1>3, HeadTailProperties DEF FrameInv, FrameTypes
<1>5. ReadFit'
  BY <1>1 DEF ReadFit
<1>6. KeptFit'
  <2>1. ASSUME NEW i \in DOMAIN got'
        PROVE  OpCode(got'[i].op) # 8 => got'[i].length <= MaxMessageSize
    <3>1. i \in 1..(Len(got) + Len(tell))
      BY <1>3, <2>1
    <3>2. CASE i <= Len(got)
      <4>1. i \in DOMAIN got /\ got'[i] = got[i]
        BY <1>2, <1>3, <3>1, <3>2
      <4> QED
        BY <4>1 DEF FrameInv, KeptFit
    <3>3. CASE ~(i <= Len(got))
      <4>1. i - Len(got) \in DOMAIN tell /\ got'[i] = tell[i - Len(got)]
        BY <1>2, <1>3, <3>1, <3>3
      <4> QED
        BY <4>1
    <3> QED
      BY <3>2, <3>3
  <2> QED
    BY <1>1, <2>1 DEF KeptFit
<1>7. Reader' = b /\ Writer' = Writer
  BY <1>1 DEF Reader, Writer, Points
<1>8. Chain(toServer', points, wire', Reader', Writer')
  BY <1>1, <1>7
<1> QED
  BY <1>4, <1>5, <1>6, <1>8 DEF FrameInv

(* What is known of the frame when its content is there. *)
LEMMA ContentRead ==
  ASSUME FrameInv, wire # <<>>, pc = "content", ~WouldBeTooBig
  PROVE  \E points : \E b \in Points, op \in Byte, bytes \in Seq(Byte) :
            /\ First = op /\ Unmasked = bytes
            /\ Means(op, length, bytes, Reader, b)
            /\ Chain(toServer, points, Tail(wire), b, Writer)
            /\ length \in Nat /\ length <= MaxMessageSize
            /\ length + fragmented_in_message.length <= MaxMessageSize
            /\ fragmented_in_message.length + length < SizeMod
<1>1. PICK points : \E b \in Points, op \in Byte, len \in Sizes,
                          bytes \in Seq(Byte), mask \in Keys :
         /\ Frame = OnWire(toServer, op, len, bytes, mask)
         /\ fragmented_in_message.length + len < SizeMod
         /\ Means(op, len, bytes, Reader, b)
         /\ Chain(toServer, points, Tail(wire), b, Writer)
  BY FirstFrame
<1>2. PICK b \in Points, op \in Byte, len \in Sizes, bytes \in Seq(Byte),
            mask \in Keys :
         /\ Frame = OnWire(toServer, op, len, bytes, mask)
         /\ fragmented_in_message.length + len < SizeMod
         /\ Means(op, len, bytes, Reader, b)
         /\ Chain(toServer, points, Tail(wire), b, Writer)
  BY <1>1
<1>3. First = op /\ Unmasked = bytes /\ Frame.length = len
  BY <1>2, FrameRead DEF FrameInv, FrameTypes
<1>4. length = len
  BY <1>3 DEF FrameInv, ReadFit
<1>5. /\ length \in Nat /\ MaxMessageSize \in Nat
      /\ fragmented_in_message.length \in Nat
  BY FramingAssumption DEF FrameInv, FrameTypes, Messages
<1>6. /\ length <= MaxMessageSize
      /\ length + fragmented_in_message.length <= MaxMessageSize
      /\ fragmented_in_message.length + length < SizeMod
  BY <1>2, <1>4, <1>5 DEF WouldBeTooBig, Sum
<1> QED
  BY <1>2, <1>3, <1>4, <1>5, <1>6


(* One thing is told. *)
LEMMA TellInv ==
  ASSUME FrameInv, NEW x \in Told, NEW next \in {"head", "closed"},
         NEW fragments \in Messages, TakeContent(<<x>>, next, fragments),
         fragments.length <= MaxMessageSize,
         OpCode(x.op) # 8 => x.length <= MaxMessageSize,
         NEW points, NEW b \in Points,
         b.message = fragments, b.told = Append(got, x),
         Chain(toServer, points, Tail(wire), b, Writer), wire # <<>>
  PROVE  FrameInv'
<1> DEFINE tell == <<x>>
<1>1. tell \in Seq(Told) /\ DOMAIN tell = {1} /\ tell[1] = x
  OBVIOUS
<1>2. b.told = got \o tell
  BY AppendIsConcat DEF FrameInv, FrameTypes
<1>3. TakeContent(tell, next, fragments)
  OBVIOUS
<1> HIDE DEF tell
<1>4. \A i \in DOMAIN tell :
         OpCode(tell[i].op) # 8 => tell[i].length <= MaxMessageSize
  BY <1>1
<1> QED
  BY <1>1, <1>2, <1>3, <1>4, ContentInv

LEMMA TakeCloseInv ==
  ASSUME FrameInv, wire # <<>>, TakeClose
  PROVE  FrameInv'
<1> DEFINE status == IF length >= 2 THEN Status(Unmasked) ELSE 0
           reason == SubSeq(Unmasked, 3, Len(Unmasked))
<1>1. /\ OpCode(First) = 8 /\ pc = "content" /\ ~WouldBeTooBig
      /\ TakeContent(<<Closing(status, reason)>>, "closed",
                       fragmented_in_message)
  BY DEF TakeClose, TakeContent
<1>2. PICK points : \E b \in Points, op \in Byte, bytes \in Seq(Byte) :
         /\ First = op /\ Unmasked = bytes
         /\ Means(op, length, bytes, Reader, b)
         /\ Chain(toServer, points, Tail(wire), b, Writer)
  BY <1>1, ContentRead
<1>3. PICK b \in Points, op \in Byte, bytes \in Seq(Byte) :
         /\ First = op /\ Unmasked = bytes
         /\ Means(op, length, bytes, Reader, b)
         /\ Chain(toServer, points, Tail(wire), b, Writer)
  BY <1>2
<1>4. op \notin {129, 1, 0, 128, 137}
  BY <1>1, <1>3, OpCodes
<1>5. b.message = Reader.message /\ Closes(length, bytes, Reader, b)
  BY <1>3, <1>4 DEF Means
<1>6. PICK s \in StatusCodes, r \in Seq(Byte) :
         /\ length >= 2
         /\ bytes = StatusBytes(s) \o r
         /\ b.told = Append(Reader.told, Closing(s, r))
  BY <1>5 DEF Closes
<1>7. status = s /\ reason = r
  <2>1. Status(bytes) = s /\ SubSeq(bytes, 3, Len(bytes)) = r
    BY <1>6, StatusTwice
  <2> QED
    BY <1>3, <1>6, <2>1
<1> HIDE DEF status, reason
<1> DEFINE x == Closing(s, r)
<1>8. /\ TakeContent(<<x>>, "closed", fragmented_in_message)
      /\ x \in Told /\ OpCode(x.op) = 8
  BY <1>1, <1>7, OpCodes, StatusIsNat DEF Closing, Told, Closings
<1>9. b.message = fragmented_in_message /\ b.told = Append(got, x)
  BY <1>5, <1>6 DEF Reader
<1> HIDE DEF x
<1>10. /\ fragmented_in_message \in Messages
       /\ fragmented_in_message.length <= MaxMessageSize
  BY DEF FrameInv, FrameTypes, KeptFit
<1> QED
  BY <1>3, <1>8, <1>9, <1>10, TellInv

LEMMA TakePingInv ==
  ASSUME FrameInv, wire # <<>>, TakePing
  PROVE  FrameInv'
<1>1. /\ OpCode(First) = 9 /\ pc = "content" /\ ~WouldBeTooBig
      /\ TakeContent(<<InMessage(First + 1, length, Unmasked)>>, "head",
                       fragmented_in_message)
  BY DEF TakePing, TakeContent
<1>2. PICK points : \E b \in Points, op \in Byte, bytes \in Seq(Byte) :
         /\ First = op /\ Unmasked = bytes
         /\ Means(op, length, bytes, Reader, b)
         /\ Chain(toServer, points, Tail(wire), b, Writer)
         /\ length \in Nat /\ length <= MaxMessageSize
  BY <1>1, ContentRead
<1>3. PICK b \in Points, op \in Byte, bytes \in Seq(Byte) :
         /\ First = op /\ Unmasked = bytes
         /\ Means(op, length, bytes, Reader, b)
         /\ Chain(toServer, points, Tail(wire), b, Writer)
  BY <1>2
<1>4. op \notin {129, 1, 0, 128, 136}
  BY <1>1, <1>3, OpCodes
<1> DEFINE x == InMessage(138, length, bytes)
<1>5. /\ op = 137 /\ b.message = fragmented_in_message
      /\ b.told = Append(got, x)
  BY <1>3, <1>4 DEF Means, Reader
<1>6. TakeContent(<<x>>, "head", fragmented_in_message)
  BY <1>1, <1>3, <1>5
<1>7. x \in Told /\ x.length <= MaxMessageSize
  <2>1. x \in Messages
    BY <1>2, MessageTypes
  <2>2. x.length = length
    BY DEF InMessage
  <2> QED
    BY <1>2, <2>1, <2>2 DEF Told
<1> HIDE DEF x
<1>8. /\ fragmented_in_message \in Messages
      /\ fragmented_in_message.length <= MaxMessageSize
  BY DEF FrameInv, FrameTypes, KeptFit
<1> QED
  BY <1>3, <1>5, <1>6, <1>7, <1>8, TellInv

LEMMA TakeFragmentInv ==
  ASSUME FrameInv, wire # <<>>, TakeFragment
  PROVE  FrameInv'
<1>1. /\ Data /\ ~Fin(First) /\ pc = "content" /\ ~WouldBeTooBig
      /\ TakeContent(<<>>, "head", Joined)
  BY DEF TakeFragment, TakeContent
<1>2. PICK points : \E b \in Points, op \in Byte, bytes \in Seq(Byte) :
         /\ First = op /\ Unmasked = bytes
         /\ Means(op, length, bytes, Reader, b)
         /\ Chain(toServer, points, Tail(wire), b, Writer)
         /\ length \in Nat /\ length <= MaxMessageSize
         /\ length + fragmented_in_message.length <= MaxMessageSize
         /\ fragmented_in_message.length + length < SizeMod
  BY <1>1, ContentRead
<1>3. PICK b \in Points, op \in Byte, bytes \in Seq(Byte) :
         /\ First = op /\ Unmasked = bytes
         /\ Means(op, length, bytes, Reader, b)
         /\ Chain(toServer, points, Tail(wire), b, Writer)
  BY <1>2
<1>4. op \notin {129, 128, 137, 136}
  BY <1>1, <1>3, OpCodes DEF Data
<1>5. /\ Reader.message = fragmented_in_message /\ Reader.told = got
      /\ fragmented_in_message \in Messages /\ got \in Seq(Told)
  BY DEF FrameInv, FrameTypes, Reader
<1>6. b.message = Joined /\ b.told = got /\ Joined.length <= MaxMessageSize
  <2>1. CASE op = 1 /\ fragmented_in_message = NoMessage
    <3>1. Joined = InMessage(129, length, bytes)
      BY <1>3, <2>1, OpCodes DEF Joined
    <3>2. Joined.length = length
      BY <3>1 DEF InMessage
    <3> QED
      BY <1>2, <1>3, <1>5, <2>1, <3>1, <3>2 DEF Means
  <2>2. CASE op = 0 /\ fragmented_in_message # NoMessage
    <3>1. Joined = Extend(fragmented_in_message, length, bytes)
      BY <1>2, <1>3, <1>5, <2>2, MessageTypes DEF Joined
    <3>2. Joined.length = fragmented_in_message.length + length
      BY <1>2, <1>5, <3>1, MessageTypes
    <3>3. fragmented_in_message.length \in Nat
      BY <1>5 DEF Messages
    <3>4. Joined.length <= MaxMessageSize
      BY <1>2, <3>2, <3>3, FramingAssumption
    <3> QED
      BY <1>3, <1>5, <2>2, <3>1, <3>4 DEF Means
  <2> QED
    BY <1>3, <1>4, <1>5, <2>1, <2>2 DEF Means
<1>7. Joined \in Messages
  BY <1>6 DEF Points
<1>8. b.told = got \o <<>>
  BY <1>5, <1>6
<1> DEFINE tell == <<>>
<1>9. tell \in Seq(Told) /\ DOMAIN tell = {}
  OBVIOUS
<1> HIDE DEF tell
<1>10. TakeContent(tell, "head", Joined) /\ b.told = got \o tell
  BY <1>1, <1>8 DEF tell
<1> QED
  BY <1>3, <1>6, <1>7, <1>9, <1>10, ContentInv

LEMMA TakeMessageInv ==
  ASSUME FrameInv, wire # <<>>, TakeMessage
  PROVE  FrameInv'
<1> DEFINE isFragment == IF toServer THEN OpCode(First) = 0
                         ELSE fragmented_in_message # NoMessage
           x == IF isFragment THEN Joined
                ELSE InMessage(First, length, Unmasked)
<1>1. /\ Data /\ Fin(First) /\ pc = "content" /\ ~WouldBeTooBig
      /\ TakeContent(<<x>>, "head", NoMessage)
  BY DEF TakeMessage, TakeContent
<1>2. PICK points : \E b \in Points, op \in Byte, bytes \in Seq(Byte) :
         /\ First = op /\ Unmasked = bytes
         /\ Means(op, length, bytes, Reader, b)
         /\ Chain(toServer, points, Tail(wire), b, Writer)
         /\ length \in Nat /\ length <= MaxMessageSize
         /\ length + fragmented_in_message.length <= MaxMessageSize
         /\ fragmented_in_message.length + length < SizeMod
  BY <1>1, ContentRead
<1>3. PICK b \in Points, op \in Byte, bytes \in Seq(Byte) :
         /\ First = op /\ Unmasked = bytes
         /\ Means(op, length, bytes, Reader, b)
         /\ Chain(toServer, points, Tail(wire), b, Writer)
  BY <1>2
<1>4. op \notin {1, 0, 137, 136}
  BY <1>1, <1>3, OpCodes DEF Data
<1>5. /\ Reader.message = fragmented_in_message /\ Reader.told = got
      /\ fragmented_in_message \in Messages /\ got \in Seq(Told)
  BY DEF FrameInv, FrameTypes, Reader
<1>6. /\ b.message = NoMessage /\ b.told = Append(got, x)
      /\ x \in Messages /\ x.length <= MaxMessageSize
  <2>1. CASE op = 129 /\ fragmented_in_message = NoMessage
    <3>1. x = InMessage(129, length, bytes)
      BY <1>3, <2>1, OpCodes
    <3>2. x.length = length /\ x \in Messages
      BY <1>2, <3>1, MessageTypes DEF InMessage
    <3> HIDE DEF x
    <3> QED
      BY <1>2, <1>3, <1>5, <2>1, <3>1, <3>2 DEF Means
  <2>2. CASE op = 128 /\ fragmented_in_message # NoMessage
    <3>1. x = Extend(fragmented_in_message, length, bytes)
      <4>1. x = Join(fragmented_in_message, length, bytes)
        BY <1>3, <2>2, OpCodes DEF Joined
      <4> HIDE DEF x
      <4> QED
        BY <1>2, <1>5, <4>1, MessageTypes
    <3> HIDE DEF x
    <3>2. x.length = fragmented_in_message.length + length /\ x \in Messages
      BY <1>2, <1>5, <3>1, MessageTypes
    <3>3. fragmented_in_message.length \in Nat
      BY <1>5 DEF Messages
    <3>4. x.length <= MaxMessageSize
      BY <1>2, <3>2, <3>3, FramingAssumption
    <3> QED
      BY <1>3, <1>5, <2>2, <3>1, <3>2, <3>4 DEF Means
  <2> HIDE DEF x
  <2> QED
    BY <1>3, <1>4, <1>5, <2>1, <2>2 DEF Means
<1> HIDE DEF x
<1>7. NoMessage \in Messages /\ NoMessage.length <= MaxMessageSize
  BY FramingAssumption DEF NoMessage, Messages
<1> QED
  BY <1>1, <1>3, <1>6, <1>7, TellInv DEF Told

LEMMA FrameNextInv ==
  ASSUME FrameInv, [FramingNext]_framing, fits'
  PROVE  FrameInv'
<1>1. CASE SendSomething
  BY <1>1, SendSomethingInv
<1>2. CASE TakeHead
  BY <1>2, TakeHeadInv
<1>3. CASE TakeLength
  BY <1>3, TakeLengthInv
<1>4. CASE TakeTooBig
  BY <1>4, TakeTooBigInv
<1>5. CASE wire # <<>> /\ TakeClose
  BY <1>5, TakeCloseInv
<1>6. CASE wire # <<>> /\ TakePing
  BY <1>6, TakePingInv
<1>7. CASE wire # <<>> /\ TakeFragment
  BY <1>7, TakeFragmentInv
<1>8. CASE wire # <<>> /\ TakeMessage
  BY <1>8, TakeMessageInv
<1>9. CASE UNCHANGED framing
  <2>1. UNCHANGED <<toServer, wire, count, unfinished, pc, length,
                    fragmented_in_message, due, got>>
    BY <1>9 DEF framing
  <2>2. FrameTypes' /\ ReadFit' /\ KeptFit'
    BY <2>1 DEF FrameInv, FrameTypes, ReadFit, KeptFit, Frame, WouldBeTooBig
  <2>3. PICK points : Chain(toServer, points, wire, Reader, Writer)
    BY DEF FrameInv
  <2>4. Reader' = Reader /\ Writer' = Writer
    BY <2>1 DEF Reader, Writer
  <2>5. Chain(toServer', points, wire', Reader', Writer')
    BY <2>1, <2>3, <2>4
  <2> QED
    BY <2>2, <2>5 DEF FrameInv
<1> QED
  BY <1>1, <1>2, <1>3, <1>4, <1>5, <1>6, <1>7, <1>8, <1>9
     DEF FramingNext, Read

(* A message that was too long remains one. *)
LEMMA FitsBefore == [FramingNext]_framing /\ fits' => fits
BY DEF FramingNext, SendSomething, SendWhole, SendFirst, SendMore, SendLast,
   SendPing, SendClose, Send, Read, TakeHead, TakeLength, TakeTooBig, TakeClose,
   TakePing, TakeFragment, TakeMessage, TakeContent, framing

(* The chain from what the reader has to what the writer has sent is not    *)
(* broken unless a message is longer than a size_t can say.                 *)
THEOREM FramingInvariance == FramingSpec => [](fits => FrameInv)
<1>1. (fits => FrameInv) /\ [FramingNext]_framing => (fits => FrameInv)'
  <2> SUFFICES ASSUME fits => FrameInv, [FramingNext]_framing, fits'
               PROVE  FrameInv'
    OBVIOUS
  <2>1. FrameInv
    BY FitsBefore
  <2> QED
    BY <2>1, FrameNextInv
<1>2. FramingInit => (fits => FrameInv)
  BY FrameInitInv
<1> QED
  BY <1>1, <1>2, PTL DEF FramingSpec

(* Whatever the lengths, the masks, the bytes and the maximum are, and      *)
(* however sending and reading interleave: what the one application sent    *)
(* reaches the other in the order and in the form in which it was sent      *)
(* (Connection::send and read_message_content of server and client).        *)
THEOREM FramesArriveCorrect == FramingSpec => []FramesArrive
<1>1. (fits => FrameInv) => FramesArrive
  <2> SUFFICES ASSUME FrameInv PROVE IsPrefix(got, due)
    BY DEF FramesArrive
  <2>1. PICK points : Chain(toServer, points, wire, Reader, Writer)
    BY DEF FrameInv
  <2>2. wire \in Seq(Records) /\ got \in Seq(Told) /\ due \in Seq(Told)
    BY DEF FrameInv, FrameTypes
  <2>3. Len(points) \in Nat /\ 1 <= Len(points)
    BY <2>1, <2>2 DEF Chain
  <2>4. Begins(Reader.told, Writer.told)
    BY <2>1, <2>3 DEF Chain
  <2>5. Begins(got, due)
    BY <2>4 DEF Reader, Writer
  <2> QED
    BY <2>2, <2>5, BeginsIsPrefix
<1> QED
  BY FramingInvariance, <1>1, PTL

(* Nothing longer than max_message_size is kept or handed over, for every   *)
(* maximum, and what is refused would have become longer, as long as no     *)
(* message is longer than a size_t can say.                                 *)
THEOREM NothingTooLongCorrect == FramingSpec => []NothingTooLong
<1>1. (fits => FrameInv) => NothingTooLong
  <2> SUFFICES ASSUME FrameInv
               PROVE  /\ fragmented_in_message.length <= MaxMessageSize
                      /\ \A i \in DOMAIN got : OpCode(got[i].op) # 8 =>
                            got[i].length <= MaxMessageSize
                      /\ pc = "refused" =>
                            Frame.length + fragmented_in_message.length
                                > MaxMessageSize
    BY DEF NothingTooLong
  <2>1. ASSUME pc = "refused"
        PROVE  Frame.length + fragmented_in_message.length > MaxMessageSize
    <3>1. wire # <<>> /\ length = Frame.length /\ WouldBeTooBig
      BY <2>1 DEF FrameInv, ReadFit
    <3>2. PICK op \in Byte, len \in Sizes, bytes \in Seq(Byte), mask \in Keys :
             /\ Frame = OnWire(toServer, op, len, bytes, mask)
             /\ fragmented_in_message.length + len < SizeMod
      BY <3>1, FirstFrame
    <3>3. Frame.length = len
      BY <3>2, FrameRead DEF FrameInv, FrameTypes
    <3>4. length \in Nat /\ fragmented_in_message.length \in Nat
      BY DEF FrameInv, FrameTypes, Messages
    <3> QED
      BY <3>1, <3>2, <3>3, <3>4 DEF WouldBeTooBig, Sum
  <2> QED
    BY <2>1 DEF FrameInv, KeptFit
<1> QED
  BY FramingInvariance, <1>1, PTL

(* The reads end where the frame ends: the number of bytes asked for is     *)
(* what send wrote, so that TakeContent never stops a reader, as long as no *)
(* message is longer than a size_t can say.                                 *)
THEOREM ReaderInStep == FramingSpec => [](fits /\ pc = "content" => InStep)
<1>1. (fits => FrameInv) => (fits /\ pc = "content" => InStep)
  <2> SUFFICES ASSUME FrameInv, pc = "content" PROVE InStep
    OBVIOUS
  <2>1. wire # <<>> /\ length = Frame.length
    BY DEF FrameInv, ReadFit
  <2>2. Sum(MaskBytes, length) = MaskBytes + length
    BY <2>1, ReadAsWritten, FramingAssumption DEF Sum, MaskBytes
  <2> QED
    BY <2>1, <2>2, ReadAsWritten DEF InStep
<1> QED
  BY FramingInvariance, <1>1, PTL

-----------------------------------------------------------------------------
(* Induction *)

LEMMA SetInduction ==
    ASSUME NEW S, S \subseteq Nat, 0 \in S, \A n \in S : n + 1 \in S
    PROVE  S = Nat
<1> DEFINE T == Nat \ S
<1>1. SUFFICES ASSUME T # {} PROVE FALSE
    OBVIOUS
<1>2. PICK x \in T : \A y \in T : ~ (<<y, x>> \in OpToRel(<, Nat))
  <2>1. T \subseteq Nat
      OBVIOUS
  <2> QED BY <1>1, <2>1, WFMin, NatLessThanWellFounded
<1>3. \A y \in T : ~ (y < x)
    BY <1>2, Zenon DEF OpToRel
<1>4. x # 0 /\ x - 1 \in Nat
    OBVIOUS
<1>5. x - 1 \in S
    BY <1>3, <1>4
<1> QED BY <1>5, <1>4

-----------------------------------------------------------------------------

(* One unrolling of the recursion of EncodeResult: what f must be on 0..n. *)
EncodeStep(value, f, n) ==
    [i \in 0..n |-> IF i = 0 THEN <<>> ELSE f[i - 1] \o EncodeByte(value[i])]

(* The recursive definition of EncodeResult has a solution, so that the
   function the model names satisfies its own equation. *)
LEMMA EncodeResultEquation ==
    ASSUME NEW value \in Seq(0..255)
    PROVE  EncodeResult(value) = EncodeStep(value, EncodeResult(value), Len(value))
<1> DEFINE S == {n \in Nat : \E f : f = EncodeStep(value, f, n)}
<1>1. 0 \in S
  <2> DEFINE f == [i \in 0..0 |-> <<>>]
  <2>1. f = EncodeStep(value, f, 0)
      BY DEF EncodeStep
  <2> QED BY <2>1
<1>2. ASSUME NEW n \in S PROVE n + 1 \in S
  <2>1. PICK f : f = EncodeStep(value, f, n)
      OBVIOUS
  <2> DEFINE g == [i \in 0..n + 1 |-> IF i <= n THEN f[i] ELSE f[n] \o EncodeByte(value[n + 1])]
  <2>2. \A i \in 0..n : f[i] = IF i = 0 THEN <<>> ELSE f[i - 1] \o EncodeByte(value[i])
      BY <2>1 DEF EncodeStep
  <2>3. ASSUME NEW i \in 0..n + 1
        PROVE  g[i] = IF i = 0 THEN <<>> ELSE g[i - 1] \o EncodeByte(value[i])
    <3>1. CASE i <= n
        BY <2>2, <3>1
    <3>2. CASE i = n + 1
        BY <3>2
    <3> QED BY <3>1, <3>2
  <2>4. g = EncodeStep(value, g, n + 1)
    <3> HIDE DEF g
    <3>1. g = [i \in 0..n + 1 |-> g[i]]
        BY DEF g
    <3> QED BY <2>3, <3>1, Zenon DEF EncodeStep
  <2> QED BY <2>4
<1>3. S = Nat
  <2>1. S \subseteq Nat
      OBVIOUS
  <2> HIDE DEF S
  <2> QED BY <1>1, <1>2, <2>1, SetInduction
<1>4. Len(value) \in S
    BY <1>3
<1>5. PICK f : f = EncodeStep(value, f, Len(value))
    BY <1>4
<1> QED BY <1>5, Zenon DEF EncodeResult, EncodeStep

(* The bytes Percent::encode writes: unreserved characters and the percent
   sign. *)
Safe == {c \in 0..255 : Unreserved(c)} \cup {Percent}

(* No byte written is one that the parsers cut a text at. *)
LEMMA SafeFact ==
    ASSUME NEW c \in Safe
    PROVE  c \in 0..255 /\ c \notin {Ampersand, Semicolon, Equals, Quote, Space, Plus}
BY DEF Safe, Unreserved, Digit, Letter, Percent, Ampersand, Semicolon, Equals, Quote, Space, Plus

(* A hexadecimal digit is written as a safe byte and read back. *)
LEMMA HexFact ==
    ASSUME NEW n \in 0..15
    PROVE  /\ HexDigit(n) \in Safe /\ IsHex(HexDigit(n))
           /\ HexValue(HexDigit(n)) = n
BY DEF HexDigit, Safe, Unreserved, Digit, Letter, IsHex, HexValue

(* The two digits written for a byte are read back as that byte. *)
LEMMA HexCodeFact ==
    ASSUME NEW c \in 0..255
    PROVE  /\ c \div 16 \in 0..15 /\ c % 16 \in 0..15
           /\ Strtol2(HexDigit(c \div 16), HexDigit(c % 16)) = c
<1>1. c \div 16 \in 0..15 /\ c % 16 \in 0..15 /\ c = 16 * (c \div 16) + (c % 16)
  <2>1. c \in Int /\ 0 <= c /\ c <= 255
      OBVIOUS
  <2> QED BY <2>1, SMT
<1> DEFINE a == c \div 16
           b == c % 16
<1> HIDE DEF a, b
<1>2. a \in 0..15 /\ b \in 0..15 /\ c = 16 * a + b
    BY <1>1 DEF a, b
<1>3. Strtol2(HexDigit(a), HexDigit(b)) = 16 * a + b
    BY <1>2, HexFact DEF Strtol2
<1> QED BY <1>2, <1>3 DEF a, b

(* A byte is encoded as one or three safe bytes. *)
LEMMA EncodeByteFact ==
    ASSUME NEW c \in 0..255
    PROVE  EncodeByte(c) \in Seq(Safe) /\ Len(EncodeByte(c)) > 0
<1>1. CASE Unreserved(c)
  <2>1. c \in Safe
      BY <1>1 DEF Safe
  <2> QED BY <1>1, <2>1 DEF EncodeByte
<1>2. CASE ~Unreserved(c)
  <2>1. Percent \in Safe /\ HexDigit(c \div 16) \in Safe /\ HexDigit(c % 16) \in Safe
      BY HexFact, HexCodeFact DEF Safe
  <2> QED BY <1>2, <2>1 DEF EncodeByte
<1> QED BY <1>1, <1>2

(* The result starts empty and grows by one encoded byte at a time. *)
LEMMA EncodeUnfold ==
    ASSUME NEW value \in Seq(0..255)
    PROVE  /\ EncodeResult(value)[0] = <<>>
           /\ \A i \in 0..Len(value) - 1 : EncodeResult(value)[i + 1] =
                 EncodeResult(value)[i] \o EncodeByte(value[i + 1])
<1> DEFINE f == EncodeResult(value)
           At(i) == IF i = 0 THEN <<>> ELSE f[i - 1] \o EncodeByte(value[i])
<1>0. Len(value) \in Nat
    OBVIOUS
<1> HIDE DEF f
<1>1. f = EncodeStep(value, f, Len(value))
    BY EncodeResultEquation DEF f
<1> HIDE DEF At
<1>2. f = [i \in 0..Len(value) |-> At(i)]
    BY <1>1, Zenon DEF EncodeStep, At
<1>3. \A i \in 0..Len(value) : f[i] = At(i)
    BY <1>2
<1>4. f[0] = <<>>
    BY <1>0, <1>3 DEF At
<1>5. ASSUME NEW i \in 0..Len(value) - 1
      PROVE  f[i + 1] = f[i] \o EncodeByte(value[i + 1])
  <2>1. i + 1 \in 0..Len(value) /\ i + 1 # 0 /\ (i + 1) - 1 = i
      BY <1>0
  <2>2. f[i + 1] = At(i + 1)
      BY <2>1, <1>3
  <2>3. At(i + 1) = f[i] \o EncodeByte(value[i + 1])
      BY <2>1, Zenon DEF At
  <2> QED BY <2>2, <2>3, Zenon
<1> QED BY <1>4, <1>5 DEF f

(* Two sequences joined, with the facts about lengths that SMT needs. *)
LEMMA JoinedSeq ==
    ASSUME NEW A, NEW x \in Seq(A), NEW y \in Seq(A), NEW z, z = x \o y
    PROVE  /\ z \in Seq(A) /\ Len(z) = Len(x) + Len(y)
           /\ Len(x) \in Nat /\ Len(y) \in Nat
           /\ \A p \in 1..Len(x) : z[p] = x[p]
           /\ \A p \in 1..Len(y) : z[Len(x) + p] = y[p]
OBVIOUS

(* After i bytes the result holds only safe bytes, at least i of them. *)
LEMMA EncodeTypes ==
    ASSUME NEW value \in Seq(0..255)
    PROVE  \A i \in 0..Len(value) : /\ EncodeResult(value)[i] \in Seq(Safe)
                                    /\ Len(EncodeResult(value)[i]) >= i
<1> DEFINE f == EncodeResult(value)
           n == Len(value)
           Good(i) == f[i] \in Seq(Safe) /\ Len(f[i]) >= i
           S == {i \in Nat : i <= n => Good(i)}
<1>0. n \in Nat /\ \A i \in 1..n : value[i] \in 0..255
    BY ElementOfSeq, LenProperties
<1>u. f[0] = <<>> /\ \A i \in 0..n - 1 : f[i + 1] = f[i] \o EncodeByte(value[i + 1])
    BY EncodeUnfold
<1> HIDE DEF f, n
<1>1. 0 \in S
  <2>1. <<>> \in Seq(Safe) /\ Len(<<>>) >= 0
      OBVIOUS
  <2>2. Good(0)
      BY <1>u, <2>1, Zenon
  <2> HIDE DEF Good
  <2> QED BY <2>2
<1>2. ASSUME NEW i \in S PROVE i + 1 \in S
  <2>0. i \in Nat
      OBVIOUS
  <2>1. SUFFICES ASSUME i + 1 <= n PROVE Good(i + 1)
      BY <2>0
  <2>c. i + 1 \in 1..n /\ i \in 0..n - 1 /\ i <= n
      BY <2>0, <2>1, <1>0
  <2>2. Good(i)
      BY <2>c
  <2> HIDE DEF S
  <2>3. f[i + 1] = f[i] \o EncodeByte(value[i + 1])
      BY <2>c, <1>u
  <2> DEFINE b == EncodeByte(value[i + 1])
  <2>4. b \in Seq(Safe) /\ Len(b) > 0
      BY <2>c, <1>0, EncodeByteFact
  <2> DEFINE x == f[i]
             z == f[i + 1]
  <2>5. x \in Seq(Safe) /\ Len(x) >= i /\ b \in Seq(Safe) /\ Len(b) > 0 /\ z = x \o b
      BY <2>2, <2>3, <2>4, Zenon
  <2>6. z \in Seq(Safe) /\ Len(z) >= i + 1
    <3> HIDE DEF b, x, z
    <3> QED BY <2>0, <2>5
  <2> QED BY <2>6
<1>3. S = Nat
  <2>1. S \subseteq Nat
      OBVIOUS
  <2> HIDE DEF S
  <2> QED BY <1>1, <1>2, <2>1, SetInduction
<1>4. \A i \in 0..n : Good(i)
    BY <1>3, <1>0
<1> QED BY <1>4, <1>0 DEF f, n

(* What is written for the first i bytes is kept to the end. *)
LEMMA EncodePrefix ==
    ASSUME NEW value \in Seq(0..255), NEW i \in 0..Len(value)
    PROVE  /\ Len(EncodeResult(value)[i]) <= Len(Encode(value))
           /\ \A p \in 1..Len(EncodeResult(value)[i]) :
                 Encode(value)[p] = EncodeResult(value)[i][p]
<1> DEFINE f == EncodeResult(value)
           n == Len(value)
           Keeps(j) == /\ Len(f[i]) <= Len(f[j])
                       /\ \A p \in 1..Len(f[i]) : f[j][p] = f[i][p]
           S == {k \in Nat : i + k <= n => Keeps(i + k)}
<1>0. n \in Nat /\ i \in 0..n /\ \A j \in 1..n : value[j] \in 0..255
    BY ElementOfSeq, LenProperties
<1>u. \A j \in 0..n - 1 : f[j + 1] = f[j] \o EncodeByte(value[j + 1])
    BY EncodeUnfold
<1>t. \A j \in 0..n : f[j] \in Seq(Safe)
    BY EncodeTypes
<1> HIDE DEF f, n
<1>1. 0 \in S
    BY <1>t, <1>0
<1>2. ASSUME NEW k \in S PROVE k + 1 \in S
  <2>0. k \in Nat
      OBVIOUS
  <2>1. SUFFICES ASSUME i + (k + 1) <= n PROVE Keeps(i + (k + 1))
      BY <2>0
  <2> DEFINE j == i + k
  <2>2. Keeps(j) /\ j \in 0..n - 1 /\ j \in 0..n /\ j + 1 \in 1..n
          /\ i + (k + 1) = j + 1
      BY <2>0, <2>1, <1>0
  <2> HIDE DEF j, S
  <2>3. f[j + 1] = f[j] \o EncodeByte(value[j + 1])
      BY <2>2, <1>u
  <2> DEFINE b == EncodeByte(value[j + 1])
  <2>4. b \in Seq(Safe) /\ f[j] \in Seq(Safe) /\ f[i] \in Seq(Safe)
      BY <2>2, <1>0, <1>t, EncodeByteFact
  <2> DEFINE w == f[i]
             x == f[j]
             z == f[j + 1]
  <2>5. /\ w \in Seq(Safe) /\ x \in Seq(Safe) /\ b \in Seq(Safe) /\ z = x \o b
        /\ Len(w) <= Len(x) /\ \A p \in 1..Len(w) : x[p] = w[p]
      BY <2>2, <2>3, <2>4, Zenon
  <2>6. Len(w) <= Len(z) /\ \A p \in 1..Len(w) : z[p] = w[p]
    <3> HIDE DEF b, w, x, z
    <3>1. /\ Len(z) = Len(x) + Len(b) /\ Len(x) \in Nat /\ Len(b) \in Nat
          /\ Len(w) \in Nat /\ \A p \in 1..Len(x) : z[p] = x[p]
        BY <2>5
    <3> QED BY <2>5, <3>1
  <2> QED BY <2>2, <2>6
<1>3. S = Nat
  <2>1. S \subseteq Nat
      OBVIOUS
  <2> HIDE DEF S
  <2> QED BY <1>1, <1>2, <2>1, SetInduction
<1>4. \A k \in Nat : i + k <= n => Keeps(i + k)
    BY <1>3
<1> HIDE DEF Keeps
<1>5. n - i \in Nat /\ i + (n - i) = n
    BY <1>0
<1>6. n <= n
    BY <1>0
<1>7. Keeps(n)
    BY <1>4, <1>5, <1>6, Zenon
<1> QED BY <1>7 DEF f, n, Encode, Keeps

(* The encoded text holds only safe bytes. *)
LEMMA EncodeSafe ==
    ASSUME NEW value \in Seq(0..255)
    PROVE  Encode(value) \in Seq(Safe) /\ (value # <<>> => Encode(value) # <<>>)
<1>1. Len(value) \in 0..Len(value)
    OBVIOUS
<1>2. Encode(value) \in Seq(Safe) /\ Len(Encode(value)) >= Len(value)
    BY <1>1, EncodeTypes DEF Encode
<1> QED BY <1>2

-----------------------------------------------------------------------------
(* What DecodeRest reads at position i, given what it reads after it: f. *)
DecodeAt(value, f, i) ==
    IF i > Len(value) THEN <<>>
    ELSE IF value[i] = Percent /\ i + 2 <= Len(value)
    THEN <<Strtol2(value[i + 1], value[i + 2])>> \o f[i + 3]
    ELSE <<IF value[i] = Plus THEN Space ELSE value[i]>> \o f[i + 1]

(* The recursive definition of DecodeRest, from the end of the text to its
   start, has a solution. *)
LEMMA DecodeRestEquation ==
    ASSUME NEW value \in Seq(0..255)
    PROVE  \A i \in 1..Len(value) + 3 :
              DecodeRest(value)[i] = DecodeAt(value, DecodeRest(value), i)
<1> DEFINE n == Len(value)
           Solves(f, k) == f = [i \in n + 3 - k..n + 3 |-> DecodeAt(value, f, i)]
           S == {k \in Nat : \E f : Solves(f, k)}
<1>0. n \in Nat
    OBVIOUS
<1>1. 0 \in S
  <2> DEFINE f == [i \in n + 3 - 0..n + 3 |-> <<>>]
  <2>1. Solves(f, 0)
      BY DEF DecodeAt
  <2> QED BY <2>1
<1>2. ASSUME NEW k \in S PROVE k + 1 \in S
  <2>1. PICK f : Solves(f, k)
      OBVIOUS
  <2> DEFINE a == n + 3 - k
             g == [i \in a - 1..n + 3 |-> IF i >= a THEN f[i] ELSE DecodeAt(value, f, i)]
  <2>a. a \in Int /\ n + 3 - (k + 1) = a - 1
      BY <1>0
  <2>2. \A i \in a..n + 3 : f[i] = DecodeAt(value, f, i)
      BY <2>1
  <2>3. ASSUME NEW i \in a - 1..n + 3
        PROVE  g[i] = DecodeAt(value, g, i)
    <3> HIDE DEF a
    <3>1. g[i] = DecodeAt(value, f, i)
        BY <2>2, <2>a, <1>0
    <3>2. i <= n => g[i + 1] = f[i + 1]
        BY <2>a, <1>0
    <3>3. i + 2 <= n => g[i + 3] = f[i + 3]
        BY <2>a, <1>0
    <3> HIDE DEF g
    <3>4. i \in Int /\ n \in Nat
        BY <2>a, <1>0
    <3> QED BY <3>1, <3>2, <3>3, <3>4 DEF DecodeAt
  <2>4. g = [i \in n + 3 - (k + 1)..n + 3 |-> DecodeAt(value, g, i)]
    <3> HIDE DEF g, a
    <3>1. g = [i \in a - 1..n + 3 |-> g[i]]
        BY DEF g
    <3> HIDE DEF n
    <3> QED BY <2>3, <2>a, <3>1, Zenon
  <2>5. k + 1 \in Nat
      OBVIOUS
  <2> HIDE DEF g
  <2>6. \E h : Solves(h, k + 1)
      BY <2>4, Zenon
  <2> HIDE DEF Solves
  <2> QED BY <2>5, <2>6
<1>3. S = Nat
  <2>1. S \subseteq Nat
      OBVIOUS
  <2> HIDE DEF S
  <2> QED BY <1>1, <1>2, <2>1, SetInduction
<1>4. \A k \in Nat : \E h : Solves(h, k)
  <2> HIDE DEF Solves
  <2> QED BY <1>3
<1>5. PICK h : Solves(h, n + 2)
  <2> HIDE DEF Solves
  <2> QED BY <1>4, <1>0
<1>6. h = [i \in 1..n + 3 |-> DecodeAt(value, h, i)]
    BY <1>5, <1>0
<1>7. DecodeRest(value) = [i \in 1..Len(value) + 3 |-> DecodeAt(value, DecodeRest(value), i)]
    BY <1>6, Zenon DEF DecodeRest, DecodeAt
<1> HIDE DEF n
<1> DEFINE d == DecodeRest(value)
<1>8. d = [i \in 1..Len(value) + 3 |-> DecodeAt(value, d, i)]
    BY <1>7
<1> HIDE DEF d
<1>9. \A i \in 1..Len(value) + 3 : d[i] = DecodeAt(value, d, i)
    BY <1>8
<1> QED BY <1>9 DEF d

(* Percent::decode gives back every byte string that Percent::encode has
   written, of any length and with any bytes in it. *)
THEOREM DecodeEncode ==
    ASSUME NEW value \in Seq(0..255)
    PROVE  Decode(Encode(value)) = value
<1> DEFINE e == Encode(value)
           E == EncodeResult(value)
           n == Len(value)
           r == DecodeRest(e)
           Good(i) == r[Len(E[i]) + 1] = SubSeq(value, i + 1, n)
           S == {k \in Nat : k <= n => Good(n - k)}
<1>0. n \in Nat /\ \A j \in 1..n : value[j] \in 0..255
    BY ElementOfSeq, LenProperties
<1>e. e \in Seq(Safe) /\ e \in Seq(0..255) /\ Len(e) \in Nat /\ e = E[n]
  <2>1. Safe \subseteq 0..255
      BY SafeFact
  <2>2. e \in Seq(Safe)
      BY EncodeSafe
  <2> HIDE DEF e
  <2>3. e \in Seq(0..255) /\ Len(e) \in Nat
      BY <2>1, <2>2, SeqMonotonic, LenProperties, ZenonT(40)
  <2> QED BY <2>2, <2>3 DEF e, Encode
<1>u. E[0] = <<>> /\ \A j \in 0..n - 1 : E[j + 1] = E[j] \o EncodeByte(value[j + 1])
    BY EncodeUnfold
<1>t. \A j \in 0..n : E[j] \in Seq(Safe)
    BY EncodeTypes
<1>p. \A j \in 0..n : /\ Len(E[j]) <= Len(e)
                      /\ \A p \in 1..Len(E[j]) : e[p] = E[j][p]
    BY EncodePrefix
<1>r. \A i \in 1..Len(e) + 3 : r[i] = DecodeAt(e, r, i)
    BY <1>e, DecodeRestEquation
<1> HIDE DEF e, E, n, r
<1>1. 0 \in S
  <2>1. Len(e) + 1 \in 1..Len(e) + 3 /\ Len(e) + 1 > Len(e)
      BY <1>e
  <2>2. r[Len(e) + 1] = <<>>
      BY <2>1, <1>r DEF DecodeAt
  <2>3. SubSeq(value, n + 1, n) = <<>>
      BY <1>0
  <2>4. Good(n)
      BY <2>2, <2>3, <1>e, Zenon
  <2> HIDE DEF Good
  <2>5. n - 0 = n
      BY <1>0
  <2> QED BY <2>4, <2>5
<1>2. ASSUME NEW k \in S PROVE k + 1 \in S
  <2>0. k \in Nat
      OBVIOUS
  <2>1. SUFFICES ASSUME k + 1 <= n PROVE Good(n - (k + 1))
      BY <2>0
  <2> DEFINE i == n - k
             p == Len(E[i - 1]) + 1
             c == value[i]
  <2>2. /\ i \in 1..n /\ i - 1 \in 0..n /\ i - 1 \in 0..n - 1 /\ i \in 0..n
        /\ n - (k + 1) = i - 1 /\ Good(i) /\ c \in 0..255 /\ i - 1 + 1 = i
      BY <2>0, <2>1, <1>0
  <2> HIDE DEF i, S
  <2>a. E[i] = E[i - 1] \o EncodeByte(c)
      BY <2>2, <1>u
  <2> HIDE DEF c
  <2>b. E[i - 1] \in Seq(Safe) /\ Len(E[i - 1]) <= Len(e)
      BY <2>2, <1>t, <1>p
  <2>c. p \in 1..Len(e) + 3
      BY <2>b, <1>e
  <2>3. E[i] = E[i - 1] \o EncodeByte(c) /\ E[i - 1] \in Seq(Safe) /\ p \in 1..Len(e) + 3
      BY <2>a, <2>b, <2>c
  <2>4. EncodeByte(c) \in Seq(Safe) /\ Len(EncodeByte(c)) > 0
      BY <2>2, EncodeByteFact
  <2>5. <<c>> \o SubSeq(value, i + 1, n) = SubSeq(value, i, n)
      BY <2>2, <1>0 DEF c, n
  <2>6. r[p] = DecodeAt(e, r, p)
      BY <2>3, <1>r
  <2>7. Len(E[i]) <= Len(e) /\ \A q \in 1..Len(E[i]) : e[q] = E[i][q]
      BY <2>2, <1>p, <1>0
  <2>8. CASE Unreserved(c)
    <3>1. EncodeByte(c) = <<c>>
        BY <2>8 DEF EncodeByte
    <3>2. c # Percent /\ c # Plus
        BY <2>8, <2>2 DEF Unreserved, Digit, Letter, Percent, Plus
    <3>3. Len(E[i]) = p /\ E[i][p] = c
        BY <3>1, <2>3
    <3>4. e[p] = c /\ p <= Len(e)
        BY <3>3, <2>7, <2>3
    <3>5. r[p] = <<c>> \o r[p + 1]
        BY <3>2, <3>4, <2>6, <2>3, <1>e DEF DecodeAt
    <3> QED BY <3>5, <3>3, <2>5, <2>2
  <2>9. CASE ~Unreserved(c)
    <3>1. EncodeByte(c) = <<Percent, HexDigit(c \div 16), HexDigit(c % 16)>>
        BY <2>9 DEF EncodeByte
    <3>2. Strtol2(HexDigit(c \div 16), HexDigit(c % 16)) = c
        BY <2>2, HexCodeFact
    <3> DEFINE a == HexDigit(c \div 16)
               b == HexDigit(c % 16)
    <3> HIDE DEF a, b
    <3>x. EncodeByte(c) = <<Percent, a, b>> /\ Strtol2(a, b) = c
        BY <3>1, <3>2 DEF a, b
    <3>3. Len(E[i]) = p + 2 /\ E[i][p] = Percent /\ E[i][p + 1] = a /\ E[i][p + 2] = b
        BY <3>x, <2>3
    <3>i. p \in 1..p + 2 /\ p + 1 \in 1..p + 2 /\ p + 2 \in 1..p + 2
        BY <2>3
    <3>4. e[p] = Percent /\ e[p + 1] = a /\ e[p + 2] = b /\ p + 2 <= Len(e)
        BY <3>i, <3>3, <2>7, Zenon
    <3>5. r[p] = <<c>> \o r[p + 3]
      <4>1. ~(p > Len(e))
          BY <3>4, <2>3, <1>e
      <4> QED BY <4>1, <3>x, <3>4, <2>6, Zenon DEF DecodeAt
    <3>6. p + 3 = Len(E[i]) + 1
        BY <3>3, <2>3
    <3> QED BY <3>5, <3>6, <2>5, <2>2
  <2> QED BY <2>8, <2>9
<1>3. S = Nat
  <2>1. S \subseteq Nat
      OBVIOUS
  <2> HIDE DEF S
  <2> QED BY <1>1, <1>2, <2>1, SetInduction
<1>4. \A k \in Nat : k <= n => Good(n - k)
    BY <1>3
<1>5. Good(0)
  <2> HIDE DEF Good
  <2>1. n <= n /\ n - n = 0
      BY <1>0
  <2> QED BY <1>4, <1>0, <2>1, Zenon
<1>6. r[1] = SubSeq(value, 1, n) /\ SubSeq(value, 1, n) = value
    BY <1>5, <1>u DEF n
<1> QED BY <1>6 DEF r, e, Decode

-----------------------------------------------------------------------------
(* A value that no step changes stays what it was. *)
LEMMA Skipped ==
    ASSUME NEW f, NEW a \in Nat, NEW b \in Nat, a <= b,
           \A c \in a + 1..b : f[c] = f[c - 1]
    PROVE  f[b] = f[a]
<1> DEFINE S == {k \in Nat : a + k <= b => f[a + k] = f[a]}
<1>1. 0 \in S
    OBVIOUS
<1>2. ASSUME NEW k \in S PROVE k + 1 \in S
  <2>0. k \in Nat
      OBVIOUS
  <2>1. SUFFICES ASSUME a + (k + 1) <= b PROVE f[a + (k + 1)] = f[a]
      BY <2>0
  <2>2. a + (k + 1) \in a + 1..b /\ a + (k + 1) - 1 = a + k /\ a + k <= b
      BY <2>0, <2>1
  <2>3. f[a + (k + 1)] = f[a + k]
      BY <2>2
  <2> QED BY <2>2, <2>3
<1>3. S = Nat
  <2>1. S \subseteq Nat
      OBVIOUS
  <2> HIDE DEF S
  <2> QED BY <1>1, <1>2, <2>1, SetInduction
<1>4. \A k \in Nat : a + k <= b => f[a + k] = f[a]
    BY <1>3
<1>5. b - a \in Nat /\ a + (b - a) = b /\ a + (b - a) <= b
    OBVIOUS
<1> QED BY <1>4, <1>5

(* A byte string of any length. *)
Bytes == Seq(0..255)

(* An encoded text is a byte string. *)
LEMMA SafeBytes ==
    ASSUME NEW value \in Seq(Safe)
    PROVE  value \in Bytes
<1>1. Safe \subseteq 0..255
    BY SafeFact
<1>2. value \in Seq(0..255)
    BY <1>1, SeqMonotonic, ZenonT(40)
<1> QED BY <1>2 DEF Bytes

(* part stands in s after the first p bytes. *)
At(s, p, part) == /\ p + Len(part) <= Len(s)
                  /\ \A i \in 1..Len(part) : s[p + i] = part[i]

(* What stands in s at p is what SubSeq cuts out there. *)
LEMMA Slice ==
    ASSUME NEW s \in Bytes, NEW part \in Bytes, NEW p \in Nat, At(s, p, part)
    PROVE  SubSeq(s, p + 1, p + Len(part)) = part
<1> DEFINE t == SubSeq(s, p + 1, p + Len(part))
<1>1. \A i \in p + 1..p + Len(part) : s[i] \in 0..255
  <2> TAKE i \in p + 1..p + Len(part)
  <2>1. i \in 1..Len(s)
      BY DEF At, Bytes
  <2> QED BY <2>1, ElementOfSeq DEF Bytes
<1>2. /\ t \in Bytes /\ Len(t) = Len(part)
      /\ \A i \in 1..Len(part) : t[i] = s[p + i]
  <2> DEFINE m == p + 1
             k == p + Len(part)
  <2>1. /\ Len(part) \in Nat /\ m \in Int /\ k \in Int
        /\ (IF m <= k THEN k - m + 1 ELSE 0) = Len(part)
        /\ \A i \in 1..Len(part) : i \in 1..k - m + 1 /\ m + i - 1 = p + i
      BY DEF Bytes
  <2>2. \A i \in m..k : s[i] \in 0..255
      BY <1>1
  <2> HIDE DEF m, k
  <2>3. /\ SubSeq(s, m, k) \in Seq(0..255)
        /\ Len(SubSeq(s, m, k)) = IF m <= k THEN k - m + 1 ELSE 0
        /\ \A i \in 1..k - m + 1 : SubSeq(s, m, k)[i] = s[m + i - 1]
      BY <2>1, <2>2, SubSeqProperties
  <2> DEFINE u == SubSeq(s, m, k)
  <2> HIDE DEF u
  <2>a. u \in Seq(0..255) /\ Len(u) = Len(part)
    <3>1. u \in Seq(0..255) /\ Len(u) = IF m <= k THEN k - m + 1 ELSE 0
        BY <2>3, Zenon DEF u
    <3> QED BY <2>1, <3>1
  <2>b. \A i \in 1..k - m + 1 : u[i] = s[m + i - 1]
      BY <2>3, Zenon DEF u
  <2>c. ASSUME NEW i \in 1..Len(part) PROVE u[i] = s[p + i]
    <3>1. i \in 1..k - m + 1 /\ m + i - 1 = p + i
        BY <2>1, Zenon
    <3>2. u[i] = s[m + i - 1]
        BY <3>1, <2>b, Zenon
    <3> QED BY <3>1, <3>2, Zenon
  <2>4. u \in Bytes /\ Len(u) = Len(part) /\ \A i \in 1..Len(part) : u[i] = s[p + i]
      BY <2>a, <2>c DEF Bytes
  <2> QED BY <2>4, Zenon DEF u, m, k
<1>3. \A i \in 1..Len(part) : t[i] = part[i]
    BY <1>2 DEF At
<1> HIDE DEF t
<1>4. t = part
    BY <1>2, <1>3, SeqEqual DEF Bytes
<1> QED BY <1>4 DEF t

LEMMA JoinedParts ==
    ASSUME NEW x \in Bytes, NEW y \in Bytes
    PROVE  /\ x \o y \in Bytes /\ Len(x \o y) = Len(x) + Len(y)
           /\ At(x \o y, Len(x), y)
           /\ \A p \in Nat : \A part \in Bytes : At(x, p, part) => At(x \o y, p, part)
<1> PICK z : z = x \o y
    OBVIOUS
<1>0. x \in Seq(0..255) /\ y \in Seq(0..255)
    BY DEF Bytes
<1>1. /\ z \in Seq(0..255) /\ Len(z) = Len(x) + Len(y)
      /\ Len(x) \in Nat /\ Len(y) \in Nat
      /\ \A p \in 1..Len(x) : z[p] = x[p]
      /\ \A p \in 1..Len(y) : z[Len(x) + p] = y[p]
    BY <1>0
<1>2. At(z, Len(x), y)
    BY <1>1 DEF At
<1>3. ASSUME NEW p \in Nat, NEW part \in Bytes, At(x, p, part)
      PROVE  At(z, p, part)
  <2>1. Len(part) \in Nat
      BY DEF Bytes
  <2>2. p + Len(part) <= Len(z)
      BY <1>1, <1>3, <2>1 DEF At
  <2>3. ASSUME NEW i \in 1..Len(part) PROVE z[p + i] = part[i]
    <3>1. p + i \in 1..Len(x) /\ x[p + i] = part[i]
        BY <1>1, <1>3, <2>1 DEF At
    <3> QED BY <3>1, <1>1
  <2> QED BY <2>2, <2>3 DEF At
<1>4. z \in Bytes /\ Len(z) = Len(x) + Len(y)
    BY <1>1 DEF Bytes
<1> QED BY <1>2, <1>3, <1>4

-----------------------------------------------------------------------------
(* The state of QueryString::parse before its first byte. *)
QueryStart == [name |-> 1, end |-> 0, out |-> <<>>]

LEMMA QueryStatesUnfold ==
    ASSUME NEW s \in Bytes
    PROVE  /\ QueryStates(s)[0] = QueryStart
           /\ \A c \in 1..Len(s) :
                 QueryStates(s)[c] = QueryStep(s, QueryStates(s)[c - 1], c)
<1> DEFINE n == Len(s)
           Next1(f, c) == IF c = 0 THEN QueryStart ELSE QueryStep(s, f[c - 1], c)
           Solves(f, k) == f = [c \in 0..k |-> Next1(f, c)]
           S == {k \in Nat : \E f : Solves(f, k)}
<1>0. n \in Nat
    BY DEF Bytes
<1>1. 0 \in S
  <2> DEFINE f == [c \in 0..0 |-> QueryStart]
  <2>1. Solves(f, 0)
      OBVIOUS
  <2> QED BY <2>1
<1>2. ASSUME NEW k \in S PROVE k + 1 \in S
  <2>1. PICK f : Solves(f, k)
      OBVIOUS
  <2>k. k \in Nat /\ k + 1 \in Nat
      OBVIOUS
  <2> DEFINE g == [c \in 0..k + 1 |-> IF c <= k THEN f[c] ELSE QueryStep(s, f[k], k + 1)]
  <2>2. \A c \in 0..k : f[c] = Next1(f, c)
      BY <2>1
  <2>3. ASSUME NEW c \in 0..k + 1
        PROVE  g[c] = Next1(g, c)
    <3>1. CASE c <= k
        BY <2>2, <2>k, <3>1
    <3>2. CASE c = k + 1
        BY <2>k, <3>2
    <3> QED BY <2>k, <3>1, <3>2
  <2>4. Solves(g, k + 1)
    <3> HIDE DEF g, Next1
    <3>1. g = [c \in 0..k + 1 |-> g[c]]
        BY DEF g
    <3> QED BY <2>3, <3>1, Zenon
  <2> HIDE DEF g, Solves
  <2> QED BY <2>4, <2>k
<1>3. S = Nat
  <2>1. S \subseteq Nat
      OBVIOUS
  <2> HIDE DEF S
  <2> QED BY <1>1, <1>2, <2>1, SetInduction
<1>4. PICK f : Solves(f, n)
  <2> HIDE DEF Solves
  <2> QED BY <1>3, <1>0
<1> DEFINE q == QueryStates(s)
<1>5. Solves(q, n)
    BY <1>4, Zenon DEF QueryStates, QueryStart
<1> HIDE DEF q, Next1
<1>6. \A c \in 0..n : q[c] = Next1(q, c)
    BY <1>5
<1>7. q[0] = QueryStart
    BY <1>6, <1>0 DEF Next1
<1>8. ASSUME NEW c \in 1..n PROVE q[c] = QueryStep(s, q[c - 1], c)
  <2>1. c \in 0..n /\ c # 0
      BY <1>0
  <2> QED BY <1>6, <2>1, Zenon DEF Next1
<1> QED BY <1>7, <1>8 DEF q

(* A state of its loop: where the name starts, where it ends, what is read. *)
QueryState(name, end, out) == [name |-> name, end |-> end, out |-> out]

(* In the state st the name of a field starts at p and has one byte, and the
   field ended at c is field. *)
HasField(s, st, c, p, out, field) ==
    /\ st.name = p /\ st.end = p + 1 /\ st.out = out
    /\ QueryField(s, st, c) = <<field>>

(* A field name=value that starts at position p, read up to its end. *)
LEMMA QueryFieldRead ==
    ASSUME NEW s \in Bytes, NEW p \in Nat \ {0}, NEW value \in Seq(Safe), NEW out,
           NEW char \in {110, 109},
           s[p] = char, s[p + 1] = Equals, At(s, p + 1, value),
           QueryStates(s)[p - 1] = QueryState(p, 0, out)
    PROVE  HasField(s, QueryStates(s)[p + 1 + Len(value)], p + 2 + Len(value),
                    p, out, Field(<<char>>, Decode(value)))
<1> DEFINE q == QueryStates(s)
           n == Len(value)
<1>0. n \in Nat /\ Len(s) \in Nat /\ p + 1 + n <= Len(s) /\ value \in Bytes
  <2>1. value \in Bytes
      BY SafeBytes
  <2> QED BY <2>1 DEF At, Bytes
<1>s. s[p] = char /\ s[p + 1] = Equals
    OBVIOUS
<1>q. \A c \in 1..Len(s) : q[c] = QueryStep(s, q[c - 1], c)
    BY QueryStatesUnfold
<1>v. \A c \in p + 2..p + 1 + n : s[c] \notin {Ampersand, Equals}
  <2> TAKE c \in p + 2..p + 1 + n
  <2>1. c - (p + 1) \in 1..n /\ p + 1 + (c - (p + 1)) = c
      BY <1>0
  <2>2. s[c] = value[c - (p + 1)]
      BY <2>1 DEF At
  <2>3. value[c - (p + 1)] \in Safe
      BY <2>1, ElementOfSeq
  <2> QED BY <2>2, <2>3, SafeFact
<1>p. q[p - 1] = QueryState(p, 0, out)
    OBVIOUS
<1> HIDE DEF q, n
<1>1. q[p] = QueryState(p, 0, out)
  <2>1. q[p] = QueryStep(s, q[p - 1], p)
      BY <1>q, <1>0
  <2>2. s[p] # Ampersand /\ s[p] # Equals
      BY <1>s DEF Ampersand, Equals
  <2> QED BY <2>1, <2>2, <1>p, Zenon DEF QueryStep
<1>2. q[p + 1] = QueryState(p, p + 1, out)
  <2>1. q[p + 1] = QueryStep(s, QueryState(p, 0, out), p + 1)
    <3>1. p + 1 \in 1..Len(s) /\ p + 1 - 1 = p
        BY <1>0
    <3> QED BY <3>1, <1>q, <1>1
  <2>2. s[p + 1] # Ampersand /\ s[p + 1] = Equals
      BY <1>s DEF Ampersand, Equals
  <2>3. QueryState(p, 0, out).end = 0
      BY DEF QueryState
  <2>4. [QueryState(p, 0, out) EXCEPT !.end = p + 1] = QueryState(p, p + 1, out)
      BY DEF QueryState
  <2> QED BY <2>1, <2>2, <2>3, <2>4, Zenon DEF QueryStep
<1>3. \A c \in (p + 1) + 1..p + 1 + n : q[c] = q[c - 1]
  <2> TAKE c \in (p + 1) + 1..p + 1 + n
  <2>1. c \in 1..Len(s) /\ c \in p + 2..p + 1 + n
      BY <1>0
  <2>2. q[c] = QueryStep(s, q[c - 1], c) /\ s[c] # Ampersand /\ s[c] # Equals
      BY <2>1, <1>q, <1>v
  <2> QED BY <2>2, Zenon DEF QueryStep
<1>4. q[p + 1 + n] = QueryState(p, p + 1, out)
  <2>1. p + 1 \in Nat /\ p + 1 + n \in Nat /\ p + 1 <= p + 1 + n
      BY <1>0
  <2>2. q[p + 1 + n] = q[p + 1]
    <3> DEFINE a == p + 1
               b == p + 1 + n
    <3>1. a \in Nat /\ b \in Nat /\ a <= b /\ \A c \in a + 1..b : q[c] = q[c - 1]
        BY <2>1, <1>3
    <3> HIDE DEF a, b
    <3>2. q[b] = q[a]
        BY <3>1, Skipped
    <3> QED BY <3>2 DEF a, b
  <2> QED BY <2>2, <1>2
<1> DEFINE st == q[p + 1 + n]
<1>5. st.name = p /\ st.end = p + 1 /\ st.out = out
    BY <1>4 DEF QueryState
<1> HIDE DEF st
<1>6. SubSeq(s, p, p) = <<char>>
  <2>1. p - 1 + Len(<<char>>) <= Len(s) /\ \A i \in 1..Len(<<char>>) : s[p - 1 + i] = <<char>>[i]
      BY <1>s, <1>0
  <2>2. At(s, p - 1, <<char>>)
      BY <2>1 DEF At
  <2>3. <<char>> \in Bytes /\ Len(<<char>>) = 1 /\ p - 1 \in Nat /\ p - 1 + 1 = p
      BY DEF Bytes
  <2>4. SubSeq(s, p - 1 + 1, p - 1 + Len(<<char>>)) = <<char>>
      BY <2>2, <2>3, Slice, Zenon
  <2> QED BY <2>3, <2>4
<1>7. SubSeq(s, p + 2, p + 1 + n) = value
  <2>1. SubSeq(s, (p + 1) + 1, (p + 1) + Len(value)) = value
      BY <1>0, Slice, SMTT(30)
  <2>2. (p + 1) + 1 = p + 2
      OBVIOUS
  <2> QED BY <2>1, <2>2 DEF n
<1>8. QueryField(s, st, p + 2 + n) = <<Field(<<char>>, Decode(value))>>
  <2>1. st.end # 0 /\ st.end - 1 = p /\ st.end + 1 = p + 2 /\ (p + 2 + n) - 1 = p + 1 + n
      BY <1>5, <1>0
  <2>2. <<char>> # <<>>
      OBVIOUS
  <2>3. /\ SubSeq(s, st.name, st.end - 1) = <<char>>
        /\ SubSeq(s, st.end + 1, (p + 2 + n) - 1) = value
      BY <2>1, <1>5, <1>6, <1>7
  <2> DEFINE name == <<char>>
             c == p + 2 + n
  <2>4. /\ st.end # 0 /\ name # <<>> /\ SubSeq(s, st.name, st.end - 1) = name
        /\ SubSeq(s, st.end + 1, c - 1) = value
      BY <2>1, <2>2, <2>3, Zenon
  <2> HIDE DEF name, c
  <2>5. QueryField(s, st, c) = <<Field(name, Decode(value))>>
    <3>1. (IF st.end = 0 THEN c ELSE st.end) = st.end
        BY <2>4, Zenon
    <3>2. (IF st.end = 0 THEN <<>> ELSE SubSeq(s, st.end + 1, c - 1)) = value
        BY <2>4, Zenon
    <3> QED BY <2>4, <3>1, <3>2, Zenon DEF QueryField
  <2> QED BY <2>5 DEF name, c
<1> QED BY <1>5, <1>8, Zenon DEF st, q, n, HasField

(* Short sequences, joined and appended to. *)
LEMMA PairOf ==
    ASSUME NEW a, NEW b
    PROVE  <<a>> \o <<b>> = <<a, b>> /\ Append(<<a>>, b) = <<a, b>>
<1> DEFINE A == {a, b}
<1>1. a \in A /\ b \in A
    OBVIOUS
<1> HIDE DEF A
<1> DEFINE x == <<a>> \o <<b>>
           y == <<a, b>>
           z == Append(<<a>>, b)
<1>2. x \in Seq(A) /\ Len(x) = 2 /\ x[1] = a /\ x[2] = b
    BY <1>1
<1>3. y \in Seq(A) /\ Len(y) = 2 /\ y[1] = a /\ y[2] = b
    BY <1>1
<1>4. z \in Seq(A) /\ Len(z) = 2 /\ z[1] = a /\ z[2] = b
    BY <1>1
<1> HIDE DEF x, y, z
<1>5. x = y
  <2>1. \A i \in 1..Len(x) : x[i] = y[i]
      BY <1>2, <1>3
  <2> QED BY <2>1, <1>2, <1>3, SeqEqual
<1>6. z = y
  <2>1. \A i \in 1..Len(z) : z[i] = y[i]
      BY <1>4, <1>3
  <2> QED BY <2>1, <1>4, <1>3, SeqEqual
<1> QED BY <1>5, <1>6 DEF x, y, z

LEMMA TripleOf ==
    ASSUME NEW a, NEW b, NEW c
    PROVE  <<a, b>> \o <<c>> = <<a, b, c>>
<1> DEFINE A == {a, b, c}
<1>1. a \in A /\ b \in A /\ c \in A
    OBVIOUS
<1> HIDE DEF A
<1> DEFINE x == <<a, b>> \o <<c>>
           y == <<a, b, c>>
<1>2. x \in Seq(A) /\ Len(x) = 3 /\ x[1] = a /\ x[2] = b /\ x[3] = c
    BY <1>1
<1>3. y \in Seq(A) /\ Len(y) = 3 /\ y[1] = a /\ y[2] = b /\ y[3] = c
    BY <1>1
<1> HIDE DEF x, y
<1>4. \A i \in 1..Len(x) : x[i] = y[i]
    BY <1>2, <1>3
<1>5. x = y
    BY <1>2, <1>3, <1>4, SeqEqual
<1> QED BY <1>5 DEF x, y

LEMMA AtOne ==
    ASSUME NEW s \in Bytes, NEW p \in Nat, NEW c, At(s, p, <<c>>)
    PROVE  s[p + 1] = c /\ p + 1 \in 1..Len(s)
<1>1. Len(<<c>>) = 1 /\ <<c>>[1] = c /\ Len(s) \in Nat
    BY DEF Bytes
<1>2. p + 1 <= Len(s) /\ s[p + 1] = <<c>>[1]
    BY <1>1 DEF At
<1> QED BY <1>1, <1>2

(* How two fields are written. *)
LEMMA QueryLayout ==
    ASSUME NEW v \in Bytes, NEW w \in Bytes
    PROVE  LET s == QueryCreate(<<Field(<<110>>, v), Field(<<109>>, w)>>)
               n == Len(Encode(v))
           IN  /\ s \in Bytes /\ n \in Nat
               /\ Len(s) = 5 + n + Len(Encode(w))
               /\ At(s, 0, <<110>>) /\ At(s, 1, <<Equals>>) /\ At(s, 2, Encode(v))
               /\ At(s, 2 + n, <<Ampersand>>) /\ At(s, 3 + n, <<109>>)
               /\ At(s, 4 + n, <<Equals>>) /\ At(s, 5 + n, Encode(w))
<1> DEFINE fields == <<Field(<<110>>, v), Field(<<109>>, w)>>
           Result(r) == r = [i \in 0..Len(fields) |->
                IF i = 0 THEN <<>>
                ELSE r[i - 1] \o (IF i = 1 THEN <<>> ELSE <<Ampersand>>)
                       \o fields[i].name \o <<Equals>> \o Encode(fields[i].value)]
           x == <<>> \o <<>> \o <<110>> \o <<Equals>> \o Encode(v)
           s == x \o <<Ampersand>> \o <<109>> \o <<Equals>> \o Encode(w)
<1>1. QueryCreate(fields) = s
  <2>1. /\ Len(fields) = 2
        /\ fields[1].name = <<110>> /\ fields[1].value = v
        /\ fields[2].name = <<109>> /\ fields[2].value = w
      BY DEF Field
  <2> HIDE DEF fields
  <2> DEFINE g == [i \in 0..2 |-> IF i = 0 THEN <<>> ELSE IF i = 1 THEN x ELSE s]
             at(r, i) == IF i = 0 THEN <<>>
                ELSE r[i - 1] \o (IF i = 1 THEN <<>> ELSE <<Ampersand>>)
                       \o fields[i].name \o <<Equals>> \o Encode(fields[i].value)
  <2>x. 1 - 1 = 0 /\ 2 - 1 = 1 /\ 1 # 0 /\ 2 # 0 /\ 2 # 1
      OBVIOUS
  <2>2. \A r : r[0] = <<>> => at(r, 1) = x
      BY <2>1, <2>x, Zenon
  <2>3. \A r : r[1] = x => at(r, 2) = s
    <3> HIDE DEF x
    <3> QED BY <2>1, <2>x, Zenon
  <2>0. \A r : at(r, 0) = <<>>
      BY Zenon
  <2> HIDE DEF x, s, at
  <2>4. g[0] = <<>> /\ g[1] = x /\ g[2] = s
      OBVIOUS
  <2>5. ASSUME NEW i \in 0..2 PROVE g[i] = at(g, i)
    <3>1. CASE i = 0
        BY <3>1, <2>0, <2>4
    <3>2. CASE i = 1
        BY <3>2, <2>2, <2>4
    <3>3. CASE i = 2
        BY <3>3, <2>3, <2>4
    <3> QED BY <3>1, <3>2, <3>3
  <2>6. g = [i \in 0..2 |-> at(g, i)]
    <3> HIDE DEF g
    <3>1. g = [i \in 0..2 |-> g[i]]
        BY DEF g
    <3> QED BY <3>1, <2>5, Zenon
  <2> HIDE DEF g
  <2>7. PICK r : r = [i \in 0..2 |-> at(r, i)] /\ QueryCreate(fields) = r[2]
    <3>1. \E r : Result(r)
        BY <2>6, <2>1, ZenonT(40) DEF at
    <3>2. Result(CHOOSE r : Result(r))
      <4> HIDE DEF Result
      <4> QED BY <3>1, Zenon
    <3>3. QueryCreate(fields) = (CHOOSE r : Result(r))[Len(fields)]
        BY Zenon DEF QueryCreate
    <3> QED BY <3>2, <3>3, <2>1, ZenonT(40) DEF at
  <2>8. r[0] = at(r, 0) /\ r[1] = at(r, 1) /\ r[2] = at(r, 2)
      BY <2>7
  <2> QED BY <2>7, <2>8, <2>0, <2>2, <2>3, Zenon
<1> DEFINE e == Encode(v)
           d == Encode(w)
           n == Len(e)
<1>e. e \in Bytes /\ d \in Bytes
    BY EncodeSafe, SafeBytes DEF Bytes
<1>c. /\ <<>> \in Bytes /\ <<110>> \in Bytes /\ <<109>> \in Bytes
      /\ <<Equals>> \in Bytes /\ <<Ampersand>> \in Bytes
    BY DEF Bytes, Equals, Ampersand
<1>l. \A c : Len(<<c>>) = 1
    OBVIOUS
<1>n. n \in Nat /\ Len(d) \in Nat
    BY <1>e DEF Bytes
<1> DEFINE x1 == <<>> \o <<>> \o <<110>>
           x2 == x1 \o <<Equals>>
           x3 == x2 \o e
           x4 == x3 \o <<Ampersand>>
           x5 == x4 \o <<109>>
           x6 == x5 \o <<Equals>>
           x7 == x6 \o d
<1>2. x1 = <<110>>
    OBVIOUS
<1>3. s = x7
    BY Zenon
<1> HIDE DEF e, d, n, s, x7
<1>4. x1 \in Bytes /\ Len(x1) = 1 /\ At(x1, 0, <<110>>)
    BY <1>2, <1>c, <1>l DEF At
<1> HIDE DEF x1
<1>m. 0 \in Nat /\ 1 \in Nat /\ 2 \in Nat
    OBVIOUS
<1>5. x2 \in Bytes /\ Len(x2) = 2 /\ At(x2, 0, <<110>>) /\ At(x2, 1, <<Equals>>)
  <2>1. /\ x2 \in Bytes /\ Len(x2) = Len(x1) + Len(<<Equals>>)
        /\ At(x2, Len(x1), <<Equals>>) /\ At(x2, 0, <<110>>)
      BY <1>4, <1>c, <1>m, JoinedParts, Zenon
  <2> QED BY <2>1, <1>4, <1>l
<1> HIDE DEF x2
<1>6. /\ x3 \in Bytes /\ Len(x3) = 2 + n
      /\ At(x3, 0, <<110>>) /\ At(x3, 1, <<Equals>>) /\ At(x3, 2, e)
  <2>1. /\ x3 \in Bytes /\ Len(x3) = Len(x2) + n
        /\ At(x3, 0, <<110>>) /\ At(x3, 1, <<Equals>>) /\ At(x3, Len(x2), e)
      BY <1>5, <1>c, <1>m, <1>e, JoinedParts, Zenon DEF n
  <2> QED BY <2>1, <1>5
<1> HIDE DEF x3
<1>7. /\ x4 \in Bytes /\ Len(x4) = 3 + n
      /\ At(x4, 0, <<110>>) /\ At(x4, 1, <<Equals>>) /\ At(x4, 2, e)
      /\ At(x4, 2 + n, <<Ampersand>>)
    BY <1>6, <1>n, <1>c, <1>e, <1>l, JoinedParts
<1> HIDE DEF x4
<1>8. /\ x5 \in Bytes /\ Len(x5) = 4 + n
      /\ At(x5, 0, <<110>>) /\ At(x5, 1, <<Equals>>) /\ At(x5, 2, e)
      /\ At(x5, 2 + n, <<Ampersand>>) /\ At(x5, 3 + n, <<109>>)
    BY <1>7, <1>n, <1>c, <1>e, <1>l, JoinedParts
<1> HIDE DEF x5
<1>9. /\ x6 \in Bytes /\ Len(x6) = 5 + n
      /\ At(x6, 0, <<110>>) /\ At(x6, 1, <<Equals>>) /\ At(x6, 2, e)
      /\ At(x6, 2 + n, <<Ampersand>>) /\ At(x6, 3 + n, <<109>>)
      /\ At(x6, 4 + n, <<Equals>>)
    BY <1>8, <1>n, <1>c, <1>e, <1>l, JoinedParts
<1> HIDE DEF x6
<1>10. /\ x7 \in Bytes /\ Len(x7) = 5 + n + Len(d)
       /\ At(x7, 0, <<110>>) /\ At(x7, 1, <<Equals>>) /\ At(x7, 2, e)
       /\ At(x7, 2 + n, <<Ampersand>>) /\ At(x7, 3 + n, <<109>>)
       /\ At(x7, 4 + n, <<Equals>>) /\ At(x7, 5 + n, d)
    BY <1>9, <1>n, <1>c, <1>e, JoinedParts DEF x7
<1> QED BY <1>10, <1>1, <1>3, <1>n, ZenonT(40) DEF e, d, n

(* QueryString::parse reads back the fields QueryString::create wrote, in
   the order of the text, whatever bytes the two values have: separators, percent
   signs and empty values included. *)
THEOREM QueryComesBack ==
    ASSUME NEW v \in Bytes, NEW w \in Bytes
    PROVE  LET fields == <<Field(<<110>>, v), Field(<<109>>, w)>>
           IN  QueryParse(QueryCreate(fields)) = fields
<1> DEFINE f == Field(<<110>>, v)
           g == Field(<<109>>, w)
           s == QueryCreate(<<f, g>>)
           e == Encode(v)
           d == Encode(w)
           n == Len(e)
           q == QueryStates(s)
<1>1. /\ s \in Bytes /\ n \in Nat /\ Len(s) = 5 + n + Len(d)
      /\ At(s, 0, <<110>>) /\ At(s, 1, <<Equals>>) /\ At(s, 2, e)
      /\ At(s, 2 + n, <<Ampersand>>) /\ At(s, 3 + n, <<109>>)
      /\ At(s, 4 + n, <<Equals>>) /\ At(s, 5 + n, d)
    BY QueryLayout
<1>2. e \in Seq(Safe) /\ d \in Seq(Safe) /\ Decode(e) = v /\ Decode(d) = w
      /\ Len(d) \in Nat
    BY EncodeSafe, DecodeEncode DEF Bytes
<1> HIDE DEF s, e, d, n, f, g
<1>3. /\ s[1] = 110 /\ s[2] = Equals /\ s[3 + n] = Ampersand
      /\ s[4 + n] = 109 /\ s[5 + n] = Equals
    BY <1>1, AtOne
<1>q. q[0] = QueryStart /\ \A c \in 1..Len(s) : q[c] = QueryStep(s, q[c - 1], c)
    BY <1>1, QueryStatesUnfold
<1>4. LET st == q[2 + n]
      IN  /\ st.name = 1 /\ st.end = 2 /\ st.out = <<>>
          /\ QueryField(s, st, 3 + n) = <<f>>
  <2>1. q[1 - 1] = QueryState(1, 0, <<>>)
      BY <1>q DEF QueryStart, QueryState
  <2> DEFINE p == 1
  <2>2. /\ p \in Nat \ {0} /\ s[p] = 110 /\ s[p + 1] = Equals /\ At(s, p + 1, e)
        /\ q[p - 1] = QueryState(p, 0, <<>>) /\ p + 1 = 2 /\ p + 2 = 3 /\ p = 1
      BY <2>1, <1>1, <1>3
  <2> HIDE DEF p
  <2>3. HasField(s, q[p + 1 + Len(e)], p + 2 + Len(e), p, <<>>,
                 Field(<<110>>, Decode(e)))
    <3> DEFINE char == 110
    <3>1. char \in {110, 109} /\ s[p] = char
        BY <2>2
    <3> HIDE DEF char
    <3>2. HasField(s, q[p + 1 + Len(e)], p + 2 + Len(e), p, <<>>,
                   Field(<<char>>, Decode(e)))
        BY <3>1, <2>2, <1>1, <1>2, QueryFieldRead, ZenonT(40)
    <3> QED BY <3>2 DEF char
  <2> QED BY <2>3, <2>2, <1>2, Zenon DEF n, f, HasField
<1>5. q[3 + n] = QueryState(4 + n, 0, <<f>>)
  <2>1. 3 + n \in 1..Len(s) /\ (3 + n) - 1 = 2 + n /\ (3 + n) + 1 = 4 + n
      BY <1>1, <1>2
  <2>2. q[3 + n] = QueryStep(s, q[2 + n], 3 + n)
      BY <2>1, <1>q
  <2> DEFINE st == q[2 + n]
             c == 3 + n
  <2>3. st.out = <<>> /\ QueryField(s, st, c) = <<f>> /\ s[c] = Ampersand /\ c + 1 = 4 + n
      BY <1>4, <1>3, <2>1
  <2>4. q[c] = QueryStep(s, st, c)
      BY <2>2
  <2> HIDE DEF st, c
  <2>5. q[c] = [name |-> 4 + n, end |-> 0, out |-> <<>> \o <<f>>]
      BY <2>3, <2>4, Zenon DEF QueryStep
  <2>6. <<>> \o <<f>> = <<f>>
      OBVIOUS
  <2> QED BY <2>5, <2>6, Zenon DEF QueryState, c
<1>6. LET st == q[Len(s)]
      IN  /\ st.name = 4 + n /\ st.end = 5 + n /\ st.out = <<f>>
          /\ QueryField(s, st, Len(s) + 1) = <<g>>
  <2> DEFINE p == 4 + n
  <2>2. /\ p \in Nat \ {0} /\ s[p] = 109 /\ s[p + 1] = Equals /\ At(s, p + 1, d)
        /\ q[p - 1] = QueryState(p, 0, <<f>>) /\ p + 1 = 5 + n
        /\ p + 1 + Len(d) = Len(s) /\ p + 2 + Len(d) = Len(s) + 1
    <3>1. p - 1 = 3 + n /\ p + 1 = 5 + n
        BY <1>1
    <3> QED BY <3>1, <1>1, <1>2, <1>3, <1>5
  <2> HIDE DEF p
  <2>3. HasField(s, q[p + 1 + Len(d)], p + 2 + Len(d), p, <<f>>,
                 Field(<<109>>, Decode(d)))
    <3> DEFINE char == 109
    <3>1. char \in {110, 109} /\ s[p] = char
        BY <2>2
    <3> HIDE DEF char
    <3>2. HasField(s, q[p + 1 + Len(d)], p + 2 + Len(d), p, <<f>>,
                   Field(<<char>>, Decode(d)))
        BY <3>1, <2>2, <1>1, <1>2, QueryFieldRead, ZenonT(40)
    <3> QED BY <3>2 DEF char
  <2> QED BY <2>3, <2>2, <1>2, Zenon DEF g, p, HasField
<1>7. 4 + n <= Len(s)
    BY <1>1, <1>2
<1> DEFINE st == q[Len(s)]
<1>8. st.out = <<f>> /\ st.name <= Len(s) /\ QueryField(s, st, Len(s) + 1) = <<g>>
    BY <1>6, <1>7, Zenon
<1>9. QueryParse(s) = <<f>> \o <<g>>
    BY <1>8, Zenon DEF QueryParse
<1>10. <<f>> \o <<g>> = <<f, g>>
    BY PairOf, Zenon
<1> QED BY <1>9, <1>10, Zenon DEF s, f, g

-----------------------------------------------------------------------------
LEMMA AttributeStatesUnfold ==
    ASSUME NEW s \in Bytes
    PROVE  /\ AttributeStates(s)[0] = Between(<<>>)
           /\ \A c \in 1..Len(s) :
                 AttributeStates(s)[c] = AttributeStep(s, AttributeStates(s)[c - 1], c)
<1> DEFINE n == Len(s)
           Next1(f, c) == IF c = 0 THEN Between(<<>>) ELSE AttributeStep(s, f[c - 1], c)
           Solves(f, k) == f = [c \in 0..k |-> Next1(f, c)]
           S == {k \in Nat : \E f : Solves(f, k)}
<1>0. n \in Nat
    BY DEF Bytes
<1>1. 0 \in S
  <2> DEFINE f == [c \in 0..0 |-> Between(<<>>)]
  <2>1. Solves(f, 0)
      OBVIOUS
  <2> QED BY <2>1
<1>2. ASSUME NEW k \in S PROVE k + 1 \in S
  <2>1. PICK f : Solves(f, k)
      OBVIOUS
  <2>k. k \in Nat /\ k + 1 \in Nat
      OBVIOUS
  <2> DEFINE g == [c \in 0..k + 1 |-> IF c <= k THEN f[c] ELSE AttributeStep(s, f[k], k + 1)]
  <2>2. \A c \in 0..k : f[c] = Next1(f, c)
      BY <2>1
  <2>3. ASSUME NEW c \in 0..k + 1
        PROVE  g[c] = Next1(g, c)
    <3>1. CASE c <= k
        BY <2>2, <2>k, <3>1
    <3>2. CASE c = k + 1
        BY <2>k, <3>2
    <3> QED BY <2>k, <3>1, <3>2
  <2>4. Solves(g, k + 1)
    <3> HIDE DEF g, Next1
    <3>1. g = [c \in 0..k + 1 |-> g[c]]
        BY DEF g
    <3> QED BY <2>3, <3>1, Zenon
  <2> HIDE DEF g, Solves
  <2> QED BY <2>4, <2>k
<1>3. S = Nat
  <2>1. S \subseteq Nat
      OBVIOUS
  <2> HIDE DEF S
  <2> QED BY <1>1, <1>2, <2>1, SetInduction
<1>4. PICK f : Solves(f, n)
  <2> HIDE DEF Solves
  <2> QED BY <1>3, <1>0
<1> DEFINE q == AttributeStates(s)
<1>5. Solves(q, n)
    BY <1>4, Zenon DEF AttributeStates
<1> HIDE DEF q, Next1
<1>6. \A c \in 0..n : q[c] = Next1(q, c)
    BY <1>5
<1>7. q[0] = Between(<<>>)
    BY <1>6, <1>0 DEF Next1
<1>8. ASSUME NEW c \in 1..n PROVE q[c] = AttributeStep(s, q[c - 1], c)
  <2>1. c \in 0..n /\ c # 0
      BY <1>0
  <2> QED BY <1>6, <2>1, Zenon DEF Next1
<1> QED BY <1>7, <1>8 DEF q

(* A state of the loop of the parser of attributes. *)
AttributeState(name, end, value, out) ==
    [name |-> name, end |-> end, value |-> value, out |-> out]

(* What a character does, state by state. *)
LEMMA BeforeName ==
    ASSUME NEW s, NEW c, NEW out
    PROVE  /\ s[c] \in {Space, Semicolon} =>
                AttributeStep(s, Between(out), c) = Between(out)
           /\ s[c] \notin {Space, Semicolon} =>
                AttributeStep(s, Between(out), c) = AttributeState(c, 0, 0, out)
BY DEF AttributeStep, Between, AttributeState

LEMMA NameEnds ==
    ASSUME NEW s, NEW c, NEW name \in Nat \ {0}, NEW out, s[c] = Equals
    PROVE  AttributeStep(s, AttributeState(name, 0, 0, out), c)
             = AttributeState(name, c, 0, out)
BY DEF AttributeStep, AttributeState, Equals, Semicolon

LEMMA ValueStarts ==
    ASSUME NEW s, NEW c, NEW name \in Nat \ {0}, NEW end \in Nat \ {0}, NEW out
    PROVE  AttributeStep(s, AttributeState(name, end, 0, out), c)
             = AttributeState(name, end,
                   IF s[c] = Quote /\ c < Len(s) THEN c + 1 ELSE c, out)
BY DEF AttributeStep, AttributeState

LEMMA InValue ==
    ASSUME NEW s, NEW c, NEW name \in Nat \ {0}, NEW end \in Nat \ {0},
           NEW value \in Nat \ {0}, NEW out, s[c] \notin {Quote, Semicolon}
    PROVE  AttributeStep(s, AttributeState(name, end, value, out), c)
             = AttributeState(name, end, value, out)
<1> DEFINE st == AttributeState(name, end, value, out)
<1>1. st.name # 0 /\ st.end # 0 /\ st.value # 0
    BY DEF AttributeState
<1> HIDE DEF st
<1>2. AttributeStep(s, st, c) = st
    BY <1>1, Zenon DEF AttributeStep
<1> QED BY <1>2 DEF st

(* The bytes the parser stops a value at. *)
EndsValue(x) == x \in {Quote, Semicolon}

(* The state after the byte c, which ended a value. *)
Ended(s, name, end, value, out, c) ==
    Between(Append(out, Field(SubSeq(s, name, end - 1), Decode(SubSeq(s, value, c - 1)))))

LEMMA ValueEnds ==
    ASSUME NEW s, NEW c, NEW name \in Nat \ {0}, NEW end \in Nat \ {0},
           NEW value \in Nat \ {0}, NEW out, EndsValue(s[c])
    PROVE  AttributeStep(s, AttributeState(name, end, value, out), c)
             = Ended(s, name, end, value, out, c)
<1> DEFINE st == AttributeState(name, end, value, out)
<1>1. /\ st.name = name /\ st.end = end /\ st.value = value /\ st.out = out
      /\ st.name # 0 /\ st.end # 0 /\ st.value # 0
    BY DEF AttributeState
<1> HIDE DEF st
<1>2. AttributeStep(s, st, c)
        = Between(Append(out, Field(SubSeq(s, name, end - 1),
                                    Decode(SubSeq(s, value, c - 1)))))
    BY <1>1, Zenon DEF AttributeStep, Attribute, EndsValue
<1> QED BY <1>2, Zenon DEF st, Ended

(* name=value or name="value" from position p of s on, and what ends it.    *)
AttributeText(s, p, char, quoted, value) ==
    /\ char \in {110, 109} /\ s[p] = char /\ s[p + 1] = Equals
    /\ quoted \in {0, 1}
    /\ quoted = 0 => value # <<>>
    /\ quoted = 1 => s[p + 2] = Quote
    /\ At(s, p + 1 + quoted, value)
    /\ p + 2 + quoted + Len(value) <= Len(s)
    /\ s[p + 2 + quoted + Len(value)] \in {Quote, Semicolon}

(* Such an attribute is read up to its end.                                 *)
LEMMA AttributeRead ==
    ASSUME NEW s \in Bytes, NEW p \in Nat \ {0}, NEW value \in Seq(Safe), NEW out,
           NEW char, NEW quoted, AttributeText(s, p, char, quoted, value),
           AttributeStates(s)[p - 1] = Between(out)
    PROVE  AttributeStates(s)[p + 2 + quoted + Len(value)]
             = Between(Append(out, Field(<<char>>, Decode(value))))
<1> DEFINE q == AttributeStates(s)
           n == Len(value)
           start == p + 2 + quoted
           e == start + n
<1>h. /\ char \in {110, 109} /\ s[p] = char /\ s[p + 1] = Equals
      /\ quoted \in {0, 1} /\ (quoted = 0 => value # <<>>)
      /\ (quoted = 1 => s[p + 2] = Quote) /\ At(s, p + 1 + quoted, value)
      /\ e <= Len(s) /\ s[e] \in {Quote, Semicolon}
    BY DEF AttributeText
<1>0. /\ n \in Nat /\ Len(s) \in Nat /\ value \in Bytes
      /\ start \in Nat \ {0} /\ e \in Nat \ {0} /\ e <= Len(s)
      /\ start - 1 = p + 1 + quoted /\ start - 1 \in Nat
      /\ p + 2 <= e - 1 /\ (quoted = 1 => p + 2 < Len(s)) /\ (quoted = 0 => n > 0)
  <2>1. value \in Bytes
      BY SafeBytes
  <2>2. n \in Nat /\ Len(s) \in Nat /\ (n = 0 => value = <<>>)
      BY <2>1 DEF Bytes
  <2> QED BY <2>1, <2>2, <1>h
<1>s. s[p] = char /\ s[p + 1] = Equals
    BY <1>h
<1>q. \A c \in 1..Len(s) : q[c] = AttributeStep(s, q[c - 1], c)
    BY AttributeStatesUnfold
<1>v. \A c \in start..e - 1 : s[c] \in Safe
  <2> TAKE c \in start..e - 1
  <2>1. c - (start - 1) \in 1..n /\ (start - 1) + (c - (start - 1)) = c
      BY <1>0, <1>h
  <2>a. At(s, start - 1, value)
      BY <1>0, <1>h
  <2> HIDE DEF start
  <2>2. s[c] = value[c - (start - 1)]
      BY <2>1, <2>a DEF At
  <2>3. value[c - (start - 1)] \in Safe
      BY <2>1, ElementOfSeq
  <2> QED BY <2>2, <2>3
<1>p. q[p - 1] = Between(out)
    OBVIOUS
<1>i. /\ p \in 1..Len(s) /\ p + 1 \in 1..Len(s) /\ p + 2 \in 1..Len(s)
      /\ (p + 1) - 1 = p /\ (p + 2) - 1 = p + 1 /\ e \in 1..Len(s)
      /\ p + 1 \in Nat \ {0} /\ p + 2 \in Nat \ {0}
    BY <1>0
<1> HIDE DEF q, n
<1>1. q[p] = AttributeState(p, 0, 0, out)
  <2>1. q[p] = AttributeStep(s, q[p - 1], p)
      BY <1>q, <1>i
  <2>2. s[p] \notin {Space, Semicolon}
      BY <1>h DEF Space, Semicolon
  <2>3. AttributeStep(s, Between(out), p) = AttributeState(p, 0, 0, out)
      BY <2>2, BeforeName
  <2> QED BY <2>1, <2>3, <1>p, Zenon
<1>2. q[p + 1] = AttributeState(p, p + 1, 0, out)
  <2>1. q[p + 1] = AttributeStep(s, q[p], p + 1)
      BY <1>q, <1>i
  <2>2. AttributeStep(s, AttributeState(p, 0, 0, out), p + 1)
          = AttributeState(p, p + 1, 0, out)
      BY <1>s, <1>i, NameEnds
  <2> QED BY <2>1, <2>2, <1>1, Zenon
<1>3. q[p + 2] = AttributeState(p, p + 1, start, out)
  <2>1. q[p + 2] = AttributeStep(s, q[p + 1], p + 2)
      BY <1>q, <1>i
  <2>2. AttributeStep(s, AttributeState(p, p + 1, 0, out), p + 2)
          = AttributeState(p, p + 1,
               IF s[p + 2] = Quote /\ p + 2 < Len(s) THEN (p + 2) + 1 ELSE p + 2, out)
      BY <1>i, ValueStarts
  <2>3. (IF s[p + 2] = Quote /\ p + 2 < Len(s) THEN (p + 2) + 1 ELSE p + 2) = start
    <3>1. CASE quoted = 1
        BY <3>1, <1>0, <1>h
    <3>2. CASE quoted = 0
      <4>1. p + 2 \in start..e - 1 /\ start = p + 2
          BY <3>2, <1>0
      <4>2. s[p + 2] \in Safe
          BY <4>1, <1>v
      <4>3. s[p + 2] # Quote
          BY <4>2, SafeFact
      <4> QED BY <4>1, <4>3
    <3> QED BY <3>1, <3>2, <1>h
  <2> QED BY <2>1, <2>2, <2>3, <1>2, Zenon
<1> DEFINE st == AttributeState(p, p + 1, start, out)
<1>4. ASSUME NEW c \in (p + 2) + 1..e - 1
      PROVE  /\ q[c] = AttributeStep(s, q[c - 1], c)
             /\ AttributeStep(s, st, c) = st
  <2>1. c \in 1..Len(s) /\ c \in start..e - 1
      BY <1>0, <1>h
  <2>2. s[c] \in Safe
      BY <2>1, <1>v
  <2>3. s[c] \notin {Quote, Semicolon}
      BY <2>2, SafeFact
  <2>4. AttributeStep(s, st, c) = st
    <3> HIDE DEF start
    <3> QED BY <2>3, <1>0, <1>i, InValue
  <2> QED BY <2>1, <2>4, <1>q
<1>5. q[e - 1] = st
  <2> DEFINE a == p + 2
             b == e - 1
             S == {k \in Nat : a + k <= b => q[a + k] = st}
  <2>0. a \in Nat /\ b \in Nat /\ a <= b
      BY <1>0
  <2>1. 0 \in S
    <3>1. a + 0 = a
        BY <2>0
    <3> QED BY <3>1, <1>3
  <2>w. \A c \in a + 1..b : q[c] = AttributeStep(s, q[c - 1], c) /\ AttributeStep(s, st, c) = st
      BY <1>4
  <2> HIDE DEF a, b, st
  <2>2. ASSUME NEW k \in S PROVE k + 1 \in S
    <3>0. k \in Nat
        OBVIOUS
    <3>1. SUFFICES ASSUME a + (k + 1) <= b PROVE q[a + (k + 1)] = st
        BY <3>0
    <3>2. q[a + k] = st
        BY <3>0, <3>1, <2>0
    <3> HIDE DEF S
    <3> DEFINE c == a + (k + 1)
    <3>3. c \in a + 1..b /\ c - 1 = a + k
        BY <3>0, <3>1, <2>0
    <3> HIDE DEF c
    <3>4. q[c] = st
        BY <3>2, <3>3, <2>w
    <3> QED BY <3>4 DEF c
  <2>3. S = Nat
    <3>1. S \subseteq Nat
        OBVIOUS
    <3> HIDE DEF S
    <3> QED BY <2>1, <2>2, <3>1, SetInduction
  <2>4. b - a \in Nat /\ a + (b - a) = b /\ b <= b
      BY <2>0
  <2>5. \A k \in Nat : a + k <= b => q[a + k] = st
      BY <2>3
  <2>6. q[b] = st
      BY <2>4, <2>5
  <2> QED BY <2>6 DEF b
<1>6. q[e] = Between(Append(out, Field(SubSeq(s, p, (p + 1) - 1),
                                       Decode(SubSeq(s, start, e - 1)))))
  <2>1. q[e] = AttributeStep(s, st, e)
      BY <1>q, <1>i, <1>5
  <2> HIDE DEF start
  <2> DEFINE end == e
  <2>2. end \in Nat \ {0} /\ s[end] \in {Quote, Semicolon} /\ q[end] = AttributeStep(s, st, end)
      BY <1>0, <1>h, <2>1 DEF start, n
  <2> HIDE DEF end
  <2>3. p + 1 \in Nat \ {0} /\ start \in Nat \ {0}
      BY <1>0, <1>i
  <2>c. EndsValue(s[end])
      BY <2>2, Zenon DEF EndsValue
  <2> DEFINE y == p + 1
  <2>d. y \in Nat \ {0}
      BY <2>3
  <2> HIDE DEF y
  <2>4. AttributeStep(s, AttributeState(p, y, start, out), end) = Ended(s, p, y, start, out, end)
      BY <2>c, <2>d, <2>3, ValueEnds
  <2> QED BY <2>2, <2>4, Zenon DEF end, Ended, y
<1>7. SubSeq(s, p, (p + 1) - 1) = <<char>>
  <2>1. p - 1 + Len(<<char>>) <= Len(s) /\ \A i \in 1..Len(<<char>>) : s[p - 1 + i] = <<char>>[i]
      BY <1>s, <1>0
  <2>2. At(s, p - 1, <<char>>)
      BY <2>1 DEF At
  <2>3. <<char>> \in Bytes /\ Len(<<char>>) = 1 /\ p - 1 \in Nat /\ (p - 1) + 1 = p
      BY <1>h DEF Bytes
  <2>4. SubSeq(s, (p - 1) + 1, p - 1 + Len(<<char>>)) = <<char>>
      BY <2>2, <2>3, Slice, Zenon
  <2> QED BY <2>3, <2>4, <1>i
<1>8. SubSeq(s, start, e - 1) = value
  <2> DEFINE a == start - 1
  <2>1. a \in Nat /\ a + 1 = start /\ a + n = e - 1 /\ At(s, a, value)
      BY <1>0, <1>h
  <2> HIDE DEF a, start
  <2>2. SubSeq(s, a + 1, a + Len(value)) = value
      BY <2>1, <1>0, Slice, SMTT(30)
  <2> QED BY <2>1, <2>2 DEF n
<1>9. q[e] = Between(Append(out, Field(<<char>>, Decode(value))))
    BY <1>6, <1>7, <1>8, Zenon
<1> QED BY <1>9 DEF q, n

LEMMA AtTwo ==
    ASSUME NEW s \in Bytes, NEW p \in Nat, NEW a, NEW b, At(s, p, <<a, b>>)
    PROVE  s[p + 1] = a /\ s[p + 2] = b /\ p + 2 <= Len(s)
<1>1. Len(<<a, b>>) = 2 /\ <<a, b>>[1] = a /\ <<a, b>>[2] = b
    OBVIOUS
<1>2. p + 2 <= Len(s) /\ s[p + 1] = <<a, b>>[1] /\ s[p + 2] = <<a, b>>[2]
    BY <1>1 DEF At
<1> QED BY <1>1, <1>2

LEMMA AtThree ==
    ASSUME NEW s \in Bytes, NEW p \in Nat, NEW a, NEW b, NEW c, At(s, p, <<a, b, c>>)
    PROVE  s[p + 1] = a /\ s[p + 2] = b /\ s[p + 3] = c /\ p + 3 <= Len(s)
<1>1. /\ Len(<<a, b, c>>) = 3 /\ <<a, b, c>>[1] = a /\ <<a, b, c>>[2] = b
      /\ <<a, b, c>>[3] = c
    OBVIOUS
<1>2. /\ p + 3 <= Len(s) /\ s[p + 1] = <<a, b, c>>[1] /\ s[p + 2] = <<a, b, c>>[2]
      /\ s[p + 3] = <<a, b, c>>[3]
    BY <1>1 DEF At
<1> QED BY <1>1, <1>2

(* How two attributes with values and one without are written. *)
LEMMA AttributesLayout ==
    ASSUME NEW v \in Bytes, NEW w \in Bytes
    PROVE  LET s == AttributesOf(v, w)
               n == Len(Encode(v))
               m == Len(Encode(w))
           IN  /\ s \in Bytes /\ n \in Nat /\ m \in Nat /\ Len(s) = 11 + n + m
               /\ At(s, 0, <<110>>) /\ At(s, 1, <<Equals>>) /\ At(s, 2, Encode(v))
               /\ At(s, 2 + n, <<Semicolon, Space>>) /\ At(s, 4 + n, <<109>>)
               /\ At(s, 5 + n, <<Equals, Quote>>) /\ At(s, 7 + n, Encode(w))
               /\ At(s, 7 + n + m, <<Quote, Semicolon, Space>>)
               /\ At(s, 10 + n + m, <<110>>)
<1> DEFINE e == Encode(v)
           d == Encode(w)
           n == Len(e)
           m == Len(d)
<1>e. e \in Bytes /\ d \in Bytes
    BY EncodeSafe, SafeBytes DEF Bytes
<1>c. /\ <<110>> \in Bytes /\ <<109>> \in Bytes /\ <<Equals>> \in Bytes
      /\ <<Semicolon, Space>> \in Bytes /\ <<Equals, Quote>> \in Bytes
      /\ <<Quote, Semicolon, Space>> \in Bytes
    BY DEF Bytes, Equals, Semicolon, Space, Quote
<1>l. /\ \A c : Len(<<c>>) = 1
      /\ \A a, b : Len(<<a, b>>) = 2
      /\ \A a, b, c : Len(<<a, b, c>>) = 3
    OBVIOUS
<1>n. n \in Nat /\ m \in Nat
    BY <1>e DEF Bytes
<1> DEFINE x1 == <<110>>
           x2 == x1 \o <<Equals>>
           x3 == x2 \o e
           x4 == x3 \o <<Semicolon, Space>>
           x5 == x4 \o <<109>>
           x6 == x5 \o <<Equals, Quote>>
           x7 == x6 \o d
           x8 == x7 \o <<Quote, Semicolon, Space>>
           x9 == x8 \o <<110>>
<1>3. AttributesOf(v, w) = x9
    BY Zenon DEF AttributesOf, N, M
<1> HIDE DEF e, d, n, m, x9
<1>m. 0 \in Nat /\ 1 \in Nat /\ 2 \in Nat
    OBVIOUS
<1>4. x1 \in Bytes /\ Len(x1) = 1 /\ At(x1, 0, <<110>>)
    BY <1>c, <1>l DEF At
<1> HIDE DEF x1
<1>5. x2 \in Bytes /\ Len(x2) = 2 /\ At(x2, 0, <<110>>) /\ At(x2, 1, <<Equals>>)
  <2>1. /\ x2 \in Bytes /\ Len(x2) = Len(x1) + Len(<<Equals>>)
        /\ At(x2, Len(x1), <<Equals>>) /\ At(x2, 0, <<110>>)
      BY <1>4, <1>c, <1>m, JoinedParts, Zenon
  <2> QED BY <2>1, <1>4, <1>l
<1> HIDE DEF x2
<1>6. /\ x3 \in Bytes /\ Len(x3) = 2 + n
      /\ At(x3, 0, <<110>>) /\ At(x3, 1, <<Equals>>) /\ At(x3, 2, e)
  <2>1. /\ x3 \in Bytes /\ Len(x3) = Len(x2) + n
        /\ At(x3, 0, <<110>>) /\ At(x3, 1, <<Equals>>) /\ At(x3, Len(x2), e)
      BY <1>5, <1>c, <1>m, <1>e, JoinedParts, Zenon DEF n
  <2> QED BY <2>1, <1>5
<1> HIDE DEF x3
<1>7. /\ x4 \in Bytes /\ Len(x4) = 4 + n
      /\ At(x4, 0, <<110>>) /\ At(x4, 1, <<Equals>>) /\ At(x4, 2, e)
      /\ At(x4, 2 + n, <<Semicolon, Space>>)
    BY <1>6, <1>n, <1>c, <1>e, <1>l, JoinedParts
<1> HIDE DEF x4
<1>8. /\ x5 \in Bytes /\ Len(x5) = 5 + n
      /\ At(x5, 0, <<110>>) /\ At(x5, 1, <<Equals>>) /\ At(x5, 2, e)
      /\ At(x5, 2 + n, <<Semicolon, Space>>) /\ At(x5, 4 + n, <<109>>)
    BY <1>7, <1>n, <1>c, <1>e, <1>l, JoinedParts
<1> HIDE DEF x5
<1>9. /\ x6 \in Bytes /\ Len(x6) = 7 + n
      /\ At(x6, 0, <<110>>) /\ At(x6, 1, <<Equals>>) /\ At(x6, 2, e)
      /\ At(x6, 2 + n, <<Semicolon, Space>>) /\ At(x6, 4 + n, <<109>>)
      /\ At(x6, 5 + n, <<Equals, Quote>>)
    BY <1>8, <1>n, <1>c, <1>e, <1>l, JoinedParts
<1> HIDE DEF x6
<1>10. /\ x7 \in Bytes /\ Len(x7) = 7 + n + m
       /\ At(x7, 0, <<110>>) /\ At(x7, 1, <<Equals>>) /\ At(x7, 2, e)
       /\ At(x7, 2 + n, <<Semicolon, Space>>) /\ At(x7, 4 + n, <<109>>)
       /\ At(x7, 5 + n, <<Equals, Quote>>) /\ At(x7, 7 + n, d)
    BY <1>9, <1>n, <1>c, <1>e, JoinedParts DEF m
<1> HIDE DEF x7
<1>11. /\ x8 \in Bytes /\ Len(x8) = 10 + n + m
       /\ At(x8, 0, <<110>>) /\ At(x8, 1, <<Equals>>) /\ At(x8, 2, e)
       /\ At(x8, 2 + n, <<Semicolon, Space>>) /\ At(x8, 4 + n, <<109>>)
       /\ At(x8, 5 + n, <<Equals, Quote>>) /\ At(x8, 7 + n, d)
       /\ At(x8, 7 + n + m, <<Quote, Semicolon, Space>>)
    BY <1>10, <1>n, <1>c, <1>e, <1>l, JoinedParts
<1> HIDE DEF x8
<1>12. /\ x9 \in Bytes /\ Len(x9) = 11 + n + m
       /\ At(x9, 0, <<110>>) /\ At(x9, 1, <<Equals>>) /\ At(x9, 2, e)
       /\ At(x9, 2 + n, <<Semicolon, Space>>) /\ At(x9, 4 + n, <<109>>)
       /\ At(x9, 5 + n, <<Equals, Quote>>) /\ At(x9, 7 + n, d)
       /\ At(x9, 7 + n + m, <<Quote, Semicolon, Space>>)
       /\ At(x9, 10 + n + m, <<110>>)
    BY <1>11, <1>n, <1>c, <1>e, <1>l, JoinedParts DEF x9
<1> QED BY <1>12, <1>3, <1>n, Zenon DEF e, d, n, m

(* The parser of semicolon-separated attributes reads back a value written
   encoded, a value written between quotes, and a name without a value,
   whatever the bytes of the two values are. *)
THEOREM AttributesComeBack ==
    ASSUME NEW v \in Bytes, v # <<>>, NEW w \in Bytes
    PROVE  AttributesParse(AttributesOf(v, w))
             = <<Field(N, v), Field(M, w), Field(N, <<>>)>>
<1> DEFINE s == AttributesOf(v, w)
           e == Encode(v)
           d == Encode(w)
           n == Len(e)
           m == Len(d)
           q == AttributeStates(s)
           f == Field(<<110>>, v)
           g == Field(<<109>>, w)
           h == Field(<<110>>, <<>>)
<1>1. /\ s \in Bytes /\ n \in Nat /\ m \in Nat /\ Len(s) = 11 + n + m
      /\ At(s, 0, <<110>>) /\ At(s, 1, <<Equals>>) /\ At(s, 2, e)
      /\ At(s, 2 + n, <<Semicolon, Space>>) /\ At(s, 4 + n, <<109>>)
      /\ At(s, 5 + n, <<Equals, Quote>>) /\ At(s, 7 + n, d)
      /\ At(s, 7 + n + m, <<Quote, Semicolon, Space>>)
      /\ At(s, 10 + n + m, <<110>>)
    BY AttributesLayout
<1>2. e \in Seq(Safe) /\ d \in Seq(Safe) /\ Decode(e) = v /\ Decode(d) = w /\ e # <<>>
    BY EncodeSafe, DecodeEncode DEF Bytes
<1> DEFINE L == Len(s)
<1> HIDE DEF s, e, d, n, m, f, g, h
<1>3. /\ s[1] = 110 /\ s[2] = Equals /\ s[3 + n] = Semicolon /\ s[4 + n] = Space
      /\ s[5 + n] = 109 /\ s[6 + n] = Equals /\ s[7 + n] = Quote
      /\ s[8 + n + m] = Quote /\ s[9 + n + m] = Semicolon /\ s[10 + n + m] = Space
      /\ s[L] = 110
  <2>1. s[1] = 110 /\ s[2] = Equals
      BY <1>1, AtOne
  <2>2. s[3 + n] = Semicolon /\ s[4 + n] = Space
      BY <1>1, AtTwo
  <2>3. s[5 + n] = 109
      BY <1>1, AtOne
  <2>4. s[6 + n] = Equals /\ s[7 + n] = Quote
      BY <1>1, AtTwo
  <2>5. s[8 + n + m] = Quote /\ s[9 + n + m] = Semicolon /\ s[10 + n + m] = Space
      BY <1>1, AtThree
  <2>6. s[L] = 110
      BY <1>1, AtOne
  <2> QED BY <2>1, <2>2, <2>3, <2>4, <2>5, <2>6
<1>q. q[0] = Between(<<>>) /\ \A c \in 1..L : q[c] = AttributeStep(s, q[c - 1], c)
    BY <1>1, AttributeStatesUnfold
<1>4. q[3 + n] = Between(<<f>>)
  <2> DEFINE p == 1
             quoted == 0
             char == 110
  <2>1. /\ p \in Nat \ {0} /\ p - 1 = 0 /\ p + 1 + quoted = 2
        /\ p + 2 + quoted + Len(e) = 3 + n /\ p + 1 = 2 /\ p + 2 = 3
      BY <1>1 DEF n
  <2>2. AttributeText(s, p, char, quoted, e)
    <3>1. char \in {110, 109} /\ s[p] = char /\ quoted \in {0, 1} /\ quoted # 1
        BY <1>3
    <3>2. 3 + n <= Len(s)
        BY <1>1
    <3> HIDE DEF p, quoted, char
    <3> QED BY <3>1, <3>2, <2>1, <1>1, <1>2, <1>3 DEF AttributeText
  <2> HIDE DEF p, quoted, char
  <2>3. q[p - 1] = Between(<<>>)
      BY <2>1, <1>q
  <2>4. q[p + 2 + quoted + Len(e)] = Between(Append(<<>>, Field(<<char>>, Decode(e))))
    <3> DEFINE before == <<>>
    <3>1. AttributeStates(s)[p - 1] = Between(before)
        BY <2>3
    <3>2. s \in Bytes /\ p \in Nat \ {0} /\ e \in Seq(Safe)
        BY <2>1, <1>1, <1>2
    <3> HIDE DEF before
    <3>3. AttributeStates(s)[p + 2 + quoted + Len(e)]
            = Between(Append(before, Field(<<char>>, Decode(e))))
        BY <2>2, <3>1, <3>2, AttributeRead
    <3> QED BY <3>3 DEF before
  <2>5. Append(<<>>, f) = <<f>>
      OBVIOUS
  <2>6. q[3 + n] = Between(Append(<<>>, f))
      BY <2>1, <2>4, <1>2, Zenon DEF char, f
  <2> QED BY <2>5, <2>6, Zenon
<1>5. q[4 + n] = Between(<<f>>)
  <2> DEFINE c == 4 + n
  <2>1. c \in 1..L /\ c - 1 = 3 + n /\ s[c] \in {Space, Semicolon}
      BY <1>1, <1>3
  <2> HIDE DEF c
  <2>2. AttributeStep(s, Between(<<f>>), c) = Between(<<f>>)
      BY <2>1, BeforeName
  <2> QED BY <2>1, <2>2, <1>4, <1>q, Zenon DEF c
<1>6. q[8 + n + m] = Between(<<f, g>>)
  <2> DEFINE p == 5 + n
             quoted == 1
             char == 109
  <2>1. /\ p \in Nat \ {0} /\ p - 1 = 4 + n /\ p + 1 + quoted = 7 + n
        /\ p + 2 + quoted + Len(d) = 8 + n + m /\ p + 1 = 6 + n /\ p + 2 = 7 + n
      BY <1>1 DEF m
  <2>2. AttributeText(s, p, char, quoted, d)
    <3>1. char \in {110, 109} /\ s[p] = char /\ quoted \in {0, 1} /\ quoted # 0
        BY <1>3
    <3>2. 8 + n + m <= Len(s)
        BY <1>1
    <3> HIDE DEF p, quoted, char
    <3> QED BY <3>1, <3>2, <2>1, <1>1, <1>2, <1>3 DEF AttributeText
  <2> HIDE DEF p, quoted, char
  <2>3. q[p - 1] = Between(<<f>>)
      BY <2>1, <1>5, Zenon
  <2>4. q[p + 2 + quoted + Len(d)] = Between(Append(<<f>>, Field(<<char>>, Decode(d))))
    <3> DEFINE before == <<f>>
    <3>1. AttributeStates(s)[p - 1] = Between(before)
        BY <2>3
    <3>2. s \in Bytes /\ p \in Nat \ {0} /\ d \in Seq(Safe)
        BY <2>1, <1>1, <1>2
    <3> HIDE DEF before
    <3>3. AttributeStates(s)[p + 2 + quoted + Len(d)]
            = Between(Append(before, Field(<<char>>, Decode(d))))
        BY <2>2, <3>1, <3>2, AttributeRead
    <3> QED BY <3>3 DEF before
  <2>5. Append(<<f>>, g) = <<f, g>>
      BY PairOf, Zenon
  <2>6. q[8 + n + m] = Between(Append(<<f>>, g))
      BY <2>1, <2>4, <1>2, Zenon DEF char, g
  <2> QED BY <2>5, <2>6, Zenon
<1> DEFINE out == <<f, g>>
<1> HIDE DEF out
<1>o. q[8 + n + m] = Between(out)
    BY <1>6 DEF out
<1>7. q[9 + n + m] = Between(out)
  <2> DEFINE c == 9 + n + m
  <2>1. c \in 1..L /\ c - 1 = 8 + n + m /\ s[c] \in {Space, Semicolon}
      BY <1>1, <1>3
  <2> HIDE DEF c
  <2>2. AttributeStep(s, Between(out), c) = Between(out)
      BY <2>1, BeforeName
  <2> QED BY <2>1, <2>2, <1>o, <1>q, Zenon DEF c
<1>8. q[10 + n + m] = Between(out)
  <2> DEFINE c == 10 + n + m
  <2>1. c \in 1..L /\ c - 1 = 9 + n + m /\ s[c] \in {Space, Semicolon}
      BY <1>1, <1>3
  <2> HIDE DEF c
  <2>2. AttributeStep(s, Between(out), c) = Between(out)
      BY <2>1, BeforeName
  <2> QED BY <2>1, <2>2, <1>7, <1>q, Zenon DEF c
<1>9. q[L] = AttributeState(L, 0, 0, out)
  <2>1. L \in 1..L /\ L - 1 = 10 + n + m /\ s[L] \notin {Space, Semicolon}
      BY <1>1, <1>3 DEF Space, Semicolon
  <2>2. q[L] = AttributeStep(s, Between(out), L)
      BY <2>1, <1>8, <1>q
  <2>3. AttributeStep(s, Between(out), L) = AttributeState(L, 0, 0, out)
    <3> HIDE DEF L
    <3> QED BY <2>1, BeforeName
  <2> QED BY <2>2, <2>3, Zenon
<1>10. From(s, L) = <<110>>
  <2> DEFINE p == 10 + n + m
  <2>1. p \in Nat /\ p + 1 = L /\ At(s, p, <<110>>) /\ Len(<<110>>) = 1 /\ <<110>> \in Bytes
      BY <1>1 DEF Bytes
  <2> HIDE DEF p
  <2>2. SubSeq(s, p + 1, p + Len(<<110>>)) = <<110>>
      BY <2>1, <1>1, Slice, ZenonT(40)
  <2> QED BY <2>1, <2>2 DEF From
<1> DEFINE st == q[L]
<1>11. st.name = L /\ st.end = 0 /\ st.out = out /\ L # 0
    BY <1>9, <1>1 DEF AttributeState
<1>12. AttributesParse(s) = out \o <<h>>
  <2> HIDE DEF st, L
  <2>1. AttributesParse(s) = st.out \o <<Field(From(s, st.name), <<>>)>>
      BY <1>11, Zenon DEF AttributesParse, st, L
  <2> QED BY <2>1, <1>10, <1>11, Zenon DEF h
<1>13. <<f, g>> \o <<h>> = <<f, g, h>>
    BY TripleOf, Zenon
<1> QED BY <1>12, <1>13, Zenon DEF s, f, g, h, out, N, M

-----------------------------------------------------------------------------
(* A reversed byte string is a byte string. *)
LEMMA ReverseFact ==
    ASSUME NEW s \in Bytes
    PROVE  Reverse(s) \in Bytes
<1>1. Len(s) \in Nat /\ \A i \in 1..Len(s) : s[i] \in 0..255
    BY ElementOfSeq DEF Bytes
<1>2. \A i \in 1..Len(s) : s[(Len(s) - i) + 1] \in 0..255
    BY <1>1
<1>3. Reverse(s) \in [1..Len(s) -> 0..255]
    BY <1>2 DEF Reverse
<1> DEFINE r == Reverse(s)
<1> HIDE DEF r
<1>4. r \in [1..Len(s) -> 0..255]
    BY <1>3 DEF r
<1>5. r \in Seq(0..255)
  <2>1. r \in UNION {[1..n -> 0..255] : n \in Nat}
      BY <1>1, <1>4
  <2> QED BY <2>1, SeqDef
<1> QED BY <1>5 DEF r, Bytes

(* The property of the run, for a text that is any byte string. *)
LEMMA FieldsComeBack ==
    ASSUME text \in Bytes
    PROVE  ValuesComeBack
<1>1. Reverse(text) \in Bytes
    BY ReverseFact
<1>2. QueryParse(QueryCreate(Fields)) = Fields
    BY <1>1, QueryComesBack, Zenon DEF Fields, N, M
<1>3. ASSUME text # <<>>
      PROVE  AttributesParse(AttributesOf(text, Reverse(text)))
               = Fields \o <<Field(N, <<>>)>>
  <2>1. AttributesParse(AttributesOf(text, Reverse(text)))
          = <<Field(N, text), Field(M, Reverse(text)), Field(N, <<>>)>>
      BY <1>1, <1>3, AttributesComeBack, Zenon
  <2> QED BY <2>1, TripleOf, Zenon DEF Fields
<1> QED BY <1>2, <1>3, Zenon DEF ValuesComeBack

(* The text that has come is a byte string. *)
TextInv == text \in Bytes

(* Every piece that comes is one. *)
LEMMA TextStep == TextInv /\ [Next]_vars => TextInv'
<1> SUFFICES ASSUME TextInv, [Next]_vars PROVE TextInv'
    OBVIOUS
<1>1. CASE Come
  <2>1. PICK piece \in Pieces[kind] : text' = text \o piece
      BY <1>1 DEF Come
  <2>2. piece \in Seq(0..255) /\ text \in Seq(0..255)
      BY <1>1, PiecesAssumption DEF Come, TextInv, Bytes
  <2>3. text \o piece \in Seq(0..255)
      BY <2>2
  <2> QED BY <2>1, <2>3 DEF TextInv, Bytes
<1>2. CASE UNCHANGED text
    BY <1>2 DEF TextInv
<1> QED BY <1>1, <1>2 DEF Next, vars

(* Whatever pieces of byte strings come, the fields made of the text are read
   back as they were written, by the parser of queries and by the parser of
   attributes (utility.hpp). *)
THEOREM ValuesComeBackCorrect == Spec => []ValuesComeBack
<1>1. Init => TextInv
    BY DEF Init, TextInv, Bytes
<1>2. TextInv => ValuesComeBack
    BY FieldsComeBack DEF TextInv
<1> QED BY <1>1, <1>2, TextStep, PTL DEF Spec

(* To the frames a behaviour of Codecs is one of Framing, whatever else it   *)
(* is about.                                                                *)
THEOREM CodecsFraming == Spec => FramingSpec
<1>1. Init => FramingInit
    BY DEF Init
<1>2. [Next]_vars => [FramingNext]_framing
    BY DEF Next, Come, vars
<1> QED BY <1>1, <1>2, PTL DEF Spec, FramingSpec

(* Hence, in the specification the run checks, what is read is what was     *)
(* sent, and nothing longer than the maximum is delivered.                  *)
THEOREM CodecsFramesArrive == Spec => [](FramesArrive /\ NothingTooLong)
BY CodecsFraming, FramesArriveCorrect, NothingTooLongCorrect, PTL
=============================================================================
