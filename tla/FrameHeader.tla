---------------------------- MODULE FrameHeader ----------------------------
(* The header of a web socket frame, as Connection::send of the server and  *)
(* of the client write it and as read_message of the other side reads it    *)
(* (src/lib/simple_webSocket_server/server_ws.hpp, client_ws.hpp).  Bytes   *)
(* are numbers below 256.  The server's send writes no mask, the client's   *)
(* sets the highest bit of the second byte and appends one.                 *)
EXTENDS Naturals, Sequences

(* A length is a size_t, a number of 64 bits. *)
InSizeT(n) ==
    (((n \div 65536) \div 65536) \div 65536) \div 65536 = 0

(* The lowest 2, 4 and 8 bytes of a length, the most significant first.     *)
Two(n) == <<(n \div 256) % 256, n % 256>>
Four(n) == Two(n \div 65536) \o Two(n)
Eight(n) == Four((n \div 65536) \div 65536) \o Four(n)

LengthCode(length) ==
    IF length > 65535 THEN 127 ELSE IF length >= 126 THEN 126 ELSE length

LengthBytes(length) ==
    IF length > 65535 THEN Eight(length)
    ELSE IF length >= 126 THEN Two(length) ELSE <<>>

Header(fin_rsv_opcode, length, masked) ==
    <<fin_rsv_opcode, LengthCode(length) + IF masked THEN 128 ELSE 0>>
        \o LengthBytes(length)

(* The second byte: is there a mask, and how many bytes of length follow?   *)
HasMask(second) == second >= 128
Code(second) == second % 128
Following(second) ==
    CASE Code(second) = 126 -> 2 [] Code(second) = 127 -> 8 [] OTHER -> 0

(* The number written in the 2, 4 or 8 bytes from position i on. *)
Value2(bytes, i) == 256 * bytes[i] + bytes[i + 1]
Value4(bytes, i) == 65536 * Value2(bytes, i) + Value2(bytes, i + 2)
Value8(bytes, i) ==
    65536 * (65536 * Value4(bytes, i)) + Value4(bytes, i + 4)

(* Mutant: of the eight bytes only the first four are added up. *)
LengthReadHalf(second, bytes) ==
    CASE Following(second) = 2 -> Value2(bytes, 1)
      [] Following(second) = 8 -> Value4(bytes, 1)
      [] OTHER -> Code(second)

(* The length read from the second byte and from those that follow it. *)
LengthRead(second, bytes) ==
    CASE Following(second) = 2 -> Value2(bytes, 1)
      [] Following(second) = 8 -> Value8(bytes, 1)
      [] OTHER -> Code(second)
=============================================================================
