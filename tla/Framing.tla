------------------------------ MODULE Framing ------------------------------
(* The frames of one direction of a web socket connection: what             *)
(* Connection::send of one side puts on the wire and what read_message and  *)
(* read_message_content of the other side make of it                        *)
(* (src/lib/simple_webSocket_server/server_ws.hpp, client_ws.hpp).          *)
(* WsServer and WsClient model the handlers, the timers and the ends of a   *)
(* connection and take the numbers in a frame for granted; here are the     *)
(* numbers.  Of a content only the first few bytes are represented.         *)
(* A length is a size_t, and so is the sum of two: it wraps.                *)
EXTENDS FrameHeader, SequencesExt

CONSTANTS
    Lengths,        \* lengths of the contents the application sends
    PingLengths,    \* lengths of the contents of its pings
    Statuses,       \* status codes of send_close
    Masks,          \* masks the random device may yield
    MaxMessageSize, \* config.max_message_size
    SizeMod,        \* how many values a size_t has
    MaxSent       \* bound: how many frames are sent

(* A status code is sent in two bytes. *)
StatusCodes == 0..65535

ASSUME FramingAssumption ==
    /\ Lengths \subseteq Nat /\ PingLengths \subseteq Nat
    /\ Statuses \subseteq StatusCodes
    /\ SizeMod \in Nat /\ MaxMessageSize \in Nat /\ MaxSent \in Nat
    /\ MaxMessageSize < SizeMod

(* What is sent is in the memory of its sender, with the two bytes of a     *)
(* status and the header (at most 14 bytes) of its frame.                   *)
ASSUME LengthAssumption ==
    \A len \in Lengths \cup PingLengths :
        /\ InSizeT(len) /\ InSizeT(len + 2)
        /\ len + 16 < SizeMod

ASSUME MaskAssumption ==
    \A mask \in Masks : mask \in Seq(0..255) /\ Len(mask) = 4

VARIABLES
    toServer,   \* from a client to a server, or the other way?
    wire,       \* the frames on the wire, the first one being read
    count,      \* how many frames have been sent
    unfinished, \* the message whose last fragment has not been sent
    pc,         \* what is read next, or why nothing is
    length,     \* the length in the frame being read
    fragmented_in_message,
    due,        \* history: what the application sent, message by message
    got,        \* history: what the other application was told, in order
    fits        \* history: has every message been one whose length, that of
                \* a control frame between its fragments added, is a size_t?

framing == <<toServer, wire, count, unfinished, pc, length,
             fragmented_in_message, due, got, fits>>

(* The sum of two size_t. *)
Sum(a, b) == IF a + b < SizeMod THEN a + b ELSE (a + b) - SizeMod

(* fin_rsv_opcode *)
Fin(op) == op \div 128 = 1
OpCode(op) == op % 16
SetFin(op) == 128 + (op % 128)

NoMessage == [op |-> 0, length |-> 0, bytes |-> <<>>]
InMessage(op, len, bytes) == [op |-> op, length |-> len, bytes |-> bytes]

(* A close frame, as the other side is told of it. *)
Closing(status, reason) == [op |-> 136, status |-> status, reason |-> reason]

(* A further piece of a message, and what the reader makes of it. *)
Extend(message, len, bytes) ==
    [message EXCEPT !.length = @ + len, !.bytes = @ \o bytes]
Join(message, len, bytes) ==
    [message EXCEPT !.length = Sum(@, len), !.bytes = @ \o bytes]

(* The first bytes of the content of the n-th frame. *)
Shown == 6
Content(n, len) ==
    [i \in 1..(IF len < Shown THEN len ELSE Shown) |-> (83 * n + 29 * i) % 256]

FramingInit ==
    /\ toServer \in BOOLEAN
    /\ wire = <<>>
    /\ count = 0
    /\ unfinished = NoMessage
    /\ pc = "head"
    /\ length = 0
    /\ fragmented_in_message = NoMessage
    /\ due = <<>>
    /\ got = <<>>
    /\ fits = TRUE

FramingTypeOK ==
    /\ toServer \in BOOLEAN
    /\ count \in 0..MaxSent /\ Len(wire) <= count
    /\ pc \in {"head", "length", "content", "closed", "refused"}
    /\ length \in Nat
    /\ unfinished.length \in Nat /\ fragmented_in_message.length \in Nat
    /\ fits \in BOOLEAN

-----------------------------------------------------------------------------
(* The sending side *)

(* The operator ^ of two bytes: the bits that exactly one of them has. *)
Xor(a, b) ==
    LET bit(place) == place * ((a \div place + b \div place) % 2)
    IN  bit(1) + bit(2) + bit(4) + bit(8) + bit(16) + bit(32) + bit(64)
          + bit(128)

(* The i-th byte with byte i % 4 of the mask, counted from 0. *)
Masked(bytes, mask) ==
    [i \in DOMAIN bytes |-> Xor(bytes[i], mask[1 + ((i - 1) % 4)])]

(* Connection::send; the client makes a mask and applies it. *)
Send(op, len, bytes, mask) ==
    /\ count < MaxSent
    /\ count' = count + 1
    /\ wire' = Append(wire,
          IF toServer
          THEN [header |-> Header(op, len, TRUE) \o mask, length |-> len,
                bytes |-> Masked(bytes, mask)]
          ELSE [header |-> Header(op, len, FALSE), length |-> len,
                bytes |-> bytes])
    /\ fits' = (fits /\ unfinished.length + len < SizeMod)
    /\ UNCHANGED <<toServer, pc, length, fragmented_in_message, got>>

Closed == \E i \in DOMAIN due : OpCode(due[i].op) = 8

SendWhole(len, mask) ==
    LET bytes == Content(count, len) IN
    /\ ~Closed /\ unfinished = NoMessage
    /\ Send(129, len, bytes, mask)
    /\ due' = Append(due, InMessage(129, len, bytes))
    /\ UNCHANGED unfinished

(* The application splits a message: the first fragment, others, the last. *)
SendFirst(len, mask) ==
    LET bytes == Content(count, len) IN
    /\ ~Closed /\ unfinished = NoMessage
    /\ Send(1, len, bytes, mask)
    /\ unfinished' = InMessage(129, len, bytes)
    /\ UNCHANGED due

SendMore(len, mask) ==
    LET bytes == Content(count, len) IN
    /\ ~Closed /\ unfinished # NoMessage
    /\ Send(0, len, bytes, mask)
    /\ unfinished' = Extend(unfinished, len, bytes)
    /\ UNCHANGED due

SendLast(len, mask) ==
    LET bytes == Content(count, len) IN
    /\ ~Closed /\ unfinished # NoMessage
    /\ Send(128, len, bytes, mask)
    /\ unfinished' = NoMessage
    /\ due' = Append(due, Extend(unfinished, len, bytes))

SendPing(len, mask) ==
    LET bytes == Content(count, len) IN
    /\ ~Closed
    /\ Send(137, len, bytes, mask)
    /\ due' = Append(due, InMessage(138, len, bytes))
    /\ UNCHANGED unfinished

StatusBytes(status) == <<status \div 256, status % 256>>

(* send_close with a reason of len bytes *)
SendClose(status, len, mask) ==
    LET reason == Content(count, len) IN
    /\ ~Closed
    /\ Send(136, len + 2, StatusBytes(status) \o reason, mask)
    /\ due' = Append(due, Closing(status, reason))
    /\ UNCHANGED unfinished

-----------------------------------------------------------------------------
(* The reading side: the handlers of the reads of two bytes, of the length  *)
(* and of the content.  Each takes as many bytes as it has asked for.       *)

Frame == Head(wire)
First == Frame.header[1]
Second == Frame.header[2]

TakeHead ==
    /\ pc = "head" /\ wire # <<>>
    /\ length' = Code(Second)
    /\ pc' = IF HasMask(Second) # toServer THEN "refused"
             ELSE IF Following(Second) > 0 THEN "length" ELSE "content"
    /\ UNCHANGED <<toServer, wire, count, unfinished, fragmented_in_message,
                   due, got, fits>>

TakeLength ==
    /\ pc = "length"
    /\ length' = LengthRead(Second,
                    SubSeq(Frame.header, 3, 2 + Following(Second)))
    /\ pc' = "content"
    /\ UNCHANGED <<toServer, wire, count, unfinished, fragmented_in_message,
                   due, got, fits>>

(* Mutant: the fragments that came before are not counted. *)
TooBigAlone == length > MaxMessageSize

(* The test is made before it is known what kind of frame this is. *)
WouldBeTooBig == Sum(length, fragmented_in_message.length) > MaxMessageSize

TakeTooBig ==
    /\ pc = "content" /\ WouldBeTooBig
    /\ pc' = "refused"
    /\ UNCHANGED <<toServer, wire, count, unfinished, length,
                   fragmented_in_message, due, got, fits>>

MaskBytes == IF toServer THEN 4 ELSE 0

(* The reads asked for end where the frame ends.  Otherwise the next bytes  *)
(* taken for a header would be something else: the model stops there.       *)
InStep == /\ length = Frame.length
          /\ Sum(MaskBytes, length) = MaskBytes + length
          /\ Len(Frame.header) = 2 + Following(Second) + MaskBytes

(* Mutant: the position in the mask is counted from 1. *)
UnmaskedFrom1 ==
    IF toServer
    THEN LET mask == SubSeq(Frame.header, Len(Frame.header) - 3,
                            Len(Frame.header))
         IN  [i \in DOMAIN Frame.bytes |->
                 Xor(Frame.bytes[i], mask[1 + (i % 4)])]
    ELSE Frame.bytes

Unmasked ==
    IF toServer
    THEN Masked(Frame.bytes,
             SubSeq(Frame.header, Len(Frame.header) - 3, Len(Frame.header)))
    ELSE Frame.bytes

TakeContent(tell, next, fragments) ==
    /\ pc = "content" /\ ~WouldBeTooBig /\ InStep
    /\ got' = got \o tell
    /\ wire' = Tail(wire)
    /\ pc' = next
    /\ fragmented_in_message' = fragments
    /\ UNCHANGED <<toServer, count, unfinished, length, due, fits>>

Status(bytes) == 256 * bytes[1] + bytes[2]

TakeClose ==
    /\ OpCode(First) = 8
    /\ LET status == IF length >= 2 THEN Status(Unmasked) ELSE 0
           reason == SubSeq(Unmasked, 3, Len(Unmasked))
       IN  TakeContent(<<Closing(status, reason)>>, "closed",
                         fragmented_in_message)

(* The pong that answers a ping. *)
TakePing ==
    /\ OpCode(First) = 9
    /\ TakeContent(<<InMessage(First + 1, length, Unmasked)>>, "head",
                     fragmented_in_message)

Data == OpCode(First) \notin {8, 9, 10}

(* The message after this piece. *)
Joined ==
    IF fragmented_in_message = NoMessage
    THEN InMessage(SetFin(First), length, Unmasked)
    ELSE Join(fragmented_in_message, length, Unmasked)

TakeFragment ==
    /\ Data /\ ~Fin(First)
    /\ TakeContent(<<>>, "head", Joined)

(* The server recognises the last fragment by its opcode, the client by     *)
(* what it has.                                                             *)
TakeMessage ==
    /\ Data /\ Fin(First)
    /\ LET isFragment == IF toServer THEN OpCode(First) = 0
                         ELSE fragmented_in_message # NoMessage IN
         TakeContent(<<IF isFragment THEN Joined
                         ELSE InMessage(First, length, Unmasked)>>,
                       "head", NoMessage)

-----------------------------------------------------------------------------
SendSomething ==
    \E mask \in Masks :
        \/ \E len \in Lengths : \/ SendWhole(len, mask) \/ SendFirst(len, mask)
                                \/ SendMore(len, mask) \/ SendLast(len, mask)
        \/ \E len \in PingLengths : SendPing(len, mask)
        \/ \E status \in Statuses, len \in PingLengths :
              SendClose(status, len, mask)

Read == \/ TakeHead \/ TakeLength \/ TakeTooBig
        \/ wire # <<>> /\ (TakeClose \/ TakePing \/ TakeFragment
                             \/ TakeMessage)

FramingNext == SendSomething \/ Read

FramingSpec == FramingInit /\ [][FramingNext]_framing

-----------------------------------------------------------------------------
(* Properties *)

(* Messages, pings and the close arrive in the order in which they were     *)
(* sent, each as it was sent: opcode, length, bytes, status; a message in   *)
(* fragments as one.  This is so as long as no message is longer than a     *)
(* size_t can say.                                                          *)
FramesArrive == fits => IsPrefix(got, due)

(* Nothing longer than max_message_size is kept or handed over, and only    *)
(* what would become longer is refused, as long as the sum that is compared *)
(* with the maximum does not wrap.                                          *)
NothingTooLong == fits =>
    /\ fragmented_in_message.length <= MaxMessageSize
    /\ \A i \in DOMAIN got :
          OpCode(got[i].op) # 8 => got[i].length <= MaxMessageSize
    /\ pc = "refused" =>
          Frame.length + fragmented_in_message.length > MaxMessageSize

(* "Maximum size of incoming messages": a message is only refused when it   *)
(* is longer than that.                                                     *)
(* FALSE of the code: a control frame between fragments is added to them.   *)
RefusedIsTooBig ==
    pc = "refused" =>
        Frame.length + (IF Data THEN fragmented_in_message.length ELSE 0)
            > MaxMessageSize

(* "Exceeding this limit will result in a message_size error code": no      *)
(* message that is longer is handed over.                                   *)
(* FALSE of the code when the length of the message is more than a size_t:  *)
(* what is compared with the limit has wrapped.                             *)
LimitKept ==
    \A i \in DOMAIN got :
        OpCode(got[i].op) # 8 => due[i].length <= MaxMessageSize

(* What was sent is read, unless the connection has come to its end.        *)
FramesCome == []<>(wire = <<>> \/ pc \in {"closed", "refused"})
=============================================================================
