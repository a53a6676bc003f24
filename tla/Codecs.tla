------------------------------- MODULE Codecs -------------------------------
(* What goes over the wire as bytes and what the program makes of it: the   *)
(* frames of a connection (Framing) and the texts that are taken apart      *)
(* (Parsers).  A behaviour is about one kind of input.  A text comes piece  *)
(* by piece, and the properties compare what the parsers make of it, as far *)
(* as it has come, with definitions that do not know how they work.         *)
EXTENDS Framing, Parsers

CONSTANTS
    Kinds,     \* the kinds of input to consider
    Pieces,    \* for each kind of text, the pieces it is made of
    MaxPieces  \* bound: for each kind of text, of how many

TextKinds == {"query", "value", "address"}

ASSUME KindsAssumption ==
    /\ Kinds \subseteq TextKinds \cup {"frames"}
    /\ DOMAIN Pieces = TextKinds
    /\ MaxPieces \in [TextKinds -> Nat]

ASSUME PiecesAssumption ==
    \A k \in TextKinds : \A piece \in Pieces[k] : piece \in Seq(0..255)

VARIABLES
    kind,   \* what this behaviour is about
    pieces, \* how many pieces have come
    text    \* the text so far

vars == <<framing, kind, pieces, text>>

TypeOK == /\ FramingTypeOK
          /\ kind \in Kinds /\ pieces \in Nat /\ text \in Seq(0..255)

Init == /\ FramingInit
        /\ kind \in Kinds
        /\ kind \in TextKinds => ~toServer  \* of no importance to a text
        /\ pieces = 0
        /\ text = <<>>

Come == /\ kind \in TextKinds
        /\ pieces < MaxPieces[kind]
        /\ \E piece \in Pieces[kind] : text' = text \o piece
        /\ pieces' = pieces + 1
        /\ UNCHANGED <<framing, kind>>

Next == \/ Come
        \/ kind = "frames" /\ FramingNext
             /\ UNCHANGED <<kind, pieces, text>>

Spec == Init /\ [][Next]_vars

(* Reads complete when there is something to read. *)
FairSpec == Spec /\ WF_vars(kind = "frames" /\ Read
                              /\ UNCHANGED <<kind, pieces, text>>)

-----------------------------------------------------------------------------
(* Properties *)

(* The parts of a text between the occurrences of c, empty ones included:   *)
(* the i-th is what stands between the cuts i and i + 1.                    *)
Parts(s, c) ==
    LET cuts == {i \in DOMAIN s : s[i] = c} \cup {0, Len(s) + 1}
        cut(i) == CHOOSE p \in cuts :
                     Cardinality({q \in cuts : q <= p}) = i
    IN  [i \in 1..Cardinality(cuts) - 1 |->
            SubSeq(s, cut(i) + 1, cut(i + 1) - 1)]

(* A part of a query string, cut at its first '='. *)
Cut(part) ==
    LET i == SelectInSeq(Append(part, Equals), LAMBDA c : c = Equals)
    IN  Field(SubSeq(part, 1, i - 1), Decode(SubSeq(part, i + 1, Len(part))))

(* QueryString::parse finds the fields that '&' and the first '=' of each   *)
(* part separate, in whatever way they come together; explode finds the     *)
(* parts that are not empty.                                                *)
QueryMatches ==
    kind = "query" =>
        /\ QueryParse(text) =
             SelectSeq([i \in DOMAIN Parts(text, Ampersand) |->
                           Cut(Parts(text, Ampersand)[i])],
                       LAMBDA f : f.name # <<>>)
        /\ Explode(<<Ampersand>>, text) =
             SelectSeq(Parts(text, Ampersand), LAMBDA part : part # <<>>)

N == <<110>>
M == <<109>>
Fields == <<Field(N, text), Field(M, Reverse(text))>>

(* n=value; m="value"; n, as in Set-Cookie or Content-Disposition *)
AttributesOf(v, w) ==
    N \o <<Equals>> \o Encode(v) \o <<Semicolon, Space>>
      \o M \o <<Equals, Quote>> \o Encode(w) \o <<Quote, Semicolon, Space>> \o N

(* Whatever bytes a value has: percent-encoded it comes back unchanged from *)
(* a query string that was created with it, and from the attributes of a    *)
(* header field, quoted or not, unless it is empty.                         *)
ValuesComeBack ==
    kind = "value" =>
        /\ QueryParse(QueryCreate(Fields)) = Fields
        /\ text # <<>> => AttributesParse(AttributesOf(text, Reverse(text)))
                            = Fields \o <<Field(N, <<>>)>>

(* An attribute whose value is empty is one, too.                           *)
(* FALSE of the code: the next separator is taken into the value.           *)
EmptyValueComesBack ==
    kind = "value" => AttributesParse(AttributesOf(text, text))
                        = <<Field(N, text), Field(M, text), Field(N, <<>>)>>

(* An address as the constructor of the client expects it: a name or an     *)
(* address in square brackets, a port, a path.                              *)
Authority(s) == LET i == SelectInSeq(Append(s, Slash), LAMBDA c : c = Slash)
                IN  SubSeq(s, 1, i - 1)
PathOf(s) == SubSeq(s, Len(Authority(s)) + 1, Len(s))

HostChar(c) == Digit(c) \/ Letter(c)
Bracketed(s) == s # <<>> /\ Head(s) = Open
HostEnd(a) == IF Bracketed(a) THEN SelectInSeq(a, LAMBDA c : c = Close)
              ELSE SelectInSeq(Append(a, Colon), LAMBDA c : c = Colon) - 1
HostOf(a) == IF Bracketed(a) THEN SubSeq(a, 2, HostEnd(a) - 1)
             ELSE SubSeq(a, 1, HostEnd(a))
PortText(a) == SubSeq(a, HostEnd(a) + 1, Len(a))

WellFormed(s) ==
    LET a == Authority(s) IN
    /\ HostEnd(a) > 0
    /\ \A i \in DOMAIN HostOf(a) :
          HostChar(HostOf(a)[i]) \/ (Bracketed(a) /\ HostOf(a)[i] = Colon)
    /\ PortText(a) # <<>> =>
          /\ Len(PortText(a)) > 1 /\ Head(PortText(a)) = Colon
          /\ \A i \in 2..Len(PortText(a)) : Digit(PortText(a)[i])
          /\ FoldLeft(LAMBDA n, c : 10 * n + (c - 48), 0, Tail(PortText(a)))
                <= 65535

(* What a port is written as: without zeros at the front. *)
PortShown(a) == LET i == SelectInSeq(PortText(a), LAMBDA c : c \in 49..57)
                IN  IF i = 0 THEN <<48>> ELSE From(PortText(a), i)

DefaultPort == 80
Key == <<107, 61>>
ConfigHeader == <<Field(<<88>>, <<>>), Field(<<89>>, <<89>>)>>
Frames == <<129, 1, 88>>

(* The request that a client with a well-formed address writes is taken     *)
(* apart by the server into that path and query string and a header with    *)
(* host and key; the client accepts the answer; and neither of them takes a *)
(* byte of the frames that may follow.                                      *)
HandshakeArrives ==
    (kind = "address" /\ WellFormed(text)) =>
        LET a == Authority(text)
            path == IF PathOf(text) = <<>> THEN <<Slash>> ELSE PathOf(text)
            mark == SelectInSeq(Append(path, Question),
                                LAMBDA c : c = Question)
            request == Request(Address(text, DefaultPort), DefaultPort, Key,
                               ConfigHeader)
            read == RequestParse(request \o Frames)
            answer == Answer(read, ConfigHeader)
            response == ResponseParse(answer \o Frames)
        IN  /\ read.ok
            /\ read.method = GET /\ read.version = Version
            /\ read.path = SubSeq(path, 1, mark - 1)
            /\ read.query_string = From(path, mark + 1)
            /\ Lookup(read.header, Host) =
                 <<Field(Host, HostOf(a) \o
                      (IF PortText(a) = <<>> \/ PortShown(a) = <<56, 48>>
                       THEN <<>> ELSE <<Colon>> \o PortShown(a)))>>
            /\ Lookup(read.header, SecWebSocketKey)
                 = <<Field(SecWebSocketKey, Key)>>
            /\ From(request \o Frames, read.rest) = Frames
            /\ Accepted(response, Key)
            /\ From(answer \o Frames, response.rest) = Frames
            /\ IsPrefix(ConfigHeader, response.header)
=============================================================================
