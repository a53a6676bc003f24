------------------------------ MODULE Parsers ------------------------------
(* The string functions of the web socket library                           *)
(* (src/lib/simple_webSocket_server/utility.hpp: Percent, QueryString,      *)
(* HttpHeader, RequestMessage, ResponseMessage), the address, the request   *)
(* and the answer of a handshake (client_ws.hpp, server_ws.hpp) and         *)
(* jahan::explode (src/lib/jahan/helper.hpp).                               *)
(* A string is a sequence of bytes.  Positions count from 1, and 0 is npos. *)
EXTENDS Integers, SequencesExt

CR == 13
LF == 10
Space == 32
Quote == 34
Percent == 37
Ampersand == 38
Plus == 43
Minus == 45
Slash == 47
Colon == 58
Semicolon == 59
Equals == 61
Question == 63
Open == 91
Close == 93

Digit(c) == c \in 48..57
Letter(c) == c \in 65..90 \cup 97..122
White(c) == c \in 9..13 \cup {Space}

(* string.find from a position on *)
Find(s, c, from) == SelectInSubSeq(s, from, Len(s), LAMBDA x : x = c)

From(s, i) == SubSeq(s, i, Len(s))

Field(name, value) == [name |-> name, value |-> value]

-----------------------------------------------------------------------------
(* Percent *)

HexDigit(n) == IF n < 10 THEN 48 + n ELSE 55 + n

Unreserved(c) == Digit(c) \/ Letter(c) \/ c \in {45, 46, 95, 126}

EncodeByte(c) == IF Unreserved(c) THEN <<c>>
                 ELSE <<Percent, HexDigit(c \div 16), HexDigit(c % 16)>>

(* The result after each byte. *)
EncodeResult(value) ==
    LET result[i \in 0..Len(value)] ==
            IF i = 0 THEN <<>> ELSE result[i - 1] \o EncodeByte(value[i])
    IN  result

Encode(value) == EncodeResult(value)[Len(value)]

IsHex(c) == c \in 48..57 \cup 65..70 \cup 97..102
HexValue(c) == IF Digit(c) THEN c - 48 ELSE (c - 55) % 32

(* strtol of two characters with base 16, cast to char: white space or a    *)
(* sign may come first, and what follows the digits is passed over.         *)
Strtol2(a, b) ==
    IF IsHex(a) THEN IF IsHex(b) THEN 16 * HexValue(a) + HexValue(b)
                     ELSE HexValue(a)
    ELSE IF ~IsHex(b) THEN 0
    ELSE IF White(a) \/ a = Plus THEN HexValue(b)
    ELSE IF a = Minus THEN (256 - HexValue(b)) % 256
    ELSE 0

(* Mutant: the last two characters are not taken for a code. *)
DecodeRestNotLast(value) ==
    LET n == Len(value)
        rest[i \in 1..n + 3] ==
            IF i > n THEN <<>>
            ELSE IF value[i] = Percent /\ i + 2 < n
            THEN <<Strtol2(value[i + 1], value[i + 2])>> \o rest[i + 3]
            ELSE <<IF value[i] = Plus THEN Space ELSE value[i]>> \o rest[i + 1]
    IN  rest

(* What the loop adds to the result from each position on. *)
DecodeRest(value) ==
    LET n == Len(value)
        rest[i \in 1..n + 3] ==
            IF i > n THEN <<>>
            ELSE IF value[i] = Percent /\ i + 2 <= n
            THEN <<Strtol2(value[i + 1], value[i + 2])>> \o rest[i + 3]
            ELSE <<IF value[i] = Plus THEN Space ELSE value[i]>> \o rest[i + 1]
    IN  rest

Decode(value) == DecodeRest(value)[1]

-----------------------------------------------------------------------------
(* QueryString.  A multimap is the sequence of its emplacements. *)

QueryCreate(fields) ==
    LET result[i \in 0..Len(fields)] ==
            IF i = 0 THEN <<>>
            ELSE result[i - 1] \o (IF i = 1 THEN <<>> ELSE <<Ampersand>>)
                   \o fields[i].name \o <<Equals>> \o Encode(fields[i].value)
    IN  result[Len(fields)]

(* Entered when a field ends before position c, which may be the end. *)
QueryField(s, st, c) ==
    LET name == SubSeq(s, st.name, (IF st.end = 0 THEN c ELSE st.end) - 1)
        value == IF st.end = 0 THEN <<>> ELSE SubSeq(s, st.end + 1, c - 1)
    IN  IF name = <<>> THEN <<>> ELSE <<Field(name, Decode(value))>>

(* Mutant: every '=' ends the name. *)
QueryStepLast(s, st, c) ==
    IF s[c] = Ampersand
    THEN [name |-> c + 1, end |-> 0, out |-> st.out \o QueryField(s, st, c)]
    ELSE IF s[c] = Equals THEN [st EXCEPT !.end = c]
    ELSE st

(* name: where the name starts; end: where it ends, once known *)
QueryStep(s, st, c) ==
    IF s[c] = Ampersand
    THEN [name |-> c + 1, end |-> 0, out |-> st.out \o QueryField(s, st, c)]
    ELSE IF s[c] = Equals /\ st.end = 0 THEN [st EXCEPT !.end = c]
    ELSE st

QueryStates(s) ==
    LET st[c \in 0..Len(s)] ==
            IF c = 0 THEN [name |-> 1, end |-> 0, out |-> <<>>]
            ELSE QueryStep(s, st[c - 1], c)
    IN  st

QueryParse(s) ==
    LET st == QueryStates(s)[Len(s)]
    IN  st.out \o (IF st.name <= Len(s) THEN QueryField(s, st, Len(s) + 1)
                   ELSE <<>>)

-----------------------------------------------------------------------------
(* HttpHeader::parse from position p of a stream on: the fields, and where  *)
(* the stream stands afterwards.                                            *)

LineEnd(s, p) == LET e == Find(s, LF, p) IN IF e = 0 THEN Len(s) + 1 ELSE e
Line(s, p) == SubSeq(s, p, LineEnd(s, p) - 1)

(* The value is what follows the colon and the spaces, the last character   *)
(* of the line excepted, which is never passed over.                        *)
HeaderField(line, colon) ==
    LET start == SelectInSubSeq([line EXCEPT ![Len(line)] = 0], colon + 1,
                                Len(line), LAMBDA x : x # Space)
        end == IF Last(line) = CR THEN Len(line) - 1 ELSE Len(line)
    IN  IF start = 0 THEN <<>>
        ELSE <<Field(SubSeq(line, 1, colon - 1), SubSeq(line, start, end))>>

HeaderParse(s, p) ==
    LET from[i \in p..Len(s) + 2] ==
            LET line == Line(s, i)
                colon == Find(line, Colon, 1)
                next == from[LineEnd(s, i) + 1]
            IN  IF i > Len(s) THEN [fields |-> <<>>, rest |-> Len(s) + 1]
                ELSE IF colon = 0
                THEN [fields |-> <<>>, rest |-> LineEnd(s, i) + 1]
                ELSE [fields |-> HeaderField(line, colon) \o next.fields,
                      rest |-> next.rest]
    IN  from[p]

(* SemicolonSeparatedAttributes::parse.  name, end, value: where the name   *)
(* starts and ends and where the value starts, 0 while that is not known.   *)

Attribute(s, st, c) == Field(SubSeq(s, st.name, st.end - 1),
                             Decode(SubSeq(s, st.value, c - 1)))

Between(out) == [name |-> 0, end |-> 0, value |-> 0, out |-> out]

AttributeStep(s, st, c) ==
    IF st.name = 0
    THEN IF s[c] \in {Space, Semicolon} THEN st ELSE [st EXCEPT !.name = c]
    ELSE IF st.end = 0
    THEN IF s[c] = Semicolon
         THEN [st EXCEPT !.name = 0,
                  !.out = Append(@, Field(SubSeq(s, st.name, c - 1), <<>>))]
         ELSE IF s[c] = Equals THEN [st EXCEPT !.end = c] ELSE st
    ELSE IF st.value = 0
    THEN [st EXCEPT !.value = IF s[c] = Quote /\ c < Len(s) THEN c + 1 ELSE c]
    ELSE IF s[c] \in {Quote, Semicolon}
    THEN Between(Append(st.out, Attribute(s, st, c)))
    ELSE st

AttributeStates(s) ==
    LET st[c \in 0..Len(s)] ==
            IF c = 0 THEN Between(<<>>) ELSE AttributeStep(s, st[c - 1], c)
    IN  st

AttributesParse(s) ==
    LET st == AttributeStates(s)[Len(s)]
    IN  st.out \o
        IF st.name = 0 THEN <<>>
        ELSE IF st.end = 0 THEN <<Field(From(s, st.name), <<>>)>>
        ELSE IF st.value = 0 THEN <<>>
        ELSE <<Attribute(s, st, Len(s) + 1)>>

-----------------------------------------------------------------------------
(* The address given to a client: host, port and path.                      *)

(* stoul, cast to unsigned short; 0 digits make it throw. *)
Number(digits) == FoldLeft(LAMBDA n, c : (10 * n + (c - 48)) % 65536, 0, digits)
DigitsOf(s) ==
    SubSeq(s, 1, (SelectInSeq(Append(s, 0), LAMBDA c : ~Digit(c))) - 1)

(* The digits of ULONG_MAX, 2^64 - 1; stoul throws when there is more. *)
UlongMax == <<49, 56, 52, 52, 54, 55, 52, 52, 48, 55, 51, 55, 48, 57, 53, 53,
              49, 54, 49, 53>>
OutOfRange(digits) ==
    LET n == From(digits, SelectInSeq(Append(digits, 0), LAMBDA c : c # 48))
    IN  \/ Len(n) > Len(UlongMax)
        \/ /\ Len(n) = Len(UlongMax)
           /\ \E i \in DOMAIN n :
                 /\ n[i] > UlongMax[i]
                 /\ \A j \in 1..(i - 1) : n[j] = UlongMax[j]

PortOf(s, default_port) ==
    LET unspaced == From(s, SelectInSeq(Append(s, 0), LAMBDA c : ~White(c)))
        signed == unspaced # <<>> /\ Head(unspaced) \in {Plus, Minus}
        digits == DigitsOf(IF signed THEN Tail(unspaced) ELSE unspaced)
    IN  IF digits = <<>> \/ OutOfRange(digits) THEN default_port
        ELSE IF signed /\ Head(unspaced) = Minus
        THEN (65536 - Number(digits)) % 65536
        ELSE Number(digits)

(* Mutant: a colon ends the host wherever it is. *)
HostPortStepAnyColon(st, c) ==
    CASE c \in {Open, Close} -> st
      [] c = Colon -> [st EXCEPT !.parse_port = TRUE]
      [] OTHER -> IF st.parse_port THEN [st EXCEPT !.port = Append(@, c)]
                  ELSE [st EXCEPT !.host = Append(@, c)]

HostPortStep(st, c) ==
    CASE c = Open -> [st EXCEPT !.square_count = @ + 1]
      [] c = Close -> [st EXCEPT !.square_count = @ - 1]
      [] c = Colon /\ st.square_count = 0 -> [st EXCEPT !.parse_port = TRUE]
      [] OTHER -> IF st.parse_port THEN [st EXCEPT !.port = Append(@, c)]
                  ELSE [st EXCEPT !.host = Append(@, c)]

Address(host_port_path, default_port) ==
    LET slash == Find(host_port_path, Slash, 1)
        host_port == IF slash = 0 THEN host_port_path
                     ELSE SubSeq(host_port_path, 1, slash - 1)
        st == FoldLeft(HostPortStep,
                  [host |-> <<>>, port |-> <<>>, parse_port |-> FALSE,
                   square_count |-> 0], host_port)
    IN  [host |-> st.host, port |-> PortOf(st.port, default_port),
         path |-> IF slash = 0 THEN <<Slash>> ELSE From(host_port_path, slash)]
-----------------------------------------------------------------------------
(* The messages of a handshake.  Names and values that are always the same  *)
(* are reduced to a letter, and so are SHA-1 and Base64.                    *)

GET == <<71, 69, 84>>
HTTP == <<72, 84, 84, 80>>
Version == <<49, 46, 49>>
Status101 == <<49, 48, 49, Space>>
Status426 == <<52, 50, 54, Space>>
Host == <<72, 111, 115, 116>>
Upgrade == Field(<<85>>, <<119>>)
Connection == Field(<<67>>, <<85>>)
SecWebSocketKey == <<75>>
SecWebSocketVersion == Field(<<86>>, <<49, 51>>)
SecWebSocketAccept == <<65>>
AcceptOf(key) == Append(key, 35)

CRLF == <<CR, LF>>
HeaderLine(field) == field.name \o <<Colon, Space>> \o field.value \o CRLF
HeaderLines(fields) ==
    FlattenSeq([i \in DOMAIN fields |-> HeaderLine(fields[i])])

Decimal(n) ==
    LET digits[k \in Nat] == IF k < 10 THEN <<48 + k>>
                             ELSE digits[k \div 10] \o <<48 + (k % 10)>>
    IN  digits[n]

(* What the client writes; config.header is given. *)
Request(address, default_port, key, header) ==
    GET \o <<Space>> \o address.path \o <<Space>> \o HTTP \o <<Slash>>
        \o Version \o CRLF
        \o HeaderLines(
             <<Field(Host, address.host \o
                    (IF address.port = default_port THEN <<>>
                     ELSE <<Colon>> \o Decimal(address.port))),
               Upgrade, Connection, Field(SecWebSocketKey, key),
               SecWebSocketVersion>> \o header)
        \o CRLF

(* RequestMessage::parse *)
RequestParse(s) ==
    LET line == Line(s, 1)
        method_end == Find(line, Space, 1)
        end == Find(line, Space, method_end + 1)
        query == SelectInSubSeq(line, method_end + 1, end - 1,
                                LAMBDA c : c = Question)
        slash == Find(line, Slash, end + 1)
        header == HeaderParse(s, LineEnd(s, 1) + 1)
    IN  IF method_end = 0 \/ end = 0 \/ slash = 0
           \/ SubSeq(line, end + 1, slash - 1) # HTTP
        THEN [ok |-> FALSE]
        ELSE [ok |-> TRUE,
              method |-> SubSeq(line, 1, method_end - 1),
              path |-> SubSeq(line, method_end + 1,
                              (IF query = 0 THEN end ELSE query) - 1),
              query_string |-> IF query = 0 THEN <<>>
                               ELSE SubSeq(line, query + 1, end - 1),
              version |-> SubSeq(line, slash + 1, Len(line) - 1),
              header |-> header.fields,
              rest |-> header.rest]

(* CaseInsensitiveMultimap::find *)
Lower(s) == [i \in DOMAIN s |-> IF s[i] \in 65..90 THEN s[i] + 32 ELSE s[i]]
Lookup(fields, name) ==
    SelectSeq(fields, LAMBDA f : Lower(f.name) = Lower(name))

(* What the server answers to a request whose path it has an endpoint for;  *)
(* config.header is given.                                                  *)
Answer(request, header) ==
    LET keys == Lookup(request.header, SecWebSocketKey)
        status_line == HTTP \o <<Slash>> \o Version \o <<Space>>
    IN  IF keys = <<>> THEN status_line \o Status426 \o CRLF \o CRLF
        ELSE status_line \o Status101 \o CRLF
             \o HeaderLines(header \o
                  <<Upgrade, Connection,
                    Field(SecWebSocketAccept, AcceptOf(keys[1].value))>>)
             \o CRLF

(* ResponseMessage::parse *)
ResponseParse(s) ==
    LET line == Line(s, 1)
        version_end == Find(line, Space, 1)
        end == IF Last(line) = CR THEN Len(line) - 1 ELSE Len(line)
        header == HeaderParse(s, LineEnd(s, 1) + 1)
    IN  IF version_end = 0 \/ Len(line) <= 5 \/ version_end >= Len(line)
        THEN [ok |-> FALSE]
        ELSE [ok |-> TRUE,
              version |-> SubSeq(line, 6, IF version_end >= 6
                                          THEN version_end - 1 ELSE Len(line)),
              status_code |-> SubSeq(line, version_end + 1, end),
              header |-> header.fields,
              rest |-> header.rest]

(* Does the client take the answer to its key for a handshake? *)
Accepted(response, key) ==
    /\ response.ok
    /\ IsPrefix(Status101, response.status_code)
    /\ LET accepts == Lookup(response.header, SecWebSocketAccept)
       IN accepts # <<>> /\ accepts[1].value = AcceptOf(key)

-----------------------------------------------------------------------------
(* jahan::explode, blank parts ignored (the default). *)

Explode(separator, str) ==
    LET n == Len(str)
        k == Len(separator)
        hits == {i \in 1..(n - k + 1) : SubSeq(str, i, i + k - 1) = separator}
        from[pos \in 1..n + k + 1] ==
            LET found == {i \in hits : i >= pos}
                end == IF found = {} THEN n + 1 ELSE Min(found)
                part == SubSeq(str, pos, end - 1)
            IN  (IF part = <<>> THEN <<>> ELSE <<part>>)
                  \o IF found = {} THEN <<>> ELSE from[end + k]
    IN  from[1]
=============================================================================
