---------------------------- MODULE WsServerProofs ----------------------------
(* What the server promises its endpoints, for any number of connections,   *)
(* frames and starts: callbacks in the order of the protocol, a list of     *)
(* connections that is right, messages complete and in order.  The          *)
(* invariant says for every stage of a connection what the endpoint has     *)
(* been told by then, and how what the peer has sent is spread over what    *)
(* was delivered, what is in fragmented_in_message and the frame that is    *)
(* being read.                                                              *)
EXTENDS WsServer, SequenceTheorems, TLAPS

Events == {"open", "message", "ping", "pong", "error", "close"}
Before == {"new", "accepted"} \cup Handshake

Types ==
    /\ stage \in [Conns -> Stages]
    /\ result \in [Conns -> {"none", "ok", "error"}]
    /\ frame \in [Conns -> Forms \cup {NoFrame}]
    /\ calls \in [Conns -> Seq(Events)]
    /\ sent \in [Conns -> Nat]
    /\ fragmented \in [Conns -> Seq(Nat)]
    /\ partial \in [Conns -> Seq(Nat)]
    /\ delivered \in [Conns -> Seq(Seq(Nat))]
    /\ messages \in [Conns -> Seq(Seq(Nat))]
    /\ swept \subseteq Conns

(* Only what was opened has ever been on the list. *)
SweptOpened == \A c \in swept : stage[c] \in Reading \cup {"done"}

(* What an endpoint has been told while its connection is open. *)
IsOpen(s) ==
    /\ Len(s) > 0 /\ s[1] = "open"
    /\ \A i \in 2..Len(s) : s[i] \in {"message", "ping", "pong"}

(* CallbackProtocol of one connection. *)
Legal(s) ==
    \/ s \in {<<>>, <<"error">>}
    \/ /\ s[1] = "open"
       /\ \A i \in 2..Len(s) :
             \/ s[i] \in {"message", "ping", "pong"} /\ s[i-1] # "error"
                  /\ s[i-1] # "close"
             \/ s[i] \in {"close", "error"} /\ i = Len(s)
             \/ s[i] = "error" /\ i = Len(s) - 1 /\ s[i+1] = "close"

CallsFit(c) ==
    /\ stage[c] \in Before => calls[c] = <<>>
    /\ stage[c] \in Reading => IsOpen(calls[c])
    /\ stage[c] = "done" => Legal(calls[c])

(* No frame is being read, or one is. *)
NoneRead(c) == \/ stage[c] \in Before \cup {"post"}
               \/ stage[c] = "head" /\ result[c] # "ok"
OneRead(c) == \/ stage[c] \in {"length", "content"}
              \/ stage[c] = "head" /\ result[c] = "ok"

(* The frame being read is the last the peer has sent. *)
LastSent(c) ==
    LET kind == frame[c].kind IN
    /\ frame[c] \in Forms
    /\ sent[c] > 0
    /\ kind = "whole" =>
          partial[c] = <<>> /\ messages[c] = Append(delivered[c], <<Piece(c)>>)
    /\ kind = "last" =>
          /\ partial[c] = <<>>
          /\ messages[c] =
                Append(delivered[c], Append(fragmented[c], Piece(c)))
    /\ kind \in {"first", "middle"} =>
          /\ partial[c] = Append(fragmented[c], Piece(c))
          /\ messages[c] = delivered[c]
    /\ kind \notin DataFrames =>
          partial[c] = fragmented[c] /\ messages[c] = delivered[c]

DataFit(c) ==
    /\ stage[c] = "post" => result[c] = "none"
    /\ NoneRead(c) =>
          partial[c] = fragmented[c] /\ messages[c] = delivered[c]
    /\ OneRead(c) => LastSent(c)
    /\ stage[c] = "done" => IsPrefix(delivered[c], messages[c])

Inv ==
    /\ Types
    /\ ListedWhileOpen
    /\ SweptOpened
    /\ \A c \in Conns : CallsFit(c)
    /\ \A c \in Conns : DataFit(c)

-----------------------------------------------------------------------------
(* Facts about the two kinds of sequences. *)

LEMMA PrefixOfSelf ==
  ASSUME NEW S, NEW s \in Seq(S)
  PROVE  IsPrefix(s, s)
BY DEF IsPrefix

LEMMA PrefixOfAppend ==
  ASSUME NEW S, NEW s \in Seq(S), NEW x \in S
  PROVE  IsPrefix(s, Append(s, x))
<1> DEFINE n == Len(s)
           t == Append(s, x)
<1>1. /\ n \in Nat /\ t \in Seq(S) /\ Len(t) = n + 1
      /\ \A i \in 1..n : t[i] = s[i]
  BY AppendProperties
<1>2. SubSeq(s, 1, n) = [i \in 1..n |-> s[i]]
  BY <1>1
<1>3. SubSeq(t, 1, n) = [i \in 1..n |-> t[i]]
  BY <1>1
<1> HIDE DEF n, t
<1>4. SubSeq(s, 1, n) = SubSeq(t, 1, n)
  BY <1>1, <1>2, <1>3
<1> QED
  BY <1>1, <1>4 DEF IsPrefix, n, t

LEMMA OpenGrows ==
  ASSUME NEW s \in Seq(Events), IsOpen(s), NEW e \in Events
  PROVE  /\ e \in {"message", "ping", "pong"} => IsOpen(Append(s, e))
         /\ e \in {"error", "close"} => Legal(Append(s, e))
<1> DEFINE n == Len(s)
           t == Append(s, e)
<1>1. /\ n \in Nat /\ n > 0
      /\ Len(t) = n + 1 /\ t[n + 1] = e
      /\ \A i \in 1..n : t[i] = s[i]
  BY AppendProperties DEF IsOpen
<1>2. t[1] = "open" /\ \A i \in 2..n : t[i] \in {"message", "ping", "pong"}
  BY <1>1 DEF IsOpen
<1>3. \A i \in 2..(n + 1) : i \in 2..n \/ i = n + 1
  BY <1>1
<1>4. \A i \in 2..n : i - 1 = 1 \/ i - 1 \in 2..n
  BY <1>1
<1> HIDE DEF n, t
<1>5. CASE e \in {"message", "ping", "pong"}
  BY <1>1, <1>2, <1>3, <1>5 DEF IsOpen, t
<1>6. CASE e \in {"error", "close"}
  <2>1. \A i \in 2..n : t[i-1] \notin {"error", "close"}
    BY <1>2, <1>4
  <2>2. \A i \in 2..Len(t) :
           \/ t[i] \in {"message", "ping", "pong"} /\ t[i-1] # "error"
                /\ t[i-1] # "close"
           \/ t[i] \in {"close", "error"} /\ i = Len(t)
    BY <1>1, <1>2, <1>3, <1>6, <2>1
  <2>3. Legal(t)
    BY <1>2, <2>2 DEF Legal
  <2> QED
    BY <2>3, <1>6 DEF t
<1> QED
  BY <1>5, <1>6

LEMMA OpenTooBig ==
  ASSUME NEW s \in Seq(Events), IsOpen(s)
  PROVE  /\ Legal(s \o <<"error", "close">>)
         /\ s \o <<"error", "close">> \in Seq(Events)
<1> DEFINE n == Len(s)
           t == s \o <<"error", "close">>
<1>0. <<"error", "close">> \in Seq(Events)
  BY DEF Events
<1>1. /\ n \in Nat /\ n > 0 /\ t \in Seq(Events)
      /\ Len(t) = n + 2 /\ t[n + 1] = "error" /\ t[n + 2] = "close"
      /\ \A i \in 1..n : t[i] = s[i]
  BY <1>0 DEF IsOpen
<1>2. t[1] = "open" /\ \A i \in 2..n : t[i] \in {"message", "ping", "pong"}
  BY <1>1 DEF IsOpen
<1>3. \A i \in 2..(n + 2) : i \in 2..n \/ i = n + 1 \/ i = n + 2
  BY <1>1
<1>4. \A i \in 2..n : i - 1 = 1 \/ i - 1 \in 2..n
  BY <1>1
<1> HIDE DEF n, t
<1>5. \A i \in 2..n : t[i-1] \notin {"error", "close"}
  BY <1>2, <1>4
<1>6. n + 1 = Len(t) - 1 /\ (n + 1) + 1 = n + 2
  BY <1>1
<1>7. \A i \in 2..Len(t) :
         \/ t[i] \in {"message", "ping", "pong"} /\ t[i-1] # "error"
              /\ t[i-1] # "close"
         \/ t[i] \in {"close", "error"} /\ i = Len(t)
         \/ t[i] = "error" /\ i = Len(t) - 1 /\ t[i+1] = "close"
  BY <1>1, <1>2, <1>3, <1>5, <1>6
<1>8. Legal(t)
  BY <1>2, <1>7 DEF Legal
<1> QED
  BY <1>1, <1>8 DEF t

LEMMA FirstCalls ==
  /\ IsOpen(Append(<<>>, "open")) /\ Append(<<>>, "open") \in Seq(Events)
  /\ Legal(<<>>)
  /\ Legal(Append(<<>>, "error")) /\ Append(<<>>, "error") \in Seq(Events)
<1>1. /\ Append(<<>>, "open") = <<"open">>
      /\ Append(<<>>, "error") = <<"error">>
  OBVIOUS
<1>2. IsOpen(<<"open">>) /\ Legal(<<>>) /\ Legal(<<"error">>)
  BY DEF IsOpen, Legal
<1>3. <<"open">> \in Seq(Events) /\ <<"error">> \in Seq(Events)
  BY DEF Events
<1> QED
  BY <1>1, <1>2, <1>3

-----------------------------------------------------------------------------
LEMMA InitInv == Init => Inv
<1> SUFFICES ASSUME Init PROVE Inv
  OBVIOUS
<1>1. Types
  BY DEF Init, Types, Stages
<1>2. ListedWhileOpen /\ SweptOpened
  BY DEF Init, ListedWhileOpen, SweptOpened, Reading
<1>3. ASSUME NEW c \in Conns
      PROVE  CallsFit(c) /\ DataFit(c)
  BY <1>3 DEF Init, CallsFit, DataFit, Before, Reading, NoneRead, OneRead
<1> QED
  BY <1>1, <1>2, <1>3 DEF Inv

(* A step of one connection leaves the others alone. *)
Same(d) ==
    /\ stage'[d] = stage[d]
    /\ result'[d] = result[d]
    /\ frame'[d] = frame[d]
    /\ calls'[d] = calls[d]
    /\ sent'[d] = sent[d]
    /\ fragmented'[d] = fragmented[d]
    /\ partial'[d] = partial[d]
    /\ delivered'[d] = delivered[d]
    /\ messages'[d] = messages[d]

LEMMA Others ==
  ASSUME Inv, NEW c \in Conns, Types', ListedWhileOpen', SweptOpened',
         CallsFit(c)', DataFit(c)', \A d \in Conns \ {c} : Same(d)
  PROVE  Inv'
<1>1. ASSUME NEW d \in Conns \ {c}
      PROVE  CallsFit(d)' /\ DataFit(d)'
  <2>1. Same(d) /\ CallsFit(d) /\ DataFit(d)
    BY <1>1 DEF Inv
  <2>2. CallsFit(d)'
    BY <2>1 DEF Same, CallsFit
  <2>3. (NoneRead(d)' <=> NoneRead(d)) /\ (OneRead(d)' <=> OneRead(d))
    BY <2>1 DEF Same, NoneRead, OneRead
  <2>4. LastSent(d)' <=> LastSent(d)
    BY <2>1 DEF Same, LastSent, Piece
  <2>5. DataFit(d)'
    BY <2>1, <2>3, <2>4 DEF Same, DataFit
  <2> QED
    BY <2>2, <2>5
<1> QED
  BY <1>1 DEF Inv

(* Nothing the invariant speaks of is changed. *)
LEMMA SameInv ==
  ASSUME Inv, UNCHANGED <<connections, stage, result, frame, fragmented, calls,
                          delivered, sent, partial, messages, swept>>
  PROVE  Inv'
<1>1. Types' /\ ListedWhileOpen' /\ SweptOpened'
  BY DEF Inv, Types, ListedWhileOpen, SweptOpened
<1>2. ASSUME NEW c \in Conns PROVE CallsFit(c)' /\ DataFit(c)'
  <2>1. CallsFit(c) /\ DataFit(c)
    BY DEF Inv
  <2> QED
    BY <2>1 DEF CallsFit, DataFit, NoneRead, OneRead, LastSent, Piece
<1> QED
  BY <1>1, <1>2 DEF Inv

LEMMA StopInv == Inv /\ Stop => Inv'
<1> SUFFICES ASSUME Inv, Stop PROVE Inv'
  OBVIOUS
<1>1. UNCHANGED <<stage, result, frame, fragmented, calls, delivered, sent,
                  partial, messages>>
  BY DEF Stop, peer
<1>2. connections' = {} /\ swept' = swept \cup connections
  BY DEF Stop
<1>3. Types'
  BY <1>1, <1>2 DEF Inv, Types, ListedWhileOpen
<1>4. ListedWhileOpen' /\ SweptOpened'
  BY <1>1, <1>2 DEF Inv, ListedWhileOpen, SweptOpened
<1>5. ASSUME NEW c \in Conns PROVE CallsFit(c)' /\ DataFit(c)'
  <2>1. CallsFit(c) /\ DataFit(c)
    BY DEF Inv
  <2> QED
    BY <1>1, <2>1 DEF CallsFit, DataFit, NoneRead, OneRead, LastSent, Piece
<1> QED
  BY <1>3, <1>4, <1>5 DEF Inv

(* Where a connection may go without the list being changed. *)
LEMMA ListSame ==
  ASSUME Inv, NEW c \in Conns, NEW s,
         stage' = [stage EXCEPT ![c] = s],
         \/ stage[c] \in Before /\ s \in Before \cup {"done"}
         \/ stage[c] \in Reading /\ s \in Reading,
         UNCHANGED <<connections, swept>>
  PROVE  ListedWhileOpen' /\ SweptOpened'
<1>1. /\ \A d \in Conns : stage'[d] = IF d = c THEN s ELSE stage[d]
      /\ "done" \notin Reading /\ Before \cap Reading = {}
      /\ "done" \notin Before
  BY DEF Inv, Types, Before, Reading, Handshake
<1>2. swept \subseteq Conns
  BY DEF Inv, Types
<1> QED
  BY <1>1, <1>2 DEF Inv, ListedWhileOpen, SweptOpened

-----------------------------------------------------------------------------
(* Before a connection is opened, or never is. *)
LEMMA BeforeInv ==
  ASSUME Inv, NEW c \in Conns, NEW s \in Before \cup {"done"},
         stage[c] \in Before,
         stage' = [stage EXCEPT ![c] = s],
         result' = result \/ result' = [result EXCEPT ![c] = "none"],
         UNCHANGED <<connections, frame, fragmented, calls, delivered, sent,
                     partial, messages, swept>>
  PROVE  Inv'
<1>1. Types'
  BY DEF Inv, Types, Before, Stages
<1>2. ListedWhileOpen' /\ SweptOpened'
  BY ListSame
<1>3. stage'[c] = s /\ "done" \notin Before \cup Reading
  BY DEF Inv, Types, Before, Handshake, Reading
<1>4. CallsFit(c) /\ DataFit(c) /\ NoneRead(c)
  BY DEF Inv, NoneRead
<1>5. s \notin Reading
  BY DEF Before, Handshake, Reading
<1>6. CallsFit(c)'
  BY <1>3, <1>4, <1>5, FirstCalls DEF CallsFit
<1>7. IsPrefix(delivered[c], delivered[c])
  BY PrefixOfSelf DEF Inv, Types
<1>8. DataFit(c)'
  BY <1>3, <1>4, <1>5, <1>7 DEF DataFit, OneRead, Reading
<1>9. \A d \in Conns \ {c} : Same(d)
  BY DEF Same, Inv, Types
<1> QED
  BY <1>1, <1>2, <1>6, <1>8, <1>9, Others

(* An operation is over; what it read, if anything, was counted before. *)
LEMMA ResultInv ==
  ASSUME Inv, NEW c \in Conns, NEW r \in {"ok", "error"}, Pending(c),
         stage[c] = "head" => r = "error",
         result' = [result EXCEPT ![c] = r],
         UNCHANGED <<connections, stage, frame, fragmented, calls, delivered,
                     sent, partial, messages, swept>>
  PROVE  Inv'
<1>1. Types' /\ ListedWhileOpen' /\ SweptOpened'
  BY DEF Inv, Types, ListedWhileOpen, SweptOpened
<1>2. result'[c] = r /\ stage[c] # "post" /\ result[c] = "none"
  BY DEF Inv, Types, Pending, Handshake, Reading
<1>3. CallsFit(c) /\ DataFit(c)
  BY DEF Inv
<1>4. CallsFit(c)'
  BY <1>3 DEF CallsFit
<1>5. (NoneRead(c)' <=> NoneRead(c)) /\ (OneRead(c)' <=> OneRead(c))
  BY <1>2 DEF NoneRead, OneRead
<1>6. DataFit(c)'
  BY <1>2, <1>3, <1>5 DEF DataFit, LastSent, Piece
<1>7. \A d \in Conns \ {c} : Same(d)
  BY DEF Same, Inv, Types
<1> QED
  BY <1>1, <1>4, <1>6, <1>7, Others

(* A frame is sent and read: what the peer had completed before has been    *)
(* delivered, so that the frame is all there is to deliver.                 *)
LEMMA CompleteHeadInv ==
  ASSUME Inv, NEW c \in Conns, CompleteHead(c)
  PROVE  Inv'
<1>1. PICK f \in Forms :
         /\ MaySend(c, f)
         /\ frame' = [frame EXCEPT ![c] = f]
         /\ LET piece == Append(partial[c], sent[c]) IN
              IF f.kind \in {"whole", "last"}
              THEN /\ partial' = [partial EXCEPT ![c] = <<>>]
                   /\ messages' = [messages EXCEPT ![c] = Append(@, piece)]
              ELSE /\ partial' = IF f.kind \in {"first", "middle"}
                                 THEN [partial EXCEPT ![c] = piece]
                                 ELSE partial
                   /\ UNCHANGED messages
  BY DEF CompleteHead
<1>2. /\ stage[c] = "head" /\ result[c] = "none"
      /\ sent' = [sent EXCEPT ![c] = @ + 1]
      /\ result' = [result EXCEPT ![c] = "ok"]
      /\ UNCHANGED <<connections, stage, fragmented, calls, delivered, swept>>
  BY DEF CompleteHead, Pending
<1> DEFINE p == sent[c]
           m == Append(partial[c], p)
<1>3. /\ p \in Nat /\ partial[c] \in Seq(Nat) /\ m \in Seq(Nat)
      /\ messages[c] \in Seq(Seq(Nat))
      /\ Append(messages[c], m) \in Seq(Seq(Nat))
      /\ <<>> \in Seq(Nat)
  BY AppendProperties DEF Inv, Types
<1>4. NoneRead(c) /\ partial[c] = fragmented[c] /\ messages[c] = delivered[c]
  BY <1>2 DEF NoneRead, DataFit, Inv
<1>5. /\ frame'[c] = f /\ sent'[c] = p + 1 /\ result'[c] = "ok"
      /\ sent'[c] - 1 = p
  BY <1>1, <1>2, <1>3 DEF Inv, Types
<1>6. /\ frame' \in [Conns -> Forms \cup {NoFrame}]
      /\ sent' \in [Conns -> Nat]
      /\ result' \in [Conns -> {"none", "ok", "error"}]
  BY <1>1, <1>2, <1>3 DEF Inv, Types
<1>7. /\ partial \in [Conns -> Seq(Nat)]
      /\ messages \in [Conns -> Seq(Seq(Nat))]
  BY DEF Inv, Types
<1>8. ASSUME f.kind \in {"whole", "last"}
      PROVE  Types' /\ LastSent(c)' /\ \A d \in Conns \ {c} : Same(d)
  <2>1. /\ partial' = [partial EXCEPT ![c] = <<>>]
        /\ messages' = [messages EXCEPT ![c] = Append(@, m)]
    BY <1>1, <1>8
  <2>2. partial'[c] = <<>> /\ messages'[c] = Append(messages[c], m)
    BY <2>1, <1>7
  <2>3. Types'
    BY <2>1, <1>2, <1>3, <1>6, <1>7 DEF Inv, Types
  <2>4. f.kind = "whole" => m = <<p>>
    <3>1. Append(<<>>, p) = <<p>>
      BY <1>3
    <3> QED
      BY <1>1, <3>1 DEF MaySend
  <2>5. LastSent(c)'
    BY <1>2, <1>3, <1>4, <1>5, <1>8, <2>2, <2>4
    DEF LastSent, Piece, DataFrames
  <2>6. \A d \in Conns \ {c} : Same(d)
    BY <2>1, <1>1, <1>2, <1>7 DEF Same, Inv, Types
  <2> QED
    BY <2>3, <2>5, <2>6
<1>9. ASSUME f.kind \in {"first", "middle"}
      PROVE  Types' /\ LastSent(c)' /\ \A d \in Conns \ {c} : Same(d)
  <2>1. partial' = [partial EXCEPT ![c] = m] /\ messages' = messages
    BY <1>1, <1>9
  <2>2. partial'[c] = m /\ messages'[c] = messages[c]
    BY <2>1, <1>7
  <2>3. Types'
    BY <2>1, <1>2, <1>3, <1>6, <1>7 DEF Inv, Types
  <2>4. LastSent(c)'
    BY <1>2, <1>3, <1>4, <1>5, <1>9, <2>2 DEF LastSent, Piece, DataFrames
  <2>5. \A d \in Conns \ {c} : Same(d)
    BY <2>1, <1>1, <1>2, <1>7 DEF Same, Inv, Types
  <2> QED
    BY <2>3, <2>4, <2>5
<1>10. ASSUME f.kind \notin DataFrames
      PROVE  Types' /\ LastSent(c)' /\ \A d \in Conns \ {c} : Same(d)
  <2>1. partial' = partial /\ messages' = messages
    BY <1>1, <1>10 DEF DataFrames
  <2>2. Types'
    BY <2>1, <1>2, <1>6 DEF Inv, Types
  <2>3. LastSent(c)'
    BY <2>1, <1>2, <1>3, <1>4, <1>5, <1>10 DEF LastSent, DataFrames
  <2>4. \A d \in Conns \ {c} : Same(d)
    BY <2>1, <1>1, <1>2 DEF Same, Inv, Types
  <2> QED
    BY <2>2, <2>3, <2>4
<1>11. Types' /\ LastSent(c)' /\ \A d \in Conns \ {c} : Same(d)
  BY <1>8, <1>9, <1>10 DEF DataFrames
<1>12. ListedWhileOpen' /\ SweptOpened'
  BY <1>2 DEF Inv, ListedWhileOpen, SweptOpened
<1>13. CallsFit(c)'
  BY <1>2 DEF Inv, CallsFit
<1>14. DataFit(c)'
  BY <1>2, <1>5, <1>11 DEF DataFit, NoneRead, Before, Handshake
<1> QED
  BY <1>11, <1>12, <1>13, <1>14, Others

-----------------------------------------------------------------------------
(* The response is written: the endpoint is told, the connection listed.    *)
(* It cannot be on the list that stop has swept, which only has what was    *)
(* open.                                                                    *)
LEMMA OpenInv ==
  ASSUME Inv, NEW c \in Conns, HandleOpen(c)
  PROVE  Inv'
<1>1. /\ stage[c] = "response"
      /\ connections' = connections \cup {c}
      /\ calls' = [calls EXCEPT ![c] = Append(@, "open")]
      /\ stage' = [stage EXCEPT ![c] = "post"]
      /\ result' = [result EXCEPT ![c] = "none"]
      /\ UNCHANGED <<frame, fragmented, delivered, sent, partial, messages,
                     swept>>
  BY DEF HandleOpen, Handle, Call, ReadNext, Begin, peer
<1>2. CallsFit(c) /\ DataFit(c)
  BY DEF Inv
<1>3. calls[c] = <<>> /\ NoneRead(c)
  BY <1>1, <1>2 DEF CallsFit, NoneRead, Before, Handshake
<1>4. /\ stage'[c] = "post" /\ result'[c] = "none"
      /\ calls'[c] = Append(<<>>, "open")
  BY <1>1, <1>3 DEF Inv, Types
<1>5. Types'
  <2>1. stage' \in [Conns -> Stages]
        /\ result' \in [Conns -> {"none", "ok", "error"}]
    BY <1>1 DEF Inv, Types, Stages, Reading
  <2>2. calls' \in [Conns -> Seq(Events)]
    BY <1>1, <1>3, FirstCalls DEF Inv, Types
  <2> QED
    BY <1>1, <2>1, <2>2 DEF Inv, Types
<1>6. ListedWhileOpen' /\ SweptOpened'
  <2>1. \A d \in Conns : stage'[d] = IF d = c THEN "post" ELSE stage[d]
    BY <1>1 DEF Inv, Types
  <2>2. "post" \in Reading /\ c \notin swept
    BY <1>1 DEF Inv, SweptOpened, Reading
  <2>3. swept \subseteq Conns
    BY DEF Inv, Types
  <2> QED
    BY <1>1, <2>1, <2>2, <2>3 DEF Inv, ListedWhileOpen, SweptOpened
<1>7. CallsFit(c)'
  BY <1>4, FirstCalls DEF CallsFit, Before, Handshake, Reading
<1>8. DataFit(c)'
  BY <1>1, <1>2, <1>3, <1>4 DEF DataFit, OneRead
<1>9. \A d \in Conns \ {c} : Same(d)
  BY <1>1 DEF Same, Inv, Types
<1> QED
  BY <1>5, <1>6, <1>7, <1>8, <1>9, Others

(* Nothing was delivered that the peer has not completed before. *)
LEMMA Prefix ==
  ASSUME Inv, NEW c \in Conns
  PROVE  IsPrefix(delivered[c], messages[c])
<1>1. /\ delivered[c] \in Seq(Seq(Nat)) /\ fragmented[c] \in Seq(Nat)
      /\ sent[c] \in Nat
      /\ DataFit(c)
  BY DEF Inv, Types
<1>2. CASE messages[c] = delivered[c]
  BY <1>1, <1>2, PrefixOfSelf
<1>3. CASE OneRead(c) /\ frame[c].kind \in {"whole", "last"}
  <2>1. LastSent(c) /\ Piece(c) \in Nat
    BY <1>1, <1>3 DEF DataFit, LastSent, Piece
  <2>2. <<Piece(c)>> \in Seq(Nat)
        /\ Append(fragmented[c], Piece(c)) \in Seq(Nat)
    BY <1>1, <2>1, AppendProperties
  <2>3. \E x \in Seq(Nat) : messages[c] = Append(delivered[c], x)
    BY <1>3, <2>1, <2>2 DEF LastSent
  <2> QED
    BY <1>1, <2>3, PrefixOfAppend
<1>4. CASE OneRead(c) /\ frame[c].kind \notin {"whole", "last"}
  BY <1>1, <1>2, <1>4 DEF DataFit, LastSent, DataFrames
<1>5. NoneRead(c) \/ OneRead(c) \/ stage[c] = "done"
  BY DEF Inv, Types, Stages, NoneRead, OneRead, Before, Reading
<1> QED
  BY <1>1, <1>2, <1>3, <1>4, <1>5 DEF DataFit

(* A connection ends, whatever it was doing: it is taken off the list, and  *)
(* its endpoint is told.                                                    *)
LEMMA EndInv ==
  ASSUME Inv, NEW c \in Conns, NEW s \in Seq(Events), Legal(s),
         stage[c] = "response" \/ stage[c] \in Reading,
         stage' = [stage EXCEPT ![c] = "done"],
         result' = [result EXCEPT ![c] = "none"],
         calls' = [calls EXCEPT ![c] = s],
         connections' = connections \ {c},
         UNCHANGED <<frame, fragmented, delivered, sent, partial, messages,
                     swept>>
  PROVE  Inv'
<1>1. Types'
  BY DEF Inv, Types, Stages
<1>2. stage'[c] = "done" /\ calls'[c] = s
  BY DEF Inv, Types
<1>3. ListedWhileOpen' /\ SweptOpened'
  <2>1. \A d \in Conns : stage'[d] = IF d = c THEN "done" ELSE stage[d]
    BY DEF Inv, Types
  <2>2. "done" \notin Reading /\ swept \subseteq Conns
    BY DEF Inv, Types, Reading
  <2> QED
    BY <2>1, <2>2 DEF Inv, ListedWhileOpen, SweptOpened
<1>4. CallsFit(c)'
  BY <1>2 DEF CallsFit, Before, Handshake, Reading
<1>5. IsPrefix(delivered[c], messages[c])
  BY Prefix
<1>6. DataFit(c)'
  BY <1>2, <1>5 DEF DataFit, NoneRead, OneRead, Before, Handshake
<1>7. \A d \in Conns \ {c} : Same(d)
  BY DEF Same, Inv, Types
<1> QED
  BY <1>1, <1>3, <1>4, <1>6, <1>7, Others

(* Reading goes on with the same frame, or with the next one. *)
LEMMA ReadingInv ==
  ASSUME Inv, NEW c \in Conns, NEW s \in {"length", "content"},
         OneRead(c),
         stage' = [stage EXCEPT ![c] = s],
         result' = [result EXCEPT ![c] = "none"],
         UNCHANGED <<connections, frame, fragmented, calls, delivered, sent,
                     partial, messages, swept>>
  PROVE  Inv'
<1>1. Types'
  BY DEF Inv, Types, Stages, Reading
<1>2. stage'[c] = s /\ stage[c] \in Reading /\ s \in Reading
  BY DEF Inv, Types, OneRead, Reading
<1>3. ListedWhileOpen' /\ SweptOpened'
  BY <1>2, ListSame
<1>4. CallsFit(c) /\ DataFit(c)
  BY DEF Inv
<1>5. CallsFit(c)'
  BY <1>2, <1>4 DEF CallsFit, Before, Handshake
<1>6. LastSent(c)'
  BY <1>4 DEF DataFit, LastSent, Piece
<1>7. DataFit(c)'
  BY <1>2, <1>6 DEF DataFit, NoneRead, Before, Handshake
<1>8. \A d \in Conns \ {c} : Same(d)
  BY DEF Same, Inv, Types
<1> QED
  BY <1>1, <1>3, <1>5, <1>7, <1>8, Others

(* A frame has been dealt with: what is told keeps the connection open, and *)
(* what was sent and what was received agree again.                         *)
LEMMA NextFrameInv ==
  ASSUME Inv, NEW c \in Conns, stage[c] = "content", Types',
         stage' = [stage EXCEPT ![c] = "post"],
         result' = [result EXCEPT ![c] = "none"],
         UNCHANGED <<connections, swept>>,
         IsOpen(calls'[c]),
         partial'[c] = fragmented'[c],
         messages'[c] = delivered'[c],
         \A d \in Conns \ {c} : Same(d)
  PROVE  Inv'
<1>1. stage'[c] = "post" /\ result'[c] = "none"
  BY DEF Inv, Types
<1>2. ListedWhileOpen' /\ SweptOpened'
  BY ListSame DEF Reading
<1>3. CallsFit(c)'
  BY <1>1 DEF CallsFit, Before, Handshake
<1>4. DataFit(c)'
  BY <1>1 DEF DataFit, OneRead
<1> QED
  BY <1>2, <1>3, <1>4, Others

LEMMA PieceInv ==
  ASSUME Inv, NEW c \in Conns, HandlePiece(c)
  PROVE  Inv'
<1>1. /\ stage[c] = "content" /\ frame[c].kind \in {"first", "middle"}
      /\ fragmented' = [fragmented EXCEPT ![c] = Append(@, Piece(c))]
      /\ stage' = [stage EXCEPT ![c] = "post"]
      /\ result' = [result EXCEPT ![c] = "none"]
      /\ UNCHANGED <<connections, frame, calls, delivered, sent, partial,
                     messages, swept>>
  BY DEF HandlePiece, Handle, ReadNext, Begin, peer
<1>2. CallsFit(c) /\ DataFit(c) /\ OneRead(c)
  BY <1>1 DEF Inv, OneRead
<1>3. /\ Piece(c) \in Nat
      /\ partial[c] = Append(fragmented[c], Piece(c))
      /\ messages[c] = delivered[c]
  BY <1>1, <1>2 DEF DataFit, LastSent, Piece, Inv, Types
<1>4. Append(fragmented[c], Piece(c)) \in Seq(Nat)
  BY <1>3, AppendProperties DEF Inv, Types
<1>5. Types'
  BY <1>1, <1>4 DEF Inv, Types, Stages, Reading
<1>6. fragmented'[c] = Append(fragmented[c], Piece(c))
  BY <1>1 DEF Inv, Types
<1>7. IsOpen(calls'[c])
  BY <1>1, <1>2 DEF CallsFit, Reading
<1>8. \A d \in Conns \ {c} : Same(d)
  BY <1>1 DEF Same, Inv, Types
<1> QED
  BY <1>1, <1>3, <1>5, <1>6, <1>7, <1>8, NextFrameInv

LEMMA MessageInv ==
  ASSUME Inv, NEW c \in Conns, HandleMessage(c)
  PROVE  Inv'
<1> DEFINE pieces == IF frame[c].kind = "last"
                     THEN Append(fragmented[c], Piece(c))
                     ELSE <<Piece(c)>>
<1>1. /\ stage[c] = "content" /\ frame[c].kind \in {"whole", "last"}
      /\ delivered' = [delivered EXCEPT ![c] = Append(@, pieces)]
      /\ calls' = [calls EXCEPT ![c] = Append(@, "message")]
      /\ fragmented' = [fragmented EXCEPT ![c] = <<>>]
      /\ stage' = [stage EXCEPT ![c] = "post"]
      /\ result' = [result EXCEPT ![c] = "none"]
      /\ UNCHANGED <<connections, frame, sent, partial, messages, swept>>
  BY DEF HandleMessage, Handle, Call, ReadNext, Begin, peer
<1>2. CallsFit(c) /\ DataFit(c) /\ OneRead(c)
  BY <1>1 DEF Inv, OneRead
<1>3. /\ Piece(c) \in Nat
      /\ partial[c] = <<>>
      /\ messages[c] = Append(delivered[c], pieces)
  <2>1. LastSent(c) /\ Piece(c) \in Nat
    <3>1. LastSent(c)
      BY <1>2 DEF DataFit
    <3>2. sent[c] \in Nat /\ sent[c] > 0
      BY <3>1 DEF LastSent, Inv, Types
    <3> QED
      BY <3>1, <3>2 DEF Piece
  <2>2. CASE frame[c].kind = "whole"
    BY <2>1, <2>2 DEF LastSent
  <2>3. CASE frame[c].kind = "last"
    BY <2>1, <2>3 DEF LastSent
  <2> QED
    BY <1>1, <2>1, <2>2, <2>3
<1>4. pieces \in Seq(Nat)
  BY <1>3, AppendProperties DEF Inv, Types
<1> HIDE DEF pieces
<1>5. /\ calls[c] \in Seq(Events) /\ IsOpen(calls[c]) /\ "message" \in Events
      /\ delivered[c] \in Seq(Seq(Nat))
  BY <1>1, <1>2 DEF CallsFit, Inv, Types, Reading, Events
<1>6. /\ Append(calls[c], "message") \in Seq(Events)
      /\ IsOpen(Append(calls[c], "message"))
      /\ Append(delivered[c], pieces) \in Seq(Seq(Nat))
      /\ <<>> \in Seq(Nat)
  BY <1>4, <1>5, OpenGrows, AppendProperties
<1>7. Types'
  BY <1>1, <1>6 DEF Inv, Types, Stages, Reading
<1>8. /\ fragmented'[c] = <<>>
      /\ delivered'[c] = Append(delivered[c], pieces)
      /\ calls'[c] = Append(calls[c], "message")
  BY <1>1 DEF Inv, Types
<1>9. \A d \in Conns \ {c} : Same(d)
  BY <1>1 DEF Same, Inv, Types
<1> QED
  BY <1>1, <1>3, <1>6, <1>7, <1>8, <1>9, NextFrameInv

LEMMA ControlInv ==
  ASSUME Inv, NEW c \in Conns, HandleControl(c)
  PROVE  Inv'
<1> DEFINE e == frame[c].kind
<1>1. /\ stage[c] = "content" /\ e \in {"ping", "pong"}
      /\ calls' = [calls EXCEPT ![c] = Append(@, e)]
      /\ stage' = [stage EXCEPT ![c] = "post"]
      /\ result' = [result EXCEPT ![c] = "none"]
      /\ UNCHANGED <<connections, frame, fragmented, delivered, sent, partial,
                     messages, swept>>
  BY DEF HandleControl, Handle, Call, ReadNext, Begin, peer
<1>2. CallsFit(c) /\ DataFit(c) /\ OneRead(c)
  BY <1>1 DEF Inv, OneRead
<1>3. partial[c] = fragmented[c] /\ messages[c] = delivered[c]
  BY <1>1, <1>2 DEF DataFit, LastSent, DataFrames
<1> HIDE DEF e
<1>4. calls[c] \in Seq(Events) /\ IsOpen(calls[c]) /\ e \in Events
  BY <1>1, <1>2 DEF CallsFit, Inv, Types, Reading, Events
<1>5. Append(calls[c], e) \in Seq(Events) /\ IsOpen(Append(calls[c], e))
  BY <1>1, <1>4, OpenGrows, AppendProperties
<1>6. Types'
  BY <1>1, <1>5 DEF Inv, Types, Stages, Reading
<1>7. calls'[c] = Append(calls[c], e)
  BY <1>1 DEF Inv, Types
<1>8. \A d \in Conns \ {c} : Same(d)
  BY <1>1 DEF Same, Inv, Types
<1> QED
  BY <1>1, <1>3, <1>5, <1>6, <1>7, <1>8, NextFrameInv

-----------------------------------------------------------------------------
(* The ends: an operation that failed, a frame that is not masked, a close  *)
(* frame, a message that is too big.                                        *)
LEMMA EndsInv ==
  ASSUME Inv, NEW c \in Conns,
         HandleError(c) \/ HandleUnmasked(c) \/ HandleClose(c) \/ TooBig(c)
  PROVE  Inv'
<1>1. /\ calls[c] \in Seq(Events) /\ CallsFit(c)
      /\ "error" \in Events /\ "close" \in Events
  BY DEF Inv, Types, Events
<1>2. CASE HandleError(c)
  <2>1. /\ stage[c] \in {"response", "head", "length", "content"}
        /\ connections' = connections \ {c}
        /\ calls' = [calls EXCEPT ![c] = Append(calls[c], "error")]
        /\ stage' = [stage EXCEPT ![c] = "done"]
        /\ result' = [result EXCEPT ![c] = "none"]
        /\ UNCHANGED <<frame, fragmented, delivered, sent, partial, messages,
                       swept>>
    BY <1>2 DEF HandleError, Handle, Leave, Call, End, Begin, peer
  <2>2. CASE stage[c] = "response"
    <3>1. calls[c] = <<>>
      BY <1>1, <2>2 DEF CallsFit, Before, Handshake
    <3> QED
      BY <2>1, <2>2, <3>1, FirstCalls, EndInv
  <2>3. CASE stage[c] \in Reading
    <3>1. /\ Append(calls[c], "error") \in Seq(Events)
          /\ Legal(Append(calls[c], "error"))
      BY <1>1, <2>3, OpenGrows, AppendProperties DEF CallsFit
    <3> QED
      BY <2>1, <2>3, <3>1, EndInv
  <2> QED
    BY <2>1, <2>2, <2>3 DEF Reading
<1>3. CASE HandleUnmasked(c) \/ HandleClose(c)
  <2>1. /\ stage[c] \in Reading
        /\ connections' = connections \ {c}
        /\ calls' = [calls EXCEPT ![c] = Append(calls[c], "close")]
        /\ stage' = [stage EXCEPT ![c] = "done"]
        /\ result' = [result EXCEPT ![c] = "none"]
        /\ UNCHANGED <<frame, fragmented, delivered, sent, partial, messages,
                       swept>>
    BY <1>3 DEF HandleUnmasked, HandleClose, Handle, Leave, Call, EndClosing,
                Begin, peer, Reading
  <2>2. /\ Append(calls[c], "close") \in Seq(Events)
        /\ Legal(Append(calls[c], "close"))
    BY <1>1, <2>1, OpenGrows, AppendProperties DEF CallsFit
  <2> QED
    BY <2>1, <2>2, EndInv
<1>4. CASE TooBig(c)
  <2>1. /\ stage[c] \in Reading
        /\ connections' = connections \ {c}
        /\ calls' = [calls EXCEPT ![c] = calls[c] \o <<"error", "close">>]
        /\ stage' = [stage EXCEPT ![c] = "done"]
        /\ result' = [result EXCEPT ![c] = "none"]
        /\ UNCHANGED <<frame, fragmented, delivered, sent, partial, messages,
                       swept>>
    BY <1>4 DEF TooBig, LengthKnown, Handle, EndClosing, Begin, peer, Reading
  <2>2. /\ calls[c] \o <<"error", "close">> \in Seq(Events)
        /\ Legal(calls[c] \o <<"error", "close">>)
    BY <1>1, <2>1, OpenTooBig DEF CallsFit
  <2> QED
    BY <2>1, <2>2, EndInv
<1> QED
  BY <1>2, <1>3, <1>4

(* The posted function: a read of two bytes, of which nothing is there. *)
LEMMA StartReadInv ==
  ASSUME Inv, NEW c \in Conns, StartRead(c)
  PROVE  Inv'
<1>1. /\ stage[c] = "post"
      /\ stage' = [stage EXCEPT ![c] = "head"]
      /\ UNCHANGED <<connections, result, frame, fragmented, calls, delivered,
                     sent, partial, messages, swept>>
  BY DEF StartRead, peer
<1>2. Types'
  BY <1>1 DEF Inv, Types, Stages, Reading
<1>3. stage'[c] = "head" /\ result'[c] = "none"
  BY <1>1 DEF Inv, Types, DataFit
<1>4. ListedWhileOpen' /\ SweptOpened'
  BY <1>1, ListSame DEF Reading
<1>5. CallsFit(c)'
  BY <1>1, <1>3 DEF Inv, CallsFit, Before, Handshake, Reading
<1>6. DataFit(c)'
  BY <1>1, <1>3 DEF Inv, DataFit, NoneRead, OneRead
<1>7. \A d \in Conns \ {c} : Same(d)
  BY <1>1 DEF Same, Inv, Types
<1> QED
  BY <1>2, <1>4, <1>5, <1>6, <1>7, Others

(* The handlers and other steps of the handshake. *)
LEMMA HandshakeInv ==
  ASSUME Inv, NEW c \in Conns,
         \/ Upgrade(c) \/ Arrive(c) \/ HandleAccept(c) \/ HandleTls(c)
         \/ HandleRequest(c) \/ HandleHandshakeFailed(c) \/ HandleRefusal(c)
  PROVE  Inv'
<1>1. /\ stage[c] \in Before
      /\ \E s \in Before \cup {"done"} : stage' = [stage EXCEPT ![c] = s]
      /\ result' = result \/ result' = [result EXCEPT ![c] = "none"]
      /\ UNCHANGED <<connections, frame, fragmented, calls, delivered, sent,
                     partial, messages, swept>>
  <2>1. CASE Upgrade(c)
    BY <2>1 DEF Upgrade, Begin, peer, Before, Handshake
  <2>2. CASE Arrive(c)
    BY <2>2 DEF Arrive, peer, Before
  <2>3. CASE HandleAccept(c)
    BY <2>3 DEF HandleAccept, Begin, peer, Before, Handshake
  <2>4. CASE HandleTls(c)
    BY <2>4 DEF HandleTls, Handle, Begin, peer, Before, Handshake
  <2>5. CASE HandleRequest(c)
    BY <2>5 DEF HandleRequest, Handle, Begin, peer, Before, Handshake
  <2>6. CASE HandleHandshakeFailed(c)
    BY <2>6 DEF HandleHandshakeFailed, Handle, End, Begin, peer, Before,
                Handshake
  <2>7. CASE HandleRefusal(c)
    BY <2>7 DEF HandleRefusal, Handle, End, Begin, peer, Before, Handshake
  <2> QED
    BY <2>1, <2>2, <2>3, <2>4, <2>5, <2>6, <2>7
<1> QED
  BY <1>1, BeforeInv

LEMMA HandlerInv ==
  ASSUME Inv, NEW c \in Conns, Handler(c)
  PROVE  Inv'
<1>1. CASE \/ HandleAccept(c) \/ HandleTls(c) \/ HandleRequest(c)
           \/ HandleHandshakeFailed(c) \/ HandleRefusal(c)
  BY <1>1, HandshakeInv
<1>2. CASE HandleOpen(c)
  BY <1>2, OpenInv
<1>3. CASE HandleError(c) \/ HandleUnmasked(c) \/ HandleClose(c) \/ TooBig(c)
  BY <1>3, EndsInv
<1>4. CASE StartRead(c)
  BY <1>4, StartReadInv
<1>5. CASE HandleHead(c)
  BY <1>5, ReadingInv DEF HandleHead, Handle, OneRead, Begin, peer
<1>6. CASE ReadContent(c)
  BY <1>6, ReadingInv DEF ReadContent, LengthKnown, Handle, OneRead, Begin,
                          peer
<1>7. CASE HandlePiece(c)
  BY <1>7, PieceInv
<1>8. CASE HandleMessage(c)
  BY <1>8, MessageInv
<1>9. CASE HandleControl(c)
  BY <1>9, ControlInv
<1> QED
  BY <1>1, <1>2, <1>3, <1>4, <1>5, <1>6, <1>7, <1>8, <1>9 DEF Handler

LEMMA NextInv == Inv /\ [Next]_vars => Inv'
<1> SUFFICES ASSUME Inv, [Next]_vars PROVE Inv'
  OBVIOUS
<1>1. CASE UNCHANGED vars
  BY <1>1, SameInv DEF vars
<1>2. CASE Start \/ StopAccept \/ HandleSpin
  BY <1>2, SameInv DEF Start, StopAccept, HandleSpin, peer
<1>3. CASE Stop
  BY <1>3, StopInv
<1>4. ASSUME NEW c \in Conns,
             \/ Upgrade(c) \/ Network(c) \/ Fail(c)
             \/ Expire(c) \/ HandleTimer(c) \/ Handler(c)
      PROVE  Inv'
  <2>1. CASE Upgrade(c) \/ Arrive(c)
    BY <2>1, HandshakeInv
  <2>2. CASE Complete(c)
    BY <2>2, ResultInv DEF Complete, peer
  <2>3. CASE CompleteHead(c)
    BY <2>3, CompleteHeadInv
  <2>4. CASE Fail(c)
    BY <2>4, ResultInv DEF Fail, peer
  <2>5. CASE PeerLeaves(c) \/ Expire(c) \/ HandleTimer(c)
    BY <2>5, SameInv DEF PeerLeaves, Expire, HandleTimer, peer
  <2>6. CASE Handler(c)
    BY <2>6, HandlerInv
  <2> QED
    BY <1>4, <2>1, <2>2, <2>3, <2>4, <2>5, <2>6 DEF Network
<1> QED
  BY <1>1, <1>2, <1>3, <1>4 DEF Next

(* Whatever peers, timers, stop and errors do, the calls, the list of        *)
(* connections and the messages of each of them stay in step.               *)
THEOREM Invariance == Spec => []Inv
BY InitInv, NextInv, PTL DEF Spec

(* An endpoint is called in the promised order, however timers, stop, peers *)
(* and errors end its connections.                                          *)
THEOREM CallbackProtocolCorrect == Spec => []CallbackProtocol
<1>1. ASSUME Inv, NEW c \in Conns
      PROVE  Legal(calls[c])
  <2>1. CASE stage[c] \in Before
    BY <1>1, <2>1, FirstCalls DEF Inv, CallsFit
  <2>2. CASE stage[c] = "done"
    BY <1>1, <2>2 DEF Inv, CallsFit
  <2>3. CASE stage[c] \in Reading
    <3>1. calls[c] \in Seq(Events) /\ IsOpen(calls[c])
      BY <1>1, <2>3 DEF Inv, Types, CallsFit
    <3>2. \A i \in 2..Len(calls[c]) : i - 1 = 1 \/ i - 1 \in 2..Len(calls[c])
      BY <3>1
    <3> QED
      BY <3>1, <3>2 DEF IsOpen, Legal
  <2> QED
    BY <1>1, <2>1, <2>2, <2>3 DEF Inv, Types, Stages, Before
<1>2. Inv => CallbackProtocol
  BY <1>1 DEF CallbackProtocol, Legal
<1> QED
  BY <1>2, Invariance, PTL

(* The list of connections holds what is open and not closed by stop.       *)
THEOREM ListedWhileOpenCorrect == Spec => []ListedWhileOpen
<1>1. Inv => ListedWhileOpen
  BY DEF Inv
<1> QED
  BY <1>1, Invariance, PTL

(* Whatever frames a peer mixes, whole messages, fragments and control      *)
(* frames, the endpoint gets its messages complete, in order and once.      *)
THEOREM MessagesDeliveredCorrect == Spec => []MessagesDelivered
<1>1. ASSUME Inv, NEW c \in Conns, stage[c] = "post"
      PROVE  delivered[c] = messages[c]
  BY <1>1 DEF Inv, DataFit, NoneRead
<1>2. Inv => MessagesDelivered
  BY <1>1, Prefix DEF MessagesDelivered
<1> QED
  BY <1>2, Invariance, PTL
==============================================================================
