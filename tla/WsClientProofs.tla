---------------------------- MODULE WsClientProofs ----------------------------
(* Proofs about the client: the ScopeRunner whose locks its handlers ask    *)
(* for and its destructor waits for, for any finite set of handlers and any *)
(* set of threads that stop it; and a connection, for any widths and        *)
(* lengths of frames, any number of them and of bytes that came with the    *)
(* response.                                                                *)
(*                                                                          *)
(* Inductive for the runner: the counter is exact, and it is -1 once a call *)
(* of stop has returned.  For the connection the invariant says at every    *)
(* stage what the user has been told by then, how many bytes more than      *)
(* those of earlier reads the buffer has, and how what the peer has sent is *)
(* spread over what was delivered, fragmented_in_message and the frame that *)
(* is being read.                                                           *)
EXTENDS WsClient, ScopeRunner, FiniteSetTheorems, SequenceTheorems, TLAPS

(* The ScopeRunner *)

StopIsFinal == (\E s \in Stoppers : spc[s] = "done") => count = -1

RunnerInv == TypeOK /\ CountExact /\ StopIsFinal

LEMMA InsideFinite ==
    /\ IsFiniteSet(Inside)
    /\ Cardinality(Inside) \in Nat
<1>1. Inside \in SUBSET Users
  BY DEF Inside
<1>2. IsFiniteSet(Inside)
  BY <1>1, FS_Subset, UsersAssumption
<1> QED
  BY <1>2, FS_CardinalityType

(* While somebody is inside, and whenever the counter is not negative, the  *)
(* counter is the number of handlers inside.                                *)
LEMMA CountIsCardinality ==
    ASSUME RunnerInv, count >= 0 \/ Inside # {}
    PROVE  count = Cardinality(Inside)
  BY DEF RunnerInv, CountExact

LEMMA RunnerInitInv == RunnerInit => RunnerInv
<1> SUFFICES ASSUME RunnerInit PROVE RunnerInv
  OBVIOUS
<1>1. TypeOK
  BY DEF RunnerInit, TypeOK, Counts
<1>2. Inside = {}
  BY DEF RunnerInit, Inside
<1>3. CountExact
  BY <1>2, FS_EmptySet DEF RunnerInit, CountExact
<1>4. StopIsFinal
  BY DEF RunnerInit, StopIsFinal
<1> QED
  BY <1>1, <1>3, <1>4 DEF RunnerInv

LEMMA GrantStep ==
    ASSUME RunnerInv, NEW u \in Users, Grant(u)
    PROVE  RunnerInv' /\ Inside' = Inside \cup {u} /\ count >= 0 /\ count' >= 0
<1> USE DEF RunnerInv
<1>1. TypeOK'
  BY DEF Grant, MayTry, TypeOK, Counts
<1>2. count >= 0 /\ count' = count + 1
  BY DEF Grant, MayTry, TypeOK, Counts
<1>3. Inside' = Inside \cup {u} /\ u \notin Inside
  BY DEF Grant, MayTry, TypeOK, Counts, Inside
<1>4. Cardinality(Inside') = Cardinality(Inside) + 1
  BY <1>3, InsideFinite, FS_AddElement
<1>5. CountExact'
  BY <1>2, <1>4, CountIsCardinality DEF CountExact
<1>6. StopIsFinal'
  BY <1>2 DEF Grant, StopIsFinal
<1> QED
  BY <1>1, <1>2, <1>3, <1>5, <1>6, InsideFinite, CountIsCardinality

LEMMA ReleaseStep ==
    ASSUME RunnerInv, NEW u \in Users, Release(u)
    PROVE  RunnerInv' /\ Inside' = Inside \ {u} /\ u \in Inside
                /\ count >= 0 /\ count' >= 0
<1> USE DEF RunnerInv
<1>2. Inside' = Inside \ {u} /\ u \in Inside
  BY DEF Release, TypeOK, Counts, Inside
<1>3. Cardinality(Inside') = Cardinality(Inside) - 1
  BY <1>2, InsideFinite, FS_RemoveElement
<1>4. IsFiniteSet(Inside') /\ Cardinality(Inside') \in Nat
  BY <1>2, InsideFinite, FS_RemoveElement, FS_CardinalityType
<1>5. count = Cardinality(Inside) /\ count' = count - 1
  BY <1>2, CountIsCardinality DEF Release
<1>1. TypeOK'
  BY <1>2, <1>3, <1>4, <1>5 DEF Release, TypeOK, Counts
<1>6. CountExact'
  BY <1>3, <1>5 DEF CountExact
<1>7. StopIsFinal'
  BY <1>5, InsideFinite DEF Release, StopIsFinal
<1> QED
  BY <1>1, <1>2, <1>3, <1>4, <1>5, <1>6, <1>7, InsideFinite

LEMMA StopSwapStep ==
    ASSUME RunnerInv, NEW s \in Stoppers, StopSwap(s)
    PROVE  RunnerInv' /\ Inside = {} /\ Inside' = {}
<1> USE DEF RunnerInv
<1>1. TypeOK'
  BY DEF StopSwap, TypeOK, Counts
<1>2. Cardinality(Inside) = 0
  BY CountIsCardinality DEF StopSwap
<1>3. Inside = {}
  BY <1>2, InsideFinite, FS_EmptySet
<1>4. Inside' = {}
  BY <1>3 DEF StopSwap, Inside
<1>5. CountExact' /\ StopIsFinal'
  BY <1>4 DEF StopSwap, CountExact, StopIsFinal
<1> QED
  BY <1>1, <1>3, <1>4, <1>5

(* The other steps neither change the counter nor move a handler in or out. *)
LEMMA OtherSteps ==
    ASSUME RunnerInv,
           \/ \E u \in Users : Load(u) \/ Retry(u) \/ Refuse(u)
           \/ \E s \in Stoppers : StopBegin(s) \/ StoppedAlready(s)
           \/ UNCHANGED runnerVars
    PROVE  RunnerInv' /\ Inside' = Inside /\ count' = count
<1> USE DEF RunnerInv
<1>1. ASSUME NEW u \in Users, Load(u) \/ Retry(u) \/ Refuse(u)
      PROVE  TypeOK' /\ Inside' = Inside /\ count' = count /\ StopIsFinal'
  BY <1>1 DEF Load, Retry, Refuse, MayTry, TypeOK, Counts, Inside, StopIsFinal
<1>2. ASSUME NEW s \in Stoppers, StopBegin(s)
      PROVE  TypeOK' /\ Inside' = Inside /\ count' = count /\ StopIsFinal'
  BY <1>2 DEF StopBegin, TypeOK, Counts, Inside, StopIsFinal
<1>3. ASSUME NEW s \in Stoppers, StoppedAlready(s)
      PROVE  TypeOK' /\ Inside' = Inside /\ count' = count /\ StopIsFinal'
  <2>1. count = -1
    BY <1>3, InsideFinite DEF StoppedAlready, CountExact
  <2> QED
    BY <1>3, <2>1 DEF StoppedAlready, TypeOK, Counts, Inside, StopIsFinal
<1>4. ASSUME UNCHANGED runnerVars
      PROVE  TypeOK' /\ Inside' = Inside /\ count' = count /\ StopIsFinal'
  BY <1>4 DEF runnerVars, TypeOK, Counts, Inside, StopIsFinal
<1>5. TypeOK' /\ Inside' = Inside /\ count' = count /\ StopIsFinal'
  BY <1>1, <1>2, <1>3, <1>4
<1> QED
  BY <1>5 DEF CountExact

LEMMA RunnerNextInv == RunnerInv /\ [RunnerNext]_runnerVars => RunnerInv'
  BY GrantStep, ReleaseStep, StopSwapStep, OtherSteps
     DEF RunnerNext, User, Stopper

(* The invariant holds in every reachable state. *)
THEOREM RunnerInvariance == RunnerSpec => []RunnerInv
<1>1. RunnerInit => RunnerInv
  BY RunnerInitInv
<1>2. RunnerInv /\ [RunnerNext]_runnerVars => RunnerInv'
  BY RunnerNextInv
<1> QED
  BY <1>1, <1>2, PTL DEF RunnerSpec

(* The counter is a number of locks or -1, and so is every copy of it.      *)
THEOREM RunnerTypeCorrect == RunnerSpec => []TypeOK
<1>1. RunnerInv => TypeOK
  BY DEF RunnerInv
<1> QED
  BY <1>1, RunnerInvariance, PTL

(* The counter is the number of locks, or -1 with no lock left, however     *)
(* the threads interleave.                                                  *)
THEOREM CountExactCorrect == RunnerSpec => []CountExact
<1>1. RunnerInv => CountExact
  BY DEF RunnerInv
<1> QED
  BY <1>1, RunnerInvariance, PTL

(* After stop has returned no handler is inside.                            *)
THEOREM StoppedIsEmptyCorrect == RunnerSpec => []StoppedIsEmpty
<1>1. RunnerInv => StoppedIsEmpty
  BY InsideFinite DEF RunnerInv, CountExact, StopIsFinal, StoppedIsEmpty
<1> QED
  BY <1>1, RunnerInvariance, PTL

-----------------------------------------------------------------------------
LEMMA GateInit == RunnerInit => Gate!Init
  BY DEF RunnerInit, Gate!Init, Inside

LEMMA GateNext ==
  RunnerInv /\ [RunnerNext]_runnerVars => [Gate!Next]_(Gate!vars)
<1> SUFFICES ASSUME RunnerInv, [RunnerNext]_runnerVars
             PROVE  [Gate!Next]_(Gate!vars)
  OBVIOUS
<1>1. ASSUME NEW u \in Users, Grant(u)
      PROVE  Gate!Enter(u)
  BY <1>1, GrantStep DEF Gate!Enter
<1>2. ASSUME NEW u \in Users, Release(u)
      PROVE  Gate!Leave(u)
  BY <1>2, ReleaseStep DEF Gate!Leave
<1>3. ASSUME NEW s \in Stoppers, StopSwap(s)
      PROVE  Gate!Close
  <2>1. count' = -1
    BY <1>3 DEF StopSwap
  <2> QED
    BY <1>3, <2>1, StopSwapStep DEF Gate!Close
<1>4. ASSUME \/ \E u \in Users : Load(u) \/ Retry(u) \/ Refuse(u)
             \/ \E s \in Stoppers : StopBegin(s) \/ StoppedAlready(s)
             \/ UNCHANGED runnerVars
      PROVE  UNCHANGED Gate!vars
  BY <1>4, OtherSteps DEF Gate!vars
<1> QED
  BY <1>1, <1>2, <1>3, <1>4 DEF RunnerNext, User, Stopper, Gate!Next

(* The counter with its compare-exchange loops implements the gate.         *)
THEOREM GateImplemented == RunnerSpec => ImplementsGate
<1>1. RunnerInit => Gate!Init
  BY GateInit
<1>2. RunnerInv /\ [RunnerNext]_runnerVars => [Gate!Next]_(Gate!vars)
  BY GateNext
<1> QED
  BY <1>1, <1>2, RunnerInvariance, PTL DEF RunnerSpec, ImplementsGate, Gate!Spec

-----------------------------------------------------------------------------
(* The connection *)

Events == {"open", "message", "ping", "pong", "error", "close"}
Stages == Opening \cup Reading \cup {"done"}

(* A piece is the number of a frame, and it has no byte too many.           *)
Pieces == Nat \X {0}

Types ==
    /\ runner \in BOOLEAN
    /\ stage \in Stages
    /\ result \in {"none", "ok", "error"}
    /\ frame \in Frames \cup {NoFrame}
    /\ additional \in Nat /\ buffered \in Nat
    /\ calls \in Seq(Events)
    /\ sent \in Nat
    /\ fragmented \in Seq(Pieces) /\ partial \in Seq(Pieces)
    /\ delivered \in Seq(Seq(Pieces)) /\ messages \in Seq(Seq(Pieces))

(* What the user has been told while the connection is open. *)
IsOpen(s) ==
    /\ Len(s) > 0 /\ s[1] = "open"
    /\ \A i \in 2..Len(s) : s[i] \in {"message", "ping", "pong"}

(* What the user has been told when it has ended. *)
IsEnded(s) ==
    \/ s = <<"error">>
    \/ /\ Len(s) > 1 /\ s[1] = "open" /\ s[Len(s)] \in {"error", "close"}
       /\ \A i \in 2..(Len(s) - 1) :
             \/ s[i] \in {"message", "ping", "pong"}
             \/ i = Len(s) - 1 /\ s[i] = "error" /\ s[Len(s)] = "close"

CallsFit ==
    /\ stage \in Opening => calls = <<>>
    /\ stage \in Reading => IsOpen(calls)
    /\ stage = "done" =>
          IsEnded(calls) \/ (~runner /\ (calls = <<>> \/ IsOpen(calls)))

(* The reads that are under way were asked for what was missing. *)
BytesFit ==
    /\ stage \in {"post", "done"} => result = "none"
    /\ stage \in Reading =>
          buffered = IF result = "ok"
                     THEN additional + Missing(additional, Need)
                     ELSE additional

(* No frame is being read, or one is. *)
NoneRead == \/ stage \in Opening \cup {"post"}
            \/ stage = "head" /\ result # "ok"
OneRead == \/ stage \in {"length", "content"}
           \/ stage = "head" /\ result = "ok"

LastPiece == <<sent - 1, 0>>

(* The frame being read is the last the peer has sent. *)
LastSent ==
    /\ frame \in Frames
    /\ sent > 0
    /\ frame.kind \in {"whole", "last"} =>
          /\ partial = <<>>
          /\ messages = Append(delivered, Append(fragmented, LastPiece))
    /\ frame.kind \in {"first", "middle"} =>
          partial = Append(fragmented, LastPiece) /\ messages = delivered
    /\ frame.kind \notin DataFrames =>
          partial = fragmented /\ messages = delivered

DataFit ==
    /\ NoneRead => partial = fragmented /\ messages = delivered
    /\ OneRead => LastSent
    /\ stage = "done" => IsPrefix(delivered, messages)

Inv ==
    /\ Types
    /\ CallsFit
    /\ BytesFit
    /\ DataFit
-----------------------------------------------------------------------------
(* Facts about the sequences. *)

LEMMA PrefixOfSelf ==
  ASSUME NEW S, NEW s \in Seq(S)
  PROVE  IsPrefix(s, s)
BY DEF IsPrefix

LEMMA PrefixOfAppend ==
  ASSUME NEW S, NEW s \in Seq(S), NEW x \in S
  PROVE  IsPrefix(s, Append(s, x))
<1> DEFINE n == Len(s)
           t == Append(s, x)
<1>1. /\ n \in Nat /\ t \in Seq(S) /\ Len(t) = n + 1
      /\ \A i \in 1..n : t[i] = s[i]
  BY AppendProperties
<1>2. SubSeq(s, 1, n) = [i \in 1..n |-> s[i]]
  BY <1>1
<1>3. SubSeq(t, 1, n) = [i \in 1..n |-> t[i]]
  BY <1>1
<1> HIDE DEF n, t
<1>4. SubSeq(s, 1, n) = SubSeq(t, 1, n)
  BY <1>1, <1>2, <1>3
<1> QED
  BY <1>1, <1>4 DEF IsPrefix, n, t

(* One more callback. *)
LEMMA OpenGrows ==
  ASSUME NEW s \in Seq(Events), IsOpen(s), NEW e \in Events
  PROVE  /\ Append(s, e) \in Seq(Events)
         /\ e \in {"message", "ping", "pong"} => IsOpen(Append(s, e))
         /\ e \in {"error", "close"} => IsEnded(Append(s, e))
<1> DEFINE n == Len(s)
           t == Append(s, e)
<1>1. /\ n \in Nat /\ n > 0 /\ t \in Seq(Events)
      /\ Len(t) = n + 1 /\ t[n + 1] = e
      /\ \A i \in 1..n : t[i] = s[i]
  BY AppendProperties DEF IsOpen
<1>2. t[1] = "open" /\ \A i \in 2..n : t[i] \in {"message", "ping", "pong"}
  BY <1>1 DEF IsOpen
<1>3. \A i \in 2..(n + 1) : i \in 2..n \/ i = n + 1
  BY <1>1
<1>4. Len(t) - 1 = n
  BY <1>1
<1> HIDE DEF n, t
<1>5. CASE e \in {"message", "ping", "pong"}
  BY <1>1, <1>2, <1>3, <1>5 DEF IsOpen, t
<1>6. CASE e \in {"error", "close"}
  <2>1. IsEnded(t)
    BY <1>1, <1>2, <1>4, <1>6 DEF IsEnded
  <2> QED
    BY <1>1, <1>6, <2>1 DEF t
<1> QED
  BY <1>5, <1>6 DEF Events

LEMMA OpenTooBig ==
  ASSUME NEW s \in Seq(Events), IsOpen(s)
  PROVE  /\ s \o <<"error", "close">> \in Seq(Events)
         /\ IsEnded(s \o <<"error", "close">>)
<1> DEFINE n == Len(s)
           t == s \o <<"error", "close">>
<1>0. <<"error", "close">> \in Seq(Events)
  BY DEF Events
<1>1. /\ n \in Nat /\ n > 0 /\ t \in Seq(Events)
      /\ Len(t) = n + 2 /\ t[n + 1] = "error" /\ t[n + 2] = "close"
      /\ \A i \in 1..n : t[i] = s[i]
  BY <1>0 DEF IsOpen
<1>2. t[1] = "open" /\ \A i \in 2..n : t[i] \in {"message", "ping", "pong"}
  BY <1>1 DEF IsOpen
<1>3. /\ Len(t) - 1 = n + 1
      /\ \A i \in 2..(n + 1) : i \in 2..n \/ i = n + 1
  BY <1>1
<1> HIDE DEF n, t
<1>4. IsEnded(t)
  BY <1>1, <1>2, <1>3 DEF IsEnded
<1> QED
  BY <1>1, <1>4 DEF t

LEMMA FirstCalls ==
  /\ Append(<<>>, "open") \in Seq(Events) /\ IsOpen(Append(<<>>, "open"))
  /\ Append(<<>>, "error") \in Seq(Events) /\ IsEnded(Append(<<>>, "error"))
<1>1. /\ Append(<<>>, "open") = <<"open">>
      /\ Append(<<>>, "error") = <<"error">>
  OBVIOUS
<1>2. IsOpen(<<"open">>) /\ IsEnded(<<"error">>)
  BY DEF IsOpen, IsEnded
<1>3. <<"open">> \in Seq(Events) /\ <<"error">> \in Seq(Events)
  BY DEF Events
<1> QED
  BY <1>1, <1>2, <1>3

-----------------------------------------------------------------------------
LEMMA InitInv == Init => Inv
<1> SUFFICES ASSUME Init PROVE Inv
  OBVIOUS
<1>1. Types
  BY DEF Init, Types, Stages, Opening
<1>2. CallsFit /\ BytesFit /\ DataFit
  BY DEF Init, CallsFit, BytesFit, DataFit, NoneRead, OneRead, Opening,
         Reading
<1> QED
  BY <1>1, <1>2 DEF Inv

(* Facts about the stages, once for all. *)
LEMMA StageFacts ==
  /\ Opening \cap Reading = {} /\ "done" \notin Opening \cup Reading
  /\ {"post", "head", "length", "content"} = Reading
  /\ NoneRead \/ OneRead \/ stage = "done" \/ stage \notin Stages
  /\ NoneRead => ~OneRead
  /\ OneRead => stage \in Reading
BY DEF Opening, Reading, Stages, NoneRead, OneRead

LEMMA NeedNat == Types => Need \in Nat
<1> SUFFICES ASSUME Types PROVE Need \in Nat
  OBVIOUS
<1>1. frame.width \in Nat /\ frame.length \in Nat
  <2>1. CASE frame \in Frames
    <3>1. /\ frame.width \in {0} \cup LengthWidths
          /\ frame.length \in ContentLengths
      BY <2>1 DEF Frames
    <3>2. LengthWidths \subseteq {2, 8} /\ ContentLengths \subseteq Nat
      BY BytesAssumption
    <3>3. frame.width \in {0, 2, 8}
      BY <3>1, <3>2, Zenon
    <3>4. frame.length \in Nat
      BY <3>1, <3>2, Zenon
    <3> QED
      BY <3>3, <3>4
  <2>2. CASE frame = NoFrame
    BY <2>2 DEF NoFrame
  <2> QED
    BY <2>1, <2>2 DEF Types
<1> QED
  BY <1>1 DEF Need

(* Nothing the invariant speaks of is changed, but that the client may be   *)
(* on its way to destruction.                                               *)
LEMMA SameInv ==
  ASSUME Inv, runner' = runner \/ runner' = FALSE,
         UNCHANGED <<stage, result, frame, input, fragmented, calls,
                     delivered, peer>>
  PROVE  Inv'
<1> USE DEF input, peer
<1>1. Types'
  BY DEF Inv, Types
<1>2. CallsFit'
  BY DEF Inv, CallsFit, Types
<1>3. BytesFit'
  BY DEF Inv, BytesFit, Need
<1>4. DataFit'
  BY DEF Inv, DataFit, NoneRead, OneRead, LastSent, LastPiece
<1> QED
  BY <1>1, <1>2, <1>3, <1>4 DEF Inv

(* An operation is over: it got what was missing, or it failed. *)
LEMMA ResultInv ==
  ASSUME Inv, Pending,
         \/ /\ stage # "head" /\ result' = "ok"
            /\ buffered' = IF stage \in Reading
                           THEN buffered + Missing(additional, Need)
                           ELSE buffered
         \/ result' = "error" /\ buffered' = buffered,
         UNCHANGED <<runner, stage, frame, additional, fragmented, calls,
                     delivered, peer>>
  PROVE  Inv'
<1> USE DEF peer
<1>1. stage \notin {"post", "done"} /\ result = "none"
  BY StageFacts DEF Pending
<1>2. additional \in Nat /\ buffered \in Nat /\ Need \in Nat
  BY NeedNat DEF Inv, Types
<1>3. Missing(additional, Need) \in Nat
  BY <1>2 DEF Missing
<1>4. Types'
  BY <1>2, <1>3 DEF Inv, Types
<1>5. CallsFit'
  BY DEF Inv, CallsFit
<1>6. Need' = Need
  BY DEF Need
<1>7. BytesFit'
  BY <1>1, <1>2, <1>6 DEF Inv, BytesFit
<1>8. (NoneRead' <=> NoneRead) /\ (OneRead' <=> OneRead)
  BY <1>1 DEF NoneRead, OneRead
<1>9. DataFit'
  BY <1>8 DEF Inv, DataFit, LastSent, LastPiece
<1> QED
  BY <1>4, <1>5, <1>7, <1>9 DEF Inv

(* A frame is sent and its head read: what the peer had completed before    *)
(* has been delivered, so that the frame is all there is to deliver.        *)
LEMMA CompleteHeadInv ==
  ASSUME Inv, CompleteHead
  PROVE  Inv'
<1> DEFINE p == <<sent, 0>>
           m == Append(partial, p)
<1>1. PICK f \in Frames :
         /\ MaySend(f)
         /\ frame' = f
         /\ messages' = IF f.kind \in {"whole", "last"}
                        THEN Append(messages, m) ELSE messages
         /\ partial' = CASE f.kind \in {"whole", "last"} -> <<>>
                         [] f.kind \in {"first", "middle"} -> m
                         [] OTHER -> partial
  BY DEF CompleteHead
<1>2. /\ stage = "head" /\ result = "none" /\ result' = "ok"
      /\ sent' = sent + 1
      /\ buffered' = buffered + Missing(additional, 2)
      /\ UNCHANGED <<runner, stage, additional, fragmented, calls, delivered>>
  BY DEF CompleteHead, Pending, client
<1>3. /\ sent \in Nat /\ sent' \in Nat /\ sent' > 0 /\ LastPiece' = p
      /\ p \in Pieces
  BY <1>2 DEF Inv, Types, LastPiece, Pieces
<1>4. /\ partial \in Seq(Pieces) /\ m \in Seq(Pieces)
      /\ messages \in Seq(Seq(Pieces))
      /\ Append(messages, m) \in Seq(Seq(Pieces))
  BY <1>3, AppendProperties DEF Inv, Types
<1>5. partial = fragmented /\ messages = delivered
  BY <1>2 DEF Inv, DataFit, NoneRead
<1>6. partial' \in Seq(Pieces) /\ messages' \in Seq(Seq(Pieces))
  BY <1>1, <1>4
<1>7. Need' = 2 /\ additional \in Nat /\ buffered \in Nat
  BY <1>2 DEF Need, Inv, Types
<1>8. Missing(additional, 2) \in Nat
  BY <1>7 DEF Missing
<1>9. Types'
  BY <1>1, <1>2, <1>3, <1>6, <1>7, <1>8 DEF Inv, Types
<1>10. CallsFit'
  BY <1>2 DEF Inv, CallsFit
<1>11. BytesFit'
  BY <1>2, <1>7 DEF Inv, BytesFit, Reading
<1>12. LastSent'
  <2> HIDE DEF m
  <2>1. CASE f.kind \in {"whole", "last"}
    BY <1>1, <1>2, <1>3, <1>5, <2>1 DEF LastSent, DataFrames, m
  <2>2. CASE f.kind \in {"first", "middle"}
    BY <1>1, <1>2, <1>3, <1>5, <2>2 DEF LastSent, DataFrames, m
  <2>3. CASE f.kind \notin DataFrames
    BY <1>1, <1>2, <1>3, <1>5, <2>3 DEF LastSent, DataFrames
  <2> QED
    BY <2>1, <2>2, <2>3 DEF DataFrames
<1>13. DataFit'
  BY <1>2, <1>12 DEF DataFit, NoneRead, Opening
<1> QED
  BY <1>9, <1>10, <1>11, <1>13 DEF Inv
-----------------------------------------------------------------------------
(* The handlers that open the connection, and those that end it *)

LEMMA OpeningInv ==
  ASSUME Inv, HandleOpening
  PROVE  Inv'
<1>1. PICK s, t \in Opening : Handle(s, "ok") /\ Begin(t, "request")
  BY DEF HandleOpening
<1>2. /\ stage \in Opening /\ stage' \in Opening /\ result' = "none"
      /\ UNCHANGED <<runner, frame, additional, buffered, fragmented, calls,
                     delivered, sent, partial, messages>>
  BY <1>1 DEF HandleOpening, Handle, Begin, client, input, peer
<1>3. stage' \notin Reading \cup {"done"} /\ NoneRead /\ NoneRead' /\ ~OneRead'
  BY <1>2 DEF Opening, Reading, NoneRead, OneRead
<1>4. Types'
  BY <1>2 DEF Inv, Types, Stages
<1>5. CallsFit'
  BY <1>2, <1>3 DEF Inv, CallsFit
<1>6. BytesFit'
  BY <1>3 DEF BytesFit, Reading
<1>7. DataFit'
  BY <1>2, <1>3 DEF Inv, DataFit
<1> QED
  BY <1>4, <1>5, <1>6, <1>7 DEF Inv

(* The response is there, and perhaps the first bytes after it. *)
LEMMA OpenInv ==
  ASSUME Inv, HandleOpen
  PROVE  Inv'
<1>1. PICK n \in Leftovers : additional' = n /\ buffered' = n
  BY DEF HandleOpen
<1>2. /\ stage = "read" /\ stage' = "post" /\ result' = "none"
      /\ calls' = Append(calls, "open")
      /\ UNCHANGED <<runner, frame, fragmented, delivered, sent, partial,
                     messages>>
  BY DEF HandleOpen, Handle, Call, ReadNext, Begin, client, peer
<1>3. n \in Nat
  BY BytesAssumption
<1>4. calls = <<>>
  BY <1>2 DEF Inv, CallsFit, Opening
<1>5. calls' \in Seq(Events) /\ IsOpen(calls')
  BY <1>2, <1>4, FirstCalls
<1>6. Types'
  BY <1>1, <1>2, <1>3, <1>5 DEF Inv, Types, Stages, Reading
<1>7. CallsFit'
  BY <1>2, <1>5 DEF CallsFit, Opening
<1>8. BytesFit'
  BY <1>1, <1>2 DEF BytesFit
<1>9. DataFit'
  BY <1>2 DEF Inv, DataFit, NoneRead, OneRead, Opening
<1> QED
  BY <1>6, <1>7, <1>8, <1>9 DEF Inv

(* Nothing was delivered that the peer has not completed before. *)
LEMMA Prefix ==
  ASSUME Inv
  PROVE  IsPrefix(delivered, messages)
<1>1. /\ delivered \in Seq(Seq(Pieces)) /\ fragmented \in Seq(Pieces)
      /\ sent \in Nat
  BY DEF Inv, Types
<1>2. CASE messages = delivered
  BY <1>1, <1>2, PrefixOfSelf
<1>3. CASE OneRead /\ frame.kind \in {"whole", "last"}
  <2>1. LastSent /\ LastPiece \in Pieces
    BY <1>1, <1>3 DEF Inv, DataFit, LastSent, LastPiece, Pieces
  <2>2. Append(fragmented, LastPiece) \in Seq(Pieces)
    BY <1>1, <2>1, AppendProperties
  <2> QED
    BY <1>1, <1>3, <2>1, <2>2, PrefixOfAppend DEF LastSent
<1>4. CASE OneRead /\ frame.kind \notin {"whole", "last"}
  BY <1>2, <1>4 DEF Inv, DataFit, LastSent, DataFrames
<1>5. NoneRead \/ OneRead \/ stage = "done"
  BY StageFacts DEF Inv, Types
<1> QED
  BY <1>2, <1>3, <1>4, <1>5 DEF Inv, DataFit

(* A connection ends, whatever it was doing. *)
LEMMA EndInv ==
  ASSUME Inv, EndReading, calls' \in Seq(Events),
         \/ IsEnded(calls')
         \/ ~runner /\ (calls' = <<>> \/ IsOpen(calls')),
         UNCHANGED <<runner, fragmented, delivered, peer>>
  PROVE  Inv'
<1> USE DEF peer
<1>1. /\ stage' = "done" /\ result' = "none" /\ frame' = NoFrame
      /\ additional' = 0 /\ buffered' = 0
  BY DEF EndReading
<1>2. Types'
  BY <1>1 DEF Inv, Types, Stages
<1>3. CallsFit' /\ BytesFit'
  BY <1>1 DEF CallsFit, BytesFit, Opening, Reading
<1>4. DataFit'
  BY <1>1, Prefix DEF DataFit, NoneRead, OneRead, Opening
<1> QED
  BY <1>2, <1>3, <1>4 DEF Inv

LEMMA EndsInv ==
  ASSUME Inv, \/ HandleNothing \/ HandleError \/ HandleMasked \/ TooBig
              \/ HandleClose
  PROVE  Inv'
<1>1. /\ calls \in Seq(Events) /\ "error" \in Events /\ "close" \in Events
      /\ CallsFit
  BY DEF Inv, Types, Events
<1>2. CASE HandleNothing
  <2>1. ~runner /\ calls' = calls /\ stage \in Opening \cup Reading
    BY <1>2, StageFacts DEF HandleNothing, Inv, Types, BytesFit, Stages
  <2> QED
    BY <1>1, <1>2, <2>1, EndInv DEF HandleNothing, End, CallsFit, client
<1>3. CASE HandleError
  <2>1. /\ stage \in Opening \cup Reading
        /\ calls' = Append(calls, "error") /\ EndReading
        /\ UNCHANGED <<runner, fragmented, delivered, peer>>
    BY <1>3 DEF HandleError, Handle, Call, End, client, Opening
  <2>2. calls' \in Seq(Events) /\ IsEnded(calls')
    <3>1. CASE stage \in Opening
      BY <1>1, <2>1, <3>1, FirstCalls DEF CallsFit
    <3>2. CASE stage \in Reading
      BY <1>1, <2>1, <3>2, OpenGrows DEF CallsFit
    <3> QED
      BY <2>1, <3>1, <3>2
  <2> QED
    BY <2>1, <2>2, EndInv
<1>4. CASE HandleMasked \/ HandleClose
  <2>1. /\ stage \in Reading
        /\ calls' = Append(calls, "close") /\ EndReading
        /\ UNCHANGED <<runner, fragmented, delivered, peer>>
    BY <1>4 DEF HandleMasked, HandleClose, Handle, Call, EndClosing, client,
                Reading
  <2>2. calls' \in Seq(Events) /\ IsEnded(calls')
    BY <1>1, <2>1, OpenGrows DEF CallsFit
  <2> QED
    BY <2>1, <2>2, EndInv
<1>5. CASE TooBig
  <2>1. /\ stage \in Reading
        /\ calls' = calls \o <<"error", "close">> /\ EndReading
        /\ UNCHANGED <<runner, fragmented, delivered, peer>>
    BY <1>5 DEF TooBig, LengthKnown, Handle, EndClosing, client, Reading
  <2>2. calls' \in Seq(Events) /\ IsEnded(calls')
    BY <1>1, <2>1, OpenTooBig DEF CallsFit
  <2> QED
    BY <2>1, <2>2, EndInv
<1> QED
  BY <1>2, <1>3, <1>4, <1>5

-----------------------------------------------------------------------------
(* The handlers that read frames *)

LEMMA StartReadInv ==
  ASSUME Inv, StartRead
  PROVE  Inv'
<1>1. /\ stage = "post" /\ stage' = "head" /\ result' = result
      /\ UNCHANGED <<runner, frame, additional, buffered, fragmented, calls,
                     delivered, sent, partial, messages>>
  BY DEF StartRead, client, input, peer
<1>2. result = "none" /\ buffered = additional
  BY <1>1 DEF Inv, BytesFit, Reading
<1>3. Types'
  BY <1>1 DEF Inv, Types, Stages, Reading
<1>4. CallsFit'
  BY <1>1 DEF Inv, CallsFit, Opening, Reading
<1>5. BytesFit'
  BY <1>1, <1>2 DEF BytesFit
<1>6. DataFit'
  BY <1>1, <1>2 DEF Inv, DataFit, NoneRead, OneRead
<1> QED
  BY <1>3, <1>4, <1>5, <1>6 DEF Inv

(* The bytes of the header are taken: what is left is what is additional.   *)
LEMMA ConsumeFits ==
  ASSUME Inv, stage \in Reading, result = "ok", Consume
  PROVE  /\ additional' \in Nat /\ buffered' \in Nat
         /\ buffered' = additional'
<1>1. Need \in Nat /\ additional \in Nat
  BY NeedNat DEF Inv, Types
<1>2. buffered = additional + Missing(additional, Need)
  BY DEF Inv, BytesFit
<1> QED
  BY <1>1, <1>2 DEF Consume, Rest, Missing

(* Reading goes on with the same frame. *)
LEMMA ReadingInv ==
  ASSUME Inv, HandleHead \/ ReadContent
  PROVE  Inv'
<1>1. /\ OneRead /\ result = "ok" /\ Consume
      /\ stage' \in {"length", "content"} /\ result' = "none"
      /\ UNCHANGED <<runner, frame, fragmented, calls, delivered, sent,
                     partial, messages>>
  BY DEF HandleHead, ReadContent, LengthKnown, Handle, OneRead, Begin, client,
         peer
<1>2. stage \in Reading /\ stage' \in Reading
  BY <1>1, StageFacts DEF Reading
<1>3. /\ additional' \in Nat /\ buffered' \in Nat
      /\ buffered' = additional'
  BY <1>1, <1>2, ConsumeFits
<1>4. Types'
  BY <1>1, <1>2, <1>3 DEF Inv, Types, Stages
<1>5. CallsFit'
  BY <1>1, <1>2, StageFacts DEF Inv, CallsFit, Opening
<1>6. BytesFit'
  BY <1>1, <1>3 DEF BytesFit
<1>7. LastSent'
  BY <1>1 DEF Inv, DataFit, LastSent, LastPiece
<1>8. DataFit'
  BY <1>1, <1>7 DEF DataFit, NoneRead, Opening
<1> QED
  BY <1>4, <1>5, <1>6, <1>8 DEF Inv

(* The content of a frame is there: with the bytes of further frames gone   *)
(* to the next message, or none there, it has its own and no others.        *)
LEMMA ContentFits ==
  ASSUME Inv, NEW kinds, ContentDone(kinds)
  PROVE  /\ OneRead /\ LastSent /\ frame.kind \in kinds
         /\ frame' = NoFrame
         /\ additional' \in Nat /\ buffered' = additional'
         /\ Piece = LastPiece /\ LastPiece \in Pieces
<1>1. stage = "content" /\ result = "ok" /\ stage \in Reading
  BY DEF ContentDone, Handle, Reading
<1>2. OneRead /\ LastSent
  BY <1>1 DEF Inv, DataFit, OneRead
<1>3. Need = frame.length /\ Need \in Nat /\ additional \in Nat
  BY <1>1, NeedNat DEF Need, Inv, Types
<1>4. buffered = additional + Missing(additional, Need)
  BY <1>1 DEF Inv, BytesFit
<1>5. additional' \in Nat /\ buffered' = additional'
  BY <1>3, <1>4 DEF ContentDone, Rest, Missing
<1>6. IF Rest(additional, frame.length) > 0
      THEN TRUE ELSE buffered - frame.length = 0
  BY <1>3, <1>4 DEF Rest, Missing
<1>7. Piece = LastPiece
  BY <1>6 DEF Piece, LastPiece
<1>8. LastPiece \in Pieces
  BY <1>2 DEF LastSent, LastPiece, Pieces, Inv, Types
<1> QED
  BY <1>2, <1>5, <1>7, <1>8 DEF ContentDone

(* A frame has been dealt with: what is told keeps the connection open, and *)
(* what was sent and what was received agree again.                         *)
LEMMA NextFrameInv ==
  ASSUME Inv, NEW kinds, ContentDone(kinds), ReadNext,
         UNCHANGED <<runner, peer>>,
         fragmented' \in Seq(Pieces), delivered' \in Seq(Seq(Pieces)),
         calls' \in Seq(Events), IsOpen(calls'),
         partial = fragmented', messages = delivered'
  PROVE  Inv'
<1> USE DEF peer
<1>1. stage' = "post" /\ result' = "none"
  BY DEF ReadNext, Begin
<1>2. /\ frame' = NoFrame
      /\ additional' \in Nat /\ buffered' = additional'
  BY ContentFits
<1>3. Types'
  BY <1>1, <1>2 DEF Inv, Types, Stages, Reading
<1>4. CallsFit'
  BY <1>1 DEF CallsFit, Opening
<1>5. BytesFit'
  BY <1>1, <1>2 DEF BytesFit
<1>6. DataFit'
  BY <1>1 DEF DataFit, NoneRead, OneRead
<1> QED
  BY <1>3, <1>4, <1>5, <1>6 DEF Inv

LEMMA FrameInv ==
  ASSUME Inv, HandlePiece \/ HandleMessage \/ HandleControl
  PROVE  Inv'
<1>1. /\ calls \in Seq(Events) /\ fragmented \in Seq(Pieces)
      /\ delivered \in Seq(Seq(Pieces))
      /\ stage \in Reading /\ IsOpen(calls)
  BY DEF Inv, Types, CallsFit, HandlePiece, HandleMessage, HandleControl,
         ContentDone, Handle, Reading
<1>2. CASE HandlePiece
  <2>1. /\ ContentDone({"first", "middle"}) /\ ReadNext
        /\ fragmented' = Append(fragmented, Piece)
        /\ UNCHANGED <<runner, calls, delivered, peer>>
    BY <1>2 DEF HandlePiece, client
  <2>2. /\ LastSent /\ frame.kind \in {"first", "middle"}
        /\ Piece = LastPiece /\ LastPiece \in Pieces
    BY <2>1, ContentFits
  <2>3. /\ fragmented' \in Seq(Pieces)
        /\ partial = fragmented' /\ messages = delivered'
    BY <1>1, <2>1, <2>2, AppendProperties DEF LastSent
  <2> QED
    BY <1>1, <2>1, <2>3, NextFrameInv
<1>3. CASE HandleMessage
  <2> DEFINE m == Append(fragmented, Piece)
  <2>1. /\ ContentDone({"whole", "last"}) /\ ReadNext
        /\ delivered' = Append(delivered, m)
        /\ fragmented' = <<>> /\ calls' = Append(calls, "message")
        /\ UNCHANGED <<runner, peer>>
    BY <1>3 DEF HandleMessage, Call, client
  <2>2. /\ LastSent /\ frame.kind \in {"whole", "last"}
        /\ Piece = LastPiece /\ LastPiece \in Pieces
    BY <2>1, ContentFits
  <2>3. m \in Seq(Pieces) /\ fragmented' \in Seq(Pieces)
    BY <1>1, <2>1, <2>2, AppendProperties
  <2>4. partial = fragmented' /\ messages = delivered'
    BY <2>1, <2>2 DEF LastSent
  <2> HIDE DEF m
  <2>5. delivered' \in Seq(Seq(Pieces))
    BY <1>1, <2>1, <2>3, AppendProperties
  <2>6. calls' \in Seq(Events) /\ IsOpen(calls')
    BY <1>1, <2>1, OpenGrows DEF Events
  <2> QED
    BY <2>1, <2>3, <2>4, <2>5, <2>6, NextFrameInv
<1>4. CASE HandleControl
  <2>1. /\ ContentDone({"ping", "pong"}) /\ ReadNext
        /\ calls' = Append(calls, frame.kind)
        /\ UNCHANGED <<runner, fragmented, delivered, peer>>
    BY <1>4 DEF HandleControl, Call, client
  <2>2. LastSent /\ frame.kind \in {"ping", "pong"}
    BY <2>1, ContentFits
  <2>3. partial = fragmented' /\ messages = delivered'
    BY <2>1, <2>2 DEF LastSent, DataFrames
  <2>4. calls' \in Seq(Events) /\ IsOpen(calls')
    BY <1>1, <2>1, <2>2, OpenGrows DEF Events
  <2> QED
    BY <1>1, <2>1, <2>3, <2>4, NextFrameInv
<1> QED
  BY <1>2, <1>3, <1>4
-----------------------------------------------------------------------------
LEMMA NextInv == Inv /\ [Next]_vars => Inv'
<1> SUFFICES ASSUME Inv, [Next]_vars PROVE Inv'
  OBVIOUS
<1>1. CASE UNCHANGED vars
  BY <1>1, SameInv DEF vars, client
<1>2. CASE StartAgain \/ Stop \/ Destroy
  BY <1>2, SameInv DEF StartAgain, Stop, Destroy
<1>3. CASE Send \/ SendClosing \/ WriteEnds \/ Expire \/ HandleTimer
           \/ PeerLeaves
  BY <1>3, SameInv DEF Send, SendClosing, WriteEnds, Expire, HandleTimer,
                       PeerLeaves, client
<1>4. CASE Complete
  BY <1>4, ResultInv DEF Complete, client
<1>5. CASE CompleteHead
  BY <1>5, CompleteHeadInv
<1>6. CASE Fail
  BY <1>6, ResultInv DEF Fail, client, input
<1>7. CASE Handler
  BY <1>7, OpeningInv, OpenInv, EndsInv, StartReadInv, ReadingInv, FrameInv
     DEF Handler
<1> QED
  BY <1>1, <1>2, <1>3, <1>4, <1>5, <1>6, <1>7 DEF Next

(* Whatever timers, stop, the server and errors do, the calls, the bytes and *)
(* the messages of a client stay in step.                                   *)
THEOREM Invariance == Spec => []Inv
BY InitInv, NextInv, PTL DEF Spec

(* However stop, destruction, timers, errors and the peer end a connection, *)
(* its callbacks come in the promised order, and the last one, unless the   *)
(* client is being destroyed, tells of the end.                             *)
THEOREM CallbackProtocolCorrect == Spec => []CallbackProtocol
<1>1. ASSUME Inv
      PROVE  CallbackProtocol
  <2>1. calls \in Seq(Events) /\ Len(calls) \in Nat
    BY <1>1 DEF Inv, Types
  <2>2. calls = <<>> \/ IsOpen(calls) \/ IsEnded(calls)
    BY <1>1 DEF Inv, Types, CallsFit, Stages
  <2>3. \A i \in DOMAIN calls :
          /\ calls[i] = "open" => i = 1
          /\ calls[i] \in {"message", "ping", "pong", "close"}
                => calls[1] = "open"
          /\ i < Len(calls) => calls[i] # "close"
          /\ i < Len(calls) /\ calls[i] = "error" => calls[i+1] = "close"
    <3>0. DOMAIN calls = 1..Len(calls)
      BY <2>1
    <3>1. CASE calls = <<>>
      BY <3>0, <3>1
    <3>2. CASE IsOpen(calls)
      <4>1. \A i \in 1..Len(calls) : i = 1 \/ i \in 2..Len(calls)
        BY <2>1
      <4> QED
        BY <3>0, <3>2, <4>1 DEF IsOpen
    <3>3. CASE IsEnded(calls)
      <4>1. CASE calls = <<"error">>
        BY <3>0, <4>1
      <4>2. CASE Len(calls) > 1 /\ calls[1] = "open"
        <5>1. /\ calls[Len(calls)] \in {"error", "close"}
              /\ \A i \in 2..(Len(calls) - 1) :
                   \/ calls[i] \in {"message", "ping", "pong"}
                   \/ /\ i = Len(calls) - 1 /\ calls[i] = "error"
                      /\ calls[Len(calls)] = "close"
          BY <3>3, <4>2 DEF IsEnded
        <5>2. \A i \in 1..Len(calls) :
                 i = 1 \/ i = Len(calls) \/ i \in 2..(Len(calls) - 1)
          BY <2>1
        <5>3. \A i \in 1..Len(calls) : i = Len(calls) - 1 => i + 1 = Len(calls)
          BY <2>1
        <5>4. ASSUME NEW i \in 1..Len(calls)
              PROVE  /\ calls[i] = "open" => i = 1
                     /\ i < Len(calls) => calls[i] # "close"
                     /\ i < Len(calls) /\ calls[i] = "error"
                           => calls[i+1] = "close"
          <6>1. CASE i = 1
            BY <4>2, <6>1
          <6>2. CASE i = Len(calls)
            BY <2>1, <5>1, <6>2
          <6>3. CASE i \in 2..(Len(calls) - 1)
            BY <5>1, <5>3, <6>3
          <6> QED
            BY <5>2, <6>1, <6>2, <6>3
        <5> QED
          BY <3>0, <4>2, <5>4
      <4> QED
        BY <3>3, <4>1, <4>2 DEF IsEnded
    <3> QED
      BY <2>2, <3>1, <3>2, <3>3
  <2>4. ASSUME stage = "done", runner
        PROVE  Last(<<"none">> \o calls) \in {"close", "error"}
    <3>1. IsEnded(calls)
      BY <1>1, <2>4 DEF Inv, CallsFit
    <3>2. Len(calls) > 0 /\ calls[Len(calls)] \in {"close", "error"}
      BY <3>1 DEF IsEnded
    <3>3. Last(<<"none">> \o calls) = calls[Len(calls)]
      BY <2>1, <3>2 DEF Last
    <3> QED
      BY <3>2, <3>3
  <2> QED
    BY <2>3, <2>4 DEF CallbackProtocol
<1> QED
  BY <1>1, Invariance, PTL

(* Wherever the response ended and however long the frames are, the reader  *)
(* has the bytes its handler takes, and between two reads counts those it   *)
(* has.                                                                     *)
THEOREM InStepCorrect == Spec => []InStep
<1>1. ASSUME Inv
      PROVE  InStep
  <2>1. additional \in Nat /\ Need \in Nat
    BY <1>1, NeedNat DEF Inv, Types
  <2> QED
    BY <1>1, <2>1 DEF Inv, BytesFit, InStep, Missing
<1> QED
  BY <1>1, Invariance, PTL

(* Whatever frames the peer mixes and wherever the reads end, the user gets *)
(* the messages complete, in order and once, each piece with the bytes of   *)
(* its frame and no others.                                                 *)
THEOREM MessagesDeliveredCorrect == Spec => []MessagesDelivered
<1>1. ASSUME Inv
      PROVE  MessagesDelivered
  BY <1>1, Prefix DEF Inv, DataFit, NoneRead, MessagesDelivered
<1> QED
  BY <1>1, Invariance, PTL
==============================================================================
