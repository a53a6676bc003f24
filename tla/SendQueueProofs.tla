--------------------------- MODULE SendQueueProofs ---------------------------
(* Proofs about SendQueue for any number of senders and frames.  The        *)
(* conjunction of the type invariant, OneWrite and the two orders is        *)
(* inductive; with what is known of close frames that are not sent yet and  *)
(* of the outstanding write it shows that SendQueue implements Outbox.      *)
EXTENDS SendQueue, SequenceTheorems, TLAPS

Inv == TypeOK /\ OneWrite /\ QueueOrder /\ CallbackOrder

(* Sequences: taking the front. *)
LEMMA MoveHead ==
    ASSUME NEW S, NEW s \in Seq(S), NEW q \in Seq(S), q # <<>>
    PROVE  /\ Head(q) \in S
           /\ Tail(q) \in Seq(S)
           /\ Append(s, Head(q)) \in Seq(S)
           /\ Append(s, Head(q)) = s \o <<Head(q)>>
           /\ Append(s, Head(q)) \o Tail(q) = s \o q
  OBVIOUS

LEMMA ConcatEmpty ==
    ASSUME NEW S, NEW s \in Seq(S)
    PROVE  s \o <<>> = s
  OBVIOUS

(* A sequence of length at most one that is not empty has an empty tail.    *)
LEMMA ShortTail ==
    ASSUME NEW S, NEW s \in Seq(S), s # <<>>, Len(s) <= 1
    PROVE  Tail(s) = <<>> /\ Head(s) \in S /\ Len(s) = 1
<1>1. Len(s) = 1
  <2>1. Len(s) \in Nat \ {0}
    BY EmptySeq
  <2> QED
    BY <2>1
<1>2. Tail(s) \in Seq(S) /\ Len(Tail(s)) = 0 /\ Head(s) \in S
  BY <1>1, HeadTailProperties
<1>3. Tail(s) = <<>>
  BY <1>2, EmptySeq
<1> QED
  BY <1>1, <1>2, <1>3

-----------------------------------------------------------------------------
LEMMA InvInit == Init => Inv
<1> SUFFICES ASSUME Init PROVE Inv
  OBVIOUS
<1>1. <<>> \in Seq(AllFrames)
  OBVIOUS
<1>2. TypeOK
  BY <1>1 DEF Init, TypeOK
<1>3. OneWrite /\ QueueOrder /\ CallbackOrder
  BY DEF Init, OneWrite, QueueOrder, CallbackOrder
<1> QED
  BY <1>2, <1>3 DEF Inv

(* Appending a frame keeps the queue, the writes and the history in step.   *)
LEMMA EnqueueKeeps ==
    ASSUME Inv, NEW f \in AllFrames, Enqueue(f),
           UNCHANGED <<inflight, callbacks, running, wire, left, called>>
    PROVE  /\ send_queue' \in Seq(AllFrames)
           /\ accepted' \in Seq(AllFrames)
           /\ posted' \in Seq(AllFrames)
           /\ OneWrite' /\ QueueOrder' /\ CallbackOrder'
<1> USE DEF Inv, Enqueue
<1>1. /\ send_queue \in Seq(AllFrames) /\ accepted \in Seq(AllFrames)
      /\ posted \in Seq(AllFrames) /\ inflight \in Seq(AllFrames)
      /\ left \in Seq(AllFrames)
  BY DEF TypeOK
<1>2. /\ send_queue' = Append(send_queue, f)
      /\ send_queue' \in Seq(AllFrames)
      /\ accepted' \in Seq(AllFrames)
      /\ send_queue' # <<>>
  BY <1>1
<1>3. QueueOrder'
  <2>1. f \in AllFrames /\ left \in Seq(AllFrames) /\ send_queue \in Seq(AllFrames)
    BY <1>1
  <2>2. Append(left \o send_queue, f) = left \o Append(send_queue, f)
    BY ONLY <2>1
  <2> QED
    BY <2>2 DEF QueueOrder
<1>4. CallbackOrder'
  BY DEF CallbackOrder
<1>5. CASE send_queue = <<>>
  <2>1. send_queue' = <<f>> /\ Len(send_queue') = 1 /\ Head(send_queue') = f
    BY <1>1, <1>2, <1>5
  <2>2. posted = <<>> /\ inflight = <<>>
    BY <1>5 DEF OneWrite
  <2>3. posted' = <<f>>
    BY <2>1, <2>2 DEF PostFront
  <2>4. posted' \in Seq(AllFrames) /\ Len(posted') = 1 /\ Len(inflight') = 0
    BY <2>2, <2>3
  <2>5. OneWrite'
    BY <1>2, <2>1, <2>2, <2>3, <2>4 DEF OneWrite
  <2> QED
    BY <1>2, <1>3, <1>4, <2>4, <2>5
<1>6. CASE send_queue # <<>>
  <2>1. Len(send_queue') # 1 /\ Head(send_queue') = Head(send_queue)
    BY <1>1, <1>2, <1>6
  <2>2. posted' = posted
    BY <2>1
  <2>3. OneWrite'
    BY <1>2, <1>6, <2>1, <2>2 DEF OneWrite
  <2> QED
    BY <1>1, <1>2, <1>3, <1>4, <2>2, <2>3
<1> QED
  BY <1>5, <1>6

LEMMA InvSend ==
    ASSUME Inv, NEW s \in Senders, NEW f \in AllFrames, Send(s, f)
    PROVE  Inv'
<1>1. /\ send_queue' \in Seq(AllFrames)
      /\ accepted' \in Seq(AllFrames)
      /\ posted' \in Seq(AllFrames)
      /\ OneWrite' /\ QueueOrder' /\ CallbackOrder'
  BY EnqueueKeeps DEF Send
<1>2. TypeOK'
  BY <1>1 DEF Send, Inv, TypeOK
<1> QED
  BY <1>1, <1>2 DEF Inv

LEMMA InvCloseSend ==
    ASSUME Inv, NEW s \in Senders, CloseSend(s)
    PROVE  Inv'
<1>1. PICK f \in AllFrames : f = closing[s]
  BY DEF CloseSend, Inv, TypeOK, AllFrames
<1>2. /\ send_queue' \in Seq(AllFrames)
      /\ accepted' \in Seq(AllFrames)
      /\ posted' \in Seq(AllFrames)
      /\ OneWrite' /\ QueueOrder' /\ CallbackOrder'
  BY <1>1, EnqueueKeeps DEF CloseSend
<1>3. TypeOK'
  BY <1>2 DEF CloseSend, Inv, TypeOK
<1> QED
  BY <1>2, <1>3 DEF Inv

LEMMA InvStartWrite == Inv /\ StartWrite => Inv'
<1> SUFFICES ASSUME Inv, StartWrite PROVE Inv'
  OBVIOUS
<1> USE DEF Inv, StartWrite
<1>1. posted \in Seq(AllFrames) /\ inflight \in Seq(AllFrames)
  BY DEF TypeOK
<1>2. /\ send_queue # <<>>
      /\ posted = <<Head(send_queue)>> /\ inflight = <<>>
  BY DEF OneWrite
<1>3. /\ posted' = <<>> /\ inflight' = <<Head(send_queue)>>
      /\ Len(posted') = 0 /\ Len(inflight') = 1
      /\ posted' \in Seq(AllFrames) /\ inflight' \in Seq(AllFrames)
  BY <1>1, <1>2
<1>4. TypeOK'
  BY <1>3 DEF TypeOK
<1>5. OneWrite'
  BY <1>2, <1>3 DEF OneWrite
<1>6. QueueOrder' /\ CallbackOrder'
  BY DEF QueueOrder, CallbackOrder
<1> QED
  BY <1>4, <1>5, <1>6

LEMMA InvDropWrite == Inv /\ DropWrite => Inv'
<1> SUFFICES ASSUME Inv, DropWrite PROVE Inv'
  OBVIOUS
<1> USE DEF Inv, DropWrite
<1>1. posted \in Seq(AllFrames) /\ inflight \in Seq(AllFrames)
  BY DEF TypeOK
<1>2. Len(posted) <= 1 /\ Len(inflight) = 0 /\ send_queue # <<>>
  BY <1>1 DEF OneWrite
<1>3. posted' = <<>>
  BY <1>1, <1>2, ShortTail
<1>4. posted' \in Seq(AllFrames) /\ Len(posted') = 0
  BY ONLY <1>3, EmptySeq
<1>5. TypeOK'
  BY <1>4 DEF TypeOK
<1>6. OneWrite'
  BY <1>2, <1>4 DEF OneWrite
<1>7. QueueOrder' /\ CallbackOrder'
  BY DEF QueueOrder, CallbackOrder
<1> QED
  BY <1>5, <1>6, <1>7

LEMMA InvWriteDone == Inv /\ WriteDone => Inv'
<1> SUFFICES ASSUME Inv, WriteDone PROVE Inv'
  OBVIOUS
<1> USE DEF Inv, WriteDone
<1>1. /\ send_queue \in Seq(AllFrames) /\ left \in Seq(AllFrames)
      /\ posted \in Seq(AllFrames) /\ inflight \in Seq(AllFrames)
      /\ wire \in Seq(AllFrames) /\ called \in Seq(AllFrames)
  BY DEF TypeOK
<1>2. /\ send_queue # <<>>
      /\ posted = <<>> /\ inflight = <<Head(send_queue)>>
  BY DEF OneWrite
<1>3. /\ Head(send_queue) \in AllFrames
      /\ send_queue' \in Seq(AllFrames) /\ left' \in Seq(AllFrames)
      /\ left' = left \o <<Head(send_queue)>>
      /\ left' \o send_queue' = left \o send_queue
  BY <1>1, <1>2, MoveHead
<1>4. /\ inflight' = <<>> /\ Len(inflight') = 0
      /\ inflight' \in Seq(AllFrames) /\ wire' \in Seq(AllFrames)
      /\ callbacks' \in Seq(AllFrames)
  BY <1>1, <1>2, <1>3
<1>5. posted' \in Seq(AllFrames) /\ OneWrite'
  <2>1. CASE send_queue' = <<>>
    <3>1. posted' = <<>>
      BY <1>2, <2>1
    <3> QED
      BY <1>4, <2>1, <3>1 DEF OneWrite
  <2>2. CASE send_queue' # <<>>
    <3>1. Len(send_queue') > 0 /\ Head(send_queue') \in AllFrames
      BY <1>3, <2>2
    <3>2. posted' = <<Head(send_queue')>>
      BY <1>2, <3>1 DEF PostFront
    <3>3. posted' \in Seq(AllFrames) /\ Len(posted') = 1
      BY <3>1, <3>2
    <3> QED
      BY <1>4, <2>2, <3>2, <3>3 DEF OneWrite
  <2> QED
    BY <2>1, <2>2
<1>6. TypeOK'
  BY <1>3, <1>4, <1>5 DEF TypeOK
<1>7. QueueOrder'
  BY <1>3 DEF QueueOrder
<1>8. CallbackOrder'
  <2>1. left = called
    BY <1>1, ConcatEmpty DEF CallbackOrder
  <2> QED
    BY <1>3, <2>1 DEF CallbackOrder
<1> QED
  BY <1>5, <1>6, <1>7, <1>8

LEMMA InvWriteFailed == Inv /\ WriteFailed => Inv'
<1> SUFFICES ASSUME Inv, WriteFailed PROVE Inv'
  OBVIOUS
<1> USE DEF Inv, WriteFailed
<1>1. /\ send_queue \in Seq(AllFrames) /\ left \in Seq(AllFrames)
      /\ inflight \in Seq(AllFrames) /\ called \in Seq(AllFrames)
  BY DEF TypeOK
<1>2. posted = <<>> /\ inflight = <<Head(send_queue)>>
  BY DEF OneWrite
<1>3. /\ inflight' = <<>> /\ inflight' \in Seq(AllFrames)
      /\ Len(inflight') = 0 /\ Len(posted') = 0
  BY <1>1, <1>2
<1>4. left' \in Seq(AllFrames) /\ send_queue' \in Seq(AllFrames)
  BY <1>1
<1>5. TypeOK'
  BY <1>3, <1>4 DEF TypeOK
<1>6. OneWrite'
  BY <1>2, <1>3 DEF OneWrite
<1>7. QueueOrder'
  BY <1>4, ConcatEmpty DEF QueueOrder
<1>8. CallbackOrder'
  <2>1. left = called
    BY <1>1, ConcatEmpty DEF CallbackOrder
  <2> QED
    BY <2>1 DEF CallbackOrder
<1> QED
  BY <1>5, <1>6, <1>7, <1>8

LEMMA InvWriteIgnored == Inv /\ WriteIgnored => Inv'
<1> SUFFICES ASSUME Inv, WriteIgnored PROVE Inv'
  OBVIOUS
<1> USE DEF Inv, WriteIgnored
<1>1. /\ posted \in Seq(AllFrames) /\ inflight \in Seq(AllFrames)
      /\ wire \in Seq(AllFrames)
  BY DEF TypeOK
<1>2. Len(inflight) <= 1 /\ Len(posted) = 0 /\ send_queue # <<>>
  BY <1>1 DEF OneWrite
<1>3. inflight' = <<>> /\ Head(inflight) \in AllFrames
  BY <1>1, <1>2, ShortTail
<1>4. inflight' \in Seq(AllFrames) /\ Len(inflight') = 0
  BY ONLY <1>3, EmptySeq
<1>5. wire' \in Seq(AllFrames)
  <2>1. wire \in Seq(AllFrames) /\ Head(inflight) \in AllFrames
    BY <1>1, <1>3
  <2>2. Append(wire, Head(inflight)) \in Seq(AllFrames)
    BY ONLY <2>1
  <2> QED
    BY <2>1, <2>2
<1>6. TypeOK'
  BY <1>4, <1>5 DEF TypeOK
<1>7. OneWrite'
  BY <1>2, <1>4 DEF OneWrite
<1>8. QueueOrder' /\ CallbackOrder'
  BY DEF QueueOrder, CallbackOrder
<1> QED
  BY <1>6, <1>7, <1>8

LEMMA InvCallBack == Inv /\ CallBack => Inv'
<1> SUFFICES ASSUME Inv, CallBack PROVE Inv'
  OBVIOUS
<1> USE DEF Inv, CallBack
<1>1. /\ called \in Seq(AllFrames) /\ callbacks \in Seq(AllFrames)
  BY DEF TypeOK
<1>2. /\ called' \in Seq(AllFrames) /\ callbacks' \in Seq(AllFrames)
      /\ called' \o callbacks' = called \o callbacks
  BY <1>1, MoveHead
<1>3. TypeOK'
  BY <1>2 DEF TypeOK
<1>4. OneWrite' /\ QueueOrder' /\ CallbackOrder'
  BY <1>2 DEF OneWrite, QueueOrder, CallbackOrder
<1> QED
  BY <1>3, <1>4

(* Every step preserves Inv. *)
LEMMA InvNext == Inv /\ [Next]_vars => Inv'
<1> SUFFICES ASSUME Inv, [Next]_vars PROVE Inv'
  OBVIOUS
<1>1. ASSUME NEW s \in Senders, NEW f \in AllFrames, Send(s, f) PROVE Inv'
  BY <1>1, InvSend
<1>2. ASSUME NEW s \in Senders, NEW f \in AllFrames, CloseTest(s, f) PROVE Inv'
  BY <1>2 DEF CloseTest, Inv, TypeOK, OneWrite, QueueOrder, CallbackOrder
<1>3. ASSUME NEW s \in Senders, CloseSend(s) PROVE Inv'
  BY <1>3, InvCloseSend
<1>4. CASE Stop
  BY <1>4 DEF Stop, Inv, TypeOK, OneWrite, QueueOrder, CallbackOrder
<1>5. CASE UNCHANGED vars
  BY <1>5 DEF vars, Inv, TypeOK, OneWrite, QueueOrder, CallbackOrder
<1> QED
  BY <1>1, <1>2, <1>3, <1>4, <1>5, InvStartWrite, InvDropWrite, InvWriteDone,
     InvWriteFailed, InvWriteIgnored, InvCallBack DEF Next, IoStep

(* In every reachable state Inv holds. *)
THEOREM Invariant == Spec => []Inv
  BY InvInit, InvNext, PTL DEF Spec

(* The queues and histories hold frames, whatever the threads do.           *)
THEOREM TypeCorrect == Spec => []TypeOK
<1>1. Inv => TypeOK
  BY DEF Inv
<1> QED
  BY <1>1, Invariant, PTL

(* At most one asynchronous write is outstanding on a socket, and one is    *)
(* whenever something is queued, however many threads send.                 *)
THEOREM OneWriteCorrect == Spec => []OneWrite
<1>1. Inv => OneWrite
  BY DEF Inv
<1> QED
  BY <1>1, Invariant, PTL

(* Frames leave send_queue in the order send put them in.                   *)
THEOREM QueueOrderCorrect == Spec => []QueueOrder
<1>1. Inv => QueueOrder
  BY DEF Inv
<1> QED
  BY <1>1, Invariant, PTL

(* The callbacks are called once each and in that order, errors included.   *)
THEOREM CallbackOrderCorrect == Spec => []CallbackOrder
<1>1. Inv => CallbackOrder
  BY DEF Inv
<1> QED
  BY <1>1, Invariant, PTL

-----------------------------------------------------------------------------
(* The refinement.  A close frame that a thread is about to send is not in  *)
(* the queue yet and is no other thread's ...                               *)
ClosingFresh ==
    \A s \in Senders : closing[s] # NoFrame =>
        /\ \A i \in DOMAIN accepted : accepted[i] # closing[s]
        /\ \A r \in Senders : closing[r] = closing[s] => r = s

(* ... what is being written is the front of the queue, after stop, too ... *)
FrontInFlight ==
    inflight # <<>> => send_queue # <<>> /\ inflight = <<Head(send_queue)>>

(* ... and callbacks are only called while the runner runs.                 *)
CallbacksRun == callbacks # <<>> => running

Extra == ClosingFresh /\ FrontInFlight /\ CallbacksRun

LEMMA AppendElements ==
    ASSUME NEW S, NEW s \in Seq(S), NEW e \in S, NEW x,
           \A i \in DOMAIN s : s[i] # x, e # x
    PROVE  \A i \in DOMAIN Append(s, e) : Append(s, e)[i] # x
  OBVIOUS

LEMMA AppendFront ==
    ASSUME NEW S, NEW s \in Seq(S), NEW e \in S, s # <<>>
    PROVE  Append(s, e) # <<>> /\ Head(Append(s, e)) = Head(s)
  OBVIOUS

LEMMA ExtraSend ==
    ASSUME Inv, Extra, NEW s \in Senders, NEW f \in AllFrames, Send(s, f)
    PROVE  Extra'
<1> USE DEF Inv, Extra, Send, Enqueue
<1>1. accepted \in Seq(AllFrames) /\ send_queue \in Seq(AllFrames)
  BY DEF TypeOK
<1>2. ClosingFresh'
  <2> SUFFICES ASSUME NEW r \in Senders, closing[r] # NoFrame
               PROVE  \A i \in DOMAIN accepted' : accepted'[i] # closing[r]
    BY DEF ClosingFresh
  <2>1. \A i \in DOMAIN accepted : accepted[i] # closing[r]
    BY DEF ClosingFresh
  <2>2. f # closing[r]
    BY DEF Unused
  <2> QED
    BY <1>1, <2>1, <2>2, AppendElements
<1>3. FrontInFlight'
  BY <1>1, AppendFront DEF FrontInFlight
<1> QED
  BY <1>2, <1>3 DEF CallbacksRun

LEMMA ExtraCloseTest ==
    ASSUME Inv, Extra, NEW s \in Senders, NEW f \in AllFrames, CloseTest(s, f)
    PROVE  Extra'
<1>1. ClosingFresh'
  <2>1. /\ closing' = [closing EXCEPT ![s] = f]
        /\ closing \in [Senders -> CloseFrames \cup {NoFrame}]
        /\ \A r \in Senders : closing[r] # f
        /\ \A i \in DOMAIN accepted : accepted[i] # f
        /\ accepted' = accepted
    BY DEF CloseTest, Unused, Elements, Inv, TypeOK
  <2> QED
    BY <2>1 DEF ClosingFresh, Extra
<1> QED
  BY <1>1 DEF CloseTest, Extra, FrontInFlight, CallbacksRun

LEMMA ExtraCloseSend ==
    ASSUME Inv, Extra, NEW s \in Senders, CloseSend(s)
    PROVE  Extra'
<1> USE DEF Inv, Extra, CloseSend, Enqueue
<1>1. /\ accepted \in Seq(AllFrames) /\ send_queue \in Seq(AllFrames)
      /\ closing \in [Senders -> CloseFrames \cup {NoFrame}]
  BY DEF TypeOK
<1>2. PICK f \in AllFrames : f = closing[s]
  BY <1>1 DEF AllFrames
<1>3. ClosingFresh'
  <2> SUFFICES ASSUME NEW r \in Senders, closing'[r] # NoFrame
               PROVE  /\ \A i \in DOMAIN accepted' : accepted'[i] # closing'[r]
                      /\ \A q \in Senders : closing'[q] = closing'[r] => q = r
    BY DEF ClosingFresh
  <2>1. r # s /\ closing'[r] = closing[r] /\ closing[r] # NoFrame
    BY <1>1
  <2>2. /\ \A i \in DOMAIN accepted : accepted[i] # closing[r]
        /\ \A q \in Senders : closing[q] = closing[r] => q = r
    BY <2>1 DEF ClosingFresh
  <2>3. f # closing[r]
    BY <1>2, <2>1, <2>2
  <2>4. \A i \in DOMAIN accepted' : accepted'[i] # closing[r]
    BY <1>1, <1>2, <2>2, <2>3, AppendElements
  <2>5. \A q \in Senders : closing'[q] = closing[r] => q = r
    BY <1>1, <2>1, <2>2
  <2> QED
    BY <2>1, <2>4, <2>5
<1>4. FrontInFlight'
  BY <1>1, <1>2, AppendFront DEF FrontInFlight
<1> QED
  BY <1>3, <1>4 DEF CallbacksRun

LEMMA ExtraIoStep == Inv /\ Extra /\ IoStep => Extra'
<1> SUFFICES ASSUME Inv, Extra, IoStep PROVE Extra'
  OBVIOUS
<1> USE DEF Inv, Extra
<1>1. /\ inflight \in Seq(AllFrames) /\ posted \in Seq(AllFrames)
      /\ Len(posted) + Len(inflight) <= 1
  BY DEF TypeOK, OneWrite
<1>2. ClosingFresh'
  BY DEF IoStep, StartWrite, DropWrite, WriteDone, WriteFailed, WriteIgnored,
         CallBack, ClosingFresh
<1>3. inflight # <<>> => Tail(inflight) = <<>>
  BY <1>1, ShortTail
<1>4. FrontInFlight'
  <2>1. CASE StartWrite
    <3>1. posted = <<Head(send_queue)>> /\ inflight = <<>> /\ send_queue # <<>>
      BY <2>1 DEF StartWrite, OneWrite
    <3>2. inflight' = <<Head(send_queue)>>
      BY <2>1, <3>1 DEF StartWrite
    <3> QED
      BY <2>1, <3>1, <3>2 DEF StartWrite, FrontInFlight
  <2>2. CASE DropWrite \/ CallBack
    BY <2>2 DEF DropWrite, CallBack, FrontInFlight
  <2>3. CASE WriteDone \/ WriteFailed \/ WriteIgnored
    BY <2>3, <1>3 DEF WriteDone, WriteFailed, WriteIgnored, FrontInFlight
  <2> QED
    BY <2>1, <2>2, <2>3 DEF IoStep
<1>5. CallbacksRun'
  <2>1. <<>> \in Seq(AllFrames)
    OBVIOUS
  <2> QED
    BY DEF IoStep, StartWrite, DropWrite, WriteDone, WriteFailed, WriteIgnored,
         CallBack, CallbacksRun
<1> QED
  BY <1>2, <1>4, <1>5

(* Every step preserves Extra. *)
LEMMA ExtraNext == Inv /\ Extra /\ [Next]_vars => Extra'
<1> SUFFICES ASSUME Inv, Extra, [Next]_vars PROVE Extra'
  OBVIOUS
<1>1. CASE Stop
  BY <1>1 DEF Stop, Extra, ClosingFresh, FrontInFlight, CallbacksRun
<1>2. CASE UNCHANGED vars
  BY <1>2 DEF vars, Extra, ClosingFresh, FrontInFlight, CallbacksRun
<1> QED
  BY <1>1, <1>2, ExtraSend, ExtraCloseTest, ExtraCloseSend, ExtraIoStep DEF Next

-----------------------------------------------------------------------------
(* Where the next frame and the next callback are in the order of           *)
(* acceptance.                                                              *)
LEMMA NextItem ==
    ASSUME NEW S, NEW s \in Seq(S), NEW q \in Seq(S), q # <<>>
    PROVE  /\ Len(s) < Len(s \o q)
           /\ (s \o q)[Len(s) + 1] = Head(q)
           /\ Len(s \o <<Head(q)>>) = Len(s) + 1
<1>1. Len(q) > 0 /\ Head(q) = q[1]
  BY EmptySeq
<1> QED
  BY <1>1, ConcatProperties

LEMMA StepAccept ==
    ASSUME Inv, NEW f \in AllFrames, Enqueue(f),
           \A i \in DOMAIN accepted : accepted[i] # f,
           UNCHANGED <<inflight, running, wire, left, called>>
    PROVE  Abstract!Accept(f)
  BY DEF Enqueue, Abstract!Accept

LEMMA StepWriteDone == Inv /\ Extra /\ WriteDone => Abstract!Write
<1> SUFFICES ASSUME Inv, Extra, WriteDone PROVE Abstract!Write
  OBVIOUS
<1> USE DEF Inv, Extra, WriteDone
<1>1. /\ left \in Seq(AllFrames) /\ send_queue \in Seq(AllFrames)
      /\ called \in Seq(AllFrames)
      /\ send_queue # <<>> /\ inflight = <<Head(send_queue)>>
      /\ accepted = left \o send_queue /\ left = called \o callbacks
  BY DEF TypeOK, FrontInFlight, QueueOrder, CallbackOrder
<1>2. left = called
  BY <1>1, ConcatEmpty
<1>3. /\ Len(left) < Len(accepted)
      /\ accepted[Len(left) + 1] = Head(send_queue)
      /\ Head(send_queue) \in AllFrames
  BY <1>1, NextItem, MoveHead
<1>4. Len(left') = Len(left) + 1
  <2>1. left' = Append(left, Head(send_queue))
    OBVIOUS
  <2> QED
    BY ONLY <2>1, <1>1, <1>3
<1>5. Abstract!Due
  BY <1>2, <1>3 DEF Abstract!Due
<1>6. wire' = Append(wire, accepted[Len(left) + 1])
  BY <1>1, <1>3
<1> QED
  BY <1>4, <1>5, <1>6 DEF Abstract!Write

LEMMA StepWriteFailed == Inv /\ Extra /\ WriteFailed => Abstract!GiveUp
<1> SUFFICES ASSUME Inv, Extra, WriteFailed PROVE Abstract!GiveUp
  OBVIOUS
<1> USE DEF Inv, Extra, WriteFailed
<1>1. /\ left \in Seq(AllFrames) /\ send_queue \in Seq(AllFrames)
      /\ called \in Seq(AllFrames)
      /\ send_queue # <<>>
      /\ accepted = left \o send_queue /\ left = called \o callbacks
  BY DEF TypeOK, FrontInFlight, QueueOrder, CallbackOrder
<1>2. left = called
  BY <1>1, ConcatEmpty
<1>3. Len(left) < Len(accepted)
  BY <1>1, NextItem
<1>4. Abstract!Due
  BY <1>2, <1>3 DEF Abstract!Due
<1>5. left' = accepted /\ accepted' = accepted
  BY <1>1
<1> QED
  BY <1>4, <1>5 DEF Abstract!GiveUp

LEMMA StepCallBack == Inv /\ Extra /\ CallBack => Abstract!Report
<1> SUFFICES ASSUME Inv, Extra, CallBack PROVE Abstract!Report
  OBVIOUS
<1> USE DEF Inv, Extra, CallBack
<1>1. /\ called \in Seq(AllFrames) /\ callbacks \in Seq(AllFrames)
      /\ left \in Seq(AllFrames) /\ send_queue \in Seq(AllFrames)
      /\ callbacks # <<>> /\ running
      /\ accepted = left \o send_queue /\ left = called \o callbacks
  BY DEF TypeOK, CallbacksRun, QueueOrder, CallbackOrder
<1>2. Len(called) < Len(left) /\ left[Len(called) + 1] = Head(callbacks)
  BY <1>1, NextItem
<1>3. accepted[Len(called) + 1] = left[Len(called) + 1]
  BY <1>1, <1>2, ConcatProperties
<1> QED
  BY <1>1, <1>2, <1>3 DEF Abstract!Report

LEMMA StepStop == Inv /\ Extra /\ Stop => Abstract!Stop
<1> SUFFICES ASSUME Inv, Extra, Stop PROVE Abstract!Stop
  OBVIOUS
<1> USE DEF Inv, Extra, Stop
<1>1. /\ left \in Seq(AllFrames) /\ send_queue \in Seq(AllFrames)
      /\ called \in Seq(AllFrames)
      /\ accepted = left \o send_queue /\ left = called \o callbacks
  BY DEF TypeOK, QueueOrder, CallbackOrder
<1>2. left = called
  BY <1>1, ConcatEmpty
<1>3. inflight # <<>> => Len(left) < Len(accepted)
  BY <1>1, NextItem DEF FrontInFlight
<1> QED
  BY <1>2, <1>3 DEF Abstract!Stop, Abstract!Due

LEMMA StepWriteIgnored == Inv /\ Extra /\ WriteIgnored => Abstract!LastWrite
<1> SUFFICES ASSUME Inv, Extra, WriteIgnored PROVE Abstract!LastWrite
  OBVIOUS
<1> USE DEF Inv, Extra, WriteIgnored
<1>1. /\ left \in Seq(AllFrames) /\ send_queue \in Seq(AllFrames)
      /\ inflight \in Seq(AllFrames)
      /\ send_queue # <<>> /\ inflight = <<Head(send_queue)>>
      /\ accepted = left \o send_queue
  BY DEF TypeOK, FrontInFlight, QueueOrder
<1>2. accepted[Len(left) + 1] = Head(inflight)
  BY <1>1, NextItem
<1>3. inflight' = <<>>
  BY <1>1
<1> QED
  BY <1>1, <1>2, <1>3 DEF Abstract!LastWrite

(* Every step of the connection is a step of the outbox or a stutter.       *)
LEMMA RefinementStep ==
    Inv /\ Extra /\ [Next]_vars => [Abstract!Next]_(Abstract!vars)
<1> SUFFICES ASSUME Inv, Extra, [Next]_vars
             PROVE  [Abstract!Next]_(Abstract!vars)
  OBVIOUS
<1>1. ASSUME NEW s \in Senders, NEW f \in AllFrames, Send(s, f)
      PROVE  [Abstract!Next]_(Abstract!vars)
  <2>1. Abstract!Accept(f)
    BY <1>1, StepAccept DEF Send, Unused, Elements
  <2> QED
    BY <2>1 DEF Abstract!Next
<1>2. ASSUME NEW s \in Senders, CloseSend(s)
      PROVE  [Abstract!Next]_(Abstract!vars)
  <2>1. PICK f \in AllFrames : f = closing[s]
    BY <1>2 DEF CloseSend, Inv, TypeOK, AllFrames
  <2>2. \A i \in DOMAIN accepted : accepted[i] # f
    BY <1>2, <2>1 DEF CloseSend, Extra, ClosingFresh
  <2>3. Abstract!Accept(f)
    BY <1>2, <2>1, <2>2, StepAccept DEF CloseSend
  <2> QED
    BY <2>3 DEF Abstract!Next
<1>3. ASSUME NEW s \in Senders, NEW f \in AllFrames, CloseTest(s, f)
      PROVE  [Abstract!Next]_(Abstract!vars)
  BY <1>3 DEF CloseTest, Abstract!vars
<1>4. CASE StartWrite
  BY <1>4 DEF StartWrite, Abstract!vars
<1>5. CASE DropWrite
  BY <1>5 DEF DropWrite, Abstract!vars
<1>6. CASE UNCHANGED vars
  BY <1>6 DEF vars, Abstract!vars
<1> QED
  BY <1>1, <1>2, <1>3, <1>4, <1>5, <1>6, StepWriteDone, StepWriteFailed,
     StepCallBack, StepStop, StepWriteIgnored DEF Next, IoStep, Abstract!Next

LEMMA RefinementInit == Init => Extra /\ Abstract!Init
<1> SUFFICES ASSUME Init PROVE Extra /\ Abstract!Init
  OBVIOUS
<1>1. Len(left) = 0
  BY DEF Init
<1> QED
  BY <1>1 DEF Init, Extra, ClosingFresh, FrontInFlight, CallbacksRun,
              Abstract!Init

(* A connection implements the outbox: frames reach the wire in the order   *)
(* they were accepted and none twice, and each is reported once, in order,  *)
(* whatever the threads send, whichever write fails, and whenever the       *)
(* runner is stopped.                                                       *)
THEOREM Refinement == Spec => ImplementsOutbox
<1>1. Spec => []Extra
  BY RefinementInit, ExtraNext, Invariant, PTL DEF Spec
<1> QED
  BY <1>1, RefinementInit, RefinementStep, Invariant, PTL
     DEF Spec, ImplementsOutbox, Abstract!Spec
==============================================================================
