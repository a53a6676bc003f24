------------------------------ MODULE SendQueue ------------------------------
(* The sending side of a web socket connection.  SocketServerBase and       *)
(* SocketClientBase have the same one (src/lib/simple_webSocket_server/     *)
(* server_ws.hpp and client_ws.hpp): any thread may call send or            *)
(* send_close; frames go into send_queue under send_queue_mutex, and at     *)
(* most one asynchronous write is outstanding.  The io thread starts the    *)
(* posted write and runs its completion handler, which starts the next      *)
(* write or, after an error, gives up everything that is queued.            *)
(* A frame is header, payload and callback together.  The timer that write  *)
(* and read side share is not part of this module.                          *)
EXTENDS Naturals, Sequences, FiniteSets

CONSTANTS
    Senders,      \* threads that call send or send_close
    Frames,       \* the data frames, each sent at most once
    CloseFrames,  \* the close frames (opcode 136)
    NoFrame

ASSUME FramesAssumption ==
    /\ Frames \cap CloseFrames = {}
    /\ NoFrame \notin Frames \cup CloseFrames

VARIABLES
    send_queue,
    close_sent,
    posted,      \* writes posted to read_write_strand and not started
    inflight,    \* async_writes that have not completed
    callbacks,   \* callbacks the io thread is about to call, oldest first
    running,     \* handler_runner gives locks: stop() has not been called
    closing,     \* the close frame each sender is about to send, or NoFrame
    accepted,    \* history: frames in the order they entered send_queue
    wire,        \* history: frames written to the socket
    left,        \* history: frames in the order they left send_queue
    called       \* history: frames whose callback was called, in order

vars == <<send_queue, close_sent, posted, inflight, callbacks, running,
          closing, accepted, wire, left, called>>

AllFrames == Frames \cup CloseFrames

TypeOK ==
    /\ send_queue \in Seq(AllFrames)
    /\ close_sent \in BOOLEAN
    /\ posted \in Seq(AllFrames)
    /\ inflight \in Seq(AllFrames)
    /\ callbacks \in Seq(AllFrames)
    /\ running \in BOOLEAN
    /\ closing \in [Senders -> CloseFrames \cup {NoFrame}]
    /\ accepted \in Seq(AllFrames)
    /\ wire \in Seq(AllFrames)
    /\ left \in Seq(AllFrames)
    /\ called \in Seq(AllFrames)

Elements(s) == {s[i] : i \in DOMAIN s}

Init ==
    /\ send_queue = <<>>
    /\ close_sent = FALSE
    /\ posted = <<>>
    /\ inflight = <<>>
    /\ callbacks = <<>>
    /\ running = TRUE
    /\ closing = [s \in Senders |-> NoFrame]
    /\ accepted = <<>>
    /\ wire = <<>>
    /\ left = <<>>
    /\ called = <<>>

-----------------------------------------------------------------------------
(* send_from_queue posts a write of the front of the queue.                 *)
PostFront(queue) == posted' = Append(posted, Head(queue))

(* send: with send_queue_mutex held, append, and start writing if the frame *)
(* is alone.                                                                *)

(* Mutant: a write is started whenever a frame is appended. *)
EnqueueAndPost(f) ==
    /\ send_queue' = Append(send_queue, f)
    /\ accepted' = Append(accepted, f)
    /\ PostFront(send_queue')

Enqueue(f) ==
    /\ send_queue' = Append(send_queue, f)
    /\ accepted' = Append(accepted, f)
    /\ IF Len(send_queue') = 1 THEN PostFront(send_queue') ELSE UNCHANGED posted

Unused(f) == f \notin Elements(accepted) /\ \A s \in Senders : closing[s] # f

Send(s, f) ==
    /\ closing[s] = NoFrame
    /\ f \in Frames
    /\ Unused(f)
    /\ Enqueue(f)
    /\ UNCHANGED <<close_sent, inflight, callbacks, running, closing, wire,
                   left, called>>

(* send_close: the test of close_sent ...                                   *)
CloseTest(s, f) ==
    /\ closing[s] = NoFrame
    /\ f \in CloseFrames
    /\ Unused(f)
    /\ ~close_sent
    /\ closing' = [closing EXCEPT ![s] = f]
    /\ UNCHANGED <<send_queue, close_sent, posted, inflight, callbacks,
                   running, accepted, wire, left, called>>

(* ... and its setting are two operations on the atomic.                    *)
CloseSend(s) ==
    /\ closing[s] # NoFrame
    /\ close_sent' = TRUE
    /\ Enqueue(closing[s])
    /\ closing' = [closing EXCEPT ![s] = NoFrame]
    /\ UNCHANGED <<inflight, callbacks, running, wire, left, called>>

-----------------------------------------------------------------------------
(* The io thread.  A completion handler calls the callbacks after it has    *)
(* released send_queue_mutex and before the thread does anything else.      *)

StartWrite ==
    /\ callbacks = <<>>
    /\ posted # <<>>
    /\ running
    /\ inflight' = Append(inflight, Head(posted))
    /\ posted' = Tail(posted)
    /\ UNCHANGED <<send_queue, close_sent, callbacks, running, closing,
                   accepted, wire, left, called>>

(* continue_lock gives nothing after stop(): the posted write is dropped.   *)
DropWrite ==
    /\ callbacks = <<>>
    /\ posted # <<>>
    /\ ~running
    /\ posted' = Tail(posted)
    /\ UNCHANGED <<send_queue, close_sent, inflight, callbacks, running,
                   closing, accepted, wire, left, called>>

(* Mutant: the next write is not started when the queue holds one frame.    *)
WriteDoneForgets ==
    /\ callbacks = <<>>
    /\ inflight # <<>>
    /\ running
    /\ wire' = Append(wire, Head(inflight))
    /\ inflight' = Tail(inflight)
    /\ send_queue' = Tail(send_queue)
    /\ left' = Append(left, Head(send_queue))
    /\ callbacks' = <<Head(send_queue)>>
    /\ IF Len(send_queue') > 1 THEN PostFront(send_queue') ELSE UNCHANGED posted
    /\ UNCHANGED <<close_sent, running, closing, accepted, called>>

(* The write succeeded. *)
WriteDone ==
    /\ callbacks = <<>>
    /\ inflight # <<>>
    /\ running
    /\ wire' = Append(wire, Head(inflight))
    /\ inflight' = Tail(inflight)
    /\ send_queue' = Tail(send_queue)
    /\ left' = Append(left, Head(send_queue))
    /\ callbacks' = <<Head(send_queue)>>
    /\ IF Len(send_queue') > 0 THEN PostFront(send_queue') ELSE UNCHANGED posted
    /\ UNCHANGED <<close_sent, running, closing, accepted, called>>

(* Mutant: only the callback of the frame that failed is kept. *)
WriteFailedFirstOnly ==
    /\ callbacks = <<>>
    /\ inflight # <<>>
    /\ running
    /\ inflight' = Tail(inflight)
    /\ left' = left \o send_queue
    /\ callbacks' = <<Head(send_queue)>>
    /\ send_queue' = <<>>
    /\ UNCHANGED <<close_sent, posted, running, closing, accepted, wire, called>>

(* The write failed: everything queued is given up and told so. *)
WriteFailed ==
    /\ callbacks = <<>>
    /\ inflight # <<>>
    /\ running
    /\ inflight' = Tail(inflight)
    /\ left' = left \o send_queue
    /\ callbacks' = send_queue
    /\ send_queue' = <<>>
    /\ UNCHANGED <<close_sent, posted, running, closing, accepted, wire, called>>

(* A write that completes after stop() is not looked at: the frame may have *)
(* been written, but the queue stays as it is.                              *)
WriteIgnored ==
    /\ callbacks = <<>>
    /\ inflight # <<>>
    /\ ~running
    /\ inflight' = Tail(inflight)
    /\ \/ wire' = Append(wire, Head(inflight))
       \/ wire' = wire
    /\ UNCHANGED <<send_queue, close_sent, posted, callbacks, running, closing,
                   accepted, left, called>>

CallBack ==
    /\ callbacks # <<>>
    /\ called' = Append(called, Head(callbacks))
    /\ callbacks' = Tail(callbacks)
    /\ UNCHANGED <<send_queue, close_sent, posted, inflight, running, closing,
                   accepted, wire, left>>

(* ~SocketClientBase: ScopeRunner::stop waits until no handler runs (see    *)
(* ScopeGate).  The server never stops its runner.                          *)
Stop ==
    /\ callbacks = <<>>
    /\ running
    /\ running' = FALSE
    /\ UNCHANGED <<send_queue, close_sent, posted, inflight, callbacks,
                   closing, accepted, wire, left, called>>

-----------------------------------------------------------------------------
IoStep == StartWrite \/ DropWrite \/ WriteDone \/ WriteFailed \/ WriteIgnored
            \/ CallBack

Next ==
    \/ \E s \in Senders :
          CloseSend(s) \/ (\E f \in AllFrames : Send(s, f) \/ CloseTest(s, f))
    \/ IoStep
    \/ Stop

Spec == Init /\ [][Next]_vars

(* The io thread runs: nobody calls stop() of the server, which ends it.    *)
(* A started write completes, well or not.  That is an assumption about the *)
(* peer or the network: with timeout_idle = 0, the default, no timer ends a *)
(* write to a peer that stalls.                                             *)
FairSpec == Spec /\ WF_vars(IoStep)

-----------------------------------------------------------------------------
(* Properties *)

(* There are never two outstanding writes on one socket, whose bytes would  *)
(* interleave; and while handlers may run, whenever something is queued a    *)
(* write of the front of the queue is on its way.                           *)
OneWrite ==
    /\ Len(posted) + Len(inflight) <= 1
    /\ send_queue = <<>> => posted = <<>> /\ inflight = <<>>
    /\ (running /\ send_queue # <<>>) =>
          \/ posted = <<Head(send_queue)>> /\ inflight = <<>>
          \/ posted = <<>> /\ inflight = <<Head(send_queue)>>

(* Frames leave the queue in the order they entered it, none is skipped and *)
(* none is repeated, in spite of errors in between (for the proofs).        *)
QueueOrder == accepted = left \o send_queue

(* Each frame's callback is called once, in order, after the frame left     *)
(* (for the proofs).                                                        *)
CallbackOrder == left = called \o callbacks

(* Queue, posted handler, outstanding write and pending callbacks implement *)
(* the abstract Outbox: whatever threads send and however writes end, what  *)
(* the peer reads is a part of what was accepted, in that order and without *)
(* repetition, and every frame that was settled is reported once.           *)
Abstract == INSTANCE Outbox WITH
    Items <- AllFrames,
    settled <- Len(left),
    state <- IF running THEN "open"
             ELSE IF inflight # <<>> THEN "stopped" ELSE "over"

ImplementsOutbox == Abstract!Spec

(* Every frame that send accepted gets its callback, unless the runner is   *)
(* stopped.                                                                 *)
CallbackComes ==
    \A f \in AllFrames :
        f \in Elements(accepted) ~> (f \in Elements(called) \/ ~running)

(* "Send close only once".                                                  *)
(* FALSE of the code: two threads can pass the test of close_sent.          *)
CloseOnce == Cardinality(Elements(accepted) \cap CloseFrames) <= 1
==============================================================================
