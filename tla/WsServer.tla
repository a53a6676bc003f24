------------------------------- MODULE WsServer -------------------------------
(* The accepting and reading side of SocketServerBase and SocketServer<WSS> *)
(* (src/lib/simple_webSocket_server/server_ws.hpp and server_wss.hpp): an   *)
(* acceptor, and for each connection a chain of asynchronous operations,    *)
(* each started by the completion handler of the one before: TLS handshake, *)
(* request, response, then frame by frame two bytes, an extended length if  *)
(* there is one, and the content.  A timer may run during each of them.     *)
(* start, stop and stop_accept are called from other threads.               *)
(*                                                                          *)
(* An operation completes (its handler is queued) and its handler runs in   *)
(* two steps, so that a timer or stop may come between them.  A handler is  *)
(* one step: what it shares with stop is the set of connections, which has  *)
(* its own mutex.  continue_lock is always granted, since nothing stops the *)
(* server's handler_runner.                                                 *)
(* Left out: send, which also arms the timer (SendQueue), and Asio's rare   *)
(* completion of a read with no bytes, after which the read is repeated.    *)
EXTENDS Naturals, Sequences, FiniteSets, SequencesExt

CONSTANTS
    Conns,        \* the connections that peers make
    MaxFrames,    \* bound: frames a peer sends
    MaxStarts     \* bound: calls of start

ASSUME BoundsAssumption == MaxFrames \in Nat /\ MaxStarts \in Nat \ {0}

(* What a frame is to the reader.  The first four carry pieces of messages: *)
(* a whole one, or the first, a middle or the last fragment.                *)
DataFrames == {"whole", "first", "middle", "last"}
Frames == DataFrames \cup {"ping", "pong", "close", "unmasked"}

(* Of its length the reader tells apart whether it is in the first two      *)
(* bytes or extended, and whether, with the fragments before it, it exceeds *)
(* max_message_size.                                                        *)
Forms == [kind : Frames, extended : BOOLEAN, big : BOOLEAN]

Handshake == {"tls", "request", "response", "refusal"}
Reading == {"post", "head", "length", "content"}
Stages == {"new", "accepted", "done"} \cup Handshake \cup Reading

NoFrame == [kind |-> "none", extended |-> FALSE, big |-> FALSE]

VARIABLES
    internal_io_service, \* start made the io_service and runs it
    timeout_idle,        \* config.timeout_idle > 0
    starts,              \* calls of start so far
    acceptor,            \* the acceptor is open
    accepting,           \* async_accepts that wait for a peer
    spinning,            \* async_accepts on a closed acceptor, which fail
    running,             \* io_service runs handlers
    connections,         \* endpoint.connections
    stage,               \* the operation each connection waits for
    result,              \* its completion: "none" while it is pending
    frame,               \* the frame each connection is reading
    timer,               \* the timer of each connection is running
    expired,             \* an expired timer's handler is queued
    shut,                \* the connection's socket has been closed
    fragmented,          \* fragmented_in_message: its pieces
    calls,               \* history: the endpoint's callbacks, in order
    delivered,           \* history: the messages passed to on_message
    sent,                \* history: frames each peer has sent
    partial,             \* the message each peer is in the middle of
    messages,            \* history: the messages each peer has completed
    swept                \* history: connections that stop has closed

server == <<internal_io_service, timeout_idle, starts, acceptor, accepting,
            spinning, running>>
peer == <<sent, partial, messages>>
vars == <<internal_io_service, timeout_idle, starts, acceptor, accepting,
          spinning, running, connections, stage, result, frame, timer,
          expired, shut, fragmented, calls, delivered, sent, partial,
          messages, swept>>

Init ==
    /\ internal_io_service \in BOOLEAN
    /\ timeout_idle \in BOOLEAN
    /\ starts = 0
    /\ acceptor = FALSE
    /\ accepting = 0
    /\ spinning = 0
    /\ running = ~internal_io_service
    /\ connections = {}
    /\ stage = [c \in Conns |-> "new"]
    /\ result = [c \in Conns |-> "none"]
    /\ frame = [c \in Conns |-> NoFrame]
    /\ timer = [c \in Conns |-> FALSE]
    /\ expired = [c \in Conns |-> FALSE]
    /\ shut = [c \in Conns |-> FALSE]
    /\ fragmented = [c \in Conns |-> <<>>]
    /\ calls = [c \in Conns |-> <<>>]
    /\ delivered = [c \in Conns |-> <<>>]
    /\ sent = [c \in Conns |-> 0]
    /\ partial = [c \in Conns |-> <<>>]
    /\ messages = [c \in Conns |-> <<>>]
    /\ swept = {}

-----------------------------------------------------------------------------
(* start, stop and stop_accept *)

(* Start again is for a server that was stopped.  Completions that were     *)
(* queued in an internal io_service when it stopped are handled now.        *)
Start ==
    /\ starts < MaxStarts
    /\ ~acceptor
    /\ internal_io_service => ~running
    /\ starts' = starts + 1
    /\ acceptor' = TRUE
    /\ accepting' = accepting + 1
    /\ running' = TRUE
    /\ UNCHANGED <<internal_io_service, timeout_idle, spinning, connections,
                   stage, result, frame, timer, expired, shut, fragmented,
                   calls, delivered, peer, swept>>

(* Closing the acceptor cancels async_accept, whose handler then does       *)
(* nothing.                                                                 *)
StopAccept ==
    /\ acceptor
    /\ acceptor' = FALSE
    /\ accepting' = 0
    /\ UNCHANGED <<internal_io_service, timeout_idle, starts, spinning,
                   running, connections, stage, result, frame, timer, expired,
                   shut, fragmented, calls, delivered, peer, swept>>

(* Mutant: the connections are forgotten, but not closed. *)
StopForgets ==
    /\ starts > 0
    /\ acceptor' = FALSE
    /\ accepting' = 0
    /\ swept' = swept \cup connections
    /\ connections' = {}
    /\ running' = ~internal_io_service
    /\ UNCHANGED <<internal_io_service, timeout_idle, starts, spinning, stage,
                   result, frame, timer, expired, shut, fragmented, calls,
                   delivered, peer>>

Stop ==
    /\ starts > 0
    /\ acceptor' = FALSE
    /\ accepting' = 0
    /\ shut' = [c \in Conns |-> shut[c] \/ c \in connections]
    /\ swept' = swept \cup connections
    /\ connections' = {}
    /\ running' = ~internal_io_service
    /\ UNCHANGED <<internal_io_service, timeout_idle, starts, spinning, stage,
                   result, frame, timer, expired, fragmented, calls,
                   delivered, peer>>

-----------------------------------------------------------------------------
(* accept: on a closed acceptor async_accept fails at once, with an error   *)
(* other than operation_aborted.                                            *)

Accept ==
    IF acceptor
    THEN accepting' = accepting + 1 /\ UNCHANGED spinning
    ELSE spinning' = spinning + 1 /\ UNCHANGED accepting

(* A peer is accepted; the handler is queued. *)
Arrive(c) ==
    /\ stage[c] = "new"
    /\ accepting > 0
    /\ accepting' = accepting - 1
    /\ stage' = [stage EXCEPT ![c] = "accepted"]
    /\ UNCHANGED <<internal_io_service, timeout_idle, starts, acceptor,
                   spinning, running, connections, result, frame, timer,
                   expired, shut, fragmented, calls, delivered, peer, swept>>

(* Begins the operation of a stage.  set_timeout(0) removes the timer, a    *)
(* new timer replaces the old one.                                          *)
Begin(c, s, timed) ==
    /\ stage' = [stage EXCEPT ![c] = s]
    /\ result' = [result EXCEPT ![c] = "none"]
    /\ timer' = [timer EXCEPT ![c] = timed]

(* cancel_timeout and no further operation: the connection object goes.     *)
End(c) == Begin(c, "done", FALSE)

(* The reader ends with send_close.  Its write, unless another is on its    *)
(* way or the close frame was sent before, sets the timer.                  *)
EndClosing(c) == \E timed \in {FALSE, timeout_idle} : Begin(c, "done", timed)

HandleAccept(c) ==
    /\ running
    /\ stage[c] = "accepted"
    /\ Accept
    /\ Begin(c, "tls", TRUE)
    /\ UNCHANGED <<internal_io_service, timeout_idle, starts, acceptor,
                   running, connections, frame, expired, shut, fragmented,
                   calls, delivered, peer, swept>>

(* The failed accept tries again, and again, until the acceptor is open.    *)
HandleSpin ==
    /\ running
    /\ spinning > 0
    /\ acceptor
    /\ spinning' = spinning - 1
    /\ accepting' = accepting + 1
    /\ UNCHANGED <<internal_io_service, timeout_idle, starts, acceptor,
                   running, connections, stage, result, frame, timer, expired,
                   shut, fragmented, calls, delivered, peer, swept>>

(* upgrade: a connection that another server has accepted. *)
Upgrade(c) ==
    /\ stage[c] = "new"
    /\ \E s \in {"response", "refusal", "done"} : Begin(c, s, s # "done")
    /\ UNCHANGED <<server, connections, frame, expired, shut, fragmented,
                   calls, delivered, peer, swept>>

-----------------------------------------------------------------------------
(* The network and the clock *)

Pending(c) == stage[c] \in (Handshake \cup Reading) \ {"post"}
                /\ result[c] = "none"

(* A peer that follows the protocol: the fragments of a message come        *)
(* together, control frames may come in between, nothing after close.       *)
(* Control frames are short, but too big if the fragments before them leave *)
(* no room.  (A frame that is not masked is the one error looked for; what  *)
(* comes after its first two bytes does not matter.)                        *)
MaySend(c, f) ==
    /\ f.kind \in {"whole", "first"} => partial[c] = <<>>
    /\ f.kind \in {"middle", "last"} => partial[c] # <<>>
    /\ f.kind \notin DataFrames => ~f.extended
    /\ f.kind \notin DataFrames /\ f.big => partial[c] # <<>>
    /\ f.kind = "unmasked" => ~f.big

(* An operation succeeds.  A read of the first two bytes gets a frame; when *)
(* the content is there too, the peer has sent it.                          *)
Complete(c) ==
    /\ Pending(c)
    /\ stage[c] # "head"
    /\ stage[c] \in {"response", "refusal"} => ~shut[c]
    /\ result' = [result EXCEPT ![c] = "ok"]
    /\ UNCHANGED <<server, connections, stage, frame, timer, expired, shut,
                   fragmented, calls, delivered, peer, swept>>

CompleteHead(c) ==
    /\ Pending(c)
    /\ stage[c] = "head"
    /\ sent[c] < MaxFrames
    /\ \E f \in Forms :
         /\ MaySend(c, f)
         /\ frame' = [frame EXCEPT ![c] = f]
         /\ LET piece == Append(partial[c], sent[c]) IN
              IF f.kind \in {"whole", "last"}
              THEN /\ partial' = [partial EXCEPT ![c] = <<>>]
                   /\ messages' = [messages EXCEPT ![c] = Append(@, piece)]
              ELSE /\ partial' = IF f.kind \in {"first", "middle"}
                                 THEN [partial EXCEPT ![c] = piece]
                                 ELSE partial
                   /\ UNCHANGED messages
    /\ sent' = [sent EXCEPT ![c] = @ + 1]
    /\ result' = [result EXCEPT ![c] = "ok"]
    /\ UNCHANGED <<server, connections, stage, timer, expired, shut,
                   fragmented, calls, delivered, swept>>

(* The peer, or the network, ends the connection. *)
PeerLeaves(c) ==
    /\ stage[c] \notin {"new", "done"}
    /\ ~shut[c]
    /\ shut' = [shut EXCEPT ![c] = TRUE]
    /\ UNCHANGED <<server, connections, stage, result, frame, timer, expired,
                   fragmented, calls, delivered, peer, swept>>

(* An operation on a closed socket fails, if it does not find what it needs *)
(* in a buffer.  So may a TLS handshake.                                    *)
Fail(c) ==
    /\ Pending(c)
    /\ shut[c] \/ stage[c] = "tls"
    /\ result' = [result EXCEPT ![c] = "error"]
    /\ UNCHANGED <<server, connections, stage, frame, timer, expired, shut,
                   fragmented, calls, delivered, peer, swept>>

Expire(c) ==
    /\ timer[c]
    /\ timer' = [timer EXCEPT ![c] = FALSE]
    /\ expired' = [expired EXCEPT ![c] = TRUE]
    /\ UNCHANGED <<server, connections, stage, result, frame, shut,
                   fragmented, calls, delivered, peer, swept>>

(* Neither cancel_timeout nor set_timeout calls back a handler that is      *)
(* queued already: it closes the connection whatever it is doing by now.    *)
HandleTimer(c) ==
    /\ running
    /\ expired[c]
    /\ expired' = [expired EXCEPT ![c] = FALSE]
    /\ shut' = [shut EXCEPT ![c] = TRUE]
    /\ UNCHANGED <<server, connections, stage, result, frame, timer,
                   fragmented, calls, delivered, peer, swept>>

-----------------------------------------------------------------------------
(* The handlers of the handshake *)

Handle(c, s, r) == running /\ stage[c] = s /\ result[c] = r

Call(c, event) == calls' = [calls EXCEPT ![c] = Append(@, event)]

(* connection_close and connection_error, with a callback each. *)
Leave(c, event) ==
    /\ connections' = connections \ {c}
    /\ Call(c, event)

(* read_message: posted, with the idle timer running if there is one. *)
ReadNext(c) == Begin(c, "post", timeout_idle)

(* Mutant: the timer is not set again for the request. *)
HandleTlsUntimed(c) ==
    /\ Handle(c, "tls", "ok")
    /\ Begin(c, "request", FALSE)
    /\ UNCHANGED <<server, connections, frame, expired, shut, fragmented,
                   calls, delivered, peer, swept>>

(* Its timer, as that of all operations of the handshake, takes             *)
(* timeout_request, 5 seconds by default.                                   *)
HandleTls(c) ==
    /\ Handle(c, "tls", "ok")
    /\ Begin(c, "request", TRUE)
    /\ UNCHANGED <<server, connections, frame, expired, shut, fragmented,
                   calls, delivered, peer, swept>>

(* A request that cannot be parsed, or whose path no endpoint matches, is   *)
(* not answered.                                                            *)
HandleRequest(c) ==
    /\ Handle(c, "request", "ok")
    /\ \E s \in {"response", "refusal", "done"} : Begin(c, s, s # "done")
    /\ UNCHANGED <<server, connections, frame, expired, shut, fragmented,
                   calls, delivered, peer, swept>>

HandleHandshakeFailed(c) ==
    /\ \E s \in {"tls", "request", "refusal"} : Handle(c, s, "error")
    /\ End(c)
    /\ UNCHANGED <<server, connections, frame, expired, shut, fragmented,
                   calls, delivered, peer, swept>>

HandleRefusal(c) ==
    /\ Handle(c, "refusal", "ok")
    /\ End(c)
    /\ UNCHANGED <<server, connections, frame, expired, shut, fragmented,
                   calls, delivered, peer, swept>>

(* Mutant: the connection is not entered into connections. *)
OpenUnlisted(c) ==
    /\ Handle(c, "response", "ok")
    /\ Call(c, "open")
    /\ ReadNext(c)
    /\ UNCHANGED <<server, connections, frame, expired, shut, fragmented,
                   delivered, peer, swept>>

HandleOpen(c) ==
    /\ Handle(c, "response", "ok")
    /\ connections' = connections \cup {c}
    /\ Call(c, "open")
    /\ ReadNext(c)
    /\ UNCHANGED <<server, frame, expired, shut, fragmented, delivered, peer,
                   swept>>

(* Any other operation that failed: on_error. *)
HandleError(c) ==
    /\ \E s \in {"response", "head", "length", "content"} :
          Handle(c, s, "error")
    /\ Leave(c, "error")
    /\ End(c)
    /\ UNCHANGED <<server, frame, expired, shut, fragmented, delivered, peer,
                   swept>>

-----------------------------------------------------------------------------
(* The handlers that read frames *)

(* The posted function starts the read of two bytes. *)
StartRead(c) ==
    /\ running
    /\ stage[c] = "post"
    /\ stage' = [stage EXCEPT ![c] = "head"]
    /\ UNCHANGED <<server, connections, result, frame, timer, expired, shut,
                   fragmented, calls, delivered, peer, swept>>

(* "Close connection if unmasked message from client" *)
HandleUnmasked(c) ==
    /\ Handle(c, "head", "ok")
    /\ frame[c].kind = "unmasked"
    /\ Leave(c, "close")
    /\ EndClosing(c)
    /\ UNCHANGED <<server, frame, expired, shut, fragmented, delivered, peer,
                   swept>>

HandleHead(c) ==
    /\ Handle(c, "head", "ok")
    /\ frame[c].kind # "unmasked" /\ frame[c].extended
    /\ Begin(c, "length", timeout_idle)
    /\ UNCHANGED <<server, connections, frame, expired, shut, fragmented,
                   calls, delivered, peer, swept>>

LengthKnown(c) ==
    \/ Handle(c, "head", "ok") /\ frame[c].kind # "unmasked"
         /\ ~frame[c].extended
    \/ Handle(c, "length", "ok")

(* read_message_content *)
ReadContent(c) ==
    /\ LengthKnown(c)
    /\ ~frame[c].big
    /\ Begin(c, "content", timeout_idle)
    /\ UNCHANGED <<server, connections, frame, expired, shut, fragmented,
                   calls, delivered, peer, swept>>

(* A message that is too big: on_error and then on_close. *)
TooBig(c) ==
    /\ LengthKnown(c)
    /\ frame[c].big
    /\ connections' = connections \ {c}
    /\ calls' = [calls EXCEPT ![c] = @ \o <<"error", "close">>]
    /\ EndClosing(c)
    /\ UNCHANGED <<server, frame, expired, shut, fragmented, delivered, peer,
                   swept>>

Piece(c) == sent[c] - 1

HandlePiece(c) ==
    /\ Handle(c, "content", "ok")
    /\ frame[c].kind \in {"first", "middle"}
    /\ fragmented' = [fragmented EXCEPT ![c] = Append(@, Piece(c))]
    /\ ReadNext(c)
    /\ UNCHANGED <<server, connections, frame, expired, shut, calls,
                   delivered, peer, swept>>

HandleMessage(c) ==
    /\ Handle(c, "content", "ok")
    /\ frame[c].kind \in {"whole", "last"}
    /\ LET pieces == IF frame[c].kind = "last"
                     THEN Append(fragmented[c], Piece(c))
                     ELSE <<Piece(c)>>
       IN  delivered' = [delivered EXCEPT ![c] = Append(@, pieces)]
    /\ Call(c, "message")
    /\ fragmented' = [fragmented EXCEPT ![c] = <<>>]
    /\ ReadNext(c)
    /\ UNCHANGED <<server, connections, frame, expired, shut, peer, swept>>

(* Mutant: control frames reset fragmented_in_message. *)
HandleControlResets(c) ==
    /\ Handle(c, "content", "ok")
    /\ frame[c].kind \in {"ping", "pong"}
    /\ Call(c, frame[c].kind)
    /\ fragmented' = [fragmented EXCEPT ![c] = <<>>]
    /\ ReadNext(c)
    /\ UNCHANGED <<server, connections, frame, expired, shut, delivered, peer,
                   swept>>

(* A ping is answered with a pong before on_ping is called. *)
HandleControl(c) ==
    /\ Handle(c, "content", "ok")
    /\ frame[c].kind \in {"ping", "pong"}
    /\ Call(c, frame[c].kind)
    /\ ReadNext(c)
    /\ UNCHANGED <<server, connections, frame, expired, shut, fragmented,
                   delivered, peer, swept>>

(* Mutant: reading goes on after a close frame. *)
HandleCloseReads(c) ==
    /\ Handle(c, "content", "ok")
    /\ frame[c].kind = "close"
    /\ Leave(c, "close")
    /\ ReadNext(c)
    /\ UNCHANGED <<server, frame, expired, shut, fragmented, delivered, peer,
                   swept>>

HandleClose(c) ==
    /\ Handle(c, "content", "ok")
    /\ frame[c].kind = "close"
    /\ Leave(c, "close")
    /\ EndClosing(c)
    /\ UNCHANGED <<server, frame, expired, shut, fragmented, delivered, peer,
                   swept>>

-----------------------------------------------------------------------------
Handler(c) ==
    \/ HandleAccept(c) \/ HandleTls(c) \/ HandleRequest(c)
    \/ HandleHandshakeFailed(c) \/ HandleRefusal(c) \/ HandleOpen(c)
    \/ HandleError(c) \/ StartRead(c) \/ HandleUnmasked(c) \/ HandleHead(c)
    \/ ReadContent(c) \/ TooBig(c) \/ HandlePiece(c) \/ HandleMessage(c)
    \/ HandleControl(c) \/ HandleClose(c)

Network(c) ==
    \/ Arrive(c) \/ Complete(c) \/ CompleteHead(c) \/ PeerLeaves(c)

Next ==
    \/ Start \/ Stop \/ StopAccept \/ HandleSpin
    \/ \E c \in Conns :
          \/ Upgrade(c) \/ Network(c) \/ Fail(c)
          \/ Expire(c) \/ HandleTimer(c) \/ Handler(c)

Spec == Init /\ [][Next]_vars

(* The io_service runs its handlers, a timer that is not stopped expires    *)
(* and an operation on a closed socket fails.  Peers owe nothing.           *)
Fairness ==
    \A c \in Conns :
        /\ WF_vars(Handler(c))
        /\ WF_vars(HandleTimer(c))
        /\ WF_vars(Fail(c) /\ shut[c])
        /\ WF_vars(Expire(c))

FairSpec == Spec /\ Fairness

-----------------------------------------------------------------------------
(* Properties *)

(* What an endpoint may rely on: on_open first and once, messages only      *)
(* while it is open, and nothing after the end.  on_error may come without  *)
(* on_open, when the response cannot be written, and only for a message     *)
(* that is too big on_close follows on_error.                               *)
CallbackProtocol ==
    \A c \in Conns : LET s == calls[c] IN
        \/ s \in {<<>>, <<"error">>}
        \/ /\ s[1] = "open"
           /\ \A i \in 2..Len(s) :
                 \/ s[i] \in {"message", "ping", "pong"} /\ s[i-1] # "error"
                      /\ s[i-1] # "close"
                 \/ s[i] \in {"close", "error"} /\ i = Len(s)
                 \/ s[i] = "error" /\ i = Len(s) - 1 /\ s[i+1] = "close"

(* A connection that was opened and has not ended is listed, and nothing    *)
(* else is; stop takes off the list what it closes.                         *)
ListedWhileOpen ==
    connections = {c \in Conns : stage[c] \in Reading} \ swept

(* Messages are handed on complete and in order, each once, also when       *)
(* control frames come between fragments; between two frames nothing the    *)
(* peer has completed is missing.                                           *)
MessagesDelivered ==
    \A c \in Conns :
        /\ IsPrefix(delivered[c], messages[c])
        /\ stage[c] = "post" => delivered[c] = messages[c]

(* Nothing waits for ever for a peer that says nothing (more): the          *)
(* handshake ends, and with an idle timeout the connection does once the    *)
(* peer has sent what it will send (and nothing is sent to it, which would  *)
(* set the timer again), while the server runs.                             *)
WaitsEnd ==
    \A c \in Conns :
        /\ stage[c] \in Handshake ~> (stage[c] \notin Handshake \/ ~running)
        /\ (timeout_idle /\ stage[c] \in Reading)
               ~> (stage[c] = "done" \/ ~running)

(* A connection that stop closes ends, with its callback, as long as the    *)
(* io_service runs.                                                         *)
StoppedEnd ==
    \A c \in Conns :
        c \in swept ~> (stage[c] = "done" \/ ~running)

(* "Stop accepting new connections": after the acceptor was closed no       *)
(* accept is tried any more, unless the server is started again.            *)
(* FALSE of the code as long as the io_service runs: the handler of a       *)
(* connection that was accepted just before accepts again, on a closed      *)
(* acceptor, and its error does not end the loop.                           *)
AcceptEnds ==
    (starts > 0 /\ ~acceptor) ~> (acceptor \/ ~running \/ spinning = 0)
==============================================================================
