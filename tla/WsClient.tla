------------------------------- MODULE WsClient -------------------------------
(* One connection of SocketClientBase with SocketClient<WSS>                *)
(* (src/lib/simple_webSocket_server/client_ws.hpp and client_wss.hpp), from *)
(* start to its end: resolve, connect, the request to a proxy, TLS          *)
(* handshake, request and response, then frame by frame; the timer that     *)
(* reader and writer share; stop and the destructor, which first closes the *)
(* client's ScopeRunner.                                                    *)
(*                                                                          *)
(* Unlike the server's, the client's reader counts bytes: the read of the   *)
(* response may have got bytes of the frames that follow, and each read     *)
(* asks for what is still missing.  The counts are exact here; what the     *)
(* bytes are is decided when a frame is looked at.                          *)
(*                                                                          *)
(* As in WsServer a completion and its handler are two steps, a handler is  *)
(* one.  Of the queue of frames to send only the number counts (see         *)
(* SendQueue).  timeout_request is taken to be set: a timer that does not   *)
(* expire is like none.  A client that is started again makes another       *)
(* connection; only the io_service, which is that of this one, matters here.*)
EXTENDS Integers, Sequences, SequencesExt

CONSTANTS
    LengthWidths,   \* bytes of extended lengths: of 2 and 8
    ContentLengths, \* lengths of the content of frames
    Leftovers,      \* numbers of bytes that came with the response
    MaxFrames,      \* bound: frames the peer sends
    MaxSends        \* bound: frames the user sends

ASSUME BytesAssumption ==
    /\ LengthWidths \subseteq {2, 8}
    /\ ContentLengths \subseteq Nat
    /\ Leftovers \subseteq Nat
ASSUME BoundsAssumption == MaxFrames \in Nat /\ MaxSends \in Nat

DataFrames == {"whole", "first", "middle", "last"}

(* width: the bytes of an extended length, or 0; big: with the fragments    *)
(* before it the frame exceeds max_message_size.                            *)
Frames == [kind : DataFrames \cup {"ping", "pong", "close", "masked"},
           width : {0} \cup LengthWidths, length : ContentLengths, big : BOOLEAN]

NoFrame == [kind |-> "none", width |-> 0, length |-> 0, big |-> FALSE]

Opening == {"resolve", "connect", "proxyWrite", "proxyRead", "handshake",
            "write", "read"}
Reading == {"post", "head", "length", "content"}

VARIABLES
    internal_io_service,
    timeout_idle,    \* config.timeout_idle > 0
    running,         \* the io_service runs handlers
    runner,          \* handler_runner grants locks
    stage,           \* the operation the connection waits for, or "done"
    result,          \* its completion: "none" while it is pending
    timer,           \* the timer that runs: "off", "request" or "idle"
    expired,         \* timers whose handler is queued
    shut,            \* the socket has been closed, here or by the peer
    close_sent,
    queued,          \* frames in send_queue that will be worked off
    sends,           \* frames the user has sent
    frame,           \* the frame that is read
    additional,      \* num_additional_bytes
    buffered,        \* bytes in in_message->streambuf
    fragmented,      \* fragmented_in_message: its pieces
    calls,           \* history: the callbacks, in order
    delivered,       \* history: the messages passed to on_message
    sent,            \* history: the number of frames of the peer
    partial,         \* the message the peer is in the middle of
    messages         \* history: the messages the peer has completed

config == <<internal_io_service, timeout_idle>>
client == <<running, runner>>
outgoing == <<close_sent, queued, sends>>
input == <<additional, buffered>>
peer == <<sent, partial, messages>>
vars == <<config, client, stage, result, timer, expired, shut, outgoing,
          frame, input, fragmented, calls, delivered, peer>>

Idle == IF timeout_idle THEN "idle" ELSE "off"

(* start and connect. *)
Init ==
    /\ internal_io_service \in BOOLEAN
    /\ timeout_idle \in BOOLEAN
    /\ running = TRUE /\ runner = TRUE
    /\ stage = "resolve" /\ result = "none"
    /\ timer = "request" /\ expired = {}
    /\ shut = FALSE /\ close_sent = FALSE
    /\ queued = 0 /\ sends = 0
    /\ frame = NoFrame /\ additional = 0 /\ buffered = 0
    /\ fragmented = <<>> /\ calls = <<>> /\ delivered = <<>>
    /\ sent = 0 /\ partial = <<>> /\ messages = <<>>

-----------------------------------------------------------------------------
(* start again, stop, the destructor *)

(* The io_service of a client that was stopped runs again, and with it the  *)
(* handlers that were queued.                                               *)

StartAgain ==
    /\ runner
    /\ ~running
    /\ running' = TRUE
    /\ UNCHANGED <<config, runner, stage, result, timer, expired,
                   shut, outgoing, frame, input, fragmented, calls, delivered,
                   peer>>

(* close: shutdown has an effect on a socket that is connected.             *)
Connected == stage # "resolve" /\ (stage = "connect" => result = "ok")

StopConnection ==
    /\ shut' = (shut \/ Connected)
    /\ running' = (running /\ ~internal_io_service)

Stop ==
    /\ runner
    /\ StopConnection
    /\ UNCHANGED <<config, runner, stage, result, timer, expired,
                   outgoing, frame, input, fragmented, calls, delivered, peer>>

(* The destructor closes the runner (no handler is half way, each is one    *)
(* step) and then calls stop.                                               *)
Destroy ==
    /\ runner
    /\ runner' = FALSE
    /\ StopConnection
    /\ UNCHANGED <<config, stage, result, timer, expired, outgoing,
                   frame, input, fragmented, calls, delivered, peer>>

-----------------------------------------------------------------------------
(* The writer.  A write that is started, and one that has ended, set the    *)
(* idle timer.                                                              *)

Enqueue(time) ==
    /\ queued' = queued + 1
    /\ timer' = IF queued = 0 THEN Idle ELSE time

(* "Send close only once"; time is the timer when it is called. *)
SendClose(time) ==
    /\ IF close_sent THEN UNCHANGED <<close_sent, queued>> /\ timer' = time
                     ELSE close_sent' = TRUE /\ Enqueue(time)
    /\ UNCHANGED sends

(* The user has the connection since on_open, and keeps it when it ends.    *)
Opened == calls # <<>> /\ calls[1] = "open"

Send ==
    /\ Opened /\ runner
    /\ sends < MaxSends
    /\ sends' = sends + 1
    /\ Enqueue(timer)
    /\ UNCHANGED <<config, client, stage, result, expired, shut, close_sent,
                   frame, input, fragmented, calls, delivered, peer>>

SendClosing ==
    /\ Opened /\ runner
    /\ SendClose(timer)
    /\ UNCHANGED <<config, client, stage, result, expired, shut, frame, input,
                   fragmented, calls, delivered, peer>>

(* The write of the front of the queue ended.  After an error everything    *)
(* that is queued is given up.  Without the runner's lock nothing follows,  *)
(* and if the write was still to be started no timer is set.                *)
WriteEnds ==
    /\ running
    /\ queued > 0
    /\ \/ runner /\ queued' = queued - 1 /\ timer' = Idle
       \/ runner /\ shut /\ queued' = 0 /\ timer' = Idle
       \/ ~runner /\ queued' = 0 /\ timer' \in {Idle, timer}
    /\ UNCHANGED <<config, client, stage, result, expired, shut, close_sent,
                   sends, frame, input, fragmented, calls, delivered, peer>>

-----------------------------------------------------------------------------
(* The timer *)

Expire ==
    /\ timer # "off"
    /\ timer' = "off"
    /\ expired' = expired \cup {timer}
    /\ UNCHANGED <<config, client, stage, result, shut, outgoing, frame, input,
                   fragmented, calls, delivered, peer>>

CloseSocket ==
    /\ shut' = (shut \/ Connected)
    /\ UNCHANGED <<outgoing, timer>>

(* Mutant: an idle connection is always sent a close frame. *)
HandleTimerNeverCloses ==
    /\ running
    /\ \E kind \in expired :
         /\ expired' = expired \ {kind}
         /\ IF kind = "idle" THEN SendClose(timer) /\ UNCHANGED shut ELSE CloseSocket
    /\ UNCHANGED <<config, client, stage, result, frame, input, fragmented,
                   calls, delivered, peer>>

(* The handler asks for no lock: it does this as long as the connection     *)
(* lives, also when its reader has ended.                                   *)
HandleTimer ==
    /\ running
    /\ \E kind \in expired :
         /\ expired' = expired \ {kind}
         /\ IF kind = "idle" /\ ~close_sent
            THEN SendClose(timer) /\ UNCHANGED shut
            ELSE CloseSocket
    /\ UNCHANGED <<config, client, stage, result, frame, input, fragmented,
                   calls, delivered, peer>>

-----------------------------------------------------------------------------
(* The network and the peer.  The peer follows the protocol but for frames  *)
(* that are masked.                                                         *)

Pending == stage \in (Opening \cup Reading) \ {"post"} /\ result = "none"

(* transfer_exactly: what is missing of the bytes that are needed. *)
Missing(have, need) == IF have > need THEN 0 ELSE need - have

Need ==
    CASE stage = "head" -> 2
      [] stage = "length" -> frame.width
      [] stage = "content" -> frame.length
      [] OTHER -> 0

Complete ==
    /\ Pending
    /\ stage # "head"
    /\ stage \in {"proxyWrite", "write"} => ~shut
    /\ buffered' = IF stage \in Reading
                   THEN buffered + Missing(additional, Need) ELSE buffered
    /\ result' = "ok"
    /\ UNCHANGED <<config, client, stage, timer, expired, shut, outgoing,
                   frame, additional, fragmented, calls, delivered, peer>>

MaySend(f) ==
    /\ f.kind \in {"whole", "first"} => partial = <<>>
    /\ f.kind \in {"middle", "last"} => partial # <<>>
    /\ f.kind \notin DataFrames => f.width = 0
    /\ f.kind \notin DataFrames /\ f.big => partial # <<>>
    /\ f.kind = "masked" => ~f.big
    /\ f.kind = "masked" \/ f.big => \A n \in ContentLengths : n <= f.length

(* The first two bytes of a frame are there. *)
CompleteHead ==
    /\ Pending
    /\ stage = "head"
    /\ sent < MaxFrames
    /\ \E f \in Frames :
         /\ MaySend(f)
         /\ frame' = f
         /\ LET pieces == Append(partial, <<sent, 0>>) IN
            /\ messages' = IF f.kind \in {"whole", "last"}
                           THEN Append(messages, pieces) ELSE messages
            /\ partial' = CASE f.kind \in {"whole", "last"} -> <<>>
                            [] f.kind \in {"first", "middle"} -> pieces
                            [] OTHER -> partial
    /\ sent' = sent + 1
    /\ buffered' = buffered + Missing(additional, 2)
    /\ result' = "ok"
    /\ UNCHANGED <<config, client, stage, timer, expired, shut, outgoing,
                   additional, fragmented, calls, delivered>>

PeerLeaves ==
    /\ stage # "done" /\ Connected
    /\ ~shut
    /\ shut' = TRUE
    /\ UNCHANGED <<config, client, stage, result, timer, expired, outgoing,
                   frame, input, fragmented, calls, delivered, peer>>

(* A name is not found, a peer not reached, TLS not agreed on, or the       *)
(* socket is closed.                                                        *)
Fail ==
    /\ Pending
    /\ shut \/ stage \in {"resolve", "connect", "handshake"}
    /\ result' = "error"
    /\ UNCHANGED <<config, client, stage, timer, expired, shut, outgoing,
                   frame, input, fragmented, calls, delivered, peer>>

-----------------------------------------------------------------------------
(* The handlers that open the connection *)

Handle(s, r) == running /\ runner /\ stage = s /\ result = r

Begin(s, time) ==
    /\ stage' = s
    /\ result' = "none"
    /\ timer' = time

(* No further operation.  Nobody looks at what was read but not used.       *)
EndReading ==
    /\ stage' = "done"
    /\ result' = "none"
    /\ frame' = NoFrame /\ additional' = 0 /\ buffered' = 0

(* After cancel_timeout. *)
End == EndReading /\ timer' = "off"

(* The reader ends with a close frame. *)
EndClosing == EndReading /\ SendClose("off")

(* No lock: the client is being destroyed, its callbacks are not called.    *)
HandleNothing ==
    /\ running /\ ~runner
    /\ result # "none" \/ stage = "post"
    /\ End
    /\ UNCHANGED <<config, client, expired, shut, outgoing, fragmented, calls,
                   delivered, peer>>

(* After connect it depends on config.proxy_server. *)
Follows(s, t) ==
    \/ s = "resolve" /\ t = "connect"
    \/ s = "connect" /\ t \in {"proxyWrite", "handshake"}
    \/ s = "proxyWrite" /\ t = "proxyRead"
    \/ s = "proxyRead" /\ t = "handshake"
    \/ s = "handshake" /\ t = "write"
    \/ s = "write" /\ t = "read"

HandleOpening ==
    /\ \E s, t \in Opening : Handle(s, "ok") /\ Follows(s, t) /\ Begin(t, "request")
    /\ UNCHANGED <<config, client, expired, shut, outgoing, frame, input,
                   fragmented, calls, delivered, peer>>

Call(event) == calls' = Append(calls, event)

(* Mutant: a proxy that refuses is not reported. *)
HandleErrorSilent ==
    /\ \/ \E s \in Opening \cup Reading : Handle(s, "error")
       \/ \E s \in {"proxyRead", "read"} : Handle(s, "ok")
    /\ IF stage = "proxyRead" THEN UNCHANGED calls ELSE Call("error")
    /\ End
    /\ UNCHANGED <<config, client, expired, shut, outgoing, fragmented,
                   delivered, peer>>

(* An operation failed; or a response is not what it must be: it cannot be  *)
(* parsed, has another status, or, of the server, the wrong accept header.  *)
HandleError ==
    /\ \/ \E s \in Opening \cup Reading : Handle(s, "error")
       \/ \E s \in {"proxyRead", "read"} : Handle(s, "ok")
    /\ Call("error")
    /\ End
    /\ UNCHANGED <<config, client, expired, shut, outgoing, fragmented,
                   delivered, peer>>

(* read_message *)
ReadNext == Begin("post", Idle)

HandleOpen ==
    /\ Handle("read", "ok")
    /\ \E n \in Leftovers : additional' = n /\ buffered' = n
    /\ Call("open")
    /\ ReadNext
    /\ UNCHANGED <<config, client, expired, shut, outgoing, frame, fragmented,
                   delivered, peer>>

-----------------------------------------------------------------------------
(* The handlers that read frames *)

(* The bytes of a header are taken from the buffer; of the additional ones  *)
(* those that are left are passed on.                                       *)
Rest(have, need) == IF have > need THEN have - need ELSE 0

(* Mutant: the bytes just read are not subtracted. *)
ConsumeAllLeft ==
    /\ buffered' = buffered - Need
    /\ additional' = additional

Consume ==
    /\ buffered' = buffered - Need
    /\ additional' = Rest(additional, Need)

StartRead ==
    /\ running /\ runner
    /\ stage = "post"
    /\ stage' = "head"
    /\ UNCHANGED <<config, client, result, timer, expired, shut, outgoing,
                   frame, input, fragmented, calls, delivered, peer>>

(* "Close connection if masked message from server" *)
HandleMasked ==
    /\ Handle("head", "ok")
    /\ frame.kind = "masked"
    /\ Call("close")
    /\ EndClosing
    /\ UNCHANGED <<config, client, expired, shut, fragmented, delivered,
                   peer>>

HandleHead ==
    /\ Handle("head", "ok")
    /\ frame.kind # "masked" /\ frame.width > 0
    /\ Consume
    /\ Begin("length", Idle)
    /\ UNCHANGED <<config, client, expired, shut, outgoing, frame, fragmented,
                   calls, delivered, peer>>

LengthKnown ==
    \/ Handle("head", "ok") /\ frame.kind # "masked" /\ frame.width = 0
    \/ Handle("length", "ok")

ReadContent ==
    /\ LengthKnown
    /\ ~frame.big
    /\ Consume
    /\ Begin("content", Idle)
    /\ UNCHANGED <<config, client, expired, shut, outgoing, frame, fragmented,
                   calls, delivered, peer>>

(* on_error and then on_close *)
TooBig ==
    /\ LengthKnown
    /\ frame.big
    /\ calls' = calls \o <<"error", "close">>
    /\ EndClosing
    /\ UNCHANGED <<config, client, expired, shut, fragmented, delivered,
                   peer>>

(* If there are bytes of further frames, they go to next_in_message and     *)
(* in_message keeps as many as its length; if not it keeps what there is.   *)
(* A piece is the number of its frame and how many bytes it has too many.   *)
ContentDone(kinds) ==
    /\ Handle("content", "ok")
    /\ frame.kind \in kinds
    /\ additional' = Rest(additional, frame.length)
    /\ buffered' = IF additional' > 0 THEN buffered - frame.length ELSE 0
    /\ frame' = NoFrame

(* Mutant: the bytes of further frames stay in in_message. *)
PieceUnsplit == <<sent - 1, buffered - frame.length>>

Piece == <<sent - 1, IF Rest(additional, frame.length) > 0
                     THEN 0 ELSE buffered - frame.length>>

HandlePiece ==
    /\ ContentDone({"first", "middle"})
    /\ fragmented' = Append(fragmented, Piece)
    /\ ReadNext
    /\ UNCHANGED <<config, client, expired, shut, outgoing, calls,
                   delivered, peer>>

HandleMessage ==
    /\ ContentDone({"whole", "last"})
    /\ delivered' = Append(delivered, Append(fragmented, Piece))
    /\ Call("message")
    /\ fragmented' = <<>>
    /\ ReadNext
    /\ UNCHANGED <<config, client, expired, shut, outgoing, peer>>

(* A ping is answered with a pong first. *)
HandleControl ==
    /\ ContentDone({"ping", "pong"})
    /\ queued' = IF frame.kind = "ping" THEN queued + 1 ELSE queued
    /\ Call(frame.kind)
    /\ ReadNext
    /\ UNCHANGED <<config, client, expired, shut, close_sent, sends,
                   fragmented, delivered, peer>>

HandleClose ==
    /\ Handle("content", "ok")
    /\ frame.kind = "close"
    /\ Call("close")
    /\ EndClosing
    /\ UNCHANGED <<config, client, expired, shut, fragmented, delivered,
                   peer>>

-----------------------------------------------------------------------------
Handler ==
    \/ HandleNothing \/ HandleOpening \/ HandleError \/ HandleOpen
    \/ StartRead \/ HandleMasked \/ HandleHead \/ ReadContent \/ TooBig
    \/ HandlePiece \/ HandleMessage \/ HandleControl \/ HandleClose

Next ==
    \/ StartAgain \/ Stop \/ Destroy
    \/ Send \/ SendClosing \/ WriteEnds
    \/ Expire \/ HandleTimer
    \/ Complete \/ CompleteHead \/ PeerLeaves \/ Fail
    \/ Handler

Spec == Init /\ [][Next]_vars

(* As in WsServer.  A write ends if the socket is closed; whether it does   *)
(* otherwise is up to the peer.                                             *)
Fairness ==
    /\ WF_vars(Handler)
    /\ WF_vars(Expire)
    /\ WF_vars(HandleTimer)
    /\ WF_vars(Fail /\ shut)
    /\ WF_vars(WriteEnds /\ shut)

FairSpec == Spec /\ Fairness

-----------------------------------------------------------------------------
(* Properties *)

(* on_open comes first and once, messages while the connection is open, and *)
(* nothing after the end.  Every connection that ends is reported, unless   *)
(* the client is being destroyed.                                           *)
CallbackProtocol ==
    /\ \A i \in DOMAIN calls :
          /\ calls[i] = "open" => i = 1
          /\ calls[i] \in {"message", "ping", "pong", "close"} => calls[1] = "open"
          /\ i < Len(calls) => calls[i] # "close"
          /\ i < Len(calls) /\ calls[i] = "error" => calls[i+1] = "close"
    /\ (stage = "done" /\ runner) => Last(<<"none">> \o calls) \in {"close", "error"}

(* The reader stays in step with the frames: wherever the response ended,   *)
(* between two reads num_additional_bytes is the number of bytes in the     *)
(* buffer, and a read that completed has what its handler takes.            *)
InStep ==
    stage \in Reading =>
        IF result = "ok" THEN buffered >= Need /\ buffered >= additional
                         ELSE buffered = additional

(* Messages are handed on complete, in order and once, each piece with the  *)
(* bytes of its frame and no others.                                        *)
MessagesDelivered ==
    /\ IsPrefix(delivered, messages)
    /\ stage = "post" => delivered = messages

(* With an idle timeout a connection whose peer is silent ends, be it that  *)
(* the close frame is never answered or cannot even be written: the timer   *)
(* that sent it is followed by one that closes the socket, unless the close *)
(* frame has to queue behind another frame.                                 *)
IdleEnds ==
    (timeout_idle /\ stage \in Reading)
        ~> (stage = "done" \/ ~running \/ queued > 1)

(* "Idle timeout": a connection with an idle timeout ends.                  *)
(* FALSE of the code when a write does not complete: the close frame is     *)
(* queued behind it, no timer is set, and none runs any more.               *)
IdleTimeoutEnds ==
    (timeout_idle /\ stage \in Reading) ~> (stage = "done" \/ ~running)
==============================================================================
