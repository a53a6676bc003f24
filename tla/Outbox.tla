------------------------------- MODULE Outbox -------------------------------
(* What send and send_close of a web socket connection promise to the       *)
(* threads that call them, without the queue, the posted handlers and the   *)
(* outstanding write: frames are accepted at any time and settled one after *)
(* the other, each by being written or, when the socket failed, by being    *)
(* given up together with all the others; each is reported to its sender    *)
(* once, in order, before the next one is settled.  The owner may stop it:  *)
(* then a write that had begun may still come through, and nothing else.    *)
(* SendQueue.tla is shown to implement this specification.                  *)
EXTENDS Naturals, Sequences

CONSTANT Items  \* the frames, each accepted at most once

VARIABLES
    accepted,  \* the frames in the order they were accepted
    settled,   \* how many of them have been written or given up
    wire,      \* the frames the peer can read
    called,    \* the frames whose callback was called
    state      \* "open", "stopped" while a write is outstanding, or "over"

vars == <<accepted, settled, wire, called, state>>

Init ==
    /\ accepted = <<>> /\ settled = 0 /\ wire = <<>> /\ called = <<>>
    /\ state = "open"

Accept(f) ==
    /\ \A i \in DOMAIN accepted : accepted[i] # f
    /\ accepted' = Append(accepted, f)
    /\ UNCHANGED <<settled, wire, called, state>>

(* There is a frame to settle, and the ones before it have been reported.   *)
Due == settled < Len(accepted) /\ Len(called) = settled

Write ==
    /\ state = "open" /\ Due
    /\ wire' = Append(wire, accepted[settled + 1])
    /\ settled' = settled + 1
    /\ UNCHANGED <<accepted, called, state>>

GiveUp ==
    /\ state = "open" /\ Due
    /\ settled' = Len(accepted)
    /\ UNCHANGED <<accepted, wire, called, state>>

Report ==
    /\ state = "open"
    /\ Len(called) < settled
    /\ called' = Append(called, accepted[Len(called) + 1])
    /\ UNCHANGED <<accepted, settled, wire, state>>

Stop ==
    /\ state = "open" /\ Len(called) = settled
    /\ \/ state' = "stopped" /\ Due
       \/ state' = "over"
    /\ UNCHANGED <<accepted, settled, wire, called>>

(* The outstanding write comes through, or not; nobody is told. *)
LastWrite ==
    /\ state = "stopped"
    /\ state' = "over"
    /\ wire' \in {wire, Append(wire, accepted[settled + 1])}
    /\ UNCHANGED <<accepted, settled, called>>

Next ==
    \/ \E f \in Items : Accept(f)
    \/ Write \/ GiveUp \/ Report \/ Stop \/ LastWrite

Spec == Init /\ [][Next]_vars
=============================================================================
