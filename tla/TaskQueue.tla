----------------------------- MODULE TaskQueue -----------------------------
(* What jahan::concurrency::ThreadPool promises to the code that hands it   *)
(* work, without threads, mutexes or condition variables: tasks wait in the *)
(* order they were submitted, each is started at most once and only from    *)
(* the front, a started task finishes once, and after the pool is closed    *)
(* nothing more is started unless the pool was told to drain its backlog.   *)
(* ThreadPool.tla is shown to implement this specification.                 *)
EXTENDS Sequences

CONSTANT Tasks

VARIABLES
    waiting,    \* the submitted tasks that nobody has started, oldest first
    running,    \* the tasks being executed
    finished,   \* the tasks whose execution is over
    closed,     \* the pool was told to stop
    drain       \* chosen once: may the backlog be started after closing?

vars == <<waiting, running, finished, closed, drain>>

(* Every task the queue knows about. *)
Known == {waiting[i] : i \in DOMAIN waiting} \cup running \cup finished

Init ==
    /\ waiting = <<>>
    /\ running = {}
    /\ finished = {}
    /\ closed = FALSE
    /\ drain \in BOOLEAN

Submit(t) ==
    /\ t \notin Known
    /\ waiting' = Append(waiting, t)
    /\ UNCHANGED <<running, finished, closed, drain>>

Start ==
    /\ waiting # <<>>
    /\ closed => drain
    /\ running' = running \cup {Head(waiting)}
    /\ waiting' = Tail(waiting)
    /\ UNCHANGED <<finished, closed, drain>>

Finish(t) ==
    /\ t \in running
    /\ running' = running \ {t}
    /\ finished' = finished \cup {t}
    /\ UNCHANGED <<waiting, closed, drain>>

Close ==
    /\ closed' = TRUE
    /\ UNCHANGED <<waiting, running, finished, drain>>

Next ==
    \/ \E t \in Tasks : Submit(t) \/ Finish(t)
    \/ Start
    \/ Close

Spec == Init /\ [][Next]_vars
=============================================================================
