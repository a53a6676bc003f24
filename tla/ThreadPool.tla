----------------------------- MODULE ThreadPool -----------------------------
(* jahan::concurrency::ThreadPool (src/lib/jahan/concurrency/               *)
(* thread_pool.hpp): a task queue under m_tasks_mutex, workers that sleep   *)
(* on a condition variable under a second mutex, m_var_mutex, producers     *)
(* that push and then notify, and the destructor.                           *)
(*                                                                          *)
(* A step is a critical section or an unlocked access.  The sections under  *)
(* m_tasks_mutex (push; test and pop) and the short ones under m_var_mutex  *)
(* (notify_one; enter wait) are one step each, because nothing inside them  *)
(* can be seen half done.  m_var_mutex is a variable only for the           *)
(* destructor, the one thread that blocks while it holds it.                *)
(* The unlocked reads of m_stop (lines 44 and 71) are steps of their own.   *)
EXTENDS Naturals, Sequences, FiniteSets

CONSTANTS
    Workers,      \* threads that can be in m_worker
    NumThreads,   \* num_threads of the constructor
    Producers,    \* threads that call add_task
    Tasks,        \* the callables, each passed to add_task at most once
    NoTask        \* an empty std::function

ASSUME ThreadsAssumption == NumThreads \in Nat
ASSUME NoTaskAssumption == NoTask \notin Tasks

VARIABLES
    m_tasks,        \* the queue
    m_stop,
    sudden_death,   \* sudden_death_on_termination, set before the pool stops
    varHeld,        \* m_var_mutex is held by the destructor
    wpc,            \* where each worker is in its loop
    wtask,          \* the local variable task of each worker
    ppc,            \* where each producer is in add_task
    ptask,          \* the argument of its call
    phase,          \* where the owner is: constructor, in use, destructor
    pushed,         \* history: the tasks in the order m_tasks received them
    started,        \* history: the tasks in the order workers took them
    finished        \* history: the tasks that returned or threw

pool == <<m_tasks, m_stop, sudden_death, varHeld, phase>>
workers == <<wpc, wtask>>
producers == <<ppc, ptask>>
history == <<pushed, started, finished>>
vars == <<m_tasks, m_stop, sudden_death, varHeld, wpc, wtask, ppc, ptask,
          phase, pushed, started, finished>>

WorkerStates == {"unborn", "head", "fetch", "towait", "waiting", "notified",
                 "run", "exited"}

TypeOK ==
    /\ m_tasks \in Seq(Tasks)
    /\ m_stop \in BOOLEAN
    /\ sudden_death \in BOOLEAN
    /\ varHeld \in BOOLEAN
    /\ wpc \in [Workers -> WorkerStates]
    /\ wtask \in [Workers -> Tasks \cup {NoTask}]
    /\ ppc \in [Producers -> {"idle", "push", "notify"}]
    /\ ptask \in [Producers -> Tasks \cup {NoTask}]
    /\ phase \in {"constructing", "alive", "stopping", "joining", "joinSignal"}
    /\ pushed \in Seq(Tasks)
    /\ started \in Seq(Tasks)
    /\ finished \in SUBSET Tasks

Elements(s) == {s[i] : i \in DOMAIN s}

Init ==
    /\ m_tasks = <<>>
    /\ m_stop = FALSE
    /\ sudden_death \in BOOLEAN
    /\ varHeld = FALSE
    /\ wpc = [w \in Workers |-> "unborn"]
    /\ wtask = [w \in Workers |-> NoTask]
    /\ ppc = [p \in Producers |-> "idle"]
    /\ ptask = [p \in Producers |-> NoTask]
    /\ phase = "constructing"
    /\ pushed = <<>>
    /\ started = <<>>
    /\ finished = {}

-----------------------------------------------------------------------------
(* Threads: the constructor starts NumThreads of them and the signal        *)
(* logger; add_new_thread is public and may be called while the pool lives. *)

Born == {w \in Workers : wpc[w] # "unborn"}

AddNewThread(w) ==
    /\ \/ phase = "constructing" /\ Cardinality(Born) < NumThreads
       \/ phase = "alive"
    /\ wpc[w] = "unborn"
    /\ wpc' = [wpc EXCEPT ![w] = "head"]
    /\ UNCHANGED <<pool, wtask, producers, history>>

StartSignalThread ==
    /\ phase = "constructing"
    /\ Cardinality(Born) = NumThreads
    /\ phase' = "alive"
    /\ UNCHANGED <<m_tasks, m_stop, sudden_death, varHeld, workers, producers,
                   history>>

-----------------------------------------------------------------------------
(* add_task.  A call that finds m_stop set returns false and changes        *)
(* nothing.                                                                 *)

Offered(t) ==
    \/ t \in Elements(pushed)
    \/ \E p \in Producers : ptask[p] = t

AddTask(p, t) ==
    /\ phase # "constructing"
    /\ ppc[p] = "idle"
    /\ ~Offered(t)
    /\ ~m_stop
    /\ ppc' = [ppc EXCEPT ![p] = "push"]
    /\ ptask' = [ptask EXCEPT ![p] = t]
    /\ UNCHANGED <<pool, workers, history>>

PushTask(p) ==
    /\ ppc[p] = "push"
    /\ ppc' = [ppc EXCEPT ![p] = "notify"]
    /\ m_tasks' = Append(m_tasks, ptask[p])
    /\ pushed' = Append(pushed, ptask[p])
    /\ UNCHANGED <<m_stop, sudden_death, varHeld, phase, workers, ptask,
                   started, finished>>

(* notify_one: one of the threads that wait becomes runnable; when none     *)
(* waits the notification is lost.                                          *)
WakeOne ==
    \/ \E w \in Workers : /\ wpc[w] = "waiting"
                          /\ wpc' = [wpc EXCEPT ![w] = "notified"]
    \/ /\ \A w \in Workers : wpc[w] # "waiting"
       /\ wpc' = wpc

NotifyOne(p) ==
    /\ ppc[p] = "notify"
    /\ ~varHeld
    /\ WakeOne
    /\ ppc' = [ppc EXCEPT ![p] = "idle"]
    /\ ptask' = [ptask EXCEPT ![p] = NoTask]
    /\ UNCHANGED <<pool, wtask, history>>

-----------------------------------------------------------------------------
(* The worker loop. *)

CheckStop(w) ==
    /\ wpc[w] = "head"
    /\ wpc' = [wpc EXCEPT ![w] = IF m_stop THEN "exited" ELSE "fetch"]
    /\ UNCHANGED <<pool, wtask, producers, history>>

MayTake == m_tasks # <<>> /\ ~(m_stop /\ sudden_death)

(* Mutant: the task is copied and stays at the front. *)
FetchWithoutPop(w) ==
    /\ wpc[w] = "fetch"
    /\ MayTake
    /\ wpc' = [wpc EXCEPT ![w] = "run"]
    /\ wtask' = [wtask EXCEPT ![w] = Head(m_tasks)]
    /\ started' = Append(started, Head(m_tasks))
    /\ UNCHANGED <<pool, producers, pushed, finished>>

FetchTask(w) ==
    /\ wpc[w] = "fetch"
    /\ MayTake
    /\ wpc' = [wpc EXCEPT ![w] = "run"]
    /\ wtask' = [wtask EXCEPT ![w] = Head(m_tasks)]
    /\ m_tasks' = Tail(m_tasks)
    /\ started' = Append(started, Head(m_tasks))
    /\ UNCHANGED <<m_stop, sudden_death, varHeld, phase, producers, pushed,
                   finished>>

(* Mutant: the second test of m_stop is missing. *)
FetchNothingAlwaysWait(w) ==
    /\ wpc[w] = "fetch"
    /\ ~MayTake
    /\ wpc' = [wpc EXCEPT ![w] = "towait"]
    /\ UNCHANGED <<pool, wtask, producers, history>>

(* Nothing to take.  The worker leaves m_tasks_mutex before it takes        *)
(* m_var_mutex: "towait" is the window between the two.                     *)
FetchNothing(w) ==
    /\ wpc[w] = "fetch"
    /\ ~MayTake
    /\ wpc' = [wpc EXCEPT ![w] = IF m_stop THEN "head" ELSE "towait"]
    /\ UNCHANGED <<pool, wtask, producers, history>>

Wait(w) ==
    /\ wpc[w] = "towait"
    /\ ~varHeld
    /\ wpc' = [wpc EXCEPT ![w] = "waiting"]
    /\ UNCHANGED <<pool, wtask, producers, history>>

(* A wait without predicate may also return for no reason. *)
SpuriousWake(w) ==
    /\ wpc[w] = "waiting"
    /\ wpc' = [wpc EXCEPT ![w] = "notified"]
    /\ UNCHANGED <<pool, wtask, producers, history>>

(* wait returns once the thread has m_var_mutex again. *)
WakeUp(w) ==
    /\ wpc[w] = "notified"
    /\ ~varHeld
    /\ wpc' = [wpc EXCEPT ![w] = "head"]
    /\ UNCHANGED <<pool, wtask, producers, history>>

(* Mutant: the worker waits after every task without looking at the queue.  *)
RunThenWait(w) ==
    /\ wpc[w] = "run"
    /\ wpc' = [wpc EXCEPT ![w] = "towait"]
    /\ wtask' = [wtask EXCEPT ![w] = NoTask]
    /\ finished' = finished \cup {wtask[w]}
    /\ UNCHANGED <<pool, producers, pushed, started>>

(* task() returns or throws; either way the loop goes on. *)
RunTask(w) ==
    /\ wpc[w] = "run"
    /\ wpc' = [wpc EXCEPT ![w] = "head"]
    /\ wtask' = [wtask EXCEPT ![w] = NoTask]
    /\ finished' = finished \cup {wtask[w]}
    /\ UNCHANGED <<pool, producers, pushed, started>>

-----------------------------------------------------------------------------
(* ~ThreadPool: m_stop is set without a lock, then m_var_mutex is taken and *)
(* kept until the destructor returns.  It joins the workers and then the    *)
(* signal thread, whose loop has no end: no step leaves "joinSignal".       *)

SetStop ==
    /\ phase = "alive"
    /\ phase' = "stopping"
    /\ m_stop' = TRUE
    /\ UNCHANGED <<m_tasks, sudden_death, varHeld, workers, producers, history>>

NotifyAll ==
    /\ phase = "stopping"
    /\ phase' = "joining"
    /\ varHeld' = TRUE
    /\ wpc' = [w \in Workers |->
                 IF wpc[w] = "waiting" THEN "notified" ELSE wpc[w]]
    /\ UNCHANGED <<m_tasks, m_stop, sudden_death, wtask, producers, history>>

JoinWorkers ==
    /\ phase = "joining"
    /\ \A w \in Born : wpc[w] = "exited"
    /\ phase' = "joinSignal"
    /\ UNCHANGED <<m_tasks, m_stop, sudden_death, varHeld, workers, producers,
                   history>>

-----------------------------------------------------------------------------
Worker(w) ==
    \/ CheckStop(w)
    \/ FetchTask(w)
    \/ FetchNothing(w)
    \/ Wait(w)
    \/ WakeUp(w)
    \/ RunTask(w)

Producer(p) == PushTask(p) \/ NotifyOne(p)

Destructor == NotifyAll \/ JoinWorkers

Next ==
    \/ \E w \in Workers : AddNewThread(w) \/ Worker(w) \/ SpuriousWake(w)
    \/ StartSignalThread
    \/ \E p \in Producers : Producer(p) \/ (\E t \in Tasks : AddTask(p, t))
    \/ SetStop
    \/ Destructor

Spec == Init /\ [][Next]_vars

(* The operating system runs every thread that can run; a task returns.     *)
(* Nobody has to call add_task, add_new_thread or the destructor, and       *)
(* spurious wake-ups are not owed.                                          *)
Fairness ==
    /\ \A w \in Workers : WF_vars(Worker(w))
    /\ \A p \in Producers : WF_vars(Producer(p))
    /\ WF_vars(Destructor)

FairSpec == Spec /\ Fairness

-----------------------------------------------------------------------------
(* Properties *)

(* The queue neither loses, repeats nor reorders a task: what the workers   *)
(* took, followed by what waits, is what add_task pushed.                   *)
FifoOrder == pushed = started \o m_tasks

Running == {w \in Workers : wpc[w] = "run"}

(* Every task that was pushed waits in m_tasks, is in the hands of a worker *)
(* or has finished, and nothing else is there; none is in two of these      *)
(* places, twice in the queue or in the hands of two workers.               *)
ExactlyOnce ==
    LET inHand == {wtask[w] : w \in Running} IN
    /\ Elements(pushed) = Elements(m_tasks) \cup inHand \cup finished
    /\ Elements(m_tasks) \cap (inHand \cup finished) = {}
    /\ inHand \cap finished = {}
    /\ \A i, j \in DOMAIN m_tasks : m_tasks[i] = m_tasks[j] => i = j
    /\ \A w, v \in Running : wtask[w] = wtask[v] => w = v

(* With sudden_death_on_termination a worker that is already past the test  *)
(* of m_stop in its loop still takes no task once m_stop is set.            *)
SuddenDeathStops ==
    [][(m_stop /\ sudden_death) => started' = started]_vars

(* The pool implements the abstract task queue. *)
TQ == INSTANCE TaskQueue WITH
        waiting <- m_tasks,
        running <- {wtask[w] : w \in Running},
        closed <- m_stop,
        drain <- ~sudden_death

ImplementsTaskQueue == TQ!Spec

Awake(w) == wpc[w] \in {"head", "fetch", "notified", "run"}

(* A worker that is awake does not go to sleep on a backlog: every task     *)
(* that waits is started, or the pool stops.  So a missed notification only *)
(* lasts until the next add_task that finds a worker asleep.                *)
AwakeWorkerDrains ==
    \A t \in Tasks :
        (t \in Elements(m_tasks) /\ \E w \in Workers : Awake(w))
            ~> (t \in Elements(started) \/ m_stop)

(* A worker that m_stop finds awake leaves its loop, whatever the           *)
(* destructor, the producers and the other workers do.                      *)
AwakeWorkerLeaves ==
    \A w \in Workers :
        (m_stop /\ wpc[w] \in {"head", "fetch", "run"}) ~> wpc[w] = "exited"

(* add_task has returned true for t. *)
Accepted(t) ==
    /\ t \in Elements(pushed)
    /\ \A p \in Producers : ptask[p] # t

(* A task the pool accepted is executed unless the pool is stopped.         *)
(* FALSE of the code when a notification falls into the "towait" window.    *)
AcceptedTaskRuns ==
    \A t \in Tasks : Accepted(t) ~> (t \in finished \/ m_stop)

(* With the flag cleared, no task that was accepted is left in the queue    *)
(* when the workers have left.                                              *)
(* FALSE of the code: a worker leaves at the head of its loop.              *)
ClearsQueueBeforeShutdown ==
    (phase = "joinSignal" /\ ~sudden_death /\ Born # {})
        => \A t \in Elements(m_tasks) : ~Accepted(t)

(* Shutting down ends: every worker leaves, so that the joins return.       *)
(* FALSE of the code when a worker sleeps: it cannot leave wait while the   *)
(* destructor holds m_var_mutex.                                            *)
WorkersLeave == m_stop ~> \A w \in Born : wpc[w] = "exited"
=============================================================================
