-------------------------- MODULE ThreadPoolProofs --------------------------
(* Proofs about ThreadPool for any number of workers, producers and tasks.  *)
(*                                                                          *)
(* FifoOrder and ExactlyOnce are not inductive by themselves: a producer    *)
(* between the test of m_stop and the push holds a task that is nowhere     *)
(* else, and no two producers hold the same one.  InFlight says so.         *)
(* NoRepeat and Accounted follow the tasks that were started, and Inv is    *)
(* the conjunction that every step preserves; ExactlyOnce, which also       *)
(* speaks of the queue, follows with FifoOrder.                             *)
(*                                                                          *)
(* The second part is about what the signal thread of the pool runs and its *)
(* workers set up, SignalManager, for any number of workers and signals: no *)
(* signal is notified twice.  The number in m_sig_caught is one whose       *)
(* handler is over, and one that was notified is still there only until the *)
(* loop takes its next step, which clears it: a handler can only write the  *)
(* number of a signal that was not notified, because it has not written it  *)
(* before.                                                                  *)
EXTENDS ThreadPool, SignalManager, SequenceTheorems, TLAPS

InFlight ==
    /\ \A p \in Producers :
          ppc[p] = "push" => /\ ptask[p] \in Tasks
                             /\ ptask[p] \notin Elements(pushed)
    /\ \A p, q \in Producers :
          (ppc[p] = "push" /\ ppc[q] = "push" /\ ptask[p] = ptask[q]) => p = q

(* A task is pushed once, and one that runs has not finished. *)
NoRepeat ==
    /\ \A i, j \in DOMAIN pushed : pushed[i] = pushed[j] => i = j
    /\ \A w \in Running : /\ wtask[w] \in Elements(started)
                          /\ wtask[w] \notin finished
    /\ \A w, v \in Running : wtask[w] = wtask[v] => w = v
    /\ finished \subseteq Elements(started)

(* The tasks being executed, the refinement mapping of TaskQueue!running.   *)
Executing == {wtask[w] : w \in Running}

(* A task that was started runs or has finished. *)
Accounted == Elements(started) \subseteq Executing \cup finished

Inv == TypeOK /\ FifoOrder /\ NoRepeat /\ Accounted /\ InFlight

-----------------------------------------------------------------------------
(* Sequences *)

(* Appending adds exactly the new element. *)
LEMMA ElementsAppend ==
    ASSUME NEW S, NEW s \in Seq(S), NEW x \in S
    PROVE  Elements(Append(s, x)) = Elements(s) \cup {x}
<1>1. /\ DOMAIN s = 1..Len(s)
      /\ DOMAIN Append(s, x) = 1..(Len(s) + 1)
      /\ Len(s) \in Nat
  OBVIOUS
<1>2. /\ \A i \in 1..Len(s) : Append(s, x)[i] = s[i]
      /\ Append(s, x)[Len(s) + 1] = x
  OBVIOUS
<1>3. 1..(Len(s) + 1) = (1..Len(s)) \cup {Len(s) + 1}
  BY <1>1
<1> QED
  BY <1>1, <1>2, <1>3 DEF Elements

(* Taking the front of the queue does not change what the history and the   *)
(* queue hold together.                                                     *)
LEMMA MoveHead ==
    ASSUME NEW S, NEW s \in Seq(S), NEW q \in Seq(S), q # <<>>
    PROVE  /\ Head(q) \in S
           /\ Tail(q) \in Seq(S)
           /\ Append(s, Head(q)) \in Seq(S)
           /\ Append(s, Head(q)) \o Tail(q) = s \o q
  OBVIOUS

(* A push reaches the end of what the history and the queue hold together.  *)
LEMMA PushEnd ==
    ASSUME NEW S, NEW s \in Seq(S), NEW q \in Seq(S), NEW x \in S
    PROVE  Append(s \o q, x) = s \o Append(q, x)
  OBVIOUS

(* A concatenation holds the elements of both parts. *)
LEMMA ElementsConcat ==
    ASSUME NEW S, NEW s \in Seq(S), NEW q \in Seq(S)
    PROVE  Elements(s \o q) = Elements(s) \cup Elements(q)
<1> DEFINE all == s \o q
<1>1. /\ DOMAIN s = 1..Len(s) /\ DOMAIN q = 1..Len(q)
      /\ DOMAIN all = 1..(Len(s) + Len(q))
      /\ Len(s) \in Nat /\ Len(q) \in Nat
  OBVIOUS
<1>2. /\ \A i \in 1..Len(s) : all[i] = s[i]
      /\ \A i \in 1..Len(q) : all[Len(s) + i] = q[i]
  OBVIOUS
<1> HIDE DEF all
<1>3. ASSUME NEW i \in DOMAIN all
      PROVE  all[i] \in Elements(s) \cup Elements(q)
  <2>1. CASE i <= Len(s)
    BY <1>1, <1>2, <2>1 DEF Elements
  <2>2. CASE i > Len(s)
    <3>1. i - Len(s) \in 1..Len(q) /\ Len(s) + (i - Len(s)) = i
      BY <1>1, <2>2
    <3> QED
      BY <1>1, <1>2, <3>1 DEF Elements
  <2> QED
    BY <1>1, <2>1, <2>2
<1>4. ASSUME NEW i \in 1..Len(s) PROVE s[i] \in Elements(all)
  <2>1. i \in DOMAIN all
    BY <1>1
  <2> QED
    BY <1>2, <2>1 DEF Elements
<1>5. ASSUME NEW i \in 1..Len(q) PROVE q[i] \in Elements(all)
  <2>1. Len(s) + i \in DOMAIN all
    BY <1>1
  <2> QED
    BY <1>2, <2>1 DEF Elements
<1>6. Elements(all) \subseteq Elements(s) \cup Elements(q)
  BY <1>3 DEF Elements
<1>7. Elements(s) \subseteq Elements(all) /\ Elements(q) \subseteq Elements(all)
  BY <1>1, <1>4, <1>5 DEF Elements
<1> QED
  BY <1>6, <1>7 DEF all

(* The front of the queue is not among what was taken before it. *)
LEMMA HeadIsNew ==
    ASSUME NEW S, NEW s \in Seq(S), NEW q \in Seq(S), q # <<>>,
           \A i, j \in DOMAIN (s \o q) : (s \o q)[i] = (s \o q)[j] => i = j
    PROVE  Head(q) \notin Elements(s)
<1>1. /\ Len(s) + 1 \in DOMAIN (s \o q)
      /\ (s \o q)[Len(s) + 1] = Head(q)
      /\ \A i \in DOMAIN s : i \in DOMAIN (s \o q) /\ (s \o q)[i] = s[i]
      /\ \A i \in DOMAIN s : i # Len(s) + 1
  OBVIOUS
<1> QED
  BY <1>1 DEF Elements

(* The parts of a sequence without repetition have none in common. *)
LEMMA PartsApart ==
    ASSUME NEW S, NEW s \in Seq(S), NEW q \in Seq(S),
           \A i, j \in DOMAIN (s \o q) : (s \o q)[i] = (s \o q)[j] => i = j
    PROVE  /\ Elements(s) \cap Elements(q) = {}
           /\ \A i, j \in DOMAIN q : q[i] = q[j] => i = j
<1> DEFINE all == s \o q
<1>1. /\ DOMAIN s = 1..Len(s) /\ DOMAIN q = 1..Len(q)
      /\ DOMAIN all = 1..(Len(s) + Len(q))
      /\ Len(s) \in Nat /\ Len(q) \in Nat
  OBVIOUS
<1>2. /\ \A i \in 1..Len(s) : all[i] = s[i]
      /\ \A i \in 1..Len(q) : all[Len(s) + i] = q[i]
  OBVIOUS
<1>3. \A i, j \in DOMAIN all : all[i] = all[j] => i = j
  OBVIOUS
<1> HIDE DEF all
<1>4. ASSUME NEW i \in 1..Len(s), NEW j \in 1..Len(q) PROVE s[i] # q[j]
  <2>1. i \in DOMAIN all /\ Len(s) + j \in DOMAIN all /\ i # Len(s) + j
    BY <1>1
  <2> QED
    BY <1>2, <1>3, <2>1
<1>5. ASSUME NEW i \in 1..Len(q), NEW j \in 1..Len(q), q[i] = q[j] PROVE i = j
  <2>1. Len(s) + i \in DOMAIN all /\ Len(s) + j \in DOMAIN all
    BY <1>1
  <2>2. Len(s) + i = Len(s) + j
    BY <1>2, <1>3, <1>5, <2>1
  <2> QED
    BY <1>1, <2>2
<1> QED
  BY <1>1, <1>4, <1>5 DEF Elements

-----------------------------------------------------------------------------
(* Inv holds initially. *)
LEMMA InvInit == Init => Inv
<1> SUFFICES ASSUME Init PROVE Inv
  OBVIOUS
<1>1. TypeOK
  <2>1. /\ wpc \in [Workers -> WorkerStates]
        /\ wtask \in [Workers -> Tasks \cup {NoTask}]
        /\ ppc \in [Producers -> {"idle", "push", "notify"}]
        /\ ptask \in [Producers -> Tasks \cup {NoTask}]
    BY DEF Init, WorkerStates
  <2>2. <<>> \in Seq(Tasks)
    OBVIOUS
  <2> QED
    BY <2>1, <2>2 DEF Init, TypeOK
<1>2. FifoOrder
  BY DEF Init, FifoOrder
<1>3. Running = {}
  BY DEF Init, Running
<1>4. NoRepeat /\ Accounted
  BY <1>3 DEF Init, NoRepeat, Accounted, Elements
<1>5. InFlight
  BY DEF Init, InFlight
<1> QED
  BY <1>1, <1>2, <1>4, <1>5 DEF Inv

(* What Inv says of the queue and the histories is kept by a step that      *)
(* leaves them and the set of running workers alone.                        *)
LEMMA SameQueue ==
    ASSUME Inv,
           UNCHANGED <<m_tasks, history, wtask>>,
           \A w \in Workers : wpc'[w] = "run" <=> wpc[w] = "run"
    PROVE  FifoOrder' /\ NoRepeat' /\ Accounted'
<1> USE DEF Inv, history
<1>1. Running' = Running
  BY DEF Running
<1>2. FifoOrder'
  BY DEF FifoOrder
<1>3. Elements(started)' = Elements(started)
  BY DEF Elements
<1>4. NoRepeat'
  BY <1>1, <1>3 DEF NoRepeat
<1>5. Accounted'
  BY <1>1, <1>3 DEF Accounted, Executing
<1> QED
  BY <1>2, <1>4, <1>5

(* The steps that only move a worker or the owner: the queue, the           *)
(* histories, the producers and the set of running workers stay.            *)
LEMMA InvControl ==
    ASSUME Inv,
           TypeOK',
           UNCHANGED <<m_tasks, producers, history, wtask>>,
           \A w \in Workers : wpc'[w] = "run" <=> wpc[w] = "run"
    PROVE  Inv'
<1>1. FifoOrder' /\ NoRepeat' /\ Accounted'
  BY SameQueue
<1>2. InFlight'
  BY DEF Inv, InFlight, producers, history, Elements
<1> QED
  BY <1>1, <1>2 DEF Inv

LEMMA InvAddTask ==
    ASSUME Inv, NEW p \in Producers, NEW t \in Tasks, AddTask(p, t)
    PROVE  Inv'
<1> USE DEF Inv, AddTask, pool, workers, history
<1>1. TypeOK'
  BY DEF TypeOK
<1>2. FifoOrder' /\ NoRepeat' /\ Accounted'
  BY SameQueue
<1>3. InFlight'
  <2>1. /\ ptask' = [ptask EXCEPT ![p] = t]
        /\ ppc' = [ppc EXCEPT ![p] = "push"]
        /\ pushed' = pushed
        /\ Elements(pushed)' = Elements(pushed)
    BY DEF Elements
  <2>2. t \notin Elements(pushed) /\ \A q \in Producers : ptask[q] # t
    BY DEF Offered
  <2>3. ASSUME NEW q \in Producers
        PROVE  /\ ppc'[q] = IF q = p THEN "push" ELSE ppc[q]
               /\ ptask'[q] = IF q = p THEN t ELSE ptask[q]
    BY <2>1 DEF TypeOK
  <2> QED
    BY <2>1, <2>2, <2>3 DEF InFlight
<1> QED
  BY <1>1, <1>2, <1>3

LEMMA InvPushTask ==
    ASSUME Inv, NEW p \in Producers, PushTask(p)
    PROVE  Inv'
<1> DEFINE t == ptask[p]
<1> USE DEF Inv, PushTask, workers
<1>1. t \in Tasks /\ t \notin Elements(pushed)
  BY DEF InFlight
<1>2. TypeOK'
  BY <1>1 DEF TypeOK
<1>3. FifoOrder'
  <2>1. Append(started \o m_tasks, t) = started \o Append(m_tasks, t)
    <3>1. started \in Seq(Tasks) /\ m_tasks \in Seq(Tasks)
      BY DEF TypeOK
    <3> HIDE DEF t
    <3> QED
      BY ONLY <1>1, <3>1, PushEnd
  <2> QED
    BY <2>1 DEF FifoOrder
<1>4. Elements(pushed)' = Elements(pushed) \cup {t}
  <2>1. Elements(pushed)' = Elements(Append(pushed, t))
    BY DEF Elements
  <2> QED
    BY <1>1, <2>1, ElementsAppend DEF TypeOK
<1>5. NoRepeat' /\ Accounted'
  <2>1. \A i, j \in DOMAIN pushed' : pushed'[i] = pushed'[j] => i = j
    <3>1. /\ DOMAIN pushed = 1..Len(pushed) /\ Len(pushed) \in Nat
          /\ DOMAIN pushed' = 1..(Len(pushed) + 1)
          /\ \A i \in 1..Len(pushed) : pushed'[i] = pushed[i]
          /\ pushed'[Len(pushed) + 1] = t
      BY <1>1 DEF TypeOK
    <3>2. \A i \in 1..Len(pushed) : pushed[i] # t
      BY <1>1, <3>1 DEF Elements
    <3> QED
      BY <3>1, <3>2 DEF NoRepeat
  <2> QED
    BY <2>1 DEF NoRepeat, Accounted, Executing, Running, Elements
<1>6. InFlight'
  <2>1. \A q \in Producers : ppc'[q] = "push" => q # p /\ ppc[q] = "push"
    BY DEF TypeOK
  <2>2. \A q \in Producers : ppc'[q] = "push" => ptask[q] # t
    BY <2>1 DEF InFlight
  <2> QED
    BY <1>4, <2>1, <2>2 DEF InFlight
<1> QED
  BY <1>2, <1>3, <1>5, <1>6

LEMMA InvNotifyOne ==
    ASSUME Inv, NEW p \in Producers, NotifyOne(p)
    PROVE  Inv'
<1> USE DEF Inv, NotifyOne, pool, history
<1>1. /\ \A w \in Workers : wpc'[w] = "run" <=> wpc[w] = "run"
      /\ wpc' \in [Workers -> WorkerStates]
  BY DEF WakeOne, TypeOK, WorkerStates
<1>2. TypeOK'
  BY <1>1 DEF TypeOK
<1>3. FifoOrder' /\ NoRepeat' /\ Accounted'
  BY <1>1, SameQueue
<1>4. InFlight'
  <2>1. \A q \in Producers :
           ppc'[q] = "push" => /\ q # p /\ ppc[q] = "push"
                               /\ ptask'[q] = ptask[q]
    BY DEF TypeOK
  <2>2. Elements(pushed)' = Elements(pushed)
    BY DEF Elements
  <2> QED
    BY <2>1, <2>2 DEF InFlight
<1> QED
  BY <1>2, <1>3, <1>4

LEMMA InvFetchTask ==
    ASSUME Inv, NEW w \in Workers, FetchTask(w)
    PROVE  Inv'
<1> DEFINE t == Head(m_tasks)
<1> USE DEF Inv, FetchTask, producers
<1>1. m_tasks # <<>>
  BY DEF MayTake
<1>2. /\ t \in Tasks
      /\ Tail(m_tasks) \in Seq(Tasks)
      /\ Append(started, t) \in Seq(Tasks)
      /\ Append(started, t) \o Tail(m_tasks) = started \o m_tasks
  BY <1>1, MoveHead DEF TypeOK
<1>3. TypeOK'
  BY <1>2 DEF TypeOK, WorkerStates
<1>4. FifoOrder'
  BY <1>2 DEF FifoOrder
<1>5. t \notin Elements(started)
  <2>1. started \in Seq(Tasks) /\ m_tasks \in Seq(Tasks)
    BY DEF TypeOK
  <2>2. \A i, j \in DOMAIN (started \o m_tasks) :
           (started \o m_tasks)[i] = (started \o m_tasks)[j] => i = j
    BY DEF FifoOrder, NoRepeat
  <2> QED
    BY ONLY <1>1, <2>1, <2>2, HeadIsNew
<1>6. Elements(started)' = Elements(started) \cup {t}
  <2>1. Elements(started)' = Elements(Append(started, t))
    BY DEF Elements
  <2> QED
    BY <1>2, <2>1, ElementsAppend DEF TypeOK
<1>7. NoRepeat' /\ Accounted'
  <2>1. /\ Running' = Running \cup {w}
        /\ w \notin Running
        /\ wtask'[w] = t
        /\ \A v \in Running : wtask'[v] = wtask[v]
    BY DEF Running, TypeOK, WorkerStates
  <2>2. t \notin finished
    BY <1>5 DEF NoRepeat
  <2>3. \A v \in Running : wtask[v] # t
    BY <1>5 DEF NoRepeat
  <2> QED
    BY <1>6, <2>1, <2>2, <2>3 DEF NoRepeat, Accounted, Executing
<1>8. InFlight'
  BY DEF InFlight, Elements
<1> QED
  BY <1>3, <1>4, <1>7, <1>8

LEMMA InvRunTask ==
    ASSUME Inv, NEW w \in Workers, RunTask(w)
    PROVE  Inv'
<1> USE DEF Inv, RunTask, producers, pool
<1>1. w \in Running
  BY DEF Running
<1>2. wtask[w] \in Elements(started) /\ Elements(started) \subseteq Tasks
  BY <1>1 DEF NoRepeat, TypeOK, Elements
<1>3. TypeOK'
  BY <1>2 DEF TypeOK, WorkerStates
<1>4. FifoOrder'
  BY DEF FifoOrder
<1>5. /\ Running' = Running \ {w}
      /\ \A v \in Running' : wtask'[v] = wtask[v]
  BY DEF Running, TypeOK, WorkerStates
<1>6. NoRepeat' /\ Accounted'
  <2>1. Elements(started)' = Elements(started)
    BY DEF Elements
  <2> QED
    BY <1>1, <1>2, <1>5, <2>1 DEF NoRepeat, Accounted, Executing
<1>7. InFlight'
  BY DEF InFlight, Elements
<1> QED
  BY <1>3, <1>4, <1>6, <1>7

(* Every step preserves Inv. *)
LEMMA InvNext == Inv /\ [Next]_vars => Inv'
<1> SUFFICES ASSUME Inv, [Next]_vars PROVE Inv'
  OBVIOUS
<1> USE DEF pool, workers, producers, history
<1>1. ASSUME NEW w \in Workers, AddNewThread(w) PROVE Inv'
  BY <1>1, InvControl DEF AddNewThread, Inv, TypeOK, WorkerStates
<1>2. ASSUME NEW w \in Workers, CheckStop(w) PROVE Inv'
  BY <1>2, InvControl DEF CheckStop, Inv, TypeOK, WorkerStates
<1>3. ASSUME NEW w \in Workers, FetchTask(w) PROVE Inv'
  BY <1>3, InvFetchTask
<1>4. ASSUME NEW w \in Workers, FetchNothing(w) PROVE Inv'
  BY <1>4, InvControl DEF FetchNothing, Inv, TypeOK, WorkerStates
<1>5. ASSUME NEW w \in Workers, Wait(w) PROVE Inv'
  BY <1>5, InvControl DEF Wait, Inv, TypeOK, WorkerStates
<1>6. ASSUME NEW w \in Workers, WakeUp(w) PROVE Inv'
  BY <1>6, InvControl DEF WakeUp, Inv, TypeOK, WorkerStates
<1>7. ASSUME NEW w \in Workers, RunTask(w) PROVE Inv'
  BY <1>7, InvRunTask
<1>8. ASSUME NEW w \in Workers, SpuriousWake(w) PROVE Inv'
  BY <1>8, InvControl DEF SpuriousWake, Inv, TypeOK, WorkerStates
<1>9. CASE StartSignalThread
  BY <1>9, InvControl DEF StartSignalThread, Inv, TypeOK
<1>10. ASSUME NEW p \in Producers, PushTask(p) PROVE Inv'
  BY <1>10, InvPushTask
<1>11. ASSUME NEW p \in Producers, NotifyOne(p) PROVE Inv'
  BY <1>11, InvNotifyOne
<1>12. ASSUME NEW p \in Producers, NEW t \in Tasks, AddTask(p, t) PROVE Inv'
  BY <1>12, InvAddTask
<1>13. CASE SetStop
  BY <1>13, InvControl DEF SetStop, Inv, TypeOK
<1>14. CASE NotifyAll
  BY <1>14, InvControl DEF NotifyAll, Inv, TypeOK, WorkerStates
<1>15. CASE JoinWorkers
  BY <1>15, InvControl DEF JoinWorkers, Inv, TypeOK
<1>16. CASE UNCHANGED vars
  <2>1. FifoOrder' /\ NoRepeat' /\ Accounted'
    BY <1>16, SameQueue DEF vars
  <2> QED
    BY <1>16, <2>1 DEF vars, Inv, TypeOK, InFlight, Elements
<1> QED
  BY <1>1, <1>2, <1>3, <1>4, <1>5, <1>6, <1>7, <1>8, <1>9, <1>10, <1>11,
     <1>12, <1>13, <1>14, <1>15, <1>16 DEF Next, Worker, Producer, Destructor

(* In every reachable state Inv holds. *)
THEOREM Invariant == Spec => []Inv
  BY InvInit, InvNext, PTL DEF Spec

(* Every variable keeps its type. *)
THEOREM TypeCorrect == Spec => []TypeOK
<1>1. Inv => TypeOK
  BY DEF Inv
<1> QED
  BY <1>1, Invariant, PTL

(* The queue of thread_pool.hpp neither loses, repeats nor reorders a task, *)
(* whatever the interleaving of producers, workers and destructor.          *)
THEOREM FifoCorrect == Spec => []FifoOrder
<1>1. Inv => FifoOrder
  BY DEF Inv
<1> QED
  BY <1>1, Invariant, PTL

(* What the queue, the workers and the finished tasks hold, when a prefix   *)
(* of the pushed tasks was started.                                         *)
LEMMA ExactlyOnceFollows == Inv => ExactlyOnce
<1> SUFFICES ASSUME Inv PROVE ExactlyOnce
  OBVIOUS
<1> USE DEF Inv
<1>1. started \in Seq(Tasks) /\ m_tasks \in Seq(Tasks)
  BY DEF TypeOK
<1>2. Elements(pushed) = Elements(started) \cup Elements(m_tasks)
  BY <1>1, ElementsConcat DEF FifoOrder
<1>3. Elements(started) = Executing \cup finished /\ Executing \cap finished = {}
  BY DEF NoRepeat, Accounted, Executing
<1>4. \A i, j \in DOMAIN (started \o m_tasks) :
        (started \o m_tasks)[i] = (started \o m_tasks)[j] => i = j
  BY DEF FifoOrder, NoRepeat
<1>5. /\ Elements(started) \cap Elements(m_tasks) = {}
      /\ \A i, j \in DOMAIN m_tasks : m_tasks[i] = m_tasks[j] => i = j
  BY ONLY <1>1, <1>4, PartsApart
<1> QED
  BY <1>2, <1>3, <1>5 DEF ExactlyOnce, Executing, NoRepeat

(* No task is lost, given to two workers or executed twice.                 *)
THEOREM ExactlyOnceCorrect == Spec => []ExactlyOnce
<1>1. Inv => ExactlyOnce
  BY ExactlyOnceFollows
<1> QED
  BY <1>1, Invariant, PTL

(* With sudden_death_on_termination nothing is taken after m_stop, although *)
(* workers read m_stop at the head of the loop without a lock.              *)
THEOREM SuddenDeathCorrect == Spec => SuddenDeathStops
<1>1. [Next]_vars => [(m_stop /\ sudden_death) => started' = started]_vars
  BY DEF Next, Worker, Producer, Destructor, AddNewThread, CheckStop,
     FetchTask, MayTake, FetchNothing, Wait, WakeUp, RunTask, SpuriousWake,
     StartSignalThread, PushTask, NotifyOne, AddTask, SetStop, NotifyAll,
     JoinWorkers, vars, pool, workers, producers, history
<1> QED
  BY <1>1, PTL DEF Spec, SuddenDeathStops

-----------------------------------------------------------------------------
(* Refinement *)

(* A step that leaves the queue, the histories and the running workers      *)
(* alone is a stutter of the abstract queue, or its Close.                  *)
LEMMA StepControl ==
    ASSUME UNCHANGED <<m_tasks, sudden_death, finished, wtask>>,
           m_stop' = m_stop \/ m_stop' = TRUE,
           \A w \in Workers : wpc'[w] = "run" <=> wpc[w] = "run"
    PROVE  [TQ!Next]_(TQ!vars)
<1>1. Running' = Running
  BY DEF Running
<1> QED
  BY <1>1 DEF TQ!Next, TQ!Close, TQ!vars

LEMMA StepPushTask ==
    ASSUME Inv, NEW p \in Producers, PushTask(p), NEW t \in Tasks,
           t = ptask[p]
    PROVE  TQ!Submit(t)
<1> USE DEF Inv, PushTask, workers
<1>1. Elements(pushed) = Elements(started) \cup Elements(m_tasks)
  <2>1. /\ started \in Seq(Tasks) /\ m_tasks \in Seq(Tasks)
        /\ pushed = started \o m_tasks
    BY DEF TypeOK, FifoOrder
  <2> QED
    BY ONLY <2>1, ElementsConcat
<1>2. Executing \cup finished \subseteq Elements(started)
  BY DEF NoRepeat, Executing
<1>3. TQ!Known \subseteq Elements(pushed)
  BY <1>1, <1>2 DEF TQ!Known, Elements, Executing
<1>4. t \notin TQ!Known
  BY <1>3 DEF InFlight
<1> QED
  BY <1>4 DEF TQ!Submit, Running

LEMMA StepFetchTask ==
    ASSUME Inv, NEW w \in Workers, FetchTask(w)
    PROVE  TQ!Start
<1> USE DEF Inv, FetchTask, MayTake
<1>1. /\ Running' = Running \cup {w}
      /\ wtask'[w] = Head(m_tasks)
      /\ \A v \in Running : v # w /\ wtask'[v] = wtask[v]
  BY DEF Running, TypeOK, WorkerStates
<1>2. Executing' = Executing \cup {Head(m_tasks)}
  BY <1>1 DEF Executing
<1> QED
  BY <1>2 DEF TQ!Start, Executing

LEMMA StepRunTask ==
    ASSUME Inv, NEW w \in Workers, RunTask(w), NEW t \in Tasks, t = wtask[w]
    PROVE  TQ!Finish(t)
<1> USE DEF Inv, RunTask, pool
<1>1. /\ w \in Running
      /\ Running' = Running \ {w}
      /\ \A v \in Running' : wtask'[v] = wtask[v]
  BY DEF Running, TypeOK, WorkerStates
<1>2. Executing' = Executing \ {t}
  BY <1>1 DEF NoRepeat, Executing
<1>3. t \in Executing
  BY <1>1 DEF Executing
<1> QED
  BY <1>2, <1>3 DEF TQ!Finish, Executing

(* Every step of the pool is a step of the abstract queue or a stutter. *)
LEMMA RefinementStep == Inv /\ [Next]_vars => [TQ!Next]_(TQ!vars)
<1> SUFFICES ASSUME Inv, [Next]_vars PROVE [TQ!Next]_(TQ!vars)
  OBVIOUS
<1> USE DEF Inv, TypeOK, pool, workers, producers, history
<1>1. ASSUME NEW w \in Workers, AddNewThread(w) PROVE [TQ!Next]_(TQ!vars)
  BY <1>1, StepControl DEF AddNewThread
<1>2. ASSUME NEW w \in Workers, CheckStop(w) PROVE [TQ!Next]_(TQ!vars)
  BY <1>2, StepControl DEF CheckStop
<1>3. ASSUME NEW w \in Workers, FetchTask(w) PROVE [TQ!Next]_(TQ!vars)
  BY <1>3, StepFetchTask DEF TQ!Next
<1>4. ASSUME NEW w \in Workers, FetchNothing(w) PROVE [TQ!Next]_(TQ!vars)
  BY <1>4, StepControl DEF FetchNothing
<1>5. ASSUME NEW w \in Workers, Wait(w) PROVE [TQ!Next]_(TQ!vars)
  BY <1>5, StepControl DEF Wait
<1>6. ASSUME NEW w \in Workers, WakeUp(w) PROVE [TQ!Next]_(TQ!vars)
  BY <1>6, StepControl DEF WakeUp
<1>7. ASSUME NEW w \in Workers, RunTask(w) PROVE [TQ!Next]_(TQ!vars)
  <2>1. wtask[w] \in Tasks
    BY <1>7 DEF RunTask, NoRepeat, Running, Elements
  <2>2. PICK t \in Tasks : t = wtask[w]
    BY <2>1
  <2>3. TQ!Finish(t)
    BY <1>7, <2>2, StepRunTask
  <2> QED
    BY <2>3 DEF TQ!Next
<1>8. ASSUME NEW w \in Workers, SpuriousWake(w) PROVE [TQ!Next]_(TQ!vars)
  BY <1>8, StepControl DEF SpuriousWake
<1>9. CASE StartSignalThread
  BY <1>9, StepControl DEF StartSignalThread
<1>10. ASSUME NEW p \in Producers, PushTask(p) PROVE [TQ!Next]_(TQ!vars)
  <2>1. ptask[p] \in Tasks
    BY <1>10 DEF PushTask, InFlight
  <2>2. PICK t \in Tasks : t = ptask[p]
    BY <2>1
  <2>3. TQ!Submit(t)
    BY <1>10, <2>2, StepPushTask
  <2> QED
    BY <2>3 DEF TQ!Next
<1>11. ASSUME NEW p \in Producers, NotifyOne(p) PROVE [TQ!Next]_(TQ!vars)
  BY <1>11, StepControl DEF NotifyOne, WakeOne
<1>12. ASSUME NEW p \in Producers, NEW t \in Tasks, AddTask(p, t)
       PROVE  [TQ!Next]_(TQ!vars)
  BY <1>12, StepControl DEF AddTask
<1>13. CASE SetStop
  BY <1>13, StepControl DEF SetStop
<1>14. CASE NotifyAll
  BY <1>14, StepControl DEF NotifyAll
<1>15. CASE JoinWorkers
  BY <1>15, StepControl DEF JoinWorkers
<1>16. CASE UNCHANGED vars
  BY <1>16, StepControl DEF vars
<1> QED
  BY <1>1, <1>2, <1>3, <1>4, <1>5, <1>6, <1>7, <1>8, <1>9, <1>10, <1>11,
     <1>12, <1>13, <1>14, <1>15, <1>16 DEF Next, Worker, Producer, Destructor

(* The initial states of the pool are initial states of the abstract queue. *)
LEMMA RefinementInit == Init => TQ!Init
  BY DEF Init, TQ!Init, Running

(* The thread pool implements the abstract task queue.                      *)
THEOREM Refinement == Spec => ImplementsTaskQueue
  BY RefinementInit, RefinementStep, Invariant, PTL
     DEF Spec, ImplementsTaskQueue, TQ!Spec

-----------------------------------------------------------------------------
(* The signal manager *)

(* m_sig_caught holds nothing or a signal whose handler is over. *)
Begun == m_sig_caught # NoSignal => m_sig_caught \in delivered \ handlers

(* So is a signal that was notified; and if it is still in m_sig_caught,    *)
(* the loop is about to clear it.                                           *)
Reported ==
    \A i \in DOMAIN notified :
        notified[i] # NoSignal =>
            /\ notified[i] \in delivered \ handlers
            /\ m_sig_caught = notified[i] => loop = "clear"

Once ==
    \A i, j \in DOMAIN notified :
        (notified[i] = notified[j] /\ notified[i] # NoSignal) => i = j

SignalInv == SignalTypeOK /\ Begun /\ Reported /\ Once

LEMMA SignalInitInv == SignalInit => SignalInv
<1> SUFFICES ASSUME SignalInit PROVE SignalInv
  OBVIOUS
<1> USE SignalsAssumption, NoSignalAssumption
<1>1. SignalTypeOK
  <2>1. <<>> \in Seq(Numbers) /\ NoSignal \in Numbers
    BY DEF Numbers
  <2> QED
    BY <2>1 DEF SignalInit, SignalTypeOK
<1>2. Begun /\ Reported /\ Once
  BY DEF SignalInit, Begun, Reported, Once
<1> QED
  BY <1>1, <1>2 DEF SignalInv

(* A step that leaves notified alone keeps the reports when what is over    *)
(* stays over, no notified number comes back to m_sig_caught, and the loop  *)
(* has cleared what it notified.                                            *)
LEMMA SameReports ==
  ASSUME SignalInv, UNCHANGED notified,
         delivered \ handlers \subseteq delivered' \ handlers',
         \A i \in DOMAIN notified :
            (notified[i] # NoSignal /\ m_sig_caught' = notified[i])
                => (m_sig_caught' = m_sig_caught /\ loop' = loop)
  PROVE  Reported' /\ Once'
<1>1. Reported'
  BY DEF SignalInv, Reported
<1>2. Once'
  BY DEF SignalInv, Once
<1> QED
  BY <1>1, <1>2

LEMMA SetupInv ==
  ASSUME SignalInv, NEW w \in Runners, Setup(w)
  PROVE  SignalInv'
<1> USE SignalsAssumption, NoSignalAssumption DEF SignalInv
<1>1. CASE SetupRun(w)
  <2>1. SignalTypeOK' /\ Begun'
    BY <1>1 DEF SetupRun, SignalTypeOK, Begun
  <2>2. Reported' /\ Once'
    BY <1>1, SameReports DEF SetupRun
  <2> QED
    BY <2>1, <2>2
<1>2. CASE SetupClear(w)
  <2>1. SignalTypeOK' /\ Begun'
    BY <1>2 DEF SetupClear, SignalTypeOK, Begun, Numbers
  <2>2. Reported' /\ Once'
    BY <1>2, SameReports DEF SetupClear
  <2> QED
    BY <2>1, <2>2
<1>3. CASE SetupInstall(w)
  <2>1. SignalTypeOK' /\ Begun'
    BY <1>3 DEF SetupInstall, SignalTypeOK, Begun
  <2>2. Reported' /\ Once'
    BY <1>3, SameReports DEF SetupInstall
  <2> QED
    BY <2>1, <2>2
<1> QED
  BY <1>1, <1>2, <1>3 DEF Setup

(* A signal comes once, so the number its handler writes is a new one. *)
LEMMA HandlerInv ==
  ASSUME SignalInv, NEW s \in Signals, HandlerRun(s) \/ HandlerSig(s)
  PROVE  SignalInv'
<1> USE SignalsAssumption, NoSignalAssumption DEF SignalInv
<1>1. CASE HandlerRun(s)
  <2>1. SignalTypeOK'
    BY <1>1 DEF HandlerRun, SignalTypeOK
  <2>2. delivered \ handlers \subseteq delivered' \ handlers'
    BY <1>1 DEF HandlerRun
  <2>3. Begun'
    BY <1>1, <2>2 DEF HandlerRun, Begun
  <2>4. Reported' /\ Once'
    BY <1>1, <2>2, SameReports DEF HandlerRun
  <2> QED
    BY <2>1, <2>3, <2>4
<1>2. CASE HandlerSig(s)
  <2>1. SignalTypeOK' /\ s # NoSignal
    BY <1>2 DEF HandlerSig, SignalTypeOK, Numbers
  <2>2. delivered \ handlers \subseteq delivered' \ handlers'
    BY <1>2 DEF HandlerSig
  <2>3. Begun'
    BY <1>2, <2>2 DEF HandlerSig, Begun, SignalTypeOK
  <2>4. \A i \in DOMAIN notified : notified[i] # NoSignal => notified[i] # s
    BY <1>2 DEF HandlerSig, Reported
  <2>5. Reported' /\ Once'
    BY <1>2, <2>2, <2>4, SameReports DEF HandlerSig
  <2> QED
    BY <2>1, <2>3, <2>5
<1> QED
  BY <1>1, <1>2

(* What is notified was not notified before: the loop is not at "clear". *)
LEMMA NotifyInv ==
  ASSUME SignalInv, Notify
  PROVE  SignalInv'
<1> USE SignalsAssumption, NoSignalAssumption DEF SignalInv
<1>1. notified \in Seq(Numbers) /\ m_sig_caught \in Numbers
  BY DEF SignalTypeOK
<1>2. SignalTypeOK'
  BY <1>1, AppendProperties DEF Notify, Step, SignalTypeOK
<1>3. Begun'
  BY DEF Notify, Begun
<1>4. CASE ~configured
  BY <1>2, <1>3, <1>4 DEF Notify, Step, Reported, Once
<1>5. CASE configured
  <2>1. notified' = Append(notified, m_sig_caught)
    BY <1>5 DEF Notify
  <2> DEFINE n == Len(notified)
  <2>2. /\ n \in Nat
        /\ DOMAIN notified = 1..n
        /\ DOMAIN notified' = 1..(n + 1)
        /\ notified'[n + 1] = m_sig_caught
        /\ \A i \in 1..n : notified'[i] = notified[i]
    BY <1>1, <2>1, AppendProperties
  <2> HIDE DEF n
  <2>3. \A i \in 1..n : notified[i] # NoSignal =>
            notified[i] \in delivered \ handlers /\ notified[i] # m_sig_caught
    BY <2>2 DEF Notify, Step, Reported
  <2>4. loop' = "clear" /\ UNCHANGED <<m_sig_caught, delivered, handlers>>
    BY DEF Notify, Step
  <2>5. \A i \in 1..(n + 1) : i \in 1..n \/ i = n + 1
    BY <2>2
  <2>6. Reported'
    BY <2>2, <2>3, <2>4, <2>5 DEF Reported, Begun
  <2>7. Once'
    <3> SUFFICES ASSUME NEW i \in 1..(n + 1), NEW j \in 1..(n + 1),
                        notified'[i] = notified'[j], notified'[i] # NoSignal
                 PROVE  i = j
      BY <2>2 DEF Once
    <3>1. CASE i \in 1..n /\ j \in 1..n
      BY <3>1, <2>2 DEF Once
    <3>2. CASE i = n + 1 \/ j = n + 1
      BY <3>2, <2>2, <2>3, <2>5
    <3> QED
      BY <3>1, <3>2, <2>5
  <2> QED
    BY <1>2, <1>3, <2>6, <2>7
<1> QED
  BY <1>4, <1>5

LEMMA LoopInv ==
  ASSUME SignalInv, Loop
  PROVE  SignalInv'
<1> USE SignalsAssumption, NoSignalAssumption DEF SignalInv
<1>1. CASE Poll
  <2>1. SignalTypeOK' /\ Begun'
    BY <1>1 DEF Poll, Step, SignalTypeOK, Begun
  <2>2. Reported' /\ Once'
    BY <1>1, SameReports DEF Poll, Step, Reported
  <2> QED
    BY <2>1, <2>2
<1>2. CASE ReadMessage
  <2>1. SignalTypeOK' /\ Begun'
    BY <1>2 DEF ReadMessage, Step, SignalTypeOK, Begun
  <2>2. Reported' /\ Once'
    BY <1>2, SameReports DEF ReadMessage, Step, Reported
  <2> QED
    BY <2>1, <2>2
<1>3. CASE LogMessage
  <2>1. SignalTypeOK' /\ Begun'
    BY <1>3, AppendProperties DEF LogMessage, Step, SignalTypeOK, Begun
  <2>2. Reported' /\ Once'
    BY <1>3, SameReports DEF LogMessage, Step, Reported
  <2> QED
    BY <2>1, <2>2
<1>4. CASE Notify
  BY <1>4, NotifyInv
<1>5. CASE Clear
  <2>1. SignalTypeOK' /\ Begun'
    BY <1>5 DEF Clear, Step, SignalTypeOK, Begun, Numbers
  <2>2. Reported' /\ Once'
    BY <1>5, SameReports DEF Clear, Step
  <2> QED
    BY <2>1, <2>2
<1>6. CASE Run
  <2>1. SignalTypeOK' /\ Begun'
    BY <1>6 DEF Run, Step, SignalTypeOK, Begun
  <2>2. Reported' /\ Once'
    BY <1>6, SameReports DEF Run, Step, Reported
  <2> QED
    BY <2>1, <2>2
<1> QED
  BY <1>1, <1>2, <1>3, <1>4, <1>5, <1>6 DEF Loop

LEMMA SignalNextInv == SignalInv /\ [SignalNext]_signalVars => SignalInv'
<1> SUFFICES ASSUME SignalInv, [SignalNext]_signalVars PROVE SignalInv'
  OBVIOUS
<1>1. CASE UNCHANGED signalVars
  BY <1>1 DEF signalVars, SignalInv, SignalTypeOK, Begun, Reported, Once
<1>2. CASE SignalNext
  BY <1>2, SetupInv, HandlerInv, LoopInv DEF SignalNext
<1> QED
  BY <1>1, <1>2

(* A signal is counted as reported at most as often as it came, whichever   *)
(* of the two variables handler and loop access first.                      *)
THEOREM SignalInvariance == SignalSpec => []SignalInv
BY SignalInitInv, SignalNextInv, PTL DEF SignalSpec

(* The variables of the signal manager are well typed, for any workers and  *)
(* signals.                                                                 *)
THEOREM SignalTypeCorrect == SignalSpec => []SignalTypeOK
<1>1. SignalInv => SignalTypeOK
  BY DEF SignalInv
<1> QED
  BY <1>1, SignalInvariance, PTL

(* A signal is notified at most once, and only one that came, although the  *)
(* handler writes its two variables in two steps and the loop reads and     *)
(* clears them in four.                                                     *)
THEOREM NotifiedOnceCorrect == SignalSpec => []NotifiedOnce
<1>1. SignalInv => NotifiedOnce
  BY DEF SignalInv, Reported, Once, NotifiedOnce
<1> QED
  BY <1>1, SignalInvariance, PTL
=============================================================================
