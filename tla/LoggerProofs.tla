------------------------------ MODULE LoggerProofs ------------------------------
(* That every message is in one place and every file in order, for any      *)
(* threads, messages and levels, whatever the disk does.                    *)
(* The queue is the end of the history of logged messages.  What comes      *)
(* before it, the settled messages, is spread over the files, dropped and   *)
(* lost; a file only grows by the message that is settled next, which was   *)
(* logged after all that are settled already.                               *)
EXTENDS Logger, SequenceTheorems, TLAPS

(* The number of messages that have left the queue, and those messages. *)
Left == Len(logged) - Len(m_log_queue)
Settled == {logged[i] : i \in 1..Left}

Types ==
    /\ m_log_queue \in Seq(Messages)
    /\ files \in [Levels -> Seq(Messages)]
    /\ logged \in Seq(Messages)

(* A message is logged once. *)
LoggedOnce ==
    \A i, j \in 1..Len(logged) : logged[i] = logged[j] => i = j

QueueIsEnd ==
    /\ Len(m_log_queue) <= Len(logged)
    /\ \A i \in 1..Len(m_log_queue) : m_log_queue[i] = logged[Left + i]

(* A message that has left the queue is in one place. *)
SettledOnce ==
    /\ InFiles \cup dropped \cup lost = Settled
    /\ InFiles \cap dropped = {}
    /\ InFiles \cap lost = {}
    /\ dropped \cap lost = {}

Before(x, y) ==
    \A i, j \in 1..Len(logged) : (logged[i] = x /\ logged[j] = y) => i < j

InOrder ==
    \A l \in Levels :
        /\ \A i \in 1..Len(files[l]) : LevelOf[files[l][i]] = l
        /\ \A i, j \in 1..Len(files[l]) :
              i < j => Before(files[l][i], files[l][j])

Inv == Types /\ LoggedOnce /\ QueueIsEnd /\ SettledOnce /\ InOrder

-----------------------------------------------------------------------------
LEMMA ElementsAppend ==
  ASSUME NEW S, NEW s \in Seq(S), NEW x \in S
  PROVE  Elements(Append(s, x)) = Elements(s) \cup {x}
<1>1. /\ Len(s) \in Nat
      /\ DOMAIN s = 1..Len(s)
      /\ DOMAIN Append(s, x) = 1..(Len(s) + 1)
      /\ Append(s, x)[Len(s) + 1] = x
      /\ \A i \in 1..Len(s) : Append(s, x)[i] = s[i]
  BY AppendProperties
<1>2. \A i \in 1..(Len(s) + 1) : i \in 1..Len(s) \/ i = Len(s) + 1
  BY <1>1
<1>3. 1..Len(s) \subseteq 1..(Len(s) + 1) /\ Len(s) + 1 \in 1..(Len(s) + 1)
  BY <1>1
<1>4. Elements(Append(s, x)) \subseteq Elements(s) \cup {x}
  BY <1>1, <1>2 DEF Elements
<1>5. Elements(s) \cup {x} \subseteq Elements(Append(s, x))
  BY <1>1, <1>3 DEF Elements
<1> QED
  BY <1>4, <1>5

LEMMA Lengths ==
  ASSUME Types, QueueIsEnd
  PROVE  /\ Len(logged) \in Nat /\ Len(m_log_queue) \in Nat /\ Left \in Nat
         /\ DOMAIN logged = 1..Len(logged)
         /\ DOMAIN m_log_queue = 1..Len(m_log_queue)
         /\ 1..Left \subseteq 1..Len(logged)
BY DEF Types, QueueIsEnd, Left

(* What is in a file is of the type of messages and has left the queue. *)
LEMMA FilesSettled ==
  ASSUME Inv, NEW l \in Levels, NEW i \in 1..Len(files[l])
  PROVE  files[l][i] \in Settled
<1>1. files[l] \in Seq(Messages)
  BY DEF Inv, Types
<1>2. files[l][i] \in Elements(files[l])
  BY <1>1 DEF Elements
<1>3. files[l][i] \in InFiles
  BY <1>2 DEF InFiles
<1> QED
  BY <1>3 DEF Inv, SettledOnce

LEMMA InitInv == Init => Inv
<1> SUFFICES ASSUME Init PROVE Inv
  OBVIOUS
<1>1. Types
  BY DEF Init, Types
<1>2. Len(logged) = 0 /\ Len(m_log_queue) = 0 /\ Left = 0
      /\ \A l \in Levels : Len(files[l]) = 0
  BY DEF Init, Left
<1>3. LoggedOnce /\ QueueIsEnd /\ InOrder
  BY <1>2 DEF LoggedOnce, QueueIsEnd, InOrder
<1>4. InFiles = {}
  BY DEF Init, InFiles, Elements
<1>5. Settled = {}
  BY <1>2 DEF Settled
<1>6. SettledOnce
  BY <1>4, <1>5 DEF Init, SettledOnce
<1> QED
  BY <1>1, <1>3, <1>6 DEF Inv

(* Steps that write neither files nor the queue. *)
LEMMA SameInv ==
  ASSUME Inv, UNCHANGED <<m_log_queue, files, logged, dropped, lost>>
  PROVE  Inv'
<1>1. InFiles' = InFiles /\ Left' = Left
  BY DEF InFiles, Left
<1>2. Settled' = Settled
  BY <1>1 DEF Settled
<1>3. \A x, y : Before(x, y)' <=> Before(x, y)
  BY DEF Before
<1> QED
  BY <1>1, <1>2, <1>3
  DEF Inv, Types, LoggedOnce, QueueIsEnd, SettledOnce, InOrder

-----------------------------------------------------------------------------
LEMMA LogInv ==
  ASSUME Inv, NEW m \in Messages, Log(m)
  PROVE  Inv'
<1> DEFINE n == Len(logged)
           q == Len(m_log_queue)
<1>1. /\ logged \in Seq(Messages) /\ m_log_queue \in Seq(Messages)
      /\ logged' = Append(logged, m)
      /\ m_log_queue' = Append(m_log_queue, m)
      /\ UNCHANGED <<files, dropped, lost>>
  BY DEF Inv, Types, Log
<1>2. /\ n \in Nat /\ q \in Nat /\ q <= n /\ Left = n - q
      /\ Len(logged') = n + 1 /\ Len(m_log_queue') = q + 1
      /\ logged'[n + 1] = m /\ m_log_queue'[q + 1] = m
      /\ \A i \in 1..n : logged'[i] = logged[i]
      /\ \A i \in 1..q : m_log_queue'[i] = m_log_queue[i]
  BY <1>1, AppendProperties DEF Inv, QueueIsEnd, Left
<1>3. \A i \in 1..n : logged[i] # m
  BY <1>1 DEF Log, Elements
<1>4. Left' = Left
  BY <1>2 DEF Left
<1>5. /\ \A i \in 1..(n + 1) : i \in 1..n \/ i = n + 1
      /\ \A i \in 1..(q + 1) : i \in 1..q \/ i = q + 1
  BY <1>2
<1>6. 1..Left \subseteq 1..n /\ \A i \in 1..q : Left + i \in 1..n
  BY <1>2
<1>7. \A i \in 1..q : m_log_queue[i] = logged[Left + i]
  BY DEF Inv, QueueIsEnd
<1>8. \A i, j \in 1..n : logged[i] = logged[j] => i = j
  BY DEF Inv, LoggedOnce
<1>9. Types'
  BY <1>1, AppendProperties DEF Inv, Types
<1>10. Left + (q + 1) = n + 1
  BY <1>2
<1> HIDE DEF n, q
<1>11. LoggedOnce'
  BY <1>2, <1>3, <1>5, <1>8 DEF LoggedOnce
<1>12. QueueIsEnd'
  <2>1. \A i \in 1..(q + 1) : m_log_queue'[i] = logged'[Left + i]
    BY <1>2, <1>5, <1>6, <1>7, <1>10
  <2> QED
    BY <2>1, <1>2, <1>4 DEF QueueIsEnd
<1>13. Settled' = Settled
  BY <1>2, <1>4, <1>6 DEF Settled
<1>14. SettledOnce'
  <2>1. InFiles' = InFiles
    BY <1>1 DEF InFiles
  <2> QED
    BY <2>1, <1>1, <1>13 DEF Inv, SettledOnce
<1>15. InOrder'
  <2> SUFFICES ASSUME NEW l \in Levels
               PROVE  /\ \A i \in 1..Len(files[l]) : LevelOf[files[l][i]] = l
                      /\ \A i, j \in 1..Len(files[l]) :
                            i < j => Before(files[l][i], files[l][j])'
    BY <1>1 DEF InOrder
  <2>1. \A i \in 1..Len(files[l]) : files[l][i] # m
    BY FilesSettled, <1>3, <1>6 DEF Settled
  <2>2. \A x, y : (x # m /\ y # m /\ Before(x, y)) => Before(x, y)'
    BY <1>2, <1>5 DEF Before, n
  <2> QED
    BY <2>1, <2>2, <1>1 DEF Inv, InOrder
<1> QED
  BY <1>9, <1>11, <1>12, <1>14, <1>15 DEF Inv

-----------------------------------------------------------------------------
(* The front of the queue is the first message that is not settled. *)
LEMMA FrontIsNext ==
  ASSUME Inv, m_log_queue # <<>>
  PROVE  /\ Left + 1 \in 1..Len(logged)
         /\ Front = logged[Left + 1]
         /\ Front \in Messages
         /\ Front \notin Settled
<1>1. /\ m_log_queue \in Seq(Messages) /\ logged \in Seq(Messages)
      /\ Len(m_log_queue) \in Nat \ {0} /\ Len(logged) \in Nat
      /\ Front = m_log_queue[1] /\ Front \in Messages
  BY DEF Inv, Types, Front
<1>2. 1 \in 1..Len(m_log_queue) /\ Left + 1 \in 1..Len(logged)
  BY <1>1 DEF Inv, QueueIsEnd, Left
<1>3. Front = logged[Left + 1]
  BY <1>1, <1>2 DEF Inv, QueueIsEnd
<1>4. \A i \in 1..Left : i \in 1..Len(logged) /\ i # Left + 1
  BY <1>1, <1>2 DEF Left
<1>5. Front \notin Settled
  BY <1>2, <1>3, <1>4 DEF Settled, Inv, LoggedOnce
<1> QED
  BY <1>1, <1>2, <1>3, <1>5

(* Popping it settles it, and nothing else. *)
LEMMA PopSettles ==
  ASSUME Inv, m_log_queue # <<>>, Pop, UNCHANGED logged
  PROVE  /\ m_log_queue' \in Seq(Messages)
         /\ LoggedOnce'
         /\ QueueIsEnd'
         /\ Settled' = Settled \cup {Front}
         /\ \A x, y : Before(x, y)' <=> Before(x, y)
<1>1. /\ m_log_queue \in Seq(Messages) /\ logged \in Seq(Messages)
      /\ Len(m_log_queue) \in Nat \ {0} /\ Len(logged) \in Nat
      /\ m_log_queue' = Tail(m_log_queue)
  BY DEF Inv, Types, Pop
<1>2. /\ m_log_queue' \in Seq(Messages)
      /\ Len(m_log_queue') = Len(m_log_queue) - 1
      /\ \A i \in 1..Len(m_log_queue') : m_log_queue'[i] = m_log_queue[i + 1]
  BY <1>1
<1>3. Left \in Nat /\ Left' = Left + 1
  BY <1>1, <1>2 DEF Inv, QueueIsEnd, Left
<1>4. QueueIsEnd'
  <2>1. \A i \in 1..Len(m_log_queue') : i + 1 \in 1..Len(m_log_queue)
                                        /\ Left + (i + 1) = Left' + i
    BY <1>1, <1>2, <1>3
  <2>2. \A i \in 1..Len(m_log_queue') : m_log_queue'[i] = logged[Left' + i]
    BY <2>1, <1>2 DEF Inv, QueueIsEnd
  <2> QED
    BY <2>2, <1>1, <1>2 DEF Inv, QueueIsEnd
<1>5. \A i : i \in 1..Left' <=> (i \in 1..Left \/ i = Left + 1)
  BY <1>3
<1>6. Settled' = Settled \cup {logged[Left + 1]}
  BY <1>5 DEF Settled
<1>7. LoggedOnce' /\ \A x, y : Before(x, y)' <=> Before(x, y)
  BY DEF Inv, LoggedOnce, Before
<1> QED
  BY <1>2, <1>4, <1>6, <1>7, FrontIsNext

(* The front is given up: it is dropped, or its write fails. *)
LEMMA GivenUpInv ==
  ASSUME Inv, m_log_queue # <<>>, Pop, UNCHANGED <<logged, files>>,
         \/ dropped' = dropped \cup {Front} /\ lost' = lost
         \/ lost' = lost \cup {Front} /\ dropped' = dropped
  PROVE  Inv'
<1>1. InFiles' = InFiles
  BY DEF InFiles
<1>2. SettledOnce'
  BY <1>1, PopSettles, FrontIsNext DEF Inv, SettledOnce
<1>3. InOrder'
  BY PopSettles DEF Inv, InOrder
<1>4. Types'
  BY PopSettles DEF Inv, Types
<1> QED
  BY <1>2, <1>3, <1>4, PopSettles DEF Inv

(* The front is written: its file grows by it. *)
LEMMA WrittenInv ==
  ASSUME Inv, NEW t \in Threads, Written(t)
  PROVE  Inv'
<1> DEFINE l == LevelOf[Front]
           f == Front
<1>1. /\ m_log_queue # <<>> /\ Pop /\ UNCHANGED <<logged, dropped, lost>>
      /\ files' = [files EXCEPT ![l] = Append(@, f)]
  BY DEF Written, Saving
<1>2. l \in Levels /\ f \in Messages /\ f \notin Settled
  BY <1>1, FrontIsNext, LevelsAssumption
<1>3. /\ files \in [Levels -> Seq(Messages)]
      /\ files'[l] = Append(files[l], f)
      /\ \A k \in Levels : k # l => files'[k] = files[k]
  BY <1>1, <1>2 DEF Inv, Types
<1>4. LevelOf[f] = l
  OBVIOUS
<1>5. \A x \in Settled : Before(x, f)
  <2> SUFFICES ASSUME NEW p \in 1..Left, NEW i \in 1..Len(logged),
                      NEW j \in 1..Len(logged),
                      logged[i] = logged[p], logged[j] = f
               PROVE  i < j
    BY DEF Settled, Before
  <2>1. p \in 1..Len(logged) /\ p < Left + 1
    BY Lengths DEF Inv
  <2>2. i = p /\ j = Left + 1
    BY <2>1, <1>1, FrontIsNext DEF Inv, LoggedOnce
  <2> QED
    BY <2>1, <2>2
<1>6. \A x, y : Before(x, y)' <=> Before(x, y)
  BY <1>1, PopSettles
<1> HIDE DEF l, f
<1>7. Types'
  <2>1. Append(files[l], f) \in Seq(Messages)
    BY <1>2, <1>3, AppendProperties
  <2>2. files' \in [Levels -> Seq(Messages)]
    BY <2>1, <1>1, <1>2, <1>3
  <2> QED
    BY <2>2, <1>1, PopSettles DEF Inv, Types
<1>8. InFiles' = InFiles \cup {f}
  <2>1. Elements(files'[l]) = Elements(files[l]) \cup {f}
    BY <1>2, <1>3, ElementsAppend
  <2>2. \A k \in Levels : k # l => Elements(files'[k]) = Elements(files[k])
    BY <1>3
  <2> QED
    BY <2>1, <2>2, <1>2 DEF InFiles
<1>9. SettledOnce'
  BY <1>1, <1>2, <1>8, PopSettles DEF Inv, SettledOnce, f
<1>10. InOrder'
  <2> SUFFICES ASSUME NEW k \in Levels
               PROVE  /\ \A i \in 1..Len(files'[k]) : LevelOf[files'[k][i]] = k
                      /\ \A i, j \in 1..Len(files'[k]) :
                            i < j => Before(files'[k][i], files'[k][j])
    BY <1>6 DEF InOrder
  <2>1. CASE k # l
    BY <2>1, <1>3 DEF Inv, InOrder
  <2>2. CASE k = l
    <3> DEFINE s == files[l]
               n == Len(s)
               r == files'[l]
    <3>1. /\ n \in Nat
          /\ Len(r) = n + 1 /\ r[n + 1] = f
          /\ \A i \in 1..n : r[i] = s[i]
      BY <1>2, <1>3, AppendProperties
    <3>2. /\ \A i \in 1..n : LevelOf[s[i]] = l /\ s[i] \in Settled
          /\ \A i, j \in 1..n : i < j => Before(s[i], s[j])
      BY <1>2, FilesSettled DEF Inv, InOrder
    <3> HIDE DEF s, n, r
    <3>3. \A i \in 1..(n + 1) : i \in 1..n \/ i = n + 1
      BY <3>1
    <3>4. \A i \in 1..(n + 1) : LevelOf[r[i]] = l
      BY <3>1, <3>2, <3>3, <1>4
    <3>5. \A i, j \in 1..(n + 1) : i < j => Before(r[i], r[j])
      <4> SUFFICES ASSUME NEW i \in 1..(n + 1), NEW j \in 1..(n + 1), i < j
                   PROVE  Before(r[i], r[j])
        OBVIOUS
      <4>1. i \in 1..n
        BY <3>1
      <4>2. CASE j \in 1..n
        <5>1. r[i] = s[i] /\ r[j] = s[j]
          BY <4>1, <4>2, <3>1
        <5>2. Before(s[i], s[j])
          BY <4>1, <4>2, <3>2
        <5> QED
          BY <5>1, <5>2
      <4>3. CASE j = n + 1
        <5>1. r[i] \in Settled /\ r[j] = f
          BY <4>1, <4>3, <3>1, <3>2
        <5> QED
          BY <5>1, <1>5
      <4> QED
        BY <4>2, <4>3, <3>3
    <3> QED
      BY <2>2, <3>1, <3>4, <3>5 DEF r
  <2> QED
    BY <2>1, <2>2
<1> QED
  BY <1>1, <1>7, <1>9, <1>10, PopSettles DEF Inv

LEMMA SaveInv ==
  ASSUME Inv, NEW t \in Threads, SaveBegin(t) \/ SaveStep(t)
  PROVE  Inv'
<1>1. CASE SaveBegin(t) \/ Opened(t) \/ SaveEnd(t)
  BY <1>1, SameInv DEF SaveBegin, Opened, SaveEnd
<1>2. CASE NotOpened(t)
  <2>1. CASE Front \in old
    BY <1>2, <2>1, GivenUpInv DEF NotOpened, Saving
  <2>2. CASE Front \notin old
    BY <1>2, <2>2, SameInv DEF NotOpened
  <2> QED
    BY <2>1, <2>2
<1>3. CASE Written(t)
  BY <1>3, WrittenInv
<1>4. CASE NotWritten(t)
  BY <1>4, GivenUpInv DEF NotWritten, Saving
<1> QED
  BY <1>1, <1>2, <1>3, <1>4 DEF SaveStep

LEMMA NextInv == Inv /\ [Next]_vars => Inv'
<1> SUFFICES ASSUME Inv, [Next]_vars PROVE Inv'
  OBVIOUS
<1>1. CASE UNCHANGED vars
  BY <1>1, SameInv DEF vars
<1>2. CASE \E m \in Messages : Log(m)
  BY <1>2, LogInv
<1>3. CASE \E m \in Messages : Age(m)
  BY <1>3, SameInv DEF Age
<1>4. CASE \E t \in Threads : SaveBegin(t) \/ SaveStep(t)
  BY <1>4, SaveInv
<1> QED
  BY <1>1, <1>2, <1>3, <1>4 DEF Next

(* Every message is logged once and settled once, in order, whichever files *)
(* open and whichever writes fail.                                          *)
THEOREM Invariance == Spec => []Inv
BY InitInv, NextInv, PTL DEF Spec

-----------------------------------------------------------------------------
(* Every message is waiting, or settled; and a settled one is in a file,    *)
(* dropped or lost, and in one of them only.                                *)
LEMMA InvOnePlace == Inv => OnePlace
<1> SUFFICES ASSUME Inv PROVE OnePlace
  OBVIOUS
<1> DEFINE Q == Elements(m_log_queue)
           places == <<Q, InFiles, dropped, lost>>
<1>1. /\ Len(logged) \in Nat /\ Len(m_log_queue) \in Nat /\ Left \in Nat
      /\ DOMAIN logged = 1..Len(logged)
      /\ DOMAIN m_log_queue = 1..Len(m_log_queue)
      /\ Len(logged) = Left + Len(m_log_queue)
  BY Lengths DEF Inv, Types, Left
<1>2. \A i \in 1..Len(m_log_queue) : m_log_queue[i] = logged[Left + i]
  BY DEF Inv, QueueIsEnd
<1>3. Q = {logged[i] : i \in (Left + 1)..Len(logged)}
  <2>1. \A i \in 1..Len(m_log_queue) : Left + i \in (Left + 1)..Len(logged)
    BY <1>1
  <2>2. \A i \in (Left + 1)..Len(logged) :
            i - Left \in 1..Len(m_log_queue) /\ Left + (i - Left) = i
    BY <1>1
  <2>3. Q \subseteq {logged[i] : i \in (Left + 1)..Len(logged)}
    BY <2>1, <1>1, <1>2 DEF Elements
  <2>4. \A i \in (Left + 1)..Len(logged) : logged[i] = m_log_queue[i - Left]
    BY <2>2, <1>2
  <2>5. {logged[i] : i \in (Left + 1)..Len(logged)} \subseteq Q
    BY <2>2, <2>4, <1>1 DEF Elements
  <2> QED
    BY <2>3, <2>5
<1>4. /\ \A i \in 1..Left : i \in 1..Len(logged)
      /\ \A i \in (Left + 1)..Len(logged) : i \in 1..Len(logged)
      /\ \A i \in 1..Left : \A j \in (Left + 1)..Len(logged) : i # j
      /\ \A i \in 1..Len(logged) :
            i \in 1..Left \/ i \in (Left + 1)..Len(logged)
  BY <1>1
<1>5. Elements(logged) = Settled \cup Q
  BY <1>1, <1>3, <1>4 DEF Elements, Settled
<1>6. Settled \cap Q = {}
  BY <1>3, <1>4 DEF Settled, Inv, LoggedOnce
<1> HIDE DEF Q
<1>7. /\ Q \cap InFiles = {} /\ Q \cap dropped = {} /\ Q \cap lost = {}
      /\ InFiles \cap dropped = {} /\ InFiles \cap lost = {}
      /\ dropped \cap lost = {}
  BY <1>6 DEF Inv, SettledOnce
<1>8. /\ DOMAIN places = {1, 2, 3, 4}
      /\ places[1] = Q /\ places[2] = InFiles
      /\ places[3] = dropped /\ places[4] = lost
  OBVIOUS
<1> HIDE DEF places
<1>9. \A i, j \in DOMAIN places : i # j => places[i] \cap places[j] = {}
  BY <1>7, <1>8
<1>10. Elements(places) = {Q, InFiles, dropped, lost}
  BY <1>8 DEF Elements
<1>11. UNION Elements(places) = Elements(logged)
  BY <1>5, <1>10 DEF Inv, SettledOnce
<1> QED
  BY <1>9, <1>11 DEF OnePlace, places, Q

(* The position of a message is where it was logged, and there only. *)
LEMMA PositionOf ==
  ASSUME Inv, NEW i \in 1..Len(logged)
  PROVE  Position(logged[i]) = i
<1>1. DOMAIN logged = 1..Len(logged)
  BY DEF Inv, Types
<1>2. \E k \in DOMAIN logged : logged[k] = logged[i]
  BY <1>1
<1>3. /\ Position(logged[i]) \in 1..Len(logged)
      /\ logged[Position(logged[i])] = logged[i]
  BY <1>1, <1>2 DEF Position
<1> QED
  BY <1>3 DEF Inv, LoggedOnce

LEMMA InvFileOrder == Inv => FileOrder
<1> SUFFICES ASSUME Inv, NEW l \in Levels
             PROVE  /\ Ascending(files[l])
                    /\ \A m \in Elements(files[l]) :
                          /\ LevelOf[m] = l
                          /\ \A w \in Elements(m_log_queue) :
                                Position(m) < Position(w)
  BY DEF FileOrder
<1>1. /\ DOMAIN files[l] = 1..Len(files[l])
      /\ DOMAIN m_log_queue = 1..Len(m_log_queue)
      /\ Len(logged) = Left + Len(m_log_queue)
      /\ Left \in Nat /\ Len(m_log_queue) \in Nat
  BY Lengths DEF Inv, Types, Left
<1>2. \A x \in Settled : /\ Position(x) \in 1..Left
                         /\ Position(x) \in 1..Len(logged)
                         /\ logged[Position(x)] = x
  <2> SUFFICES ASSUME NEW i \in 1..Left
               PROVE  /\ Position(logged[i]) = i
                      /\ i \in 1..Len(logged)
    BY DEF Settled
  <2>1. i \in 1..Len(logged)
    BY <1>1
  <2> QED
    BY <2>1, PositionOf
<1>3. Ascending(files[l])
  <2> SUFFICES ASSUME NEW i \in 1..Len(files[l]), NEW j \in 1..Len(files[l]),
                      i < j
               PROVE  Position(files[l][i]) < Position(files[l][j])
    BY <1>1 DEF Ascending
  <2>1. files[l][i] \in Settled /\ files[l][j] \in Settled
    BY FilesSettled
  <2>2. Before(files[l][i], files[l][j])
    BY DEF Inv, InOrder
  <2> QED
    BY <2>1, <2>2, <1>2 DEF Before
<1>4. \A m \in Elements(files[l]) : LevelOf[m] = l /\ m \in Settled
  BY <1>1, FilesSettled DEF Elements, Inv, InOrder
<1>5. \A w \in Elements(m_log_queue) : Position(w) > Left /\ Position(w) \in Nat
  <2> SUFFICES ASSUME NEW i \in 1..Len(m_log_queue)
               PROVE  /\ Position(m_log_queue[i]) > Left
                      /\ Position(m_log_queue[i]) \in Nat
    BY <1>1 DEF Elements
  <2>1. m_log_queue[i] = logged[Left + i]
    BY DEF Inv, QueueIsEnd
  <2>2. Left + i \in 1..Len(logged)
    BY <1>1
  <2>3. Position(m_log_queue[i]) = Left + i
    BY <2>1, <2>2, PositionOf
  <2> QED
    BY <2>3, <1>1
<1>6. ASSUME NEW m \in Elements(files[l]), NEW w \in Elements(m_log_queue)
      PROVE  Position(m) < Position(w)
  <2>1. Position(m) \in 1..Left
    BY <1>2, <1>4
  <2>2. Position(w) > Left /\ Position(w) \in Nat
    BY <1>5
  <2> QED
    BY <2>1, <2>2, <1>1
<1> QED
  BY <1>3, <1>4, <1>6

(* No message is lost without a trace, written twice, or dropped and        *)
(* written, for any number of messages, threads and levels, whichever files *)
(* open and whichever writes fail.                                          *)
THEOREM OnePlaceCorrect == Spec => []OnePlace
BY InvOnePlace, Invariance, PTL

(* Every file holds messages of its level in the order of log, all of them  *)
(* logged before what still waits.                                          *)
THEOREM FileOrderCorrect == Spec => []FileOrder
BY InvFileOrder, Invariance, PTL
================================================================================
