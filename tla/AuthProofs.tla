----------------------------- MODULE AuthProofs -----------------------------
(* Proofs about DbPool and Auth for any callers, connections and bounds:    *)
(* no two own a connection and only open ones are handed out; a name is     *)
(* answered only for a session that was found, and a failure turns the      *)
(* client away.                                                             *)
EXTENDS Auth, TLAPS

-----------------------------------------------------------------------------
(* The pool.  What is said of the slots holds for all of them, also for     *)
(* those that are not between start and finish: with two callers at an      *)
(* empty deque start passes finish, and a connection that is given back     *)
(* then lies where no one takes it from.                                    *)

PoolTypes ==
    /\ slots \in [Positions -> Conns \cup {Null, Unwritten}]
    /\ status \in [Conns -> {"unmade", "open", "closed"}]
    /\ held \in [Callers -> Conns \cup {Null}]

OneOwner ==
    /\ \A g, h \in Callers : held[g] \in Conns /\ held[g] = held[h] => g = h
    /\ \A g \in Callers, i \in Positions : held[g] \in Conns => slots[i] # held[g]
    /\ \A i, j \in Positions : slots[i] \in Conns /\ slots[i] = slots[j] => i = j

OwnedOpen ==
    /\ \A g \in Callers : held[g] \in Conns => status[held[g]] = "open"
    /\ \A i \in Positions : slots[i] \in Conns => status[slots[i]] = "open"

PoolInv == PoolTypes /\ OneOwner /\ OwnedOpen

LEMMA PoolInit == Init => PoolInv
<1> SUFFICES ASSUME Init PROVE PoolInv
  OBVIOUS
<1> PICK first \in [0..(InitCount - 1) -> Conns] :
      /\ \A i, j \in DOMAIN first : first[i] = first[j] => i = j
      /\ \/ /\ slots = [i \in Positions |->
                              IF i < InitCount THEN first[i] ELSE Unwritten]
            /\ status = [c \in Conns |->
                           IF \E i \in DOMAIN first : first[i] = c
                           THEN "open" ELSE "unmade"]
         \/ /\ slots = [i \in Positions |-> Unwritten]
            /\ status = [c \in Conns |-> "unmade"]
  BY DEF Init
<1>1. held = [g \in Callers |-> Null] /\ Null \notin Conns /\ Unwritten \notin Conns
  BY NullAssumption DEF Init
<1>2. ASSUME NEW i \in Positions, i < InitCount
      PROVE  i \in 0..(InitCount - 1)
  BY <1>2, InitAssumption DEF Positions
<1>3. PoolTypes
  BY <1>1, <1>2 DEF PoolTypes
<1>4. OneOwner
  BY <1>1, <1>2 DEF OneOwner
<1>5. OwnedOpen
  BY <1>1, <1>2 DEF OwnedOpen
<1> QED
  BY <1>3, <1>4, <1>5 DEF PoolInv

LEMMA TakeKeeps ==
    ASSUME PoolInv, NEW g \in Callers, Take(g)
    PROVE  PoolInv'
<1> DEFINE front == At(start)
           got == IF front \in Conns THEN front ELSE Null
<1>1. /\ slots' = [slots EXCEPT ![start] = Null]
      /\ held' = [held EXCEPT ![g] = got]
      /\ status' = status
  BY DEF Take
<1>2. Null \notin Conns /\ Unwritten \notin Conns
  BY NullAssumption
<1>3. got \in Conns \cup {Null}
  OBVIOUS
<1>4. got \in Conns => start \in Positions /\ got = slots[start]
  BY <1>2 DEF At
<1> HIDE DEF got, front
<1>5. PoolTypes'
  BY <1>1, <1>3 DEF PoolInv, PoolTypes
<1>6. /\ held'[g] = got
      /\ \A h \in Callers : h # g => held'[h] = held[h]
      /\ \A i \in Positions : slots'[i] = IF i = start THEN Null ELSE slots[i]
  BY <1>1 DEF PoolInv, PoolTypes
<1>7. OneOwner'
  BY <1>2, <1>4, <1>6 DEF PoolInv, OneOwner
<1>8. OwnedOpen'
  BY <1>1, <1>2, <1>4, <1>6 DEF PoolInv, OwnedOpen
<1> QED
  BY <1>5, <1>7, <1>8 DEF PoolInv

LEMMA MadeKeeps ==
    ASSUME PoolInv, NEW g \in Callers, Made(g)
    PROVE  PoolInv'
<1>1. PICK c \in Conns : /\ status[c] = "unmade"
                         /\ status' = [status EXCEPT ![c] = "open"]
                         /\ held' = [held EXCEPT ![g] = c]
  BY DEF Made
<1>2. slots' = slots
  BY DEF Made, deque
<1>3. PoolTypes'
  BY <1>1, <1>2 DEF PoolInv, PoolTypes
<1>4. /\ held'[g] = c
      /\ \A h \in Callers : h # g => held'[h] = held[h]
      /\ status'[c] = "open"
      /\ \A d \in Conns : d # c => status'[d] = status[d]
  BY <1>1 DEF PoolInv, PoolTypes
<1>5. /\ \A h \in Callers : held[h] \in Conns => held[h] # c
      /\ \A i \in Positions : slots[i] \in Conns => slots[i] # c
  BY <1>1 DEF PoolInv, OwnedOpen
<1>6. OneOwner'
  BY <1>2, <1>4, <1>5 DEF PoolInv, OneOwner
<1>7. OwnedOpen'
  BY <1>2, <1>4, <1>5 DEF PoolInv, OwnedOpen
<1> QED
  BY <1>3, <1>6, <1>7 DEF PoolInv

LEMMA GiveBackKeeps ==
    ASSUME PoolInv, NEW g \in Callers, GiveBack(g)
    PROVE  PoolInv'
<1>1. /\ slots' = [slots EXCEPT ![finish] = held[g]]
      /\ held' = [held EXCEPT ![g] = Null]
      /\ status' = status
  BY DEF GiveBack
<1>2. Null \notin Conns
  BY NullAssumption
<1>3. PoolTypes'
  BY <1>1 DEF PoolInv, PoolTypes
<1>4. /\ held'[g] = Null
      /\ \A h \in Callers : h # g => held'[h] = held[h]
      /\ \A i \in Positions : slots'[i] = IF i = finish THEN held[g] ELSE slots[i]
  BY <1>1 DEF PoolInv, PoolTypes
<1>5. OneOwner'
  BY <1>2, <1>4 DEF PoolInv, OneOwner
<1>6. OwnedOpen'
  BY <1>1, <1>2, <1>4 DEF PoolInv, OwnedOpen
<1> QED
  BY <1>3, <1>5, <1>6 DEF PoolInv

LEMMA DropKeeps ==
    ASSUME PoolInv, NEW g \in Callers, Drop(g)
    PROVE  PoolInv'
<1>1. /\ status' = [status EXCEPT ![held[g]] = "closed"]
      /\ held' = [held EXCEPT ![g] = Null]
      /\ slots' = slots
  BY DEF Drop, deque
<1>2. Null \notin Conns
  BY NullAssumption
<1>3. PoolTypes'
  BY <1>1 DEF PoolInv, PoolTypes
<1>4. /\ held'[g] = Null
      /\ \A h \in Callers : h # g => held'[h] = held[h]
      /\ \A d \in Conns : d # held[g] => status'[d] = status[d]
  BY <1>1 DEF PoolInv, PoolTypes
<1>5. OneOwner'
  BY <1>1, <1>2, <1>4 DEF PoolInv, OneOwner
<1>6. OwnedOpen'
  BY <1>1, <1>2, <1>4 DEF PoolInv, OneOwner, OwnedOpen
<1> QED
  BY <1>3, <1>5, <1>6 DEF PoolInv

LEMMA DogCloseKeeps ==
    ASSUME PoolInv, DogClose
    PROVE  PoolInv'
<1>1. held' = held
  BY DEF DogClose, callers
<1>2. CASE \A i \in Doomed : At(i) \in Conns
  <2>1. /\ status' = [c \in Conns |-> IF \E i \in Doomed : slots[i] = c
                                     THEN "closed" ELSE status[c]]
        /\ slots' = [i \in Positions |-> IF i \in Doomed THEN Null
                                                        ELSE slots[i]]
    BY <1>2 DEF DogClose
  <2>2. Null \notin Conns
    BY NullAssumption
  <2>3. \A i \in Doomed : i \in Positions
    BY <1>2, NullAssumption DEF At
  <2>4. PoolTypes'
    BY <1>1, <2>1 DEF PoolInv, PoolTypes
  <2>5. OneOwner'
    BY <1>1, <2>1, <2>2 DEF PoolInv, OneOwner
  <2>6. OwnedOpen'
    BY <1>1, <2>1, <2>2, <2>3 DEF PoolInv, OwnedOpen, OneOwner
  <2> QED
    BY <2>4, <2>5, <2>6 DEF PoolInv
<1>3. CASE ~\A i \in Doomed : At(i) \in Conns
  BY <1>1, <1>3 DEF DogClose, PoolInv, PoolTypes, OneOwner, OwnedOpen
<1> QED
  BY <1>2, <1>3

LEMMA PoolNext ==
    ASSUME PoolInv, [Next]_vars
    PROVE  PoolInv'
<1>1. CASE UNCHANGED <<slots, status, held>>
  BY <1>1 DEF PoolInv, PoolTypes, OneOwner, OwnedOpen
<1>2. CASE UNCHANGED vars \/ DogTest \/ DogCount
           \/ \E g \in Callers : TestEmpty(g) \/ NotMade(g)
  BY <1>1, <1>2 DEF vars, DogTest, DogCount, TestEmpty, NotMade, deque, callers
<1> QED
  BY <1>2, TakeKeeps, MadeKeeps, GiveBackKeeps, DropKeeps, DogCloseKeeps
     DEF Next, Dog, Caller

LEMMA PoolInvariant == Spec => []PoolInv
<1>1. PoolInv /\ [Next]_vars => PoolInv'
  BY PoolNext
<1> QED
  BY <1>1, PoolInit, PTL DEF Spec

LEMMA PoolProperties == PoolInv => Exclusive /\ OnlyOpenOnes
<1> SUFFICES ASSUME PoolInv PROVE Exclusive /\ OnlyOpenOnes
  OBVIOUS
<1>1. \A g \in Callers : held[g] # Null => held[g] \in Conns
  BY DEF PoolInv, PoolTypes
<1>2. Filled \subseteq Positions
  BY DEF Filled
<1> QED
  BY <1>1, <1>2 DEF PoolInv, OneOwner, OwnedOpen, Exclusive, OnlyOpenOnes, InPool

(* However callers race for the front of the deque, with each other and     *)
(* with the watchdog: a connection is never owned by two, by a caller and   *)
(* the pool, or twice by the pool.                                          *)
THEOREM ExclusiveCorrect == Spec => []Exclusive
<1>1. PoolInv => Exclusive
  BY PoolProperties
<1> QED
  BY <1>1, PoolInvariant, PTL

(* And a connection that was closed is neither in the pool nor in use.      *)
THEOREM OnlyOpenOnesCorrect == Spec => []OnlyOpenOnes
<1>1. PoolInv => OnlyOpenOnes
  BY PoolProperties
<1> QED
  BY <1>1, PoolInvariant, PTL

-----------------------------------------------------------------------------
(* The authenticator's queries are calls of the pool.                       *)

LEMMA AuthStepIsPoolStep == [AuthNext]_allVars => [Next]_vars
<1> SUFFICES ASSUME [AuthNext]_allVars PROVE [Next]_vars
  OBVIOUS
<1> USE DEF pool, vars
<1>1. CASE UNCHANGED allVars
  BY <1>1 DEF allVars
<1>2. CASE Dog /\ ~crashed
  BY <1>2 DEF Next
<1>3. ASSUME NEW g \in Callers, Malformed(g) \/ Begin(g) \/ Work(g), ~crashed
      PROVE  [Next]_vars
  <2>1. CASE Malformed(g) \/ Begin(g) \/ Execute(g) \/ Verified(g) \/ Named(g)
    BY <2>1 DEF Malformed, Begin, Execute, Verified, Named, Return
  <2>2. CASE GetConnection(g) \/ Connect(g) \/ Throw(g) \/ ReturnConnection(g)
    <3>1. Caller(g)
      BY <2>2 DEF GetConnection, Connect, Throw, ReturnConnection, Caller
    <3> QED
      BY <1>3, <3>1 DEF Next
  <2> QED
    BY <1>3, <2>1, <2>2 DEF Work
<1> QED
  BY <1>1, <1>2, <1>3 DEF AuthNext

(* Every behaviour of the authenticator is one of the pool, with its        *)
(* callers' calls in the order of the two queries.                          *)
THEOREM AuthUsesPool == AuthSpec => Spec
<1>1. AuthInit => Init
  BY DEF AuthInit
<1> QED
  BY <1>1, AuthStepIsPoolStep, PTL DEF AuthSpec, Spec

(* Where a call is, and what it has seen so far.                            *)
CallTypes ==
    /\ pc \in [Callers -> {"idle", "make", "take", "use"}]
    /\ stage \in [Callers -> {"idle", "session", "name"}]
    /\ value \in [Callers -> Values]
    /\ answer \in [Callers -> Answers]
    /\ proved \in [Callers -> BOOLEAN] /\ failed \in [Callers -> BOOLEAN]

(* Between the calls no connection is asked for; the query of the name is   *)
(* only made for a session that was found, and not after a failure.         *)
Course(g) ==
    /\ pc[g] # "idle" => stage[g] # "idle"
    /\ stage[g] = "idle" => value[g] = "unset"
    /\ stage[g] # "idle" => answer[g] = ""
    /\ stage[g] = "name" => proved[g]
    /\ stage[g] = "session" /\ value[g] = "value" => proved[g]
    /\ stage[g] # "idle" /\ failed[g] => value[g] = "nullopt"
    /\ answer[g] # "" => proved[g]
    /\ stage[g] = "idle" /\ failed[g] => answer[g] = ""

CallInv == CallTypes /\ \A g \in Callers : Course(g)

LEMMA CallInit == AuthInit => CallInv
<1> SUFFICES ASSUME AuthInit PROVE CallInv
  OBVIOUS
<1>1. CallTypes
  BY DEF AuthInit, Init, CallTypes, Values, Answers
<1>2. \A g \in Callers : Course(g)
  BY DEF AuthInit, Init, Course
<1> QED
  BY <1>1, <1>2 DEF CallInv

(* A step of one caller leaves the others as they are.                      *)
SameFor(h) ==
    /\ pc'[h] = pc[h] /\ stage'[h] = stage[h] /\ value'[h] = value[h]
    /\ answer'[h] = answer[h] /\ proved'[h] = proved[h]
    /\ failed'[h] = failed[h]

LEMMA OthersKeep ==
    ASSUME CallInv, CallTypes', NEW g \in Callers, Course(g)',
           \A h \in Callers : h # g => SameFor(h)
    PROVE  CallInv'
  BY DEF CallInv, Course, SameFor

LEMMA CallNext ==
    ASSUME CallInv, NEW g \in Callers, Malformed(g) \/ Begin(g) \/ Work(g)
    PROVE  CallInv'
<1>1. CallTypes /\ Course(g)
  BY DEF CallInv
<1>2. CASE Malformed(g) \/ Begin(g)
  <2>1. CallTypes' /\ \A h \in Callers : h # g => SameFor(h)
    BY <1>1, <1>2 DEF CallTypes, SameFor, Malformed, Begin, pool, Answers
  <2>2. pc'[g] = "idle" /\ answer'[g] = "" /\ ~failed'[g]
    BY <1>1, <1>2 DEF CallTypes, Malformed, Begin, Ready, pool
  <2>3. stage'[g] \in {"idle", "session"} /\ value[g] = "unset"
    BY <1>1, <1>2 DEF CallTypes, Course, Malformed, Begin, Ready
  <2>4. value'[g] = value[g]
    BY <1>2 DEF Malformed, Begin
  <2>5. Course(g)'
    BY <1>1, <2>2, <2>3, <2>4 DEF Course
  <2> QED
    BY <2>1, <2>5, OthersKeep
<1>3. CASE GetConnection(g)
  <2>1. CallTypes' /\ \A h \in Callers : h # g => SameFor(h)
    BY <1>1, <1>3 DEF CallTypes, SameFor, GetConnection, TestEmpty, call
  <2>2. Course(g)'
    BY <1>1, <1>3 DEF CallTypes, Course, GetConnection, TestEmpty, call
  <2> QED
    BY <2>1, <2>2, OthersKeep
<1>4. CASE \/ (Made(g) \/ Take(g)) /\ UNCHANGED call
           \/ ReturnConnection(g)
  <2>1. CallTypes' /\ \A h \in Callers : h # g => SameFor(h)
    BY <1>1, <1>4 DEF CallTypes, SameFor, Made, Take, ReturnConnection,
                      GiveBack, Drop, call
  <2>2. pc[g] # "idle" /\ UNCHANGED call
    BY <1>4 DEF Made, Take, ReturnConnection, GiveBack, Drop
  <2>3. Course(g)'
    BY <1>1, <2>2 DEF Course, call
  <2> QED
    BY <2>1, <2>3, OthersKeep
<1>5. CASE (NotMade(g) \/ Take(g) \/ Drop(g)) /\ Nothing(g)
  <2>1. CallTypes' /\ \A h \in Callers : h # g => SameFor(h)
    BY <1>1, <1>5 DEF CallTypes, SameFor, NotMade, Take, Drop, Nothing, Values
  <2>2. stage[g] # "idle"
    BY <1>1, <1>5 DEF Course, NotMade, Take, Drop
  <2>3. value'[g] = "nullopt"
    BY <1>1, <1>5 DEF Nothing, CallTypes
  <2>4. Course(g)'
    BY <1>1, <1>5, <2>2, <2>3 DEF Course, Nothing
  <2> QED
    BY <2>1, <2>4, OthersKeep
<1>6. CASE Execute(g)
  <2>1. PICK row \in BOOLEAN :
          /\ value' = [value EXCEPT ![g] = IF row THEN "value" ELSE ""]
          /\ proved' = [proved EXCEPT ![g] =
                           IF stage[g] = "session" THEN row ELSE proved[g]]
    BY <1>6 DEF Execute
  <2>2. CallTypes' /\ \A h \in Callers : h # g => SameFor(h)
    BY <1>1, <1>6, <2>1 DEF CallTypes, SameFor, Execute, Values, pool
  <2>3. stage[g] # "idle" /\ ~failed[g]
    BY <1>1, <1>6 DEF Course, Execute
  <2>4. /\ value'[g] = IF row THEN "value" ELSE ""
        /\ proved'[g] = IF stage[g] = "session" THEN row ELSE proved[g]
    BY <1>1, <2>1 DEF CallTypes
  <2>5. Course(g)'
    BY <1>1, <1>6, <2>3, <2>4 DEF CallTypes, Course, Execute, pool
  <2> QED
    BY <2>2, <2>5, OthersKeep
<1>7. ASSUME NEW a \in Answers, Return(g, a), pc[g] = "idle",
             a # "" => proved[g] /\ ~failed[g]
      PROVE  CallInv'
  <2>1. CallTypes' /\ \A h \in Callers : h # g => SameFor(h)
    BY <1>1, <1>7 DEF CallTypes, SameFor, Return, Values, pool
  <2>2. stage'[g] = "idle" /\ answer'[g] = a /\ value'[g] = "unset"
    BY <1>1, <1>7 DEF CallTypes, Return
  <2>3. Course(g)'
    BY <1>1, <1>7, <2>2 DEF CallTypes, Course, Return, pool
  <2> QED
    BY <2>1, <2>3, OthersKeep
<1>8. CASE Verified(g)
  <2>1. CASE Return(g, "")
    BY <1>7, <1>8, <2>1 DEF Verified, Answered, Answers
  <2>2. CASE ~Return(g, "")
    <3>1. CallTypes' /\ \A h \in Callers : h # g => SameFor(h)
      BY <1>1, <1>8, <2>2 DEF CallTypes, SameFor, Verified, Values, pool
    <3>2. Course(g)'
      BY <1>1, <1>8, <2>2 DEF CallTypes, Course, Verified, Answered, pool
    <3> QED
      BY <3>1, <3>2, OthersKeep
  <2> QED
    BY <2>1, <2>2
<1>9. CASE Named(g)
  <2>1. PICK a \in Answers :
          Return(g, a) /\ (value[g] = "nullopt" => a = "")
    BY <1>9 DEF Named, Answers
  <2>2. pc[g] = "idle" /\ proved[g] /\ (failed[g] => value[g] = "nullopt")
    BY <1>1, <1>9 DEF Course, Named, Answered
  <2> QED
    BY <1>1, <1>7, <2>1, <2>2 DEF CallTypes
<1> QED
  BY <1>2, <1>3, <1>4, <1>5, <1>6, <1>8, <1>9 DEF Work, Connect, Throw

LEMMA CallInvariant == AuthSpec => []CallInv
<1>1. CallInv /\ [AuthNext]_allVars => CallInv'
  <2> SUFFICES ASSUME CallInv, [AuthNext]_allVars PROVE CallInv'
    OBVIOUS
  <2>1. CASE UNCHANGED allVars
    BY <2>1 DEF CallInv, CallTypes, Course, allVars, pool, call
  <2>2. CASE Dog /\ UNCHANGED call
    BY <2>2 DEF CallInv, CallTypes, Course, Dog, DogTest, DogCount, DogClose,
                callers, call
  <2> QED
    BY <2>1, <2>2, CallNext DEF AuthNext
<1> QED
  BY <1>1, CallInit, PTL DEF AuthSpec

(* A client gets a name only if the first query of the same call found a    *)
(* session, whatever happens to the tables and connections in between.      *)
THEOREM NameProvesSessionCorrect == AuthSpec => []NameProvesSession
<1>1. CallInv => NameProvesSession
  BY DEF CallInv, Course, NameProvesSession
<1> QED
  BY <1>1, CallInvariant, PTL

(* A query that could not be made, the first or the second, ends in the     *)
(* empty string.                                                            *)
THEOREM FailureRejectsCorrect == AuthSpec => []FailureRejects
<1>1. CallInv => FailureRejects
  BY DEF CallInv, Course, FailureRejects
<1> QED
  BY <1>1, CallInvariant, PTL
=============================================================================
