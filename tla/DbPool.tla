------------------------------- MODULE DbPool -------------------------------
(* jahan::db::MariaDB (src/lib/jahan/db/mariadb.cpp) and its one user,      *)
(* Core::get_value (core.hpp): a deque of database connections that callers *)
(* take from the front and give back at the end, and a watchdog that closes *)
(* what exceeds the initial number.                                         *)
(*                                                                          *)
(* get_connection and the watchdog look at the deque's size before they     *)
(* lock m_connections_mutex.  front() and pop_front() of an empty deque are *)
(* undefined; the deque is modelled by the two positions libstdc++ keeps,   *)
(* so that pop_front moves start past finish, size() wraps around, and      *)
(* front() reads whatever the slot holds: a moved-from pointer is null, a   *)
(* slot never written is null or points nowhere.  Using such a pointer ends *)
(* the process.                                                             *)
EXTENDS Integers, FiniteSets

CONSTANTS
    Callers,      \* threads that call get_value
    Conns,        \* the connections the database server can give
    InitCount,    \* m_init_connection_count
    MaxCalls,     \* bound: calls per caller
    SizeMod,      \* number of values of an unsigned size
    Null,         \* an empty unique_ptr
    Unwritten     \* a slot never written

ASSUME InitAssumption == InitCount \in Nat /\ InitCount <= Cardinality(Conns)
ASSUME NullAssumption ==
    Null \notin Conns /\ Unwritten \notin Conns /\ Null # Unwritten
ASSUME BoundAssumption == MaxCalls \in Nat

VARIABLES
    slots,      \* the memory of the deque
    start,      \* position of the front
    finish,     \* position after the back
    status,     \* of each connection: "unmade", "open" or "closed"
    pc,         \* where each caller is
    held,       \* the connection each caller owns
    calls,      \* calls each caller has made
    dog,        \* where the watchdog is
    extra,      \* extra_connections
    crashed     \* the process has ended

deque == <<slots, start, finish>>
callers == <<pc, held, calls>>
watchdog == <<dog, extra>>
vars == <<slots, start, finish, status, pc, held, calls, dog, extra, crashed>>

Positions == 0..(InitCount + (MaxCalls + 1) * Cardinality(Callers))

(* A slot beyond the bound was never written. *)
At(i) == IF i \in Positions THEN slots[i] ELSE Unwritten

Size == (finish - start) % SizeMod
Filled == {i \in Positions : start <= i /\ i < finish}
InPool(c) == \E i \in Filled : slots[i] = c

TypeOK ==
    /\ slots \in [Positions -> Conns \cup {Null, Unwritten}]
    /\ start \in Positions
    /\ finish \in Positions
    /\ status \in [Conns -> {"unmade", "open", "closed"}]
    /\ pc \in [Callers -> {"idle", "make", "take", "use"}]
    /\ held \in [Callers -> Conns \cup {Null}]
    /\ calls \in [Callers -> 0..MaxCalls]
    /\ dog \in {"sleep", "count", "close"}
    /\ extra \in 0..(SizeMod - 1)
    /\ crashed \in BOOLEAN

(* The constructor makes InitCount connections, or keeps none if one fails. *)
Init ==
    /\ \E first \in [0..(InitCount - 1) -> Conns] :
         /\ \A i, j \in DOMAIN first : first[i] = first[j] => i = j
         /\ \/ /\ slots = [i \in Positions |->
                              IF i < InitCount THEN first[i] ELSE Unwritten]
               /\ finish = InitCount
               /\ status = [c \in Conns |->
                              IF \E i \in DOMAIN first : first[i] = c
                              THEN "open" ELSE "unmade"]
            \/ /\ slots = [i \in Positions |-> Unwritten]
               /\ finish = 0
               /\ status = [c \in Conns |-> "unmade"]
    /\ start = 0
    /\ pc = [g \in Callers |-> "idle"]
    /\ held = [g \in Callers |-> Null]
    /\ calls = [g \in Callers |-> 0]
    /\ dog = "sleep"
    /\ extra = 0
    /\ crashed = FALSE

-----------------------------------------------------------------------------
(* get_connection *)

TestEmpty(g) ==
    /\ pc[g] = "idle"
    /\ calls[g] < MaxCalls
    /\ calls' = [calls EXCEPT ![g] = @ + 1]
    /\ pc' = [pc EXCEPT ![g] = IF Size = 0 THEN "make" ELSE "take"]
    /\ UNCHANGED <<deque, status, held, watchdog, crashed>>

Made(g) ==
    /\ pc[g] = "make"
    /\ \E c \in Conns :
         /\ status[c] = "unmade"
         /\ status' = [status EXCEPT ![c] = "open"]
         /\ held' = [held EXCEPT ![g] = c]
    /\ pc' = [pc EXCEPT ![g] = "use"]
    /\ UNCHANGED <<deque, calls, watchdog, crashed>>

(* Mutant: a connection that cannot be made is tried again and again. *)
NotMadeRetry(g) ==
    /\ pc[g] = "make"
    /\ UNCHANGED vars

(* make_connection threw; get_connection returns nullptr. *)
NotMade(g) ==
    /\ pc[g] = "make"
    /\ pc' = [pc EXCEPT ![g] = "idle"]
    /\ UNCHANGED <<deque, status, held, calls, watchdog, crashed>>

(* Mutant: the pointer is copied, and the front is not popped. *)
TakeCopy(g) ==
    /\ pc[g] = "take"
    /\ At(start) \in Conns
    /\ held' = [held EXCEPT ![g] = At(start)]
    /\ pc' = [pc EXCEPT ![g] = "use"]
    /\ UNCHANGED <<deque, status, calls, watchdog, crashed>>

(* With the mutex: move the front out and pop it.  A null pointer is passed *)
(* on to the caller, who gives up; a wild one ends the process.             *)
Take(g) ==
    /\ pc[g] = "take"
    /\ LET front == At(start) IN
         /\ held' = [held EXCEPT ![g] = IF front \in Conns THEN front ELSE Null]
         /\ pc' = [pc EXCEPT ![g] = IF front \in Conns THEN "use" ELSE "idle"]
         /\ \/ crashed' = FALSE
            \/ front = Unwritten /\ crashed' = TRUE
    /\ slots' = [slots EXCEPT ![start] = Null]
    /\ start' = start + 1
    /\ UNCHANGED <<finish, status, calls, watchdog>>

-----------------------------------------------------------------------------
(* The query, and return_connection: a valid connection goes to the back.   *)

GiveBack(g) ==
    /\ pc[g] = "use"
    /\ slots' = [slots EXCEPT ![finish] = held[g]]
    /\ finish' = finish + 1
    /\ held' = [held EXCEPT ![g] = Null]
    /\ pc' = [pc EXCEPT ![g] = "idle"]
    /\ UNCHANGED <<start, status, calls, watchdog, crashed>>

(* Mutant: a connection that is not valid goes to the pool as well. *)
DropIntoPool(g) ==
    /\ pc[g] = "use"
    /\ status' = [status EXCEPT ![held[g]] = "closed"]
    /\ slots' = [slots EXCEPT ![finish] = held[g]]
    /\ finish' = finish + 1
    /\ held' = [held EXCEPT ![g] = Null]
    /\ pc' = [pc EXCEPT ![g] = "idle"]
    /\ UNCHANGED <<start, calls, watchdog, crashed>>

(* The query threw, or the connection is not valid any more: it is          *)
(* destroyed.                                                               *)
Drop(g) ==
    /\ pc[g] = "use"
    /\ status' = [status EXCEPT ![held[g]] = "closed"]
    /\ held' = [held EXCEPT ![g] = Null]
    /\ pc' = [pc EXCEPT ![g] = "idle"]
    /\ UNCHANGED <<deque, calls, watchdog, crashed>>

-----------------------------------------------------------------------------
(* cleanup_loop.  Both looks at the size are without the mutex; the         *)
(* difference is an unsigned number.                                        *)

DogTest ==
    /\ dog = "sleep"
    /\ Size > InitCount
    /\ dog' = "count"
    /\ UNCHANGED <<deque, status, callers, extra, crashed>>

DogCount ==
    /\ dog = "count"
    /\ extra' = (Size - InitCount) % SizeMod
    /\ dog' = "close"
    /\ UNCHANGED <<deque, status, callers, crashed>>

(* The positions whose connections the watchdog closes. *)
Doomed == start..(start + extra - 1)

DogClose ==
    /\ dog = "close"
    /\ IF \A i \in Doomed : At(i) \in Conns
       THEN /\ status' = [c \in Conns |->
                            IF \E i \in Doomed : slots[i] = c
                            THEN "closed" ELSE status[c]]
            /\ slots' = [i \in Positions |->
                            IF i \in Doomed THEN Null ELSE slots[i]]
            /\ start' = start + extra
            /\ crashed' = FALSE
       ELSE /\ crashed' = TRUE
            /\ UNCHANGED <<slots, start, status>>
    /\ dog' = "sleep"
    /\ extra' = 0
    /\ UNCHANGED <<finish, callers>>

-----------------------------------------------------------------------------
Caller(g) == TestEmpty(g) \/ Made(g) \/ NotMade(g) \/ Take(g) \/ GiveBack(g)
               \/ Drop(g)
Dog == DogTest \/ DogCount \/ DogClose

Next ==
    /\ ~crashed
    /\ Dog \/ \E g \in Callers : Caller(g)

Spec == Init /\ [][Next]_vars

-----------------------------------------------------------------------------
(* Properties *)

(* Two callers never use one connection, and a connection that is in use is *)
(* not in the pool or twice in it, although callers race for the front.     *)
Exclusive ==
    /\ \A g, h \in Callers : (held[g] # Null /\ held[g] = held[h]) => g = h
    /\ \A g \in Callers : held[g] # Null => ~InPool(held[g])
    /\ \A i, j \in Filled : (slots[i] \in Conns /\ slots[i] = slots[j]) => i = j

(* A connection that was closed, by the watchdog or because it failed, is   *)
(* never in the pool and never handed out.                                  *)
OnlyOpenOnes ==
    \A c \in Conns :
        (InPool(c) \/ \E g \in Callers : held[g] = c) => status[c] = "open"

(* "we have established connections to provide": a caller that found the    *)
(* deque non-empty takes a connection from it.                              *)
(* FALSE of the code: the size is looked at before the mutex is taken.      *)
ConnectionToProvide ==
    [][\A g \in Callers : (pc[g] = "take" /\ pc'[g] # "take")
                              => held'[g] # Null]_vars

(* "close extra connections (anything more than the minimum)": what the     *)
(* watchdog leaves in the pool is not less than the minimum.                *)
(* FALSE of the code: the count is stale when it is used.                   *)
MinimumKept ==
    [][(dog = "close" /\ dog' = "sleep")
           => (start' = start \/ finish' - start' >= InitCount)]_vars
=============================================================================
