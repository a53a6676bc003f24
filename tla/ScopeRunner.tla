----------------------------- MODULE ScopeRunner -----------------------------
(* SimpleWeb::ScopeRunner (src/lib/simple_webSocket_server/utility.hpp): an *)
(* atomic counter that is the number of SharedLocks, or -1 once the scopes  *)
(* are cancelled.  Every access to the counter is one step; a weak          *)
(* compare-exchange may fail although the values are equal.                 *)
(* The thread that calls stop holds no lock: a handler that destroyed the   *)
(* client it belongs to would wait for itself.                              *)
EXTENDS Integers, FiniteSets

CONSTANTS
    Users,      \* handlers that call continue_lock, again and again
    Stoppers    \* threads that call stop, once each

ASSUME UsersAssumption == IsFiniteSet(Users)

VARIABLES
    count,
    upc,        \* where each user is: outside, in the loop, holding a lock
    expected,   \* the local variable of continue_lock
    spc         \* where each stopper is

runnerVars == <<count, upc, expected, spc>>

Counts == Nat \cup {-1}

TypeOK ==
    /\ count \in Counts
    /\ upc \in [Users -> {"out", "loop", "in"}]
    /\ expected \in [Users -> Counts]
    /\ spc \in [Stoppers -> {"idle", "loop", "done"}]

RunnerInit ==
    /\ count = 0
    /\ upc = [u \in Users |-> "out"]
    /\ expected = [u \in Users |-> 0]
    /\ spc = [s \in Stoppers |-> "idle"]

-----------------------------------------------------------------------------
(* continue_lock *)

Load(u) ==
    /\ upc[u] = "out"
    /\ upc' = [upc EXCEPT ![u] = "loop"]
    /\ expected' = [expected EXCEPT ![u] = count]
    /\ UNCHANGED <<count, spc>>

(* The condition of the loop before the exchange is tried. *)
MayTry(u) == upc[u] = "loop" /\ expected[u] >= 0

Grant(u) ==
    /\ MayTry(u)
    /\ count = expected[u]
    /\ count' = expected[u] + 1
    /\ upc' = [upc EXCEPT ![u] = "in"]
    /\ UNCHANGED <<expected, spc>>

(* A failed exchange loads the counter; it may also fail for no reason.     *)
Retry(u) ==
    /\ MayTry(u)
    /\ expected' = [expected EXCEPT ![u] = count]
    /\ UNCHANGED <<count, upc, spc>>

Refuse(u) ==
    /\ upc[u] = "loop"
    /\ expected[u] < 0
    /\ upc' = [upc EXCEPT ![u] = "out"]
    /\ UNCHANGED <<count, expected, spc>>

(* Mutant: a lock that goes out of scope is not counted down. *)
ReleaseNothing(u) ==
    /\ upc[u] = "in"
    /\ upc' = [upc EXCEPT ![u] = "out"]
    /\ UNCHANGED <<count, expected, spc>>

(* ~SharedLock *)
Release(u) ==
    /\ upc[u] = "in"
    /\ count' = count - 1
    /\ upc' = [upc EXCEPT ![u] = "out"]
    /\ UNCHANGED <<expected, spc>>

-----------------------------------------------------------------------------
(* stop.  expected is 0 at every exchange; a failed exchange without        *)
(* consequence is a stutter.                                                *)

StopBegin(s) ==
    /\ spc[s] = "idle"
    /\ spc' = [spc EXCEPT ![s] = "loop"]
    /\ UNCHANGED <<count, upc, expected>>

(* Mutant: expected keeps what the failed exchange loaded. *)
StopSwapAny(s) ==
    /\ spc[s] = "loop"
    /\ count >= 0
    /\ count' = -1
    /\ spc' = [spc EXCEPT ![s] = "done"]
    /\ UNCHANGED <<upc, expected>>

StopSwap(s) ==
    /\ spc[s] = "loop"
    /\ count = 0
    /\ count' = -1
    /\ spc' = [spc EXCEPT ![s] = "done"]
    /\ UNCHANGED <<upc, expected>>

StoppedAlready(s) ==
    /\ spc[s] = "loop"
    /\ count < 0
    /\ spc' = [spc EXCEPT ![s] = "done"]
    /\ UNCHANGED <<count, upc, expected>>

-----------------------------------------------------------------------------
User(u) == Load(u) \/ Grant(u) \/ Retry(u) \/ Refuse(u) \/ Release(u)
Stopper(s) == StopSwap(s) \/ StoppedAlready(s)

RunnerNext ==
    \/ \E u \in Users : User(u)
    \/ \E s \in Stoppers : StopBegin(s) \/ Stopper(s)

RunnerSpec == RunnerInit /\ [][RunnerNext]_runnerVars

(* A handler returns and gives its lock back; a weak exchange of equal      *)
(* values does not fail for ever.                                           *)
RunnerFairness ==
    /\ \A u \in Users : WF_runnerVars(Release(u))
    /\ \A s \in Stoppers : WF_runnerVars(Stopper(s))

RunnerFairSpec == RunnerSpec /\ RunnerFairness

-----------------------------------------------------------------------------
(* Properties *)

Inside == {u \in Users : upc[u] = "in"}

(* The counter counts: no grant, release or stop is lost, however the       *)
(* loads and exchanges of the threads interleave.                           *)
CountExact ==
    \/ count = -1 /\ Inside = {}
    \/ count = Cardinality(Inside)

(* "Blocks until all shared locks are released, then prevents future shared *)
(* locks": when a call of stop has returned, nobody is inside.              *)
StoppedIsEmpty == (\E s \in Stoppers : spc[s] = "done") => Inside = {}

(* The counter implements the gate. *)
Gate == INSTANCE ScopeGate WITH inside <- Inside, open <- count >= 0

ImplementsGate == Gate!Spec

(* stop returns if the handlers stop coming: it waits only for the locks    *)
(* that are held.                                                           *)
StopReturns ==
    \A s \in Stoppers :
        <>[](\A u \in Users : upc[u] # "loop")
            => (spc[s] = "loop" ~> spc[s] = "done")
==============================================================================
