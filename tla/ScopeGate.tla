------------------------------ MODULE ScopeGate ------------------------------
(* What SimpleWeb::ScopeRunner promises, without the counter: handlers are  *)
(* inside a scope one by one, and closing the gate happens at a moment when *)
(* nobody is inside and lets nobody in any more.  The web socket client     *)
(* closes the gate before it destroys itself, so that no handler uses it    *)
(* afterwards.                                                              *)

CONSTANT Users

VARIABLES
    inside,     \* who holds a SharedLock
    open        \* stop() has not taken effect

vars == <<inside, open>>

Init ==
    /\ inside = {}
    /\ open = TRUE

Enter(u) ==
    /\ open
    /\ inside' = inside \cup {u}
    /\ UNCHANGED open

Leave(u) ==
    /\ u \in inside
    /\ inside' = inside \ {u}
    /\ UNCHANGED open

Close ==
    /\ inside = {}
    /\ open' = FALSE
    /\ UNCHANGED inside

Next ==
    \/ \E u \in Users : Enter(u) \/ Leave(u)
    \/ Close

Spec == Init /\ [][Next]_vars
==============================================================================
