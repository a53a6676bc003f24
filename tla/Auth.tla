-------------------------------- MODULE Auth --------------------------------
(* app::db::Auth::from_first_wss_message (src/src/include/db/auth.hpp), the *)
(* authenticator of the endpoint handler, on jahan::db::Core::get_value     *)
(* (src/lib/jahan/db/core.hpp) and the pool of connections (DbPool).        *)
(*                                                                          *)
(* A message names a user, a token and a type.  A first query looks for the *)
(* session, a second one for the name; each takes a connection of its own,  *)
(* and get_value answers a query in one of three ways: with a value, with   *)
(* the empty string when there is no row, or with nullopt when there was no *)
(* connection or the driver threw.                                          *)
EXTENDS DbPool

VARIABLES
    stage,    \* which query from_first_wss_message is at
    type,     \* the last part of the message, while one is looked at
    value,    \* what get_value has to return
    answer,   \* what from_first_wss_message returned last
    proved,   \* history: the first query of this call found a session
    failed    \* history: a query of this call did not come to a result

call == <<stage, type, value, answer, proved, failed>>
pool == <<slots, start, finish, status, pc, held, calls, dog, extra, crashed>>
allVars == <<pool, call>>

Types == {"admin", "agent", "other"}

(* nullopt, the empty string, or a value: the id of a session, a name *)
Values == {"unset", "nullopt", "", "value"}

(* "", a name, or "number: " with or without a name behind it *)
Answers == {"", "name", "number and name", "number"}

AuthTypeOK ==
    /\ TypeOK
    /\ stage \in [Callers -> {"idle", "session", "name"}]
    /\ type \in [Callers -> Types \cup {"none"}]
    /\ value \in [Callers -> Values]
    /\ answer \in [Callers -> Answers]
    /\ proved \in [Callers -> BOOLEAN] /\ failed \in [Callers -> BOOLEAN]

AuthInit ==
    /\ Init
    /\ stage = [g \in Callers |-> "idle"]
    /\ type = [g \in Callers |-> "none"]
    /\ value = [g \in Callers |-> "unset"]
    /\ answer = [g \in Callers |-> ""]
    /\ proved = [g \in Callers |-> FALSE]
    /\ failed = [g \in Callers |-> FALSE]

-----------------------------------------------------------------------------
(* from_first_wss_message.  A message that has not four parts, or no number *)
(* in front, is answered with the empty string and nothing else happens.    *)

Ready(g) == stage[g] = "idle" /\ pc[g] = "idle"

Malformed(g) ==
    /\ Ready(g)
    /\ answer' = [answer EXCEPT ![g] = ""]
    /\ proved' = [proved EXCEPT ![g] = FALSE]
    /\ failed' = [failed EXCEPT ![g] = FALSE]
    /\ UNCHANGED <<pool, stage, type, value>>

Begin(g) ==
    /\ Ready(g)
    /\ calls[g] + 2 <= MaxCalls
    /\ stage' = [stage EXCEPT ![g] = "session"]
    /\ \E t \in Types : type' = [type EXCEPT ![g] = t]
    /\ answer' = [answer EXCEPT ![g] = ""]
    /\ proved' = [proved EXCEPT ![g] = FALSE]
    /\ failed' = [failed EXCEPT ![g] = FALSE]
    /\ UNCHANGED <<pool, value>>

-----------------------------------------------------------------------------
(* get_value *)

GetConnection(g) ==
    /\ stage[g] # "idle" /\ value[g] = "unset"
    /\ TestEmpty(g)
    /\ UNCHANGED call

(* The return of {} at the end. *)
Nothing(g) ==
    /\ value' = [value EXCEPT ![g] = "nullopt"]
    /\ failed' = [failed EXCEPT ![g] = TRUE]
    /\ UNCHANGED <<stage, type, answer, proved>>

Connect(g) ==
    \/ Made(g) /\ UNCHANGED call
    \/ NotMade(g) /\ Nothing(g)
    \/ Take(g) /\ IF pc'[g] = "use" THEN UNCHANGED call
                  ELSE Nothing(g)

(* set_param for each parameter, executeQuery, and the first column of the  *)
(* row, if there is one: others change the tables at any time, also between *)
(* the two queries.                                                         *)
Execute(g) ==
    /\ pc[g] = "use" /\ value[g] = "unset"
    /\ \E row \in BOOLEAN :
         /\ value' = [value EXCEPT ![g] = IF row THEN "value" ELSE ""]
         /\ proved' = [proved EXCEPT ![g] =
                          IF stage[g] = "session" THEN row ELSE @]
    /\ UNCHANGED <<pool, stage, type, answer, failed>>

(* The driver throws: the connection is destroyed with its unique_ptr. *)
Throw(g) == value[g] = "unset" /\ Drop(g) /\ Nothing(g)

(* return_connection keeps the connection, or finds it not valid. *)
ReturnConnection(g) ==
    /\ value[g] # "unset"
    /\ GiveBack(g) \/ Drop(g)
    /\ UNCHANGED call

-----------------------------------------------------------------------------
(* What the queries lead to. *)

Answered(g) == pc[g] = "idle" /\ value[g] # "unset"

Return(g, a) ==
    /\ stage' = [stage EXCEPT ![g] = "idle"]
    /\ value' = [value EXCEPT ![g] = "unset"]
    /\ answer' = [answer EXCEPT ![g] = a]
    /\ type' = [type EXCEPT ![g] = "none"]
    /\ UNCHANGED <<pool, proved, failed>>

(* Mutant: any value will do, an empty one, too. *)
VerifiedIfAny(g) ==
    /\ stage[g] = "session" /\ Answered(g)
    /\ IF value[g] # "nullopt" /\ type[g] \in {"admin", "agent"}
       THEN /\ stage' = [stage EXCEPT ![g] = "name"]
            /\ value' = [value EXCEPT ![g] = "unset"]
            /\ UNCHANGED <<pool, type, answer, proved, failed>>
       ELSE Return(g, "")

(* verify_token: the value must be a number; and get_name has a query for   *)
(* two types only.                                                          *)
Verified(g) ==
    /\ stage[g] = "session" /\ Answered(g)
    /\ IF value[g] = "value" /\ type[g] \in {"admin", "agent"}
       THEN /\ stage' = [stage EXCEPT ![g] = "name"]
            /\ value' = [value EXCEPT ![g] = "unset"]
            /\ UNCHANGED <<pool, type, answer, proved, failed>>
       ELSE Return(g, "")

(* Mutant: the number is put in front of whatever there is. *)
NamedAnyway(g) ==
    /\ stage[g] = "name" /\ Answered(g)
    /\ Return(g, IF type[g] = "agent"
                 THEN IF value[g] = "value" THEN "number and name" ELSE "number"
                 ELSE IF value[g] = "value" THEN "name" ELSE "")

(* get_name: an agent's name gets the number in front of it, an empty one,  *)
(* too.                                                                     *)
Named(g) ==
    /\ stage[g] = "name" /\ Answered(g)
    /\ Return(g,
         IF value[g] = "nullopt" THEN ""
         ELSE IF type[g] = "agent"
         THEN IF value[g] = "value" THEN "number and name" ELSE "number"
         ELSE IF value[g] = "value" THEN "name" ELSE "")

-----------------------------------------------------------------------------
(* What a caller does once it has begun. *)
Work(g) == GetConnection(g) \/ Connect(g) \/ Execute(g) \/ Throw(g)
             \/ ReturnConnection(g) \/ Verified(g) \/ Named(g)

AuthNext ==
    /\ ~crashed
    /\ \/ \E g \in Callers : Malformed(g) \/ Begin(g) \/ Work(g)
       \/ Dog /\ UNCHANGED call

AuthSpec == AuthInit /\ [][AuthNext]_allVars

(* Every thread runs on, and a query and a connection attempt end: the      *)
(* driver has a socket time-out.                                            *)
AuthFairSpec ==
    AuthSpec /\ \A g \in Callers : WF_allVars(~crashed /\ Work(g))

-----------------------------------------------------------------------------
(* Properties *)

(* A name is only answered to a message whose session was found, by the     *)
(* first query of the same call.                                            *)
NameProvesSession == \A g \in Callers : answer[g] # "" => proved[g]

(* A call in which the database could not be asked answers with the empty   *)
(* string, which turns the client away, however far it had come.            *)
FailureRejects ==
    \A g \in Callers : (stage[g] = "idle" /\ failed[g]) => answer[g] = ""

(* Every call ends, whatever happens to the connections, unless the process *)
(* does.                                                                    *)
AuthEnds == \A g \in Callers : stage[g] # "idle" ~> (stage[g] = "idle" \/ crashed)

(* A name is only answered when there is one.                               *)
(* FALSE of the code: an agent without a row is answered its number.        *)
NameExists == \A g \in Callers : answer[g] # "number"
=============================================================================
