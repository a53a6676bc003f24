-------------------------- MODULE MCEndpointHandler --------------------------
(* The instance of EndpointHandler: which connection has which key and      *)
(* channel, and what comes when the handlers run inline and when they run   *)
(* on the pool.                                                             *)
EXTENDS EndpointHandler, TLC

CONSTANTS c1, c2, c3, c4, c5, k1, k2, a, b, empty

(* Two connections to channel a, a third to it that comes from the address  *)
(* and port of the first after the first was closed, one to channel b after *)
(* the second was closed, and one that names no channel.                    *)
KeysReused == c1 :> k1 @@ c2 :> k2 @@ c3 :> k1 @@ c4 :> k2 @@ c5 :> k2
TwoChannelsAndNone ==
    c1 :> a @@ c2 :> a @@ c3 :> a @@ c4 :> b @@ c5 :> empty

Either == {TRUE, FALSE}
OnlyPool == {TRUE}

(* With the pool two peers of one channel, inline all of them. *)
PeersOf == TRUE :> {c1, c2} @@ FALSE :> Conns
Kinds(first, second, rest) ==
    [c \in Conns |-> CASE c = c1 -> first [] c = c2 -> second [] OTHER -> rest]
MessagesOf ==
    TRUE :> Kinds({"user", "text"}, {"user"}, {})
    @@ FALSE :> Kinds({"admin", "status"}, {"admin", "status", "over"},
                      {"admin"})
(* With the pool the first peer may come again, from the same address.      *)
PeersWithReuse == TRUE :> {c1, c2, c3} @@ FALSE :> {}
UserOnly == [pool \in BOOLEAN |-> [c \in Conns |-> {"user"}]]
AuthenticatorsOf == TRUE :> {TRUE} @@ FALSE :> {TRUE, FALSE}

Each(n) == [c \in Conns |-> n]

(* With the pool the second peer sends two messages; inline the first does, *)
(* and the third one.                                                       *)
OneSendsTwo ==
    TRUE :> (c1 :> 1 @@ c2 :> 2 @@ c3 :> 0 @@ c4 :> 0 @@ c5 :> 0)
    @@ FALSE :> (c1 :> 2 @@ c2 :> 1 @@ c3 :> 1 @@ c4 :> 0 @@ c5 :> 0)
TwoEach == [pool \in BOOLEAN |-> Each(2)]
FirstTwoSend ==
    [pool \in BOOLEAN |->
        c1 :> 1 @@ c2 :> 2 @@ c3 :> 0 @@ c4 :> 0 @@ c5 :> 0]

NoneSends == [pool \in BOOLEAN |-> Each(0)]

(* The workers are alike. *)
WorkersAlike == Permutations(Workers)
===========================================================================
