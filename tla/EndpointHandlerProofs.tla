----------------------- MODULE EndpointHandlerProofs -----------------------
(* Proofs about EndpointHandler for any connections, keys, channels and     *)
(* workers: type correctness; that only connections that passed the         *)
(* authenticator are sent what others broadcast, inline and, as long as the *)
(* peers come from different addresses, on the pool; and what holds of the  *)
(* registry, the references into it and the presence lists without a pool.  *)
EXTENDS EndpointHandler, TLAPS

Locals == [pc : PCs, c : Conns \cup {NoConn}, m : MessageKinds \cup {"none"},
           todo : SUBSET (Keys \cup Channels),
           at : Keys \cup Channels \cup {NoConn},
           back : {"idle", "broadcastLoop", "presence", "presenceLoop"}]

(* Before these steps the name of the channel has not been tested.          *)
Untested == {"idle", "open", "message", "close"}

(* Inline, these steps are taken for a connection that is open.             *)
WhileOpen == {"open", "openClient", "message", "check", "reject", "accept",
              "dispatch"}

(* In these steps a key is being removed or a loop stands on one.           *)
OnKeys == {"broadcastLoop", "presenceLoop", "rmLock", "rmDrop"}

(* What the executors work on comes from the peers.                         *)
FromPeers ==
    /\ \A c \in Conns : conn[c] # "new" => c \in Peers[m_tpool]
    /\ \A i \in DOMAIN tasks : tasks[i].c \in Peers[m_tpool]
    /\ \A e \in Executors : ex[e].pc # "idle" => ex[e].c \in Peers[m_tpool]
    /\ \A e \in Executors :
          ex[e].pc \notin Untested => ChannelOf[ex[e].c] \in Channels
    /\ \A e \in Executors : ex[e].pc \in OnKeys => ex[e].at \in Keys

(* A connection is listed under its own channel and key.                    *)
InPlace ==
    \A ch \in Channels, k \in Keys :
        LET con == clients[ch][k].con IN
        con # NoConn => /\ con \in Peers[m_tpool]
                        /\ ChannelOf[con] = ch
                        /\ KeyOf[con] = k

(* The entry of connection d, which has ended, is about to be removed by    *)
(* the executor with these locals.                                          *)
Removing(x, d) ==
    /\ x.c = d
    /\ x.pc = "close" \/ (x.pc = "rmLock" /\ x.at = KeyOf[d])

(* Without a pool only the io thread works.                                 *)
Inline ==
    ~m_tpool =>
        /\ tasks = <<>>
        /\ \A w \in Workers : ex[w].pc = "idle"
        /\ \A c, d \in Conns :
              conn[c] = "open" /\ conn[d] = "open" /\ KeyOf[c] = KeyOf[d]
                  => c = d
        /\ ex[Io].pc \in WhileOpen => conn[ex[Io].c] = "open"
        /\ \A ch \in Channels, k \in Keys :
              LET con == clients[ch][k].con IN
              con # NoConn => conn[con] = "open" \/ Removing(ex[Io], con)

(* What is marked authenticated is the entry of a connection that passed.   *)
MarkedPassed ==
    (m_tpool => KeysDistinct) /\ m_authenticator =>
        \A ch \in Channels, k \in Keys :
            LET con == clients[ch][k].con IN
            clients[ch][k].authenticated => con \in accepted \cup {NoConn}

Inv == TypeOK /\ FromPeers /\ InPlace /\ Inline /\ MarkedPassed
         /\ OnlyAcceptedReached
-----------------------------------------------------------------------------
(* e goes on with its handler, or ends it.                                  *)
Moves(e) ==
    /\ ex[e].pc # "idle"
    /\ ex' \in [Executors -> Locals]
    /\ \A f \in Executors : f # e => ex'[f] = ex[f]
    /\ \/ ex'[e].pc = "idle"
       \/ /\ ex'[e].c = ex[e].c
          /\ ex[e].pc \in Untested /\ ex'[e].pc \notin Untested
                => Ch(e) \in Channels
          /\ ex'[e].pc \in Untested => ex[e].pc \in Untested
          /\ ex'[e].pc \in WhileOpen => ex[e].pc \in WhileOpen
          /\ ex'[e].pc \in OnKeys => ex'[e].at \in Keys

(* Entries are at most created empty or erased.                             *)
NothingAdded ==
    \A ch \in Channels, k \in Keys :
        \/ clients'[ch][k] = clients[ch][k]
        \/ clients'[ch][k].con = NoConn /\ ~clients'[ch][k].authenticated

(* An entry that e was about to remove is gone, or e still is about to.     *)
StillRemoving(e) ==
    \A ch \in Channels, k \in Keys :
        LET con == clients'[ch][k].con IN
        con # NoConn /\ Removing(ex[e], con) => Removing(ex'[e], con)

(* A step of a handler that adds nothing to the registry and sends nothing  *)
(* keeps the invariant.                                                     *)
LEMMA StepKeeps ==
    ASSUME Inv, NEW e \in Executors, Moves(e), NothingAdded, StillRemoving(e),
           UNCHANGED <<setup, conn, tasks, undefined>>,
           accepted \subseteq accepted', TypeOK',
           \A c \in reached' \ reached :
              (m_tpool => KeysDistinct) /\ m_authenticator => c \in accepted
    PROVE  Inv'
<1> USE DEF Inv, setup
<1>1. FromPeers'
  BY DEF FromPeers, Moves, Ch, Untested, OnKeys
<1>2. InPlace'
  BY DEF InPlace, NothingAdded
<1>3. Inline'
  <2>1. CASE m_tpool
    BY <2>1 DEF Inline
  <2>2. CASE ~m_tpool
    <3>1. e = Io
      BY <2>2 DEF Inline, Moves, Executors
    <3>2. \A w \in Workers : ex'[w].pc = "idle"
      BY <2>2, <3>1, ThreadsAssumption DEF Inline, Moves, Executors
    <3>3. ex'[Io].pc \in WhileOpen => conn'[ex'[Io].c] = "open"
      BY <2>2, <3>1 DEF Inline, Moves, WhileOpen
    <3>4. ASSUME NEW ch \in Channels, NEW k \in Keys,
                 clients'[ch][k].con # NoConn,
                 conn'[clients'[ch][k].con] # "open"
          PROVE  Removing(ex'[Io], clients'[ch][k].con)
      BY <2>2, <3>1, <3>4 DEF Inline, NothingAdded, StillRemoving
    <3> QED
      BY <2>2, <3>2, <3>3, <3>4 DEF Inline
  <2> QED
    BY <2>1, <2>2
<1>4. MarkedPassed'
  BY DEF MarkedPassed, NothingAdded, KeysDistinct
<1>5. OnlyAcceptedReached'
  BY DEF OnlyAcceptedReached, ReceiverPassed, KeysDistinct
<1> QED
  BY <1>1, <1>2, <1>3, <1>4, <1>5

(* A step to pc, possibly with other values of todo, at and back.           *)
LEMMA LocalsMove ==
    ASSUME TypeOK, NEW e \in Executors, NEW pc \in PCs \ Untested,
           NEW todo \in SUBSET (Keys \cup Channels),
           NEW at \in Keys \cup Channels \cup {NoConn},
           NEW back \in {"idle", "broadcastLoop", "presence", "presenceLoop"},
           ex' = [ex EXCEPT ![e].pc = pc, ![e].todo = todo, ![e].at = at,
                            ![e].back = back],
           ex[e].pc # "idle",
           ex[e].pc \in Untested => Ch(e) \in Channels,
           pc \in WhileOpen => ex[e].pc \in WhileOpen,
           pc \in OnKeys => at \in Keys
    PROVE  Moves(e)
<1>1. ex \in [Executors -> Locals]
  BY DEF TypeOK, Locals
<1>2. ex[e] \in Locals
  BY <1>1
<1> DEFINE x == [ex[e] EXCEPT !.pc = pc, !.todo = todo, !.at = at,
                              !.back = back]
<1>3. x \in Locals
  BY <1>2 DEF Locals
<1>4. x.c = ex[e].c /\ x.pc = pc /\ x.at = at
  BY <1>2 DEF Locals
<1>5. ex'[e] = x
  BY <1>1
<1>6. \A f \in Executors : f # e => ex'[f] = ex[f]
  BY <1>1
<1>7. ex' \in [Executors -> Locals]
  <2>1. ex' = [f \in Executors |-> ex'[f]]
    BY <1>1
  <2> HIDE DEF x
  <2> QED
    BY <2>1, <1>1, <1>3, <1>5, <1>6
<1> HIDE DEF x
<1> QED
  BY <1>4, <1>5, <1>6, <1>7 DEF Moves

LEMMA GotoMoves ==
    ASSUME TypeOK, NEW e \in Executors, NEW pc \in PCs \ Untested,
           Goto(e, pc),
           ex[e].pc # "idle",
           ex[e].pc \in Untested => Ch(e) \in Channels,
           pc \in WhileOpen => ex[e].pc \in WhileOpen,
           pc \in OnKeys => ex[e].at \in Keys
    PROVE  Moves(e)
<1>1. ex \in [Executors -> Locals]
  BY DEF TypeOK, Locals
<1>3. ex' = [ex EXCEPT ![e].pc = pc, ![e].todo = ex[e].todo,
               ![e].at = ex[e].at, ![e].back = ex[e].back]
  BY <1>1 DEF Locals, Goto
<1> QED
  BY <1>1, <1>3, LocalsMove DEF Locals

LEMMA DoneMoves ==
    ASSUME TypeOK, NEW e \in Executors, Done(e), ex[e].pc # "idle"
    PROVE  Moves(e)
<1>1. ex \in [Executors -> Locals] /\ Idle \in Locals
  BY DEF TypeOK, Locals, Idle, PCs
<1>2. ex' \in [Executors -> Locals]
  BY <1>1 DEF Done
<1> QED
  BY <1>1, <1>2 DEF Moves, Done, Idle

LEMMA StepToMoves ==
    ASSUME TypeOK, NEW e \in Executors,
           NEW loop \in {"broadcastLoop", "cleanupLoop", "presenceLoop"},
           NEW nodes \in SUBSET (Keys \cup Channels),
           NEW following \in {Idle, ToCleanup(e)},
           StepTo(e, loop, nodes, following),
           loop \in OnKeys => nodes \in SUBSET Keys,
           ex[e].pc \notin Untested
    PROVE  Moves(e) /\ ref' \in [Executors -> BOOLEAN]
<1>1. ex \in [Executors -> Locals] /\ ref \in [Executors -> BOOLEAN]
  BY DEF TypeOK, Locals
<1>2. loop \in PCs \ Untested /\ loop \notin WhileOpen
  BY DEF PCs, Untested, WhileOpen
<1>3. ASSUME NEW n \in nodes,
             ex' = [ex EXCEPT ![e].pc = loop, ![e].at = n,
                              ![e].todo = nodes \ {n}]
      PROVE  Moves(e)
  <2>1. ex' = [ex EXCEPT ![e].pc = loop, ![e].todo = nodes \ {n},
                         ![e].at = n, ![e].back = ex[e].back]
    BY <1>1, <1>3 DEF Locals
  <2>2. /\ ex[e].back \in {"idle", "broadcastLoop", "presence",
                           "presenceLoop"}
        /\ nodes \ {n} \in SUBSET (Keys \cup Channels)
        /\ n \in Keys \cup Channels \cup {NoConn}
    BY <1>1 DEF Locals
  <2> QED
    BY <1>2, <2>1, <2>2, LocalsMove DEF Untested
<1>4. ASSUME ex' = [ex EXCEPT ![e] = following]
      PROVE  Moves(e)
  <2>1. CASE following = Idle
    BY <1>4, <2>1, DoneMoves DEF Done, Untested
  <2>2. CASE following = ToCleanup(e)
    <3>1. /\ ToCleanup(e) \in Locals
          /\ ToCleanup(e).pc = "cleanup" /\ ToCleanup(e).c = ex[e].c
      BY <1>1 DEF ToCleanup, Locals, Idle, PCs
    <3>2. /\ ex' \in [Executors -> Locals] /\ ex'[e] = ToCleanup(e)
          /\ \A f \in Executors : f # e => ex'[f] = ex[f]
      BY <1>1, <1>4, <2>2, <3>1
    <3> QED
      BY <3>1, <3>2 DEF Moves, Untested, WhileOpen, OnKeys
  <2> QED
    BY <2>1, <2>2
<1>5. ref' \in [Executors -> BOOLEAN]
  BY <1>1 DEF StepTo
<1> QED
  BY <1>3, <1>4, <1>5 DEF StepTo

LEMMA RemoveMoves ==
    ASSUME TypeOK, NEW e \in Executors,
           NEW k \in Keys,
           NEW back \in {"idle", "broadcastLoop", "presence", "presenceLoop"},
           CallRemove(e, k, back), ex[e].pc # "idle",
           ex[e].pc \in Untested => Ch(e) \in Channels
    PROVE  Moves(e)
<1>1. ex \in [Executors -> Locals]
  BY DEF TypeOK, Locals
<1>2. ex' = [ex EXCEPT ![e].pc = "rmLock", ![e].todo = ex[e].todo,
               ![e].at = k, ![e].back = back]
  BY <1>1 DEF Locals, CallRemove
<1>3. "rmLock" \in PCs \ Untested /\ "rmLock" \notin WhileOpen
  BY DEF PCs, Untested, WhileOpen
<1>4. ex[e].todo \in SUBSET (Keys \cup Channels)
  BY <1>1 DEF Locals
<1> QED
  BY <1>2, <1>3, <1>4, LocalsMove

(* Nothing is removed from the registry by a step that is not one of        *)
(* on_close or remove_client.                                               *)
LEMMA NotRemoving ==
    ASSUME NEW e \in Executors, ex[e].pc \notin {"close", "rmLock"}
    PROVE  StillRemoving(e)
  BY DEF StillRemoving, Removing

LEMMA Untouched ==
    ASSUME UNCHANGED registry
    PROVE  NothingAdded
  BY DEF registry, NothingAdded

(* A step that only goes on in the handler.                                 *)
LEMMA QuietKeeps ==
    ASSUME Inv, NEW e \in Executors, Moves(e),
           ex[e].pc \notin {"close", "rmLock"},
           ref' \in [Executors -> BOOLEAN],
           UNCHANGED <<sockets, tasks, registry, owner, undefined, history>>
    PROVE  Inv'
<1>1. TypeOK'
  BY DEF Inv, TypeOK, Moves, Locals, sockets, setup, registry, history
<1> QED
  BY <1>1, StepKeeps, NotRemoving, Untouched DEF sockets, history

LEMMA QuietSteps ==
    ASSUME Inv, NEW e \in Executors,
           \/ OpenRefused(e) \/ MessageIgnored(e) \/ MessageCheck(e)
           \/ BroadcastRemove(e) \/ CleanupTest(e) \/ PresenceRemove(e)
    PROVE  Inv'
<1>1. TypeOK /\ ref \in [Executors -> BOOLEAN]
  BY DEF Inv, TypeOK
<1>2. CASE OpenRefused(e) \/ MessageIgnored(e)
  BY <1>1, <1>2, DoneMoves, QuietKeeps DEF OpenRefused, MessageIgnored
<1>3. CASE MessageCheck(e)
  <2>1. PICK pc \in {"reject", "accept", "dispatch"} : Goto(e, pc)
    BY <1>3 DEF MessageCheck
  <2>2. Moves(e)
    BY <1>1, <1>3, <2>1, GotoMoves
       DEF MessageCheck, PCs, Untested, WhileOpen, OnKeys
  <2>3. ref' \in [Executors -> BOOLEAN]
    BY <1>1, <1>3 DEF MessageCheck, LastUse
  <2> QED
    BY <1>3, <2>2, <2>3, QuietKeeps DEF MessageCheck
<1>4. CASE BroadcastRemove(e) \/ PresenceRemove(e)
  <2>1. /\ ex[e].pc \in {"broadcastLoop", "presenceLoop"}
        /\ CallRemove(e, ex[e].at, ex[e].pc)
    BY <1>4 DEF BroadcastRemove, PresenceRemove
  <2>2. ex[e].at \in Keys
    BY <2>1 DEF Inv, FromPeers, OnKeys
  <2>3. Moves(e)
    BY <1>1, <2>1, <2>2, RemoveMoves DEF Untested
  <2> QED
    BY <1>1, <1>4, <2>1, <2>3, QuietKeeps DEF BroadcastRemove, PresenceRemove
<1>5. CASE CleanupTest(e)
  <2>1. Moves(e)
    BY <1>1, <1>5, GotoMoves
       DEF CleanupTest, PCs, Untested, WhileOpen, OnKeys
  <2> QED
    BY <1>1, <1>5, <2>1, QuietKeeps DEF CleanupTest
<1> QED
  BY <1>2, <1>3, <1>4, <1>5

(* The steps of the loops that go to the next node.                         *)
LEMMA NextNodes ==
    ASSUME Inv, NEW e \in Executors
    PROVE  /\ Present(Ch(e)) \in SUBSET Keys
           /\ ex[e].todo \cap Present(Ch(e)) \in SUBSET Keys
           /\ channels \in SUBSET (Keys \cup Channels)
           /\ ex[e].todo \cap channels \in SUBSET (Keys \cup Channels)
  BY DEF Inv, TypeOK, Present

LEMMA LoopSteps ==
    ASSUME Inv, NEW e \in Executors,
           \/ BroadcastSkip(e) \/ CleanupStart(e) \/ CleanupSkip(e)
           \/ PresenceStart(e) \/ PresenceSkip(e)
    PROVE  Inv'
<1>1. TypeOK
  BY DEF Inv
<1>2. CASE BroadcastSkip(e)
  <2>1. Moves(e) /\ ref' \in [Executors -> BOOLEAN]
    BY <1>1, <1>2, StepToMoves, NextNodes
       DEF BroadcastSkip, BroadcastNext, BroadcastTo, Untested
  <2> QED
    BY <1>2, <2>1, QuietKeeps DEF BroadcastSkip
<1>3. CASE CleanupStart(e)
  <2>1. Moves(e) /\ ref' \in [Executors -> BOOLEAN]
    BY <1>1, <1>3, StepToMoves, NextNodes
       DEF CleanupStart, CleanupTo, Untested, OnKeys
  <2> QED
    BY <1>3, <2>1, QuietKeeps DEF CleanupStart
<1>4. CASE CleanupSkip(e)
  <2>1. Moves(e) /\ ref' \in [Executors -> BOOLEAN]
    BY <1>1, <1>4, StepToMoves, NextNodes
       DEF CleanupSkip, CleanupTo, Untested, OnKeys
  <2> QED
    BY <1>4, <2>1, QuietKeeps DEF CleanupSkip
<1>5. CASE PresenceStart(e)
  <2>1. PICK nodes \in {Present(Ch(e)), {}} : PresenceTo(e, nodes)
    BY <1>5 DEF PresenceStart
  <2>2. nodes \in SUBSET Keys
    BY NextNodes
  <2>3. Moves(e) /\ ref' \in [Executors -> BOOLEAN]
    BY <1>1, <1>5, <2>1, <2>2, StepToMoves
       DEF PresenceStart, PresenceTo, Untested
  <2> QED
    BY <1>5, <2>3, QuietKeeps DEF PresenceStart
<1>6. CASE PresenceSkip(e)
  <2>1. Moves(e) /\ ref' \in [Executors -> BOOLEAN]
    BY <1>1, <1>6, StepToMoves, NextNodes
       DEF PresenceSkip, PresenceNext, PresenceTo, Untested
  <2> QED
    BY <1>6, <2>1, QuietKeeps DEF PresenceSkip
<1> QED
  BY <1>2, <1>3, <1>4, <1>5, <1>6

(* Sending changes neither the registry nor what is marked.                 *)
LEMMA SendSteps ==
    ASSUME Inv, NEW e \in Executors, BroadcastSend(e) \/ PresenceSend(e)
    PROVE  Inv'
<1> DEFINE con == clients[Ch(e)][ex[e].at].con
<1>1. TypeOK
  BY DEF Inv
<1>2. CASE BroadcastSend(e)
  <2>1. /\ Receives(e, ex[e].at) /\ con \in Conns
        /\ reached' = reached \cup {con}
    BY <1>1, <1>2 DEF BroadcastSend, Alive, TypeOK
  <2>2. Moves(e) /\ ref' \in [Executors -> BOOLEAN]
    BY <1>1, <1>2, StepToMoves, NextNodes
       DEF BroadcastSend, BroadcastNext, BroadcastTo, Untested
  <2>3. Ch(e) \in Channels
    BY <1>2 DEF Inv, FromPeers, BroadcastSend, Untested, Ch
  <2>4. ASSUME m_tpool => KeysDistinct, m_authenticator
        PROVE  con \in accepted
    <3>1. ex[e].at \in Keys
      BY <1>2 DEF BroadcastSend, Inv, FromPeers, OnKeys
    <3> QED
      BY <2>1, <2>3, <2>4, <3>1, ConnsAssumption
         DEF Inv, MarkedPassed, Receives
  <2>5. TypeOK'
    BY <1>1, <1>2, <2>1, <2>2
       DEF BroadcastSend, TypeOK, Moves, Locals, sockets, setup, registry
  <2> QED
    BY <1>2, <2>1, <2>2, <2>4, <2>5, StepKeeps, NotRemoving, Untouched
       DEF BroadcastSend, sockets
<1>3. CASE PresenceSend(e)
  <2>1. Moves(e) /\ ref' \in [Executors -> BOOLEAN]
    BY <1>1, <1>3, StepToMoves, NextNodes
       DEF PresenceSend, PresenceNext, PresenceTo, Untested
  <2>2. others' \in [Conns -> SUBSET Keys]
    BY <1>1, <1>3 DEF PresenceSend, TypeOK, Named, Present
  <2>3. TypeOK'
    BY <1>1, <1>3, <2>1, <2>2
       DEF PresenceSend, TypeOK, Moves, Locals, sockets, setup, registry
  <2> QED
    BY <1>3, <2>1, <2>3, StepKeeps, NotRemoving, Untouched
       DEF PresenceSend, sockets
<1> QED
  BY <1>2, <1>3

(* The operations on m_clients.                                             *)
LEMMA FindKeeps ==
    ASSUME TypeOK, NEW ch \in Channels, NEW k \in Keys, Find(ch, k)
    PROVE  /\ channels' \in SUBSET Channels
           /\ clients' \in [Channels -> [Keys -> Nodes \cup {Absent}]]
           /\ NothingAdded
<1> DEFINE node == IF clients[ch][k] = Absent THEN NewNode ELSE clients[ch][k]
<1>1. clients \in [Channels -> [Keys -> Nodes \cup {Absent}]]
  BY DEF TypeOK
<1>2. node \in Nodes \cup {Absent}
  BY <1>1 DEF NewNode, Nodes, Names
<1>3. clients' = [clients EXCEPT ![ch][k] = node]
  BY DEF Find, Put
<1>4. node = clients[ch][k] \/ (node.con = NoConn /\ ~node.authenticated)
  BY DEF NewNode
<1> HIDE DEF node
<1>5. clients' \in [Channels -> [Keys -> Nodes \cup {Absent}]]
  BY <1>1, <1>2, <1>3
<1>6. NothingAdded
  BY <1>1, <1>3, <1>4 DEF NothingAdded
<1>7. channels' \in SUBSET Channels
  BY DEF Find, Put, TypeOK
<1> QED
  BY <1>5, <1>6, <1>7

LEMMA EraseKeeps ==
    ASSUME TypeOK, NEW ch, NEW ks, EraseNodes(ch, ks)
    PROVE  /\ clients' \in [Channels -> [Keys -> Nodes \cup {Absent}]]
           /\ ref' \in [Executors -> BOOLEAN]
           /\ NothingAdded
           /\ ch \in Channels =>
                 \A k \in Keys : k \in ks => clients'[ch][k] = Absent
<1>1. clients \in [Channels -> [Keys -> Nodes \cup {Absent}]]
  BY DEF TypeOK
<1>2. ref' \in [Executors -> BOOLEAN]
  BY DEF EraseNodes, TypeOK
<1> DEFINE rest == [k \in Keys |-> IF k \in ks THEN Absent
                                   ELSE clients[ch][k]]
<1>3. clients' = [clients EXCEPT ![ch] = rest]
  BY <1>1 DEF EraseNodes
<1>4. CASE ch \notin Channels
  <2> HIDE DEF rest
  <2>1. clients' = clients
    BY <1>1, <1>3, <1>4
  <2> QED
    BY <1>1, <1>2, <1>4, <2>1 DEF NothingAdded
<1>5. CASE ch \in Channels
  <2>1. rest \in [Keys -> Nodes \cup {Absent}]
    BY <1>1, <1>5
  <2>2. /\ \A k \in Keys : k \in ks => rest[k] = Absent
        /\ \A k \in Keys : rest[k] = clients[ch][k] \/ rest[k] = Absent
    OBVIOUS
  <2> HIDE DEF rest
  <2>3. clients' \in [Channels -> [Keys -> Nodes \cup {Absent}]]
    BY <1>1, <1>3, <2>1
  <2>4. NothingAdded
    BY <1>1, <1>3, <2>2 DEF NothingAdded, Absent
  <2>5. \A k \in Keys : k \in ks => clients'[ch][k] = Absent
    BY <1>1, <1>3, <1>5, <2>2
  <2> QED
    BY <1>2, <2>3, <2>4, <2>5
<1> QED
  BY <1>4, <1>5

LEMMA DropKeeps ==
    ASSUME TypeOK, NEW ch, DropChannel(ch)
    PROVE  /\ channels' \in SUBSET Channels
           /\ clients' \in [Channels -> [Keys -> Nodes \cup {Absent}]]
           /\ ref' \in [Executors -> BOOLEAN]
           /\ NothingAdded
<1>1. /\ clients \in [Channels -> [Keys -> Nodes \cup {Absent}]]
      /\ ref \in [Executors -> BOOLEAN] /\ channels \in SUBSET Channels
  BY DEF TypeOK
<1>2. /\ ref' \in [Executors -> BOOLEAN]
      /\ channels' \in SUBSET Channels
  BY <1>1 DEF DropChannel
<1> DEFINE none == [k \in Keys |-> Absent]
<1>3. none \in [Keys -> Nodes \cup {Absent}] /\ \A k \in Keys : none[k] = Absent
  OBVIOUS
<1>4. clients' = [clients EXCEPT ![ch] = none]
  BY DEF DropChannel
<1> HIDE DEF none
<1>5. clients' \in [Channels -> [Keys -> Nodes \cup {Absent}]]
  BY <1>1, <1>3, <1>4
<1>6. NothingAdded
  BY <1>1, <1>3, <1>4 DEF NothingAdded, Absent
<1> QED
  BY <1>2, <1>5, <1>6

(* The handler of a step past the tests works on a channel and a key.       *)
LEMMA InRange ==
    ASSUME Inv, NEW e \in Executors, ex[e].pc # "idle"
    PROVE  /\ ex[e].c \in Conns /\ ex[e].c # NoConn
           /\ ex[e].c \in Peers[m_tpool]
           /\ Key(e) \in Keys
           /\ ex[e].pc \notin Untested => Ch(e) \in Channels
           /\ Ch(e) # EmptyName => Ch(e) \in Channels
<1>1. m_tpool \in BOOLEAN
  BY PoolsAssumption DEF Inv, TypeOK
<1>2. ex[e].c \in Peers[m_tpool] /\ Peers[m_tpool] \subseteq Conns
  BY <1>1, BoundAssumption DEF Inv, FromPeers
<1> QED
  BY <1>2, ConnsAssumption DEF Inv, FromPeers, Key, Ch

LEMMA OpenLockKeeps ==
    ASSUME Inv, NEW e \in Executors, OpenLock(e)
    PROVE  Inv'
<1>1. TypeOK /\ Ch(e) \in Channels
  BY InRange DEF Inv, OpenLock
<1>2. Moves(e)
  BY <1>1, GotoMoves DEF OpenLock, PCs, Untested, WhileOpen,
     OnKeys
<1>3. TypeOK'
  BY <1>1, <1>2 DEF OpenLock, TypeOK, Moves, Locals, sockets, setup, history
<1>4. NothingAdded
  BY DEF OpenLock, NothingAdded
<1> QED
  BY <1>2, <1>3, <1>4, StepKeeps, NotRemoving DEF OpenLock, sockets, history

LEMMA MessageFindKeeps ==
    ASSUME Inv, NEW e \in Executors, MessageFind(e)
    PROVE  Inv'
<1>1. TypeOK /\ Ch(e) \in Channels /\ Key(e) \in Keys
  BY InRange DEF Inv, MessageFind
<1>2. Moves(e)
  BY <1>1, GotoMoves DEF MessageFind, PCs, Untested, WhileOpen,
     OnKeys
<1>3. TypeOK' /\ NothingAdded
  BY <1>1, <1>2, FindKeeps
     DEF MessageFind, TypeOK, Moves, Locals, sockets, setup, history
<1> QED
  BY <1>2, <1>3, StepKeeps, NotRemoving DEF MessageFind, sockets, history

LEMMA MessageDispatchKeeps ==
    ASSUME Inv, NEW e \in Executors, MessageDispatch(e)
    PROVE  Inv'
<1>1. TypeOK
  BY DEF Inv
<1>2. Moves(e)
  <2>1. Done(e) \/ Goto(e, "broadcast")
    BY DEF MessageDispatch
  <2>2. /\ "broadcast" \in PCs \ Untested
        /\ "broadcast" \notin WhileOpen \cup OnKeys
    BY DEF PCs, Untested, WhileOpen, OnKeys
  <2> QED
    BY <1>1, <2>1, <2>2, DoneMoves, GotoMoves DEF MessageDispatch, Untested
<1>3. TypeOK'
  BY <1>1, <1>2 DEF MessageDispatch, LastUse, TypeOK, Moves, Locals, sockets,
                    setup, registry, history
<1> QED
  BY <1>2, <1>3, StepKeeps, NotRemoving, Untouched
     DEF MessageDispatch, sockets, history

LEMMA RejectKeeps ==
    ASSUME Inv, NEW e \in Executors, Reject(e)
    PROVE  Inv'
<1>1. TypeOK /\ Ch(e) \in Channels /\ ex[e].c \in Conns
  BY InRange DEF Inv, Reject, Untested
<1>2. Moves(e)
  BY <1>1, DoneMoves DEF Reject
<1>3. TypeOK' /\ NothingAdded
  BY <1>1, <1>2, EraseKeeps
     DEF Reject, TypeOK, Moves, Locals, sockets, setup
<1> QED
  BY <1>2, <1>3, StepKeeps, NotRemoving DEF Reject, sockets

LEMMA BroadcastStartKeeps ==
    ASSUME Inv, NEW e \in Executors, BroadcastStart(e)
    PROVE  Inv'
<1>1. TypeOK /\ Ch(e) \in Channels
  BY InRange DEF Inv, BroadcastStart, Untested
<1>2. Moves(e) /\ ref' \in [Executors -> BOOLEAN]
  BY <1>1, NextNodes, StepToMoves DEF BroadcastStart, BroadcastTo, Untested
<1>3. TypeOK'
  BY <1>1, <1>2 DEF BroadcastStart, TypeOK, Moves, Locals, sockets, setup,
                    history
<1>4. NothingAdded
  BY DEF BroadcastStart, NothingAdded
<1> QED
  BY <1>2, <1>3, <1>4, StepKeeps, NotRemoving
     DEF BroadcastStart, sockets, history

LEMMA EraseChannelKeeps ==
    ASSUME Inv, NEW e \in Executors, EraseChannel(e)
    PROVE  Inv'
<1>1. TypeOK
  BY DEF Inv
<1>2. Moves(e)
  BY <1>1, GotoMoves DEF EraseChannel, PCs, Untested, WhileOpen, OnKeys
<1>3. TypeOK' /\ NothingAdded
  BY <1>1, <1>2, DropKeeps
     DEF EraseChannel, TypeOK, Moves, Locals, sockets, setup, history
<1> QED
  BY <1>2, <1>3, StepKeeps, NotRemoving DEF EraseChannel, sockets, history

(* on_close and remove_client.                                              *)
LEMMA CloseIgnoredKeeps ==
    ASSUME Inv, NEW e \in Executors, CloseIgnored(e)
    PROVE  Inv'
<1>1. TypeOK
  BY DEF Inv
<1>2. Moves(e)
  BY <1>1, DoneMoves DEF CloseIgnored
<1>3. TypeOK'
  BY <1>1, <1>2 DEF CloseIgnored, TypeOK, Moves, Locals, sockets, setup,
                    registry, history
<1>4. StillRemoving(e)
  <2> SUFFICES ASSUME NEW ch \in Channels, NEW k \in Keys,
                      clients'[ch][k].con # NoConn,
                      Removing(ex[e], clients'[ch][k].con)
               PROVE  FALSE
    BY DEF StillRemoving
  <2>1. clients[ch][k].con # NoConn /\ clients[ch][k].con = ex[e].c
    BY DEF CloseIgnored, registry, Removing
  <2>2. ChannelOf[ex[e].c] = ch
    BY <2>1 DEF Inv, InPlace
  <2> QED
    BY <2>2, ConnsAssumption DEF CloseIgnored, Ch
<1> QED
  BY <1>2, <1>3, <1>4, StepKeeps, Untouched DEF CloseIgnored, sockets, history

LEMMA CloseFindKeeps ==
    ASSUME Inv, NEW e \in Executors, CloseFind(e)
    PROVE  Inv'
<1>1. TypeOK /\ Ch(e) \in Channels /\ Key(e) \in Keys
  BY InRange DEF Inv, CloseFind
<1>2. PICK back \in {"idle", "broadcastLoop", "presence", "presenceLoop"} :
         CallRemove(e, Key(e), back)
  BY DEF CloseFind
<1>4. Moves(e)
  BY <1>1, <1>2, RemoveMoves DEF CloseFind
<1>5. TypeOK' /\ NothingAdded
  BY <1>1, <1>4, FindKeeps
     DEF CloseFind, TypeOK, Moves, Locals, sockets, setup, history
<1>6. StillRemoving(e)
  <2>1. /\ ex'[e].pc = "rmLock" /\ ex'[e].at = KeyOf[ex[e].c]
        /\ ex'[e].c = ex[e].c
    BY <1>1, <1>2 DEF CallRemove, TypeOK, Key
  <2> QED
    BY <2>1 DEF StillRemoving, Removing
<1> QED
  BY <1>4, <1>5, <1>6, StepKeeps DEF CloseFind, sockets, history

LEMMA RemoveLockKeeps ==
    ASSUME Inv, NEW e \in Executors, RemoveLock(e)
    PROVE  Inv'
<1>1. TypeOK /\ Ch(e) \in Channels
  BY InRange DEF Inv, RemoveLock, Untested
<1>2. Moves(e)
  <2>1. ex[e].at \in Keys
    BY DEF RemoveLock, Inv, FromPeers, OnKeys
  <2> QED
    BY <1>1, <2>1, GotoMoves DEF RemoveLock, PCs, Untested, WhileOpen
<1>3. /\ NothingAdded
      /\ clients' \in [Channels -> [Keys -> Nodes \cup {Absent}]]
      /\ ref' \in [Executors -> BOOLEAN]
      /\ \A k \in Keys : k = ex[e].at => clients'[Ch(e)][k] = Absent
  BY <1>1, EraseKeeps DEF RemoveLock
<1>4. TypeOK'
  BY <1>1, <1>2, <1>3
     DEF RemoveLock, TypeOK, Moves, Locals, sockets, setup, history
<1>5. StillRemoving(e)
  <2> SUFFICES ASSUME NEW ch \in Channels, NEW k \in Keys,
                      clients'[ch][k].con # NoConn,
                      Removing(ex[e], clients'[ch][k].con)
               PROVE  FALSE
    BY DEF StillRemoving
  <2>1. clients'[ch][k].con = clients[ch][k].con
    BY <1>3 DEF NothingAdded
  <2>2. ch = Ch(e) /\ k = ex[e].at
    BY <2>1 DEF Inv, InPlace, Removing, RemoveLock, Ch
  <2> QED
    BY <1>3, <2>2 DEF Absent
<1> QED
  BY <1>2, <1>3, <1>4, <1>5, StepKeeps DEF RemoveLock, sockets, history

LEMMA RemoveDropKeeps ==
    ASSUME Inv, NEW e \in Executors, RemoveDrop(e)
    PROVE  Inv'
<1>1. TypeOK
  BY DEF Inv
<1>2. ex[e].back \in {"idle", "broadcastLoop", "presence", "presenceLoop"}
  BY <1>1 DEF TypeOK
<1>3. Moves(e)
  <2>1. CASE ex[e].back = "idle"
    BY <1>1, <2>1, DoneMoves DEF RemoveDrop
  <2>2. CASE ex[e].back # "idle"
    <3>1. /\ ex[e].back \in PCs \ Untested
          /\ ex[e].back \notin WhileOpen
      BY <1>2, <2>2 DEF PCs, Untested, WhileOpen
    <3> QED
      BY <1>1, <2>2, <3>1, GotoMoves
         DEF RemoveDrop, Untested, Inv, FromPeers, OnKeys
  <2> QED
    BY <2>1, <2>2
<1>4. /\ channels' \in SUBSET Channels
      /\ clients' \in [Channels -> [Keys -> Nodes \cup {Absent}]]
      /\ ref' \in [Executors -> BOOLEAN]
      /\ NothingAdded
  <2>1. CASE DropChannel(Ch(e))
    BY <1>1, <2>1, DropKeeps
  <2>2. CASE UNCHANGED <<registry, ref>>
    BY <1>1, <2>2, Untouched DEF TypeOK, registry
  <2> QED
    BY <2>1, <2>2 DEF RemoveDrop
<1>5. TypeOK'
  BY <1>1, <1>3, <1>4
     DEF RemoveDrop, TypeOK, Moves, Locals, sockets, setup, history
<1> QED
  BY <1>3, <1>4, <1>5, StepKeeps, NotRemoving DEF RemoveDrop, sockets, history

(* on_open enters a connection that has not passed.                         *)
LEMMA OpenClientKeeps ==
    ASSUME Inv, NEW e \in Executors, OpenClient(e)
    PROVE  Inv'
<1> DEFINE node == [con |-> ex[e].c, authenticated |-> FALSE,
                    name |-> IF clients[Ch(e)][Key(e)] = Absent THEN ""
                             ELSE clients[Ch(e)][Key(e)].name]
<1>1. /\ TypeOK /\ Ch(e) \in Channels /\ Key(e) \in Keys
      /\ ex[e].c \in Conns /\ ex[e].c \in Peers[m_tpool]
  BY InRange DEF Inv, OpenClient, Untested
<1>2. Moves(e) /\ ex'[e].pc = "idle"
  BY <1>1, DoneMoves DEF OpenClient, Done, TypeOK, Idle
<1>3. clients' = [clients EXCEPT ![Ch(e)][Key(e)] = node]
  BY DEF OpenClient, Put
<1>4. node \in Nodes /\ node.con = ex[e].c /\ ~node.authenticated
  <2>1. clients[Ch(e)][Key(e)] \in Nodes \cup {Absent}
    BY <1>1 DEF TypeOK
  <2>2. clients[Ch(e)][Key(e)] # Absent => clients[Ch(e)][Key(e)].name \in Names
    BY <2>1 DEF Nodes
  <2> QED
    BY <1>1, <2>2 DEF Nodes, Names
<1> HIDE DEF node
<1>5. /\ clients' \in [Channels -> [Keys -> Nodes \cup {Absent}]]
      /\ clients'[Ch(e)][Key(e)] = node
      /\ \A ch \in Channels, k \in Keys :
            ch # Ch(e) \/ k # Key(e) => clients'[ch][k] = clients[ch][k]
  BY <1>1, <1>3, <1>4 DEF TypeOK
<1>6. TypeOK'
  BY <1>1, <1>2, <1>5
     DEF OpenClient, Put, TypeOK, Moves, Locals, sockets, setup, history
<1> USE DEF Inv
<1>7. FromPeers'
  BY <1>2 DEF OpenClient, FromPeers, Moves, Ch, Untested, OnKeys, sockets, setup
<1>8. InPlace'
  <2> SUFFICES ASSUME NEW ch \in Channels, NEW k \in Keys,
                      clients'[ch][k].con # NoConn
               PROVE  /\ clients'[ch][k].con \in Peers[m_tpool]
                      /\ ChannelOf[clients'[ch][k].con] = ch
                      /\ KeyOf[clients'[ch][k].con] = k
    BY DEF OpenClient, InPlace, sockets, setup
  <2>1. CASE ch = Ch(e) /\ k = Key(e)
    BY <1>1, <1>4, <1>5, <2>1 DEF Ch, Key
  <2>2. CASE ch # Ch(e) \/ k # Key(e)
    <3>1. clients'[ch][k] = clients[ch][k]
      BY <1>5, <2>2
    <3> QED
      BY <3>1 DEF InPlace
  <2> QED
    BY <2>1, <2>2
<1>9. Inline'
  <2>1. CASE m_tpool
    BY <2>1 DEF OpenClient, Inline, sockets, setup
  <2>2. CASE ~m_tpool
    <3>1. e = Io
      BY <2>2 DEF OpenClient, Inline, Executors
    <3>2. conn[ex[e].c] = "open"
      BY <2>2, <3>1 DEF OpenClient, Inline, WhileOpen
    <3>3. \A w \in Workers : ex'[w].pc = "idle"
      BY <1>2, <2>2, <3>1, ThreadsAssumption DEF Inline, Moves, Executors
    <3>4. ASSUME NEW ch \in Channels, NEW k \in Keys,
                 clients'[ch][k].con # NoConn
          PROVE  conn[clients'[ch][k].con] = "open"
      <4>1. CASE ch = Ch(e) /\ k = Key(e)
        BY <1>4, <1>5, <3>2, <4>1
      <4>2. CASE ch # Ch(e) \/ k # Key(e)
        <5>1. clients'[ch][k] = clients[ch][k]
          BY <1>5, <4>2
        <5> QED
          BY <2>2, <3>1, <3>4, <5>1 DEF OpenClient, Inline, Removing
      <4> QED
        BY <4>1, <4>2
    <3> QED
      BY <1>2, <2>2, <3>1, <3>3, <3>4
         DEF OpenClient, Inline, WhileOpen, sockets, setup
  <2> QED
    BY <2>1, <2>2
<1>10. MarkedPassed'
  <2>1. ASSUME NEW ch \in Channels, NEW k \in Keys,
               clients'[ch][k].authenticated
        PROVE  clients'[ch][k] = clients[ch][k]
    <3>1. CASE ch = Ch(e) /\ k = Key(e)
      BY <1>4, <1>5, <2>1, <3>1
    <3>2. CASE ch # Ch(e) \/ k # Key(e)
      BY <1>5, <3>2
    <3> QED
      BY <3>1, <3>2
  <2> QED
    BY <2>1 DEF OpenClient, MarkedPassed, KeysDistinct, sockets, setup, history
<1>11. OnlyAcceptedReached'
  BY DEF OpenClient, OnlyAcceptedReached, ReceiverPassed, KeysDistinct,
         sockets, setup, history
<1> QED
  BY <1>6, <1>7, <1>8, <1>9, <1>10, <1>11

(* What a message that passed marks is the entry of its own connection, or  *)
(* one without a connection.                                                *)
LEMMA MarksOwn ==
    ASSUME Inv, NEW e \in Executors, ex[e].pc = "accept",
           m_tpool => KeysDistinct
    PROVE  clients[Ch(e)][Key(e)].con \in {NoConn, ex[e].c}
<1>1. /\ Ch(e) \in Channels /\ Key(e) \in Keys
      /\ ex[e].c \in Conns /\ ex[e].c \in Peers[m_tpool]
  BY InRange DEF Untested
<1> SUFFICES ASSUME clients[Ch(e)][Key(e)].con # NoConn
             PROVE  clients[Ch(e)][Key(e)].con = ex[e].c
  OBVIOUS
<1> DEFINE d == clients[Ch(e)][Key(e)].con
<1>2. d \in Peers[m_tpool] /\ KeyOf[d] = KeyOf[ex[e].c]
  BY <1>1 DEF Inv, InPlace, Key
<1>3. CASE m_tpool
  BY <1>1, <1>2, <1>3 DEF KeysDistinct
<1>4. CASE ~m_tpool
  <2>1. e = Io
    BY <1>4 DEF Inv, Inline, Executors
  <2>2. conn[ex[e].c] = "open" /\ conn[d] = "open"
    BY <1>1, <1>4, <2>1 DEF Inv, Inline, WhileOpen, Removing
  <2>3. d \in Conns
    BY <1>1 DEF Inv, TypeOK, Nodes, Absent
  <2> QED
    BY <1>1, <1>2, <1>4, <2>2, <2>3 DEF Inv, Inline
<1> QED
  BY <1>3, <1>4

LEMMA AcceptKeeps ==
    ASSUME Inv, NEW e \in Executors, Accept(e)
    PROVE  Inv'
<1> DEFINE old == clients[Ch(e)][Key(e)]
           node == clients'[Ch(e)][Key(e)]
<1>1. /\ TypeOK /\ Ch(e) \in Channels /\ Key(e) \in Keys
      /\ ex[e].c \in Conns
  BY InRange DEF Inv, Accept, Untested
<1>2. Moves(e)
  BY <1>1, GotoMoves DEF Accept, PCs, Untested, WhileOpen, OnKeys
<1>3. NameIn(ex[e].m) \in Names
  BY DEF NameIn, Names
<1>4. clients' \in [Channels -> [Keys -> Nodes \cup {Absent}]]
      /\ node.con = old.con
      /\ \A ch \in Channels, k \in Keys :
            ch # Ch(e) \/ k # Key(e) => clients'[ch][k] = clients[ch][k]
  <2> DEFINE new == [old EXCEPT !.authenticated = TRUE,
                                !.name = NameIn(ex[e].m)]
  <2>1. old \in Nodes \cup {Absent}
    BY <1>1 DEF TypeOK
  <2>2. new \in Nodes /\ new.con = old.con
    <3> DEFINE Either == [con : Conns \cup {NoConn}, authenticated : BOOLEAN,
                          name : Names \cup {"-"}]
    <3>1. Absent \in Either
      BY DEF Absent
    <3>2. Nodes \subseteq Either
      BY DEF Nodes
    <3>3. old \in Either
      BY <2>1, <3>1, <3>2
    <3> HIDE DEF old
    <3> QED
      BY <1>3, <3>3 DEF Nodes
  <2>3. clients' = [clients EXCEPT ![Ch(e)][Key(e)] = new]
    <3>1. clients \in [Channels -> [Keys -> Nodes \cup {Absent}]]
      BY <1>1 DEF TypeOK
    <3>2. clients' = [clients EXCEPT
                         ![Ch(e)][Key(e)].authenticated = TRUE,
                         ![Ch(e)][Key(e)].name = NameIn(ex[e].m)]
      BY DEF Accept
    <3> QED
      BY <1>1, <3>1, <3>2
  <2> HIDE DEF new
  <2> QED
    BY <1>1, <2>2, <2>3 DEF TypeOK
<1>5. accepted' = accepted \cup {ex[e].c}
  BY DEF Accept
<1>6. TypeOK'
  BY <1>1, <1>2, <1>4, <1>5
     DEF Accept, LastUse, TypeOK, Moves, Locals, sockets, setup
<1>7. \A ch \in Channels, k \in Keys :
         clients'[ch][k].con = clients[ch][k].con
  BY <1>4
<1> USE DEF Inv
<1>8. FromPeers'
  BY <1>2 DEF Accept, FromPeers, Moves, Ch, Untested, OnKeys, sockets, setup
<1>9. InPlace'
  <2>1. m_tpool' = m_tpool /\ InPlace
    BY DEF Accept, sockets, setup
  <2> QED
    BY ONLY <1>7, <2>1 DEF InPlace
<1>10. Inline'
  <2>1. CASE m_tpool
    BY <2>1 DEF Accept, Inline, sockets, setup
  <2>2. CASE ~m_tpool
    <3>1. e = Io
      BY <2>2 DEF Accept, Inline, Executors
    <3>2. \A w \in Workers : ex'[w].pc = "idle"
      BY <1>2, <2>2, <3>1, ThreadsAssumption DEF Inline, Moves, Executors
    <3>3. ex'[Io].pc = "presence"
      BY <1>1, <3>1 DEF Accept, Goto, TypeOK
    <3>4. \A ch \in Channels, k \in Keys :
             clients'[ch][k].con # NoConn => conn[clients'[ch][k].con] = "open"
      BY <1>7, <2>2, <3>1 DEF Accept, Inline, Removing
    <3> QED
      BY <2>2, <3>2, <3>3, <3>4 DEF Accept, Inline, WhileOpen, sockets, setup
  <2> QED
    BY <2>1, <2>2
<1>11. MarkedPassed'
  <2> SUFFICES ASSUME m_tpool => KeysDistinct, m_authenticator,
                      NEW ch \in Channels, NEW k \in Keys,
                      clients'[ch][k].authenticated
               PROVE  clients'[ch][k].con \in accepted' \cup {NoConn}
    BY DEF MarkedPassed, KeysDistinct, Accept, sockets, setup
  <2>1. CASE ch = Ch(e) /\ k = Key(e)
    BY <1>5, <1>7, <2>1, MarksOwn DEF Accept
  <2>2. CASE ch # Ch(e) \/ k # Key(e)
    <3>1. clients'[ch][k] = clients[ch][k]
      BY <1>4, <2>2
    <3> QED
      BY <1>5, <3>1 DEF MarkedPassed
  <2> QED
    BY <2>1, <2>2
<1>12. OnlyAcceptedReached'
  BY <1>5 DEF Accept, OnlyAcceptedReached, ReceiverPassed, KeysDistinct,
              sockets, setup
<1> QED
  BY <1>6, <1>8, <1>9, <1>10, <1>11, <1>12

-----------------------------------------------------------------------------
(* The io thread and the pool.                                              *)
LEMMA StartTaskKeeps ==
    ASSUME Inv, NEW w \in Executors, StartTask(w)
    PROVE  Inv'
<1> DEFINE t == Head(tasks)
           x == [Idle EXCEPT !.pc = t.kind, !.c = t.c, !.m = t.m]
<1>1. TypeOK /\ ex \in [Executors -> Locals]
  BY DEF Inv, TypeOK, Locals
<1>2. /\ tasks \in Seq(Tasks) /\ tasks # <<>>
      /\ tasks' = Tail(tasks)
  BY <1>1 DEF StartTask, TypeOK
<1>3. /\ t \in Tasks /\ t = tasks[1] /\ 1 \in DOMAIN tasks
      /\ tasks' \in Seq(Tasks)
      /\ \A i \in DOMAIN tasks' : i + 1 \in DOMAIN tasks
                                /\ tasks'[i] = tasks[i + 1]
  BY <1>2
<1> HIDE DEF t
<1>4. x \in Locals /\ x.pc \in {"open", "message", "close"} /\ x.c = t.c
  BY <1>3 DEF Locals, Idle, PCs, Tasks
<1>5. ex' = [ex EXCEPT ![w] = x]
  BY DEF StartTask, t
<1> HIDE DEF x
<1>6. /\ ex' \in [Executors -> Locals] /\ ex'[w] = x
      /\ \A f \in Executors : f # w => ex'[f] = ex[f]
  BY <1>1, <1>4, <1>5
<1> USE DEF Inv
<1>7. TypeOK'
  BY <1>1, <1>3, <1>6
     DEF StartTask, TypeOK, Locals, sockets, setup, registry, history
<1>8. FromPeers'
  <2>1. t.c \in Peers[m_tpool]
    BY <1>3 DEF FromPeers
  <2>2. \A i \in DOMAIN tasks' : tasks'[i].c \in Peers[m_tpool]
    BY <1>3 DEF FromPeers
  <2>3. \A e \in Executors : ex'[e].pc # "idle" => ex'[e].c \in Peers[m_tpool]
    BY <1>4, <1>6, <2>1 DEF FromPeers
  <2>4. \A e \in Executors :
           ex'[e].pc \notin Untested => ChannelOf[ex'[e].c] \in Channels
    BY <1>4, <1>6 DEF FromPeers, Untested
  <2>5. \A e \in Executors : ex'[e].pc \in OnKeys => ex'[e].at \in Keys
    BY <1>4, <1>6 DEF FromPeers, OnKeys
  <2> QED
    BY <2>2, <2>3, <2>4, <2>5 DEF StartTask, FromPeers, sockets, setup
<1>9. InPlace'
  BY DEF StartTask, InPlace, sockets, setup, registry
<1>10. m_tpool /\ Inline'
  BY <1>2 DEF StartTask, Inline, sockets, setup
<1>11. MarkedPassed' /\ OnlyAcceptedReached'
  BY DEF StartTask, MarkedPassed, OnlyAcceptedReached, ReceiverPassed,
         KeysDistinct, sockets, setup, registry, history
<1> QED
  BY <1>7, <1>8, <1>9, <1>10, <1>11

LEMMA FreeKeeps ==
    ASSUME Inv, NEW c \in Conns, Free(c)
    PROVE  Inv'
<1>1. TypeOK'
  BY DEF Inv, Free, TypeOK, setup, registry, history
<1>2. FromPeers' /\ InPlace' /\ Inline'
  BY DEF Inv, Free, FromPeers, InPlace, Inline, setup, registry
<1>3. MarkedPassed' /\ OnlyAcceptedReached'
  BY DEF Inv, Free, MarkedPassed, OnlyAcceptedReached, ReceiverPassed,
         KeysDistinct, setup, registry, history
<1> QED
  BY <1>1, <1>2, <1>3 DEF Inv

(* The io thread's calls: a task for the pool or, inline, its next handler. *)
LEMMA DispatchKeeps ==
    ASSUME TypeOK, NEW kind \in {"open", "message", "close"}, NEW c \in Conns,
           NEW m \in MessageKinds \cup {"none"}, Dispatch(kind, c, m)
    PROVE  /\ tasks' \in Seq(Tasks) /\ ex' \in [Executors -> Locals]
           /\ m_tpool => /\ ex' = ex
                         /\ \A i \in DOMAIN tasks' :
                               \/ tasks'[i].c = c
                               \/ i \in DOMAIN tasks /\ tasks'[i] = tasks[i]
           /\ ~m_tpool =>
                 /\ tasks' = tasks
                 /\ ex'[Io].pc = kind /\ ex'[Io].c = c
                 /\ \A f \in Executors : f # Io => ex'[f] = ex[f]
<1> DEFINE x == [Idle EXCEPT !.pc = kind, !.c = c, !.m = m]
           t == [kind |-> kind, c |-> c, m |-> m]
<1>1. ex \in [Executors -> Locals] /\ tasks \in Seq(Tasks)
  BY DEF TypeOK, Locals
<1>2. x \in Locals /\ x.pc = kind /\ x.c = c
  BY DEF Locals, Idle, PCs
<1>3. t \in Tasks /\ t.c = c
  BY DEF Tasks
<1>4. CASE m_tpool
  <2>1. tasks' = Append(tasks, t) /\ ex' = ex
    BY <1>4 DEF Dispatch
  <2> HIDE DEF t
  <2> QED
    BY <1>1, <1>3, <1>4, <2>1
<1>5. CASE ~m_tpool
  <2>1. ex' = [ex EXCEPT ![Io] = x] /\ tasks' = tasks
    BY <1>5 DEF Dispatch
  <2> HIDE DEF x
  <2> QED
    BY <1>1, <1>2, <1>5, <2>1 DEF Executors
<1> QED
  BY <1>4, <1>5

(* Events that make a connection open or closed, or leave it as it is, and  *)
(* give the io thread the handler, keep the invariant.                      *)
LEMMA IoKeeps ==
    ASSUME Inv, NEW c \in Conns, NEW st \in {"open", "closed"}, IoReady,
           conn' = [conn EXCEPT ![c] = st],
           NEW kind \in {"open", "message", "close"},
           NEW m \in MessageKinds \cup {"none"}, Dispatch(kind, c, m),
           c \in Peers[m_tpool],
           conn[c] = "new" => KeyFree(c),
           conn[c] # "closed",
           kind = "close" <=> st = "closed",
           sent' \in [Conns -> Nat],
           \A d \in Conns : sent'[d] <= MaxMessages[m_tpool][d],
           UNCHANGED <<setup, alive, registry, owner, ref, undefined, history>>
    PROVE  Inv'
<1> USE DEF Inv
<1>1. conn \in [Conns -> {"new", "open", "closed"}] /\ TypeOK
  BY DEF TypeOK
<1>2. /\ conn' \in [Conns -> {"new", "open", "closed"}] /\ conn'[c] = st
      /\ \A d \in Conns : d # c => conn'[d] = conn[d]
  BY <1>1
<1>3. TypeOK'
  BY <1>1, <1>2, DispatchKeeps
     DEF TypeOK, Locals, setup, registry, history
<1>4. FromPeers'
  <2>1. \A d \in Conns : conn'[d] # "new" => d \in Peers[m_tpool]
    BY <1>2 DEF FromPeers
  <2>2. \A i \in DOMAIN tasks' : tasks'[i].c \in Peers[m_tpool]
    BY <1>1, DispatchKeeps DEF FromPeers
  <2>3. \A e \in Executors :
           /\ ex'[e].pc # "idle" => ex'[e].c \in Peers[m_tpool]
           /\ ex'[e].pc \notin Untested => ChannelOf[ex'[e].c] \in Channels
           /\ ex'[e].pc \in OnKeys => ex'[e].at \in Keys
    <3>1. CASE m_tpool
      BY <1>1, <3>1, DispatchKeeps DEF FromPeers
    <3>2. CASE ~m_tpool
      BY <1>1, <3>2, DispatchKeeps DEF FromPeers, Untested, OnKeys
    <3> QED
      BY <3>1, <3>2
  <2> QED
    BY <2>1, <2>2, <2>3 DEF FromPeers, setup
<1>5. InPlace'
  BY DEF InPlace, setup, registry
<1>6. Inline'
  <2>1. CASE m_tpool
    BY <2>1 DEF Inline, setup
  <2>2. CASE ~m_tpool
    <3>1. /\ tasks' = <<>>
          /\ ex'[Io].pc = kind /\ ex'[Io].c = c
          /\ \A w \in Workers : ex'[w].pc = "idle"
      BY <1>1, <2>2, ThreadsAssumption, DispatchKeeps DEF Inline, Executors
    <3>2. \A d, b \in Conns :
             conn'[d] = "open" /\ conn'[b] = "open" /\ KeyOf[d] = KeyOf[b]
                 => d = b
      BY <1>1, <1>2, <2>2 DEF Inline, KeyFree
    <3>3. kind \in WhileOpen => conn'[c] = "open"
      BY <1>2 DEF WhileOpen
    <3>4. ASSUME NEW ch \in Channels, NEW k \in Keys,
                 clients[ch][k].con # NoConn
          PROVE  \/ conn'[clients[ch][k].con] = "open"
                 \/ Removing(ex'[Io], clients[ch][k].con)
      <4> DEFINE d == clients[ch][k].con
      <4>1. d \in Conns
        BY <1>1, <3>4 DEF TypeOK, Nodes, Absent
      <4>2. conn[d] = "open"
        BY <2>2, <3>4 DEF Inline, Removing, IoReady
      <4>3. CASE d = c
        BY <1>2, <3>1, <4>3 DEF Removing
      <4>4. CASE d # c
        BY <1>2, <4>1, <4>2, <4>4
      <4> QED
        BY <4>3, <4>4
    <3> QED
      BY <2>2, <3>1, <3>2, <3>3, <3>4 DEF Inline, setup, registry
  <2> QED
    BY <2>1, <2>2
<1>7. MarkedPassed' /\ OnlyAcceptedReached'
  BY DEF MarkedPassed, OnlyAcceptedReached, ReceiverPassed, KeysDistinct,
         setup, registry, history
<1> QED
  BY <1>3, <1>4, <1>5, <1>6, <1>7

LEMMA IoOpenKeeps ==
    ASSUME Inv, NEW c \in Conns, IoOpen(c)
    PROVE  Inv'
<1>1. /\ sent' \in [Conns -> Nat]
      /\ \A d \in Conns : sent'[d] <= MaxMessages[m_tpool][d]
  BY DEF Inv, TypeOK, IoOpen
<1> QED
  BY <1>1, IoKeeps DEF IoOpen

LEMMA IoCloseKeeps ==
    ASSUME Inv, NEW c \in Conns, IoClose(c)
    PROVE  Inv'
<1>1. /\ sent' \in [Conns -> Nat]
      /\ \A d \in Conns : sent'[d] <= MaxMessages[m_tpool][d]
  BY DEF Inv, TypeOK, IoClose
<1>2. c \in Peers[m_tpool]
  BY DEF Inv, FromPeers, IoClose
<1> QED
  BY <1>1, <1>2, IoKeeps DEF IoClose

LEMMA IoMessageKeeps ==
    ASSUME Inv, NEW c \in Conns, NEW m \in Messages[m_tpool][c],
           IoMessage(c, m)
    PROVE  Inv'
<1>1. m_tpool \in BOOLEAN /\ m \in MessageKinds
  BY PoolsAssumption, MessagesAssumption DEF Inv, TypeOK
<1>2. c \in Peers[m_tpool]
  BY DEF Inv, FromPeers, IoMessage
<1>3. /\ conn' = [conn EXCEPT ![c] = "open"]
      /\ conn[c] = "open"
  BY DEF IoMessage, Inv, TypeOK
<1>4. /\ sent' \in [Conns -> Nat]
      /\ \A d \in Conns : sent'[d] <= MaxMessages[m_tpool][d]
  <2>1. MaxMessages[m_tpool] \in [Conns -> Nat] /\ sent \in [Conns -> Nat]
    BY <1>1, BoundAssumption DEF Inv, TypeOK
  <2>2. sent' = [sent EXCEPT ![c] = sent[c] + 1]
        /\ sent[c] < MaxMessages[m_tpool][c]
    BY DEF IoMessage
  <2>3. \A d \in Conns : sent[d] <= MaxMessages[m_tpool][d]
    BY DEF Inv, TypeOK
  <2> QED
    BY <2>1, <2>2, <2>3
<1> QED
  BY <1>1, <1>2, <1>3, <1>4, IoKeeps DEF IoMessage

(* on_error runs inline: remove_client for the connection that failed.      *)
LEMMA IoErrorKeeps ==
    ASSUME Inv, NEW c \in Conns, IoError(c)
    PROVE  Inv'
<1> USE DEF Inv
<1> DEFINE x == [Idle EXCEPT !.pc = "rmLock", !.c = c, !.at = KeyOf[c]]
<1>1. /\ TypeOK /\ ex \in [Executors -> Locals] /\ Io \in Executors
      /\ conn \in [Conns -> {"new", "open", "closed"}]
  BY DEF TypeOK, Locals, Executors
<1>2. /\ conn' \in [Conns -> {"new", "open", "closed"}]
      /\ \A d \in Conns : d # c => conn'[d] = conn[d]
      /\ \A d \in Conns : conn'[d] = "open" => conn[d] = "open"
  BY <1>1 DEF IoError
<1>3. /\ x \in Locals /\ x.pc = "rmLock" /\ x.c = c /\ x.at = KeyOf[c]
      /\ KeyOf[c] \in Keys
  BY ConnsAssumption DEF Locals, Idle, PCs
<1>4. c \in Peers[m_tpool]
  BY DEF IoError, FromPeers
<1>5. /\ ex' \in [Executors -> Locals]
      /\ \A f \in Executors : f # Io => ex'[f] = ex[f]
      /\ \/ ChannelOf[c] = EmptyName /\ ex' = ex
         \/ ChannelOf[c] \in Channels /\ ex'[Io] = x
  <2>1. CASE ChannelOf[c] = EmptyName
    BY <1>1, <2>1 DEF IoError
  <2>2. CASE ChannelOf[c] # EmptyName
    <3>1. ex' = [ex EXCEPT ![Io] = x] /\ ChannelOf[c] \in Channels
      BY <2>2, ConnsAssumption DEF IoError
    <3> HIDE DEF x
    <3> QED
      BY <1>1, <1>3, <3>1
  <2> QED
    BY <2>1, <2>2
<1> HIDE DEF x
<1>6. TypeOK'
  BY <1>1, <1>2, <1>5 DEF IoError, TypeOK, Locals, setup, registry, history
<1>7. FromPeers'
  <2>1. \A d \in Conns : conn'[d] # "new" => d \in Peers[m_tpool]
    BY <1>2, <1>4 DEF FromPeers
  <2>2. ASSUME NEW e \in Executors
        PROVE  /\ ex'[e].pc # "idle" => ex'[e].c \in Peers[m_tpool]
               /\ ex'[e].pc \notin Untested => ChannelOf[ex'[e].c] \in Channels
               /\ ex'[e].pc \in OnKeys => ex'[e].at \in Keys
    <3>1. CASE ex'[e] = ex[e]
      BY <3>1 DEF FromPeers
    <3>2. CASE e = Io /\ ex'[Io] = x /\ ChannelOf[c] \in Channels
      BY <1>3, <1>4, <3>2
    <3> QED
      BY <1>5, <3>1, <3>2
  <2> QED
    BY <2>1, <2>2 DEF FromPeers, IoError, setup
<1>8. InPlace'
  BY DEF IoError, InPlace, setup, registry
<1>9. Inline'
  <2>1. CASE m_tpool
    BY <2>1 DEF IoError, Inline, setup
  <2>2. CASE ~m_tpool
    <3>1. \A w \in Workers : ex'[w].pc = "idle"
      BY <1>5, <2>2, ThreadsAssumption DEF Inline, Executors
    <3>2. ex'[Io].pc \notin WhileOpen
      BY <1>3, <1>5 DEF IoError, IoReady, WhileOpen
    <3>3. ASSUME NEW ch \in Channels, NEW k \in Keys,
                 clients[ch][k].con # NoConn
          PROVE  \/ conn'[clients[ch][k].con] = "open"
                 \/ Removing(ex'[Io], clients[ch][k].con)
      <4> DEFINE d == clients[ch][k].con
      <4>1. /\ d \in Conns /\ conn[d] = "open" /\ ChannelOf[d] \in Channels
        BY <1>1, <2>2, <3>3
           DEF TypeOK, Nodes, Absent, Inline, InPlace, Removing, IoError, IoReady
      <4>2. CASE d = c
        BY <1>3, <1>5, <4>1, <4>2, ConnsAssumption DEF Removing
      <4>3. CASE d # c
        BY <1>2, <4>1, <4>3
      <4> QED
        BY <4>2, <4>3
    <3> QED
      BY <1>2, <2>2, <3>1, <3>2, <3>3 DEF IoError, Inline, setup, registry
  <2> QED
    BY <2>1, <2>2
<1>10. MarkedPassed' /\ OnlyAcceptedReached'
  BY DEF IoError, MarkedPassed, OnlyAcceptedReached, ReceiverPassed,
         KeysDistinct, setup, registry, history
<1> QED
  BY <1>6, <1>7, <1>8, <1>9, <1>10

-----------------------------------------------------------------------------
LEMMA InvInit == Init => Inv
<1> SUFFICES ASSUME Init PROVE Inv
  OBVIOUS
<1>1. m_tpool \in BOOLEAN /\ MaxMessages[m_tpool] \in [Conns -> Nat]
  BY PoolsAssumption, BoundAssumption DEF Init
<1>2. Idle \in Locals /\ ex = [e \in Executors |-> Idle] /\ Idle.pc = "idle"
  BY DEF Locals, Idle, PCs, Init
<1>3. TypeOK
  <2>1. undefined \in BOOLEAN /\ owner \in Executors \cup {Nobody}
    BY DEF Init
  <2>2. ex \in [Executors -> Locals]
    BY <1>2
  <2>3. /\ sent \in [Conns -> Nat]
        /\ \A c \in Conns : sent[c] <= MaxMessages[m_tpool][c]
    BY <1>1 DEF Init
  <2>4. /\ clients \in [Channels -> [Keys -> Nodes \cup {Absent}]]
        /\ ref \in [Executors -> BOOLEAN]
        /\ others \in [Conns -> SUBSET Keys]
        /\ tasks \in Seq(Tasks)
    BY DEF Init
  <2> QED
    BY <2>1, <2>2, <2>3, <2>4 DEF Init, TypeOK, Locals
<1>4. FromPeers
  BY <1>2 DEF Init, FromPeers, Untested, OnKeys
<1>5. InPlace /\ MarkedPassed
  BY DEF Init, InPlace, MarkedPassed, Absent
<1>6. Inline
  <2>1. Io \in Executors /\ Workers \subseteq Executors
    BY DEF Executors
  <2> QED
    BY <1>2, <2>1 DEF Init, Inline, Absent, WhileOpen
<1>7. OnlyAcceptedReached
  BY DEF Init, OnlyAcceptedReached, ReceiverPassed
<1> QED
  BY <1>3, <1>4, <1>5, <1>6, <1>7 DEF Inv

(* Nothing else changes when an erased node is used.                        *)
LEMMA UsesErasedKeeps ==
    ASSUME Inv, NEW e \in Executors, UsesErased(e)
    PROVE  Inv'
<1>1. TypeOK' /\ FromPeers' /\ InPlace' /\ Inline'
  BY DEF UsesErased, Inv, TypeOK, FromPeers, InPlace, Inline, sockets, setup,
         registry, history
<1>2. MarkedPassed' /\ OnlyAcceptedReached'
  BY DEF UsesErased, Inv, MarkedPassed, OnlyAcceptedReached, KeysDistinct,
         sockets, setup, registry, history
<1> QED
  BY <1>1, <1>2 DEF Inv

LEMMA HandlerKeeps ==
    ASSUME Inv, NEW e \in Executors, Handler(e)
    PROVE  Inv'
<1>1. CASE Opening(e)
  BY <1>1, QuietSteps, OpenLockKeeps, OpenClientKeeps DEF Opening
<1>2. CASE Message(e)
  BY <1>2, QuietSteps, MessageFindKeeps, RejectKeeps, AcceptKeeps,
     MessageDispatchKeeps DEF Message
<1>3. CASE Broadcast(e)
  BY <1>3, QuietSteps, LoopSteps, SendSteps, BroadcastStartKeeps DEF Broadcast
<1>4. CASE Cleanup(e)
  BY <1>4, QuietSteps, LoopSteps, EraseChannelKeeps DEF Cleanup
<1>5. CASE Closing(e)
  BY <1>5, CloseIgnoredKeeps, CloseFindKeeps DEF Closing
<1>6. CASE Remove(e)
  BY <1>6, RemoveLockKeeps, RemoveDropKeeps DEF Remove
<1>7. CASE Presence(e)
  BY <1>7, QuietSteps, LoopSteps, SendSteps DEF Presence
<1> QED
  BY <1>1, <1>2, <1>3, <1>4, <1>5, <1>6, <1>7, UsesErasedKeeps DEF Handler

LEMMA InvNext ==
    ASSUME Inv, [Next]_vars
    PROVE  Inv'
<1>1. CASE \E c \in Conns : IoEvent(c) \/ Free(c)
  BY <1>1, IoOpenKeeps, IoCloseKeeps, IoErrorKeeps, IoMessageKeeps, FreeKeeps
     DEF IoEvent
<1>2. CASE \E e \in Executors : StartTask(e) \/ Handler(e)
  BY <1>2, StartTaskKeeps, HandlerKeeps
<1>3. CASE UNCHANGED vars
  <2>1. TypeOK' /\ FromPeers' /\ InPlace' /\ Inline'
    BY <1>3 DEF Inv, vars, TypeOK, FromPeers, InPlace, Inline
  <2>2. MarkedPassed' /\ OnlyAcceptedReached'
    BY <1>3 DEF Inv, vars, MarkedPassed, OnlyAcceptedReached, ReceiverPassed,
                KeysDistinct
  <2> QED
    BY <2>1, <2>2 DEF Inv
<1> QED
  BY <1>1, <1>2, <1>3 DEF Next, Runs

(* However the handlers interleave, on the pool or inline, what is marked    *)
(* as accepted in the registry is of a connection that was accepted.        *)
THEOREM Invariance == Spec => []Inv
<1>1. Init => Inv
  BY InvInit
<1>2. Inv /\ [Next]_vars => Inv'
  BY InvNext
<1> QED
  BY <1>1, <1>2, PTL DEF Spec

(* Every variable keeps its type: what the handlers do to the registry and  *)
(* the locals of the executors.                                             *)
THEOREM TypeCorrect == Spec => []TypeOK
<1>1. Inv => TypeOK
  BY DEF Inv
<1> QED
  BY <1>1, Invariance, PTL

(* Whatever the peers and the pool do: only connections that passed the     *)
(* authenticator are sent what others broadcast, if the handlers run inline *)
(* or no two peers come from the same address and port.                     *)
THEOREM OnlyAcceptedReachedCorrect == Spec => []OnlyAcceptedReached
<1>1. Inv => OnlyAcceptedReached
  BY DEF Inv
<1> QED
  BY <1>1, Invariance, PTL

-----------------------------------------------------------------------------
(* Without a pool: the registry, the references and the presence lists.     *)
(* The io thread is the only one that works.                                *)

(* c has been entered by on_open, or is about to be.                        *)
Entering(c) == ex[Io].c = c /\ ex[Io].pc \in {"open", "openClient"}
Member(c) == Usable(c) /\ conn[c] = "open" /\ c \notin kicked

(* Open connections that were not turned away are listed, and as            *)
(* authenticated once they were accepted.                                   *)
MembersListed ==
    \A c \in Conns :
        Member(c) /\ ~Entering(c)
            => Entry(c).con = c /\ (c \in accepted => Entry(c).authenticated)

(* What was accepted had been entered before.                               *)
EnteredBefore ==
    /\ \A c \in accepted : conn[c] # "new" /\ ~Entering(c)
    /\ \A c \in Conns : c \notin alive => conn[c] = "closed"

(* The io thread is about to remove the entry of key k in channel ch.       *)
AboutToRemove(ch, k) ==
    /\ ChannelOf[ex[Io].c] = ch
    /\ \/ ex[Io].pc = "rmLock" /\ ex[Io].at = k
       \/ ex[Io].pc = "close" /\ KeyOf[ex[Io].c] = k

(* An entry stands for an open connection, one that was turned away         *)
(* included, or is about to be removed.                                     *)
EntriesOpen ==
    \A ch \in Channels, k \in Keys :
        clients[ch][k] # Absent =>
            /\ ch \in channels
            /\ \/ \E c \in Conns :
                     conn[c] = "open" /\ ChannelOf[c] = ch /\ KeyOf[c] = k
               \/ AboutToRemove(ch, k)

(* A channel has an open connection, or will be dropped at the end of       *)
(* remove_client.                                                           *)
ChannelsOpen ==
    \A ch \in channels :
        \/ \E c \in Conns : conn[c] = "open" /\ ChannelOf[c] = ch
        \/ /\ ex[Io].pc \in {"close", "rmLock", "rmDrop"}
           /\ ChannelOf[ex[Io].c] = ch

(* What the handler of the io thread has found out is still so, and no loop *)
(* has lost the node on which it stands.                                    *)
StillSo ==
    LET x == ex[Io] IN
    /\ x.pc \in {"check", "accept", "dispatch"} =>
           ref[Io] /\ clients[ChannelOf[x.c]][KeyOf[x.c]] # Absent
    /\ x.pc = "reject" => x.c \in kicked \/ x.c \notin accepted
    /\ x.pc = "broadcast" => conn[x.c] = "open"
    /\ x.pc \in {"broadcastLoop", "presenceLoop"} =>
           ref[Io] /\ x.at \in Present(ChannelOf[x.c])
    /\ x.pc \in {"cleanupLoop", "eraseChannel"} =>
           ref[Io] /\ x.at \in channels
    /\ x.pc = "eraseChannel" => Present(x.at) = {}
    /\ x.pc = "close" =>
           \A d \in Conns : conn[d] = "open" => KeyOf[d] # KeyOf[x.c]
    /\ x.pc \in {"rmLock", "rmDrop"} => x.back \in {"idle", "presence"}
    /\ x.pc = "rmLock" =>
           \A d \in Conns : Member(d) /\ ChannelOf[d] = ChannelOf[x.c]
                               => KeyOf[d] # x.at

(* The io thread has still to send c the list of its channel.               *)
Announcing(c) ==
    /\ ChannelOf[ex[Io].c] = ChannelOf[c]
    /\ \/ ex[Io].pc = "presence"
       \/ /\ ex[Io].pc = "presenceLoop"
          /\ KeyOf[c] \in ex[Io].todo \cup {ex[Io].at}

Presented ==
    \A c \in Conns :
        Usable(c) /\ Entry(c).con = c /\ Entry(c).authenticated =>
            \/ Named(ChannelOf[c]) \ {KeyOf[c]} \subseteq others[c]
            \/ Announcing(c)

RegistryInv ==
    /\ MembersListed /\ EnteredBefore /\ EntriesOpen /\ ChannelsOpen
    /\ StillSo /\ Presented

(* A loop is about to erase the node on which it stands, or has done so:    *)
(* there is no way back from here.                                          *)
Astray ==
    LET x == ex[Io] IN
    \/ x.pc \in {"broadcastLoop", "presenceLoop", "cleanupLoop"} /\ ~ref[Io]
    \/ /\ x.pc = "rmLock" \/ (x.pc = "rmDrop" /\ ~ref[Io])
       /\ x.back \in {"broadcastLoop", "presenceLoop"}

(* The parts above hold until a loop goes astray, which it does only after  *)
(* a client was turned away, and only then an erased node is used.          *)
SoloInv ==
    /\ RegistryInv \/ (Astray /\ kicked # {})
    /\ undefined => Astray

(* What the proofs of the steps start from.                                 *)
Solo == Inv /\ ~m_tpool /\ RegistryInv

LEMMA OnlyIo ==
    ASSUME Inv, ~m_tpool, NEW e \in Executors, ex[e].pc # "idle"
    PROVE  e = Io
  BY DEF Inv, Inline, Executors

LEMMA IoTypes ==
    ASSUME Inv, ~m_tpool
    PROVE  /\ Io \in Executors /\ ex \in [Executors -> Locals]
           /\ ex[Io] \in Locals
           /\ ex[Io].pc # "idle" => ex[Io].c \in Conns
           /\ ex[Io].pc \notin Untested => ChannelOf[ex[Io].c] \in Channels
           /\ ex[Io].pc \in WhileOpen => conn[ex[Io].c] = "open"
           /\ \A c \in Conns : Usable(c) => ChannelOf[c] \in Channels
           /\ EmptyName \notin Channels
           /\ \A c \in Conns : KeyOf[c] \in Keys
           /\ \A c, d \in Conns :
                 conn[c] = "open" /\ conn[d] = "open" /\ KeyOf[c] = KeyOf[d]
                     => c = d
<1>1. Io \in Executors /\ ex \in [Executors -> Locals]
  BY DEF Inv, TypeOK, Executors, Locals
<1>2. ex[Io].pc # "idle" => ex[Io].c \in Conns
  BY <1>1, PoolsAssumption, BoundAssumption DEF Inv, TypeOK, FromPeers
<1>3. ex[Io].pc \notin Untested => ChannelOf[ex[Io].c] \in Channels
  BY <1>1 DEF Inv, FromPeers
<1> QED
  BY <1>1, <1>2, <1>3, ConnsAssumption DEF Inv, Inline, Usable

(* A listed connection is open, unless the io thread is about to remove it. *)
LEMMA ListedOpen ==
    ASSUME Inv, ~m_tpool, NEW ch \in Channels, NEW k \in Keys,
           clients[ch][k].con # NoConn,
           ex[Io].pc \notin {"close", "rmLock"}
    PROVE  /\ clients[ch][k].con \in Conns
           /\ conn[clients[ch][k].con] = "open"
           /\ ChannelOf[clients[ch][k].con] = ch
           /\ KeyOf[clients[ch][k].con] = k
  BY PoolsAssumption, BoundAssumption
  DEF Inv, TypeOK, Inline, InPlace, Removing

LEMMA NodeTypes ==
    ASSUME Inv
    PROVE  /\ clients \in [Channels -> [Keys -> Nodes \cup {Absent}]]
           /\ NoConn \notin Conns
           /\ Absent \notin Nodes /\ NewNode \in Nodes
           /\ Absent.con = NoConn /\ ~Absent.authenticated
           /\ NewNode.con = NoConn /\ ~NewNode.authenticated
           /\ NewNode.authenticated = Absent.authenticated
  BY ConnsAssumption DEF Inv, TypeOK, Absent, NewNode, Nodes, Names

(* The io thread goes on in its handler and changes nothing else.           *)
LEMMA GoesOn ==
    ASSUME Solo, ex[Io].pc # "idle",
           ex[Io].pc \notin {"openClient", "rmLock", "rmDrop"},
           ex[Io].pc \in {"open", "close"} => Ch(Io) = EmptyName,
           ex'[Io].pc \notin {"open", "openClient"},
           UNCHANGED <<sockets, registry, accepted, kicked>>,
           StillSo', Presented'
    PROVE  RegistryInv'
<1> USE DEF Solo, RegistryInv, sockets, registry
<1>1. MembersListed'
  BY DEF MembersListed, Entering, Member, Usable, Entry, Ch
<1>2. EnteredBefore'
  BY DEF EnteredBefore, Entering
<1>3. EntriesOpen'
  BY IoTypes DEF EntriesOpen, AboutToRemove, Ch
<1>4. ChannelsOpen'
  <2>1. channels \in SUBSET Channels
    BY DEF Inv, TypeOK
  <2> QED
    BY <2>1, IoTypes DEF ChannelsOpen, Ch
<1> QED
  BY <1>1, <1>2, <1>3, <1>4

(* Only the loop over a presence list has something to announce.            *)
LEMMA NotAnnouncing ==
    ASSUME Solo, ex[Io].pc \notin {"presence", "presenceLoop"},
           UNCHANGED <<registry, others>>
    PROVE  Presented'
  BY DEF Solo, RegistryInv, Presented, Announcing, Usable, Entry, Named, Present,
         registry

(* The control of the io thread.                                            *)
LEMMA IoControl ==
    ASSUME Inv, ~m_tpool
    PROVE  /\ Done(Io) => ex'[Io] = Idle /\ ex'[Io].pc = "idle"
           /\ \A pc : Goto(Io, pc) =>
                 /\ ex'[Io].pc = pc /\ ex'[Io].c = ex[Io].c
                 /\ ex'[Io].todo = ex[Io].todo /\ ex'[Io].at = ex[Io].at
                 /\ ex'[Io].back = ex[Io].back
           /\ \A k, back : CallRemove(Io, k, back) =>
                 /\ ex'[Io].pc = "rmLock" /\ ex'[Io].c = ex[Io].c
                 /\ ex'[Io].at = k /\ ex'[Io].back = back
<1>1. /\ Io \in Executors /\ ex \in [Executors -> Locals] /\ ex[Io] \in Locals
  BY IoTypes
<1>2. Done(Io) => ex'[Io] = Idle /\ ex'[Io].pc = "idle"
  BY <1>1 DEF Done, Idle
<1>3. ASSUME NEW pc, Goto(Io, pc)
      PROVE  /\ ex'[Io].pc = pc /\ ex'[Io].c = ex[Io].c
             /\ ex'[Io].todo = ex[Io].todo /\ ex'[Io].at = ex[Io].at
             /\ ex'[Io].back = ex[Io].back
  BY <1>1, <1>3 DEF Goto, Locals
<1>4. ASSUME NEW k, NEW back, CallRemove(Io, k, back)
      PROVE  /\ ex'[Io].pc = "rmLock" /\ ex'[Io].c = ex[Io].c
             /\ ex'[Io].at = k /\ ex'[Io].back = back
  BY <1>1, <1>4 DEF CallRemove, Locals
<1> QED
  BY <1>2, <1>3, <1>4

(* A loop goes to one of these nodes, or its handler to what follows.       *)
LEMMA SteppedTo ==
    ASSUME Solo, ex[Io].pc # "idle",
           NEW loop \in {"broadcastLoop", "cleanupLoop", "presenceLoop"},
           NEW nodes, NEW following \in {Idle, ToCleanup(Io)},
           StepTo(Io, loop, nodes, following),
           UNCHANGED clients,
           loop = "cleanupLoop" => nodes \subseteq channels',
           loop # "cleanupLoop" => nodes \subseteq Present(Ch(Io))
    PROVE  /\ ex'[Io].pc \in {loop, "idle", "cleanup"}
           /\ \A k \in nodes :
                 /\ ex'[Io].pc = loop /\ ex'[Io].c = ex[Io].c
                 /\ k \in ex'[Io].todo \cup {ex'[Io].at}
           /\ StillSo'
<1>1. /\ Io \in Executors /\ ex \in [Executors -> Locals]
      /\ ref \in [Executors -> BOOLEAN]
  BY IoTypes DEF Solo, Inv, TypeOK
<1>2. CASE nodes = {}
  <2>1. ex' = [ex EXCEPT ![Io] = following]
    BY <1>2 DEF StepTo
  <2>2. following.pc \in {"idle", "cleanup"}
    <3>1. Idle.pc = "idle" /\ ToCleanup(Io).pc = "cleanup"
      BY DEF Idle, ToCleanup
    <3> QED
      BY <3>1
  <2>3. ex'[Io].pc \in {"idle", "cleanup"}
    BY <1>1, <2>1, <2>2
  <2> QED
    BY <1>2, <2>3 DEF StillSo
<1>3. CASE nodes # {}
  <2>1. PICK n \in nodes :
           /\ ex' = [ex EXCEPT ![Io].pc = loop, ![Io].at = n,
                               ![Io].todo = nodes \ {n}]
           /\ ref' = [ref EXCEPT ![Io] = TRUE]
    BY <1>3 DEF StepTo
  <2>2. /\ ex'[Io].pc = loop /\ ex'[Io].c = ex[Io].c /\ ex'[Io].at = n
        /\ ex'[Io].todo = nodes \ {n} /\ ref'[Io]
    BY <1>1, <2>1 DEF Locals
  <2>3. StillSo'
    BY <2>2 DEF StillSo, Ch, Present
  <2> QED
    BY <2>2, <2>3
<1> QED
  BY <1>2, <1>3

(* Ends of a handler and steps that need no more than the above.            *)
LEMMA SoloQuiet ==
    ASSUME Solo,
           \/ OpenRefused(Io) \/ MessageIgnored(Io) \/ CloseIgnored(Io)
           \/ MessageDispatch(Io)
    PROVE  RegistryInv'
<1> USE DEF Solo
<1>1. ex[Io] \in Locals
  BY IoTypes
<1>2. /\ ex[Io].pc \in {"open", "message", "close", "dispatch"}
      /\ ex[Io].pc \in {"open", "close"} => Ch(Io) = EmptyName
      /\ UNCHANGED <<sockets, registry, history>>
  BY DEF OpenRefused, MessageIgnored, CloseIgnored, MessageDispatch
<1>3. /\ ex'[Io].pc \in {"idle", "broadcast"}
      /\ ex'[Io].pc = "broadcast" => ex[Io].pc = "dispatch" /\ ex'[Io].c = ex[Io].c
  <2>1. CASE OpenRefused(Io) \/ MessageIgnored(Io) \/ CloseIgnored(Io)
    BY <2>1, IoControl DEF OpenRefused, MessageIgnored, CloseIgnored
  <2>2. CASE MessageDispatch(Io)
    BY <2>2, IoControl DEF MessageDispatch
  <2> QED
    BY <2>1, <2>2
<1>4. StillSo'
  BY <1>2, <1>3, IoTypes DEF StillSo, WhileOpen, sockets
<1>5. Presented'
  BY <1>2, NotAnnouncing DEF history
<1> QED
  BY <1>2, <1>3, <1>4, <1>5, GoesOn DEF history

(* The steps of the loops that go to the next node, but for the lists.      *)
LEMMA SoloLoops ==
    ASSUME Solo,
           \/ BroadcastSkip(Io) \/ BroadcastSend(Io)
           \/ CleanupStart(Io) \/ CleanupSkip(Io)
    PROVE  RegistryInv'
<1> USE DEF Solo
<1>1. /\ ex[Io].pc \in {"broadcastLoop", "cleanup", "cleanupLoop"}
      /\ UNCHANGED <<sockets, registry, accepted, kicked, others>>
  BY DEF BroadcastSkip, BroadcastSend, CleanupStart, CleanupSkip, history
<1>2. /\ ex'[Io].pc \in {"broadcastLoop", "cleanupLoop", "idle", "cleanup"}
      /\ StillSo'
  <2>1. CASE BroadcastSkip(Io) \/ BroadcastSend(Io)
    <3>1. BroadcastTo(Io, ex[Io].todo \cap Present(Ch(Io)))
      BY <2>1 DEF BroadcastSkip, BroadcastSend, BroadcastNext
    <3> QED
      BY <1>1, <3>1, SteppedTo DEF BroadcastTo, registry
  <2>2. CASE CleanupStart(Io) \/ CleanupSkip(Io)
    <3>1. PICK nodes \in SUBSET channels : CleanupTo(Io, nodes)
      BY <2>2 DEF CleanupStart, CleanupSkip
    <3> QED
      BY <1>1, <3>1, SteppedTo DEF CleanupTo, registry
  <2> QED
    BY <2>1, <2>2
<1>3. Presented'
  BY <1>1, NotAnnouncing
<1> QED
  BY <1>1, <1>2, <1>3, GoesOn

(* An accepted member is marked, so its next message is not rejected.       *)
LEMMA SoloMessageCheck ==
    ASSUME Solo, MessageCheck(Io)
    PROVE  RegistryInv'
<1> USE DEF Solo
<1> DEFINE c == ex[Io].c
           n == clients[ChannelOf[c]][KeyOf[c]]
<1>1. /\ ex[Io].pc = "check"
      /\ UNCHANGED <<sockets, registry, accepted, kicked, others, ref>>
  BY DEF MessageCheck, history
<1>2. /\ c \in Conns /\ conn[c] = "open" /\ ChannelOf[c] \in Channels
      /\ Usable(c)
  BY <1>1, IoTypes DEF Untested, WhileOpen, Usable
<1>3. ref[Io] /\ n # Absent
  BY <1>1 DEF RegistryInv, StillSo
<1>4. /\ ex'[Io].pc \in {"reject", "accept", "dispatch"} /\ ex'[Io].c = c
      /\ ex'[Io].pc = "reject" => ~n.authenticated
  <2>2. IF m_authenticator /\ ~n.authenticated
        THEN Goto(Io, IF NameIn(ex[Io].m) = "" THEN "reject" ELSE "accept")
        ELSE Goto(Io, "dispatch")
    BY DEF MessageCheck, Ch, Key
  <2>3. CASE m_authenticator /\ ~n.authenticated
    <3>1. PICK pc \in {"reject", "accept"} : Goto(Io, pc)
      BY <2>2, <2>3
    <3> QED
      BY <2>3, <3>1, IoControl
  <2>4. CASE ~(m_authenticator /\ ~n.authenticated)
    <3>1. Goto(Io, "dispatch")
      BY <2>2, <2>4
    <3> QED
      BY <3>1, IoControl
  <2> QED
    BY <2>3, <2>4
<1>5. ASSUME ~n.authenticated PROVE c \in kicked \/ c \notin accepted
  BY <1>1, <1>2, <1>5 DEF RegistryInv, MembersListed, Entering, Member, Entry
<1>6. StillSo'
  <2>1. /\ clients'[ChannelOf[c]][KeyOf[c]] = n /\ ref'[Io]
        /\ c \in kicked' \/ c \notin accepted' \/ n.authenticated
    BY <1>1, <1>3, <1>5 DEF registry
  <2> HIDE DEF n
  <2> QED
    BY <1>3, <1>4, <2>1 DEF StillSo
<1>7. Presented'
  BY <1>1, NotAnnouncing
<1> QED
  BY <1>1, <1>4, <1>6, <1>7, GoesOn

LEMMA SoloCleanupTest ==
    ASSUME Solo, CleanupTest(Io)
    PROVE  RegistryInv'
<1> USE DEF Solo
<1>1. /\ ex[Io].pc = "cleanupLoop" /\ Present(ex[Io].at) = {}
      /\ UNCHANGED <<sockets, registry, accepted, kicked, others, ref>>
  BY DEF CleanupTest, history
<1>2. ex'[Io].pc = "eraseChannel" /\ ex'[Io].at = ex[Io].at
  BY IoControl DEF CleanupTest
<1>3. StillSo'
  BY <1>1, <1>2 DEF RegistryInv, StillSo, Present, registry
<1>4. Presented'
  BY <1>1, NotAnnouncing
<1> QED
  BY <1>1, <1>2, <1>3, <1>4, GoesOn

(* A loop that meets an entry without a living connection, or a channel     *)
(* without entries, goes astray: one client at least was turned away.       *)
LEMMA SomeoneKicked ==
    ASSUME Solo,
           \/ BroadcastRemove(Io) \/ PresenceRemove(Io) \/ EraseChannel(Io)
    PROVE  kicked # {}
<1> USE DEF Solo
<1>1. CASE BroadcastRemove(Io) \/ PresenceRemove(Io)
  <2> DEFINE ch == ChannelOf[ex[Io].c]
             k == ex[Io].at
  <2>1. /\ ex[Io].pc \in {"broadcastLoop", "presenceLoop"}
        /\ ~Alive(clients[ch][k].con)
    BY <1>1 DEF BroadcastRemove, PresenceRemove, Ch
  <2>2. k \in Present(ch) /\ ch \in Channels
    BY <2>1, IoTypes DEF RegistryInv, StillSo, Untested
  <2>3. PICK c \in Conns : conn[c] = "open" /\ ChannelOf[c] = ch /\ KeyOf[c] = k
    BY <2>1, <2>2 DEF RegistryInv, EntriesOpen, AboutToRemove, Present
  <2>4. ASSUME c \notin kicked PROVE FALSE
    <3>1. Entry(c).con = c
      BY <2>1, <2>2, <2>3, <2>4, IoTypes
      DEF RegistryInv, MembersListed, Member, Usable, Entering
    <3> QED
      BY <2>1, <2>3, <3>1 DEF RegistryInv, EnteredBefore, Alive, Entry
  <2> QED
    BY <2>4
<1>2. CASE EraseChannel(Io)
  <2> DEFINE ch == ex[Io].at
  <2>1. ex[Io].pc = "eraseChannel"
    BY <1>2 DEF EraseChannel
  <2>2. ch \in channels /\ ch \in Channels /\ Present(ch) = {}
    BY <2>1 DEF RegistryInv, StillSo, Inv, TypeOK
  <2>3. PICK c \in Conns : conn[c] = "open" /\ ChannelOf[c] = ch
    BY <2>1, <2>2 DEF RegistryInv, ChannelsOpen
  <2>4. ASSUME c \notin kicked PROVE FALSE
    <3>1. Entry(c).con = c
      BY <2>1, <2>2, <2>3, <2>4, IoTypes
      DEF RegistryInv, MembersListed, Member, Usable, Entering
    <3> QED
      BY <2>2, <2>3, <3>1, IoTypes, NodeTypes DEF Entry, Present
  <2> QED
    BY <2>4
<1> QED
  BY <1>1, <1>2

LEMMA GoesAstray ==
    ASSUME Solo,
           \/ BroadcastRemove(Io) \/ PresenceRemove(Io) \/ EraseChannel(Io)
    PROVE  Astray' /\ UNCHANGED kicked
<1> USE DEF Solo
<1>1. CASE BroadcastRemove(Io) \/ PresenceRemove(Io)
  <2>1. PICK back \in {"broadcastLoop", "presenceLoop"} :
           CallRemove(Io, ex[Io].at, back)
    BY <1>1 DEF BroadcastRemove, PresenceRemove
  <2> QED
    BY <1>1, <2>1, IoControl
    DEF Astray, BroadcastRemove, PresenceRemove, history
<1>2. CASE EraseChannel(Io)
  <2>1. ex[Io].pc = "eraseChannel" /\ DropChannel(ex[Io].at)
    BY <1>2 DEF EraseChannel
  <2>2. ~ref'[Io]
    BY <2>1, IoTypes DEF DropChannel, OnChannel, InCleanup
  <2>3. ex'[Io].pc = "cleanupLoop"
    BY <1>2, IoControl DEF EraseChannel
  <2> QED
    BY <1>2, <2>2, <2>3 DEF Astray, EraseChannel, history
<1> QED
  BY <1>1, <1>2

(* A client whose entry is marked is among those that are named.            *)
LEMMA ListedThere ==
    ASSUME Solo, NEW c \in Conns, Usable(c), Entry(c).con = c
    PROVE  /\ ChannelOf[c] \in Channels /\ KeyOf[c] \in Keys
           /\ KeyOf[c] \in Present(ChannelOf[c])
           /\ ChannelOf[c] \in channels
           /\ Entry(c).authenticated => KeyOf[c] \in Named(ChannelOf[c])
<1>1. ChannelOf[c] \in Channels /\ KeyOf[c] \in Keys
  BY IoTypes DEF Solo
<1>2. Entry(c) # Absent
  BY NodeTypes DEF Solo
<1> QED
  BY <1>1, <1>2 DEF Solo, RegistryInv, EntriesOpen, Present, Named, Entry

LEMMA SoloPresenceStart ==
    ASSUME Solo, PresenceStart(Io)
    PROVE  RegistryInv'
<1> USE DEF Solo
<1> DEFINE nodes == IF Ch(Io) \in channels THEN Present(Ch(Io)) ELSE {}
<1>1. /\ ex[Io].pc = "presence" /\ PresenceTo(Io, nodes)
      /\ UNCHANGED <<sockets, registry, accepted, kicked, others>>
  BY DEF PresenceStart, history
<1>2. nodes \subseteq Present(Ch(Io))
  OBVIOUS
<1>3. Ch(Io) \in channels => nodes = Present(Ch(Io))
  OBVIOUS
<1> HIDE DEF nodes
<1>4. /\ ex'[Io].pc \in {"presenceLoop", "idle", "cleanup"}
      /\ \A k \in nodes :
            /\ ex'[Io].pc = "presenceLoop" /\ ex'[Io].c = ex[Io].c
            /\ k \in ex'[Io].todo \cup {ex'[Io].at}
      /\ StillSo'
  BY <1>1, <1>2, SteppedTo DEF PresenceTo, registry
<1>5. ASSUME NEW c \in Conns, Usable(c), Entry(c).con = c, Entry(c).authenticated,
             Announcing(c)
      PROVE  Announcing(c)'
  BY <1>1, <1>3, <1>4, <1>5, ListedThere DEF Announcing, Ch
<1>6. Presented'
  BY <1>1, <1>5 DEF RegistryInv, Presented, Usable, Entry, Named, Present, registry
<1> QED
  BY <1>1, <1>4, <1>6, GoesOn

(* The loop over a presence list gets to every client that is named.        *)
LEMMA SteppedOn ==
    ASSUME Solo, ex[Io].pc = "presenceLoop", PresenceNext(Io), UNCHANGED registry
    PROVE  /\ ex'[Io].pc \in {"presenceLoop", "idle", "cleanup"}
           /\ StillSo'
           /\ \A c \in Conns :
                 /\ Usable(c) /\ Entry(c).con = c /\ Entry(c).authenticated
                 /\ Announcing(c) /\ KeyOf[c] # ex[Io].at
                 => Announcing(c)'
<1> DEFINE nodes == ex[Io].todo \cap Present(Ch(Io))
<1>1. /\ ex'[Io].pc \in {"presenceLoop", "idle", "cleanup"}
      /\ \A k \in nodes :
            /\ ex'[Io].pc = "presenceLoop" /\ ex'[Io].c = ex[Io].c
            /\ k \in ex'[Io].todo \cup {ex'[Io].at}
      /\ StillSo'
  BY SteppedTo DEF PresenceNext, PresenceTo, registry
<1>2. ASSUME NEW c \in Conns, Usable(c), Entry(c).con = c,
             Announcing(c), KeyOf[c] # ex[Io].at
      PROVE  Announcing(c)'
  <2>1. KeyOf[c] \in nodes /\ ChannelOf[ex[Io].c] = ChannelOf[c]
    BY <1>2, ListedThere DEF Announcing, Ch
  <2> QED
    BY <1>1, <2>1 DEF Announcing
<1> QED
  BY <1>1, <1>2

LEMMA SoloPresenceSkip ==
    ASSUME Solo, PresenceSkip(Io)
    PROVE  RegistryInv'
<1> USE DEF Solo
<1>1. /\ ex[Io].pc = "presenceLoop" /\ PresenceNext(Io)
      /\ ex[Io].at \notin Named(Ch(Io))
      /\ UNCHANGED <<sockets, registry, accepted, kicked, others>>
  BY DEF PresenceSkip, history
<1>2. ASSUME NEW c \in Conns, Usable(c), Entry(c).con = c, Entry(c).authenticated,
             Announcing(c)
      PROVE  Announcing(c)'
  <2>1. KeyOf[c] # ex[Io].at
    BY <1>1, <1>2, ListedThere DEF Announcing, Ch
  <2> QED
    BY <1>1, <1>2, <2>1, SteppedOn
<1>3. Presented'
  BY <1>1, <1>2 DEF RegistryInv, Presented, Usable, Entry, Named, Present, registry
<1> QED
  BY <1>1, <1>3, SteppedOn, GoesOn

LEMMA SoloPresenceSend ==
    ASSUME Solo, PresenceSend(Io)
    PROVE  RegistryInv'
<1> USE DEF Solo
<1> DEFINE k == ex[Io].at
           con == clients[Ch(Io)][k].con
<1>1. /\ ex[Io].pc = "presenceLoop" /\ PresenceNext(Io)
      /\ k \in Named(Ch(Io)) /\ Alive(con)
      /\ others' = [others EXCEPT ![con] = Named(Ch(Io)) \ {k}]
      /\ UNCHANGED <<sockets, registry, accepted, kicked>>
  BY DEF PresenceSend
<1>2. con \in Conns /\ Ch(Io) \in Channels /\ k \in Keys
  BY <1>1, IoTypes DEF Alive, Ch, Inv, TypeOK, Untested, Named, Present
<1>3. ChannelOf[con] = Ch(Io) /\ KeyOf[con] = k
  BY <1>2, ConnsAssumption DEF Inv, InPlace
<1>4. others'[con] = Named(Ch(Io)) \ {k}
      /\ \A c \in Conns : c # con => others'[c] = others[c]
  BY <1>1, <1>2 DEF Inv, TypeOK
<1>5. ASSUME NEW c \in Conns, Usable(c), Entry(c).con = c, Entry(c).authenticated
      PROVE  \/ Named(ChannelOf[c]) \ {KeyOf[c]} \subseteq others'[c]
             \/ Announcing(c)'
  <2>1. CASE c = con
    BY <2>1, <1>3, <1>4
  <2>2. CASE c # con
    <3>1. CASE Named(ChannelOf[c]) \ {KeyOf[c]} \subseteq others[c]
      BY <2>2, <3>1, <1>4
    <3>2. CASE Announcing(c)
      <4>1. KeyOf[c] # k
        BY <1>1, <1>5, <2>2, <3>2 DEF Announcing, Entry, Ch
      <4> QED
        BY <1>1, <1>5, <3>2, <4>1, SteppedOn
    <3> QED
      BY <1>5, <3>1, <3>2 DEF RegistryInv, Presented
  <2> QED
    BY <2>1, <2>2
<1>6. Presented'
  BY <1>1, <1>5 DEF Presented, Usable, Entry, Named, Present, registry
<1> QED
  BY <1>1, <1>6, SteppedOn, GoesOn

LEMMA SoloOpenLock ==
    ASSUME Solo, OpenLock(Io)
    PROVE  RegistryInv'
<1> USE DEF Solo
<1>1. /\ ex[Io].pc = "open" /\ Ch(Io) # EmptyName
      /\ channels' = channels \cup {Ch(Io)}
      /\ UNCHANGED <<sockets, clients, accepted, kicked, others>>
  BY DEF OpenLock, history
<1>2. ex'[Io].pc = "openClient" /\ ex'[Io].c = ex[Io].c
  BY IoControl DEF OpenLock
<1>3. conn[ex[Io].c] = "open" /\ ex[Io].c \in Conns
  BY <1>1, IoTypes DEF WhileOpen
<1>4. MembersListed' /\ EnteredBefore'
  BY <1>1, <1>2 DEF RegistryInv, MembersListed, EnteredBefore, Entering, Member,
     Usable, Entry, sockets
<1>5. EntriesOpen'
  BY <1>1 DEF RegistryInv, EntriesOpen, AboutToRemove, sockets
<1>6. ChannelsOpen'
  BY <1>1, <1>3 DEF RegistryInv, ChannelsOpen, Ch, sockets
<1>7. StillSo'
  BY <1>2 DEF StillSo
<1>8. Presented'
  BY <1>1 DEF RegistryInv, Presented, Announcing, Usable, Entry, Named, Present
<1> QED
  BY <1>4, <1>5, <1>6, <1>7, <1>8 DEF RegistryInv

LEMMA SoloBroadcastStart ==
    ASSUME Solo, BroadcastStart(Io)
    PROVE  RegistryInv'
<1> USE DEF Solo
<1>1. /\ ex[Io].pc = "broadcast"
      /\ channels' = channels \cup {Ch(Io)}
      /\ UNCHANGED <<sockets, clients, accepted, kicked, others>>
  BY DEF BroadcastStart, history
<1>2. ex'[Io].pc \in {"broadcastLoop", "idle", "cleanup"} /\ StillSo'
  BY <1>1, SteppedTo DEF BroadcastStart, BroadcastTo
<1>3. conn[ex[Io].c] = "open" /\ ex[Io].c \in Conns
  BY <1>1, IoTypes DEF RegistryInv, StillSo
<1>4. MembersListed' /\ EnteredBefore'
  BY <1>1, <1>2 DEF RegistryInv, MembersListed, EnteredBefore, Entering, Member,
     Usable, Entry, sockets
<1>5. EntriesOpen'
  BY <1>1 DEF RegistryInv, EntriesOpen, AboutToRemove, sockets
<1>6. ChannelsOpen'
  BY <1>1, <1>3 DEF RegistryInv, ChannelsOpen, Ch, sockets
<1>8. Presented'
  BY <1>1 DEF RegistryInv, Presented, Announcing, Usable, Entry, Named, Present
<1> QED
  BY <1>2, <1>4, <1>5, <1>6, <1>8 DEF RegistryInv

(* What Put leaves in the registry.                                         *)
LEMMA PutHere ==
    ASSUME Inv, NEW ch \in Channels, NEW k \in Keys, NEW node, Put(ch, k, node)
    PROVE  /\ channels' = channels \cup {ch}
           /\ clients'[ch][k] = node
           /\ \A h \in Channels, j \in Keys :
                 (h # ch \/ j # k) => clients'[h][j] = clients[h][j]
  BY NodeTypes DEF Put

LEMMA SoloOpenClient ==
    ASSUME Solo, OpenClient(Io)
    PROVE  RegistryInv'
<1> USE DEF Solo
<1> DEFINE c == ex[Io].c
           old == clients[ChannelOf[c]][KeyOf[c]]
           node == [con |-> c, authenticated |-> FALSE,
                    name |-> IF old = Absent THEN "" ELSE old.name]
<1>1. /\ ex[Io].pc = "openClient"
      /\ UNCHANGED <<sockets, accepted, kicked, others>>
  BY DEF OpenClient, history
<1>2. /\ c \in Conns /\ conn[c] = "open" /\ ChannelOf[c] \in Channels
      /\ Usable(c) /\ KeyOf[c] \in Keys
  BY <1>1, IoTypes DEF Untested, WhileOpen, Usable
<1>3. /\ Put(ChannelOf[c], KeyOf[c], node)
      /\ node.con = c /\ ~node.authenticated
  BY DEF OpenClient, Ch, Key
<1> HIDE DEF node, old
<1>4. /\ channels' = channels \cup {ChannelOf[c]}
      /\ clients'[ChannelOf[c]][KeyOf[c]] = node
      /\ \A h \in Channels, j \in Keys :
            (h # ChannelOf[c] \/ j # KeyOf[c]) => clients'[h][j] = clients[h][j]
  BY <1>2, <1>3, PutHere
<1>5. ex'[Io].pc = "idle"
  BY IoControl DEF OpenClient
<1>6. c \notin accepted
  BY <1>1 DEF RegistryInv, EnteredBefore, Entering
<1>7. MembersListed'
  <2> SUFFICES ASSUME NEW d \in Conns, Member(d)'
               PROVE  /\ Entry(d)'.con = d
                      /\ d \in accepted => Entry(d)'.authenticated
    BY <1>1 DEF MembersListed
  <2>1. Member(d) /\ ChannelOf[d] \in Channels /\ KeyOf[d] \in Keys
    BY <1>1, IoTypes DEF Member, Usable, sockets
  <2>2. CASE d = c
    BY <1>3, <1>4, <1>6, <2>2 DEF Entry
  <2>3. CASE d # c
    <3>1. KeyOf[d] # KeyOf[c]
      BY <1>2, <2>1, <2>3, IoTypes DEF Member
    <3>2. Entry(d)' = Entry(d)
      BY <1>4, <2>1, <3>1 DEF Entry
    <3> QED
      BY <2>1, <2>3, <3>2 DEF RegistryInv, MembersListed, Entering
  <2> QED
    BY <2>2, <2>3
<1>8. EnteredBefore'
  BY <1>1, <1>5 DEF RegistryInv, EnteredBefore, Entering, sockets
<1>9. EntriesOpen'
  BY <1>1, <1>2, <1>4 DEF RegistryInv, EntriesOpen, AboutToRemove, sockets
<1>10. ChannelsOpen'
  BY <1>1, <1>2, <1>4 DEF RegistryInv, ChannelsOpen, sockets
<1>11. StillSo'
  BY <1>5 DEF StillSo
<1>12. Presented'
  <2> SUFFICES ASSUME NEW d \in Conns, Usable(d), Entry(d)'.con = d,
                      Entry(d)'.authenticated
               PROVE  (Named(ChannelOf[d]) \ {KeyOf[d]})' \subseteq others'[d]
    BY DEF Presented, Usable
  <2>1. ChannelOf[d] \in Channels /\ KeyOf[d] \in Keys
    BY IoTypes
  <2>2. Entry(d)' = Entry(d)
    BY <1>3, <1>4, <2>1 DEF Entry
  <2>3. Named(ChannelOf[d])' \subseteq Named(ChannelOf[d])
    BY <1>3, <1>4, <2>1 DEF Named, Present
  <2>4. Named(ChannelOf[d]) \ {KeyOf[d]} \subseteq others[d]
    BY <1>1, <2>2 DEF RegistryInv, Presented, Announcing
  <2> QED
    BY <1>1, <2>3, <2>4
<1> QED
  BY <1>7, <1>8, <1>9, <1>10, <1>11, <1>12 DEF RegistryInv

(* No announcement is missing after a step that marks nobody.               *)
LEMMA KeepsPresented ==
    ASSUME Solo,
           \A ch \in Channels, k \in Keys :
              clients'[ch][k].authenticated =>
                 /\ clients[ch][k].authenticated
                 /\ clients'[ch][k].con = clients[ch][k].con,
           UNCHANGED others,
           \A c \in Conns : Announcing(c) => Announcing(c)'
    PROVE  Presented'
<1> USE DEF Solo
<1> SUFFICES ASSUME NEW c \in Conns, Usable(c), Entry(c)'.con = c,
                    Entry(c)'.authenticated, ~Announcing(c)'
             PROVE  (Named(ChannelOf[c]) \ {KeyOf[c]})' \subseteq others'[c]
  BY DEF Presented, Usable
<1>1. ChannelOf[c] \in Channels /\ KeyOf[c] \in Keys
  BY IoTypes
<1>2. Entry(c).con = c /\ Entry(c).authenticated
  BY <1>1 DEF Entry
<1>3. Named(ChannelOf[c])' \subseteq Named(ChannelOf[c])
  BY <1>1, NodeTypes DEF Named, Present
<1>4. Named(ChannelOf[c]) \ {KeyOf[c]} \subseteq others[c]
  BY <1>2 DEF RegistryInv, Presented
<1> QED
  BY <1>3, <1>4

(* operator[] creates at most an entry without a connection.                *)
LEMMA FoundHere ==
    ASSUME Inv, NEW ch \in Channels, NEW k \in Keys, Find(ch, k)
    PROVE  /\ channels' = channels \cup {ch}
           /\ clients'[ch][k] # Absent
           /\ \A h \in Channels, j \in Keys :
                 /\ clients'[h][j].con = clients[h][j].con
                 /\ clients'[h][j].authenticated = clients[h][j].authenticated
                 /\ (h # ch \/ j # k) => clients'[h][j] = clients[h][j]
<1> DEFINE node == IF clients[ch][k] = Absent THEN NewNode ELSE clients[ch][k]
<1>1. Put(ch, k, node)
  BY DEF Find
<1>2. /\ node # Absent /\ node.con = clients[ch][k].con
      /\ node.authenticated = clients[ch][k].authenticated
  BY NodeTypes
<1> HIDE DEF node
<1> QED
  BY <1>1, <1>2, PutHere

LEMMA ErasedHere ==
    ASSUME Inv, NEW ch \in Channels, NEW ks, EraseNodes(ch, ks)
    PROVE  \A h \in Channels, j \in Keys :
              clients'[h][j] = IF h = ch /\ j \in ks THEN Absent
                                                     ELSE clients[h][j]
  BY NodeTypes DEF EraseNodes

LEMMA SoloMessageFind ==
    ASSUME Solo, MessageFind(Io)
    PROVE  RegistryInv'
<1> USE DEF Solo
<1> DEFINE c == ex[Io].c
<1>1. /\ ex[Io].pc = "message" /\ Ch(Io) # EmptyName
      /\ UNCHANGED <<sockets, accepted, kicked, others>>
      /\ ref' = [ref EXCEPT ![Io] = TRUE]
  BY DEF MessageFind, history
<1>2. /\ c \in Conns /\ conn[c] = "open" /\ Usable(c)
      /\ ChannelOf[c] \in Channels /\ KeyOf[c] \in Keys
  BY <1>1, IoTypes DEF WhileOpen, Usable, Ch
<1>3. ex'[Io].pc = "check" /\ ex'[Io].c = c
  BY IoControl DEF MessageFind
<1>4. Find(ChannelOf[c], KeyOf[c])
  BY DEF MessageFind, Ch, Key
<1>5. /\ channels' = channels \cup {ChannelOf[c]}
      /\ clients'[ChannelOf[c]][KeyOf[c]] # Absent
      /\ \A h \in Channels, j \in Keys :
            /\ clients'[h][j].con = clients[h][j].con
            /\ clients'[h][j].authenticated = clients[h][j].authenticated
            /\ (h # ChannelOf[c] \/ j # KeyOf[c])
                  => clients'[h][j] = clients[h][j]
  BY <1>2, <1>4, FoundHere
<1>6. MembersListed'
  BY <1>1, <1>3, <1>5, IoTypes
  DEF RegistryInv, MembersListed, Entering, Member, Usable, Entry, sockets
<1>7. EnteredBefore'
  BY <1>1, <1>3 DEF RegistryInv, EnteredBefore, Entering, sockets
<1>8. EntriesOpen'
  BY <1>1, <1>2, <1>5 DEF RegistryInv, EntriesOpen, AboutToRemove, sockets
<1>9. ChannelsOpen'
  BY <1>1, <1>2, <1>5 DEF RegistryInv, ChannelsOpen, sockets
<1>10. ref'[Io]
  BY <1>1, IoTypes DEF Inv, TypeOK
<1>11. StillSo'
  BY <1>3, <1>5, <1>10 DEF StillSo
<1>12. Presented'
  BY <1>1, <1>5, KeepsPresented DEF Announcing
<1> QED
  BY <1>6, <1>7, <1>8, <1>9, <1>11, <1>12 DEF RegistryInv

LEMMA SoloReject ==
    ASSUME Solo, Reject(Io)
    PROVE  RegistryInv'
<1> USE DEF Solo
<1> DEFINE c == ex[Io].c
<1>1. /\ ex[Io].pc = "reject"
      /\ channels' = channels \cup {ChannelOf[c]}
      /\ EraseNodes(ChannelOf[c], {KeyOf[c]})
      /\ kicked' = kicked \cup {c}
      /\ UNCHANGED <<sockets, accepted, others>>
  BY DEF Reject, Ch, Key
<1>2. /\ c \in Conns /\ conn[c] = "open"
      /\ ChannelOf[c] \in Channels /\ KeyOf[c] \in Keys
  BY <1>1, IoTypes DEF WhileOpen, Untested
<1>3. ex'[Io].pc = "idle"
  BY IoControl DEF Reject
<1>4. \A h \in Channels, j \in Keys :
         clients'[h][j] = IF h = ChannelOf[c] /\ j = KeyOf[c] THEN Absent
                                                              ELSE clients[h][j]
  BY <1>1, <1>2, ErasedHere
<1>5. MembersListed'
  <2> SUFFICES ASSUME NEW d \in Conns, Member(d)'
               PROVE  /\ Entry(d)'.con = d
                      /\ d \in accepted => Entry(d)'.authenticated
    BY <1>1 DEF MembersListed
  <2>1. /\ Member(d) /\ d # c
        /\ ChannelOf[d] \in Channels /\ KeyOf[d] \in Keys
    BY <1>1, IoTypes DEF Member, Usable, sockets
  <2>2. KeyOf[d] # KeyOf[c]
    BY <1>2, <2>1, IoTypes DEF Member
  <2>3. Entry(d)' = Entry(d)
    BY <1>4, <2>1, <2>2 DEF Entry
  <2> QED
    BY <1>1, <2>1, <2>3 DEF RegistryInv, MembersListed, Entering
<1>6. EnteredBefore'
  BY <1>1, <1>3 DEF RegistryInv, EnteredBefore, Entering, sockets
<1>7. EntriesOpen'
  BY <1>1, <1>4 DEF RegistryInv, EntriesOpen, AboutToRemove, sockets
<1>8. ChannelsOpen'
  BY <1>1, <1>2 DEF RegistryInv, ChannelsOpen, sockets
<1>9. StillSo'
  BY <1>3 DEF StillSo
<1>10. Presented'
  BY <1>1, <1>4, NodeTypes, KeepsPresented DEF Announcing
<1> QED
  BY <1>5, <1>6, <1>7, <1>8, <1>9, <1>10 DEF RegistryInv

LEMMA SoloAccept ==
    ASSUME Solo, Accept(Io)
    PROVE  RegistryInv'
<1> USE DEF Solo
<1> DEFINE c == ex[Io].c
           n == clients[ChannelOf[c]][KeyOf[c]]
           new == [n EXCEPT !.authenticated = TRUE, !.name = NameIn(ex[Io].m)]
<1>1. /\ ex[Io].pc = "accept"
      /\ accepted' = accepted \cup {c}
      /\ UNCHANGED <<sockets, channels, kicked, others>>
  BY DEF Accept
<1>2. /\ c \in Conns /\ conn[c] = "open" /\ Usable(c)
      /\ ChannelOf[c] \in Channels /\ KeyOf[c] \in Keys
  BY <1>1, IoTypes DEF WhileOpen, Untested, Usable
<1>3. ex'[Io].pc = "presence" /\ ex'[Io].c = c
  BY IoControl DEF Accept
<1>4. ref[Io] /\ n # Absent
  BY <1>1 DEF RegistryInv, StillSo
<1>5. n \in Nodes
  BY <1>2, <1>4, NodeTypes
<1>6. new.con = n.con /\ new.authenticated /\ new # Absent
  BY <1>5, NodeTypes DEF Nodes
<1>7. \A h \in Channels, j \in Keys :
         clients'[h][j] = IF h = ChannelOf[c] /\ j = KeyOf[c] THEN new
                                                              ELSE clients[h][j]
  <2>1. clients' = [clients EXCEPT ![ChannelOf[c]][KeyOf[c]] = new]
    BY <1>2, <1>4, NodeTypes DEF Accept, Ch, Key
  <2> HIDE DEF new
  <2> QED
    BY <1>2, <2>1, NodeTypes
<1> HIDE DEF new
<1>8. MembersListed'
  <2> SUFFICES ASSUME NEW d \in Conns, Member(d)'
               PROVE  /\ Entry(d)'.con = d
                      /\ d \in accepted' => Entry(d)'.authenticated
    BY DEF MembersListed
  <2>1. /\ Member(d) /\ ~Entering(d)
        /\ ChannelOf[d] \in Channels /\ KeyOf[d] \in Keys
    BY <1>1, IoTypes DEF Member, Usable, Entering, sockets
  <2>2. Entry(d).con = d /\ (d \in accepted => Entry(d).authenticated)
    BY <2>1 DEF RegistryInv, MembersListed
  <2> QED
    BY <1>1, <1>6, <1>7, <2>1, <2>2 DEF Entry
<1>9. EnteredBefore'
  BY <1>1, <1>2, <1>3 DEF RegistryInv, EnteredBefore, Entering, sockets
<1>10. EntriesOpen'
  BY <1>1, <1>2, <1>4, <1>7 DEF RegistryInv, EntriesOpen, AboutToRemove, sockets
<1>11. ChannelsOpen'
  BY <1>1 DEF RegistryInv, ChannelsOpen, sockets
<1>12. StillSo'
  BY <1>3 DEF StillSo
<1>13. Presented'
  <2> SUFFICES ASSUME NEW d \in Conns, Usable(d), Entry(d)'.con = d,
                      Entry(d)'.authenticated, ~Announcing(d)'
               PROVE  (Named(ChannelOf[d]) \ {KeyOf[d]})' \subseteq others'[d]
    BY DEF Presented, Usable
  <2>1. /\ ChannelOf[d] \in Channels /\ KeyOf[d] \in Keys
        /\ ChannelOf[d] # ChannelOf[c]
    BY <1>3, IoTypes DEF Announcing
  <2>2. Entry(d)' = Entry(d) /\ Named(ChannelOf[d])' = Named(ChannelOf[d])
    BY <1>7, <2>1 DEF Entry, Named, Present
  <2> QED
    BY <1>1, <2>1, <2>2 DEF RegistryInv, Presented, Announcing
<1> QED
  BY <1>8, <1>9, <1>10, <1>11, <1>12, <1>13 DEF RegistryInv

LEMMA SoloCloseFind ==
    ASSUME Solo, CloseFind(Io)
    PROVE  RegistryInv'
<1> USE DEF Solo
<1> DEFINE c == ex[Io].c
<1>1. /\ ex[Io].pc = "close" /\ Ch(Io) # EmptyName
      /\ UNCHANGED <<sockets, accepted, kicked, others>>
  BY DEF CloseFind, history
<1>2. /\ c \in Conns /\ ChannelOf[c] \in Channels /\ KeyOf[c] \in Keys
  BY <1>1, IoTypes DEF Usable, Ch
<1>3. /\ ex'[Io].pc = "rmLock" /\ ex'[Io].c = c /\ ex'[Io].at = KeyOf[c]
      /\ ex'[Io].back \in {"idle", "presence"}
  BY IoControl DEF CloseFind, Key
<1>4. Find(ChannelOf[c], KeyOf[c])
  BY DEF CloseFind, Ch, Key
<1>5. /\ channels' = channels \cup {ChannelOf[c]}
      /\ \A h \in Channels, j \in Keys :
            /\ clients'[h][j].con = clients[h][j].con
            /\ clients'[h][j].authenticated = clients[h][j].authenticated
            /\ (h # ChannelOf[c] \/ j # KeyOf[c])
                  => clients'[h][j] = clients[h][j]
  BY <1>2, <1>4, FoundHere
<1>6. MembersListed'
  BY <1>1, <1>3, <1>5, IoTypes
  DEF RegistryInv, MembersListed, Entering, Member, Usable, Entry, sockets
<1>7. EnteredBefore'
  BY <1>1, <1>3 DEF RegistryInv, EnteredBefore, Entering, sockets
<1>8. EntriesOpen'
  BY <1>1, <1>2, <1>3, <1>5 DEF RegistryInv, EntriesOpen, AboutToRemove, sockets
<1>9. ChannelsOpen'
  BY <1>1, <1>3, <1>5 DEF RegistryInv, ChannelsOpen, sockets
<1>10. StillSo'
  BY <1>1, <1>3 DEF RegistryInv, StillSo, Member, Usable, sockets
<1>11. Presented'
  BY <1>1, <1>5, KeepsPresented DEF Announcing
<1> QED
  BY <1>6, <1>7, <1>8, <1>9, <1>10, <1>11 DEF RegistryInv

LEMMA SoloRemoveLock ==
    ASSUME Solo, RemoveLock(Io)
    PROVE  RegistryInv'
<1> USE DEF Solo
<1> DEFINE c == ex[Io].c
           at == ex[Io].at
<1>1. /\ ex[Io].pc = "rmLock"
      /\ channels' = channels \cup {ChannelOf[c]}
      /\ EraseNodes(ChannelOf[c], {at})
      /\ UNCHANGED <<sockets, accepted, kicked, others>>
  BY DEF RemoveLock, Ch, history
<1>2. c \in Conns /\ ChannelOf[c] \in Channels
  BY <1>1, IoTypes DEF Untested
<1>3. /\ ex'[Io].pc = "rmDrop" /\ ex'[Io].c = c
      /\ ex'[Io].back = ex[Io].back
  BY IoControl DEF RemoveLock
<1>4. \A h \in Channels, j \in Keys :
         clients'[h][j] = IF h = ChannelOf[c] /\ j = at THEN Absent
                                                        ELSE clients[h][j]
  BY <1>1, <1>2, ErasedHere
<1>5. MembersListed'
  <2> SUFFICES ASSUME NEW d \in Conns, Member(d)'
               PROVE  /\ Entry(d)'.con = d
                      /\ d \in accepted => Entry(d)'.authenticated
    BY <1>1 DEF MembersListed
  <2>1. Member(d) /\ ChannelOf[d] \in Channels /\ KeyOf[d] \in Keys
    BY <1>1, IoTypes DEF Member, Usable, sockets
  <2>2. ~(ChannelOf[d] = ChannelOf[c] /\ KeyOf[d] = at)
    BY <1>1, <2>1 DEF RegistryInv, StillSo
  <2>3. Entry(d)' = Entry(d)
    BY <1>4, <2>1, <2>2 DEF Entry
  <2> QED
    BY <1>1, <2>1, <2>3 DEF RegistryInv, MembersListed, Entering
<1>6. EnteredBefore'
  BY <1>1, <1>3 DEF RegistryInv, EnteredBefore, Entering, sockets
<1>7. EntriesOpen'
  BY <1>1, <1>4 DEF RegistryInv, EntriesOpen, AboutToRemove, sockets
<1>8. ChannelsOpen'
  BY <1>1, <1>3 DEF RegistryInv, ChannelsOpen, sockets
<1>9. StillSo'
  BY <1>1, <1>3 DEF RegistryInv, StillSo
<1>10. Presented'
  BY <1>1, <1>4, NodeTypes, KeepsPresented DEF Announcing
<1> QED
  BY <1>5, <1>6, <1>7, <1>8, <1>9, <1>10 DEF RegistryInv

LEMMA DroppedHere ==
    ASSUME Inv, NEW ch \in Channels, DropChannel(ch), Present(ch) = {}
    PROVE  \A h \in Channels, k \in Keys : clients'[h][k] = clients[h][k]
<1> DEFINE none == [k \in Keys |-> Absent]
<1>1. clients' = [clients EXCEPT ![ch] = none]
  BY DEF DropChannel
<1>2. \A k \in Keys : none[k] = clients[ch][k]
  BY DEF Present
<1> HIDE DEF none
<1> QED
  BY <1>1, <1>2, NodeTypes

LEMMA SoloRemoveDrop ==
    ASSUME Solo, RemoveDrop(Io)
    PROVE  RegistryInv'
<1> USE DEF Solo
<1> DEFINE ch == Ch(Io)
<1>1. /\ ex[Io].pc = "rmDrop"
      /\ IF Present(ch) = {} THEN DropChannel(ch) ELSE UNCHANGED registry
      /\ UNCHANGED <<sockets, accepted, kicked, others>>
  BY DEF RemoveDrop, history
<1>2. ch \in Channels
  BY <1>1, IoTypes DEF Untested, Ch
<1>3. ex'[Io].pc \in {"idle", "presence"}
  <2>1. ex[Io].back \in {"idle", "presence"}
    BY <1>1 DEF RegistryInv, StillSo
  <2> QED
    BY <2>1, IoControl DEF RemoveDrop
<1>4. /\ channels' = IF Present(ch) = {} THEN channels \ {ch} ELSE channels
      /\ \A h \in Channels, k \in Keys : clients'[h][k] = clients[h][k]
  <2>1. CASE Present(ch) = {}
    <3>1. DropChannel(ch)
      BY <1>1, <2>1
    <3> QED
      BY <1>2, <2>1, <3>1, DroppedHere DEF DropChannel
  <2>2. CASE Present(ch) # {}
    BY <1>1, <2>2 DEF registry
  <2> QED
    BY <2>1, <2>2
<1>10. MembersListed' /\ EnteredBefore'
  BY <1>1, <1>3, <1>4, IoTypes DEF RegistryInv, MembersListed, EnteredBefore,
     Entering, Member, Usable, Entry, sockets
<1>5. \A h \in Channels, k \in Keys :
         clients[h][k] # Absent =>
            /\ h \in channels'
            /\ \E c \in Conns :
                  conn[c] = "open" /\ ChannelOf[c] = h /\ KeyOf[c] = k
  BY <1>1, <1>4 DEF RegistryInv, EntriesOpen, AboutToRemove, Present
<1>6. EntriesOpen'
  BY <1>1, <1>4, <1>5 DEF EntriesOpen, sockets
<1>7. ChannelsOpen'
  <2> SUFFICES ASSUME NEW h \in channels'
               PROVE  \E c \in Conns : conn[c] = "open" /\ ChannelOf[c] = h
    BY <1>1 DEF ChannelsOpen, sockets
  <2>1. CASE h = ch
    BY <1>1, <1>2, <1>4, <1>5, <2>1 DEF Present
  <2>2. CASE h # ch
    BY <1>1, <1>4, <2>2 DEF RegistryInv, ChannelsOpen, Ch
  <2> QED
    BY <2>1, <2>2
<1>8. StillSo'
  BY <1>3 DEF StillSo
<1>9. Presented'
  BY <1>1, <1>4, KeepsPresented DEF Announcing
<1> QED
  BY <1>6, <1>10, <1>7, <1>8, <1>9 DEF RegistryInv

-----------------------------------------------------------------------------
(* The events of the io thread.                                             *)

LEMMA SoloIoOpen ==
    ASSUME Solo, NEW c \in Conns, IoOpen(c)
    PROVE  RegistryInv'
<1> USE DEF Solo
<1>1. /\ ex[Io].pc = "idle" /\ conn[c] = "new"
      /\ conn' = [conn EXCEPT ![c] = "open"]
      /\ UNCHANGED <<alive, registry, accepted, kicked, others>>
  BY DEF IoOpen, IoReady, history
<1>2. conn'[c] = "open" /\ \A d \in Conns : d # c => conn'[d] = conn[d]
  BY <1>1 DEF Inv, TypeOK
<1>3. ex'[Io].pc = "open" /\ ex'[Io].c = c
  BY IoTypes DEF IoOpen, Dispatch, Idle
<1>4. c \notin accepted /\ c \in alive
  BY <1>1 DEF RegistryInv, EnteredBefore
<1>5. MembersListed'
  BY <1>1, <1>2, <1>3
  DEF RegistryInv, MembersListed, Entering, Member, Usable, Entry, registry
<1>6. EnteredBefore'
  BY <1>1, <1>2, <1>3, <1>4 DEF RegistryInv, EnteredBefore, Entering, Inv, TypeOK
<1>7. EntriesOpen'
  BY <1>1, <1>2 DEF RegistryInv, EntriesOpen, AboutToRemove, registry
<1>8. ChannelsOpen'
  BY <1>1, <1>2 DEF RegistryInv, ChannelsOpen, registry
<1>9. StillSo'
  BY <1>3 DEF StillSo
<1>10. Presented'
  BY <1>1, NotAnnouncing
<1> QED
  BY <1>5, <1>6, <1>7, <1>8, <1>9, <1>10 DEF RegistryInv

LEMMA SoloIoMessage ==
    ASSUME Solo, NEW c \in Conns, NEW m, IoMessage(c, m)
    PROVE  RegistryInv'
<1> USE DEF Solo
<1>1. /\ ex[Io].pc = "idle"
      /\ UNCHANGED <<conn, alive, registry, accepted, kicked, others>>
  BY DEF IoMessage, IoReady, history
<1>2. ex'[Io].pc = "message"
  BY IoTypes DEF IoMessage, Dispatch, Idle
<1>3. MembersListed' /\ EnteredBefore'
  BY <1>1, <1>2 DEF RegistryInv, MembersListed, EnteredBefore, Entering, Member,
     Usable, Entry, registry
<1>4. EntriesOpen' /\ ChannelsOpen'
  BY <1>1 DEF RegistryInv, EntriesOpen, ChannelsOpen, AboutToRemove, registry
<1>5. StillSo'
  BY <1>2 DEF StillSo
<1>6. Presented'
  BY <1>1, NotAnnouncing
<1> QED
  BY <1>3, <1>4, <1>5, <1>6 DEF RegistryInv

(* A connection that ends makes its entry one that is about to be removed.  *)
LEMMA SoloEnds ==
    ASSUME Solo, NEW c \in Conns, IoClose(c) \/ IoError(c)
    PROVE  RegistryInv'
<1> USE DEF Solo
<1>1. /\ ex[Io].pc = "idle"
      /\ conn' = [conn EXCEPT ![c] = "closed"]
      /\ UNCHANGED <<alive, registry, accepted, kicked, others>>
  BY DEF IoClose, IoError, IoReady, history
<1>2. conn'[c] = "closed" /\ \A d \in Conns : d # c => conn'[d] = conn[d]
  BY <1>1 DEF Inv, TypeOK
<1>3. \/ ex'[Io].pc = "close" /\ ex'[Io].c = c
      \/ /\ ex'[Io].pc = "rmLock" /\ ex'[Io].c = c /\ ex'[Io].at = KeyOf[c]
         /\ ex'[Io].back = "idle"
      \/ ex'[Io].pc = "idle" /\ ChannelOf[c] = EmptyName
  BY <1>1, IoTypes DEF IoClose, IoError, Dispatch, Idle
<1>4. \A d \in Conns : conn'[d] = "open" => KeyOf[d] # KeyOf[c]
  <2> SUFFICES ASSUME NEW d \in Conns, conn'[d] = "open", KeyOf[d] = KeyOf[c]
               PROVE  FALSE
    OBVIOUS
  <2>1. d # c /\ conn[d] = "open"
    BY <1>2
  <2>2. conn[c] # "open"
    BY <2>1, IoTypes
  <2>3. KeyFree(c)
    BY <2>2 DEF IoClose, IoError
  <2> QED
    BY <2>1, <2>3 DEF KeyFree
<1>5. MembersListed'
  BY <1>1, <1>2
  DEF RegistryInv, MembersListed, Entering, Member, Usable, Entry, registry
<1>6. EnteredBefore'
  BY <1>1, <1>2, <1>3 DEF RegistryInv, EnteredBefore, Entering, Inv, TypeOK
<1>7. EntriesOpen'
  BY <1>1, <1>2, <1>3, ConnsAssumption
  DEF RegistryInv, EntriesOpen, AboutToRemove, registry
<1>8. ChannelsOpen'
  <2>1. channels \in SUBSET Channels
    BY DEF Inv, TypeOK
  <2> QED
    BY <1>1, <1>2, <1>3, <2>1, ConnsAssumption
    DEF RegistryInv, ChannelsOpen, registry
<1>9. StillSo'
  BY <1>3, <1>4 DEF StillSo, Member
<1>10. Presented'
  BY <1>1, NotAnnouncing
<1> QED
  BY <1>5, <1>6, <1>7, <1>8, <1>9, <1>10 DEF RegistryInv

LEMMA SoloFree ==
    ASSUME Solo, NEW c \in Conns, Free(c)
    PROVE  RegistryInv'
<1> USE DEF Solo
<1>1. /\ conn[c] = "closed" /\ alive' = alive \ {c}
      /\ UNCHANGED <<conn, ex, ref, registry, accepted, kicked, others>>
  BY DEF Free, history
<1> QED
  BY <1>1 DEF RegistryInv, MembersListed, EnteredBefore, EntriesOpen, ChannelsOpen,
     StillSo, Presented, Entering, AboutToRemove, Announcing, Member, Usable,
     Entry, Present, Named, registry

-----------------------------------------------------------------------------
(* Every step of a handler belongs to the io thread.                        *)
LEMMA HandlerRuns ==
    ASSUME NEW e \in Executors, Handler(e)
    PROVE  ex[e].pc # "idle"
  BY DEF Handler, UsesErased, Opening, Message, Broadcast, Cleanup, Closing, Remove,
           Presence, OpenRefused, OpenLock, OpenClient, MessageIgnored,
           MessageFind, MessageCheck, Reject, Accept, MessageDispatch,
           BroadcastStart, BroadcastSkip, BroadcastSend, BroadcastRemove,
           CleanupStart, CleanupSkip, CleanupTest, EraseChannel, CloseIgnored,
           CloseFind, RemoveLock, RemoveDrop, PresenceStart, PresenceSkip,
           PresenceSend, PresenceRemove

LEMMA SoloHandler ==
    ASSUME Solo, Handler(Io)
    PROVE  RegistryInv' \/ (Astray' /\ kicked' # {})
<1>1. ~UsesErased(Io)
  BY DEF Solo, RegistryInv, StillSo, UsesErased
<1>2. ASSUME BroadcastRemove(Io) \/ PresenceRemove(Io) \/ EraseChannel(Io)
      PROVE  Astray' /\ kicked' # {}
  BY <1>2, SomeoneKicked, GoesAstray
<1> QED
  BY <1>1, <1>2, SoloQuiet, SoloLoops, SoloMessageCheck, SoloCleanupTest,
     SoloPresenceStart, SoloPresenceSkip, SoloPresenceSend, SoloOpenLock,
     SoloBroadcastStart, SoloOpenClient, SoloMessageFind, SoloReject,
     SoloAccept, SoloCloseFind, SoloRemoveLock, SoloRemoveDrop
  DEF Handler, Opening, Message, Broadcast, Cleanup, Closing, Remove, Presence

(* A loop that has gone astray at most finishes remove_client, and then     *)
(* uses the erased node.                                                    *)
LEMMA AstrayHandler ==
    ASSUME Inv, ~m_tpool, Astray, Handler(Io)
    PROVE  Astray' /\ UNCHANGED kicked
<1>1. /\ Io \in Executors /\ ex[Io].pc # "idle"
      /\ ref \in [Executors -> BOOLEAN]
  BY IoTypes, HandlerRuns DEF Inv, TypeOK
<1>2. RemoveLock(Io) \/ RemoveDrop(Io) \/ UsesErased(Io)
  <2>1. ~Opening(Io) /\ ~Message(Io) /\ ~Closing(Io)
    BY DEF Astray, Opening, Message, Closing, OpenRefused, OpenLock,
           OpenClient, MessageIgnored, MessageFind, MessageCheck, Reject,
           Accept, MessageDispatch, CloseIgnored, CloseFind
  <2>2. ~Broadcast(Io)
    BY DEF Astray, Broadcast, BroadcastStart, BroadcastSkip, BroadcastSend,
           BroadcastRemove
  <2>3. ~Cleanup(Io)
    BY DEF Astray, Cleanup, CleanupStart, CleanupSkip, CleanupTest,
           EraseChannel
  <2>4. ~Presence(Io)
    BY DEF Astray, Presence, PresenceStart, PresenceSkip, PresenceSend,
           PresenceRemove
  <2> QED
    BY <2>1, <2>2, <2>3, <2>4 DEF Handler, Remove
<1>3. CASE RemoveLock(Io)
  <2>1. /\ ex[Io].pc = "rmLock" /\ EraseNodes(Ch(Io), {ex[Io].at})
        /\ ex[Io].back \in {"broadcastLoop", "presenceLoop"}
        /\ UNCHANGED kicked
    BY <1>3 DEF Astray, RemoveLock, history
  <2>2. OnNode(Io, Ch(Io), {ex[Io].at})
    BY <1>1, <2>1, IoTypes, ConnsAssumption DEF OnNode, InCleanup, HeldKey
  <2>3. ~ref'[Io]
    BY <1>1, <2>1, <2>2 DEF EraseNodes
  <2>4. ex'[Io].pc = "rmDrop" /\ ex'[Io].back = ex[Io].back
    BY <1>3, IoControl DEF RemoveLock
  <2> QED
    BY <2>1, <2>3, <2>4 DEF Astray
<1>4. CASE RemoveDrop(Io)
  <2>1. /\ ex[Io].pc = "rmDrop" /\ ~ref[Io]
        /\ ex[Io].back \in {"broadcastLoop", "presenceLoop"}
        /\ DropChannel(Ch(Io)) \/ UNCHANGED ref
        /\ UNCHANGED kicked
    BY <1>4 DEF Astray, RemoveDrop, history
  <2>2. ~ref'[Io]
    BY <1>1, <2>1 DEF DropChannel
  <2>3. ex'[Io].pc = ex[Io].back
    BY <1>4, <2>1, IoControl DEF RemoveDrop
  <2> QED
    BY <2>1, <2>2, <2>3 DEF Astray
<1>5. CASE UsesErased(Io)
  BY <1>5 DEF UsesErased, Astray, history
<1> QED
  BY <1>2, <1>3, <1>4, <1>5

(* Without a pool the step is one of the io thread, or frees a connection.  *)
LEMMA OnlyIoSteps ==
    ASSUME Inv, ~m_tpool, [Next]_vars
    PROVE  \/ ~undefined /\ Handler(Io)
           \/ ~undefined /\ UNCHANGED undefined /\ \E c \in Conns :
                 IoOpen(c) \/ IoClose(c) \/ IoError(c) \/ Free(c)
                 \/ \E m \in Messages[m_tpool][c] : IoMessage(c, m)
           \/ UNCHANGED vars
<1>1. ASSUME NEW e \in Executors, ~undefined, Handler(e)
      PROVE  Handler(Io)
  BY <1>1, HandlerRuns, OnlyIo
<1>2. ASSUME NEW e \in Executors, StartTask(e) PROVE FALSE
  BY <1>2 DEF StartTask, Inv, Inline
<1>3. ASSUME NEW c \in Conns, IoEvent(c) \/ Free(c)
      PROVE  UNCHANGED undefined
  BY <1>3 DEF IoEvent, IoOpen, IoClose, IoError, IoMessage, Free
<1> QED
  BY <1>1, <1>2, <1>3 DEF Next, Runs, IoEvent

LEMMA SoloNext ==
    ASSUME Inv, ~m_tpool, SoloInv, [Next]_vars
    PROVE  SoloInv'
<1>1. CASE ~undefined /\ Handler(Io)
  <2>1. CASE RegistryInv
    <3>1. ~undefined'
      BY <1>1, <2>1 DEF RegistryInv, StillSo, UsesErased, Handler, Opening, Message, Broadcast, Cleanup, Closing, Remove,
           Presence, OpenRefused, OpenLock, OpenClient, MessageIgnored,
           MessageFind, MessageCheck, Reject, Accept, MessageDispatch,
           BroadcastStart, BroadcastSkip, BroadcastSend, BroadcastRemove,
           CleanupStart, CleanupSkip, CleanupTest, EraseChannel, CloseIgnored,
           CloseFind, RemoveLock, RemoveDrop, PresenceStart, PresenceSkip,
           PresenceSend, PresenceRemove
    <3> QED
      BY <1>1, <2>1, <3>1, SoloHandler DEF Solo, SoloInv
  <2>2. CASE Astray /\ kicked # {}
    BY <1>1, <2>2, AstrayHandler DEF SoloInv
  <2> QED
    BY <2>1, <2>2 DEF SoloInv
<1>2. ASSUME NEW c \in Conns, ~undefined, UNCHANGED undefined,
             \/ IoOpen(c) \/ IoClose(c) \/ IoError(c) \/ Free(c)
             \/ \E m \in Messages[m_tpool][c] : IoMessage(c, m)
      PROVE  SoloInv'
  <2>1. CASE RegistryInv
    BY <1>2, <2>1, SoloIoOpen, SoloIoMessage, SoloEnds, SoloFree
    DEF Solo, SoloInv
  <2>2. CASE Astray /\ kicked # {}
    BY <1>2, <2>2 DEF Astray, SoloInv, IoOpen, IoClose, IoError, IoMessage,
       Free, IoReady, history
  <2> QED
    BY <2>1, <2>2 DEF SoloInv
<1>3. CASE UNCHANGED vars
  <2>1. MembersListed' = MembersListed /\ EnteredBefore' = EnteredBefore
    BY <1>3 DEF vars, MembersListed, EnteredBefore, Entering, Member, Usable,
       Entry
  <2>2. EntriesOpen' = EntriesOpen /\ ChannelsOpen' = ChannelsOpen
    BY <1>3 DEF vars, EntriesOpen, ChannelsOpen, AboutToRemove
  <2>3. StillSo' = StillSo /\ Astray' = Astray
    BY <1>3 DEF vars, StillSo, Astray, Member, Usable, Present
  <2>4. Presented' = Presented
    BY <1>3 DEF vars, Presented, Announcing, Usable, Entry, Present, Named
  <2> QED
    BY <1>3, <2>1, <2>2, <2>3, <2>4 DEF vars, SoloInv, RegistryInv
<1> QED
  BY <1>1, <1>2, <1>3, OnlyIoSteps

LEMMA RegistryInit == Init => RegistryInv
<1> SUFFICES ASSUME Init PROVE RegistryInv
  OBVIOUS
<1>1. ex[Io] = Idle /\ ex[Io].pc = "idle"
  BY DEF Init, Executors, Idle
<1>2. /\ \A ch \in Channels, k \in Keys : clients[ch][k] = Absent
      /\ \A c \in Conns : conn[c] = "new" /\ c \in alive
      /\ channels = {} /\ accepted = {}
  BY DEF Init
<1>3. \A c \in Conns : Usable(c) => Entry(c).con = NoConn
  BY <1>2, ConnsAssumption DEF Usable, Entry, Absent
<1> QED
  BY <1>1, <1>2, <1>3, ConnsAssumption
  DEF RegistryInv, MembersListed, EnteredBefore, EntriesOpen, ChannelsOpen,
      StillSo, Presented, Entering, Member

(* Without a pool the parts above hold in every reachable state, unless a   *)
(* loop has gone astray.                                                    *)
THEOREM RegistryInvariance == Spec => [](~m_tpool => SoloInv)
<1>1. Init => (~m_tpool => SoloInv)
  BY RegistryInit DEF SoloInv, Init
<1>2. Inv /\ (~m_tpool => SoloInv) /\ [Next]_vars => (~m_tpool => SoloInv)'
  <2> SUFFICES ASSUME Inv, ~m_tpool => SoloInv, [Next]_vars, ~m_tpool'
               PROVE  SoloInv'
    OBVIOUS
  <2>1. m_tpool' = m_tpool
    BY DEF Next, Runs, IoEvent, IoOpen, IoMessage, IoClose, IoError, Free,
           StartTask, Handler, UsesErased, Opening, Message, Broadcast, Cleanup, Closing, Remove,
           Presence, OpenRefused, OpenLock, OpenClient, MessageIgnored,
           MessageFind, MessageCheck, Reject, Accept, MessageDispatch,
           BroadcastStart, BroadcastSkip, BroadcastSend, BroadcastRemove,
           CleanupStart, CleanupSkip, CleanupTest, EraseChannel, CloseIgnored,
           CloseFind, RemoveLock, RemoveDrop, PresenceStart, PresenceSkip,
           PresenceSend, PresenceRemove,
           sockets, setup, vars
  <2> QED
    BY <2>1, SoloNext
<1> QED
  BY <1>1, <1>2, Invariance, PTL DEF Spec

-----------------------------------------------------------------------------
(* Without a pool, whenever no handler runs: the open connections that were *)
(* not turned away are listed, nothing else is, and no channel is left      *)
(* without an open connection.                                              *)
THEOREM RegistryCorrect == Spec => []RegistryMatchesConnections
<1>1. Inv /\ (~m_tpool => SoloInv) => RegistryMatchesConnections
  <2> SUFFICES ASSUME Inv, ~m_tpool, SoloInv, Quiet
               PROVE  /\ \A c \in Conns :
                            Usable(c) /\ conn[c] = "open" /\ c \notin kicked
                               => Entry(c).con = c
                      /\ \A c \in Conns :
                            Usable(c) /\ Entry(c).con = c => conn[c] = "open"
                      /\ \A ch \in channels :
                            \E c \in Conns : ChannelOf[c] = ch /\ conn[c] = "open"
    BY DEF RegistryMatchesConnections, OpenClientListed, ListedIsOpen,
           NoChannelLeft
  <2>1. ex[Io].pc = "idle" /\ RegistryInv
    BY DEF Quiet, Executors, SoloInv, Astray
  <2>2. \A c \in Conns : Usable(c) /\ Entry(c).con = c => conn[c] = "open"
    BY <2>1, IoTypes, ListedOpen, NodeTypes DEF Entry
  <2> QED
    BY <2>1, <2>2 DEF RegistryInv, MembersListed, Member, Entering, ChannelsOpen
<1> QED
  BY <1>1, Invariance, RegistryInvariance, PTL

(* Without a pool nobody is missing from a list of who is present.          *)
THEOREM PresenceCorrect == Spec => []PresenceComplete
<1>1. Inv /\ (~m_tpool => SoloInv) => PresenceComplete
  BY DEF PresenceComplete, Quiet, Executors, SoloInv, Astray, RegistryInv,
         Presented, Announcing
<1> QED
  BY <1>1, Invariance, RegistryInvariance, PTL

(* Without a pool the node that this_client refers to is not erased while   *)
(* on_message uses it, and an erased node is used by a loop only after a    *)
(* client was turned away.                                                  *)
THEOREM ReferenceCorrect == Spec => []ReferenceValid
<1>1. Inv /\ (~m_tpool => SoloInv) => ReferenceValid
  <2> SUFFICES ASSUME Inv, ~m_tpool, SoloInv
               PROVE  /\ \A e \in Executors :
                            ex[e].pc \in {"check", "accept", "dispatch"}
                               => ref[e]
                      /\ undefined => kicked # {}
    BY DEF ReferenceValid
  <2>1. ASSUME NEW e \in Executors, ex[e].pc \in {"check", "accept", "dispatch"}
        PROVE  ref[e]
    <3>1. e = Io
      BY <2>1, OnlyIo
    <3> QED
      BY <2>1, <3>1 DEF SoloInv, Astray, RegistryInv, StillSo
  <2>2. undefined => kicked # {}
    BY DEF SoloInv, Astray, RegistryInv, StillSo
  <2> QED
    BY <2>1, <2>2
<1> QED
  BY <1>1, Invariance, RegistryInvariance, PTL

(* Without a pool a client that has passed authentication is not turned     *)
(* away afterwards, whatever it sends.                                      *)
THEOREM AcceptedCorrect == Spec => AcceptedNotKickedInline
<1>1. Inv /\ (~m_tpool => SoloInv) /\ [Next]_vars
         => [~m_tpool => KeepsAccepted]_vars
  <2> SUFFICES ASSUME Inv, ~m_tpool, SoloInv, [Next]_vars
               PROVE  KeepsAccepted
    OBVIOUS
  <2>1. CASE Reject(Io)
    BY <2>1 DEF Reject, KeepsAccepted, SoloInv, Astray, RegistryInv, StillSo
  <2>2. ASSUME Handler(Io), ~Reject(Io) PROVE kicked' = kicked
    BY <2>2
    DEF Handler, UsesErased, Opening, Message, Broadcast, Cleanup, Closing, Remove,
           Presence, OpenRefused, OpenLock, OpenClient, MessageIgnored,
           MessageFind, MessageCheck, Accept, MessageDispatch,
           BroadcastStart, BroadcastSkip, BroadcastSend, BroadcastRemove,
           CleanupStart, CleanupSkip, CleanupTest, EraseChannel, CloseIgnored,
           CloseFind, RemoveLock, RemoveDrop, PresenceStart, PresenceSkip,
           PresenceSend, PresenceRemove,
        history
  <2>3. ASSUME NEW c \in Conns,
               \/ IoOpen(c) \/ IoClose(c) \/ IoError(c) \/ Free(c)
               \/ \E m \in Messages[m_tpool][c] : IoMessage(c, m)
        PROVE kicked' = kicked
    BY <2>3 DEF IoOpen, IoMessage, IoClose, IoError, Free, history
  <2>4. CASE UNCHANGED vars
    BY <2>4 DEF vars, KeepsAccepted
  <2> QED
    BY <2>1, <2>2, <2>3, <2>4, OnlyIoSteps DEF KeepsAccepted
<1> QED
  BY <1>1, Invariance, RegistryInvariance, PTL DEF Spec, AcceptedNotKickedInline
=============================================================================
