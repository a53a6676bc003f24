-------------------------- MODULE EndpointHandler --------------------------
(* jahan::server::WssEndpointHandler (src/lib/jahan/server/                 *)
(* wss_endpoint_handler.cpp): the registry of clients by channel and the    *)
(* handlers of one endpoint.                                                *)
(*                                                                          *)
(* The io thread of the web socket server calls the handlers.  on_open,     *)
(* on_message and on_close run inline, or as tasks of the thread pool when  *)
(* there is one; on_error always runs inline.  m_client_mutex protects some *)
(* accesses to m_clients; the others are made without it.  A step is one    *)
(* operation on m_clients, on a client's node or on a connection, or the    *)
(* part of a critical section between two of them.  An operation on one of  *)
(* the unordered maps is indivisible here: what two unsynchronised ones can *)
(* do to the inside of the hash table is not modelled.                      *)
(* on_message holds a reference to a node of a map, a range-for an iterator *)
(* that stands on one, and the node may be erased under them.  Whoever then *)
(* uses it (the ++ of the loop, too) makes the rest of the execution        *)
(* undefined: the model has no step after that.                             *)
(* The pool is the queue that TaskQueue specifies: first in, first out,     *)
(* executed by several workers.                                             *)
EXTENDS Naturals, Sequences, FiniteSets

CONSTANTS
    Conns,        \* the connections, SocketServer::Connection objects
    Keys,         \* address:port of a peer
    Channels,     \* channel names: query strings reduced to alphanumerics
    EmptyName,    \* the channel name of a query string without any
    KeyOf,        \* key of each connection
    ChannelOf,    \* channel of each connection, or EmptyName
    Workers,      \* threads of the pool
    Io,           \* the io thread
    NoConn,       \* an empty weak_ptr
    Pools,        \* is m_tpool set?  the values to consider
    \* for each value of m_tpool:
    Authenticators, \* values of m_authenticator to consider
    Peers,        \* bound: the connections that come
    Messages,     \* the MessageKinds that each peer sends
    MaxMessages   \* bound: how many messages each peer sends

(* A message is a token the authenticator accepts for an ordinary name or   *)
(* for one of the administrators' names, the text CSTATUS, any other text,  *)
(* or a text of more than 1000000 characters.                               *)
MessageKinds == {"user", "admin", "status", "text", "over"}

ASSUME PoolsAssumption == Pools \subseteq BOOLEAN
ASSUME MessagesAssumption == 
    Messages \in [BOOLEAN -> [Conns -> SUBSET MessageKinds]]
ASSUME ConnsAssumption ==
    /\ NoConn \notin Conns
    /\ KeyOf \in [Conns -> Keys]
    /\ ChannelOf \in [Conns -> Channels \cup {EmptyName}]
    /\ EmptyName \notin Channels
ASSUME ThreadsAssumption == Io \notin Workers
ASSUME FlagsAssumption == Authenticators \in [BOOLEAN -> SUBSET BOOLEAN]
ASSUME BoundAssumption ==
    /\ Peers \in [BOOLEAN -> SUBSET Conns]
    /\ MaxMessages \in [BOOLEAN -> [Conns -> Nat]]

Executors == Workers \cup {Io}
Nobody == "nobody"
Names == {"", "user", "admin"}
Absent == [con |-> NoConn, authenticated |-> FALSE, name |-> "-"]
NewNode == [con |-> NoConn, authenticated |-> FALSE, name |-> ""]
Nodes == [con : Conns \cup {NoConn}, authenticated : BOOLEAN, name : Names]

VARIABLES
    m_tpool,         \* is it set?  (before the server starts)
    m_authenticator, \* is it set?  (before the server starts)
    conn,       \* reading side of each connection: "new", "open", "closed"
    sent,       \* how many messages each peer has sent
    alive,      \* connections whose object exists, so that lock() succeeds
    tasks,      \* the tasks waiting in the pool
    channels,   \* the keys of m_clients
    clients,    \* m_clients[channel][key], or Absent
    owner,      \* who holds m_client_mutex, or Nobody
    ex,         \* what each executor does
    ref,        \* does this_client, or the iterator of the loop, of each
                \* executor refer to a node that exists?
    undefined,  \* has a node that was erased been used?
    accepted,   \* history: connections that passed authentication
    kicked,     \* history: connections that were sent close code 3000
    reached,    \* history: connections that were sent a broadcast
    others      \* the keys listed in the last presence sent to each

setup == <<m_tpool, m_authenticator>>
sockets == <<setup, conn, sent, alive>>
registry == <<channels, clients>>
history == <<accepted, kicked, reached, others>>
vars == <<m_tpool, m_authenticator, conn, sent, alive, tasks, channels,
          clients, owner, ex, ref, undefined, accepted, kicked, reached,
          others>>

Tasks == [kind : {"open", "message", "close"}, c : Conns,
          m : MessageKinds \cup {"none"}]

(* pc    the next step                                                      *)
(* c, m  the connection and message being handled                           *)
(* at    the key, or the channel, of the node the current loop stands on;   *)
(*       the key that is being removed                                      *)
(* todo  those that come after it                                           *)
(* back  where remove_client returns to                                     *)
Idle == [pc |-> "idle", c |-> NoConn, m |-> "none", todo |-> {}, at |-> NoConn,
         back |-> "idle"]

PCs == {"idle", "open", "openClient", "message", "check", "reject", "accept",
        "dispatch", "broadcast", "broadcastLoop", "cleanup", "cleanupLoop",
        "eraseChannel", "presence", "presenceLoop", "close", "rmLock",
        "rmDrop"}

TypeOK ==
    /\ m_tpool \in Pools
    /\ m_authenticator \in Authenticators[m_tpool]
    /\ conn \in [Conns -> {"new", "open", "closed"}]
    /\ sent \in [Conns -> Nat]
    /\ \A c \in Conns : sent[c] <= MaxMessages[m_tpool][c]
    /\ alive \in SUBSET Conns
    /\ tasks \in Seq(Tasks)
    /\ channels \in SUBSET Channels
    /\ clients \in [Channels -> [Keys -> Nodes \cup {Absent}]]
    /\ owner \in Executors \cup {Nobody}
    /\ ex \in [Executors -> [pc : PCs, c : Conns \cup {NoConn},
                             m : MessageKinds \cup {"none"},
                             todo : SUBSET (Keys \cup Channels),
                             at : Keys \cup Channels \cup {NoConn},
                             back : {"idle", "broadcastLoop", "presence",
                                     "presenceLoop"}]]
    /\ ref \in [Executors -> BOOLEAN]
    /\ undefined \in BOOLEAN
    /\ accepted \in SUBSET Conns
    /\ kicked \in SUBSET Conns
    /\ reached \in SUBSET Conns
    /\ others \in [Conns -> SUBSET Keys]

Init ==
    /\ m_tpool \in Pools
    /\ m_authenticator \in Authenticators[m_tpool]
    /\ conn = [c \in Conns |-> "new"]
    /\ sent = [c \in Conns |-> 0]
    /\ alive = Conns
    /\ tasks = <<>>
    /\ channels = {}
    /\ clients = [ch \in Channels |-> [k \in Keys |-> Absent]]
    /\ owner = Nobody
    /\ ex = [e \in Executors |-> Idle]
    /\ ref = [e \in Executors |-> FALSE]
    /\ undefined = FALSE
    /\ accepted = {}
    /\ kicked = {}
    /\ reached = {}
    /\ others = [c \in Conns |-> {}]

-----------------------------------------------------------------------------
(* m_clients *)

Ch(e) == ChannelOf[ex[e].c]
Key(e) == KeyOf[ex[e].c]

Present(ch) == {k \in Keys : clients[ch][k] # Absent}

(* Writes a node; operator[] creates the channel when it is missing. *)
Put(ch, k, node) ==
    /\ channels' = channels \cup {ch}
    /\ clients' = [clients EXCEPT ![ch][k] = node]

(* operator[] on both maps: what is missing is value-initialised. *)
Find(ch, k) ==
    Put(ch, k, IF clients[ch][k] = Absent THEN NewNode ELSE clients[ch][k])

(* Does e refer to the node of one of these keys in this channel, or with   *)
(* the loop over the channels to this one?                                  *)
InCleanup(e) == ex[e].pc \in {"cleanupLoop", "eraseChannel"}
HeldKey(e) == IF ex[e].pc \in {"check", "reject", "accept", "dispatch"}
              THEN Key(e) ELSE ex[e].at
OnNode(e, ch, ks) ==
    /\ ex[e].c # NoConn /\ ~InCleanup(e)
    /\ Ch(e) = ch /\ HeldKey(e) \in ks
OnChannel(e, ch) == InCleanup(e) /\ ex[e].at = ch

(* Erasing nodes leaves the references to them, and the iterators, dangling.*)
EraseNodes(ch, ks) ==
    /\ clients' = [clients EXCEPT ![ch] =
                      [k \in Keys |-> IF k \in ks THEN Absent ELSE @[k]]]
    /\ ref' = [e \in Executors |-> ref[e] /\ ~OnNode(e, ch, ks)]

(* m_clients.erase: the map of the channel goes with its nodes. *)
DropChannel(ch) ==
    /\ channels' = channels \ {ch}
    /\ clients' = [clients EXCEPT ![ch] = [k \in Keys |-> Absent]]
    /\ ref' = [e \in Executors |->
                  ref[e] /\ ~OnNode(e, ch, Keys) /\ ~OnChannel(e, ch)]

Goto(e, pc) == ex' = [ex EXCEPT ![e].pc = pc]
Done(e) == ex' = [ex EXCEPT ![e] = Idle]
CallRemove(e, k, back) ==
    ex' = [ex EXCEPT ![e].pc = "rmLock", ![e].at = k, ![e].back = back]

(* A range-for goes to one of these nodes, the map having no order; when    *)
(* there is none its handler goes on with what follows.                     *)
StepTo(e, loop, nodes, following) ==
    \/ \E n \in nodes :
         /\ ex' = [ex EXCEPT ![e].pc = loop, ![e].at = n,
                             ![e].todo = nodes \ {n}]
         /\ ref' = [ref EXCEPT ![e] = TRUE]
    \/ /\ nodes = {}
       /\ ex' = [ex EXCEPT ![e] = following]
       /\ ref' = [ref EXCEPT ![e] = FALSE]

Alive(con) == con \in alive

-----------------------------------------------------------------------------
(* The io thread.  It handles one event at a time; an inline handler keeps  *)
(* it busy.  Two connections are not open at once with the same key.        *)

IoReady == ex[Io].pc = "idle"
KeyFree(c) == \A d \in Conns : conn[d] = "open" => KeyOf[d] # KeyOf[c]

Dispatch(kind, c, m) ==
    IF m_tpool
    THEN /\ tasks' = Append(tasks, [kind |-> kind, c |-> c, m |-> m])
         /\ UNCHANGED ex
    ELSE /\ ex' = [ex EXCEPT ![Io] =
                      [Idle EXCEPT !.pc = kind, !.c = c, !.m = m]]
         /\ UNCHANGED tasks

IoOpen(c) ==
    /\ IoReady
    /\ conn[c] = "new" /\ c \in Peers[m_tpool]
    /\ KeyFree(c)
    /\ conn' = [conn EXCEPT ![c] = "open"]
    /\ Dispatch("open", c, "none")
    /\ UNCHANGED <<setup, sent, alive, registry, owner, ref, undefined,
                   history>>

IoMessage(c, m) ==
    /\ IoReady
    /\ conn[c] = "open"
    /\ sent[c] < MaxMessages[m_tpool][c]
    /\ sent' = [sent EXCEPT ![c] = @ + 1]
    /\ Dispatch("message", c, m)
    /\ UNCHANGED <<setup, conn, alive, registry, owner, ref, undefined,
                   history>>

IoClose(c) ==
    /\ IoReady
    /\ conn[c] = "open"
    /\ conn' = [conn EXCEPT ![c] = "closed"]
    /\ Dispatch("close", c, "none")
    /\ UNCHANGED <<setup, sent, alive, registry, owner, ref, undefined,
                   history>>

(* on_error, also for a handshake that could not be written (no on_open     *)
(* before it).  For the empty channel name remove_client adds and removes   *)
(* an entry that nobody else looks at.                                      *)
IoError(c) ==
    /\ IoReady
    /\ \/ conn[c] = "open"
       \/ conn[c] = "new" /\ c \in Peers[m_tpool] /\ KeyFree(c)
    /\ conn' = [conn EXCEPT ![c] = "closed"]
    /\ IF ChannelOf[c] = EmptyName
       THEN UNCHANGED ex
       ELSE ex' = [ex EXCEPT ![Io] =
                      [Idle EXCEPT !.pc = "rmLock", !.c = c, !.at = KeyOf[c]]]
    /\ UNCHANGED <<setup, sent, alive, tasks, registry, owner, ref,
                   undefined, history>>

(* The last shared_ptr to a connection that is no longer read goes away. *)
Free(c) ==
    /\ c \in alive
    /\ conn[c] = "closed"
    /\ \A i \in DOMAIN tasks : tasks[i].c # c
    /\ \A e \in Executors : ex[e].c # c
    /\ alive' = alive \ {c}
    /\ UNCHANGED <<setup, conn, sent, tasks, registry, owner, ex, ref,
                   undefined, history>>

(* A worker of the pool takes the oldest task. *)
StartTask(w) ==
    /\ w \in Workers
    /\ ex[w].pc = "idle"
    /\ tasks # <<>>
    /\ LET t == Head(tasks) IN
         ex' = [ex EXCEPT ![w] = [Idle EXCEPT !.pc = t.kind, !.c = t.c,
                                              !.m = t.m]]
    /\ tasks' = Tail(tasks)
    /\ UNCHANGED <<sockets, registry, owner, ref, undefined, history>>

-----------------------------------------------------------------------------
(* on_open *)

OpenRefused(e) ==
    /\ ex[e].pc = "open"
    /\ Ch(e) = EmptyName
    /\ Done(e)
    /\ UNCHANGED <<sockets, tasks, registry, owner, ref, undefined, history>>

OpenLock(e) ==
    /\ ex[e].pc = "open"
    /\ Ch(e) # EmptyName
    /\ owner = Nobody
    /\ owner' = e
    /\ channels' = channels \cup {Ch(e)}
    /\ Goto(e, "openClient")
    /\ UNCHANGED <<sockets, tasks, clients, ref, undefined, history>>

OpenClient(e) ==
    /\ ex[e].pc = "openClient"
    /\ LET old == clients[Ch(e)][Key(e)] IN
         Put(Ch(e), Key(e),
             [con |-> ex[e].c, authenticated |-> FALSE,
              name |-> IF old = Absent THEN "" ELSE old.name])
    /\ owner' = Nobody
    /\ Done(e)
    /\ UNCHANGED <<sockets, tasks, ref, undefined, history>>

-----------------------------------------------------------------------------
(* on_message *)

MessageIgnored(e) ==
    /\ ex[e].pc = "message"
    /\ ex[e].m = "over" \/ Ch(e) = EmptyName
    /\ Done(e)
    /\ UNCHANGED <<sockets, tasks, registry, owner, ref, undefined, history>>

(* this_client = m_clients[channel][client_key], without the mutex *)
MessageFind(e) ==
    /\ ex[e].pc = "message"
    /\ ex[e].m # "over" /\ Ch(e) # EmptyName
    /\ Find(Ch(e), Key(e))
    /\ ref' = [ref EXCEPT ![e] = TRUE]
    /\ Goto(e, "check")
    /\ UNCHANGED <<sockets, tasks, owner, undefined, history>>

(* this_client is not used after this step. *)
LastUse(e) == ref' = [ref EXCEPT ![e] = FALSE]

(* The name m_authenticator finds in a message; empty: not accepted. *)
NameIn(m) == IF m \in {"user", "admin"} THEN m ELSE ""

(* authenticated is only read when there is an authenticator. *)
MessageCheck(e) ==
    /\ ex[e].pc = "check"
    /\ m_authenticator => ref[e]
    /\ IF m_authenticator /\ ~clients[Ch(e)][Key(e)].authenticated
       THEN Goto(e, IF NameIn(ex[e].m) = "" THEN "reject" ELSE "accept")
       ELSE Goto(e, "dispatch")
    /\ UNCHANGED <<sockets, tasks, registry, owner, ref, undefined, history>>

(* Mutant: the return after send_close is missing. *)
RejectAndGoOn(e) ==
    /\ ex[e].pc = "reject"
    /\ owner = Nobody
    /\ channels' = channels \cup {Ch(e)}
    /\ EraseNodes(Ch(e), {Key(e)})
    /\ kicked' = kicked \cup {ex[e].c}
    /\ Goto(e, "dispatch")
    /\ UNCHANGED <<sockets, tasks, owner, undefined, accepted, reached,
                   others>>

Reject(e) ==
    /\ ex[e].pc = "reject"
    /\ owner = Nobody
    /\ channels' = channels \cup {Ch(e)}
    /\ EraseNodes(Ch(e), {Key(e)})
    /\ kicked' = kicked \cup {ex[e].c}
    /\ Done(e)
    /\ UNCHANGED <<sockets, tasks, owner, undefined, accepted, reached,
                   others>>

(* Mutant: only the name is written. *)
AcceptNameOnly(e) ==
    /\ ex[e].pc = "accept"
    /\ owner = Nobody
    /\ ref[e]
    /\ clients' = [clients EXCEPT ![Ch(e)][Key(e)].name = NameIn(ex[e].m)]
    /\ accepted' = accepted \cup {ex[e].c}
    /\ LastUse(e)
    /\ Goto(e, "presence")
    /\ UNCHANGED <<sockets, tasks, channels, owner, undefined, kicked, reached,
                   others>>

Accept(e) ==
    /\ ex[e].pc = "accept"
    /\ owner = Nobody
    /\ ref[e]
    /\ clients' = [clients EXCEPT ![Ch(e)][Key(e)].authenticated = TRUE,
                                  ![Ch(e)][Key(e)].name = NameIn(ex[e].m)]
    /\ accepted' = accepted \cup {ex[e].c}
    /\ LastUse(e)
    /\ Goto(e, "presence")
    /\ UNCHANGED <<sockets, tasks, channels, owner, undefined, kicked, reached,
                   others>>

(* CSTATUS from an administrator is answered with a listing of m_clients,   *)
(* everything else is broadcast.                                            *)
MessageDispatch(e) ==
    /\ ex[e].pc = "dispatch"
    /\ ref[e]
    /\ LET n == clients[Ch(e)][Key(e)] IN
         IF n.authenticated /\ n.name = "admin" /\ ex[e].m = "status"
         THEN Done(e)
         ELSE Goto(e, "broadcast")
    /\ LastUse(e)
    /\ UNCHANGED <<sockets, tasks, registry, owner, undefined, history>>

-----------------------------------------------------------------------------
(* broadcast: nothing is locked while it iterates. *)

(* The two loops: through the clients of the channel, then through the      *)
(* channels.                                                                *)
ToCleanup(e) == [Idle EXCEPT !.pc = "cleanup", !.c = ex[e].c, !.m = ex[e].m]
BroadcastTo(e, nodes) == StepTo(e, "broadcastLoop", nodes, ToCleanup(e))
BroadcastNext(e) == BroadcastTo(e, ex[e].todo \cap Present(Ch(e)))
CleanupTo(e, nodes) == StepTo(e, "cleanupLoop", nodes, Idle)

BroadcastStart(e) ==
    /\ ex[e].pc = "broadcast"
    /\ channels' = channels \cup {Ch(e)}
    /\ BroadcastTo(e, Present(Ch(e)))
    /\ UNCHANGED <<sockets, tasks, clients, owner, undefined, history>>

(* Mutant: clients that have not authenticated receive too. *)
ReceivesAnyway(e, k) == k # Key(e)

Receives(e, k) ==
    /\ k # Key(e)
    /\ m_authenticator => clients[Ch(e)][k].authenticated

BroadcastSkip(e) ==
    /\ ex[e].pc = "broadcastLoop" /\ ref[e]
    /\ ~Receives(e, ex[e].at)
    /\ BroadcastNext(e)
    /\ UNCHANGED <<sockets, tasks, registry, owner, undefined, history>>

BroadcastSend(e) ==
    /\ ex[e].pc = "broadcastLoop" /\ ref[e]
    /\ LET con == clients[Ch(e)][ex[e].at].con IN
         /\ Receives(e, ex[e].at) /\ Alive(con)
         /\ reached' = reached \cup {con}
    /\ BroadcastNext(e)
    /\ UNCHANGED <<sockets, tasks, registry, owner, undefined, accepted,
                   kicked,
                   others>>

(* remove_client erases the node on which the loop stands. *)
BroadcastRemove(e) ==
    /\ ex[e].pc = "broadcastLoop" /\ ref[e]
    /\ Receives(e, ex[e].at)
    /\ ~Alive(clients[Ch(e)][ex[e].at].con)
    /\ CallRemove(e, ex[e].at, "broadcastLoop")
    /\ UNCHANGED <<sockets, tasks, registry, owner, ref, undefined, history>>

CleanupStart(e) ==
    /\ ex[e].pc = "cleanup"
    /\ CleanupTo(e, channels)
    /\ UNCHANGED <<sockets, tasks, registry, owner, undefined, history>>

CleanupSkip(e) ==
    /\ ex[e].pc = "cleanupLoop" /\ ref[e]
    /\ Present(ex[e].at) # {}
    /\ CleanupTo(e, ex[e].todo \cap channels)
    /\ UNCHANGED <<sockets, tasks, registry, owner, undefined, history>>

(* The test for an empty channel is made without the mutex, the erasure     *)
(* with it; the loop stands on the node of the channel.                     *)
CleanupTest(e) ==
    /\ ex[e].pc = "cleanupLoop" /\ ref[e]
    /\ Present(ex[e].at) = {}
    /\ Goto(e, "eraseChannel")
    /\ UNCHANGED <<sockets, tasks, registry, owner, ref, undefined, history>>

EraseChannel(e) ==
    /\ ex[e].pc = "eraseChannel" /\ ref[e]
    /\ owner = Nobody
    /\ DropChannel(ex[e].at)
    /\ Goto(e, "cleanupLoop")
    /\ UNCHANGED <<sockets, tasks, owner, undefined, history>>

-----------------------------------------------------------------------------
(* on_close *)

CloseIgnored(e) ==
    /\ ex[e].pc = "close"
    /\ Ch(e) = EmptyName
    /\ Done(e)
    /\ UNCHANGED <<sockets, tasks, registry, owner, ref, undefined, history>>

(* Mutant: a client that never authenticated is not removed. *)
CloseAuthenticatedOnly(e) ==
    /\ ex[e].pc = "close"
    /\ Ch(e) # EmptyName
    /\ IF clients[Ch(e)][Key(e)].authenticated
       THEN CallRemove(e, Key(e), "presence")
       ELSE Done(e)
    /\ UNCHANGED <<sockets, tasks, registry, owner, ref, undefined, history>>

(* operator[] reads the flag, and creates the entry when it is gone. *)
CloseFind(e) ==
    /\ ex[e].pc = "close"
    /\ Ch(e) # EmptyName
    /\ Find(Ch(e), Key(e))
    /\ LET was == clients[Ch(e)][Key(e)].authenticated IN
         CallRemove(e, Key(e),
                    IF was \/ ~m_authenticator THEN "presence" ELSE "idle")
    /\ UNCHANGED <<sockets, tasks, owner, ref, undefined, history>>

(* remove_client *)

RemoveLock(e) ==
    /\ ex[e].pc = "rmLock"
    /\ owner = Nobody
    /\ owner' = e
    /\ channels' = channels \cup {Ch(e)}
    /\ EraseNodes(Ch(e), {ex[e].at})
    /\ Goto(e, "rmDrop")
    /\ UNCHANGED <<sockets, tasks, undefined, history>>

(* Mutant: the mutex is not released. *)
RemoveKeepLock(e) ==
    /\ ex[e].pc = "rmDrop"
    /\ IF Present(Ch(e)) = {} THEN DropChannel(Ch(e))
                              ELSE UNCHANGED <<registry, ref>>
    /\ IF ex[e].back = "idle" THEN Done(e) ELSE Goto(e, ex[e].back)
    /\ UNCHANGED <<sockets, tasks, owner, undefined, history>>

RemoveDrop(e) ==
    /\ ex[e].pc = "rmDrop"
    /\ IF Present(Ch(e)) = {} THEN DropChannel(Ch(e))
                              ELSE UNCHANGED <<registry, ref>>
    /\ owner' = Nobody
    /\ IF ex[e].back = "idle" THEN Done(e) ELSE Goto(e, ex[e].back)
    /\ UNCHANGED <<sockets, tasks, undefined, history>>

-----------------------------------------------------------------------------
(* send_channel_presence *)

PresenceTo(e, nodes) == StepTo(e, "presenceLoop", nodes, Idle)
PresenceNext(e) == PresenceTo(e, ex[e].todo \cap Present(Ch(e)))

PresenceStart(e) ==
    /\ ex[e].pc = "presence"
    /\ PresenceTo(e, IF Ch(e) \in channels THEN Present(Ch(e)) ELSE {})
    /\ UNCHANGED <<sockets, tasks, registry, owner, undefined, history>>

Named(ch) == {k \in Present(ch) : clients[ch][k].authenticated}

PresenceSkip(e) ==
    /\ ex[e].pc = "presenceLoop" /\ ref[e]
    /\ ex[e].at \notin Named(Ch(e))
    /\ PresenceNext(e)
    /\ UNCHANGED <<sockets, tasks, registry, owner, undefined, history>>

(* Mutant: only the clients after this one in the map are listed, as when   *)
(* the inner loop starts at the receiver.                                   *)
PresenceSendAlone(e) ==
    /\ ex[e].pc = "presenceLoop" /\ ref[e]
    /\ LET con == clients[Ch(e)][ex[e].at].con IN
         /\ ex[e].at \in Named(Ch(e)) /\ Alive(con)
         /\ others' = [others EXCEPT ![con] = ex[e].todo \cap Named(Ch(e))]
    /\ PresenceNext(e)
    /\ UNCHANGED <<sockets, tasks, registry, owner, undefined, accepted,
                   kicked,
                   reached>>

PresenceSend(e) ==
    /\ ex[e].pc = "presenceLoop" /\ ref[e]
    /\ LET con == clients[Ch(e)][ex[e].at].con IN
         /\ ex[e].at \in Named(Ch(e)) /\ Alive(con)
         /\ others' = [others EXCEPT ![con] = Named(Ch(e)) \ {ex[e].at}]
    /\ PresenceNext(e)
    /\ UNCHANGED <<sockets, tasks, registry, owner, undefined, accepted,
                   kicked,
                   reached>>

PresenceRemove(e) ==
    /\ ex[e].pc = "presenceLoop" /\ ref[e]
    /\ ex[e].at \in Named(Ch(e))
    /\ ~Alive(clients[Ch(e)][ex[e].at].con)
    /\ CallRemove(e, ex[e].at, "presenceLoop")
    /\ UNCHANGED <<sockets, tasks, registry, owner, ref, undefined, history>>

-----------------------------------------------------------------------------
(* The next use of a reference or an iterator whose node has been erased:   *)
(* a read, a write behind the mutex, the key of a channel, the ++ of a loop.*)
UsesErased(e) ==
    /\ ~ref[e]
    /\ \/ ex[e].pc = "check" /\ m_authenticator
       \/ ex[e].pc \in {"accept", "eraseChannel"} /\ owner = Nobody
       \/ ex[e].pc \in {"dispatch", "broadcastLoop", "cleanupLoop",
                         "presenceLoop"}
    /\ undefined' = TRUE
    /\ UNCHANGED <<sockets, tasks, registry, owner, ex, ref, history>>

-----------------------------------------------------------------------------
Opening(e) == OpenRefused(e) \/ OpenLock(e) \/ OpenClient(e)
Message(e) == MessageIgnored(e) \/ MessageFind(e) \/ MessageCheck(e)
                \/ Reject(e) \/ Accept(e) \/ MessageDispatch(e)
Broadcast(e) == BroadcastStart(e) \/ BroadcastSkip(e) \/ BroadcastSend(e)
                  \/ BroadcastRemove(e)
Cleanup(e) == CleanupStart(e) \/ CleanupSkip(e) \/ CleanupTest(e)
                \/ EraseChannel(e)
Closing(e) == CloseIgnored(e) \/ CloseFind(e)
Remove(e) == RemoveLock(e) \/ RemoveDrop(e)
Presence(e) == PresenceStart(e) \/ PresenceSkip(e) \/ PresenceSend(e)
                 \/ PresenceRemove(e)

Handler(e) == Opening(e) \/ Message(e) \/ Broadcast(e) \/ Cleanup(e)
                \/ Closing(e) \/ Remove(e) \/ Presence(e) \/ UsesErased(e)

IoEvent(c) == IoOpen(c) \/ IoClose(c) \/ IoError(c)
                \/ \E m \in Messages[m_tpool][c] : IoMessage(c, m)

Runs(e) == ~undefined /\ (StartTask(e) \/ Handler(e))

Next ==
    \/ ~undefined /\ \E c \in Conns : IoEvent(c) \/ Free(c)
    \/ \E e \in Executors : Runs(e)

Spec == Init /\ [][Next]_vars

(* The pool takes what waits and every thread runs on; peers need do        *)
(* nothing.  Weak fairness is enough for the mutex: the handlers that       *)
(* compete for it are finitely many and each ends.                          *)
Fairness == \A e \in Executors : WF_vars(Runs(e))
FairSpec == Spec /\ Fairness

-----------------------------------------------------------------------------
(* Properties *)

Quiet == tasks = <<>> /\ \A e \in Executors : ex[e].pc = "idle"

Usable(c) == ChannelOf[c] # EmptyName
Entry(c) == clients[ChannelOf[c]][KeyOf[c]]

(* An open connection that was not turned away is listed once the handlers  *)
(* have nothing left to do.                                                 *)
OpenClientListed ==
    Quiet => \A c \in Conns :
                (Usable(c) /\ conn[c] = "open" /\ c \notin kicked)
                    => Entry(c).con = c

(* What is listed with a connection is an open connection, once the         *)
(* handlers have nothing left to do.                                        *)
ListedIsOpen ==
    Quiet => \A c \in Conns :
                (Usable(c) /\ Entry(c).con = c) => conn[c] = "open"

(* "Delete channel if no clients left": when the handlers have nothing left *)
(* to do, a channel all of whose connections are closed is not a key of     *)
(* m_clients any more.                                                      *)
NoChannelLeft ==
    Quiet => \A ch \in channels :
                \E c \in Conns : ChannelOf[c] = ch /\ conn[c] = "open"

(* Inline, the registry is what the connections are whenever the handlers   *)
(* have nothing left to do: the open ones that were not turned away under   *)
(* their channel and key, no others, and no channel without a client.       *)
RegistryMatchesConnections ==
    ~m_tpool => OpenClientListed /\ ListedIsOpen /\ NoChannelLeft

(* A client that has passed authentication is not turned away afterwards.   *)
KeepsAccepted == \A c \in accepted : c \in kicked' => c \in kicked
AcceptedNotKicked == [][KeepsAccepted]_vars

(* Inline, a client that has passed authentication is not turned away       *)
(* afterwards, whatever it sends.                                           *)
AcceptedNotKickedInline == [][~m_tpool => KeepsAccepted]_vars

(* "must be authenticated to receive messages": with an authenticator only  *)
(* connections that passed it are sent what others broadcast.               *)
(* FALSE of the code on the pool when an address and port comes again: the  *)
(* message task of the old connection then marks the entry of the new one.  *)
ReceiverPassed == m_authenticator => reached \subseteq accepted

KeysDistinct ==
    \A c, d \in Peers[m_tpool] : KeyOf[c] = KeyOf[d] => c = d

(* It holds for handlers that run inline, and on the pool as long as no     *)
(* peer comes from an address and port another one came from: however the   *)
(* tasks of a connection overtake each other, what is marked authenticated  *)
(* is the entry of the connection that passed.  Nothing can be said any     *)
(* more once an erased node has been written.                               *)
OnlyAcceptedReached ==
    (~undefined /\ (m_tpool => KeysDistinct)) => ReceiverPassed

(* Inline, nobody is missing from a presence list: every other              *)
(* authenticated client of the channel is in the last list a client was     *)
(* sent, or a handler is still at work.  (A list may name a client that has *)
(* left: on_error sends no new list.)                                       *)
PresenceComplete ==
    (~m_tpool /\ Quiet) => \A c \in Conns :
        (Usable(c) /\ Entry(c).con = c /\ Entry(c).authenticated)
            => Named(ChannelOf[c]) \ {KeyOf[c]} \subseteq others[c]

(* Inline, the node this_client refers to is not erased before its last     *)
(* use, and no loop goes on from a node it has erased unless a client was   *)
(* turned away: it leaves an empty channel, and a message it still sends an *)
(* entry without a connection.                                              *)
ReferenceValid ==
    ~m_tpool =>
        /\ \A e \in Executors :
              ex[e].pc \in {"check", "accept", "dispatch"} => ref[e]
        /\ undefined => kicked # {}

(* "Mean the client has gone away" (an entry whose connection cannot be     *)
(* locked is removed): inline no use of a node that has been erased.        *)
(* FALSE of the code: remove_client and the deletion of empty channels      *)
(* erase the node on which their range-for stands.                          *)
NoErasedNodeUsed == ~undefined

(* No handler is stuck, on the mutex or in a loop: again and again          *)
(* everything dispatched has been worked off, unless an erased node has     *)
(* been used.                                                               *)
HandlersFinish == []<>(Quiet \/ undefined)
=============================================================================
