------------------------------- MODULE Logger -------------------------------
(* jahan::file::Logger (src/lib/jahan/file/logger.cpp): a queue of messages *)
(* that any thread extends, and save, which the logger thread calls every   *)
(* few minutes (and others before they exit), and which writes the queue to *)
(* one file per level.  save holds m_queue_mutex from its beginning to its  *)
(* end; inside it every file operation is a step.                           *)
(* The disk is the environment: a file can be opened or not, a write        *)
(* succeeds or not, and a day passes.                                       *)
EXTENDS Naturals, Sequences, FiniteSets

CONSTANTS
    Threads,    \* threads that call log and save
    Messages,   \* each is logged at most once
    Levels,
    LevelOf,    \* level of each message
    Nobody      \* m_queue_mutex is free

ASSUME LevelsAssumption == LevelOf \in [Messages -> Levels]
ASSUME NobodyAssumption == Nobody \notin Threads

VARIABLES
    m_log_queue,
    owner,      \* who holds m_queue_mutex during save, or Nobody
    ret,        \* local to save: no file has failed to open
    opened,     \* local to save: the levels in its map f of open files
    bad,        \* those of them whose stream has failed
    old,        \* messages that are more than 1440 minutes old
    files,      \* what each level's file contains
    logged,     \* history: all messages in the order of log
    dropped,    \* history: messages given up because they are old
    lost        \* history: messages whose write failed

local == <<ret, opened, bad>>
vars == <<m_log_queue, owner, ret, opened, bad, old, files, logged, dropped,
          lost>>

TypeOK ==
    /\ m_log_queue \in Seq(Messages)
    /\ owner \in Threads \cup {Nobody}
    /\ ret \in BOOLEAN
    /\ opened \in SUBSET Levels
    /\ bad \in SUBSET opened
    /\ old \in SUBSET Messages
    /\ files \in [Levels -> Seq(Messages)]
    /\ logged \in Seq(Messages)
    /\ dropped \in SUBSET Messages
    /\ lost \in SUBSET Messages

Elements(s) == {s[i] : i \in DOMAIN s}

Init ==
    /\ m_log_queue = <<>>
    /\ owner = Nobody
    /\ ret = TRUE
    /\ opened = {}
    /\ bad = {}
    /\ old = {}
    /\ files = [l \in Levels |-> <<>>]
    /\ logged = <<>>
    /\ dropped = {}
    /\ lost = {}

-----------------------------------------------------------------------------
Log(m) ==
    /\ owner = Nobody
    /\ m \notin Elements(logged)
    /\ m_log_queue' = Append(m_log_queue, m)
    /\ logged' = Append(logged, m)
    /\ UNCHANGED <<owner, local, old, files, dropped, lost>>

(* A day after it was logged a message is old. *)
Age(m) ==
    /\ m \in Elements(m_log_queue)
    /\ m \notin old
    /\ old' = old \cup {m}
    /\ UNCHANGED <<m_log_queue, owner, local, files, logged, dropped, lost>>

-----------------------------------------------------------------------------
(* save *)

SaveBegin(t) ==
    /\ owner = Nobody
    /\ owner' = t
    /\ ret' = TRUE
    /\ opened' = {}
    /\ bad' = {}
    /\ UNCHANGED <<m_log_queue, old, files, logged, dropped, lost>>

Front == Head(m_log_queue)
Pop == m_log_queue' = Tail(m_log_queue)

(* The condition of the loop. *)
Saving(t) == owner = t /\ m_log_queue # <<>> /\ ret

(* The level's file is opened, when this save has not done so before. *)
Opened(t) ==
    /\ Saving(t)
    /\ LevelOf[Front] \notin opened
    /\ opened' = opened \cup {LevelOf[Front]}
    /\ UNCHANGED <<m_log_queue, owner, ret, bad, old, files, logged, dropped,
                   lost>>

(* Mutant: a message whose file cannot be opened is never given up. *)
NotOpenedKeep(t) ==
    /\ Saving(t)
    /\ LevelOf[Front] \notin opened
    /\ ret' = FALSE
    /\ UNCHANGED <<m_log_queue, owner, opened, bad, old, files, logged,
                   dropped, lost>>

(* The file cannot be opened: this save ends, and its front message is      *)
(* given up if it is old.                                                   *)
NotOpened(t) ==
    /\ Saving(t)
    /\ LevelOf[Front] \notin opened
    /\ ret' = FALSE
    /\ IF Front \in old
       THEN Pop /\ dropped' = dropped \cup {Front}
       ELSE UNCHANGED <<m_log_queue, dropped>>
    /\ UNCHANGED <<owner, opened, bad, old, files, logged, lost>>

(* Mutant: the message is not popped. *)
WrittenTwice(t) ==
    /\ Saving(t)
    /\ LevelOf[Front] \in opened \ bad
    /\ files' = [files EXCEPT ![LevelOf[Front]] = Append(@, Front)]
    /\ UNCHANGED <<m_log_queue, owner, local, old, logged, dropped, lost>>

(* Mutant: the queue is written from its end. *)
WrittenBackwards(t) ==
    LET n == Len(m_log_queue)
        last == m_log_queue[n]
    IN  /\ Saving(t)
        /\ LevelOf[last] \in opened \ bad
        /\ files' = [files EXCEPT ![LevelOf[last]] = Append(@, last)]
        /\ m_log_queue' = SubSeq(m_log_queue, 1, n - 1)
        /\ UNCHANGED <<owner, local, old, logged, dropped, lost>>

Written(t) ==
    /\ Saving(t)
    /\ LevelOf[Front] \in opened \ bad
    /\ files' = [files EXCEPT ![LevelOf[Front]] = Append(@, Front)]
    /\ Pop
    /\ UNCHANGED <<owner, local, old, logged, dropped, lost>>

(* The write fails, as it does on every stream that has failed before.      *)
(* Nobody looks at the stream's state: the message is popped all the same.  *)
NotWritten(t) ==
    /\ Saving(t)
    /\ LevelOf[Front] \in opened
    /\ bad' = bad \cup {LevelOf[Front]}
    /\ lost' = lost \cup {Front}
    /\ Pop
    /\ UNCHANGED <<owner, ret, opened, old, files, logged, dropped>>

SaveEnd(t) ==
    /\ owner = t
    /\ ~Saving(t)
    /\ owner' = Nobody
    /\ ret' = TRUE /\ opened' = {} /\ bad' = {}
    /\ UNCHANGED <<m_log_queue, old, files, logged, dropped, lost>>

-----------------------------------------------------------------------------
SaveStep(t) == Opened(t) \/ NotOpened(t) \/ Written(t) \/ NotWritten(t)
                 \/ SaveEnd(t)

Next ==
    \/ \E m \in Messages : Log(m) \/ Age(m)
    \/ \E t \in Threads : SaveBegin(t) \/ SaveStep(t)

Spec == Init /\ [][Next]_vars

(* thread_loop calls save again and again, a save runs to its end, and time *)
(* passes.  The disk owes nothing.                                          *)
Fairness ==
    /\ WF_vars(\E t \in Threads : SaveBegin(t) \/ SaveStep(t))
    /\ \A m \in Messages : WF_vars(Age(m))

FairSpec == Spec /\ Fairness

-----------------------------------------------------------------------------
(* Properties *)

InFiles == UNION {Elements(files[l]) : l \in Levels}

(* A message that was logged is in exactly one place: waiting, in a file,   *)
(* dropped because it is old, or lost on a stream that failed.              *)
OnePlace ==
    LET places == <<Elements(m_log_queue), InFiles, dropped, lost>> IN
    /\ UNION Elements(places) = Elements(logged)
    /\ \A i, j \in DOMAIN places : i # j => places[i] \cap places[j] = {}

Position(m) == CHOOSE i \in DOMAIN logged : logged[i] = m

Ascending(s) ==
    \A i, j \in DOMAIN s : i < j => Position(s[i]) < Position(s[j])

(* A file holds messages of its level, each once, in the order they were    *)
(* logged, whatever could not be opened or written in between; and all of   *)
(* them were logged before the messages of that level that still wait.      *)
FileOrder ==
    \A l \in Levels :
        /\ Ascending(files[l])
        /\ \A m \in Elements(files[l]) :
              /\ LevelOf[m] = l
              /\ \A w \in Elements(m_log_queue) : Position(m) < Position(w)

(* A message does not wait for ever, even if no file can ever be opened:    *)
(* each save gives up the message at the front once it is old.              *)
EveryMessageLeaves ==
    \A m \in Messages :
        m \in Elements(m_log_queue) ~> m \notin Elements(m_log_queue)

(* "log has not been save for more than 1 day (1440 min). Just drop it.": a *)
(* message that is not old is not thrown away.                              *)
(* FALSE of the code: the result of the write is not looked at.             *)
OnlyOldDropped == lost \subseteq old
==============================================================================
