---------------------------- MODULE SignalManager ----------------------------
(* jahan::signal::Manager (src/lib/jahan/signal/manager.cpp): a handler     *)
(* that notes a signal in two static variables, and a loop that looks at    *)
(* them once a second and reports what it finds.  ThreadPool runs the loop  *)
(* in its signal thread, and every worker calls setup_handler when it       *)
(* starts.                                                                  *)
(* Each access to m_run and m_sig_caught, which are volatile, is one step.  *)
(* A handler masks all signals, but only in the thread it interrupts: two   *)
(* handlers may run at once in two threads.                                 *)
EXTENDS Naturals, Sequences, FiniteSets

CONSTANTS
    Runners,    \* threads that call setup_handler, once each
    Signals,    \* signal numbers, each delivered at most once
    NoSignal    \* 0

ASSUME SignalsAssumption == Signals \subseteq Nat \ {0}
ASSUME NoSignalAssumption == NoSignal = 0

VARIABLES
    m_run,
    m_sig_caught,
    configured,  \* logger and user_notify_callback are set
    installed,   \* sigaction was called: signals do not end the process
    setup,       \* where each worker is in setup_handler
    handlers,    \* signals whose handler has written m_run only
    loop,        \* where the signal thread is
    message,     \* the signal number in the text it is about to log
    delivered,   \* history: the signals whose handler has begun
    logged,      \* history: the signal numbers that were logged
    notified     \* history: the arguments of user_notify_callback

signalVars == <<m_run, m_sig_caught, configured, installed, setup, handlers, loop,
          message, delivered, logged, notified>>

Numbers == Signals \cup {NoSignal}

SignalTypeOK ==
    /\ m_run \in BOOLEAN
    /\ m_sig_caught \in Numbers
    /\ configured \in BOOLEAN
    /\ installed \in BOOLEAN
    /\ setup \in [Runners -> {"new", "clear", "install", "done"}]
    /\ handlers \in SUBSET delivered
    /\ loop \in {"poll", "message", "log", "notify", "clear", "run"}
    /\ message \in Numbers
    /\ delivered \in SUBSET Signals
    /\ logged \in Seq(Numbers)
    /\ notified \in Seq(Numbers)

(* Static variables start as zero: m_run says "stopped" until the first     *)
(* setup_handler.                                                           *)
SignalInit ==
    /\ m_run = FALSE
    /\ m_sig_caught = NoSignal
    /\ configured = FALSE
    /\ installed = FALSE
    /\ setup = [w \in Runners |-> "new"]
    /\ handlers = {}
    /\ loop = "poll"
    /\ message = NoSignal
    /\ delivered = {}
    /\ logged = <<>>
    /\ notified = <<>>

-----------------------------------------------------------------------------
(* setup_handler *)

SetupRun(w) ==
    /\ setup[w] = "new"
    /\ setup' = [setup EXCEPT ![w] = "clear"]
    /\ configured' = TRUE
    /\ m_run' = TRUE
    /\ UNCHANGED <<m_sig_caught, installed, handlers, loop, message, delivered,
                   logged, notified>>

SetupClear(w) ==
    /\ setup[w] = "clear"
    /\ setup' = [setup EXCEPT ![w] = "install"]
    /\ m_sig_caught' = NoSignal
    /\ UNCHANGED <<m_run, configured, installed, handlers, loop, message,
                   delivered, logged, notified>>

SetupInstall(w) ==
    /\ setup[w] = "install"
    /\ setup' = [setup EXCEPT ![w] = "done"]
    /\ installed' = TRUE
    /\ UNCHANGED <<m_run, m_sig_caught, configured, handlers, loop, message,
                   delivered, logged, notified>>

-----------------------------------------------------------------------------
(* The handler: m_run = 0, then m_sig_caught = signum.                      *)

HandlerRun(s) ==
    /\ installed
    /\ s \notin delivered
    /\ delivered' = delivered \cup {s}
    /\ handlers' = handlers \cup {s}
    /\ m_run' = FALSE
    /\ UNCHANGED <<m_sig_caught, configured, installed, setup, loop, message,
                   logged, notified>>

HandlerSig(s) ==
    /\ s \in handlers
    /\ handlers' = handlers \ {s}
    /\ m_sig_caught' = s
    /\ UNCHANGED <<m_run, configured, installed, setup, loop, message,
                   delivered, logged, notified>>

-----------------------------------------------------------------------------
(* thread_loop and handle_signal *)

Step(from, to) == loop = from /\ loop' = to

Poll ==
    /\ Step("poll", "message")
    /\ ~m_run
    /\ UNCHANGED <<m_run, m_sig_caught, configured, installed, setup, handlers,
                   message, delivered, logged, notified>>

(* Mutant: the number is reset as soon as it has been read. *)
ReadAndClear ==
    /\ Step("message", "log")
    /\ message' = m_sig_caught
    /\ m_sig_caught' = NoSignal
    /\ UNCHANGED <<m_run, configured, installed, setup, handlers, delivered,
                   logged, notified>>

ReadMessage ==
    /\ Step("message", "log")
    /\ message' = m_sig_caught
    /\ UNCHANGED <<m_run, m_sig_caught, configured, installed, setup, handlers,
                   delivered, logged, notified>>

(* To the logger, or to cerr when there is none. *)
LogMessage ==
    /\ Step("log", "notify")
    /\ logged' = Append(logged, message)
    /\ UNCHANGED <<m_run, m_sig_caught, configured, installed, setup, handlers,
                   message, delivered, notified>>

Notify ==
    /\ Step("notify", "clear")
    /\ notified' = IF configured THEN Append(notified, m_sig_caught)
                                 ELSE notified
    /\ UNCHANGED <<m_run, m_sig_caught, configured, installed, setup, handlers,
                   message, delivered, logged>>

(* Mutant: the number is not reset. *)
ClearNothing ==
    /\ Step("clear", "run")
    /\ UNCHANGED <<m_run, m_sig_caught, configured, installed, setup, handlers,
                   message, delivered, logged, notified>>

Clear ==
    /\ Step("clear", "run")
    /\ m_sig_caught' = NoSignal
    /\ UNCHANGED <<m_run, configured, installed, setup, handlers, message,
                   delivered, logged, notified>>

Run ==
    /\ Step("run", "poll")
    /\ m_run' = TRUE
    /\ UNCHANGED <<m_sig_caught, configured, installed, setup, handlers,
                   message, delivered, logged, notified>>

-----------------------------------------------------------------------------
Setup(w) == SetupRun(w) \/ SetupClear(w) \/ SetupInstall(w)
Loop == Poll \/ ReadMessage \/ LogMessage \/ Notify \/ Clear \/ Run

SignalNext ==
    \/ \E w \in Runners : Setup(w)
    \/ \E s \in Signals : HandlerRun(s) \/ HandlerSig(s)
    \/ Loop

SignalSpec == SignalInit /\ [][SignalNext]_signalVars

(* The signal thread, the workers and a handler that has begun run on.      *)
(* No signal has to come.                                                   *)
SignalFairness ==
    /\ \A w \in Runners : WF_signalVars(Setup(w))
    /\ \A s \in Signals : WF_signalVars(HandlerSig(s))
    /\ WF_signalVars(Loop)

SignalFairSpec == SignalSpec /\ SignalFairness

-----------------------------------------------------------------------------
(* Properties *)

(* A signal is notified at most once, and only one that came: a new signal  *)
(* that has set m_run but not its number does not make the loop report the  *)
(* one before again.                                                        *)
NotifiedOnce ==
    /\ \A i \in DOMAIN notified : notified[i] \in delivered \cup {NoSignal}
    /\ \A i, j \in DOMAIN notified :
          (notified[i] = notified[j] /\ notified[i] # NoSignal) => i = j

(* The loop sees a signal that comes alone: its handler is over, the loop   *)
(* is between two looks, and all workers have called setup_handler.  Then   *)
(* it is notified, unless another signal comes before.                      *)
LoneSignalNotified ==
    \A s \in Signals : \A D \in SUBSET Signals :
        (/\ loop = "poll" /\ ~m_run /\ m_sig_caught = s /\ handlers = {}
         /\ \A w \in Runners : setup[w] = "done"
         /\ delivered = D)
            ~> (delivered # D \/ \E i \in DOMAIN notified : notified[i] = s)

(* "in event of signal trigger": every signal that was delivered is         *)
(* reported.                                                                *)
(* FALSE of the code: the loop may clear what a handler has just written,   *)
(* another handler may overwrite it, and setup_handler resets it.           *)
EverySignalReported ==
    \A s \in Signals :
        s \in delivered ~> (\E i \in DOMAIN notified : notified[i] = s)

(* "in event of signal trigger": nothing is reported before a signal came.  *)
(* FALSE of the code: m_run is 0 until the first setup_handler.             *)
ReportNeedsSignal == logged # <<>> => delivered # {}
==============================================================================
