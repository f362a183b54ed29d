-------------------------- MODULE ServerLifecycle --------------------------
(***************************************************************************)
(* serve_with_config of src/adapters/server/lifecycle.rs: the accept loop, *)
(* the channel to the worker pool, panic containment, the shutdown signal  *)
(* with its flag and self-pipe, the drain period and the bounded wait for  *)
(* the workers.                                                            *)
(*                                                                         *)
(* Time is discrete, and the main thread is prompt: the clock only moves   *)
(* while that thread is blocked (in poll(2), or on the condition variable  *)
(* of the worker it waits for).  Workers may take any time.                *)
(***************************************************************************)
EXTENDS Integers, Sequences, FiniteSets

CONSTANTS
  Conns,        \* client connections
  PoolSize,     \* worker_pool_size: workers 1..PoolSize, joined in order
  Drains,       \* values of TRUSS_SHUTDOWN_DRAIN_SECS a start may use
  WorkerDrain,  \* the 15 s budget for the workers
  Spurious,     \* bound: wakeups of the condition variable nobody asked for
  SignalBy,     \* bound: signals arrive up to this time
  MaxSignals,   \* bound: signals sent
  MaxTime,      \* bound: the clock stops here
  Never

Workers == 1..PoolSize

ASSUME LifecycleAssumption ==
  /\ PoolSize \in Nat \ {0}
  /\ Drains \subseteq Nat
  /\ {WorkerDrain, Spurious, SignalBy, MaxSignals, MaxTime} \subseteq Nat
  /\ Never \notin Nat
  /\ IsFiniteSet(Conns) /\ {"idle", "exited"} \cap Conns = {}

VARIABLES
  clock,
  drain,      \* shutdown_drain_secs of this process
  main,       \* where the main thread is
  draining,   \* config.draining
  pipe,       \* the self-pipe has a byte
  handler,    \* a signal handler is between its two steps
  signals,    \* signals sent so far
  deadline,   \* drain_deadline, or Never
  joinBy,     \* deadline of the worker drain, or Never
  joining,    \* the worker the main thread waits for
  patience,   \* `remaining` of the current wait
  waitEnd,    \* when that wait times out
  spurious,   \* spurious wakeups so far
  backlog,    \* connections the kernel completed, in order
  queue,      \* the channel
  conn,       \* state of each connection
  worker,     \* per worker: "idle", "exited", or a connection
  panics,     \* CONNECTION_PANICS_TOTAL
  signalAt    \* history: when the first signal set the flag

sockets == <<backlog, queue, conn>>
pool == <<worker, panics>>
signalling == <<draining, pipe, handler, signals, signalAt>>
joinVars == <<joinBy, joining, patience, waitEnd, spurious>>
vars == <<clock, drain, main, draining, pipe, handler, signals, deadline, joinBy,
          joining, patience, waitEnd, spurious, backlog, queue, conn, worker,
          panics, signalAt>>

ConnStates == {"new", "backlog", "queued", "serving", "answered", "refused", "dropped"}
Running == {"top", "poll", "check", "accept", "join", "waiting"}
Listening == {"top", "poll", "check", "accept"}

\* saturating_duration_since
Remaining(until) == IF until > clock THEN until - clock ELSE 0

Init ==
  /\ clock = 0
  /\ drain \in Drains
  /\ main = "top"
  /\ draining = FALSE
  /\ pipe = FALSE
  /\ handler = FALSE
  /\ signals = 0
  /\ deadline = Never
  /\ joinBy = Never
  /\ joining = 1
  /\ patience = 0
  /\ waitEnd = 0
  /\ spurious = 0
  /\ backlog = <<>>
  /\ queue = <<>>
  /\ conn = [c \in Conns |-> "new"]
  /\ worker = [w \in Workers |-> "idle"]
  /\ panics = 0
  /\ signalAt = Never

-----------------------------------------------------------------------------
(* The accept loop *)

\* The listener goes, and with it whatever nobody accepted; the channel closes
\* to senders; the worker drain starts.
Close ==
  /\ main' = "join"
  /\ conn' = [c \in Conns |-> IF conn[c] = "backlog" THEN "refused" ELSE conn[c]]
  /\ backlog' = <<>>
  /\ joinBy' = clock + WorkerDrain
  /\ UNCHANGED <<queue, joining, patience, waitEnd, spurious>>

\* Top of the loop: a drain period that is over ends it.
LoopTop ==
  /\ main = "top"
  /\ IF deadline # Never /\ Remaining(deadline) = 0
       THEN Close
       ELSE main' = "poll" /\ UNCHANGED <<sockets, joinVars>>
  /\ UNCHANGED <<clock, drain, signalling, deadline, pool>>

\* wait_for_accept_or_shutdown returns.
Wakes == backlog # <<>> \/ pipe \/ (deadline # Never /\ Remaining(deadline) = 0)

Poll ==
  /\ main = "poll"
  /\ Wakes
  /\ main' = "check"
  /\ UNCHANGED <<clock, drain, signalling, deadline, joinVars, sockets, pool>>

\* The byte in the pipe, or the flag, starts the drain once.
CheckSignal ==
  /\ main = "check"
  /\ pipe' = FALSE
  /\ IF (pipe \/ draining) /\ deadline = Never
       THEN IF drain = 0
              THEN Close /\ UNCHANGED deadline
              ELSE /\ deadline' = clock + drain
                   /\ main' = "accept"
                   /\ UNCHANGED <<sockets, joinVars>>
       ELSE main' = "accept" /\ UNCHANGED <<deadline, sockets, joinVars>>
  /\ UNCHANGED <<clock, drain, draining, handler, signals, signalAt, pool>>

\* accept: a connection goes to the channel, or is closed when it cannot be
\* made blocking; WouldBlock retries; any other error ends the server at once.
Accept ==
  /\ main = "accept"
  /\ \/ /\ backlog # <<>>
        /\ backlog' = Tail(backlog)
        /\ \/ /\ queue' = Append(queue, Head(backlog))
              /\ conn' = [conn EXCEPT ![Head(backlog)] = "queued"]
           \/ /\ conn' = [conn EXCEPT ![Head(backlog)] = "dropped"]
              /\ UNCHANGED queue
        /\ main' = "top"
     \/ backlog = <<>> /\ main' = "top" /\ UNCHANGED <<backlog, queue, conn>>
     \/ main' = "failed" /\ UNCHANGED <<backlog, queue, conn>>
  /\ UNCHANGED <<clock, drain, signalling, deadline, joinVars, pool>>

-----------------------------------------------------------------------------
(* The worker drain *)

\* Mutant: every worker gets the whole budget.
JoinNextEach ==
  /\ main = "join"
  /\ IF joining > PoolSize
       THEN main' = "done" /\ UNCHANGED <<patience, waitEnd>>
       ELSE /\ main' = "waiting"
            /\ patience' = WorkerDrain
            /\ waitEnd' = clock + WorkerDrain
  /\ UNCHANGED <<clock, drain, signalling, deadline, joinBy, joining, spurious, sockets, pool>>

\* Next worker: give up when the budget is spent, otherwise start waiting.
JoinNext ==
  /\ main = "join"
  /\ IF joining > PoolSize \/ Remaining(joinBy) = 0
       THEN main' = "done" /\ UNCHANGED <<patience, waitEnd>>
       ELSE /\ main' = "waiting"
            /\ patience' = Remaining(joinBy)
            /\ waitEnd' = clock + Remaining(joinBy)
  /\ UNCHANGED <<clock, drain, signalling, deadline, joinBy, joining, spurious, sockets, pool>>

\* The worker ended, or wait_timeout did.
WaitOver ==
  /\ main = "waiting"
  /\ worker[joining] = "exited" \/ clock >= waitEnd
  /\ main' = "join"
  /\ joining' = joining + 1
  /\ UNCHANGED <<clock, drain, signalling, deadline, joinBy, patience, waitEnd, spurious,
                 sockets, pool>>

\* The condition variable wakes for nothing: the flag is still false, and the
\* wait starts again with the same timeout.
SpuriousWakeup ==
  /\ main = "waiting"
  /\ worker[joining] # "exited" /\ clock < waitEnd
  /\ spurious < Spurious
  /\ spurious' = spurious + 1
  /\ waitEnd' = clock + patience
  /\ UNCHANGED <<clock, drain, main, signalling, deadline, joinBy, joining, patience,
                 sockets, pool>>

-----------------------------------------------------------------------------
(* Workers *)

\* A worker takes the next connection from the channel.
Recv(w) ==
  /\ main \in Running
  /\ worker[w] = "idle" /\ queue # <<>>
  /\ worker' = [worker EXCEPT ![w] = Head(queue)]
  /\ conn' = [conn EXCEPT ![Head(queue)] = "serving"]
  /\ queue' = Tail(queue)
  /\ UNCHANGED <<clock, drain, main, signalling, deadline, joinVars, backlog, panics>>

\* handle_one_connection returns, with the connection served or its handler's
\* panic caught and counted.
Handled(w) ==
  /\ main \in Running
  /\ worker[w] \in Conns
  /\ worker' = [worker EXCEPT ![w] = "idle"]
  /\ \/ conn' = [conn EXCEPT ![worker[w]] = "answered"] /\ UNCHANGED panics
     \/ conn' = [conn EXCEPT ![worker[w]] = "dropped"] /\ panics' = panics + 1
  /\ UNCHANGED <<clock, drain, main, signalling, deadline, joinVars, backlog, queue>>

\* Mutant: a worker leaves when the sender is gone, whatever is queued.
ExitEarly(w) ==
  /\ main \in {"join", "waiting"}
  /\ worker[w] = "idle"
  /\ worker' = [worker EXCEPT ![w] = "exited"]
  /\ UNCHANGED <<clock, drain, main, signalling, deadline, joinVars, sockets, panics>>

\* Mutant: try_recv for recv, so an empty channel ends the worker.
ExitOnEmpty(w) ==
  /\ main \in Running
  /\ worker[w] = "idle" /\ queue = <<>>
  /\ worker' = [worker EXCEPT ![w] = "exited"]
  /\ UNCHANGED <<clock, drain, main, signalling, deadline, joinVars, sockets, panics>>

\* recv fails once the sender is gone and the channel is empty.
Exit(w) ==
  /\ main \in {"join", "waiting"}
  /\ worker[w] = "idle" /\ queue = <<>>
  /\ worker' = [worker EXCEPT ![w] = "exited"]
  /\ UNCHANGED <<clock, drain, main, signalling, deadline, joinVars, sockets, panics>>

-----------------------------------------------------------------------------
(* Clients, signals, time *)

\* A client connects: the kernel completes it while the listener is open.
Connect(c) ==
  /\ conn[c] = "new" /\ main \in Running
  /\ IF main \in Listening
       THEN /\ backlog' = Append(backlog, c)
            /\ conn' = [conn EXCEPT ![c] = "backlog"]
       ELSE /\ conn' = [conn EXCEPT ![c] = "refused"]
            /\ UNCHANGED backlog
  /\ UNCHANGED <<clock, drain, main, signalling, deadline, joinVars, queue, pool>>

\* signal_handler: the flag first, then the byte that wakes poll.
SignalFlag ==
  /\ main \in Running /\ ~handler
  /\ signals < MaxSignals /\ clock <= SignalBy
  /\ signals' = signals + 1
  /\ handler' = TRUE
  /\ draining' = TRUE
  /\ signalAt' = IF signalAt = Never THEN clock ELSE signalAt
  /\ UNCHANGED <<clock, drain, main, pipe, deadline, joinVars, sockets, pool>>

\* Mutant: the handler only sets the flag.
SignalPipeMissing ==
  /\ handler
  /\ handler' = FALSE
  /\ UNCHANGED <<clock, drain, main, draining, pipe, signals, signalAt, deadline, joinVars,
                 sockets, pool>>

\* The byte in the self-pipe.
SignalPipe ==
  /\ handler
  /\ handler' = FALSE
  /\ pipe' = TRUE
  /\ UNCHANGED <<clock, drain, main, draining, signals, signalAt, deadline, joinVars,
                 sockets, pool>>

\* Time passes only while the main thread is blocked and no handler runs.
Tick ==
  /\ clock < MaxTime /\ ~handler
  /\ \/ main = "poll" /\ ~Wakes
     \/ main = "waiting" /\ worker[joining] # "exited" /\ clock < waitEnd
  /\ clock' = clock + 1
  /\ UNCHANGED <<drain, main, signalling, deadline, joinVars, sockets, pool>>

Main == LoopTop \/ Poll \/ CheckSignal \/ Accept \/ JoinNext \/ WaitOver
Work(w) == Recv(w) \/ Handled(w) \/ Exit(w)

Next ==
  \/ Main \/ SpuriousWakeup
  \/ \E w \in Workers : Work(w)
  \/ \E c \in Conns : Connect(c)
  \/ SignalFlag \/ SignalPipe \/ Tick

Spec == Init /\ [][Next]_vars

\* The main thread and the clock keep going, and a signal handler runs to its
\* end.  Nothing is assumed of the workers.
StuckSpec == Spec /\ WF_vars(Main) /\ WF_vars(SignalPipe) /\ WF_vars(Tick)

-----------------------------------------------------------------------------
(* Properties *)

\* Types of the state.
TypeOK ==
  /\ clock \in 0..MaxTime /\ drain \in Drains
  /\ main \in Running \cup {"done", "failed"}
  /\ draining \in BOOLEAN /\ pipe \in BOOLEAN /\ handler \in BOOLEAN
  /\ signals \in 0..MaxSignals
  /\ deadline \in Nat \cup {Never} /\ joinBy \in Nat \cup {Never}
  /\ joining \in 1..(PoolSize + 1)
  /\ patience \in Nat /\ waitEnd \in Nat /\ spurious \in 0..Spurious
  /\ backlog \in Seq(Conns) /\ queue \in Seq(Conns)
  /\ conn \in [Conns -> ConnStates]
  /\ worker \in [Workers -> Conns \cup {"idle", "exited"}]
  /\ panics \in 0..Cardinality(Conns)
  /\ signalAt \in Nat \cup {Never}

\* A shutdown that ends before its worker budget is spent leaves nothing
\* behind: every connection the server accepted has been answered or, after a
\* contained panic or a failed set_nonblocking, closed.  Connections still in
\* the channel when the sender is dropped are served, not lost.
NothingLeftBehind ==
  main = "done" /\ clock < joinBy => \A c \in Conns : conn[c] \notin {"queued", "serving"}

\* "Total shutdown time is drain + 15 s worker drain" (docs/configuration.md,
\* TRUSS_SHUTDOWN_DRAIN_SECS), however long the workers take and however the
\* budget is divided among them, as long as the condition variable wakes only
\* for a reason.
ShutdownBounded ==
  signalAt # Never /\ main \in Running /\ spurious = 0 =>
    clock <= signalAt + drain + WorkerDrain

\* A signal ends the server, even if every worker is stuck and whenever it
\* arrives between the loop's look at the flag and its wait.
ShutdownEnds == draining ~> (main \in {"done", "failed"})

\* Workers get on with their connections: socket timeouts and deadlines bound
\* the reads, transforms and writes, and an origin that took a connection is
\* taken to answer it (the agent sets no limit on the wait for its headers).
WorkersLive == \A w \in Workers : WF_vars(Work(w))

\* With live workers an accepted connection does not wait for ever: it is
\* answered or closed, or the server ends.
AcceptedServed ==
  WorkersLive =>
    \A c \in Conns : (conn[c] = "queued") ~>
      (conn[c] \in {"answered", "dropped"} \/ main \in {"done", "failed"})
=============================================================================
