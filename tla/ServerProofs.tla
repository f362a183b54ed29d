---------------------------- MODULE ServerProofs ----------------------------
(***************************************************************************)
(* Theorems about the two sides of the server's connections, each its own  *)
(* specification with its own variables.                                   *)
(*                                                                         *)
(* ServerLifecycle, for any number of connections and workers and any      *)
(* drain times: a connection the server accepted is in one place at a      *)
(* time, a shutdown within its budget leaves none behind, and no shutdown  *)
(* takes longer than the drain and the worker drain together.              *)
(*                                                                         *)
(* Connection, for any requests the client writes and any way the socket   *)
(* cuts them up: the handler is given the requests the client wrote, in    *)
(* their order, and each of them whole, and a request that arrived whole   *)
(* before the connection was idle has been served.                         *)
(***************************************************************************)
EXTENDS ServerLifecycle, Connection, FiniteSetTheorems, SequenceTheorems,
        WellFoundedInduction, TLAPS

-----------------------------------------------------------------------------
(*                       Part 1: the server's lifecycle                    *)


-----------------------------------------------------------------------------
(* The backlog and the channel *)

LEMMA AppendFacts ==
  ASSUME NEW S, NEW q \in Seq(S), NEW e \in S
  PROVE  /\ Append(q, e) \in Seq(S) /\ Len(q) \in Nat /\ Len(Append(q, e)) = Len(q) + 1
         /\ Append(q, e)[Len(q) + 1] = e
         /\ \A i \in 1..Len(q) : Append(q, e)[i] = q[i]
OBVIOUS

LEMMA TailFacts ==
  ASSUME NEW S, NEW q \in Seq(S), q # <<>>
  PROVE  /\ Tail(q) \in Seq(S) /\ Len(q) \in Nat \ {0} /\ Len(Tail(q)) = Len(q) - 1
         /\ Head(q) = q[1] /\ Head(q) \in S
         /\ \A i \in 1..(Len(q) - 1) : Tail(q)[i] = q[i + 1]
OBVIOUS

\* A queue holds the connections that are in a state, each of them once.
Lined(q, st, f) ==
  /\ \A i \in 1..Len(q) : f[q[i]] = st
  /\ \A i, j \in 1..Len(q) : q[i] = q[j] => i = j
  /\ \A c \in Conns : f[c] = st => \E i \in 1..Len(q) : q[i] = c

LEMMA LinedEmpty ==
  ASSUME NEW st, NEW f, \A c \in Conns : f[c] # st
  PROVE  Lined(<<>>, st, f)
BY DEF Lined

LEMMA LinedAppend ==
  ASSUME NEW q \in Seq(Conns), NEW st, NEW f, DOMAIN f = Conns, Lined(q, st, f),
         NEW c \in Conns, f[c] # st
  PROVE  Lined(Append(q, c), st, [f EXCEPT ![c] = st])
<1>. DEFINE g == [f EXCEPT ![c] = st]
            p == Append(q, c)
<1>1. /\ p \in Seq(Conns) /\ Len(q) \in Nat /\ Len(p) = Len(q) + 1
      /\ p[Len(q) + 1] = c /\ \A i \in 1..Len(q) : p[i] = q[i]
  BY AppendFacts
<1>2. \A i \in 1..Len(q) : q[i] \in Conns /\ f[q[i]] = st /\ q[i] # c
  BY DEF Lined
<1>3. g[c] = st /\ \A d \in Conns \ {c} : g[d] = f[d]
  OBVIOUS
<1>. HIDE DEF g, p
<1>4. \A i \in 1..Len(p) : g[p[i]] = st
  BY <1>1, <1>2, <1>3
<1>5. \A i, j \in 1..Len(p) : p[i] = p[j] => i = j
  BY <1>1, <1>2 DEF Lined
<1>6. ASSUME NEW d \in Conns, g[d] = st PROVE \E i \in 1..Len(p) : p[i] = d
  <2>1. CASE d = c
    BY <1>1, <2>1
  <2>2. CASE d # c
    <3>1. PICK i \in 1..Len(q) : q[i] = d
      BY <1>3, <1>6, <2>2 DEF Lined
    <3>. QED  BY <1>1, <3>1
  <2>. QED  BY <2>1, <2>2
<1>. QED  BY <1>4, <1>5, <1>6 DEF Lined, g, p

LEMMA LinedTail ==
  ASSUME NEW q \in Seq(Conns), q # <<>>, NEW st, NEW f, DOMAIN f = Conns, Lined(q, st, f),
         NEW s2, s2 # st
  PROVE  Lined(Tail(q), st, [f EXCEPT ![Head(q)] = s2])
<1>. DEFINE c == Head(q)
            g == [f EXCEPT ![c] = s2]
            p == Tail(q)
<1>1. /\ p \in Seq(Conns) /\ Len(q) \in Nat \ {0} /\ Len(p) = Len(q) - 1
      /\ c = q[1] /\ c \in Conns /\ \A i \in 1..(Len(q) - 1) : p[i] = q[i + 1]
  BY TailFacts
<1>2. \A i \in 1..Len(q) : q[i] \in Conns /\ f[q[i]] = st
  BY DEF Lined
<1>3. g[c] = s2 /\ \A d \in Conns \ {c} : g[d] = f[d]
  BY <1>1
<1>. HIDE DEF c, g, p
<1>4. ASSUME NEW i \in 1..Len(p) PROVE p[i] = q[i + 1] /\ i + 1 \in 1..Len(q) /\ p[i] # c
  BY <1>1, <1>4 DEF Lined
<1>5. \A i \in 1..Len(p) : g[p[i]] = st
  BY <1>2, <1>3, <1>4
<1>6. ASSUME NEW i \in 1..Len(p), NEW j \in 1..Len(p), p[i] = p[j] PROVE i = j
  <2>1. i + 1 = j + 1
    BY <1>4, <1>6 DEF Lined
  <2>. QED  BY <1>1, <2>1
<1>7. ASSUME NEW d \in Conns, g[d] = st PROVE \E i \in 1..Len(p) : p[i] = d
  <2>1. d # c /\ f[d] = st
    BY <1>3, <1>7
  <2>2. PICK i \in 1..Len(q) : q[i] = d
    BY <2>1 DEF Lined
  <2>3. i # 1 /\ i - 1 \in 1..Len(p)
    BY <1>1, <2>1, <2>2
  <2>4. p[i - 1] = d
    BY <1>1, <2>2, <2>3
  <2>. QED  BY <2>3, <2>4
<1>. QED  BY <1>5, <1>6, <1>7 DEF Lined, c, g, p

\* A queue does not depend on connections that neither enter nor leave its state.
LEMMA LinedSkip ==
  ASSUME NEW q \in Seq(Conns), NEW st, NEW f, Lined(q, st, f),
         NEW g, \A c \in Conns : g[c] = st <=> f[c] = st
  PROVE  Lined(q, st, g)
<1>1. \A i \in 1..Len(q) : q[i] \in Conns
  OBVIOUS
<1>. QED  BY <1>1 DEF Lined

-----------------------------------------------------------------------------
(* A connection is in one place at a time *)

\* The workers that are busy hold the connections that are being served, each
\* of them once.
Staffed(wk, f) ==
  /\ \A w \in Workers : wk[w] \in Conns => f[wk[w]] = "serving"
  /\ \A v, w \in Workers : wk[v] \in Conns /\ wk[v] = wk[w] => v = w
  /\ \A c \in Conns : f[c] = "serving" => \E w \in Workers : wk[w] = c

\* Connections the server closed without an answer.
DroppedIn(f) == {c \in Conns : f[c] = "dropped"}

\* The state of a connection says where it is, and every panic cost one.
Owned ==
  /\ Lined(backlog, "backlog", conn)
  /\ Lined(queue, "queued", conn)
  /\ Staffed(worker, conn)
  /\ panics <= Cardinality(DroppedIn(conn))

\* Types, but for the bound on the panics, which needs Owned.
BaseTypes ==
  /\ clock \in 0..MaxTime /\ drain \in Drains
  /\ main \in Running \cup {"done", "failed"}
  /\ draining \in BOOLEAN /\ pipe \in BOOLEAN /\ handler \in BOOLEAN
  /\ signals \in 0..MaxSignals
  /\ deadline \in Nat \cup {Never} /\ joinBy \in Nat \cup {Never}
  /\ joining \in 1..(PoolSize + 1) /\ (main = "waiting" => joining <= PoolSize)
  /\ patience \in Nat /\ waitEnd \in Nat /\ spurious \in 0..Spurious
  /\ backlog \in Seq(Conns) /\ queue \in Seq(Conns)
  /\ conn \in [Conns -> ConnStates]
  /\ worker \in [Workers -> Conns \cup {"idle", "exited"}]
  /\ panics \in Nat
  /\ signalAt \in Nat \cup {Never}

\* The main thread is past the accept loop.
Closed == {"join", "waiting", "done"}

\* The signal and the deadlines that follow from it.  The clock does not move
\* between a signal and the deadline it sets.
Timely ==
  /\ draining <=> signalAt # Never
  /\ handler \/ pipe \/ deadline # Never \/ main \in Closed => draining
  /\ draining => signalAt <= clock
  /\ main \in Listening /\ draining /\ deadline = Never =>
       (handler \/ pipe) /\ clock = signalAt
  /\ main \in Listening /\ deadline # Never => clock <= deadline
  /\ deadline # Never => deadline <= signalAt + drain
  /\ main \in Closed =>
       joinBy # Never /\ joinBy <= signalAt + drain + WorkerDrain
                      /\ (spurious = 0 => clock <= joinBy)
  /\ main = "waiting" => /\ joinBy <= waitEnd /\ joinBy <= clock + patience
                         /\ (spurious = 0 => waitEnd = joinBy)

\* Until the budget is spent, the main thread has moved on only from workers
\* that have left, and a worker leaves only when the channel is empty for good.
Joined ==
  /\ main \in Listening => joining = 1
  /\ main \in Closed /\ clock < joinBy =>
       \A w \in Workers : w < joining => worker[w] = "exited"
  /\ main = "done" /\ clock < joinBy => joining > PoolSize
  /\ \A w \in Workers : worker[w] = "exited" => queue = <<>> /\ main \notin Listening

\* The inductive invariant.
LifecycleInv == BaseTypes /\ Owned /\ Timely /\ Joined

LEMMA LifecycleInit == Init => LifecycleInv
<1>. SUFFICES ASSUME Init PROVE LifecycleInv
  OBVIOUS
<1>. USE LifecycleAssumption
<1>1. BaseTypes
  <2>1. 0 \in 0..MaxTime /\ 0 \in 0..MaxSignals /\ 0 \in 0..Spurious /\ 1 \in 1..(PoolSize + 1)
    OBVIOUS
  <2>2. <<>> \in Seq(Conns)
    OBVIOUS
  <2>. QED  BY <2>1, <2>2 DEF Init, BaseTypes, Running, ConnStates
<1>2. Owned
  <2>1. \A c \in Conns : conn[c] = "new"
    BY DEF Init
  <2>2. Lined(backlog, "backlog", conn) /\ Lined(queue, "queued", conn)
    BY <2>1, LinedEmpty DEF Init
  <2>3. Staffed(worker, conn)
    BY <2>1 DEF Init, Staffed
  <2>4. DroppedIn(conn) = {}
    BY <2>1 DEF DroppedIn
  <2>. QED  BY <2>2, <2>3, <2>4, FS_EmptySet DEF Owned, Init
<1>3. Timely /\ Joined
  BY DEF Init, Timely, Joined, Closed
<1>. QED  BY <1>1, <1>2, <1>3 DEF LifecycleInv

-----------------------------------------------------------------------------
(* Types *)

LEMMA BaseStep ==
  ASSUME BaseTypes, [Next]_vars
  PROVE  BaseTypes'
<1>. USE LifecycleAssumption DEF BaseTypes, Running, ConnStates, sockets, pool, signalling, joinVars
<1>0. backlog # <<>> => Head(backlog) \in Conns /\ Tail(backlog) \in Seq(Conns)
  BY TailFacts
<1>1. CASE LoopTop
  <2>1. clock + WorkerDrain \in Nat /\ <<>> \in Seq(Conns)
    OBVIOUS
  <2>. QED  BY <1>1, <2>1 DEF LoopTop, Close
<1>2. CASE Poll
  BY <1>2 DEF Poll
<1>3. CASE CheckSignal
  <2>1. clock + WorkerDrain \in Nat /\ clock + drain \in Nat /\ <<>> \in Seq(Conns)
    OBVIOUS
  <2>. QED  BY <1>3, <2>1 DEF CheckSignal, Close
<1>4. CASE Accept
  <2>1. backlog # <<>> => Append(queue, Head(backlog)) \in Seq(Conns)
    BY <1>0, AppendFacts
  <2>. QED  BY <1>0, <1>4, <2>1 DEF Accept
<1>5. CASE JoinNext
  <2>1. CASE joining > PoolSize \/ Remaining(joinBy) = 0
    BY <1>5, <2>1 DEF JoinNext
  <2>2. CASE ~(joining > PoolSize \/ Remaining(joinBy) = 0)
    <3>1. joining <= PoolSize
      BY <2>2
    <3>2. Remaining(joinBy) \in Nat
      BY <2>2 DEF Remaining
    <3>. QED  BY <1>5, <2>2, <3>1, <3>2 DEF JoinNext
  <2>. QED  BY <2>1, <2>2
<1>6. CASE WaitOver
  BY <1>6 DEF WaitOver
<1>7. CASE SpuriousWakeup
  BY <1>7 DEF SpuriousWakeup
<1>8. ASSUME NEW w \in Workers, Recv(w) PROVE BaseTypes'
  <2>1. Head(queue) \in Conns /\ Tail(queue) \in Seq(Conns)
    BY <1>8, TailFacts DEF Recv
  <2>. QED  BY <1>8, <2>1 DEF Recv
<1>9. ASSUME NEW w \in Workers, Handled(w) PROVE BaseTypes'
  <2>1. \E s \in {"answered", "dropped"} : conn' = [conn EXCEPT ![worker[w]] = s]
    BY <1>9 DEF Handled
  <2>2. conn' \in [Conns -> ConnStates]
    BY <2>1
  <2>3. panics' \in Nat /\ worker' \in [Workers -> Conns \cup {"idle", "exited"}]
    BY <1>9 DEF Handled
  <2>. QED  BY <1>9, <2>2, <2>3 DEF Handled
<1>10. ASSUME NEW w \in Workers, Exit(w) PROVE BaseTypes'
  BY <1>10 DEF Exit
<1>11. ASSUME NEW c \in Conns, Connect(c) PROVE BaseTypes'
  <2>1. Append(backlog, c) \in Seq(Conns)
    BY AppendFacts
  <2>. QED  BY <1>11, <2>1 DEF Connect
<1>12. CASE SignalFlag
  BY <1>12 DEF SignalFlag
<1>13. CASE SignalPipe
  BY <1>13 DEF SignalPipe
<1>14. CASE Tick
  BY <1>14 DEF Tick
<1>15. CASE UNCHANGED vars
  BY <1>15 DEF vars
<1>. QED
  BY <1>1, <1>2, <1>3, <1>4, <1>5, <1>6, <1>7, <1>8, <1>9, <1>10, <1>11, <1>12, <1>13,
     <1>14, <1>15 DEF Next, Main, Work

-----------------------------------------------------------------------------
(* Where connections are *)

\* Closing one more connection without an answer.
LEMMA DropOne ==
  ASSUME NEW f, DOMAIN f = Conns, NEW c \in Conns, f[c] # "dropped",
         NEW g, g = [f EXCEPT ![c] = "dropped"]
  PROVE  /\ Cardinality(DroppedIn(f)) \in Nat
         /\ Cardinality(DroppedIn(g)) = Cardinality(DroppedIn(f)) + 1
<1>1. DroppedIn(f) \subseteq Conns
  BY DEF DroppedIn
<1>2. IsFiniteSet(DroppedIn(f))
  BY <1>1, LifecycleAssumption, FS_Subset
<1>3. DroppedIn(g) = DroppedIn(f) \cup {c} /\ c \notin DroppedIn(f)
  BY DEF DroppedIn
<1>. QED  BY <1>2, <1>3, FS_AddElement, FS_CardinalityType

LEMMA DroppedBounded ==
  ASSUME NEW f
  PROVE  /\ Cardinality(DroppedIn(f)) \in Nat /\ Cardinality(Conns) \in Nat
         /\ Cardinality(DroppedIn(f)) <= Cardinality(Conns)
<1>1. DroppedIn(f) \in SUBSET Conns
  BY DEF DroppedIn
<1>2. IsFiniteSet(Conns)
  BY LifecycleAssumption
<1>3. IsFiniteSet(DroppedIn(f)) /\ Cardinality(DroppedIn(f)) <= Cardinality(Conns)
  BY <1>1, <1>2, FS_Subset
<1>. QED  BY <1>2, <1>3, FS_CardinalityType

\* Connections that neither become dropped nor cease to be count the same.
LEMMA DroppedSame ==
  ASSUME NEW f, NEW g, \A c \in Conns : g[c] = "dropped" <=> f[c] = "dropped"
  PROVE  DroppedIn(g) = DroppedIn(f)
BY DEF DroppedIn

LEMMA StaffedSkip ==
  ASSUME NEW wk, NEW f, Staffed(wk, f), NEW g,
         \A c \in Conns : g[c] = "serving" <=> f[c] = "serving"
  PROVE  Staffed(wk, g)
BY DEF Staffed

LEMMA OwnedClose ==
  ASSUME BaseTypes, Owned, Close, UNCHANGED pool
  PROVE  Owned'
<1>. USE DEF BaseTypes, Owned
<1>1. /\ conn' = [c \in Conns |-> IF conn[c] = "backlog" THEN "refused" ELSE conn[c]]
      /\ backlog' = <<>> /\ queue' = queue /\ worker' = worker /\ panics' = panics
  BY DEF Close, pool
<1>2. \A c \in Conns : conn'[c] # "backlog"
  BY <1>1
<1>3. \A st \in {"queued", "serving", "dropped"} : \A c \in Conns : conn'[c] = st <=> conn[c] = st
  BY <1>1
<1>4. Lined(backlog', "backlog", conn')
  BY <1>1, <1>2, LinedEmpty
<1>5. Lined(queue', "queued", conn')
  BY <1>1, <1>3, LinedSkip
<1>6. Staffed(worker', conn')
  BY <1>1, <1>3, StaffedSkip
<1>7. DroppedIn(conn') = DroppedIn(conn)
  BY <1>3, DroppedSame
<1>. QED  BY <1>1, <1>4, <1>5, <1>6, <1>7

LEMMA OwnedAccept ==
  ASSUME BaseTypes, Owned, Accept
  PROVE  Owned'
<1>. USE DEF BaseTypes, Owned
<1>0. worker' = worker /\ panics' = panics
  BY DEF Accept, pool
<1>1. CASE UNCHANGED <<backlog, queue, conn>>
  BY <1>0, <1>1
<1>2. ASSUME backlog # <<>>, backlog' = Tail(backlog), NEW s \in {"queued", "dropped"},
             conn' = [conn EXCEPT ![Head(backlog)] = s],
             queue' = IF s = "queued" THEN Append(queue, Head(backlog)) ELSE queue
      PROVE  Owned'
  <2>. DEFINE c == Head(backlog)
  <2>1. c \in Conns /\ conn[c] = "backlog"
    BY <1>2, TailFacts DEF Lined
  <2>2. Lined(backlog', "backlog", conn')
    BY <1>2, LinedTail
  <2>3. Lined(queue', "queued", conn')
    <3>1. CASE s = "queued"
      BY <1>2, <2>1, <3>1, LinedAppend
    <3>2. CASE s = "dropped"
      <4>1. \A d \in Conns : conn'[d] = "queued" <=> conn[d] = "queued"
        BY <1>2, <2>1, <3>2
      <4>. QED  BY <1>2, <3>2, <4>1, LinedSkip
    <3>. QED  BY <1>2, <3>1, <3>2
  <2>4. \A d \in Conns : conn'[d] = "serving" <=> conn[d] = "serving"
    BY <1>2, <2>1
  <2>5. Staffed(worker', conn')
    BY <1>0, <2>4, StaffedSkip
  <2>6. Cardinality(DroppedIn(conn)) <= Cardinality(DroppedIn(conn'))
    <3>1. CASE s = "queued"
      <4>1. \A d \in Conns : conn'[d] = "dropped" <=> conn[d] = "dropped"
        BY <1>2, <2>1, <3>1
      <4>2. DroppedIn(conn') = DroppedIn(conn)
        BY <4>1, DroppedSame
      <4>. QED  BY <4>2, DroppedBounded
    <3>2. CASE s = "dropped"
      <4>1. DOMAIN conn = Conns /\ conn[c] # "dropped" /\ conn' = [conn EXCEPT ![c] = "dropped"]
        BY <1>2, <2>1, <3>2
      <4>2. /\ Cardinality(DroppedIn(conn)) \in Nat
            /\ Cardinality(DroppedIn(conn')) = Cardinality(DroppedIn(conn)) + 1
        BY <2>1, <4>1, DropOne
      <4>. QED  BY <4>2
    <3>. QED  BY <1>2, <3>1, <3>2
  <2>7. panics' <= Cardinality(DroppedIn(conn'))
    BY <1>0, <2>6, DroppedBounded
  <2>. QED  BY <2>2, <2>3, <2>5, <2>7
<1>. QED  BY <1>1, <1>2 DEF Accept

LEMMA OwnedRecv ==
  ASSUME BaseTypes, Owned, NEW w \in Workers, Recv(w)
  PROVE  Owned'
<1>. USE DEF BaseTypes, Owned
<1>. DEFINE c == Head(queue)
<1>0. /\ worker[w] = "idle" /\ queue # <<>> /\ worker' = [worker EXCEPT ![w] = c]
      /\ conn' = [conn EXCEPT ![c] = "serving"] /\ queue' = Tail(queue)
      /\ UNCHANGED <<backlog, panics>>
  BY DEF Recv
<1>1. c \in Conns /\ conn[c] = "queued"
  BY <1>0, TailFacts DEF Lined
<1>. HIDE DEF c
<1>2. Lined(queue', "queued", conn')
  BY <1>0, LinedTail DEF c
<1>3. Lined(backlog', "backlog", conn')
  <2>1. \A d \in Conns : conn'[d] = "backlog" <=> conn[d] = "backlog"
    BY <1>0, <1>1
  <2>. QED  BY <1>0, <2>1, LinedSkip
<1>4. Staffed(worker', conn')
  <2>1. \A v \in Workers : worker[v] # c
    BY <1>1 DEF Staffed
  <2>2. "idle" \notin Conns
    BY LifecycleAssumption
  <2>3. ASSUME NEW d \in Conns, conn'[d] = "serving" PROVE \E v \in Workers : worker'[v] = d
    <3>1. CASE d = c
      BY <1>0, <3>1
    <3>2. CASE d # c
      <4>1. PICK v \in Workers : worker[v] = d
        BY <1>0, <2>3, <3>2 DEF Staffed
      <4>. QED  BY <1>0, <2>2, <4>1
    <3>. QED  BY <3>1, <3>2
  <2>4. \A v \in Workers : worker'[v] \in Conns => conn'[worker'[v]] = "serving"
    BY <1>0, <1>1 DEF Staffed
  <2>5. \A u, v \in Workers : worker'[u] \in Conns /\ worker'[u] = worker'[v] => u = v
    BY <1>0, <1>1, <2>1 DEF Staffed
  <2>. QED  BY <2>3, <2>4, <2>5 DEF Staffed
<1>5. DroppedIn(conn') = DroppedIn(conn)
  <2>1. \A d \in Conns : conn'[d] = "dropped" <=> conn[d] = "dropped"
    BY <1>0, <1>1
  <2>. QED  BY <2>1, DroppedSame
<1>. QED  BY <1>0, <1>2, <1>3, <1>4, <1>5

LEMMA OwnedHandled ==
  ASSUME BaseTypes, Owned, NEW w \in Workers, Handled(w)
  PROVE  Owned'
<1>. USE DEF BaseTypes, Owned
<1>. DEFINE c == worker[w]
<1>0. /\ c \in Conns /\ worker' = [worker EXCEPT ![w] = "idle"] /\ UNCHANGED <<backlog, queue>>
  BY DEF Handled
<1>1. conn[c] = "serving"
  BY <1>0 DEF Staffed
<1>2. PICK s \in {"answered", "dropped"} :
        /\ conn' = [conn EXCEPT ![c] = s]
        /\ panics' = IF s = "dropped" THEN panics + 1 ELSE panics
  <2>1. "answered" # "dropped"
    OBVIOUS
  <2>. QED  BY <2>1 DEF Handled
<1>. HIDE DEF c
<1>3. Lined(queue', "queued", conn') /\ Lined(backlog', "backlog", conn')
  <2>1. \A d \in Conns : conn'[d] = "backlog" <=> conn[d] = "backlog"
    BY <1>0, <1>1, <1>2
  <2>2. \A d \in Conns : conn'[d] = "queued" <=> conn[d] = "queued"
    BY <1>0, <1>1, <1>2
  <2>. QED  BY <1>0, <2>1, <2>2, LinedSkip
<1>4. Staffed(worker', conn')
  <2>1. \A v \in Workers \ {w} : worker'[v] = worker[v] /\ worker[v] # c
    BY <1>0 DEF Staffed, c
  <2>2. worker'[w] \notin Conns
    BY <1>0, LifecycleAssumption
  <2>3. ASSUME NEW d \in Conns, conn'[d] = "serving" PROVE \E v \in Workers : worker'[v] = d
    <3>1. d # c /\ conn[d] = "serving"
      BY <1>0, <1>2, <2>3
    <3>2. PICK v \in Workers : worker[v] = d
      BY <3>1 DEF Staffed
    <3>. QED  BY <2>1, <3>1, <3>2 DEF c
  <2>4. \A v \in Workers : worker'[v] \in Conns => conn'[worker'[v]] = "serving"
    BY <1>0, <1>2, <2>1, <2>2 DEF Staffed
  <2>5. \A u, v \in Workers : worker'[u] \in Conns /\ worker'[u] = worker'[v] => u = v
    BY <2>1, <2>2 DEF Staffed
  <2>. QED  BY <2>3, <2>4, <2>5 DEF Staffed
<1>5. panics' <= Cardinality(DroppedIn(conn'))
  <2>1. CASE s = "dropped"
    <3>1. DOMAIN conn = Conns /\ conn[c] # "dropped" /\ conn' = [conn EXCEPT ![c] = "dropped"]
      BY <1>1, <1>2, <2>1
    <3>2. /\ Cardinality(DroppedIn(conn)) \in Nat
          /\ Cardinality(DroppedIn(conn')) = Cardinality(DroppedIn(conn)) + 1
      BY <1>0, <3>1, DropOne
    <3>. QED  BY <1>2, <2>1, <3>2
  <2>2. CASE s = "answered"
    <3>1. \A d \in Conns : conn'[d] = "dropped" <=> conn[d] = "dropped"
      BY <1>0, <1>1, <1>2, <2>2
    <3>2. DroppedIn(conn') = DroppedIn(conn)
      BY <3>1, DroppedSame
    <3>. QED  BY <1>2, <2>2, <3>2
  <2>. QED  BY <1>2, <2>1, <2>2
<1>. QED  BY <1>3, <1>4, <1>5

LEMMA OwnedConnect ==
  ASSUME BaseTypes, Owned, NEW c \in Conns, Connect(c)
  PROVE  Owned'
<1>. USE DEF BaseTypes, Owned
<1>0. conn[c] = "new" /\ UNCHANGED <<queue, worker, panics>>
  BY DEF Connect, pool
<1>1. PICK s \in {"backlog", "refused"} :
        /\ conn' = [conn EXCEPT ![c] = s]
        /\ backlog' = IF s = "backlog" THEN Append(backlog, c) ELSE backlog
  <2>1. "backlog" # "refused"
    OBVIOUS
  <2>. QED  BY <2>1 DEF Connect
<1>2. \A st \in {"queued", "serving", "dropped"} : \A d \in Conns : conn'[d] = st <=> conn[d] = st
  BY <1>0, <1>1
<1>3. Lined(backlog', "backlog", conn')
  <2>1. CASE s = "backlog"
    BY <1>0, <1>1, <2>1, LinedAppend
  <2>2. CASE s = "refused"
    <3>1. \A d \in Conns : conn'[d] = "backlog" <=> conn[d] = "backlog"
      BY <1>0, <1>1, <2>2
    <3>. QED  BY <1>1, <2>2, <3>1, LinedSkip
  <2>. QED  BY <1>1, <2>1, <2>2
<1>4. Lined(queue', "queued", conn')
  BY <1>0, <1>2, LinedSkip
<1>5. Staffed(worker', conn')
  BY <1>0, <1>2, StaffedSkip
<1>6. DroppedIn(conn') = DroppedIn(conn)
  BY <1>2, DroppedSame
<1>. QED  BY <1>0, <1>3, <1>4, <1>5, <1>6

LEMMA OwnedStep ==
  ASSUME BaseTypes, Owned, [Next]_vars
  PROVE  Owned'
<1>1. CASE UNCHANGED <<sockets, pool>>
  BY <1>1 DEF Owned, sockets, pool
<1>2. CASE LoopTop \/ CheckSignal
  <2>1. \/ Close /\ UNCHANGED pool
        \/ UNCHANGED <<sockets, pool>>
    BY <1>2 DEF LoopTop, CheckSignal
  <2>. QED  BY <1>1, <2>1, OwnedClose
<1>3. CASE Accept
  BY <1>3, OwnedAccept
<1>4. CASE Poll \/ JoinNext \/ WaitOver \/ SpuriousWakeup \/ SignalFlag \/ SignalPipe \/ Tick
  BY <1>1, <1>4 DEF Poll, JoinNext, WaitOver, SpuriousWakeup, SignalFlag, SignalPipe, Tick
<1>5. ASSUME NEW w \in Workers, Work(w) PROVE Owned'
  <2>1. CASE Exit(w)
    <3>1. /\ worker[w] = "idle" /\ worker' = [worker EXCEPT ![w] = "exited"]
          /\ UNCHANGED <<backlog, queue, conn, panics>>
      BY <2>1 DEF Exit, sockets
    <3>2. Staffed(worker', conn')
      <4>1. "exited" \notin Conns /\ "idle" \notin Conns
        BY LifecycleAssumption
      <4>2. \A c \in Conns, v \in Workers : worker'[v] = c <=> worker[v] = c
        BY <3>1, <4>1 DEF BaseTypes
      <4>. QED  BY <3>1, <4>2 DEF Owned, Staffed
    <3>. QED  BY <3>1, <3>2 DEF Owned
  <2>. QED  BY <1>5, <2>1, OwnedRecv, OwnedHandled DEF Work
<1>6. ASSUME NEW c \in Conns, Connect(c) PROVE Owned'
  BY <1>6, OwnedConnect
<1>7. CASE UNCHANGED vars
  BY <1>1, <1>7 DEF vars, sockets, pool
<1>. QED  BY <1>2, <1>3, <1>4, <1>5, <1>6, <1>7 DEF Next, Main

-----------------------------------------------------------------------------
(* Time *)

LEMMA TimelyStep ==
  ASSUME BaseTypes, Timely, [Next]_vars
  PROVE  Timely'
<1>. USE LifecycleAssumption
     DEF BaseTypes, Timely, Running, Listening, Closed, sockets, pool, signalling, joinVars
<1>0. drain \in Nat /\ clock \in Nat /\ WorkerDrain \in Nat /\ clock # Never
  OBVIOUS
<1>1. CASE LoopTop
  <2>1. CASE deadline # Never /\ Remaining(deadline) = 0
    <3>0. deadline \in Nat
      BY <2>1
    <3>1. clock >= deadline
      <4>1. ~ (deadline > clock)
        BY ONLY <1>0, <2>1, <3>0 DEF Remaining
      <4>. QED  BY ONLY <1>0, <3>0, <4>1
    <3>. QED  BY <1>0, <1>1, <2>1, <3>1 DEF LoopTop, Close
  <2>2. CASE ~(deadline # Never /\ Remaining(deadline) = 0)
    BY <1>1, <2>2 DEF LoopTop
  <2>. QED  BY <2>1, <2>2
<1>2. CASE Poll
  BY <1>2 DEF Poll
<1>3. CASE CheckSignal
  <2>1. CASE (pipe \/ draining) /\ deadline = Never /\ drain = 0
    BY <1>0, <1>3, <2>1 DEF CheckSignal, Close
  <2>2. CASE (pipe \/ draining) /\ deadline = Never /\ drain # 0
    BY <1>0, <1>3, <2>2 DEF CheckSignal
  <2>3. CASE ~((pipe \/ draining) /\ deadline = Never)
    BY <1>0, <1>3, <2>3 DEF CheckSignal
  <2>. QED  BY <2>1, <2>2, <2>3
<1>4. CASE Accept
  BY <1>4 DEF Accept
<1>5. CASE JoinNext
  <2>1. CASE joining > PoolSize \/ Remaining(joinBy) = 0
    BY <1>5, <2>1 DEF JoinNext
  <2>2. CASE ~(joining > PoolSize \/ Remaining(joinBy) = 0)
    <3>1. joinBy \in Nat
      BY <1>5 DEF JoinNext
    <3>2. Remaining(joinBy) = joinBy - clock
      BY <1>0, <2>2, <3>1 DEF Remaining
    <3>. QED  BY <1>0, <1>5, <2>2, <3>1, <3>2 DEF JoinNext
  <2>. QED  BY <2>1, <2>2
<1>6. CASE WaitOver
  BY <1>6 DEF WaitOver
<1>7. CASE SpuriousWakeup
  BY <1>7 DEF SpuriousWakeup
<1>8. ASSUME NEW w \in Workers, Work(w) PROVE Timely'
  <2>1. UNCHANGED <<clock, drain, main, signalling, deadline, joinVars>>
    BY <1>8 DEF Work, Recv, Handled, Exit
  <2>. QED  BY <2>1
<1>9. ASSUME NEW c \in Conns, Connect(c) PROVE Timely'
  BY <1>9 DEF Connect
<1>10. CASE SignalFlag
  BY <1>0, <1>10 DEF SignalFlag
<1>11. CASE SignalPipe
  BY <1>11 DEF SignalPipe
<1>12. CASE Tick
  <2>1. CASE main = "poll" /\ ~Wakes
    <3>1. deadline # Never => clock < deadline
      BY <2>1 DEF Wakes, Remaining
    <3>. QED  BY <1>0, <1>12, <2>1, <3>1 DEF Tick, Wakes
  <2>2. CASE main = "waiting" /\ clock < waitEnd
    BY <1>0, <1>12, <2>2 DEF Tick
  <2>. QED  BY <1>12, <2>1, <2>2 DEF Tick
<1>13. CASE UNCHANGED vars
  BY <1>13 DEF vars
<1>. QED
  BY <1>1, <1>2, <1>3, <1>4, <1>5, <1>6, <1>7, <1>8, <1>9, <1>10, <1>11, <1>12, <1>13
  DEF Next, Main

LEMMA JoinedStep ==
  ASSUME BaseTypes, Timely, Joined, [Next]_vars
  PROVE  Joined'
<1>. USE LifecycleAssumption
     DEF BaseTypes, Joined, Running, Listening, Closed, sockets, pool, signalling, joinVars
<1>0. /\ main \in Closed => joinBy \in Nat
      /\ main = "waiting" => joinBy <= waitEnd /\ joining \in Workers
  BY DEF Timely, Workers
<1>1. CASE LoopTop \/ CheckSignal
  <2>1. main \in Listening /\ UNCHANGED <<queue, worker, joining, clock>>
        /\ main' \in {"poll", "accept", "join"}
    BY <1>1 DEF LoopTop, CheckSignal, Close
  <2>2. \A w \in Workers : worker[w] # "exited"
    BY <2>1
  <2>3. joining' = 1 /\ main' # "done" /\ \A w \in Workers : ~(w < joining')
    BY <2>1 DEF Workers
  <2>. QED  BY <2>1, <2>2, <2>3
<1>2. CASE Poll \/ Accept
  <2>1. main \in Listening /\ UNCHANGED <<worker, joining, clock>> /\ main' \notin Closed
    BY <1>2 DEF Poll, Accept
  <2>. QED  BY <2>1
<1>3. CASE JoinNext
  <2>1. Remaining(joinBy) = 0 => clock >= joinBy
    BY <1>0, <1>3 DEF Remaining, JoinNext
  <2>. QED  BY <1>0, <1>3, <2>1 DEF JoinNext
<1>4. CASE WaitOver
  <2>1. clock < joinBy => worker[joining] = "exited"
    BY <1>0, <1>4 DEF WaitOver
  <2>. QED  BY <1>0, <1>4, <2>1 DEF WaitOver, Workers
<1>5. CASE SpuriousWakeup \/ SignalFlag \/ SignalPipe
  BY <1>5 DEF SpuriousWakeup, SignalFlag, SignalPipe
<1>6. ASSUME NEW w \in Workers, Recv(w) PROVE Joined'
  BY <1>6 DEF Recv
<1>7. ASSUME NEW w \in Workers, Handled(w) PROVE Joined'
  BY <1>7 DEF Handled
<1>8. ASSUME NEW w \in Workers, Exit(w) PROVE Joined'
  BY <1>8 DEF Exit
<1>9. ASSUME NEW c \in Conns, Connect(c) PROVE Joined'
  BY <1>9 DEF Connect
<1>10. CASE Tick
  <2>1. clock' < joinBy => clock < joinBy \/ main \notin Closed
    BY <1>0, <1>10 DEF Tick
  <2>. QED  BY <1>10, <2>1 DEF Tick
<1>11. CASE UNCHANGED vars
  BY <1>11 DEF vars
<1>. QED
  BY <1>1, <1>2, <1>3, <1>4, <1>5, <1>6, <1>7, <1>8, <1>9, <1>10, <1>11
  DEF Next, Main, Work

LEMMA LifecycleAlways == Spec => []LifecycleInv
<1>1. LifecycleInv /\ [Next]_vars => LifecycleInv'
  BY BaseStep, OwnedStep, TimelyStep, JoinedStep DEF LifecycleInv
<1>. QED  BY <1>1, LifecycleInit, PTL DEF Spec

\* Types; in particular no more panics are counted than there were connections,
\* since no connection is handed to a second worker.
THEOREM LifecycleTypes == Spec => []TypeOK
<1>1. ASSUME LifecycleInv PROVE TypeOK
  <2>1. panics \in 0..Cardinality(Conns)
    BY <1>1, DroppedBounded DEF LifecycleInv, BaseTypes, Owned
  <2>. QED  BY <1>1, <2>1 DEF LifecycleInv, BaseTypes, TypeOK
<1>. QED  BY <1>1, LifecycleAlways, PTL

\* The backlog, the channel and the workers hold every connection that is not
\* settled, in exactly one place.
THEOREM ConnectionsAreOwned == Spec => []Owned
<1>1. LifecycleInv => Owned
  BY DEF LifecycleInv
<1>. QED  BY <1>1, LifecycleAlways, PTL

\* However many workers and connections there are, a shutdown that ends within
\* its worker budget has answered or closed every connection it accepted.
THEOREM NothingIsLeftBehind == Spec => []NothingLeftBehind
<1>1. ASSUME LifecycleInv, main = "done", clock < joinBy, NEW c \in Conns
      PROVE  conn[c] \notin {"queued", "serving"}
  <2>1. \A w \in Workers : worker[w] = "exited"
    <3>1. joining > PoolSize /\ joining \in Nat /\ PoolSize \in Nat
      BY <1>1, LifecycleAssumption DEF LifecycleInv, BaseTypes, Joined
    <3>2. \A w \in Workers : w < joining
      BY <3>1 DEF Workers
    <3>. QED  BY <1>1, <3>2 DEF LifecycleInv, Joined, Closed
  <2>2. 1 \in Workers
    BY LifecycleAssumption DEF Workers
  <2>3. queue = <<>>
    BY <1>1, <2>1, <2>2 DEF LifecycleInv, Joined
  <2>4. conn[c] # "queued"
    <3>1. Lined(queue, "queued", conn)
      BY <1>1 DEF LifecycleInv, Owned
    <3>. QED  BY <2>3, <3>1 DEF Lined
  <2>5. conn[c] # "serving"
    BY <1>1, <2>1, LifecycleAssumption DEF LifecycleInv, Owned, Staffed
  <2>. QED  BY <2>4, <2>5
<1>2. LifecycleInv => NothingLeftBehind
  BY <1>1 DEF NothingLeftBehind
<1>. QED  BY <1>2, LifecycleAlways, PTL

\* From the signal to the end, a shutdown takes at most the drain period and
\* the worker drain, however many workers share that and however slow they are.
THEOREM ShutdownIsBounded == Spec => []ShutdownBounded
<1>1. ASSUME LifecycleInv, signalAt # Never, main \in Running, spurious = 0
      PROVE  clock <= signalAt + drain + WorkerDrain
  <2>1. /\ clock \in Nat /\ signalAt \in Nat /\ drain \in Nat /\ WorkerDrain \in Nat
        /\ joinBy \in Nat \cup {Never} /\ deadline \in Nat \cup {Never} /\ draining
    BY <1>1, LifecycleAssumption DEF LifecycleInv, BaseTypes, Timely
  <2>2. CASE main \in Listening
    BY <1>1, <2>1, <2>2 DEF LifecycleInv, Timely
  <2>3. CASE main \in Closed
    BY <1>1, <2>1, <2>3 DEF LifecycleInv, Timely
  <2>. QED  BY <1>1, <2>2, <2>3 DEF Running, Listening, Closed
<1>2. LifecycleInv => ShutdownBounded
  BY <1>1 DEF ShutdownBounded
<1>. QED  BY <1>2, LifecycleAlways, PTL

-----------------------------------------------------------------------------
(*                      Part 2: requests on a connection                   *)


-----------------------------------------------------------------------------
(* Flattening a sequence of sequences *)

LEMMA LeastOf ==
  ASSUME NEW T \in SUBSET Nat, T # {}
  PROVE  \E n \in T : \A m \in T : n <= m
<1>. DEFINE R == OpToRel(<, Nat)
<1>1. IsWellFoundedOn(R, Nat)
  BY NatLessThanWellFounded
<1>2. R = {ss \in Nat \X Nat : ss[1] < ss[2]}
  BY DEF OpToRel
<1>. HIDE DEF R
<1>3. PICK x \in T : \A y \in T : ~ (<<y, x>> \in R)
  BY <1>1, WFMin
<1>4. \A y \in T : y \in Nat /\ (<<y, x>> \in R <=> y < x)
  BY <1>2
<1>5. \A y \in T : ~ (y < x)
  BY <1>3, <1>4
<1>6. \A y \in T : x <= y
  BY <1>4, <1>5
<1>. QED  BY <1>6

\* F[i] is the first i sequences of s, one after the other.
Flats(s, n, F) == F = [i \in 1..n |-> IF i = 1 THEN s[i] ELSE F[i - 1] \o s[i]]

Agree(s, t, n) == \A i \in 1..n : s[i] = t[i]

LEMMA FlatsExtend ==
  ASSUME NEW s, NEW n \in Nat, NEW F, Flats(s, n, F)
  PROVE  \E G : Flats(s, n + 1, G)
<1>. DEFINE G == [i \in 1..(n + 1) |-> IF i = 1 THEN s[i] ELSE F[i - 1] \o s[i]]
<1>a. \A i \in 1..(n + 1) : G[i] = IF i = 1 THEN s[i] ELSE F[i - 1] \o s[i]
  OBVIOUS
<1>b. \A i \in 1..n : F[i] = IF i = 1 THEN s[i] ELSE F[i - 1] \o s[i]
  BY DEF Flats
<1>3. G = [i \in 1..(n + 1) |-> G[i]]
  OBVIOUS
<1>. HIDE DEF G
<1>1. \A i \in 1..n : G[i] = F[i]
  BY <1>a, <1>b
<1>2. ASSUME NEW i \in 1..(n + 1)
      PROVE  G[i] = IF i = 1 THEN s[i] ELSE G[i - 1] \o s[i]
  <2>1. i # 1 => G[i - 1] = F[i - 1]
    BY <1>1
  <2>. QED  BY <1>a, <2>1
<1>4. G = [i \in 1..(n + 1) |-> IF i = 1 THEN s[i] ELSE G[i - 1] \o s[i]]
  BY <1>2, <1>3
<1>. QED  BY <1>4 DEF Flats

LEMMA FlatsExists ==
  ASSUME NEW s, NEW n \in Nat
  PROVE  \E F : Flats(s, n, F)
<1>. DEFINE T == {m \in Nat : ~ \E F : Flats(s, m, F)}
<1>. SUFFICES ASSUME T # {} PROVE FALSE
  OBVIOUS
<1>1. PICK m \in T : \A k \in T : m <= k
  <2>1. T \in SUBSET Nat
    OBVIOUS
  <2>. HIDE DEF T
  <2>. QED  BY <2>1, LeastOf
<1>2. CASE m = 0
  <2>. DEFINE G == [i \in 1..0 |-> s[i]]
  <2>1. G = [i \in 1..0 |-> IF i = 1 THEN s[i] ELSE G[i - 1] \o s[i]]
    OBVIOUS
  <2>2. Flats(s, 0, G)
    BY <2>1 DEF Flats
  <2>. QED  BY <1>2, <2>2
<1>3. CASE m # 0
  <2>1. m - 1 \in Nat /\ m - 1 \notin T
    BY <1>1, <1>3
  <2>2. PICK F : Flats(s, m - 1, F)
    BY <2>1
  <2>3. (m - 1) + 1 = m
    OBVIOUS
  <2>. QED  BY <2>1, <2>2, <2>3, FlatsExtend
<1>. QED  BY <1>2, <1>3

LEMMA FlatsUnique ==
  ASSUME NEW s, NEW t, NEW n \in Nat, NEW m \in Nat, n <= m, NEW F, NEW G,
         Agree(s, t, n), Flats(s, n, F), Flats(t, m, G)
  PROVE  Agree(F, G, n)
<1>. DEFINE T == {i \in 1..n : F[i] # G[i]}
<1>. SUFFICES ASSUME T # {} PROVE FALSE
  BY DEF Agree
<1>1. PICK i \in T : \A k \in T : i <= k
  <2>1. T \in SUBSET Nat
    OBVIOUS
  <2>. HIDE DEF T
  <2>. QED  BY <2>1, LeastOf
<1>2. i # 1 => F[i - 1] = G[i - 1]
  BY <1>1
<1>3. F[i] = (IF i = 1 THEN s[i] ELSE F[i - 1] \o s[i])
  BY DEF Flats
<1>4. G[i] = (IF i = 1 THEN t[i] ELSE G[i - 1] \o t[i])
  <2>1. i \in 1..m
    OBVIOUS
  <2>. QED  BY <2>1 DEF Flats
<1>5. s[i] = t[i] /\ F[i] # G[i]
  BY DEF Agree
<1>. QED  BY <1>2, <1>3, <1>4, <1>5

LEMMA FlatsTyped ==
  ASSUME NEW S, NEW s \in Seq(Seq(S)), NEW F, Flats(s, Len(s), F)
  PROVE  \A i \in 1..Len(s) : F[i] \in Seq(S)
<1>. DEFINE n == Len(s)
            T == {i \in 1..n : F[i] \notin Seq(S)}
<1>. SUFFICES ASSUME T # {} PROVE FALSE
  OBVIOUS
<1>1. PICK i \in T : \A k \in T : i <= k
  <2>1. T \in SUBSET Nat
    OBVIOUS
  <2>. HIDE DEF T
  <2>. QED  BY <2>1, LeastOf
<1>2. i # 1 => F[i - 1] \in Seq(S)
  BY <1>1
<1>3. F[i] = (IF i = 1 THEN s[i] ELSE F[i - 1] \o s[i])
  BY DEF Flats
<1>4. s[i] \in Seq(S) /\ F[i] \notin Seq(S)
  OBVIOUS
<1>. HIDE DEF T
<1>5. i # 1 => F[i - 1] \o s[i] \in Seq(S)
  BY <1>2, <1>4, ConcatProperties
<1>. QED  BY <1>3, <1>4, <1>5

LEMMA FlattenIs ==
  ASSUME NEW s, Len(s) \in Nat \ {0}, NEW F, Flats(s, Len(s), F)
  PROVE  FlattenSeq(s) = F[Len(s)]
<1>. DEFINE G == CHOOSE g : g = [i \in 1..Len(s) |-> IF i = 1 THEN s[i] ELSE g[i - 1] \o s[i]]
<1>1. FlattenSeq(s) = G[Len(s)]
  BY DEF FlattenSeq
<1>2. G = [i \in 1..Len(s) |-> IF i = 1 THEN s[i] ELSE G[i - 1] \o s[i]]
  BY DEF Flats
<1>. HIDE DEF G
<1>3. Flats(s, Len(s), G)
  BY <1>2 DEF Flats
<1>4. Agree(G, F, Len(s))
  BY <1>3, FlatsUnique DEF Agree
<1>. QED  BY <1>1, <1>4 DEF Agree

\* What FlattenSeq computes, one sequence more.
LEMMA FlattenAppend ==
  ASSUME NEW S, NEW s \in Seq(Seq(S)), NEW e \in Seq(S)
  PROVE  /\ FlattenSeq(s) \in Seq(S)
         /\ FlattenSeq(Append(s, e)) = FlattenSeq(s) \o e
<1>. DEFINE t == Append(s, e)
            n == Len(s)
<1>1. /\ n \in Nat /\ Len(t) = n + 1 /\ t[n + 1] = e
      /\ \A i \in 1..n : s[i] = t[i]
      /\ n = Len(s) /\ n + 1 \in Nat \ {0} /\ n <= n + 1
      /\ n + 1 \in 1..(n + 1) /\ (n + 1) - 1 = n /\ (n # 0 => n \in 1..n)
      /\ (n = 0 => s = <<>>)
  OBVIOUS
<1>0. t = Append(s, e)
  OBVIOUS
<1>. HIDE DEF t, n
<1>2. PICK F : Flats(t, n + 1, F)
  BY <1>1, FlatsExists
<1>3. PICK G : Flats(s, n, G)
  BY <1>1, FlatsExists
<1>4. Agree(G, F, n)
  <2>1. Agree(s, t, n)
    BY <1>1 DEF Agree
  <2>2. n \in Nat /\ n + 1 \in Nat /\ n <= n + 1
    BY <1>1
  <2>. QED  BY <1>2, <1>3, <2>1, <2>2, FlatsUnique
<1>5. FlattenSeq(t) = F[n + 1]
  BY <1>1, <1>2, FlattenIs
<1>6. F[n + 1] = (IF n + 1 = 1 THEN t[n + 1] ELSE F[(n + 1) - 1] \o t[n + 1])
  BY <1>1, <1>2 DEF Flats
<1>7. CASE n = 0
  <2>1. s = <<>> /\ FlattenSeq(s) = <<>>
    BY <1>1, <1>7, EmptySeq DEF FlattenSeq
  <2>2. FlattenSeq(t) = e
    BY <1>1, <1>5, <1>6, <1>7
  <2>3. <<>> \in Seq(S) /\ <<>> \o e = e
    BY ConcatEmptySeq
  <2>. QED  BY <1>0, <2>1, <2>2, <2>3
<1>8. CASE n # 0
  <2>1. FlattenSeq(s) = G[n] /\ G[n] \in Seq(S)
    BY <1>1, <1>3, <1>8, FlattenIs, FlatsTyped
  <2>2. F[n] = G[n]
    BY <1>1, <1>4, <1>8 DEF Agree
  <2>3. n + 1 # 1
    BY <1>1, <1>8
  <2>4. F[n + 1] = F[n] \o e
    BY <1>1, <1>6, <2>3
  <2>. QED  BY <1>0, <1>5, <2>1, <2>2, <2>4
<1>. QED  BY <1>7, <1>8

-----------------------------------------------------------------------------
(* The inductive invariant of a connection *)

\* Where the request after the n-th starts, and the bytes between two places.
Start(n) == Len(Written(n))
Slice(a, b) == SubSeq(Stream, a + 1, b)

\* Where the body of the request after the n-th starts.
BodyStart(n) == Start(n) + plan[n + 1].head + 1

\* Between requests: the buffer is what was read past the last one handled.
Holds(n) == /\ Start(n) <= pos
            /\ buf = Slice(Start(n), pos)

\* A request is under way: it is the next one the client wrote.
Cut(n) == /\ n < Len(plan)
          /\ plan[n + 1].head > 0
          /\ cur = HeadOf(n + 1)

\* Its header has been cut off: the buffer is what was read past it.
HoldsBody(n) == /\ BodyStart(n) <= pos
                /\ buf = Slice(BodyStart(n), pos)

\* Its body grows by what is read, and only past its end is anything left over.
Growing(n) == /\ BodyStart(n) + Len(body) <= pos
              /\ body = Slice(BodyStart(n), BodyStart(n) + Len(body))
              /\ buf = Slice(BodyStart(n) + Len(body), pos)
              /\ Len(body) < plan[n + 1].body => buf = <<>>

ConnectionInv ==
  LET n == Len(handled)
  IN /\ plan \in Plans
     /\ pos \in 0..Len(Stream)
     /\ pc \in PCs
     /\ n \in 0..Len(plan)
     /\ handled = [i \in 1..n |-> [head |-> HeadOf(i), body |-> BodyOf(i)]]
     /\ pc = "head" => Holds(n)
     /\ pc = "admit" => Cut(n) /\ HoldsBody(n)
     /\ pc = "body" => /\ Cut(n) /\ Len(body) \in Nat /\ Growing(n)
     /\ pc = "route" => Cut(n) /\ body = BodyOf(n + 1) /\ Holds(n + 1)
     /\ pc = "write" => Holds(n)
     /\ WholeRequestsServed

-----------------------------------------------------------------------------
(* The stream *)

LEMMA PlanFacts ==
  ASSUME plan \in Plans
  PROVE  /\ Len(plan) \in Nat
         /\ \A i \in 1..Len(plan) : plan[i] \in PlannedRequests
BY ConnectionAssumption

LEMMA BytesFacts ==
  ASSUME plan \in Plans, NEW i \in 1..Len(plan)
  PROVE  /\ Bytes(i) \in Seq(Symbols)
         /\ plan[i].head \in Nat /\ plan[i].body \in Nat
         /\ Len(Bytes(i)) = plan[i].head + 1 + plan[i].body
         /\ \A k \in 1..Len(Bytes(i)) : Bytes(i)[k].of = i
         /\ Bytes(i)[plan[i].head + 1].end
         /\ \A k \in 1..plan[i].head : ~ Bytes(i)[k].end
<1>. DEFINE h == plan[i].head
            b == plan[i].body
            n == h + 1 + b
            Byte(k) == [of |-> i, at |-> k, end |-> k = h + 1 \/ (k > h + 1 /\ plan[i].twin)]
<1>1. h \in Nat /\ b \in Nat /\ plan[i].twin \in BOOLEAN /\ i \in Nat
  BY PlanFacts DEF PlannedRequests
<1>2. Bytes(i) = [k \in 1..n |-> Byte(k)]
  BY DEF Bytes
<1>. HIDE DEF h, b
<1>3. n \in Nat /\ h + 1 \in 1..n /\ \A k \in 1..h : k \in 1..n /\ k # h + 1 /\ ~ (k > h + 1)
  BY <1>1
<1>. HIDE DEF n
<1>4. ASSUME NEW k \in 1..n
      PROVE  /\ Byte(k) \in Symbols /\ Byte(k).of = i
             /\ Byte(k).end <=> (k = h + 1 \/ (k > h + 1 /\ plan[i].twin))
  <2>. DEFINE e == k = h + 1 \/ (k > h + 1 /\ plan[i].twin)
  <2>1. e \in BOOLEAN /\ k \in Nat \ {0}
    BY <1>1, <1>3
  <2>2. Byte(k) = [of |-> i, at |-> k, end |-> e]
    OBVIOUS
  <2>. HIDE DEF e, Byte
  <2>3. Byte(k) \in Symbols /\ Byte(k).of = i /\ Byte(k).end = e
    BY <2>1, <2>2 DEF Symbols
  <2>. QED  BY <2>1, <2>3 DEF e
<1>. HIDE DEF Byte
<1>5. Bytes(i) \in [1..n -> Symbols] /\ \A k \in 1..n : Bytes(i)[k] = Byte(k)
  BY <1>2, <1>4
<1>6. Bytes(i) \in Seq(Symbols) /\ Len(Bytes(i)) = n
  BY <1>3, <1>5, IsASeq
<1>7. Bytes(i)[h + 1].end /\ \A k \in 1..h : ~ Bytes(i)[k].end
  BY <1>3, <1>4, <1>5
<1>8. \A k \in 1..Len(Bytes(i)) : Bytes(i)[k].of = i
  BY <1>4, <1>5, <1>6
<1>. QED  BY <1>1, <1>6, <1>7, <1>8 DEF h, b, n

LEMMA WrittenFacts ==
  ASSUME plan \in Plans
  PROVE  /\ Written(0) = <<>>
         /\ \A i \in 0..Len(plan) : Written(i) \in Seq(Symbols)
         /\ \A i \in 0..(Len(plan) - 1) : Written(i + 1) = Written(i) \o Bytes(i + 1)
<1>0. Len(plan) \in Nat
  BY PlanFacts
<1>1. Written(0) = <<>>
  BY DEF Written, FlattenSeq
<1>2. ASSUME NEW i \in 0..(Len(plan) - 1)
      PROVE  /\ Written(i) \in Seq(Symbols)
             /\ Written(i + 1) = Written(i) \o Bytes(i + 1)
  <2>. DEFINE f == [j \in 1..i |-> Bytes(j)]
              g == [j \in 1..(i + 1) |-> Bytes(j)]
              B == Seq(Symbols)
  <2>1. \A j \in 1..(i + 1) : Bytes(j) \in B
    BY <1>0, BytesFacts
  <2>. HIDE DEF B
  <2>2. f \in Seq(B) /\ Len(f) = i /\ \A j \in 1..i : f[j] = Bytes(j)
    <3>1. f \in [1..i -> B]
      BY <2>1
    <3>. QED  BY <1>0, <3>1, IsASeq
  <2>3. g \in Seq(B) /\ Len(g) = i + 1 /\ \A j \in 1..(i + 1) : g[j] = Bytes(j)
    <3>1. g \in [1..(i + 1) -> B]
      BY <2>1
    <3>. QED  BY <1>0, <3>1, IsASeq
  <2>. HIDE DEF f, g
  <2>4. g = Append(f, Bytes(i + 1))
    <3>1. Bytes(i + 1) \in B /\ i \in Nat
      BY <1>0, <2>1
    <3>2. /\ Append(f, Bytes(i + 1)) \in Seq(B) /\ Len(Append(f, Bytes(i + 1))) = i + 1
          /\ \A j \in 1..i : Append(f, Bytes(i + 1))[j] = f[j]
          /\ Append(f, Bytes(i + 1))[i + 1] = Bytes(i + 1)
      BY <2>2, <3>1
    <3>3. \A j \in 1..(i + 1) : g[j] = Append(f, Bytes(i + 1))[j]
      BY <2>2, <2>3, <3>1, <3>2
    <3>. QED  BY <2>3, <3>2, <3>3, SeqEqual
  <2>5. Bytes(i + 1) \in B /\ Written(i) = FlattenSeq(f) /\ Written(i + 1) = FlattenSeq(g)
    BY <1>0, <2>1 DEF Written, f, g
  <2>. QED  BY <2>2, <2>4, <2>5, FlattenAppend DEF B
<1>3. Written(Len(plan)) \in Seq(Symbols)
  <2>1. CASE Len(plan) = 0
    BY <1>1, <2>1, EmptySeq
  <2>2. CASE Len(plan) # 0
    <3>. DEFINE m == Len(plan) - 1
    <3>1. m \in 0..(Len(plan) - 1) /\ m + 1 = Len(plan) /\ Len(plan) \in 1..Len(plan)
      BY <1>0, <2>2
    <3>2. Bytes(Len(plan)) \in Seq(Symbols)
      BY <3>1, BytesFacts
    <3>3. Written(m) \in Seq(Symbols) /\ Written(Len(plan)) = Written(m) \o Bytes(Len(plan))
      BY <1>2, <3>1
    <3>. QED  BY <3>2, <3>3, ConcatProperties
  <2>. QED  BY <2>1, <2>2
<1>. QED  BY <1>0, <1>1, <1>2, <1>3

LEMMA StartStep ==
  ASSUME plan \in Plans, NEW i \in 0..(Len(plan) - 1)
  PROVE  /\ Start(i) \in Nat /\ Start(i + 1) \in Nat
         /\ Start(i + 1) = Start(i) + plan[i + 1].head + 1 + plan[i + 1].body
         /\ plan[i + 1].head \in Nat /\ plan[i + 1].body \in Nat
         /\ Start(i) + 1 <= Start(i + 1) /\ Start(i) + Len(Bytes(i + 1)) = Start(i + 1)
         /\ \A k \in 1..Start(i) : Written(i + 1)[k] = Written(i)[k]
         /\ \A k \in 1..Len(Bytes(i + 1)) : Written(i + 1)[Start(i) + k] = Bytes(i + 1)[k]
<1>1. i \in 0..Len(plan) /\ i + 1 \in 0..Len(plan) /\ i + 1 \in 1..Len(plan)
  BY PlanFacts
<1>. DEFINE W == Written(i)
            V == Written(i + 1)
            B == Bytes(i + 1)
            h == plan[i + 1].head
            b == plan[i + 1].body
<1>2. B \in Seq(Symbols) /\ Len(B) = h + 1 + b /\ h \in Nat /\ b \in Nat
  BY <1>1, BytesFacts
<1>3. W \in Seq(Symbols) /\ V \in Seq(Symbols) /\ V = W \o B
  BY <1>1, WrittenFacts
<1>. HIDE DEF W, V, B, h, b
<1>4. /\ Len(V) = Len(W) + Len(B)
      /\ \A k \in 1..(Len(W) + Len(B)) : V[k] = IF k <= Len(W) THEN W[k] ELSE B[k - Len(W)]
  BY <1>2, <1>3, ConcatProperties
<1>5. Len(W) \in Nat /\ Len(V) \in Nat /\ Len(B) \in Nat
  BY <1>2, <1>3
<1>6. \A k \in 1..Len(W) : V[k] = W[k]
  BY <1>4, <1>5
<1>7. ASSUME NEW k \in 1..Len(B) PROVE V[Len(W) + k] = B[k]
  <2>1. /\ Len(W) + k \in 1..(Len(W) + Len(B)) /\ ~ (Len(W) + k <= Len(W))
        /\ (Len(W) + k) - Len(W) = k
    BY <1>5
  <2>. QED  BY <1>4, <2>1
<1>8. Start(i) = Len(W) /\ Start(i + 1) = Len(V)
  BY DEF Start, W, V
<1>9. Start(i + 1) = Start(i) + h + 1 + b
  BY <1>2, <1>4, <1>5, <1>8
<1>10. Start(i) \in Nat /\ Start(i + 1) \in Nat
  BY <1>5, <1>8
<1>11. Start(i) + 1 <= Start(i + 1) /\ Start(i) + Len(B) = Start(i + 1)
  BY <1>2, <1>4, <1>8, <1>9, <1>10
<1>. QED  BY <1>2, <1>6, <1>7, <1>8, <1>9, <1>10, <1>11 DEF W, V, B, h, b

\* Each request starts after the ones before it, and what was written before it
\* stays in front of it.
LEMMA StartGrows ==
  ASSUME plan \in Plans, NEW i \in 0..Len(plan), NEW j \in i..Len(plan)
  PROVE  /\ Start(i) \in Nat /\ Start(j) \in Nat
         /\ Start(i) + (j - i) <= Start(j)
         /\ \A k \in 1..Start(i) : Written(j)[k] = Written(i)[k]
<1>. DEFINE P(m) == /\ Start(m) \in Nat
                    /\ Start(i) + (m - i) <= Start(m)
                    /\ \A k \in 1..Start(i) : Written(m)[k] = Written(i)[k]
            T == {m \in i..Len(plan) : ~ P(m)}
<1>0. Len(plan) \in Nat /\ Start(i) \in Nat
  <2>1. Len(plan) \in Nat /\ Written(i) \in Seq(Symbols)
    BY PlanFacts, WrittenFacts
  <2>. QED  BY <2>1 DEF Start
<1>. SUFFICES ASSUME T # {} PROVE FALSE
  BY <1>0
<1>1. PICK m \in T : \A k \in T : m <= k
  <2>1. T \in SUBSET Nat
    BY <1>0
  <2>. HIDE DEF T
  <2>. QED  BY <2>1, LeastOf
<1>2. m \in i..Len(plan) /\ ~ P(m)
  OBVIOUS
<1>3. CASE m = i
  BY <1>0, <1>2, <1>3
<1>4. CASE m # i
  <2>. DEFINE l == m - 1
  <2>1. l \in i..Len(plan) /\ l \in 0..(Len(plan) - 1) /\ l + 1 = m
    BY <1>0, <1>2, <1>4
  <2>2. P(l)
    BY <1>0, <1>1, <2>1
  <2>. HIDE DEF l
  <2>3. /\ Start(l) \in Nat /\ Start(m) \in Nat
        /\ \A k \in 1..Start(l) : Written(m)[k] = Written(l)[k]
    BY <2>1, StartStep
  <2>4. Start(l) + 1 <= Start(m)
    BY <2>1, StartStep
  <2>5. Start(i) + (m - i) <= Start(m)
    BY <1>0, <1>2, <2>1, <2>2, <2>3, <2>4
  <2>6. \A k \in 1..Start(i) : k \in 1..Start(l)
    BY <1>0, <2>1, <2>2
  <2>7. \A k \in 1..Start(i) : Written(m)[k] = Written(i)[k]
    BY <2>2, <2>3, <2>6
  <2>. QED  BY <1>2, <2>3, <2>5, <2>7
<1>. QED  BY <1>3, <1>4

\* The stream read through the requests it is made of.
LEMMA StreamFacts ==
  ASSUME plan \in Plans
  PROVE  /\ Stream \in Seq(Symbols) /\ Len(Stream) \in Nat
         /\ Start(0) = 0 /\ Start(Len(plan)) = Len(Stream)
         /\ \A i \in 0..Len(plan) : Start(i) \in 0..Len(Stream)
         /\ \A i, j \in 0..Len(plan) : i < j => Start(i) < Start(j)
<1>1. Len(plan) \in Nat /\ Len(plan) \in 0..Len(plan)
  BY PlanFacts
<1>2. Written(Len(plan)) \in Seq(Symbols) /\ Written(0) = <<>>
  BY <1>1, WrittenFacts
<1>3. Stream \in Seq(Symbols) /\ Len(Stream) \in Nat /\ Start(Len(plan)) = Len(Stream)
  BY <1>2 DEF Stream, Start
<1>4. ASSUME NEW i \in 0..Len(plan) PROVE Start(i) \in 0..Len(Stream)
  <2>1. Len(plan) \in i..Len(plan)
    BY <1>1
  <2>2. Start(i) \in Nat /\ Start(i) + (Len(plan) - i) <= Start(Len(plan))
    BY <2>1, StartGrows
  <2>. QED  BY <1>1, <1>3, <2>2
<1>5. ASSUME NEW i \in 0..Len(plan), NEW j \in 0..Len(plan), i < j PROVE Start(i) < Start(j)
  <2>1. j \in i..Len(plan)
    BY <1>1, <1>5
  <2>2. Start(i) \in Nat /\ Start(j) \in Nat /\ Start(i) + (j - i) <= Start(j)
    BY <2>1, StartGrows
  <2>. QED  BY <1>5, <2>2
<1>6. Start(0) = 0
  BY <1>2 DEF Start
<1>. QED  BY <1>3, <1>4, <1>5, <1>6

LEMMA ByteAt ==
  ASSUME plan \in Plans, NEW i \in 0..(Len(plan) - 1), NEW k \in 1..Len(Bytes(i + 1))
  PROVE  Stream[Start(i) + k] = Bytes(i + 1)[k]
<1>1. /\ Len(plan) \in Nat /\ i + 1 \in 0..Len(plan)
      /\ Len(plan) \in (i + 1)..Len(plan) /\ i + 1 \in 1..Len(plan)
  BY PlanFacts
<1>. DEFINE n == Len(Bytes(i + 1))
<1>2. /\ Start(i) + n = Start(i + 1) /\ Start(i) \in Nat
      /\ Written(i + 1)[Start(i) + k] = Bytes(i + 1)[k]
  BY StartStep
<1>3. n \in Nat /\ k \in 1..n
  <2>1. Bytes(i + 1) \in Seq(Symbols)
    BY <1>1, BytesFacts
  <2>. QED  BY <2>1
<1>. HIDE DEF n
<1>4. Start(i) + k \in 1..Start(i + 1)
  <2>1. \A a \in Nat, m \in Nat : \A l \in 1..m : a + l \in 1..(a + m)
    OBVIOUS
  <2>. QED  BY <1>2, <1>3, <2>1
<1>5. Written(Len(plan))[Start(i) + k] = Written(i + 1)[Start(i) + k]
  BY <1>1, <1>4, StartGrows
<1>. QED  BY <1>2, <1>5 DEF Stream

-----------------------------------------------------------------------------
(* Slices of the stream *)

LEMMA SubSeqFacts ==
  ASSUME NEW S, NEW s \in Seq(S), NEW a \in Nat, NEW b \in Nat, a <= b, b <= Len(s)
  PROVE  /\ SubSeq(s, a + 1, b) \in Seq(S)
         /\ Len(SubSeq(s, a + 1, b)) = b - a
         /\ \A k \in 1..(b - a) : SubSeq(s, a + 1, b)[k] = s[a + k]
<1>1. \A k \in (a + 1)..b : s[k] \in S
  OBVIOUS
<1>2. a + 1 \in Int /\ b \in Int /\ (b - (a + 1)) + 1 = b - a
      /\ \A k \in 1..(b - a) : ((a + 1) + k) - 1 = a + k
  OBVIOUS
<1>3. /\ SubSeq(s, a + 1, b) \in Seq(S)
      /\ Len(SubSeq(s, a + 1, b)) = IF a + 1 <= b THEN (b - (a + 1)) + 1 ELSE 0
      /\ \A k \in 1..((b - (a + 1)) + 1) : SubSeq(s, a + 1, b)[k] = s[((a + 1) + k) - 1]
  BY <1>1, <1>2, SubSeqProperties
<1>4. Len(SubSeq(s, a + 1, b)) = b - a
  BY <1>3
<1>5. \A k \in 1..(b - a) : SubSeq(s, a + 1, b)[k] = s[a + k]
  BY <1>2, <1>3
<1>. QED  BY <1>3, <1>4, <1>5

LEMMA SubSeqJoin ==
  ASSUME NEW S, NEW s \in Seq(S), NEW a \in Nat, NEW b \in Nat, NEW c \in Nat,
         a <= b, b <= c, c <= Len(s)
  PROVE  SubSeq(s, a + 1, b) \o SubSeq(s, b + 1, c) = SubSeq(s, a + 1, c)
<1>1. a + 1 \in 1..(Len(s) + 1) /\ b \in ((a + 1) - 1)..Len(s) /\ c \in b..Len(s)
  OBVIOUS
<1>. QED  BY <1>1, ConcatAdjacentSubSeq

LEMMA SubSeqCut ==
  ASSUME NEW S, NEW s \in Seq(S), NEW a \in Nat, NEW b \in Nat, NEW n \in Nat,
         a + n <= b, b <= Len(s)
  PROVE  /\ Take(SubSeq(s, a + 1, b), n) = SubSeq(s, a + 1, a + n)
         /\ Drop(SubSeq(s, a + 1, b), n) = SubSeq(s, (a + n) + 1, b)
<1>. DEFINE t == SubSeq(s, a + 1, b)
            u == SubSeq(s, a + 1, a + n)
            v == SubSeq(s, (a + n) + 1, b)
<1>1. t \in Seq(S) /\ Len(t) = b - a /\ \A k \in 1..(b - a) : t[k] = s[a + k]
  BY SubSeqFacts
<1>2. u \in Seq(S) /\ Len(u) = n /\ \A k \in 1..n : u[k] = s[a + k]
  <2>1. a + n \in Nat /\ a <= a + n /\ a + n <= Len(s) /\ (a + n) - a = n
    OBVIOUS
  <2>. QED  BY <2>1, SubSeqFacts
<1>3. /\ v \in Seq(S) /\ Len(v) = b - (a + n)
      /\ \A k \in 1..(b - (a + n)) : v[k] = s[(a + n) + k]
  <2>1. a + n \in Nat
    OBVIOUS
  <2>. QED  BY <2>1, SubSeqFacts
<1>. HIDE DEF t, u, v
<1>4. Take(t, n) = u
  <2>1. /\ SubSeq(t, 0 + 1, n) \in Seq(S) /\ Len(SubSeq(t, 0 + 1, n)) = n - 0
        /\ \A k \in 1..(n - 0) : SubSeq(t, 0 + 1, n)[k] = t[0 + k]
    BY <1>1, SubSeqFacts
  <2>2. /\ Take(t, n) \in Seq(S) /\ Len(Take(t, n)) = n
        /\ \A k \in 1..n : Take(t, n)[k] = t[k]
    BY <2>1 DEF Take
  <2>3. \A k \in 1..n : k \in 1..(b - a)
    OBVIOUS
  <2>4. \A k \in 1..Len(Take(t, n)) : Take(t, n)[k] = u[k]
    BY <1>1, <1>2, <2>2, <2>3
  <2>. QED  BY <1>2, <2>2, <2>4, SeqEqual
<1>5. Drop(t, n) = v
  <2>1. /\ SubSeq(t, n + 1, b - a) \in Seq(S) /\ Len(SubSeq(t, n + 1, b - a)) = (b - a) - n
        /\ \A k \in 1..((b - a) - n) : SubSeq(t, n + 1, b - a)[k] = t[n + k]
    <3>1. b - a \in Nat /\ n <= b - a /\ b - a <= Len(t)
      BY <1>1
    <3>. QED  BY <1>1, <3>1, SubSeqFacts
  <2>2. (b - a) - n = b - (a + n)
    OBVIOUS
  <2>3. /\ Drop(t, n) \in Seq(S) /\ Len(Drop(t, n)) = b - (a + n)
        /\ \A k \in 1..(b - (a + n)) : Drop(t, n)[k] = t[n + k]
    BY <1>1, <2>1, <2>2 DEF Drop
  <2>4. \A k \in 1..(b - (a + n)) : n + k \in 1..(b - a) /\ a + (n + k) = (a + n) + k
    OBVIOUS
  <2>5. \A k \in 1..Len(Drop(t, n)) : Drop(t, n)[k] = v[k]
    BY <1>1, <1>3, <2>3, <2>4
  <2>. QED  BY <1>3, <2>3, <2>5, SeqEqual
<1>. QED  BY <1>4, <1>5 DEF t, u, v

LEMMA SliceJoin ==
  ASSUME plan \in Plans, NEW a \in Nat, NEW b \in Nat, NEW c \in Nat,
         a <= b, b <= c, c <= Len(Stream)
  PROVE  Slice(a, b) \o Slice(b, c) = Slice(a, c)
<1>1. Stream \in Seq(Symbols)
  BY StreamFacts
<1>. QED  BY <1>1, SubSeqJoin DEF Slice

LEMMA SliceCut ==
  ASSUME plan \in Plans, NEW a \in Nat, NEW b \in Nat, NEW n \in Nat,
         a + n <= b, b <= Len(Stream)
  PROVE  /\ Take(Slice(a, b), n) = Slice(a, a + n)
         /\ Drop(Slice(a, b), n) = Slice(a + n, b)
<1>1. Stream \in Seq(Symbols)
  BY StreamFacts
<1>. QED  BY <1>1, SubSeqCut DEF Slice

LEMMA SliceLen ==
  ASSUME plan \in Plans, NEW a \in Nat, NEW b \in Nat, a <= b, b <= Len(Stream)
  PROVE  Len(Slice(a, b)) = b - a
<1>1. Stream \in Seq(Symbols)
  BY StreamFacts
<1>. QED  BY <1>1, SubSeqFacts DEF Slice

LEMMA MinFacts ==
  ASSUME NEW a \in Nat, NEW b \in Nat
  PROVE  Min({a, b}) \in {a, b} /\ Min({a, b}) <= a /\ Min({a, b}) <= b
<1>1. \E x \in {a, b} : \A y \in {a, b} : x <= y
  OBVIOUS
<1>. QED  BY <1>1 DEF Min

\* A read returns the next bytes of the stream, at least one.
LEMMA ReadsFacts ==
  ASSUME plan \in Plans, pos \in 0..Len(Stream), NEW r \in Reads
  PROVE  /\ Len(r) \in Nat \ {0} /\ pos + Len(r) \in 0..Len(Stream)
         /\ r = Slice(pos, pos + Len(r))
<1>1. Stream \in Seq(Symbols) /\ Len(Stream) \in Nat
  BY StreamFacts
<1>. DEFINE m == Min({Chunk, Len(Stream) - pos})
<1>2. m \in Nat /\ m <= Len(Stream) - pos
  <2>1. Chunk \in Nat /\ Len(Stream) - pos \in Nat
    BY <1>1, ConnectionAssumption
  <2>. QED  BY <2>1, MinFacts
<1>3. PICK n \in 1..m : r = SubSeq(Stream, pos + 1, pos + n)
  BY DEF Reads
<1>. HIDE DEF m
<1>4. n \in Nat \ {0} /\ pos \in Nat /\ pos + n \in Nat /\ pos + n <= Len(Stream) /\ pos <= pos + n
      /\ (pos + n) - pos = n
  BY <1>1, <1>2
<1>5. Len(r) = n
  BY <1>1, <1>3, <1>4, SubSeqFacts
<1>. QED  BY <1>1, <1>3, <1>4, <1>5 DEF Slice

\* The header and the body of a request are slices of the stream.
LEMMA RequestSlices ==
  ASSUME plan \in Plans, NEW i \in 0..(Len(plan) - 1)
  PROVE  /\ HeadOf(i + 1) = Slice(Start(i), Start(i) + plan[i + 1].head)
         /\ BodyOf(i + 1) = Slice(BodyStart(i), Start(i + 1))
<1>. DEFINE B == Bytes(i + 1)
            h == plan[i + 1].head
            b == plan[i + 1].body
            l == h + 1 + b
            at == Start(i)
<1>1. /\ B \in Seq(Symbols) /\ h \in Nat /\ b \in Nat /\ Len(B) = l
  <2>1. i + 1 \in 1..Len(plan)
    BY PlanFacts
  <2>. QED  BY <2>1, BytesFacts
<1>2. /\ at \in Nat /\ Start(i + 1) = at + l /\ Start(i + 1) <= Len(Stream)
      /\ Stream \in Seq(Symbols) /\ Len(Stream) \in Nat
  <2>1. at \in Nat /\ Start(i + 1) = at + Len(B)
    BY StartStep
  <2>2. i + 1 \in 0..Len(plan)
    BY PlanFacts
  <2>3. Start(i + 1) \in 0..Len(Stream) /\ Stream \in Seq(Symbols) /\ Len(Stream) \in Nat
    BY <2>2, StreamFacts
  <2>. QED  BY <1>1, <2>1, <2>3
<1>3. \A k \in 1..l : Stream[at + k] = B[k]
  BY <1>1, ByteAt
<1>4. HeadOf(i + 1) = SubSeq(B, 0 + 1, h) /\ BodyOf(i + 1) = SubSeq(B, (h + 1) + 1, l)
  <2>1. (h + 1) + 1 = h + 2 /\ 0 + 1 = 1
    BY <1>1
  <2>. QED  BY <1>1, <2>1 DEF HeadOf, BodyOf
<1>5. BodyStart(i) = at + h + 1
  BY DEF BodyStart
<1>. HIDE DEF B, h, b, at
<1>6. l \in Nat /\ h <= l /\ h + 1 <= l /\ h + 1 \in Nat /\ at + h \in Nat /\ at + h + 1 \in Nat
      /\ at + l \in Nat /\ at + h <= Len(Stream) /\ at <= at + h /\ at + h + 1 <= at + l
      /\ (at + h) - at = h /\ (at + l) - (at + h + 1) = l - (h + 1)
  BY <1>1, <1>2
<1>7. SubSeq(B, 0 + 1, h) = SubSeq(Stream, at + 1, at + h)
  <2>. DEFINE u == SubSeq(B, 0 + 1, h)
              v == SubSeq(Stream, at + 1, at + h)
  <2>1. u \in Seq(Symbols) /\ Len(u) = h - 0 /\ \A k \in 1..(h - 0) : u[k] = B[0 + k]
    BY <1>1, <1>6, SubSeqFacts
  <2>2. /\ v \in Seq(Symbols) /\ Len(v) = (at + h) - at
        /\ \A k \in 1..((at + h) - at) : v[k] = Stream[at + k]
    <3>. HIDE DEF l
    <3>1. at \in Nat /\ at + h \in Nat /\ at <= at + h /\ at + h <= Len(Stream)
      BY <1>2, <1>6
    <3>. QED  BY <1>2, <3>1, SubSeqFacts
  <2>. HIDE DEF u, v
  <2>3. \A k \in 1..h : k \in 1..l
    BY <1>1
  <2>4. \A k \in 1..h : u[k] = v[k]
    BY <1>1, <1>3, <1>6, <2>1, <2>2, <2>3
  <2>5. Len(u) = h /\ Len(v) = h
    BY <1>1, <1>6, <2>1, <2>2
  <2>6. u = v
    BY <2>1, <2>2, <2>4, <2>5, SeqEqual
  <2>. QED  BY <2>6 DEF u, v
<1>8. SubSeq(B, (h + 1) + 1, l) = SubSeq(Stream, (at + h + 1) + 1, at + l)
  <2>. DEFINE u == SubSeq(B, (h + 1) + 1, l)
              v == SubSeq(Stream, (at + h + 1) + 1, at + l)
              m == l - (h + 1)
  <2>1. u \in Seq(Symbols) /\ Len(u) = m /\ \A k \in 1..m : u[k] = B[(h + 1) + k]
    <3>. HIDE DEF l
    <3>. QED  BY <1>1, <1>6, SubSeqFacts
  <2>2. /\ v \in Seq(Symbols) /\ Len(v) = (at + l) - (at + h + 1)
        /\ \A k \in 1..((at + l) - (at + h + 1)) : v[k] = Stream[(at + h + 1) + k]
    <3>. HIDE DEF l
    <3>1. /\ at + h + 1 \in Nat /\ at + l \in Nat /\ at + h + 1 <= at + l
          /\ at + l <= Len(Stream)
      BY <1>2, <1>6
    <3>. QED  BY <1>2, <3>1, SubSeqFacts
  <2>. HIDE DEF u, v
  <2>3. \A k \in 1..m : (h + 1) + k \in 1..l /\ (at + h + 1) + k = at + ((h + 1) + k)
    BY <1>1, <1>2
  <2>. HIDE DEF m, l
  <2>4. m = (at + l) - (at + h + 1)
    BY <1>6 DEF m
  <2>5. \A k \in 1..m : u[k] = v[k]
    BY <1>3, <2>1, <2>2, <2>3, <2>4
  <2>6. u = v
    BY <2>1, <2>2, <2>4, <2>5, SeqEqual
  <2>. QED  BY <2>6 DEF u, v
<1>9. HeadOf(i + 1) = Slice(at, at + h) /\ BodyOf(i + 1) = Slice(at + h + 1, at + l)
  BY <1>4, <1>7, <1>8 DEF Slice
<1>. QED  BY <1>2, <1>5, <1>9 DEF at, h

\* What a reader of the buffer sees of the request that comes next: its own
\* bytes, and the terminator behind its header.
LEMMA NextRequest ==
  ASSUME plan \in Plans, NEW n \in 0..Len(plan), NEW p \in 0..Len(Stream), Start(n) <= p,
         NEW s, s = Slice(Start(n), p)
  PROVE  /\ s \in Seq(Symbols) /\ Len(s) = p - Start(n)
         /\ s # <<>> => n < Len(plan) /\ s[1].of = n + 1
         /\ n < Len(plan) =>
              /\ Ends(s) = {} <=> p <= Start(n) + plan[n + 1].head
              /\ Ends(s) # {} => HeaderEnd(s) = plan[n + 1].head + 1
         /\ Ends(s) # {} => n < Len(plan)
<1>0. Len(plan) \in Nat /\ Stream \in Seq(Symbols) /\ Len(Stream) \in Nat /\ Start(n) \in Nat
      /\ Start(Len(plan)) = Len(Stream)
  BY PlanFacts, StreamFacts
<1>. DEFINE a == Start(n)
            m == p - a
<1>1. s \in Seq(Symbols) /\ Len(s) = m /\ \A k \in 1..m : s[k] = Stream[a + k]
  BY <1>0, SubSeqFacts DEF Slice
<1>2. m \in Nat /\ (m = 0 => s = <<>>)
  BY <1>0, <1>1
<1>3. CASE n = Len(plan)
  <2>1. m = 0
    BY <1>0, <1>3
  <2>2. s = <<>> /\ Ends(s) = {}
    BY <1>1, <1>2, <2>1 DEF Ends
  <2>. QED  BY <1>0, <1>1, <1>3, <2>2
<1>4. CASE n < Len(plan)
  <2>. DEFINE B == Bytes(n + 1)
              h == plan[n + 1].head
  <2>1. n \in 0..(Len(plan) - 1) /\ n + 1 \in 1..Len(plan)
    BY <1>0, <1>4
  <2>2. /\ B \in Seq(Symbols) /\ h \in Nat /\ Len(B) \in Nat /\ h + 1 <= Len(B)
        /\ \A k \in 1..Len(B) : B[k].of = n + 1
        /\ B[h + 1].end /\ \A k \in 1..h : ~ B[k].end
    <3>1. /\ B \in Seq(Symbols) /\ h \in Nat /\ plan[n + 1].body \in Nat
          /\ Len(B) = h + 1 + plan[n + 1].body
          /\ \A k \in 1..Len(B) : B[k].of = n + 1
          /\ B[h + 1].end /\ \A k \in 1..h : ~ B[k].end
      BY <2>1, BytesFacts
    <3>. DEFINE b == plan[n + 1].body
    <3>. HIDE DEF b, h, B
    <3>2. Len(B) = h + 1 + b /\ b \in Nat /\ h \in Nat
      BY <3>1 DEF b
    <3>3. Len(B) \in Nat /\ h + 1 <= Len(B)
      BY <3>2
    <3>. QED  BY <3>1, <3>3
  <2>3. \A k \in 1..Len(B) : Stream[a + k] = B[k]
    BY <2>1, ByteAt
  <2>. HIDE DEF B, h
  <2>4. \A k \in 1..m : k <= Len(B) => s[k] = B[k]
    BY <1>1, <1>2, <2>2, <2>3
  <2>5. s # <<>> => s[1].of = n + 1
    <3>. SUFFICES ASSUME s # <<>> PROVE s[1].of = n + 1
      OBVIOUS
    <3>1. 1 \in 1..m /\ 1 <= Len(B) /\ 1 \in 1..Len(B)
      BY <1>2, <2>2
    <3>. QED  BY <2>2, <2>4, <3>1
  <2>6. \A k \in 1..m : k <= h => ~ s[k].end
    BY <1>2, <2>2, <2>4
  <2>. HIDE DEF a, m
  <2>a. h \in Nat /\ a \in Nat /\ p \in Nat /\ m \in Nat /\ m = p - a
    BY <1>0, <1>2, <2>2 DEF a, m
  <2>7. ASSUME p <= a + h PROVE Ends(s) = {}
    <3>1. m <= h
      BY <2>a, <2>7
    <3>2. \A k \in 1..m : k <= h
      BY <2>a, <3>1
    <3>. QED  BY <1>1, <2>6, <3>2 DEF Ends
  <2>8. ASSUME ~ (p <= a + h) PROVE Ends(s) # {} /\ HeaderEnd(s) = h + 1
    <3>1. h + 1 \in 1..m
      BY <2>a, <2>8
    <3>2. s[h + 1] = B[h + 1]
      BY <2>2, <2>4, <3>1
    <3>3. h + 1 \in Ends(s)
      BY <1>1, <2>2, <3>1, <3>2 DEF Ends
    <3>4. \A j \in Ends(s) : j \in Nat /\ h + 1 <= j
      BY <1>1, <1>2, <2>2, <2>6 DEF Ends
    <3>5. \E k \in Ends(s) : \A j \in Ends(s) : k <= j
      BY <3>3, <3>4
    <3>. DEFINE e == HeaderEnd(s)
    <3>6. e \in Ends(s) /\ \A j \in Ends(s) : e <= j
      BY <3>5 DEF HeaderEnd
    <3>. HIDE DEF e
    <3>7. e = h + 1
      BY <2>2, <3>3, <3>4, <3>6
    <3>. QED  BY <3>3, <3>7 DEF e
  <2>9. Ends(s) = {} <=> p <= a + h
    BY <2>7, <2>8
  <2>10. Ends(s) # {} => HeaderEnd(s) = h + 1
    BY <2>7, <2>8
  <2>. QED  BY <1>1, <1>4, <2>5, <2>9, <2>10 DEF h, a, m
<1>5. n = Len(plan) \/ n < Len(plan)
  BY <1>0
<1>. QED  BY <1>3, <1>4, <1>5

-----------------------------------------------------------------------------
(* The invariant is kept *)

FirstHandled(m) == [i \in 1..m |-> [head |-> HeadOf(i), body |-> BodyOf(i)]]

LEMMA PlanKept ==
  ASSUME plan' = plan
  PROVE  /\ Stream' = Stream
         /\ \A n : /\ Start(n)' = Start(n) /\ BodyStart(n)' = BodyStart(n)
                   /\ HeadOf(n)' = HeadOf(n) /\ BodyOf(n)' = BodyOf(n)
                   /\ FirstHandled(n)' = FirstHandled(n)
         /\ \A a, b : Slice(a, b)' = Slice(a, b)
<1>1. \A n : Bytes(n)' = Bytes(n)
  BY DEF Bytes
<1>2. \A n : Written(n)' = Written(n)
  BY <1>1 DEF Written
<1>3. Stream' = Stream
  BY <1>2 DEF Stream
<1>4. \A n : Start(n)' = Start(n)
  BY <1>2 DEF Start
<1>5. \A n : HeadOf(n)' = HeadOf(n) /\ BodyOf(n)' = BodyOf(n)
  BY <1>1 DEF HeadOf, BodyOf
<1>6. \A n : BodyStart(n)' = BodyStart(n)
  BY <1>4 DEF BodyStart
<1>7. \A a, b : Slice(a, b)' = Slice(a, b)
  BY <1>3 DEF Slice
<1>8. \A n : FirstHandled(n)' = FirstHandled(n)
  BY <1>5 DEF FirstHandled
<1>. QED  BY <1>3, <1>4, <1>5, <1>6, <1>7, <1>8

\* Every request that has arrived whole is among the first n.
NoneWaits(n, p) == \A i \in 1..Len(plan) : Start(i) <= p => i <= n

\* What a step has to show, in terms of the stream, which no step changes.
LEMMA InvNext ==
  ASSUME plan \in Plans, plan' = plan, pos' \in 0..Len(Stream), pc' \in PCs,
         NEW m \in 0..Len(plan), handled' = FirstHandled(m),
         pc' \in {"head", "write"} => Start(m) <= pos' /\ buf' = Slice(Start(m), pos'),
         pc' \in {"admit", "body", "route"} =>
           m < Len(plan) /\ plan[m + 1].head > 0 /\ cur' = HeadOf(m + 1),
         pc' = "admit" => BodyStart(m) <= pos' /\ buf' = Slice(BodyStart(m), pos'),
         pc' = "body" =>
           /\ Len(body') \in Nat
           /\ BodyStart(m) + Len(body') <= pos'
           /\ body' = Slice(BodyStart(m), BodyStart(m) + Len(body'))
           /\ buf' = Slice(BodyStart(m) + Len(body'), pos')
           /\ Len(body') < plan[m + 1].body => buf' = <<>>,
         pc' = "route" =>
           /\ body' = BodyOf(m + 1)
           /\ Start(m + 1) <= pos' /\ buf' = Slice(Start(m + 1), pos'),
         pc' = "closed" /\ cause' \in {"ended", "stalled", "io"} => NoneWaits(m, pos')
  PROVE  ConnectionInv'
<1>0. Len(plan) \in Nat
  BY PlanFacts
<1>1. Len(handled') = m
  BY <1>0 DEF FirstHandled
<1>2. /\ Stream' = Stream
      /\ \A n : /\ Start(n)' = Start(n) /\ BodyStart(n)' = BodyStart(n)
                /\ HeadOf(n)' = HeadOf(n) /\ BodyOf(n)' = BodyOf(n)
      /\ \A a, b : Slice(a, b)' = Slice(a, b)
      /\ FirstHandled(m)' = FirstHandled(m)
  BY PlanKept
<1>3. WholeRequestsServed'
  <2>1. \A i : Len(Written(i))' = Start(i)
    BY <1>2 DEF Start
  <2>. QED  BY <1>1, <2>1 DEF WholeRequestsServed, NoneWaits
<1>4. pc' \in {"head", "write"} => Holds(m)'
  BY <1>2 DEF Holds
<1>5. pc' \in {"admit", "body", "route"} => Cut(m)'
  BY <1>2 DEF Cut
<1>6. pc' = "admit" => HoldsBody(m)'
  BY <1>2 DEF HoldsBody
<1>7. pc' = "body" => Len(body') \in Nat /\ Growing(m)'
  BY <1>2 DEF Growing
<1>8. pc' = "route" => body' = BodyOf(m + 1)' /\ Holds(m + 1)'
  BY <1>2 DEF Holds
<1>. QED  BY <1>0, <1>1, <1>2, <1>3, <1>4, <1>5, <1>6, <1>7, <1>8 DEF ConnectionInv, FirstHandled

LEMMA InvFacts ==
  ASSUME ConnectionInv
  PROVE  /\ plan \in Plans /\ Len(plan) \in Nat
         /\ Stream \in Seq(Symbols) /\ Len(Stream) \in Nat
         /\ pos \in 0..Len(Stream) /\ pos \in Nat
         /\ Len(handled) \in 0..Len(plan) /\ Len(handled) \in Nat
         /\ handled = FirstHandled(Len(handled)) /\ pc \in PCs
         /\ Start(Len(handled)) \in Nat
         /\ pc \in {"head", "write"} => Holds(Len(handled))
         /\ pc \in {"admit", "body", "route"} => Cut(Len(handled))
         /\ pc = "admit" => HoldsBody(Len(handled))
         /\ pc = "body" => Len(body) \in Nat /\ Growing(Len(handled))
         /\ pc = "route" => body = BodyOf(Len(handled) + 1) /\ Holds(Len(handled) + 1)
         /\ WholeRequestsServed
<1>1. plan \in Plans
  BY DEF ConnectionInv
<1>2. /\ Len(plan) \in Nat /\ Stream \in Seq(Symbols) /\ Len(Stream) \in Nat
      /\ \A i \in 0..Len(plan) : Start(i) \in 0..Len(Stream)
  BY <1>1, PlanFacts, StreamFacts
<1>. QED  BY <1>1, <1>2 DEF ConnectionInv, FirstHandled

\* The request whose header was cut off, seen by the bytes it was written with.
LEMMA CutFacts ==
  ASSUME plan \in Plans, NEW n \in Nat, Cut(n)
  PROVE  /\ n \in 0..(Len(plan) - 1) /\ n + 1 \in 0..Len(plan)
         /\ Request = plan[n + 1]
         /\ plan[n + 1].body \in Nat
         /\ BodyStart(n) \in Nat /\ Start(n + 1) = BodyStart(n) + plan[n + 1].body
         /\ Start(n + 1) \in Nat /\ Start(n + 1) <= Len(Stream)
         /\ BodyOf(n + 1) = Slice(BodyStart(n), Start(n + 1))
<1>1. n \in 0..(Len(plan) - 1) /\ n + 1 \in 0..Len(plan) /\ n + 1 \in 1..Len(plan)
  BY PlanFacts DEF Cut
<1>. DEFINE h == plan[n + 1].head
            b == plan[n + 1].body
            B == Bytes(n + 1)
<1>2. /\ B \in Seq(Symbols) /\ h \in Nat /\ b \in Nat /\ Len(B) = h + 1 + b
      /\ \A k \in 1..Len(B) : B[k].of = n + 1
  BY <1>1, BytesFacts
<1>3. h > 0 /\ cur = SubSeq(B, 1, h)
  BY DEF Cut, HeadOf
<1>4. Start(n) \in Nat /\ Start(n + 1) = Start(n) + h + 1 + b /\ BodyStart(n) = Start(n) + h + 1
  BY <1>1, StartStep DEF BodyStart
<1>5. Start(n + 1) \in 0..Len(Stream) /\ Len(Stream) \in Nat
  BY <1>1, StreamFacts
<1>. HIDE DEF h, b, B
<1>6. cur[1] = B[1] /\ 1 \in 1..Len(B)
  <2>1. /\ 0 \in Nat /\ 0 <= h /\ h <= Len(B) /\ 1 \in 1..(h - 0) /\ 1 \in 1..Len(B)
        /\ 0 + 1 = 1
    BY <1>2, <1>3
  <2>2. \A k \in 1..(h - 0) : SubSeq(B, 0 + 1, h)[k] = B[0 + k]
    BY <1>2, <2>1, SubSeqFacts
  <2>. QED  BY <1>3, <2>1, <2>2
<1>7. Request = plan[n + 1]
  BY <1>2, <1>6 DEF Request
<1>8. BodyStart(n) \in Nat /\ Start(n + 1) = BodyStart(n) + b /\ Start(n + 1) \in Nat
  BY <1>2, <1>4
<1>9. BodyOf(n + 1) = Slice(BodyStart(n), Start(n + 1))
  BY <1>1, RequestSlices
<1>. QED  BY <1>1, <1>2, <1>5, <1>7, <1>8, <1>9 DEF b

LEMMA SliceEmpty ==
  ASSUME NEW a \in Nat
  PROVE  Slice(a, a) = <<>>
BY SubSeqEmpty DEF Slice

\* A client that stops before the end of a request leaves no whole one behind.
LEMMA NoneWaitsBefore ==
  ASSUME plan \in Plans, NEW n \in 0..Len(plan), NEW p \in 0..Len(Stream),
         n < Len(plan) => p < Start(n + 1)
  PROVE  NoneWaits(n, p)
<1>0. Len(plan) \in Nat /\ Len(Stream) \in Nat
  BY PlanFacts, StreamFacts
<1>. SUFFICES ASSUME NEW i \in 1..Len(plan), Start(i) <= p, ~ (i <= n) PROVE FALSE
  BY DEF NoneWaits
<1>1. n < Len(plan) /\ n + 1 \in 0..Len(plan) /\ i \in 0..Len(plan) /\ (n + 1 < i \/ n + 1 = i)
  BY <1>0
<1>2. Start(n + 1) \in Nat /\ Start(i) \in Nat
  BY <1>1, StreamFacts
<1>3. Start(n + 1) <= Start(i)
  BY <1>1, <1>2, StreamFacts
<1>. QED  BY <1>0, <1>1, <1>2, <1>3

\* A step that closes the connection for a reason other than the client's.
LEMMA Closes ==
  ASSUME ConnectionInv, UNCHANGED <<io, handled>>, pc' = "closed",
         cause' \notin {"ended", "stalled", "io"}
  PROVE  ConnectionInv'
BY InvFacts, InvNext DEF io, PCs

LEMMA HeadReads ==
  ASSUME ConnectionInv, ReadHead
  PROVE  ConnectionInv'
<1>. DEFINE n == Len(handled)
<1>1. PICK r \in Reads : pos' = pos + Len(r) /\ buf' = buf \o r
  BY DEF ReadHead
<1>2. /\ pc = "head" /\ plan' = plan /\ handled' = handled
      /\ pc' = "head" \/ (pc' = "closed" /\ cause' = "large")
  BY DEF ReadHead, HeadError
<1>3. /\ plan \in Plans /\ pos \in Nat /\ n \in 0..Len(plan) /\ handled = FirstHandled(n)
      /\ Start(n) \in Nat /\ Start(n) <= pos /\ buf = Slice(Start(n), pos)
      /\ Stream \in Seq(Symbols) /\ pos \in 0..Len(Stream) /\ Len(Stream) \in Nat
  BY <1>2, InvFacts DEF Holds
<1>4. Len(r) \in Nat /\ pos' \in 0..Len(Stream) /\ r = Slice(pos, pos')
  BY <1>1, <1>3, ReadsFacts
<1>. HIDE DEF n
<1>5. pos' \in Nat /\ pos <= pos' /\ Start(n) <= pos' /\ pos' <= Len(Stream)
  BY <1>1, <1>3, <1>4
<1>6. buf' = Slice(Start(n), pos')
  <2>1. Slice(Start(n), pos) \o Slice(pos, pos') = Slice(Start(n), pos')
    BY <1>3, <1>5, SliceJoin
  <2>. QED  BY <1>1, <1>3, <1>4, <2>1
<1>. QED  BY <1>2, <1>3, <1>4, <1>5, <1>6, InvNext DEF PCs

LEMMA HeadStops ==
  ASSUME ConnectionInv, HeadFails
  PROVE  ConnectionInv'
<1>. DEFINE n == Len(handled)
<1>1. /\ pc = "head" /\ Ends(buf) = {} /\ plan' = plan /\ pos' = pos /\ handled' = handled
      /\ pc' = "closed"
  BY DEF HeadFails, HeadError, io
<1>2. /\ plan \in Plans /\ n \in 0..Len(plan) /\ handled = FirstHandled(n)
      /\ Start(n) \in Nat /\ Start(n) <= pos /\ buf = Slice(Start(n), pos)
      /\ pos \in 0..Len(Stream) /\ pos \in Nat /\ Len(plan) \in Nat
  BY <1>1, InvFacts DEF Holds
<1>. HIDE DEF n
<1>3. n < Len(plan) => pos < Start(n + 1)
  <2>. SUFFICES ASSUME n < Len(plan) PROVE pos < Start(n + 1)
    OBVIOUS
  <2>. DEFINE h == plan[n + 1].head
              b == plan[n + 1].body
  <2>1. pos <= Start(n) + h
    BY <1>1, <1>2, NextRequest
  <2>2. n \in 0..(Len(plan) - 1)
    BY <1>2
  <2>3. Start(n + 1) = Start(n) + h + 1 + b /\ h \in Nat /\ b \in Nat
    BY <1>2, <2>2, StartStep
  <2>4. \A a, k, l, p \in Nat : p <= a + k => p < a + k + 1 + l
    OBVIOUS
  <2>. HIDE DEF h, b
  <2>. QED  BY <1>2, <2>1, <2>3, <2>4
<1>4. NoneWaits(n, pos)
  BY <1>2, <1>3, NoneWaitsBefore
<1>. QED  BY <1>1, <1>2, <1>4, InvNext DEF PCs

LEMMA HeadParsed ==
  ASSUME ConnectionInv, ParseHead
  PROVE  ConnectionInv'
<1>. DEFINE n == Len(handled)
            e == HeaderEnd(buf)
<1>1. /\ pc = "head" /\ Ends(buf) # {} /\ plan' = plan /\ pos' = pos /\ handled' = handled
  BY DEF ParseHead, HeadError, io
<1>2. /\ plan \in Plans /\ n \in 0..Len(plan) /\ handled = FirstHandled(n) /\ n \in Nat
      /\ Start(n) \in Nat /\ Start(n) <= pos /\ buf = Slice(Start(n), pos)
      /\ pos \in 0..Len(Stream) /\ pos \in Nat /\ Len(plan) \in Nat
      /\ Stream \in Seq(Symbols) /\ Len(Stream) \in Nat
  BY <1>1, InvFacts DEF Holds
<1>3. HeaderProblem(e) \in {"large", "malformed", "none"}
  BY DEF HeaderProblem
<1>4. CASE HeaderProblem(e) # "none"
  <2>1. UNCHANGED <<io, handled>> /\ pc' = "closed" /\ cause' = HeaderProblem(e)
    BY <1>4 DEF ParseHead, HeadError
  <2>. QED  BY <1>3, <2>1, Closes
<1>5. CASE HeaderProblem(e) = "none"
  <2>. DEFINE h == plan[n + 1].head
  <2>1. pc' = "admit" /\ cur' = Take(buf, e - 1) /\ buf' = Drop(buf, e)
    BY <1>5 DEF ParseHead
  <2>. HIDE DEF n
  <2>2. n < Len(plan) /\ e = h + 1 /\ ~ (pos <= Start(n) + h)
    BY <1>1, <1>2, NextRequest
  <2>3. n \in 0..(Len(plan) - 1)
    BY <1>2, <2>2
  <2>4. /\ h \in Nat /\ HeadOf(n + 1) = Slice(Start(n), Start(n) + h)
        /\ BodyStart(n) = Start(n) + h + 1
    BY <1>2, <2>3, StartStep, RequestSlices DEF BodyStart
  <2>5. e # 1
    <3>. SUFFICES ASSUME e = 1 PROVE FALSE
      OBVIOUS
    <3>1. MaxHeader \in Nat /\ ~ (e - 1 > MaxHeader)
      BY ConnectionAssumption
    <3>2. HeaderProblem(e) \in {"large", "malformed"}
      BY <3>1 DEF HeaderProblem
    <3>. QED  BY <1>5, <3>2
  <2>. HIDE DEF h, e
  <2>6. /\ h > 0 /\ e - 1 = h /\ h \in Nat /\ e \in Nat
        /\ Start(n) + h <= pos /\ Start(n) + e <= pos /\ Start(n) + e = BodyStart(n)
        /\ pos <= Len(Stream)
    BY <1>2, <2>2, <2>4, <2>5
  <2>7. Take(buf, h) = Slice(Start(n), Start(n) + h)
    BY <1>2, <2>6, SliceCut
  <2>8. Drop(buf, e) = Slice(Start(n) + e, pos)
    BY <1>2, <2>6, SliceCut
  <2>9. cur' = HeadOf(n + 1) /\ buf' = Slice(BodyStart(n), pos) /\ BodyStart(n) <= pos
    BY <2>1, <2>4, <2>6, <2>7, <2>8
  <2>10. plan[n + 1].head > 0
    BY <2>6 DEF h
  <2>. QED  BY <1>1, <1>2, <2>1, <2>2, <2>9, <2>10, InvNext DEF PCs
<1>. QED  BY <1>4, <1>5

\* Where the parts of a body end.
LEMMA AdmittedEnds ==
  ASSUME NEW a \in Nat, NEW p \in Nat, NEW m \in Nat, NEW b \in Nat, NEW l, NEW k,
         a <= p, p <= m, l = p - a, k \in {l, b}, k <= l, k <= b
  PROVE  /\ k \in Nat /\ a + k <= p /\ a + k \in Nat /\ a <= a + k /\ (a + k) - a = k
         /\ (k < b => a + k = p) /\ a + k <= m
<1>1. l \in Nat
  OBVIOUS
<1>2. k \in Nat
  BY <1>1
<1>. QED  BY <1>1, <1>2

LEMMA GrownEnds ==
  ASSUME NEW a \in Nat, NEW p \in Nat, NEW m \in Nat, NEW l \in Nat, NEW r \in Nat, NEW q,
         a + l = p, q = p + r, q \in 0..m
  PROVE  /\ q \in Nat /\ p <= q /\ q <= m /\ a <= p /\ a <= q
         /\ a + (q - a) = q /\ q - a \in Nat
OBVIOUS

LEMMA WholeEnds ==
  ASSUME NEW a \in Nat, NEW p \in Nat, NEW m \in Nat, NEW l \in Nat, NEW b \in Nat,
         a + l <= p, p \in 0..m, l >= b
  PROVE  /\ a + b <= a + l /\ a + b \in Nat /\ a + l \in Nat /\ a + l <= m
         /\ p <= m /\ a + b <= p
OBVIOUS

LEMMA BodyAdmitted ==
  ASSUME ConnectionInv, Admit
  PROVE  ConnectionInv'
<1>. DEFINE n == Len(handled)
            at == BodyStart(n)
            b == plan[n + 1].body
            k == Min({Len(buf), Request.body})
<1>1. /\ pc = "admit" /\ pc' = "body" /\ plan' = plan /\ pos' = pos /\ handled' = handled
      /\ cur' = cur /\ body' = Take(buf, k) /\ buf' = Drop(buf, k)
  BY DEF Admit, io
<1>2. /\ plan \in Plans /\ n \in 0..Len(plan) /\ handled = FirstHandled(n) /\ n \in Nat
      /\ Cut(n) /\ at <= pos /\ buf = Slice(at, pos)
      /\ pos \in 0..Len(Stream) /\ pos \in Nat /\ Len(Stream) \in Nat
  BY <1>1, InvFacts DEF HoldsBody
<1>. HIDE DEF n
<1>3. Request = plan[n + 1] /\ b \in Nat /\ at \in Nat
  BY <1>2, CutFacts
<1>. HIDE DEF at
<1>4. pos <= Len(Stream) /\ pos - at \in Nat
  BY <1>2, <1>3
<1>5. Len(buf) = pos - at
  BY <1>2, <1>3, <1>4, SliceLen
<1>6. k \in {Len(buf), b} /\ k <= Len(buf) /\ k <= b
  BY <1>3, <1>4, <1>5, MinFacts
<1>. HIDE DEF k, b
<1>7. k \in Nat /\ at + k <= pos /\ at + k \in Nat /\ at <= at + k /\ (at + k) - at = k
      /\ (k < b => at + k = pos) /\ at + k <= Len(Stream)
  <2>1. at \in Nat /\ pos \in Nat /\ Len(Stream) \in Nat /\ b \in Nat /\ at <= pos
    BY <1>2, <1>3 DEF b
  <2>. QED  BY ONLY <2>1, <1>4, <1>5, <1>6, AdmittedEnds
<1>8. body' = Slice(at, at + k) /\ buf' = Slice(at + k, pos)
  BY <1>1, <1>2, <1>3, <1>4, <1>7, SliceCut
<1>9. Len(Slice(at, at + k)) = (at + k) - at
  BY <1>2, <1>3, <1>7, SliceLen
<1>10. Len(body') = k
  BY <1>7, <1>8, <1>9
<1>11. k < b => buf' = <<>>
  BY <1>2, <1>7, <1>8, SliceEmpty
<1>12. n < Len(plan) /\ plan[n + 1].head > 0 /\ cur' = HeadOf(n + 1)
  BY <1>1, <1>2 DEF Cut
<1>. QED  BY <1>1, <1>2, <1>7, <1>8, <1>10, <1>11, <1>12, InvNext DEF PCs, at, b

LEMMA BodyReads ==
  ASSUME ConnectionInv, ReadBody
  PROVE  ConnectionInv'
<1>. DEFINE n == Len(handled)
            at == BodyStart(n)
            b == plan[n + 1].body
<1>1. PICK r \in Reads : pos' = pos + Len(r) /\ body' = body \o r
  BY DEF ReadBody
<1>2. /\ pc = "body" /\ pc' = "body" /\ plan' = plan /\ handled' = handled
      /\ cur' = cur /\ buf' = buf /\ Len(body) < Request.body
  BY DEF ReadBody
<1>3. /\ plan \in Plans /\ n \in 0..Len(plan) /\ handled = FirstHandled(n) /\ n \in Nat
      /\ Cut(n) /\ Len(body) \in Nat /\ at + Len(body) <= pos
      /\ body = Slice(at, at + Len(body)) /\ buf = Slice(at + Len(body), pos)
      /\ Len(body) < b => buf = <<>>
      /\ pos \in 0..Len(Stream) /\ pos \in Nat /\ Len(Stream) \in Nat
  BY <1>2, InvFacts DEF Growing
<1>. HIDE DEF n
<1>4. Request = plan[n + 1] /\ b \in Nat /\ at \in Nat
  BY <1>3, CutFacts
<1>5. Len(r) \in Nat /\ pos' \in 0..Len(Stream) /\ r = Slice(pos, pos')
  BY <1>1, <1>3, ReadsFacts
<1>6. buf = <<>>
  BY <1>2, <1>3, <1>4
<1>. HIDE DEF at, b
<1>7. at + Len(body) = pos
  <2>1. at + Len(body) \in Nat /\ pos <= Len(Stream)
    BY <1>3, <1>4
  <2>2. Len(buf) = pos - (at + Len(body))
    BY <1>3, <2>1, SliceLen
  <2>3. Len(buf) = 0
    BY <1>6
  <2>. QED  BY <1>3, <2>1, <2>2, <2>3
<1>8. pos' \in Nat /\ pos <= pos' /\ pos' <= Len(Stream) /\ at <= pos /\ at <= pos'
      /\ at + (pos' - at) = pos' /\ pos' - at \in Nat
  <2>1. at \in Nat /\ pos \in Nat /\ Len(Stream) \in Nat /\ Len(body) \in Nat /\ Len(r) \in Nat
    BY <1>3, <1>4, <1>5 DEF at
  <2>2. pos' = pos + Len(r) /\ pos' \in 0..Len(Stream)
    BY <1>1, <1>5
  <2>. QED  BY ONLY <2>1, <2>2, <1>7, GrownEnds
<1>9. body' = Slice(at, pos')
  <2>1. Slice(at, pos) \o Slice(pos, pos') = Slice(at, pos')
    <3>1. at \in Nat /\ pos \in Nat /\ plan \in Plans
      BY <1>3, <1>4 DEF at
    <3>. QED  BY ONLY <3>1, <1>8, SliceJoin
  <2>2. body = Slice(at, pos)
    BY <1>3, <1>7
  <2>. QED  BY <1>1, <1>5, <2>1, <2>2
<1>10. Len(body') = pos' - at
  BY <1>3, <1>4, <1>8, <1>9, SliceLen
<1>11. buf' = Slice(at + Len(body'), pos') /\ buf' = <<>>
  <2>1. Slice(pos', pos') = <<>>
    BY <1>8, SliceEmpty
  <2>. QED  BY <1>2, <1>6, <1>8, <1>10, <2>1
<1>12. /\ Len(body') \in Nat /\ at + Len(body') <= pos'
       /\ body' = Slice(at, at + Len(body'))
  BY <1>8, <1>9, <1>10
<1>13. n < Len(plan) /\ plan[n + 1].head > 0 /\ cur' = HeadOf(n + 1)
  BY <1>2, <1>3 DEF Cut
<1>. QED  BY <1>2, <1>3, <1>5, <1>11, <1>12, <1>13, InvNext DEF PCs, at

LEMMA BodyStops ==
  ASSUME ConnectionInv, BodyFails
  PROVE  ConnectionInv'
<1>. DEFINE n == Len(handled)
            at == BodyStart(n)
            b == plan[n + 1].body
<1>1. /\ pc = "body" /\ pc' = "closed" /\ plan' = plan /\ pos' = pos /\ handled' = handled
      /\ Len(body) < Request.body
  BY DEF BodyFails, Refused, io
<1>2. /\ plan \in Plans /\ n \in 0..Len(plan) /\ handled = FirstHandled(n) /\ n \in Nat
      /\ Cut(n) /\ Len(body) \in Nat /\ at + Len(body) <= pos
      /\ buf = Slice(at + Len(body), pos)
      /\ Len(body) < b => buf = <<>>
      /\ pos \in 0..Len(Stream) /\ pos \in Nat /\ Len(Stream) \in Nat
  BY <1>1, InvFacts DEF Growing
<1>. HIDE DEF n
<1>3. Request = plan[n + 1] /\ b \in Nat /\ at \in Nat /\ Start(n + 1) = at + b
  BY <1>2, CutFacts
<1>4. Len(body) < b /\ buf = <<>>
  BY <1>1, <1>2, <1>3
<1>. HIDE DEF at, b
<1>5. pos < Start(n + 1)
  <2>1. at + Len(body) \in Nat /\ pos <= Len(Stream)
    BY <1>2, <1>3
  <2>2. Len(buf) = pos - (at + Len(body))
    BY <1>2, <2>1, SliceLen
  <2>3. Len(buf) = 0
    BY <1>4
  <2>. QED  BY <1>2, <1>3, <1>4, <2>1, <2>2, <2>3
<1>6. NoneWaits(n, pos)
  BY <1>2, <1>5, NoneWaitsBefore
<1>. QED  BY <1>1, <1>2, <1>6, InvNext DEF PCs

LEMMA BodyWhole ==
  ASSUME ConnectionInv, BodyRead
  PROVE  ConnectionInv'
<1>. DEFINE n == Len(handled)
            at == BodyStart(n)
            b == plan[n + 1].body
            l == Len(body)
<1>1. /\ pc = "body" /\ pc' = "route" /\ plan' = plan /\ pos' = pos /\ handled' = handled
      /\ cur' = cur /\ l >= Request.body
      /\ body' = Take(body, Request.body) /\ buf' = Drop(body, Request.body) \o buf
  BY DEF BodyRead, io
<1>2. /\ plan \in Plans /\ n \in 0..Len(plan) /\ handled = FirstHandled(n) /\ n \in Nat
      /\ Cut(n) /\ l \in Nat /\ at + l <= pos
      /\ body = Slice(at, at + l) /\ buf = Slice(at + l, pos)
      /\ pos \in 0..Len(Stream) /\ pos \in Nat /\ Len(Stream) \in Nat
  BY <1>1, InvFacts DEF Growing
<1>. HIDE DEF n
<1>3. /\ Request = plan[n + 1] /\ b \in Nat /\ at \in Nat /\ Start(n + 1) = at + b
      /\ BodyOf(n + 1) = Slice(at, Start(n + 1))
  BY <1>2, CutFacts
<1>4. body' = Take(body, b) /\ buf' = Drop(body, b) \o buf /\ l >= b
  BY <1>1, <1>3
<1>. HIDE DEF at, b, l
<1>5. /\ at + b <= at + l /\ at + b \in Nat /\ at + l \in Nat /\ at + l <= Len(Stream)
      /\ pos <= Len(Stream) /\ at + b <= pos
  <2>1. at \in Nat /\ pos \in Nat /\ Len(Stream) \in Nat /\ l \in Nat /\ b \in Nat
    BY <1>2, <1>3 DEF at, b, l
  <2>2. at + l <= pos /\ pos \in 0..Len(Stream) /\ l >= b
    BY <1>2, <1>4
  <2>. QED  BY ONLY <2>1, <2>2, WholeEnds
<1>6. Take(body, b) = Slice(at, at + b) /\ Drop(body, b) = Slice(at + b, at + l)
  BY <1>2, <1>3, <1>5, SliceCut
<1>7. Slice(at + b, at + l) \o Slice(at + l, pos) = Slice(at + b, pos)
  BY <1>2, <1>5, SliceJoin
<1>8. body' = BodyOf(n + 1) /\ buf' = Slice(Start(n + 1), pos) /\ Start(n + 1) <= pos
  BY <1>2, <1>3, <1>4, <1>5, <1>6, <1>7
<1>9. n < Len(plan) /\ plan[n + 1].head > 0 /\ cur' = HeadOf(n + 1)
  BY <1>1, <1>2 DEF Cut
<1>. QED  BY <1>1, <1>2, <1>8, <1>9, InvNext DEF PCs

\* The request handed to the handler is the next one the client wrote.
LEMMA HandledGrows ==
  ASSUME ConnectionInv, pc = "route"
  PROVE  /\ Len(handled) + 1 \in 0..Len(plan)
         /\ Append(handled, [head |-> cur, body |-> body]) = FirstHandled(Len(handled) + 1)
<1>. DEFINE n == Len(handled)
<1>1. /\ plan \in Plans /\ n \in Nat /\ handled = FirstHandled(n) /\ Cut(n)
      /\ body = BodyOf(n + 1)
  BY InvFacts
<1>2. n + 1 \in 0..Len(plan)
  BY <1>1, CutFacts
<1>3. cur = HeadOf(n + 1)
  BY <1>1 DEF Cut
<1>. HIDE DEF n
<1>4. ASSUME NEW e
      PROVE  Append(FirstHandled(n), e) =
               [i \in 1..(n + 1) |-> IF i = n + 1 THEN e ELSE FirstHandled(n)[i]]
  <2>1. Len(FirstHandled(n)) = n /\ FirstHandled(n) = [i \in 1..n |-> FirstHandled(n)[i]]
    BY <1>1 DEF FirstHandled
  <2>. QED  BY <1>1, <2>1
<1>5. \A i \in 1..(n + 1) : FirstHandled(n + 1)[i] =
        IF i = n + 1 THEN [head |-> HeadOf(n + 1), body |-> BodyOf(n + 1)] ELSE FirstHandled(n)[i]
  BY <1>1 DEF FirstHandled
<1>6. FirstHandled(n + 1) = [i \in 1..(n + 1) |-> FirstHandled(n + 1)[i]]
  BY DEF FirstHandled
<1>. QED  BY <1>1, <1>2, <1>3, <1>4, <1>5, <1>6 DEF n

LEMMA Routes ==
  ASSUME ConnectionInv, Route \/ RoutePanics
  PROVE  ConnectionInv'
<1>. DEFINE m == Len(handled) + 1
<1>1. /\ pc = "route" /\ plan' = plan /\ pos' = pos /\ buf' = buf
      /\ handled' = Append(handled, [head |-> cur, body |-> body])
      /\ pc' = "write" \/ (pc' = "closed" /\ cause' = "panic")
  BY DEF Route, RoutePanics, io
<1>2. m \in 0..Len(plan) /\ handled' = FirstHandled(m)
  BY <1>1, HandledGrows
<1>3. /\ plan \in Plans /\ pos \in 0..Len(Stream)
      /\ Start(m) <= pos /\ buf = Slice(Start(m), pos)
  BY <1>1, InvFacts DEF Holds
<1>. HIDE DEF m
<1>. QED  BY <1>1, <1>2, <1>3, InvNext DEF PCs

LEMMA Writes ==
  ASSUME ConnectionInv, WriteAnswer
  PROVE  ConnectionInv'
<1>. DEFINE n == Len(handled)
<1>1. /\ pc = "write" /\ plan' = plan /\ pos' = pos /\ buf' = buf /\ handled' = handled
      /\ pc' = "head" \/ (pc' = "closed" /\ cause' = "done")
  BY DEF WriteAnswer, io
<1>2. /\ plan \in Plans /\ pos \in 0..Len(Stream) /\ n \in 0..Len(plan) /\ handled = FirstHandled(n)
      /\ Start(n) <= pos /\ buf = Slice(Start(n), pos)
  BY <1>1, InvFacts DEF Holds
<1>. HIDE DEF n
<1>. QED  BY <1>1, <1>2, InvNext DEF PCs

LEMMA ConnectionStutters ==
  ASSUME ConnectionInv, UNCHANGED connectionVars
  PROVE  ConnectionInv'
<1>1. /\ plan' = plan /\ pos' = pos /\ pc' = pc /\ buf' = buf /\ cur' = cur /\ body' = body
      /\ handled' = handled /\ cause' = cause
  BY DEF connectionVars
<1>. DEFINE n == Len(handled)
<1>2. /\ plan \in Plans /\ pos \in 0..Len(Stream) /\ n \in 0..Len(plan) /\ handled = FirstHandled(n)
      /\ pc \in PCs
      /\ pc \in {"head", "write"} => Start(n) <= pos /\ buf = Slice(Start(n), pos)
      /\ pc \in {"admit", "body", "route"} =>
           n < Len(plan) /\ plan[n + 1].head > 0 /\ cur = HeadOf(n + 1)
      /\ pc = "admit" => BodyStart(n) <= pos /\ buf = Slice(BodyStart(n), pos)
      /\ pc = "body" =>
           /\ Len(body) \in Nat
           /\ BodyStart(n) + Len(body) <= pos
           /\ body = Slice(BodyStart(n), BodyStart(n) + Len(body))
           /\ buf = Slice(BodyStart(n) + Len(body), pos)
           /\ Len(body) < plan[n + 1].body => buf = <<>>
      /\ pc = "route" =>
           /\ body = BodyOf(n + 1)
           /\ Start(n + 1) <= pos /\ buf = Slice(Start(n + 1), pos)
  BY InvFacts DEF Holds, Cut, HoldsBody, Growing
<1>3. pc = "closed" /\ cause \in {"ended", "stalled", "io"} => NoneWaits(n, pos)
  BY InvFacts DEF WholeRequestsServed, NoneWaits, Start
<1>. HIDE DEF n
<1>. QED  BY <1>1, <1>2, <1>3, InvNext

LEMMA ConnectionStarts ==
  ASSUME ConnectionInit
  PROVE  ConnectionInv
<1>1. /\ plan \in Plans /\ pos = 0 /\ pc = "head" /\ buf = <<>> /\ handled = <<>>
  BY DEF ConnectionInit
<1>2. Start(0) = 0 /\ Len(Stream) \in Nat /\ Len(plan) \in Nat
  BY <1>1, PlanFacts, StreamFacts
<1>3. Slice(0, 0) = <<>>
  BY SliceEmpty
<1>4. Len(handled) = 0
  BY <1>1
<1>5. Holds(0)
  BY <1>1, <1>2, <1>3 DEF Holds
<1>6. handled = [i \in 1..0 |-> [head |-> HeadOf(i), body |-> BodyOf(i)]]
  BY <1>1
<1>7. WholeRequestsServed
  BY <1>1 DEF WholeRequestsServed
<1>. QED  BY <1>1, <1>2, <1>4, <1>5, <1>6, <1>7 DEF ConnectionInv, PCs

LEMMA ConnectionSteps ==
  ASSUME ConnectionInv, [ConnectionNext]_connectionVars
  PROVE  ConnectionInv'
<1>1. CASE RefuseEarly
  <2>1. UNCHANGED <<io, handled>> /\ pc' = "closed" /\ cause' = "refused"
    BY <1>1 DEF RefuseEarly, Refused
  <2>. QED  BY <2>1, Closes
<1>2. CASE WriteFails
  <2>1. UNCHANGED <<io, handled>> /\ pc' = "closed" /\ cause' = "broken"
    BY <1>2 DEF WriteFails
  <2>. QED  BY <2>1, Closes
<1>. QED  BY <1>1, <1>2, HeadReads, HeadStops, HeadParsed, BodyAdmitted, BodyReads, BodyStops,
             BodyWhole, Routes, Writes, ConnectionStutters DEF ConnectionNext

\* However the bytes of the stream are packetised, whatever the bodies hold and
\* however the connection ends, the i-th request handed to route_request has the
\* header and the body of the i-th request the client wrote.
THEOREM RequestsAreFramed == ConnectionSpec => []Framed
<1>1. ConnectionInv => Framed
  BY DEF ConnectionInv, Framed
<1>. QED  BY <1>1, ConnectionStarts, ConnectionSteps, PTL DEF ConnectionSpec

\* A connection that ends because its client closed, fell silent or broke has
\* handled every request that had arrived whole.
THEOREM WholeRequestsAreServed == ConnectionSpec => []WholeRequestsServed
<1>1. ConnectionInv => WholeRequestsServed
  BY DEF ConnectionInv
<1>. QED  BY <1>1, ConnectionStarts, ConnectionSteps, PTL DEF ConnectionSpec
=============================================================================
