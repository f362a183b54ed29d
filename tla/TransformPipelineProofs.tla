---------------------- MODULE TransformPipelineProofs ----------------------
(***************************************************************************)
(* Theorems about TransformPipeline, for any number of requests, workers   *)
(* and slots: the slot counter is exact and bounds the transforms that     *)
(* run, no interleaving of requests through the cache makes an answer      *)
(* wrong or stale, and a pixel limit applies to what a cache holds too.    *)
(***************************************************************************)
EXTENDS TransformPipeline, FiniteSetTheorems, TLAPS

-----------------------------------------------------------------------------
(* The concurrency slots *)

\* The requests that an assignment of steps puts in a set of steps.
Within(f, S) == {r \in Requests : f[r] \in S}
Count(f, S) == Cardinality(Within(f, S))

LEMMA CountType ==
  ASSUME NEW f, NEW S
  PROVE  IsFiniteSet(Within(f, S)) /\ Count(f, S) \in Nat
<1>1. Within(f, S) \in SUBSET Requests
  BY DEF Within
<1>2. IsFiniteSet(Within(f, S))
  BY <1>1, PipelineAssumption, FS_Subset
<1>. QED  BY <1>2, FS_CardinalityType DEF Count

\* Only request r moves.
Moves(f, g, r) ==
  /\ f \in [Requests -> PCs] /\ g \in [Requests -> PCs]
  /\ \A q \in Requests \ {r} : g[q] = f[q]

LEMMA GotoMoves ==
  ASSUME NEW f \in [Requests -> PCs], NEW r \in Requests, NEW l \in PCs,
         NEW g, g = [f EXCEPT ![r] = l]
  PROVE  Moves(f, g, r) /\ g[r] = l
BY DEF Moves

\* One request's move changes how many requests are in a set of steps by what
\* it leaves and what it enters.
LEMMA MoveCount ==
  ASSUME NEW f, NEW g, NEW r \in Requests, Moves(f, g, r), NEW S
  PROVE  /\ Count(f, S) \in Nat /\ Count(g, S) \in Nat
         /\ (g[r] \in S <=> f[r] \in S) => Count(g, S) = Count(f, S)
         /\ g[r] \in S /\ f[r] \notin S => Count(g, S) = Count(f, S) + 1
         /\ g[r] \notin S /\ f[r] \in S => Count(g, S) = Count(f, S) - 1
<1>1. IsFiniteSet(Within(f, S)) /\ Cardinality(Within(f, S)) \in Nat
  BY CountType DEF Count
<1>2. r \in Within(f, S) <=> f[r] \in S
  BY DEF Within
<1>3. CASE g[r] \in S
  <2>1. Within(g, S) = Within(f, S) \cup {r}
    BY <1>3 DEF Within, Moves
  <2>2. Cardinality(Within(g, S)) = IF r \in Within(f, S) THEN Cardinality(Within(f, S))
                                    ELSE Cardinality(Within(f, S)) + 1
    BY <1>1, <2>1, FS_AddElement
  <2>. QED  BY <1>1, <1>2, <1>3, <2>2, CountType DEF Count
<1>4. CASE g[r] \notin S
  <2>1. Within(g, S) = Within(f, S) \ {r}
    BY <1>4 DEF Within, Moves
  <2>2. Cardinality(Within(g, S)) = IF r \in Within(f, S) THEN Cardinality(Within(f, S)) - 1
                                    ELSE Cardinality(Within(f, S))
    BY <1>1, <2>1, FS_RemoveElement
  <2>. QED  BY <1>1, <1>2, <1>4, <2>2, CountType DEF Count
<1>. QED  BY <1>3, <1>4

\* The inductive invariant of the slots.
SlotInv ==
  /\ pc \in [Requests -> PCs]
  /\ inFlight = Count(pc, Counted)
  /\ Count(pc, Holding) <= Limit

\* Requests that hold a slot are among the ones that are counted.
LEMMA HoldingCounted ==
  ASSUME NEW f
  PROVE  Count(f, Holding) <= Count(f, Counted)
<1>1. IsFiniteSet(Within(f, Counted))
  BY CountType
<1>2. Within(f, Holding) \in SUBSET Within(f, Counted)
  BY DEF Within, Counted
<1>. QED  BY <1>1, <1>2, FS_Subset DEF Count

LEMMA SlotInit == Init => SlotInv
<1>. SUFFICES ASSUME Init PROVE SlotInv
  OBVIOUS
<1>1. pc \in [Requests -> PCs]
  BY DEF Init, PCs
<1>2. Within(pc, Counted) = {} /\ Within(pc, Holding) = {}
  BY DEF Init, Within, Counted, Holding
<1>3. Limit \in Nat /\ inFlight = 0
  BY PipelineAssumption DEF Init
<1>. QED  BY <1>1, <1>2, <1>3, FS_EmptySet DEF SlotInv, Count

\* A move that stays outside the counted steps, or inside the holding ones,
\* and leaves the counter alone.
LEMMA SlotQuiet ==
  ASSUME SlotInv, NEW r \in Requests, Moves(pc, pc', r), inFlight' = inFlight,
         \/ pc[r] \notin Counted /\ pc'[r] \notin Counted
         \/ pc[r] \in Holding /\ pc'[r] \in Holding
  PROVE  SlotInv'
<1>1. pc' \in [Requests -> PCs]
  BY DEF Moves
<1>2. (pc[r] \in Counted <=> pc'[r] \in Counted) /\ (pc[r] \in Holding <=> pc'[r] \in Holding)
  BY DEF Counted
<1>3. Count(pc', Counted) = Count(pc, Counted)
  BY <1>2, MoveCount
<1>4. Count(pc', Holding) = Count(pc, Holding)
  BY <1>2, MoveCount
<1>. QED  BY <1>1, <1>3, <1>4 DEF SlotInv

LEMMA SlotStep ==
  ASSUME SlotInv, [Next]_vars
  PROVE  SlotInv'
<1>0. pc \in [Requests -> PCs]
  BY DEF SlotInv
<1>1. ASSUME NEW r \in Requests, Arrive(r) \/ VersionedLookup(r) \/ Resolve(r) \/ Fetch(r)
                                 \/ Fill(r) \/ Inspect(r) \/ CacheLookup(r)
      PROVE  SlotInv'
  <2>1. /\ pc[r] \notin Counted
        /\ inFlight' = inFlight
        /\ \E l \in PCs \ Counted : pc' = [pc EXCEPT ![r] = l]
    <3>1. CASE Arrive(r)
      BY <3>1 DEF Arrive, Goto, PCs, Active, Counted, Holding
    <3>2. CASE VersionedLookup(r)
      BY <3>2 DEF VersionedLookup, Goto, Finish, Return, PCs, Active, Counted, Holding
    <3>3. CASE Resolve(r)
      BY <3>3 DEF Resolve, Goto, Finish, Return, PCs, Active, Counted, Holding
    <3>4. CASE Inspect(r)
      BY <3>4 DEF Inspect, Goto, Finish, Return, PCs, Active, Counted, Holding
    <3>5. CASE CacheLookup(r)
      BY <3>5 DEF CacheLookup, Goto, Finish, Return, PCs, Active, Counted, Holding
    <3>6. CASE Fetch(r)
      BY <3>6 DEF Fetch, Goto, Finish, Return, PCs, Active, Counted, Holding
    <3>7. CASE Fill(r)
      BY <3>7 DEF Fill, Goto, PCs, Active, Counted, Holding
    <3>. QED  BY <1>1, <3>1, <3>2, <3>3, <3>4, <3>5, <3>6, <3>7
  <2>2. PICK l \in PCs \ Counted : pc' = [pc EXCEPT ![r] = l]
    BY <2>1
  <2>3. Moves(pc, pc', r) /\ pc'[r] = l
    BY <1>0, <2>2, GotoMoves
  <2>. QED  BY <2>1, <2>3, SlotQuiet
<1>2. ASSUME NEW r \in Requests, Watermark(r) \/ Transform(r) \/ Put(r)
      PROVE  SlotInv'
  <2>1. /\ pc[r] \in Holding
        /\ inFlight' = inFlight
        /\ \E l \in Holding : pc' = [pc EXCEPT ![r] = l]
    <3>1. CASE Watermark(r)
      BY <3>1 DEF Watermark, Goto, Holding
    <3>2. CASE Transform(r)
      BY <3>2 DEF Transform, Goto, Holding
    <3>3. CASE Put(r)
      BY <3>3 DEF Put, Goto, Holding
    <3>. QED  BY <1>2, <3>1, <3>2, <3>3
  <2>2. PICK l \in Holding : pc' = [pc EXCEPT ![r] = l]
    BY <2>1
  <2>3. l \in PCs
    BY DEF PCs, Active, Counted
  <2>4. Moves(pc, pc', r) /\ pc'[r] = l
    BY <1>0, <2>2, <2>3, GotoMoves
  <2>. QED  BY <2>1, <2>4, SlotQuiet
<1>3. ASSUME NEW r \in Requests, FetchAdd(r)
      PROVE  SlotInv'
  <2>1. pc[r] = "acquire" /\ inFlight' = inFlight + 1
    BY <1>3 DEF FetchAdd
  <2>2. pc[r] \notin Counted /\ pc[r] \notin Holding
    BY <2>1 DEF Counted, Holding
  <2>3. inFlight = Count(pc, Counted) /\ Count(pc, Holding) <= Limit
    BY DEF SlotInv
  <2>4. CASE inFlight >= Limit
    <3>1. pc' = [pc EXCEPT ![r] = "refused"]
      BY <1>3, <2>4 DEF FetchAdd, Goto
    <3>2. "refused" \in Counted /\ "refused" \notin Holding /\ "refused" \in PCs
      BY DEF Counted, Holding, PCs, Active
    <3>. Moves(pc, pc', r) /\ pc'[r] = "refused"
      BY <1>0, <3>1, <3>2, GotoMoves
    <3>3. Count(pc', Counted) = Count(pc, Counted) + 1
      BY <2>2, <3>2, MoveCount
    <3>4. Count(pc', Holding) = Count(pc, Holding)
      BY <2>2, <3>2, MoveCount
    <3>5. pc' \in [Requests -> PCs]
      BY <1>0, <3>1, <3>2
    <3>. QED  BY <2>1, <2>3, <3>3, <3>4, <3>5 DEF SlotInv
  <2>5. CASE ~(inFlight >= Limit)
    <3>1. pc' = [pc EXCEPT ![r] = "watermark"]
      BY <1>3, <2>5 DEF FetchAdd, Goto
    <3>2. "watermark" \in Counted /\ "watermark" \in Holding /\ "watermark" \in PCs
      BY DEF Counted, Holding, PCs, Active
    <3>. Moves(pc, pc', r) /\ pc'[r] = "watermark"
      BY <1>0, <3>1, <3>2, GotoMoves
    <3>3. Count(pc', Counted) = Count(pc, Counted) + 1
      BY <2>2, <3>2, MoveCount
    <3>4. Count(pc', Holding) = Count(pc, Holding) + 1
      BY <2>2, <3>2, MoveCount
    <3>5. Count(pc', Holding) <= Limit
      BY <2>3, <2>5, <3>4, HoldingCounted, CountType, PipelineAssumption
    <3>6. pc' \in [Requests -> PCs]
      BY <1>0, <3>1, <3>2
    <3>. QED  BY <2>1, <2>3, <3>3, <3>5, <3>6 DEF SlotInv
  <2>. QED  BY <2>4, <2>5
<1>4. ASSUME NEW r \in Requests, Refuse(r) \/ Release(r)
      PROVE  SlotInv'
  <2>1. pc[r] \in Counted /\ inFlight' = inFlight - 1
    BY <1>4 DEF Refuse, Release, Counted, Holding
  <2>2. "done" \notin Counted /\ "done" \notin Holding /\ "done" \in PCs
    BY DEF Counted, Holding, PCs
  <2>. Moves(pc, pc', r) /\ pc'[r] = "done"
    BY <1>0, <1>4, <2>2, GotoMoves DEF Refuse, Release, Finish, Return, Goto
  <2>3. Count(pc', Counted) = Count(pc, Counted) - 1
    BY <2>1, <2>2, MoveCount
  <2>4. Count(pc', Holding) <= Count(pc, Holding)
    BY <2>1, <2>2, MoveCount
  <2>5. Count(pc', Holding) \in Nat /\ Count(pc, Holding) \in Nat
    BY CountType
  <2>6. pc' \in [Requests -> PCs]
    BY DEF Moves
  <2>. QED  BY <2>1, <2>3, <2>4, <2>5, <2>6, PipelineAssumption
         DEF SlotInv
<1>5. ASSUME NEW r \in Requests, Panic(r)
      PROVE  SlotInv'
  <2>1. CASE pc[r] = "transform"
    <3>1. pc[r] \in Holding /\ "release" \in Holding /\ "release" \in PCs
      BY <2>1 DEF Holding, PCs, Active, Counted
    <3>2. pc' = [pc EXCEPT ![r] = "release"] /\ inFlight' = inFlight
      BY <1>5, <2>1 DEF Panic, Goto
    <3>3. Moves(pc, pc', r) /\ pc'[r] = "release"
      BY <1>0, <3>1, <3>2, GotoMoves
    <3>. QED  BY <3>1, <3>2, <3>3, SlotQuiet
  <2>2. CASE pc[r] = "inspect"
    <3>1. pc[r] \notin Counted /\ pc[r] \notin Holding
      BY <2>2 DEF Counted, Holding
    <3>2. "done" \notin Counted /\ "done" \in PCs
      BY DEF Counted, Holding, PCs
    <3>3. pc' = [pc EXCEPT ![r] = "done"] /\ inFlight' = inFlight
      BY <1>5, <2>2 DEF Panic, Finish, Return
    <3>4. Moves(pc, pc', r) /\ pc'[r] = "done"
      BY <1>0, <3>2, <3>3, GotoMoves
    <3>. QED  BY <3>1, <3>2, <3>3, <3>4, SlotQuiet
  <2>. QED  BY <1>5, <2>1, <2>2 DEF Panic
<1>6. CASE Restart
  <2>1. pc' = [r \in Requests |-> IF pc[r] \in Active THEN "done" ELSE pc[r]]
    BY <1>6 DEF Restart, In
  <2>2. pc' \in [Requests -> PCs]
    BY <1>0, <2>1 DEF PCs
  <2>3. Within(pc', Counted) = {} /\ Within(pc', Holding) = {}
    BY <2>1 DEF Within, Active, Counted, Holding
  <2>4. Limit \in Nat /\ inFlight' = 0
    BY <1>6, PipelineAssumption DEF Restart
  <2>. QED  BY <2>2, <2>3, <2>4, FS_EmptySet DEF SlotInv, Count
<1>7. CASE UNCHANGED <<pc, inFlight>>
  BY <1>7 DEF SlotInv
<1>8. ASSUME NEW i \in Sources, Replace(i) \/ ForgetOrigin(i)
      PROVE  UNCHANGED <<pc, inFlight>>
  BY <1>8 DEF Replace, ForgetOrigin
<1>9. ASSUME NEW k \in Keys, Forget(k) PROVE UNCHANGED <<pc, inFlight>>
  BY <1>9 DEF Forget
<1>10. CASE UNCHANGED vars
  BY <1>7, <1>10 DEF vars
<1>. QED
  BY <1>1, <1>2, <1>3, <1>4, <1>5, <1>6, <1>7, <1>8, <1>9, <1>10 DEF Next, Step

\* transforms_in_flight is exactly the number of requests that hold a slot or
\* are taking a refused increment back: no path of the handler leaks a slot or
\* returns one twice, for any number of concurrent requests.
THEOREM SlotCounterExact == Spec => []CounterExact
<1>1. SlotInv => CounterExact
  BY DEF SlotInv, Count, Within, CounterExact, In
<1>. QED  BY <1>1, SlotInit, SlotStep, PTL DEF Spec

\* try_acquire keeps the transforms that hold a slot within
\* TRUSS_MAX_CONCURRENT_TRANSFORMS, for every limit and every interleaving.
THEOREM SlotsBounded == Spec => []SlotBound
<1>1. SlotInv => SlotBound
  BY DEF SlotInv, Count, Within, SlotBound, In
<1>. QED  BY <1>1, SlotInit, SlotStep, PTL DEF Spec

-----------------------------------------------------------------------------
(* Types *)

\* The steps after a request has settled on its output format.
Settled == {"cached", "acquire", "refused", "watermark", "transform", "store"}

\* The format a request settled on is one it can accept.
FormatKnown ==
  \A r \in Requests : pc[r] \in Settled =>
    fmt[r] \in Formats /\ req[r].format \in {Unset, fmt[r]}

TypeInv == TypeOK /\ FormatKnown

LEMMA VersionKeyType ==
  ASSUME TypeOK, NEW r \in Requests, req[r].version # 0, req[r].format # Unset
  PROVE  VersionKey(r) \in Keys
<1>1. req[r] \in RequestType
  BY DEF TypeOK
<1>2. req[r].version \in Gens /\ req[r].format \in Formats
  BY <1>1, PipelineAssumption DEF RequestType, Gens
<1>. QED  BY <1>1, <1>2 DEF VersionKey, Keys, RequestType

LEMMA CacheKeyType ==
  ASSUME TypeInv, NEW r \in Requests, pc[r] \in Settled
  PROVE  CacheKey(r) \in Keys
<1>1. req[r] \in RequestType /\ bytes[r] \in Gens /\ fmt[r] \in Formats
  BY DEF TypeInv, TypeOK, FormatKnown
<1>2. req[r].version # 0 => req[r].version \in Gens
  BY <1>1, PipelineAssumption DEF RequestType, Gens
<1>3. req[r].src \in Images /\ req[r].wm \in Wms \cup {NoWm}
  BY <1>1 DEF RequestType
<1>4. CASE req[r].version = 0
  BY <1>1, <1>3, <1>4 DEF CacheKey, Keys
<1>5. CASE req[r].version # 0
  BY <1>1, <1>2, <1>3, <1>5 DEF CacheKey, Keys
<1>. QED  BY <1>4, <1>5

\* What a read may return is a generation.
LEMMA AtHandGens ==
  ASSUME TypeOK, NEW i \in Images
  PROVE  content[i] \in Gens /\ InOrigin(i) \subseteq Gens /\ AtHand(i) \subseteq Gens
<1>1. content[i] \in Gens /\ origin[i] \in 0..MaxGen /\ \A q \in Requests : bytes[q] \in Gens
  BY DEF TypeOK
<1>. QED  BY <1>1, PipelineAssumption DEF InOrigin, AtHand, Gens

LEMMA TypeInit == Init => TypeInv
<1>. SUFFICES ASSUME Init PROVE TypeInv
  OBVIOUS
<1>1. 1 \in Gens
  BY PipelineAssumption DEF Gens
<1>2. TypeOK
  BY <1>1, PipelineAssumption, AskedAssumption DEF Init, TypeOK, PCs, Answers
<1>3. FormatKnown
  BY DEF Init, FormatKnown, Settled
<1>. QED  BY <1>2, <1>3 DEF TypeInv

LEMMA TypeStep ==
  ASSUME TypeInv, SlotInv, [Next]_vars
  PROVE  TypeInv'
<1>. USE DEF TypeInv
<1>0. inFlight' \in Nat
  <2>1. SlotInv'
    BY SlotStep
  <2>2. inFlight' = Count(pc', Counted)
    BY <2>1 DEF SlotInv
  <2>. QED  BY <2>2, CountType
<1>0a. 1 \in Gens
  BY PipelineAssumption DEF Gens
<1>1. ASSUME NEW r \in Requests, Arrive(r) PROVE TypeInv'
  <2>1. req[r].src \in Images
    BY DEF TypeOK, RequestType
  <2>4. AtHand(req[r].src) \in SUBSET Gens
    BY <2>1, AtHandGens
  <2>2. TypeOK'
    BY <1>1, <2>4 DEF Arrive, Goto, TypeOK, PCs, Active, local
  <2>3. FormatKnown'
    BY <1>1 DEF Arrive, Goto, TypeOK, FormatKnown, Settled, local
  <2>. QED  BY <2>2, <2>3
<1>2. ASSUME NEW r \in Requests, VersionedLookup(r) PROVE TypeInv'
  <2>1. req[r].version # 0 /\ req[r].format # Unset =>
          store[VersionKey(r)] \in Bodies \cup {NoBody}
    BY VersionKeyType DEF TypeOK
  <2>2. TypeOK'
    BY <1>0a, <1>2, <2>1 DEF VersionedLookup, Goto, Finish, Return, TypeOK, PCs, Active, Answers, local,
                      environment
  <2>3. FormatKnown'
    BY <1>2 DEF VersionedLookup, Goto, Finish, Return, TypeOK, FormatKnown, Settled, local,
                environment
  <2>. QED  BY <2>2, <2>3
<1>3. ASSUME NEW r \in Requests, Resolve(r) PROVE TypeInv'
  <2>1. content[req[r].src] \in Gens /\ (origin[req[r].src] # 0 => origin[req[r].src] \in Gens)
    BY PipelineAssumption DEF TypeOK, RequestType, Gens
  <2>2. TypeOK'
    BY <1>0a, <1>3, <2>1 DEF Resolve, Goto, Finish, Return, TypeOK, PCs, Active, Answers,
                             environment
  <2>3. FormatKnown'
    BY <1>3 DEF Resolve, Goto, Finish, Return, TypeOK, FormatKnown, Settled, environment
  <2>. QED  BY <2>2, <2>3
<1>3a. ASSUME NEW r \in Requests, Fetch(r) PROVE TypeInv'
  <2>1. content[req[r].src] \in Gens
    BY DEF TypeOK, RequestType
  <2>2. TypeOK'
    BY <1>0a, <1>3a, <2>1 DEF Fetch, Goto, Finish, Return, TypeOK, PCs, Active, Answers,
                              environment
  <2>3. FormatKnown'
    BY <1>3a DEF Fetch, Goto, Finish, Return, TypeOK, FormatKnown, Settled, environment
  <2>. QED  BY <2>2, <2>3
<1>3b. ASSUME NEW r \in Requests, Fill(r) PROVE TypeInv'
  <2>1. bytes[r] \in 0..MaxGen
    BY PipelineAssumption DEF TypeOK, Gens
  <2>2. TypeOK'
    BY <1>3b, <2>1 DEF Fill, Goto, TypeOK, PCs, Active, local, environment
  <2>3. FormatKnown'
    BY <1>3b DEF Fill, Goto, TypeOK, FormatKnown, Settled, local, environment
  <2>. QED  BY <2>2, <2>3
<1>4. ASSUME NEW r \in Requests, Inspect(r) PROVE TypeInv'
  <2>1. TypeOK'
    BY <1>0a, <1>4 DEF Inspect, Goto, Finish, Return, TypeOK, PCs, Active, Answers, environment
  <2>2. FormatKnown'
    BY <1>4 DEF Inspect, Goto, Finish, Return, TypeOK, FormatKnown, Settled, environment
  <2>. QED  BY <2>1, <2>2
<1>5. ASSUME NEW r \in Requests, CacheLookup(r) PROVE TypeInv'
  <2>1. store[CacheKey(r)] \in Bodies \cup {NoBody}
    BY <1>5, CacheKeyType DEF TypeOK, CacheLookup, Settled
  <2>2. TypeOK'
    BY <1>0a, <1>5, <2>1 DEF CacheLookup, Goto, Finish, Return, TypeOK, PCs, Active, Counted, Answers, local,
                      environment
  <2>3. FormatKnown'
    BY <1>5 DEF CacheLookup, Goto, Finish, Return, TypeOK, FormatKnown, Settled, local,
                environment
  <2>. QED  BY <2>2, <2>3
<1>6. ASSUME NEW r \in Requests, FetchAdd(r) PROVE TypeInv'
  <2>1. TypeOK'
    BY <1>6 DEF FetchAdd, Goto, TypeOK, PCs, Active, Counted, Holding, local,
                environment
  <2>2. FormatKnown'
    BY <1>6 DEF FetchAdd, Goto, TypeOK, FormatKnown, Settled, local, environment
  <2>. QED  BY <2>1, <2>2
<1>7. ASSUME NEW r \in Requests, Refuse(r) \/ Release(r) PROVE TypeInv'
  <2>1. TypeOK'
    <3>1. CASE Refuse(r)
      BY <1>0, <1>0a, <3>1 DEF Refuse, Finish, Return, TypeOK, PCs, Answers, environment
    <3>2. CASE Release(r)
      BY <1>0, <1>0a, <3>2 DEF Release, Return, TypeOK, PCs, environment
    <3>. QED  BY <1>7, <3>1, <3>2
  <2>2. FormatKnown'
    BY <1>7 DEF Refuse, Release, Finish, Return, Goto, TypeOK, FormatKnown, Settled, local,
                environment
  <2>. QED  BY <2>1, <2>2
<1>8. ASSUME NEW r \in Requests, Watermark(r) PROVE TypeInv'
  <2>1. TypeOK'
    BY <1>8 DEF Watermark, Goto, TypeOK, PCs, Active, Counted, Holding, Answers,
                environment
  <2>2. FormatKnown'
    BY <1>8 DEF Watermark, Goto, TypeOK, FormatKnown, Settled, environment
  <2>. QED  BY <2>1, <2>2
<1>9. ASSUME NEW r \in Requests, Transform(r) PROVE TypeInv'
  <2>1. [src |-> req[r].src, gen |-> bytes[r], format |-> fmt[r], wm |-> req[r].wm] \in Bodies
    BY <1>9 DEF Transform, TypeOK, FormatKnown, Settled, Bodies, RequestType
  <2>2. TypeOK'
    <3>1. pc' \in [Requests -> PCs]
      BY <1>9 DEF Transform, Goto, TypeOK, PCs, Active, Counted, Holding
    <3>2. out' \in [Requests -> Bodies \cup {NoBody}] /\ answer' \in [Requests -> Answers]
      BY <1>9, <2>1 DEF Transform, TypeOK, Answers
    <3>3. UNCHANGED <<store, origin, bytes, fmt, inFlight, req, content, pixels, restarts,
                      since, tagged>>
      BY <1>9 DEF Transform, environment
    <3>. QED  BY <3>1, <3>2, <3>3 DEF TypeOK
  <2>3. FormatKnown'
    BY <1>9 DEF Transform, Goto, TypeOK, FormatKnown, Settled, environment
  <2>. QED  BY <2>2, <2>3
<1>10. ASSUME NEW r \in Requests, Put(r) PROVE TypeInv'
  <2>1. TypeOK'
    BY <1>10 DEF Put, Goto, TypeOK, PCs, Active, Counted, Holding, Answers,
                 environment
  <2>2. FormatKnown'
    BY <1>10 DEF Put, Goto, TypeOK, FormatKnown, Settled, environment
  <2>. QED  BY <2>1, <2>2
<1>11. ASSUME NEW r \in Requests, Panic(r) PROVE TypeInv'
  <2>1. TypeOK'
    BY <1>0a, <1>11 DEF Panic, Goto, Finish, Return, TypeOK, PCs, Active, Counted, Holding, Answers,
                 environment
  <2>2. FormatKnown'
    BY <1>11 DEF Panic, Goto, Finish, Return, TypeOK, FormatKnown, Settled, Holding, environment
  <2>. QED  BY <2>1, <2>2
<1>12. ASSUME NEW i \in Sources, Replace(i) PROVE TypeInv'
  <2>1. content[i] + 1 \in Gens
    BY <1>12, PipelineAssumption DEF Replace, TypeOK, Gens, Images
  <2>4. {content[i] + 1} \cup InOrigin(i) \in SUBSET Gens
    BY <2>1, AtHandGens DEF Images
  <2>2. TypeOK'
    BY <1>12, <2>1, <2>4 DEF Replace, TypeOK, local
  <2>3. FormatKnown'
    BY <1>12 DEF Replace, FormatKnown, local
  <2>. QED  BY <2>2, <2>3
<1>13. ASSUME NEW k \in Keys, Forget(k) PROVE TypeInv'
  <2>1. TypeOK'
    BY <1>13 DEF Forget, TypeOK, local, environment
  <2>2. FormatKnown'
    BY <1>13 DEF Forget, FormatKnown, local, environment
  <2>. QED  BY <2>1, <2>2
<1>13a. ASSUME NEW i \in Sources, ForgetOrigin(i) PROVE TypeInv'
  <2>1. TypeOK'
    <3>1. 0 \in 0..MaxGen
      BY PipelineAssumption
    <3>. QED  BY <1>13a, <3>1 DEF ForgetOrigin, TypeOK, local, environment
  <2>2. FormatKnown'
    BY <1>13a DEF ForgetOrigin, FormatKnown, local, environment
  <2>. QED  BY <2>1, <2>2
<1>14. CASE Restart
  <2>1. TypeOK'
    BY <1>0a, <1>14, PipelineAssumption DEF Restart, In, TypeOK, PCs, Answers
  <2>2. FormatKnown'
    BY <1>14 DEF Restart, In, TypeOK, FormatKnown, Settled, Active, Counted, Holding
  <2>. QED  BY <2>1, <2>2
<1>15. CASE UNCHANGED vars
  BY <1>15 DEF vars, TypeOK, FormatKnown
<1>. QED
  <2>. HIDE DEF TypeInv
  <2>. QED
    BY <1>1, <1>2, <1>3, <1>3a, <1>3b, <1>4, <1>5, <1>6, <1>7, <1>8, <1>9, <1>10, <1>11,
       <1>12, <1>13, <1>13a, <1>14, <1>15 DEF Next, Step

\* The state keeps its types; in particular the counter never goes below zero.
THEOREM PipelineTypes == Spec => []TypeOK
<1>1. TypeInv => TypeOK
  BY DEF TypeInv
<1>2. Init => TypeInv /\ SlotInv
  BY TypeInit, SlotInit
<1>3. TypeInv /\ SlotInv /\ [Next]_vars => (TypeInv /\ SlotInv)'
  BY TypeStep, SlotStep
<1>. QED  BY <1>1, <1>2, <1>3, PTL DEF Spec

-----------------------------------------------------------------------------
(* Answers *)

\* The steps before a request has read its source, and the ones after.
Reading == {"lookup", "resolve", "fetch"}
Read == Settled \cup {"fill", "inspect"}

\* Generation g is no older than one of a set.
NotOlder(S, g) == \E h \in S : g >= h

\* What a request may accept that names version n of image i.
Tagged(i, n) == IF i \in Remote THEN tagged[i][n] ELSE {n}

\* A body that answers a request.
Fits(r, b) ==
  /\ b \in Bodies
  /\ b.src = req[r].src /\ b.wm = req[r].wm
  /\ req[r].format \in {Unset, b.format}
  /\ NotOlder(Accepts(r), b.gen)

\* A body that belongs under a key: the generation it was made from is the one
\* the content digest names, or no older than the version, which is in place.
Belongs(k, b) ==
  /\ b \in Bodies
  /\ b.src = k.src /\ b.format = k.format /\ b.wm = k.wm
  /\ IF k.by = "content" THEN b.gen = k.n
     ELSE k.n <= content[k.src] /\ NotOlder(Tagged(k.src, k.n), b.gen)

\* Uploads never change, a request names a version that is in place, and what a
\* read may return is recent enough for the requests that are about to read and
\* for every version in place.
Onward ==
  /\ \A u \in Uploads : content[u] = 1
  /\ \A r \in Requests : pc[r] # "new" => req[r].version <= content[req[r].src]
  /\ \A r \in Requests : pc[r] \in Reading =>
       \A g \in AtHand(req[r].src) : NotOlder(Accepts(r), g)
  /\ \A i \in Images, n \in Gens : n <= content[i] =>
       \A g \in AtHand(i) : NotOlder(Tagged(i, n), g)

\* The bytes in hand are not older than the request.
BytesFresh == \A r \in Requests : pc[r] \in Read => NotOlder(Accepts(r), bytes[r])

StoreCoherent == \A k \in Keys : store[k] # NoBody => Belongs(k, store[k])

\* A transform's output waiting to be stored is of the bytes that were read.
OutputRight ==
  \A r \in Requests : pc[r] = "store" =>
    out[r] = [src |-> req[r].src, gen |-> bytes[r], format |-> fmt[r], wm |-> req[r].wm]

AnswersFit ==
  \A r \in Requests :
    /\ pc[r] = "new" => answer[r] = "none"
    /\ answer[r] \in ImageAnswers => Fits(r, out[r])

AnswerInv == Onward /\ BytesFresh /\ StoreCoherent /\ OutputRight /\ AnswersFit

\* A request that names a version accepts what the version accepts.
LEMMA AcceptsTagged ==
  ASSUME NEW r, req[r].version # 0
  PROVE  Accepts(r) = Tagged(req[r].src, req[r].version)
BY DEF Accepts, Tagged

LEMMA AnswerInit == Init => AnswerInv
<1>. SUFFICES ASSUME Init PROVE AnswerInv
  OBVIOUS
<1>1. Onward
  <2>1. \A i \in Images : AtHand(i) = {1}
    BY DEF Init, AtHand, InOrigin
  <2>2. ASSUME NEW i \in Images, NEW n \in Gens, n <= content[i]
        PROVE  Tagged(i, n) = {1}
    BY <2>2 DEF Init, Tagged, Gens
  <2>3. \A i \in Images : content[i] = 1
    BY DEF Init
  <2>4. NotOlder({1}, 1)
    BY DEF NotOlder
  <2>5. \A i \in Images, n \in Gens : n <= content[i] =>
          \A g \in AtHand(i) : NotOlder(Tagged(i, n), g)
    BY <2>1, <2>2, <2>4
  <2>6. \A r \in Requests : pc[r] = "new"
    BY DEF Init
  <2>. QED  BY <2>3, <2>5, <2>6 DEF Onward, Images, Reading
<1>2. BytesFresh /\ OutputRight
  BY DEF Init, BytesFresh, OutputRight, Read, Settled
<1>3. StoreCoherent
  BY DEF Init, StoreCoherent
<1>4. AnswersFit
  BY DEF Init, AnswersFit, ImageAnswers
<1>. QED  BY <1>1, <1>2, <1>3, <1>4 DEF AnswerInv

\* Nothing older comes into reach, and no request begins to read.
LEMMA OnwardKept ==
  ASSUME TypeInv, Onward, UNCHANGED <<req, content, since, tagged>>,
         \A i \in Images : InOrigin(i)' \subseteq AtHand(i),
         \A q \in Requests : /\ pc'[q] # "new" => pc[q] # "new"
                             /\ pc'[q] \in Reading => pc[q] \in Reading
  PROVE  Onward'
<1>1. \A i \in Images : AtHand(i)' \subseteq AtHand(i)
  BY DEF AtHand
<1>2. \A q \in Requests : req[q].src \in Images /\ Accepts(q)' = Accepts(q)
  BY DEF TypeInv, TypeOK, RequestType, Accepts
<1>3. \A i, n : Tagged(i, n)' = Tagged(i, n)
  BY DEF Tagged
<1>. QED  BY <1>1, <1>2, <1>3 DEF Onward

\* The origin cache and the fetches that are on their way to it stay.
LEMMA OriginKept ==
  ASSUME UNCHANGED <<req, origin>>,
         \A q \in Requests : pc'[q] = "fill" => pc[q] = "fill" /\ bytes'[q] = bytes[q]
  PROVE  \A i \in Images : InOrigin(i)' \subseteq AtHand(i)
BY DEF InOrigin, AtHand

\* What fits stays fitting while the versions stay.
LEMMA Kept ==
  ASSUME UNCHANGED <<req, content, since, tagged>>
  PROVE  /\ \A r, b : Fits(r, b)' <=> Fits(r, b)
         /\ \A k, b : Belongs(k, b)' <=> Belongs(k, b)
         /\ \A r : Accepts(r)' = Accepts(r)
<1>1. \A r : Accepts(r)' = Accepts(r)
  BY DEF Accepts
<1>2. \A i, n : Tagged(i, n)' = Tagged(i, n)
  BY DEF Tagged
<1>3. \A r, b : Fits(r, b)' <=> Fits(r, b)
  BY <1>1 DEF Fits
<1>4. \A k, b : Belongs(k, b)' <=> Belongs(k, b)
  BY <1>2 DEF Belongs
<1>. QED  BY <1>1, <1>3, <1>4

\* Most steps of a request leave the caches, the answers and the sources alone.
LEMMA AnswerQuiet ==
  ASSUME TypeInv, AnswerInv, NEW r \in Requests, NEW l,
         pc' = [pc EXCEPT ![r] = l],
         UNCHANGED <<req, content, since, tagged, store, origin, out>>,
         \A q \in Requests : q # r \/ l # "done" => bytes'[q] = bytes[q] /\ fmt'[q] = fmt[q],
         l \in PCs \ {"new", "store", "fill"}, pc[r] # "new",
         l \in Reading => pc[r] \in Reading,
         l \in Read => pc[r] \in Read,
         \/ answer' = answer
         \/ \E a \in Answers \ ImageAnswers : answer' = [answer EXCEPT ![r] = a]
  PROVE  AnswerInv'
<1>0. /\ \A q \in Requests : pc'[q] = IF q = r THEN l ELSE pc[q]
      /\ "done" \notin Read
  BY DEF TypeInv, TypeOK, Read, Settled
<1>1. Onward'
  <2>1. \A i \in Images : InOrigin(i)' \subseteq AtHand(i)
    BY <1>0, OriginKept
  <2>. QED  BY <1>0, <2>1, OnwardKept DEF AnswerInv
<1>2. BytesFresh'
  BY <1>0, Kept DEF AnswerInv, BytesFresh
<1>3. StoreCoherent'
  BY Kept DEF AnswerInv, StoreCoherent
<1>4. OutputRight'
  BY <1>0 DEF AnswerInv, OutputRight
<1>5. AnswersFit'
  BY <1>0, Kept DEF AnswerInv, AnswersFit, TypeInv, TypeOK
<1>. QED  BY <1>1, <1>2, <1>3, <1>4, <1>5 DEF AnswerInv

LEMMA AnswerArrive ==
  ASSUME TypeInv, AnswerInv, NEW r \in Requests, Arrive(r)
  PROVE  AnswerInv'
<1>1. /\ pc' = [pc EXCEPT ![r] = IF req[r].src \in Uploads THEN "inspect" ELSE "lookup"]
      /\ since' = [since EXCEPT ![r] = AtHand(req[r].src)]
      /\ pc[r] = "new" /\ req[r].version <= content[req[r].src]
      /\ UNCHANGED <<req, content, tagged, store, origin, bytes, fmt, out, answer>>
  BY DEF Arrive, Goto, local
<1>2. /\ \A q \in Requests : req[q] \in RequestType /\ req[q].src \in Images
      /\ content[req[r].src] \in Gens /\ bytes[r] \in Gens
  BY DEF TypeInv, TypeOK, RequestType
<1>3. \A q \in Requests : /\ q # r => pc'[q] = pc[q] /\ since'[q] = since[q]
                          /\ q = r => pc'[q] \in {"inspect", "lookup"}
  BY <1>1 DEF TypeInv, TypeOK
<1>4. since'[r] = AtHand(req[r].src)
  BY <1>1 DEF TypeInv, TypeOK
<1>5. \A q \in Requests \ {r} : Accepts(q)' = Accepts(q)
  BY <1>1, <1>3 DEF Accepts
<1>6. \A i, n : Tagged(i, n)' = Tagged(i, n)
  BY <1>1 DEF Tagged
<1>7. \A i : AtHand(i)' \subseteq AtHand(i)
  BY <1>1, <1>3 DEF AtHand, InOrigin
<1>8. AtHand(req[r].src) \subseteq Gens
  BY <1>2, AtHandGens DEF TypeInv
<1>9. \A g \in AtHand(req[r].src) : NotOlder(Accepts(r)', g)
  <2>1. CASE req[r].version = 0
    <3>1. Accepts(r)' = AtHand(req[r].src)
      BY <1>1, <1>4, <2>1 DEF Accepts
    <3>. QED  BY <1>8, <3>1 DEF NotOlder, Gens
  <2>2. CASE req[r].version # 0
    <3>1. Accepts(r)' = Tagged(req[r].src, req[r].version)
      BY <1>1, <2>2 DEF Accepts, Tagged
    <3>2. req[r].version \in Gens
      BY <1>2, <2>2, PipelineAssumption DEF RequestType, Gens
    <3>. QED  BY <1>1, <1>2, <3>1, <3>2 DEF AnswerInv, Onward
  <2>. QED  BY <2>1, <2>2
<1>10. Onward'
  <2>1. ASSUME NEW q \in Requests, pc'[q] \in Reading
        PROVE  \A g \in AtHand(req[q].src)' : NotOlder(Accepts(q)', g)
    <3>1. CASE q = r
      BY <1>1, <1>7, <1>9, <3>1
    <3>2. CASE q # r
      BY <1>1, <1>3, <1>5, <1>7, <2>1, <3>2 DEF AnswerInv, Onward
    <3>. QED  BY <3>1, <3>2
  <2>2. \A q \in Requests : pc'[q] # "new" => req[q].version <= content[req[q].src]
    BY <1>1, <1>3 DEF AnswerInv, Onward
  <2>3. \A i \in Images, n \in Gens : n <= content[i] =>
          \A g \in AtHand(i)' : NotOlder(Tagged(i, n)', g)
    BY <1>6, <1>7 DEF AnswerInv, Onward
  <2>. QED  BY <1>1, <2>1, <2>2, <2>3 DEF AnswerInv, Onward, NotOlder
<1>11. BytesFresh'
  <2>1. ASSUME pc'[r] \in Read PROVE NotOlder(Accepts(r)', bytes[r])
    <3>1. req[r].src \in Uploads
      BY <1>1, <2>1 DEF Read, Settled, TypeInv, TypeOK
    <3>2. content[req[r].src] = 1 /\ req[r].version = 0
      BY <1>2, <3>1 DEF AnswerInv, Onward, RequestType
    <3>3. Accepts(r)' = AtHand(req[r].src) /\ 1 \in AtHand(req[r].src)
      BY <1>1, <1>4, <3>2 DEF Accepts, AtHand
    <3>. QED  BY <1>2, <3>3 DEF NotOlder, Gens
  <2>. QED  BY <1>1, <1>3, <1>5, <2>1 DEF AnswerInv, BytesFresh, NotOlder
<1>12. StoreCoherent'
  <2>1. \A k, b : Belongs(k, b)' <=> Belongs(k, b)
    BY <1>1, <1>6 DEF Belongs
  <2>. QED  BY <1>1, <2>1 DEF AnswerInv, StoreCoherent
<1>13. OutputRight'
  BY <1>1, <1>3 DEF AnswerInv, OutputRight
<1>14. AnswersFit'
  <2>1. answer[r] \notin ImageAnswers
    BY <1>1 DEF AnswerInv, AnswersFit, ImageAnswers
  <2>2. \A q \in Requests \ {r} : \A b : Fits(q, b)' <=> Fits(q, b)
    BY <1>1, <1>5 DEF Fits
  <2>. QED  BY <1>1, <1>3, <2>1, <2>2 DEF AnswerInv, AnswersFit
<1>. QED  BY <1>10, <1>11, <1>12, <1>13, <1>14 DEF AnswerInv

\* A hit: the request is answered with a body that fits it.
LEMMA AnswerHit ==
  ASSUME TypeInv, AnswerInv, NEW r \in Requests, NEW b, Fits(r, b), pc[r] # "new",
         Finish(r, "hit"), out' = [out EXCEPT ![r] = b],
         UNCHANGED <<req, content, since, tagged, store, origin>>
  PROVE  AnswerInv'
<1>1. /\ \A q \in Requests : pc'[q] = IF q = r THEN "done" ELSE pc[q]
      /\ \A q \in Requests \ {r} : /\ bytes'[q] = bytes[q] /\ fmt'[q] = fmt[q]
                                   /\ answer'[q] = answer[q] /\ out'[q] = out[q]
      /\ out'[r] = b
  BY DEF Finish, Return, TypeInv, TypeOK
<1>2. Onward'
  <2>1. \A i \in Images : InOrigin(i)' \subseteq AtHand(i)
    BY <1>1, OriginKept
  <2>. QED  BY <1>1, <2>1, OnwardKept DEF AnswerInv, Reading
<1>3. BytesFresh' /\ OutputRight'
  BY <1>1, Kept DEF AnswerInv, BytesFresh, OutputRight, Read, Settled
<1>4. StoreCoherent'
  BY Kept DEF AnswerInv, StoreCoherent
<1>5. AnswersFit'
  BY <1>1, Kept DEF AnswerInv, AnswersFit
<1>. QED  BY <1>2, <1>3, <1>4, <1>5 DEF AnswerInv

LEMMA AnswerVersionedLookup ==
  ASSUME TypeInv, AnswerInv, NEW r \in Requests, VersionedLookup(r)
  PROVE  AnswerInv'
<1>1. CASE /\ req[r].version # 0 /\ CacheOn /\ req[r].format # Unset
           /\ store[VersionKey(r)] # NoBody
  <2>1. VersionKey(r) \in Keys
    BY <1>1, VersionKeyType DEF TypeInv
  <2>2. Belongs(VersionKey(r), store[VersionKey(r)])
    BY <1>1, <2>1 DEF AnswerInv, StoreCoherent
  <2>3. /\ VersionKey(r).src = req[r].src /\ VersionKey(r).wm = req[r].wm
        /\ VersionKey(r).format = req[r].format /\ VersionKey(r).n = req[r].version
        /\ VersionKey(r).by = "version"
    BY DEF VersionKey
  <2>4. Fits(r, store[VersionKey(r)])
    BY <1>1, <2>2, <2>3, AcceptsTagged DEF Belongs, Fits
  <2>. QED  BY <1>1, <2>4, AnswerHit DEF VersionedLookup, environment
<1>2. CASE ~(/\ req[r].version # 0 /\ CacheOn /\ req[r].format # Unset
             /\ store[VersionKey(r)] # NoBody)
  <2>1. "resolve" \in PCs \ {"new", "store", "fill"} /\ "resolve" \notin Read
    BY DEF PCs, Active, Read, Settled
  <2>. QED  BY <1>2, <2>1, AnswerQuiet DEF VersionedLookup, Goto, environment, local, Reading
<1>. QED  BY <1>1, <1>2

\* The source is read: some generation at hand is now the request's.
LEMMA AnswerRead ==
  ASSUME TypeInv, AnswerInv, NEW r \in Requests, NEW g \in AtHand(req[r].src), NEW l,
         l \in {"fill", "inspect"}, l = "fill" => g = content[req[r].src],
         pc[r] \in Reading, pc' = [pc EXCEPT ![r] = l],
         bytes' = [bytes EXCEPT ![r] = g],
         UNCHANGED <<req, content, since, tagged, store, origin, fmt, out, answer>>
  PROVE  AnswerInv'
<1>1. \A q \in Requests : /\ q # r => pc'[q] = pc[q] /\ bytes'[q] = bytes[q]
                          /\ q = r => pc'[q] = l /\ bytes'[q] = g
  BY DEF TypeInv, TypeOK
<1>2. pc[r] # "new" /\ l \notin Reading \cup {"new", "store"}
  BY DEF Reading
<1>3. Onward'
  <2>1. \A i \in Images : InOrigin(i)' \subseteq AtHand(i)
    BY <1>1 DEF InOrigin, AtHand
  <2>. QED  BY <1>1, <1>2, <2>1, OnwardKept DEF AnswerInv
<1>4. BytesFresh'
  <2>1. NotOlder(Accepts(r), g)
    BY DEF AnswerInv, Onward
  <2>. QED  BY <1>1, <2>1, Kept DEF AnswerInv, BytesFresh
<1>5. StoreCoherent'
  BY Kept DEF AnswerInv, StoreCoherent
<1>6. OutputRight'
  BY <1>1, <1>2 DEF AnswerInv, OutputRight
<1>7. AnswersFit'
  BY <1>1, <1>2, Kept DEF AnswerInv, AnswersFit
<1>. QED  BY <1>3, <1>4, <1>5, <1>6, <1>7 DEF AnswerInv

\* An early return with an error.
LEMMA AnswerError ==
  ASSUME TypeInv, AnswerInv, NEW r \in Requests, NEW a \in Answers \ ImageAnswers,
         pc[r] # "new", Finish(r, a),
         UNCHANGED <<req, content, since, tagged, store, origin, out>>
  PROVE  AnswerInv'
<1>1. "done" \in PCs \ {"new", "store", "fill"} /\ "done" \notin Reading /\ "done" \notin Read
  BY DEF PCs, Reading, Read, Settled
<1>2. \A q \in Requests \ {r} : bytes'[q] = bytes[q] /\ fmt'[q] = fmt[q]
  BY DEF Finish, Return, TypeInv, TypeOK
<1>. QED  BY <1>1, <1>2, AnswerQuiet DEF Finish, Return

LEMMA AnswerResolve ==
  ASSUME TypeInv, AnswerInv, NEW r \in Requests, Resolve(r)
  PROVE  AnswerInv'
<1>0. /\ pc[r] = "resolve" /\ UNCHANGED <<req, content, since, tagged, store, origin, out>>
      /\ "resolve" \in Reading /\ "fetch" \in Reading /\ req[r].src \in Images
  BY DEF Resolve, environment, Reading, TypeInv, TypeOK, RequestType
<1>1. CASE /\ req[r].src \notin Remote /\ Goto(r, "inspect")
           /\ bytes' = [bytes EXCEPT ![r] = content[req[r].src]] /\ UNCHANGED <<fmt, answer>>
  BY <1>0, <1>1, AnswerRead DEF Goto, AtHand
<1>2. CASE /\ req[r].src \in Remote /\ origin[req[r].src] # 0 /\ Goto(r, "inspect")
           /\ bytes' = [bytes EXCEPT ![r] = origin[req[r].src]] /\ UNCHANGED <<fmt, answer>>
  <2>1. origin[req[r].src] \in AtHand(req[r].src)
    BY <1>2 DEF AtHand, InOrigin
  <2>. QED  BY <1>0, <1>2, <2>1, AnswerRead DEF Goto
<1>3. CASE Goto(r, "fetch") /\ UNCHANGED <<bytes, fmt, answer>>
  <2>1. "fetch" \in PCs \ {"new", "store", "fill"} /\ "fetch" \notin Read
    BY DEF PCs, Active, Read, Settled
  <2>. QED  BY <1>0, <1>3, <2>1, AnswerQuiet DEF Goto
<1>4. CASE Finish(r, "source_error")
  <2>1. "source_error" \in Answers \ ImageAnswers
    BY DEF Answers, ImageAnswers
  <2>. QED  BY <1>0, <1>4, <2>1, AnswerError
<1>. QED  BY <1>1, <1>2, <1>3, <1>4 DEF Resolve

LEMMA AnswerFetch ==
  ASSUME TypeInv, AnswerInv, NEW r \in Requests, Fetch(r)
  PROVE  AnswerInv'
<1>0. /\ pc[r] = "fetch" /\ UNCHANGED <<req, content, since, tagged, store, origin, out>>
      /\ pc[r] \in Reading /\ content[req[r].src] \in AtHand(req[r].src)
  BY DEF Fetch, environment, Reading, AtHand
<1>1. ASSUME NEW l \in {"fill", "inspect"}, Goto(r, l),
             bytes' = [bytes EXCEPT ![r] = content[req[r].src]], UNCHANGED <<fmt, answer>>
      PROVE  AnswerInv'
  BY <1>0, <1>1, AnswerRead DEF Goto
<1>2. CASE Finish(r, "source_error")
  <2>1. "source_error" \in Answers \ ImageAnswers
    BY DEF Answers, ImageAnswers
  <2>. QED  BY <1>0, <1>2, <2>1, AnswerError
<1>. QED  BY <1>1, <1>2 DEF Fetch

LEMMA AnswerFill ==
  ASSUME TypeInv, AnswerInv, NEW r \in Requests, Fill(r)
  PROVE  AnswerInv'
<1>1. /\ pc[r] = "fill" /\ pc' = [pc EXCEPT ![r] = "inspect"]
      /\ origin' = [origin EXCEPT ![req[r].src] = bytes[r]] \/ origin' = origin
      /\ UNCHANGED <<req, content, since, tagged, store, bytes, fmt, out, answer>>
  BY DEF Fill, Goto, local, environment
<1>2. \A q \in Requests : pc'[q] = IF q = r THEN "inspect" ELSE pc[q]
  BY <1>1 DEF TypeInv, TypeOK
<1>3. Onward'
  <2>1. \A i \in Images : origin'[i] = origin[i] \/ (i = req[r].src /\ origin'[i] = bytes[r])
    BY <1>1 DEF TypeInv, TypeOK
  <2>2. \A i \in Images : InOrigin(i)' \subseteq AtHand(i)
    BY <1>1, <1>2, <2>1 DEF InOrigin, AtHand
  <2>. QED  BY <1>1, <1>2, <2>2, OnwardKept DEF AnswerInv, Reading
<1>4. BytesFresh'
  BY <1>1, <1>2, Kept DEF AnswerInv, BytesFresh, Read
<1>5. StoreCoherent'
  BY <1>1, Kept DEF AnswerInv, StoreCoherent
<1>6. OutputRight'
  BY <1>1, <1>2 DEF AnswerInv, OutputRight
<1>7. AnswersFit'
  BY <1>1, <1>2, Kept DEF AnswerInv, AnswersFit
<1>. QED  BY <1>3, <1>4, <1>5, <1>6, <1>7 DEF AnswerInv

LEMMA AnswerInspect ==
  ASSUME TypeInv, AnswerInv, NEW r \in Requests, Inspect(r)
  PROVE  AnswerInv'
<1>1. pc[r] = "inspect" /\ UNCHANGED <<req, content, since, tagged, store, origin, out>>
  BY DEF Inspect, environment
<1>2. ASSUME NEW a \in Answers \ ImageAnswers, Finish(r, a)
      PROVE  AnswerInv'
  BY <1>1, <1>2, AnswerError
<1>3. ASSUME NEW f \in Formats, Goto(r, "cached"), fmt' = [fmt EXCEPT ![r] = f],
             UNCHANGED <<bytes, answer>>
      PROVE  AnswerInv'
  <2>1. \A q \in Requests : pc'[q] = IF q = r THEN "cached" ELSE pc[q]
    BY <1>3 DEF Goto, TypeInv, TypeOK
  <2>2. Onward'
    <3>1. \A i \in Images : InOrigin(i)' \subseteq AtHand(i)
      BY <1>1, <1>3, <2>1, OriginKept
    <3>. QED  BY <1>1, <2>1, <3>1, OnwardKept DEF AnswerInv, Reading
  <2>3. BytesFresh'
    BY <1>1, <1>3, <2>1, Kept DEF AnswerInv, BytesFresh, Read
  <2>4. StoreCoherent'
    BY <1>1, Kept DEF AnswerInv, StoreCoherent
  <2>5. OutputRight'
    BY <1>1, <1>3, <2>1 DEF AnswerInv, OutputRight, TypeInv, TypeOK
  <2>6. AnswersFit'
    BY <1>1, <1>3, <2>1, Kept DEF AnswerInv, AnswersFit
  <2>. QED  BY <2>2, <2>3, <2>4, <2>5, <2>6 DEF AnswerInv
<1>4. {"unreadable", "not_acceptable", "too_large"} \subseteq Answers \ ImageAnswers
  BY DEF Answers, ImageAnswers
<1>. QED  BY <1>2, <1>3, <1>4 DEF Inspect

LEMMA AnswerCacheLookup ==
  ASSUME TypeInv, AnswerInv, NEW r \in Requests, CacheLookup(r)
  PROVE  AnswerInv'
<1>0. pc[r] = "cached" /\ pc[r] \in Settled /\ pc[r] \in Read
  BY DEF CacheLookup, Settled, Read
<1>1. CASE CacheOn /\ store[CacheKey(r)] # NoBody
  <2>1. Belongs(CacheKey(r), store[CacheKey(r)])
    BY <1>0, <1>1, CacheKeyType DEF AnswerInv, StoreCoherent
  <2>2. NotOlder(Accepts(r), bytes[r]) /\ req[r].format \in {Unset, fmt[r]}
    BY <1>0 DEF AnswerInv, BytesFresh, TypeInv, FormatKnown
  <2>3. /\ CacheKey(r).src = req[r].src /\ CacheKey(r).wm = req[r].wm
        /\ CacheKey(r).format = fmt[r]
    BY DEF CacheKey
  <2>4. NotOlder(Accepts(r), store[CacheKey(r)].gen)
    <3>1. CASE req[r].version = 0
      BY <2>1, <2>2, <3>1 DEF Belongs, CacheKey
    <3>2. CASE req[r].version # 0
      BY <2>1, <3>2, AcceptsTagged DEF Belongs, CacheKey
    <3>. QED  BY <3>1, <3>2
  <2>5. Fits(r, store[CacheKey(r)])
    BY <2>1, <2>2, <2>3, <2>4 DEF Fits, Belongs
  <2>. QED  BY <1>0, <1>1, <2>5, AnswerHit DEF CacheLookup, environment
<1>2. CASE ~(CacheOn /\ store[CacheKey(r)] # NoBody)
  <2>1. "acquire" \in PCs \ {"new", "store", "fill"} /\ "acquire" \notin Reading
    BY DEF PCs, Active, Reading
  <2>. QED  BY <1>0, <1>2, <2>1, AnswerQuiet DEF CacheLookup, Goto, environment, local
<1>. QED  BY <1>1, <1>2

\* What a transform of the bytes in hand produces fits the request.
LEMMA OutputFits ==
  ASSUME TypeInv, AnswerInv, NEW r \in Requests, pc[r] \in Settled, NEW b,
         b = [src |-> req[r].src, gen |-> bytes[r], format |-> fmt[r], wm |-> req[r].wm]
  PROVE  b \in Bodies /\ Fits(r, b) /\ NotOlder(Accepts(r), b.gen)
<1>1. b \in Bodies
  BY DEF TypeInv, TypeOK, FormatKnown, Bodies, RequestType
<1>2. NotOlder(Accepts(r), bytes[r])
  BY DEF AnswerInv, BytesFresh, Read
<1>3. req[r].format \in {Unset, fmt[r]}
  BY DEF TypeInv, FormatKnown
<1>. QED  BY <1>1, <1>2, <1>3 DEF Fits

LEMMA AnswerTransform ==
  ASSUME TypeInv, AnswerInv, NEW r \in Requests, Transform(r)
  PROVE  AnswerInv'
<1>0. /\ pc[r] = "transform" /\ pc[r] \in Settled /\ pc[r] \in Read
      /\ UNCHANGED <<req, content, since, tagged, bytes, fmt, store, origin>>
  BY DEF Transform, Settled, Read, environment
<1>. DEFINE b == [src |-> req[r].src, gen |-> bytes[r], format |-> fmt[r], wm |-> req[r].wm]
<1>1. CASE Goto(r, "store") /\ out' = [out EXCEPT ![r] = b] /\ UNCHANGED answer
  <2>1. Fits(r, b)
    BY <1>0, OutputFits
  <2>2. \A q \in Requests : /\ pc'[q] = IF q = r THEN "store" ELSE pc[q]
                            /\ out'[q] = IF q = r THEN b ELSE out[q]
    BY <1>1 DEF Goto, TypeInv, TypeOK
  <2>. HIDE DEF b
  <2>3. Onward'
    <3>1. \A i \in Images : InOrigin(i)' \subseteq AtHand(i)
      BY <1>0, <2>2, OriginKept
    <3>. QED  BY <1>0, <2>2, <3>1, OnwardKept DEF AnswerInv, Reading
  <2>4. BytesFresh'
    BY <1>0, <2>2, Kept DEF AnswerInv, BytesFresh
  <2>5. StoreCoherent'
    BY <1>0, Kept DEF AnswerInv, StoreCoherent
  <2>6. OutputRight'
    BY <1>0, <2>2 DEF AnswerInv, OutputRight, b
  <2>7. AnswersFit'
    BY <1>0, <1>1, <2>1, <2>2, Kept DEF AnswerInv, AnswersFit
  <2>. QED  BY <2>3, <2>4, <2>5, <2>6, <2>7 DEF AnswerInv
<1>2. CASE /\ Goto(r, "release") /\ answer' = [answer EXCEPT ![r] = "transform_error"]
           /\ UNCHANGED out
  <2>1. /\ "release" \in PCs \ {"new", "store", "fill"} /\ "release" \notin Reading
        /\ "transform_error" \in Answers \ ImageAnswers
    BY DEF PCs, Active, Counted, Holding, Reading, Answers, ImageAnswers
  <2>. QED  BY <1>0, <1>2, <2>1, AnswerQuiet DEF Goto
<1>. QED  BY <1>1, <1>2 DEF Transform

LEMMA AnswerPut ==
  ASSUME TypeInv, AnswerInv, NEW r \in Requests, Put(r)
  PROVE  AnswerInv'
<1>0. /\ pc[r] = "store" /\ pc[r] \in Settled
      /\ UNCHANGED <<req, content, since, tagged, bytes, fmt, origin, out>>
      /\ \A q \in Requests : pc'[q] = IF q = r THEN "release" ELSE pc[q]
      /\ \A q \in Requests \ {r} : answer'[q] = answer[q]
  BY DEF Put, Goto, Settled, environment, TypeInv, TypeOK
<1>1. out[r] = [src |-> req[r].src, gen |-> bytes[r], format |-> fmt[r], wm |-> req[r].wm]
  BY <1>0 DEF AnswerInv, OutputRight
<1>2. out[r] \in Bodies /\ Fits(r, out[r]) /\ NotOlder(Accepts(r), out[r].gen)
  BY <1>0, <1>1, OutputFits
<1>3. Belongs(CacheKey(r), out[r])
  <2>1. CASE req[r].version = 0
    BY <1>1, <1>2, <2>1 DEF Belongs, CacheKey
  <2>2. CASE req[r].version # 0
    <3>1. req[r].version <= content[req[r].src]
      BY <1>0 DEF AnswerInv, Onward
    <3>. QED  BY <1>1, <1>2, <2>2, <3>1, AcceptsTagged DEF Belongs, CacheKey
  <2>. QED  BY <2>1, <2>2
<1>4. StoreCoherent'
  <2>1. store' = [store EXCEPT ![CacheKey(r)] = out[r]] \/ store' = store
    BY DEF Put
  <2>2. ASSUME NEW k \in Keys
        PROVE  store'[k] = store[k] \/ (k = CacheKey(r) /\ store'[k] = out[r])
    BY <2>1 DEF TypeInv, TypeOK
  <2>. QED  BY <1>0, <1>3, <2>2, Kept DEF AnswerInv, StoreCoherent
<1>5. Onward'
  <2>1. \A i \in Images : InOrigin(i)' \subseteq AtHand(i)
    BY <1>0, OriginKept
  <2>. QED  BY <1>0, <2>1, OnwardKept DEF AnswerInv, Reading
<1>6. BytesFresh' /\ OutputRight'
  BY <1>0, Kept DEF AnswerInv, BytesFresh, OutputRight, Read, Settled
<1>7. AnswersFit'
  BY <1>0, <1>2, Kept DEF AnswerInv, AnswersFit
<1>. QED  BY <1>4, <1>5, <1>6, <1>7 DEF AnswerInv

\* A source is replaced: the new version accepts whatever is at hand, and those
\* in place are as they were.
LEMMA AnswerReplace ==
  ASSUME TypeInv, AnswerInv, NEW i \in Sources, Replace(i)
  PROVE  AnswerInv'
<1>1. /\ i \in Images /\ i \notin Uploads
      /\ content' = [content EXCEPT ![i] = @ + 1]
      /\ tagged' = [tagged EXCEPT ![i][content[i] + 1] = {content[i] + 1} \cup InOrigin(i)]
      /\ UNCHANGED <<req, store, origin, pc, bytes, fmt, out, answer, since>>
  BY PipelineAssumption DEF Replace, local, Images
<1>2. ASSUME NEW j \in Images
      PROVE  /\ content[j] \in Gens /\ content'[j] \in Int
             /\ content'[j] = IF j = i THEN content[i] + 1 ELSE content[j]
             /\ InOrigin(j)' = InOrigin(j) /\ InOrigin(j) \subseteq Gens
  BY <1>1, AtHandGens DEF TypeInv, TypeOK, InOrigin, Gens
<1>3. ASSUME NEW j \in Images, NEW n \in Gens, n <= content[j]
      PROVE  Tagged(j, n)' = Tagged(j, n)
  <2>1. j # i \/ n # content[i] + 1
    BY <1>1, <1>2, <1>3 DEF Gens
  <2>2. tagged'[j][n] = tagged[j][n]
    BY <1>1, <2>1 DEF TypeInv, TypeOK
  <2>. QED  BY <2>2 DEF Tagged
<1>4. \A q \in Requests : /\ req[q] \in RequestType /\ req[q].src \in Images
                          /\ req[q].version # 0 => req[q].version \in Gens
  BY PipelineAssumption DEF TypeInv, TypeOK, RequestType, Gens
<1>5. ASSUME NEW q \in Requests, pc[q] # "new" PROVE Accepts(q)' = Accepts(q)
  <2>1. req[q].version <= content[req[q].src]
    BY <1>5 DEF AnswerInv, Onward
  <2>2. CASE req[q].version = 0
    BY <1>1, <2>2 DEF Accepts
  <2>3. CASE req[q].version # 0
    BY <1>1, <1>3, <1>4, <2>1, <2>3 DEF Accepts, Tagged
  <2>. QED  BY <2>2, <2>3
<1>6. Onward'
  <2>1. \A u \in Uploads : content'[u] = 1
    BY <1>1, <1>2 DEF AnswerInv, Onward, Images
  <2>2. ASSUME NEW q \in Requests, pc[q] # "new"
        PROVE  req[q].version <= content'[req[q].src]
    <3>1. req[q].version <= content[req[q].src] /\ req[q].version \in Int
      BY <1>4, <2>2 DEF AnswerInv, Onward, RequestType
    <3>. QED  BY <1>2, <1>4, <3>1 DEF Gens
  <2>3. ASSUME NEW S, NEW j \in Images, \A g \in AtHand(j) : NotOlder(S, g), S \subseteq Int
        PROVE  \A g \in AtHand(j)' : NotOlder(S, g)
    <3>1. NotOlder(S, content'[j])
      <4>1. PICK h \in S : content[j] >= h
        BY <2>3 DEF AtHand, NotOlder
      <4>2. h \in Int /\ content'[j] >= h
        BY <1>2, <2>3, <4>1 DEF Gens
      <4>. QED  BY <4>2 DEF NotOlder
    <3>. QED  BY <1>2, <2>3, <3>1 DEF AtHand
  <2>4. ASSUME NEW q \in Requests, pc[q] \in Reading
        PROVE  \A g \in AtHand(req[q].src)' : NotOlder(Accepts(q)', g)
    <3>1. pc[q] # "new"
      BY <2>4 DEF Reading
    <3>2. Accepts(q) \subseteq Int
      <4>1. since[q] \in SUBSET Gens /\ tagged \in [Images -> [Gens -> SUBSET Gens]]
        BY DEF TypeInv, TypeOK
      <4>2. Gens \subseteq Int
        BY DEF Gens
      <4>3. req[q].version # 0 => tagged[req[q].src][req[q].version] \in SUBSET Gens
        BY <1>4, <4>1
      <4>. QED  BY <1>4, <4>1, <4>2, <4>3 DEF Accepts
    <3>3. \A g \in AtHand(req[q].src) : NotOlder(Accepts(q), g)
      BY <2>4 DEF AnswerInv, Onward
    <3>4. \A g \in AtHand(req[q].src)' : NotOlder(Accepts(q), g)
      BY <1>1, <1>4, <2>3, <3>2, <3>3
    <3>. QED  BY <1>5, <3>1, <3>4
  <2>5. ASSUME NEW j \in Images, NEW n \in Gens, n <= content'[j]
        PROVE  \A g \in AtHand(j)' : NotOlder(Tagged(j, n)', g)
    <3>1. CASE n <= content[j]
      <4>1. Tagged(j, n) \subseteq Int
        <5>1. tagged[j][n] \in SUBSET Gens
          BY DEF TypeInv, TypeOK
        <5>2. Gens \subseteq Int
          BY DEF Gens
        <5>. QED  BY <5>1, <5>2 DEF Tagged
      <4>2. \A g \in AtHand(j) : NotOlder(Tagged(j, n), g)
        BY <3>1 DEF AnswerInv, Onward
      <4>. QED  BY <1>3, <2>3, <3>1, <4>1, <4>2
    <3>2. CASE ~(n <= content[j])
      <4>1. j = i /\ n = content[i] + 1 /\ content'[j] = n
        BY <1>2, <2>5, <3>2 DEF Gens
      <4>2. AtHand(j)' = {n} \cup InOrigin(j)
        BY <1>2, <4>1 DEF AtHand
      <4>3. Tagged(j, n)' = IF j \in Remote THEN {n} \cup InOrigin(j) ELSE {n}
        BY <1>1, <4>1 DEF Tagged, TypeInv, TypeOK
      <4>4. j \notin Remote => InOrigin(j) = {}
        BY DEF InOrigin
      <4>5. AtHand(j)' = Tagged(j, n)' /\ AtHand(j)' \subseteq Int
        BY <1>2, <4>2, <4>3, <4>4 DEF Gens
      <4>. QED  BY <4>5 DEF NotOlder
    <3>. QED  BY <3>1, <3>2
  <2>. QED  BY <1>1, <2>1, <2>2, <2>4, <2>5 DEF Onward, NotOlder
<1>7. BytesFresh' /\ OutputRight'
  BY <1>1, <1>5 DEF AnswerInv, BytesFresh, OutputRight, Read, Settled
<1>8. StoreCoherent'
  <2>1. ASSUME NEW k \in Keys, store[k] # NoBody PROVE Belongs(k, store[k])'
    <3>1. Belongs(k, store[k]) /\ k.src \in Images /\ k.n \in Gens
      BY <2>1 DEF AnswerInv, StoreCoherent, Keys
    <3>2. CASE k.by = "content"
      BY <1>1, <3>1, <3>2 DEF Belongs
    <3>3. CASE k.by # "content"
      <4>1. k.n <= content[k.src] /\ k.n <= content'[k.src]
        BY <1>2, <3>1, <3>3 DEF Belongs, Gens
      <4>2. Tagged(k.src, k.n)' = Tagged(k.src, k.n)
        BY <1>3, <3>1, <4>1
      <4>. QED  BY <1>1, <3>1, <3>3, <4>1, <4>2 DEF Belongs
    <3>. QED  BY <3>2, <3>3
  <2>. QED  BY <1>1, <2>1 DEF StoreCoherent
<1>9. AnswersFit'
  <2>1. ASSUME NEW q \in Requests, answer[q] \in ImageAnswers PROVE Fits(q, out[q])'
    <3>1. pc[q] # "new" /\ Fits(q, out[q])
      BY <2>1 DEF AnswerInv, AnswersFit, ImageAnswers
    <3>. QED  BY <1>1, <1>5, <3>1 DEF Fits
  <2>. QED  BY <1>1, <2>1 DEF AnswerInv, AnswersFit
<1>. QED  BY <1>6, <1>7, <1>8, <1>9 DEF AnswerInv

LEMMA AnswerStep ==
  ASSUME TypeInv, AnswerInv, [Next]_vars
  PROVE  AnswerInv'
<1>1. ASSUME NEW r \in Requests, FetchAdd(r) PROVE AnswerInv'
  <2>1. /\ pc[r] \in Read /\ pc[r] # "new"
        /\ {"refused", "watermark"} \subseteq PCs \ ({"new", "store", "fill"} \cup Reading)
    BY <1>1 DEF FetchAdd, Settled, Read, Reading, Active, Counted, Holding, PCs
  <2>2. CASE inFlight >= Limit
    BY <1>1, <2>1, <2>2, AnswerQuiet DEF FetchAdd, Goto, local, environment
  <2>3. CASE ~(inFlight >= Limit)
    BY <1>1, <2>1, <2>3, AnswerQuiet DEF FetchAdd, Goto, local, environment
  <2>. QED  BY <2>2, <2>3
<1>2. ASSUME NEW r \in Requests, Refuse(r) PROVE AnswerInv'
  <2>1. "unavailable" \in Answers \ ImageAnswers
    BY DEF Answers, ImageAnswers
  <2>. QED  BY <1>2, <2>1, AnswerError DEF Refuse, environment
<1>3. ASSUME NEW r \in Requests, Release(r) PROVE AnswerInv'
  <2>1. "done" \in PCs \ ({"new", "store", "fill"} \cup Reading \cup Read)
    BY DEF PCs, Reading, Read, Settled
  <2>2. \A q \in Requests \ {r} : bytes'[q] = bytes[q] /\ fmt'[q] = fmt[q]
    BY <1>3 DEF Release, Return, TypeInv, TypeOK
  <2>. QED  BY <1>3, <2>1, <2>2, AnswerQuiet DEF Release, Return, environment
<1>4. ASSUME NEW r \in Requests, Watermark(r) PROVE AnswerInv'
  <2>1. /\ pc[r] \in Read /\ pc[r] # "new"
        /\ {"release", "transform"} \subseteq PCs \ ({"new", "store", "fill"} \cup Reading)
        /\ {"bad_watermark", "watermark_error"} \subseteq Answers \ ImageAnswers
    BY <1>4 DEF Watermark, Settled, Read, Reading, Active, Counted, Holding, PCs, Answers,
                ImageAnswers
  <2>. QED  BY <1>4, <2>1, AnswerQuiet DEF Watermark, Goto, environment
<1>5. ASSUME NEW r \in Requests, Panic(r) PROVE AnswerInv'
  <2>1. /\ "release" \in PCs \ ({"new", "store", "fill"} \cup Reading \cup Read)
        /\ "dropped" \in Answers \ ImageAnswers
    BY DEF Settled, Read, Reading, Active, Counted, Holding, PCs, Answers, ImageAnswers
  <2>2. CASE pc[r] = "inspect"
    BY <1>5, <2>1, <2>2, AnswerError DEF Panic, environment
  <2>3. CASE pc[r] = "transform"
    BY <1>5, <2>1, <2>3, AnswerQuiet DEF Panic, Goto, environment
  <2>. QED  BY <1>5, <2>2, <2>3 DEF Panic
<1>6. ASSUME NEW k \in Keys, Forget(k) PROVE AnswerInv'
  <2>1. /\ UNCHANGED <<req, content, since, tagged, origin, pc, bytes, fmt, out, answer>>
        /\ store' = [store EXCEPT ![k] = NoBody]
    BY <1>6 DEF Forget, local, environment
  <2>2. StoreCoherent'
    BY <2>1, Kept DEF AnswerInv, StoreCoherent, TypeInv, TypeOK
  <2>3. Onward'
    BY <2>1, OriginKept, OnwardKept DEF AnswerInv
  <2>4. BytesFresh' /\ OutputRight' /\ AnswersFit'
    BY <2>1, Kept DEF AnswerInv, BytesFresh, OutputRight, AnswersFit
  <2>. QED  BY <2>2, <2>3, <2>4 DEF AnswerInv
<1>7. ASSUME NEW i \in Sources, ForgetOrigin(i) PROVE AnswerInv'
  <2>1. /\ UNCHANGED <<req, content, since, tagged, store, pc, bytes, fmt, out, answer>>
        /\ origin' = [origin EXCEPT ![i] = 0]
    BY <1>7 DEF ForgetOrigin, local, environment
  <2>2. Onward'
    <3>1. \A j \in Images : origin'[j] \in {origin[j], 0}
      BY <2>1 DEF TypeInv, TypeOK
    <3>2. \A j \in Images : InOrigin(j)' \subseteq AtHand(j)
      BY <2>1, <3>1 DEF InOrigin, AtHand
    <3>. QED  BY <2>1, <3>2, OnwardKept DEF AnswerInv
  <2>3. BytesFresh' /\ OutputRight' /\ AnswersFit' /\ StoreCoherent'
    BY <2>1, Kept DEF AnswerInv, BytesFresh, OutputRight, AnswersFit, StoreCoherent
  <2>. QED  BY <2>2, <2>3 DEF AnswerInv
<1>8. CASE Restart
  <2>1. /\ UNCHANGED <<req, content, since, tagged, store, origin>>
        /\ \A q \in Requests : IF pc[q] \in Active
                                 THEN pc'[q] = "done" /\ answer'[q] = "lost"
                                 ELSE pc'[q] = pc[q] /\ answer'[q] = answer[q] /\ out'[q] = out[q]
    BY <1>8 DEF Restart, In
  <2>2. \A q \in Requests : /\ pc'[q] \notin Reading \cup Read
                            /\ pc'[q] # "new" => pc[q] # "new"
    BY <2>1 DEF Active, Counted, Holding, Reading, Read, Settled
  <2>3. Onward'
    <3>1. \A j \in Images : InOrigin(j)' \subseteq AtHand(j)
      BY <2>1, <2>2, OriginKept DEF Read
    <3>. QED  BY <2>1, <2>2, <3>1, OnwardKept DEF AnswerInv
  <2>4. BytesFresh' /\ OutputRight' /\ StoreCoherent'
    BY <2>1, <2>2, Kept DEF AnswerInv, BytesFresh, OutputRight, StoreCoherent, Read, Settled
  <2>5. AnswersFit'
    BY <2>1, <2>2, Kept DEF AnswerInv, AnswersFit, ImageAnswers
  <2>. QED  BY <2>3, <2>4, <2>5 DEF AnswerInv
<1>9. CASE UNCHANGED vars
  <2>1. UNCHANGED <<req, content, since, tagged, store, origin, pc, bytes, fmt, out, answer>>
    BY <1>9 DEF vars
  <2>2. Onward'
    BY <2>1, OriginKept, OnwardKept DEF AnswerInv
  <2>3. BytesFresh' /\ OutputRight' /\ AnswersFit' /\ StoreCoherent'
    BY <2>1, Kept DEF AnswerInv, BytesFresh, OutputRight, AnswersFit, StoreCoherent
  <2>. QED  BY <2>2, <2>3 DEF AnswerInv
<1>. QED
  BY <1>1, <1>2, <1>3, <1>4, <1>5, <1>6, <1>7, <1>8, <1>9, AnswerArrive,
     AnswerVersionedLookup, AnswerResolve, AnswerFetch, AnswerFill, AnswerInspect,
     AnswerCacheLookup, AnswerTransform, AnswerPut, AnswerReplace
  DEF Next, Step

LEMMA AnswerAlways == Spec => [](TypeInv /\ SlotInv /\ AnswerInv)
<1>1. Init => TypeInv /\ SlotInv /\ AnswerInv
  BY TypeInit, SlotInit, AnswerInit
<1>2. TypeInv /\ SlotInv /\ AnswerInv /\ [Next]_vars => (TypeInv /\ SlotInv /\ AnswerInv)'
  BY TypeStep, SlotStep, AnswerStep
<1>. QED  BY <1>1, <1>2, PTL DEF Spec

\* Whatever requests run together and whatever they leave in the cache, an
\* image answer is of the image, the watermark and the format asked for.
THEOREM AnswersAreRight == Spec => []AnswersTheRequest
<1>1. AnswerInv => AnswersTheRequest
  BY NoBodyAssumption DEF AnswerInv, AnswersFit, Fits, AnswersTheRequest
<1>. QED  BY <1>1, AnswerAlways, PTL

\* No answer is older than what the request may accept: current bytes at its
\* arrival or the version it names, and for a URL what the origin cache held or
\* was about to be given then.
THEOREM AnswersAreFresh == Spec => []NeverStale
<1>1. AnswerInv => NeverStale
  BY DEF AnswerInv, AnswersFit, Fits, NotOlder, NeverStale
<1>. QED  BY <1>1, AnswerAlways, PTL

-----------------------------------------------------------------------------
(* The pixel limit *)

\* The steps behind the check of the pixel limit.  A request does not outlive
\* the process whose limit it passed.
Checked == {"cached", "acquire"} \cup Counted
LimitPassed ==
  \A r \in Requests : pc[r] \in Checked => PixelsOf[req[r].src][bytes[r]] <= pixels

LEMMA LimitInit == Init => LimitPassed
BY DEF Init, LimitPassed, Checked, Counted, Holding

LEMMA LimitStep ==
  ASSUME TypeOK, LimitPassed, [Next]_vars
  PROVE  LimitPassed'
<1>. USE DEF Checked, Counted, Holding
<1>0. pc \in [Requests -> PCs] /\ bytes \in [Requests -> Gens]
  BY DEF TypeOK
<1>1. ASSUME NEW r \in Requests, UNCHANGED <<req, pixels>>,
             \A q \in Requests \ {r} : pc'[q] = pc[q] /\ bytes'[q] = bytes[q],
             pc'[r] \in Checked => pc[r] \in Checked /\ bytes'[r] = bytes[r]
      PROVE  LimitPassed'
  BY <1>1 DEF LimitPassed
<1>2. ASSUME NEW r \in Requests, Arrive(r) \/ Fill(r) PROVE LimitPassed'
  BY <1>0, <1>1, <1>2 DEF Arrive, Fill, Goto, environment, local
<1>3. ASSUME NEW r \in Requests, VersionedLookup(r) PROVE LimitPassed'
  BY <1>0, <1>1, <1>3 DEF VersionedLookup, Goto, Finish, Return, environment, local
<1>4. ASSUME NEW r \in Requests, Resolve(r) \/ Fetch(r) PROVE LimitPassed'
  <2>1. CASE Resolve(r)
    BY <1>0, <1>1, <2>1 DEF Resolve, Goto, Finish, Return, environment
  <2>2. CASE Fetch(r)
    BY <1>0, <1>1, <2>2 DEF Fetch, Goto, Finish, Return, environment
  <2>. QED  BY <1>4, <2>1, <2>2
<1>5. ASSUME NEW r \in Requests, Inspect(r) PROVE LimitPassed'
  <2>1. /\ PixelsOf[req[r].src][bytes[r]] \in Int /\ pixels \in Int
    BY PixelsAssumption, PipelineAssumption DEF TypeOK, RequestType
  <2>2. UNCHANGED <<req, pixels>>
    BY <1>5 DEF Inspect, environment
  <2>3. ASSUME NEW a, Finish(r, a) PROVE LimitPassed'
    BY <1>0, <1>1, <2>2, <2>3 DEF Finish, Return
  <2>4. CASE /\ ~(PixelsOf[req[r].src][bytes[r]] > pixels)
             /\ Goto(r, "cached") /\ UNCHANGED bytes
    BY <1>0, <2>1, <2>2, <2>4 DEF LimitPassed, Goto
  <2>. QED  BY <1>5, <2>3, <2>4 DEF Inspect
<1>6. ASSUME NEW r \in Requests, CacheLookup(r) PROVE LimitPassed'
  BY <1>0, <1>1, <1>6 DEF CacheLookup, Goto, Finish, Return, environment, local
<1>7. ASSUME NEW r \in Requests, FetchAdd(r) \/ Refuse(r) PROVE LimitPassed'
  BY <1>0, <1>1, <1>7 DEF FetchAdd, Refuse, Goto, Finish, Return, environment, local
<1>8. ASSUME NEW r \in Requests, Watermark(r) \/ Transform(r) \/ Put(r) PROVE LimitPassed'
  <2>1. CASE Watermark(r)
    BY <1>0, <1>1, <2>1 DEF Watermark, Goto, environment
  <2>2. CASE Transform(r) \/ Put(r)
    BY <1>0, <1>1, <2>2 DEF Transform, Put, Goto, environment
  <2>. QED  BY <1>8, <2>1, <2>2
<1>9. ASSUME NEW r \in Requests, Release(r) \/ Panic(r) PROVE LimitPassed'
  BY <1>0, <1>1, <1>9 DEF Release, Panic, Goto, Finish, Return, environment
<1>10. ASSUME NEW i \in Sources, Replace(i) \/ ForgetOrigin(i) PROVE LimitPassed'
  BY <1>10 DEF Replace, ForgetOrigin, LimitPassed, local, environment
<1>11. ASSUME NEW k \in Keys, Forget(k) PROVE LimitPassed'
  BY <1>11 DEF Forget, LimitPassed, local, environment
<1>12. CASE Restart
  BY <1>12 DEF Restart, In, LimitPassed, Active
<1>13. CASE UNCHANGED vars
  BY <1>13 DEF vars, LimitPassed
<1>. QED  BY <1>2, <1>3, <1>4, <1>5, <1>6, <1>7, <1>8, <1>9, <1>10, <1>11, <1>12, <1>13
          DEF Next, Step

\* A lowered pixel limit applies to the image every answer of the new process
\* was made from, from the cache too, but for a version answered from the cache.
THEOREM LimitApplies == Spec => PolicyApplied
<1>. DEFINE Holds(q) ==
       \/ PixelsOf[req[q].src][out'[q].gen] <= pixels
       \/ /\ req[q].version # 0 /\ answer'[q] = "hit"
          /\ pc[q] = "lookup" \/ PixelsOf[req[q].src][bytes[q]] <= pixels
     Applied ==
       \A r \in Requests :
         pc[r] \in Active /\ answer[r] = "none" /\ answer'[r] \in ImageAnswers => Holds(r)
<1>1. ASSUME TypeInv, AnswerInv, LimitPassed, [Next]_vars PROVE [Applied]_vars
  <2>. SUFFICES ASSUME Next, NEW q \in Requests,
                       pc[q] \in Active, answer[q] = "none", answer'[q] \in ImageAnswers
                PROVE  Holds(q)
    BY <1>1
  <2>0. answer \in [Requests -> Answers] /\ out \in [Requests -> Bodies \cup {NoBody}]
    BY <1>1 DEF TypeInv, TypeOK
  <2>1. ASSUME NEW r \in Requests, Arrive(r) \/ Step(r) PROVE Holds(q)
    <3>1. CASE VersionedLookup(r)
      BY <2>0, <3>1 DEF VersionedLookup, Finish, Return, local, ImageAnswers
    <3>2. CASE CacheLookup(r)
      <4>1. q = r /\ pc[r] = "cached"
        BY <2>0, <3>2 DEF CacheLookup, Finish, Return, local, ImageAnswers
      <4>2. /\ CacheOn /\ store[CacheKey(r)] # NoBody /\ answer'[r] = "hit"
            /\ out'[r] = store[CacheKey(r)]
        BY <2>0, <3>2, <4>1 DEF CacheLookup, Finish, Return, local, ImageAnswers
      <4>3. PixelsOf[req[r].src][bytes[r]] <= pixels
        BY <1>1, <4>1 DEF LimitPassed, Checked
      <4>4. CASE req[r].version # 0
        BY <4>1, <4>2, <4>3, <4>4
      <4>5. CASE req[r].version = 0
        <5>1. Belongs(CacheKey(r), store[CacheKey(r)])
          BY <1>1, <4>1, <4>2, CacheKeyType DEF AnswerInv, StoreCoherent, Settled
        <5>2. store[CacheKey(r)].gen = bytes[r]
          BY <4>5, <5>1 DEF Belongs, CacheKey
        <5>. QED  BY <4>1, <4>2, <4>3, <5>2
      <4>. QED  BY <4>4, <4>5
    <3>3. CASE Put(r)
      <4>1. q = r /\ pc[r] = "store" /\ out' = out
        BY <2>0, <3>3 DEF Put, ImageAnswers
      <4>2. PixelsOf[req[r].src][bytes[r]] <= pixels
        BY <1>1, <4>1 DEF LimitPassed, Checked, Counted, Holding
      <4>3. out[r].gen = bytes[r]
        <5>1. out[r] = [src |-> req[r].src, gen |-> bytes[r], format |-> fmt[r], wm |-> req[r].wm]
          BY ONLY <1>1, <4>1, r \in Requests DEF AnswerInv, OutputRight
        <5>. QED  BY ONLY <5>1
      <4>. QED  BY <4>1, <4>2, <4>3
    <3>4. CASE Arrive(r) \/ Resolve(r) \/ Fetch(r) \/ Fill(r) \/ Inspect(r) \/ FetchAdd(r)
               \/ Refuse(r) \/ Watermark(r) \/ Transform(r) \/ Release(r) \/ Panic(r)
      <4>1. answer'[q] \in {answer[q], "source_error", "unreadable", "not_acceptable", "too_large",
                            "unavailable", "bad_watermark", "watermark_error", "transform_error",
                            "dropped"}
        <5>1. CASE Arrive(r) \/ FetchAdd(r) \/ Release(r) \/ Fill(r)
          BY <5>1 DEF Arrive, FetchAdd, Release, Fill, local
        <5>2. CASE Resolve(r) \/ Fetch(r) \/ Inspect(r) \/ Refuse(r)
          BY <2>0, <5>2 DEF Resolve, Fetch, Inspect, Refuse, Finish
        <5>3. CASE Watermark(r) \/ Transform(r) \/ Panic(r)
          BY <2>0, <5>3 DEF Watermark, Transform, Panic, Finish
        <5>. QED  BY <3>4, <5>1, <5>2, <5>3
      <4>. QED  BY <4>1 DEF ImageAnswers
    <3>. QED  BY <2>1, <3>1, <3>2, <3>3, <3>4 DEF Step
  <2>2. ASSUME NEW i \in Sources, Replace(i) \/ ForgetOrigin(i) PROVE FALSE
    BY <2>2 DEF Replace, ForgetOrigin, local, ImageAnswers
  <2>3. ASSUME NEW k \in Keys, Forget(k) PROVE FALSE
    BY <2>3 DEF Forget, local, ImageAnswers
  <2>4. CASE Restart
    BY <2>4 DEF Restart, In, ImageAnswers
  <2>. QED  BY <2>1, <2>2, <2>3, <2>4 DEF Next
<1>. HIDE DEF Applied
<1>2. Spec => [][Applied]_vars
  <2>1. TypeInv /\ SlotInv /\ AnswerInv /\ LimitPassed /\ [Next]_vars => LimitPassed' /\ [Applied]_vars
    BY <1>1, LimitStep DEF TypeInv
  <2>. QED  BY <2>1, LimitInit, AnswerAlways, PTL DEF Spec
<1>. QED  BY <1>2 DEF PolicyApplied, Applied
=============================================================================
