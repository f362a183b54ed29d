------------------------- MODULE SourceFetchProofs -------------------------
(***************************************************************************)
(* The invariants of SourceFetch for any workers, URLs, sizes, limits and  *)
(* answers of the name service.                                            *)
(***************************************************************************)
EXTENDS SourceFetch, TLAPS

\* Every address of a resolution is one the URL may reach.
AllAllowed(u, addrs) == addrs # {} /\ \A a \in addrs : Allowed(u, a)

\* The steps of a remote fetch after its own URL was validated
Vetted == {"vetted", "lookup", "prepare", "connect", "sent", "put"}

\* What a call knows of itself at each step: its arguments, ...
CallInv(t) ==
  /\ pc[t] # "idle" => call[t] \in Calls /\ out[t] = None
  /\ out[t] # None => call[t] \in Calls
  /\ pc[t] \in Vetted \cup {"vet"} => call[t] \in Spaces \X Urls /\ hop[t].at \in Urls
  /\ pc[t] \in {"path", "read"} => Kind(t) = "path"
  /\ pc[t] = "object" => Kind(t) = "object"
  /\ pc[t] = "vet" => hop[t].at = Name(t)
  /\ pc[t] = "read" => statted[t] \in Sizes /\ statted[t] <= limit

\* ... that its own URL was validated, and the present hop as well, and that
\* what it fetched itself came from where the settings allow, ...
PolicyInv(t) ==
  /\ pc[t] \in Vetted => AllAllowed(Name(t), vetted[t])
  /\ out[t] = "ok" /\ Kind(t) \in Spaces => AllAllowed(Name(t), vetted[t])
  /\ pc[t] = "connect" => AllAllowed(hop[t].at, hop[t].pinned)
  /\ pc[t] \in {"sent", "put"} => Allowed(hop[t].at, hop[t].peer)
  /\ pc[t] = "put" \/ (out[t] = "ok" /\ Kind(t) \in Spaces) =>
       body[t] = None \/ Allowed(body[t].url, body[t].addr)

\* ... how many requests it sent, ...
BudgetInv(t) ==
  /\ pc[t] \in {"vet", "vetted", "lookup"} => sent[t] = 0 /\ hop[t].index = 0
  /\ pc[t] \in {"prepare", "connect"} => sent[t] = hop[t].index
  /\ pc[t] \in {"sent", "put"} => sent[t] = hop[t].index + 1
  /\ pc[t] \in {"path", "read", "object"} => sent[t] = 0
  /\ sent[t] <= MaxRedirects + 1
  /\ out[t] = "too_many" => sent[t] = MaxRedirects + 1

\* ... and that the bytes it has are whole and within its limit.
BytesInv(t) ==
  /\ pc[t] \in {"vet", "vetted", "lookup", "prepare", "connect", "sent", "path", "read", "object"}
       => body[t] = None
  /\ pc[t] = "put" => body[t] \in Bodies /\ body[t].whole /\ body[t].size <= MaxBytes(t)
  /\ out[t] = "ok" => /\ Bytes(t) \in Bodies /\ Bytes(t).whole
                      /\ Bytes(t).size <= MaxBytes(t) \/ (Kind(t) = "path" /\ moved[t])

\* Only whole bodies are in the cache, or on their way out of it.
CacheInv ==
  /\ \A k \in Spaces \X Urls : store[k] # None => store[k].whole
  /\ \A t \in Threads : (seen[t] # None => seen[t].whole) /\ (reply[t] # None => reply[t].whole)

Inv ==
  /\ TypeOK
  /\ CacheInv
  /\ \A t \in Threads : CallInv(t) /\ PolicyInv(t) /\ BudgetInv(t) /\ BytesInv(t)

\* What validate_remote_url lets through is what the settings allow.
LEMMA FineIsAllowed ==
  ASSUME insecure \in BOOLEAN, NEW u \in Urls, NEW addrs \in SUBSET Addrs,
         Verdict(u, addrs) = "fine"
  PROVE  AllAllowed(u, addrs)
BY SourceFetchAssumption DEF Verdict, AllAllowed, Allowed, Addrs

\* What it refuses ends the call as one of three error responses.
LEMMA RefusedIsError ==
  ASSUME insecure \in BOOLEAN, NEW u \in Urls, NEW addrs \in SUBSET Addrs,
         Verdict(u, addrs) # "fine"
  PROVE  Verdict(u, addrs) \in {"bad_request", "forbidden", "bad_gateway"}
BY SourceFetchAssumption DEF Verdict, Addrs

\* The states of the redirect loop have their type.
LEMMA HopTypes ==
  ASSUME NEW u \in Urls \cup {None}, NEW i \in 0..MaxRedirects, NEW addrs \in SUBSET Addrs,
         NEW a \in Addrs \cup {None}
  PROVE  Hop(u, i, addrs, a) \in Hops
BY DEF Hops, Hop

\* Outside a remote fetch the loop has its first state.
LEMMA NoHopType == NoHop \in Hops
BY SourceFetchAssumption, HopTypes DEF NoHop

\* The invariant holds at the start of the process.
LEMMA InitInv == Init => Inv
<1> SUFFICES ASSUME Init PROVE Inv
  OBVIOUS
<1> USE DEF Init, OriginCache!Init
<1>1. TypeOK
  BY SourceFetchAssumption, NoHopType DEF TypeOK
<1>2. CacheInv
  BY DEF CacheInv
<1>3. ASSUME NEW t \in Threads PROVE CallInv(t) /\ PolicyInv(t) /\ BudgetInv(t) /\ BytesInv(t)
  BY SourceFetchAssumption, NoneAssumption
     DEF Outcomes, CallInv, PolicyInv, BudgetInv, BytesInv, Vetted, NoHop, Hop
<1> QED
  BY <1>1, <1>2, <1>3 DEF Inv

\* A body is kept when it fits the limit, and then all of it was read.
LEMMA TakenFits ==
  ASSUME NEW n \in Nat, NEW max \in Nat, NEW h
  PROVE  /\ Taken(n, max, h).size > max <=> n > max
         /\ n <= max =>
              Taken(n, max, h) = [size |-> n, whole |-> TRUE, url |-> h.at, addr |-> h.peer]
<1>1. Taken(n, max, h).size > max <=> n > max
  BY DEF Taken
<1>2. ASSUME n <= max
      PROVE  Taken(n, max, h) = [size |-> n, whole |-> TRUE, url |-> h.at, addr |-> h.peer]
  <2>1. (n <= max) = TRUE
    BY <1>2
  <2>2. (IF n > max THEN max + 1 ELSE n) = n
    BY <1>2
  <2> QED
    BY <2>1, <2>2, Zenon DEF Taken
<1> QED
  BY <1>1, <1>2

\* A function to BOOLEAN stays one when one of its values is replaced.
LEMMA FlagSet ==
  ASSUME NEW S, NEW f \in [S -> BOOLEAN], NEW t \in S, NEW v \in BOOLEAN
  PROVE  /\ [f EXCEPT ![t] = v] \in [S -> BOOLEAN]
         /\ [f EXCEPT ![t] = v][t] = v
         /\ \A s \in S : s # t => [f EXCEPT ![t] = v][s] = f[s]
BY Zenon

\* Every limit is a number.
LEMMA MaxBytesType == ASSUME TypeOK, NEW t \in Threads PROVE MaxBytes(t) \in Nat
BY SourceFetchAssumption DEF TypeOK, MaxBytes

\* A step that leaves alone what belongs to a thread, and the settings, leaves
\* alone what the invariant says of that thread.
LEMMA Others ==
  ASSUME Inv, NEW s \in Threads, UNCHANGED <<insecure, limit>>,
         pc'[s] = pc[s], call'[s] = call[s], hop'[s] = hop[s], statted'[s] = statted[s],
         body'[s] = body[s], out'[s] = out[s], reply'[s] = reply[s],
         vetted'[s] = vetted[s], sent'[s] = sent[s], moved'[s] = moved[s]
  PROVE  CallInv(s)' /\ PolicyInv(s)' /\ BudgetInv(s)' /\ BytesInv(s)'
<1>1. CallInv(s)'
  BY DEF Inv, CallInv, Kind, Name
<1>2. PolicyInv(s)'
  BY DEF Inv, PolicyInv, AllAllowed, Allowed, Kind, Name
<1>3. BudgetInv(s)'
  BY DEF Inv, BudgetInv
<1>4. BytesInv(s)'
  BY DEF Inv, BytesInv, Bytes, MaxBytes, Kind
<1> QED
  BY <1>1, <1>2, <1>3, <1>4

\* Every step of the specification keeps the invariant, action by action.
LEMMA StepInv == Inv /\ [Next]_vars => Inv'
<1> SUFFICES ASSUME Inv, [Next]_vars PROVE Inv'
  OBVIOUS
<1> USE SourceFetchAssumption, NoneAssumption DEF Inv, Goto, Return, config, cache, history
<1>1. ASSUME NEW t \in Threads, NEW c \in Asked, Begin(t, c) PROVE Inv'
  <2> USE <1>1 DEF Begin
  <2> DEFINE u == IF c[1] \in Spaces THEN c[2] ELSE None
  <2>d. c \in Calls
    BY AskedAssumption
  <2>a. u \in Urls \cup {None} /\ Hop(u, 0, {}, None) \in Hops
    BY <2>d, HopTypes DEF Calls, Spaces
  <2>b. hop' = [hop EXCEPT ![t] = Hop(u, 0, {}, None)]
    OBVIOUS
  <2>c. ASSUME NEW s \in Threads, s # t
        PROVE  /\ pc'[s] = pc[s] /\ call'[s] = call[s] /\ hop'[s] = hop[s]
               /\ statted'[s] = statted[s] /\ body'[s] = body[s] /\ out'[s] = out[s]
               /\ reply'[s] = reply[s] /\ vetted'[s] = vetted[s] /\ sent'[s] = sent[s]
               /\ moved'[s] = moved[s] /\ UNCHANGED <<insecure, limit>>
    BY <2>b, <2>c DEF TypeOK
  <2> HIDE DEF u
  <2>1. TypeOK'
    BY <2>a, <2>b, <2>d DEF TypeOK, Outcomes
  <2>2. CacheInv'
    BY DEF CacheInv, TypeOK
  <2>3. ASSUME NEW s \in Threads, s # t
        PROVE  CallInv(s)' /\ PolicyInv(s)' /\ BudgetInv(s)' /\ BytesInv(s)'
    BY <2>3, <2>c, Others
  <2>4. CallInv(t)'
    BY <2>b, <2>d DEF CallInv, TypeOK, Vetted, Kind, Name, Outcomes, Calls, Spaces, Hop, u
  <2>5. PolicyInv(t)'
    BY DEF PolicyInv, CallInv, TypeOK, Vetted, Outcomes, Kind, Name
  <2>6. BudgetInv(t)'
    BY <2>b DEF BudgetInv, TypeOK, Outcomes, Hop
  <2>7. BytesInv(t)'
    BY DEF BytesInv, CallInv, TypeOK, Outcomes, Bytes
  <2> QED
    BY <2>1, <2>2, <2>3, <2>4, <2>5, <2>6, <2>7
<1>2. ASSUME NEW t \in Threads, NEW addrs \in Resolutions, Vet(t, addrs) PROVE Inv'
  <2> USE <1>2 DEF Vet
  <2>a. addrs \in SUBSET Addrs /\ hop[t].at \in Urls /\ insecure \in BOOLEAN
    BY DEF TypeOK, CallInv, Vetted, Addrs
  <2>b. \/ /\ pc' = [pc EXCEPT ![t] = "vetted"] /\ out' = out /\ hop' = hop
           /\ AllAllowed(hop[t].at, addrs)
        \/ \E r \in {"bad_request", "forbidden", "bad_gateway"} : Return(t, r)
    BY <2>a, FineIsAllowed, RefusedIsError
  <2>1. TypeOK'
    BY <2>a, <2>b, NoHopType DEF TypeOK, Outcomes
  <2>2. CacheInv'
    BY <2>a, <2>b DEF CacheInv, TypeOK
  <2>3. ASSUME NEW s \in Threads, s # t
        PROVE  CallInv(s)' /\ PolicyInv(s)' /\ BudgetInv(s)' /\ BytesInv(s)'
    BY <2>3, Others DEF TypeOK
  <2>4. CallInv(t)'
    BY <2>a, <2>b DEF CallInv, TypeOK, Vetted, Kind, Name, Outcomes
  <2>5. PolicyInv(t)'
    BY <2>a, <2>b DEF PolicyInv, CallInv, TypeOK, Vetted, Outcomes, Kind, Name, AllAllowed, Allowed
  <2>6. BudgetInv(t)'
    BY <2>a, <2>b DEF BudgetInv, TypeOK, Outcomes, NoHop, Hop
  <2>7. BytesInv(t)'
    BY <2>a, <2>b DEF BytesInv, CallInv, TypeOK, Outcomes, Bytes
  <2> QED
    BY <2>1, <2>2, <2>3, <2>4, <2>5, <2>6, <2>7
<1>3. ASSUME NEW t \in Threads, Lookup(t) PROVE Inv'
  <2> USE <1>3 DEF Lookup, OriginCache!Look
  <2>1. TypeOK'
    BY DEF TypeOK, Outcomes, CallInv, Vetted
  <2>2. CacheInv'
    BY DEF CacheInv, TypeOK, CallInv, Vetted
  <2>3. ASSUME NEW s \in Threads, s # t
        PROVE  CallInv(s)' /\ PolicyInv(s)' /\ BudgetInv(s)' /\ BytesInv(s)'
    BY <2>3, Others DEF TypeOK
  <2>4. CallInv(t)'
    BY DEF CallInv, TypeOK, Vetted, Kind, Name, Outcomes
  <2>5. PolicyInv(t)'
    BY DEF PolicyInv, CallInv, TypeOK, Vetted, Outcomes, Kind, Name, AllAllowed, Allowed
  <2>6. BudgetInv(t)'
    BY DEF BudgetInv, TypeOK, Outcomes
  <2>7. BytesInv(t)'
    BY DEF BytesInv, CallInv, TypeOK, Outcomes, Bytes
  <2> QED
    BY <2>1, <2>2, <2>3, <2>4, <2>5, <2>6, <2>7
<1>4. ASSUME NEW t \in Threads, LookupEnds(t) PROVE Inv'
  <2> USE <1>4 DEF LookupEnds, OriginCache!Answer
  <2>a. seen' \in [Threads -> Bodies \cup {None}] /\ reply' \in [Threads -> Bodies \cup {None}]
    BY DEF TypeOK
  <2>b. \/ pc'[t] = "prepare" /\ out' = out /\ hop' = hop
        \/ /\ pc'[t] = "idle" /\ hop' = [hop EXCEPT ![t] = NoHop]
           /\ out' = [out EXCEPT ![t] = out'[t]] /\ out'[t] \in {"ok", "too_large"}
    BY DEF TypeOK
  <2>1. TypeOK'
    BY NoHopType, <2>a, <2>b DEF TypeOK, Outcomes
  <2>2. CacheInv'
    BY DEF CacheInv, TypeOK
  <2>3. ASSUME NEW s \in Threads, s # t
        PROVE  CallInv(s)' /\ PolicyInv(s)' /\ BudgetInv(s)' /\ BytesInv(s)'
    BY <2>3, Others DEF TypeOK
  <2>4. CallInv(t)'
    BY DEF CallInv, TypeOK, Vetted, Kind, Name, Outcomes
  <2>5. PolicyInv(t)'
    BY DEF PolicyInv, CallInv, BytesInv, TypeOK, Vetted, Outcomes, Kind, Name, AllAllowed, Allowed
  <2>6. BudgetInv(t)'
    BY DEF BudgetInv, TypeOK, Outcomes, NoHop, Hop
  <2>7. BytesInv(t)'
    BY DEF BytesInv, CallInv, TypeOK, Outcomes, Bytes, CacheInv, MaxBytes, Kind, Bodies
  <2> QED
    BY <2>1, <2>2, <2>3, <2>4, <2>5, <2>6, <2>7
<1>5. ASSUME NEW t \in Threads, NEW addrs \in Resolutions, Prepare(t, addrs) PROVE Inv'
  <2> USE <1>5 DEF Prepare
  <2>a. addrs \in SUBSET Addrs /\ hop[t].at \in Urls /\ insecure \in BOOLEAN
    BY DEF TypeOK, CallInv, Vetted, Addrs
  <2>b. \/ /\ pc' = [pc EXCEPT ![t] = "connect"] /\ out' = out /\ AllAllowed(hop[t].at, addrs)
           /\ hop' = [hop EXCEPT ![t] = Hop(hop[t].at, hop[t].index, addrs, None)]
        \/ \E r \in {"bad_request", "forbidden", "bad_gateway"} : Return(t, r)
    BY <2>a, FineIsAllowed, RefusedIsError
  <2>c. Hop(hop[t].at, hop[t].index, addrs, None) \in Hops /\ NoHop \in Hops
    BY <2>a, NoHopType, HopTypes DEF TypeOK, Hops
  <2>1. TypeOK'
    BY <2>a, <2>b, <2>c DEF TypeOK, Outcomes
  <2>2. CacheInv'
    BY <2>a, <2>b DEF CacheInv, TypeOK
  <2>3. ASSUME NEW s \in Threads, s # t
        PROVE  CallInv(s)' /\ PolicyInv(s)' /\ BudgetInv(s)' /\ BytesInv(s)'
    BY <2>3, Others DEF TypeOK
  <2>4. CallInv(t)'
    BY <2>a, <2>b DEF CallInv, TypeOK, Vetted, Kind, Name, Outcomes, Hop
  <2>5. PolicyInv(t)'
    BY <2>a, <2>b DEF PolicyInv, CallInv, TypeOK, Vetted, Outcomes, Kind, Name, AllAllowed, Allowed, Hop
  <2>6. BudgetInv(t)'
    BY <2>a, <2>b DEF BudgetInv, TypeOK, Outcomes, Hop, NoHop
  <2>7. BytesInv(t)'
    BY <2>a, <2>b DEF BytesInv, CallInv, TypeOK, Outcomes, Bytes
  <2> QED
    BY <2>1, <2>2, <2>3, <2>4, <2>5, <2>6, <2>7
<1>6. ASSUME NEW t \in Threads, Connect(t) PROVE Inv'
  <2> USE <1>6 DEF Connect
  <2>a. hop[t] \in Hops /\ hop[t].at \in Urls /\ hop[t].pinned \subseteq Addrs
    BY DEF TypeOK, CallInv, Vetted, Hops
  <2>b. NoHop \in Hops /\ \A a \in hop[t].pinned : Hop(hop[t].at, hop[t].index, hop[t].pinned, a) \in Hops
    BY <2>a, NoHopType, HopTypes DEF Hops
  <2>1. TypeOK'
    BY <2>a, <2>b DEF TypeOK, Outcomes
  <2>2. CacheInv'
    BY <2>a DEF CacheInv, TypeOK
  <2>3. ASSUME NEW s \in Threads, s # t
        PROVE  CallInv(s)' /\ PolicyInv(s)' /\ BudgetInv(s)' /\ BytesInv(s)'
    BY <2>3, Others DEF TypeOK
  <2>4. CallInv(t)'
    BY <2>a DEF CallInv, TypeOK, Vetted, Kind, Name, Outcomes, Hop
  <2>5. PolicyInv(t)'
    BY <2>a DEF PolicyInv, CallInv, TypeOK, Vetted, Outcomes, Kind, Name, AllAllowed, Allowed, Hop
  <2>6. BudgetInv(t)'
    BY <2>a DEF BudgetInv, TypeOK, Outcomes, Hop, NoHop, Hops
  <2>7. BytesInv(t)'
    BY <2>a DEF BytesInv, CallInv, TypeOK, Outcomes, Bytes
  <2> QED
    BY <2>1, <2>2, <2>3, <2>4, <2>5, <2>6, <2>7
<1>7. ASSUME NEW t \in Threads, NEW u \in Urls \cup {None}, Redirect(t, u) PROVE Inv'
  <2> USE <1>7 DEF Redirect
  <2>a. hop[t].index \in 0..MaxRedirects /\ NoHop \in Hops
    BY NoHopType DEF TypeOK, Hops
  <2>b. hop[t].index # MaxRedirects => Hop(u, hop[t].index + 1, {}, None) \in Hops
    BY <2>a, HopTypes
  <2>1. TypeOK'
    BY <2>a, <2>b DEF TypeOK, Outcomes
  <2>2. CacheInv'
    BY <2>a DEF CacheInv, TypeOK
  <2>3. ASSUME NEW s \in Threads, s # t
        PROVE  CallInv(s)' /\ PolicyInv(s)' /\ BudgetInv(s)' /\ BytesInv(s)'
    BY <2>3, Others DEF TypeOK
  <2>4. CallInv(t)'
    BY <2>a DEF CallInv, TypeOK, Vetted, Kind, Name, Outcomes, Hop
  <2>5. PolicyInv(t)'
    BY <2>a DEF PolicyInv, CallInv, TypeOK, Vetted, Outcomes, Kind, Name, AllAllowed, Allowed
  <2>6. BudgetInv(t)'
    BY <2>a DEF BudgetInv, TypeOK, Outcomes, Hop, NoHop
  <2>7. BytesInv(t)'
    BY <2>a DEF BytesInv, CallInv, TypeOK, Outcomes, Bytes
  <2> QED
    BY <2>1, <2>2, <2>3, <2>4, <2>5, <2>6, <2>7
<1>8. ASSUME NEW t \in Threads, NEW n \in Sizes, ReadBody(t, n) PROVE Inv'
  <2> USE <1>8 DEF ReadBody
  <2> DEFINE b == [size |-> n, whole |-> TRUE, url |-> hop[t].at, addr |-> hop[t].peer]
  <2>a. n \in Nat /\ MaxBytes(t) \in Nat /\ NoHop \in Hops
    BY MaxBytesType, NoHopType
  <2>t. /\ Taken(n, MaxBytes(t), hop[t]).size > MaxBytes(t) <=> n > MaxBytes(t)
        /\ n <= MaxBytes(t) => Taken(n, MaxBytes(t), hop[t]) = b
    BY <2>a, TakenFits
  <2> HIDE DEF b
  <2>b. \/ /\ pc' = [pc EXCEPT ![t] = "idle"] /\ hop' = [hop EXCEPT ![t] = NoHop]
           /\ out' = [out EXCEPT ![t] = "too_large"] /\ body' = body
        \/ /\ n <= MaxBytes(t) /\ body' = [body EXCEPT ![t] = b]
           /\ pc' = [pc EXCEPT ![t] = "put"] /\ UNCHANGED <<hop, out>>
    BY <2>a, <2>t
  <2>c. b \in Bodies /\ b.size = n /\ b.whole /\ b.url = hop[t].at /\ b.addr = hop[t].peer
    BY DEF b, Bodies, TypeOK, Hops
  <2>d. UNCHANGED <<insecure, limit, store, seen, reply, call, statted, vetted, sent, moved>>
    OBVIOUS
  <2>e. MaxBytes(t)' = MaxBytes(t) /\ Kind(t)' = Kind(t) /\ Name(t)' = Name(t)
    BY <2>d DEF MaxBytes, Kind, Name
  <2>f. pc[t] = "sent"
    OBVIOUS
  <2> HIDE DEF ReadBody
  <2> HIDE <1>8
  <2>1. TypeOK'
    BY <2>a, <2>b, <2>c, <2>d, <2>e, <2>f DEF TypeOK, Outcomes
  <2>2. CacheInv'
    BY <2>a, <2>b, <2>c, <2>d, <2>e, <2>f DEF CacheInv, TypeOK
  <2>3. ASSUME NEW s \in Threads, s # t
        PROVE  CallInv(s)' /\ PolicyInv(s)' /\ BudgetInv(s)' /\ BytesInv(s)'
    BY <2>b, <2>d, <2>3, Others DEF TypeOK
  <2>4. CallInv(t)'
    BY <2>a, <2>b, <2>c, <2>d, <2>e, <2>f DEF CallInv, TypeOK, Vetted, Kind, Name, Outcomes
  <2>5. PolicyInv(t)'
    BY <2>a, <2>b, <2>c, <2>d, <2>e, <2>f
       DEF PolicyInv, CallInv, TypeOK, Vetted, Outcomes, Kind, Name, AllAllowed, Allowed, Spaces
  <2>6. BudgetInv(t)'
    BY <2>a, <2>b, <2>c, <2>d, <2>e, <2>f DEF BudgetInv, TypeOK, Outcomes, NoHop, Hop
  <2>7. BytesInv(t)'
    BY <2>a, <2>b, <2>c, <2>d, <2>e, <2>f DEF BytesInv, CallInv, TypeOK, Outcomes, Bytes, Bodies
  <2> QED
    BY <2>1, <2>2, <2>3, <2>4, <2>5, <2>6, <2>7
<1>9. ASSUME NEW t \in Threads, FetchFails(t) PROVE Inv'
  <2> USE <1>9 DEF FetchFails
  <2>1. TypeOK'
    BY NoHopType DEF TypeOK, Outcomes
  <2>2. CacheInv'
    BY DEF CacheInv, TypeOK
  <2>3. ASSUME NEW s \in Threads, s # t
        PROVE  CallInv(s)' /\ PolicyInv(s)' /\ BudgetInv(s)' /\ BytesInv(s)'
    BY <2>3, Others DEF TypeOK
  <2>4. CallInv(t)'
    BY DEF CallInv, TypeOK, Vetted, Kind, Name, Outcomes
  <2>5. PolicyInv(t)'
    BY DEF PolicyInv, CallInv, TypeOK, Vetted, Outcomes, Kind, Name, AllAllowed, Allowed
  <2>6. BudgetInv(t)'
    BY DEF BudgetInv, TypeOK, Outcomes, NoHop, Hop
  <2>7. BytesInv(t)'
    BY DEF BytesInv, CallInv, TypeOK, Outcomes, Bytes
  <2> QED
    BY <2>1, <2>2, <2>3, <2>4, <2>5, <2>6, <2>7
<1>10. ASSUME NEW t \in Threads, Put(t) PROVE Inv'
  <2> USE <1>10 DEF Put, OriginCache!Put
  <2>1. TypeOK'
    BY NoHopType DEF TypeOK, Outcomes, BytesInv, CallInv, Vetted
  <2>2. CacheInv'
    BY DEF CacheInv, TypeOK, BytesInv, CallInv, Vetted
  <2>3. ASSUME NEW s \in Threads, s # t
        PROVE  CallInv(s)' /\ PolicyInv(s)' /\ BudgetInv(s)' /\ BytesInv(s)'
    BY <2>3, Others DEF TypeOK
  <2>4. CallInv(t)'
    BY DEF CallInv, TypeOK, Vetted, Kind, Name, Outcomes
  <2>5. PolicyInv(t)'
    BY DEF PolicyInv, CallInv, TypeOK, Vetted, Outcomes, Kind, Name, AllAllowed, Allowed
  <2>6. BudgetInv(t)'
    BY DEF BudgetInv, TypeOK, Outcomes, NoHop, Hop
  <2>7. BytesInv(t)'
    BY DEF BytesInv, CallInv, TypeOK, Outcomes, Bytes, MaxBytes, Kind
  <2> QED
    BY <2>1, <2>2, <2>3, <2>4, <2>5, <2>6, <2>7
<1>11. ASSUME NEW t \in Threads, NEW n \in Sizes, PathStat(t, n) PROVE Inv'
  <2> USE <1>11 DEF PathStat
  <2>1. TypeOK'
    BY NoHopType DEF TypeOK, Outcomes
  <2>2. CacheInv'
    BY DEF CacheInv, TypeOK
  <2>3. ASSUME NEW s \in Threads, s # t
        PROVE  CallInv(s)' /\ PolicyInv(s)' /\ BudgetInv(s)' /\ BytesInv(s)'
    BY <2>3, Others DEF TypeOK
  <2>4. CallInv(t)'
    BY DEF CallInv, TypeOK, Vetted, Kind, Name, Outcomes
  <2>5. PolicyInv(t)'
    BY DEF PolicyInv, CallInv, TypeOK, Vetted, Outcomes, Kind, Name, AllAllowed, Allowed, Spaces
  <2>6. BudgetInv(t)'
    BY DEF BudgetInv, TypeOK, Outcomes, NoHop, Hop
  <2>7. BytesInv(t)'
    BY DEF BytesInv, CallInv, TypeOK, Outcomes, Bytes, MaxBytes, Kind
  <2> QED
    BY <2>1, <2>2, <2>3, <2>4, <2>5, <2>6, <2>7
<1>12. ASSUME NEW t \in Threads, NEW n \in Sizes, PathRead(t, n) PROVE Inv'
  <2> USE <1>12 DEF PathRead
  <2> DEFINE b == [size |-> n, whole |-> TRUE, url |-> None, addr |-> None]
  <2>a. b \in Bodies /\ b.size = n /\ b.whole
    BY DEF Bodies
  <2>g. /\ body' = [body EXCEPT ![t] = b]
        /\ pc[t] = "read" /\ pc' = [pc EXCEPT ![t] = "idle"]
        /\ hop' = [hop EXCEPT ![t] = NoHop] /\ out' = [out EXCEPT ![t] = "ok"]
        /\ UNCHANGED <<insecure, limit, store, seen, reply, call, statted, vetted, sent>>
    OBVIOUS
  <2>m. /\ moved' \in [Threads -> BOOLEAN] /\ moved'[t] = (n # statted[t])
        /\ \A s \in Threads : s # t => moved'[s] = moved[s]
    BY FlagSet DEF TypeOK
  <2> HIDE DEF PathRead, b
  <2> HIDE <1>12
  <2>b. Kind(t)' = "path" /\ MaxBytes(t)' = limit
    BY <2>g DEF CallInv, Kind, MaxBytes, TypeOK
  <2>c. ASSUME n = statted[t] PROVE body'[t].size <= MaxBytes(t)' \/ moved'[t]
    <3>1. body'[t].size <= MaxBytes(t)'
      BY <2>a, <2>b, <2>c, <2>g DEF CallInv, TypeOK
    <3> QED
      BY <3>1
  <2>d. ASSUME n # statted[t] PROVE body'[t].size <= MaxBytes(t)' \/ moved'[t]
    BY <2>d, <2>m, Zenon
  <2>e. body'[t].size <= MaxBytes(t)' \/ moved'[t]
    BY <2>c, <2>d
  <2>f. pc'[t] = "idle" /\ Bytes(t)' = body'[t]
    BY <2>a, <2>g DEF Bytes, TypeOK
  <2>1. TypeOK'
    BY <2>g, NoHopType, <2>a, <2>m DEF TypeOK, Outcomes
  <2>2. CacheInv'
    BY <2>g DEF CacheInv, TypeOK
  <2>3. ASSUME NEW s \in Threads, s # t
        PROVE  CallInv(s)' /\ PolicyInv(s)' /\ BudgetInv(s)' /\ BytesInv(s)'
    BY <2>g, <2>m, <2>3, Others DEF TypeOK
  <2>4. CallInv(t)'
    BY <2>g DEF CallInv, TypeOK, Vetted, Kind, Name, Outcomes
  <2>5. PolicyInv(t)'
    BY <2>g DEF PolicyInv, CallInv, TypeOK, Vetted, Outcomes, Kind, Name, AllAllowed, Allowed, Spaces
  <2>6. BudgetInv(t)'
    BY <2>g DEF BudgetInv, TypeOK, Outcomes, NoHop, Hop
  <2>7. BytesInv(t)'
    BY <2>g, <2>a, <2>b, <2>e, <2>f DEF BytesInv, CallInv, TypeOK, Outcomes, Bytes
  <2> QED
    BY <2>1, <2>2, <2>3, <2>4, <2>5, <2>6, <2>7
<1>13. ASSUME NEW t \in Threads, PathFails(t) PROVE Inv'
  <2> USE <1>13 DEF PathFails
  <2>1. TypeOK'
    BY NoHopType DEF TypeOK, Outcomes
  <2>2. CacheInv'
    BY DEF CacheInv, TypeOK
  <2>3. ASSUME NEW s \in Threads, s # t
        PROVE  CallInv(s)' /\ PolicyInv(s)' /\ BudgetInv(s)' /\ BytesInv(s)'
    BY <2>3, Others DEF TypeOK
  <2>4. CallInv(t)'
    BY DEF CallInv, TypeOK, Vetted, Kind, Name, Outcomes
  <2>5. PolicyInv(t)'
    BY DEF PolicyInv, CallInv, TypeOK, Vetted, Outcomes, Kind, Name, AllAllowed, Allowed, Spaces
  <2>6. BudgetInv(t)'
    BY DEF BudgetInv, TypeOK, Outcomes, NoHop, Hop
  <2>7. BytesInv(t)'
    BY DEF BytesInv, CallInv, TypeOK, Outcomes, Bytes
  <2> QED
    BY <2>1, <2>2, <2>3, <2>4, <2>5, <2>6, <2>7
<1>14. ASSUME NEW t \in Threads, NEW n \in Sizes, ObjectRead(t, n) PROVE Inv'
  <2> USE <1>14 DEF ObjectRead
  <2> DEFINE b == [size |-> n, whole |-> TRUE, url |-> None, addr |-> None]
  <2>a. n \in Nat /\ MaxBytes(t) \in Nat /\ NoHop \in Hops
    BY MaxBytesType, NoHopType
  <2>n. NoHop.at = None /\ NoHop.peer = None
    BY DEF NoHop, Hop
  <2>t. n <= MaxBytes(t) => Taken(n, MaxBytes(t), NoHop) = b
    BY ONLY <2>a, <2>n, TakenFits
  <2> HIDE DEF b
  <2>b. \/ /\ pc' = [pc EXCEPT ![t] = "idle"] /\ hop' = [hop EXCEPT ![t] = NoHop]
           /\ out' = [out EXCEPT ![t] = "too_large"] /\ body' = body
        \/ /\ n <= MaxBytes(t) /\ body' = [body EXCEPT ![t] = b]
           /\ pc' = [pc EXCEPT ![t] = "idle"] /\ hop' = [hop EXCEPT ![t] = NoHop]
           /\ out' = [out EXCEPT ![t] = "ok"]
    BY <2>a, <2>t
  <2>c. b \in Bodies /\ b.size = n /\ b.whole
    BY DEF b, Bodies
  <2>d. UNCHANGED <<insecure, limit, store, seen, reply, call, statted, vetted, sent, moved>>
    OBVIOUS
  <2>e. MaxBytes(t)' = MaxBytes(t) /\ Kind(t)' = Kind(t) /\ Name(t)' = Name(t)
    BY <2>d DEF MaxBytes, Kind, Name
  <2>f. pc[t] = "object"
    OBVIOUS
  <2> HIDE DEF ObjectRead
  <2> HIDE <1>14
  <2>g. body' \in [Threads -> Bodies \cup {None}]
    BY <2>b, <2>c DEF TypeOK
  <2>h. /\ out' \in [Threads -> Outcomes \cup {None}] /\ hop' = [hop EXCEPT ![t] = NoHop]
        /\ pc' = [pc EXCEPT ![t] = "idle"]
    BY <2>b DEF TypeOK, Outcomes
  <2>1. TypeOK'
    BY <2>a, <2>d, <2>g, <2>h DEF TypeOK, Outcomes
  <2>2. CacheInv'
    BY <2>a, <2>b, <2>c, <2>d, <2>e, <2>f DEF CacheInv, TypeOK
  <2>3. ASSUME NEW s \in Threads, s # t
        PROVE  CallInv(s)' /\ PolicyInv(s)' /\ BudgetInv(s)' /\ BytesInv(s)'
    BY <2>b, <2>d, <2>3, Others DEF TypeOK
  <2>4. CallInv(t)'
    BY <2>a, <2>b, <2>c, <2>d, <2>e, <2>f DEF CallInv, TypeOK, Vetted, Kind, Name, Outcomes
  <2>5. PolicyInv(t)'
    BY <2>a, <2>b, <2>c, <2>d, <2>e, <2>f
       DEF PolicyInv, CallInv, TypeOK, Vetted, Outcomes, Kind, Name, AllAllowed, Allowed, Spaces
  <2>6. BudgetInv(t)'
    BY <2>a, <2>b, <2>c, <2>d, <2>e, <2>f DEF BudgetInv, TypeOK, Outcomes, NoHop, Hop
  <2>7. BytesInv(t)'
    BY <2>a, <2>b, <2>c, <2>d, <2>e, <2>f DEF BytesInv, CallInv, TypeOK, Outcomes, Bytes, Bodies
  <2> QED
    BY <2>1, <2>2, <2>3, <2>4, <2>5, <2>6, <2>7
<1>15. ASSUME NEW t \in Threads, ObjectFails(t) PROVE Inv'
  <2> USE <1>15 DEF ObjectFails
  <2>1. TypeOK'
    BY NoHopType DEF TypeOK, Outcomes
  <2>2. CacheInv'
    BY DEF CacheInv, TypeOK
  <2>3. ASSUME NEW s \in Threads, s # t
        PROVE  CallInv(s)' /\ PolicyInv(s)' /\ BudgetInv(s)' /\ BytesInv(s)'
    BY <2>3, Others DEF TypeOK
  <2>4. CallInv(t)'
    BY DEF CallInv, TypeOK, Vetted, Kind, Name, Outcomes
  <2>5. PolicyInv(t)'
    BY DEF PolicyInv, CallInv, TypeOK, Vetted, Outcomes, Kind, Name, AllAllowed, Allowed, Spaces
  <2>6. BudgetInv(t)'
    BY DEF BudgetInv, TypeOK, Outcomes, NoHop, Hop
  <2>7. BytesInv(t)'
    BY DEF BytesInv, CallInv, TypeOK, Outcomes, Bytes
  <2> QED
    BY <2>1, <2>2, <2>3, <2>4, <2>5, <2>6, <2>7
<1>16. ASSUME NEW k \in Spaces \X Urls, Expire(k) PROVE Inv'
  <2> USE <1>16 DEF Expire, OriginCache!Forget
  <2>1. TypeOK'
    BY DEF TypeOK
  <2>2. CacheInv'
    BY DEF CacheInv, TypeOK
  <2>3. ASSUME NEW s \in Threads
        PROVE  CallInv(s)' /\ PolicyInv(s)' /\ BudgetInv(s)' /\ BytesInv(s)'
    BY Others
  <2> QED
    BY <2>1, <2>2, <2>3
<1>17. ASSUME Restart PROVE Inv'
  <2> USE <1>17 DEF Restart, OriginCache!Restart
  <2>1. TypeOK'
    BY NoHopType DEF TypeOK, Outcomes
  <2>2. CacheInv'
    BY DEF CacheInv, TypeOK
  <2>3. ASSUME NEW s \in Threads
        PROVE  CallInv(s)' /\ PolicyInv(s)' /\ BudgetInv(s)' /\ BytesInv(s)'
    BY DEF CallInv, PolicyInv, BudgetInv, BytesInv, Vetted, Outcomes
  <2> QED
    BY <2>1, <2>2, <2>3
<1>18. ASSUME UNCHANGED vars PROVE Inv'
  <2> USE <1>18 DEF vars
  <2>1. TypeOK'
    BY DEF TypeOK
  <2>2. CacheInv'
    BY DEF CacheInv
  <2>3. ASSUME NEW s \in Threads
        PROVE  CallInv(s)' /\ PolicyInv(s)' /\ BudgetInv(s)' /\ BytesInv(s)'
    BY Others
  <2> QED
    BY <2>1, <2>2, <2>3
<1> QED
  BY <1>1, <1>2, <1>3, <1>4, <1>5, <1>6, <1>7, <1>8, <1>9, <1>10, <1>11, <1>12, <1>13,
     <1>14, <1>15, <1>16, <1>17, <1>18 DEF Next, Fetch, ReadOther

\* The invariant holds in every state of every behaviour.
THEOREM AlwaysInv == Spec => []Inv
BY InitInv, StepInv, PTL DEF Spec

\* The state keeps its types.
THEOREM FetchTypes == Spec => []TypeOK
<1>1. Inv => TypeOK
  BY DEF Inv
<1> QED
  BY <1>1, AlwaysInv, PTL

\* A remote request is only ever sent for a URL and to an address that the
\* settings in force allow: the agent connects to what was validated
\* (PinnedResolver), at every hop of a chain of redirects.
THEOREM SentAllowed == Spec => []SentWhereAllowed
<1>1. Inv => SentWhereAllowed
  BY DEF Inv, PolicyInv, SentWhereAllowed
<1> QED
  BY <1>1, AlwaysInv, PTL

\* An answer to a URL is given for one that was validated under the settings
\* in force, and its bytes came from where these allow, except cached bytes
\* that a redirect led to or that came from another address of the name.
THEOREM HitsVetted == Spec => []HitUnderPolicy
<1>1. ASSUME Inv, NEW t \in Threads, out[t] = "ok", Kind(t) \in Spaces
      PROVE  /\ AllAllowed(Name(t), vetted[t])
             /\ body[t] # None => Allowed(Bytes(t).url, Bytes(t).addr)
  BY <1>1 DEF Inv, PolicyInv, Bytes
<1>2. ASSUME NEW t \in Threads, AllAllowed(Name(t), vetted[t]),
             Bytes(t).url = Name(t), Bytes(t).addr \in vetted[t]
      PROVE  Allowed(Bytes(t).url, Bytes(t).addr)
  BY <1>2 DEF AllAllowed
<1>3. Inv => HitUnderPolicy
  BY <1>1, <1>2 DEF AllAllowed, HitUnderPolicy
<1> QED
  BY <1>3, AlwaysInv, PTL

\* No answer is larger than the limit in force, except from a file replaced
\* between its metadata and its read.
THEOREM LimitsKept == Spec => []WithinLimit
<1>1. ASSUME Inv, NEW t \in Threads, out[t] = "ok", Bytes(t).size > MaxBytes(t)
      PROVE  Kind(t) = "path" /\ moved[t]
  <2>1. Bytes(t).size \in Nat /\ MaxBytes(t) \in Nat
    BY <1>1, MaxBytesType, SourceFetchAssumption DEF Inv, BytesInv, Bodies
  <2> QED
    BY <1>1, <2>1 DEF Inv, BytesInv
<1>2. Inv => WithinLimit
  BY <1>1 DEF WithinLimit
<1> QED
  BY <1>2, AlwaysInv, PTL

\* What is answered and what is kept in the origin cache is a whole body.
THEOREM BodiesWhole == Spec => []WholeBodies
<1>1. Inv => WholeBodies
  BY NoneAssumption DEF Inv, CacheInv, BytesInv, WholeBodies
<1> QED
  BY <1>1, AlwaysInv, PTL

\* The redirects of a call are bounded, and refused only past the bound.
THEOREM BudgetKept == Spec => []RedirectBudget
<1>1. Inv => RedirectBudget
  BY DEF Inv, BudgetInv, RedirectBudget
<1> QED
  BY <1>1, AlwaysInv, PTL
=============================================================================
