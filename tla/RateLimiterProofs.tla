------------------------- MODULE RateLimiterProofs -------------------------
(***************************************************************************)
(* Theorems about RateLimiter, for any number of workers, addresses and    *)
(* shards and for any rate and burst.  The code's bucket is bracketed by   *)
(* an ideal one: never worth less than it, and worth more only by the      *)
(* units that the cleanup and late readings are known to hand out.         *)
(***************************************************************************)
EXTENDS RateLimiter, TLAPS

-----------------------------------------------------------------------------
(* The arithmetic of a refill *)

\* Time in two parts refills what the parts do, and never takes units away.
LEMMA RefillSplit ==
  ASSUME NEW a \in Int, NEW b \in Int, NEW c \in Int, a >= b, b >= c
  PROVE  /\ Rate * (a - b) \in Nat /\ Rate * (b - c) \in Nat /\ Rate * (a - c) \in Nat
         /\ Rate * (a - c) = Rate * (a - b) + Rate * (b - c)
<1>. USE RateLimiterAssumption
<1>1. ASSUME NEW d \in Nat PROVE Rate * d \in Nat
  BY <1>1
<1>2. Rate * (a - b) \in Nat /\ Rate * (b - c) \in Nat /\ Rate * (a - c) \in Nat
  <2>1. a - b \in Nat /\ b - c \in Nat /\ a - c \in Nat
    OBVIOUS
  <2>. QED  BY <1>1, <2>1
<1>3. Rate * (a - c) = Rate * (a - b) + Rate * (b - c)
  OBVIOUS
<1>. QED  BY <1>2, <1>3

LEMMA RefillNat ==
  ASSUME NEW a \in Int, NEW b \in Int, a >= b
  PROVE  Rate * (a - b) \in Nat
<1>1. b >= b
  OBVIOUS
<1>. QED  BY <1>1, RefillSplit

\* A bucket of the code, `tok` at instant `lst`, and the ideal one, `ex` at `ea`:
\* brought forward to the instant of the ideal one, the code's bucket is worth
\* at least as much, and at most g units more.
Between(tok, lst, ex, ea, g) ==
  /\ lst <= ea
  /\ ex <= tok + Rate * (ea - lst)
  /\ tok + Rate * (ea - lst) <= ex + g

\* The later of two instants.
Later(a, n) == IF n >= a THEN n ELSE a

\* What the ideal bucket holds after a refill at n.
IdealAt(ex, ea, n) == MinOf(ex + Rate * Elapsed(ea, n), Burst)

LEMMA RefillTypes ==
  ASSUME NEW tok \in Nat, NEW lst \in Nat, NEW ea \in Nat, NEW n \in Nat, NEW ex \in Int,
         tok <= Burst, ex <= Burst
  PROVE  /\ Refilled(tok, lst, n) \in 0..Burst
         /\ IdealAt(ex, ea, n) \in Int /\ IdealAt(ex, ea, n) <= Burst
         /\ IdealAt(ex, ea, n) >= ex
         /\ Rate * Elapsed(n, lst) \in Nat
<1>1. ASSUME NEW a \in Nat, NEW b \in Nat PROVE Rate * Elapsed(a, b) \in Nat
  <2>1. Elapsed(a, b) \in Nat
    BY DEF Elapsed
  <2>. QED  BY <2>1, RateLimiterAssumption
<1>2. /\ Rate * Elapsed(lst, n) \in Nat /\ Rate * Elapsed(ea, n) \in Nat
      /\ Rate * Elapsed(n, lst) \in Nat
  BY <1>1
<1>3. Burst \in Nat
  BY RateLimiterAssumption
<1>. QED  BY <1>2, <1>3 DEF Refilled, IdealAt, MinOf

\* A check at n refills both buckets: they stay as close, once g grows by the
\* time that a reading from before `lst` lets count again.
LEMMA KeptBetween ==
  ASSUME NEW tok \in Nat, NEW lst \in Nat, NEW ea \in Nat, NEW n \in Nat,
         NEW ex \in Int, NEW g \in Nat,
         tok <= Burst, ex <= Burst, Between(tok, lst, ex, ea, g)
  PROVE  Between(Refilled(tok, lst, n), n, IdealAt(ex, ea, n), Later(ea, n),
                 g + Rate * Elapsed(n, lst))
<1>. USE RateLimiterAssumption DEF Between
<1>0. Rate * 0 = 0 /\ \A x \in Int : x - x = 0
  OBVIOUS
<1>1. CASE n >= ea
  <2>1. /\ Rate * (n - ea) \in Nat /\ Rate * (ea - lst) \in Nat
        /\ Rate * (n - lst) = Rate * (n - ea) + Rate * (ea - lst)
    BY <1>1, RefillSplit
  <2>2. Elapsed(lst, n) = n - lst /\ Elapsed(ea, n) = n - ea /\ Later(ea, n) = n
    BY <1>1 DEF Elapsed, Later
  <2>3. Rate * Elapsed(n, lst) = 0 /\ Rate * (n - n) = 0
    BY <1>0, <1>1 DEF Elapsed
  <2>. QED  BY <2>1, <2>2, <2>3 DEF Refilled, IdealAt, MinOf
<1>2. CASE n < ea /\ n >= lst
  <2>1. /\ Rate * (ea - n) \in Nat /\ Rate * (n - lst) \in Nat
        /\ Rate * (ea - lst) = Rate * (ea - n) + Rate * (n - lst)
    BY <1>2, RefillSplit
  <2>2. Elapsed(lst, n) = n - lst /\ Later(ea, n) = ea
    BY <1>2 DEF Elapsed, Later
  <2>3. Rate * Elapsed(n, lst) = 0 /\ Rate * Elapsed(ea, n) = 0
    BY <1>0, <1>2 DEF Elapsed
  <2>. QED  BY <1>2, <2>1, <2>2, <2>3 DEF Refilled, IdealAt, MinOf
<1>3. CASE n < lst
  <2>1. /\ Rate * (ea - lst) \in Nat /\ Rate * (lst - n) \in Nat
        /\ Rate * (ea - n) = Rate * (ea - lst) + Rate * (lst - n)
    BY <1>3, RefillSplit
  <2>2. Elapsed(n, lst) = lst - n /\ Later(ea, n) = ea
    BY <1>3 DEF Elapsed, Later
  <2>3. Rate * Elapsed(lst, n) = 0 /\ Rate * Elapsed(ea, n) = 0
    BY <1>0, <1>3 DEF Elapsed
  <2>. QED  BY <1>3, <2>1, <2>2, <2>3 DEF Refilled, IdealAt, MinOf
<1>. QED  BY <1>1, <1>2, <1>3

\* The same for a new, full bucket.
LEMMA FreshBetween ==
  ASSUME NEW ea \in Nat, NEW n \in Nat, NEW ex \in Int, NEW g \in Nat,
         ex <= Burst, Burst <= ex + g
  PROVE  Between(Burst, n, IdealAt(ex, ea, n), Later(ea, n), g + Rate * Elapsed(n, ea))
<1>. USE RateLimiterAssumption DEF Between
<1>0. Rate * 0 = 0 /\ \A x \in Int : x - x = 0
  OBVIOUS
<1>1. CASE n >= ea
  <2>1. Rate * (n - ea) \in Nat
    BY <1>1, RefillNat
  <2>2. Elapsed(ea, n) = n - ea /\ Later(ea, n) = n
    BY <1>1 DEF Elapsed, Later
  <2>3. Rate * Elapsed(n, ea) = 0 /\ Rate * (n - n) = 0
    BY <1>0, <1>1 DEF Elapsed
  <2>. QED  BY <2>1, <2>2, <2>3 DEF IdealAt, MinOf
<1>2. CASE n < ea
  <2>1. Rate * (ea - n) \in Nat
    BY <1>2, RefillNat
  <2>2. Elapsed(n, ea) = ea - n /\ Later(ea, n) = ea
    BY <1>2 DEF Elapsed, Later
  <2>3. Rate * Elapsed(ea, n) = 0
    BY <1>0, <1>2 DEF Elapsed
  <2>. QED  BY <1>2, <2>1, <2>2, <2>3 DEF IdealAt, MinOf
<1>. QED  BY <1>1, <1>2

-----------------------------------------------------------------------------
(* The two buckets of an address *)

\* The code's bucket is bracketed by the ideal one and what was handed out on
\* top; an address without a bucket would get a full one.
Bracket(ip) ==
  IF ip \in known
  THEN Between(tokens[ip], last[ip], exact[ip], exactAt[ip], gift[ip])
  ELSE Burst <= exact[ip] + gift[ip]

\* The inductive invariant.
LimiterInv == TypeOK /\ \A ip \in Ips : Bracket(ip)

LEMMA LimiterInit == Init => LimiterInv
<1>. SUFFICES ASSUME Init PROVE LimiterInv
  OBVIOUS
<1>. USE RateLimiterAssumption
<1>1. TypeOK
  <2>1. 0 \in 0..MaxTime /\ 0 \in 0..clock /\ 0 \in 0..Burst
    BY DEF Init
  <2>. QED  BY <2>1 DEF Init, TypeOK
<1>2. \A ip \in Ips : Bracket(ip)
  BY DEF Init, Bracket
<1>. QED  BY <1>1, <1>2 DEF LimiterInv

\* What the cleanup keeps was there before.
LEMMA SweepKeeps ==
  ASSUME NEW s, NEW n
  PROVE  Sweep(s, n) \subseteq known
BY DEF Sweep

\* A check at the instant a thread has read changes the bucket it is for.
LEMMA CheckCaller ==
  ASSUME LimiterInv, NEW t \in Threads, Check(t), NEW ip \in Ips, ip = caller[t]
  PROVE  /\ ip \in known'
         /\ tokens'[ip] \in 0..Burst /\ last'[ip] = now[t] /\ exactAt'[ip] \in 0..clock
         /\ exact'[ip] \in Int /\ exact'[ip] <= Burst /\ gift'[ip] \in Nat
         /\ Between(tokens'[ip], last'[ip], exact'[ip], exactAt'[ip], gift'[ip])
<1>. DEFINE n == now[t]
            kept == Sweep(ShardOf[ip], n)
            before == IF ip \in kept THEN Refilled(tokens[ip], last[ip], n) ELSE Burst
            cost == IF before >= Unit THEN Unit ELSE 0
            ideal == IdealAt(exact[ip], exactAt[ip], n)
            ea == Later(exactAt[ip], n)
<1>0. /\ tokens[ip] \in Nat /\ tokens[ip] <= Burst /\ last[ip] \in Nat /\ exactAt[ip] \in Nat
      /\ exact[ip] \in Int /\ exact[ip] <= Burst /\ gift[ip] \in Nat /\ n \in Nat
      /\ exactAt[ip] \in 0..clock /\ n \in 0..clock
      /\ Unit \in Nat /\ Burst \in Nat /\ kept \subseteq known /\ Bracket(ip)
  BY RateLimiterAssumption, SweepKeeps DEF LimiterInv, TypeOK
<1>1. /\ ip \in known' /\ tokens'[ip] = (IF before >= Unit THEN before - Unit ELSE before)
      /\ last'[ip] = n /\ exact'[ip] = ideal - cost /\ exactAt'[ip] = ea
      /\ gift'[ip] = gift[ip] + Forgiven(ip, kept) + Again(ip, kept, n)
  BY DEF Check, LimiterInv, TypeOK, IdealAt, ExactAt, Later
<1>. HIDE DEF n, kept, before, cost, ideal, ea
<1>2. Refilled(tokens[ip], last[ip], n) \in 0..Burst /\ ideal \in Int /\ ideal <= Burst
  BY <1>0, RefillTypes DEF ideal
<1>3. before \in 0..Burst
  BY <1>0, <1>2 DEF before
<1>4. gift'[ip] \in Nat /\ Between(before, n, ideal, ea, gift'[ip])
  <2>1. CASE ip \in kept
    <3>1. Forgiven(ip, kept) = 0 /\ Again(ip, kept, n) = Rate * Elapsed(n, last[ip])
      BY <2>1 DEF Forgiven, Again
    <3>2. Rate * Elapsed(n, last[ip]) \in Nat
      BY <1>0, RefillTypes
    <3>3. gift'[ip] = gift[ip] + Rate * Elapsed(n, last[ip]) /\ gift'[ip] \in Nat
      BY <1>0, <1>1, <3>1, <3>2
    <3>4. Between(tokens[ip], last[ip], exact[ip], exactAt[ip], gift[ip])
      BY <1>0, <2>1 DEF Bracket
    <3>5. Between(Refilled(tokens[ip], last[ip], n), n, ideal, ea,
                  gift[ip] + Rate * Elapsed(n, last[ip]))
      BY <1>0, <3>4, KeptBetween DEF ideal, ea
    <3>. QED  BY <2>1, <3>3, <3>5 DEF before
  <2>2. CASE ip \notin kept
    <3>. DEFINE g == gift[ip] + Forgiven(ip, kept)
    <3>1. g \in Nat /\ Burst <= exact[ip] + g
      <4>1. CASE ip \in known
        <5>1. Rate * (exactAt[ip] - last[ip]) \in Nat
          BY <1>0, <4>1, RefillNat, RateLimiterAssumption DEF Bracket, Between
        <5>2. Forgiven(ip, kept) = Burst - tokens[ip]
          BY <2>2, <4>1 DEF Forgiven
        <5>. QED  BY <1>0, <4>1, <5>1, <5>2 DEF Bracket, Between
      <4>2. CASE ip \notin known
        BY <1>0, <4>2 DEF Bracket, Forgiven
      <4>. QED  BY <4>1, <4>2
    <3>2. Rate * Elapsed(n, exactAt[ip]) \in Nat
      BY <1>0, RefillTypes
    <3>3. gift'[ip] = g + Rate * Elapsed(n, exactAt[ip])
      BY <1>1, <2>2 DEF Again
    <3>. HIDE DEF g
    <3>4. Between(Burst, n, ideal, ea, g + Rate * Elapsed(n, exactAt[ip]))
      BY <1>0, <3>1, FreshBetween DEF ideal, ea
    <3>. QED  BY <2>2, <3>1, <3>2, <3>3, <3>4 DEF before
  <2>. QED  BY <2>1, <2>2
<1>5. ea \in 0..clock /\ ea \in Int
  BY <1>0 DEF ea, Later
<1>6. tokens'[ip] = before - cost /\ cost \in Nat /\ cost <= before
  BY <1>0, <1>1, <1>3 DEF cost
<1>7. Between(before - cost, n, ideal - cost, ea, gift'[ip])
  <2>1. n <= ea /\ Rate * (ea - n) \in Nat
    BY <1>0, <1>4, <1>5, RefillNat, RateLimiterAssumption DEF Between
  <2>. QED  BY <1>0, <1>2, <1>3, <1>4, <1>6, <2>1 DEF Between
<1>. QED  BY <1>0, <1>1, <1>2, <1>3, <1>4, <1>5, <1>6, <1>7 DEF n

\* The other addresses of the shard lose their bucket, and nothing else.
LEMMA CheckOthers ==
  ASSUME LimiterInv, NEW t \in Threads, Check(t), NEW p \in Ips, p # caller[t]
  PROVE  /\ UNCHANGED <<tokens[p], last[p], exact[p], exactAt[p]>>
         /\ p \in known' => p \in known /\ gift'[p] = gift[p]
         /\ p \notin known' =>
              gift'[p] = gift[p] + (IF p \in known THEN Burst - tokens[p] ELSE 0)
<1>. DEFINE kept == Sweep(ShardOf[caller[t]], now[t])
<1>1. kept \subseteq known
  BY SweepKeeps
<1>2. /\ UNCHANGED <<tokens[p], last[p], exact[p], exactAt[p]>>
      /\ p \in known' <=> p \in kept
      /\ gift'[p] = gift[p] + Forgiven(p, kept) + 0
  BY DEF Check, LimiterInv, TypeOK
<1>3. gift[p] \in Nat /\ tokens[p] \in Nat /\ Burst \in Nat
  BY RateLimiterAssumption DEF LimiterInv, TypeOK
<1>. QED  BY <1>1, <1>2, <1>3 DEF Forgiven

LEMMA LimiterCheck ==
  ASSUME LimiterInv, NEW t \in Threads, Check(t)
  PROVE  LimiterInv'
<1>. DEFINE ip == caller[t]
<1>0. ip \in Ips
  BY DEF LimiterInv, TypeOK
<1>1. /\ ip \in known'
      /\ tokens'[ip] \in 0..Burst /\ last'[ip] = now[t] /\ exactAt'[ip] \in 0..clock
      /\ exact'[ip] \in Int /\ exact'[ip] <= Burst /\ gift'[ip] \in Nat
      /\ Between(tokens'[ip], last'[ip], exact'[ip], exactAt'[ip], gift'[ip])
  BY <1>0, CheckCaller
<1>. HIDE DEF ip
<1>2. ASSUME NEW p \in Ips, p # ip
      PROVE  /\ UNCHANGED <<tokens[p], last[p], exact[p], exactAt[p]>>
             /\ p \in known' => p \in known /\ gift'[p] = gift[p]
             /\ p \notin known' =>
                  gift'[p] = gift[p] + (IF p \in known THEN Burst - tokens[p] ELSE 0)
  BY <1>2, CheckOthers DEF ip
<1>3. TypeOK'
  <2>. USE DEF LimiterInv, TypeOK
  <2>1. /\ clock' = clock /\ caller' = caller /\ known' \subseteq Ips
        /\ pc' \in [Threads -> {"idle", "sampled"}] /\ now' \in [Threads -> 0..clock]
    <3>1. Sweep(ShardOf[ip], now[t]) \subseteq Ips
      BY SweepKeeps
    <3>. QED  BY <1>0, <3>1 DEF Check, ip
  <2>2. /\ tokens' \in [Ips -> 0..Burst] /\ last' \in [Ips -> 0..clock]
        /\ exact' \in [Ips -> Int] /\ exactAt' \in [Ips -> 0..clock]
    <3>1. /\ tokens' = [tokens EXCEPT ![ip] = tokens'[ip]]
          /\ last' = [last EXCEPT ![ip] = last'[ip]]
          /\ exact' = [exact EXCEPT ![ip] = exact'[ip]]
          /\ exactAt' = [exactAt EXCEPT ![ip] = exactAt'[ip]]
      BY <1>0 DEF Check, ip
    <3>. QED  BY <1>0, <1>1, <3>1
  <2>3. \A p \in Ips : exact'[p] <= Burst
    BY <1>1, <1>2
  <2>4. gift' \in [Ips -> Nat]
    <3>1. DOMAIN gift' = Ips /\ gift' = [p \in Ips |-> gift'[p]]
      BY DEF Check
    <3>2. ASSUME NEW p \in Ips PROVE gift'[p] \in Nat
      BY <1>1, <1>2, RateLimiterAssumption
    <3>. QED  BY <3>1, <3>2
  <2>. QED  BY <2>1, <2>2, <2>3, <2>4
<1>4. ASSUME NEW p \in Ips PROVE Bracket(p)'
  <2>1. CASE p = ip
    BY <1>1, <2>1 DEF Bracket
  <2>2. CASE p # ip /\ p \in known'
    <3>1. p \in known /\ UNCHANGED <<tokens[p], last[p], exact[p], exactAt[p], gift[p]>>
      BY <1>2, <2>2
    <3>2. Between(tokens[p], last[p], exact[p], exactAt[p], gift[p])
      BY <3>1 DEF LimiterInv, Bracket
    <3>. QED  BY <2>2, <3>1, <3>2 DEF Bracket
  <2>3. CASE p # ip /\ p \notin known'
    <3>1. /\ tokens[p] \in Nat /\ tokens[p] <= Burst /\ exact[p] \in Int /\ gift[p] \in Nat
          /\ last[p] \in Nat /\ exactAt[p] \in Nat /\ Burst \in Nat /\ Bracket(p)
      BY RateLimiterAssumption DEF LimiterInv, TypeOK
    <3>2. Burst <= exact[p] + gift[p] + (IF p \in known THEN Burst - tokens[p] ELSE 0)
      <4>1. CASE p \in known
        <5>1. Rate * (exactAt[p] - last[p]) \in Nat
          BY <3>1, <4>1, RefillNat, RateLimiterAssumption DEF Bracket, Between
        <5>. QED  BY <3>1, <4>1, <5>1 DEF Bracket, Between
      <4>2. CASE p \notin known
        BY <3>1, <4>2 DEF Bracket
      <4>. QED  BY <4>1, <4>2
    <3>. QED  BY <1>2, <2>3, <3>1, <3>2 DEF Bracket
  <2>. QED  BY <2>1, <2>2, <2>3
<1>. QED  BY <1>3, <1>4 DEF LimiterInv

LEMMA LimiterStep ==
  ASSUME LimiterInv, [Next]_vars
  PROVE  LimiterInv'
<1>1. CASE Tick
  <2>1. TypeOK'
    <3>1. clock' \in 0..MaxTime /\ 0..clock \subseteq 0..clock'
      BY <1>1, RateLimiterAssumption DEF Tick, LimiterInv, TypeOK
    <3>. QED  BY <1>1, <3>1 DEF Tick, LimiterInv, TypeOK
  <2>. QED  BY <1>1, <2>1 DEF Tick, LimiterInv, Bracket
<1>2. ASSUME NEW t \in Threads, NEW ip \in Ips, Sample(t, ip) PROVE LimiterInv'
  <2>1. clock \in 0..clock
    BY RateLimiterAssumption DEF LimiterInv, TypeOK
  <2>. QED  BY <1>2, <2>1 DEF Sample, LimiterInv, TypeOK, Bracket
<1>3. ASSUME NEW t \in Threads, Check(t) PROVE LimiterInv'
  BY <1>3, LimiterCheck
<1>4. CASE UNCHANGED vars
  BY <1>4 DEF vars, LimiterInv, TypeOK, Bracket
<1>. QED  BY <1>1, <1>2, <1>3, <1>4 DEF Next

LEMMA LimiterAlways == Spec => []LimiterInv
BY LimiterInit, LimiterStep, PTL DEF Spec

\* No bucket holds more than the burst, and no bucket or call ever holds an
\* instant that lies ahead of the clock.
THEOREM LimiterTypes == Spec => []TypeOK
<1>1. LimiterInv => TypeOK
  BY DEF LimiterInv
<1>. QED  BY <1>1, LimiterAlways, PTL

\* In whatever order the workers reach the mutex, an address is never held
\* below its configured rate.
THEOREM ClientsAreNotUnderserved == Spec => []NeverUnderserved
<1>1. ASSUME LimiterInv, NEW ip \in Ips PROVE Potential(ip) >= ExactAt(ip, clock)
  <2>. USE RateLimiterAssumption
  <2>0. /\ tokens[ip] \in Nat /\ tokens[ip] <= Burst /\ last[ip] \in Nat /\ exactAt[ip] \in Nat
        /\ exact[ip] \in Int /\ exact[ip] <= Burst /\ clock \in Nat
        /\ exactAt[ip] <= clock /\ last[ip] <= clock /\ Bracket(ip) /\ Burst \in Nat
    BY <1>1 DEF LimiterInv, TypeOK
  <2>1. Rate * (clock - exactAt[ip]) \in Nat
    BY <2>0, RefillNat
  <2>2. Elapsed(exactAt[ip], clock) = clock - exactAt[ip]
    BY <2>0 DEF Elapsed
  <2>3. ExactAt(ip, clock) <= Burst
    BY <2>0, <2>1, <2>2 DEF ExactAt, MinOf
  <2>4. CASE ip \in known
    <3>1. Rate * (clock - last[ip]) = Rate * (clock - exactAt[ip]) + Rate * (exactAt[ip] - last[ip])
      BY <2>0, <2>4, RefillSplit DEF Bracket, Between
    <3>2. exact[ip] <= tokens[ip] + Rate * (exactAt[ip] - last[ip])
      BY <2>0, <2>4 DEF Bracket, Between
    <3>3. Rate * (exactAt[ip] - last[ip]) \in Nat
      BY <2>0, <2>4, RefillNat DEF Bracket, Between
    <3>. QED  BY <2>0, <2>1, <2>2, <2>4, <3>1, <3>2, <3>3 DEF Potential, ExactAt, MinOf
  <2>5. CASE ip \notin known
    BY <2>3, <2>5 DEF Potential
  <2>. QED  BY <2>4, <2>5
<1>2. LimiterInv => NeverUnderserved
  BY <1>1 DEF NeverUnderserved
<1>. QED  BY <1>2, LimiterAlways, PTL

\* Nothing but the idle cleanup and readings applied late lets an address past
\* its configured rate, and by no more than the units they are accounted for.
THEOREM EveryGrantIsCovered == Spec => []GrantsCovered
<1>1. ASSUME LimiterInv, NEW ip \in Ips PROVE exact[ip] + gift[ip] >= 0
  <2>1. /\ tokens[ip] \in Nat /\ last[ip] \in Nat /\ exactAt[ip] \in Nat /\ exact[ip] \in Int
        /\ gift[ip] \in Nat /\ Bracket(ip) /\ Burst \in Nat
    BY <1>1, RateLimiterAssumption DEF LimiterInv, TypeOK
  <2>2. CASE ip \in known
    <3>1. Rate * (exactAt[ip] - last[ip]) \in Nat
      BY <2>1, <2>2, RefillNat, RateLimiterAssumption DEF Bracket, Between
    <3>. QED  BY <2>1, <2>2, <3>1 DEF Bracket, Between
  <2>3. CASE ip \notin known
    BY <2>1, <2>3 DEF Bracket
  <2>. QED  BY <2>2, <2>3
<1>2. LimiterInv => GrantsCovered
  BY <1>1 DEF GrantsCovered
<1>. QED  BY <1>2, LimiterAlways, PTL
=============================================================================
