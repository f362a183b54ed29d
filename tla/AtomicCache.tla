----------------------------- MODULE AtomicCache -----------------------------
(***************************************************************************)
(* What src/adapters/server/cache.rs promises to the handlers: a map from  *)
(* keys to complete values.  A write takes effect at once, a lookup gives  *)
(* either a value its key had while the lookup ran or a miss, and an entry *)
(* may be forgotten at any time.  No files, no clock, no partial values.   *)
(***************************************************************************)
CONSTANTS Threads, Keys, Vals, NoVal

VARIABLES
  store,  \* the value of each key, or NoVal
  seen,   \* per thread: what its lookup found, or NoVal
  reply   \* per thread: what its last lookup answered, NoVal for a miss

vars == <<store, seen, reply>>

Init ==
  /\ store = [k \in Keys |-> NoVal]
  /\ seen = [t \in Threads |-> NoVal]
  /\ reply = [t \in Threads |-> NoVal]

\* A lookup reads the map.
Look(t, k) ==
  /\ seen' = [seen EXCEPT ![t] = store[k]]
  /\ reply' = [reply EXCEPT ![t] = NoVal]
  /\ UNCHANGED store

\* A lookup answers with what it found, or with a miss.
Answer(t) ==
  /\ reply' \in {[reply EXCEPT ![t] = seen[t]], [reply EXCEPT ![t] = NoVal]}
  /\ seen' = [seen EXCEPT ![t] = NoVal]
  /\ UNCHANGED store

Put(k, v) ==
  /\ store' = [store EXCEPT ![k] = v]
  /\ UNCHANGED <<seen, reply>>

\* An entry is forgotten, by lookups that have already found it as well.
Forget(k) ==
  /\ store' = [store EXCEPT ![k] = NoVal]
  /\ seen' \in {[t \in Threads |-> IF t \in lost THEN NoVal ELSE seen[t]]
                  : lost \in SUBSET Threads}
  /\ UNCHANGED reply

\* A process stops; its lookups are never answered.
Restart ==
  /\ seen' = [t \in Threads |-> NoVal]
  /\ reply' = [t \in Threads |-> NoVal]
  /\ UNCHANGED store

Next ==
  \/ \E t \in Threads, k \in Keys : Look(t, k)
  \/ \E t \in Threads : Answer(t)
  \/ \E k \in Keys, v \in Vals : Put(k, v)
  \/ \E k \in Keys : Forget(k)
  \/ Restart

Spec == Init /\ [][Next]_vars
=============================================================================
