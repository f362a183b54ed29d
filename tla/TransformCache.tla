--------------------------- MODULE TransformCache ---------------------------
(***************************************************************************)
(* The on-disk caches of src/adapters/server/cache.rs, file by file: the   *)
(* transform cache and, under the same root, the origin cache.             *)
(*                                                                         *)
(* A file is an inode; a directory entry and an open handle both refer to  *)
(* one, so a reader keeps what it opened while the path is renamed over or *)
(* removed.  A put writes a header and a body to a temporary file and      *)
(* renames it; a lookup opens, checks the age, reads and parses; a put may *)
(* end in an eviction scan.  The process may stop between any two steps.   *)
(***************************************************************************)
EXTENDS Integers, FiniteSets, FiniteSetsExt

CONSTANTS
  Threads,      \* workers that use the cache
  Keys,         \* cache keys of both caches
  OriginKeys,   \* the keys of the origin cache
  Vals,         \* bodies
  NoVal,
  SizeOf,       \* size of each body on disk
  Names,        \* unique_tmp_suffix: <pid>.<counter>
  NameOf,       \* the suffix each thread's temporary file gets
  Inodes,
  NoInode,
  TTL,          \* DEFAULT_CACHE_TTL_SECONDS, also ABANDONED_TEMP_FILE_SECS
  Interval,     \* EVICTION_INTERVAL_SECS
  MaxBytes,     \* TRUSS_CACHE_MAX_BYTES, 0 for no eviction
  Start,        \* the wall clock when the run starts
  MaxTime,      \* bound: the clock stops here
  MaxPuts,      \* bound: puts begun
  MaxFaults     \* bound: crashes and damaged entries

ASSUME CacheAssumption ==
  /\ OriginKeys \subseteq Keys /\ IsFiniteSet(Keys)  \* keys are SHA-256 digests
  /\ NoVal \notin Vals /\ NoInode \notin Inodes
  /\ SizeOf \in [Vals -> Nat]
  /\ NameOf \in [Threads -> Names]
  /\ \A t, u \in Threads : NameOf[t] = NameOf[u] => t = u  \* the counter is atomic
  /\ {TTL, Interval, MaxBytes, Start, MaxTime, MaxPuts, MaxFaults} \subseteq Nat
  /\ Start <= MaxTime /\ Vals # {}

VARIABLES
  clock,      \* wall clock, seconds
  data,       \* inode -> [val, part, mtime]
  dir,        \* key -> inode, the entries
  tmp,        \* <<key, suffix>> -> inode, the temporary files
  lastEvict,  \* last_eviction_secs, shared by every request of the process
  pc, key, val, fd,  \* per thread: its step, arguments and open handle
  now, last,  \* per thread: the time and the timestamp maybe_evict read
  victims,    \* per thread: the entries of its scan not yet visited
  size,       \* per thread: current_size of its eviction pass
  orphans,    \* per thread: abandoned temporary files its scan found
  reply,      \* per thread: value of its last lookup, NoVal for a miss
  puts, faults,
  renamed     \* history: per thread, a file was renamed since its scan

fs == <<data, dir, tmp>>
evicting == <<now, last, victims, size, orphans>>
bounds == <<puts, faults>>
vars == <<clock, data, dir, tmp, lastEvict, pc, key, val, fd, now, last,
          victims, size, orphans, reply, puts, faults, renamed>>

\* How much of a body an inode holds.  "header" is a header line with the body
\* cut short, "mixed" what two writers of one file leave behind, "garbage" a
\* file whose header cannot be read.
Parts == {"empty", "header", "whole", "mixed", "garbage"}

TmpPaths == Keys \X Names
TmpOf(t) == <<key[t], NameOf[t]>>

Linked == {dir[k] : k \in Keys} \cup {tmp[p] : p \in TmpPaths}
Free == Inodes \ (Linked \cup {fd[t] : t \in Threads})

Entries == {k \in Keys : dir[k] # NoInode}
SizeAt(i) == SizeOf[data[i].val]
TotalSize == MapThenSumSet(LAMBDA k : SizeAt(dir[k]), Entries)

Age(i) == clock - data[i].mtime

Goto(t, l) == pc' = [pc EXCEPT ![t] = l]

Init ==
  /\ clock = Start
  /\ data = [i \in Inodes |-> [val |-> CHOOSE v \in Vals : TRUE, part |-> "empty", mtime |-> 0]]
  /\ dir = [k \in Keys |-> NoInode]
  /\ tmp = [p \in TmpPaths |-> NoInode]
  /\ lastEvict = 0
  /\ pc = [t \in Threads |-> "idle"]
  /\ key \in [Threads -> Keys]
  /\ val \in [Threads -> Vals]
  /\ fd = [t \in Threads |-> NoInode]
  /\ now = [t \in Threads |-> 0]
  /\ last = [t \in Threads |-> 0]
  /\ victims = [t \in Threads |-> {}]
  /\ size = [t \in Threads |-> 0]
  /\ orphans = [t \in Threads |-> {}]
  /\ reply = [t \in Threads |-> NoVal]
  /\ puts = 0
  /\ faults = 0
  /\ renamed = [t \in Threads |-> FALSE]

-----------------------------------------------------------------------------
(* get *)

\* File::open: a missing file is a miss.
Open(t, k) ==
  /\ pc[t] = "idle"
  /\ key' = [key EXCEPT ![t] = k]
  /\ fd' = [fd EXCEPT ![t] = dir[k]]
  /\ reply' = [reply EXCEPT ![t] = NoVal]
  /\ Goto(t, IF dir[k] = NoInode THEN "idle" ELSE "opened")
  /\ UNCHANGED <<clock, fs, lastEvict, val, evicting, bounds, renamed>>

\* The age of the open file against the TTL.
Stat(t) ==
  /\ pc[t] = "opened"
  /\ IF Age(fd[t]) > TTL
       THEN Goto(t, "idle") /\ fd' = [fd EXCEPT ![t] = NoInode]
       ELSE Goto(t, "fresh") /\ UNCHANGED fd
  /\ UNCHANGED <<clock, fs, lastEvict, key, val, evicting, reply, bounds, renamed>>

\* Mutant: the header is not looked at.
ReadUnchecked(t) ==
  /\ pc[t] = "fresh"
  /\ Goto(t, "idle")
  /\ reply' = [reply EXCEPT ![t] = data[fd[t]].val]
  /\ fd' = [fd EXCEPT ![t] = NoInode]
  /\ UNCHANGED <<clock, fs, lastEvict, key, val, evicting, bounds, renamed>>

\* read_to_end and the header: a hit, or an entry to remove because it cannot
\* be read or parsed.  The origin cache stores no header, takes whatever it
\* reads, and only misses when reading fails.
Read(t) ==
  /\ pc[t] = "fresh"
  /\ \/ key[t] \notin OriginKeys /\ Goto(t, "corrupt") /\ UNCHANGED reply
     \/ key[t] \in OriginKeys /\ Goto(t, "idle") /\ UNCHANGED reply
     \/ /\ data[fd[t]].part \notin {"empty", "garbage"} \/ key[t] \in OriginKeys
        /\ Goto(t, "idle")
        /\ reply' = [reply EXCEPT ![t] = data[fd[t]].val]
  /\ fd' = [fd EXCEPT ![t] = NoInode]
  /\ UNCHANGED <<clock, fs, lastEvict, key, val, evicting, bounds, renamed>>

\* remove_corrupted removes the path, whatever is there by now.
RemoveCorrupted(t) ==
  /\ pc[t] = "corrupt"
  /\ Goto(t, "idle")
  /\ dir' = [dir EXCEPT ![key[t]] = NoInode]
  /\ UNCHANGED <<clock, data, tmp, lastEvict, key, val, fd, evicting, reply,
                 bounds, renamed>>

-----------------------------------------------------------------------------
(* put *)

\* File::create: a file of that name is truncated in place, otherwise a new
\* one is made, on some free inode (which one makes no difference).  When
\* create_dir_all or File::create fails the put ends with nothing changed.
Create(t, k, v) ==
  /\ pc[t] = "idle"
  /\ puts < MaxPuts /\ Free # {}
  /\ puts' = puts + 1
  /\ key' = [key EXCEPT ![t] = k]
  /\ val' = [val EXCEPT ![t] = v]
  /\ LET p == <<k, NameOf[t]>>
         old == tmp[p]
         i == IF old = NoInode THEN CHOOSE j \in Free : TRUE ELSE old
     IN /\ data' = [data EXCEPT ![i] = [val |-> v, part |-> "empty", mtime |-> clock]]
        /\ tmp' = [tmp EXCEPT ![p] = i]
        /\ fd' = [fd EXCEPT ![t] = i]
  /\ Goto(t, "created")
  /\ UNCHANGED <<clock, dir, lastEvict, evicting, reply, faults, renamed>>

\* The header, or what the origin cache's one write_all has written so far.
WriteHeader(t) ==
  /\ pc[t] = "created"
  /\ data' = [data EXCEPT ![fd[t]] = [val |-> val[t], part |-> "header", mtime |-> clock]]
  /\ Goto(t, "headed")
  /\ UNCHANGED <<clock, dir, tmp, lastEvict, key, val, fd, evicting, reply,
                 bounds, renamed>>

\* The body completes the file unless another writer truncated it meanwhile.
WriteBody(t) ==
  /\ pc[t] = "headed"
  /\ LET f == data[fd[t]]
         ok == f.val = val[t] /\ f.part \in {"header", "whole"}
     IN data' = [data EXCEPT ![fd[t]] =
                   [val |-> val[t], part |-> IF ok THEN "whole" ELSE "mixed", mtime |-> clock]]
  /\ Goto(t, "written")
  /\ UNCHANGED <<clock, dir, tmp, lastEvict, key, val, fd, evicting, reply,
                 bounds, renamed>>

\* Mutant: a failed write leaves its temporary file behind.
WriteFailsKeepsFile(t) ==
  /\ pc[t] \in {"created", "headed", "written"}
  /\ fd' = [fd EXCEPT ![t] = NoInode]
  /\ Goto(t, "idle")
  /\ UNCHANGED <<clock, fs, lastEvict, key, val, evicting, reply, bounds, renamed>>

\* Mutant: a failed write renames what it has.
WriteFailsRenames(t) ==
  /\ pc[t] \in {"created", "headed", "written"}
  /\ tmp' = [tmp EXCEPT ![TmpOf(t)] = NoInode]
  /\ dir' = [dir EXCEPT ![key[t]] = fd[t]]
  /\ fd' = [fd EXCEPT ![t] = NoInode]
  /\ Goto(t, "idle")
  /\ UNCHANGED <<clock, data, lastEvict, key, val, evicting, reply, bounds, renamed>>

\* A write or the rename fails: the temporary file is removed and the put is
\* over.
WriteFails(t) ==
  /\ pc[t] \in {"created", "headed", "written"}
  /\ tmp' = [tmp EXCEPT ![TmpOf(t)] = NoInode]
  /\ fd' = [fd EXCEPT ![t] = NoInode]
  /\ Goto(t, "idle")
  /\ UNCHANGED <<clock, data, dir, lastEvict, key, val, evicting, reply,
                 bounds, renamed>>

\* rename, which cannot succeed when the temporary file is gone.  Only the transform cache
\* goes on to maybe_evict.
Rename(t) ==
  /\ pc[t] = "written"
  /\ fd' = [fd EXCEPT ![t] = NoInode]
  /\ tmp' = [tmp EXCEPT ![TmpOf(t)] = NoInode]
  /\ IF tmp[TmpOf(t)] = NoInode
       THEN Goto(t, "idle") /\ UNCHANGED <<dir, renamed>>
       ELSE /\ dir' = [dir EXCEPT ![key[t]] = tmp[TmpOf(t)]]
            /\ renamed' = [u \in Threads |-> TRUE]
            /\ Goto(t, IF key[t] \in OriginKeys \/ MaxBytes = 0 THEN "idle" ELSE "throttle")
  /\ UNCHANGED <<clock, data, lastEvict, key, val, evicting, reply, bounds>>

-----------------------------------------------------------------------------
(* maybe_evict and evict_to_limit *)

\* The clock and the shared timestamp are read, without a lock.
Throttle(t) ==
  /\ pc[t] = "throttle"
  /\ now' = [now EXCEPT ![t] = clock]
  /\ last' = [last EXCEPT ![t] = lastEvict]
  /\ Goto(t, IF clock - lastEvict < Interval THEN "idle" ELSE "swap")
  /\ UNCHANGED <<clock, fs, lastEvict, key, val, fd, victims, size, orphans,
                 reply, bounds, renamed>>

\* compare_exchange: one of the threads that saw the same timestamp goes on.
CompareExchange(t) ==
  /\ pc[t] = "swap"
  /\ IF lastEvict = last[t]
       THEN lastEvict' = now[t] /\ Goto(t, "scan")
       ELSE Goto(t, "idle") /\ UNCHANGED lastEvict
  /\ UNCHANGED <<clock, fs, key, val, fd, evicting, reply, bounds, renamed>>

\* Mutant: the walk leaves the origin directory out.
ScanSkipsOrigin(t) ==
  LET found == Entries \ OriginKeys
  IN /\ pc[t] = "scan"
     /\ victims' = [victims EXCEPT ![t] =
          {[key |-> k, size |-> SizeAt(dir[k]), mtime |-> data[dir[k]].mtime] : k \in found}]
     /\ size' = [size EXCEPT ![t] = MapThenSumSet(LAMBDA k : SizeAt(dir[k]), found)]
     /\ orphans' = [orphans EXCEPT ![t] =
          {p \in TmpPaths : tmp[p] # NoInode /\ Age(tmp[p]) > TTL}]
     /\ renamed' = [renamed EXCEPT ![t] = FALSE]
     /\ Goto(t, "orphans")
     /\ UNCHANGED <<clock, fs, lastEvict, key, val, fd, now, last, reply, bounds>>

\* The directory walk: entries of both caches with their size and time, and
\* the temporary files too old to have a writer.
Scan(t) ==
  /\ pc[t] = "scan"
  /\ victims' = [victims EXCEPT ![t] =
       {[key |-> k, size |-> SizeAt(dir[k]), mtime |-> data[dir[k]].mtime] : k \in Entries}]
  /\ size' = [size EXCEPT ![t] = TotalSize]
  /\ orphans' = [orphans EXCEPT ![t] =
       {p \in TmpPaths : tmp[p] # NoInode /\ Age(tmp[p]) > TTL}]
  /\ renamed' = [renamed EXCEPT ![t] = FALSE]
  /\ Goto(t, "orphans")
  /\ UNCHANGED <<clock, fs, lastEvict, key, val, fd, now, last, reply, bounds>>

RemoveOrphans(t) ==
  /\ pc[t] = "orphans"
  /\ tmp' = [p \in TmpPaths |-> IF p \in orphans[t] THEN NoInode ELSE tmp[p]]
  /\ orphans' = [orphans EXCEPT ![t] = {}]
  /\ Goto(t, "evict")
  /\ UNCHANGED <<clock, data, dir, lastEvict, key, val, fd, now, last, victims,
                 size, reply, bounds, renamed>>

\* The oldest entry of the scan is removed; one that is already gone frees
\* nothing.
EvictOne(t) ==
  /\ pc[t] = "evict"
  /\ size[t] > MaxBytes
  /\ \E e \in victims[t] :
       /\ \A f \in victims[t] : e.mtime <= f.mtime
       /\ victims' = [victims EXCEPT ![t] = @ \ {e}]
       /\ dir' = [dir EXCEPT ![e.key] = NoInode]
       /\ size' = [size EXCEPT ![t] = IF dir[e.key] = NoInode THEN @ ELSE @ - e.size]
  /\ UNCHANGED <<clock, data, tmp, lastEvict, pc, key, val, fd, now, last,
                 orphans, reply, bounds, renamed>>

EvictDone(t) ==
  /\ pc[t] = "evict"
  /\ size[t] <= MaxBytes \/ victims[t] = {}
  /\ victims' = [victims EXCEPT ![t] = {}]
  /\ Goto(t, "idle")
  /\ UNCHANGED <<clock, fs, lastEvict, key, val, fd, now, last, size, orphans,
                 reply, bounds, renamed>>

-----------------------------------------------------------------------------
(* The world around the cache *)

Tick ==
  /\ clock < MaxTime
  /\ clock' = clock + 1
  /\ UNCHANGED <<fs, lastEvict, pc, key, val, fd, evicting, reply, bounds, renamed>>

\* The process stops and is started again: files stay, memory does not.
Crash ==
  /\ faults < MaxFaults
  /\ faults' = faults + 1
  /\ pc' = [t \in Threads |-> "idle"]
  /\ fd' = [t \in Threads |-> NoInode]
  /\ victims' = [t \in Threads |-> {}]
  /\ orphans' = [t \in Threads |-> {}]
  /\ reply' = [t \in Threads |-> NoVal]
  /\ lastEvict' = 0
  /\ UNCHANGED <<clock, fs, key, val, now, last, size, puts, renamed>>

\* Something outside truss spoils the header of an entry.
Damage(k) ==
  /\ faults < MaxFaults
  /\ faults' = faults + 1
  /\ k \in Entries \ OriginKeys
  /\ data' = [data EXCEPT ![dir[k]].part = "garbage"]
  /\ UNCHANGED <<clock, dir, tmp, lastEvict, pc, key, val, fd, evicting, reply,
                 puts, renamed>>

Get(t) == Stat(t) \/ Read(t) \/ RemoveCorrupted(t)
Write(t) == WriteHeader(t) \/ WriteBody(t) \/ WriteFails(t) \/ Rename(t)
Evict(t) ==
  \/ Throttle(t) \/ CompareExchange(t) \/ Scan(t) \/ RemoveOrphans(t)
  \/ EvictOne(t) \/ EvictDone(t)

Next ==
  \/ \E t \in Threads, k \in Keys : Open(t, k)
  \/ \E t \in Threads, k \in Keys, v \in Vals : Create(t, k, v)
  \/ \E t \in Threads : Get(t) \/ Write(t) \/ Evict(t)
  \/ \E k \in Keys : Damage(k)
  \/ Tick
  \/ Crash

Spec == Init /\ [][Next]_vars

-----------------------------------------------------------------------------
(* Properties *)

Reading == {"opened", "fresh"}
Writing == {"created", "headed", "written"}
PCs == Reading \cup Writing
       \cup {"idle", "corrupt", "throttle", "swap", "scan", "orphans", "evict"}

\* Types of the state, and that a handle is held exactly where one is used.
TypeOK ==
  /\ clock \in Start..MaxTime
  /\ data \in [Inodes -> [val : Vals, part : Parts, mtime : 0..MaxTime]]
  /\ dir \in [Keys -> Inodes \cup {NoInode}]
  /\ tmp \in [TmpPaths -> Inodes \cup {NoInode}]
  /\ lastEvict \in 0..MaxTime
  /\ pc \in [Threads -> PCs]
  /\ key \in [Threads -> Keys] /\ val \in [Threads -> Vals]
  /\ fd \in [Threads -> Inodes \cup {NoInode}]
  /\ \A t \in Threads : fd[t] # NoInode <=> pc[t] \in Reading \cup Writing
  /\ now \in [Threads -> 0..MaxTime] /\ last \in [Threads -> 0..MaxTime]
  /\ victims \in [Threads -> SUBSET [key : Keys, size : Nat, mtime : 0..MaxTime]]
  /\ size \in [Threads -> Nat]
  /\ orphans \in [Threads -> SUBSET TmpPaths]
  /\ reply \in [Threads -> Vals \cup {NoVal}]
  /\ puts \in 0..MaxPuts /\ faults \in 0..MaxFaults
  /\ renamed \in [Threads -> BOOLEAN]

\* Write-to-tempfile-then-rename is atomic, "preventing readers from seeing
\* partial data" (cache.rs, TransformCache::put): whatever a path holds, unless
\* it was spoiled from outside, is one whole body.
EntriesComplete == \A k \in Entries : data[dir[k]].part \in {"whole", "garbage"}

\* The value a complete file stands for.
Whole(i) == IF data[i].part = "whole" THEN data[i].val ELSE NoVal

AC == INSTANCE AtomicCache WITH
  store <- [k \in Keys |-> IF dir[k] = NoInode THEN NoVal ELSE Whole(dir[k])],
  seen <- [t \in Threads |-> IF pc[t] \in Reading THEN Whole(fd[t]) ELSE NoVal]

\* The files implement the abstract cache: through renames over open files,
\* expiry, eviction, corruption and crashes, a lookup that hits gives a value
\* that was its key's entry while it ran, and a put takes effect at once.
RefinesAtomicCache == AC!Spec

\* An eviction pass that ends has brought the directory under its budget,
\* unless a put renamed a file after the scan; entries that other threads
\* removed meanwhile do not make it stop early.
EvictionReaches ==
  \A t \in Threads :
    /\ pc[t] = "evict" /\ ~renamed[t]
    /\ size[t] <= MaxBytes \/ victims[t] = {}
    => TotalSize <= MaxBytes

\* No path through put leaves a temporary file behind: without a crash, every
\* one of them belongs to a thread that is still writing.
NoTempLeak ==
  faults = 0 =>
    \A p \in TmpPaths : tmp[p] # NoInode => \E t \in Threads : pc[t] \in Writing /\ TmpOf(t) = p
=============================================================================
