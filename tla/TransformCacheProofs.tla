------------------------ MODULE TransformCacheProofs ------------------------
(***************************************************************************)
(* Theorems about TransformCache, for any number of workers, keys, bodies  *)
(* and files: what a path holds is complete, no put leaves its temporary   *)
(* file behind, the files implement AtomicCache, and an eviction pass      *)
(* reaches its budget.                                                     *)
(*                                                                         *)
(* The argument is about who may refer to an inode: the inode of a writer  *)
(* is referred to by nothing else than its own temporary path, so that     *)
(* what it writes cannot be seen before its rename.  The last part is      *)
(* about sums of sizes over sets of entries.                               *)
(***************************************************************************)
EXTENDS TransformCache, FiniteSetTheorems, WellFoundedInduction, TLAPS

-----------------------------------------------------------------------------
(* Types *)

\* The types of the files and of what a lookup or a put works with; the sizes
\* of an eviction pass have their place in EvictInv.
FileTypes ==
  /\ clock \in Start..MaxTime
  /\ data \in [Inodes -> [val : Vals, part : Parts, mtime : 0..MaxTime]]
  /\ dir \in [Keys -> Inodes \cup {NoInode}]
  /\ tmp \in [TmpPaths -> Inodes \cup {NoInode}]
  /\ pc \in [Threads -> PCs]
  /\ key \in [Threads -> Keys] /\ val \in [Threads -> Vals]
  /\ fd \in [Threads -> Inodes \cup {NoInode}]
  /\ \A t \in Threads : fd[t] # NoInode <=> pc[t] \in Reading \cup Writing
  /\ DOMAIN victims = Threads /\ \A t \in Threads : \A e \in victims[t] : e.key \in Keys
  /\ reply \in [Threads -> Vals \cup {NoVal}]
  /\ faults \in Nat

LEMMA TypeInit == Init => FileTypes
<1>. SUFFICES ASSUME Init PROVE FileTypes
  OBVIOUS
<1>1. (CHOOSE v \in Vals : TRUE) \in Vals
  BY CacheAssumption
<1>2. data \in [Inodes -> [val : Vals, part : Parts, mtime : 0..MaxTime]]
  BY <1>1, CacheAssumption DEF Init, Parts
<1>. QED  BY <1>2, CacheAssumption DEF Init, FileTypes, PCs, Reading, Writing

\* The temporary path a put of thread t for key k writes.
LEMMA TmpPathType ==
  ASSUME NEW t \in Threads, NEW k \in Keys
  PROVE  <<k, NameOf[t]>> \in TmpPaths
BY CacheAssumption DEF TmpPaths

\* The inode a put gets: its leftover temporary file, or an inode nobody uses.
Fresh(p) == IF tmp[p] = NoInode THEN CHOOSE j \in Free : TRUE ELSE tmp[p]

LEMMA FreshType ==
  ASSUME FileTypes, NEW p \in TmpPaths, Free # {}
  PROVE  /\ Fresh(p) \in Inodes /\ Fresh(p) # NoInode
         /\ tmp[p] = NoInode => Fresh(p) \in Free
<1>1. (CHOOSE j \in Free : TRUE) \in Free
  OBVIOUS
<1>2. Free \subseteq Inodes
  BY DEF Free
<1>. QED  BY <1>1, <1>2, CacheAssumption DEF Fresh, FileTypes

LEMMA TypeStep ==
  ASSUME FileTypes, [Next]_vars
  PROVE  FileTypes'
<1>. USE CacheAssumption DEF FileTypes, PCs, Reading, Writing, Goto, fs, evicting, bounds
<1>0. clock \in 0..MaxTime /\ {"empty", "header", "whole", "mixed", "garbage"} \subseteq Parts
  BY DEF Parts
<1>1. ASSUME NEW t \in Threads, NEW k \in Keys, Open(t, k) PROVE FileTypes'
  BY <1>1 DEF Open
<1>2. ASSUME NEW t \in Threads, NEW k \in Keys, NEW v \in Vals, Create(t, k, v) PROVE FileTypes'
  <2>. DEFINE p == <<k, NameOf[t]>>
              i == Fresh(p)
  <2>1. p \in TmpPaths /\ i \in Inodes /\ i # NoInode
    BY <1>2, TmpPathType, FreshType DEF Create
  <2>2. /\ data' = [data EXCEPT ![i] = [val |-> v, part |-> "empty", mtime |-> clock]]
        /\ tmp' = [tmp EXCEPT ![p] = i] /\ fd' = [fd EXCEPT ![t] = i]
    BY <1>2 DEF Create, Fresh
  <2>. HIDE DEF p, i
  <2>3. data' \in [Inodes -> [val : Vals, part : Parts, mtime : 0..MaxTime]]
    BY <1>0, <2>1, <2>2
  <2>4. /\ tmp' \in [TmpPaths -> Inodes \cup {NoInode}]
        /\ fd' \in [Threads -> Inodes \cup {NoInode}]
    BY <2>1, <2>2
  <2>5. /\ key' \in [Threads -> Keys] /\ val' \in [Threads -> Vals]
        /\ pc' = [pc EXCEPT ![t] = "created"] /\ pc' \in [Threads -> PCs]
        /\ UNCHANGED <<clock, dir, victims, reply, faults>>
    BY <1>2 DEF Create
  <2>6. \A u \in Threads : fd'[u] # NoInode <=> pc'[u] \in Reading \cup Writing
    BY <2>1, <2>2, <2>5
  <2>. QED  BY <2>3, <2>4, <2>5, <2>6
<1>3. ASSUME NEW t \in Threads, Stat(t) PROVE FileTypes'
  <2>1. CASE Age(fd[t]) > TTL
    <3>1. /\ pc' = [pc EXCEPT ![t] = "idle"] /\ fd' = [fd EXCEPT ![t] = NoInode]
          /\ UNCHANGED <<clock, data, dir, tmp, key, val, victims, reply, faults>>
      BY <1>3, <2>1 DEF Stat
    <3>. QED  BY <3>1
  <2>2. CASE ~(Age(fd[t]) > TTL)
    BY <1>3, <2>2 DEF Stat
  <2>. QED  BY <2>1, <2>2
<1>4. ASSUME NEW t \in Threads, Read(t) PROVE FileTypes'
  <2>1. fd[t] \in Inodes /\ data[fd[t]].val \in Vals
    BY <1>4 DEF Read
  <2>. QED  BY <1>4, <2>1 DEF Read
<1>5. ASSUME NEW t \in Threads, RemoveCorrupted(t) PROVE FileTypes'
  BY <1>5 DEF RemoveCorrupted
<1>6. ASSUME NEW t \in Threads, WriteHeader(t) PROVE FileTypes'
  <2>1. fd[t] \in Inodes
    BY <1>6 DEF WriteHeader
  <2>2. data' \in [Inodes -> [val : Vals, part : Parts, mtime : 0..MaxTime]]
    BY <1>0, <1>6, <2>1 DEF WriteHeader
  <2>. QED  BY <1>6, <2>2 DEF WriteHeader
<1>7. ASSUME NEW t \in Threads, WriteBody(t) PROVE FileTypes'
  <2>1. fd[t] \in Inodes
    BY <1>7 DEF WriteBody
  <2>2. data' \in [Inodes -> [val : Vals, part : Parts, mtime : 0..MaxTime]]
    BY <1>0, <1>7, <2>1 DEF WriteBody
  <2>. QED  BY <1>7, <2>2 DEF WriteBody
<1>8. ASSUME NEW t \in Threads, WriteFails(t) PROVE FileTypes'
  BY <1>8 DEF WriteFails
<1>9. ASSUME NEW t \in Threads, Rename(t) PROVE FileTypes'
  <2>1. TmpOf(t) \in TmpPaths
    BY TmpPathType DEF TmpOf
  <2>2. CASE tmp[TmpOf(t)] = NoInode
    <3>1. /\ pc' = [pc EXCEPT ![t] = "idle"] /\ fd' = [fd EXCEPT ![t] = NoInode]
          /\ tmp' = [tmp EXCEPT ![TmpOf(t)] = NoInode]
          /\ UNCHANGED <<clock, data, dir, key, val, victims, reply, faults>>
      BY <1>9, <2>2 DEF Rename
    <3>. QED  BY <2>1, <3>1
  <2>3. CASE tmp[TmpOf(t)] # NoInode
    <3>1. PICK l \in {"idle", "throttle"} : pc' = [pc EXCEPT ![t] = l]
      BY <1>9, <2>3 DEF Rename
    <3>2. /\ dir' = [dir EXCEPT ![key[t]] = tmp[TmpOf(t)]] /\ tmp[TmpOf(t)] \in Inodes
          /\ tmp' = [tmp EXCEPT ![TmpOf(t)] = NoInode] /\ fd' = [fd EXCEPT ![t] = NoInode]
          /\ UNCHANGED <<clock, data, key, val, victims, reply, faults>>
      BY <1>9, <2>1, <2>3 DEF Rename
    <3>. QED  BY <2>1, <3>1, <3>2
  <2>. QED  BY <2>2, <2>3
<1>10. ASSUME NEW t \in Threads, Throttle(t) \/ CompareExchange(t) PROVE FileTypes'
  BY <1>10 DEF Throttle, CompareExchange
<1>11. ASSUME NEW t \in Threads, Scan(t) PROVE FileTypes'
  <2>1. \A u \in Threads : \A e \in victims'[u] : e.key \in Keys
    BY <1>11 DEF Scan, Entries
  <2>2. DOMAIN victims' = Threads
    BY <1>11 DEF Scan
  <2>. QED  BY <1>11, <2>1, <2>2 DEF Scan
<1>12. ASSUME NEW t \in Threads, RemoveOrphans(t) PROVE FileTypes'
  BY <1>12 DEF RemoveOrphans
<1>13. ASSUME NEW t \in Threads, EvictOne(t) PROVE FileTypes'
  BY <1>13 DEF EvictOne
<1>14. ASSUME NEW t \in Threads, EvictDone(t) PROVE FileTypes'
  BY <1>14 DEF EvictDone
<1>15. ASSUME NEW k \in Keys, Damage(k) PROVE FileTypes'
  <2>1. dir[k] \in Inodes
    BY <1>15 DEF Damage, Entries
  <2>2. data' \in [Inodes -> [val : Vals, part : Parts, mtime : 0..MaxTime]]
    BY <1>0, <1>15, <2>1 DEF Damage
  <2>. QED  BY <1>15, <2>2 DEF Damage
<1>16. CASE Tick
  BY <1>16 DEF Tick
<1>17. CASE Crash
  BY <1>17 DEF Crash
<1>18. CASE UNCHANGED vars
  BY <1>18 DEF vars
<1>. QED
  BY <1>1, <1>2, <1>3, <1>4, <1>5, <1>6, <1>7, <1>8, <1>9, <1>10, <1>11, <1>12, <1>13,
     <1>14, <1>15, <1>16, <1>17, <1>18 DEF Next, Get, Write, Evict

-----------------------------------------------------------------------------
(* Who refers to an inode *)

\* No two paths are the same file.
PathsApart ==
  /\ \A k, l \in Keys : dir[k] = dir[l] /\ dir[k] # NoInode => k = l
  /\ \A p, q \in TmpPaths : tmp[p] = tmp[q] /\ tmp[p] # NoInode => p = q
  /\ \A k \in Keys, p \in TmpPaths : tmp[p] # NoInode => dir[k] # tmp[p]

\* A lookup has no temporary file open, nor one that is being written.
ReadersApart ==
  \A t \in Threads : pc[t] \in Reading =>
    /\ \A p \in TmpPaths : tmp[p] # fd[t]
    /\ \A u \in Threads : pc[u] \in Writing => fd[u] # fd[t]

\* The file a put writes is nowhere but at the put's own temporary path, unless
\* a sweep of abandoned files has removed it from there.
WritersApart ==
  \A t \in Threads : pc[t] \in Writing =>
    /\ \A k \in Keys : dir[k] # fd[t]
    /\ \A u \in Threads : u # t /\ pc[u] \in Writing => fd[u] # fd[t]
    /\ \A p \in TmpPaths : tmp[p] = fd[t] => p = TmpOf(t)
    /\ tmp[TmpOf(t)] \in {NoInode, fd[t]}

FilesApart == PathsApart /\ ReadersApart /\ WritersApart

-----------------------------------------------------------------------------
(* What the files hold *)

\* The origin cache has no header that could be spoiled.
Sound(i, k) == data[i].part = "whole" \/ (data[i].part = "garbage" /\ k \notin OriginKeys)

EntriesSound == \A k \in Keys : dir[k] # NoInode => Sound(dir[k], k)

\* The file of a lookup is sound, and one of the origin cache is not an entry
\* of the other.
ReadersSound ==
  \A t \in Threads : pc[t] \in Reading =>
    /\ Sound(fd[t], key[t]) /\ reply[t] = NoVal
    /\ key[t] \in OriginKeys => \A k \in Keys \ OriginKeys : dir[k] # fd[t]

\* A put's file holds what it has written.
WritersSound ==
  \A t \in Threads :
    /\ pc[t] = "headed" => data[fd[t]].val = val[t] /\ data[fd[t]].part = "header"
    /\ pc[t] = "written" => data[fd[t]].val = val[t] /\ data[fd[t]].part = "whole"

FilesSound == EntriesSound /\ ReadersSound /\ WritersSound

\* The inductive invariant.
CacheInv == FileTypes /\ FilesApart /\ FilesSound

LEMMA CacheInit == Init => CacheInv
<1>. SUFFICES ASSUME Init PROVE CacheInv
  OBVIOUS
<1>1. /\ \A t \in Threads : pc[t] \notin Reading \cup Writing
      /\ \A k \in Keys : dir[k] = NoInode
      /\ \A p \in TmpPaths : tmp[p] = NoInode
  BY DEF Init, Reading, Writing
<1>2. FilesApart
  BY <1>1 DEF FilesApart, PathsApart, ReadersApart, WritersApart
<1>3. FilesSound
  BY <1>1 DEF FilesSound, EntriesSound, ReadersSound, WritersSound, Writing
<1>. QED  BY <1>2, <1>3, TypeInit DEF CacheInv

\* A step in which references only go away.
Releases ==
  /\ \A k \in Keys : dir'[k] \in {dir[k], NoInode}
  /\ \A p \in TmpPaths : tmp'[p] \in {tmp[p], NoInode}
  /\ \A t \in Threads :
       /\ pc'[t] \in Reading => pc[t] \in Reading
       /\ pc'[t] \in Writing => pc[t] \in Writing
       /\ pc'[t] \in Reading \cup Writing => fd'[t] = fd[t] /\ key'[t] = key[t]

LEMMA ReleasesApart ==
  ASSUME FileTypes, FilesApart, Releases
  PROVE  FilesApart'
<1>0. \A t \in Threads : pc[t] \in Reading \cup Writing => fd[t] # NoInode
  BY DEF FileTypes
<1>1. PathsApart'
  BY DEF FilesApart, PathsApart, Releases
<1>2. ReadersApart'
  BY <1>0 DEF FilesApart, ReadersApart, Releases
<1>3. WritersApart'
  <2>1. ASSUME NEW t \in Threads, pc'[t] \in Writing
        PROVE  /\ pc[t] \in Writing /\ fd'[t] = fd[t] /\ TmpOf(t)' = TmpOf(t)
               /\ TmpOf(t) \in TmpPaths /\ fd[t] # NoInode
    BY <1>0, <2>1, TmpPathType DEF Releases, TmpOf, FileTypes
  <2>. SUFFICES ASSUME NEW t \in Threads, pc'[t] \in Writing
                PROVE  /\ \A k \in Keys : dir'[k] # fd'[t]
                       /\ \A u \in Threads : u # t /\ pc'[u] \in Writing => fd'[u] # fd'[t]
                       /\ \A p \in TmpPaths : tmp'[p] = fd'[t] => p = TmpOf(t)'
                       /\ tmp'[TmpOf(t)'] \in {NoInode, fd'[t]}
    BY DEF WritersApart
  <2>2. /\ \A k \in Keys : dir'[k] # fd'[t]
        /\ \A u \in Threads : u # t /\ pc'[u] \in Writing => fd'[u] # fd'[t]
    BY <2>1 DEF FilesApart, WritersApart, Releases
  <2>3. /\ \A p \in TmpPaths : tmp'[p] = fd'[t] => p = TmpOf(t)'
        /\ tmp'[TmpOf(t)'] \in {NoInode, fd'[t]}
    BY <2>1 DEF FilesApart, WritersApart, Releases
  <2>. QED  BY <2>2, <2>3
<1>. QED  BY <1>1, <1>2, <1>3 DEF FilesApart

LEMMA OpenApart ==
  ASSUME FileTypes, FilesApart, NEW t \in Threads, NEW k \in Keys, Open(t, k)
  PROVE  FilesApart'
<1>. USE DEF FileTypes
<1>0. /\ pc[t] = "idle" /\ UNCHANGED <<dir, tmp>>
      /\ fd' = [fd EXCEPT ![t] = dir[k]] /\ key' = [key EXCEPT ![t] = k]
      /\ pc' = [pc EXCEPT ![t] = IF dir[k] = NoInode THEN "idle" ELSE "opened"]
  BY DEF Open, Goto, fs
<1>1. /\ pc'[t] \notin Writing /\ pc[t] \notin Writing /\ (pc'[t] \in Reading => dir[k] # NoInode)
      /\ \A u \in Threads \ {t} : pc'[u] = pc[u] /\ fd'[u] = fd[u] /\ key'[u] = key[u]
      /\ fd'[t] = dir[k]
  BY <1>0 DEF Reading, Writing
<1>2. PathsApart'
  BY <1>0 DEF FilesApart, PathsApart
<1>3. ReadersApart'
  <2>1. ASSUME NEW u \in Threads, pc'[u] \in Reading, u # t
        PROVE  /\ \A p \in TmpPaths : tmp'[p] # fd'[u]
               /\ \A w \in Threads : pc'[w] \in Writing => fd'[w] # fd'[u]
    BY <1>0, <1>1, <2>1 DEF FilesApart, ReadersApart
  <2>2. ASSUME pc'[t] \in Reading
        PROVE  /\ \A p \in TmpPaths : tmp'[p] # fd'[t]
               /\ \A w \in Threads : pc'[w] \in Writing => fd'[w] # fd'[t]
    BY <1>0, <1>1, <2>2 DEF FilesApart, PathsApart, WritersApart
  <2>. QED  BY <2>1, <2>2 DEF ReadersApart
<1>4. WritersApart'
  <2>1. \A u \in Threads : pc'[u] \in Writing =>
           u # t /\ pc[u] \in Writing /\ fd'[u] = fd[u] /\ TmpOf(u)' = TmpOf(u)
    BY <1>1 DEF TmpOf
  <2>. QED  BY <1>0, <2>1 DEF FilesApart, WritersApart
<1>. QED  BY <1>2, <1>3, <1>4 DEF FilesApart

\* The inode a put gets is not an entry, nor open anywhere, nor at another path.
LEMMA FreshApart ==
  ASSUME FileTypes, FilesApart, NEW t \in Threads, NEW k \in Keys, Free # {},
         NEW p, p = <<k, NameOf[t]>>, pc[t] = "idle"
  PROVE  /\ \A l \in Keys : dir[l] # Fresh(p)
         /\ \A q \in TmpPaths : tmp[q] = Fresh(p) => q = p
         /\ \A u \in Threads : pc[u] \in Reading \cup Writing => fd[u] # Fresh(p)
<1>0. p \in TmpPaths
  BY TmpPathType
<1>1. CASE tmp[p] = NoInode
  <2>1. Fresh(p) \in Free
    BY <1>0, <1>1, FreshType
  <2>. QED  BY <2>1 DEF Free, Linked
<1>2. CASE tmp[p] # NoInode
  <2>1. Fresh(p) = tmp[p]
    BY <1>2 DEF Fresh
  <2>2. \A u \in Threads : pc[u] \in Writing => fd[u] # tmp[p]
    <3>1. ASSUME NEW u \in Threads, pc[u] \in Writing, fd[u] = tmp[p] PROVE FALSE
      <4>1. p = TmpOf(u)
        BY <1>0, <3>1 DEF FilesApart, WritersApart
      <4>2. NameOf[t] = NameOf[u]
        BY <4>1 DEF TmpOf
      <4>. QED  BY <3>1, <4>2, CacheAssumption DEF Writing
    <3>. QED  BY <3>1
  <2>. QED  BY <1>0, <1>2, <2>1, <2>2 DEF FilesApart, PathsApart, ReadersApart
<1>. QED  BY <1>1, <1>2

LEMMA CreateApart ==
  ASSUME FileTypes, FilesApart, NEW t \in Threads, NEW k \in Keys, NEW v \in Vals,
         Create(t, k, v)
  PROVE  FilesApart'
<1>. DEFINE p == <<k, NameOf[t]>>
            i == Fresh(p)
<1>0. /\ p \in TmpPaths /\ i \in Inodes /\ i # NoInode /\ pc[t] = "idle" /\ Free # {}
  BY TmpPathType, FreshType DEF Create
<1>1. /\ tmp' = [tmp EXCEPT ![p] = i] /\ fd' = [fd EXCEPT ![t] = i] /\ dir' = dir
      /\ key' = [key EXCEPT ![t] = k] /\ pc' = [pc EXCEPT ![t] = "created"]
  BY DEF Create, Fresh, Goto
<1>2. /\ \A l \in Keys : dir[l] # i
      /\ \A q \in TmpPaths : tmp[q] = i => q = p
      /\ \A u \in Threads : pc[u] \in Reading \cup Writing => fd[u] # i
  BY <1>0, FreshApart
<1>3. TmpOf(t)' = p
  BY <1>1 DEF TmpOf, FileTypes
<1>. HIDE DEF p, i
<1>4. /\ pc'[t] \in Writing /\ pc'[t] \notin Reading /\ fd'[t] = i /\ tmp'[p] = i
      /\ \A q \in TmpPaths \ {p} : tmp'[q] = tmp[q]
      /\ \A u \in Threads \ {t} : pc'[u] = pc[u] /\ fd'[u] = fd[u] /\ TmpOf(u)' = TmpOf(u)
  BY <1>0, <1>1 DEF FileTypes, Reading, Writing, TmpOf
<1>5. PathsApart'
  BY <1>1, <1>2, <1>4 DEF FilesApart, PathsApart
<1>6. ReadersApart'
  BY <1>2, <1>4 DEF FilesApart, ReadersApart
<1>7. WritersApart'
  <2>1. ASSUME NEW u \in Threads, u # t, pc'[u] \in Writing
        PROVE  /\ \A l \in Keys : dir'[l] # fd'[u]
               /\ \A w \in Threads : w # u /\ pc'[w] \in Writing => fd'[w] # fd'[u]
               /\ \A q \in TmpPaths : tmp'[q] = fd'[u] => q = TmpOf(u)'
               /\ tmp'[TmpOf(u)'] \in {NoInode, fd'[u]}
    <3>1. pc[u] \in Writing /\ fd'[u] = fd[u] /\ TmpOf(u)' = TmpOf(u) /\ fd[u] # i
      BY <1>2, <1>4, <2>1
    <3>2. TmpOf(u) # p /\ TmpOf(u) \in TmpPaths
      BY <2>1, CacheAssumption, TmpPathType DEF TmpOf, p, FileTypes
    <3>3. \A l \in Keys : dir'[l] # fd'[u]
      BY <1>1, <3>1 DEF FilesApart, WritersApart
    <3>4. \A w \in Threads : w # u /\ pc'[w] \in Writing => fd'[w] # fd'[u]
      BY <1>4, <3>1 DEF FilesApart, WritersApart
    <3>5. \A q \in TmpPaths : tmp'[q] = fd'[u] => q = TmpOf(u)
      BY <1>4, <3>1 DEF FilesApart, WritersApart
    <3>6. tmp'[TmpOf(u)] \in {NoInode, fd'[u]}
      BY <1>4, <3>1, <3>2 DEF FilesApart, WritersApart
    <3>. QED  BY <3>1, <3>3, <3>4, <3>5, <3>6
  <2>2. /\ \A l \in Keys : dir'[l] # fd'[t]
        /\ \A w \in Threads : w # t /\ pc'[w] \in Writing => fd'[w] # fd'[t]
        /\ \A q \in TmpPaths : tmp'[q] = fd'[t] => q = TmpOf(t)'
        /\ tmp'[TmpOf(t)'] \in {NoInode, fd'[t]}
    BY <1>1, <1>2, <1>3, <1>4
  <2>. QED  BY <2>1, <2>2 DEF WritersApart
<1>. QED  BY <1>5, <1>6, <1>7 DEF FilesApart

\* A rename that finds its temporary file moves it from there to the entry.
LEMMA RenameApart ==
  ASSUME FileTypes, FilesApart, NEW t \in Threads, Rename(t), tmp[TmpOf(t)] # NoInode
  PROVE  FilesApart'
<1>. DEFINE p == TmpOf(t)
            i == tmp[p]
            c == key[t]
<1>0. p \in TmpPaths /\ c \in Keys /\ pc[t] \in Writing /\ i # NoInode /\ fd[t] = i
  BY TmpPathType DEF Rename, FileTypes, TmpOf, Writing, FilesApart, WritersApart
<1>1. /\ dir' = [dir EXCEPT ![c] = i] /\ tmp' = [tmp EXCEPT ![p] = NoInode] /\ key' = key
      /\ fd' = [fd EXCEPT ![t] = NoInode]
      /\ \E l \in {"idle", "throttle"} : pc' = [pc EXCEPT ![t] = l]
  BY DEF Rename, Goto
<1>. HIDE DEF p, i, c
<1>2. /\ dir'[c] = i /\ \A k \in Keys \ {c} : dir'[k] = dir[k]
      /\ tmp'[p] = NoInode /\ \A q \in TmpPaths \ {p} : tmp'[q] = tmp[q] /\ tmp[q] # i
      /\ pc'[t] \notin Reading \cup Writing
      /\ \A u \in Threads \ {t} : pc'[u] = pc[u] /\ fd'[u] = fd[u] /\ TmpOf(u)' = TmpOf(u)
  BY <1>0, <1>1 DEF FileTypes, Reading, Writing, TmpOf, FilesApart, PathsApart, i
<1>3. \A k \in Keys : dir[k] # i
  BY <1>0 DEF FilesApart, WritersApart
<1>4. PathsApart'
  BY <1>0, <1>2, <1>3 DEF FilesApart, PathsApart
<1>5. ReadersApart'
  <2>1. \A u \in Threads : pc[u] \in Reading \cup Writing => fd[u] # NoInode
    BY DEF FileTypes
  <2>. QED  BY <1>2, <2>1 DEF FilesApart, ReadersApart
<1>6. WritersApart'
  <2>1. \A u \in Threads : pc'[u] \in Writing =>
           /\ u # t /\ pc[u] \in Writing /\ fd'[u] = fd[u] /\ fd[u] # i /\ fd[u] # NoInode
           /\ TmpOf(u)' = TmpOf(u)
    BY <1>0, <1>2 DEF FilesApart, WritersApart, FileTypes
  <2>2. \A u \in Threads : pc'[u] \in Writing =>
           /\ \A k \in Keys : dir'[k] # fd'[u]
           /\ \A w \in Threads : w # u /\ pc'[w] \in Writing => fd'[w] # fd'[u]
    BY <1>2, <2>1 DEF FilesApart, WritersApart
  <2>3. \A u \in Threads : TmpOf(u) \in TmpPaths
    BY TmpPathType DEF TmpOf, FileTypes
  <2>4. \A u \in Threads : pc'[u] \in Writing =>
           /\ \A q \in TmpPaths : tmp'[q] = fd'[u] => q = TmpOf(u)
           /\ tmp'[TmpOf(u)] \in {NoInode, fd'[u]}
    BY <1>2, <2>1, <2>3 DEF FilesApart, WritersApart
  <2>. QED  BY <2>1, <2>2, <2>4 DEF WritersApart
<1>. QED  BY <1>4, <1>5, <1>6 DEF FilesApart

-----------------------------------------------------------------------------
(* What each step does to the contents *)

\* The steps that only let go of files and write nothing.
Lets ==
  /\ Releases
  /\ UNCHANGED <<data, val>>
  /\ \A t \in Threads : pc'[t] \in {"headed", "written"} => pc'[t] = pc[t]
  /\ \A t \in Threads : pc'[t] \in Reading => reply'[t] = reply[t]

LEMMA LetsSound ==
  ASSUME CacheInv, Lets
  PROVE  FilesSound'
<1>. USE DEF CacheInv, FileTypes, FilesSound, Lets, Releases
<1>0. \A t \in Threads : pc[t] \in Reading \cup Writing => fd[t] # NoInode
  OBVIOUS
<1>1. EntriesSound'
  BY DEF EntriesSound, Sound
<1>2. ReadersSound'
  BY <1>0 DEF ReadersSound, Sound
<1>3. WritersSound'
  BY DEF WritersSound, Writing
<1>. QED  BY <1>1, <1>2, <1>3

\* What is written to a put's own file is seen by nobody else.
LEMMA WriteSound ==
  ASSUME CacheInv, NEW t \in Threads, NEW d, NEW l \in {"headed", "written"},
         pc[t] \in Writing, pc' = [pc EXCEPT ![t] = l],
         data' = [data EXCEPT ![fd[t]] = d],
         d.val = val[t], d.part = (IF l = "headed" THEN "header" ELSE "whole"),
         UNCHANGED <<dir, tmp, key, val, fd, reply>>
  PROVE  FilesSound'
<1>0. fd[t] \in Inodes /\ pc'[t] = l /\ pc'[t] \notin Reading
      /\ \A u \in Threads \ {t} : pc'[u] = pc[u]
  BY DEF CacheInv, FileTypes, Reading
<1>1. data'[fd[t]] = d /\ \A i \in Inodes \ {fd[t]} : data'[i] = data[i]
  BY <1>0 DEF CacheInv, FileTypes
<1>2. EntriesSound'
  <2>1. \A k \in Keys : dir[k] # NoInode => dir[k] \in Inodes \ {fd[t]}
    BY DEF CacheInv, FileTypes, FilesApart, WritersApart
  <2>. QED  BY <1>1, <2>1 DEF CacheInv, FilesSound, EntriesSound, Sound
<1>3. ReadersSound'
  <2>1. \A u \in Threads : pc[u] \in Reading => fd[u] \in Inodes \ {fd[t]}
    BY DEF CacheInv, FileTypes, FilesApart, ReadersApart
  <2>. QED  BY <1>0, <1>1, <2>1 DEF CacheInv, FilesSound, ReadersSound, Sound
<1>4. WritersSound'
  <2>1. \A u \in Threads : u # t /\ pc[u] \in Writing => fd[u] \in Inodes \ {fd[t]}
    BY DEF CacheInv, FileTypes, FilesApart, WritersApart
  <2>2. {"headed", "written"} \subseteq Writing
    BY DEF Writing
  <2>3. ASSUME NEW u \in Threads, u # t, pc'[u] \in {"headed", "written"}
        PROVE  pc[u] = pc'[u] /\ data'[fd[u]] = data[fd[u]]
    BY <1>0, <1>1, <2>1, <2>2, <2>3
  <2>. QED  BY <1>0, <1>1, <2>3 DEF CacheInv, FilesSound, WritersSound
<1>. QED  BY <1>2, <1>3, <1>4 DEF FilesSound

LEMMA OpenSound ==
  ASSUME CacheInv, NEW t \in Threads, NEW k \in Keys, Open(t, k)
  PROVE  FilesSound'
<1>. USE DEF CacheInv, FileTypes, FilesSound
<1>0. /\ pc[t] = "idle" /\ UNCHANGED <<data, dir, val>>
      /\ fd' = [fd EXCEPT ![t] = dir[k]] /\ key' = [key EXCEPT ![t] = k]
      /\ reply' = [reply EXCEPT ![t] = NoVal]
      /\ pc' = [pc EXCEPT ![t] = IF dir[k] = NoInode THEN "idle" ELSE "opened"]
  BY DEF Open, Goto, fs
<1>1. /\ pc'[t] \notin Writing /\ (pc'[t] \in Reading => dir[k] # NoInode)
      /\ \A u \in Threads \ {t} : /\ pc'[u] = pc[u] /\ fd'[u] = fd[u] /\ key'[u] = key[u]
                                  /\ reply'[u] = reply[u]
      /\ fd'[t] = dir[k] /\ key'[t] = k /\ reply'[t] = NoVal
  BY <1>0 DEF Reading, Writing
<1>2. EntriesSound'
  BY <1>0 DEF EntriesSound, Sound
<1>3. ReadersSound'
  <2>1. ASSUME pc'[t] \in Reading
        PROVE  /\ Sound(fd[t], key[t])' /\ reply'[t] = NoVal
               /\ key'[t] \in OriginKeys => \A l \in Keys \ OriginKeys : dir'[l] # fd'[t]
    <3>1. Sound(dir[k], k) /\ dir[k] # NoInode
      BY <1>1, <2>1 DEF EntriesSound
    <3>. QED  BY <1>0, <1>1, <3>1, CacheAssumption DEF Sound, FilesApart, PathsApart
  <2>. QED  BY <1>0, <1>1, <2>1 DEF ReadersSound, Sound
<1>4. WritersSound'
  <2>1. {"headed", "written"} \subseteq Writing
    BY DEF Writing
  <2>. QED  BY <1>0, <1>1, <2>1 DEF WritersSound
<1>. QED  BY <1>2, <1>3, <1>4

LEMMA CreateSound ==
  ASSUME CacheInv, NEW t \in Threads, NEW k \in Keys, NEW v \in Vals, Create(t, k, v)
  PROVE  /\ FilesSound'
         /\ \A l \in Keys : dir[l] # NoInode => data'[dir[l]] = data[dir[l]]
         /\ \A u \in Threads : pc[u] \in Reading => data'[fd[u]] = data[fd[u]]
<1>. DEFINE p == <<k, NameOf[t]>>
            i == Fresh(p)
<1>0. /\ p \in TmpPaths /\ i \in Inodes /\ pc[t] = "idle" /\ Free # {}
  BY TmpPathType, FreshType DEF Create, CacheInv
<1>1. /\ \E d : data' = [data EXCEPT ![i] = d]
      /\ fd' = [fd EXCEPT ![t] = i] /\ dir' = dir /\ reply' = reply
      /\ key' = [key EXCEPT ![t] = k] /\ val' = [val EXCEPT ![t] = v]
      /\ pc' = [pc EXCEPT ![t] = "created"]
  BY DEF Create, Fresh, Goto
<1>2. /\ \A l \in Keys : dir[l] # i
      /\ \A u \in Threads : pc[u] \in Reading \cup Writing => fd[u] # i
  BY <1>0, FreshApart DEF CacheInv
<1>. HIDE DEF p, i
<1>. USE DEF CacheInv, FileTypes, FilesSound
<1>3. /\ \A l \in Keys : dir[l] # NoInode => data'[dir[l]] = data[dir[l]]
      /\ \A u \in Threads : pc[u] \in Reading \cup Writing => data'[fd[u]] = data[fd[u]]
  BY <1>0, <1>1, <1>2
<1>4. /\ pc'[t] = "created"
      /\ \A u \in Threads \ {t} : /\ pc'[u] = pc[u] /\ fd'[u] = fd[u] /\ key'[u] = key[u]
                                  /\ val'[u] = val[u]
  BY <1>1
<1>5. EntriesSound'
  BY <1>1, <1>3 DEF EntriesSound, Sound
<1>6. ReadersSound'
  BY <1>1, <1>3, <1>4 DEF ReadersSound, Sound, Reading
<1>7. WritersSound'
  BY <1>3, <1>4 DEF WritersSound, Writing
<1>. QED  BY <1>3, <1>5, <1>6, <1>7

\* The renamed file is the put's own, and complete.
LEMMA RenameSound ==
  ASSUME CacheInv, NEW t \in Threads, Rename(t), tmp[TmpOf(t)] # NoInode
  PROVE  /\ FilesSound'
         /\ tmp[TmpOf(t)] = fd[t] /\ data[fd[t]].part = "whole" /\ data[fd[t]].val = val[t]
<1>. DEFINE i == tmp[TmpOf(t)]
            c == key[t]
<1>0. /\ TmpOf(t) \in TmpPaths /\ c \in Keys /\ pc[t] = "written" /\ pc[t] \in Writing
  BY TmpPathType DEF Rename, CacheInv, FileTypes, TmpOf, Writing
<1>1. fd[t] = i /\ data[i].part = "whole" /\ data[i].val = val[t]
  BY <1>0 DEF CacheInv, FilesApart, WritersApart, FilesSound, WritersSound
<1>2. /\ dir' = [dir EXCEPT ![c] = i] /\ UNCHANGED <<data, key, val, reply>>
      /\ fd' = [fd EXCEPT ![t] = NoInode]
      /\ \E l \in {"idle", "throttle"} : pc' = [pc EXCEPT ![t] = l]
  BY DEF Rename, Goto
<1>3. /\ dir'[c] = i /\ \A k \in Keys \ {c} : dir'[k] = dir[k]
      /\ pc'[t] \notin Reading /\ pc'[t] \notin {"headed", "written"}
      /\ \A u \in Threads \ {t} : pc'[u] = pc[u] /\ fd'[u] = fd[u]
  BY <1>0, <1>2 DEF CacheInv, FileTypes, Reading
<1>4. \A u \in Threads : pc[u] \in Reading => fd[u] # i
  BY <1>0, <1>1 DEF CacheInv, FilesApart, ReadersApart
<1>. HIDE DEF i, c
<1>5. EntriesSound'
  BY <1>1, <1>2, <1>3 DEF CacheInv, FilesSound, EntriesSound, Sound
<1>6. ReadersSound'
  BY <1>2, <1>3, <1>4 DEF CacheInv, FilesSound, ReadersSound, Sound
<1>7. WritersSound'
  BY <1>2, <1>3 DEF CacheInv, FilesSound, WritersSound
<1>. QED  BY <1>1, <1>5, <1>6, <1>7 DEF FilesSound, i

LEMMA DamageSound ==
  ASSUME CacheInv, NEW k \in Keys, Damage(k)
  PROVE  FilesSound'
<1>. USE DEF CacheInv, FileTypes, FilesSound
<1>0. /\ k \notin OriginKeys /\ dir[k] \in Inodes /\ dir[k] # NoInode
      /\ data' = [data EXCEPT ![dir[k]].part = "garbage"]
      /\ UNCHANGED <<dir, pc, key, val, fd, reply>>
  BY DEF Damage, Entries
<1>1. /\ data'[dir[k]].part = "garbage"
      /\ \A i \in Inodes \ {dir[k]} : data'[i] = data[i]
  BY <1>0
<1>2. EntriesSound'
  <2>1. \A l \in Keys \ {k} : dir[l] # NoInode => dir[l] \in Inodes \ {dir[k]}
    BY <1>0 DEF FilesApart, PathsApart
  <2>. QED  BY <1>0, <1>1, <2>1 DEF EntriesSound, Sound
<1>3. ReadersSound'
  <2>1. \A t \in Threads : pc[t] \in Reading =>
           fd[t] \in Inodes /\ (fd[t] = dir[k] => key[t] \notin OriginKeys)
    BY <1>0 DEF ReadersSound
  <2>. QED  BY <1>0, <1>1, <2>1 DEF ReadersSound, Sound
<1>4. WritersSound'
  <2>1. \A t \in Threads : pc[t] \in Writing => fd[t] \in Inodes \ {dir[k]}
    BY DEF FilesApart, WritersApart
  <2>. QED  BY <1>0, <1>1, <2>1 DEF WritersSound, Writing
<1>. QED  BY <1>2, <1>3, <1>4

\* The steps of a thread that write nothing and open nothing.
LetsGo(t) ==
  \/ Stat(t) \/ Read(t) \/ RemoveCorrupted(t)
  \/ WriteFails(t) \/ (Rename(t) /\ tmp[TmpOf(t)] = NoInode)
  \/ Evict(t)

LEMMA ThreadLets ==
  ASSUME CacheInv, NEW t \in Threads, LetsGo(t)
  PROVE  Lets
<1>. USE DEF CacheInv, FileTypes, Lets, Releases, Goto, fs, evicting, bounds, Reading, Writing
<1>1. CASE Stat(t)
  <2>1. CASE Age(fd[t]) > TTL
    <3>1. /\ pc' = [pc EXCEPT ![t] = "idle"] /\ fd' = [fd EXCEPT ![t] = NoInode]
          /\ UNCHANGED <<data, dir, tmp, key, val, reply>>
      BY <1>1, <2>1 DEF Stat
    <3>. QED  BY <3>1
  <2>2. CASE ~(Age(fd[t]) > TTL)
    BY <1>1, <2>2 DEF Stat
  <2>. QED  BY <2>1, <2>2
<1>2. CASE Read(t)
  <2>1. /\ \E l \in {"idle", "corrupt"} : pc' = [pc EXCEPT ![t] = l]
        /\ reply' = reply \/ reply' = [reply EXCEPT ![t] = data[fd[t]].val]
        /\ fd' = [fd EXCEPT ![t] = NoInode]
        /\ UNCHANGED <<data, dir, tmp, key, val>>
    BY <1>2 DEF Read
  <2>. QED  BY <2>1
<1>3. CASE RemoveCorrupted(t)
  BY <1>3 DEF RemoveCorrupted
<1>4. CASE WriteFails(t)
  BY <1>4 DEF WriteFails
<1>5. CASE Rename(t) /\ tmp[TmpOf(t)] = NoInode
  <2>1. /\ pc' = [pc EXCEPT ![t] = "idle"] /\ fd' = [fd EXCEPT ![t] = NoInode]
        /\ tmp' = [tmp EXCEPT ![TmpOf(t)] = NoInode]
        /\ UNCHANGED <<data, dir, key, val, reply>>
    BY <1>5 DEF Rename
  <2>. QED  BY <2>1
<1>6. CASE Throttle(t) \/ CompareExchange(t) \/ Scan(t) \/ EvictDone(t)
  <2>1. /\ \E l \in {"idle", "swap", "scan", "orphans"} : pc' = [pc EXCEPT ![t] = l]
        /\ UNCHANGED <<data, dir, tmp, key, val, fd, reply>>
    BY <1>6 DEF Throttle, CompareExchange, Scan, EvictDone
  <2>. QED  BY <2>1
<1>7. CASE RemoveOrphans(t)
  BY <1>7 DEF RemoveOrphans
<1>8. CASE EvictOne(t)
  <2>1. /\ \E c \in Keys : dir' = [dir EXCEPT ![c] = NoInode]
        /\ UNCHANGED <<data, tmp, pc, key, val, fd, reply>>
    BY <1>8 DEF EvictOne
  <2>. QED  BY <2>1
<1>. QED  BY <1>1, <1>2, <1>3, <1>4, <1>5, <1>6, <1>7, <1>8 DEF LetsGo, Evict

LEMMA WorldLets ==
  ASSUME CacheInv, Tick \/ Crash \/ UNCHANGED vars
  PROVE  Lets
<1>. USE DEF CacheInv, FileTypes, Lets, Releases, fs, Reading, Writing
<1>1. CASE Crash
  BY <1>1 DEF Crash
<1>2. CASE Tick \/ UNCHANGED vars
  BY <1>2 DEF Tick, vars
<1>. QED  BY <1>1, <1>2

\* The other steps: an open, a create, the two writes, a rename that finds its
\* file, and damage from outside.
LEMMA StepCases ==
  ASSUME CacheInv, [Next]_vars
  PROVE  \/ Lets
         \/ \E t \in Threads, k \in Keys : Open(t, k)
         \/ \E t \in Threads, k \in Keys, v \in Vals : Create(t, k, v)
         \/ \E t \in Threads : WriteHeader(t) \/ WriteBody(t)
         \/ \E t \in Threads : Rename(t) /\ tmp[TmpOf(t)] # NoInode
         \/ \E k \in Keys : Damage(k)
BY ThreadLets, WorldLets DEF Next, Get, Write, LetsGo

(* Thread t moves to step l and its open file comes to hold the record d,    *)
(* the part of its own value that step has written.                          *)
LeavesRecord(t, l, d) ==
  /\ l \in {"headed", "written"}
  /\ pc' = [pc EXCEPT ![t] = l] /\ data' = [data EXCEPT ![fd[t]] = d]
  /\ d.val = val[t] /\ d.part = (IF l = "headed" THEN "header" ELSE "whole")

LEMMA WritesKept ==
  ASSUME CacheInv, NEW t \in Threads, WriteHeader(t) \/ WriteBody(t)
  PROVE  /\ FilesApart' /\ FilesSound'
         /\ UNCHANGED <<dir, key, fd, reply>>
         /\ \A k \in Keys : dir[k] # NoInode => data'[dir[k]] = data[dir[k]]
         /\ \A u \in Threads : pc[u] \in Reading => data'[fd[u]] = data[fd[u]]
         /\ \A u \in Threads : pc'[u] \in Reading <=> pc[u] \in Reading
<1>1. /\ UNCHANGED <<dir, tmp, key, val, fd, reply>>
      /\ pc[t] \in Writing /\ pc[t] \notin Reading
  BY DEF WriteHeader, WriteBody, Writing, Reading
<1>2. PICK l, d : LeavesRecord(t, l, d)
  <2>1. CASE WriteHeader(t)
    <3>1. LeavesRecord(t, "headed", [val |-> val[t], part |-> "header", mtime |-> clock])
      BY <2>1 DEF WriteHeader, Goto, LeavesRecord
    <3>. QED  BY <3>1
  <2>2. CASE WriteBody(t)
    <3>1. data[fd[t]].val = val[t] /\ data[fd[t]].part = "header"
      BY <2>2 DEF WriteBody, CacheInv, FilesSound, WritersSound
    <3>2. LeavesRecord(t, "written", [val |-> val[t], part |-> "whole", mtime |-> clock])
      BY <2>2, <3>1 DEF WriteBody, Goto, LeavesRecord
    <3>. QED  BY <3>2
  <2>. QED  BY <2>1, <2>2
<1>3. FilesSound'
  BY <1>1, <1>2, WriteSound DEF LeavesRecord
<1>4. \A u \in Threads : /\ pc'[u] \in Reading <=> pc[u] \in Reading
                         /\ pc'[u] \in Writing <=> pc[u] \in Writing
  BY <1>1, <1>2 DEF LeavesRecord, CacheInv, FileTypes, Reading, Writing
<1>5. FilesApart'
  <2>1. Releases
    BY <1>1, <1>4 DEF Releases
  <2>. QED  BY <2>1, ReleasesApart DEF CacheInv
<1>6. /\ \A k \in Keys : dir[k] # NoInode => dir[k] \in Inodes \ {fd[t]}
      /\ \A u \in Threads : pc[u] \in Reading => fd[u] \in Inodes \ {fd[t]}
  BY <1>1 DEF CacheInv, FileTypes, FilesApart, WritersApart, ReadersApart
<1>. QED  BY <1>1, <1>2, <1>3, <1>4, <1>5, <1>6 DEF LeavesRecord, CacheInv, FileTypes

LEMMA CacheStep ==
  ASSUME CacheInv, [Next]_vars
  PROVE  CacheInv'
<1>1. CASE Lets
  BY <1>1, ReleasesApart, LetsSound, TypeStep DEF CacheInv, Lets
<1>2. ASSUME NEW t \in Threads, NEW k \in Keys, Open(t, k) PROVE CacheInv'
  BY <1>2, OpenApart, OpenSound, TypeStep DEF CacheInv
<1>3. ASSUME NEW t \in Threads, NEW k \in Keys, NEW v \in Vals, Create(t, k, v) PROVE CacheInv'
  BY <1>3, CreateApart, CreateSound, TypeStep DEF CacheInv
<1>4. ASSUME NEW t \in Threads, WriteHeader(t) \/ WriteBody(t) PROVE CacheInv'
  BY <1>4, WritesKept, TypeStep DEF CacheInv
<1>5. ASSUME NEW t \in Threads, Rename(t), tmp[TmpOf(t)] # NoInode PROVE CacheInv'
  BY <1>5, RenameApart, RenameSound, TypeStep DEF CacheInv
<1>6. ASSUME NEW k \in Keys, Damage(k) PROVE CacheInv'
  <2>1. Releases
    BY <1>6 DEF Damage, Releases
  <2>. QED  BY <1>6, <2>1, ReleasesApart, DamageSound, TypeStep DEF CacheInv
<1>. QED  BY <1>1, <1>2, <1>3, <1>4, <1>5, <1>6, StepCases

LEMMA CacheAlways == Spec => []CacheInv
<1>1. CacheInv /\ [Next]_vars => CacheInv'
  BY CacheStep
<1>. QED  BY CacheInit, <1>1, PTL DEF Spec

-----------------------------------------------------------------------------
(* The theorems *)

\* What a path of the cache holds is, unless it was damaged from outside, one
\* whole body, whatever puts, lookups, evictions and crashes went before.
THEOREM EntriesAreComplete == Spec => []EntriesComplete
<1>1. CacheInv => EntriesComplete
  BY DEF CacheInv, FilesSound, EntriesSound, Sound, EntriesComplete, Entries
<1>. QED  BY <1>1, CacheAlways, PTL

-----------------------------------------------------------------------------
(* Temporary files *)

\* Every thread that was writing goes on, or its temporary file is gone.
Cleans ==
  /\ \A p \in TmpPaths : tmp'[p] \in {tmp[p], NoInode}
  /\ \A t \in Threads : pc[t] \in Writing =>
       \/ pc'[t] \in Writing /\ TmpOf(t)' = TmpOf(t)
       \/ tmp'[TmpOf(t)] = NoInode

LEMMA CleansStep ==
  ASSUME FileTypes, NEW t \in Threads, Get(t) \/ Write(t) \/ Evict(t)
  PROVE  Cleans
<1>. USE DEF FileTypes, Cleans, Goto, fs, evicting, Reading, Writing
<1>0. \A u \in Threads : TmpOf(u) \in TmpPaths
  BY TmpPathType DEF TmpOf
<1>1. CASE Stat(t) \/ Read(t) \/ RemoveCorrupted(t)
  <2>1. /\ pc[t] \notin Writing /\ \E l : pc' = [pc EXCEPT ![t] = l]
        /\ UNCHANGED <<tmp, key>>
    BY <1>1 DEF Stat, Read, RemoveCorrupted
  <2>. QED  BY <2>1 DEF TmpOf
<1>2. CASE WriteHeader(t) \/ WriteBody(t)
  BY <1>2 DEF WriteHeader, WriteBody, TmpOf
<1>3. CASE WriteFails(t) \/ Rename(t)
  <2>1. /\ tmp' = [tmp EXCEPT ![TmpOf(t)] = NoInode] /\ key' = key
        /\ \E l : pc' = [pc EXCEPT ![t] = l]
    BY <1>3 DEF WriteFails, Rename
  <2>2. \A u \in Threads \ {t} : pc'[u] = pc[u] /\ TmpOf(u)' = TmpOf(u)
    BY <2>1 DEF TmpOf
  <2>. QED  BY <1>0, <2>1, <2>2
<1>4. CASE RemoveOrphans(t)
  <2>1. /\ tmp' = [p \in TmpPaths |-> IF p \in orphans[t] THEN NoInode ELSE tmp[p]]
        /\ pc[t] \notin Writing /\ key' = key /\ pc' = [pc EXCEPT ![t] = "evict"]
    BY <1>4 DEF RemoveOrphans
  <2>. QED  BY <2>1 DEF TmpOf
<1>5. CASE Throttle(t) \/ CompareExchange(t) \/ Scan(t) \/ EvictOne(t) \/ EvictDone(t)
  <2>1. /\ pc[t] \notin Writing /\ (pc' = pc \/ \E l : pc' = [pc EXCEPT ![t] = l])
        /\ UNCHANGED <<tmp, key>>
    BY <1>5 DEF Throttle, CompareExchange, Scan, EvictOne, EvictDone
  <2>. QED  BY <2>1 DEF TmpOf
<1>. QED  BY <1>1, <1>2, <1>3, <1>4, <1>5 DEF Get, Write, Evict

LEMMA LeakStep ==
  ASSUME FileTypes, NoTempLeak, [Next]_vars
  PROVE  NoTempLeak'
<1>1. CASE Cleans /\ faults' = faults
  <2>. SUFFICES ASSUME faults = 0, NEW p \in TmpPaths, tmp'[p] # NoInode
                PROVE  \E t \in Threads : pc'[t] \in Writing /\ TmpOf(t)' = p
    BY <1>1 DEF NoTempLeak
  <2>1. tmp[p] # NoInode
    BY <1>1 DEF Cleans
  <2>2. PICK t \in Threads : pc[t] \in Writing /\ TmpOf(t) = p
    BY <2>1 DEF NoTempLeak
  <2>. QED  BY <1>1, <2>2 DEF Cleans
<1>2. ASSUME NEW t \in Threads, NEW k \in Keys, Open(t, k) PROVE NoTempLeak'
  <2>1. Cleans /\ faults' = faults
    BY <1>2 DEF Open, Goto, Cleans, FileTypes, Writing, TmpOf, fs, bounds
  <2>. QED  BY <1>1, <2>1
<1>3. ASSUME NEW t \in Threads, NEW k \in Keys, NEW v \in Vals, Create(t, k, v)
      PROVE  NoTempLeak'
  <2>1. /\ pc[t] = "idle" /\ pc' = [pc EXCEPT ![t] = "created"]
        /\ key' = [key EXCEPT ![t] = k] /\ faults' = faults
        /\ \E i : tmp' = [tmp EXCEPT ![<<k, NameOf[t]>>] = i]
    BY <1>3 DEF Create, Goto
  <2>2. /\ pc'[t] \in Writing /\ TmpOf(t)' = <<k, NameOf[t]>>
        /\ \A u \in Threads : pc[u] \in Writing => pc'[u] \in Writing /\ TmpOf(u)' = TmpOf(u)
    BY <2>1 DEF FileTypes, Writing, TmpOf
  <2>3. \A p \in TmpPaths : p # <<k, NameOf[t]>> => tmp'[p] = tmp[p]
    BY <2>1 DEF FileTypes
  <2>. QED  BY <2>1, <2>2, <2>3 DEF NoTempLeak
<1>4. ASSUME NEW t \in Threads, Get(t) \/ Write(t) \/ Evict(t) PROVE NoTempLeak'
  <2>1. faults' = faults
    BY <1>4 DEF Get, Stat, Read, RemoveCorrupted, Write, WriteHeader, WriteBody, WriteFails,
       Rename, Evict, Throttle, CompareExchange, Scan, RemoveOrphans, EvictOne, EvictDone, bounds
  <2>. QED  BY <1>1, <1>4, <2>1, CleansStep
<1>5. CASE Crash \/ \E k \in Keys : Damage(k)
  <2>1. faults' = faults + 1
    BY <1>5 DEF Crash, Damage
  <2>2. faults' # 0
    BY <2>1 DEF FileTypes
  <2>. QED  BY <2>2 DEF NoTempLeak
<1>6. CASE Tick \/ UNCHANGED vars
  <2>1. Cleans /\ faults' = faults
    BY <1>6 DEF Tick, vars, Cleans, TmpOf, fs, bounds
  <2>. QED  BY <1>1, <2>1
<1>. QED  BY <1>1, <1>2, <1>3, <1>4, <1>5, <1>6 DEF Next

\* As long as the process does not stop, every temporary file has a put that
\* is still writing it: the error paths and the rename leave none behind.
THEOREM NoTemporaryLeaks == Spec => []NoTempLeak
<1>1. Init => NoTempLeak
  BY DEF Init, NoTempLeak
<1>2. CacheInv /\ NoTempLeak /\ [Next]_vars => NoTempLeak'
  BY LeakStep DEF CacheInv
<1>. QED  BY <1>1, <1>2, CacheAlways, PTL DEF Spec

-----------------------------------------------------------------------------
(* The files implement the abstract cache *)

\* The abstract state, as AC's substitution gives it.
Store == [k \in Keys |-> IF dir[k] = NoInode THEN NoVal ELSE Whole(dir[k])]
Seen == [t \in Threads |-> IF pc[t] \in Reading THEN Whole(fd[t]) ELSE NoVal]

LEMMA ACLook ==
  ASSUME NEW t \in Threads, NEW k \in Keys, Store' = Store,
         Seen' = [Seen EXCEPT ![t] = Store[k]], reply' = [reply EXCEPT ![t] = NoVal]
  PROVE  AC!Next
<1>1. AC!Look(t, k)
  BY DEF AC!Look, Store, Seen
<1>. QED  BY <1>1 DEF AC!Next

LEMMA ACAnswer ==
  ASSUME NEW t \in Threads, Store' = Store, Seen' = [Seen EXCEPT ![t] = NoVal],
         reply' \in {[reply EXCEPT ![t] = Seen[t]], [reply EXCEPT ![t] = NoVal]}
  PROVE  AC!Next
<1>1. AC!Answer(t)
  BY DEF AC!Answer, Store, Seen
<1>. QED  BY <1>1 DEF AC!Next

LEMMA ACPut ==
  ASSUME NEW k \in Keys, NEW v \in Vals, Store' = [Store EXCEPT ![k] = v],
         Seen' = Seen, reply' = reply
  PROVE  AC!Next
<1>1. AC!Put(k, v)
  BY DEF AC!Put, Store, Seen
<1>. QED  BY <1>1 DEF AC!Next

LEMMA ACForget ==
  ASSUME NEW k \in Keys, NEW lost \in SUBSET Threads, Store' = [Store EXCEPT ![k] = NoVal],
         Seen' = [t \in Threads |-> IF t \in lost THEN NoVal ELSE Seen[t]], reply' = reply
  PROVE  AC!Next
<1>1. AC!Forget(k)
  BY DEF AC!Forget, Store, Seen
<1>. QED  BY <1>1 DEF AC!Next

\* Forgotten by no lookup that has found it.
LEMMA ACForgetEntry ==
  ASSUME NEW k \in Keys, Store' = [Store EXCEPT ![k] = NoVal], Seen' = Seen, reply' = reply
  PROVE  AC!Next
<1>. DEFINE none == {t \in Threads : FALSE}
<1>1. none \in SUBSET Threads
  OBVIOUS
<1>2. Seen = [t \in Threads |-> IF t \in none THEN NoVal ELSE Seen[t]]
  BY DEF Seen
<1>. HIDE DEF none
<1>. QED  BY <1>1, <1>2, ACForget

LEMMA ACRestart ==
  ASSUME Store' = Store, Seen' = [t \in Threads |-> NoVal], reply' = [t \in Threads |-> NoVal]
  PROVE  AC!Next
<1>1. AC!Restart
  BY DEF AC!Restart, Store, Seen
<1>. QED  BY <1>1 DEF AC!Next

LEMMA ACStutter ==
  ASSUME Store' = Store, Seen' = Seen, reply' = reply
  PROVE  UNCHANGED AC!vars
BY DEF AC!vars, Store, Seen

\* A step that no lookup and no entry takes part in.
Quiet ==
  /\ UNCHANGED <<dir, reply>>
  /\ \A k \in Keys : dir[k] # NoInode => data'[dir[k]] = data[dir[k]]
  /\ \A u \in Threads : pc'[u] \in Reading <=> pc[u] \in Reading
  /\ \A u \in Threads : pc[u] \in Reading => fd'[u] = fd[u] /\ data'[fd[u]] = data[fd[u]]

LEMMA QuietStutters ==
  ASSUME Quiet
  PROVE  UNCHANGED AC!vars
<1>1. Store' = Store
  BY DEF Quiet, Store, Whole
<1>2. Seen' = Seen
  BY DEF Quiet, Seen, Whole
<1>. QED  BY <1>1, <1>2, ACStutter DEF Quiet

LEMMA OpenLooks ==
  ASSUME CacheInv, NEW t \in Threads, NEW k \in Keys, Open(t, k)
  PROVE  AC!Next
<1>0. /\ pc[t] = "idle" /\ UNCHANGED <<data, dir>>
      /\ fd' = [fd EXCEPT ![t] = dir[k]] /\ reply' = [reply EXCEPT ![t] = NoVal]
      /\ pc' = [pc EXCEPT ![t] = IF dir[k] = NoInode THEN "idle" ELSE "opened"]
  BY DEF Open, Goto, fs
<1>1. Store' = Store
  BY <1>0 DEF Store, Whole
<1>2. /\ pc'[t] \in Reading <=> dir[k] # NoInode
      /\ fd'[t] = dir[k]
      /\ \A u \in Threads \ {t} : pc'[u] = pc[u] /\ fd'[u] = fd[u]
  BY <1>0 DEF CacheInv, FileTypes, Reading
<1>3. Seen' = [Seen EXCEPT ![t] = Store[k]]
  <2>1. (IF pc'[t] \in Reading THEN Whole(fd[t])' ELSE NoVal) = Store[k]
    BY <1>0, <1>2 DEF Store, Whole
  <2>2. \A u \in Threads \ {t} : (IF pc'[u] \in Reading THEN Whole(fd[u])' ELSE NoVal)
                                = (IF pc[u] \in Reading THEN Whole(fd[u]) ELSE NoVal)
    BY <1>0, <1>2 DEF Whole
  <2>. QED  BY <2>1, <2>2 DEF Seen
<1>. QED  BY <1>0, <1>1, <1>3, ACLook

\* An expired file and a failed or refused read are misses; what is read of a
\* sound file is the value it stands for.
LEMMA ReadAnswers ==
  ASSUME CacheInv, NEW t \in Threads, pc[t] \in Reading, pc'[t] \notin Reading,
         \A u \in Threads \ {t} : pc'[u] = pc[u] /\ fd'[u] = fd[u],
         UNCHANGED <<data, dir>>,
         reply' = reply \/ reply' = [reply EXCEPT ![t] = Whole(fd[t])]
  PROVE  AC!Next
<1>1. Store' = Store
  BY DEF Store, Whole
<1>2. Seen' = [Seen EXCEPT ![t] = NoVal] /\ Seen[t] = Whole(fd[t])
  BY DEF Seen, Whole
<1>3. reply = [reply EXCEPT ![t] = NoVal]
  BY DEF CacheInv, FilesSound, ReadersSound, FileTypes
<1>. QED  BY <1>1, <1>2, <1>3, ACAnswer

LEMMA GetRefines ==
  ASSUME CacheInv, NEW t \in Threads, Get(t)
  PROVE  [AC!Next]_(AC!vars)
<1>. USE DEF Goto, fs
<1>1. CASE Stat(t)
  <2>1. CASE Age(fd[t]) > TTL
    <3>1. /\ pc[t] = "opened" /\ pc' = [pc EXCEPT ![t] = "idle"]
          /\ fd' = [fd EXCEPT ![t] = NoInode] /\ UNCHANGED <<data, dir, reply>>
      BY <1>1, <2>1 DEF Stat
    <3>. QED  BY <3>1, ReadAnswers DEF CacheInv, FileTypes, Reading
  <2>2. CASE ~(Age(fd[t]) > TTL)
    <3>1. Quiet
      BY <1>1, <2>2 DEF Stat, Quiet, CacheInv, FileTypes, Reading
    <3>. QED  BY <3>1, QuietStutters
  <2>. QED  BY <2>1, <2>2
<1>2. CASE Read(t)
  <2>1. /\ pc[t] = "fresh" /\ \E l \in {"idle", "corrupt"} : pc' = [pc EXCEPT ![t] = l]
        /\ fd' = [fd EXCEPT ![t] = NoInode] /\ UNCHANGED <<data, dir>>
        /\ \/ reply' = reply
           \/ /\ data[fd[t]].part \notin {"empty", "garbage"} \/ key[t] \in OriginKeys
              /\ reply' = [reply EXCEPT ![t] = data[fd[t]].val]
    BY <1>2 DEF Read
  <2>2. Sound(fd[t], key[t])
    BY <2>1 DEF CacheInv, FilesSound, ReadersSound, Reading
  <2>3. reply' = reply \/ reply' = [reply EXCEPT ![t] = Whole(fd[t])]
    BY <2>1, <2>2 DEF Sound, Whole
  <2>. QED  BY <2>1, <2>3, ReadAnswers DEF CacheInv, FileTypes, Reading
<1>3. CASE RemoveCorrupted(t)
  <2>1. /\ pc[t] = "corrupt" /\ pc' = [pc EXCEPT ![t] = "idle"] /\ key[t] \in Keys
        /\ dir' = [dir EXCEPT ![key[t]] = NoInode] /\ UNCHANGED <<data, fd, reply>>
    BY <1>3 DEF RemoveCorrupted, CacheInv, FileTypes
  <2>2. Store' = [Store EXCEPT ![key[t]] = NoVal]
    BY <2>1 DEF Store, Whole, CacheInv, FileTypes
  <2>3. Seen' = Seen
    BY <2>1 DEF Seen, Whole, CacheInv, FileTypes, Reading
  <2>. QED  BY <2>1, <2>2, <2>3, ACForgetEntry
<1>. QED  BY <1>1, <1>2, <1>3 DEF Get

LEMMA RenamePuts ==
  ASSUME CacheInv, NEW t \in Threads, Rename(t), tmp[TmpOf(t)] # NoInode
  PROVE  AC!Next
<1>1. /\ pc[t] = "written" /\ \E l \in {"idle", "throttle"} : pc' = [pc EXCEPT ![t] = l]
      /\ fd' = [fd EXCEPT ![t] = NoInode] /\ UNCHANGED <<data, reply>>
      /\ dir' = [dir EXCEPT ![key[t]] = fd[t]] /\ fd[t] # NoInode
      /\ data[fd[t]].part = "whole" /\ data[fd[t]].val = val[t]
      /\ key[t] \in Keys /\ val[t] \in Vals
  BY RenameSound DEF Rename, Goto, CacheInv, FileTypes
<1>2. Store' = [Store EXCEPT ![key[t]] = val[t]]
  BY <1>1 DEF Store, Whole, CacheInv, FileTypes
<1>3. Seen' = Seen
  BY <1>1 DEF Seen, Whole, CacheInv, FileTypes, Reading
<1>. QED  BY <1>1, <1>2, <1>3, ACPut

LEMMA WriteRefines ==
  ASSUME CacheInv, NEW t \in Threads, Write(t)
  PROVE  [AC!Next]_(AC!vars)
<1>1. CASE WriteHeader(t) \/ WriteBody(t)
  <2>1. Quiet
    BY <1>1, WritesKept DEF Quiet
  <2>. QED  BY <2>1, QuietStutters
<1>2. CASE WriteFails(t) \/ (Rename(t) /\ tmp[TmpOf(t)] = NoInode)
  <2>1. /\ pc[t] \notin Reading /\ pc' = [pc EXCEPT ![t] = "idle"]
        /\ fd' = [fd EXCEPT ![t] = NoInode] /\ UNCHANGED <<data, dir, reply>>
    BY <1>2 DEF WriteFails, Rename, Goto, Reading
  <2>2. Quiet
    BY <2>1 DEF Quiet, CacheInv, FileTypes, Reading
  <2>. QED  BY <2>2, QuietStutters
<1>3. CASE Rename(t) /\ tmp[TmpOf(t)] # NoInode
  BY <1>3, RenamePuts
<1>. QED  BY <1>1, <1>2, <1>3 DEF Write

LEMMA EvictRefines ==
  ASSUME CacheInv, NEW t \in Threads, Evict(t)
  PROVE  [AC!Next]_(AC!vars)
<1>1. CASE EvictOne(t)
  <2>1. /\ \E e \in victims[t] : dir' = [dir EXCEPT ![e.key] = NoInode]
        /\ UNCHANGED <<data, pc, fd, reply>>
    BY <1>1 DEF EvictOne
  <2>2. PICK c \in Keys : dir' = [dir EXCEPT ![c] = NoInode]
    BY <2>1 DEF CacheInv, FileTypes
  <2>3. Store' = [Store EXCEPT ![c] = NoVal]
    BY <2>1, <2>2 DEF Store, Whole, CacheInv, FileTypes
  <2>4. Seen' = Seen
    BY <2>1 DEF Seen, Whole
  <2>. QED  BY <2>1, <2>3, <2>4, ACForgetEntry
<1>2. CASE ~EvictOne(t)
  <2>1. /\ pc[t] \notin Reading /\ UNCHANGED <<data, dir, fd, reply>>
        /\ \E l \in {"idle", "swap", "scan", "orphans", "evict"} : pc' = [pc EXCEPT ![t] = l]
    BY <1>2 DEF Evict, Throttle, CompareExchange, Scan, RemoveOrphans, EvictDone, Goto, fs,
       evicting, Reading
  <2>2. Quiet
    BY <2>1 DEF Quiet, CacheInv, FileTypes, Reading
  <2>. QED  BY <2>2, QuietStutters
<1>. QED  BY <1>1, <1>2

\* Lookups that have the damaged file open lose it as well.
LEMMA DamageForgets ==
  ASSUME CacheInv, NEW k \in Keys, Damage(k)
  PROVE  AC!Next
<1>. DEFINE lost == {u \in Threads : pc[u] \in Reading /\ fd[u] = dir[k]}
<1>. USE DEF CacheInv, FileTypes
<1>0. /\ dir[k] \in Inodes /\ dir[k] # NoInode
      /\ data' = [data EXCEPT ![dir[k]].part = "garbage"]
      /\ UNCHANGED <<dir, pc, fd, reply>>
  BY DEF Damage, Entries
<1>1. /\ data'[dir[k]].part = "garbage"
      /\ \A i \in Inodes \ {dir[k]} : data'[i] = data[i]
  BY <1>0
<1>2. /\ Whole(dir[k])' = NoVal
      /\ \A l \in Keys \ {k} : dir[l] # NoInode => Whole(dir[l])' = Whole(dir[l])
    <2>1. \A l \in Keys \ {k} : dir[l] # NoInode => dir[l] \in Inodes \ {dir[k]}
      BY <1>0 DEF FilesApart, PathsApart
    <2>. QED  BY <1>0, <1>1, <2>1 DEF Whole
<1>3. Store' = [Store EXCEPT ![k] = NoVal]
  BY <1>0, <1>2 DEF Store
<1>4. \A u \in Threads : pc[u] \in Reading =>
        Whole(fd[u])' = IF u \in lost THEN NoVal ELSE Whole(fd[u])
  BY <1>0, <1>1 DEF Whole
<1>5. Seen' = [u \in Threads |-> IF u \in lost THEN NoVal ELSE Seen[u]]
  BY <1>0, <1>4 DEF Seen
<1>. QED  BY <1>0, <1>3, <1>5, ACForget

LEMMA StepRefines ==
  ASSUME CacheInv, [Next]_vars
  PROVE  [AC!Next]_(AC!vars)
<1>1. ASSUME NEW t \in Threads, NEW k \in Keys, NEW v \in Vals, Create(t, k, v)
      PROVE  [AC!Next]_(AC!vars)
  <2>1. /\ pc[t] = "idle" /\ pc' = [pc EXCEPT ![t] = "created"] /\ UNCHANGED <<dir, reply>>
        /\ \E i : fd' = [fd EXCEPT ![t] = i]
    BY <1>1 DEF Create, Goto
  <2>2. Quiet
    BY <1>1, <2>1, CreateSound DEF Quiet, CacheInv, FileTypes, Reading
  <2>. QED  BY <2>2, QuietStutters
<1>2. CASE Crash
  <2>1. /\ UNCHANGED <<data, dir>> /\ reply' = [t \in Threads |-> NoVal]
        /\ pc' = [t \in Threads |-> "idle"]
    BY <1>2 DEF Crash, fs
  <2>2. Store' = Store
    BY <2>1 DEF Store, Whole
  <2>3. Seen' = [t \in Threads |-> NoVal]
    BY <2>1 DEF Seen, Reading
  <2>. QED  BY <2>1, <2>2, <2>3, ACRestart
<1>3. CASE Tick \/ UNCHANGED vars
  <2>1. Quiet
    BY <1>3 DEF Tick, vars, fs, Quiet
  <2>. QED  BY <2>1, QuietStutters
<1>. QED  BY <1>1, <1>2, <1>3, OpenLooks, GetRefines, WriteRefines, EvictRefines, DamageForgets
          DEF Next

\* Refinement: through renames over open files, expiry, eviction, corruption
\* and crashes, a lookup that hits gives a whole value that was its key's entry
\* while it ran, and a put takes effect at once.
THEOREM FilesImplementCache == Spec => RefinesAtomicCache
<1>1. Init => AC!Init
  BY DEF Init, AC!Init, Whole, Reading
<1>2. CacheInv /\ [Next]_vars => [AC!Next]_(AC!vars)
  BY StepRefines
<1>. QED  BY <1>1, <1>2, CacheAlways, PTL DEF Spec, RefinesAtomicCache, AC!Spec

-----------------------------------------------------------------------------
(* Sums over finite sets *)

\* A set of naturals that is not empty has a least element: the form of
\* induction used below is to look at the least counterexample.
LEMMA NatMin ==
  ASSUME NEW T \in SUBSET Nat, T # {}
  PROVE  \E n \in T : \A m \in T : n <= m
<1>. DEFINE R == OpToRel(<, Nat)
<1>1. IsWellFoundedOn(R, Nat)
  BY NatLessThanWellFounded
<1>2. R = {ss \in Nat \X Nat : ss[1] < ss[2]}
  BY DEF OpToRel
<1>. HIDE DEF R
<1>3. PICK x \in T : \A y \in T : ~ (<<y, x>> \in R)
  BY <1>1, WFMin
<1>4. \A y \in T : <<y, x>> \in R <=> y < x
  BY <1>2
<1>5. \A y \in T : y \in Nat
  OBVIOUS
<1>6. \A y \in T : ~(y < x)
  BY <1>3, <1>4
<1>. QED  BY <1>5, <1>6

\* MapThenFoldSet adds the elements of a set one by one, each time taking the
\* one that CHOOSE picks.
Pick(s) == CHOOSE x \in s : TRUE
Small(K, n) == {s \in SUBSET K : Cardinality(s) <= n}
Adds(it, f, D) == \A s \in D : it[s] = IF s = {} THEN 0 ELSE f[Pick(s)] + it[s \ {Pick(s)}]

LEMMA PickIn == ASSUME NEW s, s # {} PROVE Pick(s) \in s
BY DEF Pick

LEMMA SmallSets ==
  ASSUME NEW K, IsFiniteSet(K), NEW s \in SUBSET K, NEW x \in s
  PROVE  /\ IsFiniteSet(s) /\ Cardinality(s) \in Nat /\ Cardinality(s) # 0
         /\ s \ {x} \in SUBSET K /\ Cardinality(s \ {x}) = Cardinality(s) - 1
<1>1. IsFiniteSet(s)
  BY FS_Subset
<1>2. Cardinality(s) \in Nat
  BY <1>1, FS_CardinalityType
<1>3. Cardinality(s \ {x}) = Cardinality(s) - 1
  BY <1>1, FS_RemoveElement
<1>4. Cardinality(s) # 0
  BY <1>1, FS_EmptySet
<1>. QED  BY <1>1, <1>2, <1>3, <1>4

\* There is such a function, by induction on the size of the sets.
LEMMA AddsUpTo ==
  ASSUME NEW K, IsFiniteSet(K), NEW f, \A x \in K : f[x] \in Nat, NEW n \in Nat
  PROVE  \E it \in [Small(K, n) -> Nat] : Adds(it, f, Small(K, n))
<1>. DEFINE T == {m \in Nat : ~\E it \in [Small(K, m) -> Nat] : Adds(it, f, Small(K, m))}
<1>. SUFFICES ASSUME T # {} PROVE FALSE
  OBVIOUS
<1>1. PICK m \in T : \A l \in T : m <= l
  BY NatMin
<1>. DEFINE D == Small(K, m)
<1>2. m \in Nat /\ ~\E it \in [D -> Nat] : Adds(it, f, D)
  BY <1>1
<1>3. \A s \in D : s # {} => Pick(s) \in s /\ s \ {Pick(s)} \in D /\ f[Pick(s)] \in Nat
  <2>. SUFFICES ASSUME NEW s \in D, s # {}
                PROVE  Pick(s) \in s /\ s \ {Pick(s)} \in D /\ f[Pick(s)] \in Nat
    OBVIOUS
  <2>1. s \in SUBSET K /\ Cardinality(s) <= m
    BY DEF Small
  <2>2. Pick(s) \in s
    BY PickIn
  <2>. QED  BY <1>2, <2>1, <2>2, SmallSets DEF Small
<1>4. CASE m = 0
  <2>1. D = {{}}
    <3>1. {} \in D
      BY <1>2, <1>4, FS_EmptySet DEF Small
    <3>2. ASSUME NEW s \in D, s # {} PROVE FALSE
      <4>1. s \in SUBSET K /\ Cardinality(s) <= 0 /\ Pick(s) \in s
        BY <1>4, <3>2, PickIn DEF Small
      <4>2. Cardinality(s) \in Nat /\ Cardinality(s) # 0
        BY <4>1, SmallSets
      <4>. QED  BY <4>1, <4>2
    <3>. QED  BY <3>1, <3>2
  <2>. DEFINE it == [s \in D |-> 0]
  <2>2. it \in [D -> Nat] /\ Adds(it, f, D)
    BY <2>1 DEF Adds
  <2>. QED  BY <1>2, <2>2
<1>5. CASE m # 0
  <2>1. m - 1 \in Nat /\ m - 1 \notin T
    BY <1>1, <1>2, <1>5
  <2>. DEFINE C == Small(K, m - 1)
  <2>2. PICK g \in [C -> Nat] : Adds(g, f, C)
    BY <2>1
  <2>3. \A s \in D : s # {} => s \ {Pick(s)} \in C
    <3>. SUFFICES ASSUME NEW s \in D, s # {} PROVE s \ {Pick(s)} \in C
      OBVIOUS
    <3>1. s \in SUBSET K /\ Cardinality(s) <= m /\ Pick(s) \in s
      BY <1>3 DEF Small
    <3>. QED  BY <1>2, <3>1, SmallSets DEF Small
  <2>. DEFINE it == [s \in D |-> IF s = {} THEN 0 ELSE f[Pick(s)] + g[s \ {Pick(s)}]]
  <2>4. it \in [D -> Nat]
    <3>1. \A s \in D : s # {} => f[Pick(s)] \in Nat /\ g[s \ {Pick(s)}] \in Nat
      BY <1>3, <2>3
    <3>2. \A a, b \in Nat : a + b \in Nat
      OBVIOUS
    <3>. HIDE DEF C, D
    <3>3. \A s \in D : s # {} => f[Pick(s)] + g[s \ {Pick(s)}] \in Nat
      BY <3>1, <3>2
    <3>. QED  BY <3>3
  <2>5. \A u \in C : u \in D /\ it[u] = g[u]
    <3>1. \A u \in C : u \in D
      <4>1. \A u \in SUBSET K : Cardinality(u) \in Nat
        BY FS_Subset, FS_CardinalityType
      <4>. QED  BY <1>2, <4>1 DEF Small
    <3>. QED  BY <2>2, <3>1 DEF Adds
  <2>. HIDE DEF C, D
  <2>6. Adds(it, f, D)
    BY <2>3, <2>5 DEF Adds
  <2>. QED  BY <1>2, <2>4, <2>6
<1>. QED  BY <1>4, <1>5

LEMMA AddsExists ==
  ASSUME NEW K, IsFiniteSet(K), NEW f, \A x \in K : f[x] \in Nat
  PROVE  \E it \in [SUBSET K -> Nat] : Adds(it, f, SUBSET K)
<1>. DEFINE n == Cardinality(K)
<1>1. n \in Nat
  BY FS_CardinalityType
<1>2. \A s \in SUBSET K : Cardinality(s) <= n
  BY FS_Subset
<1>3. Small(K, n) = SUBSET K
  BY <1>2 DEF Small
<1>4. \E it \in [Small(K, n) -> Nat] : Adds(it, f, Small(K, n))
  BY <1>1, AddsUpTo
<1>. QED  BY <1>3, <1>4

\* The order does not matter.
LEMMA AddsAny ==
  ASSUME NEW K, IsFiniteSet(K), NEW f, \A x \in K : f[x] \in Nat,
         NEW it \in [SUBSET K -> Nat], Adds(it, f, SUBSET K),
         NEW s \in SUBSET K, NEW x \in s
  PROVE  it[s] = f[x] + it[s \ {x}]
<1>. DEFINE Wrong(u) == \E y \in u : it[u] # f[y] + it[u \ {y}]
            T == {n \in Nat : \E u \in SUBSET K : Cardinality(u) = n /\ Wrong(u)}
<1>1. \A u \in SUBSET K : Cardinality(u) \in Nat
  BY FS_Subset, FS_CardinalityType
<1>. SUFFICES ASSUME T # {} PROVE FALSE
  BY <1>1
<1>2. PICK n \in T : \A m \in T : n <= m
  BY NatMin
<1>3. PICK u \in SUBSET K : Cardinality(u) = n /\ Wrong(u)
  BY <1>2
<1>4. PICK y \in u : it[u] # f[y] + it[u \ {y}]
  BY <1>3
<1>. DEFINE c == Pick(u)
<1>5. c \in u
  BY <1>4, PickIn
<1>6. it[u] = f[c] + it[u \ {c}]
  BY <1>4 DEF Adds
<1>7. c # y
  BY <1>4, <1>6
<1>. DEFINE a == u \ {c}
            b == u \ {y}
<1>8. /\ a \in SUBSET K /\ b \in SUBSET K /\ y \in a /\ c \in b
      /\ Cardinality(a) = n - 1 /\ Cardinality(b) = n - 1
  BY <1>3, <1>5, <1>7, SmallSets
<1>9. n \in Nat /\ n - 1 \notin T
  BY <1>2
<1>10. ~Wrong(a) /\ ~Wrong(b)
  BY <1>1, <1>8, <1>9
<1>11. a \ {y} = b \ {c}
  OBVIOUS
<1>12. it[a] = f[y] + it[a \ {y}] /\ it[b] = f[c] + it[a \ {y}]
  BY <1>8, <1>10, <1>11
<1>13. f[c] \in Nat /\ f[y] \in Nat /\ it[a \ {y}] \in Nat /\ it[a] \in Nat /\ it[b] \in Nat
  BY <1>4, <1>5, <1>8
<1>. QED  BY <1>4, <1>6, <1>12, <1>13

\* There is only one such function.
LEMMA AddsAgree ==
  ASSUME NEW K, IsFiniteSet(K), NEW f, NEW it, Adds(it, f, SUBSET K),
         NEW g, NEW jt, Adds(jt, g, SUBSET K), \A x \in K : f[x] = g[x]
  PROVE  it[K] = jt[K]
<1>. DEFINE T == {n \in Nat : \E u \in SUBSET K : Cardinality(u) = n /\ it[u] # jt[u]}
<1>1. \A u \in SUBSET K : Cardinality(u) \in Nat
  BY FS_Subset, FS_CardinalityType
<1>. SUFFICES ASSUME T # {} PROVE FALSE
  BY <1>1
<1>2. PICK n \in T : \A m \in T : n <= m
  BY NatMin
<1>3. PICK u \in SUBSET K : Cardinality(u) = n /\ it[u] # jt[u]
  BY <1>2
<1>4. CASE u = {}
  BY <1>3, <1>4 DEF Adds
<1>5. CASE u # {}
  <2>1. Pick(u) \in u
    BY <1>5, PickIn
  <2>2. it[u] = f[Pick(u)] + it[u \ {Pick(u)}] /\ jt[u] = g[Pick(u)] + jt[u \ {Pick(u)}]
    BY <1>5 DEF Adds
  <2>3. u \ {Pick(u)} \in SUBSET K /\ Cardinality(u \ {Pick(u)}) = n - 1
    BY <1>3, <2>1, SmallSets
  <2>4. n \in Nat /\ n - 1 \notin T
    BY <1>2
  <2>5. it[u \ {Pick(u)}] = jt[u \ {Pick(u)}]
    BY <1>1, <2>3, <2>4
  <2>. QED  BY <1>3, <2>1, <2>2, <2>5
<1>. QED  BY <1>4, <1>5


\* The sum of a function over a set.
Total(f, S) == MapThenSumSet(LAMBDA x : f[x], S)

LEMMA TotalAdds ==
  ASSUME NEW K, IsFiniteSet(K), NEW f, \A x \in K : f[x] \in Nat
  PROVE  \E it \in [SUBSET K -> Nat] : Adds(it, f, SUBSET K) /\ Total(f, K) = it[K]
<1>. DEFINE Is(g) ==
       g = [s \in SUBSET K |-> IF s = {} THEN 0
              ELSE f[CHOOSE x \in s : TRUE] + g[s \ {CHOOSE x \in s : TRUE}]]
<1>1. PICK it \in [SUBSET K -> Nat] : Adds(it, f, SUBSET K)
  BY AddsExists
<1>2. Is(it)
  BY <1>1 DEF Adds, Pick
<1>. DEFINE h == CHOOSE g : Is(g)
<1>3. Total(f, K) = h[K]
  BY DEF Total, MapThenSumSet, MapThenFoldSet
<1>4. Adds(h, f, SUBSET K)
  BY <1>2 DEF Adds, Pick
<1>. HIDE DEF h
<1>5. it[K] = h[K]
  BY <1>1, <1>4, AddsAgree
<1>. QED  BY <1>1, <1>3, <1>5

LEMMA TotalEmpty ==
  ASSUME NEW f
  PROVE  Total(f, {}) = 0
<1>1. PICK it \in [SUBSET {} -> Nat] : Adds(it, f, SUBSET {}) /\ Total(f, {}) = it[{}]
  BY TotalAdds, FS_EmptySet
<1>. QED  BY <1>1 DEF Adds

LEMMA TotalRemove ==
  ASSUME NEW K, IsFiniteSet(K), NEW f, \A y \in K : f[y] \in Nat, NEW x \in K
  PROVE  /\ Total(f, K) \in Nat /\ Total(f, K \ {x}) \in Nat
         /\ Total(f, K) = f[x] + Total(f, K \ {x})
<1>. DEFINE L == K \ {x}
<1>1. PICK it \in [SUBSET K -> Nat] : Adds(it, f, SUBSET K) /\ Total(f, K) = it[K]
  BY TotalAdds
<1>2. IsFiniteSet(L) /\ \A y \in L : f[y] \in Nat
  BY FS_RemoveElement
<1>. HIDE DEF L
<1>3. PICK jt \in [SUBSET L -> Nat] : Adds(jt, f, SUBSET L) /\ Total(f, L) = jt[L]
  BY <1>2, TotalAdds
<1>4. Adds(it, f, SUBSET L)
  BY <1>1 DEF Adds, L
<1>5. it[L] = jt[L]
  BY <1>2, <1>3, <1>4, AddsAgree
<1>6. it[K] = f[x] + it[L]
  BY <1>1, AddsAny DEF L
<1>7. it[K] \in Nat /\ jt[L] \in Nat
  OBVIOUS
<1>. QED  BY <1>1, <1>3, <1>5, <1>6, <1>7 DEF L

LEMMA TotalType ==
  ASSUME NEW K, IsFiniteSet(K), NEW f, \A y \in K : f[y] \in Nat
  PROVE  Total(f, K) \in Nat
<1>1. PICK it \in [SUBSET K -> Nat] : Adds(it, f, SUBSET K) /\ Total(f, K) = it[K]
  BY TotalAdds
<1>. QED  BY <1>1

LEMMA TotalAgree ==
  ASSUME NEW K, IsFiniteSet(K), NEW f, \A x \in K : f[x] \in Nat,
         NEW g, \A x \in K : g[x] = f[x]
  PROVE  Total(g, K) = Total(f, K)
<1>1. PICK it \in [SUBSET K -> Nat] : Adds(it, f, SUBSET K) /\ Total(f, K) = it[K]
  BY TotalAdds
<1>2. \A x \in K : g[x] \in Nat
  OBVIOUS
<1>3. PICK jt \in [SUBSET K -> Nat] : Adds(jt, g, SUBSET K) /\ Total(g, K) = jt[K]
  BY <1>2, TotalAdds
<1>4. it[K] = jt[K]
  BY <1>1, <1>3, AddsAgree
<1>. QED  BY <1>1, <1>3, <1>4

-----------------------------------------------------------------------------
(* Eviction *)

Sizes == [k \in Keys |-> SizeAt(dir[k])]

SizesTyped ==
  /\ IsFiniteSet(Entries) /\ Entries \subseteq Keys
  /\ \A k \in Entries : Sizes[k] \in Nat

LEMMA SizesType == FileTypes => SizesTyped
<1>. SUFFICES ASSUME FileTypes PROVE SizesTyped
  OBVIOUS
<1>1. Entries \subseteq Keys
  BY DEF Entries
<1>2. IsFiniteSet(Entries)
  BY <1>1, FS_Subset, CacheAssumption
<1>3. ASSUME NEW k \in Entries PROVE Sizes[k] \in Nat
  <2>1. dir[k] \in Inodes /\ k \in Keys
    BY DEF Entries, FileTypes
  <2>2. data[dir[k]].val \in Vals
    BY <2>1 DEF FileTypes
  <2>. QED  BY <2>1, <2>2, CacheAssumption DEF Sizes, SizeAt
<1>. QED  BY <1>1, <1>2, <1>3 DEF SizesTyped

\* The total of the walk is the sum of the sizes of the entries.
LEMMA TotalSizeIs == FileTypes => TotalSize = Total(Sizes, Entries)
<1>. SUFFICES ASSUME FileTypes PROVE TotalSize = Total(Sizes, Entries)
  OBVIOUS
<1>. DEFINE K == Entries
            Is(g) ==
              g = [s \in SUBSET K |-> IF s = {} THEN 0
                     ELSE SizeAt(dir[CHOOSE k \in s : TRUE]) + g[s \ {CHOOSE k \in s : TRUE}]]
            h == CHOOSE g : Is(g)
<1>1. TotalSize = h[K]
  BY DEF TotalSize, MapThenSumSet, MapThenFoldSet
<1>0. IsFiniteSet(K) /\ K \subseteq Keys /\ \A k \in K : Sizes[k] \in Nat
  BY SizesType DEF SizesTyped
<1>2. PICK it \in [SUBSET K -> Nat] : Adds(it, Sizes, SUBSET K) /\ Total(Sizes, K) = it[K]
  BY <1>0, TotalAdds
<1>3. \A s \in SUBSET K : s # {} => Sizes[Pick(s)] = SizeAt(dir[Pick(s)])
  <2>1. \A s \in SUBSET K : s # {} => Pick(s) \in Keys
    BY <1>0, PickIn
  <2>. QED  BY <2>1 DEF Sizes
<1>4. Is(it)
  BY <1>2, <1>3 DEF Adds, Pick
<1>5. Is(h)
  BY <1>4
<1>. HIDE DEF h, K
<1>6. Adds(h, Sizes, SUBSET K)
  BY <1>3, <1>5 DEF Adds, Pick
<1>7. it[K] = h[K]
  BY <1>0, <1>2, <1>6, AddsAgree
<1>. QED  BY <1>1, <1>2, <1>7 DEF K

\* Entries that only go away, one at most, do not add to the total.
LEMMA TotalShrinks ==
  ASSUME NEW K, IsFiniteSet(K), NEW f, \A x \in K : f[x] \in Nat,
         NEW g, NEW c, NEW L, L = K \/ L = K \ {c}, \A x \in L : g[x] = f[x]
  PROVE  /\ Total(g, L) \in Nat /\ Total(g, L) <= Total(f, K)
         /\ c \in K /\ L = K \ {c} => Total(g, L) = Total(f, K) - f[c]
<1>1. IsFiniteSet(L) /\ L \subseteq K
  BY FS_Subset
<1>2. Total(g, L) = Total(f, L) /\ Total(f, L) \in Nat /\ Total(f, K) \in Nat
  BY <1>1, TotalAgree, TotalType
<1>3. CASE L = K
  <2>1. c \notin K \/ L # K \ {c}
    BY <1>3
  <2>. QED  BY <1>2, <1>3, <2>1
<1>4. CASE L # K
  <2>1. c \in K /\ L = K \ {c}
    BY <1>4
  <2>2. Total(f, K) = f[c] + Total(f, L) /\ f[c] \in Nat
    BY <2>1, TotalRemove
  <2>. QED  BY <1>2, <2>1, <2>2
<1>. QED  BY <1>3, <1>4

\* Thread t is in an eviction pass and nothing was renamed since its scan.
Scanned(t) == pc[t] \in {"orphans", "evict"} /\ ~renamed[t]

\* Then every entry is still on its list, the sizes on the list are right, and
\* the size it counts down from is no less than the directory's.
ScanHolds(t) ==
  Scanned(t) =>
    /\ \A k \in Entries : \E e \in victims[t] : e.key = k
    /\ \A e \in victims[t] : e.key \in Entries => e.size = Sizes[e.key]
    /\ size[t] \in Int /\ TotalSize <= size[t]

EvictTypes == renamed \in [Threads -> BOOLEAN] /\ DOMAIN size = Threads

EvictInv == EvictTypes /\ \A t \in Threads : ScanHolds(t)

\* A step that adds no entry and changes the size of none.
Lighter(c) ==
  /\ Entries' = Entries \/ Entries' = Entries \ {c}
  /\ \A k \in Entries' : Sizes'[k] = Sizes[k]

LEMMA LighterTotal ==
  ASSUME CacheInv, CacheInv', NEW c, Lighter(c)
  PROVE  /\ TotalSize \in Nat /\ TotalSize' \in Nat /\ TotalSize' <= TotalSize
         /\ c \in Entries /\ Entries' = Entries \ {c} => TotalSize' = TotalSize - Sizes[c]
<1>1. TotalSize = Total(Sizes, Entries) /\ SizesTyped
  BY TotalSizeIs, SizesType DEF CacheInv
<1>2. (FileTypes => TotalSize = Total(Sizes, Entries))'
  BY TotalSizeIs, PTL
<1>3. TotalSize' = Total(Sizes', Entries')
  BY <1>2 DEF CacheInv
<1>. DEFINE f == Sizes
            g == Sizes'
            K == Entries
            L == Entries'
<1>4. /\ IsFiniteSet(K) /\ \A k \in K : f[k] \in Nat
      /\ L = K \/ L = K \ {c}
      /\ \A k \in L : g[k] = f[k]
  BY <1>1 DEF SizesTyped, Lighter
<1>. HIDE DEF f, g, K, L
<1>5. /\ Total(g, L) \in Nat /\ Total(g, L) <= Total(f, K)
      /\ c \in K /\ L = K \ {c} => Total(g, L) = Total(f, K) - f[c]
  BY <1>4, TotalShrinks
<1>6. Total(f, K) \in Nat
  BY <1>4, TotalType
<1>. QED  BY <1>1, <1>3, <1>5, <1>6 DEF f, g, K, L

\* What thread u knows of the directory survives such a step.
Stays(u) == Scanned(u)' => Scanned(u) /\ victims'[u] = victims[u] /\ size'[u] = size[u]

LEMMA LighterScan ==
  ASSUME CacheInv, CacheInv', NEW c, Lighter(c), NEW u \in Threads, Stays(u), ScanHolds(u)
  PROVE  ScanHolds(u)'
<1>. SUFFICES ASSUME Scanned(u)'
              PROVE  /\ \A k \in Entries' : \E e \in victims'[u] : e.key = k
                     /\ \A e \in victims'[u] : e.key \in Entries' => e.size = Sizes'[e.key]
                     /\ size'[u] \in Int /\ TotalSize' <= size'[u]
  BY DEF ScanHolds
<1>1. Scanned(u) /\ victims'[u] = victims[u] /\ size'[u] = size[u]
  BY DEF Stays
<1>2. /\ \A k \in Entries : \E e \in victims[u] : e.key = k
      /\ \A e \in victims[u] : e.key \in Entries => e.size = Sizes[e.key]
      /\ size[u] \in Int /\ TotalSize <= size[u]
  BY <1>1 DEF ScanHolds
<1>3. TotalSize \in Nat /\ TotalSize' \in Nat /\ TotalSize' <= TotalSize
  BY LighterTotal
<1>4. TotalSize' <= size'[u]
  BY <1>1, <1>2, <1>3
<1>5. Entries' \subseteq Entries /\ \A k \in Entries' : Sizes'[k] = Sizes[k]
  BY DEF Lighter
<1>. QED  BY <1>1, <1>2, <1>4, <1>5

\* Entries that keep their file, when what the files hold does not change.
LEMMA SameSizes ==
  ASSUME CacheInv, dir' = dir,
         \A k \in Keys : dir[k] # NoInode => data'[dir[k]].val = data[dir[k]].val
  PROVE  \A c : Lighter(c)
<1>1. Entries' = Entries
  BY DEF Entries
<1>2. \A k \in Entries : Sizes'[k] = Sizes[k]
  BY DEF Entries, Sizes, SizeAt
<1>. QED  BY <1>1, <1>2 DEF Lighter

LEMMA OneLess ==
  ASSUME CacheInv, NEW c \in Keys, dir' = [dir EXCEPT ![c] = NoInode], data' = data
  PROVE  Lighter(c) /\ Entries' = Entries \ {c}
<1>1. dir'[c] = NoInode /\ \A k \in Keys \ {c} : dir'[k] = dir[k]
  BY DEF CacheInv, FileTypes
<1>2. Entries' = Entries \ {c}
  BY <1>1 DEF Entries
<1>3. \A k \in Entries' : k \in Keys \ {c}
  BY <1>2 DEF Entries
<1>4. \A k \in Entries' : Sizes'[k] = Sizes[k]
  BY <1>1, <1>3 DEF Sizes, SizeAt
<1>. QED  BY <1>2, <1>4 DEF Lighter

\* A step of thread t that leaves it outside an eviction pass.
Leaves(t) ==
  /\ \E l : l \notin {"orphans", "evict"} /\ pc' = [pc EXCEPT ![t] = l]
  /\ renamed' = renamed /\ size' = size
  /\ \A u \in Threads \ {t} : victims'[u] = victims[u]

LEMMA LeavesStays ==
  ASSUME CacheInv, EvictTypes, NEW t \in Threads, Leaves(t)
  PROVE  EvictTypes' /\ \A u \in Threads : Stays(u)
<1>1. /\ ~Scanned(t)'
      /\ \A u \in Threads \ {t} : pc'[u] = pc[u] /\ victims'[u] = victims[u]
  BY DEF Leaves, Scanned, CacheInv, FileTypes
<1>2. renamed' = renamed /\ size' = size
  BY DEF Leaves
<1>3. \A u \in Threads \ {t} : Stays(u)
  BY <1>1, <1>2 DEF Stays, Scanned
<1>. QED  BY <1>1, <1>2, <1>3 DEF Stays, EvictTypes

LEMMA ThreadScan ==
  ASSUME CacheInv, CacheInv', EvictInv, NEW t \in Threads, Get(t) \/ Write(t)
  PROVE  EvictInv'
<1>. USE DEF Goto, fs, evicting
<1>0. /\ \A c \in Keys : Lighter(c) /\ Leaves(t) => EvictInv'
      /\ key[t] \in Keys
  BY LeavesStays, LighterScan DEF EvictInv, CacheInv, FileTypes
<1>1. CASE Stat(t) \/ Read(t) \/ WriteFails(t) \/ (Rename(t) /\ tmp[TmpOf(t)] = NoInode)
  <2>1. /\ UNCHANGED <<dir, data, renamed, size, victims>>
        /\ \E l \in {"idle", "fresh", "corrupt"} : pc' = [pc EXCEPT ![t] = l]
    BY <1>1 DEF Stat, Read, WriteFails, Rename
  <2>2. Leaves(t)
    BY <2>1 DEF Leaves
  <2>3. Lighter(key[t])
    BY <2>1, SameSizes
  <2>. QED  BY <1>0, <2>2, <2>3
<1>2. CASE RemoveCorrupted(t)
  <2>1. /\ UNCHANGED <<data, renamed, size, victims>> /\ pc' = [pc EXCEPT ![t] = "idle"]
        /\ dir' = [dir EXCEPT ![key[t]] = NoInode]
    BY <1>2 DEF RemoveCorrupted
  <2>2. Leaves(t)
    BY <2>1 DEF Leaves
  <2>3. Lighter(key[t])
    BY <1>0, <2>1, OneLess
  <2>. QED  BY <1>0, <2>2, <2>3
<1>3. CASE WriteHeader(t) \/ WriteBody(t)
  <2>1. /\ UNCHANGED <<renamed, size, victims>>
        /\ \E l \in {"headed", "written"} : pc' = [pc EXCEPT ![t] = l]
    BY <1>3 DEF WriteHeader, WriteBody
  <2>2. Leaves(t)
    BY <2>1 DEF Leaves
  <2>3. Lighter(key[t])
    BY <1>3, WritesKept, SameSizes
  <2>. QED  BY <1>0, <2>2, <2>3
<1>4. CASE Rename(t) /\ tmp[TmpOf(t)] # NoInode
  <2>1. renamed' = [u \in Threads |-> TRUE] /\ size' = size
    BY <1>4 DEF Rename
  <2>. QED  BY <2>1 DEF EvictInv, EvictTypes, ScanHolds, Scanned
<1>. QED  BY <1>1, <1>2, <1>3, <1>4 DEF Get, Write

LEMMA EvictOneScan ==
  ASSUME CacheInv, CacheInv', EvictInv, NEW t \in Threads, EvictOne(t)
  PROVE  EvictInv'
<1>1. PICK e \in victims[t] :
        /\ victims' = [victims EXCEPT ![t] = victims[t] \ {e}]
        /\ dir' = [dir EXCEPT ![e.key] = NoInode]
        /\ size' = [size EXCEPT ![t] =
             IF dir[e.key] = NoInode THEN size[t] ELSE size[t] - e.size]
  BY DEF EvictOne
<1>2. UNCHANGED <<data, pc, renamed>>
  BY DEF EvictOne
<1>. DEFINE c == e.key
<1>3. c \in Keys /\ Lighter(c) /\ Entries' = Entries \ {c}
  BY <1>1, <1>2, OneLess DEF CacheInv, FileTypes
<1>. HIDE DEF c
<1>4. EvictTypes'
  BY <1>1, <1>2 DEF EvictInv, EvictTypes
<1>5. ASSUME NEW u \in Threads \ {t} PROVE ScanHolds(u)'
  <2>1. Stays(u)
    BY <1>1, <1>2 DEF Stays, Scanned, CacheInv, FileTypes, EvictInv, EvictTypes
  <2>. QED  BY <1>3, <2>1, LighterScan DEF EvictInv
<1>6. ScanHolds(t)'
  <2>. SUFFICES ASSUME Scanned(t)'
                PROVE  /\ \A k \in Entries' : \E g \in victims'[t] : g.key = k
                       /\ \A g \in victims'[t] : g.key \in Entries' => g.size = Sizes'[g.key]
                       /\ size'[t] \in Int /\ TotalSize' <= size'[t]
    BY DEF ScanHolds
  <2>1. Scanned(t)
    BY <1>2 DEF Scanned
  <2>2. /\ \A k \in Entries : \E g \in victims[t] : g.key = k
        /\ \A g \in victims[t] : g.key \in Entries => g.size = Sizes[g.key]
        /\ size[t] \in Int /\ TotalSize <= size[t]
    BY <2>1 DEF EvictInv, ScanHolds
  <2>3. victims'[t] = victims[t] \ {e}
    BY <1>1 DEF CacheInv, FileTypes
  <2>4. \A k \in Entries' : \E g \in victims'[t] : g.key = k
    BY <1>3, <2>2, <2>3 DEF c
  <2>5. \A g \in victims'[t] : g.key \in Entries' => g.size = Sizes'[g.key]
    BY <1>3, <2>2, <2>3 DEF Lighter
  <2>6. /\ TotalSize \in Nat /\ TotalSize' \in Nat /\ TotalSize' <= TotalSize
        /\ c \in Entries => TotalSize' = TotalSize - Sizes[c]
    BY <1>3, LighterTotal
  <2>7. c \in Entries <=> dir[c] # NoInode
    BY <1>3 DEF Entries
  <2>8. CASE c \in Entries
    <3>1. e.size = Sizes[c] /\ Sizes[c] \in Nat
      BY <2>2, <2>8, SizesType DEF c, SizesTyped, CacheInv
    <3>2. size'[t] = size[t] - e.size
      BY <1>1, <2>7, <2>8 DEF c, EvictInv, EvictTypes
    <3>. QED  BY <2>2, <2>4, <2>5, <2>6, <2>8, <3>1, <3>2
  <2>9. CASE c \notin Entries
    <3>1. size'[t] = size[t]
      BY <1>1, <2>7, <2>9 DEF c, EvictInv, EvictTypes
    <3>. QED  BY <2>2, <2>4, <2>5, <2>6, <3>1
  <2>. QED  BY <2>8, <2>9
<1>. QED  BY <1>4, <1>5, <1>6 DEF EvictInv

LEMMA ScanScan ==
  ASSUME CacheInv, CacheInv', EvictInv, NEW t \in Threads, Scan(t)
  PROVE  EvictInv'
<1>1. /\ victims' = [victims EXCEPT ![t] =
           {[key |-> k, size |-> SizeAt(dir[k]), mtime |-> data[dir[k]].mtime] : k \in Entries}]
      /\ size' = [size EXCEPT ![t] = TotalSize]
      /\ renamed' = [renamed EXCEPT ![t] = FALSE]
      /\ pc' = [pc EXCEPT ![t] = "orphans"]
      /\ UNCHANGED <<dir, data>>
  BY DEF Scan, Goto, fs
<1>2. /\ victims'[t] = {[key |-> k, size |-> SizeAt(dir[k]), mtime |-> data[dir[k]].mtime]
                          : k \in Entries}
      /\ size'[t] = TotalSize
      /\ \A u \in Threads \ {t} : /\ victims'[u] = victims[u] /\ size'[u] = size[u]
                                  /\ pc'[u] = pc[u] /\ renamed'[u] = renamed[u]
  BY <1>1 DEF CacheInv, FileTypes, EvictInv, EvictTypes
<1>3. \A c : Lighter(c)
  BY <1>1, SameSizes
<1>4. EvictTypes'
  BY <1>1 DEF EvictInv, EvictTypes
<1>5. ASSUME NEW u \in Threads \ {t} PROVE ScanHolds(u)'
  <2>1. Stays(u)
    BY <1>2 DEF Stays, Scanned
  <2>. QED  BY <1>3, <2>1, LighterScan DEF EvictInv
<1>6. Entries' = Entries /\ \A k \in Entries : Sizes'[k] = Sizes[k]
  BY <1>1 DEF Entries, Sizes, SizeAt
<1>7. TotalSize \in Nat /\ TotalSize' \in Nat /\ TotalSize' <= TotalSize
  BY <1>3, LighterTotal
<1>8. \A k \in Entries : Sizes[k] = SizeAt(dir[k])
  BY DEF Sizes, Entries
<1>9. /\ \A k \in Entries : \E e \in victims'[t] : e.key = k
      /\ \A e \in victims'[t] : e.key \in Entries => e.size = Sizes[e.key]
  <2>. DEFINE found(k) == [key |-> k, size |-> SizeAt(dir[k]), mtime |-> data[dir[k]].mtime]
  <2>1. victims'[t] = {found(k) : k \in Entries}
    BY <1>2
  <2>2. \A k \in Entries : found(k).key = k /\ found(k).size = Sizes[k]
    BY <1>8
  <2>. HIDE DEF found
  <2>. QED  BY <2>1, <2>2
<1>10. ScanHolds(t)'
  BY <1>2, <1>6, <1>7, <1>9 DEF ScanHolds
<1>. QED  BY <1>4, <1>5, <1>10 DEF EvictInv

LEMMA PassScan ==
  ASSUME CacheInv, CacheInv', EvictInv, NEW t \in Threads, Evict(t)
  PROVE  EvictInv'
<1>. USE DEF Goto, fs, evicting
<1>1. CASE Throttle(t) \/ CompareExchange(t) \/ EvictDone(t)
  <2>1. /\ UNCHANGED <<dir, data, renamed, size>>
        /\ \A u \in Threads \ {t} : victims'[u] = victims[u]
        /\ \E l \in {"idle", "swap", "scan"} : pc' = [pc EXCEPT ![t] = l]
    BY <1>1 DEF Throttle, CompareExchange, EvictDone, CacheInv, FileTypes
  <2>2. Leaves(t)
    BY <2>1 DEF Leaves
  <2>3. \A c : Lighter(c)
    BY <2>1, SameSizes
  <2>. QED  BY <2>2, <2>3, LeavesStays, LighterScan DEF EvictInv
<1>2. CASE RemoveOrphans(t)
  <2>1. /\ UNCHANGED <<dir, data, renamed, size, victims>>
        /\ pc[t] = "orphans" /\ pc' = [pc EXCEPT ![t] = "evict"]
    BY <1>2 DEF RemoveOrphans
  <2>2. \A u \in Threads : Stays(u)
    BY <2>1 DEF Stays, Scanned, CacheInv, FileTypes
  <2>3. \A c : Lighter(c)
    BY <2>1, SameSizes
  <2>. QED  BY <2>1, <2>2, <2>3, LighterScan DEF EvictInv, EvictTypes
<1>. QED  BY <1>1, <1>2, EvictOneScan, ScanScan DEF Evict

LEMMA EvictStep ==
  ASSUME CacheInv, CacheInv', EvictInv, [Next]_vars
  PROVE  EvictInv'
<1>. USE DEF Goto, fs, evicting
<1>1. ASSUME NEW t \in Threads, NEW k \in Keys, Open(t, k) PROVE EvictInv'
  <2>1. /\ UNCHANGED <<dir, data, renamed, size, victims>>
        /\ \E l \in {"idle", "opened"} : pc' = [pc EXCEPT ![t] = l]
    BY <1>1 DEF Open
  <2>2. Leaves(t)
    BY <2>1 DEF Leaves
  <2>3. \A c : Lighter(c)
    BY <2>1, SameSizes
  <2>. QED  BY <2>2, <2>3, LeavesStays, LighterScan DEF EvictInv
<1>2. ASSUME NEW t \in Threads, NEW k \in Keys, NEW v \in Vals, Create(t, k, v) PROVE EvictInv'
  <2>1. /\ UNCHANGED <<dir, renamed, size, victims>> /\ pc' = [pc EXCEPT ![t] = "created"]
    BY <1>2 DEF Create
  <2>2. Leaves(t)
    BY <2>1 DEF Leaves
  <2>3. \A c : Lighter(c)
    BY <1>2, <2>1, CreateSound, SameSizes
  <2>. QED  BY <2>2, <2>3, LeavesStays, LighterScan DEF EvictInv
<1>3. ASSUME NEW k \in Keys, Damage(k) PROVE EvictInv'
  <2>1. /\ UNCHANGED <<dir, renamed, size, victims, pc>>
        /\ data' = [data EXCEPT ![dir[k]].part = "garbage"]
    BY <1>3 DEF Damage
  <2>2. \A l \in Keys : dir[l] # NoInode => data'[dir[l]].val = data[dir[l]].val
    BY <2>1 DEF CacheInv, FileTypes
  <2>3. \A c : Lighter(c)
    BY <2>1, <2>2, SameSizes
  <2>4. \A u \in Threads : Stays(u)
    BY <2>1 DEF Stays, Scanned
  <2>. QED  BY <2>1, <2>3, <2>4, LighterScan DEF EvictInv, EvictTypes
<1>4. CASE Tick \/ Crash \/ UNCHANGED vars
  <2>1. /\ UNCHANGED <<dir, data, renamed, size>>
        /\ \/ UNCHANGED <<pc, victims>>
           \/ pc' = [t \in Threads |-> "idle"]
    BY <1>4 DEF Tick, Crash, vars
  <2>2. \A u \in Threads : Stays(u)
    BY <2>1 DEF Stays, Scanned
  <2>3. \A c : Lighter(c)
    BY <2>1, SameSizes
  <2>. QED  BY <2>1, <2>2, <2>3, LighterScan DEF EvictInv, EvictTypes
<1>. QED  BY <1>1, <1>2, <1>3, <1>4, ThreadScan, PassScan DEF Next

\* An eviction pass that ends has brought the directory under its budget, unless
\* a put renamed a file after the scan: what other threads removed meanwhile is
\* still counted, never too little.
THEOREM EvictionReachesBudget == Spec => []EvictionReaches
<1>1. Init => EvictInv
  BY DEF Init, EvictInv, EvictTypes, ScanHolds, Scanned
<1>2. EvictInv /\ CacheInv /\ CacheInv' /\ [Next]_vars => EvictInv'
  BY EvictStep
<1>3. CacheInv /\ EvictInv => EvictionReaches
  <2>. SUFFICES ASSUME CacheInv, EvictInv, NEW t \in Threads, pc[t] = "evict", ~renamed[t],
                       size[t] <= MaxBytes \/ victims[t] = {}
                PROVE  TotalSize <= MaxBytes
    BY DEF EvictionReaches
  <2>1. /\ \A k \in Entries : \E e \in victims[t] : e.key = k
        /\ size[t] \in Int /\ TotalSize <= size[t]
    BY DEF EvictInv, ScanHolds, Scanned
  <2>2. TotalSize = Total(Sizes, Entries) /\ MaxBytes \in Nat
    BY TotalSizeIs, CacheAssumption DEF CacheInv
  <2>3. TotalSize \in Nat
    BY <2>2, SizesType, TotalType DEF SizesTyped, CacheInv
  <2>4. CASE size[t] <= MaxBytes
    BY <2>1, <2>2, <2>3, <2>4
  <2>5. CASE victims[t] = {}
    <3>1. Entries = {}
      BY <2>1, <2>5
    <3>. QED  BY <2>2, <3>1, TotalEmpty
  <2>. QED  BY <2>4, <2>5
<1>. QED  BY <1>1, <1>2, <1>3, CacheAlways, PTL DEF Spec
=============================================================================
