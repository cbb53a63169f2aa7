-------------------------- MODULE StoreFiles_proofs -------------------------
(***************************************************************************)
(* Proofs about StoreFiles: its type invariant, for any use of it; that    *)
(* the root that was set last is found by the name and that clients        *)
(* exclude each other, when the database is used with care; and that,      *)
(* before the first collection, a power failure leaves what it left at any *)
(* earlier time, or something newer.                                       *)
(*                                                                         *)
(* The inductive invariant has a part for each way of being careful.       *)
(***************************************************************************)
EXTENDS StoreFiles, FiniteSetTheorems, TLAPS

\* Either one process at a time, or no collections.
Careful == \A u \in Uses : u.atOnce <= 1 \/ u.maxGc = 0

Running == {c \in Clients : pc[c] # "closed"}
Collecting == {c \in Clients : pc[c] \in {"gc opened", "gc copy", "gc rename"}}

\* Who runs has a file, and who collects another one to copy to.
Handles ==
  /\ \A c \in Running : from[c] \in Inodes
  /\ \A c \in Collecting : to[c] \in Inodes

\* The name means the same file all the time.  Its header on disk may lag
\* behind, and so may the directory.
WithoutGc ==
  /\ Collecting = {}
  /\ \A c \in Running : from[c] = dir["db"]
  /\ \A c \in Running : pc[c] = "active" => lock[from[c]] = c
  /\ dir["db.gc"] = NoInode /\ diskDir["db.gc"] = NoInode
  /\ diskDir["db"] \in {NoInode, dir["db"]}
  /\ \A i \in Inodes : durable[i] <= cached[i]

\* The name means the file that the only process has open, which has a header,
\* or, when that process collects, will have its copy.
TwoFiles(d) == d["db"] = d["db.gc"] => d["db"] = NoInode
OneAtATime ==
  /\ \A c, d \in Running : c = d
  /\ \A c \in Running :
       /\ from[c] = dir["db"]
       /\ pc[c] # "opened" => cached[from[c]] # Empty
       /\ pc[c] = "gc rename" => cached[to[c]] = cached[from[c]]
  /\ \A c \in Collecting : to[c] = dir["db.gc"]
  /\ TwoFiles(dir) /\ TwoFiles(diskDir)

IInv ==
  /\ TypeOK
  /\ Handles
  /\ gcs = 0 => WithoutGc /\ LastRootVisible
  /\ use.atOnce <= 1 => OneAtATime /\ LastRootVisible
-----------------------------------------------------------------------------
LEMMA FilesFacts ==
  /\ NoInode \notin Inodes /\ NoClient \notin Clients /\ MaxRoot \in Nat
  /\ Empty \in Root /\ 0 \in Root /\ Root \subseteq Int
  /\ "db" \in Names /\ "db.gc" \in Names
BY FilesAssumption DEF Root, Empty, Names

LEMMA Numbers ==
  ASSUME TypeOK
  PROVE  /\ last \in Nat /\ last <= MaxRoot
         /\ \A i \in Inodes : /\ cached[i] \in Int /\ cached[i] >= Empty
                              /\ durable[i] \in Int /\ durable[i] >= Empty
<1>1. \A r \in Root : r \in Int /\ r >= Empty
  BY FilesFacts DEF Root, Empty
<1>2. last \in 0 .. MaxRoot
  BY DEF TypeOK
<1>3. last \in Nat /\ last <= MaxRoot
  BY <1>2, FilesFacts
<1>4. \A i \in Inodes : cached[i] \in Root /\ durable[i] \in Root
  BY DEF TypeOK
<1> QED BY <1>1, <1>3, <1>4

LEMMA UseFacts ==
  ASSUME TypeOK
  PROVE  /\ use \in Uses
         /\ use.atOnce \in Nat /\ use.maxGc \in Nat /\ use.maxFail \in Nat
         /\ gcs \in Nat /\ gcs <= use.maxGc
         /\ fails \in Nat
<1>1. use \in Uses /\ gcs \in 0 .. use.maxGc /\ fails \in 0 .. use.maxFail
  BY DEF TypeOK
<1>2. use.atOnce \in Nat /\ use.maxGc \in Nat /\ use.maxFail \in Nat
  BY <1>1, UsesAssumption
<1> QED BY <1>1, <1>2

LEMMA InitInv == Init => IInv
<1> SUFFICES ASSUME Init PROVE IInv
  OBVIOUS
<1>1. TypeOK
  <2>1. use.maxGc \in Nat /\ use.maxFail \in Nat
    BY UsesAssumption DEF Init
  <2> QED BY <2>1, FilesFacts DEF Init, TypeOK
<1>2. Running = {} /\ Collecting = {}
  BY DEF Init, Running, Collecting
<1>3. RootIn(dir, cached) = last
  BY FilesFacts DEF Init, RootIn
<1>4. TwoFiles(dir) /\ TwoFiles(diskDir)
  BY FilesFacts DEF Init, TwoFiles
<1>5. \A i \in Inodes : durable[i] <= cached[i]
  BY DEF Init, Empty
<1>6. dir["db.gc"] = NoInode /\ diskDir["db.gc"] = NoInode /\ diskDir["db"] = NoInode
  BY FilesFacts DEF Init
<1> QED BY <1>1, <1>2, <1>3, <1>4, <1>5, <1>6 DEF IInv, Handles, WithoutGc, OneAtATime, LastRootVisible

\* A file that is opened by its name is new and empty, or unchanged.
LEMMA OpensOK ==
  ASSUME TypeOK, NEW name \in Names, NEW i \in Inodes, Opens(name, i)
  PROVE  /\ dir' \in [Names -> Inodes \union {NoInode}]
         /\ cached' \in [Inodes -> Root] /\ durable' \in [Inodes -> Root]
         /\ dir'[name] = i
         /\ \A n \in Names : n # name => dir'[n] = dir[n]
         /\ \/ dir[name] = i /\ UNCHANGED <<dir, cached, durable>>
            \/ /\ dir[name] = NoInode /\ i \in Unused
               /\ cached'[i] = Empty /\ durable'[i] = Empty
               /\ \A j \in Inodes : j # i => cached'[j] = cached[j] /\ durable'[j] = durable[j]
<1>1. CASE dir[name] # NoInode
  BY <1>1 DEF TypeOK, Opens
<1>2. CASE dir[name] = NoInode
  <2>1. /\ i \in Unused
        /\ dir' = [dir EXCEPT ![name] = i]
        /\ cached' = [cached EXCEPT ![i] = Empty]
        /\ durable' = [durable EXCEPT ![i] = Empty]
    BY <1>2 DEF Opens
  <2> QED BY <1>2, <2>1, FilesFacts DEF TypeOK
<1> QED BY <1>1, <1>2

\* The guard of Open: with one process at a time, no other one runs.
LEMMA AloneAtOpen ==
  ASSUME TypeOK, use.atOnce <= 1,
         Cardinality({d \in Clients : pc[d] # "closed"}) < use.atOnce
  PROVE  Running = {}
<1>1. use.atOnce \in Nat
  BY UsesAssumption DEF TypeOK
<1>2. IsFiniteSet(Running)
  BY FilesAssumption, FS_Subset DEF Running
<1>3. Cardinality(Running) \in Nat
  BY <1>2, FS_CardinalityType
<1>4. Cardinality(Running) = 0
  BY <1>1, <1>3 DEF Running
<1> QED BY <1>2, <1>4, FS_EmptySet

LEMMA OpenStep ==
  ASSUME IInv, NEW c \in Clients, NEW i \in Inodes, Open(c, i)
  PROVE  IInv'
<1>1. /\ pc[c] = "closed" /\ Opens("db", i)
      /\ from' = [from EXCEPT ![c] = i] /\ pc' = [pc EXCEPT ![c] = "opened"]
      /\ UNCHANGED <<use, diskDir, lock, to, last, gcs, fails>>
  BY DEF Open
<1>2. /\ dir' \in [Names -> Inodes \union {NoInode}]
      /\ cached' \in [Inodes -> Root] /\ durable' \in [Inodes -> Root]
      /\ dir'["db"] = i
      /\ dir'["db.gc"] = dir["db.gc"]
      /\ \/ dir["db"] = i /\ UNCHANGED <<dir, cached, durable>>
         \/ /\ dir["db"] = NoInode /\ i \in Unused
            /\ cached'[i] = Empty /\ durable'[i] = Empty
            /\ \A j \in Inodes : j # i => cached'[j] = cached[j] /\ durable'[j] = durable[j]
  <2>1. TypeOK
    BY DEF IInv
  <2> QED BY <1>1, <2>1, OpensOK, FilesFacts
<1>3. TypeOK'
  BY <1>1, <1>2 DEF IInv, TypeOK
<1>4. /\ Running' = Running \union {c} /\ Collecting' = Collecting
      /\ c \notin Running
      /\ from'[c] = i /\ pc'[c] = "opened"
      /\ \A d \in Clients : d # c => from'[d] = from[d] /\ pc'[d] = pc[d]
  BY <1>1 DEF IInv, TypeOK, Running, Collecting
<1>5. Handles'
  BY <1>1, <1>4 DEF IInv, Handles, Collecting, Running
<1>6. LastRootVisible => LastRootVisible'
  BY <1>1, <1>2, FilesFacts DEF LastRootVisible, RootIn
<1>7. WithoutGc => WithoutGc'
  <2> SUFFICES ASSUME WithoutGc PROVE WithoutGc'
    OBVIOUS
  <2>1. \A d \in Running : from[d] = dir["db"] /\ from[d] # NoInode
    BY FilesFacts DEF WithoutGc, IInv, Handles
  <2>2. \A d \in Running' : from'[d] = dir'["db"]
    BY <1>2, <1>4, <2>1 DEF Running
  <2>3. \A j \in Inodes : durable'[j] <= cached'[j]
    BY <1>2 DEF WithoutGc, Empty
  <2>4. diskDir'["db"] \in {NoInode, dir'["db"]}
    BY <1>1, <1>2, FilesFacts DEF WithoutGc
  <2> QED BY <1>1, <1>2, <1>4, <2>2, <2>3, <2>4 DEF WithoutGc, Running
<1>8. use.atOnce <= 1 => Running = {}
  BY AloneAtOpen DEF Open, IInv
<1>9. OneAtATime /\ Running = {} => OneAtATime'
  <2> SUFFICES ASSUME OneAtATime, Running = {} PROVE OneAtATime'
    OBVIOUS
  <2>1. Running' = {c} /\ Collecting' = {}
    BY <1>4 DEF Running, Collecting
  <2>2. TwoFiles(dir')
    BY <1>2, FilesFacts DEF TwoFiles, OneAtATime, Unused
  <2> QED BY <1>1, <1>2, <1>4, <2>1, <2>2 DEF OneAtATime
<1> QED BY <1>1, <1>3, <1>5, <1>6, <1>7, <1>8, <1>9 DEF IInv

LEMMA LockStep ==
  ASSUME IInv, NEW c \in Clients, Lock(c)
  PROVE  IInv'
<1>1. /\ pc[c] = "opened" /\ CanLock(c, from[c])
      /\ lock' = [lock EXCEPT ![from[c]] = c]
      /\ cached' = [cached EXCEPT ![from[c]] = IF @ = Empty THEN 0 ELSE @]
      /\ pc' = [pc EXCEPT ![c] = "active"]
      /\ UNCHANGED <<use, dir, disks, from, to, last, gcs, fails>>
  BY DEF Lock
<1>2. c \in Running /\ from[c] \in Inodes
  BY <1>1 DEF IInv, Handles, Running
<1>3. /\ cached'[from[c]] = (IF cached[from[c]] = Empty THEN 0 ELSE cached[from[c]])
      /\ \A j \in Inodes : j # from[c] => cached'[j] = cached[j] /\ lock'[j] = lock[j]
      /\ cached' \in [Inodes -> Root] /\ lock'[from[c]] = c
  BY <1>1, <1>2, FilesFacts DEF IInv, TypeOK
<1>4. TypeOK'
  BY <1>1, <1>2, <1>3 DEF IInv, TypeOK, disks
<1>5. /\ Running' = Running /\ Collecting' = Collecting
      /\ pc'[c] = "active" /\ c \notin Collecting
      /\ \A d \in Clients : d # c => pc'[d] = pc[d]
  BY <1>1 DEF IInv, TypeOK, Running, Collecting
<1>6. Handles'
  BY <1>1, <1>5 DEF IInv, Handles
<1>7. LastRootVisible => LastRootVisible'
  BY <1>1, <1>2, <1>3 DEF LastRootVisible, RootIn, IInv, TypeOK, Names, Empty
<1>8. WithoutGc => WithoutGc'
  <2> SUFFICES ASSUME WithoutGc PROVE WithoutGc'
    OBVIOUS
  <2>1. \A d \in Running' : pc'[d] = "active" => lock'[from'[d]] = d
    BY <1>1, <1>2, <1>3, <1>5, FilesFacts DEF WithoutGc, CanLock, Running
  <2>2. \A j \in Inodes : durable'[j] <= cached'[j]
    <3>1. TypeOK /\ \A j \in Inodes : durable[j] <= cached[j]
      BY DEF WithoutGc, IInv
    <3> QED BY <1>1, <1>2, <1>3, <3>1, Numbers DEF disks, Empty
  <2> QED BY <1>1, <1>5, <2>1, <2>2 DEF WithoutGc, disks
<1>9. OneAtATime => OneAtATime'
  <2> SUFFICES ASSUME OneAtATime PROVE OneAtATime'
    OBVIOUS
  <2>1. Running' = {c} /\ from[c] = dir["db"]
    BY <1>2, <1>5 DEF OneAtATime
  <2>3. Collecting' = {}
    BY <1>5, <2>1 DEF Running, Collecting
  <2>2. cached'[from[c]] # Empty
    BY <1>3 DEF Empty
  <2> QED BY <1>1, <1>5, <2>1, <2>2, <2>3 DEF OneAtATime, disks
<1> QED BY <1>1, <1>4, <1>6, <1>7, <1>8, <1>9 DEF IInv

LEMMA ExitStep ==
  ASSUME IInv, NEW c \in Clients, Exit(c)
  PROVE  IInv'
<1>1. /\ pc' = [pc EXCEPT ![c] = "closed"]
      /\ from' = [from EXCEPT ![c] = NoInode] /\ to' = [to EXCEPT ![c] = NoInode]
      /\ lock' = [i \in Inodes |-> IF lock[i] = c THEN NoClient ELSE lock[i]]
      /\ UNCHANGED <<use, dir, disks, cached, last, gcs, fails>>
  BY DEF Exit
<1>2. TypeOK'
  BY <1>1 DEF IInv, TypeOK, disks
<1>3. /\ Running' = Running \ {c} /\ Collecting' = Collecting \ {c}
      /\ \A d \in Clients : d # c => pc'[d] = pc[d] /\ from'[d] = from[d] /\ to'[d] = to[d]
  BY <1>1 DEF IInv, TypeOK, Running, Collecting
<1>4. Handles'
  BY <1>3 DEF IInv, Handles, Running, Collecting
<1>5. LastRootVisible => LastRootVisible'
  BY <1>1 DEF LastRootVisible
<1>6. WithoutGc => WithoutGc'
  <2>1. \A d \in Running \ {c} : from[d] \in Inodes
    BY DEF IInv, Handles
  <2> QED BY <1>1, <1>3, <2>1 DEF WithoutGc, disks, Running
<1>7. OneAtATime => OneAtATime'
  <2>1. c \in Running
    BY DEF Exit, Running
  <2>2. OneAtATime => Running' = {} /\ Collecting' = {}
    BY <1>3, <2>1 DEF OneAtATime, Running, Collecting
  <2> QED BY <1>1, <2>2 DEF OneAtATime, disks
<1> QED BY <1>1, <1>2, <1>4, <1>5, <1>6, <1>7 DEF IInv

\* ss_set_root only changes the file.
LEMMA SetRootOK ==
  ASSUME TypeOK, NEW i \in Inodes, NEW r \in Root, SetRoot(i, r)
  PROVE  /\ cached' \in [Inodes -> Root] /\ durable' \in [Inodes -> Root]
         /\ cached'[i] = r
         /\ durable'[i] \in {durable[i], 0}
         /\ durable'[i] = 0 \/ durable'[i] = durable[i]
         /\ \A j \in Inodes : j # i => cached'[j] = cached[j] /\ durable'[j] = durable[j]
BY FilesFacts DEF TypeOK, SetRoot

LEMMA CommitStep ==
  ASSUME IInv, NEW c \in Clients, Commit(c)
  PROVE  IInv'
<1>1. /\ pc[c] = "active" /\ last < MaxRoot /\ last' = last + 1 /\ SetRoot(from[c], last + 1)
      /\ UNCHANGED <<use, dir, diskDir, lock, pc, from, to, gcs, fails>>
  BY DEF Commit
<1>2. c \in Running /\ from[c] \in Inodes
  BY <1>1 DEF IInv, Handles, Running
<1>3. last' \in 0 .. MaxRoot /\ last + 1 \in Root /\ last + 1 > 0
  <2>1. last \in Nat
    BY Numbers DEF IInv
  <2> QED BY <1>1, <2>1, FilesFacts DEF Root
<1>4. /\ cached' \in [Inodes -> Root] /\ durable' \in [Inodes -> Root]
      /\ cached'[from[c]] = last + 1
      /\ durable'[from[c]] = 0 \/ durable'[from[c]] = durable[from[c]]
      /\ \A j \in Inodes : j # from[c] => cached'[j] = cached[j] /\ durable'[j] = durable[j]
  <2>1. TypeOK
    BY DEF IInv
  <2> QED BY <1>1, <1>2, <1>3, <2>1, SetRootOK
<1>5. TypeOK'
  BY <1>1, <1>3, <1>4 DEF IInv, TypeOK
<1>6. Running' = Running /\ Collecting' = Collecting
  BY <1>1 DEF Running, Collecting
<1>7. Handles'
  BY <1>1, <1>6 DEF IInv, Handles
<1>8. from[c] = dir["db"] => LastRootVisible'
  BY <1>1, <1>2, <1>3, <1>4, FilesFacts DEF LastRootVisible, RootIn, Empty
<1>9. WithoutGc /\ LastRootVisible => WithoutGc' /\ LastRootVisible'
  <2> SUFFICES ASSUME WithoutGc, LastRootVisible PROVE WithoutGc' /\ LastRootVisible'
    OBVIOUS
  <2>1. from[c] = dir["db"]
    BY <1>2 DEF WithoutGc
  <2>2. cached[from[c]] <= last
    <3>1. TypeOK /\ RootIn(dir, cached) = last
      BY DEF IInv, LastRootVisible
    <3> QED BY <1>2, <2>1, <3>1, FilesFacts, Numbers DEF RootIn, Empty
  <2>3. durable[from[c]] <= cached[from[c]] /\ durable[from[c]] \in Int /\ cached[from[c]] \in Int /\ last \in Nat
    BY <1>2, Numbers DEF WithoutGc, IInv
  <2>4. \A j \in Inodes : durable'[j] <= cached'[j]
    BY <1>3, <1>4, <2>2, <2>3 DEF WithoutGc
  <2> QED BY <1>1, <1>6, <1>8, <2>1, <2>4 DEF WithoutGc
<1>10. OneAtATime => OneAtATime' /\ LastRootVisible'
  <2> SUFFICES ASSUME OneAtATime PROVE OneAtATime' /\ LastRootVisible'
    OBVIOUS
  <2>1. Running = {c} /\ from[c] = dir["db"]
    BY <1>2 DEF OneAtATime
  <2>2. last + 1 # Empty
    BY <1>3 DEF Empty
  <2> QED BY <1>1, <1>4, <1>6, <1>8, <2>1, <2>2 DEF OneAtATime
<1> QED BY <1>1, <1>5, <1>7, <1>9, <1>10 DEF IInv

-----------------------------------------------------------------------------
(***************************************************************************)
(* A collection, which is always after gcs = 0                             *)
(***************************************************************************)

LEMMA GcOpenStep ==
  ASSUME IInv, NEW c \in Clients, NEW i \in Inodes, GcOpen(c, i)
  PROVE  IInv'
<1>1. /\ pc[c] = "active" /\ gcs < use.maxGc /\ Opens("db.gc", i)
      /\ to' = [to EXCEPT ![c] = i] /\ pc' = [pc EXCEPT ![c] = "gc opened"]
      /\ gcs' = gcs + 1
      /\ UNCHANGED <<use, diskDir, lock, from, last, fails>>
  BY DEF GcOpen
<1>2. /\ dir' \in [Names -> Inodes \union {NoInode}]
      /\ cached' \in [Inodes -> Root] /\ durable' \in [Inodes -> Root]
      /\ dir'["db.gc"] = i
      /\ dir'["db"] = dir["db"]
      /\ \/ dir["db.gc"] = i /\ UNCHANGED <<dir, cached, durable>>
         \/ /\ dir["db.gc"] = NoInode /\ i \in Unused
            /\ cached'[i] = Empty /\ durable'[i] = Empty
            /\ \A j \in Inodes : j # i => cached'[j] = cached[j] /\ durable'[j] = durable[j]
  <2>1. TypeOK
    BY DEF IInv
  <2> QED BY <1>1, <2>1, OpensOK, FilesFacts
<1>3. gcs' \in 0 .. use.maxGc /\ gcs' # 0
  <2>1. use.maxGc \in Nat /\ gcs \in Nat
    BY UseFacts DEF IInv
  <2>2. gcs' = gcs + 1 /\ gcs < use.maxGc
    BY <1>1
  <2> QED BY <2>1, <2>2
<1>4. TypeOK'
  BY <1>1, <1>2, <1>3 DEF IInv, TypeOK
<1>5. /\ Running' = Running /\ Collecting' = Collecting \union {c}
      /\ c \in Running
      /\ to'[c] = i /\ pc'[c] = "gc opened"
      /\ \A d \in Clients : d # c => to'[d] = to[d] /\ pc'[d] = pc[d]
  BY <1>1 DEF IInv, TypeOK, Running, Collecting
<1>6. Handles'
  BY <1>1, <1>5 DEF IInv, Handles, Collecting, Running
<1>7. OneAtATime /\ LastRootVisible => OneAtATime' /\ LastRootVisible'
  <2> SUFFICES ASSUME OneAtATime, LastRootVisible PROVE OneAtATime' /\ LastRootVisible'
    OBVIOUS
  <2>1. Running' = {c} /\ from[c] = dir["db"] /\ from[c] \in Inodes /\ cached[from[c]] # Empty
    BY <1>1, <1>5 DEF OneAtATime, IInv, Handles
  <2>2. Collecting' \subseteq {c}
    BY <2>1 DEF Running, Collecting
  <2>3. i # dir["db"]
    BY <1>2, <2>1, FilesFacts DEF Unused, OneAtATime, TwoFiles
  <2>4. cached'[from[c]] = cached[from[c]]
    BY <1>2, <2>1, <2>3
  <2>5. OneAtATime'
    BY <1>1, <1>2, <1>5, <2>1, <2>2, <2>3, <2>4 DEF OneAtATime, TwoFiles
  <2>6. LastRootVisible'
    BY <1>1, <1>2, <2>1, <2>4 DEF LastRootVisible, RootIn
  <2> QED BY <2>5, <2>6
<1> QED BY <1>1, <1>3, <1>4, <1>6, <1>7 DEF IInv

LEMMA NoGcYet == IInv /\ gcs = 0 => Collecting = {}
BY DEF IInv, WithoutGc

LEMMA GcLockStep ==
  ASSUME IInv, NEW c \in Clients, GcLock(c)
  PROVE  IInv'
<1>1. /\ pc[c] = "gc opened"
      /\ lock' = [lock EXCEPT ![to[c]] = c]
      /\ cached' = [cached EXCEPT ![to[c]] = 0]
      /\ pc' = [pc EXCEPT ![c] = "gc copy"]
      /\ UNCHANGED <<use, dir, disks, from, to, last, gcs, fails>>
  BY DEF GcLock
<1>2. /\ c \in Running /\ c \in Collecting
      /\ from[c] \in Inodes /\ to[c] \in Inodes
  BY <1>1 DEF IInv, Handles, Running, Collecting
<1>3. TypeOK'
  BY <1>1, FilesFacts DEF IInv, TypeOK, disks
<1>4. /\ Running' = Running /\ Collecting' = Collecting
      /\ pc'[c] = "gc copy"
      /\ \A j \in Inodes : j # to[c] => cached'[j] = cached[j]
  BY <1>1, <1>2 DEF IInv, TypeOK, Running, Collecting
<1>5. Handles'
  BY <1>1, <1>4 DEF IInv, Handles
<1>6. OneAtATime /\ LastRootVisible => OneAtATime' /\ LastRootVisible'
  <2> SUFFICES ASSUME OneAtATime, LastRootVisible PROVE OneAtATime' /\ LastRootVisible'
    OBVIOUS
  <2>1. /\ Running = {c} /\ from[c] = dir["db"] /\ cached[from[c]] # Empty
        /\ to[c] = dir["db.gc"] /\ to[c] # from[c]
    BY <1>1, <1>2, FilesFacts DEF OneAtATime, TwoFiles
  <2>2. cached'[from[c]] = cached[from[c]]
    BY <1>2, <1>4, <2>1
  <2>3. OneAtATime'
    BY <1>1, <1>4, <2>1, <2>2 DEF OneAtATime, disks
  <2>4. LastRootVisible'
    BY <1>1, <2>1, <2>2 DEF LastRootVisible, RootIn
  <2> QED BY <2>3, <2>4
<1> QED BY <1>1, <1>2, <1>3, <1>5, <1>6, NoGcYet DEF IInv

LEMMA GcSetRootStep ==
  ASSUME IInv, NEW c \in Clients, GcSetRoot(c)
  PROVE  IInv'
<1>1. /\ pc[c] = "gc copy" /\ SetRoot(to[c], cached[from[c]])
      /\ pc' = [pc EXCEPT ![c] = "gc rename"]
      /\ UNCHANGED <<use, dir, diskDir, lock, from, to, last, gcs, fails>>
  BY DEF GcSetRoot
<1>2. /\ c \in Running /\ c \in Collecting
      /\ from[c] \in Inodes /\ to[c] \in Inodes /\ cached[from[c]] \in Root
  BY <1>1 DEF IInv, TypeOK, Handles, Running, Collecting
<1>3. /\ cached' \in [Inodes -> Root] /\ durable' \in [Inodes -> Root]
      /\ cached'[to[c]] = cached[from[c]]
      /\ \A j \in Inodes : j # to[c] => cached'[j] = cached[j]
  <2>1. TypeOK
    BY DEF IInv
  <2> QED BY <1>1, <1>2, <2>1, SetRootOK
<1>4. TypeOK'
  BY <1>1, <1>3 DEF IInv, TypeOK
<1>5. /\ Running' = Running /\ Collecting' = Collecting
      /\ pc'[c] = "gc rename"
  BY <1>1 DEF IInv, TypeOK, Running, Collecting
<1>6. Handles'
  BY <1>1, <1>5 DEF IInv, Handles
<1>7. OneAtATime /\ LastRootVisible => OneAtATime' /\ LastRootVisible'
  <2> SUFFICES ASSUME OneAtATime, LastRootVisible PROVE OneAtATime' /\ LastRootVisible'
    OBVIOUS
  <2>1. /\ Running = {c} /\ from[c] = dir["db"] /\ cached[from[c]] # Empty
        /\ to[c] = dir["db.gc"] /\ to[c] # from[c]
    BY <1>1, <1>2, FilesFacts DEF OneAtATime, TwoFiles
  <2>2. cached'[from[c]] = cached[from[c]]
    BY <1>2, <1>3, <2>1
  <2>3. OneAtATime'
    BY <1>1, <1>3, <1>5, <2>1, <2>2 DEF OneAtATime
  <2>4. LastRootVisible'
    BY <1>1, <2>1, <2>2 DEF LastRootVisible, RootIn
  <2> QED BY <2>3, <2>4
<1> QED BY <1>1, <1>2, <1>4, <1>6, <1>7, NoGcYet DEF IInv

LEMMA GcRenameStep ==
  ASSUME IInv, NEW c \in Clients, GcRename(c)
  PROVE  IInv'
<1>1. /\ pc[c] = "gc rename" /\ dir["db.gc"] # NoInode
      /\ dir' = [n \in Names |-> IF n = "db" THEN dir["db.gc"] ELSE NoInode]
      /\ lock' = [lock EXCEPT ![from[c]] = IF @ = c THEN NoClient ELSE @]
      /\ from' = [from EXCEPT ![c] = to[c]] /\ to' = [to EXCEPT ![c] = NoInode]
      /\ pc' = [pc EXCEPT ![c] = "active"]
      /\ UNCHANGED <<use, disks, cached, last, gcs, fails>>
  BY DEF GcRename
<1>2. /\ c \in Running /\ c \in Collecting
      /\ from[c] \in Inodes /\ to[c] \in Inodes
  BY <1>1 DEF IInv, Handles, Running, Collecting
<1>3. TypeOK'
  <2>1. /\ dir' \in [Names -> Inodes \union {NoInode}]
        /\ lock' \in [Inodes -> Clients \union {NoClient}]
    BY <1>1, <1>2, FilesFacts DEF IInv, TypeOK
  <2> QED BY <1>1, <1>2, <2>1 DEF IInv, TypeOK, disks
<1>4. /\ Running' = Running /\ Collecting' = Collecting \ {c}
      /\ pc'[c] = "active" /\ from'[c] = to[c]
      /\ \A d \in Clients : d # c => from'[d] = from[d] /\ to'[d] = to[d]
      /\ dir'["db"] = dir["db.gc"] /\ dir'["db.gc"] = NoInode
  BY <1>1, FilesFacts DEF IInv, TypeOK, Running, Collecting
<1>5. Handles'
  BY <1>2, <1>4 DEF IInv, Handles, Running, Collecting
<1>6. OneAtATime /\ LastRootVisible => OneAtATime' /\ LastRootVisible'
  <2> SUFFICES ASSUME OneAtATime, LastRootVisible PROVE OneAtATime' /\ LastRootVisible'
    OBVIOUS
  <2>1. /\ Running = {c} /\ from[c] = dir["db"] /\ cached[from[c]] # Empty
        /\ to[c] = dir["db.gc"] /\ cached[to[c]] = cached[from[c]]
    BY <1>1, <1>2 DEF OneAtATime
  <2>2. Collecting' = {}
    BY <1>4, <2>1 DEF Running, Collecting
  <2>3. TwoFiles(dir') /\ TwoFiles(diskDir')
    BY <1>1, <1>4 DEF OneAtATime, TwoFiles, disks
  <2>5. OneAtATime'
    <3>1. Running' = {c} /\ pc'[c] = "active"
      BY <1>4, <2>1
    <3>2. from'[c] = dir'["db"] /\ cached'[from'[c]] # Empty
      BY <1>1, <1>4, <2>1
    <3> QED BY <2>2, <2>3, <3>1, <3>2 DEF OneAtATime
  <2>4. LastRootVisible'
    BY <1>1, <1>2, <1>4, <2>1, FilesFacts DEF LastRootVisible, RootIn
  <2> QED BY <2>4, <2>5
<1> QED BY <1>1, <1>2, <1>3, <1>5, <1>6, NoGcYet DEF IInv

-----------------------------------------------------------------------------
(***************************************************************************)
(* The kernel, and power failures                                          *)
(***************************************************************************)

LEMMA FlushSteps ==
  ASSUME IInv, (\E i \in Inodes : FlushHeader(i)) \/ FlushDirectory
  PROVE  IInv'
<1>1. /\ UNCHANGED <<use, dir, cached, lock, pc, from, to, last, gcs, fails>>
      /\ \/ \E i \in Inodes : durable' = [durable EXCEPT ![i] = cached[i]] /\ diskDir' = diskDir
         \/ durable' = durable /\ diskDir' = dir
  BY DEF FlushHeader, FlushDirectory
<1>2. TypeOK'
  BY <1>1 DEF IInv, TypeOK
<1>3. Running' = Running /\ Collecting' = Collecting
  BY <1>1 DEF Running, Collecting
<1>4. Handles' /\ (LastRootVisible => LastRootVisible')
  BY <1>1, <1>3 DEF IInv, Handles, LastRootVisible
<1>5. WithoutGc => WithoutGc'
  <2> SUFFICES ASSUME WithoutGc PROVE WithoutGc'
    OBVIOUS
  <2>1. \A i \in Inodes : durable'[i] <= cached'[i]
    <3>1. TypeOK /\ \A i \in Inodes : durable[i] <= cached[i]
      BY DEF WithoutGc, IInv
    <3>2. \A i \in Inodes : durable'[i] = durable[i] \/ durable'[i] = cached[i]
      BY <1>1 DEF IInv, TypeOK
    <3> QED BY <1>1, <3>1, <3>2, Numbers
  <2> QED BY <1>1, <1>3, <2>1 DEF WithoutGc
<1>6. OneAtATime => OneAtATime'
  BY <1>1, <1>3 DEF OneAtATime, TwoFiles
<1> QED BY <1>1, <1>2, <1>4, <1>5, <1>6 DEF IInv

LEMMA PowerFailStep ==
  ASSUME IInv, PowerFail
  PROVE  IInv'
<1>1. /\ fails < use.maxFail /\ fails' = fails + 1
      /\ dir' = diskDir /\ cached' = durable
      /\ lock' = [i \in Inodes |-> NoClient]
      /\ pc' = [c \in Clients |-> "closed"]
      /\ from' = [c \in Clients |-> NoInode] /\ to' = [c \in Clients |-> NoInode]
      /\ last' = RootIn(diskDir, durable)
      /\ UNCHANGED <<use, diskDir, durable, gcs>>
  BY DEF PowerFail, disks
<1>2. TypeOK'
  <2>1. fails' \in 0 .. use.maxFail
    <3>1. use.maxFail \in Nat /\ fails \in Nat
      BY UseFacts DEF IInv
    <3> QED BY <1>1, <3>1
  <2>2. last' \in 0 .. MaxRoot
    <3>1. diskDir["db"] # NoInode => durable[diskDir["db"]] \in Root
      BY FilesFacts DEF IInv, TypeOK
    <3> QED BY <1>1, <3>1, FilesFacts DEF RootIn, Root
  <2> QED BY <1>1, <2>1, <2>2 DEF IInv, TypeOK
<1>3. Running' = {} /\ Collecting' = {}
  BY <1>1 DEF Running, Collecting
<1>4. Handles' /\ LastRootVisible'
  BY <1>1, <1>3 DEF Handles, LastRootVisible
<1>5. WithoutGc => WithoutGc'
  <2>1. TypeOK
    BY DEF IInv
  <2> QED BY <1>1, <1>3, <2>1, Numbers DEF WithoutGc
<1>6. OneAtATime => OneAtATime'
  BY <1>1, <1>3 DEF OneAtATime, TwoFiles
<1> QED BY <1>1, <1>2, <1>4, <1>5, <1>6 DEF IInv

LEMMA NextInv == IInv /\ [Next]_vars => IInv'
<1> SUFFICES ASSUME IInv, [Next]_vars PROVE IInv'
  OBVIOUS
<1>1. CASE UNCHANGED vars
  BY <1>1 DEF vars, IInv, TypeOK, Handles, WithoutGc, OneAtATime, LastRootVisible, TwoFiles, Running, Collecting
<1> QED BY <1>1, OpenStep, LockStep, ExitStep, CommitStep, GcOpenStep, GcLockStep, GcSetRootStep,
           GcRenameStep, FlushSteps, PowerFailStep DEF Next

LEMMA Invariance == Spec => []IInv
BY InitInv, NextInv, PTL DEF Spec

-----------------------------------------------------------------------------
(***************************************************************************)
(* The properties                                                          *)
(***************************************************************************)

\* However the database is used: a process that runs has a file with a number
\* for a root, and only so many roots are set.
THEOREM TypeCorrect == Spec => []TypeOK
<1>1. IInv => TypeOK
  BY DEF IInv
<1> QED BY <1>1, Invariance, PTL

LEMMA CarefulCases ==
  ASSUME Careful, IInv
  PROVE  gcs = 0 \/ use.atOnce <= 1
<1>1. use.atOnce <= 1 \/ use.maxGc = 0
  BY UseFacts DEF Careful, IInv
<1> QED BY <1>1, UseFacts DEF IInv

\* No update is lost, when collections have the database for themselves: not
\* by kills at any point of them, and not by power failures.
THEOREM NoUpdateLost == ASSUME Careful PROVE Spec => []LastRootVisible
<1>1. IInv => LastRootVisible
  BY CarefulCases DEF IInv
<1> QED BY <1>1, Invariance, PTL

\* The lock of the file is a lock of the database, as long as the name means
\* the same file for all who ask for it.
THEOREM ClientsExclude == ASSUME Careful PROVE Spec => []SingleClient
<1>1. IInv => SingleClient
  <2> SUFFICES ASSUME IInv, NEW c \in Clients, NEW d \in Clients,
                      pc[c] # "closed" /\ pc[c] # "opened",
                      pc[d] # "closed" /\ pc[d] # "opened"
               PROVE  c = d
    BY DEF SingleClient
  <2>1. c \in Running /\ d \in Running
    BY DEF Running
  <2>2. CASE gcs = 0
    <3>1. pc[c] = "active" /\ pc[d] = "active"
      BY <2>2 DEF IInv, TypeOK, WithoutGc, Collecting
    <3> QED BY <2>1, <2>2, <3>1 DEF IInv, WithoutGc
  <2>3. CASE use.atOnce <= 1
    BY <2>1, <2>3 DEF IInv, OneAtATime
  <2> QED BY <2>2, <2>3, CarefulCases
<1> QED BY <1>1, Invariance, PTL

\* What a power failure would leave never goes back to an older root before
\* there is a collection, for any number of processes.
THEOREM DurableRootAdvances == Spec => DurableRootAdvancesWithoutGc
<1>1. IInv /\ [Next]_vars => [gcs' = 0 => RootIn(diskDir', durable') >= RootIn(diskDir, durable)]_vars
  <2> SUFFICES ASSUME IInv, Next, gcs' = 0
               PROVE  RootIn(diskDir', durable') >= RootIn(diskDir, durable)
    OBVIOUS
  <2>1. gcs = 0
    <3>1. gcs \in Nat
      BY UseFacts DEF IInv
    <3>2. gcs' \in {gcs, gcs + 1}
      BY DEF Next, Open, Lock, Exit, Commit, GcOpen, GcLock, GcSetRoot, GcRename,
             FlushHeader, FlushDirectory, PowerFail
    <3> QED BY <3>1, <3>2
  <2>2. WithoutGc /\ TypeOK
    BY <2>1 DEF IInv
  <2>3. /\ RootIn(diskDir, durable) \in Int
        /\ diskDir["db"] = NoInode => RootIn(diskDir, durable) = 0
        /\ diskDir["db"] # NoInode => diskDir["db"] \in Inodes
    BY <2>2, FilesFacts, Numbers DEF RootIn, TypeOK
  <2> DEFINE Goal == RootIn(diskDir', durable') >= RootIn(diskDir, durable)
  <2>4. ASSUME UNCHANGED diskDir,
               \A i \in Inodes : i = diskDir["db"] =>
                 durable'[i] \in Int /\ durable'[i] >= durable[i]
        PROVE  Goal
    BY <2>2, <2>3, <2>4, Numbers DEF RootIn, Empty
  <2>5. ASSUME NEW c \in Clients, NEW i \in Inodes, Open(c, i) PROVE Goal
    <3>1. Opens("db", i) /\ UNCHANGED diskDir
      BY <2>5 DEF Open
    <3>2. \A j \in Inodes : j = diskDir["db"] => durable'[j] = durable[j]
      BY <2>2, <3>1, OpensOK, FilesFacts DEF Unused
    <3> QED BY <2>2, <2>4, <3>1, <3>2, Numbers
  <2>6. ASSUME NEW c \in Clients, Commit(c) PROVE Goal
    <3>1. /\ from[c] \in Inodes /\ last \in Nat /\ last < MaxRoot
          /\ SetRoot(from[c], last + 1) /\ UNCHANGED diskDir
      BY <2>2, <2>6, Numbers DEF Commit, IInv, Handles, Running
    <3>2. last + 1 \in Root
      BY <3>1, FilesFacts DEF Root
    <3>3. /\ durable'[from[c]] = IF cached[from[c]] = 0 THEN 0 ELSE durable[from[c]]
          /\ \A j \in Inodes : j # from[c] => durable'[j] = durable[j]
      BY <2>2, <3>1 DEF SetRoot, TypeOK
    <3>4. \A j \in Inodes : durable[j] <= cached[j]
      BY <2>2 DEF WithoutGc
    <3> QED BY <2>2, <2>4, <3>1, <3>3, <3>4, Numbers
  <2>7. ASSUME NEW i \in Inodes, FlushHeader(i) PROVE Goal
    <3>1. \A j \in Inodes : durable'[j] = durable[j] \/ durable'[j] = cached[j]
      BY <2>2, <2>7 DEF FlushHeader, TypeOK
    <3>2. \A j \in Inodes : durable[j] <= cached[j]
      BY <2>2 DEF WithoutGc
    <3> QED BY <2>2, <2>4, <2>7, <3>1, <3>2, Numbers DEF FlushHeader
  <2>8. CASE FlushDirectory
    <3>1. durable' = durable /\ diskDir' = dir
      BY <2>8 DEF FlushDirectory
    <3>2. dir["db"] \in Inodes \union {NoInode} /\ diskDir["db"] \in {NoInode, dir["db"]}
      BY <2>2, FilesFacts DEF WithoutGc, TypeOK
    <3>3. RootIn(dir, durable) \in Int /\ RootIn(dir, durable) >= 0
      BY <2>2, <3>2, Numbers DEF RootIn, Empty
    <3>4. CASE diskDir["db"] = NoInode
      BY <2>3, <3>1, <3>3, <3>4
    <3>5. CASE diskDir["db"] = dir["db"]
      BY <2>3, <3>1, <3>5 DEF RootIn
    <3> QED BY <3>2, <3>4, <3>5
  <2>9. ASSUME NEW c \in Clients, Lock(c) \/ Exit(c) \/ GcLock(c) \/ GcRename(c) PROVE Goal
    <3>1. UNCHANGED <<diskDir, durable>>
      BY <2>9 DEF Lock, Exit, GcLock, GcRename, disks
    <3> QED BY <2>3, <3>1
  <2>10. CASE PowerFail
    <3>1. UNCHANGED <<diskDir, durable>>
      BY <2>10 DEF PowerFail, disks
    <3> QED BY <2>3, <3>1
  <2>11. ASSUME NEW c \in Clients, NEW i \in Inodes, GcOpen(c, i) PROVE Goal
    <3>1. gcs' = gcs + 1
      BY <2>11 DEF GcOpen
    <3> QED BY <2>1, <3>1
  <2>12. ASSUME NEW c \in Clients, GcSetRoot(c) PROVE Goal
    BY <2>2, <2>12 DEF GcSetRoot, WithoutGc, Collecting
  <2> QED BY <2>5, <2>6, <2>7, <2>8, <2>9, <2>10, <2>11, <2>12 DEF Next
<1> QED BY <1>1, Invariance, PTL DEF Spec, DurableRootAdvancesWithoutGc

=============================================================================
