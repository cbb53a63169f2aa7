----------------------------- MODULE StoreFiles -----------------------------
(***************************************************************************)
(* The database as a name in a directory: several processes open, lock,    *)
(* commit to and garbage collect it.  ss_gc copies the store into          *)
(* "<name>.gc" and renames that over the old file (store.c:819-856), while *)
(* ss_open resolves the name before it locks the file (store.c:226-244).   *)
(*                                                                         *)
(* What happens inside one file is AtomicRoot: a file has the root that    *)
(* the page cache holds and the one that is on disk.  A root is the number *)
(* of the commit that made it; 0 is the null root of a fresh header, and   *)
(* Empty a file without header.                                            *)
(***************************************************************************)
EXTENDS Integers, FiniteSets

CONSTANTS
  Clients,     \* processes that use the database
  Inodes,      \* files
  NoInode,     \* a name that does not exist
  NoClient,    \* nobody
  MaxRoot,     \* bound on the number of commits
  Uses         \* how the database may be used, see below

ASSUME FilesAssumption ==
  /\ NoInode \notin Inodes
  /\ NoClient \notin Clients
  /\ IsFiniteSet(Clients)
  /\ MaxRoot \in Nat

(***************************************************************************)
(* A use bounds the processes that run at a time, the garbage collections  *)
(* and the power failures.                                                 *)
(***************************************************************************)
ASSUME UsesAssumption ==
  \A u \in Uses : u.atOnce \in Nat /\ u.maxGc \in Nat /\ u.maxFail \in Nat

Names == {"db", "db.gc"}
Empty == -1
Root == {Empty} \union 0 .. MaxRoot

VARIABLES
  use,      \* which use
  dir,      \* the directory, as processes see it
  diskDir,  \* the directory on disk
  cached,   \* the root in the page cache, per file
  durable,  \* the root on disk, per file
  lock,     \* the process that holds the fcntl lock of a file
  pc,       \* where each process is
  from,     \* ss->fd, for the store a process has open
  to,       \* gc.to_store->fd
  last,     \* the root of the last ss_set_root, by anyone
  gcs, fails  \* how many collections and power failures there were

vars == <<use, dir, diskDir, cached, durable, lock, pc, from, to, last, gcs, fails>>
disks == <<diskDir, durable>>

TypeOK ==
  /\ dir \in [Names -> Inodes \union {NoInode}]
  /\ diskDir \in [Names -> Inodes \union {NoInode}]
  /\ cached \in [Inodes -> Root]
  /\ durable \in [Inodes -> Root]
  /\ lock \in [Inodes -> Clients \union {NoClient}]
  /\ pc \in [Clients -> {"closed", "opened", "active", "gc opened", "gc copy", "gc rename"}]
  /\ from \in [Clients -> Inodes \union {NoInode}]
  /\ to \in [Clients -> Inodes \union {NoInode}]
  /\ last \in 0 .. MaxRoot
  /\ use \in Uses
  /\ gcs \in 0 .. use.maxGc
  /\ fails \in 0 .. use.maxFail

Init ==
  /\ use \in Uses
  /\ dir = [n \in Names |-> NoInode]
  /\ diskDir = dir
  /\ cached = [i \in Inodes |-> Empty]
  /\ durable = cached
  /\ lock = [i \in Inodes |-> NoClient]
  /\ pc = [c \in Clients |-> "closed"]
  /\ from = [c \in Clients |-> NoInode]
  /\ to = from
  /\ last = 0
  /\ gcs = 0
  /\ fails = 0

\* A file that no name and no process refers to is gone.
Unused == {i \in Inodes : /\ \A n \in Names : dir[n] # i /\ diskDir[n] # i
                          /\ \A c \in Clients : from[c] # i /\ to[c] # i}

\* open (name, O_RDWR | O_CREAT): the file the name refers to, or a new one.
Opens(name, i) ==
  IF dir[name] # NoInode
  THEN i = dir[name] /\ UNCHANGED <<dir, cached, durable>>
  ELSE /\ i \in Unused
       /\ dir' = [dir EXCEPT ![name] = i]
       /\ cached' = [cached EXCEPT ![i] = Empty]
       /\ durable' = [durable EXCEPT ![i] = Empty]

\* Mutant: the lock is not asked for.
NeedNoLock(c, i) == TRUE

\* fcntl (F_SETLK) succeeds, also when the process has the lock already.
CanLock(c, i) == lock[i] \in {c, NoClient}

(***************************************************************************)
(* ss_open (filename, SS_WRITE), by dpm_db_open                            *)
(***************************************************************************)
Open(c, i) ==
  /\ pc[c] = "closed"
  /\ Cardinality({d \in Clients : pc[d] # "closed"}) < use.atOnce
  /\ Opens("db", i)
  /\ from' = [from EXCEPT ![c] = i]
  /\ pc' = [pc EXCEPT ![c] = "opened"]
  /\ UNCHANGED <<use, diskDir, lock, to, last, gcs, fails>>

\* Mutant: the header is written in any case.
LockAndClear(c) ==
  /\ pc[c] = "opened"
  /\ CanLock(c, from[c])
  /\ lock' = [lock EXCEPT ![from[c]] = c]
  /\ cached' = [cached EXCEPT ![from[c]] = 0]
  /\ pc' = [pc EXCEPT ![c] = "active"]
  /\ UNCHANGED <<use, dir, disks, from, to, last, gcs, fails>>

\* The header is written when the file is empty.
Lock(c) ==
  /\ pc[c] = "opened"
  /\ CanLock(c, from[c])
  /\ lock' = [lock EXCEPT ![from[c]] = c]
  /\ cached' = [cached EXCEPT ![from[c]] = IF @ = Empty THEN 0 ELSE @]
  /\ pc' = [pc EXCEPT ![c] = "active"]
  /\ UNCHANGED <<use, dir, disks, from, to, last, gcs, fails>>

(***************************************************************************)
(* The process ends: dpm_db_done at the end of a run, an error (the lock   *)
(* is taken), or a kill.  The kernel releases its locks.                   *)
(***************************************************************************)
Exit(c) ==
  /\ pc[c] # "closed"
  /\ pc' = [pc EXCEPT ![c] = "closed"]
  /\ from' = [from EXCEPT ![c] = NoInode]
  /\ to' = [to EXCEPT ![c] = NoInode]
  /\ lock' = [i \in Inodes |-> IF lock[i] = c THEN NoClient ELSE lock[i]]
  /\ UNCHANGED <<use, dir, disks, cached, last, gcs, fails>>

(***************************************************************************)
(* ss_set_root: the data of a fresh file is synced along with its header,  *)
(* then the new root is in the page cache.                                 *)
(***************************************************************************)
SetRoot(i, r) ==
  /\ cached' = [cached EXCEPT ![i] = r]
  /\ durable' = [durable EXCEPT ![i] = IF cached[i] = 0 THEN 0 ELSE @]

Commit(c) ==
  /\ pc[c] = "active"
  /\ last < MaxRoot
  /\ last' = last + 1
  /\ SetRoot(from[c], last')
  /\ UNCHANGED <<use, dir, diskDir, lock, pc, from, to, gcs, fails>>

(***************************************************************************)
(* ss_gc                                                                   *)
(***************************************************************************)

\* ss_open ("<name>.gc", SS_TRUNC), up to the lock ...
GcOpen(c, i) ==
  /\ pc[c] = "active"
  /\ gcs < use.maxGc
  /\ Opens("db.gc", i)
  /\ to' = [to EXCEPT ![c] = i]
  /\ pc' = [pc EXCEPT ![c] = "gc opened"]
  /\ gcs' = gcs + 1
  /\ UNCHANGED <<use, diskDir, lock, from, last, fails>>

\* ... and after it: whatever the file held is truncated away.
GcLock(c) ==
  /\ pc[c] = "gc opened"
  /\ CanLock(c, to[c])
  /\ lock' = [lock EXCEPT ![to[c]] = c]
  /\ cached' = [cached EXCEPT ![to[c]] = 0]
  /\ pc' = [pc EXCEPT ![c] = "gc copy"]
  /\ UNCHANGED <<use, dir, disks, from, to, last, gcs, fails>>

\* Mutant: the root is left for after the renaming.
GcSetNoRoot(c) ==
  /\ pc[c] = "gc copy"
  /\ pc' = [pc EXCEPT ![c] = "gc rename"]
  /\ UNCHANGED <<use, dir, disks, cached, lock, from, to, last, gcs, fails>>

\* What the old root refers to becomes the root of the new file.
GcSetRoot(c) ==
  /\ pc[c] = "gc copy"
  /\ SetRoot(to[c], cached[from[c]])
  /\ pc' = [pc EXCEPT ![c] = "gc rename"]
  /\ UNCHANGED <<use, dir, diskDir, lock, from, to, last, gcs, fails>>

\* rename ("<name>.gc", "<name>"), and the old store is unreferenced.
GcRename(c) ==
  /\ pc[c] = "gc rename"
  /\ dir["db.gc"] # NoInode
  /\ dir' = [n \in Names |-> IF n = "db" THEN dir["db.gc"] ELSE NoInode]
  /\ lock' = [lock EXCEPT ![from[c]] = IF @ = c THEN NoClient ELSE @]
  /\ from' = [from EXCEPT ![c] = to[c]]
  /\ to' = [to EXCEPT ![c] = NoInode]
  /\ pc' = [pc EXCEPT ![c] = "active"]
  /\ UNCHANGED <<use, disks, cached, last, gcs, fails>>

(***************************************************************************)
(* The kernel writes back the header of a file, or the directory.          *)
(***************************************************************************)
FlushHeader(i) ==
  /\ durable' = [durable EXCEPT ![i] = cached[i]]
  /\ UNCHANGED <<use, dir, diskDir, cached, lock, pc, from, to, last, gcs, fails>>

FlushDirectory ==
  /\ diskDir' = dir
  /\ UNCHANGED <<use, dir, cached, durable, lock, pc, from, to, last, gcs, fails>>

\* Mutant: an empty file is not told from one with a header.
RootInHeader(d, content) == IF d["db"] = NoInode THEN 0 ELSE content[d["db"]]

\* The root one finds under the name.
RootIn(d, content) == IF d["db"] = NoInode \/ content[d["db"]] = Empty THEN 0 ELSE content[d["db"]]

PowerFail ==
  /\ fails < use.maxFail
  /\ fails' = fails + 1
  /\ dir' = diskDir
  /\ cached' = durable
  /\ lock' = [i \in Inodes |-> NoClient]
  /\ pc' = [c \in Clients |-> "closed"]
  /\ from' = [c \in Clients |-> NoInode]
  /\ to' = [c \in Clients |-> NoInode]
  /\ last' = RootIn(diskDir, durable)
  /\ UNCHANGED <<use, disks, gcs>>

Next ==
  \/ \E c \in Clients, i \in Inodes : Open(c, i) \/ GcOpen(c, i)
  \/ \E c \in Clients :
       Lock(c) \/ Exit(c) \/ Commit(c) \/ GcLock(c) \/ GcSetRoot(c) \/ GcRename(c)
  \/ \E i \in Inodes : FlushHeader(i)
  \/ FlushDirectory
  \/ PowerFail

Spec == Init /\ [][Next]_vars
-----------------------------------------------------------------------------
(***************************************************************************)
(* Properties                                                              *)
(***************************************************************************)

\* No update is lost: who opens the database by its name finds the root that
\* was set last, also when a collection was killed at any point.
LastRootVisible == RootIn(dir, cached) = last

\* store.h:26: only a single client can have a given store open.
SingleClient ==
  \A c, d \in Clients : pc[c] # "closed" /\ pc[c] # "opened"
                        /\ pc[d] # "closed" /\ pc[d] # "opened" => c = d

\* What a power failure would leave never goes back to an older root, although
\* ss_set_root does not wait for its header to be on disk (MS_ASYNC, store.c:199)
\* and the processes that set the later roots are others.  That the new root
\* itself would be left when ss_set_root returns is not so.  With a collection
\* the disk may go back: the new name can be there before the new root is.
DurableRootAdvancesWithoutGc ==
  [][gcs' = 0 => RootIn(diskDir', durable') >= RootIn(diskDir, durable)]_vars
=============================================================================
