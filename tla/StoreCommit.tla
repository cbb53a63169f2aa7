----------------------------- MODULE StoreCommit ----------------------------
(***************************************************************************)
(* One struct-store file and the one process that has it open: allocation, *)
(* ss_set_root / ss_sync, and reopening after the process was killed or    *)
(* the power failed (store.c:101-394).                                     *)
(*                                                                         *)
(* The file is an array of words.  The first page holds the header, data   *)
(* starts on the second.  An object is one word here: an object of n words *)
(* behaves as n of them, since allocation is contiguous and msync works on *)
(* ranges.  The store is mapped MAP_SHARED, so a store to memory is in the *)
(* page cache at once (`mem`, `head`: what survives the process), and the  *)
(* kernel may write any page to disk (`disk`, `diskHead`: what survives a  *)
(* power failure) at any time.                                             *)
(***************************************************************************)
EXTENDS Integers

CONSTANTS
  Val,          \* what distinguishes the contents of objects
  Numbered,     \* those that are records with a numbered tag, 64 to 79
  Zero,         \* the content of a word that was never written
  PageWords,    \* words in a page
  HeaderWords,  \* words in struct ss_header; less than a page
  MaxWords,     \* MAX_SIZE: where ss_grow gives up
  MaxAlloced,   \* bound on the allocations that fail for want of space
  MaxNumber     \* bound on the numbers of the numbered tag

ASSUME SizeAssumption ==
  /\ PageWords \in Nat \ {0}
  /\ HeaderWords \in Nat \ {0}
  /\ HeaderWords < PageWords
  /\ MaxWords \in Nat \ {0}
  /\ MaxWords % PageWords = 0
  /\ MaxAlloced \in Nat
  /\ MaxNumber \in Nat
  /\ Numbered \subseteq Val

VARIABLES
  mem,      \* data words, in the page cache
  head,     \* header page, in the page cache
  disk,     \* data words, on disk
  diskHead, \* header page, on disk
  pc,       \* where the client is: "closed", "idle", or inside ss_open / ss_sync
  next,     \* ss->next, as an index into the file
  alloced,  \* ss->alloced_words
  counts,   \* ss->counts[], for one numbered tag
  newRoot   \* the root_off argument of a running ss_sync

vars == <<mem, head, disk, diskHead, pc, next, alloced, counts, newRoot>>
session == <<next, alloced, counts, newRoot>>

Words == PageWords .. MaxWords - 1
Content == [val : Val, num : Nat \union {-1}]   \* num: the record's number

(***************************************************************************)
(* The header.  "absent": an empty file; "blank": a file that was grown    *)
(* but has no magic yet.  `end` is not in the program: it remembers, along *)
(* with the root, how far the store reached when that root was set.        *)
(***************************************************************************)
NewHead(st) ==
  [st |-> st, root |-> 0, len |-> 0, alloced |-> 0, counts |-> 0, end |-> PageWords]

Header == [st : {"absent", "blank", "valid"}, root : Nat, len : Nat,
           alloced : Nat, counts : Nat, end : Nat]

\* Index of the first word after the committed data: ss->start + head->len.
LenEnd(h) == HeaderWords + h.len

PageOf(w) == w \div PageWords
RoundUp(w) == ((w + PageWords - 1) \div PageWords) * PageWords

(***************************************************************************)
(* Snapshots, for AtomicRoot.                                              *)
(***************************************************************************)
Image(m, end) == [w \in PageWords .. end - 1 |-> m[w]]
Staged == IF pc \in {"closed", "create"} THEN Image(mem, PageWords) ELSE Image(mem, next)
Visible == [root |-> head.root, img |-> Image(mem, head.end)]
Durable == [root |-> diskHead.root, img |-> Image(disk, diskHead.end)]

Init ==
  /\ mem = [w \in Words |-> Zero]
  /\ disk = mem
  /\ head = NewHead("absent")
  /\ diskHead = NewHead("absent")
  /\ pc = "closed"
  /\ next = PageWords
  /\ alloced = 0
  /\ counts = 0
  /\ newRoot = 0

(***************************************************************************)
(* ss_open (filename, SS_WRITE)                                            *)
(***************************************************************************)

\* The empty file is grown first ...
OpenGrow ==
  /\ pc = "closed"
  /\ head.st = "absent"
  /\ head' = NewHead("blank")
  /\ pc' = "create"
  /\ UNCHANGED <<mem, disk, diskHead, session>>

\* Mutant: allocation starts over behind the header page.
StartSessionAtStart(h) ==
  /\ next' = PageWords
  /\ alloced' = 0
  /\ counts' = h.counts
  /\ newRoot' = 0
  /\ pc' = "idle"

\* The end of ss_open: where to allocate, and the counts, come from the header.
StartSession(h) ==
  /\ next' = RoundUp(LenEnd(h))
  /\ alloced' = 0
  /\ counts' = h.counts
  /\ newRoot' = 0
  /\ pc' = "idle"

\* ... and then gets its header.
OpenCreate ==
  /\ pc = "create"
  /\ head' = NewHead("valid")
  /\ StartSession(head')
  /\ UNCHANGED <<mem, disk, diskHead>>

\* A file without magic is refused: no action opens a "blank" store.
OpenExisting ==
  /\ pc = "closed"
  /\ head.st = "valid"
  /\ StartSession(head)
  /\ UNCHANGED <<mem, head, disk, diskHead>>

(***************************************************************************)
(* ss_alloc, and the object that is written into the new words.  A record  *)
(* with a tag from 64 to 79 gets the next number of its tag.               *)
(***************************************************************************)
Alloc(v) ==
  /\ pc = "idle"
  /\ next < MaxWords
  /\ v \in Numbered => counts < MaxNumber
  /\ mem' = [mem EXCEPT ![next] = [val |-> v, num |-> IF v \in Numbered THEN counts ELSE -1]]
  /\ counts' = IF v \in Numbered THEN counts + 1 ELSE counts
  /\ alloced' = alloced + 1
  /\ next' = next + 1
  /\ UNCHANGED <<head, disk, diskHead, pc, newRoot>>

\* ss_grow throws; ss_alloc has counted the words already.
AllocError ==
  /\ pc = "idle"
  /\ next >= MaxWords
  /\ alloced < MaxAlloced
  /\ alloced' = alloced + 1
  /\ UNCHANGED <<mem, head, disk, diskHead, pc, next, counts, newRoot>>

(***************************************************************************)
(* ss_set_root and ss_sync                                                 *)
(***************************************************************************)
SetRoot(r) ==
  /\ pc = "idle"
  /\ newRoot' = r
  /\ pc' = "data"
  /\ UNCHANGED <<mem, head, disk, diskHead, next, alloced, counts>>

\* Mutant: the start of the range is rounded up instead of down.
SyncPagesRoundedUp == {PageOf(w) : w \in RoundUp(LenEnd(head)) .. next - 1}

\* The pages msync (MS_SYNC) covers; the first one holds the end of the
\* committed data, and is the header page as long as nothing is committed.
SyncPages == {PageOf(w) : w \in LenEnd(head) .. next - 1}

SyncData ==
  /\ pc = "data"
  /\ disk' = [w \in Words |-> IF PageOf(w) \in SyncPages THEN mem[w] ELSE disk[w]]
  /\ diskHead' = IF 0 \in SyncPages THEN head ELSE diskHead
  /\ pc' = "len"
  /\ UNCHANGED <<mem, head, session>>

\* Mutant: the subtraction of the pointers is the wrong way round.
SyncLenSwapped ==
  /\ pc = "len"
  /\ head' = [head EXCEPT !.len = HeaderWords - next]
  /\ pc' = "alloced"
  /\ UNCHANGED <<mem, disk, diskHead, session>>

SyncLen ==
  /\ pc = "len"
  /\ head' = [head EXCEPT !.len = next - HeaderWords]
  /\ pc' = "alloced"
  /\ UNCHANGED <<mem, disk, diskHead, session>>

SyncAlloced ==
  /\ pc = "alloced"
  /\ head' = [head EXCEPT !.alloced = alloced]
  /\ pc' = "root"
  /\ UNCHANGED <<mem, disk, diskHead, session>>

SyncRoot ==
  /\ pc = "root"
  /\ head' = [head EXCEPT !.root = newRoot, !.end = next]
  /\ pc' = "counts"
  /\ UNCHANGED <<mem, disk, diskHead, session>>

\* The counts are followed by msync (MS_ASYNC), which waits for nothing.
SyncCounts ==
  /\ pc = "counts"
  /\ head' = [head EXCEPT !.counts = counts]
  /\ pc' = "idle"
  /\ UNCHANGED <<mem, disk, diskHead, session>>

(***************************************************************************)
(* The kernel writes back a data page, the header page, or the size of the *)
(* grown file.                                                             *)
(***************************************************************************)
Writeback(p) ==
  /\ disk' = [w \in Words |-> IF PageOf(w) = p THEN mem[w] ELSE disk[w]]
  /\ UNCHANGED <<mem, head, diskHead, pc, session>>

WritebackHeader ==
  /\ diskHead' = head
  /\ UNCHANGED <<mem, head, disk, pc, session>>

WritebackSize ==
  /\ head.st # "absent"
  /\ diskHead.st = "absent"
  /\ diskHead' = NewHead("blank")
  /\ UNCHANGED <<mem, head, disk, pc, session>>

(***************************************************************************)
(* The process closes the store (nothing is synced), exits, or is killed.  *)
(***************************************************************************)
EndSession ==
  /\ pc' = "closed"
  /\ next' = PageWords
  /\ alloced' = 0
  /\ counts' = 0
  /\ newRoot' = 0

Exit ==
  /\ pc # "closed"
  /\ EndSession
  /\ UNCHANGED <<mem, head, disk, diskHead>>

PowerFail ==
  /\ mem' = disk
  /\ head' = diskHead
  /\ EndSession
  /\ UNCHANGED <<disk, diskHead>>

\* The root is null (or a small integer) or an object of the store.
Next ==
  \/ OpenGrow \/ OpenCreate \/ OpenExisting
  \/ \E v \in Val : Alloc(v)
  \/ AllocError
  \/ \E r \in {0} \union PageWords .. next - 1 : SetRoot(r)
  \/ SyncData \/ SyncLen \/ SyncAlloced \/ SyncRoot \/ SyncCounts
  \/ \E p \in PageOf(PageWords) .. PageOf(MaxWords - 1) : Writeback(p)
  \/ WritebackHeader \/ WritebackSize
  \/ Exit \/ PowerFail

Spec == Init /\ [][Next]_vars
-----------------------------------------------------------------------------
(***************************************************************************)
(* Properties                                                              *)
(***************************************************************************)

\* Every variable has its type, and the offsets stay inside the file.
TypeOK ==
  /\ mem \in [Words -> Content \union {Zero}]
  /\ disk \in [Words -> Content \union {Zero}]
  /\ head \in Header
  /\ diskHead \in Header
  /\ pc \in {"closed", "create", "idle", "data", "len", "alloced", "root", "counts"}
  /\ next \in Nat
  /\ alloced \in Nat
  /\ counts \in Nat
  /\ newRoot \in Nat

\* The write ordering of ss_sync: whatever the header in the page cache
\* records as committed is on disk already, so that no moment at which the
\* kernel writes the header page can expose a root without its values.
SyncedBelowLen ==
  \A w \in Words : w < LenEnd(head) => disk[w] = mem[w]

\* Once ss_set_root has synced the data of a store, no power failure leaves a
\* file that ss_open refuses: the first msync of a fresh store has to take the
\* header page along.
Recoverable ==
  (pc \in {"len", "alloced", "root", "counts"} \/ head.end > PageWords)
    => diskHead.st = "valid"

\* store.h:38-41: values do not change, and setting the root is atomic with
\* respect to power failures and killed processes.
AR == INSTANCE AtomicRoot WITH staged <- Staged, visible <- Visible, durable <- Durable
ImplementsAtomicRoot == AR!Spec
=============================================================================
