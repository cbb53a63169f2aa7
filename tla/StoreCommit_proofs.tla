------------------------- MODULE StoreCommit_proofs -------------------------
(***************************************************************************)
(* Proofs about StoreCommit: the type invariant, the write ordering of     *)
(* ss_sync, that a synced store can always be opened again, and that the   *)
(* store implements AtomicRoot.  Everything rests on one inductive         *)
(* invariant, IInv.                                                        *)
(***************************************************************************)
EXTENDS StoreCommit, TLAPS

IsOpen == pc \notin {"closed", "create"}

\* Headers: one without magic carries no data, and the one on disk is never
\* ahead of the one in the page cache.
HeadOK ==
  /\ head.st # "valid" => head = NewHead(head.st) /\ diskHead.st # "valid"
  /\ diskHead.st # "valid" => diskHead = NewHead(diskHead.st)
  /\ IsOpen => head.st = "valid"
  /\ pc = "create" => head.st = "blank"
  /\ head.len > 0 => diskHead.st = "valid"

\* What each header accounts for.
LenOK ==
  /\ LenEnd(head) <= MaxWords
  /\ LenEnd(diskHead) <= LenEnd(head)
  /\ PageWords <= head.end /\ PageWords <= diskHead.end
  /\ head.end = PageWords \/ head.end <= LenEnd(head)
  /\ diskHead.end = PageWords \/ diskHead.end <= LenEnd(diskHead)

\* The allocation pointer, and what a running ss_sync has achieved so far.
SessionOK ==
  /\ ~IsOpen => next = PageWords /\ newRoot = 0
  /\ IsOpen => /\ PageWords <= next
               /\ next <= MaxWords
               /\ LenEnd(head) <= next
  /\ pc # "closed" => newRoot = 0 \/ (PageWords <= newRoot /\ newRoot < next)
  /\ pc = "len" => \A w \in Words : w < next => disk[w] = mem[w]
  /\ pc \in {"alloced", "root", "counts"} => LenEnd(head) = next

IInv == TypeOK /\ SyncedBelowLen /\ Recoverable /\ HeadOK /\ LenOK /\ SessionOK
-----------------------------------------------------------------------------
(***************************************************************************)
(* Page arithmetic                                                         *)
(***************************************************************************)

LEMMA RoundUpBounds ==
  ASSUME NEW w \in Nat, w <= MaxWords
  PROVE  RoundUp(w) \in Nat /\ w <= RoundUp(w) /\ RoundUp(w) <= MaxWords
<1> DEFINE q == (w + PageWords - 1) \div PageWords
           k == MaxWords \div PageWords
<1>1. /\ PageWords \in Nat \ {0} /\ MaxWords \in Nat
      /\ MaxWords % PageWords = 0
  BY SizeAssumption
<1>2. q \in Nat /\ q * PageWords >= w /\ q * PageWords <= w + PageWords - 1
  BY <1>1
<1>3. k \in Nat /\ MaxWords = k * PageWords
  BY <1>1
<1>4. q <= k
  <2> HIDE DEF q, k
  <2> QED BY <1>1, <1>2, <1>3
<1>5. q * PageWords <= k * PageWords
  <2> HIDE DEF q, k
  <2> QED BY <1>1, <1>2, <1>3, <1>4
<1> QED BY <1>1, <1>2, <1>3, <1>5 DEF RoundUp

LEMMA RoundUpFirstPage ==
  ASSUME NEW w \in Nat, w > 0
  PROVE  PageWords <= RoundUp(w)
<1> DEFINE q == (w + PageWords - 1) \div PageWords
<1>1. PageWords \in Nat \ {0}
  BY SizeAssumption
<1>2. q \in Nat /\ q * PageWords >= w
  BY <1>1
<1>3. q >= 1
  <2> HIDE DEF q
  <2> QED BY <1>1, <1>2
<1>4. q * PageWords >= PageWords
  <2> HIDE DEF q
  <2> QED BY <1>1, <1>2, <1>3
<1> QED BY <1>4 DEF RoundUp

LEMMA HeaderPage == PageOf(HeaderWords) = 0
  BY SizeAssumption DEF PageOf

LEMMA RoundUpHeader == RoundUp(HeaderWords) = PageWords
<1> DEFINE q == (HeaderWords + PageWords - 1) \div PageWords
<1>1. /\ PageWords \in Nat \ {0} /\ HeaderWords \in Nat \ {0}
      /\ HeaderWords < PageWords
  BY SizeAssumption
<1>2. /\ q \in Nat /\ q * PageWords >= HeaderWords
      /\ q * PageWords <= HeaderWords + PageWords - 1
  BY <1>1
<1>3. q = 1
  <2> HIDE DEF q
  <2>1. q >= 1  BY <1>1, <1>2
  <2>2. q < 2
    <3> SUFFICES ASSUME q >= 2 PROVE FALSE  BY <1>2
    <3>1. q * PageWords >= 2 * PageWords  BY <1>1, <1>2
    <3> QED BY <3>1, <1>1, <1>2
  <2> QED BY <2>1, <2>2, <1>2
<1> QED BY <1>1, <1>3 DEF RoundUp

\* The file has at least one page.
LEMMA WholePages == PageWords <= MaxWords
<1> DEFINE k == MaxWords \div PageWords
<1>1. /\ PageWords \in Nat \ {0} /\ MaxWords \in Nat \ {0}
      /\ MaxWords % PageWords = 0
  BY SizeAssumption
<1>2. k \in Nat /\ MaxWords = k * PageWords
  BY <1>1
<1> HIDE DEF k
<1>3. k >= 1
  BY <1>1, <1>2
<1>4. k * PageWords >= 1 * PageWords
  BY <1>1, <1>2, <1>3
<1> QED BY <1>1, <1>2, <1>4

LEMMA WordsType == Words \subseteq Nat /\ PageWords \in Nat /\ MaxWords \in Nat
  BY SizeAssumption DEF Words
-----------------------------------------------------------------------------
(***************************************************************************)
(* The invariant                                                           *)
(***************************************************************************)

LEMMA NewHeadType == \A st \in {"absent", "blank", "valid"} : NewHead(st) \in Header
  BY SizeAssumption DEF NewHead, Header

LEMMA InitIInv == Init => IInv
<1> SUFFICES ASSUME Init PROVE IInv  OBVIOUS
<1> USE SizeAssumption DEF Init
<1>1. TypeOK
  BY NewHeadType DEF TypeOK
<1>2. SyncedBelowLen /\ Recoverable
  BY DEF SyncedBelowLen, Recoverable, NewHead
<1>3. HeadOK
  BY DEF HeadOK, IsOpen, NewHead
<1>4. LenOK
  <2>1. PageWords <= MaxWords  BY WholePages
  <2> QED BY <2>1 DEF LenOK, NewHead, LenEnd
<1>5. SessionOK
  BY DEF SessionOK, IsOpen
<1> QED BY <1>1, <1>2, <1>3, <1>4, <1>5 DEF IInv

LEMMA OpenGrowStep == ASSUME IInv, OpenGrow PROVE IInv'
<1>1. TypeOK'
  BY WordsType DEF IInv, TypeOK, Header, OpenGrow, session, NewHead
<1>2. SyncedBelowLen'
  BY DEF IInv, SyncedBelowLen, HeadOK, LenEnd, OpenGrow, NewHead
<1>3. Recoverable'
  BY WordsType DEF IInv, Recoverable, OpenGrow, NewHead
<1>4. HeadOK'
  BY DEF IInv, HeadOK, IsOpen, OpenGrow, NewHead
<1>5. LenOK'
  BY DEF IInv, HeadOK, LenOK, LenEnd, OpenGrow, NewHead
<1>6. SessionOK'
  BY DEF IInv, SessionOK, IsOpen, OpenGrow, session
<1> QED BY <1>1, <1>2, <1>3, <1>4, <1>5, <1>6 DEF IInv

LEMMA OpenCreateStep == ASSUME IInv, OpenCreate PROVE IInv'
<1>1. TypeOK'
  BY SizeAssumption, RoundUpHeader
     DEF IInv, TypeOK, LenEnd, Header, OpenCreate, StartSession, NewHead
<1>2. SyncedBelowLen'
  BY DEF IInv, SyncedBelowLen, HeadOK, LenEnd, OpenCreate, NewHead
<1>3. Recoverable'
  BY WordsType DEF IInv, Recoverable, OpenCreate, StartSession, NewHead
<1>4. HeadOK'
  BY DEF IInv, HeadOK, OpenCreate, StartSession, NewHead
<1>5. LenOK'
  BY DEF IInv, HeadOK, LenOK, LenEnd, OpenCreate, NewHead
<1>6. SessionOK'
  BY SizeAssumption, RoundUpHeader
     DEF IInv, SessionOK, LenEnd, OpenCreate, StartSession, NewHead
<1> QED BY <1>1, <1>2, <1>3, <1>4, <1>5, <1>6 DEF IInv

LEMMA OpenExistingStep == ASSUME IInv, OpenExisting PROVE IInv'
<1>1. TypeOK'
  BY SizeAssumption, RoundUpBounds
     DEF IInv, TypeOK, LenOK, LenEnd, Header, OpenExisting, StartSession
<1>2. SyncedBelowLen'
  BY DEF IInv, SyncedBelowLen, OpenExisting
<1>3. Recoverable'
  BY DEF IInv, Recoverable, OpenExisting, StartSession
<1>4. HeadOK'
  BY DEF IInv, HeadOK, OpenExisting, StartSession
<1>5. LenOK'
  BY DEF IInv, LenOK, OpenExisting
<1>6. SessionOK'
  BY SizeAssumption, RoundUpBounds, RoundUpFirstPage
     DEF IInv, TypeOK, LenOK, SessionOK, IsOpen, LenEnd, Header, OpenExisting, StartSession
<1> QED BY <1>1, <1>2, <1>3, <1>4, <1>5, <1>6 DEF IInv

LEMMA AllocStep == ASSUME IInv, NEW v \in Val, Alloc(v) PROVE IInv'
<1>1. TypeOK'
  BY WordsType DEF IInv, TypeOK, SessionOK, Alloc, Words, Content
<1>2. SyncedBelowLen'
  BY SizeAssumption
     DEF IInv, TypeOK, SyncedBelowLen, SessionOK, IsOpen, LenEnd, Header, Alloc
<1>3. Recoverable'
  BY DEF IInv, Recoverable, Alloc
<1>4. HeadOK'
  BY DEF IInv, HeadOK, IsOpen, Alloc
<1>5. LenOK'
  BY DEF IInv, LenOK, Alloc
<1>6. SessionOK'
  BY SizeAssumption DEF IInv, TypeOK, SessionOK, IsOpen, LenEnd, Header, Alloc
<1> QED BY <1>1, <1>2, <1>3, <1>4, <1>5, <1>6 DEF IInv

LEMMA AllocErrorStep == ASSUME IInv, AllocError PROVE IInv'
<1>1. TypeOK'
  BY DEF IInv, TypeOK, AllocError
<1>2. SyncedBelowLen'
  BY DEF IInv, SyncedBelowLen, AllocError
<1>3. Recoverable'
  BY DEF IInv, Recoverable, AllocError
<1>4. HeadOK'
  BY DEF IInv, HeadOK, IsOpen, AllocError
<1>5. LenOK'
  BY DEF IInv, LenOK, AllocError
<1>6. SessionOK'
  BY DEF IInv, SessionOK, IsOpen, AllocError
<1> QED BY <1>1, <1>2, <1>3, <1>4, <1>5, <1>6 DEF IInv

LEMMA SetRootStep == ASSUME IInv, NEW r \in {0} \union PageWords .. next - 1, SetRoot(r) PROVE IInv'
<1>1. TypeOK'
  BY WordsType DEF IInv, TypeOK, SetRoot
<1>2. SyncedBelowLen'
  BY DEF IInv, SyncedBelowLen, SetRoot
<1>3. Recoverable'
  BY DEF IInv, Recoverable, SetRoot
<1>4. HeadOK'
  BY DEF IInv, HeadOK, IsOpen, SetRoot
<1>5. LenOK'
  BY DEF IInv, LenOK, SetRoot
<1>6. SessionOK'
  BY DEF IInv, TypeOK, SessionOK, IsOpen, SetRoot
<1> QED BY <1>1, <1>2, <1>3, <1>4, <1>5, <1>6 DEF IInv

LEMMA SyncLenStep == ASSUME IInv, SyncLen PROVE IInv'
<1>1. TypeOK'
  BY SizeAssumption DEF IInv, TypeOK, SessionOK, Header, SyncLen, session
<1>2. SyncedBelowLen'
  BY SizeAssumption DEF IInv, TypeOK, SyncedBelowLen, SessionOK, LenEnd, SyncLen
<1>3. Recoverable'
  BY DEF IInv, Recoverable, SyncLen
<1>4. HeadOK'
  BY DEF IInv, Recoverable, HeadOK, SyncLen
<1>5. LenOK'
  BY SizeAssumption DEF IInv, TypeOK, LenOK, SessionOK, IsOpen, LenEnd, Header, SyncLen
<1>6. SessionOK'
  BY SizeAssumption DEF IInv, TypeOK, SessionOK, IsOpen, LenEnd, SyncLen, session
<1> QED BY <1>1, <1>2, <1>3, <1>4, <1>5, <1>6 DEF IInv

LEMMA SyncAllocedStep == ASSUME IInv, SyncAlloced PROVE IInv'
<1>1. TypeOK'
  BY DEF IInv, TypeOK, Header, SyncAlloced, session
<1>2. SyncedBelowLen'
  BY DEF IInv, SyncedBelowLen, LenEnd, SyncAlloced
<1>3. Recoverable'
  BY DEF IInv, Recoverable, SyncAlloced
<1>4. HeadOK'
  BY DEF IInv, HeadOK, IsOpen, SyncAlloced
<1>5. LenOK'
  BY DEF IInv, LenOK, LenEnd, SyncAlloced
<1>6. SessionOK'
  BY DEF IInv, SessionOK, IsOpen, LenEnd, SyncAlloced, session
<1> QED BY <1>1, <1>2, <1>3, <1>4, <1>5, <1>6 DEF IInv

LEMMA SyncRootStep == ASSUME IInv, SyncRoot PROVE IInv'
<1>1. TypeOK'
  BY DEF IInv, TypeOK, Header, SyncRoot, session
<1>2. SyncedBelowLen'
  BY DEF IInv, SyncedBelowLen, LenEnd, SyncRoot
<1>3. Recoverable'
  BY DEF IInv, Recoverable, SyncRoot
<1>4. HeadOK'
  BY DEF IInv, HeadOK, IsOpen, SyncRoot
<1>5. LenOK'
  BY WordsType DEF IInv, LenOK, SessionOK, LenEnd, SyncRoot
<1>6. SessionOK'
  BY DEF IInv, SessionOK, IsOpen, LenEnd, SyncRoot, session
<1> QED BY <1>1, <1>2, <1>3, <1>4, <1>5, <1>6 DEF IInv

LEMMA SyncCountsStep == ASSUME IInv, SyncCounts PROVE IInv'
<1>1. TypeOK'
  BY DEF IInv, TypeOK, Header, SyncCounts, session
<1>2. SyncedBelowLen'
  BY DEF IInv, SyncedBelowLen, LenEnd, SyncCounts
<1>3. Recoverable'
  BY DEF IInv, Recoverable, SyncCounts
<1>4. HeadOK'
  BY DEF IInv, HeadOK, IsOpen, SyncCounts
<1>5. LenOK'
  BY DEF IInv, LenOK, LenEnd, SyncCounts
<1>6. SessionOK'
  BY DEF IInv, SessionOK, IsOpen, LenEnd, SyncCounts, session
<1> QED BY <1>1, <1>2, <1>3, <1>4, <1>5, <1>6 DEF IInv

\* After msync, the whole range up to `next` is on disk: what was committed
\* before was there already, the rest lies in the synced pages.
LEMMA SyncDataStep == ASSUME IInv, SyncData PROVE IInv'
<1>1. TypeOK'
  BY DEF IInv, TypeOK, SyncData, session
<1>2. \A w \in Words : w < next => disk'[w] = mem[w]
  <2> SUFFICES ASSUME NEW w \in Words, w < next PROVE disk'[w] = mem[w]
    OBVIOUS
  <2>1. disk'[w] = IF PageOf(w) \in SyncPages THEN mem[w] ELSE disk[w]
    BY DEF SyncData
  <2>2. CASE w < LenEnd(head)
    BY <2>1, <2>2 DEF IInv, SyncedBelowLen
  <2>3. CASE ~(w < LenEnd(head))
    <3>1. w \in LenEnd(head) .. next - 1
      BY <2>3, WordsType, SizeAssumption DEF IInv, TypeOK, Header, LenEnd
    <3> QED BY <2>1, <3>1 DEF SyncPages
  <2> QED BY <2>2, <2>3
<1>3. diskHead'.st = "valid" /\ (diskHead' = head \/ diskHead' = diskHead)
  <2>1. diskHead' = IF 0 \in SyncPages THEN head ELSE diskHead
    BY DEF SyncData
  <2>2. head.st = "valid" /\ PageWords <= next
    BY DEF IInv, HeadOK, SessionOK, IsOpen, SyncData
  <2>3. CASE head.len > 0
    BY <2>1, <2>2, <2>3 DEF IInv, HeadOK
  <2>4. CASE ~(head.len > 0)
    <3>1. HeaderWords \in LenEnd(head) .. next - 1
      BY <2>2, <2>4, SizeAssumption DEF IInv, TypeOK, Header, LenEnd
    <3>2. 0 \in SyncPages
      BY <3>1, HeaderPage DEF SyncPages
    <3> QED BY <2>1, <2>2, <3>2
  <2> QED BY <2>3, <2>4
<1>4. (SyncedBelowLen /\ Recoverable)'
  BY <1>2, <1>3, WordsType, SizeAssumption
     DEF IInv, TypeOK, Header, SessionOK, IsOpen, LenEnd, SyncedBelowLen, Recoverable, SyncData
<1>5. HeadOK'
  BY <1>3 DEF IInv, HeadOK, IsOpen, SyncData
<1>6. LenOK'
  BY <1>3, SizeAssumption DEF IInv, TypeOK, Header, LenOK, LenEnd, SyncData
<1>7. SessionOK'
  BY <1>2 DEF IInv, SessionOK, IsOpen, LenEnd, SyncData, session
<1> QED BY <1>1, <1>4, <1>5, <1>6, <1>7 DEF IInv

LEMMA WritebackStep == ASSUME IInv, NEW p, Writeback(p) PROVE IInv'
<1>1. TypeOK'
  BY DEF IInv, TypeOK, Writeback, session
<1>2. SyncedBelowLen'
  BY DEF IInv, SyncedBelowLen, Writeback
<1>3. Recoverable'
  BY DEF IInv, Recoverable, Writeback
<1>4. HeadOK'
  BY DEF IInv, HeadOK, IsOpen, Writeback
<1>5. LenOK'
  BY DEF IInv, LenOK, Writeback
<1>6. SessionOK'
  BY DEF IInv, SessionOK, IsOpen, Writeback, session
<1> QED BY <1>1, <1>2, <1>3, <1>4, <1>5, <1>6 DEF IInv

LEMMA WritebackHeaderStep == ASSUME IInv, WritebackHeader PROVE IInv'
<1>1. TypeOK'
  BY DEF IInv, TypeOK, WritebackHeader, session
<1>2. SyncedBelowLen'
  BY DEF IInv, SyncedBelowLen, WritebackHeader
<1>3. Recoverable'
  BY DEF IInv, Recoverable, HeadOK, WritebackHeader
<1>4. HeadOK'
  BY DEF IInv, HeadOK, IsOpen, WritebackHeader
<1>5. LenOK'
  BY SizeAssumption DEF IInv, TypeOK, LenOK, LenEnd, Header, WritebackHeader
<1>6. SessionOK'
  BY DEF IInv, SessionOK, IsOpen, WritebackHeader, session
<1> QED BY <1>1, <1>2, <1>3, <1>4, <1>5, <1>6 DEF IInv

LEMMA WritebackSizeStep == ASSUME IInv, WritebackSize PROVE IInv'
<1>1. TypeOK'
  BY WordsType DEF IInv, TypeOK, Header, WritebackSize, NewHead, session
<1>2. SyncedBelowLen'
  BY DEF IInv, SyncedBelowLen, WritebackSize
<1>3. Recoverable'
  BY DEF IInv, Recoverable, WritebackSize
<1>4. HeadOK'
  BY DEF IInv, HeadOK, IsOpen, WritebackSize, NewHead
<1>5. LenOK'
  BY DEF IInv, HeadOK, LenOK, LenEnd, WritebackSize, NewHead
<1>6. SessionOK'
  BY DEF IInv, SessionOK, IsOpen, WritebackSize, session
<1> QED BY <1>1, <1>2, <1>3, <1>4, <1>5, <1>6 DEF IInv

LEMMA ExitStep == ASSUME IInv, Exit PROVE IInv'
<1>1. TypeOK'
  BY WordsType DEF IInv, TypeOK, Exit, EndSession
<1>2. SyncedBelowLen'
  BY DEF IInv, SyncedBelowLen, Exit, EndSession
<1>3. Recoverable'
  BY DEF IInv, Recoverable, Exit, EndSession
<1>4. HeadOK'
  BY DEF IInv, HeadOK, IsOpen, Exit, EndSession
<1>5. LenOK'
  BY DEF IInv, LenOK, Exit, EndSession
<1>6. SessionOK'
  BY DEF IInv, SessionOK, IsOpen, Exit, EndSession
<1> QED BY <1>1, <1>2, <1>3, <1>4, <1>5, <1>6 DEF IInv

LEMMA PowerFailStep == ASSUME IInv, PowerFail PROVE IInv'
<1>1. TypeOK'
  BY WordsType DEF IInv, TypeOK, PowerFail, EndSession
<1>2. SyncedBelowLen'
  BY DEF IInv, SyncedBelowLen, PowerFail, EndSession
<1>3. Recoverable'
  BY SizeAssumption
     DEF IInv, TypeOK, Recoverable, HeadOK, LenOK, LenEnd, Header, PowerFail, EndSession
<1>4. HeadOK'
  BY SizeAssumption
     DEF IInv, TypeOK, HeadOK, LenOK, IsOpen, LenEnd, Header, PowerFail, EndSession
<1>5. LenOK'
  BY SizeAssumption DEF IInv, TypeOK, LenOK, LenEnd, Header, PowerFail, EndSession
<1>6. SessionOK'
  BY DEF IInv, SessionOK, IsOpen, PowerFail, EndSession
<1> QED BY <1>1, <1>2, <1>3, <1>4, <1>5, <1>6 DEF IInv

LEMMA StepIInv == IInv /\ [Next]_vars => IInv'
<1> SUFFICES ASSUME IInv, [Next]_vars PROVE IInv'  OBVIOUS
<1>1. CASE OpenGrow  BY <1>1, OpenGrowStep
<1>2. CASE OpenCreate  BY <1>2, OpenCreateStep
<1>3. CASE OpenExisting  BY <1>3, OpenExistingStep
<1>4. CASE \E v \in Val : Alloc(v)  BY <1>4, AllocStep
<1>5. CASE AllocError  BY <1>5, AllocErrorStep
<1>6. CASE \E r \in {0} \union PageWords .. next - 1 : SetRoot(r)  BY <1>6, SetRootStep
<1>7. CASE SyncData  BY <1>7, SyncDataStep
<1>8. CASE SyncLen  BY <1>8, SyncLenStep
<1>9. CASE SyncAlloced  BY <1>9, SyncAllocedStep
<1>10. CASE SyncRoot  BY <1>10, SyncRootStep
<1>11. CASE SyncCounts  BY <1>11, SyncCountsStep
<1>12. CASE \E p \in PageOf(PageWords) .. PageOf(MaxWords - 1) : Writeback(p)
  BY <1>12, WritebackStep
<1>13. CASE WritebackHeader  BY <1>13, WritebackHeaderStep
<1>14. CASE WritebackSize  BY <1>14, WritebackSizeStep
<1>15. CASE Exit  BY <1>15, ExitStep
<1>16. CASE PowerFail  BY <1>16, PowerFailStep
<1>17. CASE UNCHANGED vars
  BY <1>17 DEF vars, IInv, TypeOK, SyncedBelowLen, Recoverable, HeadOK, LenOK,
               SessionOK, IsOpen, LenEnd
<1> QED
  BY <1>1, <1>2, <1>3, <1>4, <1>5, <1>6, <1>7, <1>8, <1>9, <1>10, <1>11, <1>12,
     <1>13, <1>14, <1>15, <1>16, <1>17 DEF Next

\* The invariant that everything else follows from.
THEOREM Invariance == Spec => []IInv
  BY InitIInv, StepIInv, PTL DEF Spec

\* Every variable keeps its type; offsets and the header stay inside the file.
THEOREM TypeCorrect == Spec => []TypeOK
  BY Invariance, PTL DEF IInv

\* ss_sync: the header in the page cache never records words as committed that
\* are not on disk, whatever the kernel wrote back and whenever the process
\* was killed.
THEOREM WriteOrdering == Spec => []SyncedBelowLen
  BY Invariance, PTL DEF IInv

\* A store whose first ss_set_root got past its msync has a header on disk, so
\* ss_open accepts the file after any crash.
THEOREM SyncedStoreOpens == Spec => []Recoverable
  BY Invariance, PTL DEF IInv
-----------------------------------------------------------------------------
(***************************************************************************)
(* The store implements AtomicRoot.                                        *)
(***************************************************************************)

LEMMA SameImage ==
  ASSUME NEW m, NEW n, NEW e, \A w \in PageWords .. e - 1 : m[w] = n[w]
  PROVE  Image(m, e) = Image(n, e)
  BY DEF Image

LEMMA EmptyImage == ASSUME NEW m PROVE Image(m, PageWords) = AR!NoWords
<1>1. PageWords .. PageWords - 1 = {}
  BY SizeAssumption
<1> QED BY <1>1 DEF Image, AR!NoWords

LEMMA LongerImage ==
  ASSUME NEW m, NEW n, NEW d \in Int, NEW e \in Int, d <= e,
         \A w \in PageWords .. d - 1 : m[w] = n[w]
  PROVE  AR!Extends(Image(n, e), Image(m, d))
  BY SizeAssumption DEF Image, AR!Extends

\* What the headers account for is committed data, which is the same in the
\* page cache and on disk.
LEMMA Committed ==
  ASSUME IInv
  PROVE  /\ head.end \in Nat /\ diskHead.end \in Nat
         /\ head.end <= MaxWords /\ diskHead.end <= MaxWords
         /\ \A w \in PageWords .. head.end - 1 : w \in Words /\ disk[w] = mem[w]
         /\ \A w \in PageWords .. diskHead.end - 1 : w \in Words /\ disk[w] = mem[w]
         /\ pc \notin {"closed", "create"} => head.end <= next /\ next <= MaxWords
<1>1. /\ head.end \in Nat /\ diskHead.end \in Nat
      /\ head.len \in Nat /\ diskHead.len \in Nat /\ next \in Nat
  BY DEF IInv, TypeOK, Header
<1>2. /\ head.end = PageWords \/ head.end <= LenEnd(head)
      /\ diskHead.end = PageWords \/ diskHead.end <= LenEnd(head)
      /\ LenEnd(head) <= MaxWords
  BY <1>1, SizeAssumption DEF IInv, LenOK, LenEnd
<1>3. head.end <= MaxWords /\ diskHead.end <= MaxWords
  BY <1>1, <1>2, WholePages, SizeAssumption DEF LenEnd
<1>4. \A w \in Words : w < head.end \/ w < diskHead.end => w < LenEnd(head)
  BY <1>1, <1>2, SizeAssumption DEF LenEnd, Words
<1>5. PageWords .. head.end - 1 \subseteq Words /\ PageWords .. diskHead.end - 1 \subseteq Words
  BY <1>1, <1>3, SizeAssumption DEF Words
<1>6. /\ \A w \in PageWords .. head.end - 1 : w \in Words /\ disk[w] = mem[w]
      /\ \A w \in PageWords .. diskHead.end - 1 : w \in Words /\ disk[w] = mem[w]
  BY <1>1, <1>4, <1>5, SizeAssumption DEF IInv, SyncedBelowLen
<1>7. ASSUME pc \notin {"closed", "create"} PROVE head.end <= next /\ next <= MaxWords
  BY <1>1, <1>2, <1>7, SizeAssumption DEF IInv, SessionOK, IsOpen, LenEnd
<1> QED BY <1>1, <1>3, <1>6, <1>7

LEMMA InitRefines == Init => AR!Init
  BY EmptyImage DEF Init, AR!Init, AR!NullSnapshot, Staged, Visible, Durable, NewHead

\* Steps that change neither data nor what a root stands for.
LEMMA StutterRefines ==
  ASSUME UNCHANGED <<mem, disk, next>>,
         head'.root = head.root, head'.end = head.end,
         diskHead'.root = diskHead.root, diskHead'.end = diskHead.end,
         pc \in {"closed", "create"} <=> pc' \in {"closed", "create"}
  PROVE  UNCHANGED AR!vars
  BY DEF AR!vars, Staged, Visible, Durable, Image

LEMMA OpenRefines == ASSUME IInv, OpenExisting PROVE AR!Open
<1>1. Staged' = Image(mem, RoundUp(LenEnd(head)))
  BY DEF Staged, OpenExisting, StartSession
<1>2. head.end \in Nat /\ RoundUp(LenEnd(head)) \in Nat /\ head.end <= RoundUp(LenEnd(head))
  <2>1. LenEnd(head) \in Nat /\ LenEnd(head) > 0 /\ LenEnd(head) <= MaxWords
    BY SizeAssumption DEF IInv, TypeOK, Header, LenOK, LenEnd
  <2>2. head.end = PageWords \/ head.end <= LenEnd(head)
    BY DEF IInv, LenOK
  <2> QED BY <2>1, <2>2, Committed, RoundUpBounds, RoundUpFirstPage, SizeAssumption
<1>3. AR!Extends(Staged', Visible.img)
  BY <1>1, <1>2, LongerImage DEF Visible
<1> QED BY <1>3 DEF AR!Open, OpenExisting, Visible, Durable

LEMMA AllocRefines == ASSUME IInv, NEW v \in Val, Alloc(v) PROVE AR!Create
<1>1. next \in Nat /\ head.end <= next /\ Staged = Image(mem, next) /\ Staged' = Image(mem', next + 1)
  BY Committed DEF IInv, TypeOK, Alloc, Staged
<1>2. \A w \in Words : w # next => mem'[w] = mem[w]
  BY DEF IInv, TypeOK, Alloc
<1>3. \A w \in PageWords .. next - 1 : w \in Words /\ w # next
  BY <1>1, SizeAssumption DEF Words, Alloc
<1>4. AR!Extends(Staged', Staged)
  BY <1>1, <1>2, <1>3, LongerImage
<1>5. Image(mem', head.end) = Image(mem, head.end)
  <2>1. \A w \in PageWords .. head.end - 1 : mem'[w] = mem[w]
    BY <1>1, <1>2, Committed, SizeAssumption
  <2> QED BY <2>1, SameImage
<1>6. UNCHANGED <<Visible, Durable>>
  BY <1>5 DEF Alloc, Visible, Durable
<1> QED BY <1>4, <1>6 DEF AR!Create

LEMMA SyncDataRefines == ASSUME IInv, SyncData PROVE AR!Flush \/ UNCHANGED AR!vars
<1>1. \A w \in Words : disk'[w] = mem[w] \/ disk'[w] = disk[w]
  BY DEF SyncData
<1>2. UNCHANGED <<Staged, Visible>>
  BY DEF SyncData, session, Staged, Visible
<1>3. CASE diskHead' = head
  <2>1. Image(disk', head.end) = Image(mem, head.end)
    BY <1>1, Committed, SameImage
  <2> QED BY <1>2, <1>3, <2>1 DEF AR!Flush, Visible, Durable
<1>4. CASE diskHead' = diskHead
  <2>1. Image(disk', diskHead.end) = Image(disk, diskHead.end)
    BY <1>1, Committed, SameImage
  <2> QED BY <1>2, <1>4, <2>1 DEF AR!vars, Durable
<1> QED BY <1>3, <1>4 DEF SyncData

LEMMA SyncRootRefines == ASSUME IInv, SyncRoot PROVE AR!SetRoot
<1>1. Staged = Image(mem, next) /\ Staged' = Staged
  BY DEF Staged, SyncRoot, session
<1>2. newRoot = 0 \/ newRoot \in DOMAIN Staged
  BY <1>1, SizeAssumption DEF IInv, TypeOK, SessionOK, SyncRoot, Image
<1>3. Visible' = [root |-> newRoot, img |-> Staged]
  BY <1>1 DEF IInv, TypeOK, Header, Visible, SyncRoot
<1> QED BY <1>1, <1>2, <1>3 DEF AR!SetRoot, SyncRoot, Durable

LEMMA WritebackRefines == ASSUME IInv, NEW p, Writeback(p) PROVE UNCHANGED AR!vars
<1>1. \A w \in Words : disk'[w] = mem[w] \/ disk'[w] = disk[w]
  BY DEF Writeback
<1>2. Image(disk', diskHead.end) = Image(disk, diskHead.end)
  BY <1>1, Committed, SameImage
<1> QED BY <1>2 DEF AR!vars, Writeback, session, Staged, Visible, Durable

LEMMA WritebackHeaderRefines == ASSUME IInv, WritebackHeader PROVE AR!Flush
<1>1. Image(disk, head.end) = Image(mem, head.end)
  BY Committed, SameImage
<1> QED BY <1>1 DEF AR!Flush, WritebackHeader, session, Staged, Visible, Durable

LEMMA ExitRefines == ASSUME Exit PROVE AR!Exit
<1>1. Staged' = AR!NoWords
  BY EmptyImage DEF Exit, EndSession, Staged
<1> QED BY <1>1 DEF AR!Exit, Exit, Visible, Durable

LEMMA PowerFailRefines == ASSUME PowerFail PROVE AR!PowerFail
<1>1. Staged' = AR!NoWords
  BY EmptyImage DEF PowerFail, EndSession, Staged
<1> QED BY <1>1 DEF AR!PowerFail, PowerFail, Visible, Durable

LEMMA NextRefines == IInv /\ [Next]_vars => [AR!Next]_AR!vars
<1> SUFFICES ASSUME IInv, [Next]_vars PROVE AR!Next \/ UNCHANGED AR!vars
  OBVIOUS
<1>1. CASE OpenGrow
  BY <1>1, StutterRefines DEF IInv, HeadOK, OpenGrow, session, NewHead
<1>2. CASE OpenCreate
  <2>1. head.end = PageWords /\ head.root = 0 /\ next' = PageWords
    BY <1>2, RoundUpHeader, SizeAssumption DEF IInv, HeadOK, OpenCreate, StartSession, NewHead, LenEnd
  <2>2. Staged' = Staged
    BY <1>2, <2>1 DEF OpenCreate, StartSession, Staged
  <2> QED BY <1>2, <2>1, <2>2 DEF AR!vars, OpenCreate, NewHead, Visible, Durable
<1>3. CASE OpenExisting
  BY <1>3, OpenRefines DEF AR!Next
<1>4. CASE \E v \in Val : Alloc(v)
  BY <1>4, AllocRefines DEF AR!Next
<1>5. CASE AllocError
  BY <1>5, StutterRefines DEF AllocError
<1>6. CASE \E r \in {0} \union PageWords .. next - 1 : SetRoot(r)
  BY <1>6, StutterRefines DEF SetRoot
<1>7. CASE SyncData
  BY <1>7, SyncDataRefines DEF AR!Next
<1>8. CASE SyncLen
  BY <1>8, StutterRefines DEF IInv, TypeOK, Header, SyncLen, session
<1>9. CASE SyncAlloced
  BY <1>9, StutterRefines DEF IInv, TypeOK, Header, SyncAlloced, session
<1>10. CASE SyncRoot
  BY <1>10, SyncRootRefines DEF AR!Next
<1>11. CASE SyncCounts
  BY <1>11, StutterRefines DEF IInv, TypeOK, Header, SyncCounts, session
<1>12. CASE \E p \in PageOf(PageWords) .. PageOf(MaxWords - 1) : Writeback(p)
  BY <1>12, WritebackRefines
<1>13. CASE WritebackHeader
  BY <1>13, WritebackHeaderRefines DEF AR!Next
<1>14. CASE WritebackSize
  BY <1>14, StutterRefines DEF IInv, HeadOK, WritebackSize, session, NewHead
<1>15. CASE Exit
  BY <1>15, ExitRefines DEF AR!Next
<1>16. CASE PowerFail
  BY <1>16, PowerFailRefines DEF AR!Next
<1>17. CASE UNCHANGED vars
  BY <1>17 DEF vars, AR!vars, Staged, Visible, Durable
<1> QED
  BY <1>1, <1>2, <1>3, <1>4, <1>5, <1>6, <1>7, <1>8, <1>9, <1>10, <1>11, <1>12,
     <1>13, <1>14, <1>15, <1>16, <1>17 DEF Next

\* Setting the root is atomic: across kills and power failures a store file
\* shows either the new snapshot or the old one, with every value present, and
\* values that were stored never change.
THEOREM Atomicity == Spec => ImplementsAtomicRoot
  BY InitRefines, Invariance, NextRefines, PTL DEF Spec, ImplementsAtomicRoot, AR!Spec
=============================================================================
