----------------------------- MODULE Order_proofs -----------------------------
(***************************************************************************)
(* Proofs about dpm_alg_order, for all graphs: the depth first search with *)
(* one stack, which visits components again above themselves, visits what  *)
(* alg.h promises, leaves nothing behind and never outgrows its stack.     *)
(***************************************************************************)
EXTENDS Order, FiniteSetTheorems, WellFoundedInduction, TLAPS

-----------------------------------------------------------------------------
(***************************************************************************)
(* The inductive invariant                                                 *)
(*                                                                         *)
(* The stack falls into regions, one for each frame, from the place of the *)
(* frame to the next one's.  The region of an open frame, one that looks   *)
(* for its component, has the seats that were found from it.  The region   *)
(* of another one is the component that is being visited again.  A place   *)
(* is live when it is in the region of an open frame.                      *)
(***************************************************************************)
FrameSet == [seat : Seats, pos : Nat, min : Nat, todo : SUBSET Seats, at : Nat]

Types ==
  /\ graph \in [Seats -> SUBSET Seats]
  /\ roots \subseteq Seats /\ pending \subseteq roots
  /\ tag \in Nat
  /\ seatTag \in [Seats -> Nat \union {Done}]
  /\ stack \in Seq(Seats)
  /\ frames \in Seq(FrameSet)

End(k) == IF k = Len(frames) THEN Len(stack) ELSE frames[k + 1].pos - 1
Region(k) == frames[k].pos .. End(k)
SeatsOf(k) == {stack[p] : p \in Region(k)}
Open(k) == frames[k].at = 0
Live(p) == \E k \in 1 .. Len(frames) : Open(k) /\ p \in Region(k)
Edge(p, q) == stack[q] \in graph[stack[p]]

\* The regions follow each other, without gaps.
Shape ==
  /\ frames = <<>> => stack = <<>>
  /\ frames # <<>> => frames[1].pos = 1
  /\ \A k \in 1 .. Len(frames) :
       /\ frames[k].pos \in 1 .. End(k) /\ End(k) \in 1 .. Len(stack)
       /\ stack[frames[k].pos] = frames[k].seat
       /\ frames[k].min >= 1
       /\ frames[k].todo \subseteq graph[frames[k].seat]
  /\ \A j, k \in 1 .. Len(frames) : j < k => End(j) < frames[k].pos
  /\ \A p \in 1 .. Len(stack) : \E k \in 1 .. Len(frames) : p \in Region(k)

\* The seats in live places have growing tags, and no others have tags.
Tags ==
  /\ \A p \in 1 .. Len(stack) : Live(p) => seatTag[stack[p]] \in 1 .. tag
  /\ \A p, q \in 1 .. Len(stack) : Live(p) /\ Live(q) /\ p < q => seatTag[stack[p]] < seatTag[stack[q]]
  /\ \A s \in Seats : seatTag[s] > 0 => \E p \in 1 .. Len(stack) : Live(p) /\ stack[p] = s

Reached == \A p \in 1 .. Len(stack) : stack[p] \in Abstract!Reachable

\* What the seats of an open region need is done, or in a live place with no
\* smaller tag than the least one that was met, or is still looked at.
Explored(k) ==
  \A p \in Region(k) : \A t \in graph[stack[p]] :
    \/ p = frames[k].pos /\ t \in frames[k].todo
    \/ p = frames[k].pos /\ k < Len(frames) /\ t = frames[k + 1].seat
    \/ seatTag[t] = Done
    \/ seatTag[t] >= frames[k].min /\ \E r \in 1 .. End(k) : Live(r) /\ stack[r] = t

\* The least tag was met in the region.
Lowest(k) ==
  /\ frames[k].min <= seatTag[frames[k].seat]
  /\ frames[k].min < seatTag[frames[k].seat] =>
       \E p \in Region(k) : \E r \in 1 .. Len(stack) :
         Live(r) /\ Edge(p, r) /\ seatTag[stack[r]] = frames[k].min

\* Everything above p up to e can be reached from p, and from there one can get
\* below p.
Tree(p, e) == \A x \in p + 1 .. e : \E y \in p .. x - 1 : Edge(y, x)
Back(p, e) == \E q \in p .. e : \E r \in 1 .. p - 1 : Live(r) /\ Edge(q, r)

Linked(k) ==
  /\ Tree(frames[k].pos, End(k))
  /\ \A p \in frames[k].pos + 1 .. End(k) : \E e \in p .. End(k) : Tree(p, e) /\ Back(p, e)

\* A component that is visited again is closed but for what is done, and
\* everything above it on the stack is part of it.
Spent(k) ==
  /\ frames[k].at \in frames[k].pos .. End(k) + 1
  /\ \A i \in frames[k].pos .. frames[k].at - 1 : seatTag[stack[i]] = Done
  /\ \E i \in Region(k) : seatTag[stack[i]] = Done
  /\ \A p \in Region(k) : \A t \in graph[stack[p]] : seatTag[t] = Done \/ t \in SeatsOf(k)
  /\ \A p \in End(k) + 1 .. Len(stack) : stack[p] \in SeatsOf(k)
  /\ \A p \in Region(k) : \A r \in 1 .. Len(stack) : Live(r) /\ stack[r] = stack[p] => r > End(k)
  /\ \A p, q \in Region(k) : stack[p] = stack[q] => p = q
  /\ k > 1 /\ Open(k - 1) => frames[k].min > seatTag[frames[k - 1].seat]

Walks ==
  \A k \in 1 .. Len(frames) :
    /\ Open(k) => Explored(k) /\ Lowest(k) /\ Linked(k)
    /\ ~Open(k) => Spent(k)
    /\ Open(k) /\ k < Len(frames) => frames[k + 1].seat \in graph[frames[k].seat]

\* What is above a component that is visited again has fewer seats than it.
Rooms ==
  \A k \in 1 .. Len(frames) : ~Open(k) =>
    LET n == Cardinality(Abstract!Reachable)
        c == End(k) - frames[k].pos + 1
    IN 2 * End(k) + (c - 1) * c <= n * (n + 1)

OrderIInv == Types /\ Shape /\ Tags /\ Reached /\ Walks /\ Rooms

LEMMA InitOrderIInv == Init => OrderIInv
<1> SUFFICES ASSUME Init PROVE OrderIInv
  OBVIOUS
<1>1. Types
  <2>1. stack \in Seq(Seats) /\ frames \in Seq(FrameSet)
    BY DEF Init
  <2> QED BY <2>1, OrderAssumption DEF Init, Types
<1>2. Len(frames) = 0 /\ Len(stack) = 0 /\ frames = <<>> /\ stack = <<>>
  BY DEF Init
<1>3. Shape
  BY <1>2 DEF Shape
<1>4. Tags /\ Reached
  BY <1>2 DEF Tags, Reached, Init
<1>5. Walks /\ Rooms
  BY <1>2 DEF Walks, Rooms
<1> QED BY <1>1, <1>3, <1>4, <1>5 DEF OrderIInv

-----------------------------------------------------------------------------
(***************************************************************************)
(* Lemmas about sequences and reachable seats                              *)
(***************************************************************************)
LEMMA Pushed ==
  ASSUME NEW S, NEW q \in Seq(S), NEW x \in S
  PROVE  /\ Append(q, x) \in Seq(S)
         /\ Len(Append(q, x)) = Len(q) + 1
         /\ \A i \in 1 .. Len(q) : Append(q, x)[i] = q[i]
         /\ Append(q, x)[Len(q) + 1] = x
         /\ Append(q, x) # <<>>
<1>1. /\ Append(q, x) \in Seq(S)
      /\ Len(Append(q, x)) = Len(q) + 1 /\ Len(q) \in Nat
      /\ \A i \in 1 .. Len(q) : Append(q, x)[i] = q[i]
      /\ Append(q, x)[Len(q) + 1] = x
  OBVIOUS
<1>2. Len(<<>>) = 0
  OBVIOUS
<1> QED BY <1>1, <1>2

LEMMA Cut ==
  ASSUME NEW S, NEW q \in Seq(S), NEW n \in 0 .. Len(q)
  PROVE  /\ SubSeq(q, 1, n) \in Seq(S)
         /\ Len(SubSeq(q, 1, n)) = n
         /\ \A i \in 1 .. n : SubSeq(q, 1, n)[i] = q[i]
OBVIOUS

LEMMA EmptySeq ==
  ASSUME NEW S, NEW q \in Seq(S)
  PROVE  Len(q) \in Nat /\ (q = <<>> <=> Len(q) = 0)
OBVIOUS

\* Replacing the top of a sequence.
LEMMA TopSet ==
  ASSUME NEW S, NEW q \in Seq(S), q # <<>>, NEW x \in S, NEW r, r = Append(SubSeq(q, 1, Len(q) - 1), x)
  PROVE  /\ r \in Seq(S) /\ Len(r) = Len(q)
         /\ \A i \in 1 .. Len(q) - 1 : r[i] = q[i]
         /\ r[Len(q)] = x
<1>1. Len(q) - 1 \in 0 .. Len(q)
  BY EmptySeq
<1> DEFINE b == SubSeq(q, 1, Len(q) - 1)
<1>2. b \in Seq(S) /\ Len(b) = Len(q) - 1 /\ \A i \in 1 .. Len(q) - 1 : b[i] = q[i]
  BY <1>1, Cut
<1> HIDE DEF b
<1>3. r = Append(b, x)
  BY DEF b
<1> QED BY <1>1, <1>2, <1>3, Pushed

LEMMA ReachableClosed ==
  ASSUME Types
  PROVE  /\ Abstract!Reachable \subseteq Seats
         /\ roots \subseteq Abstract!Reachable
         /\ \A s \in Abstract!Reachable : graph[s] \subseteq Abstract!Reachable
BY DEF Abstract!Reachable, Abstract!Closed, Types

LEMMA SameReachable ==
  ASSUME UNCHANGED <<graph, roots>>
  PROVE  Abstract!Reachable' = Abstract!Reachable
BY DEF Abstract!Reachable, Abstract!Closed

-----------------------------------------------------------------------------
(***************************************************************************)
(* What a step leaves alone                                                *)
(***************************************************************************)
LEMMA Regions ==
  ASSUME Types, Shape, NEW F, F = Len(frames), NEW N, N = Len(stack)
  PROVE  /\ F \in Nat /\ N \in Nat
         /\ (frames = <<>> <=> F = 0) /\ (stack = <<>> <=> N = 0)
         /\ \A k \in 1 .. F :
              /\ frames[k] \in FrameSet /\ frames[k].seat \in Seats
              /\ End(k) \in 1 .. N /\ frames[k].pos \in 1 .. End(k) /\ frames[k].pos \in 1 .. N
              /\ Region(k) = frames[k].pos .. End(k) /\ Region(k) \subseteq 1 .. N
              /\ frames[k].pos \in Region(k) /\ stack[frames[k].pos] = frames[k].seat
              /\ SeatsOf(k) \subseteq Seats
         /\ \A k \in 1 .. F - 1 : End(k) = frames[k + 1].pos - 1
         /\ F > 0 => End(F) = N
<1>1. F \in Nat /\ N \in Nat /\ (frames = <<>> <=> F = 0) /\ (stack = <<>> <=> N = 0)
  BY EmptySeq DEF Types
<1>2. ASSUME NEW k \in 1 .. F
      PROVE  /\ frames[k] \in FrameSet /\ frames[k].seat \in Seats
             /\ End(k) \in 1 .. N /\ frames[k].pos \in 1 .. End(k) /\ frames[k].pos \in 1 .. N
             /\ Region(k) = frames[k].pos .. End(k) /\ Region(k) \subseteq 1 .. N
             /\ frames[k].pos \in Region(k) /\ stack[frames[k].pos] = frames[k].seat
             /\ SeatsOf(k) \subseteq Seats
  <2>1. frames[k] \in FrameSet /\ frames[k].seat \in Seats
    <3>1. frames[k] \in FrameSet
      BY <1>1 DEF Types
    <3> QED BY <3>1 DEF FrameSet
  <2>2. /\ End(k) \in 1 .. N /\ frames[k].pos \in 1 .. End(k)
        /\ stack[frames[k].pos] = frames[k].seat
    BY DEF Shape
  <2>3. Region(k) = frames[k].pos .. End(k)
    BY DEF Region
  <2>4. Region(k) \subseteq 1 .. N /\ frames[k].pos \in Region(k) /\ frames[k].pos \in 1 .. N
    BY <1>1, <2>2, <2>3
  <2>5. SeatsOf(k) \subseteq Seats
    BY <2>4 DEF SeatsOf, Types
  <2> QED BY <2>1, <2>2, <2>3, <2>4, <2>5
<1>3. \A k \in 1 .. F - 1 : End(k) = frames[k + 1].pos - 1
  BY <1>1 DEF End
<1>4. F > 0 => End(F) = N
  BY DEF End
<1> QED BY <1>1, <1>2, <1>3, <1>4

\* A seat is in at most one live place, and tags tell which of two is lower.
LEMMA LiveOnce ==
  ASSUME Types, Tags, NEW p \in 1 .. Len(stack), Live(p), NEW q \in 1 .. Len(stack), Live(q)
  PROVE  /\ stack[p] = stack[q] => p = q
         /\ seatTag[stack[p]] < seatTag[stack[q]] <=> p < q
         /\ seatTag[stack[p]] \in 1 .. tag /\ seatTag[stack[p]] # Done
<1>1. /\ seatTag[stack[p]] \in 1 .. tag /\ seatTag[stack[q]] \in 1 .. tag
      /\ p < q => seatTag[stack[p]] < seatTag[stack[q]]
      /\ q < p => seatTag[stack[q]] < seatTag[stack[p]]
  BY DEF Tags
<1> QED BY <1>1 DEF Done, Types

\* The frame at k is the one that was there, and so is what is below it.
Stays(k) ==
  /\ k \in 1 .. Len(frames) /\ End(k)' = End(k) /\ (Region(k)' = Region(k)) /\ graph' = graph
  /\ frames'[k].seat = frames[k].seat /\ frames'[k].pos = frames[k].pos
  /\ frames'[k].min = frames[k].min
  /\ \A p \in 1 .. End(k) : stack'[p] = stack[p]
  /\ \A t \in Seats : seatTag[t] = Done => seatTag'[t] = Done

\* What is known of an open frame is about what is below and in its region.
LEMMA OpenStays ==
  ASSUME OrderIInv, NEW k, Stays(k), Open(k), End(k) <= Len(stack)', Len(stack)' \in Nat,
         \A p \in 1 .. End(k) : Live(p) => Live(p)' /\ seatTag'[stack[p]] = seatTag[stack[p]],
         \A t \in frames[k].todo \union (IF k < Len(frames) THEN {frames[k + 1].seat} ELSE {}) :
            \/ t \in frames'[k].todo
            \/ k < Len(frames') /\ t = frames'[k + 1].seat
            \/ seatTag'[t] = Done
  PROVE  Explored(k)' /\ Lowest(k)' /\ Linked(k)'
<1>0. PICK F, N : F = Len(frames) /\ N = Len(stack)
  OBVIOUS
<1>1. /\ Types /\ Shape /\ Tags /\ k \in 1 .. F
      /\ Explored(k) /\ Lowest(k) /\ Linked(k)
  BY <1>0 DEF OrderIInv, Walks, Stays
<1>2. /\ F \in Nat /\ N \in Nat
      /\ End(k) \in 1 .. N /\ frames[k].pos \in 1 .. End(k) /\ frames[k].pos \in 1 .. N
      /\ Region(k) = frames[k].pos .. End(k) /\ Region(k) \subseteq 1 .. N
      /\ frames[k].pos \in Region(k) /\ stack[frames[k].pos] = frames[k].seat
  BY <1>0, <1>1, Regions
<1>3. Region(k) \subseteq 1 .. End(k) /\ 1 .. End(k) \subseteq 1 .. N
  BY <1>2
<1>4. Region(k)' = Region(k) /\ \A p \in Region(k) : stack'[p] = stack[p] /\ stack[p] \in Seats /\ Live(p)
  BY <1>0, <1>1, <1>3 DEF Stays, Types, Live
<1>5. \A p, q \in 1 .. End(k) : Edge(p, q)' <=> Edge(p, q)
  BY DEF Stays, Edge
<1>6. Explored(k)'
  <2> SUFFICES ASSUME NEW p \in Region(k), NEW t \in graph[stack[p]]
               PROVE  \/ p = frames[k].pos /\ t \in frames'[k].todo
                      \/ p = frames[k].pos /\ k < Len(frames') /\ t = frames'[k + 1].seat
                      \/ seatTag'[t] = Done
                      \/ seatTag'[t] >= frames[k].min /\ \E r \in 1 .. End(k) : Live(r)' /\ stack'[r] = t
    BY <1>4 DEF Explored, Stays
  <2>1. t \in Seats
    BY <1>1, <1>4 DEF Types
  <2>2. CASE p = frames[k].pos /\ (t \in frames[k].todo \/ (k < F /\ t = frames[k + 1].seat))
    BY <1>0, <2>2
  <2>3. CASE seatTag[t] = Done
    BY <2>1, <2>3 DEF Stays
  <2>4. CASE seatTag[t] >= frames[k].min /\ \E r \in 1 .. End(k) : Live(r) /\ stack[r] = t
    <3>1. PICK r \in 1 .. End(k) : Live(r) /\ stack[r] = t
      BY <2>4
    <3> QED BY <2>4, <3>1 DEF Stays
  <2> QED BY <1>0, <1>1, <2>2, <2>3, <2>4 DEF Explored
<1>7. Lowest(k)'
  <2>1. seatTag'[frames[k].seat] = seatTag[frames[k].seat]
    BY <1>2, <1>4
  <2>2. ASSUME frames[k].min < seatTag[frames[k].seat]
        PROVE  \E p \in Region(k) : \E r \in 1 .. Len(stack)' :
                 Live(r)' /\ Edge(p, r)' /\ seatTag'[stack'[r]] = frames[k].min
    <3>1. PICK p \in Region(k), r \in 1 .. N : Live(r) /\ Edge(p, r) /\ seatTag[stack[r]] = frames[k].min
      BY <1>0, <1>1, <2>2 DEF Lowest
    <3>2. r < frames[k].pos
      BY <1>0, <1>1, <1>2, <1>4, <2>2, <3>1, LiveOnce
    <3>3. r \in 1 .. End(k) /\ r \in 1 .. Len(stack)' /\ p \in 1 .. End(k)
      BY <1>2, <1>3, <3>2
    <3> QED BY <1>5, <3>1, <3>3 DEF Stays
  <2> QED BY <1>1, <1>4, <2>1, <2>2 DEF Lowest, Stays
<1>8. Linked(k)'
  <2>1. ASSUME NEW p \in 1 .. End(k), NEW e \in 1 .. End(k)
        PROVE  (Tree(p, e)' <=> Tree(p, e)) /\ (Back(p, e) => Back(p, e)')
    <3>1. /\ p + 1 .. e \subseteq 1 .. End(k) /\ p .. e \subseteq 1 .. End(k) /\ 1 .. p - 1 \subseteq 1 .. End(k)
          /\ \A x \in p + 1 .. e : p .. x - 1 \subseteq 1 .. End(k)
      BY <1>2
    <3>2. Tree(p, e)' <=> Tree(p, e)
      BY <1>5, <3>1 DEF Tree
    <3>3. Back(p, e) => Back(p, e)'
      BY <1>5, <3>1 DEF Back
    <3> QED BY <3>2, <3>3
  <2>2. \A p \in frames[k].pos + 1 .. End(k) : p \in 1 .. End(k) /\ \A e \in p .. End(k) : e \in 1 .. End(k)
    BY <1>2
  <2>3. End(k) \in 1 .. End(k)
    BY <1>2
  <2> QED BY <1>1, <1>2, <2>1, <2>2, <2>3 DEF Linked, Stays
<1> QED BY <1>6, <1>7, <1>8

\* What is known of a component that is visited again stays true while it is
\* pushed above itself, and when something is done.
LEMMA SpentStays ==
  ASSUME OrderIInv, NEW k, Stays(k), ~Open(k),
         \/ frames'[k].at = frames[k].at
         \/ /\ frames'[k].at = frames[k].at + 1
            /\ frames[k].at <= End(k) /\ seatTag[stack[frames[k].at]] = Done,
         \A p \in End(k) + 1 .. Len(stack)' : stack'[p] \in SeatsOf(k),
         \A r \in 1 .. Len(stack)' : r <= End(k) /\ Live(r)' => Live(r),
         k > 1 /\ Open(k - 1)' => Open(k - 1) /\ frames'[k - 1].seat = frames[k - 1].seat
                                  /\ seatTag'[frames[k - 1].seat] = seatTag[frames[k - 1].seat]
  PROVE  Spent(k)'
<1>0. PICK F, N : F = Len(frames) /\ N = Len(stack)
  OBVIOUS
<1>1. Types /\ Shape /\ k \in 1 .. F /\ Spent(k)
  BY <1>0 DEF OrderIInv, Walks, Stays
<1>2. /\ F \in Nat /\ N \in Nat
      /\ End(k) \in 1 .. N /\ frames[k].pos \in 1 .. End(k) /\ frames[k].pos \in 1 .. N
      /\ Region(k) = frames[k].pos .. End(k) /\ Region(k) \subseteq 1 .. N
  BY <1>0, <1>1, Regions
<1>3. Region(k) \subseteq 1 .. End(k)
  BY <1>2
<1>4. \A p \in Region(k) : stack'[p] = stack[p] /\ stack[p] \in Seats /\ graph[stack[p]] \subseteq Seats
  BY <1>0, <1>1, <1>2, <1>3 DEF Stays, Types
<1>5. SeatsOf(k)' = SeatsOf(k) /\ Region(k)' = Region(k)
  BY <1>4 DEF SeatsOf, Stays
<1>6. /\ frames'[k].at \in frames[k].pos .. End(k) + 1
      /\ \A i \in frames[k].pos .. frames'[k].at - 1 : i \in Region(k) /\ seatTag[stack[i]] = Done
  <2>1. /\ frames[k].at \in frames[k].pos .. End(k) + 1
        /\ \A i \in frames[k].pos .. frames[k].at - 1 : seatTag[stack[i]] = Done
    BY <1>1 DEF Spent
  <2>2. CASE frames'[k].at = frames[k].at
    <3>1. \A i \in frames[k].pos .. frames[k].at - 1 : i \in Region(k)
      BY <1>2, <2>1
    <3> QED BY <2>1, <2>2, <3>1
  <2>3. CASE /\ frames'[k].at = frames[k].at + 1
             /\ frames[k].at <= End(k) /\ seatTag[stack[frames[k].at]] = Done
    <3>1. frames'[k].at \in frames[k].pos .. End(k) + 1
      BY <1>2, <2>1, <2>3
    <3>2. \A i \in frames[k].pos .. frames'[k].at - 1 :
            i \in Region(k) /\ (i = frames[k].at \/ i \in frames[k].pos .. frames[k].at - 1)
      BY <1>2, <2>1, <2>3
    <3> QED BY <2>1, <2>3, <3>1, <3>2
  <2> QED BY <2>2, <2>3
<1>7. ASSUME NEW p \in Region(k), NEW r \in 1 .. Len(stack)', Live(r)', stack'[r] = stack'[p]
      PROVE  r > End(k)
  <2> SUFFICES ASSUME r <= End(k) PROVE FALSE
    BY <1>2
  <2>1. r \in 1 .. End(k) /\ r \in 1 .. N
    BY <1>2
  <2>2. Live(r) /\ stack[r] = stack[p]
    BY <1>4, <1>7, <2>1 DEF Stays
  <2>3. r > End(k)
    BY <1>0, <1>1, <2>1, <2>2 DEF Spent
  <2> QED BY <1>2, <2>3
<1>8. /\ frames'[k].at \in frames'[k].pos .. End(k)' + 1
      /\ \A i \in frames'[k].pos .. frames'[k].at - 1 : seatTag'[stack'[i]] = Done
      /\ \E i \in Region(k)' : seatTag'[stack'[i]] = Done
  BY <1>1, <1>4, <1>5, <1>6 DEF Spent, Stays
<1>9. \A p \in Region(k)' : \A t \in graph'[stack'[p]] : seatTag'[t] = Done \/ t \in SeatsOf(k)'
  BY <1>1, <1>4, <1>5 DEF Spent, Stays
<1>10. \A p, q \in Region(k)' : stack'[p] = stack'[q] => p = q
  BY <1>1, <1>4, <1>5 DEF Spent
<1>11. k > 1 /\ Open(k - 1)' => frames'[k].min > seatTag'[frames'[k - 1].seat]
  BY <1>1 DEF Spent, Stays
<1>12. End(k)' = End(k)
  BY DEF Stays
<1> QED BY <1>5, <1>7, <1>8, <1>9, <1>10, <1>11, <1>12 DEF Spent

-----------------------------------------------------------------------------
(***************************************************************************)
(* visit (s) for a seat without a tag                                      *)
(***************************************************************************)

\* The frames below the new one are the ones that were there, only the topmost
\* may have one seat less to look at.
SameFrame(f, g) == f.seat = g.seat /\ f.pos = g.pos /\ f.min = g.min /\ f.at = g.at

LEMMA Entering ==
  ASSUME OrderIInv, NEW s \in Abstract!Reachable, seatTag[s] = 0,
         NEW F, F = Len(frames), NEW N, N = Len(stack),
         NEW b \in Seq(FrameSet), Len(b) = F,
         \A k \in 1 .. F : SameFrame(b[k], frames[k]) /\ b[k].todo \subseteq frames[k].todo,
         \A k \in 1 .. F : frames[k].todo \subseteq b[k].todo \/
             (k = F /\ frames[k].todo \subseteq b[k].todo \union {s}),
         frames # <<>> /\ Open(F) => s \in graph[frames[F].seat],
         frames # <<>> /\ ~Open(F) => s \in SeatsOf(F),
         Enter(s, b), UNCHANGED <<graph, roots>>, pending' \subseteq roots
  PROVE  OrderIInv'
<1> USE DEF OrderIInv
<1>1. s \in Seats /\ Abstract!Reachable' = Abstract!Reachable
  BY ReachableClosed, SameReachable
<1>2. /\ F \in Nat /\ N \in Nat /\ tag \in Nat
      /\ frames = <<>> <=> F = 0
      /\ stack = <<>> <=> N = 0
  BY EmptySeq DEF Types
<1>3. /\ stack' \in Seq(Seats) /\ Len(stack') = N + 1 /\ stack'[N + 1] = s
      /\ \A p \in 1 .. N : stack'[p] = stack[p]
  BY <1>1, Pushed DEF Enter, Types
<1> DEFINE new == Frame(s, N + 1)
<1>4. new \in FrameSet /\ new.seat = s /\ new.pos = N + 1 /\ new.min = tag + 1 /\ new.todo = graph[s] /\ new.at = 0
  BY <1>1, <1>2 DEF Enter, Frame, FrameSet, Types
<1>5. /\ frames' \in Seq(FrameSet) /\ Len(frames') = F + 1 /\ frames' # <<>> /\ frames'[F + 1] = new
      /\ \A k \in 1 .. F : frames'[k] = b[k]
  <2>1. frames' = Append(b, new)
    BY DEF Enter
  <2> HIDE DEF new
  <2> QED BY <1>4, <2>1, Pushed
<1>6. /\ tag' = tag + 1 /\ seatTag' \in [Seats -> Nat \union {Done}] /\ seatTag'[s] = tag + 1
      /\ \A t \in Seats : t # s => seatTag'[t] = seatTag[t]
  BY <1>1, <1>2 DEF Enter, Types
<1> HIDE DEF new
<1>7. \A k \in 1 .. F : SameFrame(frames'[k], frames[k])
  BY <1>5
<1>8. \A k \in 1 .. F : End(k)' = End(k) /\ (Open(k)' <=> Open(k)) /\ Region(k)' = Region(k)
  <2> SUFFICES ASSUME NEW k \in 1 .. F PROVE End(k)' = End(k) /\ (Open(k)' <=> Open(k)) /\ Region(k)' = Region(k)
    OBVIOUS
  <2>1. End(k)' = End(k)
    <3>1. CASE k = F
      BY <1>2, <1>4, <1>5, <3>1 DEF End
    <3>2. CASE k < F
      BY <1>2, <1>5, <1>7, <3>2 DEF End, SameFrame
    <3> QED BY <1>2, <3>1, <3>2
  <2> QED BY <1>7, <2>1 DEF SameFrame, Open, Region
<1>9. End(F + 1)' = N + 1 /\ Open(F + 1)' /\ Region(F + 1)' = {N + 1}
  <2>1. End(F + 1)' = N + 1
    BY <1>3, <1>5 DEF End
  <2>2. (N + 1) .. (N + 1) = {N + 1}
    BY <1>2
  <2> QED BY <1>4, <1>5, <2>1, <2>2 DEF Open, Region
<1>10. \A k \in 1 .. F : Region(k) \subseteq 1 .. N
  <2> SUFFICES ASSUME NEW k \in 1 .. F, NEW p \in Region(k) PROVE p \in 1 .. N
    OBVIOUS
  <2>1. frames[k].pos \in 1 .. End(k) /\ End(k) \in 1 .. N /\ p \in frames[k].pos .. End(k)
    BY DEF Shape, Region
  <2> QED BY <1>2, <2>1
<1>11. /\ \A p \in 1 .. N : Live(p)' <=> Live(p)
       /\ Live(N + 1)'
  BY <1>2, <1>5, <1>8, <1>9 DEF Live
<1>12. Types'
  BY <1>3, <1>5, <1>6 DEF Types
<1>13. Shape'
  <2>1. ASSUME NEW k \in 1 .. F + 1
        PROVE  /\ frames'[k].pos \in 1 .. End(k)' /\ End(k)' \in 1 .. N + 1
               /\ stack'[frames'[k].pos] = frames'[k].seat
               /\ frames'[k].min >= 1
               /\ frames'[k].todo \subseteq graph[frames'[k].seat]
    <3>1. CASE k \in 1 .. F
      <4>1. /\ frames[k].pos \in 1 .. End(k) /\ End(k) \in 1 .. N
            /\ stack[frames[k].pos] = frames[k].seat
            /\ frames[k].min >= 1
            /\ frames[k].todo \subseteq graph[frames[k].seat]
        BY <3>1 DEF Shape
      <4>2. frames'[k].todo \subseteq frames[k].todo
        BY <1>5, <3>1
      <4>3. frames[k].pos \in 1 .. N
        BY <1>2, <4>1
      <4> QED BY <1>2, <1>3, <1>7, <1>8, <3>1, <4>1, <4>2, <4>3 DEF SameFrame
    <3>2. CASE k = F + 1
      BY <1>2, <1>3, <1>4, <1>5, <1>9, <3>2
    <3> QED BY <1>2, <3>1, <3>2
  <2>2. ASSUME NEW j \in 1 .. F + 1, NEW k \in 1 .. F + 1, j < k
        PROVE  End(j)' < frames'[k].pos
    <3>1. j \in 1 .. F /\ End(j)' = End(j) /\ End(j) \in 1 .. N
      BY <1>2, <1>8, <2>2 DEF Shape
    <3>2. CASE k \in 1 .. F
      <4>1. frames'[k].pos = frames[k].pos
        BY <1>7, <3>2 DEF SameFrame
      <4>2. End(j) < frames[k].pos
        BY <2>2, <3>1, <3>2 DEF Shape
      <4> QED BY <3>1, <4>1, <4>2
    <3>3. CASE k = F + 1
      <4>1. frames'[k].pos = N + 1
        BY <1>4, <1>5, <3>3
      <4>2. End(j) < N + 1
        BY <1>2, <3>1
      <4> QED BY <3>1, <4>1, <4>2
    <3>4. k \in 1 .. F \/ k = F + 1
      BY <1>2
    <3> QED BY <3>2, <3>3, <3>4
  <2>3. ASSUME NEW p \in 1 .. N + 1
        PROVE  \E k \in 1 .. F + 1 : p \in Region(k)'
    <3>1. CASE p \in 1 .. N
      <4>1. PICK k \in 1 .. F : p \in Region(k)
        BY <3>1 DEF Shape
      <4> QED BY <1>2, <1>8, <4>1
    <3>2. CASE p = N + 1
      BY <1>2, <1>9, <3>2
    <3> QED BY <1>2, <3>1, <3>2
  <2>4. frames'[1].pos = 1
    <3>1. CASE F = 0
      BY <1>2, <1>4, <1>5, <3>1 DEF Shape
    <3>2. CASE F # 0
      BY <1>2, <1>7, <3>2 DEF Shape, SameFrame
    <3> QED BY <3>1, <3>2
  <2> QED BY <1>3, <1>5, <2>1, <2>2, <2>3, <2>4 DEF Shape
<1>14. \A p \in 1 .. N : Live(p) => stack[p] # s /\ seatTag'[stack[p]] = seatTag[stack[p]] /\ stack[p] \in Seats
  BY <1>2, <1>6 DEF Tags, Types
<1>15. Tags'
  <2>1. ASSUME NEW p \in 1 .. N + 1, Live(p)'
        PROVE  seatTag'[stack'[p]] \in 1 .. tag + 1
    BY <1>2, <1>3, <1>6, <1>11, <1>14, <2>1 DEF Tags
  <2>2. ASSUME NEW p \in 1 .. N + 1, NEW q \in 1 .. N + 1, Live(p)', Live(q)', p < q
        PROVE  seatTag'[stack'[p]] < seatTag'[stack'[q]]
    <3>1. p \in 1 .. N /\ Live(p) /\ stack'[p] = stack[p] /\ seatTag'[stack[p]] = seatTag[stack[p]]
      BY <1>2, <1>3, <1>11, <1>14, <2>2
    <3>2. CASE q \in 1 .. N
      BY <1>3, <1>11, <1>14, <2>2, <3>1, <3>2 DEF Tags
    <3>3. CASE q = N + 1
      BY <1>2, <1>3, <1>6, <3>1, <3>3 DEF Tags
    <3> QED BY <1>2, <3>2, <3>3
  <2>3. ASSUME NEW t \in Seats, seatTag'[t] > 0
        PROVE  \E p \in 1 .. N + 1 : Live(p)' /\ stack'[p] = t
    <3>1. CASE t = s
      BY <1>2, <1>3, <1>11, <3>1
    <3>2. CASE t # s
      <4>1. PICK p \in 1 .. N : Live(p) /\ stack[p] = t
        BY <1>6, <2>3, <3>2 DEF Tags
      <4> QED BY <1>2, <1>3, <1>11, <4>1
    <3> QED BY <3>1, <3>2
  <2> QED BY <1>3, <1>6, <2>1, <2>2, <2>3 DEF Tags
<1>16. Reached'
  BY <1>1, <1>2, <1>3 DEF Reached
<1>17. Rooms'
  <2> SUFFICES ASSUME NEW k \in 1 .. F + 1, ~Open(k)'
               PROVE  LET n == Cardinality(Abstract!Reachable)
                          c == End(k)' - frames'[k].pos + 1
                      IN 2 * End(k)' + (c - 1) * c <= n * (n + 1)
    BY <1>1, <1>5 DEF Rooms
  <2>1. k \in 1 .. F /\ ~Open(k)
    BY <1>2, <1>8, <1>9
  <2>2. End(k)' = End(k) /\ frames'[k].pos = frames[k].pos
    BY <1>7, <1>8, <2>1 DEF SameFrame
  <2> QED BY <2>1, <2>2 DEF Rooms
<1>18. \A t \in Seats : seatTag[t] = Done => seatTag'[t] = Done
  <2>1. seatTag[s] # Done
    BY DEF Done
  <2> QED BY <1>6, <2>1
<1>19. \A p, q \in 1 .. N : Edge(p, q)' <=> Edge(p, q)
  BY <1>3 DEF Edge
<1>20. \A k \in 1 .. F : SeatsOf(k)' = SeatsOf(k) /\ SeatsOf(k) \subseteq Seats
  <2> SUFFICES ASSUME NEW k \in 1 .. F PROVE SeatsOf(k)' = SeatsOf(k) /\ SeatsOf(k) \subseteq Seats
    OBVIOUS
  <2>1. \A p \in Region(k) : stack'[p] = stack[p] /\ stack[p] \in Seats
    BY <1>3, <1>10 DEF Types
  <2> QED BY <1>8, <2>1 DEF SeatsOf
<1>21. ASSUME NEW k \in 1 .. F
       PROVE  End(k) \in 1 .. N /\ frames[k].pos \in 1 .. End(k) /\ Region(k) = frames[k].pos .. End(k)
  BY DEF Shape, Region
<1>22. ASSUME NEW k \in 1 .. F, Open(k)
       PROVE  Explored(k)' /\ Lowest(k)' /\ Linked(k)'
  <2>1. Explored(k) /\ Lowest(k) /\ Linked(k)
    BY <1>22 DEF Walks
  <2>2. Explored(k)'
    <3> SUFFICES ASSUME NEW p \in Region(k), NEW t \in graph[stack[p]]
                 PROVE  \/ p = frames[k].pos /\ t \in frames'[k].todo
                        \/ p = frames[k].pos /\ k < F + 1 /\ t = frames'[k + 1].seat
                        \/ seatTag'[t] = Done
                        \/ seatTag'[t] >= frames[k].min /\ \E r \in 1 .. End(k) : Live(r)' /\ stack'[r] = t
      <4>1. \A p \in Region(k) : stack'[p] = stack[p]
        BY <1>3, <1>10
      <4> QED BY <1>5, <1>7, <1>8, <4>1 DEF Explored, SameFrame
    <3>1. t \in Seats
      BY <1>3, <1>10 DEF Types
    <3>2. CASE p = frames[k].pos /\ t \in frames[k].todo
      <4>1. CASE t \in b[k].todo
        BY <1>5, <3>2, <4>1
      <4>2. CASE k = F /\ t = s
        BY <1>4, <1>5, <1>2, <3>2, <4>2
      <4> QED BY <3>2, <4>1, <4>2
    <3>3. CASE p = frames[k].pos /\ k < F /\ t = frames[k + 1].seat
      BY <1>2, <1>7, <3>3 DEF SameFrame
    <3>4. CASE seatTag[t] = Done
      BY <1>18, <3>1, <3>4
    <3>5. CASE seatTag[t] >= frames[k].min /\ \E r \in 1 .. End(k) : Live(r) /\ stack[r] = t
      <4>1. PICK r \in 1 .. End(k) : Live(r) /\ stack[r] = t
        BY <3>5
      <4>2. r \in 1 .. N
        BY <1>2, <1>21, <4>1
      <4> QED BY <1>3, <1>11, <1>14, <3>5, <4>1, <4>2
    <3> QED BY <2>1, <3>2, <3>3, <3>4, <3>5 DEF Explored
  <2>3. Lowest(k)'
    <3>1. frames[k].seat = stack[frames[k].pos] /\ frames[k].pos \in 1 .. N /\ Live(frames[k].pos)
      <4>1. frames[k].pos \in Region(k) /\ frames[k].pos \in 1 .. N
        BY <1>2, <1>21
      <4> QED BY <1>22, <4>1 DEF Shape, Live
    <3>2. seatTag'[frames[k].seat] = seatTag[frames[k].seat]
      BY <1>14, <3>1
    <3>3. ASSUME frames[k].min < seatTag[frames[k].seat]
          PROVE  \E p \in Region(k) : \E r \in 1 .. N + 1 :
                   Live(r)' /\ Edge(p, r)' /\ seatTag'[stack'[r]] = frames[k].min
      <4>1. PICK p \in Region(k) : \E r \in 1 .. N : Live(r) /\ Edge(p, r) /\ seatTag[stack[r]] = frames[k].min
        BY <2>1, <3>3 DEF Lowest
      <4>2. PICK r \in 1 .. N : Live(r) /\ Edge(p, r) /\ seatTag[stack[r]] = frames[k].min
        BY <4>1
      <4> QED BY <1>2, <1>3, <1>10, <1>11, <1>14, <1>19, <4>2
    <3> QED BY <1>3, <1>7, <1>8, <2>1, <3>2, <3>3 DEF Lowest, SameFrame
  <2>4. \A p, e \in 1 .. N : (Tree(p, e)' <=> Tree(p, e)) /\ (Back(p, e) => Back(p, e)')
    <3> SUFFICES ASSUME NEW p \in 1 .. N, NEW e \in 1 .. N
                 PROVE  (Tree(p, e)' <=> Tree(p, e)) /\ (Back(p, e) => Back(p, e)')
      OBVIOUS
    <3>1. /\ p + 1 .. e \subseteq 1 .. N /\ p .. e \subseteq 1 .. N /\ 1 .. p - 1 \subseteq 1 .. N
          /\ \A x \in p + 1 .. e : p .. x - 1 \subseteq 1 .. N
      BY <1>2
    <3>2. Tree(p, e)' <=> Tree(p, e)
      BY <1>19, <3>1 DEF Tree
    <3>3. Back(p, e) => Back(p, e)'
      BY <1>11, <1>19, <3>1 DEF Back
    <3> QED BY <3>2, <3>3
  <2>5. Linked(k)'
    <3>1. frames[k].pos \in 1 .. N /\ End(k) \in 1 .. N
      BY <1>2, <1>21
    <3>2. \A p \in frames[k].pos + 1 .. End(k) : p \in 1 .. N /\ \A e \in p .. End(k) : e \in 1 .. N
      BY <1>2, <3>1
    <3>3. frames'[k].pos = frames[k].pos
      BY <1>7 DEF SameFrame
    <3> QED BY <1>8, <2>1, <2>4, <3>1, <3>2, <3>3 DEF Linked
  <2> QED BY <2>2, <2>3, <2>5
<1>23. ASSUME NEW k \in 1 .. F, ~Open(k)
       PROVE  Spent(k)'
  <2>1. Spent(k)
    BY <1>23 DEF Walks
  <2>2. s \in SeatsOf(k)
    <3>1. F \in 1 .. F /\ frames # <<>>
      BY <1>2
    <3>2. CASE k = F
      BY <1>23, <3>1, <3>2
    <3>3. CASE k < F
      <4>1. End(k) < frames[F].pos
        BY <3>1, <3>3 DEF Shape
      <4>2. \A p \in Region(F) : p \in End(k) + 1 .. N
        BY <1>2, <1>21, <3>1, <4>1
      <4>3. \A p \in Region(F) : stack[p] \in SeatsOf(k)
        BY <2>1, <4>2 DEF Spent
      <4>4. CASE Open(F)
        <5>1. s \in graph[stack[frames[F].pos]] /\ frames[F].pos \in Region(F)
          <6>1. s \in graph[frames[F].seat] /\ frames[F].seat = stack[frames[F].pos]
            BY <3>1, <4>4 DEF Shape
          <6>2. frames[F].pos \in frames[F].pos .. End(F)
            BY <1>2, <1>21, <3>1
          <6> QED BY <1>21, <3>1, <6>1, <6>2
        <5>2. stack[frames[F].pos] \in SeatsOf(k)
          BY <4>3, <5>1
        <5>3. PICK p \in Region(k) : stack[p] = stack[frames[F].pos]
          BY <5>2 DEF SeatsOf
        <5> QED BY <2>1, <5>1, <5>3 DEF Spent, Done
      <4>5. CASE ~Open(F)
        BY <3>1, <4>3, <4>5 DEF SeatsOf
      <4> QED BY <4>4, <4>5
    <3> QED BY <1>2, <3>2, <3>3
  <2>3. \A p \in Region(k) : p \in 1 .. N /\ stack'[p] = stack[p] /\ stack[p] \in Seats
    BY <1>3, <1>10 DEF Types
  <2>4. frames[k].at \in frames[k].pos .. End(k) + 1
    BY <2>1 DEF Spent
  <2>5. \A i \in frames[k].pos .. frames[k].at - 1 : seatTag'[stack'[i]] = Done
    <3>1. \A i \in frames[k].pos .. frames[k].at - 1 : i \in Region(k) /\ seatTag[stack[i]] = Done
      BY <1>2, <1>21, <2>1, <2>4 DEF Spent
    <3> QED BY <1>18, <2>3, <3>1
  <2>6. \E i \in Region(k) : seatTag'[stack'[i]] = Done
    BY <1>18, <2>1, <2>3 DEF Spent
  <2>7. \A p \in Region(k) : \A t \in graph[stack'[p]] : seatTag'[t] = Done \/ t \in SeatsOf(k)
    <3>1. \A p \in Region(k) : graph[stack[p]] \subseteq Seats
      BY <2>3 DEF Types
    <3> QED BY <1>18, <2>1, <2>3, <3>1 DEF Spent
  <2>8. \A p \in End(k) + 1 .. N + 1 : stack'[p] \in SeatsOf(k)
    <3>1. \A p \in End(k) + 1 .. N + 1 : p = N + 1 \/ (p \in End(k) + 1 .. N /\ p \in 1 .. N)
      <4>1. End(k) \in 1 .. N
        BY <1>21
      <4> QED BY <1>2, <4>1
    <3> QED BY <1>3, <2>1, <2>2, <3>1 DEF Spent
  <2>9. ASSUME NEW p \in Region(k), NEW r \in 1 .. N + 1, Live(r)', stack'[r] = stack'[p]
        PROVE  r > End(k)
    <3>1. CASE r \in 1 .. N
      BY <1>3, <1>11, <2>1, <2>3, <2>9, <3>1 DEF Spent
    <3>2. CASE r = N + 1
      BY <1>2, <1>21, <3>2
    <3> QED BY <1>2, <3>1, <3>2
  <2>10. \A p, q \in Region(k) : stack'[p] = stack'[q] => p = q
    BY <2>1, <2>3 DEF Spent
  <2>11. k > 1 /\ Open(k - 1)' => frames'[k].min > seatTag'[frames'[k - 1].seat]
    <3> SUFFICES ASSUME k > 1, Open(k - 1)'
                 PROVE  frames'[k].min > seatTag'[frames'[k - 1].seat]
      OBVIOUS
    <3>1. k - 1 \in 1 .. F /\ Open(k - 1)
      BY <1>2, <1>8
    <3>2. frames[k - 1].pos \in Region(k - 1) /\ frames[k - 1].pos \in 1 .. N
      BY <1>2, <1>21, <3>1
    <3>3. stack[frames[k - 1].pos] = frames[k - 1].seat /\ Live(frames[k - 1].pos)
      BY <3>1, <3>2 DEF Shape, Live
    <3> QED BY <1>7, <1>14, <2>1, <3>1, <3>2, <3>3 DEF Spent, SameFrame
  <2> QED
    BY <1>3, <1>7, <1>8, <1>20, <2>4, <2>5, <2>6, <2>7, <2>8, <2>9, <2>10, <2>11 DEF Spent, SameFrame
<1>24. Explored(F + 1)' /\ Lowest(F + 1)' /\ Linked(F + 1)'
  <2>1. frames'[F + 1].pos = N + 1
    BY <1>4, <1>5
  <2>2. Explored(F + 1)'
    BY <1>3, <1>4, <1>5, <1>9, <2>1 DEF Explored
  <2>3. Lowest(F + 1)'
    BY <1>4, <1>5, <1>6 DEF Lowest
  <2>4. Linked(F + 1)'
    BY <1>2, <1>9, <2>1 DEF Linked, Tree
  <2> QED BY <2>2, <2>3, <2>4
<1>25. ASSUME NEW k \in 1 .. F, Open(k)
       PROVE  frames'[k + 1].seat \in graph[frames'[k].seat]
  <2>1. CASE k < F
    BY <1>2, <1>7, <1>25, <2>1 DEF Walks, SameFrame
  <2>2. CASE k = F
    BY <1>2, <1>4, <1>5, <1>7, <1>25, <2>2 DEF SameFrame
  <2> QED BY <1>2, <2>1, <2>2
<1>26. Walks'
  <2> SUFFICES ASSUME NEW k \in 1 .. F + 1
               PROVE  /\ Open(k)' => Explored(k)' /\ Lowest(k)' /\ Linked(k)'
                      /\ ~Open(k)' => Spent(k)'
                      /\ Open(k)' /\ k < F + 1 => frames'[k + 1].seat \in graph'[frames'[k].seat]
    BY <1>5 DEF Walks
  <2>1. CASE k \in 1 .. F
    BY <1>8, <1>22, <1>23, <1>25, <2>1
  <2>2. CASE k = F + 1
    BY <1>2, <1>9, <1>24, <2>2
  <2> QED BY <1>2, <2>1, <2>2
<1> QED BY <1>12, <1>13, <1>15, <1>16, <1>17, <1>26

LEMMA Unmoved ==
  ASSUME OrderIInv, UNCHANGED <<graph, roots, tag, seatTag, stack, frames>>, pending' \subseteq roots
  PROVE  OrderIInv'
<1>1. Abstract!Reachable' = Abstract!Reachable
  BY SameReachable
<1>2. /\ \A k : End(k)' = End(k) /\ Region(k)' = Region(k)
      /\ \A k : SeatsOf(k)' = SeatsOf(k) /\ (Open(k)' <=> Open(k))
  BY DEF End, Region, SeatsOf, Open
<1>3. /\ \A p : Live(p)' <=> Live(p)
      /\ \A p, q : Edge(p, q)' <=> Edge(p, q)
  BY <1>2 DEF Live, Edge
<1>4. Types' /\ Reached'
  BY <1>1 DEF OrderIInv, Types, Reached
<1>5. Shape'
  BY <1>2 DEF OrderIInv, Shape
<1>6. Tags'
  BY <1>3 DEF OrderIInv, Tags
<1>7. \A p, e : (Tree(p, e)' <=> Tree(p, e)) /\ (Back(p, e)' <=> Back(p, e))
  BY <1>3 DEF Tree, Back
<1>8. \A k : /\ Explored(k)' <=> Explored(k)
             /\ Lowest(k)' <=> Lowest(k)
             /\ Linked(k)' <=> Linked(k)
  BY <1>2, <1>3, <1>7 DEF Explored, Lowest, Linked
<1>9. \A k : Spent(k)' <=> Spent(k)
  BY <1>2, <1>3 DEF Spent
<1>10. Walks'
  BY <1>2, <1>8, <1>9 DEF OrderIInv, Walks
<1>11. Rooms'
  BY <1>1, <1>2 DEF OrderIInv, Rooms
<1> QED BY <1>4, <1>5, <1>6, <1>10, <1>11 DEF OrderIInv

-----------------------------------------------------------------------------
(***************************************************************************)
(* Steps of the innermost activation                                       *)
(***************************************************************************)
LEMMA SameRegions ==
  ASSUME Types, Shape, NEW F, F = Len(frames), UNCHANGED <<stack, graph>>,
         frames' \in Seq(FrameSet), Len(frames') = F,
         \A k \in 1 .. F : /\ frames'[k].seat = frames[k].seat
                           /\ frames'[k].pos = frames[k].pos
                           /\ frames'[k].min >= 1
                           /\ frames'[k].todo \subseteq frames[k].todo
  PROVE  /\ Shape'
         /\ \A k \in 1 .. F : End(k)' = End(k) /\ Region(k)' = Region(k) /\ SeatsOf(k)' = SeatsOf(k)
<1>1. F \in Nat /\ (frames = <<>> <=> F = 0) /\ (frames' = <<>> <=> F = 0)
  BY EmptySeq DEF Types
<1>2. \A k \in 1 .. F : End(k)' = End(k)
  <2> SUFFICES ASSUME NEW k \in 1 .. F PROVE End(k)' = End(k)
    OBVIOUS
  <2>1. k = F \/ k + 1 \in 1 .. F
    BY <1>1
  <2> QED BY <2>1 DEF End
<1>3. \A k \in 1 .. F : Region(k)' = Region(k)
  BY <1>2 DEF Region
<1>4. \A k \in 1 .. F : SeatsOf(k)' = SeatsOf(k)
  BY <1>3 DEF SeatsOf
<1>5. frames # <<>> => 1 \in 1 .. F
  BY <1>1
<1>6. Shape'
  <2>1. \A k \in 1 .. F : /\ frames[k].pos \in 1 .. End(k) /\ End(k) \in 1 .. Len(stack)
                          /\ stack[frames[k].pos] = frames[k].seat
                          /\ frames[k].todo \subseteq graph[frames[k].seat]
    BY DEF Shape
  <2>2. \A k \in 1 .. F : /\ frames'[k].pos \in 1 .. End(k)' /\ End(k)' \in 1 .. Len(stack')
                          /\ stack'[frames'[k].pos] = frames'[k].seat
                          /\ frames'[k].min >= 1
                          /\ frames'[k].todo \subseteq graph'[frames'[k].seat]
    <3> SUFFICES ASSUME NEW k \in 1 .. F
                 PROVE  /\ frames'[k].pos \in 1 .. End(k)' /\ End(k)' \in 1 .. Len(stack')
                        /\ stack'[frames'[k].pos] = frames'[k].seat
                        /\ frames'[k].min >= 1
                        /\ frames'[k].todo \subseteq graph'[frames'[k].seat]
      OBVIOUS
    <3> QED BY <1>2, <2>1
  <2>3. \A j, k \in 1 .. F : j < k => End(j)' < frames'[k].pos
    <3>1. \A j, k \in 1 .. F : j < k => End(j) < frames[k].pos
      BY DEF Shape
    <3> QED BY <1>2, <3>1
  <2>4. \A p \in 1 .. Len(stack') : \E k \in 1 .. F : p \in Region(k)'
    BY <1>3 DEF Shape
  <2>5. (frames' = <<>> => stack' = <<>>) /\ (frames' # <<>> => frames'[1].pos = 1)
    BY <1>1, <1>5 DEF Shape
  <2> QED BY <2>2, <2>3, <2>4, <2>5 DEF Shape
<1> QED BY <1>2, <1>3, <1>4, <1>6

\* A seat that has a tag already, or is done.
LEMMA Looked ==
  ASSUME OrderIInv, frames # <<>>, Top.at = 0, NEW a \in Top.todo, seatTag[a] # 0,
         SetTop([Top EXCEPT !.todo = @ \ {a}, !.min = Least(@, seatTag[a])]),
         UNCHANGED <<graph, roots, pending, tag, seatTag, stack>>
  PROVE  OrderIInv'
<1>0. PICK F, N : F = Len(frames) /\ N = Len(stack)
  OBVIOUS
<1>1. Types /\ Shape /\ Tags /\ Reached /\ Walks /\ Rooms
  BY DEF OrderIInv
<1>2. /\ F \in Nat \ {0} /\ N \in Nat /\ F \in 1 .. F /\ Top = frames[F]
      /\ \A k \in 1 .. F :
              /\ frames[k] \in FrameSet /\ frames[k].seat \in Seats
              /\ End(k) \in 1 .. N /\ frames[k].pos \in 1 .. End(k) /\ frames[k].pos \in 1 .. N
              /\ Region(k) = frames[k].pos .. End(k) /\ Region(k) \subseteq 1 .. N
              /\ frames[k].pos \in Region(k) /\ stack[frames[k].pos] = frames[k].seat
              /\ SeatsOf(k) \subseteq Seats
      /\ End(F) = N
  <2>1. F \in Nat \ {0}
    BY <1>0, <1>1, Regions
  <2>2. F > 0 /\ F \in 1 .. F
    BY <2>1
  <2> QED BY <1>0, <1>1, <2>1, <2>2, Regions DEF Top
<1> DEFINE m == Least(frames[F].min, seatTag[a])
           f == [frames[F] EXCEPT !.todo = @ \ {a}, !.min = m]
<1>3. /\ a \in Seats /\ a \in graph[frames[F].seat]
      /\ frames[F].min >= 1
      /\ m \in Nat /\ m >= 1 /\ m <= frames[F].min
      /\ seatTag[a] > 0 => m <= seatTag[a]
      /\ m = frames[F].min \/ (m = seatTag[a] /\ seatTag[a] > 0)
  <2>1. a \in Seats /\ a \in graph[frames[F].seat] /\ frames[F].min >= 1 /\ frames[F].min \in Nat
    BY <1>0, <1>1, <1>2 DEF Shape, FrameSet, Types
  <2>2. seatTag[a] \in Nat \/ seatTag[a] = -1
    BY <1>1, <2>1 DEF Types, Done
  <2> QED BY <2>1, <2>2 DEF Least
<1>4. /\ f \in FrameSet /\ f.seat = frames[F].seat /\ f.pos = frames[F].pos /\ f.at = frames[F].at
      /\ f.min = m /\ f.todo = frames[F].todo \ {a}
  <2> HIDE DEF m
  <2> QED BY <1>2, <1>3 DEF FrameSet
<1>5. /\ frames' \in Seq(FrameSet) /\ Len(frames') = F
      /\ \A k \in 1 .. F - 1 : frames'[k] = frames[k]
      /\ frames'[F] = f
  <2>1. frames' = Append(SubSeq(frames, 1, Len(frames) - 1), f)
    BY <1>2 DEF SetTop, Below
  <2> HIDE DEF f
  <2>2. frames \in Seq(FrameSet)
    BY <1>1 DEF Types
  <2> QED BY <1>0, <1>4, <2>1, <2>2, TopSet
<1> HIDE DEF f, m
<1>6. \A k \in 1 .. F : /\ frames'[k].seat = frames[k].seat
                        /\ frames'[k].pos = frames[k].pos
                        /\ frames'[k].at = frames[k].at
                        /\ frames'[k].min >= 1
                        /\ frames'[k].todo \subseteq frames[k].todo
  <2> SUFFICES ASSUME NEW k \in 1 .. F
               PROVE  /\ frames'[k].seat = frames[k].seat
                      /\ frames'[k].pos = frames[k].pos
                      /\ frames'[k].at = frames[k].at
                      /\ frames'[k].min >= 1
                      /\ frames'[k].todo \subseteq frames[k].todo
    OBVIOUS
  <2>1. k = F \/ k \in 1 .. F - 1
    BY <1>2
  <2>2. frames[k].min >= 1
    BY <1>0, <1>1 DEF Shape
  <2> QED BY <1>3, <1>4, <1>5, <2>1, <2>2
<1>7. /\ Shape'
      /\ \A k \in 1 .. F : End(k)' = End(k) /\ Region(k)' = Region(k) /\ SeatsOf(k)' = SeatsOf(k)
  BY <1>0, <1>1, <1>5, <1>6, SameRegions
<1>8. /\ \A k \in 1 .. F : Open(k)' <=> Open(k)
      /\ \A p : Live(p)' <=> Live(p)
  <2>1. \A k \in 1 .. F : Open(k)' <=> Open(k)
    BY <1>6 DEF Open
  <2> QED BY <1>0, <1>5, <1>7, <2>1 DEF Live
<1>9. Types' /\ Tags'
  BY <1>1, <1>5, <1>8 DEF Types, Tags
<1>10. Reached' /\ Rooms'
  <2>1. Abstract!Reachable' = Abstract!Reachable
    BY SameReachable
  <2> QED BY <1>0, <1>1, <1>5, <1>6, <1>7, <1>8, <2>1 DEF Reached, Rooms
<1>11. Open(F)
  BY <1>2 DEF Open
<1>12. ASSUME NEW k \in 1 .. F, k # F
       PROVE  /\ Stays(k) /\ k \in 1 .. F - 1 /\ k + 1 \in 1 .. F /\ frames'[k] = frames[k]
              /\ frames'[k + 1].seat = frames[k + 1].seat
  <2>1. k \in 1 .. F - 1 /\ k + 1 \in 1 .. F
    BY <1>2, <1>12
  <2> QED BY <1>0, <1>5, <1>6, <1>7, <2>1 DEF Stays
<1>13. ASSUME NEW k \in 1 .. F, k # F, Open(k)
       PROVE  Explored(k)' /\ Lowest(k)' /\ Linked(k)'
  <2>1. \A p \in 1 .. End(k) : Live(p) => Live(p)' /\ seatTag'[stack[p]] = seatTag[stack[p]]
    BY <1>8
  <2>2. End(k) <= Len(stack)' /\ Len(stack)' \in Nat
    BY <1>0, <1>2
  <2>3. \A t \in frames[k].todo \union (IF k < Len(frames) THEN {frames[k + 1].seat} ELSE {}) :
          \/ t \in frames'[k].todo
          \/ k < Len(frames') /\ t = frames'[k + 1].seat
    BY <1>0, <1>5, <1>12, <1>13
  <2> QED BY <1>12, <1>13, <2>1, <2>2, <2>3, OpenStays
<1>14. ASSUME NEW k \in 1 .. F, ~Open(k)
       PROVE  Spent(k)'
  <2>1. k # F
    BY <1>11, <1>14
  <2>2. \A p \in End(k) + 1 .. Len(stack)' : stack'[p] \in SeatsOf(k)
    BY <1>0, <1>1, <1>14 DEF Walks, Spent
  <2>3. k > 1 /\ Open(k - 1)' => Open(k - 1) /\ frames'[k - 1].seat = frames[k - 1].seat
                                  /\ seatTag'[frames[k - 1].seat] = seatTag[frames[k - 1].seat]
    <3>1. k > 1 => k - 1 \in 1 .. F
      BY <1>2
    <3> QED BY <1>6, <1>8, <3>1
  <2> QED BY <1>8, <1>12, <1>14, <2>1, <2>2, <2>3, SpentStays
<1>15. Explored(F) /\ Lowest(F) /\ Linked(F)
  BY <1>0, <1>1, <1>2, <1>11 DEF Walks
<1>16. \A p, q : Edge(p, q)' <=> Edge(p, q)
  BY DEF Edge
<1>17. Explored(F)'
  <2> SUFFICES ASSUME NEW p \in Region(F), NEW t \in graph[stack[p]]
               PROVE  \/ p = frames[F].pos /\ t \in f.todo
                      \/ seatTag[t] = Done
                      \/ seatTag[t] >= m /\ \E r \in 1 .. N : Live(r) /\ stack[r] = t
    BY <1>0, <1>2, <1>4, <1>5, <1>7, <1>8 DEF Explored
  <2>1. CASE p = frames[F].pos /\ t \in frames[F].todo
    <3>1. CASE t = a /\ seatTag[a] > 0
      BY <1>0, <1>1, <1>3, <3>1 DEF Tags
    <3>2. seatTag[a] > 0 \/ seatTag[a] = Done
      BY <1>1, <1>3 DEF Types
    <3> QED BY <1>4, <2>1, <3>1, <3>2
  <2>2. CASE seatTag[t] >= frames[F].min /\ \E r \in 1 .. N : Live(r) /\ stack[r] = t
    <3>1. seatTag[t] \in Int
      <4>1. stack[p] \in Seats
        BY <1>0, <1>1, <1>2 DEF Types
      <4>2. t \in Seats
        BY <1>1, <4>1 DEF Types
      <4> QED BY <1>1, <4>2 DEF Types, Done
    <3>2. frames[F].min \in Nat
      BY <1>2 DEF FrameSet
    <3> QED BY <1>3, <2>2, <3>1, <3>2
  <2> QED BY <1>0, <1>2, <1>15, <2>1, <2>2 DEF Explored
<1>18. Lowest(F)'
  <2>1. seatTag[frames[F].seat] \in Int /\ frames[F].min \in Nat
    BY <1>1, <1>2 DEF Types, Done, FrameSet
  <2>2. m <= seatTag[frames[F].seat]
    BY <1>3, <1>15, <2>1 DEF Lowest
  <2>3. ASSUME m < seatTag[frames[F].seat]
        PROVE  \E p \in Region(F) : \E r \in 1 .. N :
                 Live(r) /\ Edge(p, r) /\ seatTag[stack[r]] = m
    <3>1. CASE m = frames[F].min
      BY <1>0, <1>15, <2>3, <3>1 DEF Lowest
    <3>2. CASE m = seatTag[a] /\ seatTag[a] > 0
      <4>1. PICK r \in 1 .. N : Live(r) /\ stack[r] = a
        BY <1>0, <1>1, <1>3, <3>2 DEF Tags
      <4>2. Edge(frames[F].pos, r) /\ frames[F].pos \in Region(F)
        BY <1>2, <1>3, <4>1 DEF Edge
      <4> QED BY <3>2, <4>1, <4>2
    <3> QED BY <1>3, <3>1, <3>2
  <2> QED BY <1>0, <1>4, <1>5, <1>7, <1>8, <1>16, <2>2, <2>3 DEF Lowest
<1>19. Linked(F)'
  <2>1. \A p, e : (Tree(p, e)' <=> Tree(p, e)) /\ (Back(p, e)' <=> Back(p, e))
    BY <1>8, <1>16 DEF Tree, Back
  <2> QED BY <1>2, <1>6, <1>7, <1>15, <2>1 DEF Linked
<1>20. \A k \in 1 .. F : k < F => frames'[k + 1].seat = frames[k + 1].seat
  BY <1>12
<1>21. Walks'
  BY <1>0, <1>1, <1>5, <1>6, <1>8, <1>13, <1>14, <1>17, <1>18, <1>19, <1>20 DEF Walks
<1> QED BY <1>7, <1>9, <1>10, <1>21 DEF OrderIInv


LEMMA VisitRelevantStep == OrderIInv /\ VisitRelevant => OrderIInv'
<1> SUFFICES ASSUME OrderIInv, VisitRelevant PROVE OrderIInv'
  OBVIOUS
<1>1. PICK s \in pending :
        /\ pending' = pending \ {s}
        /\ IF seatTag[s] # 0 THEN UNCHANGED <<tag, seatTag, stack, frames>> ELSE Enter(s, <<>>)
  BY DEF VisitRelevant
<1>2. frames = <<>> /\ UNCHANGED <<graph, roots, comp>>
  BY DEF VisitRelevant
<1>3. Types
  BY DEF OrderIInv
<1>4. pending' \subseteq roots /\ s \in roots
  BY <1>1, <1>3 DEF Types
<1>5. CASE seatTag[s] # 0
  BY <1>1, <1>2, <1>4, <1>5, Unmoved
<1>6. CASE seatTag[s] = 0
  <2>1. s \in Abstract!Reachable
    BY <1>3, <1>4, ReachableClosed
  <2>2. Len(frames) = 0 /\ <<>> \in Seq(FrameSet) /\ Len(<<>>) = 0
    BY <1>2
  <2>3. \A k : k \notin 1 .. Len(frames)
    BY <2>2
  <2>4. Enter(s, <<>>)
    BY <1>1, <1>6
  <2> QED BY <1>2, <1>4, <1>6, <2>1, <2>2, <2>3, <2>4, Entering
<1> QED BY <1>5, <1>6

LEMMA VisitAlternativeStep == OrderIInv /\ VisitAlternative => OrderIInv'
<1> SUFFICES ASSUME OrderIInv, VisitAlternative PROVE OrderIInv'
  OBVIOUS
<1>1. frames # <<>> /\ Top.at = 0 /\ UNCHANGED <<graph, roots, pending, comp>>
  BY DEF VisitAlternative
<1>2. PICK a \in Top.todo :
        LET f == [Top EXCEPT !.todo = @ \ {a}] IN
        IF seatTag[a] # 0
        THEN SetTop([f EXCEPT !.min = Least(@, seatTag[a])]) /\ UNCHANGED <<tag, seatTag, stack>>
        ELSE Enter(a, Append(Below, f))
  BY DEF VisitAlternative
<1>3. Types /\ Shape /\ Reached
  BY DEF OrderIInv
<1>4. CASE seatTag[a] # 0
  <2>1. /\ SetTop([[Top EXCEPT !.todo = @ \ {a}] EXCEPT !.min = Least(@, seatTag[a])])
        /\ UNCHANGED <<tag, seatTag, stack>>
    BY <1>2, <1>4
  <2>2. [[Top EXCEPT !.todo = @ \ {a}] EXCEPT !.min = Least(@, seatTag[a])]
          = [Top EXCEPT !.todo = @ \ {a}, !.min = Least(@, seatTag[a])]
    OBVIOUS
  <2> QED BY <1>1, <1>4, <2>1, <2>2, Looked
<1>5. CASE seatTag[a] = 0
  <2> DEFINE f == [Top EXCEPT !.todo = @ \ {a}]
             b == Append(Below, f)
  <2>1. Enter(a, b)
    BY <1>2, <1>5
  <2>2. PICK F, N : F = Len(frames) /\ N = Len(stack)
    OBVIOUS
  <2>3. /\ F \in Nat \ {0} /\ F \in 1 .. F /\ Top = frames[F] /\ frames[F] \in FrameSet
        /\ frames[F].pos \in 1 .. N /\ stack[frames[F].pos] = frames[F].seat
        /\ frames[F].todo \subseteq graph[frames[F].seat]
    <3>1. F \in Nat \ {0}
      BY <1>1, <1>3, <2>2, Regions
    <3>2. F > 0 /\ F \in 1 .. F
      BY <3>1
    <3>3. frames[F].todo \subseteq graph[frames[F].seat]
      BY <1>3, <2>2, <3>2 DEF Shape
    <3> QED BY <1>3, <2>2, <3>1, <3>2, <3>3, Regions DEF Top
  <2>4. /\ f \in FrameSet /\ f.seat = frames[F].seat /\ f.pos = frames[F].pos /\ f.at = frames[F].at
        /\ f.min = frames[F].min /\ f.todo = frames[F].todo \ {a}
    BY <2>3 DEF FrameSet
  <2>5. /\ b \in Seq(FrameSet) /\ Len(b) = F
        /\ \A k \in 1 .. F - 1 : b[k] = frames[k]
        /\ b[F] = f
    <3>1. b = Append(SubSeq(frames, 1, Len(frames) - 1), f)
      BY DEF Below
    <3>2. frames \in Seq(FrameSet)
      BY <1>3 DEF Types
    <3> HIDE DEF f, b
    <3> QED BY <1>1, <2>2, <2>4, <3>1, <3>2, TopSet
  <2> HIDE DEF f, b
  <2>6. \A k \in 1 .. F : SameFrame(b[k], frames[k]) /\ b[k].todo \subseteq frames[k].todo
    <3> SUFFICES ASSUME NEW k \in 1 .. F
                 PROVE  SameFrame(b[k], frames[k]) /\ b[k].todo \subseteq frames[k].todo
      OBVIOUS
    <3>1. k = F \/ k \in 1 .. F - 1
      BY <2>3
    <3> QED BY <2>4, <2>5, <3>1 DEF SameFrame
  <2>7. \A k \in 1 .. F : frames[k].todo \subseteq b[k].todo \/
             (k = F /\ frames[k].todo \subseteq b[k].todo \union {a})
    <3> SUFFICES ASSUME NEW k \in 1 .. F
                 PROVE  frames[k].todo \subseteq b[k].todo \/
                           (k = F /\ frames[k].todo \subseteq b[k].todo \union {a})
      OBVIOUS
    <3>1. k = F \/ k \in 1 .. F - 1
      BY <2>3
    <3> QED BY <2>4, <2>5, <3>1
  <2>8. a \in graph[frames[F].seat] /\ Open(F)
    BY <1>1, <1>2, <2>3 DEF Open
  <2>9. a \in Abstract!Reachable
    BY <1>3, <2>2, <2>3, <2>8, ReachableClosed DEF Reached
  <2>10. pending' \subseteq roots
    BY <1>1, <1>3 DEF Types
  <2> QED BY <1>1, <1>5, <2>1, <2>2, <2>5, <2>6, <2>7, <2>8, <2>9, <2>10, Entering
<1> QED BY <1>4, <1>5


LEMMA VisitAgainStep == OrderIInv /\ VisitAgain => OrderIInv'
<1> SUFFICES ASSUME OrderIInv, VisitAgain PROVE OrderIInv'
  OBVIOUS
<1>0. PICK F, N : F = Len(frames) /\ N = Len(stack)
  OBVIOUS
<1>1. Types /\ Shape /\ Tags /\ Reached /\ Walks /\ Rooms
  BY DEF OrderIInv
<1>2. /\ F \in Nat \ {0} /\ N \in Nat /\ F \in 1 .. F /\ Top = frames[F]
      /\ \A k \in 1 .. F :
              /\ frames[k] \in FrameSet /\ frames[k].seat \in Seats
              /\ End(k) \in 1 .. N /\ frames[k].pos \in 1 .. End(k) /\ frames[k].pos \in 1 .. N
              /\ Region(k) = frames[k].pos .. End(k) /\ Region(k) \subseteq 1 .. N
              /\ frames[k].pos \in Region(k) /\ stack[frames[k].pos] = frames[k].seat
              /\ SeatsOf(k) \subseteq Seats
      /\ End(F) = N
  <2>1. F \in Nat \ {0}
    BY <1>0, <1>1, Regions DEF VisitAgain
  <2>2. F > 0 /\ F \in 1 .. F
    BY <2>1
  <2> QED BY <1>0, <1>1, <2>1, <2>2, Regions DEF Top
<1> DEFINE s == stack[frames[F].at]
<1>3. /\ frames[F].at \in 1 .. N /\ frames # <<>>
      /\ UNCHANGED <<graph, roots, pending, comp>>
      /\ CASE seatTag[s] = Done -> SetTop([Top EXCEPT !.at = @ + 1]) /\ UNCHANGED <<tag, seatTag, stack>>
           [] seatTag[s] = 0 -> Enter(s, frames)
           [] OTHER -> UNCHANGED <<tag, seatTag, stack, frames>>
  BY <1>0, <1>2 DEF VisitAgain
<1>4. ~Open(F) /\ Spent(F)
  <2>1. ~Open(F)
    BY <1>3 DEF Open
  <2> QED BY <1>0, <1>1, <1>2, <2>1 DEF Walks
<1>5. frames[F].at \in Region(F) /\ s \in SeatsOf(F)
  <2>1. frames[F].at \in Region(F)
    BY <1>2, <1>3, <1>4 DEF Spent
  <2> QED BY <2>1 DEF SeatsOf
<1>6. CASE seatTag[s] # Done /\ seatTag[s] # 0
  <2>1. pending' \subseteq roots
    BY <1>1, <1>3 DEF Types
  <2> QED BY <1>3, <1>6, <2>1, Unmoved
<1>7. CASE seatTag[s] = 0
  <2>1. Enter(s, frames)
    BY <1>3, <1>7 DEF Done
  <2>2. s \in Abstract!Reachable
    BY <1>0, <1>1, <1>3 DEF Reached
  <2>3. frames \in Seq(FrameSet) /\ pending' \subseteq roots
    BY <1>1, <1>3 DEF Types
  <2>4. \A k \in 1 .. F : SameFrame(frames[k], frames[k]) /\ frames[k].todo \subseteq frames[k].todo
    BY DEF SameFrame
  <2> HIDE DEF s
  <2> QED BY <1>0, <1>3, <1>4, <1>5, <1>7, <2>1, <2>2, <2>3, <2>4, Entering
<1>8. CASE seatTag[s] = Done
  <2> DEFINE f == [frames[F] EXCEPT !.at = @ + 1]
  <2>1. SetTop(f) /\ UNCHANGED <<tag, seatTag, stack>>
    <3>1. SetTop([Top EXCEPT !.at = @ + 1]) /\ UNCHANGED <<tag, seatTag, stack>>
      <4> HIDE DEF s
      <4>1. seatTag[s] # 0
        BY <1>8 DEF Done
      <4> QED BY <1>3, <1>8, <4>1
    <3> QED BY <1>2, <3>1
  <2>2. /\ f \in FrameSet /\ f.seat = frames[F].seat /\ f.pos = frames[F].pos /\ f.at = frames[F].at + 1
        /\ f.min = frames[F].min /\ f.todo = frames[F].todo
    BY <1>2 DEF FrameSet
  <2>3. /\ frames' \in Seq(FrameSet) /\ Len(frames') = F
        /\ \A k \in 1 .. F - 1 : frames'[k] = frames[k]
        /\ frames'[F] = f
    <3>1. frames' = Append(SubSeq(frames, 1, Len(frames) - 1), f)
      BY <2>1 DEF SetTop, Below
    <3>2. frames \in Seq(FrameSet)
      BY <1>1 DEF Types
    <3> HIDE DEF f
    <3> QED BY <1>0, <1>3, <2>2, <3>1, <3>2, TopSet
  <2> HIDE DEF f
  <2>4. \A k \in 1 .. F : /\ frames'[k].seat = frames[k].seat
                          /\ frames'[k].pos = frames[k].pos
                          /\ frames'[k].min = frames[k].min
                          /\ frames'[k].min >= 1
                          /\ frames'[k].todo = frames[k].todo
                          /\ (Open(k)' <=> Open(k))
                          /\ k # F => frames'[k].at = frames[k].at
    <3> SUFFICES ASSUME NEW k \in 1 .. F
                 PROVE  /\ frames'[k].seat = frames[k].seat
                        /\ frames'[k].pos = frames[k].pos
                        /\ frames'[k].min = frames[k].min
                        /\ frames'[k].min >= 1
                        /\ frames'[k].todo = frames[k].todo
                        /\ (Open(k)' <=> Open(k))
                        /\ k # F => frames'[k].at = frames[k].at
      OBVIOUS
    <3>1. k = F \/ k \in 1 .. F - 1
      BY <1>2
    <3>2. frames[k].min >= 1
      BY <1>0, <1>1 DEF Shape
    <3>3. f.at # 0 /\ frames[F].at # 0
      BY <1>3, <2>2
    <3> QED BY <2>2, <2>3, <3>1, <3>2, <3>3 DEF Open
  <2>5. /\ Shape'
        /\ \A k \in 1 .. F : End(k)' = End(k) /\ Region(k)' = Region(k) /\ SeatsOf(k)' = SeatsOf(k)
    BY <1>0, <1>1, <1>3, <2>1, <2>3, <2>4, SameRegions
  <2>6. \A p : Live(p)' <=> Live(p)
    BY <1>0, <2>3, <2>4, <2>5 DEF Live
  <2>7. Types' /\ Tags'
    BY <1>1, <1>3, <2>1, <2>3, <2>6 DEF Types, Tags
  <2>8. Reached' /\ Rooms'
    <3>1. Abstract!Reachable' = Abstract!Reachable
      BY <1>3, SameReachable
    <3> QED BY <1>0, <1>1, <2>1, <2>3, <2>4, <2>5, <3>1 DEF Reached, Rooms
  <2>9. \A k \in 1 .. F : Stays(k)
    BY <1>0, <1>3, <2>1, <2>3, <2>4, <2>5 DEF Stays
  <2>10. \A k \in 1 .. F : k < F => k + 1 \in 1 .. F
    BY <1>2
  <2>11. ASSUME NEW k \in 1 .. F, Open(k)
         PROVE  Explored(k)' /\ Lowest(k)' /\ Linked(k)'
    <3>1. \A p \in 1 .. End(k) : Live(p) => Live(p)' /\ seatTag'[stack[p]] = seatTag[stack[p]]
      BY <2>1, <2>6
    <3>2. End(k) <= Len(stack)' /\ Len(stack)' \in Nat
      BY <1>0, <1>2, <2>1
    <3>3. \A t \in frames[k].todo \union (IF k < Len(frames) THEN {frames[k + 1].seat} ELSE {}) :
            \/ t \in frames'[k].todo
            \/ k < Len(frames') /\ t = frames'[k + 1].seat
      BY <1>0, <2>3, <2>4, <2>10
    <3> QED BY <2>9, <2>11, <3>1, <3>2, <3>3, OpenStays
  <2>12. ASSUME NEW k \in 1 .. F, ~Open(k)
         PROVE  Spent(k)'
    <3>1. \/ frames'[k].at = frames[k].at
          \/ /\ frames'[k].at = frames[k].at + 1
             /\ frames[k].at <= End(k) /\ seatTag[stack[frames[k].at]] = Done
      BY <1>2, <1>3, <1>8, <2>2, <2>3, <2>4
    <3>2. \A p \in End(k) + 1 .. Len(stack)' : stack'[p] \in SeatsOf(k)
      BY <1>0, <1>1, <2>1, <2>12 DEF Walks, Spent
    <3>3. k > 1 /\ Open(k - 1)' => Open(k - 1) /\ frames'[k - 1].seat = frames[k - 1].seat
                                    /\ seatTag'[frames[k - 1].seat] = seatTag[frames[k - 1].seat]
      <4>1. k > 1 => k - 1 \in 1 .. F
        BY <1>2
      <4> QED BY <2>1, <2>4, <4>1
    <3> QED BY <2>6, <2>9, <2>12, <3>1, <3>2, <3>3, SpentStays
  <2>13. \A k \in 1 .. F : Open(k) /\ k < F => frames'[k + 1].seat \in graph[frames'[k].seat]
    BY <1>0, <1>1, <2>4, <2>10 DEF Walks
  <2>14. Walks'
    BY <1>3, <2>3, <2>4, <2>11, <2>12, <2>13 DEF Walks
  <2> QED BY <2>5, <2>7, <2>8, <2>14 DEF OrderIInv
<1> QED BY <1>6, <1>7, <1>8


-----------------------------------------------------------------------------
(***************************************************************************)
(* Returning                                                               *)
(***************************************************************************)
LEMMA Returned ==
  ASSUME Types, frames # <<>>, NEW m \in Nat, Return(m), NEW F, F = Len(frames)
  PROVE  /\ F \in Nat \ {0}
         /\ frames' \in Seq(FrameSet) /\ Len(frames') = F - 1
         /\ \A k \in 1 .. F - 2 : frames'[k] = frames[k]
         /\ F > 1 => /\ frames'[F - 1].seat = frames[F - 1].seat
                     /\ frames'[F - 1].pos = frames[F - 1].pos
                     /\ frames'[F - 1].todo = frames[F - 1].todo
                     /\ frames'[F - 1].at = frames[F - 1].at
                     /\ frames'[F - 1].min = IF frames[F - 1].at = 0 THEN Least(frames[F - 1].min, m)
                                                                   ELSE frames[F - 1].min
<1>1. F \in Nat \ {0} /\ frames \in Seq(FrameSet)
  BY EmptySeq DEF Types
<1>2. CASE F < 2
  <2>1. F = 1
    BY <1>1, <1>2
  <2>2. frames' = <<>>
    BY <1>2 DEF Return
  <2>3. frames' \in Seq(FrameSet) /\ Len(frames') = 0
    BY <2>2
  <2> QED BY <2>1, <2>3
<1>3. CASE ~(F < 2)
  <2>1. F - 1 \in 1 .. F /\ F - 1 \in 0 .. F /\ F > 1
    BY <1>1, <1>3
  <2> DEFINE B == SubSeq(frames, 1, Len(frames) - 1)
             g == B[Len(B)]
             M == IF g.at = 0 THEN Least(g.min, m) ELSE g.min
  <2>2. frames' = [B EXCEPT ![Len(B)].min = M]
    BY <1>3 DEF Return, Below
  <2>3. B \in Seq(FrameSet) /\ Len(B) = F - 1 /\ \A k \in 1 .. F - 1 : B[k] = frames[k]
    BY <1>1, <2>1, Cut
  <2> HIDE DEF B
  <2>4. g = frames[F - 1] /\ g \in FrameSet
    <3>1. F - 1 \in 1 .. F - 1
      BY <2>1
    <3> QED BY <1>1, <2>1, <2>3, <3>1
  <2> HIDE DEF g
  <2>5. M \in Nat /\ M = IF frames[F - 1].at = 0 THEN Least(frames[F - 1].min, m) ELSE frames[F - 1].min
    BY <2>4 DEF Least, FrameSet
  <2> HIDE DEF M
  <2>6. frames' = [B EXCEPT ![F - 1] = [B[F - 1] EXCEPT !.min = M]]
    BY <2>2, <2>3
  <2> DEFINE h == [B[F - 1] EXCEPT !.min = M]
  <2>7. /\ h \in FrameSet /\ h.seat = frames[F - 1].seat /\ h.pos = frames[F - 1].pos
        /\ h.todo = frames[F - 1].todo /\ h.at = frames[F - 1].at /\ h.min = M
    <3>1. B[F - 1] = frames[F - 1] /\ frames[F - 1] \in FrameSet
      BY <2>1, <2>3, <2>4
    <3> QED BY <2>5, <3>1 DEF FrameSet
  <2> HIDE DEF h
  <2>8. frames' = [B EXCEPT ![F - 1] = h]
    BY <2>6 DEF h
  <2>9. /\ frames' \in Seq(FrameSet) /\ Len(frames') = F - 1 /\ frames'[F - 1] = h
        /\ \A k \in 1 .. F - 2 : frames'[k] = B[k]
    <3>1. \A k \in 1 .. F - 2 : k \in 1 .. F - 1 /\ k # F - 1
      BY <2>1
    <3> QED BY <2>1, <2>3, <2>7, <2>8, <3>1
  <2>10. \A k \in 1 .. F - 2 : k \in 1 .. F - 1
    BY <2>1
  <2> QED BY <1>1, <2>3, <2>5, <2>7, <2>9, <2>10
<1> QED BY <1>1, <1>2, <1>3

LEMMA LeaveStep == OrderIInv /\ Leave => OrderIInv'
<1> SUFFICES ASSUME OrderIInv, Leave PROVE OrderIInv'
  OBVIOUS
<1>0. PICK F, N : F = Len(frames) /\ N = Len(stack)
  OBVIOUS
<1>1. Types /\ Shape /\ Tags /\ Reached /\ Walks /\ Rooms
  BY DEF OrderIInv
<1>2. /\ F \in Nat \ {0} /\ N \in Nat /\ F \in 1 .. F /\ Top = frames[F]
      /\ \A k \in 1 .. F :
              /\ frames[k] \in FrameSet /\ frames[k].seat \in Seats
              /\ End(k) \in 1 .. N /\ frames[k].pos \in 1 .. End(k) /\ frames[k].pos \in 1 .. N
              /\ Region(k) = frames[k].pos .. End(k) /\ Region(k) \subseteq 1 .. N
              /\ frames[k].pos \in Region(k) /\ stack[frames[k].pos] = frames[k].seat
              /\ SeatsOf(k) \subseteq Seats
      /\ End(F) = N
      /\ \A k \in 1 .. F - 1 : End(k) = frames[k + 1].pos - 1
  <2>1. F \in Nat \ {0}
    BY <1>0, <1>1, Regions DEF Leave
  <2>2. F > 0 /\ F \in 1 .. F
    BY <2>1
  <2> QED BY <1>0, <1>1, <2>1, <2>2, Regions DEF Top
<1>3. /\ frames # <<>> /\ frames[F].at > N /\ Return(frames[F].min)
      /\ stack' = SubSeq(stack, 1, frames[F].pos - 1)
      /\ UNCHANGED <<graph, roots, pending, tag, seatTag, comp>>
  BY <1>0, <1>2 DEF Leave
<1> DEFINE L == frames[F].pos - 1
<1>4. /\ L \in 0 .. N /\ L < N
      /\ stack' \in Seq(Seats) /\ Len(stack') = L
      /\ \A p \in 1 .. L : stack'[p] = stack[p] /\ p \in 1 .. N
  <2>1. L \in 0 .. N /\ L < N
    BY <1>2
  <2>2. \A p \in 1 .. L : p \in 1 .. N
    BY <2>1, <1>2
  <2>3. stack \in Seq(Seats)
    BY <1>1 DEF Types
  <2> QED BY <1>0, <1>3, <2>1, <2>2, <2>3, Cut
<1>5. ~Open(F) /\ Spent(F)
  <2>1. ~Open(F)
    BY <1>2, <1>3 DEF Open
  <2> QED BY <1>0, <1>1, <1>2, <2>1 DEF Walks
<1>6. \A p \in Region(F) : seatTag[stack[p]] = Done
  <2>1. frames[F].at = N + 1
    BY <1>2, <1>3, <1>5 DEF Spent
  <2>2. N + 1 - 1 = N
    BY <1>2
  <2> QED BY <1>2, <1>5, <2>1, <2>2 DEF Spent
<1>7. /\ F - 1 \in Nat /\ \A k \in 1 .. F - 1 : k \in 1 .. F /\ k < F
      /\ \A k \in 1 .. F : k = F \/ k \in 1 .. F - 1
      /\ \A k \in 1 .. F - 1 : k = F - 1 \/ k \in 1 .. F - 2
  BY <1>2
<1>8. /\ frames' \in Seq(FrameSet) /\ Len(frames') = F - 1
      /\ \A k \in 1 .. F - 1 : /\ frames'[k].seat = frames[k].seat
                               /\ frames'[k].pos = frames[k].pos
                               /\ frames'[k].min = frames[k].min
                               /\ frames'[k].todo = frames[k].todo
                               /\ frames'[k].at = frames[k].at
  <2>0. frames[F].min \in Nat
    BY <1>2 DEF FrameSet
  <2>1. /\ frames' \in Seq(FrameSet) /\ Len(frames') = F - 1
        /\ \A k \in 1 .. F - 2 : frames'[k] = frames[k]
        /\ F > 1 => /\ frames'[F - 1].seat = frames[F - 1].seat
                    /\ frames'[F - 1].pos = frames[F - 1].pos
                    /\ frames'[F - 1].todo = frames[F - 1].todo
                    /\ frames'[F - 1].at = frames[F - 1].at
                    /\ frames'[F - 1].min = IF frames[F - 1].at = 0
                                            THEN Least(frames[F - 1].min, frames[F].min)
                                            ELSE frames[F - 1].min
    BY <1>0, <1>1, <1>3, <2>0, Returned
  <2>2. ASSUME F > 1, frames[F - 1].at = 0
        PROVE  Least(frames[F - 1].min, frames[F].min) = frames[F - 1].min
    <3>1. F - 1 \in 1 .. F
      BY <1>2, <2>2
    <3>2. Open(F - 1) /\ frames[F].min > seatTag[frames[F - 1].seat]
      BY <1>5, <2>2 DEF Spent, Open
    <3>3. frames[F - 1].min <= seatTag[frames[F - 1].seat]
      BY <1>0, <1>1, <3>1, <3>2 DEF Walks, Lowest
    <3>4. seatTag[frames[F - 1].seat] \in Int /\ frames[F - 1].min \in Nat
      <4>1. frames[F - 1] \in FrameSet /\ frames[F - 1].seat \in Seats
        BY <1>2, <3>1
      <4>2. frames[F - 1].min \in Nat
        BY <4>1 DEF FrameSet
      <4> QED BY <1>1, <4>1, <4>2 DEF Types, Done
    <3> QED BY <2>0, <3>2, <3>3, <3>4 DEF Least
  <2>3. \A k \in 1 .. F - 1 : k = F - 1 => F > 1
    BY <1>2
  <2> QED BY <1>7, <2>1, <2>2, <2>3
<1>9. \A k \in 1 .. F - 1 : End(k) \in 1 .. L /\ End(k)' = End(k) /\ Region(k)' = Region(k) /\ (Open(k)' <=> Open(k))
  <2> SUFFICES ASSUME NEW k \in 1 .. F - 1
               PROVE  End(k) \in 1 .. L /\ End(k)' = End(k) /\ Region(k)' = Region(k) /\ (Open(k)' <=> Open(k))
    OBVIOUS
  <2>1. End(k) = frames[k + 1].pos - 1 /\ k \in 1 .. F /\ k < F
    BY <1>2, <1>7
  <2>2. End(k) < frames[F].pos
    BY <1>0, <1>1, <1>2, <2>1 DEF Shape
  <2>3. End(k) \in 1 .. L
    BY <1>2, <2>1, <2>2
  <2>4. End(k)' = End(k)
    <3>1. CASE k = F - 1
      BY <1>2, <1>4, <1>8, <2>1, <3>1 DEF End
    <3>2. CASE k # F - 1
      <4>1. k + 1 \in 1 .. F - 1
        BY <1>2, <2>1, <3>2
      <4> QED BY <1>8, <2>1, <3>2, <4>1 DEF End
    <3> QED BY <3>1, <3>2
  <2> QED BY <1>8, <2>3, <2>4 DEF Region, Open
<1>10. \A p \in 1 .. L : \E k \in 1 .. F - 1 : p \in Region(k)
  <2> SUFFICES ASSUME NEW p \in 1 .. L PROVE \E k \in 1 .. F - 1 : p \in Region(k)
    OBVIOUS
  <2>1. PICK k \in 1 .. F : p \in Region(k)
    BY <1>0, <1>1, <1>4 DEF Shape
  <2>2. k # F
    BY <1>2, <2>1
  <2> QED BY <1>7, <2>1, <2>2
<1>11. \A p : Live(p)' <=> Live(p)
  BY <1>0, <1>5, <1>7, <1>8, <1>9 DEF Live
<1>12. \A p \in 1 .. N : Live(p) => p \in 1 .. L
  <2> SUFFICES ASSUME NEW p \in 1 .. N, Live(p) PROVE p \in 1 .. L
    OBVIOUS
  <2>1. PICK k \in 1 .. F : Open(k) /\ p \in Region(k)
    BY <1>0 DEF Live
  <2>2. k \in 1 .. F - 1
    BY <1>5, <1>7, <2>1
  <2>3. p <= End(k) /\ End(k) \in 1 .. L
    BY <1>2, <1>9, <2>1, <2>2
  <2> QED BY <1>4, <2>3
<1>13. Types'
  BY <1>1, <1>3, <1>4, <1>8 DEF Types
<1>14. Shape'
  <2>1. ASSUME NEW k \in 1 .. F - 1
        PROVE  /\ frames'[k].pos \in 1 .. End(k)' /\ End(k)' \in 1 .. L
               /\ stack'[frames'[k].pos] = frames'[k].seat
               /\ frames'[k].min >= 1
               /\ frames'[k].todo \subseteq graph'[frames'[k].seat]
    <3>1. k \in 1 .. F
      BY <1>7
    <3>2. /\ frames[k].pos \in 1 .. End(k) /\ End(k) \in 1 .. L
          /\ stack[frames[k].pos] = frames[k].seat
          /\ frames[k].min >= 1
          /\ frames[k].todo \subseteq graph[frames[k].seat]
      BY <1>0, <1>1, <1>9, <3>1 DEF Shape
    <3>3. frames[k].pos \in 1 .. L
      BY <1>4, <3>2
    <3> QED BY <1>3, <1>4, <1>8, <1>9, <3>2, <3>3
  <2>2. \A j, k \in 1 .. F - 1 : j < k => End(j)' < frames'[k].pos
    <3>1. \A j, k \in 1 .. F : j < k => End(j) < frames[k].pos
      BY <1>0, <1>1 DEF Shape
    <3> QED BY <1>7, <1>8, <1>9, <3>1
  <2>3. \A p \in 1 .. L : \E k \in 1 .. F - 1 : p \in Region(k)'
    BY <1>9, <1>10
  <2>4. frames' = <<>> => stack' = <<>>
    <3> SUFFICES ASSUME frames' = <<>> PROVE stack' = <<>>
      OBVIOUS
    <3>1. Len(frames') = 0
      OBVIOUS
    <3>2. F = 1
      BY <1>2, <1>8, <3>1
    <3>3. L = 0
      BY <1>0, <1>1, <1>3, <3>2 DEF Shape
    <3> QED BY <1>4, <3>3, EmptySeq
  <2>5. frames' # <<>> => frames'[1].pos = 1
    <3> SUFFICES ASSUME frames' # <<>> PROVE frames'[1].pos = 1
      OBVIOUS
    <3>1. F - 1 # 0
      BY <1>8, EmptySeq
    <3>2. 1 \in 1 .. F - 1
      BY <1>2, <3>1
    <3> QED BY <1>1, <1>3, <1>8, <3>2 DEF Shape
  <2> QED BY <1>4, <1>8, <2>1, <2>2, <2>3, <2>4, <2>5 DEF Shape
<1>15. Tags'
  <2>1. \A p \in 1 .. L : Live(p)' => seatTag[stack'[p]] \in 1 .. tag
    BY <1>0, <1>1, <1>4, <1>11 DEF Tags
  <2>2. \A p, q \in 1 .. L : Live(p)' /\ Live(q)' /\ p < q => seatTag[stack'[p]] < seatTag[stack'[q]]
    BY <1>0, <1>1, <1>4, <1>11 DEF Tags
  <2>3. \A t \in Seats : seatTag[t] > 0 => \E p \in 1 .. L : Live(p)' /\ stack'[p] = t
    BY <1>0, <1>1, <1>4, <1>11, <1>12 DEF Tags
  <2> QED BY <1>3, <1>4, <2>1, <2>2, <2>3 DEF Tags
<1>16. Reached' /\ Rooms'
  <2>1. Abstract!Reachable' = Abstract!Reachable
    BY <1>3, SameReachable
  <2> QED BY <1>0, <1>1, <1>4, <1>7, <1>8, <1>9, <2>1 DEF Reached, Rooms
<1>17. \A k \in 1 .. F - 1 : Stays(k)
  <2> SUFFICES ASSUME NEW k \in 1 .. F - 1 PROVE Stays(k)
    OBVIOUS
  <2>1. \A p \in 1 .. End(k) : p \in 1 .. L
    BY <1>4, <1>9
  <2> QED BY <1>0, <1>3, <1>4, <1>7, <1>8, <1>9, <2>1 DEF Stays
<1>18. ASSUME NEW k \in 1 .. F - 1, Open(k)
       PROVE  Explored(k)' /\ Lowest(k)' /\ Linked(k)'
  <2>1. \A p \in 1 .. End(k) : Live(p) => Live(p)' /\ seatTag'[stack[p]] = seatTag[stack[p]]
    BY <1>3, <1>11
  <2>2. End(k) <= Len(stack)' /\ Len(stack)' \in Nat
    BY <1>4, <1>9
  <2>3. \A t \in frames[k].todo \union (IF k < Len(frames) THEN {frames[k + 1].seat} ELSE {}) :
          \/ t \in frames'[k].todo
          \/ k < Len(frames') /\ t = frames'[k + 1].seat
          \/ seatTag'[t] = Done
    <3>1. CASE k = F - 1
      <4>1. k + 1 = F
        BY <1>2, <3>1
      <4>2. seatTag'[frames[F].seat] = Done
        BY <1>2, <1>3, <1>6
      <4> QED BY <1>0, <1>8, <4>1, <4>2
    <3>2. CASE k # F - 1
      <4>1. k + 1 \in 1 .. F - 1 /\ k < F - 1
        BY <1>2, <3>2
      <4> QED BY <1>8, <4>1
    <3> QED BY <3>1, <3>2
  <2> QED BY <1>17, <1>18, <2>1, <2>2, <2>3, OpenStays
<1>19. ASSUME NEW k \in 1 .. F - 1, ~Open(k)
       PROVE  Spent(k)'
  <2>1. \A p \in End(k) + 1 .. Len(stack)' : stack'[p] \in SeatsOf(k)
    <3>1. \A p \in End(k) + 1 .. L : p \in End(k) + 1 .. N /\ p \in 1 .. L
      BY <1>2, <1>4, <1>9
    <3> QED BY <1>0, <1>1, <1>4, <1>7, <1>19, <3>1 DEF Walks, Spent
  <2>2. k > 1 /\ Open(k - 1)' => Open(k - 1) /\ frames'[k - 1].seat = frames[k - 1].seat
                                  /\ seatTag'[frames[k - 1].seat] = seatTag[frames[k - 1].seat]
    <3>1. k > 1 => k - 1 \in 1 .. F - 1
      BY <1>2
    <3> QED BY <1>3, <1>8, <1>9, <3>1
  <2> QED BY <1>8, <1>11, <1>17, <1>19, <2>1, <2>2, SpentStays
<1>20. \A k \in 1 .. F - 1 : Open(k) /\ k < F - 1 => frames'[k + 1].seat \in graph[frames'[k].seat]
  <2>1. \A k \in 1 .. F - 1 : k < F - 1 => k + 1 \in 1 .. F - 1
    BY <1>2
  <2> QED BY <1>0, <1>1, <1>7, <1>8, <2>1 DEF Walks
<1>21. Walks'
  BY <1>3, <1>8, <1>9, <1>18, <1>19, <1>20 DEF Walks
<1> QED BY <1>13, <1>14, <1>15, <1>16, <1>21 DEF OrderIInv


LEMMA ReturnInnerStep == OrderIInv /\ ReturnInner => OrderIInv'
<1> SUFFICES ASSUME OrderIInv, ReturnInner PROVE OrderIInv'
  OBVIOUS
<1>0. PICK F, N : F = Len(frames) /\ N = Len(stack)
  OBVIOUS
<1>1. Types /\ Shape /\ Tags /\ Reached /\ Walks /\ Rooms
  BY DEF OrderIInv
<1>2. /\ F \in Nat \ {0} /\ N \in Nat /\ F \in 1 .. F /\ Top = frames[F]
      /\ \A k \in 1 .. F :
              /\ frames[k] \in FrameSet /\ frames[k].seat \in Seats
              /\ End(k) \in 1 .. N /\ frames[k].pos \in 1 .. End(k) /\ frames[k].pos \in 1 .. N
              /\ Region(k) = frames[k].pos .. End(k) /\ Region(k) \subseteq 1 .. N
              /\ frames[k].pos \in Region(k) /\ stack[frames[k].pos] = frames[k].seat
              /\ SeatsOf(k) \subseteq Seats
      /\ End(F) = N
      /\ \A k \in 1 .. F - 1 : End(k) = frames[k + 1].pos - 1
  <2>1. F \in Nat \ {0}
    BY <1>0, <1>1, Regions DEF ReturnInner
  <2>2. F > 0 /\ F \in 1 .. F
    BY <2>1
  <2> QED BY <1>0, <1>1, <2>1, <2>2, Regions DEF Top
<1> DEFINE m == frames[F].min
           G == F - 1
<1>3. /\ frames # <<>> /\ Open(F) /\ frames[F].todo = {}
      /\ m # seatTag[frames[F].seat] /\ Return(m)
      /\ UNCHANGED <<graph, roots, pending, tag, seatTag, stack, comp>>
  BY <1>0, <1>2 DEF ReturnInner, Open
<1>4. Explored(F) /\ Lowest(F) /\ Linked(F) /\ m \in Nat /\ m >= 1 /\ seatTag[frames[F].seat] \in Int
  <2>1. Explored(F) /\ Lowest(F) /\ Linked(F)
    BY <1>0, <1>1, <1>2, <1>3 DEF Walks
  <2>2. frames[F] \in FrameSet /\ frames[F].seat \in Seats
    BY <1>2
  <2>3. m \in Nat
    BY <2>2 DEF FrameSet
  <2>4. m >= 1
    BY <1>0, <1>1, <1>2 DEF Shape
  <2>5. seatTag[frames[F].seat] \in Int
    BY <1>1, <2>2 DEF Types, Done
  <2> QED BY <2>1, <2>3, <2>4, <2>5
<1>5. PICK p \in Region(F), r \in 1 .. N : Live(r) /\ Edge(p, r) /\ seatTag[stack[r]] = m
  <2>1. m < seatTag[frames[F].seat]
    BY <1>3, <1>4 DEF Lowest
  <2> QED BY <1>0, <1>4, <2>1 DEF Lowest
<1>6. r < frames[F].pos
  <2>1. Live(frames[F].pos)
    BY <1>0, <1>2, <1>3 DEF Live
  <2>2. seatTag[stack[r]] < seatTag[stack[frames[F].pos]]
    BY <1>2, <1>3, <1>4, <1>5 DEF Lowest
  <2> QED BY <1>0, <1>1, <1>2, <1>5, <2>1, <2>2, LiveOnce
<1>7. F > 1 /\ G \in 1 .. F /\ G < F /\ G \in 1 .. F - 1 /\ G + 1 = F
  <2>1. PICK k \in 1 .. F : r \in Region(k)
    BY <1>0, <1>5 DEF Live
  <2>2. k # F
    BY <1>2, <1>6, <2>1
  <2>3. F > 1
    BY <1>2, <2>2
  <2> QED BY <1>2, <2>3
<1>8. End(G) = frames[F].pos - 1
  BY <1>2, <1>7
<1>9. Open(G)
  <2> SUFFICES ASSUME ~Open(G) PROVE FALSE
    OBVIOUS
  <2>1. Spent(G)
    BY <1>0, <1>1, <1>7 DEF Walks
  <2>2. p \in End(G) + 1 .. N /\ p \in 1 .. N
    BY <1>2, <1>5, <1>7, <1>8
  <2>3. stack[p] \in SeatsOf(G)
    BY <1>0, <2>1, <2>2 DEF Spent
  <2>4. PICK p2 \in Region(G) : stack[p2] = stack[p]
    BY <2>3 DEF SeatsOf
  <2>5. stack[r] \in graph[stack[p2]] /\ seatTag[stack[r]] # Done
    BY <1>0, <1>1, <1>4, <1>5, <2>4 DEF Edge, Done
  <2>6. stack[r] \in SeatsOf(G)
    BY <2>1, <2>5 DEF Spent
  <2>7. PICK p3 \in Region(G) : stack[p3] = stack[r]
    BY <2>6 DEF SeatsOf
  <2>8. r > End(G)
    BY <1>0, <1>5, <2>1, <2>7 DEF Spent
  <2> QED BY <1>2, <1>6, <1>8, <2>8
<1> DEFINE M == Least(frames[G].min, m)
<1>10. /\ M \in Nat /\ M >= 1 /\ M <= frames[G].min /\ M <= m
       /\ M = frames[G].min \/ M = m
  <2>1. frames[G].min \in Nat /\ frames[G].min >= 1
    BY <1>0, <1>1, <1>2, <1>7 DEF FrameSet, Shape
  <2> QED BY <1>4, <2>1 DEF Least
<1>11. /\ frames' \in Seq(FrameSet) /\ Len(frames') = G
       /\ \A k \in 1 .. F - 2 : frames'[k] = frames[k]
       /\ frames'[G].seat = frames[G].seat
       /\ frames'[G].pos = frames[G].pos
       /\ frames'[G].todo = frames[G].todo
       /\ frames'[G].at = 0
       /\ frames'[G].min = M
  <2>1. frames[G].at = 0
    BY <1>9 DEF Open
  <2> QED BY <1>0, <1>1, <1>3, <1>4, <1>7, <2>1, Returned
<1> HIDE DEF M
<1>12. /\ \A k \in 1 .. F - 2 : k \in 1 .. F - 1 /\ k \in 1 .. F /\ k < G /\ k + 1 \in 1 .. F - 1
       /\ \A k \in 1 .. G : k \in 1 .. F /\ (k = G \/ k \in 1 .. F - 2)
       /\ \A k \in 1 .. F : k = F \/ k \in 1 .. G
  BY <1>2
<1>13. \A k \in 1 .. G : frames'[k].seat = frames[k].seat /\ frames'[k].pos = frames[k].pos
                         /\ frames'[k].todo = frames[k].todo /\ frames'[k].at = frames[k].at
  BY <1>9, <1>11, <1>12 DEF Open
<1>14. \A k \in 1 .. F - 2 : End(k)' = End(k) /\ Region(k)' = Region(k)
  <2> SUFFICES ASSUME NEW k \in 1 .. F - 2 PROVE End(k)' = End(k) /\ Region(k)' = Region(k)
    OBVIOUS
  <2>1. End(k) = frames[k + 1].pos - 1 /\ k # Len(frames')
    <3>1. k \in 1 .. F - 1 /\ k < G
      BY <1>12
    <3>2. End(k) = frames[k + 1].pos - 1
      BY <1>2, <3>1
    <3>3. k # Len(frames')
      BY <1>2, <1>11, <3>1
    <3> QED BY <3>2, <3>3
  <2>2. End(k)' = End(k)
    BY <1>11, <1>12, <1>13, <2>1 DEF End
  <2> QED BY <1>12, <1>13, <2>2 DEF Region
<1>15. \A k : k = G => End(k)' = N /\ Region(k)' = frames[G].pos .. N
  BY <1>0, <1>3, <1>11 DEF End, Region
<1>16. /\ frames[G].pos .. N = Region(G) \union Region(F)
       /\ frames[G].pos \in 1 .. N /\ End(G) < frames[F].pos
  <2>1. frames[G].pos \in 1 .. End(G) /\ Region(G) = frames[G].pos .. End(G) /\ Region(F) = frames[F].pos .. N
        /\ End(G) \in 1 .. N /\ frames[F].pos \in 1 .. N
    BY <1>2, <1>7
  <2>2. N \in Nat
    BY <1>2
  <2>3. ASSUME NEW x PROVE x \in frames[G].pos .. N <=> x \in Region(G) \/ x \in Region(F)
    <3>1. frames[G].pos .. N \subseteq Int /\ Region(G) \subseteq Int /\ Region(F) \subseteq Int
      BY <2>1, <2>2
    <3>2. CASE x \in Int
      BY <1>8, <2>1, <2>2, <3>2
    <3> QED BY <3>1, <3>2
  <2>4. End(G) < frames[F].pos /\ frames[G].pos \in 1 .. N
    BY <1>8, <2>1, <2>2
  <2> QED BY <2>3, <2>4
<1>17. \A k \in 1 .. G : Open(k)' <=> Open(k)
  BY <1>13 DEF Open
<1>18. \A x : Live(x)' <=> Live(x)
  <2> SUFFICES ASSUME NEW x PROVE Live(x)' <=> Live(x)
    OBVIOUS
  <2>1. Live(x)' <=> \E k \in 1 .. G : Open(k) /\ x \in Region(k)'
    BY <1>11, <1>17 DEF Live
  <2>2. Live(x) <=> \E k \in 1 .. F : Open(k) /\ x \in Region(k)
    BY <1>0 DEF Live
  <2>3. ASSUME Live(x)' PROVE Live(x)
    <3>1. PICK k \in 1 .. G : Open(k) /\ x \in Region(k)'
      BY <2>1, <2>3
    <3>2. CASE k = G
      BY <1>3, <1>2, <1>7, <1>9, <1>15, <1>16, <2>2, <3>1, <3>2
    <3>3. CASE k \in 1 .. F - 2
      BY <1>12, <1>14, <2>2, <3>1, <3>3
    <3> QED BY <1>12, <3>2, <3>3
  <2>4. ASSUME Live(x) PROVE Live(x)'
    <3>1. PICK k \in 1 .. F : Open(k) /\ x \in Region(k)
      BY <2>2, <2>4
    <3>2. CASE k = G \/ k = F
      <4>1. G \in 1 .. G
        BY <1>7
      <4> QED BY <1>9, <1>15, <1>16, <2>1, <3>1, <3>2, <4>1
    <3>3. CASE k \in 1 .. F - 2
      <4>1. k \in 1 .. G
        BY <1>12, <3>3
      <4> QED BY <1>14, <2>1, <3>1, <3>3, <4>1
    <3> QED BY <1>12, <3>2, <3>3
  <2> QED BY <2>3, <2>4
<1>19. Types' /\ Tags'
  BY <1>1, <1>3, <1>11, <1>18 DEF Types, Tags
<1>20. Reached' /\ Rooms'
  <2>1. Abstract!Reachable' = Abstract!Reachable
    BY <1>3, SameReachable
  <2>2. Reached'
    BY <1>1, <1>3, <2>1 DEF Reached
  <2>3. ASSUME NEW k \in 1 .. G, ~Open(k)'
        PROVE  LET n == Cardinality(Abstract!Reachable)
                   c == End(k)' - frames'[k].pos + 1
               IN 2 * End(k)' + (c - 1) * c <= n * (n + 1)
    <3>1. k \in 1 .. F - 2 /\ k \in 1 .. F /\ ~Open(k)
      BY <1>9, <1>12, <1>17, <2>3
    <3>2. End(k)' = End(k) /\ frames'[k].pos = frames[k].pos
      BY <1>13, <1>14, <3>1
    <3> QED BY <1>0, <1>1, <3>1, <3>2 DEF Rooms
  <2> QED BY <1>11, <2>1, <2>2, <2>3 DEF Rooms
<1>21. Shape'
  <2>1. ASSUME NEW k \in 1 .. G
        PROVE  /\ frames'[k].pos \in 1 .. End(k)' /\ End(k)' \in 1 .. N
               /\ stack[frames'[k].pos] = frames'[k].seat
               /\ frames'[k].min >= 1
               /\ frames'[k].todo \subseteq graph[frames'[k].seat]
    <3>1. k \in 1 .. F
      BY <1>12
    <3>2. /\ frames[k].pos \in 1 .. End(k) /\ End(k) \in 1 .. N
          /\ stack[frames[k].pos] = frames[k].seat
          /\ frames[k].min >= 1
          /\ frames[k].todo \subseteq graph[frames[k].seat]
      BY <1>0, <1>1, <3>1 DEF Shape
    <3>3. CASE k = G
      <4>1. N \in 1 .. N
        BY <1>2, <1>16
      <4> QED BY <1>10, <1>11, <1>15, <1>16, <3>2, <3>3, <4>1
    <3>4. CASE k \in 1 .. F - 2
      BY <1>11, <1>13, <1>14, <3>2, <3>4
    <3> QED BY <1>12, <3>3, <3>4
  <2>2. \A j, k \in 1 .. G : j < k => End(j)' < frames'[k].pos
    <3> SUFFICES ASSUME NEW j \in 1 .. G, NEW k \in 1 .. G, j < k PROVE End(j)' < frames'[k].pos
      OBVIOUS
    <3>1. j \in 1 .. F - 2
      BY <1>2
    <3>2. j \in 1 .. F /\ k \in 1 .. F
      BY <1>12
    <3>3. End(j) < frames[k].pos
      BY <1>0, <1>1, <3>2 DEF Shape
    <3> QED BY <1>13, <1>14, <3>1, <3>3
  <2>3. \A x \in 1 .. N : \E k \in 1 .. G : x \in Region(k)'
    <3> SUFFICES ASSUME NEW x \in 1 .. N PROVE \E k \in 1 .. G : x \in Region(k)'
      OBVIOUS
    <3>1. PICK k \in 1 .. F : x \in Region(k)
      BY <1>0, <1>1 DEF Shape
    <3>2. CASE k = G \/ k = F
      <4>1. G \in 1 .. G
        BY <1>7
      <4> QED BY <1>15, <1>16, <3>1, <3>2, <4>1
    <3>3. CASE k \in 1 .. F - 2
      <4>1. k \in 1 .. G
        BY <1>12, <3>3
      <4> QED BY <1>14, <3>1, <3>3, <4>1
    <3> QED BY <1>12, <3>2, <3>3
  <2>4. Len(frames') # 0 /\ 1 \in 1 .. G
    BY <1>7, <1>11
  <2>5. frames' # <<>> /\ frames'[1].pos = 1
    BY <1>1, <1>3, <1>11, <1>13, <2>4, EmptySeq DEF Shape
  <2> QED BY <1>0, <1>3, <1>11, <2>1, <2>2, <2>3, <2>5 DEF Shape
<1>22. \A k \in 1 .. F - 2 : Stays(k)
  BY <1>0, <1>3, <1>11, <1>12, <1>14 DEF Stays
<1>23. ASSUME NEW k \in 1 .. F - 2, Open(k)
       PROVE  Explored(k)' /\ Lowest(k)' /\ Linked(k)'
  <2>1. \A x \in 1 .. End(k) : Live(x) => Live(x)' /\ seatTag'[stack[x]] = seatTag[stack[x]]
    BY <1>3, <1>18
  <2>2. End(k) <= Len(stack)' /\ Len(stack)' \in Nat
    <3>1. Len(stack)' = N /\ N \in Nat
      BY <1>0, <1>2, <1>3
    <3>2. k \in 1 .. F
      BY <1>12
    <3>3. End(k) \in 1 .. N
      BY <1>2, <3>2
    <3>4. End(k) <= N
      BY <3>1, <3>3
    <3> QED BY <3>1, <3>4
  <2>3. \A t \in frames[k].todo \union (IF k < Len(frames) THEN {frames[k + 1].seat} ELSE {}) :
          \/ t \in frames'[k].todo
          \/ k < Len(frames') /\ t = frames'[k + 1].seat
    BY <1>11, <1>12, <1>13
  <2> QED BY <1>22, <1>23, <2>1, <2>2, <2>3, OpenStays
<1>24. ASSUME NEW k \in 1 .. F - 2, ~Open(k)
       PROVE  Spent(k)'
  <2>1. \A x \in End(k) + 1 .. Len(stack)' : stack'[x] \in SeatsOf(k)
    BY <1>0, <1>1, <1>3, <1>12, <1>24 DEF Walks, Spent
  <2>2. k > 1 /\ Open(k - 1)' => Open(k - 1) /\ frames'[k - 1].seat = frames[k - 1].seat
                                  /\ seatTag'[frames[k - 1].seat] = seatTag[frames[k - 1].seat]
    <3>1. k > 1 => k - 1 \in 1 .. G
      BY <1>2
    <3> QED BY <1>3, <1>13, <1>17, <3>1
  <2> QED BY <1>11, <1>18, <1>22, <1>24, <2>1, <2>2, SpentStays
<1>25. Explored(G) /\ Lowest(G) /\ Linked(G) /\ frames[F].seat \in graph[frames[G].seat]
  BY <1>0, <1>1, <1>7, <1>9 DEF Walks
<1>26. \A x, y : Edge(x, y)' <=> Edge(x, y)
  BY <1>3 DEF Edge
<1>27. \A x \in 1 .. N : stack[x] \in Seats /\ graph[stack[x]] \subseteq Seats
  BY <1>0, <1>1 DEF Types
<1>28. \A t \in Seats : seatTag[t] \in Int
  BY <1>1 DEF Types, Done
<1>29. ASSUME NEW k, k = G
       PROVE  Explored(k)'
  <2> SUFFICES ASSUME NEW x \in frames[G].pos .. N, NEW t \in graph[stack[x]]
               PROVE  \/ x = frames[G].pos /\ t \in frames[G].todo
                      \/ seatTag[t] = Done
                      \/ seatTag[t] >= M /\ \E y \in 1 .. N : Live(y) /\ stack[y] = t
    <3>1. Region(k)' = frames[G].pos .. N /\ End(k)' = N
      BY <1>15, <1>29
    <3>2. /\ frames'[k].pos = frames[G].pos /\ frames'[k].todo = frames[G].todo /\ frames'[k].min = M
          /\ graph' = graph /\ stack' = stack /\ seatTag' = seatTag
      BY <1>3, <1>11, <1>29
    <3> QED BY <1>18, <3>1, <3>2 DEF Explored
  <2>1. x \in 1 .. N /\ seatTag[t] \in Int
    <3>1. x \in 1 .. N
      BY <1>2, <1>16
    <3> QED BY <1>27, <1>28, <3>1
  <2>2. CASE x \in Region(F)
    <3>1. \/ seatTag[t] = Done
          \/ seatTag[t] >= m /\ \E y \in 1 .. N : Live(y) /\ stack[y] = t
      <4>1. ~(F < Len(frames)) /\ End(F) = N /\ frames[F].todo = {}
        BY <1>0, <1>2, <1>3
      <4> QED BY <1>4, <2>2, <4>1 DEF Explored
    <3> QED BY <1>4, <1>10, <2>1, <3>1
  <2>3. CASE x \in Region(G)
    <3>1. CASE t = frames[F].seat
      <4>1. Live(frames[F].pos) /\ stack[frames[F].pos] = t
        BY <1>0, <1>2, <1>3, <3>1 DEF Live
      <4>2. seatTag[t] >= m
        BY <1>4, <2>1, <3>1 DEF Lowest
      <4> QED BY <1>2, <1>4, <1>10, <2>1, <4>1, <4>2
    <3>2. CASE seatTag[t] >= frames[G].min /\ \E y \in 1 .. End(G) : Live(y) /\ stack[y] = t
      <4>1. PICK y \in 1 .. End(G) : Live(y) /\ stack[y] = t
        BY <3>2
      <4>2. End(G) \in 1 .. N
        BY <1>2, <1>7
      <4>3. y \in 1 .. N
        BY <1>2, <4>2
      <4>4. frames[G].min \in Nat
        BY <1>2, <1>7 DEF FrameSet
      <4> QED BY <1>10, <2>1, <3>2, <4>1, <4>3, <4>4
    <3>3. \/ x = frames[G].pos /\ t \in frames[G].todo
          \/ x = frames[G].pos /\ G < F /\ t = frames[G + 1].seat
          \/ seatTag[t] = Done
          \/ seatTag[t] >= frames[G].min /\ \E y \in 1 .. End(G) : Live(y) /\ stack[y] = t
      BY <1>0, <1>25, <2>3 DEF Explored
    <3> QED BY <1>7, <3>1, <3>2, <3>3
  <2> QED BY <1>16, <2>2, <2>3
<1>30. ASSUME NEW k, k = G
       PROVE  Lowest(k)'
  <2>1. seatTag[frames[G].seat] \in Int /\ frames[G].min \in Nat
    BY <1>2, <1>7, <1>28 DEF FrameSet
  <2>2. M <= seatTag[frames[G].seat]
    BY <1>10, <1>25, <2>1 DEF Lowest
  <2>3. ASSUME M < seatTag[frames[G].seat]
        PROVE  \E x \in frames[G].pos .. N : \E y \in 1 .. N :
                 Live(y) /\ Edge(x, y) /\ seatTag[stack[y]] = M
    <3>1. CASE M = frames[G].min
      BY <1>0, <1>16, <1>25, <2>3, <3>1 DEF Lowest
    <3>2. CASE M = m
      BY <1>5, <1>16, <3>2
    <3> QED BY <1>10, <3>1, <3>2
  <2> QED BY <1>0, <1>3, <1>11, <1>15, <1>18, <1>26, <1>30, <2>2, <2>3 DEF Lowest
<1>31. ASSUME NEW k, k = G
       PROVE  Linked(k)'
  <2>1. \A x, e : (Tree(x, e)' <=> Tree(x, e)) /\ (Back(x, e)' <=> Back(x, e))
    BY <1>18, <1>26 DEF Tree, Back
  <2>2. /\ frames[F].pos \in 1 .. N /\ frames[G].pos \in 1 .. N /\ frames[G].pos < frames[F].pos
        /\ End(G) \in 1 .. N /\ frames[G].pos \in 1 .. End(G)
    BY <1>2, <1>7, <1>8
  <2>3. Tree(frames[F].pos, N) /\ Tree(frames[G].pos, End(G))
    BY <1>2, <1>4, <1>25 DEF Linked
  <2>4. Tree(frames[G].pos, N)
    <3> SUFFICES ASSUME NEW x \in frames[G].pos + 1 .. N
                 PROVE  \E y \in frames[G].pos .. x - 1 : Edge(y, x)
      BY DEF Tree
    <3>1. CASE x <= End(G)
      <4>1. x \in frames[G].pos + 1 .. End(G)
        BY <2>2, <3>1
      <4> QED BY <2>3, <4>1 DEF Tree
    <3>2. CASE x = frames[F].pos
      <4>1. Edge(frames[G].pos, x)
        BY <1>2, <1>7, <1>25, <3>2 DEF Edge
      <4>2. frames[G].pos \in frames[G].pos .. x - 1
        BY <2>2
      <4> QED BY <4>1, <4>2
    <3>3. CASE x > frames[F].pos
      <4>1. x \in frames[F].pos + 1 .. N
        BY <2>2, <3>3
      <4>2. PICK y \in frames[F].pos .. x - 1 : Edge(y, x)
        BY <2>3, <4>1 DEF Tree
      <4>3. y \in frames[G].pos .. x - 1
        BY <2>2, <4>2
      <4> QED BY <4>2, <4>3
    <3> QED BY <1>8, <2>2, <3>1, <3>2, <3>3
  <2>5. ASSUME NEW x \in frames[G].pos + 1 .. N
        PROVE  \E e \in x .. N : Tree(x, e) /\ Back(x, e)
    <3>1. CASE x <= End(G)
      <4>1. x \in frames[G].pos + 1 .. End(G)
        BY <2>2, <3>1
      <4>2. PICK e \in x .. End(G) : Tree(x, e) /\ Back(x, e)
        BY <1>25, <4>1 DEF Linked
      <4>3. e \in x .. N
        <5>1. N \in Nat /\ End(G) \in Nat /\ End(G) <= N /\ x \in Nat
          BY <1>2, <2>2
        <5> QED BY <4>2, <5>1
      <4> QED BY <4>2, <4>3
    <3>2. CASE x = frames[F].pos
      <4>1. Back(x, N)
        <5>1. p \in x .. N /\ r \in 1 .. x - 1
          BY <1>2, <1>5, <1>6, <3>2
        <5> QED BY <1>5, <5>1 DEF Back
      <4>2. N \in x .. N
        BY <1>2, <2>2, <3>2
      <4> QED BY <2>3, <3>2, <4>1, <4>2
    <3>3. CASE x > frames[F].pos
      <4>1. x \in frames[F].pos + 1 .. N
        BY <2>2, <3>3
      <4> QED BY <1>2, <1>4, <4>1 DEF Linked
    <3> QED BY <1>8, <2>2, <3>1, <3>2, <3>3
  <2> QED BY <1>11, <1>15, <1>31, <2>1, <2>4, <2>5 DEF Linked
<1>32. \A k \in 1 .. G : k < G => frames'[k + 1].seat = frames[k + 1].seat /\ k + 1 \in 1 .. F /\ k < F
  <2>1. \A k \in 1 .. G : k < G => k + 1 \in 1 .. G /\ k < F
    BY <1>2
  <2> QED BY <1>12, <1>13, <2>1
<1>33. Walks'
  <2> SUFFICES ASSUME NEW k \in 1 .. G
               PROVE  /\ Open(k)' => Explored(k)' /\ Lowest(k)' /\ Linked(k)'
                      /\ ~Open(k)' => Spent(k)'
                      /\ Open(k)' /\ k < G => frames'[k + 1].seat \in graph'[frames'[k].seat]
    BY <1>11 DEF Walks
  <2>1. Open(k)' /\ k < G => frames'[k + 1].seat \in graph'[frames'[k].seat]
    BY <1>0, <1>1, <1>3, <1>12, <1>13, <1>17, <1>32 DEF Walks
  <2>2. CASE k = G
    BY <1>9, <1>17, <1>29, <1>30, <1>31, <2>1, <2>2
  <2>3. CASE k \in 1 .. F - 2
    BY <1>17, <1>23, <1>24, <2>1, <2>3
  <2> QED BY <1>12, <2>2, <2>3
<1> QED BY <1>19, <1>20, <1>21, <1>33 DEF OrderIInv


-----------------------------------------------------------------------------
(***************************************************************************)
(* How much room there is on the stack                                     *)
(***************************************************************************)
LEMMA NatWellFounded == IsWellFoundedOn({ss \in Nat \X Nat : ss[1] < ss[2]}, Nat)
BY NatLessThanWellFounded DEF OpToRel

LEMMA NatMin ==
  ASSUME NEW T \in SUBSET Nat, T # {}
  PROVE  \E n \in T : \A m \in T : n <= m
<1> DEFINE R == {ss \in Nat \X Nat : ss[1] < ss[2]}
<1>1. IsWellFoundedOn(R, Nat)
  BY NatWellFounded
<1>2. \E x \in T : \A y \in T : ~(<<y, x>> \in R)
  <2> HIDE DEF R
  <2> QED BY <1>1, WFMin
<1>3. PICK x \in T : \A y \in T : ~(<<y, x>> \in R)
  BY <1>2
<1>4. ASSUME NEW y \in T PROVE x <= y
  <2>1. <<y, x>> \in Nat \X Nat /\ <<y, x>>[1] = y /\ <<y, x>>[2] = x
    OBVIOUS
  <2>2. ~(y < x)
    BY <1>3, <2>1
  <2> QED BY <2>1, <2>2
<1> QED BY <1>4

\* Places with different seats from a set are no more than that set has.
LEMMA Injected ==
  ASSUME NEW S, IsFiniteSet(S), NEW a \in Nat, NEW b \in Nat, a <= b,
         \A p \in a + 1 .. b : stack[p] \in S,
         \A p, q \in a + 1 .. b : stack[p] = stack[q] => p = q
  PROVE  Cardinality(S) \in Nat /\ b - a <= Cardinality(S)
<1> DEFINE f == [p \in a + 1 .. b |-> stack[p]]
<1>1. f \in Injection(a + 1 .. b, S)
  BY DEF Injection, IsInjective
<1>2. Cardinality(a + 1 .. b) <= Cardinality(S)
  <2> HIDE DEF f
  <2> QED BY <1>1, FS_Injection
<1>3. Cardinality(a + 1 .. b) = IF a + 1 > b THEN 0 ELSE b - (a + 1) + 1
  BY FS_Interval
<1>4. Cardinality(S) \in Nat
  BY FS_CardinalityType
<1> QED BY <1>2, <1>3, <1>4

LEMMA Covered ==
  ASSUME Types, Shape, NEW k \in 1 .. Len(frames)
  PROVE  /\ IsFiniteSet(SeatsOf(k)) /\ Cardinality(SeatsOf(k)) \in Nat
         /\ Cardinality(SeatsOf(k)) <= End(k) - frames[k].pos + 1
<1>1. /\ End(k) \in 1 .. Len(stack) /\ frames[k].pos \in 1 .. End(k) /\ Len(stack) \in Nat
      /\ Region(k) = frames[k].pos .. End(k)
  BY Regions
<1> DEFINE f == [p \in Region(k) |-> stack[p]]
<1>2. f \in Surjection(Region(k), SeatsOf(k))
  BY DEF Surjection, SeatsOf
<1>3. frames[k].pos \in Int /\ End(k) \in Int /\ frames[k].pos <= End(k)
  BY <1>1
<1>4. IsFiniteSet(Region(k)) /\ Cardinality(Region(k)) = End(k) - frames[k].pos + 1
  <2>1. /\ IsFiniteSet(frames[k].pos .. End(k))
        /\ Cardinality(frames[k].pos .. End(k)) = IF frames[k].pos > End(k) THEN 0 ELSE End(k) - frames[k].pos + 1
    BY <1>3, FS_Interval
  <2> QED BY <1>1, <1>3, <2>1
<1>5. IsFiniteSet(SeatsOf(k)) /\ Cardinality(SeatsOf(k)) <= Cardinality(Region(k))
  <2> HIDE DEF f
  <2> QED BY <1>2, <1>4, FS_Surjection
<1>6. Cardinality(SeatsOf(k)) \in Nat
  BY <1>5, FS_CardinalityType
<1> QED BY <1>4, <1>5, <1>6

LEMMA Triangle ==
  ASSUME NEW c \in Nat, NEW d \in Nat, c <= d
  PROVE  c * (c + 1) <= d * (d + 1)
<1>1. c * (c + 1) <= d * (c + 1)
  OBVIOUS
<1>2. d * (c + 1) <= d * (d + 1)
  OBVIOUS
<1>3. c * (c + 1) \in Nat /\ d * (c + 1) \in Nat /\ d * (d + 1) \in Nat
  OBVIOUS
<1> QED BY <1>1, <1>2, <1>3

LEMMA RoomArithmetic ==
  ASSUME NEW c \in Nat \ {0}, NEW l \in Nat, c <= l, NEW e \in Nat
  PROVE  2 * (e + l) + (c - 1) * c <= 2 * e + l * (l + 1)
<1>1. (c - 1) * (c - 1 + 1) <= (l - 1) * (l - 1 + 1)
  <2>1. c - 1 \in Nat /\ l - 1 \in Nat /\ c - 1 <= l - 1
    OBVIOUS
  <2> QED BY <2>1, Triangle
<1>2. c - 1 + 1 = c /\ l - 1 + 1 = l
  OBVIOUS
<1>3. (c - 1) * c <= (l - 1) * l
  BY <1>1, <1>2
<1>4. (l - 1) * l + 2 * l = l * (l + 1)
  OBVIOUS
<1>5. (c - 1) * c \in Int /\ (l - 1) * l \in Int /\ l * (l + 1) \in Int
  OBVIOUS
<1> QED BY <1>3, <1>4, <1>5

LEMMA ReachableFinite ==
  ASSUME Types
  PROVE  IsFiniteSet(Abstract!Reachable) /\ Cardinality(Abstract!Reachable) \in Nat
<1>1. Abstract!Reachable \in SUBSET Seats
  BY ReachableClosed
<1>2. IsFiniteSet(Abstract!Reachable)
  BY <1>1, OrderAssumption, FS_Subset
<1> QED BY <1>2, FS_CardinalityType

\* The places above the last component that is visited again are live, so their
\* seats are different, and none of them is the one that is done.
LEMMA RoomForComp ==
  ASSUME OrderIInv, NEW F, F = Len(frames), NEW N, N = Len(stack), frames # <<>>, Open(F)
  PROVE  LET n == Cardinality(Abstract!Reachable)
             c == N - frames[F].pos + 1
         IN 2 * N + (c - 1) * c <= n * (n + 1)
<1>1. Types /\ Shape /\ Tags /\ Reached /\ Walks /\ Rooms
  BY DEF OrderIInv
<1>2. /\ F \in Nat \ {0} /\ N \in Nat /\ F \in 1 .. F
      /\ \A k \in 1 .. F :
              /\ End(k) \in 1 .. N /\ frames[k].pos \in 1 .. End(k) /\ frames[k].pos \in 1 .. N
              /\ Region(k) = frames[k].pos .. End(k) /\ Region(k) \subseteq 1 .. N
      /\ End(F) = N
  <2>1. F \in Nat \ {0}
    BY <1>1, Regions
  <2>2. F > 0 /\ F \in 1 .. F
    BY <2>1
  <2> QED BY <1>1, <2>1, <2>2, Regions
<1> DEFINE n == Cardinality(Abstract!Reachable)
           c == N - frames[F].pos + 1
<1>3. n \in Nat /\ IsFiniteSet(Abstract!Reachable)
  BY <1>1, ReachableFinite
<1>4. c \in Nat \ {0} /\ frames[F].pos \in 1 .. N
  BY <1>2
<1> HIDE DEF n
<1>5. CASE \A j \in 1 .. F : Open(j)
  <2>1. \A p \in 0 + 1 .. N : p \in 1 .. N /\ Live(p)
    <3>1. \A p \in 0 + 1 .. N : p \in 1 .. N
      BY <1>2
    <3>2. \A p \in 1 .. N : \E k \in 1 .. F : p \in Region(k)
      BY <1>1 DEF Shape
    <3> QED BY <1>5, <3>1, <3>2 DEF Live
  <2>2. \A p, q \in 0 + 1 .. N : stack[p] = stack[q] => p = q
    BY <1>1, <2>1, LiveOnce
  <2>3. \A p \in 0 + 1 .. N : stack[p] \in Abstract!Reachable
    BY <1>1, <2>1 DEF Reached
  <2>4. N - 0 <= n
    <3>1. 0 \in Nat /\ 0 <= N
      BY <1>2
    <3> QED BY <1>2, <1>3, <2>2, <2>3, <3>1, Injected DEF n
  <2>5. N <= n /\ c <= N
    BY <1>2, <1>3, <1>4, <2>4
  <2>6. 2 * (0 + N) + (c - 1) * c <= 2 * 0 + N * (N + 1)
    <3> HIDE DEF c
    <3> QED BY <1>2, <1>4, <2>5, RoomArithmetic
  <2>7. N * (N + 1) <= n * (n + 1)
    BY <1>2, <1>3, <2>5, Triangle
  <2>8. 0 + N = N /\ 2 * 0 + N * (N + 1) = N * (N + 1) /\ N * (N + 1) \in Int /\ n * (n + 1) \in Int
        /\ 2 * N + (c - 1) * c \in Int
    <3> HIDE DEF c
    <3> QED BY <1>2, <1>3, <1>4
  <2>9. 2 * N + (c - 1) * c <= n * (n + 1)
    <3> HIDE DEF c
    <3> QED BY <2>6, <2>7, <2>8
  <2> QED BY <2>9 DEF n
<1>6. CASE ~\A j \in 1 .. F : Open(j)
  <2> DEFINE T == {x \in Nat : \E j \in 1 .. F : ~Open(j) /\ x = F - j}
  <2>1. PICK x \in T : \A y \in T : x <= y
    <3>1. T # {}
      <4>1. PICK j \in 1 .. F : ~Open(j)
        BY <1>6
      <4>2. F - j \in Nat
        BY <1>2
      <4> QED BY <4>1, <4>2
    <3>2. T \in SUBSET Nat
      OBVIOUS
    <3> HIDE DEF T
    <3> QED BY <3>1, <3>2, NatMin
  <2>2. PICK j \in 1 .. F : ~Open(j) /\ x = F - j
    BY <2>1
  <2>3. \A i \in 1 .. F : j < i => Open(i)
    <3> SUFFICES ASSUME NEW i \in 1 .. F, j < i, ~Open(i) PROVE FALSE
      OBVIOUS
    <3>1. F - i \in T
      <4>1. F - i \in Nat
        <5>1. F \in Nat
          BY <1>2
        <5> QED BY <5>1
      <4> QED BY <4>1
    <3>2. x <= F - i
      BY <2>1, <3>1
    <3> QED BY <1>2, <2>2, <3>2
  <2>4. j < F /\ Spent(j)
    BY <1>1, <1>2, <2>2 DEF Walks
  <2> DEFINE e == End(j)
             l == N - e
             cj == e - frames[j].pos + 1
  <2>5. /\ e \in 1 .. N /\ e \in Nat /\ l \in Nat /\ cj \in Nat \ {0} /\ frames[j].pos \in 1 .. e
        /\ e + l = N
    BY <1>2
  <2>6. e < frames[F].pos
    BY <1>1, <1>2, <2>4 DEF Shape
  <2>7. c <= l
    BY <1>2, <1>4, <2>5, <2>6
  <2>8. \A p \in e + 1 .. N : p \in 1 .. N /\ Live(p)
    <3> SUFFICES ASSUME NEW p \in e + 1 .. N PROVE p \in 1 .. N /\ Live(p)
      OBVIOUS
    <3>1. p \in 1 .. N /\ e < p
      BY <1>2, <2>5
    <3>2. PICK k \in 1 .. F : p \in Region(k)
      BY <1>1, <3>1 DEF Shape
    <3>3. p <= End(k)
      BY <1>2, <3>2
    <3>4. ~(k < j)
      <4>1. k < j => End(k) < frames[j].pos
        BY <1>1 DEF Shape
      <4> QED BY <1>2, <2>5, <3>1, <3>3, <4>1
    <3>5. k # j
      BY <1>2, <3>1, <3>3
    <3>6. j < k
      BY <1>2, <3>4, <3>5
    <3> QED BY <2>3, <3>1, <3>2, <3>6 DEF Live
  <2>9. PICK i \in Region(j) : seatTag[stack[i]] = Done
    BY <2>4 DEF Spent
  <2> DEFINE S == SeatsOf(j) \ {stack[i]}
  <2>10. \A p \in e + 1 .. N : stack[p] \in S
    <3>1. \A p \in e + 1 .. N : seatTag[stack[p]] # Done
      BY <1>1, <2>8, LiveOnce
    <3>2. \A p \in e + 1 .. N : stack[p] \in SeatsOf(j)
      BY <2>4 DEF Spent
    <3> QED BY <2>9, <3>1, <3>2
  <2>11. \A p, q \in e + 1 .. N : stack[p] = stack[q] => p = q
    BY <1>1, <2>8, LiveOnce
  <2>12. IsFiniteSet(S) /\ Cardinality(S) \in Nat /\ Cardinality(S) + 1 <= cj
    <3>1. /\ IsFiniteSet(SeatsOf(j)) /\ Cardinality(SeatsOf(j)) \in Nat
          /\ Cardinality(SeatsOf(j)) <= cj
      BY <1>1, Covered
    <3>2. stack[i] \in SeatsOf(j)
      BY <2>9 DEF SeatsOf
    <3>3. IsFiniteSet(S) /\ Cardinality(S) = Cardinality(SeatsOf(j)) - 1
      BY <3>1, <3>2, FS_RemoveElement
    <3>4. Cardinality(S) \in Nat
      BY <3>3, FS_CardinalityType
    <3> HIDE DEF S, cj
    <3> QED BY <2>5, <3>1, <3>3, <3>4
  <2>13. l <= Cardinality(S)
    <3>1. e <= N
      BY <2>5, <1>2
    <3> HIDE DEF e, S
    <3> QED BY <1>2, <2>5, <2>10, <2>11, <2>12, <3>1, Injected
  <2> HIDE DEF S, e, c, cj, l
  <2>14. l <= cj - 1 /\ cj - 1 \in Nat
    BY <2>5, <2>12, <2>13
  <2>15. 2 * (e + l) + (c - 1) * c <= 2 * e + l * (l + 1)
    BY <1>4, <2>5, <2>7, RoomArithmetic
  <2>16. l * (l + 1) <= (cj - 1) * (cj - 1 + 1)
    BY <2>5, <2>14, Triangle
  <2>17. 2 * e + (cj - 1) * cj <= n * (n + 1)
    BY <1>1, <2>2 DEF Rooms, n, e, cj
  <2>18. cj - 1 + 1 = cj
    BY <2>5
  <2>19. /\ 2 * (e + l) + (c - 1) * c \in Int /\ l * (l + 1) \in Int /\ (cj - 1) * cj \in Int
         /\ n * (n + 1) \in Int /\ 2 * e \in Int
    BY <1>3, <1>4, <2>5
  <2>20. l * (l + 1) <= (cj - 1) * cj
    BY <2>16, <2>18
  <2>21. 2 * (e + l) + (c - 1) * c <= n * (n + 1)
    BY <2>15, <2>17, <2>19, <2>20
  <2> QED BY <2>5, <2>21 DEF n, c
<1> QED BY <1>5, <1>6


-----------------------------------------------------------------------------
(***************************************************************************)
(* A component is complete                                                 *)
(***************************************************************************)
Complete(F) ==
  /\ frames # <<>> /\ F = Len(frames) /\ Open(F) /\ frames[F].todo = {}
  /\ frames[F].min = seatTag[frames[F].seat]

LEMMA CompClosed ==
  ASSUME OrderIInv, NEW F, Complete(F)
  PROVE  /\ F \in 1 .. F /\ Top = frames[F]
         /\ Region(F) = frames[F].pos .. Len(stack) /\ frames[F].pos \in 1 .. Len(stack)
         /\ \A p \in Region(F) : /\ p \in 1 .. Len(stack) /\ Live(p) /\ stack[p] \in Seats
                                 /\ seatTag[stack[p]] > 0 /\ seatTag[stack[p]] # Done
         /\ \A p \in Region(F) : \A t \in graph[stack[p]] : seatTag[t] = Done \/ t \in SeatsOf(F)
         /\ OnStack(frames[F].pos) = SeatsOf(F)
<1>0. PICK N : N = Len(stack)
  OBVIOUS
<1>1. Types /\ Shape /\ Tags /\ Walks
  BY DEF OrderIInv
<1>2. /\ frames # <<>> /\ F = Len(frames) /\ Open(F) /\ frames[F].todo = {}
      /\ frames[F].min = seatTag[frames[F].seat]
  BY DEF Complete
<1>3. /\ F \in Nat \ {0} /\ N \in Nat /\ F \in 1 .. F
      /\ frames[F].pos \in Region(F) /\ frames[F].pos \in 1 .. N /\ stack[frames[F].pos] = frames[F].seat
      /\ Region(F) = frames[F].pos .. N /\ Region(F) \subseteq 1 .. N /\ End(F) = N
  <2>1. F \in Nat \ {0}
    BY <1>1, <1>2, Regions
  <2>2. F > 0 /\ F \in 1 .. F
    BY <2>1
  <2> QED BY <1>0, <1>1, <1>2, <2>1, <2>2, Regions
<1>4. \A p \in Region(F) : p \in 1 .. N /\ Live(p) /\ stack[p] \in Seats
  BY <1>0, <1>1, <1>2, <1>3 DEF Live, Types
<1>5. \A p \in Region(F) : seatTag[stack[p]] > 0 /\ seatTag[stack[p]] # Done
  <2> SUFFICES ASSUME NEW p \in Region(F) PROVE seatTag[stack[p]] > 0 /\ seatTag[stack[p]] # Done
    OBVIOUS
  <2>1. seatTag[stack[p]] \in 1 .. tag /\ seatTag[stack[p]] # Done
    BY <1>0, <1>1, <1>4, LiveOnce
  <2> QED BY <1>1, <2>1 DEF Types
<1>6. ASSUME NEW p \in Region(F), NEW t \in graph[stack[p]]
      PROVE  seatTag[t] = Done \/ t \in SeatsOf(F)
  <2>1. Explored(F)
    BY <1>1, <1>2, <1>3 DEF Walks
  <2>2. ~(F < Len(frames))
    BY <1>2, <1>3
  <2>3. \/ seatTag[t] = Done
        \/ seatTag[t] >= frames[F].min /\ \E r \in 1 .. N : Live(r) /\ stack[r] = t
    BY <1>2, <1>3, <2>1, <2>2 DEF Explored
  <2>4. ASSUME seatTag[t] >= frames[F].min, NEW r \in 1 .. N, Live(r), stack[r] = t
        PROVE  t \in SeatsOf(F)
    <3>1. ~(seatTag[stack[r]] < seatTag[stack[frames[F].pos]])
      <4>1. seatTag[stack[r]] \in 1 .. tag /\ seatTag[stack[frames[F].pos]] \in 1 .. tag
        BY <1>0, <1>1, <1>3, <1>4, <2>4 DEF Tags
      <4>2. tag \in Nat
        BY <1>1 DEF Types
      <4> QED BY <1>2, <1>3, <2>4, <4>1, <4>2
    <3>2. ~(r < frames[F].pos)
      BY <1>0, <1>1, <1>3, <1>4, <2>4, <3>1, LiveOnce
    <3>3. r \in Region(F)
      BY <1>3, <3>2
    <3> QED BY <2>4, <3>3 DEF SeatsOf
  <2> QED BY <2>3, <2>4
<1>7. OnStack(frames[F].pos) = SeatsOf(F)
  BY <1>0, <1>3 DEF OnStack, SeatsOf
<1> QED BY <1>0, <1>2, <1>3, <1>4, <1>5, <1>6, <1>7 DEF Top

\* A set that has p and whatever can be reached from it has what is above p.
LEMMA TreeClosed ==
  ASSUME NEW p \in Nat, NEW e \in Nat, Tree(p, e), NEW P, p \in P,
         \A y, x \in p .. e : y \in P /\ Edge(y, x) => x \in P
  PROVE  p .. e \subseteq P
<1> DEFINE T == {x \in p .. e : x \notin P}
<1> SUFFICES ASSUME T # {} PROVE FALSE
  OBVIOUS
<1>1. T \in SUBSET Nat
  OBVIOUS
<1>2. PICK x \in T : \A y \in T : x <= y
  <2> HIDE DEF T
  <2> QED BY <1>1, NatMin
<1>3. x \in p .. e /\ x \notin P /\ x \in p + 1 .. e
  <2>1. x \in p .. e /\ x \notin P /\ x # p
    BY <1>2
  <2> QED BY <2>1
<1>4. PICK y \in p .. x - 1 : Edge(y, x)
  BY <1>3 DEF Tree
<1>5. y \in p .. e /\ y < x
  BY <1>3, <1>4
<1>6. y \in P
  <2> SUFFICES ASSUME y \notin P PROVE FALSE
    OBVIOUS
  <2>1. y \in T
    BY <1>5
  <2>2. x <= y
    BY <1>2, <2>1
  <2> QED BY <1>3, <1>5, <2>2
<1> QED BY <1>3, <1>4, <1>5, <1>6

\* From the lowest place of a set that one cannot leave, one would get below it,
\* unless that is the place where the component begins.
LEMMA CompConnected ==
  ASSUME OrderIInv, NEW F, Complete(F)
  PROVE  Abstract!StronglyConnected(SeatsOf(F))
<1> DEFINE C == SeatsOf(F)
<1> SUFFICES ASSUME NEW S \in SUBSET C, S # {}, S # C, \A s \in S : graph[s] \intersect (C \ S) = {}
             PROVE  FALSE
  BY DEF Abstract!StronglyConnected
<1>0. PICK N : N = Len(stack)
  OBVIOUS
<1>1. Types /\ Shape /\ Tags /\ Walks
  BY DEF OrderIInv
<1>2. /\ F \in 1 .. F /\ F = Len(frames) /\ Open(F) /\ N \in Nat
      /\ Region(F) = frames[F].pos .. N /\ frames[F].pos \in 1 .. N /\ End(F) = N
      /\ \A p \in Region(F) : p \in 1 .. N /\ Live(p) /\ seatTag[stack[p]] # Done
      /\ \A p \in Region(F) : \A t \in graph[stack[p]] : seatTag[t] = Done \/ t \in C
  <2>1. F \in 1 .. F /\ F = Len(frames) /\ Open(F)
    BY CompClosed DEF Complete
  <2>2. N \in Nat /\ End(F) = N
    BY <1>0, <1>1, <2>1, Regions
  <2> QED BY <1>0, <2>1, <2>2, CompClosed
<1>3. Linked(F)
  BY <1>1, <1>2 DEF Walks
<1> DEFINE P == {p \in Region(F) : stack[p] \in S}
<1>4. P # {} /\ P \in SUBSET Nat
  <2>1. P # {}
    BY DEF SeatsOf
  <2>2. Region(F) \subseteq Nat
    BY <1>2
  <2> QED BY <2>1, <2>2
<1>5. \A y, x \in Region(F) : y \in P /\ Edge(y, x) => x \in P
  BY DEF Edge, SeatsOf
<1>6. PICK p \in P : \A q \in P : p <= q
  <2> HIDE DEF P
  <2> QED BY <1>4, NatMin
<1>7. p \in frames[F].pos .. N /\ p \in Nat
  BY <1>2, <1>6
<1>8. \A e \in p .. N : Tree(p, e) => p .. e \subseteq P
  <2> SUFFICES ASSUME NEW e \in p .. N, Tree(p, e) PROVE p .. e \subseteq P
    OBVIOUS
  <2>1. p .. e \subseteq Region(F) /\ e \in Nat
    BY <1>2, <1>7
  <2> HIDE DEF P
  <2> QED BY <1>5, <1>6, <1>7, <2>1, TreeClosed
<1>9. p = frames[F].pos
  <2> SUFFICES ASSUME p # frames[F].pos PROVE FALSE
    OBVIOUS
  <2>1. p \in frames[F].pos + 1 .. N
    BY <1>2, <1>7
  <2>2. PICK e \in p .. N : Tree(p, e) /\ Back(p, e)
    BY <1>2, <1>3, <2>1 DEF Linked
  <2>3. PICK q \in p .. e, r \in 1 .. p - 1 : Live(r) /\ Edge(q, r)
    BY <2>2 DEF Back
  <2>4. q \in P
    BY <1>8, <2>2, <2>3
  <2>5. r \in 1 .. N /\ r < p
    BY <1>2, <1>7, <2>3
  <2>6. q \in Region(F) /\ stack[q] \in S /\ stack[r] \in graph[stack[q]]
    BY <2>3, <2>4 DEF Edge
  <2>7. seatTag[stack[r]] # Done
    BY <1>0, <1>1, <2>3, <2>5, LiveOnce
  <2>8. stack[r] \in C
    BY <1>2, <2>6, <2>7
  <2>9. stack[r] \in S
    BY <2>6, <2>8
  <2>10. PICK x \in Region(F) : stack[x] = stack[r]
    BY <2>8 DEF SeatsOf
  <2>11. x = r
    BY <1>0, <1>1, <1>2, <2>3, <2>5, <2>10, LiveOnce
  <2>12. r \in P
    BY <2>9, <2>10, <2>11
  <2>13. p <= r
    BY <1>6, <2>12
  <2> QED BY <1>7, <2>5, <2>13
<1>10. Region(F) \subseteq P
  <2>1. Tree(p, N) /\ N \in p .. N
    BY <1>2, <1>3, <1>7, <1>9 DEF Linked
  <2> QED BY <1>2, <1>8, <1>9, <2>1
<1>11. C \subseteq S
  BY <1>10 DEF SeatsOf
<1> QED BY <1>11

\* The visitor is called with what alg.h promises.
LEMMA CompIsNext ==
  ASSUME OrderIInv, NEW F, Complete(F)
  PROVE  Abstract!IsNext(SeatsOf(F)) /\ SeatsOf(F) \subseteq Seats
<1>1. Abstract!StronglyConnected(SeatsOf(F))
  BY CompConnected
<1>2. SeatsOf(F) # {}
  <2>1. F \in 1 .. F /\ F = Len(frames) /\ Types /\ Shape
    BY CompClosed DEF Complete, OrderIInv
  <2>2. frames[F].pos \in Region(F)
    BY <2>1, Regions
  <2> QED BY <2>2 DEF SeatsOf
<1>3. SeatsOf(F) \subseteq Abstract!Reachable /\ SeatsOf(F) \subseteq Seats
  BY CompClosed DEF SeatsOf, OrderIInv, Reached
<1>4. \A s \in SeatsOf(F) : seatTag[s] # Done /\ \A t \in graph[s] : seatTag[t] = Done \/ t \in SeatsOf(F)
  BY CompClosed DEF SeatsOf
<1>5. \A s \in SeatsOf(F) : graph[s] \subseteq Seats
  BY <1>3 DEF OrderIInv, Types
<1> QED BY <1>1, <1>2, <1>3, <1>4, <1>5 DEF Abstract!IsNext


LEMMA VisitCompEffect ==
  ASSUME OrderIInv, VisitComp, NEW F, F = Len(frames)
  PROVE  /\ Complete(F) /\ UNCHANGED <<graph, roots, pending, tag, stack>>
         /\ comp' = SeatsOf(F)
         /\ frames' \in Seq(FrameSet) /\ Len(frames') = F
         /\ \A k \in 1 .. F - 1 : frames'[k] = frames[k]
         /\ frames'[F] = [frames[F] EXCEPT !.at = frames[F].pos]
         /\ frames'[F].at = frames[F].pos /\ frames'[F].seat = frames[F].seat
         /\ frames'[F].pos = frames[F].pos /\ frames'[F].min = frames[F].min
         /\ frames'[F].todo = frames[F].todo
<1>1. Complete(F) /\ Top = frames[F]
  BY DEF VisitComp, Complete, Top, Open
<1>2. OnStack(frames[F].pos) = SeatsOf(F) /\ F \in 1 .. F
  BY <1>1, CompClosed
<1>3. comp' = SeatsOf(F) /\ UNCHANGED <<graph, roots, pending, tag, stack>>
  BY <1>1, <1>2 DEF VisitComp
<1>5. frames \in Seq(FrameSet) /\ frames # <<>> /\ frames[F] \in FrameSet
  <2>1. frames \in Seq(FrameSet) /\ frames # <<>>
    BY <1>1 DEF OrderIInv, Types, Complete
  <2> QED BY <1>2, <2>1
<1> DEFINE f == [frames[F] EXCEPT !.at = frames[F].pos]
<1>6. /\ f \in FrameSet /\ f.at = frames[F].pos /\ f.seat = frames[F].seat
      /\ f.pos = frames[F].pos /\ f.min = frames[F].min /\ f.todo = frames[F].todo
  BY <1>5 DEF FrameSet
<1>7. frames' = Append(SubSeq(frames, 1, Len(frames) - 1), f)
  BY <1>1 DEF VisitComp, SetTop, Below
<1> HIDE DEF f
<1>8. /\ frames' \in Seq(FrameSet) /\ Len(frames') = F
      /\ \A k \in 1 .. F - 1 : frames'[k] = frames[k]
      /\ frames'[F] = f
  BY <1>5, <1>6, <1>7, TopSet
<1> QED BY <1>1, <1>3, <1>6, <1>8 DEF f

\* The seats in D are done, the others of the component lose their tags.
NewlyDone(F, D) ==
  seatTag' = [s \in Seats |-> IF s \in D THEN Done ELSE IF s \in SeatsOf(F) THEN 0 ELSE seatTag[s]]

LEMMA VisitCompTags ==
  ASSUME OrderIInv, VisitComp, NEW F, F = Len(frames)
  PROVE  \E D \in (SUBSET SeatsOf(F)) \ {{}} : NewlyDone(F, D)
<1>1. comp' = SeatsOf(F)
  BY VisitCompEffect
<1> QED BY <1>1 DEF VisitComp, NewlyDone

LEMMA VisitCompStep == OrderIInv /\ VisitComp => OrderIInv'
<1> SUFFICES ASSUME OrderIInv, VisitComp PROVE OrderIInv'
  OBVIOUS
<1>0. PICK F, N : F = Len(frames) /\ N = Len(stack)
  OBVIOUS
<1>1. Types /\ Shape /\ Tags /\ Reached /\ Walks /\ Rooms
  BY DEF OrderIInv
<1>2. /\ Complete(F) /\ UNCHANGED <<graph, roots, pending, tag, stack>>
      /\ frames' \in Seq(FrameSet) /\ Len(frames') = F
      /\ \A k \in 1 .. F - 1 : frames'[k] = frames[k]
      /\ frames'[F].at = frames[F].pos /\ frames'[F].seat = frames[F].seat
      /\ frames'[F].pos = frames[F].pos /\ frames'[F].min = frames[F].min
      /\ frames'[F].todo = frames[F].todo
  BY <1>0, VisitCompEffect
<1>3. /\ F \in Nat \ {0} /\ N \in Nat /\ F \in 1 .. F
      /\ \A k \in 1 .. F :
              /\ frames[k] \in FrameSet /\ frames[k].seat \in Seats
              /\ End(k) \in 1 .. N /\ frames[k].pos \in 1 .. End(k) /\ frames[k].pos \in 1 .. N
              /\ Region(k) = frames[k].pos .. End(k) /\ Region(k) \subseteq 1 .. N
              /\ frames[k].pos \in Region(k) /\ stack[frames[k].pos] = frames[k].seat
              /\ SeatsOf(k) \subseteq Seats
      /\ End(F) = N
  <2>1. frames # <<>>
    BY <1>2 DEF Complete
  <2>2. F \in Nat \ {0}
    BY <1>0, <1>1, <2>1, Regions
  <2>3. F > 0 /\ F \in 1 .. F
    BY <2>2
  <2> QED BY <1>0, <1>1, <2>2, <2>3, Regions
<1> DEFINE C == SeatsOf(F)
<1>4. PICK D \in (SUBSET C) \ {{}} : NewlyDone(F, D)
  BY <1>0, VisitCompTags
<1>5. /\ \A p \in Region(F) : /\ p \in 1 .. N /\ Live(p) /\ stack[p] \in Seats
                              /\ seatTag[stack[p]] > 0 /\ seatTag[stack[p]] # Done
      /\ \A p \in Region(F) : \A t \in graph[stack[p]] : seatTag[t] = Done \/ t \in C
      /\ Open(F) /\ frames[F].min = seatTag[frames[F].seat]
  BY <1>0, <1>2, CompClosed DEF Complete
<1>6. /\ seatTag' \in [Seats -> Nat \union {Done}]
      /\ \A t \in Seats : seatTag[t] = Done => seatTag'[t] = Done
      /\ \A t \in Seats : t \notin C => seatTag'[t] = seatTag[t]
      /\ \A t \in C : ~(seatTag'[t] > 0)
      /\ \E p \in Region(F) : seatTag'[stack[p]] = Done
  <2>1. C \subseteq Seats
    BY <1>3
  <2>2. seatTag' \in [Seats -> Nat \union {Done}]
    BY <1>1, <1>4 DEF Types, NewlyDone
  <2>3. \A t \in C : seatTag[t] # Done
    BY <1>5 DEF SeatsOf
  <2>4. \A t \in C : ~(seatTag'[t] > 0)
    BY <1>4, <2>1 DEF Done, NewlyDone
  <2>5. \E p \in Region(F) : seatTag'[stack[p]] = Done
    BY <1>4, <2>1 DEF SeatsOf, NewlyDone
  <2>6. \A t \in Seats : t \notin C => seatTag'[t] = seatTag[t]
    BY <1>4 DEF NewlyDone
  <2> HIDE DEF C
  <2>7. \A t \in Seats : seatTag[t] = Done => seatTag'[t] = Done
    BY <2>3, <2>6
  <2> QED BY <2>2, <2>4, <2>5, <2>6, <2>7 DEF C
<1>7. /\ \A k \in 1 .. F : k = F \/ k \in 1 .. F - 1
      /\ \A k \in 1 .. F : k # F => k \in 1 .. F - 1 /\ k + 1 \in 1 .. F /\ k < F
  BY <1>3
<1>8. \A k \in 1 .. F : /\ frames'[k].seat = frames[k].seat
                        /\ frames'[k].pos = frames[k].pos
                        /\ frames'[k].min = frames[k].min
                        /\ frames'[k].min >= 1
                        /\ frames'[k].todo = frames[k].todo
                        /\ k # F => frames'[k].at = frames[k].at
  BY <1>0, <1>1, <1>2, <1>7 DEF Shape
<1>9. /\ Shape'
      /\ \A k \in 1 .. F : End(k)' = End(k) /\ Region(k)' = Region(k) /\ SeatsOf(k)' = SeatsOf(k)
  BY <1>0, <1>1, <1>2, <1>8, SameRegions
<1>10. /\ \A k \in 1 .. F : k # F => (Open(k)' <=> Open(k))
       /\ \A k : k = F => ~Open(k)'
  <2>1. frames[F].pos # 0
    BY <1>3
  <2> QED BY <1>2, <1>8, <2>1 DEF Open
<1>11. \A p : Live(p)' => Live(p)
  BY <1>0, <1>2, <1>9, <1>10 DEF Live
<1>12. \A p \in 1 .. N : Live(p) /\ p \notin Region(F) => Live(p)'
  BY <1>0, <1>2, <1>9, <1>10 DEF Live
<1>13. \A k \in 1 .. F : k # F => \A p \in Region(k) : p < frames[F].pos
  <2> SUFFICES ASSUME NEW k \in 1 .. F, k # F, NEW p \in Region(k) PROVE p < frames[F].pos
    OBVIOUS
  <2>1. End(k) < frames[F].pos
    BY <1>0, <1>1, <1>3, <1>7 DEF Shape
  <2> QED BY <1>3, <2>1
<1>14. \A p \in 1 .. N : Live(p)' => p < frames[F].pos
  <2> SUFFICES ASSUME NEW p \in 1 .. N, Live(p)' PROVE p < frames[F].pos
    OBVIOUS
  <2>1. PICK k \in 1 .. F : Open(k)' /\ p \in Region(k)'
    BY <1>2 DEF Live
  <2> QED BY <1>9, <1>10, <1>13, <2>1
<1>15. \A p \in 1 .. N : p < frames[F].pos /\ Live(p) =>
          Live(p)' /\ stack[p] \notin C /\ seatTag'[stack[p]] = seatTag[stack[p]]
  <2> SUFFICES ASSUME NEW p \in 1 .. N, p < frames[F].pos, Live(p)
               PROVE  Live(p)' /\ stack[p] \notin C /\ seatTag'[stack[p]] = seatTag[stack[p]]
    OBVIOUS
  <2>1. p \notin Region(F)
    BY <1>3
  <2>2. stack[p] \notin C
    <3> SUFFICES ASSUME stack[p] \in C PROVE FALSE
      OBVIOUS
    <3>1. PICK q \in Region(F) : stack[q] = stack[p]
      BY DEF SeatsOf
    <3>2. q = p
      BY <1>0, <1>1, <1>5, <3>1, LiveOnce
    <3> QED BY <2>1, <3>1, <3>2
  <2>3. stack[p] \in Seats
    BY <1>0, <1>1 DEF Types
  <2> QED BY <1>6, <1>12, <2>1, <2>2, <2>3
<1>16. Types'
  BY <1>1, <1>2, <1>6 DEF Types
<1>17. Tags'
  <2>1. \A p \in 1 .. N : Live(p)' => Live(p) /\ p < frames[F].pos /\ seatTag'[stack[p]] = seatTag[stack[p]]
    BY <1>11, <1>14, <1>15
  <2>2. ASSUME NEW t \in Seats, seatTag'[t] > 0
        PROVE  \E p \in 1 .. N : Live(p)' /\ stack[p] = t
    <3>1. t \notin C /\ seatTag[t] > 0
      BY <1>6, <2>2
    <3>2. PICK p \in 1 .. N : Live(p) /\ stack[p] = t
      BY <1>0, <1>1, <3>1 DEF Tags
    <3>3. p \notin Region(F)
      BY <3>1, <3>2 DEF SeatsOf
    <3> QED BY <1>12, <3>2, <3>3
  <2> QED BY <1>0, <1>1, <1>2, <2>1, <2>2 DEF Tags
<1>18. Reached'
  <2>1. Abstract!Reachable' = Abstract!Reachable
    BY <1>2, SameReachable
  <2> QED BY <1>1, <1>2, <2>1 DEF Reached
<1>19. Rooms'
  <2>1. Abstract!Reachable' = Abstract!Reachable
    BY <1>2, SameReachable
  <2>2. ASSUME NEW k \in 1 .. F, ~Open(k)'
        PROVE  LET n == Cardinality(Abstract!Reachable)
                   c == End(k) - frames[k].pos + 1
               IN 2 * End(k) + (c - 1) * c <= n * (n + 1)
    <3>1. CASE k = F
      BY <1>0, <1>2, <1>3, <3>1, RoomForComp DEF Complete
    <3>2. CASE k # F
      BY <1>0, <1>1, <1>10, <2>2, <3>2 DEF Rooms
    <3> QED BY <3>1, <3>2
  <2> QED BY <1>2, <1>8, <1>9, <2>1, <2>2 DEF Rooms
<1>20. \A k \in 1 .. F : Stays(k)
  BY <1>0, <1>2, <1>6, <1>8, <1>9 DEF Stays
<1>21. ASSUME NEW k \in 1 .. F, k # F, Open(k)
       PROVE  Explored(k)' /\ Lowest(k)' /\ Linked(k)'
  <2>1. \A p \in 1 .. End(k) : Live(p) => Live(p)' /\ seatTag'[stack[p]] = seatTag[stack[p]]
    <3>1. End(k) < frames[F].pos
      BY <1>0, <1>1, <1>3, <1>7, <1>21 DEF Shape
    <3>2. \A p \in 1 .. End(k) : p \in 1 .. N /\ p < frames[F].pos
      BY <1>3, <3>1
    <3> QED BY <1>15, <3>2
  <2>2. End(k) <= Len(stack)' /\ Len(stack)' \in Nat
    BY <1>0, <1>2, <1>3
  <2>3. \A t \in frames[k].todo \union (IF k < Len(frames) THEN {frames[k + 1].seat} ELSE {}) :
          \/ t \in frames'[k].todo
          \/ k < Len(frames') /\ t = frames'[k + 1].seat
    BY <1>0, <1>2, <1>7, <1>8, <1>21
  <2> QED BY <1>20, <1>21, <2>1, <2>2, <2>3, OpenStays
<1>22. ASSUME NEW k \in 1 .. F, k > 1, Open(k - 1)'
       PROVE  /\ Open(k - 1) /\ frames'[k - 1].seat = frames[k - 1].seat /\ k - 1 \in 1 .. F
              /\ seatTag'[frames[k - 1].seat] = seatTag[frames[k - 1].seat]
              /\ frames[k - 1].pos < frames[F].pos /\ Live(frames[k - 1].pos)
  <2>1. k - 1 \in 1 .. F /\ k - 1 # F
    BY <1>3, <1>22
  <2>2. Open(k - 1)
    BY <1>10, <1>22, <2>1
  <2>3. frames[k - 1].pos \in Region(k - 1) /\ frames[k - 1].pos \in 1 .. N /\ stack[frames[k - 1].pos] = frames[k - 1].seat
    BY <1>3, <2>1
  <2>4. frames[k - 1].pos < frames[F].pos /\ Live(frames[k - 1].pos)
    BY <1>0, <1>13, <2>1, <2>2, <2>3 DEF Live
  <2> QED BY <1>8, <1>15, <2>1, <2>2, <2>3, <2>4
<1>23. ASSUME NEW k \in 1 .. F, k # F, ~Open(k)
       PROVE  Spent(k)'
  <2>1. \A p \in End(k) + 1 .. Len(stack)' : stack'[p] \in SeatsOf(k)
    BY <1>0, <1>1, <1>2, <1>23 DEF Walks, Spent
  <2>2. k > 1 /\ Open(k - 1)' => Open(k - 1) /\ frames'[k - 1].seat = frames[k - 1].seat
                                  /\ seatTag'[frames[k - 1].seat] = seatTag[frames[k - 1].seat]
    BY <1>22
  <2> QED BY <1>8, <1>11, <1>20, <1>23, <2>1, <2>2, SpentStays
<1>24. ASSUME NEW k, k = F
       PROVE  Spent(k)'
  <2>1. /\ frames'[F].at = frames[F].pos /\ frames'[F].pos = frames[F].pos
        /\ frames'[F].min = frames[F].min
        /\ Region(k)' = Region(F) /\ SeatsOf(k)' = C /\ End(k)' = N
        /\ stack' = stack /\ graph' = graph
    BY <1>2, <1>3, <1>9, <1>24
  <2>2. frames[F].pos \in frames[F].pos .. N + 1 /\ \A i \in frames[F].pos .. frames[F].pos - 1 : FALSE
    BY <1>3
  <2>3. \A p \in Region(F) : \A t \in graph[stack[p]] : seatTag'[t] = Done \/ t \in C
    <3>1. \A p \in Region(F) : graph[stack[p]] \subseteq Seats
      BY <1>1, <1>5 DEF Types
    <3> QED BY <1>5, <1>6, <3>1
  <2>4. \A p \in N + 1 .. N : FALSE
    BY <1>3
  <2>5. \A p \in Region(F) : \A r \in 1 .. N : Live(r)' /\ stack[r] = stack[p] => r > N
    <3> SUFFICES ASSUME NEW p \in Region(F), NEW r \in 1 .. N, Live(r)', stack[r] = stack[p] PROVE FALSE
      OBVIOUS
    <3>1. r < frames[F].pos /\ Live(r)
      BY <1>11, <1>14
    <3>2. r = p
      BY <1>0, <1>1, <1>5, <3>1, LiveOnce
    <3> QED BY <1>3, <3>1, <3>2
  <2>6. \A p, q \in Region(F) : stack[p] = stack[q] => p = q
    BY <1>0, <1>1, <1>5, LiveOnce
  <2>7. ASSUME F > 1, Open(F - 1)'
        PROVE  frames[F].min > seatTag'[frames'[F - 1].seat]
    <3>1. /\ frames'[F - 1].seat = frames[F - 1].seat /\ F - 1 \in 1 .. F
          /\ seatTag'[frames[F - 1].seat] = seatTag[frames[F - 1].seat]
          /\ frames[F - 1].pos < frames[F].pos /\ Live(frames[F - 1].pos)
      <4>1. \A k2 \in 1 .. F : k2 = F =>
               /\ frames'[F - 1].seat = frames[F - 1].seat /\ F - 1 \in 1 .. F
               /\ seatTag'[frames[F - 1].seat] = seatTag[frames[F - 1].seat]
               /\ frames[F - 1].pos < frames[F].pos /\ Live(frames[F - 1].pos)
        BY <1>22, <2>7
      <4> QED BY <1>3, <4>1
    <3>2. frames[F - 1].pos \in 1 .. N /\ stack[frames[F - 1].pos] = frames[F - 1].seat
      BY <1>3, <3>1
    <3>3. seatTag[stack[frames[F - 1].pos]] < seatTag[stack[frames[F].pos]]
      BY <1>0, <1>1, <1>3, <1>5, <3>1, <3>2, LiveOnce
    <3>4. seatTag[stack[frames[F - 1].pos]] \in 1 .. tag /\ seatTag[stack[frames[F].pos]] \in 1 .. tag /\ tag \in Nat
      BY <1>0, <1>1, <1>3, <1>5, <3>1, <3>2 DEF Tags, Types
    <3> QED BY <1>3, <1>5, <3>1, <3>2, <3>3, <3>4
  <2> QED BY <1>0, <1>6, <1>24, <2>1, <2>2, <2>3, <2>4, <2>5, <2>6, <2>7 DEF Spent
<1>25. Walks'
  <2> SUFFICES ASSUME NEW k \in 1 .. F
               PROVE  /\ Open(k)' => Explored(k)' /\ Lowest(k)' /\ Linked(k)'
                      /\ ~Open(k)' => Spent(k)'
                      /\ Open(k)' /\ k < F => frames'[k + 1].seat \in graph[frames'[k].seat]
    BY <1>2 DEF Walks
  <2>1. CASE k = F
    <3>1. ~(k < F)
      BY <1>3, <2>1
    <3> QED BY <1>10, <1>24, <2>1, <3>1
  <2>2. CASE k # F
    <3>1. Open(k)' => frames'[k + 1].seat \in graph[frames'[k].seat]
      BY <1>0, <1>1, <1>7, <1>8, <1>10, <2>2 DEF Walks
    <3> QED BY <1>10, <1>21, <1>23, <2>2, <3>1
  <2> QED BY <2>1, <2>2
<1> QED BY <1>9, <1>16, <1>17, <1>18, <1>19, <1>25 DEF OrderIInv

-----------------------------------------------------------------------------
(***************************************************************************)
(* Theorems                                                                *)
(***************************************************************************)

\* The stack falls into components that are visited again and seats that were
\* found on the way, with growing tags, whatever the graph.
THEOREM OrderInvariance == Spec => []OrderIInv
<1>1. OrderIInv /\ UNCHANGED vars => OrderIInv'
  <2> SUFFICES ASSUME OrderIInv, UNCHANGED vars PROVE OrderIInv'
    OBVIOUS
  <2>1. pending' \subseteq roots /\ UNCHANGED <<graph, roots, tag, seatTag, stack, frames>>
    BY DEF vars, OrderIInv, Types
  <2> QED BY <2>1, Unmoved
<1>2. OrderIInv /\ [Next]_vars => OrderIInv'
  BY <1>1, VisitRelevantStep, VisitAlternativeStep, ReturnInnerStep, VisitCompStep,
     VisitAgainStep, LeaveStep DEF Next
<1> QED BY <1>2, InitOrderIInv, PTL DEF Spec

\* Nothing is left on the stack after a relevant seat, and no tag but Done.
THEOREM NothingIsLeft == Spec => []NothingLeft
<1>1. OrderIInv => NothingLeft
  <2> SUFFICES ASSUME OrderIInv, frames = <<>>
               PROVE  stack = <<>> /\ \A s \in Seats : seatTag[s] \in {Done, 0}
    BY DEF NothingLeft
  <2>1. stack = <<>> /\ Len(stack) = 0
    BY DEF OrderIInv, Shape
  <2>2. \A s \in Seats : ~(seatTag[s] > 0)
    BY <2>1 DEF OrderIInv, Tags
  <2> QED BY <2>1, <2>2 DEF OrderIInv, Types
<1> QED BY <1>1, OrderInvariance, PTL

\* n relevant seats never need more than n(n+1)/2 places on the stack.
THEOREM StackIsBounded == Spec => []StackBounded
<1>1. OrderIInv => StackBounded
  <2> SUFFICES ASSUME OrderIInv
               PROVE  2 * Len(stack) <= Cardinality(Abstract!Reachable) * (Cardinality(Abstract!Reachable) + 1)
    BY DEF StackBounded
  <2>0. PICK F, N, n : F = Len(frames) /\ N = Len(stack) /\ n = Cardinality(Abstract!Reachable)
    OBVIOUS
  <2>1. Types /\ Shape /\ n \in Nat /\ N \in Nat
    BY <2>0, ReachableFinite, EmptySeq DEF OrderIInv, Types
  <2>2. n * (n + 1) \in Nat
    BY <2>1
  <2>3. CASE frames = <<>>
    <3>1. N = 0
      <4>1. stack = <<>> /\ Len(stack) = 0
        BY <2>1, <2>3 DEF Shape
      <4> QED BY <2>0, <4>1
    <3>2. 2 * N <= n * (n + 1)
      BY <2>2, <3>1
    <3> QED BY <2>0, <3>2
  <2>4. CASE frames # <<>>
    <3>1. F \in 1 .. F /\ End(F) = N /\ frames[F].pos \in 1 .. N
      <4>1. F \in Nat \ {0}
        BY <2>0, <2>1, <2>4, Regions
      <4>2. F > 0 /\ F \in 1 .. F
        BY <4>1
      <4> QED BY <2>0, <2>1, <4>2, Regions
    <3> DEFINE c == N - frames[F].pos + 1
    <3>2. c \in Nat \ {0} /\ (c - 1) * c \in Nat
      <4>1. c \in Nat \ {0}
        BY <2>1, <3>1
      <4> HIDE DEF c
      <4>2. c - 1 \in Nat
        BY <4>1
      <4> QED BY <4>1, <4>2
    <3>3. 2 * N + (c - 1) * c <= n * (n + 1)
      <4>1. CASE Open(F)
        BY <2>0, <2>4, <4>1, RoomForComp
      <4>2. CASE ~Open(F)
        BY <2>0, <3>1, <4>2 DEF OrderIInv, Rooms
      <4> QED BY <4>1, <4>2
    <3> HIDE DEF c
    <3> DEFINE r == (c - 1) * c
               b == n * (n + 1)
    <3>4. r \in Nat /\ b \in Nat /\ 2 * N + r <= b
      BY <2>2, <3>2, <3>3
    <3>5. 2 * N <= b
      <4> HIDE DEF r, b
      <4> QED BY <2>1, <3>4
    <3> QED BY <2>0, <3>5
  <2> QED BY <2>3, <2>4
<1> QED BY <1>1, OrderInvariance, PTL

\* Every step of the search is a visit of the next component, as alg.h promises
\* it, or none: without the liveness part of ImplementsComponents.
THEOREM VisitsComponents == Spec => Abstract!Init /\ [][Abstract!Next]_(Abstract!vars)
<1>1. Init => Abstract!Init
  BY DEF Init, Abstract!Init, Done
<1>2. OrderIInv /\ [Next]_vars => [Abstract!Next]_(Abstract!vars)
  <2> SUFFICES ASSUME OrderIInv, [Next]_vars PROVE [Abstract!Next]_(Abstract!vars)
    OBVIOUS
  <2> DEFINE done == {s \in Seats : seatTag[s] = Done}
  <2>1. ASSUME UNCHANGED <<graph, roots, comp>>, done' = done
        PROVE  [Abstract!Next]_(Abstract!vars)
    BY <2>1 DEF Abstract!vars
  <2>2. ASSUME NEW s, NEW b, Enter(s, b), seatTag[s] = 0, tag \in Nat
        PROVE  done' = done
    BY <2>2 DEF Enter, Done, OrderIInv, Types
  <2>3. tag \in Nat
    BY DEF OrderIInv, Types
  <2>4. CASE VisitRelevant
    BY <2>1, <2>2, <2>3, <2>4 DEF VisitRelevant
  <2>5. CASE VisitAlternative
    BY <2>1, <2>2, <2>3, <2>5 DEF VisitAlternative
  <2>6. CASE ReturnInner
    BY <2>1, <2>6 DEF ReturnInner
  <2>7. CASE VisitAgain
    BY <2>1, <2>2, <2>3, <2>7 DEF VisitAgain
  <2>8. CASE Leave
    BY <2>1, <2>8 DEF Leave
  <2>9. CASE UNCHANGED vars
    BY <2>1, <2>9 DEF vars
  <2>10. CASE VisitComp
    <3>1. PICK F : F = Len(frames)
      OBVIOUS
    <3>2. Complete(F) /\ comp' = SeatsOf(F) /\ UNCHANGED <<graph, roots>>
      BY <2>10, <3>1, VisitCompEffect
    <3>3. PICK D \in (SUBSET SeatsOf(F)) \ {{}} : NewlyDone(F, D)
      BY <2>10, <3>1, VisitCompTags
    <3>4. PICK C : C = SeatsOf(F)
      OBVIOUS
    <3>5. Abstract!IsNext(C) /\ C \in SUBSET Seats
      BY <3>2, <3>4, CompIsNext
    <3>6. \A s \in C : s \notin done
      BY <3>5 DEF Abstract!IsNext
    <3>7. done' = done \union D
      <4>1. \A s \in Seats : seatTag'[s] = Done <=> s \in D \/ seatTag[s] = Done
        <5>1. Done # 0
          BY DEF Done
        <5> QED BY <3>3, <3>4, <3>6, <5>1 DEF NewlyDone
      <4> QED BY <3>3, <3>4, <3>5, <4>1
    <3>8. D \in (SUBSET C) \ {{}} /\ comp' = C
      BY <3>2, <3>3, <3>4
    <3>9. Abstract!Visit(C)
      BY <3>2, <3>5, <3>7, <3>8 DEF Abstract!Visit
    <3>10. Abstract!Next
      BY <3>5, <3>9 DEF Abstract!Next
    <3> QED BY <3>10
  <2> QED BY <2>4, <2>5, <2>6, <2>7, <2>8, <2>9, <2>10 DEF Next
<1> QED BY <1>1, <1>2, OrderInvariance, PTL DEF Spec

=============================================================================
