------------------------------- MODULE Versions -----------------------------
(***************************************************************************)
(* Comparing two versions (dpm_db_compare_versions_str), a part at a time  *)
(* and, of a part, a text and a number at a time.                          *)
(*                                                                         *)
(* Versions are blobs, which end without a NUL.  What follows is the       *)
(* padding, which is zero in a fresh file and has what a session that did  *)
(* not commit has left there otherwise, or, when there is none, the header *)
(* of the next object.                                                     *)
(***************************************************************************)
EXTENDS Integers, Sequences
LOCAL INSTANCE FiniteSetsExt

CONSTANTS
  Texts,    \* the versions, as sequences of characters
  After,    \* the bytes behind the end of a blob, as characters; "" for NUL
  None,
  Crash     \* the loops run on to the end of the store

ASSUME VersionsAssumption ==
  /\ \A s \in Texts : s \in Seq(STRING) /\ s # <<>>
  /\ "" \in After

VARIABLES
  a, b,        \* the versions and what follows them
  part,        \* what is compared: "epoch", "upstream" or "revision"
  lhs, rhs,    \* where, in a and b
  lend, rend,  \* where the fragments end
  result

vars == <<a, b, part, lhs, rhs, lend, rend, result>>
-----------------------------------------------------------------------------
(***************************************************************************)
(* Characters and where the parts are.                                     *)
(***************************************************************************)
Digit == [c \in {"0", "1"} |-> IF c = "0" THEN 0 ELSE 1]
IsDigit(c) == c \in DOMAIN Digit

\* The macro order: the tilde, digits and NUL, letters, and the rest.
Weight == [c \in {"~", "a", "+", "-", ":"} |->
             CASE c = "~" -> -1 [] c = "a" -> 97
               [] c = "+" -> 43 + 256 [] c = "-" -> 45 + 256 [] c = ":" -> 58 + 256]
Order(c) == IF c \in DOMAIN Weight THEN Weight[c] ELSE 0

\* ss_blob_new: any byte may follow, as the padding is not cleared.
Blobs == [text : Texts, after : After]

End(v) == Len(v.text) + 1
Byte(v, i) == IF i < End(v) THEN v.text[i] ELSE IF i = End(v) THEN v.after ELSE ""

\* Where a loop stops: at the first of some positions, or at its limit.
First(stops, limit) == Min(stops \union {limit})

\* Mutant: zeros are not skipped.
KeepZeros(v, i) == i

SkipZeros(v, i) == First({j \in i .. End(v) : Byte(v, j) # "0"}, End(v) + 1)

\* The colon; without one, the start.
Colon(v) == LET colon == First({i \in 1 .. End(v) - 1 : v.text[i] = ":"}, End(v))
            IN IF colon = End(v) THEN 1 ELSE colon

\* Where the epoch starts and ends; a zero epoch is skipped.
Epoch(v) ==
  LET nonzero == IF Colon(v) # 1 THEN SkipZeros(v, 1) ELSE 1
  IN IF Colon(v) # 1 /\ nonzero = Colon(v) THEN <<nonzero + 1, nonzero + 1>>
     ELSE <<nonzero, Colon(v)>>

\* The upstream version ends at the last dash, which is not at its start.
Upstream(v) ==
  LET start == IF Epoch(v)[1] = Epoch(v)[2] THEN Epoch(v)[2] ELSE Epoch(v)[2] + 1
      dashes == {i \in start + 1 .. End(v) - 1 : v.text[i] = "-"}
  IN <<start, IF dashes # {} THEN Max(dashes)
              ELSE IF start = End(v) THEN start - 1 ELSE End(v)>>

\* Without a revision, this is behind the end.
Revision(v) ==
  <<IF Upstream(v)[1] = Upstream(v)[2] THEN Upstream(v)[2] ELSE Upstream(v)[2] + 1, End(v)>>

Fragment(v, p) ==
  CASE p = "epoch" -> Epoch(v) [] p = "upstream" -> Upstream(v) [] p = "revision" -> Revision(v)

Start(p) ==
  /\ part' = p
  /\ lhs' = Fragment(a, p)[1] /\ lend' = Fragment(a, p)[2]
  /\ rhs' = Fragment(b, p)[1] /\ rend' = Fragment(b, p)[2]
  /\ UNCHANGED <<a, b, result>>

Init ==
  /\ a \in Blobs /\ b \in Blobs
  /\ part = "epoch"
  /\ lhs = Epoch(a)[1] /\ lend = Epoch(a)[2]
  /\ rhs = Epoch(b)[1] /\ rend = Epoch(b)[2]
  /\ result = None
-----------------------------------------------------------------------------
(***************************************************************************)
(* compare_fragment                                                        *)
(***************************************************************************)
Return(r) ==
  /\ result' = r
  /\ UNCHANGED <<a, b, part, lhs, rhs, lend, rend>>

\* When it returns 0, the next part is compared, or the versions are the same.
Equal ==
  CASE part = "epoch" -> Start("upstream")
    [] part = "upstream" -> Start("revision")
    [] part = "revision" -> Return(0)

\* One or both have ended.
AtEnd ==
  /\ result = None
  /\ lhs >= lend \/ rhs >= rend
  /\ CASE lhs >= lend /\ rhs >= rend -> Equal
       [] lhs >= lend /\ rhs < rend -> Return(IF Byte(b, rhs) = "~" THEN 1 ELSE -1)
       [] lhs < lend /\ rhs >= rend -> Return(IF Byte(a, lhs) = "~" THEN -1 ELSE 1)

\* The loop over what is not a number; it stops after n characters.
TextLength ==
  LET limit == Min({lend - lhs, rend - rhs})
  IN First({k \in 0 .. limit - 1 :
              \/ IsDigit(Byte(a, lhs + k)) /\ IsDigit(Byte(b, rhs + k))
              \/ Order(Byte(a, lhs + k)) # Order(Byte(b, rhs + k))}, limit)

TextDiffers(n) ==
  /\ lhs + n < lend /\ rhs + n < rend
  /\ Order(Byte(a, lhs + n)) # Order(Byte(b, rhs + n))

\* The loop over a number, from i and j on; it stops after n digits.
NumberLength(i, j) ==
  First({k \in 0 .. Len(a.text) :
           \/ i + k = lend \/ j + k = rend
           \/ ~IsDigit(Byte(a, i + k)) \/ ~IsDigit(Byte(b, j + k))}, 1 + Len(a.text))

\* The difference of the first digits that are not the same.
FirstDiff(i, j, n) ==
  LET differ == {k \in 0 .. n - 1 : Byte(a, i + k) # Byte(b, j + k)}
  IN IF differ = {} THEN 0 ELSE Digit[Byte(a, i + Min(differ))] - Digit[Byte(b, j + Min(differ))]

\* Once round the loop.  When the zeros go on behind the end, so does the loop.
Round ==
  /\ result = None
  /\ lhs < lend /\ rhs < rend
  /\ LET n == TextLength
         i == SkipZeros(a, lhs + n)
         j == SkipZeros(b, rhs + n)
         d == NumberLength(i, j)
         diff == FirstDiff(i, j, d)
     IN CASE TextDiffers(n) ->
               Return(IF Order(Byte(a, lhs + n)) > Order(Byte(b, rhs + n)) THEN 1 ELSE -1)
          [] OTHER ->
               IF IsDigit(Byte(a, i + d)) THEN Return(1)
               ELSE IF IsDigit(Byte(b, j + d)) THEN Return(-1)
               ELSE IF diff # 0 THEN Return(IF diff < 0 THEN -1 ELSE 1)
               ELSE IF i + d > lend \/ j + d > rend THEN \E r \in {-1, 1, Crash} : Return(r)
               ELSE /\ lhs' = i + d /\ rhs' = j + d
                    /\ UNCHANGED <<a, b, part, lend, rend, result>>

Next == AtEnd \/ Round

Spec == Init /\ [][Next]_vars
-----------------------------------------------------------------------------
(***************************************************************************)
(* Properties                                                              *)
(***************************************************************************)
Debian == INSTANCE DebianOrder

\* What is compared last does not end where the version does, or it is not
\* followed by a digit there, of old padding or of a header.
NoDigitFollows ==
  /\ lend = End(a) => ~IsDigit(a.after)
  /\ rend = End(b) => ~IsDigit(b.after)

\* The result is the order of apt, from which the code is taken: that of the
\* policy, but for versions without a revision.  It does not depend on what
\* follows the versions, unless they are compared to the end and that is a
\* digit.
OrderIsApt ==
  result # None /\ NoDigitFollows => result = Debian!Apt(a.text, b.text)
=============================================================================
