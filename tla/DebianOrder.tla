----------------------------- MODULE DebianOrder ----------------------------
(***************************************************************************)
(* How Debian versions are ordered, by the words of the Debian policy: by  *)
(* the epoch, the upstream version and the revision, each of which is      *)
(* compared as a sequence of texts and numbers in turn.                    *)
(*                                                                         *)
(* A version is a sequence of characters, of which Weight is the order.    *)
(***************************************************************************)
EXTENDS Integers, Sequences
LOCAL INSTANCE FiniteSetsExt
LOCAL INSTANCE SequencesExt

CONSTANTS
  Digit,     \* the value of each character that is a digit
  Weight     \* the order of the others; the end of a text has 0

LOCAL Sign(n) == IF n < 0 THEN -1 ELSE IF n > 0 THEN 1 ELSE 0

\* How many characters at the start of s are digits, or are not.
Leading(s, digits) ==
  Max({n \in 0 .. Len(s) : \A i \in 1 .. n : (s[i] \in DOMAIN Digit) = digits})

Number(s) == FoldLeft(LAMBDA n, c : 10 * n + Digit[c], 0, s)

CompareTexts(s, t) ==
  LET At(u, i) == IF i <= Len(u) THEN Weight[u[i]] ELSE 0
      Differ == {i \in 1 .. Max({Len(s), Len(t)}) : At(s, i) # At(t, i)}
  IN IF Differ = {} THEN 0 ELSE Sign(At(s, Min(Differ)) - At(t, Min(Differ)))

RECURSIVE CompareFragments(_, _)
CompareFragments(s, t) ==
  LET i == Leading(s, FALSE)
      j == Leading(t, FALSE)
      s1 == SubSeq(s, i + 1, Len(s))
      t1 == SubSeq(t, j + 1, Len(t))
      m == Leading(s1, TRUE)
      n == Leading(t1, TRUE)
      texts == CompareTexts(SubSeq(s, 1, i), SubSeq(t, 1, j))
      numbers == Sign(Number(SubSeq(s1, 1, m)) - Number(SubSeq(t1, 1, n)))
  IN CASE s = <<>> /\ t = <<>> -> 0
       [] texts # 0 -> texts
       [] numbers # 0 -> numbers
       [] OTHER -> CompareFragments(SubSeq(s1, m + 1, Len(s1)), SubSeq(t1, n + 1, Len(t1)))

Epoch(s) == LET i == SelectInSeq(s, LAMBDA c : c = ":") IN SubSeq(s, 1, i - 1)
Rest(s) == LET i == SelectInSeq(s, LAMBDA c : c = ":") IN SubSeq(s, i + 1, Len(s))
LastDash(s) == SelectLastInSeq(Rest(s), LAMBDA c : c = "-")
Upstream(s) == SubSeq(Rest(s), 1, IF LastDash(s) = 0 THEN Len(Rest(s)) ELSE LastDash(s) - 1)
Revision(s) == IF LastDash(s) = 0 THEN <<>> ELSE SubSeq(Rest(s), LastDash(s) + 1, Len(Rest(s)))

\* A missing revision is less than any, except those that start with a tilde.
Revisions(r, q) ==
  CASE r = <<>> /\ q = <<>> -> 0
    [] r = <<>> /\ q # <<>> -> IF q[1] = "~" THEN 1 ELSE -1
    [] r # <<>> /\ q = <<>> -> IF r[1] = "~" THEN -1 ELSE 1
    [] OTHER -> CompareFragments(r, q)

\* The three parts in turn.
Apt(s, t) ==
  LET epochs == CompareFragments(Epoch(s), Epoch(t))
      upstreams == CompareFragments(Upstream(s), Upstream(t))
  IN CASE epochs # 0 -> epochs
       [] upstreams # 0 -> upstreams
       [] OTHER -> Revisions(Revision(s), Revision(t))
=============================================================================
