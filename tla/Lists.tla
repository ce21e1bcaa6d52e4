------------------------------- MODULE Lists -------------------------------
(***************************************************************************)
(* What the parts of Services need of SequencesExt and FiniteSetsExt, with *)
(* the names it has there.  Services takes an instance of every part, and  *)
(* with an instance of the library in each of them the proofs would carry  *)
(* several hundred definitions that they never look at.                    *)
(***************************************************************************)
EXTENDS Naturals, Sequences, FiniteSets, Folds

ToSet(s) == {s[i] : i \in DOMAIN s}

Last(s) == s[Len(s)]

Reverse(s) == [i \in DOMAIN s |-> s[1 + Len(s) - i]]

IsPrefix(s, t) == Len(s) <= Len(t) /\ SubSeq(s, 1, Len(s)) = SubSeq(t, 1, Len(s))

Min(S) == CHOOSE x \in S : \A y \in S : x <= y

\* The elements in some order.
SetToSeq(S) == CHOOSE s \in [1..Cardinality(S) -> S] : ToSet(s) = S

\* op(op(base, s[1]), s[2]) ...
FoldLeft(op(_, _), base, s) ==
  MapThenFoldSet(LAMBDA i, acc : op(acc, s[i]), base, LAMBDA i : i,
                 LAMBDA left : CHOOSE i \in left : \A j \in left : j <= i, DOMAIN s)

\* For an op that gives the same in every order.
FoldSet(op(_, _), base, S) ==
  MapThenFoldSet(op, base, LAMBDA x : x, LAMBDA left : CHOOSE x \in left : TRUE, S)
=============================================================================
