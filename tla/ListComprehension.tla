-------------------------- MODULE ListComprehension --------------------------
(***************************************************************************)
(* Python's [x for x in s if condition]: the entries of a sequence at a    *)
(* set of positions, in their order.  SelectSeq without its recursion, so  *)
(* that what a comprehension keeps can be proved.  And sum(g[x] for x in S).*)
(***************************************************************************)
EXTENDS Integers, Sequences, FiniteSetsExt

\* The place of position i among the positions of I, and the position at place k.
Rank(I, i) == Cardinality({j \in I : j <= i})
Nth(I, k)  == CHOOSE i \in I : Rank(I, i) = k

Entries(s)   == {s[i] : i \in DOMAIN s}
Picked(s, I) == [k \in 1..Cardinality(I) |-> s[Nth(I, k)]]

SumOver(g, S) == MapThenSumSet(LAMBDA x : g[x], S)
=============================================================================
