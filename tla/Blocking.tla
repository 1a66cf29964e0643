------------------------------ MODULE Blocking ------------------------------
(***************************************************************************)
(* The set-similarity join of signal_core.dedup: Jaccard similarity of     *)
(* token sets and the prefix filter that proposes candidate pairs for it.  *)
(* A threshold is a whole percentage.                                      *)
(***************************************************************************)
EXTENDS Integers, FiniteSets

(* jaccard(A, B) >= percent / 100; an empty set resembles nothing.         *)
Similar(A, B, percent) ==
    /\ A # {} /\ B # {}
    /\ 100 * Cardinality(A \cap B) >= percent * Cardinality(A \cup B)

(* math.ceil(percent / 100 * n)                                            *)
Ceiling(percent, n) == (percent * n + 99) \div 100

(* How many tokens of a set of n blocking_keys keeps.                      *)
Keep(percent, n) ==
    LET keep == n - Ceiling(percent, n) + 1
    IN  IF keep > 1 THEN keep ELSE 1

(* S holds the rarest tokens of A: whatever is rarer than one of them is in*)
(* S too.  <<x, y>> \in rarer puts x before y in the order of all tokens.  *)
RarestOf(S, A, rarer) ==
    /\ S \subseteq A
    /\ \A x \in S, y \in A : <<y, x>> \in rarer => y \in S

(* blocking_keys: the Keep rarest tokens of A - one such set, if the order *)
(* is total.                                                               *)
BlockingKeys(A, rarer, percent) ==
    {S \in SUBSET A : /\ RarestOf(S, A, rarer)
                      /\ A # {} => Cardinality(S) = Keep(percent, Cardinality(A))}

=============================================================================
