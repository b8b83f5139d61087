------------------------------ MODULE Ordering ------------------------------
(***************************************************************************)
(* Sorting the way Array.prototype.sort does it: stable, so that elements  *)
(* that compare equal keep their order.                                    *)
(***************************************************************************)
EXTENDS Integers, Sequences, FiniteSets

(* s by falling key, as in sort((a, b) => key(b) - key(a)).                *)
SortByFalling(s, Key(_)) ==
    LET Rank(j) ==
            Cardinality({k \in DOMAIN s :
                            \/ Key(s[k]) > Key(s[j])
                            \/ Key(s[k]) = Key(s[j]) /\ k <= j})
    IN [i \in DOMAIN s |-> s[CHOOSE j \in DOMAIN s : Rank(j) = i]]

(* s by rising key, as in sort((a, b) => key(a) - key(b)).                 *)
SortByRising(s, Key(_)) ==
    LET Negated(e) == 0 - Key(e)
    IN SortByFalling(s, Negated)

(* s.filter(...): the elements at the positions I, in their order.          *)
Filtered(s, I) ==
    LET Nth(k) == CHOOSE i \in I : Cardinality({j \in I : j <= i}) = k
    IN [k \in 1 .. Cardinality(I) |-> s[Nth(k)]]

(* splice(n): at most the first n elements.                                *)
Truncate(s, n) == IF Len(s) > n THEN SubSeq(s, 1, n) ELSE s
=============================================================================
