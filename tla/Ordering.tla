------------------------------ MODULE Ordering ------------------------------
(***************************************************************************)
(* Sorting, filtering, folding and adding up, with arguments that TLC       *)
(* evaluates once: it reads a bound identifier, where it would evaluate a   *)
(* LET of an action, or a function it has not compared yet, again at each   *)
(* use.  They are recursive functions, and take functions and sets rather   *)
(* than operators where they can, so that Ordering_proofs can say what they *)
(* return.                                                                  *)
(***************************************************************************)
EXTENDS Integers, Sequences, FiniteSets

Smaller(a, b) == IF a < b THEN a ELSE b

Items(seq) == {seq[i] : i \in DOMAIN seq}

\* The set of e alone.
Once(e) == {x \in {e} : x = x}

\* F of the value of e.
With(e, F(_)) == CHOOSE y \in UNION {Once(F(x)) : x \in Once(e)} : TRUE

\* Op(k, acc, x) of each element in turn; k is what the operator needs besides.
FoldOf(Op(_, _, _), k, base, seq) ==
    LET acc[n \in 0..Len(seq)] ==
            IF n = 0 THEN base
            ELSE CHOOSE y \in {Op(k, a, seq[n]) : a \in Once(acc[n - 1])} : TRUE
    IN acc[Len(seq)]

\* The elements of seq that are in kept, in their order.
KeepIn(kept, found, x) == IF x \in kept THEN Append(found, x) ELSE found
Filtered(seq, kept) == FoldOf(KeepIn, kept, <<>>, seq)

\* The sum of f over the places of a sequence.
AddUp(f, sum, x) == sum + f[x]
Total(f, seq) == FoldOf(AddUp, f, 0, seq)

\* Keys are compared place by place, the greater one comes first.
Precedes(a, b) ==
    \E i \in DOMAIN a : /\ a[i] > b[i]
                        /\ \A j \in 1..(i - 1) : a[j] = b[j]

\* The elements of S, best key first.
InOrder(S, key) ==
    [i \in 1..Cardinality(S) |->
        CHOOSE x \in S : Cardinality({y \in S : Precedes(key[y], key[x])}) = i - 1]
SortedBy(S, key) == With(S, LAMBDA T : With(key, LAMBDA k : InOrder(T, k)))

\* The elements of a sequence, best key first; a key for each place.
Permuted(seq, order) == [i \in DOMAIN seq |-> seq[order[i]]]
Arranged(seq, key) == With(SortedBy(DOMAIN seq, key), LAMBDA order : Permuted(seq, order))

Top(seq, k) == IF Len(seq) <= k THEN seq ELSE SubSeq(seq, 1, k)
=============================================================================
