------------------------------- MODULE Folding -------------------------------
(***************************************************************************)
(* What the FoldOf of Ordering returns, for any operator.  A lemma cannot   *)
(* take the operator as an argument and still be cited; the module takes it *)
(* as a constant, and is instantiated for each operator that is folded.     *)
(*                                                                          *)
(* The lemmas before it are the induction it needs, with a set in the place *)
(* of a predicate for the same reason.                                      *)
(***************************************************************************)
EXTENDS Integers, Sequences, FiniteSets, FiniteSetTheorems, TLAPS

CONSTANT Op(_, _, _)

\* As in Ordering.
Once(e) == {x \in {e} : x = x}
FoldOf(k, base, seq) ==
    LET acc[n \in 0..Len(seq)] ==
            IF n = 0 THEN base
            ELSE CHOOSE y \in {Op(k, a, seq[n]) : a \in Once(acc[n - 1])} : TRUE
    IN acc[Len(seq)]

-----------------------------------------------------------------------------
(* Induction *)

\* A set that has 0, and with each number before n the next one, has all up to n.
LEMMA UpTo ==
  ASSUME NEW n \in Nat, NEW T, 0 \in T, \A i \in 1..n : i - 1 \in T => i \in T
  PROVE  \A i \in 0..n : i \in T
<1> PICK F : F = {U \in SUBSET (0..n) : \A k \in 0..n : U = 0..k => k \in T}  OBVIOUS
<1> PICK B : B = {U \in SUBSET (0..n) : \E k \in 0..n : U = 0..k /\ k \notin T}  OBVIOUS
<1> PICK R : R = StrictSubsetOrdering(0..n)  OBVIOUS
<1>1. IsFiniteSet(0..n)  BY FS_Interval
<1>2. IsWellFoundedOn(R, FiniteSubsetsOf(0..n))  BY <1>1, FS_StrictSubsetOrderingWellFounded
<1>3. B \subseteq FiniteSubsetsOf(0..n)  BY <1>1, FS_FiniteSubsetsOfFinite
<1>4. CASE B # {}
  <2>1. PICK U \in B : \A V \in B : ~(<<V, U>> \in R)  BY <1>2, <1>3, <1>4, WFMin
  <2>2. PICK k \in 0..n : U = 0..k /\ k \notin T  BY <2>1
  <2>3. k \in 1..n /\ k - 1 \in 0..n /\ k - 1 \notin T  BY <2>2
  <2>4. 0..(k - 1) \in B  BY <2>3
  <2>5. 0..(k - 1) \subseteq U /\ k \in U /\ k \notin 0..(k - 1)  BY <2>2, <2>3
  <2>6. <<0..(k - 1), U>> \in R  BY <2>1, <2>4, <2>5 DEF StrictSubsetOrdering
  <2> QED BY <2>1, <2>4, <2>6
<1>5. CASE B = {}
  <2> SUFFICES ASSUME NEW i \in 0..n, i \notin T PROVE FALSE  OBVIOUS
  <2>1. 0..i \in SUBSET (0..n)  OBVIOUS
  <2>2. 0..i \in B  BY <2>1
  <2> QED BY <1>5, <2>2
<1> QED BY <1>4, <1>5

\* g has the values of the recursion up to n.
Solves(g, n, St, base, next) ==
    /\ g \in [0..n -> St]
    /\ \A i \in 0..n : g[i] = IF i = 0 THEN base ELSE next[<<i, g[i - 1]>>]

\* A recursion over 0..n whose step stays in St has a solution: the function that
\* a recursive definition chooses exists.
LEMMA RecursionExists ==
  ASSUME NEW n \in Nat, NEW St, NEW base \in St, NEW next \in [(1..n) \X St -> St]
  PROVE  \E g : Solves(g, n, St, base, next)
<1> DEFINE Upto(k, g) == \A i \in 0..k : g[i] = IF i = 0 THEN base ELSE next[<<i, g[i - 1]>>]
<1> PICK T : T = {k \in 0..n : \E g \in [0..k -> St] : Upto(k, g)}  OBVIOUS
<1>1. 0 \in T
  <2> PICK g : g = [i \in 0..0 |-> base]  OBVIOUS
  <2>1. g \in [0..0 -> St] /\ Upto(0, g)  OBVIOUS
  <2> QED BY <2>1
<1>2. ASSUME NEW k \in 1..n, k - 1 \in T  PROVE k \in T
  <2>1. PICK g \in [0..(k - 1) -> St] : Upto(k - 1, g)  BY <1>2
  <2>2. PICK h : h = [i \in 0..k |-> IF i = k THEN next[<<k, g[k - 1]>>] ELSE g[i]]  OBVIOUS
  <2>3. next[<<k, g[k - 1]>>] \in St  BY <2>1
  <2>4. h \in [0..k -> St]  BY <2>1, <2>2, <2>3
  <2>5. ASSUME NEW i \in 0..k PROVE h[i] = IF i = 0 THEN base ELSE next[<<i, h[i - 1]>>]
    <3>1. CASE i = k  BY <3>1, <2>2
    <3>2. CASE i # k
      <4>1. i \in 0..(k - 1) /\ (i # 0 => i - 1 \in 0..k /\ i - 1 # k)  BY <3>2
      <4>2. h[i] = g[i] /\ (i # 0 => h[i - 1] = g[i - 1])  BY <4>1, <2>2, <3>2
      <4> QED BY <4>1, <4>2, <2>1
    <3> QED BY <3>1, <3>2
  <2> QED BY <2>4, <2>5
<1>3. \A i \in 0..n : i \in T  BY <1>1, <1>2, UpTo
<1>4. n \in T  BY <1>3
<1> QED BY <1>4 DEF Solves

-----------------------------------------------------------------------------
(* Folds *)

\* acc has the values the fold goes through.
FoldsTo(acc, k, base, seq, St) ==
    /\ acc \in [0..Len(seq) -> St]
    /\ acc[0] = base
    /\ \A n \in 1..Len(seq) : acc[n] = Op(k, acc[n - 1], seq[n])
    /\ FoldOf(k, base, seq) = acc[Len(seq)]

\* A fold whose step stays in St goes through values of St, one for each element.
THEOREM Fold ==
  ASSUME NEW S, NEW seq \in Seq(S), NEW k, NEW St, NEW base \in St,
         \A a \in St, x \in S : Op(k, a, x) \in St
  PROVE  \E acc : FoldsTo(acc, k, base, seq, St)
<1> DEFINE N == Len(seq)
           Rec(f) == [n \in 0..N |->
                         IF n = 0 THEN base
                         ELSE CHOOSE y \in {Op(k, a, seq[n]) : a \in Once(f[n - 1])} : TRUE]
<1> PICK acc : acc = (CHOOSE f : f = Rec(f))  OBVIOUS
<1>1. FoldOf(k, base, seq) = acc[N]  BY DEF FoldOf
<1>2. N \in Nat /\ \A i \in 1..N : seq[i] \in S  OBVIOUS
<1> HIDE DEF N
<1>3. ASSUME NEW e, NEW x PROVE (CHOOSE y \in {Op(k, a, x) : a \in Once(e)} : TRUE) = Op(k, e, x)
  <2>1. {Op(k, a, x) : a \in Once(e)} = {Op(k, e, x)}  BY DEF Once
  <2> QED BY <2>1
<1>4. \A f : Rec(f) = [n \in 0..N |-> IF n = 0 THEN base ELSE Op(k, f[n - 1], seq[n])]
  BY <1>3
<1> HIDE DEF Rec
<1> PICK next : next = [p \in (1..N) \X St |-> Op(k, p[2], seq[p[1]])]  OBVIOUS
<1>5. next \in [(1..N) \X St -> St]  BY <1>2
<1>6. PICK g : Solves(g, N, St, base, next)  BY <1>2, <1>5, RecursionExists
<1>7. ASSUME NEW i \in 0..N
      PROVE  g[i] = IF i = 0 THEN base ELSE Op(k, g[i - 1], seq[i])
  <2>1. CASE i = 0  BY <1>6, <2>1 DEF Solves
  <2>2. CASE i # 0
    <3>1. i \in 1..N /\ i - 1 \in 0..N  BY <1>2, <2>2
    <3>2. g[i - 1] \in St  BY <1>6, <3>1 DEF Solves
    <3> QED BY <3>1, <3>2, <1>6, <2>2 DEF Solves
  <2> QED BY <2>1, <2>2
<1>8. g = Rec(g)  BY <1>4, <1>6, <1>7 DEF Solves
<1>9. acc = Rec(acc)  BY <1>8
<1>10. acc = [n \in 0..N |-> IF n = 0 THEN base ELSE Op(k, acc[n - 1], seq[n])]  BY <1>4, <1>9
<1>11. acc[0] = base /\ \A i \in 1..N : acc[i] = Op(k, acc[i - 1], seq[i])
  <2>1. \A i \in 0..N : acc[i] = IF i = 0 THEN base ELSE Op(k, acc[i - 1], seq[i])  BY <1>10
  <2> QED BY <2>1, <1>2
<1> PICK T : T = {i \in 0..N : acc[i] \in St}  OBVIOUS
<1>12. 0 \in T
  <2>1. 0 \in 0..N  BY <1>2
  <2> QED BY <2>1, <1>11
<1>13. ASSUME NEW i \in 1..N, i - 1 \in T PROVE i \in T
  <2>1. acc[i - 1] \in St  BY <1>13
  <2> QED BY <2>1, <1>2, <1>11
<1>14. \A i \in 0..N : i \in T  BY <1>2, <1>12, <1>13, UpTo
<1>15. acc \in [0..N -> St]  BY <1>10, <1>14
<1> QED BY <1>1, <1>11, <1>15 DEF N, FoldsTo
=============================================================================
