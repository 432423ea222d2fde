--------------------------- MODULE Ordering_proofs ---------------------------
(***************************************************************************)
(* What filtering, adding up and sorting return.                            *)
(***************************************************************************)
EXTENDS Ordering, FiniteSetTheorems, TLAPS

Keeping == INSTANCE Folding WITH Op <- KeepIn
Adding == INSTANCE Folding WITH Op <- AddUp

-----------------------------------------------------------------------------
(* Sequences *)

\* An append adds its element to the items, and nothing else.
LEMMA ItemsOfAppend ==
  ASSUME NEW S, NEW seq \in Seq(S), NEW x \in S
  PROVE  Items(Append(seq, x)) = Items(seq) \cup {x}
<1> DEFINE longer == Append(seq, x)
<1>1. /\ DOMAIN longer = 1..(Len(seq) + 1) /\ DOMAIN seq = 1..Len(seq) /\ Len(seq) \in Nat
      /\ \A i \in 1..Len(seq) : longer[i] = seq[i]
      /\ longer[Len(seq) + 1] = x
  OBVIOUS
<1> HIDE DEF longer
<1>2. DOMAIN longer = DOMAIN seq \cup {Len(seq) + 1}  BY <1>1
<1>3. Items(longer) = {longer[i] : i \in DOMAIN seq \cup {Len(seq) + 1}}  BY <1>2 DEF Items
<1>4. \A y : y \in Items(longer) <=> y \in Items(seq) \cup {x}  BY <1>1, <1>3 DEF Items
<1> QED BY <1>4 DEF longer

\* The items are those of the tail, and the head.
LEMMA ItemsOfTail ==
  ASSUME NEW S, NEW seq \in Seq(S), seq # <<>>
  PROVE  /\ Tail(seq) \in Seq(S)
         /\ Len(Tail(seq)) = Len(seq) - 1
         /\ Items(seq) = Items(Tail(seq)) \cup {Head(seq)}
<1> DEFINE rest == Tail(seq)
<1>1. /\ rest \in Seq(S) /\ Len(rest) = Len(seq) - 1 /\ Len(seq) \in Nat /\ Len(seq) > 0
      /\ DOMAIN rest = 1..(Len(seq) - 1) /\ DOMAIN seq = 1..Len(seq)
      /\ \A i \in 1..(Len(seq) - 1) : rest[i] = seq[i + 1]
      /\ Head(seq) = seq[1]
  OBVIOUS
<1> HIDE DEF rest
<1>2. ASSUME NEW y \in Items(seq) PROVE y \in Items(rest) \cup {Head(seq)}
  <2>1. PICK i \in 1..Len(seq) : seq[i] = y  BY <1>1, <1>2 DEF Items
  <2>2. CASE i = 1  BY <1>1, <2>1, <2>2
  <2>3. CASE i # 1
    <3>1. i - 1 \in 1..(Len(seq) - 1) /\ (i - 1) + 1 = i  BY <1>1, <2>3
    <3>2. rest[i - 1] = y  BY <1>1, <2>1, <3>1
    <3> QED BY <1>1, <3>1, <3>2 DEF Items
  <2> QED BY <2>2, <2>3
<1>3. ASSUME NEW y \in Items(rest) PROVE y \in Items(seq)
  <2>1. PICK i \in 1..(Len(seq) - 1) : rest[i] = y  BY <1>1, <1>3 DEF Items
  <2>2. i + 1 \in 1..Len(seq) /\ seq[i + 1] = y  BY <1>1, <2>1
  <2> QED BY <1>1, <2>2 DEF Items
<1>4. Head(seq) \in Items(seq)  BY <1>1 DEF Items
<1> QED BY <1>1, <1>2, <1>3, <1>4 DEF rest

\* A prefix has no items of its own.
LEMMA ItemsOfPrefix ==
  ASSUME NEW S, NEW seq \in Seq(S), NEW m \in 0..Len(seq)
  PROVE  SubSeq(seq, 1, m) \in Seq(S) /\ Items(SubSeq(seq, 1, m)) \subseteq Items(seq)
<1>1. SubSeq(seq, 1, m) \in Seq(S)  OBVIOUS
<1> QED BY <1>1 DEF Items

-----------------------------------------------------------------------------
(* Filtering *)

\* A filter keeps what is in the set, all of it, and nothing else.
LEMMA FilteredItems ==
  ASSUME NEW S, NEW seq \in Seq(S), NEW kept
  PROVE  /\ Filtered(seq, kept) \in Seq(S)
         /\ Items(Filtered(seq, kept)) = Items(seq) \cap kept
<1>1. <<>> \in Seq(S)  OBVIOUS
<1>2. \A a \in Seq(S), x \in S : KeepIn(kept, a, x) \in Seq(S)  BY DEF KeepIn
<1>3. Filtered(seq, kept) = Keeping!FoldOf(kept, <<>>, seq)
  BY DEF Filtered, FoldOf, Once, Keeping!FoldOf, Keeping!Once
<1>4. PICK acc : Keeping!FoldsTo(acc, kept, <<>>, seq, Seq(S))  BY <1>1, <1>2, Keeping!Fold
<1> PICK N \in Nat : N = Len(seq)  OBVIOUS
<1>5. /\ acc \in [0..N -> Seq(S)]
      /\ acc[0] = <<>>
      /\ \A n \in 1..N : acc[n] = KeepIn(kept, acc[n - 1], seq[n])
      /\ Filtered(seq, kept) = acc[N]
  BY <1>3, <1>4 DEF Keeping!FoldsTo
<1>6. \A n \in 1..N : seq[n] \in S  OBVIOUS
<1> DEFINE First(n) == {seq[i] : i \in 1..n}
<1>7. Items(seq) = First(N)  BY DEF Items
<1> PICK T : T = {n \in 0..N : Items(acc[n]) = First(n) \cap kept}  OBVIOUS
<1>8. 0 \in T
  <2>1. Items(<<>>) = {}  BY DEF Items
  <2>2. First(0) = {}  OBVIOUS
  <2>3. 0 \in 0..N  OBVIOUS
  <2> QED BY <2>1, <2>2, <2>3, <1>5
<1>9. ASSUME NEW n \in 1..N, n - 1 \in T PROVE n \in T
  <2>1. acc[n - 1] \in Seq(S) /\ seq[n] \in S  BY <1>5, <1>6
  <2>2. Items(acc[n - 1]) = First(n - 1) \cap kept  BY <1>9
  <2>3. 1..n = 1..(n - 1) \cup {n}  OBVIOUS
  <2>4. First(n) = First(n - 1) \cup {seq[n]}  BY <2>3
  <2>5. Items(Append(acc[n - 1], seq[n])) = Items(acc[n - 1]) \cup {seq[n]}
    BY <2>1, ItemsOfAppend
  <2>6. acc[n] = KeepIn(kept, acc[n - 1], seq[n])  BY <1>5
  <2>7. n \in 0..N  OBVIOUS
  <2> HIDE DEF First
  <2>8. Items(acc[n]) = First(n) \cap kept
    <3>1. CASE seq[n] \in kept
      <4>1. Items(acc[n]) = Items(acc[n - 1]) \cup {seq[n]}  BY <2>5, <2>6, <3>1 DEF KeepIn
      <4> QED BY <4>1, <2>2, <2>4, <3>1
    <3>2. CASE seq[n] \notin kept
      <4>1. acc[n] = acc[n - 1]  BY <2>6, <3>2 DEF KeepIn
      <4> QED BY <4>1, <2>2, <2>4, <3>2
    <3> QED BY <3>1, <3>2
  <2> QED BY <2>7, <2>8
<1>10. \A n \in 0..N : n \in T  BY <1>8, <1>9, Keeping!UpTo
<1>11. N \in T  BY <1>10
<1> QED BY <1>5, <1>7, <1>11

-----------------------------------------------------------------------------
(* Adding up *)

\* A total goes through the sums of its prefixes, which are integers.
LEMMA TotalFold ==
  ASSUME NEW S, NEW seq \in Seq(S), NEW f, \A x \in S : f[x] \in Int
  PROVE  \E acc : Adding!FoldsTo(acc, f, 0, seq, Int) /\ Total(f, seq) = acc[Len(seq)]
<1>1. \A a \in Int, x \in S : AddUp(f, a, x) \in Int  BY DEF AddUp
<1>2. Total(f, seq) = Adding!FoldOf(f, 0, seq)
  BY DEF Total, FoldOf, Once, Adding!FoldOf, Adding!Once
<1>3. 0 \in Int  OBVIOUS
<1>4. PICK acc : Adding!FoldsTo(acc, f, 0, seq, Int)  BY <1>1, <1>3, Adding!Fold
<1> QED BY <1>2, <1>4 DEF Adding!FoldsTo

\* A total of integers is one.
LEMMA TotalType ==
  ASSUME NEW S, NEW seq \in Seq(S), NEW f, \A x \in S : f[x] \in Int
  PROVE  Total(f, seq) \in Int
BY TotalFold DEF Adding!FoldsTo

\* Nothing but zeros adds up to zero.
LEMMA TotalOfNothing ==
  ASSUME NEW S, NEW seq \in Seq(S), NEW f, \A x \in S : f[x] = 0
  PROVE  Total(f, seq) = 0
<1>1. PICK acc : Adding!FoldsTo(acc, f, 0, seq, Int) /\ Total(f, seq) = acc[Len(seq)]
  BY TotalFold
<1> PICK N \in Nat : N = Len(seq)  OBVIOUS
<1>2. /\ acc[0] = 0 /\ Total(f, seq) = acc[N]
      /\ \A n \in 1..N : acc[n] = acc[n - 1] + f[seq[n]]
  BY <1>1 DEF Adding!FoldsTo, AddUp
<1>3. \A n \in 1..N : seq[n] \in S  OBVIOUS
<1> PICK T : T = {n \in 0..N : acc[n] = 0}  OBVIOUS
<1>4. 0 \in T  BY <1>2
<1>5. ASSUME NEW n \in 1..N, n - 1 \in T PROVE n \in T  BY <1>2, <1>3, <1>5
<1>6. \A n \in 0..N : n \in T  BY <1>4, <1>5, Keeping!UpTo
<1> QED BY <1>2, <1>6

\* A change at one place of f changes the total by as much.
LEMMA TotalChange ==
  ASSUME NEW S, NEW seq \in Seq(S), NEW f, NEW g, NEW p \in S, NEW d \in Int,
         \A x \in S : f[x] \in Int /\ g[x] = IF x = p THEN f[x] + d ELSE f[x],
         \E i \in 1..Len(seq) : seq[i] = p,
         \A i, j \in 1..Len(seq) : seq[i] = seq[j] => i = j
  PROVE  Total(g, seq) = Total(f, seq) + d
<1>1. \A x \in S : f[x] \in Int /\ g[x] \in Int  OBVIOUS
<1>2. PICK F : Adding!FoldsTo(F, f, 0, seq, Int) /\ Total(f, seq) = F[Len(seq)]
  BY <1>1, TotalFold
<1>3. PICK G : Adding!FoldsTo(G, g, 0, seq, Int) /\ Total(g, seq) = G[Len(seq)]
  BY <1>1, TotalFold
<1> PICK N \in Nat : N = Len(seq)  OBVIOUS
<1>4. PICK i \in 1..N : seq[i] = p  OBVIOUS
<1>5. /\ F \in [0..N -> Int] /\ F[0] = 0 /\ \A n \in 1..N : F[n] = F[n - 1] + f[seq[n]]
      /\ G \in [0..N -> Int] /\ G[0] = 0 /\ \A n \in 1..N : G[n] = G[n - 1] + g[seq[n]]
  BY <1>2, <1>3 DEF Adding!FoldsTo, AddUp
<1> PICK T : T = {n \in 0..N : G[n] = F[n] + IF i <= n THEN d ELSE 0}  OBVIOUS
<1>6. 0 \in T  BY <1>5
<1>7. ASSUME NEW n \in 1..N, n - 1 \in T PROVE n \in T
  <2>1. G[n - 1] = F[n - 1] + IF i <= n - 1 THEN d ELSE 0  BY <1>7
  <2>2. F[n - 1] \in Int /\ G[n - 1] \in Int /\ seq[n] \in S  BY <1>5
  <2>3. F[n] = F[n - 1] + f[seq[n]] /\ G[n] = G[n - 1] + g[seq[n]]  BY <1>5
  <2>4. CASE n = i
    <3>1. g[seq[n]] = f[seq[n]] + d /\ f[seq[n]] \in Int  BY <2>2, <2>4, <1>4
    <3>2. G[n] = F[n] + d  BY <2>1, <2>2, <2>3, <2>4, <3>1
    <3> QED BY <3>2, <2>4
  <2>5. CASE n # i
    <3>1. seq[n] # p  BY <2>5, <1>4
    <3>2. g[seq[n]] = f[seq[n]] /\ f[seq[n]] \in Int  BY <2>2, <3>1
    <3>3. i <= n <=> i <= n - 1  BY <2>5
    <3>4. G[n] = F[n] + IF i <= n THEN d ELSE 0  BY <2>1, <2>2, <2>3, <3>2, <3>3
    <3> QED BY <3>4
  <2> QED BY <2>4, <2>5
<1>8. \A n \in 0..N : n \in T  BY <1>6, <1>7, Keeping!UpTo
<1>9. N \in T  BY <1>8
<1> QED BY <1>2, <1>3, <1>9

-----------------------------------------------------------------------------
(* Sorting *)

\* Each element of S once.
Enumerates(seq, S) ==
    /\ seq \in [1..Cardinality(S) -> S]
    /\ \A x \in S : \E i \in 1..Cardinality(S) : seq[i] = x
    /\ \A i, j \in 1..Cardinality(S) : seq[i] = seq[j] => i = j

\* Of two keys of one length that differ, one precedes the other.
LEMMA PrecedesTotal ==
  ASSUME NEW n \in Nat, NEW a \in [1..n -> Int], NEW b \in [1..n -> Int], a # b
  PROVE  Precedes(a, b) \/ Precedes(b, a)
<1>1. CASE \E i \in 1..n : a[i] # b[i] /\ \A j \in 1..(i - 1) : a[j] = b[j]
  <2>1. PICK i \in 1..n : a[i] # b[i] /\ \A j \in 1..(i - 1) : a[j] = b[j]  BY <1>1
  <2>2. a[i] > b[i] \/ b[i] > a[i]  BY <2>1
  <2> QED BY <2>1, <2>2 DEF Precedes
<1>2. CASE ~\E i \in 1..n : a[i] # b[i] /\ \A j \in 1..(i - 1) : a[j] = b[j]
  <2> PICK T : T = {i \in 0..n : \A j \in 1..i : a[j] = b[j]}  OBVIOUS
  <2>1. 0 \in T  OBVIOUS
  <2>2. ASSUME NEW i \in 1..n, i - 1 \in T PROVE i \in T
    <3>1. \A j \in 1..(i - 1) : a[j] = b[j]  BY <2>2
    <3>2. a[i] = b[i]  BY <1>2, <3>1
    <3> QED BY <3>1, <3>2
  <2>3. \A i \in 0..n : i \in T  BY <2>1, <2>2, Keeping!UpTo
  <2>4. n \in T
    <3>1. n \in 0..n  OBVIOUS
    <3> QED BY <2>3, <3>1
  <2>5. \A j \in 1..n : a[j] = b[j]  BY <2>4
  <2> QED BY <2>5
<1> QED BY <1>1, <1>2

\* No key precedes itself, and what precedes a key precedes those after it.
LEMMA PrecedesOrders ==
  ASSUME NEW n \in Nat, NEW a \in [1..n -> Int], NEW b \in [1..n -> Int],
         NEW c \in [1..n -> Int]
  PROVE  ~Precedes(a, a) /\ (Precedes(a, b) /\ Precedes(b, c) => Precedes(a, c))
<1>1. ~Precedes(a, a)  BY DEF Precedes
<1>2. ASSUME Precedes(a, b), Precedes(b, c) PROVE Precedes(a, c)
  <2>1. PICK i \in 1..n : a[i] > b[i] /\ \A k \in 1..(i - 1) : a[k] = b[k]
    BY <1>2 DEF Precedes
  <2>2. PICK j \in 1..n : b[j] > c[j] /\ \A k \in 1..(j - 1) : b[k] = c[k]
    BY <1>2 DEF Precedes
  <2>3. CASE i <= j
    <3>1. a[i] > c[i]
      <4>1. CASE i = j  BY <4>1, <2>1, <2>2
      <4>2. CASE i # j
        <5>1. i \in 1..(j - 1)  BY <4>2, <2>3
        <5> QED BY <5>1, <2>1, <2>2
      <4> QED BY <4>1, <4>2
    <3>2. \A k \in 1..(i - 1) : a[k] = c[k]  BY <2>1, <2>2, <2>3
    <3> QED BY <3>1, <3>2 DEF Precedes
  <2>4. CASE j < i
    <3>1. j \in 1..(i - 1)  BY <2>4
    <3>2. a[j] > c[j]  BY <3>1, <2>1, <2>2
    <3>3. \A k \in 1..(j - 1) : a[k] = c[k]  BY <2>1, <2>2, <2>4
    <3> QED BY <3>2, <3>3 DEF Precedes
  <2> QED BY <2>3, <2>4
<1> QED BY <1>1, <1>2

\* Sorting by keys that tell the elements apart gives each of them once.
LEMMA SortedEnumerates ==
  ASSUME NEW S, IsFiniteSet(S), NEW n \in Nat, NEW key \in [S -> [1..n -> Int]],
         \A x, y \in S : key[x] = key[y] => x = y
  PROVE  Enumerates(SortedBy(S, key), S)
<1> PICK N \in Nat : N = Cardinality(S)  BY FS_CardinalityType
<1> DEFINE Before(x) == {y \in S : Precedes(key[y], key[x])}
           sorted == [i \in 1..Cardinality(S) |->
                         CHOOSE x \in S : Cardinality(Before(x)) = i - 1]
<1>1. SortedBy(S, key) = sorted
  <2>1. SortedBy(S, key) = InOrder(S, key)  BY DEF SortedBy, With, Once
  <2> QED BY <2>1 DEF InOrder
<1>2. \A x \in S : /\ IsFiniteSet(Before(x)) /\ Cardinality(Before(x)) \in Nat
                   /\ x \notin Before(x)
  <2> SUFFICES ASSUME NEW x \in S
               PROVE  /\ IsFiniteSet(Before(x)) /\ Cardinality(Before(x)) \in Nat
                      /\ x \notin Before(x)
    OBVIOUS
  <2>1. ~Precedes(key[x], key[x])
    <3>1. key[x] \in [1..n -> Int]  OBVIOUS
    <3> QED BY <3>1 DEF Precedes
  <2>2. Before(x) \in SUBSET S /\ x \notin Before(x)  BY <2>1
  <2> HIDE DEF Before
  <2>3. IsFiniteSet(Before(x))  BY <2>2, FS_Subset
  <2> QED BY <2>2, <2>3, FS_CardinalityType
<1>3. ASSUME NEW x \in S, NEW y \in Before(x)
      PROVE  Cardinality(Before(y)) < Cardinality(Before(x))
  <2>1. \A z \in Before(y) : z \in Before(x)  BY <1>3, PrecedesOrders
  <2>2. y \in Before(x) /\ y \notin Before(y) /\ y \in S  BY <1>2
  <2>3. Before(y) \in SUBSET Before(x) /\ Before(y) # Before(x)  BY <2>1, <2>2
  <2> HIDE DEF Before
  <2>4. /\ Cardinality(Before(y)) <= Cardinality(Before(x))
        /\ Cardinality(Before(x)) # Cardinality(Before(y))
    BY <1>2, <2>3, FS_Subset
  <2> QED BY <1>2, <2>2, <2>4
<1>4. \A x, y \in S : Cardinality(Before(x)) = Cardinality(Before(y)) => x = y
  <2> SUFFICES ASSUME NEW x \in S, NEW y \in S, x # y
               PROVE  Cardinality(Before(x)) # Cardinality(Before(y))
    OBVIOUS
  <2>1. Precedes(key[x], key[y]) \/ Precedes(key[y], key[x])
    <3>1. key[x] # key[y]  OBVIOUS
    <3> QED BY <3>1, PrecedesTotal
  <2>2. x \in Before(y) \/ y \in Before(x)  BY <2>1
  <2>3. Cardinality(Before(x)) \in Nat /\ Cardinality(Before(y)) \in Nat  BY <1>2
  <2> HIDE DEF Before
  <2> QED BY <1>3, <2>2, <2>3
<1>5. \A x \in S : Cardinality(Before(x)) \in 0..(N - 1)
  <2> SUFFICES ASSUME NEW x \in S PROVE Cardinality(Before(x)) \in 0..(N - 1)  OBVIOUS
  <2>1. Before(x) \in SUBSET S /\ Before(x) # S /\ Cardinality(Before(x)) \in Nat  BY <1>2
  <2> HIDE DEF Before
  <2>2. Cardinality(Before(x)) <= N /\ N # Cardinality(Before(x))  BY <2>1, FS_Subset
  <2> QED BY <2>1, <2>2
<1> HIDE DEF Before
<1> PICK rank : rank = [x \in S |-> Cardinality(Before(x))]  OBVIOUS
<1>6. rank \in Injection(S, 0..(N - 1))  BY <1>4, <1>5 DEF Injection, IsInjective
<1>7. IsFiniteSet(0..(N - 1)) /\ Cardinality(0..(N - 1)) = N
  <2>1. 0 \in Int /\ N - 1 \in Int  OBVIOUS
  <2>2. IsFiniteSet(0..(N - 1))
        /\ Cardinality(0..(N - 1)) = IF 0 > N - 1 THEN 0 ELSE (N - 1) - 0 + 1
    BY <2>1, FS_Interval
  <2> QED BY <2>2
<1>8. rank \in Surjection(S, 0..(N - 1))  BY <1>6, <1>7, FS_Injection
<1>9. \A i \in 1..N : \E x \in S : Cardinality(Before(x)) = i - 1
  <2> SUFFICES ASSUME NEW i \in 1..N PROVE \E x \in S : Cardinality(Before(x)) = i - 1  OBVIOUS
  <2>1. i - 1 \in 0..(N - 1)  OBVIOUS
  <2>2. \E x \in S : rank[x] = i - 1  BY <1>8, <2>1 DEF Surjection
  <2> QED BY <2>2
<1>10. \A i \in 1..N : sorted[i] \in S /\ Cardinality(Before(sorted[i])) = i - 1
  <2> SUFFICES ASSUME NEW i \in 1..N
               PROVE  sorted[i] \in S /\ Cardinality(Before(sorted[i])) = i - 1
    OBVIOUS
  <2>1. sorted[i] = CHOOSE x \in S : Cardinality(Before(x)) = i - 1  OBVIOUS
  <2> QED BY <2>1, <1>9
<1>11. sorted \in [1..N -> S]
  <2>1. sorted = [i \in 1..N |-> sorted[i]]  OBVIOUS
  <2> HIDE DEF sorted
  <2> QED BY <1>10, <2>1
<1> HIDE DEF sorted
<1>12. ASSUME NEW x \in S PROVE \E i \in 1..N : sorted[i] = x
  <2>1. Cardinality(Before(x)) + 1 \in 1..N  BY <1>5
  <2> WITNESS Cardinality(Before(x)) + 1 \in 1..N
  <2>2. Cardinality(Before(x)) \in Nat  BY <1>2
  <2> QED BY <1>4, <1>10, <2>1, <2>2
<1>13. \A i, j \in 1..N : sorted[i] = sorted[j] => i = j  BY <1>10
<1> QED BY <1>1, <1>11, <1>12, <1>13 DEF Enumerates

-----------------------------------------------------------------------------
(* Finite sets *)

\* The interval from 1 to n has n elements.
LEMMA IntervalSize ==
  ASSUME NEW n \in Nat
  PROVE  IsFiniteSet(1..n) /\ Cardinality(1..n) = n
<1>1. IsFiniteSet(1..n)  BY FS_Interval
<1>2. Cardinality(1..n) = IF 1 > n THEN 0 ELSE n - 1 + 1  BY FS_Interval
<1> QED BY <1>1, <1>2

\* Induction over a finite set, one element added at a time.
LEMMA SetInduction ==
  ASSUME NEW S, IsFiniteSet(S), NEW F, {} \in F,
         \A T \in SUBSET S, x \in S : T \in F /\ x \notin T => T \cup {x} \in F
  PROVE  S \in F
<1> PICK B : B = {T \in SUBSET S : T \notin F}  OBVIOUS
<1> PICK R : R = StrictSubsetOrdering(S)  OBVIOUS
<1>1. IsWellFoundedOn(R, FiniteSubsetsOf(S))  BY FS_StrictSubsetOrderingWellFounded
<1>2. B \subseteq FiniteSubsetsOf(S)  BY FS_FiniteSubsetsOfFinite
<1>3. CASE B # {}
  <2>1. PICK T \in B : \A U \in B : ~(<<U, T>> \in R)  BY <1>1, <1>2, <1>3, WFMin
  <2>2. PICK x \in T : TRUE  BY <2>1
  <2>3. T \ {x} \notin B  BY <2>1, <2>2 DEF StrictSubsetOrdering
  <2>4. (T \ {x}) \cup {x} = T  BY <2>2
  <2> QED BY <2>1, <2>2, <2>3, <2>4
<1> QED BY <1>3

\* A finite set of integers that is not empty has a greatest one.
LEMMA GreatestExists ==
  ASSUME NEW S \in SUBSET Int, IsFiniteSet(S), S # {}
  PROVE  \E x \in S : \A y \in S : x >= y
<1>0. PICK F : F = {T \in SUBSET S : T = {} \/ \E x \in T : \A y \in T : x >= y}  OBVIOUS
<1>1. {} \in F  BY <1>0
<1>2. ASSUME NEW T \in SUBSET S, NEW x \in S, T \in F PROVE T \cup {x} \in F
  <2>1. CASE T = {}  BY <1>0, <2>1
  <2>2. CASE T # {}
    <3>1. PICK z \in T : \A y \in T : z >= y  BY <1>0, <1>2, <2>2
    <3>2. CASE x >= z
      <4>1. \A y \in T \cup {x} : x >= y  BY <3>1, <3>2
      <4> QED BY <1>0, <4>1
    <3>3. CASE z > x
      <4>1. \A y \in T \cup {x} : z >= y  BY <3>1, <3>3
      <4> QED BY <1>0, <3>1, <4>1
    <3> QED BY <3>1, <3>2, <3>3
  <2> QED BY <2>1, <2>2
<1>3. \A T \in SUBSET S, x \in S : T \in F /\ x \notin T => T \cup {x} \in F  BY <1>2
<1>4. S \in F  BY <1>1, <1>3, SetInduction
<1> QED BY <1>0, <1>4

\* What a function makes of a finite set is finite.
LEMMA FiniteImage ==
  ASSUME NEW S, IsFiniteSet(S), NEW f
  PROVE  IsFiniteSet({f[x] : x \in S})
<1>1. PICK T : T = {f[x] : x \in S}  OBVIOUS
<1>2. PICK g : g = [x \in S |-> f[x]]  OBVIOUS
<1>3. g \in Surjection(S, T)  BY <1>1, <1>2 DEF Surjection
<1>4. IsFiniteSet(T)  BY <1>3, FS_Surjection
<1> QED BY <1>1, <1>4

\* A sequence has finitely many items.
LEMMA ItemsFinite ==
  ASSUME NEW S, NEW seq \in Seq(S)
  PROVE  IsFiniteSet(Items(seq))
<1>1. DOMAIN seq = 1..Len(seq) /\ Len(seq) \in Nat  OBVIOUS
<1>2. IsFiniteSet(DOMAIN seq)  BY <1>1, IntervalSize
<1>3. IsFiniteSet({seq[i] : i \in DOMAIN seq})  BY <1>2, FiniteImage
<1> QED BY <1>3 DEF Items

-----------------------------------------------------------------------------
(* Sequences of the elements of a set *)

\* A sequence is one of its own elements, which are those of any set it is over.
LEMMA SeqOfItems ==
  ASSUME NEW S, NEW seq \in Seq(S)
  PROVE  seq \in Seq(Items(seq)) /\ Items(seq) \subseteq S
<1>1. \A i \in 1..Len(seq) : seq[i] \in Items(seq) /\ seq[i] \in S  BY DEF Items
<1>2. seq \in Seq(Items(seq))  BY <1>1
<1> QED BY <1>1, <1>2 DEF Items

\* A sequence over a set is one over any larger set.
LEMMA SeqOfSuperset ==
  ASSUME NEW S, NEW T, S \subseteq T, NEW seq \in Seq(S)
  PROVE  seq \in Seq(T)
<1>1. \A i \in 1..Len(seq) : seq[i] \in T  OBVIOUS
<1> QED BY <1>1

\* The first elements of a sequence are some of it.
LEMMA TopType ==
  ASSUME NEW S, NEW seq \in Seq(S), NEW k \in Nat
  PROVE  Top(seq, k) \in Seq(S)
<1>1. CASE Len(seq) <= k  BY <1>1 DEF Top
<1>2. CASE ~(Len(seq) <= k)
  <2>1. k \in 0..Len(seq)  BY <1>2
  <2> QED BY <1>2, <2>1, ItemsOfPrefix DEF Top
<1> QED BY <1>1, <1>2

\* Sorting a set gives a sequence of it.
LEMMA SortedSeq ==
  ASSUME NEW S, IsFiniteSet(S), NEW n \in Nat, NEW key \in [S -> [1..n -> Int]],
         \A x, y \in S : key[x] = key[y] => x = y
  PROVE  SortedBy(S, key) \in Seq(S) /\ Len(SortedBy(S, key)) = Cardinality(S)
<1>1. Enumerates(SortedBy(S, key), S)  BY SortedEnumerates
<1>2. Cardinality(S) \in Nat  BY FS_CardinalityType
<1> QED BY <1>1, <1>2 DEF Enumerates

\* The places of a sequence, sorted, are its places again.
LEMMA SortedPlaces ==
  ASSUME NEW S, NEW seq \in Seq(S), NEW n \in Nat, NEW key \in [DOMAIN seq -> [1..n -> Int]],
         \A i, j \in DOMAIN seq : key[i] = key[j] => i = j
  PROVE  LET order == SortedBy(DOMAIN seq, key) IN
         /\ Len(order) = Len(seq)
         /\ \A k \in 1..Len(seq) : order[k] \in 1..Len(seq) /\ seq[order[k]] \in S
<1>1. DOMAIN seq = 1..Len(seq) /\ Len(seq) \in Nat  OBVIOUS
<1>2. IsFiniteSet(DOMAIN seq) /\ Cardinality(DOMAIN seq) = Len(seq)
  BY <1>1, IntervalSize
<1>3. PICK order : order = SortedBy(DOMAIN seq, key)  OBVIOUS
<1>4. order \in Seq(DOMAIN seq) /\ Len(order) = Len(seq)  BY <1>2, <1>3, SortedSeq
<1>5. \A k \in 1..Len(seq) : order[k] \in 1..Len(seq)  BY <1>1, <1>4
<1> QED BY <1>3, <1>4, <1>5

\* Arranging a sequence keeps it a sequence over the same set.
LEMMA ArrangedType ==
  ASSUME NEW S, NEW seq \in Seq(S), NEW n \in Nat, NEW key \in [DOMAIN seq -> [1..n -> Int]],
         \A i, j \in DOMAIN seq : key[i] = key[j] => i = j
  PROVE  Arranged(seq, key) \in Seq(S)
<1>1. PICK order : order = SortedBy(DOMAIN seq, key)  OBVIOUS
<1>2. Len(seq) \in Nat /\ DOMAIN seq = 1..Len(seq)  OBVIOUS
<1>3. \A k \in 1..Len(seq) : seq[order[k]] \in S  BY <1>1, SortedPlaces
<1>4. Permuted(seq, order) \in Seq(S)  BY <1>2, <1>3 DEF Permuted
<1>5. Arranged(seq, key) = Permuted(seq, order)  BY <1>1 DEF Arranged, With, Once
<1> QED BY <1>4, <1>5
=============================================================================
