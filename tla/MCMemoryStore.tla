---------------------------- MODULE MCMemoryStore ----------------------------
(***************************************************************************)
(* Small instances of MemoryStore.                                          *)
(*   Copies:  three rows that can be copies of one memory, written directly *)
(*            or by accepting a candidate.                                  *)
(*   Shared:  one content written to two projects: rows that share a        *)
(*            content hash only.  One is of low value and short-lived, one  *)
(*            is written already deleted.                                   *)
(*   Expiry:  two copies, the more important one with a ttl.                *)
(*   Pair:    two lasting copies.                                           *)
(* Two clients are enough for every race of a check and its act; the calls  *)
(* that are one transaction need no client and may come between any two     *)
(* steps.                                                                   *)
(***************************************************************************)
EXTENDS MemoryStore, TLC

CONSTANTS c1, c2, m1, m2, m3, x1, p1, p2

TwoClients == {c1, c2}
OneClient == {c1}
OneProject == {p1}
TwoProjects == {p1, p2}

Fact == [hash |-> "h", project |-> p1, type |-> "fact"]
FactElsewhere == [hash |-> "h", project |-> p2, type |-> "fact"]
OneKey == {Fact}
TwoKeys == {Fact, FactElsewhere}
CandFact == x1 :> Fact
OneCand == {x1}
NoCands == {}
NoCandKeys == <<>>

CopiesId == {m1, m2, m3}
CopiesKey == [i \in CopiesId |-> Fact]
CopiesStatus == [i \in CopiesId |-> "active"]
CopiesImportance == [i \in CopiesId |-> 1]
Lasting == {}
CopiesSymmetry == Permutations(TwoClients) \cup Permutations(CopiesId)

SharedId == {m1, m2, m3}
SharedKey == m1 :> Fact @@ m2 :> FactElsewhere @@ m3 :> FactElsewhere
SharedStatus == m1 :> "active" @@ m2 :> "active" @@ m3 :> "deleted"
SharedImportance == m1 :> 0 @@ m2 :> 1 @@ m3 :> 1
SharedTtl == {m1}
SharedSymmetry == Permutations(TwoClients)

ExpiryId == {m1, m2}
ExpiryKey == [i \in ExpiryId |-> Fact]
ExpiryStatus == [i \in ExpiryId |-> "active"]
ExpiryImportance == m1 :> 2 @@ m2 :> 1
ExpiryTtl == {m1}
PairImportance == [i \in ExpiryId |-> 1]
=============================================================================
