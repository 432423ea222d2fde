--------------------------- MODULE MCProjectIndex ---------------------------
(***************************************************************************)
(* Small instances of ProjectIndex: two paths, and versions of one or two   *)
(* parts that share parts.                                                  *)
(*   Shared:    a long version, a short one that is its first part, and a   *)
(*              blank one.                                                  *)
(*   Recased:   two versions that differ in case only.                      *)
(*   Long:      one version of two parts.                                   *)
(***************************************************************************)
EXTENDS ProjectIndex, TLC

CONSTANTS x1, x2, fa, fb, long, short, blank, head, tail

OneIndexer == {x1}
TwoFiles == {fa, fb}
OneFile == {fa}
TwoParts == {head, tail}
Lines == head :> "1-120" @@ tail :> "121-130"

SharedVersions == {long, short, blank}
SharedParts == long :> <<head, tail>> @@ short :> <<head>> @@ blank :> <<>>
SharedDigest == [v \in SharedVersions |-> v]
SharedHash == [p \in TwoParts |-> p]
FileSymmetry == Permutations(TwoFiles)

RecasedVersions == {long, short}
RecasedParts == long :> <<head>> @@ short :> <<tail>>
RecasedDigest == [v \in RecasedVersions |-> "same"]
RecasedHash == [p \in TwoParts |-> "same"]
RecasedLines == [p \in TwoParts |-> "1-120"]

LongVersions == {long}
LongParts == long :> <<head, tail>>
LongDigest == long :> long
=============================================================================
