---------------------------- MODULE MCPackSession ----------------------------
(***************************************************************************)
(* Small instances of PackSession.  Two clients, one session; two pairs of  *)
(* contradicting memories, so that a transaction has a first INSERT and     *)
(* others, or one.                                                          *)
(***************************************************************************)
EXTENDS PackSession, TLC

CONSTANTS c1, c2, m1, m2, m3, k1, project, everything

TwoClients == {c1, c2}
OneClient == {c1}
TwoMems == {m1, m2}
ThreeMems == {m1, m2, m3}
OneSession == {k1}
TwoScopes == {project, everything}
OneScope == {project}
TwoPairs == {{m1, m2}, {m1, m3}}
OnePair == {{m1, m2}}
PairSymmetry == Permutations(TwoClients) \cup Permutations({m2, m3})
=============================================================================
