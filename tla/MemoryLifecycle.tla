--------------------------- MODULE MemoryLifecycle ---------------------------
(***************************************************************************)
(* What the memory tables promise to a reader, with no clients, candidates, *)
(* vectors or half-finished calls: a memory is written once, is live from   *)
(* then on unless it was written already retired, and once retired is never *)
(* live again; the full-text index holds every live memory at all times     *)
(* (and may also hold retired ones).  MemoryStore implements this.          *)
(***************************************************************************)
CONSTANTS MemId

VARIABLES
    life,   \* how far each memory has come
    index   \* the memories full-text search can find

vars == <<life, index>>

Life == {"unborn", "live", "retired"}
Live == {i \in MemId : life[i] = "live"}

Init ==
    /\ life = [i \in MemId |-> "unborn"]
    /\ index = {}

Publish(i) ==
    /\ life[i] = "unborn"
    /\ \/ /\ life' = [life EXCEPT ![i] = "live"]
          /\ index' = index \cup {i}
       \/ /\ life' = [life EXCEPT ![i] = "retired"]
          /\ index' \in {index, index \cup {i}}

\* Some memories retire at once, and any retired ones leave the index.
Retire(S) ==
    /\ life' = [i \in MemId |-> IF i \in S THEN "retired" ELSE life[i]]
    /\ index' \subseteq index
    /\ Live \ S \subseteq index'

Next ==
    \/ \E i \in MemId : Publish(i)
    \/ \E S \in SUBSET Live : Retire(S)

Spec == Init /\ [][Next]_vars
=============================================================================
