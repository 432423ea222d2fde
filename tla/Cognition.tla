------------------------------ MODULE Cognition ------------------------------
(***************************************************************************)
(* What run_cycle reports about the meaning of memories: the consistency    *)
(* model, the semantic profiles, the world model with its fused concepts,   *)
(* the propagation from the memories of a turn, and the drive that makes    *)
(* goals, attention and a task of them.                                     *)
(*                                                                          *)
(* A memory has, besides the numbers of MemoryScheduler, the data its text  *)
(* gives: body, what is left when the markers of a negation and a prefix    *)
(* are taken away; prefix; negative; words, the cue words in it; and terms, *)
(* its tags and entities.  Memories come in the order the database lists    *)
(* them, and are named by their places in it.  Utilities are in             *)
(* ten-thousandths, priorities and attention in hundredths.  Left out are   *)
(* the texts, averages and lists that go into the report of a cycle and     *)
(* that no goal, task or attention is computed from.                        *)
(***************************************************************************)
EXTENDS Integers, Sequences, FiniteSets, Ordering, MemoryScheduler

CONSTANTS
    Body,       \* what memories are about
    NoBody,     \* of a text that has nothing but markers
    Canonical   \* _canonical_concept, of terms and bodies

Prefix == {"none", "decision", "error", "fact", "insight", "pattern"}
Word == {"error", "insight", "pattern"}

ASSUME CognitionAssumption == NoBody \in Body /\ Body \subseteq DOMAIN Canonical

\* _contradiction_key, _semantic_meaning_key.
ContradictionKey(ms) == [i \in DOMAIN ms |-> <<ms[i].prefix, ms[i].body>>]
MeaningKey(ms) == [i \in DOMAIN ms |-> ms[i].body]

\* The members of the group of k, where key gives each memory its key.
Group(key, k) == {i \in DOMAIN key : key[i] = k}
Keys(key) == {key[i] : i \in DOMAIN key}

\* The last positive and the last negative memory of each key that has both.
LastIn(S) == CHOOSE i \in S : \A j \in S : j <= i
Opposed(ms, key) ==
    LET Said(k, negative) == {i \in Group(key, k) : ms[i].negative = negative} IN
    {[key |-> k, pair |-> <<LastIn(Said(k, FALSE)), LastIn(Said(k, TRUE))>>] :
        k \in {k \in Keys(key) : Said(k, FALSE) # {} /\ Said(k, TRUE) # {}}}

-----------------------------------------------------------------------------
(* GlobalConsistencyModel *)

GlobalContradictions(ms) ==
    {c \in Opposed(ms, ContradictionKey(ms)) : c.key # <<"none", NoBody>>}

-----------------------------------------------------------------------------
(* SemanticMemoryModel, SemanticCompressionEngine *)

\* The words of a prefix count as words of the text.
SemanticType(m) ==
    LET words == m.words \cup {m.prefix} IN
    IF m.type = "decision" \/ m.prefix = "decision" THEN "decision"
    ELSE IF m.type = "failure" \/ "error" \in words THEN "error"
    ELSE IF "insight" \in words THEN "insight"
    ELSE IF m.type \in {"constraint", "user_preference"} \/ "pattern" \in words THEN "pattern"
    ELSE "fact"

SemanticBoost(type) ==
    CASE type = "decision" -> 1200 [] type = "error" -> 1000 [] type = "insight" -> 800
      [] type = "pattern" -> 600 [] type = "fact" -> 200

Utility(m) == Clip(Strength(m) + SemanticBoost(SemanticType(m)), 0, 10000)

OutdatedHighWeight(m) == m.age >= 120 /\ m.importance >= 75
LowConfidenceMemory(m) == m.confidence < 45

\* The meanings that more than one memory has are reported as merged.
MergedMeanings(ms) ==
    {S \in {Group(MeaningKey(ms), k) : k \in Keys(MeaningKey(ms))} : Cardinality(S) > 1}

\* semantic_consistency; _semantic_contradictions, and those of CognitiveConsistencyEngine.
Contradictions(ms) == Opposed(ms, MeaningKey(ms))
Outdated(ms) == {i \in DOMAIN ms : OutdatedHighWeight(ms[i])}

-----------------------------------------------------------------------------
(* MemoryWorldModel, SemanticFusionEngine, ReasoningPropagationEngine       *)

\* The concepts a memory expresses, fused.
ConceptsOf(m) ==
    {Canonical[t] : t \in m.terms} \cup (IF m.body = NoBody THEN {} ELSE {Canonical[m.body]})
Fused(ms) == [c \in UNION {ConceptsOf(ms[i]) : i \in DOMAIN ms} |->
                 {i \in DOMAIN ms : c \in ConceptsOf(ms[i])}]

\* Chains from a selected memory to each other one it shares a concept with.
Chains(ms, selected) ==
    {chain \in selected \X DOMAIN ms :
        /\ chain[1] # chain[2]
        /\ \E c \in DOMAIN Fused(ms) : {chain[1], chain[2]} \subseteq Fused(ms)[c]}
Affected(ms, selected) == {chain[2] : chain \in Chains(ms, selected)}

-----------------------------------------------------------------------------
(* CognitiveConsistencyEngine *)

Inconsistent(ms) == {i \in DOMAIN ms : Utility(ms[i]) >= 4500 /\ LowConfidenceMemory(ms[i])}

-----------------------------------------------------------------------------
(* CognitiveDriveEngine *)

\* Mutant: only what denies is looked at.
Denying(ms) == {c.pair[2] : c \in Contradictions(ms)}

\* _flatten_conflict_memory_ids.
Conflicting(ms) == UNION {{c.pair[1], c.pair[2]} : c \in Contradictions(ms)}

\* salient_memory_ids: most useful first, equal ones in their order.
Salient(ms) == SortedBy(DOMAIN ms, [i \in DOMAIN ms |-> <<Utility(ms[i]), 0 - i>>])

Goal(id, priority, targets) == [id |-> id, priority |-> priority, targets |-> targets]

\* generate_goals, by priority.
Goals(ms) ==
    LET When(due, goal) == IF due THEN <<goal>> ELSE <<>>
        urgent == When(Contradictions(ms) # {},
                       Goal("resolve_cognitive_conflict", 100, Conflicting(ms)))
                  \o When(Inconsistent(ms) # {},
                          Goal("clarify_uncertain_beliefs", 85, Inconsistent(ms)))
                  \o When(Outdated(ms) # {},
                          Goal("reduce_stale_belief_influence", 70, Outdated(ms)))
    IN IF urgent # <<>> THEN urgent
       ELSE <<Goal("maintain_reasoning_continuity", 35, DOMAIN ms)>>

Ranked(S, score) == [i \in S |-> score]

\* Mutant: a later reason replaces an earlier one.
LaterReason(attention, items) ==
    [i \in DOMAIN attention \cup DOMAIN items |->
        IF i \in DOMAIN items THEN items[i] ELSE attention[i]]

\* _merge_attention: the higher score of a memory counts.
Merged(attention, items) ==
    [i \in DOMAIN attention \cup DOMAIN items |->
        IF i \notin DOMAIN items THEN attention[i]
        ELSE IF i \in DOMAIN attention /\ attention[i] >= items[i] THEN attention[i]
        ELSE items[i]]

\* allocate_attention: the score of each memory that gets any.
Attention(ms, selected) ==
    LET urgent == Merged(Merged(Ranked(Conflicting(ms), 100), Ranked(Inconsistent(ms), 85)),
                         Ranked(Outdated(ms), 65))
        all == Merged(urgent, Ranked(Affected(ms, selected), 45))
    IN IF DOMAIN all # {} THEN all
       ELSE With(Salient(ms), LAMBDA order :
                 Ranked({order[i] : i \in 1..Smaller(3, Len(order))}, 35))

\* select_task; there always is a goal, and only in an empty store has it no targets.
Task(ms) == Head(Goals(ms))
=============================================================================
