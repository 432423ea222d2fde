----------------------------- MODULE Admission -----------------------------
(***************************************************************************)
(* plan_memory_admission and auto_store_memories: which segments of a text  *)
(* become memories, which wait as candidates, and which are dropped.        *)
(*                                                                          *)
(* A segment of a text is a fact.  Its type is the one of the first rule    *)
(* whose terms it has ("none" when no rule and no technical term applies),  *)
(* its traits are what the other tests look for.  Scores are in             *)
(* ten-thousandths, similarities, confidences and importances in            *)
(* hundredths.                                                              *)
(***************************************************************************)
EXTENDS Integers, Sequences, Ordering

CONSTANTS
    Fact,       \* the segments that texts are made of
    Text,       \* their data: [type, traits, marks], traits a subset of Trait
    Similarity  \* text_similarity of each pair of facts

Trait == {"trivial", "do_not_store", "hedged", "long", "short", "sensitive", "architecture"}
StoredType == {"user_preference", "constraint", "decision", "failure", "task_state",
               "project_context", "technical_fact"}

ASSUME AdmissionAssumption ==
    /\ Fact \subseteq Nat
    /\ \A f \in Fact : Text[f].traits \subseteq Trait /\ Text[f].type \in StoredType \cup {"none"}
    /\ \A f, g \in Fact : Similarity[f, g] = Similarity[g, f] /\ Similarity[f, f] = 100

Has(f, trait) == trait \in Text[f].traits
MemoryType(f) == IF Has(f, "do_not_store") THEN "technical_fact" ELSE Text[f].type

\* _RULES, with the technical fact of _looks_like_technical_fact.
RuleOf(type) ==
    [user_preference |-> [confidence |-> 86, importance |-> 82, bonus |-> 5],
     constraint |-> [confidence |-> 86, importance |-> 82, bonus |-> 7],
     decision |-> [confidence |-> 82, importance |-> 78, bonus |-> 6],
     failure |-> [confidence |-> 80, importance |-> 78, bonus |-> 6],
     task_state |-> [confidence |-> 76, importance |-> 74, bonus |-> 5],
     project_context |-> [confidence |-> 72, importance |-> 68, bonus |-> 3],
     technical_fact |-> [confidence |-> 68, importance |-> 62, bonus |-> 2]][type]

\* _enrich_architecture_runtime_memory raises the importance.
Importance(f) ==
    LET rule == RuleOf(Text[f].type)
    IN IF Has(f, "architecture") /\ rule.importance < 82 THEN 82 ELSE rule.importance
Confidence(f) == RuleOf(Text[f].type).confidence

\* _score.
AdmissionScore(f) ==
    LET rule == RuleOf(Text[f].type)
    IN 52 * rule.confidence + 42 * Importance(f) + 100 * rule.bonus
       - (IF Has(f, "long") THEN 500 ELSE 0) - (IF Has(f, "short") THEN 400 ELSE 0)
       - (IF Has(f, "hedged") THEN 800 ELSE 0)

\* What plan_memory_admission decides for one segment; do-not-store language is
\* looked for before the rules.
Planned(f, allowSensitive) ==
    IF Has(f, "do_not_store") \/ AdmissionScore(f) < 5600 THEN "skip"
    ELSE IF AdmissionScore(f) >= 7400 /\ (Has(f, "sensitive") => allowSensitive) THEN "write"
    ELSE "queue"

Near(f, g, threshold) == Similarity[f, g] >= threshold

\* The segments that get a decision: worth considering, not near an earlier one
\* of the text, of some type.
KeepNew(threshold, kept, f) ==
    IF Has(f, "trivial") \/ \E i \in DOMAIN kept : Near(f, kept[i], threshold)
    THEN kept ELSE Append(kept, f)
Considered(segments) ==
    With(FoldOf(KeepNew, 94, <<>>, segments), LAMBDA kept :
         Filtered(kept, {f \in Fact : Has(f, "do_not_store") \/ Text[f].type # "none"}))

ActionRank(action) == [write |-> 3, queue |-> 2, skip |-> 0][action]
ScoreOf(f) == IF Has(f, "do_not_store") THEN 1500 ELSE AdmissionScore(f)

\* plan_memory_admission: best action and score first, at most maxCandidates.
PlanKey(facts, allowSensitive) ==
    [i \in DOMAIN facts |->
        <<ActionRank(Planned(facts[i], allowSensitive)), ScoreOf(facts[i]), 0 - i>>]
PlanAdmission(segments, maxCandidates, allowSensitive) ==
    With(Considered(segments), LAMBDA facts :
    With(Arranged(facts, PlanKey(facts, allowSensitive)), LAMBDA planned :
         Top(planned, maxCandidates)))

\* _target_action.
TargetAction(f, mode, allowSensitive) ==
    LET planned == Planned(f, allowSensitive) IN
    IF planned = "skip" \/ mode = "auto" THEN planned
    ELSE IF mode = "write" /\ Has(f, "sensitive") /\ ~allowSensitive THEN "queue"
    ELSE mode

\* Mutant: only a copy counts as near.
CopyExisting(f, listed) ==
    \E g \in listed : MemoryType(g) = MemoryType(f) /\ Near(f, g, 100)

\* _near_existing_memory_id, against the facts that were listed.
NearExisting(f, listed) ==
    \E g \in listed : MemoryType(g) = MemoryType(f) /\ Near(f, g, 90)
=============================================================================
