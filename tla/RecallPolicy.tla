---------------------------- MODULE RecallPolicy ----------------------------
(***************************************************************************)
(* decide_recall: whether, and with what, a request should be answered from *)
(* memory; and which decisions build_auto_context acts on.                  *)
(*                                                                          *)
(* A request is the set of the cues its text gives: the phrases each of the *)
(* _asks functions looks for, and being too short.                          *)
(***************************************************************************)
EXTENDS Naturals, Sequences

RecallAction == {"none", "callback_pack", "memory_pack", "context_bundle", "impact_pack"}

\* min_positive.
Capped(maxTokens, cap) == IF maxTokens = 0 \/ maxTokens > cap THEN cap ELSE maxTokens

Recall(action, strategy, budget, chunks) ==
    [action |-> action, strategy |-> strategy, maxTokens |-> budget, chunks |-> chunks]
NoRecall == Recall("none", "auto", 0, 0)

\* decide_recall: the first cue in this order decides.
CueOrder == <<"no_recall", "continue", "low_signal", "memory_question", "overview",
              "impact", "risky_change", "task_like">>
FirstCue(cues) ==
    IF cues = {} THEN "no_signal"
    ELSE CueOrder[CHOOSE i \in DOMAIN CueOrder :
                      CueOrder[i] \in cues /\ \A j \in 1..(i - 1) : CueOrder[j] \notin cues]

DecideRecall(cues, hasProject, maxTokens) ==
    LET cue == FirstCue(cues)
        Pack(cap, chunks) == Recall("memory_pack", "auto", Capped(maxTokens, cap), chunks)
        InProject(decision, otherwise) == IF hasProject THEN decision ELSE otherwise
    IN CASE cue = "continue" -> Recall("callback_pack", "compact", Capped(maxTokens, 1200), 1)
         [] cue = "memory_question" -> Pack(1500, 0)
         [] cue = "overview" ->
              InProject(Recall("context_bundle", "full", Capped(maxTokens, 4500), 2), Pack(1500, 0))
         [] cue = "impact" ->
              InProject(Recall("impact_pack", "auto", Capped(maxTokens, 1400), 2), Pack(1200, 0))
         [] cue = "risky_change" ->
              InProject(Recall("context_bundle", "lean", Capped(maxTokens, 3500), 2), Pack(1200, 0))
         [] cue = "task_like" ->
              InProject(Recall("callback_pack", "compact", Capped(maxTokens, 900), 1), NoRecall)
         [] OTHER -> NoRecall

\* build_auto_context packs memories for these, and quotes them in a change plan.
PacksMemories(decision) == decision.action \in {"callback_pack", "memory_pack", "context_bundle"}
PlansChange(decision) == decision.action \in {"impact_pack", "context_bundle"}
\* Its payload names the memories it included only for a session's callback.
NamesMemories(decision, hasProject) == decision.action = "callback_pack" /\ hasProject
\* A lean bundle packs compactly too.
IsCompact(decision) == decision.strategy \in {"compact", "lean"}
=============================================================================
