---------------------------- MODULE PolicyArbiter ----------------------------
(***************************************************************************)
(* PolicyArbiter: five policies that each prefer a decision with some       *)
(* confidence and weight, the cost estimate they look at, and the           *)
(* arbitration between them.                                                *)
(*                                                                          *)
(* Confidences and weights are in hundredths, costs in thousandths, scores  *)
(* in ten-thousandths.  The state of a turn is a record [tokens, retrieved, *)
(* selected, maxTokens, action, rank], its context a record [sensitive,     *)
(* minRank].  Reasons and the reports on objectives are left out.           *)
(***************************************************************************)
EXTENDS Integers, Sequences, Ordering

Clip(value, lower, upper) == IF value < lower THEN lower ELSE IF value > upper THEN upper ELSE value

Policy == {"recall", "compression", "latency", "safety", "cost"}

DefaultWeights == [p \in Policy |->
    CASE p = "recall" -> 125 [] p = "compression" -> 85 [] p = "latency" -> 70
      [] p = "safety" -> 140 [] p = "cost" -> 80]

\* MemoryCostModel.estimate.  A turn arbitrates before anything is injected, so
\* the injected tokens are always estimated.
Cost(proposed, s) ==
    LET bundle == CASE proposed = "full" -> 600 [] proposed = "lean" -> 160 [] OTHER -> 40
        injected == s.tokens + s.selected * 160 + bundle
    IN [token |-> injected + s.retrieved * 12,
        budget |-> Clip((injected * 1000) \div s.maxTokens, 0, 10000),
        latency |-> Clip(s.retrieved * 15 + s.selected * 20, 0, 1000),
        memory |-> Clip((s.retrieved + s.selected * 2) * 20, 0, 1000)]

Opinion(prefers, confidence) == [prefers |-> prefers, confidence |-> confidence, safeMode |-> FALSE]

RecallOpinion(node, proposed, s, ctx) ==
    IF node = "should_recall"
    THEN IF s.action # "none" \/ s.retrieved > 0
         THEN Opinion("recall", 82) ELSE Opinion(proposed, 70)
    ELSE IF node = "skip_memory" /\ s.rank >= ctx.minRank
         THEN Opinion("inject", Clip(55 + s.rank, 0, 100)) ELSE Opinion(proposed, 70)

CompressionOpinion(node, proposed, cost) ==
    IF node = "use_full_bundle" /\ (cost.budget >= 550 \/ cost.token > 1200)
    THEN Opinion("lean", 88) ELSE Opinion(proposed, 62)

LatencyOpinion(node, proposed, cost) ==
    IF node = "use_full_bundle" /\ cost.latency > 200
    THEN Opinion("lean", 76) ELSE Opinion(proposed, 58)

\* Mutant: a turn that was let through once is not looked at again.
SafetyAtRecallOnly(node, proposed, ctx) ==
    IF ctx.sensitive /\ node = "should_recall"
    THEN [Opinion("skip", 100) EXCEPT !.safeMode = TRUE] ELSE Opinion(proposed, 72)

SafetyOpinion(node, proposed, ctx) ==
    IF ctx.sensitive /\ node \in {"should_recall", "skip_memory"}
    THEN [Opinion("skip", 100) EXCEPT !.safeMode = TRUE] ELSE Opinion(proposed, 72)

CostOpinion(node, proposed, cost) ==
    IF node = "use_full_bundle" /\ cost.budget >= 750 THEN Opinion("lean", 90)
    ELSE IF node = "skip_memory" /\ cost.memory >= 800 THEN Opinion("skip", 72)
    ELSE Opinion(proposed, 60)

\* What the policies say of a proposal.  None of them prefers a decision that is
\* not allowed: the guard of _evaluate_policy is for policies a library adds.
Opinions(node, proposed, s, ctx) ==
    LET cost == Cost(proposed, s) IN
    [p \in Policy |->
        CASE p = "recall" -> RecallOpinion(node, proposed, s, ctx)
          [] p = "compression" -> CompressionOpinion(node, proposed, cost)
          [] p = "latency" -> LatencyOpinion(node, proposed, cost)
          [] p = "safety" -> SafetyOpinion(node, proposed, ctx)
          [] p = "cost" -> CostOpinion(node, proposed, cost)]

Score(d, proposed, opinions, weights) ==
    LET Of(p) == IF opinions[p].prefers = d THEN opinions[p].confidence * weights[p] ELSE 0
    IN (IF d = proposed THEN 100 ELSE 0)
       + Of("recall") + Of("compression") + Of("latency") + Of("safety") + Of("cost")

\* max(allowed, key = (score, decision == proposed)): the first one with the best key.
Best(allowed, proposed, score) ==
    allowed[CHOOSE i \in DOMAIN allowed : \A j \in DOMAIN allowed :
        \/ score[i] > score[j]
        \/ score[i] = score[j] /\ (allowed[i] = proposed \/ (allowed[j] # proposed /\ i <= j))]

\* PolicyArbiter.arbitrate: the final decision, and how a conflict was resolved.
Resolved(proposed, allowed, opinions, weights, deterministic) ==
    LET conflict == \E p, q \in Policy : opinions[p].prefers # opinions[q].prefers
        safe == {p \in Policy : opinions[p].safeMode}
        resolution == IF deterministic THEN "deterministic"
                      ELSE IF safe # {} /\ conflict THEN "safe_mode" ELSE "weighted_arbitration"
        scores == [i \in DOMAIN allowed |-> Score(allowed[i], proposed, opinions, weights)]
    IN [final |-> CASE resolution = "deterministic" -> proposed
                    [] resolution = "safe_mode" -> "skip"
                    [] OTHER -> With(scores, LAMBDA score : Best(allowed, proposed, score)),
        conflicts |-> IF conflict THEN <<resolution>> ELSE <<>>]

Arbitrate(node, proposed, allowed, s, ctx, weights, deterministic) ==
    With(Opinions(node, proposed, s, ctx), LAMBDA opinions :
         Resolved(proposed, allowed, opinions, weights, deterministic))
=============================================================================
