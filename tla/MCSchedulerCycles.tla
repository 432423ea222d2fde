-------------------------- MODULE MCSchedulerCycles --------------------------
(***************************************************************************)
(* An instance of SchedulerCycles: two sessions over stores of up to three  *)
(* memories, some of which contradict each other.                           *)
(***************************************************************************)
EXTENDS SchedulerCycles, TLC

CONSTANTS a, b

MCBody == {"none", "b1", "b2"}
MCCanonical == "none" :> "none" @@ "b1" :> "b1" @@ "b2" :> "b2" @@ "t1" :> "t" @@ "t2" :> "t"

Plain == [importance |-> 60, confidence |-> 60, usage |-> 0, age |-> 0, tokens |-> 40,
          type |-> "technical_fact", body |-> "b1", prefix |-> "none", negative |-> FALSE,
          words |-> {}, terms |-> {}]
Useful == [Plain EXCEPT !.importance = 90, !.confidence = 90, !.usage = 5, !.tokens = 200,
                        !.type = "decision"]
Denied == [Plain EXCEPT !.negative = TRUE]
Important == [Denied EXCEPT !.prefix = "decision", !.age = 110, !.importance = 80, !.confidence = 80,
                            !.terms = {"t2"}]
Doubtful == [Plain EXCEPT !.importance = 95, !.confidence = 40, !.body = "b2", !.terms = {"t1"}]
Pending == [Plain EXCEPT !.type = "task_state", !.importance = 20, !.confidence = 20,
                         !.body = "none", !.negative = TRUE]

MCStores == {
    <<Useful>>, <<Pending>>,
    <<[Plain EXCEPT !.prefix = "decision"], Important, Doubtful>>,
    <<Denied, [Plain EXCEPT !.prefix = "error"]>>}

Learned == [FreshScheduler EXCEPT !.turns = 4, !.bias["safe_mode"] = 100,
                                  !.bias["weighted_arbitration"] = 20]
MCInitialStates == {Learned}
MCMeans == {-20}
MCConflictTraces == {<<>>, <<"safe_mode", "weighted_arbitration">>}
Symmetric == Permutations({a, b})
MCLoads == {[sessions |-> 1, cpu |-> 0, unsure |-> FALSE], [sessions |-> 3, cpu |-> 0, unsure |-> TRUE]}
=============================================================================
