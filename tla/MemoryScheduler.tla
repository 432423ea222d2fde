--------------------------- MODULE MemoryScheduler ---------------------------
(***************************************************************************)
(* The operators of MemoryScheduler: the reward a turn shares with the      *)
(* arbiter's policies, what it learns from their conflicts, the tiers of    *)
(* memories, and the lifecycle actions with the controller that holds a     *)
(* transition back.                                                         *)
(*                                                                          *)
(* Rewards, weights, importances and confidences are in hundredths,         *)
(* strengths in ten-thousandths, ages in days.  A memory is a record        *)
(* [importance, confidence, usage, age, tokens, type].  Reports, and the    *)
(* priorities that order the actions in them, are left out.                 *)
(***************************************************************************)
EXTENDS Integers, Sequences, FiniteSets, PolicyArbiter

\* convergence_window of SystemStabilityController.
Window == 3

-----------------------------------------------------------------------------
(* What the policies share *)

Resolution == {"deterministic", "safe_mode", "weighted_arbitration"}

\* The part of SchedulerState that later cycles read or report on.
FreshScheduler == [turns |-> 0, reward |-> 0, bias |-> [r \in Resolution |-> 0]]

\* _shared_reward: mean is that of the rewards a trace earned; the frequency of
\* conflicts is 1 as soon as there is one.
SharedReward(mean, conflicts) ==
    Clip(mean - (IF conflicts = <<>> THEN 0 ELSE 30), -100, 100)

\* Mutant: what was learned before is not added to.
LearnAnew(bias, conflicts) ==
    [r \in Resolution |->
        Clip(10 * Cardinality({i \in DOMAIN conflicts : conflicts[i] = r}), 0, 100)]

\* Mutant: what is learned has no limit.
LearnUnbounded(bias, conflicts) ==
    [r \in Resolution |-> bias[r] + 10 * Cardinality({i \in DOMAIN conflicts : conflicts[i] = r})]

\* learn_conflict_resolution: each conflict counts a tenth, up to one.
LearnConflictResolution(bias, conflicts) ==
    [r \in Resolution |->
        Clip(bias[r] + 10 * Cardinality({i \in DOMAIN conflicts : conflicts[i] = r}), 0, 100)]

\* Mutant: nothing but the reward moves the weight of safety.
RewardOnly(policy, reward, bias) == Clip(reward, -5, 5)

\* The change of one policy's weight: a conflict once resolved by safe mode keeps
\* the safety policy's from falling.
WeightDelta(policy, reward, bias) ==
    LET delta == Clip(reward, -5, 5) IN
    IF policy = "safety" /\ bias["safe_mode"] > 0
    THEN IF delta + 10 > 5 THEN delta + 10 ELSE 5
    ELSE delta

\* synchronize_policies.
Synchronized(weights, reward, bias) ==
    [p \in Policy |-> Clip(weights[p] + WeightDelta(p, reward, bias), 10, 300)]

\* What run_cycle does to the scheduler's state and to the arbiter's weights.
AfterCycle(s, mean, conflicts) ==
    [turns |-> s.turns + 1, reward |-> SharedReward(mean, conflicts),
     bias |-> LearnConflictResolution(s.bias, conflicts)]

-----------------------------------------------------------------------------
(* MemoryHierarchy *)

\* _memory_strength.
Strength(m) == 45 * m.importance + 30 * m.confidence + 25 * Clip(m.usage * 10, 0, 100)

\* _tier_for.
Tier(m, working) ==
    IF working THEN "L0"
    ELSE IF Strength(m) >= 7800 /\ m.usage >= 5 THEN "L2"
    ELSE IF m.age >= 120 \/ (Strength(m) < 2500 /\ m.age >= 60) THEN "L3"
    ELSE "L1"

\* _is_high_load.
HighLoad(load) == load.sessions >= 3 \/ load.cpu >= 85

-----------------------------------------------------------------------------
(* SystemStabilityController *)

NoTransition == [from |-> "none", to |-> "none", turn |-> 0]

\* Mutant: the window is a turn longer.
BlockedLonger(last, from, to, turn) == last.to = from /\ last.from = to /\ turn - last.turn <= Window

\* allow_transition refuses to undo, within the window, the transition it last
\* allowed for the memory; one to the tier it is in undoes itself.
Blocked(last, from, to, turn) == last.to = from /\ last.from = to /\ turn - last.turn < Window

-----------------------------------------------------------------------------
(* schedule_lifecycle *)

WantsDecay(m) == m.age >= 30 /\ m.usage = 0
WantsEvict(m) == Strength(m) <= 2500 /\ m.age >= 60

\* Mutant: how often a memory was used does not count.
WantsUnusedPromotion(m) == m.importance >= 75 /\ m.confidence >= 75

WantsPromotion(m) == m.usage >= 5 /\ m.importance >= 75 /\ m.confidence >= 75
WantsCompression(m) == m.tokens >= 180
WantsDemotion(m) == m.type = "task_state" /\ m.usage = 0 /\ m.age >= 14

Action(type, deferred) == [type |-> type, deferred |-> deferred]
Only(due, action) == IF due THEN {action} ELSE {}

\* One memory's turn of the loop: its actions, and the transition the controller
\* remembers after it.  A promotion held back ends the turn: nothing after it
\* is looked at.
Lifecycle(m, tier, last, turn, load) ==
    LET promotes == WantsPromotion(m) /\ ~Blocked(last, tier, "L2", turn)
        held == WantsPromotion(m) /\ ~promotes
        demotes == WantsDemotion(m) /\ ~Blocked(last, tier, "L1", turn)
        Moved(to) == [from |-> tier, to |-> to, turn |-> turn]
    IN [actions |-> Only(WantsDecay(m), Action("decay", FALSE))
                    \cup Only(WantsEvict(m), Action("evict", load.unsure))
                    \cup Only(promotes, Action("promote", FALSE))
                    \cup Only(~held /\ WantsCompression(m), Action("compress", HighLoad(load)))
                    \cup Only(demotes, Action("demote", FALSE)),
        last |-> IF promotes THEN Moved("L2") ELSE IF demotes THEN Moved("L1") ELSE last]
=============================================================================
