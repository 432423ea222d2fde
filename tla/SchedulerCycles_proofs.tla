------------------------ MODULE SchedulerCycles_proofs ------------------------
(***************************************************************************)
(* Theorems about SchedulerCycles, for any number of sessions, memories and *)
(* cycles, any rewards, conflicts and loads.                                *)
(***************************************************************************)
EXTENDS SchedulerCycles, Ordering_proofs

-----------------------------------------------------------------------------
(* The operators *)

\* How often a resolution occurs is a number.
LEMMA CountType ==
    ASSUME NEW conflicts \in Seq(Resolution), NEW r
    PROVE  Cardinality({i \in DOMAIN conflicts : conflicts[i] = r}) \in Nat
<1>1. IsFiniteSet(1..Len(conflicts))
  BY FS_Interval
<1>2. IsFiniteSet({i \in DOMAIN conflicts : conflicts[i] = r})
  BY <1>1, FS_Subset
<1> QED BY <1>2, FS_CardinalityType

\* What is learned stays within its limits, and nothing learned is lost.
LEMMA LearningGrows ==
    ASSUME NEW bias \in [Resolution -> 0..100], NEW conflicts \in Seq(Resolution)
    PROVE  /\ LearnConflictResolution(bias, conflicts) \in [Resolution -> 0..100]
           /\ \A r \in Resolution : LearnConflictResolution(bias, conflicts)[r] >= bias[r]
<1> DEFINE learned == LearnConflictResolution(bias, conflicts)
<1>1. ASSUME NEW r \in Resolution
      PROVE  learned[r] \in 0..100 /\ learned[r] >= bias[r]
  <2>1. PICK n \in Nat : n = Cardinality({i \in DOMAIN conflicts : conflicts[i] = r})
    BY CountType
  <2>2. learned[r] = Clip(bias[r] + 10 * n, 0, 100)
    BY <2>1 DEF LearnConflictResolution
  <2>3. PICK b \in 0..100 : b = bias[r]
    OBVIOUS
  <2>4. Clip(b + 10 * n, 0, 100) \in 0..100 /\ Clip(b + 10 * n, 0, 100) >= b
    BY DEF Clip
  <2> QED BY <2>2, <2>3, <2>4
<1>2. learned = [r \in Resolution |-> learned[r]]
  BY DEF LearnConflictResolution
<1> HIDE DEF learned
<1>3. learned \in [Resolution -> 0..100]
  BY <1>1, <1>2
<1> QED BY <1>1, <1>3 DEF learned

\* A cycle counts on, shares a reward within its limits, and loses nothing learned.
LEMMA CycleGrows ==
    ASSUME NEW s \in State, NEW mean \in -100..100, NEW conflicts \in Seq(Resolution)
    PROVE  /\ AfterCycle(s, mean, conflicts) \in State
           /\ AfterCycle(s, mean, conflicts).turns = s.turns + 1
           /\ \A r \in Resolution : AfterCycle(s, mean, conflicts).bias[r] >= s.bias[r]
<1>1. SharedReward(mean, conflicts) \in -100..100
  BY DEF SharedReward, Clip
<1>2. s.bias \in [Resolution -> 0..100] /\ s.turns \in Nat
  BY DEF State
<1> QED BY <1>1, <1>2, LearningGrows DEF AfterCycle, State

\* The change of a weight is a number, and that of safety positive once safe mode
\* settled a conflict.
LEMMA DeltaType ==
    ASSUME NEW p \in Policy, NEW reward \in -100..100, NEW bias \in [Resolution -> 0..100]
    PROVE  /\ WeightDelta(p, reward, bias) \in Int
           /\ p = "safety" /\ bias["safe_mode"] > 0 => WeightDelta(p, reward, bias) >= 5
<1>1. Clip(reward, -5, 5) \in -5..5
  BY DEF Clip
<1> QED BY <1>1 DEF WeightDelta

\* Weights keep their limits.
LEMMA SynchronizedType ==
    ASSUME NEW weights \in [Policy -> 10..300], NEW reward \in -100..100,
           NEW bias \in [Resolution -> 0..100]
    PROVE  Synchronized(weights, reward, bias) \in [Policy -> 10..300]
<1>1. ASSUME NEW p \in Policy
      PROVE  Clip(weights[p] + WeightDelta(p, reward, bias), 10, 300) \in 10..300
  <2>1. PICK d \in Int : d = WeightDelta(p, reward, bias)
    BY DeltaType
  <2>2. PICK w \in 10..300 : w = weights[p]
    OBVIOUS
  <2>3. Clip(w + d, 10, 300) \in 10..300
    BY DEF Clip
  <2> QED BY <2>1, <2>2, <2>3
<1> QED BY <1>1 DEF Synchronized

\* Safety's weight does not fall once safe mode settled a conflict.
LEMMA SafetyHolds ==
    ASSUME NEW weights \in [Policy -> 10..300], NEW reward \in -100..100,
           NEW bias \in [Resolution -> 0..100], bias["safe_mode"] > 0
    PROVE  Synchronized(weights, reward, bias)["safety"] >= weights["safety"]
<1>1. "safety" \in Policy
  BY DEF Policy
<1>2. PICK d \in Int : d = WeightDelta("safety", reward, bias) /\ d >= 5
  BY <1>1, DeltaType
<1>3. PICK w \in 10..300 : w = weights["safety"]
  BY <1>1
<1>4. Synchronized(weights, reward, bias)["safety"] = Clip(weights["safety"] + d, 10, 300)
  BY <1>1, <1>2 DEF Synchronized
<1>5. Clip(w + d, 10, 300) >= w
  BY <1>2 DEF Clip
<1> QED BY <1>2, <1>3, <1>4, <1>5

\* The strength of a memory that may be promoted is more than what may be evicted.
LEMMA StrengthOfPromoted ==
    ASSUME NEW m \in Memory, WantsPromotion(m)
    PROVE  ~WantsEvict(m) /\ ~WantsDecay(m) /\ ~WantsDemotion(m)
<1>1. m.importance \in 0..100 /\ m.confidence \in 0..100 /\ m.usage \in Nat
  BY DEF Memory
<1>2. Clip(m.usage * 10, 0, 100) >= 50 /\ Clip(m.usage * 10, 0, 100) \in Int
  BY <1>1 DEF Clip, WantsPromotion
<1>3. Strength(m) \in Int /\ Strength(m) > 2500
  BY <1>1, <1>2 DEF Strength, WantsPromotion
<1> QED BY <1>1, <1>3 DEF WantsPromotion, WantsEvict, WantsDecay, WantsDemotion

\* A memory is in one of the tiers.
LEMMA TierType ==
    ASSUME NEW m, NEW working
    PROVE  Tier(m, working) \in {"L0", "L1", "L2", "L3"}
BY DEF Tier

\* What the controller remembers of a memory after a cycle: the same, or a transition
\* of this cycle.  A compression is passed over only with the same, and only within
\* the window.
LEMMA LifecycleRemembers ==
    ASSUME NEW m \in Memory, NEW tier \in {"L0", "L1", "L2", "L3"}, NEW last \in Transition, NEW turn \in Nat,
           NEW load
    PROVE  LET plan == Lifecycle(m, tier, last, turn, load)
           IN /\ plan.last \in Transition
              /\ plan.last.turn \in {last.turn, turn}
              /\ PassedOver(m, plan.actions) =>
                    plan.last.turn = last.turn /\ turn - last.turn < Window
<1> DEFINE plan == Lifecycle(m, tier, last, turn, load)
<1> DEFINE Moved(to) == [from |-> tier, to |-> to, turn |-> turn]
<1>1. plan.last \in {last, Moved("L2"), Moved("L1")}
  BY DEF Lifecycle
<1>2. plan.last \in Transition /\ plan.last.turn \in {last.turn, turn}
  <2>1. Moved("L2") \in Transition /\ Moved("L1") \in Transition
    BY DEF Transition
  <2>2. Moved("L2").turn = turn /\ Moved("L1").turn = turn
    OBVIOUS
  <2> HIDE DEF Moved, plan
  <2> QED BY <1>1, <2>1, <2>2
<1>3. ASSUME PassedOver(m, plan.actions)
      PROVE  plan.last = last /\ turn - last.turn < Window
  <2> DEFINE held == WantsPromotion(m) /\ Blocked(last, tier, "L2", turn)
  <2>1. WantsCompression(m) /\ Action("compress", HighLoad(load)) \notin plan.actions
    BY <1>3 DEF PassedOver, Action
  <2>2. ASSUME ~held PROVE FALSE
    <3>1. Action("compress", HighLoad(load)) \in plan.actions
      BY <2>1, <2>2 DEF Lifecycle, Only
    <3> QED BY <2>1, <3>1
  <2>3. ~WantsDemotion(m)
    BY <2>2, StrengthOfPromoted
  <2> QED BY <2>2, <2>3 DEF Lifecycle, Blocked
<1> QED BY <1>2, <1>3

-----------------------------------------------------------------------------
(* What each step of a session makes of it *)

OthersKeep(s) == \A t \in Session \ {s} : session'[t] = session[t]
Moved(s) == session' \in [Session -> SessionRecord] /\ OthersKeep(s)

\* A session becomes a record, and the others keep theirs.
LEMMA BecomeMoves ==
    ASSUME TypeOK, NEW s \in Session, NEW r \in SessionRecord, Become(s, r)
    PROVE  Moved(s) /\ session'[s] = r
BY DEF TypeOK, Become, Moved, OthersKeep

\* A fresh scheduler, default weights and a closed session have their types.
LEMMA ClosedType == FreshScheduler \in State /\ Closed \in SessionRecord
<1>1. FreshScheduler \in State
  BY DEF FreshScheduler, State
<1>2. DefaultWeights \in [Policy -> 10..300]
  BY SMT DEF DefaultWeights, Policy
<1>3. NoTransition \in Transition
  BY DEF NoTransition, Transition
<1> QED BY <1>1, <1>2, <1>3 DEF Closed, SessionRecord

\* A session that opens has what the file gives it.
LEMMA OpenMoves ==
    ASSUME TypeOK, NEW s \in Session, Open(s)
    PROVE  /\ Moved(s)
           /\ session'[s].state = Loaded(file) /\ session'[s].pc = "ready"
           /\ \A i \in DOMAIN store : /\ session'[s].last[i].turn = 0
                                      /\ session'[s].skipped[i] = 0
           /\ session'[s].seen = log.saves /\ session'[s].sound = (file.kind = "ok")
<1>1. PICK r \in SessionRecord : r = Closed
  BY ClosedType
<1>2. PICK n : n = [r EXCEPT !.pc = "ready", !.state = Loaded(file),
                           !.seen = log.saves, !.sound = (file.kind = "ok")]
  OBVIOUS
<1>3. Loaded(file) \in State /\ log.saves \in Nat /\ (file.kind = "ok") \in BOOLEAN
  BY ClosedType DEF TypeOK, Loaded
<1>4. /\ n \in SessionRecord /\ n.pc = "ready" /\ n.state = Loaded(file)
      /\ n.last = r.last /\ n.skipped = r.skipped
      /\ n.seen = log.saves /\ n.sound = (file.kind = "ok")
  BY <1>2, <1>3 DEF SessionRecord
<1>5. \A i \in DOMAIN store : r.last[i].turn = 0 /\ r.skipped[i] = 0
  BY <1>1 DEF Closed, NoTransition
<1>6. Become(s, n)
  BY <1>1, <1>2 DEF Open
<1> QED BY <1>4, <1>5, <1>6, BecomeMoves

\* A session that ends is closed.
LEMMA CloseMoves ==
    ASSUME TypeOK, NEW s \in Session, Close(s) \/ Crash(s)
    PROVE  /\ Moved(s)
           /\ session'[s].state = FreshScheduler /\ session'[s].pc = "closed"
           /\ \A i \in DOMAIN store : /\ session'[s].last[i].turn = 0
                                      /\ session'[s].skipped[i] = 0
           /\ session'[s].seen = 0
<1>1. Become(s, Closed)
  BY DEF Close, Crash
<1> QED BY <1>1, ClosedType, BecomeMoves DEF Closed, NoTransition

\* A session on its way through a save keeps its scheduler.
LEMMA SaveMoves ==
    ASSUME TypeOK, NEW s \in Session, Truncate(s) \/ SaveFails(s)
    PROVE  /\ Moved(s)
           /\ \A f \in {"state", "weights", "last", "skipped", "seen", "sound"} :
                  session'[s][f] = session[s][f]
           /\ session[s].pc \in {"save", "write"} /\ session'[s].pc \in {"ready", "write"}
<1>1. PICK r \in SessionRecord : r = session[s]
  BY DEF TypeOK
<1>2. PICK pc \in {"ready", "write"} : Become(s, [r EXCEPT !.pc = pc]) /\ r.pc \in {"save", "write"}
  BY <1>1 DEF Truncate, SaveFails, At
<1>3. PICK n : n = [r EXCEPT !.pc = pc]
  OBVIOUS
<1>4. n \in SessionRecord /\ n.pc = pc
      /\ \A f \in {"state", "weights", "last", "skipped", "seen", "sound"} : n[f] = r[f]
  BY <1>3 DEF SessionRecord
<1>5. Moved(s) /\ session'[s] = n
  BY <1>2, <1>3, <1>4, BecomeMoves
<1> QED BY <1>1, <1>2, <1>4, <1>5

\* A save done makes its session know of every save.
LEMMA WriteMoves ==
    ASSUME TypeOK, NEW s \in Session, Write(s)
    PROVE  /\ Moved(s)
           /\ \A f \in {"state", "weights", "last", "skipped"} : session'[s][f] = session[s][f]
           /\ session[s].pc = "write" /\ session'[s].pc = "ready"
           /\ session'[s].seen = log.saves + 1 /\ session'[s].sound = TRUE
<1>1. PICK r \in SessionRecord : r = session[s]
  BY DEF TypeOK
<1>2. PICK n : n = [r EXCEPT !.pc = "ready", !.seen = log.saves + 1, !.sound = TRUE]
  OBVIOUS
<1>3. log.saves + 1 \in Nat
  BY DEF TypeOK
<1>4. /\ n \in SessionRecord /\ n.pc = "ready" /\ n.seen = log.saves + 1 /\ n.sound = TRUE
      /\ \A f \in {"state", "weights", "last", "skipped"} : n[f] = r[f]
  BY <1>2, <1>3 DEF SessionRecord
<1>5. Become(s, n) /\ r.pc = "write"
  BY <1>1, <1>2 DEF Write, At
<1> QED BY <1>1, <1>4, <1>5, BecomeMoves

\* A cycle counts on, learns, sets the weights, and passes over a compression only
\* within the window of a transition it keeps.
LEMMA CycleMoves ==
    ASSUME TypeOK, NEW s \in Session, NEW selected \in SUBSET DOMAIN store, NEW load \in Loads,
           NEW mean \in Means, NEW conflicts \in ConflictTraces,
           RunCycle(s, selected, load, mean, conflicts)
    PROVE  /\ Moved(s) /\ session[s].pc = "ready"
           /\ session'[s].pc = "save"
           /\ session'[s].seen = session[s].seen /\ session'[s].sound = session[s].sound
           /\ session'[s].state.turns = session[s].state.turns + 1
           /\ \A x \in Resolution : session'[s].state.bias[x] >= session[s].state.bias[x]
           /\ session'[s].weights = Synchronized(session[s].weights, session'[s].state.reward,
                                                session'[s].state.bias)
           /\ \A i \in DOMAIN store :
                 /\ session'[s].last[i].turn \in {session[s].last[i].turn, session'[s].state.turns}
                 /\ session'[s].skipped[i] \in {0, session[s].skipped[i] + 1}
                 /\ session'[s].skipped[i] # 0 =>
                       /\ session'[s].last[i].turn = session[s].last[i].turn
                       /\ session'[s].state.turns - session[s].last[i].turn < Window
<1>1. PICK r \in SessionRecord : r = session[s]
  BY DEF TypeOK
<1>2. r.state \in State /\ r.weights \in [Policy -> 10..300]
  BY DEF SessionRecord
<1>3. mean \in -100..100 /\ conflicts \in Seq(Resolution)
  BY CyclesAssumption
<1>4. PICK after \in State :
         /\ after = AfterCycle(r.state, mean, conflicts)
         /\ after.turns = r.state.turns + 1
         /\ \A x \in Resolution : after.bias[x] >= r.state.bias[x]
  BY <1>2, <1>3, CycleGrows
<1>5. PICK weights \in [Policy -> 10..300] : weights = Synchronized(r.weights, after.reward, after.bias)
  BY <1>2, SynchronizedType DEF State
<1> DEFINE Plan(i) == Planned(r, i, selected, load)
           last == [i \in DOMAIN store |-> Plan(i).last]
           skipped == [i \in DOMAIN store |->
                          IF PassedOver(store[i], Plan(i).actions) THEN r.skipped[i] + 1 ELSE 0]
<1>6. ASSUME NEW i \in DOMAIN store
      PROVE  /\ Plan(i).last \in Transition
             /\ Plan(i).last.turn \in {r.last[i].turn, after.turns}
             /\ PassedOver(store[i], Plan(i).actions) =>
                   Plan(i).last.turn = r.last[i].turn /\ after.turns - r.last[i].turn < Window
  <2>1. store[i] \in Memory
    BY DEF TypeOK
  <2>2. r.last[i] \in Transition
    BY DEF SessionRecord
  <2>3. r.state.turns + 1 \in Nat
    BY <1>2 DEF State
  <2> QED BY <1>4, <2>1, <2>2, <2>3, TierType, LifecycleRemembers DEF Planned
<1>7. \A i \in DOMAIN store : r.skipped[i] \in Nat
  BY DEF SessionRecord
<1>8. last \in [DOMAIN store -> Transition] /\ skipped \in [DOMAIN store -> Nat]
  BY <1>6, <1>7
<1>9. PICK n : n = [r EXCEPT !.pc = "save", !.state = after, !.weights = weights,
                           !.last = last, !.skipped = skipped]
  OBVIOUS
<1>10. /\ n \in SessionRecord /\ n.pc = "save" /\ n.state = after /\ n.weights = weights
       /\ n.last = last /\ n.skipped = skipped /\ n.seen = r.seen /\ n.sound = r.sound
  <2> HIDE DEF last, skipped
  <2> QED BY <1>8, <1>9 DEF SessionRecord
<1>11. Become(s, n) /\ r.pc = "ready"
  BY <1>1, <1>4, <1>5, <1>9 DEF RunCycle, At
<1>12. Moved(s) /\ session'[s] = n
  BY <1>10, <1>11, BecomeMoves
<1>13. ASSUME NEW i \in DOMAIN store
       PROVE  /\ n.last[i].turn \in {r.last[i].turn, after.turns}
              /\ n.skipped[i] \in {0, r.skipped[i] + 1}
              /\ n.skipped[i] # 0 => /\ n.last[i].turn = r.last[i].turn
                                     /\ after.turns - r.last[i].turn < Window
  <2>1. n.last[i] = Plan(i).last
    BY <1>10
  <2>2. n.skipped[i] = IF PassedOver(store[i], Plan(i).actions) THEN r.skipped[i] + 1 ELSE 0
    BY <1>10
  <2> HIDE DEF Plan
  <2> QED BY <1>6, <2>1, <2>2
<1> QED BY <1>1, <1>4, <1>5, <1>10, <1>11, <1>12, <1>13

-----------------------------------------------------------------------------
(* Type correctness *)

\* The memories stay as many, each a memory.
LEMMA UseMoves ==
    ASSUME TypeOK, NEW i \in DOMAIN store, Use(i)
    PROVE  store' \in Seq(Memory) /\ DOMAIN store' = DOMAIN store
<1> DEFINE n == [store[i] EXCEPT !.usage = @ + 1, !.age = 0]
<1>1. store' = [store EXCEPT ![i] = n]
  BY DEF Use
<1>2. store[i] \in Memory
  BY DEF TypeOK
<1>3. store[i].usage + 1 \in Nat
  BY <1>2 DEF Memory
<1>4. n \in Memory
  BY <1>2, <1>3 DEF Memory
<1> HIDE DEF n
<1> QED BY <1>1, <1>4 DEF TypeOK

\* Days that pass change ages and nothing else: the store has the same places.
LEMMA PassMoves ==
    ASSUME TypeOK, NEW days \in Ages, Pass(days)
    PROVE  store' \in Seq(Memory) /\ DOMAIN store' = DOMAIN store
<1>1. days \in Nat
  BY CyclesAssumption
<1>2. ASSUME NEW i \in DOMAIN store PROVE [store[i] EXCEPT !.age = @ + days] \in Memory
  <2>1. PICK m \in Memory : m = store[i]
    BY DEF TypeOK
  <2>2. m.age + days \in Nat
    BY <1>1 DEF Memory
  <2> QED BY <2>1, <2>2 DEF Memory
<1>3. store' = [i \in 1..Len(store) |-> [store[i] EXCEPT !.age = @ + days]]
  BY DEF Pass, TypeOK
<1>4. Len(store) \in Nat /\ DOMAIN store = 1..Len(store)
  BY DEF TypeOK
<1>5. ASSUME NEW i \in 1..Len(store) PROVE store'[i] \in Memory
  BY <1>2, <1>3, <1>4
<1>6. DOMAIN store' = 1..Len(store) /\ store' = [i \in 1..Len(store) |-> store'[i]]
  BY <1>3
<1> QED BY <1>4, <1>5, <1>6

\* The types hold initially.
LEMMA InitType == Init => TypeOK
<1> SUFFICES ASSUME Init PROVE TypeOK
  OBVIOUS
<1>1. store \in Seq(Memory)
  BY CyclesAssumption DEF Init
<1>2. file \in [kind : {"ok", "broken"}, state : State] /\ file.state \in State
  BY CyclesAssumption DEF Init, File
<1>3. session \in [Session -> SessionRecord]
  BY ClosedType DEF Init
<1> QED BY <1>1, <1>2, <1>3 DEF Init, TypeOK

\* A step of a session keeps the types, and the memories.
LEMMA SessionKeepsType ==
    ASSUME TypeOK, NEW s \in Session, Moved(s), UNCHANGED store,
           file' \in [kind : {"ok", "broken"}, state : State],
           used' \in [looks : Nat, uses : Nat, days : Nat, failures : Nat],
           log' \in [saves : Nat, last : State]
    PROVE  TypeOK'
BY DEF TypeOK, Moved, SessionRecord

\* Every step keeps the types.
LEMMA NextType == TypeOK /\ [Next]_vars => TypeOK'
<1> SUFFICES ASSUME TypeOK, [Next]_vars PROVE TypeOK'
  OBVIOUS
<1> DEFINE FileType == [kind : {"ok", "broken"}, state : State]
           UsedType == [looks : Nat, uses : Nat, days : Nat, failures : Nat]
           LogType == [saves : Nat, last : State]
<1>1. file \in FileType /\ used \in UsedType /\ log \in LogType
  BY DEF TypeOK
<1>2. [used EXCEPT !.looks = @ + Len(store)] \in UsedType /\ [used EXCEPT !.failures = @ + 1] \in UsedType
  <2>1. Len(store) \in Nat
    BY DEF TypeOK
  <2> QED BY <1>1, <2>1
<1>3. ASSUME NEW s \in Session, Open(s) PROVE TypeOK'
  BY <1>1, <1>3, OpenMoves, SessionKeepsType DEF Open
<1>4. ASSUME NEW s \in Session, NEW selected \in SUBSET DOMAIN store, NEW load \in Loads,
             NEW mean \in Means, NEW conflicts \in ConflictTraces,
             RunCycle(s, selected, load, mean, conflicts)
      PROVE  TypeOK'
  <2>1. UNCHANGED <<store, file, log>> /\ used' = [used EXCEPT !.looks = @ + Len(store)]
    BY <1>4 DEF RunCycle
  <2>2. Moved(s)
    BY <1>4, CycleMoves
  <2> QED BY <1>1, <1>2, <2>1, <2>2, SessionKeepsType
<1>5. ASSUME NEW s \in Session, Truncate(s) PROVE TypeOK'
  <2>1. Broken \in FileType
    BY ClosedType DEF Broken
  <2> QED BY <1>1, <1>5, <2>1, SaveMoves, SessionKeepsType DEF Truncate
<1>6. ASSUME NEW s \in Session, Write(s) PROVE TypeOK'
  <2>1. session[s].state \in State
    BY DEF TypeOK, SessionRecord
  <2>2. File(session[s].state) \in FileType
    BY <2>1 DEF File
  <2>3. [saves |-> log.saves + 1, last |-> session[s].state] \in LogType
    BY <1>1, <2>1
  <2> QED BY <1>1, <1>6, <2>2, <2>3, WriteMoves, SessionKeepsType DEF Write
<1>7. ASSUME NEW s \in Session, SaveFails(s) PROVE TypeOK'
  BY <1>1, <1>2, <1>7, SaveMoves, SessionKeepsType DEF SaveFails
<1>8. ASSUME NEW s \in Session, Close(s) PROVE TypeOK'
  BY <1>1, <1>8, CloseMoves, SessionKeepsType DEF Close
<1>9. ASSUME NEW s \in Session, Crash(s) PROVE TypeOK'
  BY <1>1, <1>2, <1>9, CloseMoves, SessionKeepsType DEF Crash
<1>10. ASSUME NEW i \in DOMAIN store, Use(i) PROVE TypeOK'
  <2>1. used' \in UsedType /\ UNCHANGED <<file, session, log>>
    BY <1>1, <1>10 DEF Use
  <2> QED BY <1>10, <2>1, UseMoves DEF TypeOK, SessionRecord
<1>11. ASSUME NEW days \in Ages, Pass(days) PROVE TypeOK'
  <2>1. used.days + days \in Nat
    BY <1>1, CyclesAssumption
  <2>2. used' \in UsedType /\ UNCHANGED <<file, session, log>>
    BY <1>1, <1>11, <2>1 DEF Pass
  <2> QED BY <1>11, <2>2, PassMoves DEF TypeOK, SessionRecord
<1>12. ASSUME UNCHANGED vars PROVE TypeOK'
  BY <1>12 DEF vars, TypeOK, SessionRecord
<1> QED BY <1>3, <1>4, <1>5, <1>6, <1>7, <1>8, <1>9, <1>10, <1>11, <1>12 DEF Next

\* Every variable keeps its type; what is learned stays within 0 and 1, weights
\* within 0.1 and 3, however many cycles run.
THEOREM TypeCorrect == Spec => []TypeOK
<1> QED BY InitType, NextType, PTL DEF Spec

-----------------------------------------------------------------------------
(* The inductive invariant *)

\* What the theorems need of the numbers.
LEMMA Numbers ==
    ASSUME TypeOK, NEW s \in Session
    PROVE  /\ log.saves \in Nat /\ log.last.turns \in Nat
           /\ log.last.bias \in [Resolution -> 0..100]
           /\ session[s].seen \in Nat /\ session[s].state.turns \in Nat
           /\ session[s].state.bias \in [Resolution -> 0..100]
           /\ session[s].weights \in [Policy -> 10..300]
           /\ session[s].state.reward \in -100..100
           /\ \A i \in DOMAIN store : session[s].last[i].turn \in Nat /\ session[s].skipped[i] \in Nat
<1>1. PICK r \in SessionRecord : r = session[s]
  BY DEF TypeOK
<1>2. r.state \in State /\ log.last \in State /\ log.saves \in Nat
  BY DEF TypeOK, SessionRecord
<1>3. /\ r.seen \in Nat /\ r.weights \in [Policy -> 10..300]
      /\ r.last \in [DOMAIN store -> Transition] /\ r.skipped \in [DOMAIN store -> Nat]
  BY DEF SessionRecord
<1>4. \A i \in DOMAIN store : r.last[i].turn \in Nat /\ r.skipped[i] \in Nat
  BY <1>3 DEF Transition
<1> QED BY <1>1, <1>2, <1>3, <1>4 DEF State

\* The invariant holds at the start.
LEMMA InitIInv == Init => IInv
<1> SUFFICES ASSUME Init PROVE IInv
  OBVIOUS
<1>1. TypeOK
  BY InitType
<1>2. file.state = log.last
  BY DEF Init
<1>3. ASSUME NEW s \in Session
      PROVE  /\ session[s].seen <= log.saves
             /\ HeldBriefly(session[s]) /\ Extends(session[s])
  <2>1. session[s] = Closed /\ log.saves = 0
    BY DEF Init
  <2> QED BY <2>1 DEF Closed, FreshScheduler, NoTransition, HeldBriefly, Extends, KnowsAll, Window
<1> QED BY <1>1, <1>2, <1>3 DEF IInv

\* A step that leaves the memories and the log alone, and the sessions but one.
LEMMA OneMoves ==
    ASSUME IInv, TypeOK', NEW s \in Session, Moved(s), UNCHANGED <<store, log>>,
           file'.kind = "ok" => file'.state = log.last,
           session'[s].seen <= log.saves, HeldBriefly(session'[s]), Extends(session'[s])
    PROVE  IInv'
<1>1. ASSUME NEW t \in Session
      PROVE  (session[t].seen <= log.saves /\ HeldBriefly(session[t]) /\ Extends(session[t]))'
  <2>1. CASE t = s
    BY <2>1 DEF HeldBriefly, Extends, KnowsAll
  <2>2. CASE t # s
    <3>1. session'[t] = session[t]
      BY <2>2 DEF Moved, OthersKeep
    <3> QED BY <3>1 DEF IInv, HeldBriefly, Extends, KnowsAll
  <2> QED BY <2>1, <2>2
<1> QED BY <1>1 DEF IInv

\* A cycle passes over a compression only while it is held briefly.
LEMMA CycleHolds ==
    ASSUME IInv, TypeOK', NEW s \in Session, NEW selected \in SUBSET DOMAIN store, NEW load \in Loads,
           NEW mean \in Means, NEW conflicts \in ConflictTraces,
           RunCycle(s, selected, load, mean, conflicts)
    PROVE  HeldBriefly(session'[s]) /\ Extends(session'[s])
<1>1. TypeOK /\ UNCHANGED <<store, file, log>>
  BY DEF IInv, RunCycle
<1>2. PICK q \in SessionRecord : q = session'[s]
  BY <1>1, CycleMoves DEF Moved
<1>3. PICK r \in SessionRecord : r = session[s]
  BY <1>1 DEF TypeOK
<1>4. /\ q.state.turns = r.state.turns + 1 /\ r.pc = "ready"
      /\ q.seen = r.seen /\ q.sound = r.sound /\ q.pc = "save"
      /\ \A x \in Resolution : q.state.bias[x] >= r.state.bias[x]
      /\ \A i \in DOMAIN store :
            /\ q.last[i].turn \in {r.last[i].turn, q.state.turns}
            /\ q.skipped[i] \in {0, r.skipped[i] + 1}
            /\ q.skipped[i] # 0 => /\ q.last[i].turn = r.last[i].turn
                                   /\ q.state.turns - r.last[i].turn < Window
  BY <1>1, <1>2, <1>3, CycleMoves
<1>5. HeldBriefly(r) /\ Extends(r)
  BY <1>3 DEF IInv
<1>6. HeldBriefly(q)
  <2> SUFFICES ASSUME NEW i \in DOMAIN store
               PROVE  q.skipped[i] < Window /\ q.skipped[i] <= q.state.turns - q.last[i].turn
    BY DEF HeldBriefly
  <2>1. r.skipped[i] <= r.state.turns - r.last[i].turn
    BY <1>5 DEF HeldBriefly
  <2>2. r.skipped[i] \in Nat /\ r.last[i].turn \in Nat /\ r.state.turns \in Nat
    BY <1>1, <1>3, Numbers
  <2> QED BY <1>4, <2>1, <2>2 DEF Window
<1>7. Extends(q)
  <2> SUFFICES ASSUME KnowsAll(q)
               PROVE  /\ q.state.turns > log.last.turns
                      /\ \A x \in Resolution : q.state.bias[x] >= log.last.bias[x]
    <3>1. r.state.turns \in Nat /\ log.last.turns \in Nat
      BY <1>1, <1>3, Numbers
    <3>2. q.state.turns \in Nat
      BY <3>1, <1>4
    <3> QED BY <3>1, <3>2 DEF Extends
  <2>1. KnowsAll(r)
    BY <1>4 DEF KnowsAll
  <2>2. r.state.turns >= log.last.turns /\ \A x \in Resolution : r.state.bias[x] >= log.last.bias[x]
    BY <1>5, <2>1 DEF Extends
  <2>3. /\ r.state.turns \in Nat /\ log.last.turns \in Nat
        /\ r.state.bias \in [Resolution -> 0..100] /\ log.last.bias \in [Resolution -> 0..100]
    BY <1>1, <1>3, Numbers
  <2>4. q.state.bias \in [Resolution -> 0..100]
    BY DEF SessionRecord, State
  <2>5. ASSUME NEW x \in Resolution PROVE q.state.bias[x] >= log.last.bias[x]
    <3>1. PICK later \in 0..100 : later = q.state.bias[x]
      BY <2>4
    <3>2. PICK now \in 0..100, then \in 0..100 : now = r.state.bias[x] /\ then = log.last.bias[x]
      BY <2>3
    <3>3. later >= now /\ now >= then
      BY <1>4, <2>2, <3>1, <3>2
    <3>4. later >= then
      BY <3>3
    <3> QED BY <3>1, <3>2, <3>4
  <2> QED BY <1>4, <2>2, <2>3, <2>5
<1> QED BY <1>2, <1>6, <1>7

\* Every step keeps the invariant.
LEMMA NextIInv == IInv /\ [Next]_vars => IInv'
<1> SUFFICES ASSUME IInv, [Next]_vars PROVE IInv'
  OBVIOUS
<1>1. TypeOK /\ TypeOK'
  BY NextType DEF IInv
<1>2. ASSUME NEW s \in Session, Open(s) PROVE IInv'
  <2>1. UNCHANGED <<store, file, log>>
    BY <1>2 DEF Open
  <2>2. /\ Moved(s) /\ session'[s].state = Loaded(file)
        /\ \A i \in DOMAIN store : session'[s].last[i].turn = 0 /\ session'[s].skipped[i] = 0
        /\ session'[s].seen = log.saves /\ session'[s].sound = (file.kind = "ok")
        /\ session'[s].pc = "ready"
    BY <1>1, <1>2, OpenMoves
  <2>3. Loaded(file).turns \in Nat /\ log.saves \in Nat
    BY <1>1, ClosedType DEF TypeOK, Loaded, State
  <2>4. HeldBriefly(session'[s])
    BY <2>2, <2>3 DEF HeldBriefly, Window
  <2>5. Extends(session'[s])
    <3> SUFFICES ASSUME file.kind = "ok" PROVE Extends(session'[s])
      BY <2>2 DEF Extends, KnowsAll
    <3>1. session'[s].state = log.last
      BY <2>2 DEF Loaded, IInv
    <3>2. log.last.turns \in Nat /\ log.last.bias \in [Resolution -> 0..100]
      BY <1>1 DEF TypeOK, State
    <3> QED BY <2>2, <3>1, <3>2 DEF Extends
  <2> QED BY <1>1, <2>1, <2>2, <2>3, <2>4, <2>5, OneMoves DEF IInv
<1>3. ASSUME NEW s \in Session, NEW selected \in SUBSET DOMAIN store, NEW load \in Loads,
             NEW mean \in Means, NEW conflicts \in ConflictTraces,
             RunCycle(s, selected, load, mean, conflicts)
      PROVE  IInv'
  <2>1. UNCHANGED <<store, file, log>>
    BY <1>3 DEF RunCycle
  <2>2. Moved(s) /\ session'[s].seen = session[s].seen
    BY <1>1, <1>3, CycleMoves
  <2>3. HeldBriefly(session'[s]) /\ Extends(session'[s])
    BY <1>1, <1>3, CycleHolds
  <2> QED BY <1>1, <2>1, <2>2, <2>3, OneMoves DEF IInv
<1>4. ASSUME NEW s \in Session, Truncate(s) \/ SaveFails(s) PROVE IInv'
  <2>1. UNCHANGED <<store, log>> /\ (file'.kind = "ok" => file' = file)
    BY <1>4 DEF Truncate, SaveFails, Broken
  <2>2. Moved(s) /\ session[s].pc \in {"save", "write"} /\ session'[s].pc \in {"ready", "write"}
    BY <1>1, <1>4, SaveMoves
  <2>3. /\ session'[s].state = session[s].state /\ session'[s].last = session[s].last
        /\ session'[s].skipped = session[s].skipped /\ session'[s].seen = session[s].seen
        /\ session'[s].sound = session[s].sound
    BY <1>1, <1>4, SaveMoves
  <2>4. HeldBriefly(session'[s])
    BY <2>3 DEF IInv, HeldBriefly
  <2>5. Extends(session'[s])
    BY <2>2, <2>3 DEF IInv, Extends, KnowsAll
  <2> QED BY <1>1, <2>1, <2>2, <2>3, <2>4, <2>5, OneMoves DEF IInv
<1>5. ASSUME NEW s \in Session, Write(s) PROVE IInv'
  <2>1. /\ Moved(s) /\ session'[s].seen = log.saves + 1
        /\ session'[s].state = session[s].state /\ session'[s].last = session[s].last
        /\ session'[s].skipped = session[s].skipped /\ session'[s].pc = "ready"
    BY <1>1, <1>5, WriteMoves
  <2>2. /\ file' = File(session[s].state) /\ store' = store
        /\ log' = [saves |-> log.saves + 1, last |-> session[s].state]
    BY <1>5 DEF Write
  <2>3. log.saves \in Nat
    BY <1>1 DEF TypeOK
  <2>4. ASSUME NEW t \in Session
        PROVE  (session[t].seen <= log.saves /\ HeldBriefly(session[t]) /\ Extends(session[t]))'
    <3>1. CASE t = s
      <4>1. session[s].state.turns \in Nat /\ session[s].state.bias \in [Resolution -> 0..100]
        BY <1>1, Numbers
      <4>2. Extends(session[t])'
        BY <2>1, <2>2, <3>1, <4>1 DEF Extends
      <4>3. HeldBriefly(session[t])'
        BY <2>1, <2>2, <3>1 DEF IInv, HeldBriefly
      <4> QED BY <2>1, <2>2, <2>3, <3>1, <4>2, <4>3
    <3>2. CASE t # s
      <4>1. session'[t] = session[t] /\ session[t].seen <= log.saves /\ session[t].seen \in Nat
        BY <1>1, <2>1, <3>2, Numbers DEF Moved, OthersKeep, IInv
      <4>2. ~KnowsAll(session[t])'
        BY <2>2, <2>3, <4>1 DEF KnowsAll
      <4>3. HeldBriefly(session[t])'
        BY <2>2, <4>1 DEF IInv, HeldBriefly
      <4> QED BY <2>2, <2>3, <4>1, <4>2, <4>3 DEF Extends
    <3> QED BY <3>1, <3>2
  <2> QED BY <1>1, <2>2, <2>4 DEF IInv, File
<1>6. ASSUME NEW s \in Session, Close(s) \/ Crash(s) PROVE IInv'
  <2>1. UNCHANGED <<store, file, log>>
    BY <1>6 DEF Close, Crash
  <2>2. /\ Moved(s) /\ session'[s].state = FreshScheduler /\ session'[s].pc = "closed"
        /\ \A i \in DOMAIN store : session'[s].last[i].turn = 0 /\ session'[s].skipped[i] = 0
        /\ session'[s].seen = 0
    BY <1>1, <1>6, CloseMoves
  <2>3. log.saves \in Nat
    BY <1>1 DEF TypeOK
  <2>4. HeldBriefly(session'[s]) /\ Extends(session'[s])
    BY <2>2 DEF HeldBriefly, Extends, KnowsAll, FreshScheduler, Window
  <2> QED BY <1>1, <2>1, <2>2, <2>3, <2>4, OneMoves DEF IInv
<1>7. ASSUME DOMAIN store' = DOMAIN store, UNCHANGED <<file, session, log>> PROVE IInv'
  BY <1>1, <1>7 DEF IInv, HeldBriefly, Extends, KnowsAll
<1>8. ASSUME NEW i \in DOMAIN store, Use(i) PROVE IInv'
  BY <1>1, <1>7, <1>8, UseMoves DEF Use
<1>9. ASSUME NEW days \in Ages, Pass(days) PROVE IInv'
  BY <1>1, <1>7, <1>9, PassMoves DEF Pass
<1>10. ASSUME UNCHANGED vars PROVE IInv'
  BY <1>7, <1>10 DEF vars
<1> QED BY <1>2, <1>3, <1>4, <1>5, <1>6, <1>8, <1>9, <1>10 DEF Next

\* The inductive invariant holds in every reachable state.
LEMMA Invariance == Spec => []IInv
<1> QED BY InitIInv, NextIInv, PTL DEF Spec

-----------------------------------------------------------------------------
(* The theorems *)

\* A compression that is due waits for fewer than Window cycles in a row.
THEOREM CompressionsComeSoon == Spec => []CompressionIsNotStarved
<1>1. IInv => CompressionIsNotStarved
  BY DEF IInv, HeldBriefly, CompressionIsNotStarved
<1> QED BY Invariance, <1>1, PTL

\* No cycle plans to promote a memory and to decay, evict or demote it.
THEOREM PlansAreNotMixed == Spec => []NoMixedPlan
<1>1. ASSUME TypeOK PROVE NoMixedPlan
  <2> SUFFICES ASSUME NEW s \in Session, NEW i \in DOMAIN store,
                      NEW selected \in SUBSET DOMAIN store, NEW load \in Loads
               PROVE  KeepsOrDrops(store[i], Tier(store[i], i \in selected), session[s].last[i],
                                   session[s].state.turns + 1, load)
    BY DEF NoMixedPlan
  <2> DEFINE m == store[i]
             tier == Tier(m, i \in selected)
             turn == session[s].state.turns + 1
             plan == Lifecycle(m, tier, session[s].last[i], turn, load)
  <2>1. m \in Memory
    BY <1>1 DEF TypeOK
  <2>2. ASSUME NEW a \in plan.actions, a.type = "promote" PROVE WantsPromotion(m)
    BY <2>2 DEF Lifecycle, Only, Action
  <2>3. ASSUME NEW a \in plan.actions, a.type \in {"decay", "evict", "demote"}
        PROVE  WantsDecay(m) \/ WantsEvict(m) \/ WantsDemotion(m)
    BY <2>3 DEF Lifecycle, Only, Action
  <2> HIDE DEF plan
  <2> QED BY <2>1, <2>2, <2>3, StrengthOfPromoted DEF KeepsOrDrops, plan
<1> QED BY TypeCorrect, <1>1, PTL

\* Once safe mode settled a conflict, the weight of safety does not fall.
THEOREM SafetyIsKept == Spec => SafetyNeverFalls
<1> DEFINE Kept == \A s \in Session :
              session'[s].pc = "save" /\ session'[s].state.bias["safe_mode"] > 0 =>
              session'[s].weights["safety"] >= session[s].weights["safety"]
<1>1. ASSUME TypeOK, [Next]_vars PROVE Kept
  <2> SUFFICES ASSUME NEW s \in Session, session'[s].pc = "save",
                      session'[s].state.bias["safe_mode"] > 0
               PROVE  session'[s].weights["safety"] >= session[s].weights["safety"]
    OBVIOUS
  <2>1. PICK w \in 10..300 : w = session[s].weights["safety"]
    BY <1>1, Numbers DEF Policy
  <2>2. CASE session'[s] = session[s]
    BY <2>1, <2>2
  <2>3. ASSUME NEW t \in Session, Moved(t), session'[t].pc # "save" PROVE session'[s] = session[s]
    BY <2>3 DEF Moved, OthersKeep
  <2>4. ASSUME NEW t \in Session, NEW selected \in SUBSET DOMAIN store, NEW load \in Loads,
               NEW mean \in Means, NEW conflicts \in ConflictTraces,
               RunCycle(t, selected, load, mean, conflicts)
        PROVE  session'[s].weights["safety"] >= w
    <3>1. Moved(t)
      BY <1>1, <2>4, CycleMoves
    <3>2. CASE s = t
      <4>1. session'[s].weights = Synchronized(session[s].weights, session'[s].state.reward,
                                               session'[s].state.bias)
        BY <1>1, <2>4, <3>2, CycleMoves
      <4>2. TypeOK'
        BY <1>1, NextType
      <4>3. session'[s].state.reward \in -100..100 /\ session'[s].state.bias \in [Resolution -> 0..100]
        BY <4>2 DEF TypeOK, SessionRecord, State
      <4>4. session[s].weights \in [Policy -> 10..300]
        BY <1>1, Numbers
      <4> QED BY <2>1, <4>1, <4>3, <4>4, SafetyHolds
    <3>3. CASE s # t
      BY <2>1, <3>1, <3>3 DEF Moved, OthersKeep
    <3> QED BY <3>2, <3>3
  <2>5. ASSUME NEW t \in Session,
               Open(t) \/ Truncate(t) \/ Write(t) \/ SaveFails(t) \/ Close(t) \/ Crash(t)
        PROVE  session'[s] = session[s]
    <3>1. Moved(t) /\ session'[t].pc # "save"
      BY <1>1, <2>5, OpenMoves, SaveMoves, WriteMoves, CloseMoves
    <3> QED BY <2>3, <3>1
  <2>6. ASSUME UNCHANGED session PROVE session'[s] = session[s]
    BY <2>6
  <2> QED BY <1>1, <2>1, <2>2, <2>4, <2>5, <2>6 DEF Next, Use, Pass, vars
<1> QED BY TypeCorrect, <1>1, PTL DEF Spec, SafetyNeverFalls

\* A save of a session that knows every earlier one counts on and forgets nothing.
THEOREM LearningIsKept == Spec => SaveKeepsLearning
<1> DEFINE Kept == \A s \in Session :
              At(s, "write") /\ session'[s].pc = "ready" /\ log'.saves > log.saves
                  /\ session[s].sound /\ session[s].seen = log.saves =>
              /\ file'.state.turns > log.last.turns
              /\ \A r \in Resolution : file'.state.bias[r] >= log.last.bias[r]
<1>1. ASSUME IInv, [Next]_vars PROVE Kept
  <2> SUFFICES ASSUME NEW s \in Session, session[s].pc = "write", session'[s].pc = "ready",
                      log'.saves > log.saves, session[s].sound, session[s].seen = log.saves
               PROVE  /\ file'.state.turns > log.last.turns
                      /\ \A r \in Resolution : file'.state.bias[r] >= log.last.bias[r]
    BY DEF At
  <2>1. TypeOK
    BY <1>1 DEF IInv
  <2>2. /\ session[s].state.turns > log.last.turns
        /\ \A r \in Resolution : session[s].state.bias[r] >= log.last.bias[r]
    BY <1>1 DEF IInv, Extends, KnowsAll
  <2>3. ASSUME NEW t \in Session, Moved(t), session[t].pc # "write" \/ session'[t].pc # "ready"
        PROVE  FALSE
    BY <2>3 DEF Moved, OthersKeep
  <2>4. ASSUME NEW t \in Session, Write(t) PROVE file' = File(session[s].state)
    <3>1. t = s
      BY <2>1, <2>4, WriteMoves DEF Moved, OthersKeep
    <3> QED BY <2>4, <3>1 DEF Write
  <2>5. ASSUME NEW t \in Session, NEW selected \in SUBSET DOMAIN store, NEW load \in Loads,
               NEW mean \in Means, NEW conflicts \in ConflictTraces,
               RunCycle(t, selected, load, mean, conflicts)
        PROVE  FALSE
    BY <2>1, <2>3, <2>5, CycleMoves
  <2>6. ASSUME NEW t \in Session, Open(t) \/ Truncate(t) \/ SaveFails(t) PROVE FALSE
    <3>1. log' = log
      BY <2>6 DEF Open, Truncate, SaveFails
    <3>2. log.saves \in Nat
      BY <2>1 DEF TypeOK
    <3> QED BY <3>1, <3>2
  <2>7. ASSUME NEW t \in Session, Close(t) \/ Crash(t) PROVE FALSE
    <3>1. Moved(t) /\ session'[t].pc # "ready"
      BY <2>1, <2>7, CloseMoves
    <3> QED BY <2>3, <3>1
  <2>8. ~UNCHANGED session
    OBVIOUS
  <2>9. PICK t \in Session : Write(t)
    BY <1>1, <2>5, <2>6, <2>7, <2>8 DEF Next, Use, Pass, vars
  <2> QED BY <2>2, <2>4, <2>9 DEF File
<1> QED BY Invariance, <1>1, PTL DEF Spec, SaveKeepsLearning

-----------------------------------------------------------------------------
(* Contradictions, attention and the task *)

\* Of finitely many places there is a last one.
LEMMA LastInIs ==
    ASSUME NEW n \in Nat, NEW S \in SUBSET (1..n), S # {}
    PROVE  LastIn(S) \in S
<1>1. IsFiniteSet(S)
  BY FS_Subset, IntervalSize
<1>2. \E i \in S : \A j \in S : i >= j
  BY <1>1, GreatestExists
<1>3. \E i \in S : \A j \in S : j <= i
  BY <1>2
<1> QED BY <1>3 DEF LastIn

\* The places where ms says k, or denies it.
Saying(ms, key, k, negative) == {i \in Group(key, k) : ms[i].negative = negative}

\* A contradiction is over one key, between a memory that says it and one that denies it.
LEMMA OpposedIs ==
    ASSUME NEW ms \in Seq(Memory), NEW key, DOMAIN key = DOMAIN ms, NEW c \in Opposed(ms, key)
    PROVE  /\ c.pair[1] \in Saying(ms, key, c.key, FALSE)
           /\ c.pair[2] \in Saying(ms, key, c.key, TRUE)
<1>1. PICK k \in Keys(key) :
        /\ Saying(ms, key, k, FALSE) # {} /\ Saying(ms, key, k, TRUE) # {}
        /\ c = [key |-> k, pair |-> <<LastIn(Saying(ms, key, k, FALSE)),
                                      LastIn(Saying(ms, key, k, TRUE))>>]
  BY DEF Opposed, Saying
<1>2. \A negative : Saying(ms, key, k, negative) \in SUBSET (1..Len(ms)) /\ Len(ms) \in Nat
  BY DEF Saying, Group
<1> QED BY <1>1, <1>2, LastInIs

\* Where one memory says what another denies, there is a contradiction over it.
LEMMA OpposedExists ==
    ASSUME NEW ms \in Seq(Memory), NEW key, DOMAIN key = DOMAIN ms, NEW k,
           NEW i \in Saying(ms, key, k, FALSE), NEW j \in Saying(ms, key, k, TRUE)
    PROVE  \E c \in Opposed(ms, key) : c.key = k
<1>1. k \in Keys(key)
  BY DEF Keys, Saying, Group
<1> PICK c : c = [key |-> k, pair |-> <<LastIn(Saying(ms, key, k, FALSE)),
                                        LastIn(Saying(ms, key, k, TRUE))>>]
  OBVIOUS
<1>2. c \in Opposed(ms, key) /\ c.key = k
  BY <1>1 DEF Opposed, Saying
<1> QED BY <1>2

\* A body that is said and denied is contradicted in the cognitive reports.
LEMMA ContradictedBody ==
    ASSUME NEW ms \in Seq(Memory), NEW i \in DOMAIN ms, NEW j \in DOMAIN ms,
           ms[i].body = ms[j].body, ms[i].negative = FALSE, ms[j].negative = TRUE
    PROVE  \E c \in Contradictions(ms) : ms[c.pair[1]].body = ms[i].body
<1> PICK key : key = MeaningKey(ms)  OBVIOUS
<1> PICK k : k = ms[i].body  OBVIOUS
<1>1. DOMAIN key = DOMAIN ms /\ \A l \in DOMAIN ms : key[l] = ms[l].body
  BY DEF MeaningKey
<1>2. i \in Saying(ms, key, k, FALSE) /\ j \in Saying(ms, key, k, TRUE)
  BY <1>1 DEF Saying, Group
<1>3. PICK c \in Opposed(ms, key) : c.key = k
  BY <1>1, <1>2, OpposedExists
<1>4. c.pair[1] \in Saying(ms, key, k, FALSE)
  BY <1>1, <1>3, OpposedIs
<1>5. ms[c.pair[1]].body = k
  BY <1>1, <1>4 DEF Saying, Group
<1> QED BY <1>3, <1>5 DEF Contradictions

\* The first reason there is for a task makes it.
LEMMA TaskIs ==
    ASSUME NEW ms
    PROVE  Task(ms) =
             IF Contradictions(ms) # {}
             THEN Goal("resolve_cognitive_conflict", 100, Conflicting(ms))
             ELSE IF Inconsistent(ms) # {}
             THEN Goal("clarify_uncertain_beliefs", 85, Inconsistent(ms))
             ELSE IF Outdated(ms) # {}
             THEN Goal("reduce_stale_belief_influence", 70, Outdated(ms))
             ELSE Goal("maintain_reasoning_continuity", 35, DOMAIN ms)
BY DEF Task, Goals

\* The attention a memory gets for the best reason there is.
Deserved(ms, i) == IF i \in Conflicting(ms) THEN 100
                   ELSE IF i \in Inconsistent(ms) THEN 85
                   ELSE IF i \in Outdated(ms) THEN 65 ELSE 45

\* The best reason there is for attention counts.
LEMMA AttentionIs ==
    ASSUME NEW ms, NEW selected, NEW attention, attention = Attention(ms, selected),
           Conflicting(ms) # {} \/ Inconsistent(ms) # {} \/ Outdated(ms) # {}
    PROVE  /\ DOMAIN attention = Conflicting(ms) \cup Inconsistent(ms) \cup Outdated(ms)
                                   \cup Affected(ms, selected)
           /\ \A i \in DOMAIN attention : attention[i] = Deserved(ms, i)
<1> PICK C : C = Conflicting(ms)  OBVIOUS
<1> PICK I : I = Inconsistent(ms)  OBVIOUS
<1> PICK O : O = Outdated(ms)  OBVIOUS
<1> PICK A : A = Affected(ms, selected)  OBVIOUS
<1> PICK most : most = Merged(Ranked(C, 100), Ranked(I, 85))  OBVIOUS
<1>1. /\ DOMAIN most = C \cup I
      /\ \A i \in C \cup I : most[i] = IF i \in C THEN 100 ELSE 85
  BY DEF Merged, Ranked
<1> PICK urgent : urgent = Merged(most, Ranked(O, 65))  OBVIOUS
<1>2. /\ DOMAIN urgent = C \cup I \cup O
      /\ \A i \in C \cup I \cup O :
            urgent[i] = IF i \in C THEN 100 ELSE IF i \in I THEN 85 ELSE 65
  BY <1>1 DEF Merged, Ranked
<1> PICK all : all = Merged(urgent, Ranked(A, 45))  OBVIOUS
<1>3. /\ DOMAIN all = C \cup I \cup O \cup A
      /\ \A i \in C \cup I \cup O \cup A :
            all[i] = IF i \in C THEN 100 ELSE IF i \in I THEN 85 ELSE IF i \in O THEN 65 ELSE 45
  BY <1>2 DEF Merged, Ranked
<1>4. DOMAIN all # {}
  BY <1>3
<1>5. Attention(ms, selected) = all
  BY <1>4 DEF Attention
<1> QED BY <1>3, <1>5 DEF Deserved

\* The pair of a contradiction has full attention, whatever else is selected, and is
\* what the task resolves: no reason for attention counts more, and no goal leads it.
LEMMA ConflictingAttended ==
    ASSUME NEW ms, NEW c \in Contradictions(ms), NEW selected,
           NEW task, task = Task(ms), NEW attention, attention = Attention(ms, selected)
    PROVE  Attended(c.pair, attention, task)
<1>1. c.pair[1] \in Conflicting(ms) /\ c.pair[2] \in Conflicting(ms)
  BY DEF Conflicting
<1>2. task = Goal("resolve_cognitive_conflict", 100, Conflicting(ms))
  BY TaskIs
<1>3. Conflicting(ms) # {}
  BY <1>1
<1>4. /\ DOMAIN attention = Conflicting(ms) \cup Inconsistent(ms) \cup Outdated(ms)
                               \cup Affected(ms, selected)
      /\ \A i \in DOMAIN attention : attention[i] = Deserved(ms, i)
  BY <1>3, AttentionIs
<1> QED BY <1>1, <1>2, <1>4 DEF Attended, Goal, Deserved

\* Whatever the sessions save, forget and let age: what the consistency model and the
\* meaning merge go by, and what the cognitive reports go by, do not miss each other's
\* contradictions, so one that blocks a commit is attended to and is the task.
THEOREM ContradictionsGetAttention == Spec => []ContradictionsAreAttended
<1>1. TypeOK => ContradictionsAreAttended
  <2> SUFFICES ASSUME TypeOK PROVE ContradictionsAreAttended
    OBVIOUS
  <2> DEFINE refused == {store[c.pair[1]].body : c \in GlobalContradictions(store)}
             mixed == {S \in MergedMeanings(store) : {store[i].negative : i \in S} = BOOLEAN}
             bodies == refused \cup {store[i].body : i \in UNION mixed}
  <2>1. store \in Seq(Memory)
    BY DEF TypeOK
  <2>2. ASSUME NEW body \in refused
        PROVE  \E c \in Contradictions(store) : store[c.pair[1]].body = body
    <3> PICK key : key = ContradictionKey(store)  OBVIOUS
    <3>1. DOMAIN key = DOMAIN store
          /\ \A l \in DOMAIN store : key[l] = <<store[l].prefix, store[l].body>>
      BY DEF ContradictionKey
    <3>2. PICK g \in Opposed(store, key) : body = store[g.pair[1]].body
      BY DEF GlobalContradictions
    <3>3. /\ g.pair[1] \in Saying(store, key, g.key, FALSE)
          /\ g.pair[2] \in Saying(store, key, g.key, TRUE)
      BY <2>1, <3>1, OpposedIs
    <3>4. PICK i \in DOMAIN store : i = g.pair[1] /\ key[i] = g.key /\ store[i].negative = FALSE
      BY <3>1, <3>3 DEF Saying, Group
    <3>5. PICK j \in DOMAIN store : j = g.pair[2] /\ key[j] = g.key /\ store[j].negative = TRUE
      BY <3>1, <3>3 DEF Saying, Group
    <3>6. store[i].body = store[j].body
      BY <3>1, <3>4, <3>5
    <3>7. \E c \in Contradictions(store) : store[c.pair[1]].body = store[i].body
      BY <2>1, <3>4, <3>5, <3>6, ContradictedBody
    <3> QED BY <3>2, <3>4, <3>7
  <2>3. ASSUME NEW S \in mixed, NEW l \in S
        PROVE  \E c \in Contradictions(store) : store[c.pair[1]].body = store[l].body
    <3>1. PICK k : S = Group(MeaningKey(store), k)
      BY DEF MergedMeanings
    <3>2. S \subseteq DOMAIN store /\ \A m \in S : store[m].body = k
      BY <3>1 DEF Group, MeaningKey
    <3>3. {store[m].negative : m \in S} = BOOLEAN
      OBVIOUS
    <3>4. PICK i \in S : store[i].negative = FALSE
      <4>1. FALSE \in {store[m].negative : m \in S}
        BY <3>3
      <4> QED BY <4>1
    <3>5. PICK j \in S : store[j].negative = TRUE
      <4>1. TRUE \in {store[m].negative : m \in S}
        BY <3>3
      <4> QED BY <4>1
    <3>6. i \in DOMAIN store /\ j \in DOMAIN store /\ store[i].body = store[j].body
      BY <3>2
    <3>7. \E c \in Contradictions(store) : store[c.pair[1]].body = store[i].body
      BY <2>1, <3>4, <3>5, <3>6, ContradictedBody
    <3> QED BY <3>2, <3>7
  <2>4. ASSUME NEW body \in bodies
        PROVE  \E c \in Contradictions(store) : store[c.pair[1]].body = body
    <3>1. CASE body \in refused
      BY <2>2, <3>1
    <3>2. CASE body \notin refused
      <4>1. PICK l \in UNION mixed : body = store[l].body
        BY <3>2
      <4>2. PICK S \in mixed : l \in S
        BY <4>1
      <4> HIDE DEF mixed
      <4> QED BY <2>3, <4>1, <4>2
    <3> QED BY <3>1, <3>2
  <2>5. ASSUME NEW task, task = Task(store), NEW selected,
               NEW attention, attention = Attention(store, selected), NEW body \in bodies
        PROVE  \E c \in Contradictions(store) :
                  store[c.pair[1]].body = body /\ Attended(c.pair, attention, task)
    BY <2>4, <2>5, ConflictingAttended
  <2> QED BY <2>5 DEF ContradictionsAreAttended, Once
<1> QED BY <1>1, TypeCorrect, PTL

\* In every reachable store, the goal that is selected and the attention that is computed
\* apart from it agree: no memory outside the task has more attention than one in it.
THEOREM TasksGetAttentionFirst == Spec => []TaskIsAttendedFirst
<1>1. TaskIsAttendedFirst
  <2> SUFFICES ASSUME NEW task, task = Task(store), task.id # "maintain_reasoning_continuity",
                      NEW selected, NEW attention, attention = Attention(store, selected),
                      NEW i \in task.targets, NEW j \in DOMAIN attention \ task.targets
               PROVE  i \in DOMAIN attention /\ attention[i] >= attention[j]
    BY DEF TaskIsAttendedFirst, Once
  <2> PICK C : C = Conflicting(store)  OBVIOUS
  <2> PICK I : I = Inconsistent(store)  OBVIOUS
  <2> PICK O : O = Outdated(store)  OBVIOUS
  <2>1. C # {} <=> Contradictions(store) # {}
    <3>1. \A c \in Contradictions(store) : c.pair[1] \in C
      BY DEF Conflicting
    <3>2. \A l \in C : \E c \in Contradictions(store) : l \in {c.pair[1], c.pair[2]}
      BY DEF Conflicting
    <3> QED BY <3>1, <3>2
  <2>2. \/ C # {} /\ task.targets = C
        \/ C = {} /\ I # {} /\ task.targets = I
        \/ C = {} /\ I = {} /\ O # {} /\ task.targets = O
    BY <2>1, TaskIs DEF Goal
  <2>3. Conflicting(store) # {} \/ Inconsistent(store) # {} \/ Outdated(store) # {}
    BY <2>2
  <2>4. /\ DOMAIN attention = Conflicting(store) \cup Inconsistent(store) \cup Outdated(store)
                                 \cup Affected(store, selected)
        /\ \A l \in DOMAIN attention : attention[l] = Deserved(store, l)
    BY <2>3, AttentionIs
  <2>5. /\ C \cup I \cup O \subseteq DOMAIN attention
        /\ \A l \in DOMAIN attention :
              attention[l] = IF l \in C THEN 100 ELSE IF l \in I THEN 85
                             ELSE IF l \in O THEN 65 ELSE 45
    BY <2>4 DEF Deserved
  <2> QED BY <2>2, <2>5
<1> QED BY <1>1, PTL
=============================================================================
