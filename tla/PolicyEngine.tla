---------------------------- MODULE PolicyEngine ----------------------------
(***************************************************************************)
(* DecisionPolicyEngine and its PolicyState: weights learned per project    *)
(* and over all projects, the decisions last taken, the log of versions,    *)
(* the snapshots, and rollback.                                             *)
(*                                                                          *)
(* Weights and rewards are in hundredths.  The two rates of PolicyWeights   *)
(* are running averages; they are kept as the sums they divide: wins here,  *)
(* the confidence is left out, and so is the history of outcomes that only  *)
(* detect_policy_drift reads.                                               *)
(***************************************************************************)
EXTENDS Integers, Sequences, Ordering, TurnGraph

CONSTANTS
    Project,           \* project keys, numbered
    SnapshotInterval,  \* turns between two snapshots
    StabilityWindow    \* decisions on record from which should_recall is free

ASSUME EngineAssumption ==
    /\ Project \subseteq Nat /\ IsFiniteSet(Project)
    /\ SnapshotInterval \in Nat \ {0}
    /\ StabilityWindow \in Nat \ {0}

MaxUpdate == 10
MaxSnapshots == 50
RecentLength == IF StabilityWindow > 4 THEN StabilityWindow ELSE 4

\* The nodes whose weights some code changes: should_recall by a library's
\* adjust_edge, the others by update_from_trace.
WeightedNode == {"should_recall", "execute", "fallback_lightweight", "skip_memory"}

Bound(value, lower, upper) == IF value < lower THEN lower ELSE IF value > upper THEN upper ELSE value
Put(f, x, v) == [y \in DOMAIN f \cup {x} |-> IF y = x THEN v ELSE f[y]]

-----------------------------------------------------------------------------
(* PolicyWeights *)

FreshWeights == [adaptive |-> 100, visits |-> 0, wins |-> 0, reward |-> 0, edges |-> <<>>]

\* decision_weights[decision], or the default 1.0 an unlearned decision starts from.
EdgeOr(w, decision, default) == IF decision \in DOMAIN w.edges THEN w.edges[decision] ELSE default
EdgeWeight(w, decision) == EdgeOr(w, decision, w.adaptive)

ApplyReward(w, decision, reward) ==
    LET step == Bound(reward, -MaxUpdate, MaxUpdate) IN
    [adaptive |-> Bound(w.adaptive + step, 10, 300),
     visits |-> w.visits + 1,
     wins |-> w.wins + (IF reward > 0 THEN 1 ELSE 0),
     reward |-> w.reward + reward,
     edges |-> Put(w.edges, decision, Bound(EdgeOr(w, decision, 100) + step, 10, 300))]

\* What adjust_edge does to the project's weights and to the global ones: a
\* penalty for skipping recall leaves the weight of the node as it was.
Adjusted(w, node, decision, reward) ==
    LET applied == ApplyReward(w, decision, reward)
    IN IF node = "should_recall" /\ decision = "skip" /\ reward < 0
       THEN [applied EXCEPT !.adaptive = w.adaptive] ELSE applied

\* weights_for and global_weights_for: an entry appears when it is first asked for.
WeightsFor(entries, node) == IF node \in DOMAIN entries THEN entries[node] ELSE FreshWeights
Ask(entries, node) == Put(entries, node, WeightsFor(entries, node))
AdjustEntry(entries, node, decision, reward) ==
    Put(entries, node, Adjusted(WeightsFor(entries, node), node, decision, reward))

-----------------------------------------------------------------------------
(* PolicyState *)

FreshState ==
    [projects |-> [p \in Project |-> <<>>],
     global |-> <<>>,
     recent |-> [p \in Project |-> <<>>],
     turns |-> 0, current |-> 0, versions |-> <<>>, snapshots |-> <<>>]

AdjustEdge(s, project, node, decision, reward) ==
    [s EXCEPT !.projects = Put(@, project, AdjustEntry(s.projects[project], node, decision, reward)),
              !.global = AdjustEntry(@, node, decision, reward)]

LastOf(seq, n) == SubSeq(seq, IF Len(seq) > n THEN Len(seq) - n + 1 ELSE 1, Len(seq))

\* policy_snapshot, then record_decision, for an event that is traced; only what
\* should_recall decided is ever read again.
RecordDecision(s, project, event) ==
    LET asked == IF event[1] \in WeightedNode
                 THEN [s EXCEPT !.projects = Put(@, project, Ask(s.projects[project], event[1]))]
                 ELSE s
        recent == LastOf(Append(s.recent[project], event[2]), RecentLength)
    IN IF event[1] # "should_recall" THEN asked
       ELSE [asked EXCEPT !.recent = Put(@, project, recent)]

\* select_decision: the proposal, unless another decision has clearly the best
\* weight at a node that has learned; and should_recall repeats its last
\* decision while few are on record.
SelectDecision(s, project, node, proposed, allowed, deterministic) ==
    LET w == WeightsFor(s.projects[project], node)
        weight == [i \in DOMAIN allowed |-> EdgeWeight(w, allowed[i])]
        best == CHOOSE i \in DOMAIN allowed : \A j \in DOMAIN allowed :
                    weight[i] > weight[j] \/ (weight[i] = weight[j] /\ i <= j)
        chosen == IF weight[best] >= EdgeWeight(w, proposed) + 15 /\ w.visits > 0
                  THEN allowed[best] ELSE proposed
        recent == s.recent[project]
    IN IF deterministic THEN proposed
       ELSE IF node = "should_recall" /\ recent # <<>> /\ Len(recent) < StabilityWindow
            THEN recent[Len(recent)] ELSE chosen

-----------------------------------------------------------------------------
(* Learning *)

\* update_from_trace: the reward an event of the trace earns its own node and
\* decision.
Reward(event, selectedCount) ==
    CASE event = <<"execute", "executed">> /\ selectedCount > 0 -> 100
      [] event[1] = "fallback_lightweight" -> -20
      [] event \in {<<"skip_memory", "skip">>, <<"skip_memory", "policy_skip">>} -> 30
      [] OTHER -> 0

Signals(trace, selectedCount) == Filtered(trace, {e \in Event : Reward(e, selectedCount) # 0})

\* to_dict copies the numbers of each PolicyWeights but not its dictionary of
\* decision weights, nor the lists of recent decisions: a version that this
\* engine recorded is "live", and shows those as they are now.
StateAfter(s) == [projects |-> s.projects, global |-> s.global, recent |-> s.recent,
                  turns |-> s.turns, current |-> s.current, live |-> TRUE]

\* Mutant: versions are numbered on from the current one.
NumberFromCurrent(s, project) ==
    LET id == s.current + 1
    IN [s EXCEPT !.current = id,
                 !.versions = Append(@, [id |-> id, parent |-> s.current, project |-> project,
                                         after |-> [StateAfter(s) EXCEPT !.current = id]])]

\* _record_policy_version, _next_policy_version_id, _maybe_snapshot.
RecordVersion(s, project) ==
    LET id == Len(s.versions) + 1
    IN [s EXCEPT !.current = id,
                 !.versions = Append(@, [id |-> id, parent |-> s.current, project |-> project,
                                         after |-> [StateAfter(s) EXCEPT !.current = id]])]

Snapshot(s) ==
    IF s.turns % SnapshotInterval # 0 THEN s
    ELSE [s EXCEPT !.snapshots =
              LastOf(Append(@, [turn |-> s.turns, version |-> s.current]), MaxSnapshots)]

\* update_from_trace.
Learn(turn, s, e) == AdjustEdge(s, turn.project, e[1], e[2], Reward(e, turn.selected))
UpdateFromTrace(s, project, trace, selectedCount) ==
    LET turn == [project |-> project, selected |-> selectedCount]
        Ending(signals) ==
            With([FoldOf(Learn, turn, s, signals) EXCEPT !.turns = @ + 1], LAMBDA counted :
            With(IF signals = <<>> THEN counted ELSE RecordVersion(counted, project), Snapshot))
    IN With(Signals(trace, selectedCount), Ending)

-----------------------------------------------------------------------------
(* The file, and rollback *)

WithEdgesOf(old, now) == [n \in DOMAIN old |-> [old[n] EXCEPT !.edges = now[n].edges]]

\* What a live version shows at this moment.
Shown(after, s) ==
    IF ~after.live THEN after
    ELSE [after EXCEPT !.projects = [p \in Project |-> WithEdgesOf(@[p], s.projects[p])],
                       !.global = WithEdgesOf(@, s.global),
                       !.recent = s.recent,
                       !.live = FALSE]

Frozen(version, s) == [version EXCEPT !.after = Shown(version.after, s)]

\* save writes every version as it shows; the engine's own stay live.
Written(s) ==
    [s EXCEPT !.versions = [i \in DOMAIN s.versions |-> Frozen(s.versions[i], s)]]

\* Mutant: the restored state brings its own shorter log back.
RollbackForgets(s, id) ==
    With(Shown(s.versions[id].after, s), LAMBDA after :
       [projects |-> after.projects, global |-> after.global, recent |-> after.recent,
        turns |-> after.turns, current |-> id,
        versions |-> SubSeq(Written(s).versions, 1, id), snapshots |-> s.snapshots])

\* Mutant: only what the projects learned is restored.
RollbackKeepsGlobal(s, id) ==
    With(Shown(s.versions[id].after, s), LAMBDA after :
       [projects |-> after.projects, global |-> s.global, recent |-> after.recent,
        turns |-> after.turns, current |-> id,
        versions |-> Written(s).versions, snapshots |-> s.snapshots])

\* rollback_to_version: a copy of the version's state becomes the engine's, the
\* log and the snapshots are kept.  The older versions keep showing the state
\* that was left, which nothing changes any more.
Rollback(s, id) ==
    With(Shown(s.versions[id].after, s), LAMBDA after :
       [projects |-> after.projects, global |-> after.global, recent |-> after.recent,
        turns |-> after.turns, current |-> id,
        versions |-> Written(s).versions, snapshots |-> s.snapshots])

-----------------------------------------------------------------------------
(* What a state keeps, whatever is learned and rolled back *)

\* The ids of versions are their places in the log, and the parent of a version is
\* an earlier one.
LogIsWellFormed(s) ==
    /\ \A i \in DOMAIN s.versions : s.versions[i].id = i /\ s.versions[i].parent \in 0..(i - 1)
    /\ s.current \in 0..Len(s.versions)

\* What is learned over all projects is what is learned in each: visits, wins and
\* rewards of a node add up.
ProjectOrder == SortedBy(Project, [p \in Project |-> <<p>>])
SumsUp(s) ==
    \A node \in WeightedNode :
        LET Of(p) == WeightsFor(s.projects[p], node)
            global == WeightsFor(s.global, node)
        IN /\ global.visits = Total([p \in Project |-> Of(p).visits], ProjectOrder)
           /\ global.wins = Total([p \in Project |-> Of(p).wins], ProjectOrder)
           /\ global.reward = Total([p \in Project |-> Of(p).reward], ProjectOrder)

\* The version log, from one saved state to the next: the older versions keep
\* their ids, parents, projects and numbers; their decision weights too, unless
\* the engine that saves recorded the version itself, and has shared them with it.
Numbers(entries) == [n \in DOMAIN entries |-> [entries[n] EXCEPT !.edges = <<>>]]
SameVersion(old, new, own) ==
    /\ <<old.id, old.parent, old.project, old.after.turns>>
         = <<new.id, new.parent, new.project, new.after.turns>>
    /\ \A p \in Project : Numbers(old.after.projects[p]) = Numbers(new.after.projects[p])
    /\ ~own => old.after.projects = new.after.projects /\ old.after.global = new.after.global

ExtendsLog(old, new, loaded) ==
    /\ Len(old.versions) <= Len(new.versions)
    /\ \A i \in DOMAIN old.versions :
           SameVersion(old.versions[i], new.versions[i], i > loaded)

\* The states there are, by the entries and versions they have.
WeightedDecision == {e[2] : e \in {e \in Event : e[1] \in WeightedNode}}
AreEntries(entries) ==
    /\ DOMAIN entries \subseteq WeightedNode
    /\ entries \in [DOMAIN entries -> {entries[node] : node \in DOMAIN entries}]
    /\ \A node \in DOMAIN entries : \E D \in SUBSET WeightedDecision :
          entries[node] \in [adaptive : Int, visits : Int, wins : Int, reward : Int,
                             edges : [D -> Int]]
EntriesOf(s) == {s.global} \cup {s.projects[p] : p \in Project}
IsState(s) ==
    /\ s \in [projects : [Project -> EntriesOf(s)], global : EntriesOf(s),
              recent : [Project -> Seq(Items(RecallChoices))], turns : Nat, current : Nat,
              versions : Seq(Items(s.versions)), snapshots : Seq([turn : Nat, version : Nat])]
    /\ \A entries \in EntriesOf(s) : AreEntries(entries)
    /\ \A v \in Items(s.versions) :
          /\ v \in [id : Nat, parent : Nat, project : Project, after : {v.after}]
          /\ v.after \in [projects : [Project -> EntriesOf(v.after)], global : EntriesOf(v.after),
                          recent : [Project -> Seq(Items(RecallChoices))], turns : Nat,
                          current : Nat, live : BOOLEAN]
          /\ \A entries \in EntriesOf(v.after) : AreEntries(entries)

\* What this code saves.
SavedState(s) ==
    /\ IsState(s) /\ LogIsWellFormed(s) /\ SumsUp(s)
    /\ \A v \in Items(s.versions) : ~v.after.live /\ SumsUp(v.after)
=============================================================================
