------------------------- MODULE PolicyEngine_proofs -------------------------
(***************************************************************************)
(* What learning, recording, saving and rolling back keep of a policy state *)
(***************************************************************************)
EXTENDS PolicyEngine, Ordering_proofs

Learning == INSTANCE Folding WITH Op <- Learn

\* The states there are, as sets.
Weights == [adaptive : Int, visits : Int, wins : Int, reward : Int,
            edges : UNION {[D -> Int] : D \in SUBSET WeightedDecision}]
Entries == UNION {[D -> Weights] : D \in SUBSET WeightedNode}
Learned == [projects : [Project -> Entries], global : Entries,
            recent : [Project -> Seq(Items(RecallChoices))],
            turns : Nat, current : Nat, live : BOOLEAN]
Version == [id : Nat, parent : Nat, project : Project, after : Learned]
PolicyState == [projects : [Project -> Entries], global : Entries,
                recent : [Project -> Seq(Items(RecallChoices))],
                turns : Nat, current : Nat, versions : Seq(Version),
                snapshots : Seq([turn : Nat, version : Nat])]

\* A live version shows decision weights that its engine still has.
Covered(after, s) ==
    /\ DOMAIN after.global \subseteq DOMAIN s.global
    /\ \A p \in Project : DOMAIN after.projects[p] \subseteq DOMAIN s.projects[p]

\* What every engine and the file keep.
Sound(s) ==
    /\ s \in PolicyState
    /\ LogIsWellFormed(s)
    /\ SumsUp(s)
    /\ \A i \in DOMAIN s.versions :
           /\ SumsUp(s.versions[i].after)
           /\ s.versions[i].after.live => Covered(s.versions[i].after, s)

-----------------------------------------------------------------------------
(* The weights of one node *)

\* A function from some nodes to weights is a set of entries.
LEMMA EntriesIntro ==
  ASSUME NEW D \in SUBSET WeightedNode, NEW e \in [D -> Weights]
  PROVE  e \in Entries
BY DEF Entries

\* A set of entries maps the nodes it has to weights.
LEMMA EntriesElim ==
  ASSUME NEW e \in Entries
  PROVE  /\ DOMAIN e \subseteq WeightedNode
         /\ e \in [DOMAIN e -> Weights]
BY DEF Entries

\* The weights of a node nothing was learned of are weights.
LEMMA FreshWeightsType == FreshWeights \in Weights
<1>1. <<>> \in [{} -> Int]  OBVIOUS
<1>2. <<>> \in UNION {[D -> Int] : D \in SUBSET WeightedDecision}  BY <1>1
<1> QED BY <1>2 DEF FreshWeights, Weights

\* What is read for a node, whether it has an entry or not, is weights.
LEMMA WeightsForType ==
  ASSUME NEW e \in Entries, NEW node
  PROVE  WeightsFor(e, node) \in Weights
BY EntriesElim, FreshWeightsType DEF WeightsFor

\* Putting an entry adds its node, and changes what is read for no other.
LEMMA PutEntry ==
  ASSUME NEW e \in Entries, NEW node \in WeightedNode, NEW w \in Weights
  PROVE  /\ Put(e, node, w) \in Entries
         /\ DOMAIN Put(e, node, w) = DOMAIN e \cup {node}
         /\ \A n : WeightsFor(Put(e, node, w), n) = IF n = node THEN w ELSE WeightsFor(e, n)
<1>1. DOMAIN e \subseteq WeightedNode /\ e \in [DOMAIN e -> Weights]  BY EntriesElim
<1>2. Put(e, node, w) \in [DOMAIN e \cup {node} -> Weights]  BY <1>1 DEF Put
<1>3. DOMAIN e \cup {node} \in SUBSET WeightedNode  BY <1>1
<1>4. Put(e, node, w) \in Entries  BY <1>2, <1>3, EntriesIntro
<1> QED BY <1>4 DEF Put, WeightsFor

\* A function from some decisions to integers is a table of edges.
LEMMA EdgesIntro ==
  ASSUME NEW D \in SUBSET WeightedDecision, NEW e \in [D -> Int]
  PROVE  e \in UNION {[C -> Int] : C \in SUBSET WeightedDecision}
OBVIOUS

\* The edges of weights are such a function.
LEMMA EdgesElim ==
  ASSUME NEW w \in Weights
  PROVE  DOMAIN w.edges \subseteq WeightedDecision /\ w.edges \in [DOMAIN w.edges -> Int]
<1>1. PICK D \in SUBSET WeightedDecision : w.edges \in [D -> Int]  BY DEF Weights
<1> QED BY <1>1

\* The weight read for a decision, whether there is an edge or not, is an integer.
LEMMA EdgeWeightType ==
  ASSUME NEW w \in Weights, NEW decision
  PROVE  EdgeWeight(w, decision) \in Int
<1>1. w.edges \in [DOMAIN w.edges -> Int] /\ w.adaptive \in Int  BY EdgesElim DEF Weights
<1> QED BY <1>1 DEF EdgeWeight, EdgeOr

\* What a node earns by a reward.
LEMMA AdjustedType ==
  ASSUME NEW w \in Weights, NEW node, NEW decision \in WeightedDecision, NEW reward \in Int
  PROVE  LET a == Adjusted(w, node, decision, reward) IN
         /\ a \in Weights
         /\ a.visits = w.visits + 1
         /\ a.wins = w.wins + (IF reward > 0 THEN 1 ELSE 0)
         /\ a.reward = w.reward + reward
<1>1. DOMAIN w.edges \subseteq WeightedDecision /\ w.edges \in [DOMAIN w.edges -> Int]
  BY EdgesElim
<1> DEFINE step == Bound(reward, -MaxUpdate, MaxUpdate)
<1>2. step \in Int  BY DEF Bound, MaxUpdate
<1>3. Bound(w.adaptive + step, 10, 300) \in Int  BY <1>2 DEF Bound, Weights
<1>4. Bound(EdgeOr(w, decision, 100) + step, 10, 300) \in Int
  <2>1. EdgeOr(w, decision, 100) \in Int  BY <1>1 DEF EdgeOr
  <2> QED BY <2>1, <1>2 DEF Bound
<1>5. Put(w.edges, decision, Bound(EdgeOr(w, decision, 100) + step, 10, 300))
        \in [DOMAIN w.edges \cup {decision} -> Int]
  BY <1>1, <1>4 DEF Put
<1>6. DOMAIN w.edges \cup {decision} \in SUBSET WeightedDecision  BY <1>1
<1>7. Put(w.edges, decision, Bound(EdgeOr(w, decision, 100) + step, 10, 300))
        \in UNION {[C -> Int] : C \in SUBSET WeightedDecision}
  BY <1>5, <1>6, EdgesIntro
<1> HIDE DEF step
<1>8. LET a == ApplyReward(w, decision, reward) IN
      /\ a \in Weights
      /\ a.visits = w.visits + 1
      /\ a.wins = w.wins + (IF reward > 0 THEN 1 ELSE 0)
      /\ a.reward = w.reward + reward
  BY <1>3, <1>7 DEF ApplyReward, Weights, step
<1> QED BY <1>8 DEF Adjusted, Weights

-----------------------------------------------------------------------------
(* What was saved before is sound *)

\* What AreEntries tests one value at a time is membership in Entries.
LEMMA AreEntriesType ==
  ASSUME NEW e, AreEntries(e)
  PROVE  e \in Entries
<1>1. ASSUME NEW n \in DOMAIN e PROVE e[n] \in Weights
  <2>1. PICK D \in SUBSET WeightedDecision :
          e[n] \in [adaptive : Int, visits : Int, wins : Int, reward : Int, edges : [D -> Int]]
    BY DEF AreEntries
  <2>2. e[n].edges \in [D -> Int]  BY <2>1
  <2>3. e[n].edges \in UNION {[C -> Int] : C \in SUBSET WeightedDecision}  BY <2>2, EdgesIntro
  <2> QED BY <2>1, <2>3 DEF Weights
<1>2. e \in [DOMAIN e -> {e[n] : n \in DOMAIN e}] /\ DOMAIN e \in SUBSET WeightedNode
  BY DEF AreEntries
<1>3. e \in [DOMAIN e -> Weights]  BY <1>1, <1>2
<1> QED BY <1>2, <1>3, EntriesIntro

\* What IsState tests one value at a time is membership in PolicyState.
LEMMA IsStateType ==
  ASSUME NEW s, IsState(s)
  PROVE  s \in PolicyState
<1>1. EntriesOf(s) \subseteq Entries  BY AreEntriesType DEF IsState
<1>2. ASSUME NEW v \in Items(s.versions) PROVE v \in Version
  <2>1. \A e \in EntriesOf(v.after) : AreEntries(e)  BY DEF IsState
  <2>2. EntriesOf(v.after) \subseteq Entries  BY <2>1, AreEntriesType
  <2>3. /\ v \in [id : Nat, parent : Nat, project : Project, after : {v.after}]
        /\ v.after \in [projects : [Project -> EntriesOf(v.after)], global : EntriesOf(v.after),
                        recent : [Project -> Seq(Items(RecallChoices))], turns : Nat,
                        current : Nat, live : BOOLEAN]
    BY DEF IsState
  <2> HIDE DEF EntriesOf
  <2>4. v.after \in Learned  BY <2>2, <2>3 DEF Learned
  <2> QED BY <2>3, <2>4 DEF Version
<1>3. s.versions \in Seq(Items(s.versions))  BY DEF IsState
<1>4. s.versions \in Seq(Version)
  <2>1. \A i \in 1..Len(s.versions) : s.versions[i] \in Items(s.versions)  BY <1>3 DEF Items
  <2> QED BY <1>2, <1>3, <2>1
<1> QED BY <1>1, <1>4 DEF IsState, PolicyState

\* Membership in Entries is what AreEntries tests one value at a time.
LEMMA EntriesAre ==
  ASSUME NEW e \in Entries
  PROVE  AreEntries(e)
<1>1. DOMAIN e \subseteq WeightedNode /\ e \in [DOMAIN e -> Weights]  BY EntriesElim
<1>2. e \in [DOMAIN e -> {e[node] : node \in DOMAIN e}]  BY <1>1
<1>3. ASSUME NEW node \in DOMAIN e
      PROVE  \E D \in SUBSET WeightedDecision :
               e[node] \in [adaptive : Int, visits : Int, wins : Int, reward : Int,
                            edges : [D -> Int]]
  <2>1. e[node] \in Weights  BY <1>1
  <2>2. PICK D \in SUBSET WeightedDecision : e[node].edges \in [D -> Int]  BY <2>1 DEF Weights
  <2>3. e[node] \in [adaptive : Int, visits : Int, wins : Int, reward : Int, edges : [D -> Int]]
    BY <2>1, <2>2 DEF Weights
  <2> QED BY <2>3
<1> QED BY <1>1, <1>2, <1>3 DEF AreEntries

\* The entries of a state are entries.
LEMMA EntriesOfType ==
  ASSUME NEW s, s.global \in Entries, s.projects \in [Project -> Entries]
  PROVE  /\ \A e \in EntriesOf(s) : AreEntries(e)
         /\ s.global \in EntriesOf(s) /\ s.projects \in [Project -> EntriesOf(s)]
<1>1. EntriesOf(s) \subseteq Entries  BY DEF EntriesOf
<1>2. s.global \in EntriesOf(s) /\ \A p \in Project : s.projects[p] \in EntriesOf(s)
  BY DEF EntriesOf
<1>3. s.projects \in [Project -> EntriesOf(s)]  BY <1>2
<1> QED BY <1>1, <1>2, <1>3, EntriesAre

\* Membership in PolicyState is what IsState tests one value at a time.
LEMMA StateIs ==
  ASSUME NEW s \in PolicyState
  PROVE  IsState(s)
<1>1. /\ s.global \in Entries /\ s.projects \in [Project -> Entries]
      /\ s.versions \in Seq(Version)
  BY DEF PolicyState
<1>2. s.versions \in Seq(Items(s.versions)) /\ Items(s.versions) \subseteq Version
  BY <1>1, SeqOfItems
<1>3. /\ \A e \in EntriesOf(s) : AreEntries(e)
      /\ s.global \in EntriesOf(s) /\ s.projects \in [Project -> EntriesOf(s)]
  BY <1>1, EntriesOfType
<1>4. s \in [projects : [Project -> EntriesOf(s)], global : EntriesOf(s),
             recent : [Project -> Seq(Items(RecallChoices))], turns : Nat, current : Nat,
             versions : Seq(Items(s.versions)), snapshots : Seq([turn : Nat, version : Nat])]
  <2> PICK E : E = EntriesOf(s)  OBVIOUS
  <2> PICK V : V = Items(s.versions)  OBVIOUS
  <2>1. s \in [projects : [Project -> E], global : E,
               recent : [Project -> Seq(Items(RecallChoices))], turns : Nat, current : Nat,
               versions : Seq(V), snapshots : Seq([turn : Nat, version : Nat])]
    BY <1>2, <1>3 DEF PolicyState
  <2> QED BY <2>1
<1>5. ASSUME NEW v \in Items(s.versions)
      PROVE  /\ v \in [id : Nat, parent : Nat, project : Project, after : {v.after}]
             /\ v.after \in [projects : [Project -> EntriesOf(v.after)],
                             global : EntriesOf(v.after),
                             recent : [Project -> Seq(Items(RecallChoices))], turns : Nat,
                             current : Nat, live : BOOLEAN]
             /\ \A e \in EntriesOf(v.after) : AreEntries(e)
  <2>1. v \in Version /\ v.after \in Learned  BY <1>2 DEF Version
  <2>2. v \in [id : Nat, parent : Nat, project : Project, after : {v.after}]
    BY <2>1 DEF Version
  <2>3. v.after.global \in Entries /\ v.after.projects \in [Project -> Entries]
    BY <2>1 DEF Learned
  <2>4. /\ \A e \in EntriesOf(v.after) : AreEntries(e)
        /\ v.after.global \in EntriesOf(v.after)
        /\ v.after.projects \in [Project -> EntriesOf(v.after)]
    BY <2>3, EntriesOfType
  <2> PICK E : E = EntriesOf(v.after)  OBVIOUS
  <2>5. v.after \in [projects : [Project -> E], global : E,
                     recent : [Project -> Seq(Items(RecallChoices))], turns : Nat,
                     current : Nat, live : BOOLEAN]
    BY <2>1, <2>4 DEF Learned
  <2> QED BY <2>2, <2>4, <2>5
<1> QED BY <1>3, <1>4, <1>5 DEF IsState

\* A sound state without a live version is one that may be in a file.
LEMMA SoundIsSaved ==
  ASSUME NEW s, Sound(s), \A i \in DOMAIN s.versions : ~s.versions[i].after.live
  PROVE  SavedState(s)
<1>1. IsState(s) /\ LogIsWellFormed(s) /\ SumsUp(s)  BY StateIs DEF Sound
<1>2. ASSUME NEW v \in Items(s.versions) PROVE ~v.after.live /\ SumsUp(v.after)
  <2>1. PICK i \in DOMAIN s.versions : v = s.versions[i]  BY DEF Items
  <2> QED BY <2>1 DEF Sound
<1> QED BY <1>1, <1>2 DEF SavedState

\* A state that load_state finds in a file is sound, and none of its snapshots is the
\* live state of a running engine.
LEMMA SavedSound ==
  ASSUME NEW s, SavedState(s)
  PROVE  Sound(s) /\ \A i \in DOMAIN s.versions : ~s.versions[i].after.live
<1>1. s \in PolicyState  BY IsStateType DEF SavedState
<1>2. \A i \in DOMAIN s.versions : s.versions[i] \in Items(s.versions)  BY DEF Items
<1> QED BY <1>1, <1>2 DEF SavedState, Sound

-----------------------------------------------------------------------------
(* The sums over the projects *)

\* The order in which the totals go through the projects names each once.
LEMMA ProjectOrderEnumerates ==
  /\ Enumerates(ProjectOrder, Project)
  /\ ProjectOrder \in Seq(Project)
<1>1. IsFiniteSet(Project) /\ Project \subseteq Nat  BY EngineAssumption
<1> PICK key : key = [p \in Project |-> <<p>>]  OBVIOUS
<1>2. key \in [Project -> [1..1 -> Int]]  BY <1>1
<1>3. \A x, y \in Project : key[x] = key[y] => x = y  OBVIOUS
<1>4. 1 \in Nat  OBVIOUS
<1>5. Enumerates(SortedBy(Project, key), Project)  BY <1>1, <1>2, <1>3, <1>4, SortedEnumerates
<1>6. Enumerates(ProjectOrder, Project)  BY <1>5 DEF ProjectOrder
<1>7. Cardinality(Project) \in Nat  BY <1>1, FS_CardinalityType
<1> QED BY <1>6, <1>7 DEF Enumerates

\* Of one number over all projects: a change in one project changes the sum by as much.
LEMMA SumChange ==
  ASSUME NEW f, NEW g, NEW p \in Project, NEW d \in Int,
         \A x \in Project : f[x] \in Int /\ g[x] = IF x = p THEN f[x] + d ELSE f[x]
  PROVE  Total(g, ProjectOrder) = Total(f, ProjectOrder) + d
<1>1. ProjectOrder \in Seq(Project) /\ Enumerates(ProjectOrder, Project)
  BY ProjectOrderEnumerates
<1>2. Len(ProjectOrder) = Cardinality(Project)
  BY <1>1, EngineAssumption, FS_CardinalityType DEF Enumerates
<1>3. /\ \E i \in 1..Len(ProjectOrder) : ProjectOrder[i] = p
      /\ \A i, j \in 1..Len(ProjectOrder) : ProjectOrder[i] = ProjectOrder[j] => i = j
  BY <1>1, <1>2 DEF Enumerates
<1> QED BY <1>1, <1>3, TotalChange

\* The sum of node's numbers, as SumsUp has it.
Adds(s, node) ==
    LET Of(p) == WeightsFor(s.projects[p], node)
        global == WeightsFor(s.global, node)
    IN /\ global.visits = Total([p \in Project |-> Of(p).visits], ProjectOrder)
       /\ global.wins = Total([p \in Project |-> Of(p).wins], ProjectOrder)
       /\ global.reward = Total([p \in Project |-> Of(p).reward], ProjectOrder)

\* Two states show the same numbers of a node.
SameNumbers(s, t, node) ==
    /\ \A p \in Project :
          /\ WeightsFor(t.projects[p], node).visits = WeightsFor(s.projects[p], node).visits
          /\ WeightsFor(t.projects[p], node).wins = WeightsFor(s.projects[p], node).wins
          /\ WeightsFor(t.projects[p], node).reward = WeightsFor(s.projects[p], node).reward
    /\ WeightsFor(t.global, node).visits = WeightsFor(s.global, node).visits
    /\ WeightsFor(t.global, node).wins = WeightsFor(s.global, node).wins
    /\ WeightsFor(t.global, node).reward = WeightsFor(s.global, node).reward

\* The global numbers are the sums if they are so node by node.
LEMMA SumsUpByNode ==
  ASSUME NEW s
  PROVE  SumsUp(s) <=> \A node \in WeightedNode : Adds(s, node)
BY DEF SumsUp, Adds

\* Whether a node's numbers add up depends on its numbers alone.
LEMMA SameNumbersAdd ==
  ASSUME NEW s, NEW t, NEW node, SameNumbers(s, t, node), Adds(s, node)
  PROVE  Adds(t, node)
<1>1. /\ [p \in Project |-> WeightsFor(t.projects[p], node).visits]
           = [p \in Project |-> WeightsFor(s.projects[p], node).visits]
      /\ [p \in Project |-> WeightsFor(t.projects[p], node).wins]
           = [p \in Project |-> WeightsFor(s.projects[p], node).wins]
      /\ [p \in Project |-> WeightsFor(t.projects[p], node).reward]
           = [p \in Project |-> WeightsFor(s.projects[p], node).reward]
  BY DEF SameNumbers
<1> QED BY <1>1 DEF SameNumbers, Adds

\* A state that shows the same numbers adds up too: empty entries, and edges, do
\* not count.
LEMMA SameNumbersSumUp ==
  ASSUME NEW s, NEW t, SumsUp(s), \A node \in WeightedNode : SameNumbers(s, t, node)
  PROVE  SumsUp(t)
BY SumsUpByNode, SameNumbersAdd

-----------------------------------------------------------------------------
(* adjust_edge *)

\* What the learning of a turn keeps, in one step and in all: everything but the
\* weights, which only gain entries.
Grown(s, t) ==
    /\ t \in PolicyState
    /\ SumsUp(t)
    /\ t.versions = s.versions /\ t.current = s.current /\ t.turns = s.turns
    /\ DOMAIN s.global \subseteq DOMAIN t.global
    /\ \A p \in Project : DOMAIN s.projects[p] \subseteq DOMAIN t.projects[p]

\* What two steps of learning keep, both together keep.
LEMMA GrownTrans ==
  ASSUME NEW s, NEW t, NEW u, Grown(s, t), Grown(t, u)
  PROVE  Grown(s, u)
BY DEF Grown

\* An adjustment adds the same to the numbers of its node in the project and in all.
LEMMA AdjustEdgeGrows ==
  ASSUME NEW s, s \in PolicyState, SumsUp(s), NEW project \in Project,
         NEW node \in WeightedNode, NEW decision \in WeightedDecision, NEW reward \in Int
  PROVE  Grown(s, AdjustEdge(s, project, node, decision, reward))
<1> DEFINE entries == s.projects[project]
           own == Adjusted(WeightsFor(entries, node), node, decision, reward)
           all == Adjusted(WeightsFor(s.global, node), node, decision, reward)
           t == AdjustEdge(s, project, node, decision, reward)
<1>1. s.projects \in [Project -> Entries] /\ entries \in Entries /\ s.global \in Entries
  BY DEF PolicyState
<1>2. WeightsFor(entries, node) \in Weights /\ WeightsFor(s.global, node) \in Weights
  BY <1>1, WeightsForType
<1>3. /\ own \in Weights
      /\ own.visits = WeightsFor(entries, node).visits + 1
      /\ own.wins = WeightsFor(entries, node).wins + (IF reward > 0 THEN 1 ELSE 0)
      /\ own.reward = WeightsFor(entries, node).reward + reward
  BY <1>2, AdjustedType
<1>4. /\ all \in Weights
      /\ all.visits = WeightsFor(s.global, node).visits + 1
      /\ all.wins = WeightsFor(s.global, node).wins + (IF reward > 0 THEN 1 ELSE 0)
      /\ all.reward = WeightsFor(s.global, node).reward + reward
  BY <1>2, AdjustedType
<1> HIDE DEF own, all, entries
<1>5. /\ Put(entries, node, own) \in Entries
      /\ DOMAIN Put(entries, node, own) = DOMAIN entries \cup {node}
      /\ \A n : WeightsFor(Put(entries, node, own), n)
                  = IF n = node THEN own ELSE WeightsFor(entries, n)
  BY <1>1, <1>3, PutEntry
<1>6. /\ Put(s.global, node, all) \in Entries
      /\ DOMAIN Put(s.global, node, all) = DOMAIN s.global \cup {node}
      /\ \A n : WeightsFor(Put(s.global, node, all), n)
                  = IF n = node THEN all ELSE WeightsFor(s.global, n)
  <2>1. s.global \in Entries /\ all \in Weights  BY <1>1, <1>4
  <2> QED BY <2>1, PutEntry
<1> PICK put : put = Put(entries, node, own)  OBVIOUS
<1> PICK putAll : putAll = Put(s.global, node, all)  OBVIOUS
<1>7. t = [s EXCEPT !.projects = Put(s.projects, project, put), !.global = putAll]
  BY DEF AdjustEdge, AdjustEntry, own, all, entries
<1>8. /\ Put(s.projects, project, put) \in [Project -> Entries]
      /\ \A p \in Project : Put(s.projects, project, put)[p]
                              = IF p = project THEN put ELSE s.projects[p]
  BY <1>1, <1>5 DEF Put
<1> PICK projects : projects = Put(s.projects, project, put)  OBVIOUS
<1>9. /\ t \in PolicyState /\ t.projects = projects /\ t.global = putAll
      /\ t.versions = s.versions /\ t.current = s.current /\ t.turns = s.turns
  BY <1>6, <1>7, <1>8 DEF PolicyState
<1> HIDE DEF t
<1>10. ASSUME NEW n \in WeightedNode PROVE Adds(t, n)
  <2>1. Adds(s, n)  BY SumsUpByNode
  <2>2. CASE n # node
    <3>1. SameNumbers(s, t, n)
      BY <1>5, <1>6, <1>8, <1>9, <2>2 DEF SameNumbers, entries
    <3> QED BY <2>1, <3>1, SameNumbersAdd
  <2>3. CASE n = node
    <3>1. \A p \in Project : WeightsFor(s.projects[p], n) \in Weights  BY <1>1, WeightsForType
    <3>2. \A p \in Project :
             WeightsFor(t.projects[p], n) = IF p = project THEN own ELSE WeightsFor(s.projects[p], n)
      BY <1>5, <1>8, <1>9, <2>3
    <3>3. WeightsFor(t.global, n) = all  BY <1>6, <1>9, <2>3
    <3> DEFINE F == [p \in Project |-> WeightsFor(s.projects[p], n).visits]
               G == [p \in Project |-> WeightsFor(t.projects[p], n).visits]
               wF == [p \in Project |-> WeightsFor(s.projects[p], n).wins]
               wG == [p \in Project |-> WeightsFor(t.projects[p], n).wins]
               rF == [p \in Project |-> WeightsFor(s.projects[p], n).reward]
               rG == [p \in Project |-> WeightsFor(t.projects[p], n).reward]
    <3>4. \A p \in Project : /\ WeightsFor(s.projects[p], n).visits \in Int
                             /\ WeightsFor(s.projects[p], n).wins \in Int
                             /\ WeightsFor(s.projects[p], n).reward \in Int
      BY <3>1 DEF Weights
    <3>5. \A p \in Project : F[p] \in Int /\ G[p] = IF p = project THEN F[p] + 1 ELSE F[p]
      BY <1>3, <2>3, <3>2, <3>4 DEF entries
    <3>6. PICK win \in Int : win = IF reward > 0 THEN 1 ELSE 0  OBVIOUS
    <3>9. \A p \in Project : wF[p] \in Int /\ wG[p] = IF p = project THEN wF[p] + win ELSE wF[p]
      BY <1>3, <2>3, <3>2, <3>4, <3>6 DEF entries
    <3>7. \A p \in Project : rF[p] \in Int /\ rG[p] = IF p = project THEN rF[p] + reward ELSE rF[p]
      BY <1>3, <2>3, <3>2, <3>4 DEF entries
    <3> HIDE DEF F, G, wF, wG, rF, rG
    <3>8. Total(G, ProjectOrder) = Total(F, ProjectOrder) + 1  BY <3>5, SumChange
    <3>10. Total(wG, ProjectOrder) = Total(wF, ProjectOrder) + win
      BY <3>9, SumChange
    <3>11. Total(rG, ProjectOrder) = Total(rF, ProjectOrder) + reward  BY <3>7, SumChange
    <3>12. /\ WeightsFor(s.global, n).visits = Total(F, ProjectOrder)
           /\ WeightsFor(s.global, n).wins = Total(wF, ProjectOrder)
           /\ WeightsFor(s.global, n).reward = Total(rF, ProjectOrder)
      BY <2>1 DEF Adds, F, wF, rF
    <3>13. /\ WeightsFor(t.global, n).visits = Total(G, ProjectOrder)
           /\ WeightsFor(t.global, n).wins = Total(wG, ProjectOrder)
           /\ WeightsFor(t.global, n).reward = Total(rG, ProjectOrder)
      BY <1>4, <2>3, <3>3, <3>6, <3>8, <3>10, <3>11, <3>12
    <3> QED BY <3>13 DEF Adds, G, wG, rG
  <2> QED BY <2>2, <2>3
<1>11. SumsUp(t)  BY <1>10, SumsUpByNode
<1>12. /\ DOMAIN s.global \subseteq DOMAIN t.global
       /\ \A p \in Project : DOMAIN s.projects[p] \subseteq DOMAIN t.projects[p]
  BY <1>5, <1>6, <1>8, <1>9 DEF entries
<1> QED BY <1>9, <1>11, <1>12 DEF Grown, t

-----------------------------------------------------------------------------
(* record_decision *)

\* The last n of a sequence are a sequence of the same elements.
LEMMA LastOfType ==
  ASSUME NEW S, NEW seq \in Seq(S), NEW n \in Nat
  PROVE  LastOf(seq, n) \in Seq(S)
<1> DEFINE from == IF Len(seq) > n THEN Len(seq) - n + 1 ELSE 1
<1>1. from \in Nat /\ from >= 1 /\ Len(seq) \in Nat  OBVIOUS
<1>2. \A i \in from..Len(seq) : seq[i] \in S  BY <1>1
<1> HIDE DEF from
<1>3. SubSeq(seq, from, Len(seq)) \in Seq(S)  BY <1>1, <1>2
<1> QED BY <1>3 DEF LastOf, from

\* How many events a turn learns from is a number.
LEMMA RecentLengthType == RecentLength \in Nat
BY EngineAssumption DEF RecentLength

\* An event is recorded: a node that is asked for gets its weights, the decision of
\* should_recall joins the recent ones.
LEMMA RecordGrows ==
  ASSUME NEW s, s \in PolicyState, SumsUp(s), NEW project \in Project, NEW event,
         event[1] = "should_recall" => event[2] \in Items(RecallChoices)
  PROVE  Grown(s, RecordDecision(s, project, event))
<1> DEFINE entries == s.projects[project]
           node == event[1]
<1>1. s.projects \in [Project -> Entries] /\ entries \in Entries /\ s.global \in Entries
  BY DEF PolicyState
<1>2. PICK put : put = Ask(entries, node)  OBVIOUS
<1>3. PICK projects : projects = Put(s.projects, project, put)  OBVIOUS
<1>4. PICK asked : asked = IF node \in WeightedNode THEN [s EXCEPT !.projects = projects] ELSE s
  OBVIOUS
<1>5. ASSUME node \in WeightedNode
      PROVE  /\ put \in Entries /\ DOMAIN entries \subseteq DOMAIN put
             /\ \A n : WeightsFor(put, n) = WeightsFor(entries, n)
  <2>1. WeightsFor(entries, node) \in Weights  BY <1>1, WeightsForType
  <2>2. PICK w \in Weights : w = WeightsFor(entries, node)  BY <2>1
  <2>3. put = Put(entries, node, w)  BY <1>2, <2>2 DEF Ask
  <2>5. entries \in Entries /\ node \in WeightedNode  BY <1>1, <1>5
  <2> HIDE DEF entries, node
  <2>4. /\ Put(entries, node, w) \in Entries
        /\ DOMAIN Put(entries, node, w) = DOMAIN entries \cup {node}
        /\ \A m : WeightsFor(Put(entries, node, w), m)
                    = IF m = node THEN w ELSE WeightsFor(entries, m)
    BY <2>2, <2>5, PutEntry
  <2> QED BY <2>2, <2>3, <2>4
<1> HIDE DEF entries
<1>6. ASSUME node \in WeightedNode
      PROVE  /\ projects \in [Project -> Entries]
             /\ \A p \in Project : projects[p] = IF p = project THEN put ELSE s.projects[p]
  BY <1>1, <1>3, <1>5, <1>6 DEF Put
<1>7. /\ asked \in PolicyState
      /\ asked.versions = s.versions /\ asked.current = s.current /\ asked.turns = s.turns
      /\ asked.global = s.global /\ asked.recent = s.recent
      /\ \A p \in Project :
            /\ DOMAIN s.projects[p] \subseteq DOMAIN asked.projects[p]
            /\ \A n : WeightsFor(asked.projects[p], n) = WeightsFor(s.projects[p], n)
  <2>1. CASE node \in WeightedNode
    <3>1. asked = [s EXCEPT !.projects = projects]  BY <1>4, <2>1
    <3>2. asked \in PolicyState  BY <3>1, <1>6, <2>1 DEF PolicyState
    <3>3. asked.projects = projects  BY <3>1 DEF PolicyState
    <3>4. ASSUME NEW p \in Project
          PROVE  /\ DOMAIN s.projects[p] \subseteq DOMAIN asked.projects[p]
                 /\ \A n : WeightsFor(asked.projects[p], n) = WeightsFor(s.projects[p], n)
      BY <3>3, <1>5, <1>6, <2>1 DEF entries
    <3> QED BY <3>1, <3>2, <3>4 DEF PolicyState
  <2>2. CASE node \notin WeightedNode  BY <1>4, <2>2
  <2> QED BY <2>1, <2>2
<1>8. \A n \in WeightedNode : SameNumbers(s, asked, n)  BY <1>7 DEF SameNumbers
<1>9. SumsUp(asked)  BY <1>8, SameNumbersSumUp
<1>10. Grown(s, asked)  BY <1>7, <1>9 DEF Grown
<1>11. PICK recent : recent = LastOf(Append(s.recent[project], event[2]), RecentLength)  OBVIOUS
<1>12. RecordDecision(s, project, event)
         = IF node # "should_recall" THEN asked
           ELSE [asked EXCEPT !.recent = Put(@, project, recent)]
  BY <1>2, <1>3, <1>4, <1>11 DEF RecordDecision, entries
<1>13. CASE node # "should_recall"  BY <1>10, <1>12, <1>13
<1>14. CASE node = "should_recall"
  <2>1. s.recent \in [Project -> Seq(Items(RecallChoices))]  BY DEF PolicyState
  <2>2. Append(s.recent[project], event[2]) \in Seq(Items(RecallChoices))  BY <2>1, <1>14
  <2>3. recent \in Seq(Items(RecallChoices))  BY <2>2, <1>11, LastOfType, RecentLengthType
  <2>4. Put(s.recent, project, recent) \in [Project -> Seq(Items(RecallChoices))]
    BY <2>1, <2>3 DEF Put
  <2>5. PICK put2 : put2 = Put(s.recent, project, recent)  OBVIOUS
  <2>6. PICK t : t = [asked EXCEPT !.recent = put2]  OBVIOUS
  <2>7. RecordDecision(s, project, event) = t  BY <1>7, <1>12, <1>14, <2>5, <2>6
  <2>8. /\ t \in PolicyState /\ t.projects = asked.projects /\ t.global = asked.global
        /\ t.versions = asked.versions /\ t.current = asked.current /\ t.turns = asked.turns
    BY <1>7, <2>4, <2>5, <2>6 DEF PolicyState
  <2>9. \A n \in WeightedNode : SameNumbers(asked, t, n)  BY <2>8 DEF SameNumbers
  <2>10. SumsUp(t)  BY <1>9, <2>9, SameNumbersSumUp
  <2> QED BY <1>7, <2>7, <2>8, <2>10 DEF Grown
<1> QED BY <1>13, <1>14

-----------------------------------------------------------------------------
(* update_from_trace *)

\* Rewards are given at nodes with weights only.
LEMMA RewardedEvents ==
  ASSUME NEW e \in Event, NEW n
  PROVE  /\ Reward(e, n) \in Int
         /\ Reward(e, n) # 0 => e[1] \in WeightedNode /\ e[2] \in WeightedDecision
<1>1. Reward(e, n) \in Int  BY DEF Reward
<1>2. Reward(e, n) # 0 => e[1] \in WeightedNode  BY DEF Reward, WeightedNode
<1> QED BY <1>1, <1>2 DEF WeightedDecision

\* The signals of a trace are events with a reward.
LEMMA SignalsType ==
  ASSUME NEW trace \in Seq(Event), NEW n
  PROVE  LET rewarded == {e \in Event : Reward(e, n) # 0}
         IN Signals(trace, n) \in Seq(rewarded)
<1> PICK rewarded : rewarded = {e \in Event : Reward(e, n) # 0}  OBVIOUS
<1> PICK signals : signals = Signals(trace, n)  OBVIOUS
<1>1. signals \in Seq(Event) /\ Items(signals) = Items(trace) \cap rewarded
  BY FilteredItems DEF Signals
<1>2. \A i \in 1..Len(signals) : signals[i] \in rewarded  BY <1>1 DEF Items
<1>3. signals \in Seq(rewarded)  BY <1>1, <1>2
<1> QED BY <1>3

\* Learning from all the signals of a trace keeps the sums and the log.
LEMMA LearnGrows ==
  ASSUME NEW s, s \in PolicyState, SumsUp(s), NEW project \in Project, NEW n,
         NEW signals \in Seq({e \in Event : Reward(e, n) # 0})
  PROVE  Grown(s, FoldOf(Learn, [project |-> project, selected |-> n], s, signals))
<1> PICK rewarded : rewarded = {e \in Event : Reward(e, n) # 0}  OBVIOUS
<1> PICK turn : turn = [project |-> project, selected |-> n]  OBVIOUS
<1> PICK St : St = {t \in PolicyState : Grown(s, t)}  OBVIOUS
<1>1. s \in St  BY DEF Grown
<1>2. ASSUME NEW t \in St, NEW e \in rewarded PROVE Learn(turn, t, e) \in St
  <2>1. e \in Event /\ Reward(e, n) # 0  OBVIOUS
  <2>2. e[1] \in WeightedNode /\ e[2] \in WeightedDecision /\ Reward(e, n) \in Int
    BY <2>1, RewardedEvents
  <2>3. t \in PolicyState /\ SumsUp(t) /\ Grown(s, t)  BY DEF Grown
  <2>4. Grown(t, AdjustEdge(t, project, e[1], e[2], Reward(e, n)))
    BY <2>2, <2>3, AdjustEdgeGrows
  <2>5. Learn(turn, t, e) = AdjustEdge(t, project, e[1], e[2], Reward(e, n))  BY DEF Learn
  <2>6. Grown(s, Learn(turn, t, e))  BY <2>3, <2>4, <2>5, GrownTrans
  <2> QED BY <2>6 DEF Grown
<1>3. signals \in Seq(rewarded)  OBVIOUS
<1>4. PICK acc : Learning!FoldsTo(acc, turn, s, signals, St)  BY <1>1, <1>2, <1>3, Learning!Fold
<1>5. FoldOf(Learn, turn, s, signals) = Learning!FoldOf(turn, s, signals)
  BY DEF FoldOf, Once, Learning!FoldOf, Learning!Once
<1>6. Len(signals) \in 0..Len(signals)  BY <1>3
<1>7. Learning!FoldOf(turn, s, signals) \in St  BY <1>4, <1>6 DEF Learning!FoldsTo
<1> QED BY <1>5, <1>7

\* update_from_trace, taken apart: learn from each signal, count the turn, record a
\* version if there was a signal, and take the snapshot.
LEMMA UpdateIs ==
  ASSUME NEW s, NEW project, NEW trace, NEW n
  PROVE  LET signals == Signals(trace, n)
             learned == FoldOf(Learn, [project |-> project, selected |-> n], s, signals)
             counted == [learned EXCEPT !.turns = @ + 1]
         IN UpdateFromTrace(s, project, trace, n)
              = Snapshot(IF signals = <<>> THEN counted ELSE RecordVersion(counted, project))
BY DEF UpdateFromTrace, With, Once

\* The log of a state goes on in another: as SameVersion has it, where a version
\* that was saved or rolled back to stays as it is.
LogKept(s, t) ==
    /\ Len(s.versions) <= Len(t.versions)
    /\ \A i \in DOMAIN s.versions :
          /\ SameVersion(s.versions[i], t.versions[i], s.versions[i].after.live)
          /\ t.versions[i].after.live => s.versions[i].after.live

\* The log of a state is a sequence of versions.
LEMMA VersionType ==
  ASSUME NEW s, s \in PolicyState
  PROVE  /\ s.versions \in Seq(Version)
         /\ Len(s.versions) \in Nat
         /\ DOMAIN s.versions = 1..Len(s.versions)
         /\ \A i \in DOMAIN s.versions : s.versions[i] \in Version
<1>1. s.versions \in Seq(Version)  BY DEF PolicyState
<1> QED BY <1>1

\* A version is the same version as itself.
LEMMA SameVersionRefl ==
  ASSUME NEW v, NEW own  PROVE SameVersion(v, v, own)
BY DEF SameVersion

\* A log that is kept twice is kept.
LEMMA LogKeptTrans ==
  ASSUME NEW s, NEW t, NEW u, s \in PolicyState, t \in PolicyState, u \in PolicyState,
         LogKept(s, t), LogKept(t, u)
  PROVE  LogKept(s, u)
<1>1. /\ Len(s.versions) \in Nat /\ Len(t.versions) \in Nat /\ Len(u.versions) \in Nat
      /\ DOMAIN s.versions = 1..Len(s.versions) /\ DOMAIN t.versions = 1..Len(t.versions)
  BY VersionType
<1>2. Len(s.versions) <= Len(u.versions)  BY <1>1 DEF LogKept
<1>3. DOMAIN s.versions \subseteq DOMAIN t.versions  BY <1>1 DEF LogKept
<1>4. ASSUME NEW i \in DOMAIN s.versions
      PROVE  /\ SameVersion(s.versions[i], u.versions[i], s.versions[i].after.live)
             /\ u.versions[i].after.live => s.versions[i].after.live
  BY <1>3 DEF LogKept, SameVersion
<1> QED BY <1>2, <1>4 DEF LogKept

\* Without a change of the versions nothing happens to the log; live versions stay
\* covered by what has only grown.
LEMMA GrownSound ==
  ASSUME NEW s, NEW t, Sound(s), Grown(s, t)
  PROVE  Sound(t) /\ LogKept(s, t)
<1>1. t \in PolicyState /\ SumsUp(t)  BY DEF Grown
<1>2. LogIsWellFormed(t)  BY DEF Grown, LogIsWellFormed, Sound
<1>3. ASSUME NEW i \in DOMAIN t.versions
      PROVE  /\ SumsUp(t.versions[i].after)
             /\ t.versions[i].after.live => Covered(t.versions[i].after, t)
  BY DEF Sound, Grown, Covered
<1>4. Len(s.versions) \in Nat  BY VersionType DEF Sound
<1>5. LogKept(s, t)  BY <1>4, SameVersionRefl DEF LogKept, Grown
<1> QED BY <1>1, <1>2, <1>3, <1>5 DEF Sound

\* A version joins the log, and shows what there is.
LEMMA RecordVersionSound ==
  ASSUME NEW s, Sound(s), NEW project \in Project
  PROVE  Sound(RecordVersion(s, project)) /\ LogKept(s, RecordVersion(s, project))
<1>1. /\ s \in PolicyState /\ s.versions \in Seq(Version) /\ Len(s.versions) \in Nat
      /\ DOMAIN s.versions = 1..Len(s.versions)
  BY VersionType DEF Sound
<1>2. PICK id \in Nat \ {0} : id = Len(s.versions) + 1  BY <1>1
<1>3. PICK after : after = [StateAfter(s) EXCEPT !.current = id]  OBVIOUS
<1>4. /\ after \in Learned /\ after.live
      /\ after.projects = s.projects /\ after.global = s.global
  BY <1>1, <1>2, <1>3 DEF StateAfter, Learned, PolicyState
<1>5. PICK new : new = [id |-> id, parent |-> s.current, project |-> project, after |-> after]
  OBVIOUS
<1>6. /\ new \in Version /\ new.id = id /\ new.parent = s.current /\ new.after = after
  BY <1>1, <1>2, <1>4, <1>5 DEF Version, PolicyState
<1>7. PICK longer : longer = Append(s.versions, new)  OBVIOUS
<1>8. /\ longer \in Seq(Version) /\ Len(longer) = id /\ DOMAIN longer = 1..id
      /\ longer[id] = new
      /\ \A i \in DOMAIN s.versions : longer[i] = s.versions[i]
  BY <1>1, <1>2, <1>6, <1>7
<1>9. PICK t : t = [s EXCEPT !.current = id, !.versions = longer]  OBVIOUS
<1>10. RecordVersion(s, project) = t
  BY <1>1, <1>2, <1>3, <1>5, <1>7, <1>9 DEF RecordVersion, PolicyState
<1>11. /\ t \in PolicyState /\ t.projects = s.projects /\ t.global = s.global
       /\ t.versions = longer /\ t.current = id
  BY <1>1, <1>2, <1>8, <1>9 DEF PolicyState
<1>12. \A node \in WeightedNode : SameNumbers(s, t, node) /\ SameNumbers(s, after, node)
  BY <1>4, <1>11 DEF SameNumbers
<1>13. SumsUp(t) /\ SumsUp(after)  BY <1>12, SameNumbersSumUp DEF Sound
<1>14. LogIsWellFormed(t)
  <2>1. s.current \in 0..Len(s.versions)  BY DEF Sound, LogIsWellFormed
  <2>2. ASSUME NEW i \in 1..id PROVE longer[i].id = i /\ longer[i].parent \in 0..(i - 1)
    <3>1. CASE i = id  BY <3>1, <1>1, <1>2, <1>6, <1>8, <2>1
    <3>2. CASE i # id
      <4>1. i \in DOMAIN s.versions  BY <3>2, <1>1, <1>2
      <4> QED BY <4>1, <1>8 DEF Sound, LogIsWellFormed
    <3> QED BY <3>1, <3>2
  <2> QED BY <1>2, <1>8, <1>11, <2>2 DEF LogIsWellFormed
<1>15. ASSUME NEW i \in DOMAIN t.versions
       PROVE  /\ SumsUp(t.versions[i].after)
              /\ t.versions[i].after.live => Covered(t.versions[i].after, t)
  <2>1. CASE i = id  BY <2>1, <1>4, <1>6, <1>8, <1>11, <1>13 DEF Covered
  <2>2. CASE i # id
    <3>1. i \in DOMAIN s.versions  BY <2>2, <1>1, <1>2, <1>8, <1>11
    <3> QED BY <3>1, <1>8, <1>11 DEF Sound, Covered
  <2> QED BY <2>1, <2>2
<1>16. Sound(t)  BY <1>11, <1>13, <1>14, <1>15 DEF Sound
<1>17. LogKept(s, t)  BY <1>1, <1>2, <1>8, <1>11, SameVersionRefl DEF LogKept
<1> QED BY <1>10, <1>16, <1>17

\* Sound and LogKept are about the weights and the versions.
LEMMA SameSound ==
  ASSUME NEW s, Sound(s), NEW t, t \in PolicyState, t.projects = s.projects,
         t.global = s.global, t.versions = s.versions, t.current = s.current
  PROVE  Sound(t) /\ LogKept(s, t)
<1>1. \A node \in WeightedNode : SameNumbers(s, t, node)  BY DEF SameNumbers
<1>2. SumsUp(t)  BY <1>1, SameNumbersSumUp DEF Sound
<1>3. LogIsWellFormed(t)  BY DEF Sound, LogIsWellFormed
<1>4. Sound(t)  BY <1>2, <1>3 DEF Sound, Covered
<1>5. Len(s.versions) \in Nat  BY VersionType DEF Sound
<1>6. LogKept(s, t)  BY <1>5, SameVersionRefl DEF LogKept
<1> QED BY <1>4, <1>6

\* The snapshot that ends an update only fills in entries: the state stays sound and
\* its log as it is.
LEMMA SnapshotSound ==
  ASSUME NEW s, Sound(s)
  PROVE  Sound(Snapshot(s)) /\ LogKept(s, Snapshot(s))
<1>1. /\ s.snapshots \in Seq([turn : Nat, version : Nat]) /\ s.turns \in Nat /\ s.current \in Nat
      /\ s \in PolicyState
  BY DEF Sound, PolicyState
<1>2. PICK snapshots :
        snapshots = LastOf(Append(s.snapshots, [turn |-> s.turns, version |-> s.current]),
                           MaxSnapshots)
  OBVIOUS
<1>3. Append(s.snapshots, [turn |-> s.turns, version |-> s.current])
        \in Seq([turn : Nat, version : Nat])
  BY <1>1
<1>4. MaxSnapshots \in Nat  BY DEF MaxSnapshots
<1>5. snapshots \in Seq([turn : Nat, version : Nat])  BY <1>2, <1>3, <1>4, LastOfType
<1>6. PICK t : t = [s EXCEPT !.snapshots = snapshots]  OBVIOUS
<1>7. /\ t \in PolicyState /\ t.projects = s.projects /\ t.global = s.global
      /\ t.versions = s.versions /\ t.current = s.current
  BY <1>1, <1>5, <1>6 DEF PolicyState
<1>8. Sound(t) /\ LogKept(s, t)  BY <1>7, SameSound
<1>9. Snapshot(s) = IF s.turns % SnapshotInterval # 0 THEN s ELSE t
  BY <1>1, <1>2, <1>6 DEF Snapshot, PolicyState
<1>10. Sound(s) /\ LogKept(s, s)  BY <1>1, SameSound
<1> QED BY <1>8, <1>9, <1>10

\* A turn learns: the state stays sound, the log goes on.
THEOREM UpdateSound ==
  ASSUME NEW s, Sound(s), NEW project \in Project, NEW trace \in Seq(Event), NEW n
  PROVE  LET t == UpdateFromTrace(s, project, trace, n) IN Sound(t) /\ LogKept(s, t)
<1> PICK signals : signals = Signals(trace, n)  OBVIOUS
<1> PICK learned : learned = FoldOf(Learn, [project |-> project, selected |-> n], s, signals)
  OBVIOUS
<1>1. Grown(s, learned)
  <2>1. signals \in Seq({e \in Event : Reward(e, n) # 0})  BY SignalsType
  <2> QED BY <2>1, LearnGrows DEF Sound
<1>2. Sound(learned) /\ LogKept(s, learned)  BY <1>1, GrownSound
<1> PICK counted : counted = [learned EXCEPT !.turns = @ + 1]  OBVIOUS
<1>3. Sound(counted) /\ LogKept(learned, counted)
  <2>1. learned.turns + 1 \in Nat /\ learned \in PolicyState  BY <1>2 DEF Sound, PolicyState
  <2>2. /\ counted \in PolicyState /\ counted.projects = learned.projects
        /\ counted.global = learned.global /\ counted.versions = learned.versions
        /\ counted.current = learned.current
    BY <2>1 DEF PolicyState
  <2> QED BY <1>2, <2>2, SameSound
<1> PICK recorded : recorded = IF signals = <<>> THEN counted ELSE RecordVersion(counted, project)
  OBVIOUS
<1>4. Sound(recorded) /\ LogKept(learned, recorded)
  <2>1. CASE signals = <<>>  BY <1>3, <2>1
  <2>2. CASE signals # <<>>
    <3>1. Sound(recorded) /\ LogKept(counted, recorded)  BY <1>3, <2>2, RecordVersionSound
    <3> QED BY <1>2, <1>3, <3>1, LogKeptTrans DEF Sound
  <2> QED BY <2>1, <2>2
<1>5. Sound(Snapshot(recorded)) /\ LogKept(recorded, Snapshot(recorded))  BY <1>4, SnapshotSound
<1>6. LogKept(s, recorded)  BY <1>2, <1>4, LogKeptTrans DEF Sound
<1>7. LogKept(s, Snapshot(recorded))  BY <1>4, <1>5, <1>6, LogKeptTrans DEF Sound
<1>8. UpdateFromTrace(s, project, trace, n) = Snapshot(recorded)  BY UpdateIs
<1> QED BY <1>5, <1>7, <1>8

-----------------------------------------------------------------------------
(* The file, and rollback *)

\* The state an engine starts from without a readable file is sound.
THEOREM FreshSound == Sound(FreshState)
<1> PICK s : s = FreshState  OBVIOUS
<1>1. <<>> \in Entries
  <2>1. <<>> \in [{} -> Weights]  OBVIOUS
  <2> QED BY <2>1, EntriesIntro
<1>2. s \in PolicyState  BY <1>1 DEF FreshState, PolicyState
<1>3. LogIsWellFormed(s)  BY DEF FreshState, LogIsWellFormed
<1>4. \A node \in WeightedNode, p \in Project :
         WeightsFor(s.projects[p], node) = FreshWeights /\ WeightsFor(s.global, node) = FreshWeights
  BY DEF FreshState, WeightsFor
<1>5. ASSUME NEW node \in WeightedNode PROVE Adds(s, node)
  <2> DEFINE F == [p \in Project |-> WeightsFor(s.projects[p], node).visits]
             G == [p \in Project |-> WeightsFor(s.projects[p], node).wins]
             H == [p \in Project |-> WeightsFor(s.projects[p], node).reward]
  <2>1. \A p \in Project : F[p] = 0 /\ G[p] = 0 /\ H[p] = 0  BY <1>4 DEF FreshWeights
  <2>2. WeightsFor(s.global, node) = FreshWeights  BY DEF FreshState, WeightsFor
  <2> HIDE DEF F, G, H
  <2>3. Total(F, ProjectOrder) = 0 /\ Total(G, ProjectOrder) = 0 /\ Total(H, ProjectOrder) = 0
    BY <2>1, ProjectOrderEnumerates, TotalOfNothing
  <2> QED BY <2>2, <2>3 DEF Adds, F, G, H, FreshWeights
<1>6. SumsUp(s)  BY <1>5, SumsUpByNode
<1>7. s.versions = <<>>  BY DEF FreshState
<1> QED BY <1>2, <1>3, <1>6, <1>7 DEF Sound

\* The weights a version shows are its own numbers with edges of now.
LEMMA WithEdgesOfType ==
  ASSUME NEW old \in Entries, NEW now \in Entries, DOMAIN old \subseteq DOMAIN now
  PROVE  /\ WithEdgesOf(old, now) \in Entries
         /\ DOMAIN WithEdgesOf(old, now) = DOMAIN old
         /\ Numbers(WithEdgesOf(old, now)) = Numbers(old)
         /\ \A n : /\ WeightsFor(WithEdgesOf(old, now), n).visits = WeightsFor(old, n).visits
                   /\ WeightsFor(WithEdgesOf(old, now), n).wins = WeightsFor(old, n).wins
                   /\ WeightsFor(WithEdgesOf(old, now), n).reward = WeightsFor(old, n).reward
<1> PICK new : new = WithEdgesOf(old, now)  OBVIOUS
<1>1. /\ DOMAIN old \subseteq WeightedNode /\ old \in [DOMAIN old -> Weights]
      /\ now \in [DOMAIN now -> Weights]
  BY EntriesElim
<1>2. DOMAIN new = DOMAIN old /\ \A n \in DOMAIN old : new[n] = [old[n] EXCEPT !.edges = now[n].edges]
  BY DEF WithEdgesOf
<1>3. ASSUME NEW n \in DOMAIN old
      PROVE  /\ new[n] \in Weights /\ new[n].visits = old[n].visits /\ new[n].wins = old[n].wins
             /\ new[n].reward = old[n].reward
             /\ [new[n] EXCEPT !.edges = <<>>] = [old[n] EXCEPT !.edges = <<>>]
  <2>1. old[n] \in Weights /\ now[n] \in Weights  BY <1>1
  <2>2. new[n] = [old[n] EXCEPT !.edges = now[n].edges]  BY <1>2
  <2> QED BY <2>1, <2>2 DEF Weights
<1>4. new \in [DOMAIN old -> Weights]  BY <1>2, <1>3 DEF WithEdgesOf
<1>5. new \in Entries  BY <1>1, <1>4, EntriesIntro
<1>6. Numbers(new) = Numbers(old)  BY <1>2, <1>3 DEF Numbers
<1>7. ASSUME NEW n
      PROVE  /\ WeightsFor(new, n).visits = WeightsFor(old, n).visits
             /\ WeightsFor(new, n).wins = WeightsFor(old, n).wins
             /\ WeightsFor(new, n).reward = WeightsFor(old, n).reward
  BY <1>2, <1>3 DEF WeightsFor
<1> QED BY <1>2, <1>5, <1>6, <1>7

\* What a version shows: its own numbers; one that is not live, itself.
LEMMA ShownType ==
  ASSUME NEW s, Sound(s), NEW i \in DOMAIN s.versions
  PROVE  LET after == s.versions[i].after
             shown == Shown(after, s)
         IN /\ after \in Learned /\ shown \in Learned
            /\ ~shown.live /\ SumsUp(shown)
            /\ shown.turns = after.turns
            /\ \A p \in Project : Numbers(after.projects[p]) = Numbers(shown.projects[p])
            /\ ~after.live => shown = after
<1> PICK after : after = s.versions[i].after  OBVIOUS
<1>1. s \in PolicyState /\ after \in Learned /\ SumsUp(after)
  BY VersionType DEF Sound, Version
<1>2. CASE ~after.live  BY <1>1, <1>2 DEF Shown
<1>3. CASE after.live
  <2>1. Covered(after, s)  BY <1>3 DEF Sound
  <2>2. /\ after.global \in Entries /\ s.global \in Entries
        /\ \A p \in Project : after.projects[p] \in Entries /\ s.projects[p] \in Entries
    BY <1>1 DEF Learned, PolicyState
  <2> PICK projects :
        projects = [p \in Project |-> WithEdgesOf(after.projects[p], s.projects[p])]  OBVIOUS
  <2> PICK global : global = WithEdgesOf(after.global, s.global)  OBVIOUS
  <2>3. \A p \in Project :
           /\ projects[p] \in Entries /\ Numbers(projects[p]) = Numbers(after.projects[p])
           /\ \A n : /\ WeightsFor(projects[p], n).visits = WeightsFor(after.projects[p], n).visits
                     /\ WeightsFor(projects[p], n).wins = WeightsFor(after.projects[p], n).wins
                     /\ WeightsFor(projects[p], n).reward = WeightsFor(after.projects[p], n).reward
    BY <2>1, <2>2, WithEdgesOfType DEF Covered
  <2>4. /\ global \in Entries
        /\ \A n : /\ WeightsFor(global, n).visits = WeightsFor(after.global, n).visits
                  /\ WeightsFor(global, n).wins = WeightsFor(after.global, n).wins
                  /\ WeightsFor(global, n).reward = WeightsFor(after.global, n).reward
    BY <2>1, <2>2, WithEdgesOfType DEF Covered
  <2> PICK shown : shown = [after EXCEPT !.projects = projects, !.global = global,
                                         !.recent = s.recent, !.live = FALSE]
    OBVIOUS
  <2>5. Shown(after, s) = shown
    BY <1>1, <1>3 DEF Shown, Learned
  <2>6. projects \in [Project -> Entries]  BY <2>3
  <2>7. /\ shown \in Learned /\ ~shown.live /\ shown.turns = after.turns
        /\ shown.projects = projects /\ shown.global = global
    BY <1>1, <2>4, <2>6 DEF Learned, PolicyState
  <2>8. ASSUME NEW node \in WeightedNode PROVE SameNumbers(after, shown, node)
    <3>1. ASSUME NEW p \in Project
          PROVE  /\ WeightsFor(projects[p], node).visits = WeightsFor(after.projects[p], node).visits
                 /\ WeightsFor(projects[p], node).wins = WeightsFor(after.projects[p], node).wins
                 /\ WeightsFor(projects[p], node).reward = WeightsFor(after.projects[p], node).reward
      BY <2>3
    <3>2. /\ WeightsFor(global, node).visits = WeightsFor(after.global, node).visits
          /\ WeightsFor(global, node).wins = WeightsFor(after.global, node).wins
          /\ WeightsFor(global, node).reward = WeightsFor(after.global, node).reward
      BY <2>4
    <3>3. shown.projects = projects /\ shown.global = global  BY <2>7
    <3>4. \A p \in Project :
             /\ WeightsFor(shown.projects[p], node).visits = WeightsFor(after.projects[p], node).visits
             /\ WeightsFor(shown.projects[p], node).wins = WeightsFor(after.projects[p], node).wins
             /\ WeightsFor(shown.projects[p], node).reward = WeightsFor(after.projects[p], node).reward
      BY <3>1, <3>3
    <3> QED BY <3>2, <3>3, <3>4, Zenon DEF SameNumbers
  <2>9. SumsUp(shown)  BY <1>1, <2>8, SameNumbersSumUp
  <2>10. \A p \in Project : Numbers(after.projects[p]) = Numbers(shown.projects[p])
    BY <2>3, <2>7
  <2> QED BY <1>1, <1>3, <2>5, <2>7, <2>9, <2>10
<1> QED BY <1>2, <1>3

\* The versions as a save writes them: the same log, and none of them live.
LEMMA WrittenVersions ==
  ASSUME NEW s, Sound(s)
  PROVE  LET versions == Written(s).versions IN
         /\ versions \in Seq(Version)
         /\ Len(versions) = Len(s.versions) /\ DOMAIN versions = DOMAIN s.versions
         /\ \A i \in DOMAIN s.versions :
               /\ versions[i].after = Shown(s.versions[i].after, s)
               /\ versions[i].id = s.versions[i].id /\ versions[i].parent = s.versions[i].parent
               /\ ~versions[i].after.live
               /\ SumsUp(versions[i].after)
               /\ SameVersion(s.versions[i], versions[i], s.versions[i].after.live)
<1>1. /\ s \in PolicyState /\ Len(s.versions) \in Nat /\ DOMAIN s.versions = 1..Len(s.versions)
      /\ \A i \in DOMAIN s.versions : s.versions[i] \in Version
  BY VersionType DEF Sound
<1> PICK versions : versions = [i \in DOMAIN s.versions |-> Frozen(s.versions[i], s)]  OBVIOUS
<1>2. Written(s).versions = versions  BY <1>1 DEF Written, PolicyState
<1>3. ASSUME NEW i \in DOMAIN s.versions
      PROVE  /\ versions[i] \in Version
             /\ versions[i].after = Shown(s.versions[i].after, s)
             /\ versions[i].id = s.versions[i].id /\ versions[i].parent = s.versions[i].parent
             /\ ~versions[i].after.live
             /\ SumsUp(versions[i].after)
             /\ SameVersion(s.versions[i], versions[i], s.versions[i].after.live)
  <2> PICK v : v = s.versions[i]  OBVIOUS
  <2> PICK shown : shown = Shown(v.after, s)  OBVIOUS
  <2>1. v \in Version  BY <1>1
  <2>2. /\ shown \in Learned /\ ~shown.live /\ SumsUp(shown) /\ shown.turns = v.after.turns
        /\ \A p \in Project : Numbers(v.after.projects[p]) = Numbers(shown.projects[p])
        /\ ~v.after.live => shown = v.after
    BY ShownType
  <2>3. versions[i] = [v EXCEPT !.after = shown]  BY DEF Frozen
  <2>4. /\ versions[i] \in Version /\ versions[i].after = shown /\ versions[i].id = v.id
        /\ versions[i].parent = v.parent /\ versions[i].project = v.project
    BY <2>1, <2>2, <2>3 DEF Version
  <2>5. SameVersion(v, versions[i], v.after.live)  BY <2>2, <2>4 DEF SameVersion
  <2> QED BY <2>2, <2>4, <2>5
<1>4. versions \in [1..Len(s.versions) -> Version]  BY <1>1, <1>3
<1>5. versions \in Seq(Version) /\ Len(versions) = Len(s.versions)
  BY <1>1, <1>4
<1> QED BY <1>1, <1>2, <1>3, <1>5

\* A state with that log is sound, if its own numbers are.
LEMMA WithWrittenLog ==
  ASSUME NEW s, Sound(s), NEW t, t \in PolicyState, t.versions = Written(s).versions,
         t.current \in 0..Len(s.versions), SumsUp(t)
  PROVE  /\ Sound(t) /\ LogKept(s, t) /\ Len(t.versions) = Len(s.versions)
         /\ \A i \in DOMAIN t.versions : ~t.versions[i].after.live
<1>1. /\ Len(s.versions) \in Nat /\ DOMAIN s.versions = 1..Len(s.versions)
      /\ \A i \in DOMAIN s.versions : s.versions[i].id = i /\ s.versions[i].parent \in 0..(i - 1)
  BY VersionType DEF Sound, LogIsWellFormed
<1>2. /\ Len(t.versions) = Len(s.versions) /\ DOMAIN t.versions = DOMAIN s.versions
      /\ \A i \in DOMAIN s.versions :
            /\ t.versions[i].id = s.versions[i].id /\ t.versions[i].parent = s.versions[i].parent
            /\ ~t.versions[i].after.live
            /\ SumsUp(t.versions[i].after)
            /\ SameVersion(s.versions[i], t.versions[i], s.versions[i].after.live)
  BY WrittenVersions
<1>3. LogIsWellFormed(t)  BY <1>1, <1>2 DEF LogIsWellFormed
<1>4. Sound(t)  BY <1>2, <1>3 DEF Sound
<1>5. LogKept(s, t)  BY <1>1, <1>2 DEF LogKept
<1> QED BY <1>2, <1>4, <1>5

\* What is saved is sound, has the engine's log, and shares nothing with the engine.
THEOREM WrittenSound ==
  ASSUME NEW s, Sound(s)
  PROVE  LET t == Written(s) IN
         /\ Sound(t) /\ LogKept(s, t) /\ Len(t.versions) = Len(s.versions)
         /\ \A i \in DOMAIN t.versions : ~t.versions[i].after.live
<1> PICK t : t = Written(s)  OBVIOUS
<1> PICK versions : versions = [i \in DOMAIN s.versions |-> Frozen(s.versions[i], s)]  OBVIOUS
<1>1. s \in PolicyState  BY DEF Sound
<1>2. t = [s EXCEPT !.versions = versions]  BY DEF Written
<1>3. t.versions = versions  BY <1>1, <1>2 DEF PolicyState
<1>4. versions \in Seq(Version)  BY <1>3, WrittenVersions
<1>5. /\ t \in PolicyState /\ t.projects = s.projects /\ t.global = s.global
      /\ t.current = s.current
  BY <1>1, <1>2, <1>4 DEF PolicyState
<1>6. \A node \in WeightedNode : SameNumbers(s, t, node)  BY <1>5 DEF SameNumbers
<1>7. SumsUp(t)  BY <1>6, SameNumbersSumUp DEF Sound
<1>8. t.current \in 0..Len(s.versions)  BY <1>5 DEF Sound, LogIsWellFormed
<1> QED BY <1>5, <1>7, <1>8, WithWrittenLog

\* A sound engine saves what it may find in a file: the state is typed, its log numbered
\* by places, its sums and those of every version add up, and no version is live.
THEOREM WrittenIsSaved ==
  ASSUME NEW s, Sound(s)
  PROVE  SavedState(Written(s))
BY WrittenSound, SoundIsSaved

\* A rollback brings back sound numbers, and keeps the log.
THEOREM RollbackSound ==
  ASSUME NEW s, Sound(s), NEW id \in DOMAIN s.versions
  PROVE  LET t == Rollback(s, id) IN
         /\ Sound(t) /\ LogKept(s, t) /\ Len(t.versions) = Len(s.versions)
<1> PICK t : t = Rollback(s, id)  OBVIOUS
<1> PICK shown : shown = Shown(s.versions[id].after, s)  OBVIOUS
<1>1. shown \in Learned /\ SumsUp(shown)  BY ShownType
<1>2. /\ s \in PolicyState /\ Len(s.versions) \in Nat /\ DOMAIN s.versions = 1..Len(s.versions)
  BY VersionType DEF Sound
<1> PICK versions : versions = Written(s).versions  OBVIOUS
<1>3. versions \in Seq(Version)  BY WrittenVersions
<1>4. t = [projects |-> shown.projects, global |-> shown.global, recent |-> shown.recent,
           turns |-> shown.turns, current |-> id, versions |-> versions,
           snapshots |-> s.snapshots]
  BY DEF Rollback, With, Once
<1>5. /\ t \in PolicyState /\ t.projects = shown.projects /\ t.global = shown.global
      /\ t.versions = versions /\ t.current = id
  BY <1>1, <1>2, <1>3, <1>4 DEF PolicyState, Learned
<1>6. \A node \in WeightedNode : SameNumbers(shown, t, node)  BY <1>5 DEF SameNumbers
<1>7. SumsUp(t)  BY <1>1, <1>6, SameNumbersSumUp
<1>8. t.current \in 0..Len(s.versions)  BY <1>2, <1>5
<1> QED BY <1>5, <1>7, <1>8, WithWrittenLog

-----------------------------------------------------------------------------
(* select_decision *)

\* Of three weights there is a first greatest one.
LEMMA BestOfThree ==
  ASSUME NEW w \in [1..3 -> Int]
  PROVE  \E i \in 1..3 : \A j \in 1..3 : w[i] > w[j] \/ (w[i] = w[j] /\ i <= j)
<1> PICK a \in Int, b \in Int, c \in Int : a = w[1] /\ b = w[2] /\ c = w[3]  OBVIOUS
<1>1. \A j \in 1..3 : j = 1 \/ j = 2 \/ j = 3  OBVIOUS
<1> QED BY <1>1

\* A decision is one of those allowed, if the proposal is.
LEMMA SelectAllowed ==
  ASSUME NEW s, s \in PolicyState, NEW project \in Project, NEW node, NEW allowed, NEW proposed,
         \/ allowed = RecallChoices /\ node = "should_recall"
         \/ allowed = BundleChoices /\ node # "should_recall",
         proposed \in Items(allowed), NEW deterministic \in BOOLEAN
  PROVE  /\ SelectDecision(s, project, node, proposed, allowed, deterministic) \in Items(allowed)
         /\ deterministic =>
              SelectDecision(s, project, node, proposed, allowed, deterministic) = proposed
<1> PICK w : w = WeightsFor(s.projects[project], node)  OBVIOUS
<1>1. s.projects[project] \in Entries /\ s.recent[project] \in Seq(Items(RecallChoices))
  BY DEF PolicyState
<1>2. w \in Weights  BY <1>1, WeightsForType
<1> PICK weight : weight = [i \in DOMAIN allowed |-> EdgeWeight(w, allowed[i])]  OBVIOUS
<1>3. weight \in [DOMAIN allowed -> Int]  BY <1>2, EdgeWeightType
<1>4. DOMAIN allowed = 1..3 \/ DOMAIN allowed = 1..2  BY DEF RecallChoices, BundleChoices
<1>5. \E i \in DOMAIN allowed : \A j \in DOMAIN allowed :
          weight[i] > weight[j] \/ (weight[i] = weight[j] /\ i <= j)
  <2>1. CASE DOMAIN allowed = 1..3  BY <1>3, <2>1, BestOfThree
  <2>2. CASE DOMAIN allowed = 1..2
    <3>1. weight[1] \in Int /\ weight[2] \in Int  BY <1>3, <2>2
    <3>2. \A j \in 1..2 : j = 1 \/ j = 2  OBVIOUS
    <3>3. CASE weight[1] >= weight[2]  BY <2>2, <3>1, <3>2, <3>3
    <3>4. CASE weight[2] > weight[1]  BY <2>2, <3>1, <3>2, <3>4
    <3> QED BY <3>1, <3>3, <3>4
  <2> QED BY <1>4, <2>1, <2>2
<1> PICK best : best = CHOOSE i \in DOMAIN allowed : \A j \in DOMAIN allowed :
                    weight[i] > weight[j] \/ (weight[i] = weight[j] /\ i <= j)
  OBVIOUS
<1>6. best \in DOMAIN allowed  BY <1>5
<1>7. allowed[best] \in Items(allowed)  BY <1>6 DEF Items
<1> PICK recent : recent = s.recent[project]  OBVIOUS
<1>8. SelectDecision(s, project, node, proposed, allowed, deterministic)
        = IF deterministic THEN proposed
          ELSE IF node = "should_recall" /\ recent # <<>> /\ Len(recent) < StabilityWindow
          THEN recent[Len(recent)]
          ELSE IF weight[best] >= EdgeWeight(w, proposed) + 15 /\ w.visits > 0
          THEN allowed[best] ELSE proposed
  BY DEF SelectDecision
<1>9. ASSUME node = "should_recall", recent # <<>> PROVE recent[Len(recent)] \in Items(allowed)
  <2>1. recent \in Seq(Items(RecallChoices)) /\ allowed = RecallChoices  BY <1>1, <1>9
  <2>2. Len(recent) \in 1..Len(recent)  BY <2>1, <1>9
  <2> QED BY <2>1, <2>2
<1> QED BY <1>7, <1>8, <1>9
=============================================================================
