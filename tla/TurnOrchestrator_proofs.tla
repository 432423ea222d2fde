----------------------- MODULE TurnOrchestrator_proofs -----------------------
(***************************************************************************)
(* The invariants of TurnOrchestrator, for every set of clients, requests,  *)
(* facts and projects.                                                      *)
(***************************************************************************)
EXTENDS TurnOrchestrator, PolicyEngine_proofs

-----------------------------------------------------------------------------
(* The inductive invariant *)

Memory == Project \X Fact
SchedulerState == [turns : Nat, reward : Int, bias : [Resolution -> Int]]

\* The fields of what a client is at.
ClientField == {"pc", "request", "engine", "scheduler", "weights", "trace", "decision",
                "retrieved", "selected", "suppressed", "injected", "conflicts", "path", "plan",
                "writeback", "seen", "sound", "loaded"}

Idle == {"closed", "opening", "ready"}
Deciding == {"rank", "weigh", "bundle", "execute"}
Storing == {"list", "store"}
Finished == {"complete", "cycle", "save", "write"}

\* The memories have what their scores are made of.
MemoriesTyped ==
    /\ mems \subseteq Memory /\ IsFiniteSet(mems)
    /\ \A m \in mems : Text[m[2]].type \in StoredType
    /\ queue \subseteq Memory

\* The file is what was saved last, or unreadable.
FilesTyped ==
    /\ schedulerFile \in SchedulerState
    /\ policyFile.kind \in {"ok", "broken"}
    /\ policyFile.kind = "ok" => policyFile.state = log.last
    /\ Sound(policyFile.state) /\ Sound(log.last)
    /\ \A i \in DOMAIN log.last.versions : ~log.last.versions[i].after.live
    /\ DOMAIN log = {"saves", "last", "overlapped"}
    /\ log.saves \in Nat /\ log.overlapped \in BOOLEAN

Bounded ==
    /\ DOMAIN used = {"turns", "failures", "rollbacks"}
    /\ used.turns \in 0..MaxTurns /\ used.failures \in 0..MaxFailures
    /\ used.rollbacks \in 0..MaxRollbacks

Typed(r) ==
    /\ DOMAIN r = ClientField
    /\ r.pc \in Idle \cup Deciding \cup {"operate"} \cup Storing \cup Finished
    /\ Sound(r.engine)
    /\ r.scheduler \in SchedulerState
    /\ r.weights \in [Policy -> Int]
    /\ r.trace \in Seq(Event)
    /\ r.decision.action \in RecallAction
    /\ r.retrieved \in Seq(mems)
    /\ r.selected \in Seq(Memory)
    /\ r.conflicts \in Seq(Resolution)
    /\ r.plan \in Seq(Fact)
    /\ r.seen \in 0..log.saves /\ r.sound \in BOOLEAN /\ r.loaded \in Nat

\* Where a turn is tells how it got there.
Placed(c, r) ==
    /\ r.pc \in Idle \cup Deciding => r.path = "none"
    /\ r.pc \in Idle => r.trace = <<>>
    /\ r.pc = "operate" => r.path = "execute"
    /\ r.pc \in Storing => r.path \in {"cached", "execute", "fallback"} /\ r.writeback = "write"
    /\ r.pc = "store" => r.plan # <<>>
    /\ r.pc \in {"complete", "cycle"} => r.path \in {"cached", "execute", "fallback"}
    /\ r.pc = "complete" => r.writeback \in {"preview", "write", "skipped"}
    /\ r.pc \in {"save", "write"} => r.path \in {"cached", "execute", "fallback", "rollback"}
    /\ r.pc \notin Idle /\ r.path # "rollback" => r.request \in Requests[c]

\* A trace that goes along the edges, as TraceIsAWalk has it.
Goes(from, to) ==
    \/ to[1] = NextNode(from)
    \/ from \in {<<"use_cache", "hit">>, <<"should_recall", "writeback_only">>}
       /\ to[1] = "skip_memory"
Walk(trace) == \A i \in 1..(Len(trace) - 1) : Goes(trace[i], trace[i + 1])
EndsIn(trace, events) == trace # <<>> /\ trace[Len(trace)] \in events

BeforeExecute == {<<"skip_memory", "policy_skip">>, <<"use_full_bundle", "full">>,
                  <<"use_full_bundle", "lean">>}
Walking(r) ==
    /\ Walk(r.trace)
    /\ r.pc = "rank" => EndsIn(r.trace, {<<"use_cache", "miss">>})
    /\ r.pc = "weigh" => EndsIn(r.trace, {<<"use_cache", "hit">>, <<"rank_memories", "ranked">>})
    /\ r.pc = "bundle" => EndsIn(r.trace, {<<"skip_memory", "inject">>})
    /\ r.pc \in {"execute", "operate"} => EndsIn(r.trace, BeforeExecute)
    /\ r.pc \in Storing \cup {"complete"} =>
          EndsIn(r.trace, IF r.path = "fallback" THEN {<<"fallback_lightweight", "fallback">>}
                          ELSE BeforeExecute)

\* A search that may not show what it includes has been stopped; what is shown of
\* sensitive memories was allowed.
Shielded(r) ==
    /\ r.pc \in Idle \cup Deciding \cup {"operate"} => r.injected = {}
    /\ r.pc \in {"bundle", "execute", "operate"} /\ r.request.op = "memory_search" =>
          (r.request.includeSensitive => r.request.allowSensitive)
    /\ r.pc = "operate" =>
          \A m \in Items(r.retrieved) : Has(m[2], "sensitive") => r.request.includeSensitive
    /\ r.pc \in Storing \cup {"complete", "cycle"} =>
          \A e \in r.injected : Has(e[2][2], "sensitive") => r.request.allowSensitive

\* What an operation leaves out is what its retrieval found to be suppressed.
Reported(r) ==
    /\ r.pc = "operate" => r.suppressed = SuppressedIn(r.retrieved, IntentOf(r.request))
    /\ r.pc \in Storing \cup {"complete", "cycle"} /\ r.path = "execute"
          /\ r.request.op \in {"memory_pack", "context_bundle", "memory_search"} =>
          \A e \in r.injected :
             e[2] \in Items(r.retrieved)
                 /\ Suppressed(Text[e[2][2]].marks, IntentOf(r.request)) =>
               e[1] = "profile" /\ r.request.op = "context_bundle"

\* A fact of a request is seen to.
Done(r, f) ==
    \/ <<r.request.project, f>> \in mems \cup queue
    \/ NearExisting(f, ListedFacts(r.request.project))

\* While a turn stores, each fact worth a row is seen to or still planned.
Whole(r) ==
    /\ r.pc = "store" => /\ Items(r.plan) \subseteq Items(Worthy(r))
                         /\ \A f \in Items(Worthy(r)) : f \in Items(r.plan) \/ Done(r, f)
    /\ r.pc \in Finished /\ r.path # "rollback" /\ r.request.mode = "write"
          /\ (r.request.writeback \/ StoresAsAsked(r))
          /\ ~(StoresAsAsked(r) /\ r.writeback = "preview") =>
          \A f \in Items(Worthy(r)) : Done(r, f)

\* Two memories of one project and type that are near each other, though neither is
\* sensitive nor were they in one text.
Clash(m, n) ==
    /\ m # n /\ m[1] = n[1] /\ MemoryType(m[2]) = MemoryType(n[2]) /\ Near(m[2], n[2], 90)
    /\ ~Has(m[2], "sensitive") /\ ~Has(n[2], "sensitive")
    /\ \A c \in Client : \A request \in Requests[c] : ~({m[2], n[2]} \subseteq Items(request.segments))

\* While stores do not overlap, one at most is going on, and what it has planned
\* clashes with nothing that is stored.
Apart ==
    ~log.overlapped =>
        /\ \A c, d \in Client : At(c, "store") /\ At(d, "store") => c = d
        /\ \A c \in Client : At(c, "store") =>
              \A f \in Items(client[c].plan), n \in mems :
                  ~Clash(<<client[c].request.project, f>>, n)
        /\ \A m \in mems \ InitialMemories, n \in mems : ~Clash(m, n)

\* An engine that has seen every save has the log that was saved last; the versions
\* it loaded it does not share.
UpToDate(r) ==
    r.pc # "closed" =>
        /\ r.loaded <= Len(r.engine.versions)
        /\ \A i \in DOMAIN r.engine.versions : i <= r.loaded => ~r.engine.versions[i].after.live
        /\ r.sound /\ r.seen = log.saves => ExtendsLog(log.last, r.engine, r.loaded)

Good(c, r) ==
    Typed(r) /\ Placed(c, r) /\ Walking(r) /\ Shielded(r) /\ Reported(r) /\ Whole(r) /\ UpToDate(r)

IInv ==
    /\ MemoriesTyped /\ FilesTyped /\ Bounded
    /\ DOMAIN client = Client
    /\ \A c \in Client : Good(c, client[c])
    /\ Apart

Parting == INSTANCE Folding WITH Op <- KeepApart
Considering == INSTANCE Folding WITH Op <- KeepNew

-----------------------------------------------------------------------------
(* Scores *)

\* A fact is a number, and its type is one a row can have, or none.
LEMMA FactType ==
  ASSUME NEW f \in Fact
  PROVE  f \in Nat /\ Text[f].type \in StoredType \cup {"none"}
BY AdmissionAssumption

\* Each type of row has a rule of admission and a boost, in numbers.
LEMMA RuleType ==
  ASSUME NEW type \in StoredType
  PROVE  RuleOf(type).confidence \in Int /\ RuleOf(type).importance \in Int
           /\ RuleOf(type).bonus \in Int /\ TypeBoost(type) \in Int
BY DEF StoredType, RuleOf, TypeBoost

\* The scores of a fact that can have a row are integers.
LEMMA FactScores ==
  ASSUME NEW f \in Fact, Text[f].type \in StoredType
  PROVE  /\ Importance(f) \in Int /\ Confidence(f) \in Int /\ AdmissionScore(f) \in Int
         /\ TypeBoost(MemoryType(f)) \in Int
<1>1. /\ RuleOf(Text[f].type).confidence \in Int /\ RuleOf(Text[f].type).importance \in Int
      /\ RuleOf(Text[f].type).bonus \in Int
  BY RuleType
<1>2. Importance(f) \in Int /\ Confidence(f) \in Int  BY <1>1 DEF Importance, Confidence
<1>3. AdmissionScore(f) \in Int  BY <1>1, <1>2 DEF AdmissionScore
<1>4. MemoryType(f) \in StoredType  BY DEF MemoryType, StoredType
<1> QED BY <1>2, <1>3, <1>4, RuleType

\* The score a search gives a memory is an integer.
LEMMA MemoryScoreType ==
  ASSUME NEW m \in Memory, Text[m[2]].type \in StoredType, NEW project, NEW hits
  PROVE  MemoryScore(m, project, hits) \in Int
<1> PICK f \in Fact : f = m[2]  BY DEF Memory
<1>1. Importance(f) \in Int /\ Confidence(f) \in Int /\ TypeBoost(MemoryType(f)) \in Int
  BY FactScores
<1>2. (10 * Importance(f) + 5 * Confidence(f)) \div 100 \in Int  BY <1>1
<1>3. PICK a \in Int : a = (10 * Importance(f) + 5 * Confidence(f)) \div 100  BY <1>2
<1> QED BY <1>1, <1>3 DEF MemoryScore, Clamped

\* What the router adds for the marks of a memory is an integer.
LEMMA AdjustmentType ==
  ASSUME NEW marks, NEW intent \in Items(Intent)
  PROVE  Adjustment(marks, intent) \in Int
BY DEF Items, Intent, Adjustment, When

\* The score after routing is an integer.
LEMMA RoutedScoreType ==
  ASSUME NEW m \in Memory, Text[m[2]].type \in StoredType, NEW project, NEW hits,
         NEW intent \in Items(Intent)
  PROVE  RoutedScore(m, project, hits, intent) \in Int
<1> PICK a \in Int : a = Adjustment(Text[m[2]].marks, intent)  BY AdjustmentType
<1> PICK b \in Int : b = MemoryScore(m, project, hits)  BY MemoryScoreType
<1> QED BY DEF RoutedScore, Adjust, Clamped

\* Every request has one of the intents of the task analyzer.
LEMMA IntentType ==
  ASSUME NEW request \in TurnRequest
  PROVE  IntentOf(request) \in Items(Intent)
<1> PICK k : k = request.keywords  OBVIOUS
<1>1. k \in [architecture : Nat, bug : Nat, debug : Nat, understand : Nat, words : SUBSET STRING]
  BY DEF TurnRequest
<1> PICK scores : scores = IntentScores(k)  OBVIOUS
<1>2. DOMAIN scores = 1..5 /\ \A i \in 1..5 : scores[i] \in Int  BY <1>1 DEF IntentScores
<1> PICK S : S = {scores[i] : i \in 1..5}  OBVIOUS
<1>3. \E i \in 1..5 : \A j \in 1..5 :
         scores[i] > scores[j] \/ (scores[i] = scores[j] /\ i <= j)
  <2> PICK a \in Int, b \in Int, c \in Int, d \in Int, e \in Int :
         a = scores[1] /\ b = scores[2] /\ c = scores[3] /\ d = scores[4] /\ e = scores[5]
    BY <1>2
  <2>1. \A j \in 1..5 : j = 1 \/ j = 2 \/ j = 3 \/ j = 4 \/ j = 5  OBVIOUS
  <2> QED BY <2>1
<1> PICK top : top = CHOOSE i \in DOMAIN scores : \A j \in DOMAIN scores :
                   scores[i] > scores[j] \/ (scores[i] = scores[j] /\ i <= j)
  OBVIOUS
<1>4. top \in 1..5  BY <1>2, <1>3
<1>5. ClassifyTaskIntent(k) = IF scores[top] <= 10 THEN "general_query" ELSE Intent[top]
  BY DEF ClassifyTaskIntent
<1>6. /\ DOMAIN Intent = 1..5 /\ Intent[5] = "general_query"
  BY DEF Intent
<1>7. Intent[top] \in Items(Intent) /\ "general_query" \in Items(Intent)
  <2>1. \A i \in DOMAIN Intent : Intent[i] \in Items(Intent)  BY DEF Items
  <2>2. top \in DOMAIN Intent /\ 5 \in DOMAIN Intent  BY <1>4, <1>6
  <2> QED BY <1>6, <2>1, <2>2
<1> QED BY <1>5, <1>7 DEF IntentOf

\* Leaving near copies out keeps some of the results.
LEMMA WithoutNearCopiesType ==
  ASSUME NEW S, NEW results \in Seq(S)
  PROVE  WithoutNearCopies(results) \in Seq(S)
<1>1. WithoutNearCopies(results) = Parting!FoldOf(92, <<>>, results)
  BY DEF WithoutNearCopies, FoldOf, Once, Parting!FoldOf, Parting!Once
<1>2. \A kept \in Seq(S), m \in S : KeepApart(92, kept, m) \in Seq(S)  BY DEF KeepApart
<1>3. <<>> \in Seq(S)  OBVIOUS
<1>4. PICK acc : Parting!FoldsTo(acc, 92, <<>>, results, Seq(S))  BY <1>2, <1>3, Parting!Fold
<1> QED BY <1>1, <1>4 DEF Parting!FoldsTo

\* The segments that are not near an earlier one, and those of them that have a type
\* or are not to be stored, are segments.
LEMMA KeptNewType ==
  ASSUME NEW S, NEW segments \in Seq(S)
  PROVE  FoldOf(KeepNew, 94, <<>>, segments) \in Seq(S)
<1>1. FoldOf(KeepNew, 94, <<>>, segments) = Considering!FoldOf(94, <<>>, segments)
  BY DEF FoldOf, Once, Considering!FoldOf, Considering!Once
<1>2. \A kept \in Seq(S), f \in S : KeepNew(94, kept, f) \in Seq(S)  BY DEF KeepNew
<1>3. <<>> \in Seq(S)  OBVIOUS
<1>4. PICK acc : Considering!FoldsTo(acc, 94, <<>>, segments, Seq(S))
  BY <1>2, <1>3, Considering!Fold
<1> QED BY <1>1, <1>4 DEF Considering!FoldsTo

\* The segments that are considered are segments of the text.
LEMMA ConsideredType ==
  ASSUME NEW S, NEW segments \in Seq(S)
  PROVE  Considered(segments) \in Seq(S)
<1>1. PICK kept : kept = FoldOf(KeepNew, 94, <<>>, segments)  OBVIOUS
<1>2. kept \in Seq(S)  BY <1>1, KeptNewType
<1>3. Considered(segments)
        = Filtered(kept, {f \in Fact : Has(f, "do_not_store") \/ Text[f].type # "none"})
  BY <1>1 DEF Considered, With, Once
<1> QED BY <1>2, <1>3, FilteredItems

-----------------------------------------------------------------------------
(* Retrieval *)

\* The memories that have what a score is made of.
Scored(M) == M \subseteq Memory /\ \A m \in M : Text[m[2]].type \in StoredType

\* A memory is its project and its fact.
LEMMA MemoryParts ==
  ASSUME NEW m \in Memory
  PROVE  m = <<m[1], m[2]>> /\ m[1] \in Project /\ m[1] \in Nat /\ m[2] \in Fact /\ m[2] \in Nat
<1>1. m[1] \in Project /\ m[2] \in Fact /\ m = <<m[1], m[2]>>  BY DEF Memory
<1> QED BY <1>1, EngineAssumption, AdmissionAssumption

\* A search finds listed memories.
LEMMA SearchType ==
  ASSUME NEW M, Scored(M), IsFiniteSet(M), NEW project, NEW hits, NEW includeSensitive,
         NEW topK \in Nat
  PROVE  Search(M, project, hits, includeSensitive, topK)
           \in Seq(Listed(M, project, includeSensitive))
<1>1. PICK L : L = Listed(M, project, includeSensitive)  OBVIOUS
<1>2. PICK found : found = Candidates(L, project, hits)  OBVIOUS
<1>3. found \subseteq L
  <2>1. PICK some : some = {m \in L : m[2] \in hits \/ AlwaysCandidate(m, project)}  OBVIOUS
  <2>2. Candidates(L, project, hits) = IF some = {} THEN L ELSE some
    BY <2>1 DEF Candidates, With, Once
  <2> QED BY <1>2, <2>1, <2>2
<1>4. L \subseteq M /\ found \subseteq M  BY <1>1, <1>3 DEF Listed
<1>5. IsFiniteSet(found)  BY <1>4, FS_Subset
<1>6. PICK key : key = [m \in found |-> <<MemoryScore(m, project, hits), m[2], m[1]>>]  OBVIOUS
<1>7. ASSUME NEW m \in found PROVE key[m] \in [1..3 -> Int] /\ key[m][2] = m[2] /\ key[m][3] = m[1]
  <2>1. m \in Memory /\ Text[m[2]].type \in StoredType  BY <1>4 DEF Scored
  <2>2. MemoryScore(m, project, hits) \in Int  BY <2>1, MemoryScoreType
  <2>3. m[1] \in Int /\ m[2] \in Int  BY <2>1, MemoryParts
  <2> QED BY <1>6, <2>2, <2>3
<1>8. key \in [found -> [1..3 -> Int]]  BY <1>6, <1>7
<1>9. ASSUME NEW x \in found, NEW y \in found, key[x] = key[y] PROVE x = y
  <2>1. x[1] = y[1] /\ x[2] = y[2]  BY <1>7, <1>9
  <2>2. x \in Memory /\ y \in Memory  BY <1>4 DEF Scored
  <2> QED BY <2>1, <2>2, MemoryParts
<1>10. PICK sorted : sorted = BestFirst(found, project, hits)  OBVIOUS
<1>11. sorted \in Seq(found)  <2>1. SortedBy(found, key) \in Seq(found)  BY <1>5, <1>8, <1>9, SortedSeq
  <2> QED BY <1>6, <1>10, <2>1 DEF BestFirst
<1>12. sorted \in Seq(L)  BY <1>3, <1>11, SeqOfSuperset
<1>13. Top(WithoutNearCopies(sorted), topK) \in Seq(L)  BY <1>12, WithoutNearCopiesType, TopType
<1>14. Search(M, project, hits, includeSensitive, topK) = Top(WithoutNearCopies(sorted), topK)
  BY <1>1, <1>2, <1>10 DEF Search, With, Once
<1> QED BY <1>1, <1>13, <1>14

\* Reranking rearranges the results.
LEMMA RerankType ==
  ASSUME NEW S, Scored(S), NEW results \in Seq(S), NEW project, NEW hits,
         NEW intent \in Items(Intent)
  PROVE  Rerank(results, project, hits, intent) \in Seq(S)
<1>1. PICK key : key = RouteKey(results, project, hits, intent)  OBVIOUS
<1>2. DOMAIN results = 1..Len(results) /\ Len(results) \in Nat  OBVIOUS
<1>3. ASSUME NEW i \in DOMAIN results PROVE key[i] \in [1..4 -> Int] /\ key[i][4] = 0 - i
  <2>1. results[i] \in S  OBVIOUS
  <2>2. results[i] \in Memory /\ Text[results[i][2]].type \in StoredType  BY <2>1 DEF Scored
  <2> PICK a \in Int : a = RoutedScore(results[i], project, hits, intent)
    BY <2>2, RoutedScoreType
  <2>3. results[i][2] \in Fact  BY <2>2, MemoryParts
  <2> PICK b \in Int, d \in Int : b = Importance(results[i][2]) /\ d = Confidence(results[i][2])
    BY <2>2, <2>3, FactScores
  <2>4. 0 - i \in Int  BY <1>2
  <2>5. key[i] = <<a, b, d, 0 - i>>  BY <1>1 DEF RouteKey
  <2> QED BY <2>4, <2>5
<1>4. key \in [DOMAIN results -> [1..4 -> Int]]  BY <1>1, <1>3 DEF RouteKey
<1>5. \A i, j \in DOMAIN results : key[i] = key[j] => i = j
  <2>1. \A i, j \in DOMAIN results : 0 - i = 0 - j => i = j  BY <1>2
  <2> QED BY <1>3, <2>1
<1>6. Arranged(results, key) \in Seq(S)  BY <1>4, <1>5, ArrangedType
<1> QED BY <1>1, <1>6 DEF Rerank

\* Putting the preferred ones first rearranges them.
LEMMA PreferredFirstType ==
  ASSUME NEW S, NEW found \in Seq(S), NEW T, NEW preferred \in Seq(T)
  PROVE  PreferredFirst(found, preferred) \in Seq(S)
<1>1. \A m : PlaceIn(preferred, m) \in Int  BY DEF PlaceIn
<1>2. PICK key : key = [i \in DOMAIN found |-> <<0 - PlaceIn(preferred, found[i]), 0 - i>>]
  OBVIOUS
<1>3. DOMAIN found = 1..Len(found) /\ Len(found) \in Nat  OBVIOUS
<1>4. ASSUME NEW i \in DOMAIN found PROVE key[i] \in [1..2 -> Int] /\ key[i][2] = 0 - i
  <2> PICK p \in Int : p = PlaceIn(preferred, found[i])  BY <1>1
  <2>1. 0 - p \in Int /\ 0 - i \in Int  BY <1>3
  <2> QED BY <1>2, <2>1
<1>5. key \in [DOMAIN found -> [1..2 -> Int]]  BY <1>2, <1>4
<1>6. \A i, j \in DOMAIN found : key[i] = key[j] => i = j
  <2>1. \A i, j \in DOMAIN found : 0 - i = 0 - j => i = j  BY <1>3
  <2> QED BY <1>4, <2>1
<1>7. Arranged(found, key) \in Seq(S)  BY <1>5, <1>6, ArrangedType
<1> QED BY <1>2, <1>7 DEF PreferredFirst

\* A pack has memories that are listed without the sensitive ones, and none that it
\* is told to leave out.
LEMMA PackedType ==
  ASSUME NEW M, Scored(M), IsFiniteSet(M), NEW project, NEW hits, NEW excluded,
         NEW T, NEW preferred \in Seq(T), NEW compact
  PROVE  PackedMemories(M, project, hits, excluded, preferred, compact)
           \subseteq Listed(M, project, FALSE) \ excluded
<1>1. PICK topK \in Nat : topK = IF compact THEN 12 ELSE 30  OBVIOUS
<1>2. PICK results : results = PackSearch(M, project, hits, compact)  OBVIOUS
<1>3. PICK L : L = Listed(M, project, FALSE)  OBVIOUS
<1>4. results \in Seq(L)
  <2>1. Search(M, project, hits, FALSE, topK) \in Seq(L)  BY <1>3, SearchType
  <2> QED BY <1>1, <1>2, <2>1 DEF PackSearch
<1>5. PICK found : found = Without(results, excluded)  OBVIOUS
<1>6. Items(results) \subseteq L  BY <1>4, SeqOfItems
<1>7. found \in Seq(L) /\ Items(found) = Items(results) \cap (Items(results) \ excluded)
  BY <1>4, <1>5, FilteredItems DEF Without
<1>8. found \in Seq(L \ excluded)
  <2>1. found \in Seq(Items(found))  BY <1>7, SeqOfItems
  <2>2. Items(found) \subseteq L \ excluded  BY <1>6, <1>7
  <2> QED BY <2>1, <2>2, SeqOfSuperset
<1>9. PICK kept : kept = WithoutNearCopies(PreferredFirst(found, preferred))  OBVIOUS
<1>10. kept \in Seq(L \ excluded)  BY <1>8, <1>9, PreferredFirstType, WithoutNearCopiesType
<1>11. InSections(kept, compact) \subseteq Items(kept)  BY DEF InSections, Items
<1>12. Items(kept) \subseteq L \ excluded  BY <1>10, SeqOfItems
<1>13. PackedMemories(M, project, hits, excluded, preferred, compact) = InSections(kept, compact)
  <2>1. Sectioned(results, excluded, preferred, compact) = InSections(kept, compact)
    BY <1>5, <1>9 DEF Sectioned, With, Once
  <2>2. PackedMemories(M, project, hits, excluded, preferred, compact)
          = Sectioned(results, excluded, preferred, compact)
    BY <1>1, <1>2 DEF PackedMemories, With, Once
  <2> QED BY <2>1, <2>2
<1> QED BY <1>3, <1>11, <1>12, <1>13

\* A change plan quotes memories that are listed without the sensitive ones, and none
\* that it is told to leave out.
LEMMA PlannedType ==
  ASSUME NEW M, Scored(M), IsFiniteSet(M), NEW project, NEW hits, NEW excluded,
         NEW T, NEW preferred \in Seq(T)
  PROVE  PlannedMemories(M, project, hits, excluded, preferred)
           \subseteq Listed(M, project, FALSE) \ excluded
<1>1. PICK L : L = Listed(M, project, FALSE)  OBVIOUS
<1>2. PICK results : results = PlanSearch(M, project, hits)  OBVIOUS
<1>3. results \in Seq(L)
  <2>1. Search(M, project, hits, FALSE, 8) \in Seq(L)  BY <1>1, SearchType
  <2> QED BY <1>2, <2>1 DEF PlanSearch
<1>4. PICK found : found = Without(results, excluded)  OBVIOUS
<1>5. Items(results) \subseteq L  BY <1>3, SeqOfItems
<1>6. found \in Seq(L) /\ Items(found) = Items(results) \cap (Items(results) \ excluded)
  BY <1>3, <1>4, FilteredItems DEF Without
<1>7. found \in Seq(L \ excluded)
  <2>1. found \in Seq(Items(found))  BY <1>6, SeqOfItems
  <2>2. Items(found) \subseteq L \ excluded  BY <1>5, <1>6
  <2> QED BY <2>1, <2>2, SeqOfSuperset
<1>8. PICK first : first = PreferredFirst(found, preferred)  OBVIOUS
<1>9. Top(first, 5) \in Seq(L \ excluded)  BY <1>7, <1>8, PreferredFirstType, TopType
<1>10. Items(Top(first, 5)) \subseteq L \ excluded  BY <1>9, SeqOfItems
<1>11. PlannedMemories(M, project, hits, excluded, preferred) = Items(Top(first, 5))
  <2>1. Quoted(results, excluded, preferred) = Items(Top(first, 5))  BY <1>4, <1>8 DEF Quoted
  <2>2. PlannedMemories(M, project, hits, excluded, preferred)
          = Quoted(results, excluded, preferred)
    BY <1>2 DEF PlannedMemories, With, Once
  <2> QED BY <2>1, <2>2
<1> QED BY <1>1, <1>10, <1>11

\* A profile lists no sensitive memory.
LEMMA ProfiledType ==
  ASSUME NEW M, NEW project, NEW lean
  PROVE  ProfiledMemories(M, project, lean) \subseteq Listed(M, project, FALSE)
<1>1. PICK L : L = ProfileList(M, project)  OBVIOUS
<1>2. ProfiledMemories(M, project, lean) = MostImportant(L, lean)
  BY <1>1 DEF ProfiledMemories, With, Once
<1>3. MostImportant(L, lean) \subseteq L  BY DEF MostImportant
<1> QED BY <1>1, <1>2, <1>3 DEF ProfileList

-----------------------------------------------------------------------------
(* What is stored *)

\* The plan of a text has facts of it, each with a type or not to be stored.
LEMMA PlanAdmissionType ==
  ASSUME NEW segments \in Seq(Fact), NEW max \in Nat, NEW allowSensitive
  PROVE  PlanAdmission(segments, max, allowSensitive)
           \in Seq({f \in Items(segments) : Has(f, "do_not_store") \/ Text[f].type \in StoredType})
<1>1. PICK facts : facts = Considered(segments)  OBVIOUS
<1>2. PICK kept : kept = FoldOf(KeepNew, 94, <<>>, segments)  OBVIOUS
<1>3. PICK typed : typed = {f \in Fact : Has(f, "do_not_store") \/ Text[f].type # "none"}  OBVIOUS
<1>0. PICK S : S = {f \in Items(segments) : Has(f, "do_not_store") \/ Text[f].type \in StoredType}
  OBVIOUS
<1>4. facts \in Seq(S) /\ facts \in Seq(typed)
  <2>1. segments \in Seq(Items(segments))  BY SeqOfItems
  <2>2. facts \in Seq(Items(segments))  BY <1>1, <2>1, ConsideredType
  <2>3. kept \in Seq(Fact)  BY <1>2, KeptNewType
  <2>4. facts = Filtered(kept, typed)  BY <1>1, <1>2, <1>3 DEF Considered, With, Once
  <2>5. facts \in Seq(Fact) /\ Items(facts) = Items(kept) \cap typed
    BY <2>3, <2>4, FilteredItems
  <2>6. facts \in Seq(Items(facts)) /\ Items(facts) \subseteq typed  BY <2>5, SeqOfItems
  <2>7. facts \in Seq(typed)  BY <2>6, SeqOfSuperset
  <2>8. Items(facts) \subseteq Items(segments)  BY <2>2, SeqOfItems
  <2>9. ASSUME NEW f \in Items(facts) PROVE f \in S
    <3>1. f \in Items(segments) /\ f \in Fact /\ (Has(f, "do_not_store") \/ Text[f].type # "none")
      BY <1>3, <2>6, <2>8
    <3> QED BY <1>0, <3>1, FactType
  <2>10. facts \in Seq(S)  BY <2>6, <2>9, SeqOfSuperset
  <2> QED BY <2>7, <2>10
<1>5. PICK key : key = PlanKey(facts, allowSensitive)  OBVIOUS
<1>6. DOMAIN facts = 1..Len(facts) /\ Len(facts) \in Nat  BY <1>4
<1>7. ASSUME NEW i \in DOMAIN facts PROVE key[i] \in [1..3 -> Int] /\ key[i][3] = 0 - i
  <2> PICK f \in typed : f = facts[i]  BY <1>4
  <2>1. f \in Fact /\ (Has(f, "do_not_store") \/ Text[f].type \in StoredType)
    BY <1>3, AdmissionAssumption
  <2>2. PICK a \in Int : a = ActionRank(Planned(f, allowSensitive))  BY DEF ActionRank, Planned
  <2>3. PICK b \in Int : b = ScoreOf(f)  BY <2>1, FactScores DEF ScoreOf
  <2>4. 0 - i \in Int  BY <1>6
  <2>5. key[i] = <<a, b, 0 - i>>  BY <1>5, <2>2, <2>3 DEF PlanKey
  <2> QED BY <2>4, <2>5
<1>8. key \in [DOMAIN facts -> [1..3 -> Int]]  BY <1>5, <1>7 DEF PlanKey
<1>9. \A i, j \in DOMAIN facts : key[i] = key[j] => i = j
  <2>1. \A i, j \in DOMAIN facts : 0 - i = 0 - j => i = j  BY <1>6
  <2> QED BY <1>7, <2>1
<1>10. PICK planned : planned = Arranged(facts, key)  OBVIOUS
<1>11. planned \in Seq(S)  BY <1>4, <1>8, <1>9, <1>10, ArrangedType
<1>12. Top(planned, max) \in Seq(S)  BY <1>11, TopType
<1>13. PlanAdmission(segments, max, allowSensitive) = Top(planned, max)
  BY <1>1, <1>5, <1>10 DEF PlanAdmission, With, Once
<1> QED BY <1>0, <1>12, <1>13

\* A fact worth a row is one of the request's, and has a type that is stored.
LEMMA WorthyType ==
  ASSUME NEW r, r.request \in TurnRequest
  PROVE  /\ Worthy(r) \in Seq(Fact)
         /\ Items(Worthy(r)) \subseteq Items(r.request.segments)
         /\ \A f \in Items(Worthy(r)) : Text[f].type \in StoredType
<1>1. r.request.segments \in Seq(Fact)  BY DEF TurnRequest
<1>2. PICK max \in Nat : max = MaxCandidates(r)  BY DEF MaxCandidates, TurnRequest
<1>3. PICK segments \in Seq(Fact) : segments = r.request.segments  BY <1>1
<1>4. PICK plan : plan = PlanAdmission(segments, max, AllowsSensitive(r))  OBVIOUS
<1>5. PICK worth : worth = {f \in Fact : TargetOf(r, f) # "skip"}  OBVIOUS
<1>6. Worthy(r) = Filtered(plan, worth)  BY <1>2, <1>3, <1>4, <1>5 DEF Worthy
<1>7. PICK S : S = {f \in Items(segments) : Has(f, "do_not_store") \/ Text[f].type \in StoredType}
  OBVIOUS
<1>8. plan \in Seq(S)  BY <1>4, <1>7, PlanAdmissionType
<1>9. Items(plan) \subseteq S /\ Items(segments) \subseteq Fact  BY <1>8, SeqOfItems
<1>10. Worthy(r) \in Seq(S) /\ Items(Worthy(r)) = Items(plan) \cap worth
  BY <1>6, <1>8, FilteredItems
<1>11. S \subseteq Fact /\ S \subseteq Items(segments)  BY <1>7, <1>9
<1>12. Worthy(r) \in Seq(Fact)  BY <1>10, <1>11, SeqOfSuperset
<1>13. Items(Worthy(r)) \subseteq Items(r.request.segments)  BY <1>3, <1>9, <1>10, <1>11
<1>14. ASSUME NEW f \in Items(Worthy(r)) PROVE Text[f].type \in StoredType
  <2>1. f \in worth /\ f \in S  BY <1>9, <1>10
  <2>2. TargetOf(r, f) # "skip"  BY <1>5, <2>1
  <2>3. Planned(f, AllowsSensitive(r)) # "skip"  BY <2>2 DEF TargetOf, TargetAction
  <2>4. ~Has(f, "do_not_store")  BY <2>3 DEF Planned
  <2> QED BY <1>7, <2>1, <2>4
<1> QED BY <1>12, <1>13, <1>14

-----------------------------------------------------------------------------
(* What is decided *)

\* decide_recall takes one of its actions.
LEMMA DecideRecallType ==
  ASSUME NEW cues, NEW hasProject \in BOOLEAN, NEW maxTokens
  PROVE  DecideRecall(cues, hasProject, maxTokens).action \in RecallAction
<1> PICK cue : cue = FirstCue(cues)  OBVIOUS
<1>1. CASE cue \in {"continue", "memory_question", "overview", "impact", "risky_change", "task_like"}
  <2>1. CASE cue = "continue"  BY <2>1 DEF DecideRecall, Recall, NoRecall, RecallAction
  <2>2. CASE cue = "memory_question"  BY <2>2 DEF DecideRecall, Recall, NoRecall, RecallAction
  <2>3. CASE cue = "overview"  BY <2>3 DEF DecideRecall, Recall, NoRecall, RecallAction
  <2>4. CASE cue = "impact"  BY <2>4 DEF DecideRecall, Recall, NoRecall, RecallAction
  <2>5. CASE cue = "risky_change"  BY <2>5 DEF DecideRecall, Recall, NoRecall, RecallAction
  <2>6. CASE cue = "task_like"  BY <2>6 DEF DecideRecall, Recall, NoRecall, RecallAction
  <2> QED BY <1>1, <2>1, <2>2, <2>3, <2>4, <2>5, <2>6
<1>2. CASE cue \notin {"continue", "memory_question", "overview", "impact", "risky_change", "task_like"}
  BY <1>2 DEF DecideRecall, Recall, NoRecall, RecallAction
<1> QED BY <1>1, <1>2

\* The greatest score of what was retrieved is a number.
LEMMA MaxScoreType ==
  ASSUME NEW S, Scored(S), NEW r, r.retrieved \in Seq(S), r.request \in TurnRequest
  PROVE  MaxScore(r) \in Int
<1>1. PICK intent \in Items(Intent) : intent = IntentOf(r.request)  BY IntentType
<1>2. PICK scores : scores = RoutedScores(r, intent)  OBVIOUS
<1>3. MaxScore(r) = Greatest(scores)
  BY <1>1, <1>2 DEF MaxScore, With, Once
<1>4. IsFiniteSet(Items(r.retrieved))  BY ItemsFinite
<1>5. IsFiniteSet(scores)
  <2>1. PICK f : f = [m \in Items(r.retrieved) |->
                        RoutedScore(m, r.request.project, r.request.hits, intent)]
    OBVIOUS
  <2>2. IsFiniteSet({f[m] : m \in Items(r.retrieved)})  BY <1>4, FiniteImage
  <2>3. scores = {f[m] : m \in Items(r.retrieved)}  BY <1>2, <2>1 DEF RoutedScores
  <2> QED BY <2>2, <2>3
<1>6. scores \subseteq Int
  <2>1. ASSUME NEW m \in Items(r.retrieved)
        PROVE  RoutedScore(m, r.request.project, r.request.hits, intent) \in Int
    <3>1. m \in S  BY SeqOfItems
    <3> QED BY <3>1, RoutedScoreType DEF Scored
  <2> QED BY <1>2, <2>1 DEF RoutedScores
<1>7. CASE scores = {}  BY <1>3, <1>7 DEF Greatest
<1>8. CASE scores # {}
  <2>1. \E x \in scores : \A y \in scores : x >= y  BY <1>5, <1>6, <1>8, GreatestExists
  <2>2. MaxScore(r) \in scores  BY <1>3, <1>8, <2>1 DEF Greatest
  <2> QED BY <1>6, <2>2
<1> QED BY <1>7, <1>8

-----------------------------------------------------------------------------
(* Arbitration *)

\* What each policy says has a number for its confidence, and only the safety policy
\* asks for safe mode: of something sensitive, where the memory is to be read.
LEMMA OpinionsType ==
  ASSUME NEW node, NEW proposed, NEW s, NEW ctx, s.rank \in Int
  PROVE  LET o == Opinions(node, proposed, s, ctx) IN
         /\ DOMAIN o = Policy
         /\ \A p \in Policy : o[p].confidence \in Int
         /\ \A p \in Policy : o[p].safeMode =>
               p = "safety" /\ ctx.sensitive /\ node \in {"should_recall", "skip_memory"}
         /\ o["safety"] = SafetyOpinion(node, proposed, ctx)
<1> PICK cost : cost = Cost(proposed, s)  OBVIOUS
<1>1. Clip(55 + s.rank, 0, 100) \in Int  BY DEF Clip
<1>2. RecallOpinion(node, proposed, s, ctx).confidence \in Int
      /\ RecallOpinion(node, proposed, s, ctx).safeMode = FALSE
  BY <1>1 DEF RecallOpinion, Opinion
<1>3. CompressionOpinion(node, proposed, cost).confidence \in Int
      /\ CompressionOpinion(node, proposed, cost).safeMode = FALSE
  BY DEF CompressionOpinion, Opinion
<1>4. LatencyOpinion(node, proposed, cost).confidence \in Int
      /\ LatencyOpinion(node, proposed, cost).safeMode = FALSE
  BY DEF LatencyOpinion, Opinion
<1>5. CostOpinion(node, proposed, cost).confidence \in Int
      /\ CostOpinion(node, proposed, cost).safeMode = FALSE
  BY DEF CostOpinion, Opinion
<1>6. SafetyOpinion(node, proposed, ctx).confidence \in Int
      /\ (SafetyOpinion(node, proposed, ctx).safeMode =>
             ctx.sensitive /\ node \in {"should_recall", "skip_memory"})
  BY DEF SafetyOpinion, Opinion
<1>7. PICK o : o = Opinions(node, proposed, s, ctx)  OBVIOUS
<1>8. /\ DOMAIN o = Policy
      /\ o["recall"] = RecallOpinion(node, proposed, s, ctx)
      /\ o["compression"] = CompressionOpinion(node, proposed, cost)
      /\ o["latency"] = LatencyOpinion(node, proposed, cost)
      /\ o["safety"] = SafetyOpinion(node, proposed, ctx)
      /\ o["cost"] = CostOpinion(node, proposed, cost)
  BY <1>7 DEF Opinions, Policy
<1> QED BY <1>2, <1>3, <1>4, <1>5, <1>6, <1>7, <1>8 DEF Policy

\* The score that the arbiter gives a decision is an integer.
LEMMA ScoreType ==
  ASSUME NEW d, NEW proposed, NEW opinions, \A p \in Policy : opinions[p].confidence \in Int,
         NEW weights \in [Policy -> Int]
  PROVE  Score(d, proposed, opinions, weights) \in Int
<1> DEFINE Of(p) == IF opinions[p].prefers = d THEN opinions[p].confidence * weights[p] ELSE 0
<1>1. \A p \in Policy : Of(p) \in Int  OBVIOUS
<1>2. Score(d, proposed, opinions, weights)
        = (IF d = proposed THEN 100 ELSE 0) + Of("recall") + Of("compression") + Of("latency")
          + Of("safety") + Of("cost")
  BY DEF Score
<1> HIDE DEF Of
<1>3. /\ Of("recall") \in Int /\ Of("compression") \in Int /\ Of("latency") \in Int
      /\ Of("safety") \in Int /\ Of("cost") \in Int
  BY <1>1 DEF Policy
<1> QED BY <1>2, <1>3

\* Of two or three decisions one is the best.
LEMMA BestAllowed ==
  ASSUME NEW allowed, allowed \in {RecallChoices, InjectChoices, BundleChoices},
         NEW proposed, NEW score \in [DOMAIN allowed -> Int]
  PROVE  Best(allowed, proposed, score) \in Items(allowed)
<1> DEFINE Better(i, j) ==
             \/ score[i] > score[j]
             \/ score[i] = score[j] /\ (allowed[i] = proposed \/ (allowed[j] # proposed /\ i <= j))
<1>1. \E i \in DOMAIN allowed : \A j \in DOMAIN allowed : Better(i, j)
  <2>1. CASE allowed = RecallChoices
    <3>1. DOMAIN allowed = 1..3 /\ allowed[1] # allowed[2] /\ allowed[1] # allowed[3]
            /\ allowed[2] # allowed[3]
      BY <2>1 DEF RecallChoices
    <3> PICK a \in Int, b \in Int, c \in Int : a = score[1] /\ b = score[2] /\ c = score[3]
      BY <3>1
    <3>2. \A j \in 1..3 : j = 1 \/ j = 2 \/ j = 3  OBVIOUS
    <3> QED BY <3>1, <3>2
  <2>2. CASE allowed \in {InjectChoices, BundleChoices}
    <3>1. DOMAIN allowed = 1..2 /\ allowed[1] # allowed[2]
      BY <2>2 DEF InjectChoices, BundleChoices
    <3> PICK a \in Int, b \in Int : a = score[1] /\ b = score[2]  BY <3>1
    <3>2. \A j \in 1..2 : j = 1 \/ j = 2  OBVIOUS
    <3> QED BY <3>1, <3>2
  <2> QED BY <2>1, <2>2
<1> QED BY <1>1 DEF Best, Items

\* The outcome of an arbitration is allowed; a deterministic decision is kept, and
\* what may not be shown is not injected.
LEMMA ArbitrateType ==
  ASSUME NEW node, NEW allowed, NEW proposed \in Items(allowed), NEW s, NEW ctx, s.rank \in Int,
         \/ allowed = RecallChoices /\ node = "should_recall"
         \/ allowed = InjectChoices /\ node = "skip_memory"
         \/ allowed = BundleChoices /\ node = "use_full_bundle",
         NEW weights \in [Policy -> Int], NEW deterministic \in BOOLEAN
  PROVE  LET v == Arbitrate(node, proposed, allowed, s, ctx, weights, deterministic) IN
         /\ v.final \in Items(allowed)
         /\ v.conflicts \in Seq(Resolution)
         /\ deterministic => v.final = proposed
         /\ ~deterministic /\ node = "skip_memory" /\ proposed = "inject" /\ ctx.sensitive =>
               v.final = "skip"
<1>1. PICK o : o = Opinions(node, proposed, s, ctx)  OBVIOUS
<1>2. /\ \A p \in Policy : o[p].confidence \in Int
      /\ \A p \in Policy : o[p].safeMode => ctx.sensitive /\ node \in {"should_recall", "skip_memory"}
      /\ o["safety"] = SafetyOpinion(node, proposed, ctx)
  BY <1>1, OpinionsType
<1>3. PICK v : v = Resolved(proposed, allowed, o, weights, deterministic)  OBVIOUS
<1>4. Arbitrate(node, proposed, allowed, s, ctx, weights, deterministic) = v
  BY <1>1, <1>3 DEF Arbitrate, With, Once
<1>5. PICK scores : scores = [i \in DOMAIN allowed |-> Score(allowed[i], proposed, o, weights)]
  OBVIOUS
<1>6. scores \in [DOMAIN allowed -> Int]  BY <1>2, <1>5, ScoreType
<1>7. Best(allowed, proposed, scores) \in Items(allowed)  BY <1>6, BestAllowed
<1>8. PICK conflict \in BOOLEAN : conflict = \E p, q \in Policy : o[p].prefers # o[q].prefers
  OBVIOUS
<1>9. PICK safe : safe = {p \in Policy : o[p].safeMode}  OBVIOUS
<1>10. With(scores, LAMBDA score : Best(allowed, proposed, score)) = Best(allowed, proposed, scores)
  BY DEF With, Once
<1>11. v.final = IF deterministic THEN proposed ELSE IF safe # {} /\ conflict THEN "skip"
                 ELSE Best(allowed, proposed, scores)
  BY <1>3, <1>5, <1>8, <1>9, <1>10 DEF Resolved
<1>12. v.conflicts = IF conflict
                     THEN <<IF deterministic THEN "deterministic"
                            ELSE IF safe # {} /\ conflict THEN "safe_mode"
                            ELSE "weighted_arbitration">>
                     ELSE <<>>
  BY <1>3, <1>8, <1>9 DEF Resolved
<1>13. v.conflicts \in Seq(Resolution)
  <2>1. PICK resolution \in Resolution :
          resolution = IF deterministic THEN "deterministic"
                       ELSE IF safe # {} /\ conflict THEN "safe_mode" ELSE "weighted_arbitration"
    BY DEF Resolution
  <2>2. v.conflicts = <<resolution>> \/ v.conflicts = <<>>  BY <1>12, <2>1
  <2>3. <<resolution>> \in Seq(Resolution) /\ <<>> \in Seq(Resolution)  OBVIOUS
  <2> QED BY <2>2, <2>3
<1>14. safe # {} => ctx.sensitive /\ allowed # BundleChoices
  BY <1>2, <1>9 DEF BundleChoices, InjectChoices, RecallChoices
<1>15. allowed # BundleChoices => "skip" \in Items(allowed)
  BY DEF InjectChoices, RecallChoices, Items
<1>16. v.final \in Items(allowed)  BY <1>7, <1>11, <1>14, <1>15
<1>17. deterministic => v.final = proposed  BY <1>11
<1>18. ASSUME ~deterministic, node = "skip_memory", proposed = "inject", ctx.sensitive
       PROVE  v.final = "skip"
  <2>1. o["safety"].safeMode /\ o["safety"].prefers = "skip"
    BY <1>2, <1>18 DEF SafetyOpinion, Opinion
  <2>2. o["latency"].prefers = "inject"
    BY <1>1, <1>18 DEF Opinions, LatencyOpinion, Opinion, Policy
  <2>3. "safety" \in Policy /\ "latency" \in Policy  BY DEF Policy
  <2>4. safe # {} /\ conflict  BY <1>8, <1>9, <2>1, <2>2, <2>3
  <2> QED BY <1>11, <1>18, <2>4
<1> QED BY <1>4, <1>13, <1>16, <1>17, <1>18

\* The verdict of a turn is that of the arbiter on what the turn has retrieved.
LEMMA VerdictType ==
  ASSUME NEW S, Scored(S), NEW r, r.retrieved \in Seq(S), r.request \in TurnRequest,
         r.weights \in [Policy -> Int],
         NEW node, NEW allowed, NEW governed \in Items(allowed),
         \/ allowed = RecallChoices /\ node = "should_recall"
         \/ allowed = InjectChoices /\ node = "skip_memory"
         \/ allowed = BundleChoices /\ node = "use_full_bundle",
         NEW deterministic \in BOOLEAN
  PROVE  LET v == Verdict(r, node, governed, allowed, deterministic) IN
         /\ v.final \in Items(allowed)
         /\ v.conflicts \in Seq(Resolution)
         /\ deterministic => v.final = governed
         /\ ~deterministic /\ node = "skip_memory" /\ governed = "inject"
              /\ r.request.includeSensitive /\ ~r.request.allowSensitive => v.final = "skip"
<1>1. PICK s : s = StateOf(r)  OBVIOUS
<1>2. s.rank \in Int  BY <1>1, MaxScoreType DEF StateOf
<1>3. PICK ctx : ctx = PolicyContext(r.request)  OBVIOUS
<1>4. ctx.sensitive = (r.request.includeSensitive /\ ~r.request.allowSensitive)
  BY <1>3 DEF PolicyContext
<1>5. PICK weights \in [Policy -> Int] : weights = r.weights  OBVIOUS
<1>6. PICK v : v = Arbitrate(node, governed, allowed, s, ctx, weights, deterministic)  OBVIOUS
<1>7. Verdict(r, node, governed, allowed, deterministic) = v
  BY <1>1, <1>3, <1>5, <1>6 DEF Verdict, With, Once
<1>8. /\ v.final \in Items(allowed)
      /\ v.conflicts \in Seq(Resolution)
      /\ deterministic => v.final = governed
      /\ ~deterministic /\ node = "skip_memory" /\ governed = "inject" /\ ctx.sensitive =>
            v.final = "skip"
  BY <1>2, <1>6, ArbitrateType
<1> QED BY <1>4, <1>7, <1>8

-----------------------------------------------------------------------------
(* A turn's retrieval and its text *)

\* A retrieval finds memories the request may list.
LEMMA RoutedType ==
  ASSUME Scored(mems), IsFiniteSet(mems), NEW request \in TurnRequest
  PROVE  /\ Routed(request) \in Seq(mems)
         /\ \A m \in Items(Routed(request)) : Has(m[2], "sensitive") => request.includeSensitive
<1>1. PICK L : L = Listed(mems, request.project, request.includeSensitive)  OBVIOUS
<1>2. L \subseteq mems /\ \A m \in L : Has(m[2], "sensitive") => request.includeSensitive
  BY <1>1 DEF Listed
<1>3. PICK k \in Nat : k = request.candidateK  BY DEF TurnRequest
<1>4. PICK found : found = Search(mems, request.project, request.hits, request.includeSensitive, k)
  OBVIOUS
<1>5. found \in Seq(L)  BY <1>1, <1>4, SearchType
<1>6. PICK intent \in Items(Intent) : intent = IntentOf(request)  BY IntentType
<1>7. Routed(request) = Rerank(found, request.project, request.hits, intent)
  BY <1>3, <1>4, <1>6 DEF Routed, With, Once
<1>8. Scored(L)  BY <1>2 DEF Scored
<1>9. Routed(request) \in Seq(L)  BY <1>5, <1>7, <1>8, RerankType
<1>10. Items(Routed(request)) \subseteq L  BY <1>9, SeqOfItems
<1>11. Routed(request) \in Seq(mems)  BY <1>2, <1>9, SeqOfSuperset
<1> QED BY <1>2, <1>10, <1>11

\* What a pack, a bundle, a callback or an auto_context has in its text.
LEMMA PackedOfTurn ==
  ASSUME Scored(mems), IsFiniteSet(mems), NEW r, r.retrieved \in Seq(mems)
  PROVE  /\ Packed(r) \subseteq mems
         /\ \A m \in Packed(r) : ~Has(m[2], "sensitive")
         /\ r.request.op \in {"memory_pack", "context_bundle"} =>
               \A m \in Packed(r) : m \notin r.suppressed
<1> DEFINE Pack(excluded, preferred, compact) ==
             PackedMemories(mems, r.request.project, r.request.hits, excluded, preferred, compact)
<1>1. PICK L : L = Listed(mems, r.request.project, FALSE)  OBVIOUS
<1>2. L \subseteq mems /\ \A m \in L : ~Has(m[2], "sensitive")  BY <1>1 DEF Listed
<1>3. ASSUME NEW excluded, NEW preferred \in Seq(mems), NEW compact
      PROVE  Pack(excluded, preferred, compact) \subseteq L \ excluded
  BY <1>1, PackedType
<1> PICK preferred : preferred = Preferred(r)  OBVIOUS
<1>4. preferred \in Seq(mems) /\ <<>> \in Seq(mems)  BY FilteredItems DEF Preferred, Without
<1> PICK excluded : excluded = Excluded(r)  OBVIOUS
<1>5. r.suppressed \subseteq excluded  BY DEF Excluded
<1>6. CASE r.request.op = "memory_pack"
  <2>1. Packed(r) = Pack(excluded, preferred, r.request.compact)  BY <1>6 DEF Packed
  <2> QED BY <1>2, <1>3, <1>4, <1>5, <2>1
<1>7. CASE r.request.op = "context_bundle"
  <2>1. Packed(r) = Pack(excluded, preferred, BundleOf(r) # "full")  BY <1>7 DEF Packed
  <2> QED BY <1>2, <1>3, <1>4, <1>5, <2>1
<1>8. CASE r.request.op = "context_callback"
  <2>1. Packed(r) = Pack({}, <<>>, r.request.compact)  BY <1>8 DEF Packed
  <2>2. Pack({}, <<>>, r.request.compact) \subseteq L \ {}
    <3> HIDE DEF Pack
    <3> QED BY <1>3, <1>4
  <2> QED BY <1>2, <1>8, <2>1, <2>2
<1>9. CASE r.request.op = "auto_context" /\ PacksMemories(r.decision)
  <2>1. Packed(r) = Pack({}, <<>>, IsCompact(r.decision))  BY <1>9 DEF Packed
  <2>2. Pack({}, <<>>, IsCompact(r.decision)) \subseteq L \ {}
    <3> HIDE DEF Pack
    <3> QED BY <1>3, <1>4
  <2> QED BY <1>2, <1>9, <2>1, <2>2
<1>10. CASE /\ r.request.op \notin {"memory_pack", "context_bundle", "context_callback"}
            /\ ~(r.request.op = "auto_context" /\ PacksMemories(r.decision))
  <2>1. Packed(r) = {}  BY <1>10 DEF Packed
  <2> QED BY <2>1
<1> QED BY <1>6, <1>7, <1>8, <1>9, <1>10

\* What a change plan of the turn quotes: for a bundle nothing that is suppressed.
LEMMA QuotedOfTurn ==
  ASSUME Scored(mems), IsFiniteSet(mems), NEW r, r.retrieved \in Seq(mems)
  PROVE  /\ \A m \in QuotedInPlan(r) : ~Has(m[2], "sensitive")
         /\ r.request.op = "context_bundle" => \A m \in QuotedInPlan(r) : m \notin r.suppressed
         /\ r.request.op = "memory_pack" => QuotedInPlan(r) = {}
<1> DEFINE Plan(excluded, preferred) ==
             PlannedMemories(mems, r.request.project, r.request.hits, excluded, preferred)
<1>1. PICK L : L = Listed(mems, r.request.project, FALSE)  OBVIOUS
<1>2. \A m \in L : ~Has(m[2], "sensitive")  BY <1>1 DEF Listed
<1>3. ASSUME NEW excluded, NEW preferred \in Seq(mems)
      PROVE  Plan(excluded, preferred) \subseteq L \ excluded
  BY <1>1, PlannedType
<1> PICK preferred : preferred = Preferred(r)  OBVIOUS
<1>4. preferred \in Seq(mems) /\ <<>> \in Seq(mems)  BY FilteredItems DEF Preferred, Without
<1> PICK excluded : excluded = Excluded(r)  OBVIOUS
<1>5. r.suppressed \subseteq excluded  BY DEF Excluded
<1>6. CASE r.request.op = "context_bundle" /\ BundleOf(r) # "pack"
  <2>1. QuotedInPlan(r) = Plan(excluded, preferred)  BY <1>6 DEF QuotedInPlan
  <2> QED BY <1>2, <1>3, <1>4, <1>5, <1>6, <2>1
<1>7. CASE r.request.op = "auto_context" /\ PlansChange(r.decision)
  <2>1. QuotedInPlan(r) = Plan({}, <<>>)  BY <1>7 DEF QuotedInPlan
  <2>2. Plan({}, <<>>) \subseteq L \ {}
    <3> HIDE DEF Plan
    <3> QED BY <1>3, <1>4
  <2> QED BY <1>2, <1>7, <2>1, <2>2
<1>8. CASE /\ ~(r.request.op = "context_bundle" /\ BundleOf(r) # "pack")
           /\ ~(r.request.op = "auto_context" /\ PlansChange(r.decision))
  <2>1. QuotedInPlan(r) = {}  BY <1>8 DEF QuotedInPlan
  <2> QED BY <2>1
<1> QED BY <1>6, <1>7, <1>8

\* What a bundle's profile lists: only a bundle and what is answered with one have it.
LEMMA ProfiledOfTurn ==
  ASSUME NEW r
  PROVE  /\ \A m \in Profiled(r) : ~Has(m[2], "sensitive")
         /\ r.request.op = "memory_pack" => Profiled(r) = {}
<1>1. Profiled(r) \subseteq Listed(mems, r.request.project, FALSE)
  BY ProfiledType DEF Profiled
<1>2. r.request.op = "memory_pack" => Profiled(r) = {}  BY DEF Profiled, BundleOf
<1> QED BY <1>1, <1>2 DEF Listed

\* What a turn selects it has retrieved, unless it explains one memory; none of it
\* is suppressed.
LEMMA SelectedType ==
  ASSUME NEW S, NEW r, r.retrieved \in Seq(S), r.request \in TurnRequest, NEW named
  PROVE  /\ Selected(r, named) \in Seq(S)
         /\ Items(Selected(r, named)) \subseteq Items(r.retrieved) \ r.suppressed
<1>1. PICK free : free = Items(r.retrieved) \ r.suppressed  OBVIOUS
<1>2. PICK k \in Nat : k = r.request.selectedK  BY DEF TurnRequest
<1>3. PICK chosen : chosen = Filtered(r.retrieved, free \cap named)  OBVIOUS
<1>4. PICK first : first = Filtered(r.retrieved, free)  OBVIOUS
<1>5. Selected(r, named) = IF named # {} THEN chosen ELSE Top(first, k)
  BY <1>1, <1>2, <1>3, <1>4 DEF Selected
<1>6. chosen \in Seq(S) /\ Items(chosen) = Items(r.retrieved) \cap (free \cap named)
  BY <1>3, FilteredItems
<1>7. first \in Seq(S) /\ Items(first) = Items(r.retrieved) \cap free  BY <1>4, FilteredItems
<1>8. first \in Seq(Items(first))  BY <1>7, SeqOfItems
<1>9. Top(first, k) \in Seq(S) /\ Top(first, k) \in Seq(Items(first))  BY <1>7, <1>8, TopType
<1>10. Items(Top(first, k)) \subseteq Items(first)  BY <1>9, SeqOfItems
<1>11. CASE named # {}  BY <1>1, <1>5, <1>6, <1>11
<1>12. CASE named = {}  BY <1>1, <1>5, <1>7, <1>9, <1>10, <1>12
<1> QED BY <1>11, <1>12

-----------------------------------------------------------------------------
(* The scheduler's cycle *)

\* A cycle leaves a scheduler's state of its type, and policy weights of theirs, however
\* often it has been run.
LEMMA CycleType ==
  ASSUME NEW s \in SchedulerState, NEW mean \in Int, NEW conflicts \in Seq(Resolution),
         NEW weights \in [Policy -> Int]
  PROVE  LET after == AfterCycle(s, mean, conflicts) IN
         /\ after \in SchedulerState
         /\ Synchronized(weights, after.reward, after.bias) \in [Policy -> Int]
<1>1. SharedReward(mean, conflicts) \in Int  BY DEF SharedReward, Clip
<1>2. LearnConflictResolution(s.bias, conflicts) \in [Resolution -> Int]
  <2>1. ASSUME NEW x \in Resolution
        PROVE  Clip(s.bias[x] + 10 * Cardinality({i \in DOMAIN conflicts : conflicts[i] = x}), 0, 100)
                 \in Int
    <3>1. DOMAIN conflicts = 1..Len(conflicts) /\ Len(conflicts) \in Nat  OBVIOUS
    <3>2. IsFiniteSet(DOMAIN conflicts)  BY <3>1, IntervalSize
    <3> PICK T : T = {i \in DOMAIN conflicts : conflicts[i] = x}  OBVIOUS
    <3>3. IsFiniteSet(T)  BY <3>2, FS_Subset
    <3>4. Cardinality(T) \in Nat  BY <3>3, FS_CardinalityType
    <3>5. s.bias[x] \in Int  BY DEF SchedulerState
    <3> QED BY <3>4, <3>5 DEF Clip
  <2> QED BY <2>1 DEF LearnConflictResolution
<1>3. PICK after : after = AfterCycle(s, mean, conflicts)  OBVIOUS
<1>4. after \in SchedulerState  BY <1>1, <1>2, <1>3 DEF AfterCycle, SchedulerState
<1>5. ASSUME NEW p \in Policy
      PROVE  Clip(weights[p] + WeightDelta(p, after.reward, after.bias), 10, 300) \in Int
  <2> PICK reward \in Int, bias \in [Resolution -> Int] : reward = after.reward /\ bias = after.bias
    BY <1>4 DEF SchedulerState
  <2>1. WeightDelta(p, reward, bias) \in Int  BY DEF WeightDelta, Clip
  <2> QED BY <2>1 DEF Clip
<1>6. Synchronized(weights, after.reward, after.bias) \in [Policy -> Int]  BY <1>5 DEF Synchronized
<1> QED BY <1>3, <1>4, <1>6

-----------------------------------------------------------------------------
(* The graph *)

\* An edge is what the graph has for its node and decision.
LEMMA EdgeIs ==
  ASSUME NEW e \in Edge
  PROVE  <<e[1], e[2]>> \in Event /\ NextNode(<<e[1], e[2]>>) = e[3]
<1>1. PICK event : event = <<e[1], e[2]>>  OBVIOUS
<1>2. \A f \in Edge : f[1] = e[1] /\ f[2] = e[2] => f[3] = e[3]  BY DEF Edge
<1>3. \A f \in Edge : <<f[1], f[2]>> = event => f[3] = e[3]  BY <1>1, <1>2
<1>4. \E f \in Edge : <<f[1], f[2]>> = event  BY <1>1
<1>5. event \in {<<f[1], f[2]>> : f \in Edge}  BY <1>4
<1>6. PICK D : D = {<<f[1], f[2]>> : f \in Edge}  OBVIOUS
<1>7. PICK g : g = (CHOOSE f \in Edge : <<f[1], f[2]>> = event)  OBVIOUS
<1>8. g[3] = e[3]  BY <1>3, <1>4, <1>7
<1>9. EdgeIndex[event] = g[3]  BY <1>5, <1>7 DEF EdgeIndex
<1>10. event \in DOMAIN EdgeIndex  BY <1>5 DEF EdgeIndex
<1> QED BY <1>1, <1>8, <1>9, <1>10 DEF Event, NextNode

\* should_recall decides one of its choices.
LEMMA RecallEvents ==
  ASSUME NEW event \in Event
  PROVE  event[1] = "should_recall" => event[2] \in Items(RecallChoices)
<1>1. event \in {<<e[1], e[2]>> : e \in Edge}  BY DEF Event, EdgeIndex
<1>2. PICK e \in Edge : event[1] = e[1] /\ event[2] = e[2]  BY <1>1
<1>3. e[1] = "should_recall" => e[2] \in {"recall", "skip", "writeback_only"}  BY DEF Edge
<1>4. Items(RecallChoices) = {"recall", "skip", "writeback_only"}  BY DEF RecallChoices, Items
<1> QED BY <1>2, <1>3, <1>4

-----------------------------------------------------------------------------
(* What a turn keeps while its record goes through a handler *)

\* The two records differ in no other field.
Same(r, s, fields) ==
    /\ DOMAIN r = ClientField /\ DOMAIN s = ClientField
    /\ \A f \in ClientField \ fields : s[f] = r[f]

\* What holds of it wherever the turn is.
Core(c, r) ==
    Typed(r) /\ r.pc # "closed" /\ r.request \in Requests[c] /\ Walk(r.trace) /\ UpToDate(r)

\* The log that an engine shares with the last save is in its engine alone.
LEMMA SameUpToDate ==
  ASSUME NEW r, NEW s, UpToDate(r), r.pc # "closed",
         s.engine = r.engine, s.loaded = r.loaded, s.sound = r.sound, s.seen = r.seen
  PROVE  UpToDate(s)
BY DEF UpToDate

\* An engine that keeps its log stays up to date.
LEMMA KeptUpToDate ==
  ASSUME NEW r, NEW s, UpToDate(r), r.pc # "closed", Sound(r.engine), Sound(s.engine),
         Sound(log.last), LogKept(r.engine, s.engine), r.loaded \in Nat,
         s.loaded = r.loaded, s.sound = r.sound, s.seen = r.seen
  PROVE  UpToDate(s)
<1>1. /\ Len(r.engine.versions) \in Nat /\ Len(s.engine.versions) \in Nat
      /\ Len(log.last.versions) \in Nat
      /\ DOMAIN r.engine.versions = 1..Len(r.engine.versions)
      /\ DOMAIN s.engine.versions = 1..Len(s.engine.versions)
      /\ DOMAIN log.last.versions = 1..Len(log.last.versions)
  BY VersionType DEF Sound
<1>2. /\ Len(r.engine.versions) <= Len(s.engine.versions)
      /\ \A i \in DOMAIN r.engine.versions :
            /\ SameVersion(r.engine.versions[i], s.engine.versions[i], r.engine.versions[i].after.live)
            /\ s.engine.versions[i].after.live => r.engine.versions[i].after.live
  BY DEF LogKept
<1>3. /\ r.loaded <= Len(r.engine.versions)
      /\ \A i \in DOMAIN r.engine.versions : i <= r.loaded => ~r.engine.versions[i].after.live
      /\ r.sound /\ r.seen = log.saves => ExtendsLog(log.last, r.engine, r.loaded)
  BY DEF UpToDate
<1>4. ASSUME NEW i \in DOMAIN s.engine.versions, i <= s.loaded
      PROVE  ~s.engine.versions[i].after.live
  <2>1. i \in DOMAIN r.engine.versions  BY <1>1, <1>3, <1>4
  <2> QED BY <1>2, <1>3, <1>4, <2>1
<1>5. ASSUME ExtendsLog(log.last, r.engine, r.loaded)
      PROVE  ExtendsLog(log.last, s.engine, r.loaded)
  <2>1. Len(log.last.versions) <= Len(r.engine.versions)  BY <1>5 DEF ExtendsLog
  <2>2. ASSUME NEW i \in DOMAIN log.last.versions
        PROVE  SameVersion(log.last.versions[i], s.engine.versions[i], i > r.loaded)
    <3>1. i \in DOMAIN r.engine.versions  BY <1>1, <2>1
    <3>2. SameVersion(log.last.versions[i], r.engine.versions[i], i > r.loaded)
      BY <1>5 DEF ExtendsLog
    <3>3. i > r.loaded \/ ~r.engine.versions[i].after.live  BY <1>1, <1>3, <3>1
    <3>4. SameVersion(r.engine.versions[i], s.engine.versions[i], r.engine.versions[i].after.live)
      BY <1>2, <3>1
    <3> QED BY <3>2, <3>3, <3>4 DEF SameVersion
  <2>3. Len(log.last.versions) <= Len(s.engine.versions)  BY <1>1, <1>2, <2>1
  <2> QED BY <2>2, <2>3 DEF ExtendsLog
<1>6. r.loaded <= Len(s.engine.versions)  BY <1>1, <1>2, <1>3
<1> QED BY <1>3, <1>4, <1>5, <1>6 DEF UpToDate

\* What a client asks is a request about one of the projects.
LEMMA RequestType ==
  ASSUME NEW c \in Client, NEW request \in Requests[c]
  PROVE  request \in TurnRequest /\ request.project \in Project
<1>1. request \in TurnRequest  BY TurnAssumption
<1> QED BY <1>1 DEF TurnRequest

\* An event joins the trace, if the last one leads to its node.
LEMMA TracedCore ==
  ASSUME NEW c \in Client, NEW r, Core(c, r), Sound(log.last), NEW node, NEW decision,
         <<node, decision>> \in Event,
         r.trace = <<>> \/ Goes(r.trace[Len(r.trace)], <<node, decision>>)
  PROVE  LET s == Traced(r, node, decision) IN
         /\ Core(c, s)
         /\ Same(r, s, {"trace", "engine"})
         /\ s.trace = Append(r.trace, <<node, decision>>)
         /\ EndsIn(s.trace, {<<node, decision>>})
<1>1. PICK event \in Event : event = <<node, decision>>  OBVIOUS
<1>2. PICK s : s = Traced(r, node, decision)  OBVIOUS
<1>3. /\ Typed(r) /\ r.pc # "closed" /\ r.request \in Requests[c] /\ Walk(r.trace) /\ UpToDate(r)
      /\ DOMAIN r = ClientField /\ r.trace \in Seq(Event) /\ Sound(r.engine)
  BY DEF Core, Typed
<1>4. /\ Same(r, s, {"trace", "engine"})
      /\ s.trace = Append(r.trace, event)
      /\ s.engine = RecordDecision(r.engine, r.request.project, event)
  BY <1>1, <1>2, <1>3 DEF Traced, Same, ClientField
<1>5. Sound(s.engine) /\ LogKept(r.engine, s.engine)
  <2>1. r.request.project \in Project  BY <1>3, RequestType
  <2>2. event[1] = "should_recall" => event[2] \in Items(RecallChoices)  BY RecallEvents
  <2>3. r.engine \in PolicyState /\ SumsUp(r.engine)  BY <1>3 DEF Sound
  <2>4. Grown(r.engine, RecordDecision(r.engine, r.request.project, event))
    BY <2>1, <2>2, <2>3, RecordGrows
  <2> QED BY <1>3, <1>4, <2>4, GrownSound
<1>6. /\ \A f \in ClientField \ {"trace", "engine"} : s[f] = r[f]
      /\ s.pc = r.pc /\ s.request = r.request /\ s.scheduler = r.scheduler
      /\ s.weights = r.weights /\ s.decision = r.decision /\ s.retrieved = r.retrieved
      /\ s.selected = r.selected /\ s.conflicts = r.conflicts /\ s.plan = r.plan
      /\ s.seen = r.seen /\ s.sound = r.sound /\ s.loaded = r.loaded /\ DOMAIN s = ClientField
  BY <1>4 DEF Same, ClientField
<1>7. r.loaded \in Nat  BY <1>3 DEF Typed
<1>8. UpToDate(s)  BY <1>3, <1>5, <1>6, <1>7, KeptUpToDate
<1>9. s.trace \in Seq(Event)  BY <1>3, <1>4
<1>10. /\ Len(s.trace) = Len(r.trace) + 1 /\ Len(r.trace) \in Nat
       /\ s.trace[Len(s.trace)] = event
       /\ \A i \in 1..Len(r.trace) : s.trace[i] = r.trace[i]
  BY <1>3, <1>4
<1>11. Walk(s.trace)
  <2> SUFFICES ASSUME NEW i \in 1..(Len(s.trace) - 1) PROVE Goes(s.trace[i], s.trace[i + 1])
    BY DEF Walk
  <2>1. CASE i = Len(r.trace)
    <3>1. r.trace # <<>>  BY <1>3, <1>10, <2>1
    <3>2. Goes(r.trace[Len(r.trace)], event)  BY <1>1, <3>1
    <3> QED BY <1>10, <2>1, <3>2
  <2>2. CASE i # Len(r.trace)
    <3>1. i \in 1..(Len(r.trace) - 1) /\ i + 1 \in 1..Len(r.trace)  BY <1>10, <2>2
    <3>2. Goes(r.trace[i], r.trace[i + 1])  BY <1>3, <3>1 DEF Walk
    <3> QED BY <1>10, <3>1, <3>2
  <2> QED BY <2>1, <2>2
<1>12. Typed(s)  BY <1>3, <1>5, <1>6, <1>9 DEF Typed
<1>13. EndsIn(s.trace, {event})
  <2>1. s.trace # <<>>  BY <1>9, <1>10
  <2> QED BY <1>10, <2>1 DEF EndsIn
<1>14. Core(c, s)  BY <1>3, <1>6, <1>8, <1>11, <1>12 DEF Core
<1> QED BY <1>1, <1>2, <1>4, <1>13, <1>14

\* What is heard of a verdict.
LEMMA HeardCore ==
  ASSUME NEW c \in Client, NEW r, Core(c, r), NEW verdict, verdict.conflicts \in Seq(Resolution)
  PROVE  LET s == Heard(r, verdict) IN Core(c, s) /\ Same(r, s, {"conflicts"})
<1>1. PICK s : s = Heard(r, verdict)  OBVIOUS
<1>2. /\ Typed(r) /\ r.pc # "closed" /\ r.request \in Requests[c] /\ Walk(r.trace) /\ UpToDate(r)
      /\ DOMAIN r = ClientField /\ r.conflicts \in Seq(Resolution)
  BY DEF Core, Typed
<1>3. Same(r, s, {"conflicts"}) /\ s.conflicts = r.conflicts \o verdict.conflicts
  BY <1>1, <1>2 DEF Heard, Same, ClientField
<1>4. s.conflicts \in Seq(Resolution)  BY <1>2, <1>3
<1>5. /\ s.pc = r.pc /\ s.request = r.request /\ s.scheduler = r.scheduler /\ s.engine = r.engine
      /\ s.weights = r.weights /\ s.decision = r.decision /\ s.retrieved = r.retrieved
      /\ s.selected = r.selected /\ s.trace = r.trace /\ s.plan = r.plan
      /\ s.seen = r.seen /\ s.sound = r.sound /\ s.loaded = r.loaded /\ DOMAIN s = ClientField
  BY <1>3 DEF Same, ClientField
<1>6. UpToDate(s)  BY <1>2, <1>5, SameUpToDate
<1>7. Typed(s)  BY <1>2, <1>4, <1>5 DEF Typed
<1> QED BY <1>1, <1>2, <1>3, <1>5, <1>6, <1>7 DEF Core

\* Where a turn is, and what it has found and put together, is no part of it.
LEMMA MovedCore ==
  ASSUME NEW c \in Client, NEW r, Core(c, r), NEW s,
         Same(r, s, {"pc", "path", "writeback", "injected", "suppressed", "selected", "retrieved",
                     "plan"}),
         s.pc \in Deciding \cup {"operate"} \cup Storing \cup Finished \cup {r.pc},
         s.selected \in Seq(Memory), s.retrieved \in Seq(mems), s.plan \in Seq(Fact)
  PROVE  Core(c, s)
<1>1. /\ Typed(r) /\ r.pc # "closed" /\ r.request \in Requests[c] /\ Walk(r.trace) /\ UpToDate(r)
      /\ DOMAIN r = ClientField
  BY DEF Core, Typed
<1>2. /\ s.request = r.request /\ s.scheduler = r.scheduler /\ s.engine = r.engine
      /\ s.weights = r.weights /\ s.decision = r.decision /\ s.trace = r.trace
      /\ s.conflicts = r.conflicts
      /\ s.seen = r.seen /\ s.sound = r.sound /\ s.loaded = r.loaded /\ DOMAIN s = ClientField
  BY DEF Same, ClientField
<1>3. UpToDate(s)  BY <1>1, <1>2, SameUpToDate
<1>4. s.pc # "closed"  BY <1>1 DEF Deciding, Storing, Finished
<1>5. Typed(s)  BY <1>1, <1>2 DEF Typed
<1> QED BY <1>1, <1>2, <1>3, <1>4, <1>5 DEF Core

-----------------------------------------------------------------------------
(* One client's step *)

\* The others do not notice what changes neither the memories nor the log.
LEMMA OthersKept ==
  ASSUME NEW d \in Client, Good(d, client[d]), client'[d] = client[d],
         mems' = mems, queue' = queue, log'.saves = log.saves, log'.last = log.last
  PROVE  Good(d, client[d])'
<1>1. Typed(client[d])'  BY DEF Good, Typed
<1>2. Placed(d, client[d])'  BY DEF Good, Placed
<1>3. Walking(client[d])'  BY DEF Good, Walking, Walk, EndsIn, Goes
<1>4. Shielded(client[d])'  BY DEF Good, Shielded
<1>5. Reported(client[d])'  BY DEF Good, Reported
<1>6. Whole(client[d])'  BY DEF Good, Whole, Done, ListedFacts, StoresAsAsked
<1>7. UpToDate(client[d])'  BY DEF Good, UpToDate
<1> QED BY <1>1, <1>2, <1>3, <1>4, <1>5, <1>6, <1>7 DEF Good

\* A step of one client that writes no table and no policy file leaves the others good.
LEMMA MoverKept ==
  ASSUME NEW c \in Client, DOMAIN client = Client, NEW s, Good(c, s), Become(c, s),
         mems' = mems, queue' = queue, log'.saves = log.saves, log'.last = log.last
  PROVE  Good(c, client[c])' /\ DOMAIN client' = Client /\ client'[c] = s
           /\ \A d \in Client \ {c} : client'[d] = client[d]
<1>0. client'[c] = s /\ DOMAIN client' = Client /\ \A d \in Client \ {c} : client'[d] = client[d]
  BY DEF Become
<1>1. Typed(client[c])'  BY <1>0 DEF Good, Typed
<1>2. Placed(c, client[c])'  BY <1>0 DEF Good, Placed
<1>3. Walking(client[c])'  BY <1>0 DEF Good, Walking, Walk, EndsIn, Goes
<1>4. Shielded(client[c])'  BY <1>0 DEF Good, Shielded
<1>5. Reported(client[c])'  BY <1>0 DEF Good, Reported
<1>6. Whole(client[c])'  BY <1>0 DEF Good, Whole, Done, ListedFacts, StoresAsAsked
<1>7. UpToDate(client[c])'  BY <1>0 DEF Good, UpToDate
<1> QED BY <1>0, <1>1, <1>2, <1>3, <1>4, <1>5, <1>6, <1>7 DEF Good

\* A client that does not store clashes with nothing.
LEMMA ApartKept ==
  ASSUME NEW c \in Client, DOMAIN client = Client, NEW s, Become(c, s), s.pc # "store",
         mems' = mems, log'.overlapped = log.overlapped, Apart
  PROVE  Apart'
<1>1. client'[c] = s /\ \A d \in Client \ {c} : client'[d] = client[d]  BY DEF Become
<1>2. ASSUME NEW d \in Client, At(d, "store")' PROVE At(d, "store") /\ client'[d] = client[d]
  BY <1>1, <1>2 DEF At
<1> QED BY <1>2 DEF Apart

\* A step that writes no file keeps what is known of them.
LEMMA FilesKept ==
  ASSUME FilesTyped, UNCHANGED <<policyFile, schedulerFile, log>>
  PROVE  FilesTyped'
BY DEF FilesTyped

\* A step of a turn that stores nothing keeps the invariant if its client stays good:
\* the plans of the others, and what they found stored, are as they were.
LEMMA Moved ==
  ASSUME IInv, NEW c \in Client, NEW s, Become(c, s), Good(c, s), s.pc # "store",
         UNCHANGED <<mems, queue, log>>, FilesTyped', Bounded'
  PROVE  IInv'
<1>1. /\ MemoriesTyped /\ DOMAIN client = Client /\ \A d \in Client : Good(d, client[d])
      /\ Apart
  BY DEF IInv
<1>2. MemoriesTyped'  BY <1>1 DEF MemoriesTyped
<1>3. Good(c, client[c])' /\ DOMAIN client' = Client
      /\ \A d \in Client \ {c} : client'[d] = client[d]
  BY <1>1, MoverKept
<1>4. \A d \in Client : Good(d, client[d])'
  <2> SUFFICES ASSUME NEW d \in Client PROVE Good(d, client[d])'  OBVIOUS
  <2>1. CASE d = c  BY <1>3, <2>1
  <2>2. CASE d # c
    <3>1. client'[d] = client[d] /\ Good(d, client[d])  BY <1>1, <1>3, <2>2
    <3> QED BY <3>1, OthersKept
  <2> QED BY <2>1, <2>2
<1>5. Apart'  BY <1>1, ApartKept
<1> QED BY <1>2, <1>3, <1>4, <1>5 DEF IInv

-----------------------------------------------------------------------------
(* Handlers that several steps end in *)

\* _finish, after an operation that has not stored for itself.
LEMMA FinishingGood ==
  ASSUME NEW c \in Client, NEW r, Core(c, r), r.path \in {"cached", "execute", "fallback"},
         ~StoresAsAsked(r),
         EndsIn(r.trace, IF r.path = "fallback" THEN {<<"fallback_lightweight", "fallback">>}
                         ELSE BeforeExecute),
         \A e \in r.injected : Has(e[2][2], "sensitive") => r.request.allowSensitive,
         r.path = "execute" /\ r.request.op \in {"memory_pack", "context_bundle", "memory_search"} =>
           \A e \in r.injected :
              e[2] \in Items(r.retrieved)
                  /\ Suppressed(Text[e[2][2]].marks, IntentOf(r.request)) =>
                e[1] = "profile" /\ r.request.op = "context_bundle"
  PROVE  LET s == Finishing(r) IN
         Good(c, s) /\ s.pc \in {"list", "complete"} /\ Same(r, s, {"pc", "writeback"})
<1>1. PICK s : s = Finishing(r)  OBVIOUS
<1>2. DOMAIN r = ClientField /\ r.selected \in Seq(Memory) /\ r.retrieved \in Seq(mems)
      /\ r.plan \in Seq(Fact)
  BY DEF Core, Typed
<1>3. /\ Same(r, s, {"pc", "writeback"})
      /\ \/ s.pc = "list" /\ s.writeback = "write"
         \/ s.pc = "complete" /\ s.writeback \in {"skipped", "preview"}
              /\ ~(r.request.writeback /\ r.request.mode = "write")
  BY <1>1, <1>2 DEF Finishing, Same, ClientField
<1>4. /\ s.request = r.request /\ s.path = r.path /\ s.trace = r.trace /\ s.injected = r.injected
      /\ s.retrieved = r.retrieved /\ s.selected = r.selected /\ s.plan = r.plan
  BY <1>3 DEF Same, ClientField
<1>5. Core(c, s)
  <2>1. Same(r, s, {"pc", "path", "writeback", "injected", "suppressed", "selected", "retrieved",
                    "plan"})
    BY <1>3 DEF Same
  <2>2. s.pc \in Storing \cup Finished  BY <1>3 DEF Storing, Finished
  <2> QED BY <1>2, <1>4, <2>1, <2>2, MovedCore
<1>6. Typed(s) /\ UpToDate(s) /\ s.request \in Requests[c] /\ Walk(s.trace)  BY <1>5 DEF Core
<1>7. Placed(c, s)  BY <1>3, <1>4, <1>6 DEF Placed, Idle, Deciding, Storing
<1>8. Walking(s)
  <2>1. s.pc \in {"list", "complete"}  BY <1>3
  <2> QED BY <1>4, <1>6, <2>1 DEF Walking
<1>9. Shielded(s)  BY <1>3, <1>4 DEF Shielded, Idle, Deciding, Storing
<1>10. Reported(s)  BY <1>3, <1>4 DEF Reported, Storing
<1>11. Whole(s)
  <2>1. ~StoresAsAsked(s)  BY <1>4 DEF StoresAsAsked
  <2> QED BY <1>3, <1>4, <2>1 DEF Whole, Finished
<1> QED BY <1>1, <1>3, <1>6, <1>7, <1>8, <1>9, <1>10, <1>11 DEF Good

\* _run_graph_fallback, from where the graph leads to it.
LEMMA FallingBackGood ==
  ASSUME NEW c \in Client, NEW r, Core(c, r), Sound(log.last), r.trace # <<>>,
         NextNode(r.trace[Len(r.trace)]) = "fallback_lightweight"
  PROVE  LET s == FallingBack(r) IN
         Good(c, s) /\ s.pc \in {"list", "complete"} /\ s.path = "fallback"
<1>1. DOMAIN r = ClientField /\ r.retrieved \in Seq(mems) /\ r.plan \in Seq(Fact)
  BY DEF Core, Typed
<1>2. PICK bare : bare = [r EXCEPT !.selected = <<>>]  OBVIOUS
<1>3. Same(r, bare, {"selected"}) /\ bare.selected = <<>>  BY <1>1, <1>2 DEF Same, ClientField
<1>4. /\ bare.pc = r.pc /\ bare.retrieved = r.retrieved /\ bare.plan = r.plan
      /\ bare.trace = r.trace
  BY <1>3 DEF Same, ClientField
<1>5. Core(c, bare)
  <2>1. Same(r, bare, {"pc", "path", "writeback", "injected", "suppressed", "selected", "retrieved",
                       "plan"})
    BY <1>3 DEF Same
  <2>2. bare.selected \in Seq(Memory)  BY <1>3
  <2> QED BY <1>1, <1>4, <2>1, <2>2, MovedCore
<1>6. <<"fallback_lightweight", "fallback">> \in Event
  <2>1. <<"fallback_lightweight", "fallback", "writeback">> \in Edge  BY DEF Edge
  <2> PICK e \in Edge : e = <<"fallback_lightweight", "fallback", "writeback">>  BY <2>1
  <2>2. <<e[1], e[2]>> \in Event  BY EdgeIs
  <2> QED BY <2>2
<1>7. PICK traced : traced = Traced(bare, "fallback_lightweight", "fallback")  OBVIOUS
<1>8. Goes(bare.trace[Len(bare.trace)], <<"fallback_lightweight", "fallback">>)
  BY <1>4 DEF Goes
<1>9. /\ Core(c, traced) /\ Same(bare, traced, {"trace", "engine"})
      /\ EndsIn(traced.trace, {<<"fallback_lightweight", "fallback">>})
  BY <1>5, <1>6, <1>7, <1>8, TracedCore
<1>10. PICK t : t = [traced EXCEPT !.path = "fallback", !.injected = {}]  OBVIOUS
<1>11. DOMAIN traced = ClientField /\ traced.selected \in Seq(Memory)
       /\ traced.retrieved \in Seq(mems) /\ traced.plan \in Seq(Fact)
  BY <1>9 DEF Core, Typed
<1>12. Same(traced, t, {"path", "injected"}) /\ t.path = "fallback" /\ t.injected = {}
  BY <1>10, <1>11 DEF Same, ClientField
<1>13. /\ t.pc = traced.pc /\ t.selected = traced.selected /\ t.retrieved = traced.retrieved
       /\ t.plan = traced.plan /\ t.trace = traced.trace
  BY <1>12 DEF Same, ClientField
<1>14. Core(c, t)
  <2>1. Same(traced, t, {"pc", "path", "writeback", "injected", "suppressed", "selected",
                         "retrieved", "plan"})
    BY <1>12 DEF Same
  <2> QED BY <1>9, <1>11, <1>13, <2>1, MovedCore
<1>15. ~StoresAsAsked(t)  BY <1>12 DEF StoresAsAsked
<1>16. PICK s : s = Finishing(t)  OBVIOUS
<1>17. Good(c, s) /\ s.pc \in {"list", "complete"} /\ Same(t, s, {"pc", "writeback"})
  BY <1>9, <1>12, <1>13, <1>14, <1>15, <1>16, FinishingGood
<1>18. s.path = "fallback"  BY <1>12, <1>17 DEF Same, ClientField
<1>19. FallingBack(r) = s  BY <1>2, <1>7, <1>10, <1>16 DEF FallingBack
<1> QED BY <1>17, <1>18, <1>19

\* What holds of every client.
LEMMA Unfolded ==
  ASSUME IInv, NEW c \in Client
  PROVE  /\ Scored(mems) /\ IsFiniteSet(mems) /\ Sound(log.last)
         /\ DOMAIN client = Client
         /\ Good(c, client[c]) /\ Typed(client[c]) /\ Placed(c, client[c])
         /\ Walking(client[c]) /\ Shielded(client[c]) /\ Reported(client[c])
         /\ Whole(client[c]) /\ UpToDate(client[c])
         /\ DOMAIN client[c] = ClientField
         /\ client[c].pc \notin Idle /\ client[c].path # "rollback" => Core(c, client[c])
<1>1. Good(c, client[c]) /\ DOMAIN client = Client /\ MemoriesTyped /\ FilesTyped  BY DEF IInv
<1>2. Scored(mems) /\ IsFiniteSet(mems) /\ Sound(log.last)
  BY <1>1 DEF MemoriesTyped, FilesTyped, Scored
<1>3. /\ Typed(client[c]) /\ Placed(c, client[c])
      /\ Walking(client[c]) /\ Shielded(client[c]) /\ Reported(client[c])
      /\ Whole(client[c]) /\ UpToDate(client[c])
  BY <1>1 DEF Good
<1>4. DOMAIN client[c] = ClientField  BY <1>3 DEF Typed
<1>5. client[c].pc \notin Idle /\ client[c].path # "rollback" => Core(c, client[c])
  BY <1>3 DEF Core, Placed, Idle, Walking
<1> QED BY <1>1, <1>2, <1>3, <1>4, <1>5

\* The edges that a turn takes.
LEMMA TurnEdges ==
  /\ <<"start", "begin">> \in Event
  /\ NextNode(<<"start", "begin">>) = "should_recall"
  /\ \A d \in Items(RecallChoices) : <<"should_recall", d>> \in Event
  /\ NextNode(<<"should_recall", "recall">>) = "use_cache"
  /\ NextNode(<<"should_recall", "skip">>) = "skip_memory"
  /\ <<"use_cache", "hit">> \in Event /\ <<"use_cache", "miss">> \in Event
  /\ NextNode(<<"use_cache", "miss">>) = "rank_memories"
  /\ <<"rank_memories", "ranked">> \in Event /\ <<"rank_memories", "recall_failed">> \in Event
  /\ NextNode(<<"rank_memories", "ranked">>) = "skip_memory"
  /\ NextNode(<<"rank_memories", "recall_failed">>) = "fallback_lightweight"
  /\ \A d \in Items(InjectChoices) : <<"skip_memory", d>> \in Event
  /\ <<"skip_memory", "policy_skip">> \in Event
  /\ NextNode(<<"skip_memory", "inject">>) = "use_full_bundle"
  /\ NextNode(<<"skip_memory", "skip">>) = "fallback_lightweight"
  /\ \A d \in Items(BundleChoices) : <<"use_full_bundle", d>> \in Event
  /\ \A event \in BeforeExecute : NextNode(event) = "execute"
  /\ <<"execute", "executed">> \in Event /\ <<"execute", "recall_failed">> \in Event
  /\ NextNode(<<"execute", "executed">>) = "writeback"
  /\ NextNode(<<"execute", "recall_failed">>) = "fallback_lightweight"
  /\ NextNode(<<"fallback_lightweight", "fallback">>) = "writeback"
  /\ \A d \in {"preview", "write", "skipped"} :
        <<"writeback", d>> \in Event /\ NextNode(<<"writeback", d>>) = "complete"
  /\ <<"complete", "done">> \in Event
<1>1. ASSUME NEW a, NEW b, NEW d, <<a, b, d>> \in Edge
      PROVE  <<a, b>> \in Event /\ NextNode(<<a, b>>) = d
  <2> PICK e \in Edge : e = <<a, b, d>>  BY <1>1
  <2>1. <<e[1], e[2]>> \in Event /\ NextNode(<<e[1], e[2]>>) = e[3]  BY EdgeIs
  <2> QED BY <2>1
<1>2. /\ <<"start", "begin", "should_recall">> \in Edge
      /\ <<"should_recall", "recall", "use_cache">> \in Edge
      /\ <<"should_recall", "skip", "skip_memory">> \in Edge
      /\ <<"should_recall", "writeback_only", "execute">> \in Edge
      /\ <<"use_cache", "hit", "execute">> \in Edge
      /\ <<"use_cache", "miss", "rank_memories">> \in Edge
      /\ <<"rank_memories", "ranked", "skip_memory">> \in Edge
      /\ <<"rank_memories", "recall_failed", "fallback_lightweight">> \in Edge
      /\ <<"skip_memory", "inject", "use_full_bundle">> \in Edge
      /\ <<"skip_memory", "skip", "fallback_lightweight">> \in Edge
      /\ <<"skip_memory", "policy_skip", "execute">> \in Edge
      /\ <<"use_full_bundle", "full", "execute">> \in Edge
      /\ <<"use_full_bundle", "lean", "execute">> \in Edge
      /\ <<"execute", "executed", "writeback">> \in Edge
      /\ <<"execute", "recall_failed", "fallback_lightweight">> \in Edge
      /\ <<"fallback_lightweight", "fallback", "writeback">> \in Edge
      /\ <<"writeback", "preview", "complete">> \in Edge
      /\ <<"writeback", "write", "complete">> \in Edge
      /\ <<"writeback", "skipped", "complete">> \in Edge
      /\ <<"complete", "done", "none">> \in Edge
  BY DEF Edge, None
<1>3. /\ Items(RecallChoices) = {"recall", "skip", "writeback_only"}
      /\ Items(InjectChoices) = {"inject", "skip"} /\ Items(BundleChoices) = {"full", "lean"}
  BY DEF Items, RecallChoices, InjectChoices, BundleChoices
<1>4. \A d \in Items(RecallChoices) : <<"should_recall", d>> \in Event  BY <1>1, <1>2, <1>3
<1>5. \A d \in Items(InjectChoices) : <<"skip_memory", d>> \in Event  BY <1>1, <1>2, <1>3
<1>6. \A d \in Items(BundleChoices) : <<"use_full_bundle", d>> \in Event  BY <1>1, <1>2, <1>3
<1>7. \A event \in BeforeExecute : NextNode(event) = "execute"  BY <1>1, <1>2 DEF BeforeExecute
<1>8. \A d \in {"preview", "write", "skipped"} :
        <<"writeback", d>> \in Event /\ NextNode(<<"writeback", d>>) = "complete"
  BY <1>1, <1>2
<1>9. /\ <<"start", "begin">> \in Event /\ NextNode(<<"start", "begin">>) = "should_recall"
      /\ NextNode(<<"should_recall", "recall">>) = "use_cache"
      /\ NextNode(<<"should_recall", "skip">>) = "skip_memory"
      /\ <<"use_cache", "hit">> \in Event /\ <<"use_cache", "miss">> \in Event
      /\ NextNode(<<"use_cache", "miss">>) = "rank_memories"
  BY <1>1, <1>2
<1>10. /\ <<"rank_memories", "ranked">> \in Event /\ <<"rank_memories", "recall_failed">> \in Event
       /\ NextNode(<<"rank_memories", "ranked">>) = "skip_memory"
       /\ NextNode(<<"rank_memories", "recall_failed">>) = "fallback_lightweight"
       /\ <<"skip_memory", "policy_skip">> \in Event
       /\ NextNode(<<"skip_memory", "inject">>) = "use_full_bundle"
       /\ NextNode(<<"skip_memory", "skip">>) = "fallback_lightweight"
  BY <1>1, <1>2
<1>11. /\ <<"execute", "executed">> \in Event /\ <<"execute", "recall_failed">> \in Event
       /\ NextNode(<<"execute", "executed">>) = "writeback"
       /\ NextNode(<<"execute", "recall_failed">>) = "fallback_lightweight"
       /\ NextNode(<<"fallback_lightweight", "fallback">>) = "writeback"
       /\ <<"complete", "done">> \in Event
  BY <1>1, <1>2
<1> QED BY <1>4, <1>5, <1>6, <1>7, <1>8, <1>9, <1>10, <1>11

\* A turn that is still deciding has touched nothing.
LEMMA DecidingGood ==
  ASSUME NEW c \in Client, NEW s, Core(c, s), s.pc \in Deciding, s.path = "none",
         s.injected = {},
         s.pc = "rank" => EndsIn(s.trace, {<<"use_cache", "miss">>}),
         s.pc = "weigh" => EndsIn(s.trace, {<<"use_cache", "hit">>, <<"rank_memories", "ranked">>}),
         s.pc = "bundle" => EndsIn(s.trace, {<<"skip_memory", "inject">>}),
         s.pc = "execute" => EndsIn(s.trace, BeforeExecute),
         s.pc \in {"bundle", "execute"} /\ s.request.op = "memory_search" =>
            (s.request.includeSensitive => s.request.allowSensitive)
  PROVE  Good(c, s)
<1>1. Typed(s) /\ UpToDate(s) /\ s.request \in Requests[c] /\ Walk(s.trace)  BY DEF Core
<1>2. s.pc \in {"rank", "weigh", "bundle", "execute"}  BY DEF Deciding
<1>3. Placed(c, s)  BY <1>1, <1>2 DEF Placed, Idle, Deciding, Storing
<1>4. Walking(s)  BY <1>1, <1>2 DEF Walking, Storing
<1>5. Shielded(s)  BY <1>2 DEF Shielded, Storing
<1>6. Reported(s)  BY <1>2 DEF Reported, Storing
<1>7. Whole(s)  BY <1>2 DEF Whole, Finished
<1> QED BY <1>1, <1>3, <1>4, <1>5, <1>6, <1>7 DEF Good

\* run_turn begins with an empty trace at the graph's root.
LEMMA BeginStep ==
  ASSUME IInv, NEW c \in Client, NEW request \in Requests[c], Begin(c, request)
  PROVE  IInv'
<1> DEFINE r == client[c]
<1>0. PICK fixed \in BOOLEAN : fixed = (request.op # "auto_context")  OBVIOUS
<1>3. PICK project \in Project : project = request.project /\ request \in TurnRequest
  BY RequestType
<1>1. /\ Scored(mems) /\ Sound(log.last) /\ Typed(r) /\ Placed(c, r) /\ Walking(r) /\ Shielded(r)
      /\ UpToDate(r) /\ DOMAIN r = ClientField
  BY Unfolded
<1>2. r.pc = "ready" /\ r.trace = <<>> /\ r.path = "none" /\ r.injected = {}
  BY <1>1 DEF Begin, At, Placed, Shielded, Idle
<1>4. PICK decision :
         decision = DecideRecall(request.cues, request.project # NoProject, request.maxTokens)
  OBVIOUS
<1>5. decision.action \in RecallAction  BY <1>4, DecideRecallType
<1>6. PICK proposed : proposed = RecallProposed(request.op, decision)  OBVIOUS
<1>7. proposed \in Items(RecallChoices)
  <2>1. Items(RecallChoices) = {"recall", "skip", "writeback_only"}  BY DEF RecallChoices, Items
  <2> QED BY <1>6, <2>1 DEF RecallProposed
<1>8. request.op = "memory_search" => proposed = "recall" /\ fixed
  BY <1>0, <1>6 DEF RecallProposed, RequestsMemory
<1>9. PICK asked : asked = [r EXCEPT !.request = request, !.decision = decision]  OBVIOUS
<1>10. /\ Same(r, asked, {"request", "decision"})
       /\ asked.request = request /\ asked.decision = decision
  BY <1>1, <1>9 DEF Same, ClientField
<1>11. Core(c, asked)
  <2>1. /\ asked.pc = r.pc /\ asked.engine = r.engine /\ asked.scheduler = r.scheduler
        /\ asked.weights = r.weights /\ asked.trace = r.trace /\ asked.retrieved = r.retrieved
        /\ asked.selected = r.selected /\ asked.conflicts = r.conflicts /\ asked.plan = r.plan
        /\ asked.seen = r.seen /\ asked.sound = r.sound /\ asked.loaded = r.loaded
        /\ DOMAIN asked = ClientField
    BY <1>10 DEF Same, ClientField
  <2>2. Typed(asked)  BY <1>1, <1>5, <1>10, <2>1 DEF Typed
  <2>3. UpToDate(asked)  BY <1>1, <1>2, <2>1, SameUpToDate
  <2>4. Walk(asked.trace)  BY <1>1, <2>1 DEF Walking
  <2> QED BY <1>2, <1>10, <2>1, <2>2, <2>3, <2>4 DEF Core
<1>12. asked.trace = <<>> /\ asked.path = "none" /\ asked.injected = {}
  BY <1>2, <1>10 DEF Same, ClientField
<1>13. PICK opened : opened = Traced(asked, "start", "begin")  OBVIOUS
<1>14. /\ Core(c, opened) /\ Same(asked, opened, {"trace", "engine"})
       /\ EndsIn(opened.trace, {<<"start", "begin">>})
  BY <1>1, <1>11, <1>12, <1>13, TurnEdges, TracedCore
<1>15. /\ opened.request = request /\ opened.path = "none" /\ opened.injected = {}
       /\ opened.retrieved \in Seq(mems) /\ opened.weights \in [Policy -> Int]
       /\ opened.engine \in PolicyState
  <2>1. opened.retrieved \in Seq(mems) /\ opened.weights \in [Policy -> Int] /\ Sound(opened.engine)
    BY <1>14 DEF Core, Typed
  <2> QED BY <1>10, <1>12, <1>14, <2>1 DEF Same, ClientField, Sound
<1>16. PICK governed : governed = SelectDecision(opened.engine, project, "should_recall", proposed,
                                                 RecallChoices, fixed)
  OBVIOUS
<1>17. governed \in Items(RecallChoices) /\ (fixed => governed = proposed)
  <2>0. PICK engine \in PolicyState : engine = opened.engine  BY <1>15
  <2>1. /\ SelectDecision(engine, project, "should_recall", proposed, RecallChoices, fixed)
             \in Items(RecallChoices)
        /\ fixed => SelectDecision(engine, project, "should_recall", proposed, RecallChoices, fixed)
                      = proposed
    BY <1>7, SelectAllowed
  <2> QED BY <1>16, <2>0, <2>1
<1>18. PICK verdict : verdict = Verdict(opened, "should_recall", governed, RecallChoices, fixed)
  OBVIOUS
<1>19. /\ verdict.final \in Items(RecallChoices) /\ verdict.conflicts \in Seq(Resolution)
       /\ fixed => verdict.final = governed
  <2>1. opened.request \in TurnRequest  BY <1>3, <1>15
  <2>0. PICK S : S = mems  OBVIOUS
  <2>2. Scored(S) /\ opened.retrieved \in Seq(S) /\ opened.weights \in [Policy -> Int]
    BY <1>1, <1>15, <2>0
  <2>3. LET v == Verdict(opened, "should_recall", governed, RecallChoices, fixed) IN
        /\ v.final \in Items(RecallChoices)
        /\ v.conflicts \in Seq(Resolution)
        /\ fixed => v.final = governed
    BY <1>17, <2>1, <2>2, VerdictType
  <2> QED BY <1>18, <2>3
<1>20. PICK final : final = verdict.final  OBVIOUS
<1>21. final \in {"recall", "skip", "writeback_only"} /\ (request.op = "memory_search" => final = "recall")
  <2>1. Items(RecallChoices) = {"recall", "skip", "writeback_only"}  BY DEF RecallChoices, Items
  <2> QED BY <1>8, <1>17, <1>19, <1>20, <2>1
<1>22. PICK heard : heard = Heard(opened, verdict)  OBVIOUS
<1>23. Core(c, heard) /\ Same(opened, heard, {"conflicts"})  BY <1>14, <1>19, <1>22, HeardCore
<1>24. EndsIn(heard.trace, {<<"start", "begin">>})  BY <1>14, <1>23 DEF Same, ClientField
<1>25. PICK decided : decided = Traced(heard, "should_recall", final)  OBVIOUS
<1>26. /\ Core(c, decided) /\ Same(heard, decided, {"trace", "engine"})
       /\ EndsIn(decided.trace, {<<"should_recall", final>>})
  <2>1. <<"should_recall", final>> \in Event  BY <1>19, <1>20, TurnEdges
  <2>2. Goes(heard.trace[Len(heard.trace)], <<"should_recall", final>>)
    BY <1>24, TurnEdges DEF EndsIn, Goes
  <2> QED BY <1>1, <1>23, <1>25, <2>1, <2>2, TracedCore
<1>27. decided.request = request /\ decided.path = "none" /\ decided.injected = {}
  BY <1>15, <1>23, <1>26 DEF Same, ClientField
<1>28. PICK s : s = Led(decided, final)  OBVIOUS
<1>29. /\ Become(c, s) /\ UNCHANGED <<policyFile, schedulerFile, mems, queue, log>>
       /\ used' = [used EXCEPT !.turns = @ + 1] /\ used.turns < MaxTurns
  <2>1. Begun(r, request, decision) = opened  BY <1>9, <1>13 DEF Begun
  <2>2. Traced(Heard(opened, verdict), "should_recall", verdict.final) = decided
    BY <1>20, <1>22, <1>25
  <2>3. Led(decided, verdict.final) = s  BY <1>20, <1>28
  <2>4. Verdict(opened, "should_recall", governed, RecallChoices, fixed) = verdict  BY <1>18
  <2>5. SelectDecision(opened.engine, request.project, "should_recall", proposed, RecallChoices,
                       fixed) = governed
    BY <1>3, <1>16
  <2> QED BY <1>0, <1>4, <1>6, <2>1, <2>2, <2>3, <2>4, <2>5 DEF Begin, Once
<1>30. ASSUME NEW node, NEW choice, NEW pc \in Deciding, <<node, choice>> \in Event,
              Goes(decided.trace[Len(decided.trace)], <<node, choice>>),
              s = [Traced(decided, node, choice) EXCEPT !.pc = pc]
       PROVE  /\ Core(c, s) /\ s.pc = pc /\ s.path = "none" /\ s.injected = {}
              /\ s.request = request /\ EndsIn(s.trace, {<<node, choice>>})
  <2>1. PICK t : t = Traced(decided, node, choice)  OBVIOUS
  <2>2. /\ Core(c, t) /\ Same(decided, t, {"trace", "engine"}) /\ EndsIn(t.trace, {<<node, choice>>})
    BY <1>1, <1>26, <1>30, <2>1, TracedCore
  <2>3. Same(t, s, {"pc"}) /\ s.pc = pc  BY <1>30, <2>1, <2>2 DEF Same, ClientField
  <2>4. /\ s.selected = t.selected /\ s.retrieved = t.retrieved /\ s.plan = t.plan
        /\ s.trace = t.trace /\ s.path = "none" /\ s.injected = {} /\ s.request = request
    BY <1>27, <2>2, <2>3 DEF Same, ClientField
  <2>5. t.selected \in Seq(Memory) /\ t.retrieved \in Seq(mems) /\ t.plan \in Seq(Fact)
    BY <2>2 DEF Core, Typed
  <2>6. Same(t, s, {"pc", "path", "writeback", "injected", "suppressed", "selected", "retrieved",
                    "plan"})
    BY <2>3 DEF Same
  <2>7. Core(c, s)  BY <2>2, <2>3, <2>4, <2>5, <2>6, MovedCore
  <2> QED BY <2>2, <2>3, <2>4, <2>7
<1>31. Good(c, s) /\ s.pc # "store"
  <2>1. CASE final # "recall"
    <3>1. Goes(decided.trace[Len(decided.trace)], <<"skip_memory", "policy_skip">>)
      BY <1>21, <1>26, <2>1, TurnEdges DEF EndsIn, Goes
    <3>2. s = [Traced(decided, "skip_memory", "policy_skip") EXCEPT !.pc = "execute"]
      BY <1>28, <2>1 DEF Led
    <3>3. "execute" \in Deciding  BY DEF Deciding
    <3>4. /\ Core(c, s) /\ s.pc = "execute" /\ s.path = "none" /\ s.injected = {}
          /\ s.request = request /\ EndsIn(s.trace, {<<"skip_memory", "policy_skip">>})
      BY <1>30, <3>1, <3>2, <3>3, TurnEdges
    <3>5. EndsIn(s.trace, BeforeExecute)  BY <3>4 DEF EndsIn, BeforeExecute
    <3> QED BY <1>21, <2>1, <3>3, <3>4, <3>5, DecidingGood
  <2>2. CASE final = "recall" /\ request.cached
    <3>1. Goes(decided.trace[Len(decided.trace)], <<"use_cache", "hit">>)
      BY <1>26, <2>2, TurnEdges DEF EndsIn, Goes
    <3>2. s = [Traced(decided, "use_cache", "hit") EXCEPT !.pc = "weigh"]
      BY <1>27, <1>28, <2>2 DEF Led
    <3>3. "weigh" \in Deciding  BY DEF Deciding
    <3>4. /\ Core(c, s) /\ s.pc = "weigh" /\ s.path = "none" /\ s.injected = {}
          /\ s.request = request /\ EndsIn(s.trace, {<<"use_cache", "hit">>})
      BY <1>30, <3>1, <3>2, <3>3, TurnEdges
    <3>5. EndsIn(s.trace, {<<"use_cache", "hit">>, <<"rank_memories", "ranked">>})
      BY <3>4 DEF EndsIn
    <3> QED BY <3>3, <3>4, <3>5, DecidingGood
  <2>3. CASE final = "recall" /\ ~request.cached
    <3>1. Goes(decided.trace[Len(decided.trace)], <<"use_cache", "miss">>)
      BY <1>26, <2>3, TurnEdges DEF EndsIn, Goes
    <3>2. s = [Traced(decided, "use_cache", "miss") EXCEPT !.pc = "rank"]
      BY <1>27, <1>28, <2>3 DEF Led
    <3>3. "rank" \in Deciding  BY DEF Deciding
    <3>4. /\ Core(c, s) /\ s.pc = "rank" /\ s.path = "none" /\ s.injected = {}
          /\ s.request = request /\ EndsIn(s.trace, {<<"use_cache", "miss">>})
      BY <1>30, <3>1, <3>2, <3>3, TurnEdges
    <3> QED BY <3>3, <3>4, DecidingGood
  <2>4. request.cached \in BOOLEAN  BY <1>3 DEF TurnRequest
  <2> QED BY <2>1, <2>2, <2>3, <2>4
<1>32. FilesTyped'  BY <1>29, FilesKept DEF IInv
<1>33. Bounded'
  <2>1. Bounded  BY DEF IInv
  <2>2. used.turns \in Nat /\ MaxTurns \in Nat  BY <2>1, TurnAssumption DEF Bounded
  <2> QED BY <1>29, <2>1, <2>2 DEF Bounded
<1> QED BY <1>29, <1>31, <1>32, <1>33, Moved

-----------------------------------------------------------------------------
(* Turns that end, and clients that have none *)

\* What a process starts with has its type.
LEMMA FreshType ==
  /\ FreshScheduler \in SchedulerState
  /\ DefaultWeights \in [Policy -> Int]
  /\ NoRecall.action \in RecallAction
  /\ DOMAIN Closed = ClientField
<1>1. FreshScheduler \in SchedulerState  BY DEF FreshScheduler, SchedulerState
<1>2. DefaultWeights \in [Policy -> Int]
  <2> SUFFICES ASSUME NEW p \in Policy PROVE DefaultWeights[p] \in Int  BY DEF DefaultWeights
  <2>1. DefaultWeights[p] = CASE p = "recall" -> 125 [] p = "compression" -> 85
                              [] p = "latency" -> 70 [] p = "safety" -> 140 [] p = "cost" -> 80
    BY DEF DefaultWeights
  <2>2. CASE p = "recall"  BY <2>1, <2>2
  <2>3. CASE p = "compression"  BY <2>1, <2>3
  <2>4. CASE p = "latency"  BY <2>1, <2>4
  <2>5. CASE p = "safety"  BY <2>1, <2>5
  <2>6. CASE p = "cost"  BY <2>1, <2>6
  <2> QED BY <2>2, <2>3, <2>4, <2>5, <2>6 DEF Policy
<1>3. NoRecall.action \in RecallAction  BY DEF NoRecall, Recall, RecallAction
<1>4. DOMAIN Closed = ClientField  BY DEF Closed, ClientField
<1> QED BY <1>1, <1>2, <1>3, <1>4

\* A client without a turn.
LEMMA IdleGood ==
  ASSUME NEW c \in Client, NEW s, DOMAIN s = ClientField, s.pc \in Idle, Sound(s.engine),
         s.scheduler \in SchedulerState, s.weights \in [Policy -> Int],
         s.trace = <<>>, s.path = "none", s.injected = {}, s.decision.action \in RecallAction,
         s.retrieved = <<>>, s.selected = <<>>, s.conflicts = <<>>, s.plan = <<>>,
         s.seen \in 0..log.saves, s.sound \in BOOLEAN, s.loaded \in Nat, UpToDate(s)
  PROVE  Good(c, s)
<1>1. s.pc \in {"closed", "opening", "ready"}  BY DEF Idle
<1>2. Typed(s)  BY DEF Typed
<1>3. Placed(c, s)  BY <1>1 DEF Placed, Idle, Storing
<1>4. Walking(s)
  <2>1. Len(s.trace) = 0  OBVIOUS
  <2>2. Walk(s.trace)  BY <2>1 DEF Walk
  <2> QED BY <1>1, <2>2 DEF Walking, Storing
<1>5. Shielded(s)  BY <1>1 DEF Shielded, Storing
<1>6. Reported(s)  BY <1>1 DEF Reported, Storing
<1>7. Whole(s)  BY <1>1 DEF Whole, Finished
<1> QED BY <1>2, <1>3, <1>4, <1>5, <1>6, <1>7 DEF Good

\* A process that is not running is good.
LEMMA ClosedGood ==
  ASSUME NEW c \in Client, log.saves \in Nat
  PROVE  Good(c, Closed) /\ Closed.pc = "closed"
<1>1. PICK s : s = Closed  OBVIOUS
<1>2. /\ s.pc = "closed" /\ s.engine = FreshState /\ s.scheduler = FreshScheduler
      /\ s.weights = DefaultWeights /\ s.trace = <<>> /\ s.path = "none"
      /\ s.injected = {} /\ s.decision = NoRecall /\ s.retrieved = <<>>
      /\ s.selected = <<>> /\ s.conflicts = <<>> /\ s.plan = <<>>
      /\ s.seen = 0 /\ s.sound = TRUE /\ s.loaded = 0
  BY <1>1 DEF Closed
<1>3. UpToDate(s)  BY <1>2 DEF UpToDate
<1>4. s.seen \in 0..log.saves  BY <1>2
<1>5. s.pc \in Idle  BY <1>2 DEF Idle
<1>6. DOMAIN s = ClientField  BY <1>1, FreshType
<1>7. Sound(s.engine) /\ s.scheduler \in SchedulerState /\ s.weights \in [Policy -> Int]
      /\ s.decision.action \in RecallAction /\ s.sound \in BOOLEAN /\ s.loaded \in Nat
  <2>1. Sound(s.engine)  BY <1>2, FreshSound
  <2>2. s.scheduler \in SchedulerState  BY <1>2, FreshType
  <2>3. s.weights \in [Policy -> Int]  BY <1>2, FreshType
  <2>4. s.decision.action \in RecallAction  BY <1>2, FreshType
  <2>5. s.sound \in BOOLEAN  BY <1>2, Zenon
  <2>6. s.loaded \in Nat  BY <1>2
  <2> QED BY <2>1, <2>2, <2>3, <2>4, <2>5, <2>6
<1>8. Good(c, s)  BY <1>2, <1>3, <1>4, <1>5, <1>6, <1>7, IdleGood
<1> QED BY <1>1, <1>2, <1>8

\* A session keeps what its orchestrator has learned and seen.
LEMMA EndedGood ==
  ASSUME NEW c \in Client, log.saves \in Nat, NEW r, Sound(r.engine),
         r.scheduler \in SchedulerState, r.weights \in [Policy -> Int],
         r.seen \in 0..log.saves, r.sound \in BOOLEAN, r.loaded \in Nat,
         r.pc # "closed", UpToDate(r)
  PROVE  Good(c, Ended(c, r)) /\ Ended(c, r).pc \in {"closed", "ready"}
<1>1. CASE c \notin Sessions
  <2>1. Ended(c, r) = Closed  BY <1>1 DEF Ended
  <2> QED BY <2>1, ClosedGood
<1>2. CASE c \in Sessions
  <2>1. PICK s : s = Ended(c, r)  OBVIOUS
  <2>2. s = [Closed EXCEPT !.pc = "ready", !.engine = r.engine, !.scheduler = r.scheduler,
                           !.weights = r.weights, !.seen = r.seen, !.sound = r.sound,
                           !.loaded = r.loaded]
    BY <1>2, <2>1 DEF Ended
  <2>3. /\ DOMAIN s = ClientField
        /\ s.pc = "ready" /\ s.engine = r.engine /\ s.scheduler = r.scheduler
        /\ s.weights = r.weights /\ s.seen = r.seen /\ s.sound = r.sound /\ s.loaded = r.loaded
        /\ s.trace = <<>> /\ s.path = "none" /\ s.injected = {} /\ s.decision = NoRecall
        /\ s.retrieved = <<>> /\ s.selected = <<>> /\ s.conflicts = <<>> /\ s.plan = <<>>
    BY <2>2 DEF Closed, ClientField
  <2>4. UpToDate(s)  BY <2>3, SameUpToDate
  <2>5. s.pc \in Idle  BY <2>3 DEF Idle
  <2>6. Good(c, s)  BY <2>3, <2>4, <2>5, FreshType, IdleGood
  <2> QED BY <2>1, <2>3, <2>6
<1> QED BY <1>1, <1>2

\* A turn that raises, wherever it is.
LEMMA RaisedGood ==
  ASSUME IInv, NEW c \in Client, ~At(c, "closed")
  PROVE  Good(c, Raised(c, client[c])) /\ Raised(c, client[c]).pc \in {"closed", "ready"}
<1>1. Typed(client[c]) /\ UpToDate(client[c])  BY Unfolded
<1>2. log.saves \in Nat  BY DEF IInv, FilesTyped
<1>3. PICK r : r = client[c]  OBVIOUS
<1>4. /\ Sound(r.engine) /\ r.scheduler \in SchedulerState /\ r.weights \in [Policy -> Int]
      /\ r.seen \in 0..log.saves /\ r.sound \in BOOLEAN /\ r.loaded \in Nat /\ r.pc # "closed"
      /\ UpToDate(r)
  BY <1>1, <1>3 DEF Typed, At
<1> QED BY <1>2, <1>3, <1>4, EndedGood DEF Raised

\* A failure is counted.
LEMMA FailureBounded ==
  ASSUME IInv, used.failures < MaxFailures, used' = [used EXCEPT !.failures = @ + 1]
  PROVE  Bounded'
<1>1. Bounded  BY DEF IInv
<1>2. used.failures \in Nat /\ MaxFailures \in Nat  BY <1>1, TurnAssumption DEF Bounded
<1> QED BY <1>1, <1>2 DEF Bounded

\* A crash forgets the turn and the engine, and leaves the files and tables.
LEMMA CrashStep ==
  ASSUME IInv, NEW c \in Client, Crash(c)  PROVE IInv'
<1>1. Become(c, Closed) /\ UNCHANGED <<policyFile, schedulerFile, mems, queue, log>>  BY DEF Crash
<1>2. Bounded'  BY FailureBounded DEF Crash
<1>3. log.saves \in Nat  BY DEF IInv, FilesTyped
<1>4. Good(c, Closed) /\ Closed.pc # "store"  BY <1>3, ClosedGood
<1>5. FilesTyped'  BY <1>1, FilesKept DEF IInv
<1> QED BY <1>1, <1>2, <1>4, <1>5, Moved

\* A save that cannot open or fill its file leaves the engine as it is.
LEMMA SaveFailsStep ==
  ASSUME IInv, NEW c \in Client, SaveFails(c)  PROVE IInv'
<1>0. PICK s : s = Raised(c, client[c])  OBVIOUS
<1>1. Become(c, s) /\ UNCHANGED <<policyFile, schedulerFile, mems, queue, log>>
  BY <1>0 DEF SaveFails
<1>2. Bounded'  BY FailureBounded DEF SaveFails
<1>3. Good(c, s) /\ s.pc # "store"
  <2>1. ~At(c, "closed")  BY DEF SaveFails, At
  <2> QED BY <1>0, <2>1, RaisedGood
<1>4. FilesTyped'  BY <1>1, FilesKept DEF IInv
<1> QED BY <1>1, <1>2, <1>3, <1>4, Moved

-----------------------------------------------------------------------------
(* Building an orchestrator *)

\* Opening reads the policy file, or starts afresh where it cannot be read; either way
\* the engine is sound.
LEMMA OpenStep ==
  ASSUME IInv, NEW c \in Client, Open(c)  PROVE IInv'
<1>1. FilesTyped /\ Bounded  BY DEF IInv
<1>2. PICK engine : engine = Loaded(policyFile)  OBVIOUS
<1>3. PICK s : s = [Closed EXCEPT !.pc = "opening", !.engine = engine,
                                  !.loaded = Len(engine.versions),
                                  !.seen = log.saves, !.sound = (policyFile.kind # "broken")]
  OBVIOUS
<1>4. Become(c, s) /\ UNCHANGED <<policyFile, schedulerFile, mems, queue, used, log>>
  BY <1>2, <1>3 DEF Open
<1>5. /\ DOMAIN s = ClientField
      /\ s.pc = "opening" /\ s.engine = engine /\ s.scheduler = FreshScheduler
      /\ s.weights = DefaultWeights /\ s.seen = log.saves /\ s.loaded = Len(engine.versions)
      /\ s.trace = <<>> /\ s.path = "none" /\ s.injected = {} /\ s.decision = NoRecall
      /\ s.retrieved = <<>> /\ s.selected = <<>> /\ s.conflicts = <<>> /\ s.plan = <<>>
  BY <1>3 DEF Closed, ClientField
<1>6. s.sound \in BOOLEAN /\ (s.sound => policyFile.kind = "ok")
  BY <1>1, <1>3 DEF Closed, FilesTyped
<1>7. ASSUME policyFile.kind = "ok" PROVE Sound(engine) /\ UpToDate(s)
  <2>1. engine = log.last /\ Sound(engine)
        /\ \A i \in DOMAIN engine.versions : ~engine.versions[i].after.live
    BY <1>1, <1>2, <1>7 DEF Loaded, FilesTyped
  <2>2. Len(engine.versions) \in Nat  BY <2>1, VersionType DEF Sound
  <2>3. ExtendsLog(log.last, engine, s.loaded)
    BY <2>1, <2>2, SameVersionRefl DEF ExtendsLog
  <2>4. UpToDate(s)  BY <1>5, <2>1, <2>2, <2>3 DEF UpToDate
  <2> QED BY <2>1, <2>4
<1>8. ASSUME policyFile.kind # "ok" PROVE Sound(engine) /\ UpToDate(s)
  <2>1. engine = FreshState /\ Sound(engine)  BY <1>2, <1>8, FreshSound DEF Loaded
  <2>2. engine.versions = <<>> /\ Len(engine.versions) = 0  BY <2>1 DEF FreshState
  <2>3. UpToDate(s)  BY <1>5, <1>6, <1>8, <2>2 DEF UpToDate
  <2> QED BY <2>1, <2>3
<1>9. UpToDate(s) /\ Sound(s.engine) /\ s.loaded \in Nat
  <2>1. Sound(engine) /\ UpToDate(s)  BY <1>7, <1>8
  <2>2. Len(engine.versions) \in Nat  BY <2>1, VersionType DEF Sound
  <2> QED BY <1>5, <2>1, <2>2
<1>10. s.pc \in Idle /\ s.seen \in 0..log.saves  BY <1>1, <1>5 DEF Idle, FilesTyped
<1>11. Good(c, s) /\ s.pc # "store"  BY <1>5, <1>6, <1>9, <1>10, FreshType, IdleGood
<1>12. FilesTyped' /\ Bounded'
  <2>1. FilesTyped'  BY <1>1, <1>4, FilesKept
  <2> QED BY <1>1, <1>4, <2>1 DEF Bounded
<1> QED BY <1>4, <1>11, <1>12, Moved

\* Loading the scheduler's file leaves the policy engine alone.
LEMMA LoadSchedulerStep ==
  ASSUME IInv, NEW c \in Client, LoadScheduler(c)  PROVE IInv'
<1>1. PICK r : r = client[c]  OBVIOUS
<1>2. PICK s : s = [r EXCEPT !.pc = "ready", !.scheduler = schedulerFile]  OBVIOUS
<1>3. Become(c, s) /\ UNCHANGED <<policyFile, schedulerFile, mems, queue, used, log>>
  BY <1>1, <1>2 DEF LoadScheduler
<1>4. Good(c, r) /\ r.pc = "opening" /\ DOMAIN r = ClientField
  BY <1>1, Unfolded DEF LoadScheduler, At
<1>5. Same(r, s, {"pc", "scheduler"}) /\ s.pc = "ready" /\ s.scheduler = schedulerFile
  BY <1>2, <1>4 DEF Same, ClientField
<1>6. /\ s.engine = r.engine /\ s.weights = r.weights /\ s.trace = r.trace /\ s.path = r.path
      /\ s.injected = r.injected /\ s.decision = r.decision /\ s.retrieved = r.retrieved
      /\ s.selected = r.selected /\ s.conflicts = r.conflicts /\ s.plan = r.plan
      /\ s.seen = r.seen /\ s.sound = r.sound /\ s.loaded = r.loaded
      /\ s.suppressed = r.suppressed /\ DOMAIN s = ClientField
  BY <1>5 DEF Same, ClientField
<1>7. schedulerFile \in SchedulerState /\ FilesTyped /\ Bounded  BY DEF IInv, FilesTyped
<1>8. Typed(s)
  <2>1. Typed(r)  BY <1>4 DEF Good
  <2>2. s.pc \in Idle  BY <1>5 DEF Idle
  <2> QED BY <1>5, <1>6, <1>7, <2>1, <2>2 DEF Typed
<1>9. Placed(c, s)  BY <1>4, <1>5, <1>6 DEF Good, Placed, Idle, Deciding, Storing
<1>10. Walking(s)  BY <1>4, <1>5, <1>6 DEF Good, Walking, Storing
<1>11. Shielded(s)  BY <1>4, <1>5, <1>6 DEF Good, Shielded, Storing, Idle
<1>12. Reported(s)  BY <1>5 DEF Reported, Storing
<1>13. Whole(s)  BY <1>5 DEF Whole, Finished
<1>14. UpToDate(s)
  <2>1. UpToDate(r) /\ r.pc # "closed"  BY <1>4 DEF Good
  <2> QED BY <1>6, <2>1, SameUpToDate
<1>15. Good(c, s) /\ s.pc # "store"
  BY <1>5, <1>8, <1>9, <1>10, <1>11, <1>12, <1>13, <1>14 DEF Good
<1>16. FilesTyped' /\ Bounded'
  <2>1. FilesTyped'  BY <1>3, <1>7, FilesKept
  <2> QED BY <1>3, <1>7, <2>1 DEF Bounded
<1> QED BY <1>3, <1>15, <1>16, Moved

-----------------------------------------------------------------------------
(* Decisions *)

\* A turn that is under way, before it learns.
LEMMA UnderWay ==
  ASSUME IInv, NEW c \in Client,
         client[c].pc \in Deciding \cup {"operate"} \cup Storing \cup {"complete", "cycle"}
  PROVE  /\ Core(c, client[c]) /\ Good(c, client[c])
         /\ client[c].request \in TurnRequest /\ client[c].request \in Requests[c]
         /\ client[c].request.project \in Project
         /\ client[c].path # "rollback"
<1>1. Placed(c, client[c]) /\ Good(c, client[c])  BY Unfolded
<1>2. client[c].path # "rollback" /\ client[c].pc \notin Idle
  BY <1>1 DEF Placed, Deciding, Storing, Idle
<1>3. Core(c, client[c]) /\ client[c].request \in Requests[c]  BY <1>1, <1>2, Unfolded DEF Placed
<1> QED BY <1>1, <1>2, <1>3, RequestType

\* An event is traced, and the turn goes on at another place of its decisions.
LEMMA TracedTo ==
  ASSUME NEW c \in Client, NEW r, Core(c, r), Sound(log.last), NEW node, NEW choice,
         <<node, choice>> \in Event, r.trace # <<>>,
         Goes(r.trace[Len(r.trace)], <<node, choice>>),
         NEW t, t = Traced(r, node, choice), NEW s, Same(t, s, {"pc"}), s.pc \in Deciding
  PROVE  /\ Core(c, s) /\ Same(r, s, {"trace", "engine", "pc"})
         /\ EndsIn(s.trace, {<<node, choice>>})
<1>2. /\ Core(c, t) /\ Same(r, t, {"trace", "engine"}) /\ EndsIn(t.trace, {<<node, choice>>})
  BY TracedCore
<1>5. /\ s.selected = t.selected /\ s.retrieved = t.retrieved /\ s.plan = t.plan
      /\ s.trace = t.trace
  BY DEF Same, ClientField
<1>6. t.selected \in Seq(Memory) /\ t.retrieved \in Seq(mems) /\ t.plan \in Seq(Fact)
  BY <1>2 DEF Core, Typed
<1>7. Same(t, s, {"pc", "path", "writeback", "injected", "suppressed", "selected", "retrieved",
                  "plan"})
  BY DEF Same
<1>8. Core(c, s)  BY <1>2, <1>5, <1>6, <1>7, MovedCore
<1>9. Same(r, s, {"trace", "engine", "pc"})  BY <1>2 DEF Same
<1> QED BY <1>2, <1>5, <1>8, <1>9

\* A retrieval, and the report of what it suppresses.
LEMMA RetrievedCore ==
  ASSUME NEW c \in Client, NEW r, Core(c, r), Scored(mems), IsFiniteSet(mems)
  PROVE  LET s == Retrieved(r) IN
         /\ Core(c, s) /\ Same(r, s, {"retrieved", "suppressed"})
         /\ s.suppressed = SuppressedIn(s.retrieved, IntentOf(r.request))
         /\ \A m \in Items(s.retrieved) : Has(m[2], "sensitive") => r.request.includeSensitive
<1>1. PICK found : found = Routed(r.request)  OBVIOUS
<1>2. PICK s : s = [r EXCEPT !.retrieved = found,
                             !.suppressed = SuppressedIn(found, IntentOf(r.request))]
  OBVIOUS
<1>3. Retrieved(r) = s
  <2>1. Retrieved(r) = Reporting(r, found)  BY <1>1 DEF Retrieved, With, Once
  <2> QED BY <1>2, <2>1 DEF Reporting
<1>4. r.request \in TurnRequest /\ DOMAIN r = ClientField /\ r.plan \in Seq(Fact)
      /\ r.selected \in Seq(Memory)
  BY RequestType DEF Core, Typed
<1>5. /\ found \in Seq(mems)
      /\ \A m \in Items(found) : Has(m[2], "sensitive") => r.request.includeSensitive
  BY <1>1, <1>4, RoutedType
<1>6. /\ Same(r, s, {"retrieved", "suppressed"}) /\ s.retrieved = found
      /\ s.suppressed = SuppressedIn(found, IntentOf(r.request))
  BY <1>2, <1>4 DEF Same, ClientField
<1>7. s.pc = r.pc /\ s.selected = r.selected /\ s.plan = r.plan  BY <1>6 DEF Same, ClientField
<1>8. Same(r, s, {"pc", "path", "writeback", "injected", "suppressed", "selected", "retrieved",
                  "plan"})
  BY <1>6 DEF Same
<1>9. Core(c, s)  BY <1>4, <1>5, <1>6, <1>7, <1>8, MovedCore
<1> QED BY <1>3, <1>5, <1>6, <1>9

\* Ranking and the arbitration after it go on along the graph, and a search that the
\* safety policy stops does not go on to show what it includes.
LEMMA RankStep ==
  ASSUME IInv, NEW c \in Client, Rank(c)  PROVE IInv'
<1>1. PICK r : r = client[c]  OBVIOUS
<1>2. PICK t : t = Retrieved(r)  OBVIOUS
<1>3. PICK s : s = [Traced(t, "rank_memories", "ranked") EXCEPT !.pc = "weigh"]  OBVIOUS
<1>4. Become(c, s) /\ UNCHANGED <<policyFile, schedulerFile, mems, queue, used, log>>
  BY <1>1, <1>2, <1>3 DEF Rank
<1>5. r.pc = "rank"  BY <1>1 DEF Rank, At
<1>6. Core(c, r) /\ Good(c, r)  BY <1>1, <1>5, UnderWay DEF Deciding
<1>7. Scored(mems) /\ IsFiniteSet(mems) /\ Sound(log.last)  BY Unfolded
<1>8. EndsIn(r.trace, {<<"use_cache", "miss">>}) /\ r.path = "none" /\ r.injected = {}
  BY <1>5, <1>6 DEF Good, Walking, Placed, Shielded, Deciding
<1>9. Core(c, t) /\ Same(r, t, {"retrieved", "suppressed"})  BY <1>2, <1>6, <1>7, RetrievedCore
<1>10. t.trace = r.trace /\ t.path = "none" /\ t.injected = {}
  BY <1>8, <1>9 DEF Same, ClientField
<1>11. t.trace # <<>> /\ Goes(t.trace[Len(t.trace)], <<"rank_memories", "ranked">>)
  BY <1>8, <1>10, TurnEdges DEF EndsIn, Goes
<1>12. "weigh" \in Deciding  BY DEF Deciding
<1>13. /\ Core(c, s) /\ Same(t, s, {"trace", "engine", "pc"}) /\ s.pc = "weigh"
       /\ EndsIn(s.trace, {<<"rank_memories", "ranked">>})
  <2>1. <<"rank_memories", "ranked">> \in Event  BY TurnEdges
  <2>2. PICK traced : traced = Traced(t, "rank_memories", "ranked")  OBVIOUS
  <2>3. DOMAIN traced = ClientField
    <3>1. Same(t, traced, {"trace", "engine"})  BY <1>7, <1>9, <1>11, <2>1, <2>2, TracedCore
    <3> QED BY <3>1 DEF Same
  <2>4. Same(traced, s, {"pc"}) /\ s.pc = "weigh"  BY <1>3, <2>2, <2>3 DEF Same, ClientField
  <2> QED BY <1>7, <1>9, <1>11, <1>12, <2>1, <2>2, <2>4, TracedTo
<1>14. s.path = "none" /\ s.injected = {}  BY <1>10, <1>13 DEF Same, ClientField
<1>15. EndsIn(s.trace, {<<"use_cache", "hit">>, <<"rank_memories", "ranked">>})
  BY <1>13 DEF EndsIn
<1>16. Good(c, s)  BY <1>12, <1>13, <1>14, <1>15, DecidingGood
<1>17. FilesTyped' /\ Bounded'
  <2>1. FilesTyped'  BY <1>4, FilesKept DEF IInv
  <2> QED BY <1>4, <2>1 DEF IInv, Bounded
<1> QED BY <1>4, <1>13, <1>16, <1>17, Moved

\* skip_memory goes to the bundle, or to execute, along its edge.
LEMMA SkipMemoryStep ==
  ASSUME IInv, NEW c \in Client, SkipMemory(c)  PROVE IInv'
<1>1. PICK r : r = client[c]  OBVIOUS
<1>2. PICK low \in BOOLEAN : low = LowConfidence(r)  BY DEF LowConfidence
<1>3. PICK proposed : proposed = IF low THEN "skip" ELSE "inject"  OBVIOUS
<1>4. PICK t : t = IF low THEN r ELSE [r EXCEPT !.selected = Top(r.retrieved, r.request.selectedK)]
  OBVIOUS
<1>5. PICK verdict : verdict = Verdict(t, "skip_memory", proposed, InjectChoices, low)  OBVIOUS
<1>6. PICK final : final = verdict.final  OBVIOUS
<1>7. PICK heard : heard = Heard(t, verdict)  OBVIOUS
<1>8. PICK decided : decided = Traced(heard, "skip_memory", final)  OBVIOUS
<1>9. PICK s : s = IF final = "skip" THEN FallingBack(decided) ELSE [decided EXCEPT !.pc = "bundle"]
  OBVIOUS
<1>10. Become(c, s) /\ UNCHANGED <<policyFile, schedulerFile, mems, queue, used, log>>
  BY <1>1, <1>2, <1>3, <1>4, <1>5, <1>6, <1>7, <1>8, <1>9 DEF SkipMemory, Once
<1>11. r.pc = "weigh"  BY <1>1 DEF SkipMemory, At
<1>12. Core(c, r) /\ Good(c, r) /\ r.request \in TurnRequest
  BY <1>1, <1>11, UnderWay DEF Deciding
<1>13. Scored(mems) /\ IsFiniteSet(mems) /\ Sound(log.last)  BY Unfolded
<1>14. /\ EndsIn(r.trace, {<<"use_cache", "hit">>, <<"rank_memories", "ranked">>})
       /\ r.path = "none" /\ r.injected = {}
  BY <1>11, <1>12 DEF Good, Walking, Placed, Shielded, Deciding
<1>15. /\ DOMAIN r = ClientField /\ r.retrieved \in Seq(mems) /\ r.selected \in Seq(Memory)
       /\ r.plan \in Seq(Fact)
  BY <1>12 DEF Core, Typed
<1>16. /\ Same(r, t, {"selected"}) /\ t.selected \in Seq(Memory)
  <2>1. CASE low  BY <1>4, <1>15, <2>1 DEF Same
  <2>2. CASE ~low
    <3>1. PICK k \in Nat : k = r.request.selectedK  BY <1>12 DEF TurnRequest
    <3>2. PICK top : top = Top(r.retrieved, k)  OBVIOUS
    <3>3. top \in Seq(mems)  BY <1>15, <3>2, TopType
    <3>4. top \in Seq(Memory)
      <4>1. mems \subseteq Memory  BY <1>13 DEF Scored
      <4> QED BY <3>3, <4>1, SeqOfSuperset
    <3>5. t = [r EXCEPT !.selected = top]  BY <1>4, <2>2, <3>1, <3>2
    <3> QED BY <1>15, <3>4, <3>5 DEF Same, ClientField
  <2> QED BY <2>1, <2>2
<1>17. /\ t.pc = r.pc /\ t.retrieved = r.retrieved /\ t.plan = r.plan /\ t.trace = r.trace
       /\ t.path = r.path /\ t.injected = r.injected /\ t.request = r.request
  BY <1>16 DEF Same, ClientField
<1>18. Core(c, t)
  <2>1. Same(r, t, {"pc", "path", "writeback", "injected", "suppressed", "selected", "retrieved",
                    "plan"})
    BY <1>16 DEF Same
  <2> QED BY <1>12, <1>15, <1>16, <1>17, <2>1, MovedCore
<1>19. proposed \in Items(InjectChoices) /\ Items(InjectChoices) = {"inject", "skip"}
  BY <1>3 DEF InjectChoices, Items
<1>20. /\ final \in {"inject", "skip"} /\ verdict.conflicts \in Seq(Resolution)
       /\ low => final = "skip"
       /\ ~low /\ r.request.includeSensitive /\ ~r.request.allowSensitive => final = "skip"
  <2>1. t.retrieved \in Seq(mems) /\ t.request \in TurnRequest  BY <1>12, <1>15, <1>17
  <2>2. t.weights \in [Policy -> Int]  BY <1>18 DEF Core, Typed
  <2>3. LET v == Verdict(t, "skip_memory", proposed, InjectChoices, low) IN
        /\ v.final \in Items(InjectChoices)
        /\ v.conflicts \in Seq(Resolution)
        /\ low => v.final = proposed
        /\ ~low /\ proposed = "inject" /\ t.request.includeSensitive /\ ~t.request.allowSensitive
             => v.final = "skip"
    BY <1>13, <1>19, <2>1, <2>2, VerdictType
  <2> QED BY <1>3, <1>5, <1>6, <1>17, <1>19, <2>3
<1>21. Core(c, heard) /\ Same(t, heard, {"conflicts"})  BY <1>7, <1>18, <1>20, HeardCore
<1>22. heard.trace = r.trace  BY <1>17, <1>21 DEF Same, ClientField
<1>23. <<"skip_memory", final>> \in Event  BY <1>19, <1>20, TurnEdges
<1>24. Goes(heard.trace[Len(heard.trace)], <<"skip_memory", final>>)
  BY <1>14, <1>22, TurnEdges DEF EndsIn, Goes
<1>25. /\ Core(c, decided) /\ Same(heard, decided, {"trace", "engine"})
       /\ EndsIn(decided.trace, {<<"skip_memory", final>>})
  BY <1>8, <1>13, <1>21, <1>23, <1>24, TracedCore
<1>26. Good(c, s) /\ s.pc # "store"
  <2>1. CASE final = "skip"
    <3>1. decided.trace # <<>> /\ NextNode(decided.trace[Len(decided.trace)]) = "fallback_lightweight"
      BY <1>25, <2>1, TurnEdges DEF EndsIn
    <3> QED BY <1>9, <1>13, <1>25, <2>1, <3>1, FallingBackGood
  <2>2. CASE final # "skip"
    <3>1. s = [decided EXCEPT !.pc = "bundle"]  BY <1>9, <2>2
    <3>2. DOMAIN decided = ClientField /\ decided.selected \in Seq(Memory)
          /\ decided.retrieved \in Seq(mems) /\ decided.plan \in Seq(Fact)
      BY <1>25 DEF Core, Typed
    <3>3. Same(decided, s, {"pc"}) /\ s.pc = "bundle"  BY <3>1, <3>2 DEF Same, ClientField
    <3>4. /\ s.selected = decided.selected /\ s.retrieved = decided.retrieved
          /\ s.plan = decided.plan /\ s.trace = decided.trace
          /\ s.path = "none" /\ s.injected = {} /\ s.request = r.request
      BY <1>14, <1>17, <1>21, <1>25, <3>3 DEF Same, ClientField
    <3>5. Same(decided, s, {"pc", "path", "writeback", "injected", "suppressed", "selected",
                            "retrieved", "plan"})
      BY <3>3 DEF Same
    <3>6. Core(c, s)  BY <1>25, <3>2, <3>3, <3>4, <3>5, MovedCore DEF Deciding
    <3>7. EndsIn(s.trace, {<<"skip_memory", "inject">>})  BY <1>20, <1>25, <2>2, <3>4
    <3>8. s.request.op = "memory_search" =>
            (s.request.includeSensitive => s.request.allowSensitive)
      BY <1>20, <2>2, <3>4
    <3>9. s.pc \in Deciding  BY <3>3 DEF Deciding
    <3> QED BY <3>3, <3>4, <3>6, <3>7, <3>8, <3>9, DecidingGood
  <2> QED BY <2>1, <2>2
<1>27. FilesTyped' /\ Bounded'
  <2>1. FilesTyped'  BY <1>10, FilesKept DEF IInv
  <2> QED BY <1>10, <2>1 DEF IInv, Bounded
<1> QED BY <1>10, <1>26, <1>27, Moved

\* use_full_bundle goes to execute along its edge.
LEMMA UseFullBundleStep ==
  ASSUME IInv, NEW c \in Client, UseFullBundle(c)  PROVE IInv'
<1>1. PICK r : r = client[c]  OBVIOUS
<1>2. PICK proposed : proposed = IF UsesFullBundle(r.request, r.decision) THEN "full" ELSE "lean"
  OBVIOUS
<1>3. PICK governed : governed = SelectDecision(r.engine, r.request.project, "use_full_bundle",
                                                proposed, BundleChoices, FALSE)
  OBVIOUS
<1>4. PICK verdict : verdict = Verdict(r, "use_full_bundle", governed, BundleChoices, FALSE)
  OBVIOUS
<1>5. PICK final : final = verdict.final  OBVIOUS
<1>6. PICK heard : heard = Heard(r, verdict)  OBVIOUS
<1>7. PICK s : s = [Traced(heard, "use_full_bundle", final) EXCEPT !.pc = "execute"]  OBVIOUS
<1>8. Become(c, s) /\ UNCHANGED <<policyFile, schedulerFile, mems, queue, used, log>>
  BY <1>1, <1>2, <1>3, <1>4, <1>5, <1>6, <1>7 DEF UseFullBundle, Once
<1>9. r.pc = "bundle"  BY <1>1 DEF UseFullBundle, At
<1>10. /\ Core(c, r) /\ Good(c, r) /\ r.request \in TurnRequest /\ r.request.project \in Project
  BY <1>1, <1>9, UnderWay DEF Deciding
<1>11. Scored(mems) /\ IsFiniteSet(mems) /\ Sound(log.last)  BY Unfolded
<1>12. /\ EndsIn(r.trace, {<<"skip_memory", "inject">>})
       /\ r.path = "none" /\ r.injected = {}
       /\ r.request.op = "memory_search" =>
             (r.request.includeSensitive => r.request.allowSensitive)
  BY <1>9, <1>10 DEF Good, Walking, Placed, Shielded, Deciding
<1>13. Items(BundleChoices) = {"full", "lean"}  BY DEF BundleChoices, Items
<1>14. governed \in Items(BundleChoices)
  <2>1. proposed \in Items(BundleChoices)  BY <1>2, <1>13
  <2>2. r.engine \in PolicyState  BY <1>10 DEF Core, Typed, Sound
  <2>3. PICK engine \in PolicyState, project \in Project :
           engine = r.engine /\ project = r.request.project
    BY <1>10, <2>2
  <2>4. PICK fixed \in BOOLEAN : fixed = FALSE  OBVIOUS
  <2>5. SelectDecision(engine, project, "use_full_bundle", proposed, BundleChoices, fixed)
          \in Items(BundleChoices)
    BY <2>1, SelectAllowed
  <2> QED BY <1>3, <2>3, <2>4, <2>5
<1>15. final \in Items(BundleChoices) /\ verdict.conflicts \in Seq(Resolution)
  <2>1. r.retrieved \in Seq(mems) /\ r.weights \in [Policy -> Int]  BY <1>10 DEF Core, Typed
  <2>2. PICK fixed \in BOOLEAN : fixed = FALSE  OBVIOUS
  <2>3. LET v == Verdict(r, "use_full_bundle", governed, BundleChoices, fixed) IN
        v.final \in Items(BundleChoices) /\ v.conflicts \in Seq(Resolution)
    BY <1>10, <1>11, <1>14, <2>1, VerdictType
  <2> QED BY <1>4, <1>5, <2>2, <2>3
<1>16. Core(c, heard) /\ Same(r, heard, {"conflicts"})  BY <1>6, <1>10, <1>15, HeardCore
<1>17. /\ heard.trace = r.trace /\ heard.path = "none" /\ heard.injected = {}
       /\ heard.request = r.request
  BY <1>12, <1>16 DEF Same, ClientField
<1>18. <<"use_full_bundle", final>> \in Event  BY <1>15, TurnEdges
<1>19. heard.trace # <<>> /\ Goes(heard.trace[Len(heard.trace)], <<"use_full_bundle", final>>)
  BY <1>12, <1>17, TurnEdges DEF EndsIn, Goes
<1>20. "execute" \in Deciding  BY DEF Deciding
<1>21. /\ Core(c, s) /\ Same(heard, s, {"trace", "engine", "pc"}) /\ s.pc = "execute"
       /\ EndsIn(s.trace, {<<"use_full_bundle", final>>})
  <2>1. PICK traced : traced = Traced(heard, "use_full_bundle", final)  OBVIOUS
  <2>2. DOMAIN traced = ClientField
    <3>1. Same(heard, traced, {"trace", "engine"})
      BY <1>11, <1>16, <1>18, <1>19, <2>1, TracedCore
    <3> QED BY <3>1 DEF Same
  <2>3. Same(traced, s, {"pc"}) /\ s.pc = "execute"  BY <1>7, <2>1, <2>2 DEF Same, ClientField
  <2> QED BY <1>11, <1>16, <1>18, <1>19, <1>20, <2>1, <2>3, TracedTo
<1>22. s.path = "none" /\ s.injected = {} /\ s.request = r.request
  BY <1>17, <1>21 DEF Same, ClientField
<1>23. EndsIn(s.trace, BeforeExecute)  BY <1>13, <1>15, <1>21 DEF EndsIn, BeforeExecute
<1>24. Good(c, s)  BY <1>12, <1>20, <1>21, <1>22, <1>23, DecidingGood
<1>25. FilesTyped' /\ Bounded'
  <2>1. FilesTyped'  BY <1>8, FilesKept DEF IInv
  <2> QED BY <1>8, <2>1 DEF IInv, Bounded
<1> QED BY <1>8, <1>21, <1>24, <1>25, Moved

-----------------------------------------------------------------------------
(* The operation *)

\* What execute retrieves is stored; what a search may not show it does not retrieve.
LEMMA ExecuteStep ==
  ASSUME IInv, NEW c \in Client, Execute(c)  PROVE IInv'
<1>1. PICK r : r = client[c]  OBVIOUS
<1>2. PICK t : t = Retrieved(r)  OBVIOUS
<1>3. PICK s : s = IF r.request.cached THEN Finishing([r EXCEPT !.path = "cached"])
                   ELSE IF Refused(r.request) THEN Raised(c, r)
                   ELSE [t EXCEPT !.pc = "operate", !.path = "execute"]
  OBVIOUS
<1>4. Become(c, s) /\ UNCHANGED <<policyFile, schedulerFile, mems, queue, used, log>>
  BY <1>1, <1>2, <1>3 DEF Execute
<1>5. r.pc = "execute"  BY <1>1 DEF Execute, At
<1>6. /\ Core(c, r) /\ Good(c, r) /\ r.request \in TurnRequest /\ r.request \in Requests[c]
  BY <1>1, <1>5, UnderWay DEF Deciding
<1>7. Scored(mems) /\ IsFiniteSet(mems) /\ Sound(log.last)  BY Unfolded
<1>8. /\ EndsIn(r.trace, BeforeExecute) /\ r.path = "none" /\ r.injected = {}
      /\ r.request.op = "memory_search" =>
            (r.request.includeSensitive => r.request.allowSensitive)
  BY <1>5, <1>6 DEF Good, Walking, Placed, Shielded, Deciding
<1>9. /\ DOMAIN r = ClientField /\ r.retrieved \in Seq(mems) /\ r.selected \in Seq(Memory)
      /\ r.plan \in Seq(Fact)
  BY <1>6 DEF Core, Typed
<1>10. Good(c, s) /\ s.pc # "store"
  <2>1. CASE r.request.cached
    <3>1. PICK u : u = [r EXCEPT !.path = "cached"]  OBVIOUS
    <3>2. Same(r, u, {"path"}) /\ u.path = "cached"  BY <1>9, <3>1 DEF Same, ClientField
    <3>3. /\ u.pc = r.pc /\ u.selected = r.selected /\ u.retrieved = r.retrieved
          /\ u.plan = r.plan /\ u.trace = r.trace /\ u.injected = {}
      BY <1>8, <3>2 DEF Same, ClientField
    <3>4. Same(r, u, {"pc", "path", "writeback", "injected", "suppressed", "selected", "retrieved",
                      "plan"})
      BY <3>2 DEF Same
    <3>5. Core(c, u)  BY <1>6, <1>9, <3>3, <3>4, MovedCore
    <3>6. ~StoresAsAsked(u)  BY <3>2 DEF StoresAsAsked
    <3>7. s = Finishing(u)  BY <1>3, <2>1, <3>1
    <3> QED BY <1>8, <3>2, <3>3, <3>5, <3>6, <3>7, FinishingGood
  <2>2. CASE ~r.request.cached /\ Refused(r.request)
    <3>1. s = Raised(c, client[c])  BY <1>1, <1>3, <2>2
    <3>2. ~At(c, "closed")  BY <1>1, <1>5 DEF At
    <3> QED BY <3>1, <3>2, RaisedGood
  <2>3. CASE ~r.request.cached /\ ~Refused(r.request)
    <3>1. /\ Core(c, t) /\ Same(r, t, {"retrieved", "suppressed"})
          /\ t.suppressed = SuppressedIn(t.retrieved, IntentOf(r.request))
          /\ \A m \in Items(t.retrieved) : Has(m[2], "sensitive") => r.request.includeSensitive
      BY <1>2, <1>6, <1>7, RetrievedCore
    <3>2. /\ DOMAIN t = ClientField /\ t.retrieved \in Seq(mems) /\ t.selected \in Seq(Memory)
          /\ t.plan \in Seq(Fact)
      BY <3>1 DEF Core, Typed
    <3>3. s = [t EXCEPT !.pc = "operate", !.path = "execute"]  BY <1>3, <2>3
    <3>4. Same(t, s, {"pc", "path"}) /\ s.pc = "operate" /\ s.path = "execute"
      BY <3>2, <3>3 DEF Same, ClientField
    <3>5. /\ s.selected = t.selected /\ s.retrieved = t.retrieved /\ s.plan = t.plan
          /\ s.trace = r.trace /\ s.injected = {} /\ s.request = r.request
          /\ s.suppressed = t.suppressed
      BY <1>8, <3>1, <3>4 DEF Same, ClientField
    <3>6. Same(t, s, {"pc", "path", "writeback", "injected", "suppressed", "selected", "retrieved",
                      "plan"})
      BY <3>4 DEF Same
    <3>7. Core(c, s)  BY <3>1, <3>2, <3>4, <3>5, <3>6, MovedCore
    <3>8. Typed(s) /\ UpToDate(s) /\ Walk(s.trace)  BY <3>7 DEF Core
    <3>9. Placed(c, s)  BY <1>6, <3>4, <3>5 DEF Placed, Idle, Deciding, Storing
    <3>10. Walking(s)  BY <1>8, <3>4, <3>5, <3>8 DEF Walking, Storing
    <3>11. Shielded(s)  BY <1>8, <3>1, <3>4, <3>5 DEF Shielded, Storing
    <3>12. Reported(s)  BY <3>1, <3>4, <3>5 DEF Reported, Storing
    <3>13. Whole(s)  BY <3>4 DEF Whole, Finished
    <3> QED BY <3>4, <3>8, <3>9, <3>10, <3>11, <3>12, <3>13 DEF Good
  <2>4. r.request.cached \in BOOLEAN  BY <1>6 DEF TurnRequest
  <2> QED BY <2>1, <2>2, <2>3, <2>4
<1>11. FilesTyped' /\ Bounded'
  <2>1. FilesTyped'  BY <1>4, FilesKept DEF IInv
  <2> QED BY <1>4, <2>1 DEF IInv, Bounded
<1> QED BY <1>4, <1>10, <1>11, Moved

\* What the operation puts together: nothing of it is suppressed, but in a bundle's
\* profile, or sensitive without leave.
LEMMA SelectingCore ==
  ASSUME NEW c \in Client, NEW r, Core(c, r), Good(c, r), r.pc = "operate",
         Scored(mems), IsFiniteSet(mems)
  PROVE  LET s == Selecting(r, Packed(r)) IN
         /\ Core(c, s) /\ Same(r, s, {"selected", "injected"})
         /\ \A e \in s.injected : Has(e[2][2], "sensitive") => r.request.allowSensitive
         /\ r.request.op \in {"memory_pack", "context_bundle", "memory_search"} =>
              \A e \in s.injected :
                 e[2] \in Items(r.retrieved)
                     /\ Suppressed(Text[e[2][2]].marks, IntentOf(r.request)) =>
                   e[1] = "profile" /\ r.request.op = "context_bundle"
<1>1. /\ r.request \in TurnRequest /\ DOMAIN r = ClientField /\ r.retrieved \in Seq(mems)
      /\ r.plan \in Seq(Fact)
  BY RequestType DEF Core, Typed
<1>2. PICK packed : packed = Packed(r)  OBVIOUS
<1>3. PICK selected : selected = SelectedOf(r, packed)  OBVIOUS
<1>4. PICK s : s = Choosing(r, packed, selected)  OBVIOUS
<1>5. Selecting(r, Packed(r)) = s  BY <1>2, <1>3, <1>4 DEF Selecting, With, Once
<1>6. /\ Same(r, s, {"selected", "injected"}) /\ s.selected = selected
      /\ s.injected = InText(r, packed, selected)
  BY <1>1, <1>4 DEF Choosing, Same, ClientField
<1>7. /\ \A m \in packed : ~Has(m[2], "sensitive")
      /\ r.request.op \in {"memory_pack", "context_bundle"} =>
            \A m \in packed : m \notin r.suppressed
  BY <1>1, <1>2, PackedOfTurn
<1>8. /\ selected \in Seq(Memory)
      /\ r.request.op # "memory_explain" =>
            Items(selected) \subseteq Items(r.retrieved) \ r.suppressed
  <2>1. CASE r.request.op = "memory_explain"
    <3>1. selected = <<r.request.target>>  BY <1>3, <2>1 DEF SelectedOf
    <3>2. r.request.target \in Memory  BY <1>1 DEF TurnRequest, Memory
    <3> QED BY <2>1, <3>1, <3>2
  <2>2. CASE r.request.op # "memory_explain"
    <3>1. PICK named : named = Named(r, packed)  OBVIOUS
    <3>2. selected = Selected(r, named)  BY <1>3, <2>2, <3>1 DEF SelectedOf
    <3>3. selected \in Seq(mems) /\ Items(selected) \subseteq Items(r.retrieved) \ r.suppressed
      BY <1>1, <3>2, SelectedType
    <3>4. mems \subseteq Memory  BY DEF Scored
    <3> QED BY <3>3, <3>4, SeqOfSuperset
  <2> QED BY <2>1, <2>2
<1>9. /\ r.request.op = "memory_search" => (r.request.includeSensitive => r.request.allowSensitive)
      /\ \A m \in Items(r.retrieved) : Has(m[2], "sensitive") => r.request.includeSensitive
      /\ r.suppressed = SuppressedIn(r.retrieved, IntentOf(r.request))
  BY DEF Good, Shielded, Reported
<1>10. Core(c, s)
  <2>1. s.pc = r.pc /\ s.retrieved = r.retrieved /\ s.plan = r.plan
    BY <1>6 DEF Same, ClientField
  <2>2. Same(r, s, {"pc", "path", "writeback", "injected", "suppressed", "selected", "retrieved",
                    "plan"})
    BY <1>6 DEF Same
  <2> QED BY <1>1, <1>6, <1>8, <2>1, <2>2, MovedCore
<1>11. /\ \A m \in QuotedInPlan(r) : ~Has(m[2], "sensitive")
       /\ r.request.op = "context_bundle" => \A m \in QuotedInPlan(r) : m \notin r.suppressed
       /\ r.request.op = "memory_pack" => QuotedInPlan(r) = {}
       /\ \A m \in Profiled(r) : ~Has(m[2], "sensitive")
       /\ r.request.op = "memory_pack" => Profiled(r) = {}
  BY <1>1, QuotedOfTurn, ProfiledOfTurn
<1>12. ASSUME NEW e \in s.injected
       PROVE  IF r.request.op = "memory_search" THEN e[2] \in Items(selected)
              ELSE \/ e[2] \in packed
                   \/ e[2] \in QuotedInPlan(r)
                   \/ e[1] = "profile" /\ e[2] \in Profiled(r)
  BY <1>6, <1>12 DEF InText
<1>13. ASSUME NEW e \in s.injected PROVE Has(e[2][2], "sensitive") => r.request.allowSensitive
  <2>1. CASE r.request.op = "memory_search"
    <3>1. e[2] \in Items(r.retrieved)  BY <1>8, <1>12, <2>1
    <3> QED BY <1>9, <2>1, <3>1
  <2>2. CASE r.request.op # "memory_search"
    <3>1. e[2] \in packed \/ e[2] \in QuotedInPlan(r) \/ e[2] \in Profiled(r)  BY <1>12, <2>2
    <3> QED BY <1>7, <1>11, <3>1
  <2> QED BY <2>1, <2>2
<1>14. ASSUME r.request.op \in {"memory_pack", "context_bundle", "memory_search"},
              NEW e \in s.injected, e[2] \in Items(r.retrieved),
              Suppressed(Text[e[2][2]].marks, IntentOf(r.request))
       PROVE  e[1] = "profile" /\ r.request.op = "context_bundle"
  <2>1. e[2] \in r.suppressed  BY <1>9, <1>14 DEF SuppressedIn, Items
  <2>2. r.request.op # "memory_search"  BY <1>8, <1>12, <2>1
  <2>3. e[2] \notin packed  BY <1>7, <1>14, <2>1, <2>2
  <2>4. e[2] \notin QuotedInPlan(r)  BY <1>11, <1>14, <2>1, <2>2
  <2>5. e[1] = "profile" /\ e[2] \in Profiled(r)  BY <1>12, <2>2, <2>3, <2>4
  <2> QED BY <1>11, <1>14, <2>2, <2>5
<1> QED BY <1>5, <1>6, <1>10, <1>13, <1>14

\* What an operation shows is not suppressed, but in a bundle's profile, and is
\* sensitive only if that was allowed.
LEMMA OperateStep ==
  ASSUME IInv, NEW c \in Client, Operate(c)  PROVE IInv'
<1>1. PICK r : r = client[c]  OBVIOUS
<1>2. PICK done : done = Selecting(r, Packed(r))  OBVIOUS
<1>3. PICK dry \in BOOLEAN :
         dry = (r.request.mode # "write" \/ r.request.dryRun \/ r.request.storeMode = "preview")
  OBVIOUS
<1>4. PICK s : s = IF r.request.op # "memory_auto_store" THEN Finishing(done)
                   ELSE IF dry THEN [done EXCEPT !.writeback = "preview", !.pc = "complete"]
                   ELSE [done EXCEPT !.writeback = "write", !.pc = "list"]
  OBVIOUS
<1>5. Become(c, s) /\ UNCHANGED <<policyFile, schedulerFile, mems, queue, used, log>>
  BY <1>1, <1>2, <1>3, <1>4 DEF Operate
<1>6. r.pc = "operate"  BY <1>1 DEF Operate, At
<1>7. /\ Core(c, r) /\ Good(c, r) /\ r.request \in TurnRequest /\ r.request \in Requests[c]
  BY <1>1, <1>6, UnderWay
<1>8. Scored(mems) /\ IsFiniteSet(mems)  BY Unfolded
<1>9. EndsIn(r.trace, BeforeExecute) /\ r.path = "execute"
  BY <1>6, <1>7 DEF Good, Walking, Placed
<1>10. /\ Core(c, done) /\ Same(r, done, {"selected", "injected"})
       /\ \A e \in done.injected : Has(e[2][2], "sensitive") => r.request.allowSensitive
       /\ r.request.op \in {"memory_pack", "context_bundle", "memory_search"} =>
            \A e \in done.injected :
               e[2] \in Items(r.retrieved)
                   /\ Suppressed(Text[e[2][2]].marks, IntentOf(r.request)) =>
                 e[1] = "profile" /\ r.request.op = "context_bundle"
  BY <1>2, <1>6, <1>7, <1>8, SelectingCore
<1>11. /\ done.request = r.request /\ done.path = "execute" /\ done.trace = r.trace
       /\ done.retrieved = r.retrieved
  BY <1>9, <1>10 DEF Same, ClientField
<1>12. Good(c, s) /\ s.pc # "store"
  <2>1. CASE r.request.op # "memory_auto_store"
    <3>1. s = Finishing(done)  BY <1>4, <2>1
    <3>2. ~StoresAsAsked(done)  BY <1>11, <2>1 DEF StoresAsAsked
    <3> QED BY <1>9, <1>10, <1>11, <3>1, <3>2, FinishingGood
  <2>2. CASE r.request.op = "memory_auto_store"
    <3>1. /\ DOMAIN done = ClientField /\ done.retrieved \in Seq(mems)
          /\ done.selected \in Seq(Memory) /\ done.plan \in Seq(Fact)
      BY <1>10 DEF Core, Typed
    <3>2. /\ Same(done, s, {"pc", "writeback"})
          /\ \/ s.writeback = "preview" /\ s.pc = "complete"
             \/ s.writeback = "write" /\ s.pc = "list"
      BY <1>4, <2>2, <3>1 DEF Same, ClientField
    <3>3. /\ s.request = r.request /\ s.path = "execute" /\ s.trace = r.trace
          /\ s.retrieved = r.retrieved /\ s.selected = done.selected /\ s.plan = done.plan
          /\ s.injected = done.injected
      BY <1>11, <3>2 DEF Same, ClientField
    <3>4. Same(done, s, {"pc", "path", "writeback", "injected", "suppressed", "selected",
                         "retrieved", "plan"})
      BY <3>2 DEF Same
    <3>5. s.pc \in Storing \cup Finished  BY <3>2 DEF Storing, Finished
    <3>6. Core(c, s)  BY <1>10, <1>11, <3>1, <3>3, <3>4, <3>5, MovedCore
    <3>7. Typed(s) /\ UpToDate(s) /\ Walk(s.trace)  BY <3>6 DEF Core
    <3>8. Placed(c, s)  BY <1>7, <3>2, <3>3 DEF Placed, Idle, Deciding, Storing
    <3>9. Walking(s)  BY <1>9, <3>2, <3>3, <3>7 DEF Walking
    <3>10. Shielded(s)  BY <1>10, <3>2, <3>3 DEF Shielded, Idle, Deciding
    <3>11. Reported(s)  BY <2>2, <3>2, <3>3 DEF Reported
    <3>12. Whole(s)  BY <2>2, <3>2, <3>3 DEF Whole, Finished, StoresAsAsked
    <3> QED BY <3>2, <3>7, <3>8, <3>9, <3>10, <3>11, <3>12 DEF Good
  <2> QED BY <2>1, <2>2
<1>13. FilesTyped' /\ Bounded'
  <2>1. FilesTyped'  BY <1>5, FilesKept DEF IInv
  <2> QED BY <1>5, <2>1 DEF IInv, Bounded
<1> QED BY <1>5, <1>12, <1>13, Moved

-----------------------------------------------------------------------------
(* Failures *)

\* A failure falls back along the graph, with nothing to show, or ends the turn.
LEMMA FailStep ==
  ASSUME IInv, NEW c \in Client, Fail(c)  PROVE IInv'
<1>1. PICK r : r = client[c]  OBVIOUS
<1>2. PICK falls \in BOOLEAN :
         falls = (/\ r.pc \notin {"rank", "cycle"} /\ r.request.op = "auto_context"
                  /\ r.path \in {"none", "execute"})
  OBVIOUS
<1>3. PICK s : s = CASE r.pc = "rank" -> FallingBack(Traced(r, "rank_memories", "recall_failed"))
                     [] falls -> FallingBack(Traced(r, "execute", "recall_failed"))
                     [] OTHER -> Raised(c, r)
  OBVIOUS
<1>4. Become(c, s) /\ UNCHANGED <<policyFile, schedulerFile, mems, queue, log>>
  BY <1>1, <1>2, <1>3 DEF Fail, At
<1>5. r.pc \in {"rank", "execute", "operate", "list", "store", "cycle"}  BY <1>1 DEF Fail, At
<1>6. Core(c, r) /\ Good(c, r)  BY <1>1, <1>5, UnderWay DEF Deciding, Storing
<1>7. Sound(log.last)  BY Unfolded
<1>8. Good(c, s) /\ s.pc # "store"
  <2>1. ASSUME NEW node, <<node, "recall_failed">> \in Event, r.trace # <<>>,
               Goes(r.trace[Len(r.trace)], <<node, "recall_failed">>),
               NextNode(<<node, "recall_failed">>) = "fallback_lightweight",
               s = FallingBack(Traced(r, node, "recall_failed"))
        PROVE  Good(c, s) /\ s.pc # "store"
    <3>1. PICK t : t = Traced(r, node, "recall_failed")  OBVIOUS
    <3>2. Core(c, t) /\ EndsIn(t.trace, {<<node, "recall_failed">>})
      BY <1>6, <1>7, <2>1, <3>1, TracedCore
    <3>3. t.trace # <<>> /\ NextNode(t.trace[Len(t.trace)]) = "fallback_lightweight"
      BY <2>1, <3>2 DEF EndsIn
    <3>4. s = FallingBack(t)  BY <2>1, <3>1
    <3> QED BY <1>7, <3>2, <3>3, <3>4, FallingBackGood
  <2>2. CASE r.pc = "rank"
    <3>1. EndsIn(r.trace, {<<"use_cache", "miss">>})  BY <1>6, <2>2 DEF Good, Walking
    <3>2. ~falls  BY <1>2, <2>2
    <3>3. s = FallingBack(Traced(r, "rank_memories", "recall_failed"))  BY <1>3, <2>2, <3>2
    <3> QED BY <2>1, <3>1, <3>3, TurnEdges DEF EndsIn, Goes
  <2>3. CASE r.pc # "rank" /\ falls
    <3>1. EndsIn(r.trace, BeforeExecute)
      <4>1. r.path # "fallback"  BY <1>2, <2>3
      <4>2. r.pc \in {"execute", "operate"} \cup Storing  BY <1>2, <1>5, <2>3 DEF Storing
      <4> QED BY <1>6, <4>1, <4>2 DEF Good, Walking
    <3>2. s = FallingBack(Traced(r, "execute", "recall_failed"))  BY <1>3, <2>3
    <3> QED BY <2>1, <3>1, <3>2, TurnEdges DEF EndsIn, Goes
  <2>4. CASE r.pc # "rank" /\ ~falls
    <3>1. s = Raised(c, client[c])  BY <1>1, <1>3, <2>4
    <3>2. ~At(c, "closed")  BY <1>1, <1>5 DEF At
    <3> QED BY <3>1, <3>2, RaisedGood
  <2> QED BY <2>2, <2>3, <2>4
<1>9. Bounded'  BY FailureBounded DEF Fail
<1>10. FilesTyped'  BY <1>4, FilesKept DEF IInv
<1> QED BY <1>4, <1>8, <1>9, <1>10, Moved

-----------------------------------------------------------------------------
(* The end of a turn *)

\* What a turn stores with depends on its request and its path.
LEMMA SameWorthy ==
  ASSUME NEW r, NEW s, s.request = r.request, s.path = r.path
  PROVE  /\ Worthy(s) = Worthy(r) /\ StoresAsAsked(s) = StoresAsAsked(r)
         /\ \A f : TargetOf(s, f) = TargetOf(r, f)
<1>1. /\ StoresAsAsked(s) = StoresAsAsked(r) /\ StoreMode(s) = StoreMode(r)
      /\ AllowsSensitive(s) = AllowsSensitive(r) /\ MaxCandidates(s) = MaxCandidates(r)
  BY DEF StoresAsAsked, StoreMode, AllowsSensitive, MaxCandidates
<1>2. \A f : TargetOf(s, f) = TargetOf(r, f)  BY <1>1 DEF TargetOf
<1>3. {f \in Fact : TargetOf(s, f) # "skip"} = {f \in Fact : TargetOf(r, f) # "skip"}  BY <1>2
<1>4. Worthy(s) = Worthy(r)  BY <1>1, <1>3 DEF Worthy
<1> QED BY <1>1, <1>2, <1>4

\* A turn that has finished goes on without touching what it stored.
LEMMA FinishedWhole ==
  ASSUME NEW r, NEW s, Whole(r), r.pc \in Finished, s.pc \in Finished,
         s.request = r.request, s.path = r.path, s.writeback = r.writeback
  PROVE  Whole(s)
<1>1. Worthy(s) = Worthy(r) /\ StoresAsAsked(s) = StoresAsAsked(r)  BY SameWorthy
<1>2. \A f : Done(s, f) = Done(r, f)  BY DEF Done
<1>3. s.pc # "store"  BY DEF Finished
<1> QED BY <1>1, <1>2, <1>3 DEF Whole

\* The learning that ends a turn keeps the engine sound, and up to date with the file.
LEMMA CompleteStep ==
  ASSUME IInv, NEW c \in Client, Complete(c)  PROVE IInv'
<1>1. PICK r : r = client[c]  OBVIOUS
<1>2. PICK executed : executed = IF r.path = "fallback" THEN r ELSE Traced(r, "execute", "executed")
  OBVIOUS
<1>3. PICK stored : stored = Traced(executed, "writeback", r.writeback)  OBVIOUS
<1>4. PICK done : done = Traced(stored, "complete", "done")  OBVIOUS
<1>5. PICK engine : engine = UpdateFromTrace(done.engine, r.request.project, done.trace,
                                             Len(r.selected))
  OBVIOUS
<1>6. PICK s : s = [done EXCEPT !.pc = "cycle", !.engine = engine]  OBVIOUS
<1>7. Become(c, s) /\ UNCHANGED <<policyFile, schedulerFile, mems, queue, used, log>>
  BY <1>1, <1>2, <1>3, <1>4, <1>5, <1>6 DEF Complete, Once
<1>8. r.pc = "complete"  BY <1>1 DEF Complete, At
<1>9. /\ Core(c, r) /\ Good(c, r) /\ r.request.project \in Project /\ r.request \in Requests[c]
  BY <1>1, <1>8, UnderWay
<1>10. Sound(log.last)  BY Unfolded
<1>11. /\ r.path \in {"cached", "execute", "fallback"}
       /\ r.writeback \in {"preview", "write", "skipped"}
       /\ EndsIn(r.trace, IF r.path = "fallback" THEN {<<"fallback_lightweight", "fallback">>}
                          ELSE BeforeExecute)
       /\ \A e \in r.injected : Has(e[2][2], "sensitive") => r.request.allowSensitive
       /\ Reported(r) /\ Whole(r)
  BY <1>8, <1>9 DEF Good, Placed, Walking, Shielded
<1>12. /\ Core(c, executed) /\ Same(r, executed, {"trace", "engine"})
       /\ EndsIn(executed.trace, {<<"fallback_lightweight", "fallback">>, <<"execute", "executed">>})
  <2>1. CASE r.path = "fallback"
    <3>1. executed = r /\ DOMAIN r = ClientField  BY <1>2, <1>9, <2>1 DEF Core, Typed
    <3> QED BY <1>9, <1>11, <2>1, <3>1 DEF Same, EndsIn
  <2>2. CASE r.path # "fallback"
    <3>1. executed = Traced(r, "execute", "executed")  BY <1>2, <2>2
    <3>2. <<"execute", "executed">> \in Event /\ Goes(r.trace[Len(r.trace)], <<"execute", "executed">>)
      BY <1>11, <2>2, TurnEdges DEF EndsIn, Goes
    <3>3. /\ Core(c, executed) /\ Same(r, executed, {"trace", "engine"})
          /\ EndsIn(executed.trace, {<<"execute", "executed">>})
      BY <1>9, <1>10, <3>1, <3>2, TracedCore
    <3> QED BY <3>3 DEF EndsIn
  <2> QED BY <2>1, <2>2
<1>13. /\ Core(c, stored) /\ Same(executed, stored, {"trace", "engine"})
       /\ EndsIn(stored.trace, {<<"writeback", r.writeback>>})
  <2>1. /\ <<"writeback", r.writeback>> \in Event
        /\ Goes(executed.trace[Len(executed.trace)], <<"writeback", r.writeback>>)
    BY <1>11, <1>12, TurnEdges DEF EndsIn, Goes
  <2> QED BY <1>3, <1>10, <1>12, <2>1, TracedCore
<1>14. Core(c, done) /\ Same(stored, done, {"trace", "engine"})
  <2>1. /\ <<"complete", "done">> \in Event
        /\ Goes(stored.trace[Len(stored.trace)], <<"complete", "done">>)
    BY <1>11, <1>13, TurnEdges DEF EndsIn, Goes
  <2> QED BY <1>4, <1>10, <1>13, <2>1, TracedCore
<1>15. /\ Typed(done) /\ UpToDate(done) /\ DOMAIN done = ClientField /\ Walk(done.trace)
       /\ Sound(done.engine) /\ done.trace \in Seq(Event) /\ done.pc # "closed"
  BY <1>14 DEF Core, Typed
<1>16. Sound(engine) /\ LogKept(done.engine, engine)  BY <1>5, <1>9, <1>15, UpdateSound
<1>17. Same(done, s, {"pc", "engine"}) /\ s.pc = "cycle" /\ s.engine = engine
  BY <1>6, <1>15 DEF Same, ClientField
<1>18. /\ s.scheduler = done.scheduler /\ s.weights = done.weights /\ s.trace = done.trace
       /\ s.decision = done.decision /\ s.retrieved = done.retrieved /\ s.plan = done.plan
       /\ s.selected = done.selected /\ s.conflicts = done.conflicts /\ s.seen = done.seen
       /\ s.sound = done.sound /\ s.loaded = done.loaded /\ DOMAIN s = ClientField
  BY <1>17 DEF Same, ClientField
<1>19. Same(r, s, {"pc", "trace", "engine"})  BY <1>12, <1>13, <1>14, <1>17 DEF Same
<1>20. /\ s.request = r.request /\ s.path = r.path /\ s.writeback = r.writeback
       /\ s.injected = r.injected /\ s.retrieved = r.retrieved
  BY <1>19 DEF Same, ClientField
<1>21. Typed(s)
  <2>1. s.pc \in Finished  BY <1>17 DEF Finished
  <2> QED BY <1>15, <1>16, <1>17, <1>18, <2>1 DEF Typed
<1>22. Placed(c, s)  BY <1>9, <1>11, <1>17, <1>20 DEF Placed, Idle, Deciding, Storing
<1>23. Walking(s)  BY <1>15, <1>17, <1>18 DEF Walking, Storing
<1>24. Shielded(s)  BY <1>11, <1>17, <1>20 DEF Shielded, Idle, Deciding
<1>25. Reported(s)  BY <1>8, <1>11, <1>17, <1>20 DEF Reported
<1>26. Whole(s)
  <2>1. r.pc \in Finished /\ s.pc \in Finished  BY <1>8, <1>17 DEF Finished
  <2> QED BY <1>11, <1>20, <2>1, FinishedWhole
<1>27. UpToDate(s)
  <2>1. done.loaded \in Nat  BY <1>15 DEF Typed
  <2> QED BY <1>10, <1>15, <1>16, <1>17, <1>18, <2>1, KeptUpToDate
<1>28. Good(c, s) /\ s.pc # "store"
  BY <1>17, <1>21, <1>22, <1>23, <1>24, <1>25, <1>26, <1>27 DEF Good
<1>29. FilesTyped' /\ Bounded'
  <2>1. FilesTyped'  BY <1>7, FilesKept DEF IInv
  <2> QED BY <1>7, <2>1 DEF IInv, Bounded
<1> QED BY <1>7, <1>28, <1>29, Moved

\* What a turn earned on the average is a number.
LEMMA MeanType ==
  ASSUME NEW trace \in Seq(Event), NEW n
  PROVE  LET signals == Signals(trace, n)
             reward == [e \in Event |-> Reward(e, n)]
         IN (IF signals = <<>> THEN 0 ELSE Total(reward, signals) \div Len(signals)) \in Int
<1>1. PICK rewarded : rewarded = {e \in Event : Reward(e, n) # 0}  OBVIOUS
<1>2. PICK signals : signals = Signals(trace, n)  OBVIOUS
<1>3. signals \in Seq(rewarded)  BY <1>1, <1>2, SignalsType
<1>4. signals \in Seq(Event)
  <2>1. rewarded \subseteq Event  BY <1>1
  <2> QED BY <1>3, <2>1, SeqOfSuperset
<1>5. PICK reward : reward = [e \in Event |-> Reward(e, n)]  OBVIOUS
<1>6. reward \in [Event -> Int]  BY <1>5, RewardedEvents
<1>7. Total(reward, signals) \in Int  BY <1>4, <1>6, TotalType
<1>8. signals # <<>> => Len(signals) \in Nat \ {0}  BY <1>4
<1>9. (IF signals = <<>> THEN 0 ELSE Total(reward, signals) \div Len(signals)) \in Int
  <2>1. PICK t \in Int : t = Total(reward, signals)  BY <1>7
  <2>2. CASE signals = <<>>  BY <2>2
  <2>3. CASE signals # <<>>
    <3>1. PICK k \in Nat \ {0} : k = Len(signals)  BY <1>8, <2>3
    <3>2. t \div k \in Int  OBVIOUS
    <3> QED BY <2>1, <2>3, <3>1, <3>2
  <2> QED BY <2>2, <2>3
<1> QED BY <1>2, <1>5, <1>9

\* The scheduler's cycle changes its own state, its file and the policy weights only,
\* whether its save fails or not.
LEMMA CycleStep ==
  ASSUME IInv, NEW c \in Client, Cycle(c)  PROVE IInv'
<1>1. PICK r : r = client[c]  OBVIOUS
<1>2. r.pc = "cycle"  BY <1>1 DEF Cycle, At
<1>3. /\ Core(c, r) /\ Good(c, r) /\ r.request \in Requests[c]  BY <1>1, <1>2, UnderWay
<1>4. PICK mean : mean = IF Signals(r.trace, Len(r.selected)) = <<>> THEN 0
                         ELSE Total([e \in Event |-> Reward(e, Len(r.selected))],
                                    Signals(r.trace, Len(r.selected)))
                                \div Len(Signals(r.trace, Len(r.selected)))
  OBVIOUS
<1>5. PICK after : after = AfterCycle(r.scheduler, mean, r.conflicts)  OBVIOUS
<1>6. PICK s : s = [r EXCEPT !.scheduler = after, !.pc = "save",
                             !.weights = Synchronized(@, after.reward, after.bias)]
  OBVIOUS
<1>7. /\ Become(c, s) /\ UNCHANGED <<policyFile, mems, queue, log>>
      /\ \/ schedulerFile' = after /\ used' = used
         \/ /\ used.failures < MaxFailures
            /\ used' = [used EXCEPT !.failures = @ + 1]
            /\ schedulerFile' = schedulerFile
  BY <1>1, <1>4, <1>5, <1>6 DEF Cycle, Once
<1>8. /\ Typed(r) /\ r.trace \in Seq(Event) /\ r.conflicts \in Seq(Resolution)
      /\ r.scheduler \in SchedulerState /\ r.weights \in [Policy -> Int]
      /\ DOMAIN r = ClientField /\ UpToDate(r) /\ Walk(r.trace)
      /\ Whole(r) /\ r.path \in {"cached", "execute", "fallback"}
  BY <1>2, <1>3 DEF Core, Typed, Good, Placed
<1>9. mean \in Int  BY <1>4, <1>8, MeanType
<1>10. after \in SchedulerState /\ Synchronized(r.weights, after.reward, after.bias) \in [Policy -> Int]
  BY <1>5, <1>8, <1>9, CycleType
<1>11. /\ Same(r, s, {"pc", "scheduler", "weights"}) /\ s.pc = "save" /\ s.scheduler = after
       /\ s.weights \in [Policy -> Int]
  BY <1>6, <1>8, <1>10 DEF Same, ClientField
<1>12. /\ s.engine = r.engine /\ s.trace = r.trace /\ s.path = r.path /\ s.request = r.request
       /\ s.writeback = r.writeback /\ s.decision = r.decision /\ s.retrieved = r.retrieved
       /\ s.selected = r.selected /\ s.conflicts = r.conflicts /\ s.plan = r.plan
       /\ s.seen = r.seen /\ s.sound = r.sound /\ s.loaded = r.loaded /\ DOMAIN s = ClientField
  BY <1>11 DEF Same, ClientField
<1>13. s.pc \in Finished /\ r.pc \in Finished  BY <1>2, <1>11 DEF Finished
<1>14. Typed(s)  BY <1>8, <1>10, <1>11, <1>12, <1>13 DEF Typed
<1>15. Placed(c, s)  BY <1>3, <1>8, <1>11, <1>12 DEF Placed, Idle, Deciding, Storing
<1>16. Walking(s)  BY <1>8, <1>11, <1>12 DEF Walking, Storing
<1>17. Shielded(s)  BY <1>11 DEF Shielded, Idle, Deciding, Storing
<1>18. Reported(s)  BY <1>11 DEF Reported, Storing
<1>19. Whole(s)  BY <1>8, <1>12, <1>13, FinishedWhole
<1>20. UpToDate(s)  BY <1>2, <1>8, <1>12, SameUpToDate
<1>21. Good(c, s) /\ s.pc # "store"
  BY <1>11, <1>14, <1>15, <1>16, <1>17, <1>18, <1>19, <1>20 DEF Good
<1>22. FilesTyped'  BY <1>7, <1>10 DEF IInv, FilesTyped
<1>23. Bounded'
  <2>1. CASE used' = used  BY <2>1 DEF IInv, Bounded
  <2>2. CASE used.failures < MaxFailures /\ used' = [used EXCEPT !.failures = @ + 1]
    BY <2>2, FailureBounded
  <2> QED BY <1>7, <2>1, <2>2
<1> QED BY <1>7, <1>21, <1>22, <1>23, Moved

-----------------------------------------------------------------------------
(* Saving *)

\* Opening the file for writing empties it: no state can be read from it any more.
LEMMA TruncateStep ==
  ASSUME IInv, NEW c \in Client, Truncate(c)  PROVE IInv'
<1>1. PICK r : r = client[c]  OBVIOUS
<1>2. PICK s : s = [r EXCEPT !.pc = "write"]  OBVIOUS
<1>3. /\ Become(c, s) /\ UNCHANGED <<schedulerFile, mems, queue, used, log>>
      /\ policyFile' = BrokenFile
  BY <1>1, <1>2 DEF Truncate
<1>4. r.pc = "save" /\ Good(c, r) /\ DOMAIN r = ClientField
  BY <1>1, Unfolded DEF Truncate, At
<1>5. Same(r, s, {"pc"}) /\ s.pc = "write"  BY <1>2, <1>4 DEF Same, ClientField
<1>6. /\ s.engine = r.engine /\ s.trace = r.trace /\ s.path = r.path /\ s.request = r.request
      /\ s.writeback = r.writeback /\ s.decision = r.decision /\ s.retrieved = r.retrieved
      /\ s.selected = r.selected /\ s.conflicts = r.conflicts /\ s.plan = r.plan
      /\ s.seen = r.seen /\ s.sound = r.sound /\ s.loaded = r.loaded /\ DOMAIN s = ClientField
      /\ s.scheduler = r.scheduler /\ s.weights = r.weights
  BY <1>5 DEF Same, ClientField
<1>7. s.pc \in Finished /\ r.pc \in Finished  BY <1>4, <1>5 DEF Finished
<1>8. Typed(s)
  <2>1. Typed(r)  BY <1>4 DEF Good
  <2> QED BY <1>6, <1>7, <2>1 DEF Typed
<1>9. Placed(c, s)  BY <1>4, <1>5, <1>6 DEF Good, Placed, Idle, Deciding, Storing
<1>10. Walking(s)  BY <1>4, <1>5, <1>6 DEF Good, Walking, Storing
<1>11. Shielded(s)  BY <1>5 DEF Shielded, Idle, Deciding, Storing
<1>12. Reported(s)  BY <1>5 DEF Reported, Storing
<1>13. Whole(s)
  <2>1. Whole(r)  BY <1>4 DEF Good
  <2> QED BY <1>6, <1>7, <2>1, FinishedWhole
<1>14. UpToDate(s)
  <2>1. UpToDate(r) /\ r.pc # "closed"  BY <1>4 DEF Good
  <2> QED BY <1>6, <2>1, SameUpToDate
<1>15. Good(c, s) /\ s.pc # "store"
  BY <1>5, <1>8, <1>9, <1>10, <1>11, <1>12, <1>13, <1>14 DEF Good
<1>16. FilesTyped'  BY <1>3, FreshSound DEF IInv, FilesTyped, BrokenFile
<1>17. Bounded'  BY <1>3 DEF IInv, Bounded
<1> QED BY <1>3, <1>15, <1>16, <1>17, Moved

\* A rollback copies a version's snapshot over the state and appends to the log: the
\* sums, and the places of the versions, are kept.
LEMMA RollBackStep ==
  ASSUME IInv, NEW c \in Client, NEW id \in DOMAIN client[c].engine.versions, RollBack(c, id)
  PROVE  IInv'
<1>1. PICK r : r = client[c]  OBVIOUS
<1>2. PICK engine : engine = Rollback(r.engine, id)  OBVIOUS
<1>3. PICK s : s = [r EXCEPT !.engine = engine, !.pc = "save", !.path = "rollback"]  OBVIOUS
<1>4. /\ Become(c, s) /\ UNCHANGED <<policyFile, schedulerFile, mems, queue, log>>
      /\ used' = [used EXCEPT !.rollbacks = @ + 1] /\ used.rollbacks < MaxRollbacks
  BY <1>1, <1>2, <1>3 DEF RollBack, Once
<1>5. /\ r.pc = "ready" /\ Good(c, r) /\ DOMAIN r = ClientField /\ Sound(log.last)
      /\ Typed(r) /\ UpToDate(r) /\ Walk(r.trace)
  BY <1>1, Unfolded DEF RollBack, At, Walking
<1>6. Sound(r.engine) /\ r.loaded \in Nat  BY <1>5 DEF Typed
<1>7. Sound(engine) /\ LogKept(r.engine, engine)  BY <1>1, <1>2, <1>6, RollbackSound
<1>8. /\ Same(r, s, {"pc", "engine", "path"}) /\ s.pc = "save" /\ s.engine = engine
      /\ s.path = "rollback"
  BY <1>3, <1>5 DEF Same, ClientField
<1>9. /\ s.trace = r.trace /\ s.decision = r.decision /\ s.retrieved = r.retrieved
      /\ s.selected = r.selected /\ s.conflicts = r.conflicts /\ s.plan = r.plan
      /\ s.seen = r.seen /\ s.sound = r.sound /\ s.loaded = r.loaded /\ DOMAIN s = ClientField
      /\ s.scheduler = r.scheduler /\ s.weights = r.weights
  BY <1>8 DEF Same, ClientField
<1>10. s.pc \in Finished  BY <1>8 DEF Finished
<1>11. Typed(s)  BY <1>5, <1>7, <1>8, <1>9, <1>10 DEF Typed
<1>12. Placed(c, s)  BY <1>8 DEF Placed, Idle, Deciding, Storing
<1>13. Walking(s)  BY <1>5, <1>8, <1>9 DEF Walking, Storing
<1>14. Shielded(s)  BY <1>8 DEF Shielded, Idle, Deciding, Storing
<1>15. Reported(s)  BY <1>8 DEF Reported, Storing
<1>16. Whole(s)  BY <1>8 DEF Whole
<1>17. UpToDate(s)  BY <1>5, <1>6, <1>7, <1>8, <1>9, KeptUpToDate
<1>18. Good(c, s) /\ s.pc # "store"
  BY <1>8, <1>11, <1>12, <1>13, <1>14, <1>15, <1>16, <1>17 DEF Good
<1>19. FilesTyped'  BY <1>4, FilesKept DEF IInv
<1>20. Bounded'
  <2>1. Bounded  BY DEF IInv
  <2>2. used.rollbacks \in Nat /\ MaxRollbacks \in Nat  BY <2>1, TurnAssumption DEF Bounded
  <2> QED BY <1>4, <2>1, <2>2 DEF Bounded
<1> QED BY <1>4, <1>18, <1>19, <1>20, Moved

\* The write makes the file what the engine has, and its snapshots copies; an engine
\* that had seen every save has now seen this one.
LEMMA WriteStep ==
  ASSUME IInv, NEW c \in Client, Write(c)  PROVE IInv'
<1>1. PICK r : r = client[c]  OBVIOUS
<1>2. PICK state : state = Written(r.engine)  OBVIOUS
<1>3. PICK u : u = [r EXCEPT !.seen = log.saves + 1, !.sound = TRUE]  OBVIOUS
<1>4. PICK s : s = Ended(c, u)  OBVIOUS
<1>5. /\ Become(c, s) /\ UNCHANGED <<schedulerFile, mems, queue, used>>
      /\ policyFile' = File(state)
      /\ log' = [log EXCEPT !.saves = log.saves + 1, !.last = state]
  BY <1>1, <1>2, <1>3, <1>4 DEF Write, Once
<1>6. /\ r.pc = "write" /\ Typed(r) /\ UpToDate(r) /\ DOMAIN r = ClientField
      /\ DOMAIN client = Client /\ Sound(r.engine) /\ r.scheduler \in SchedulerState
      /\ r.weights \in [Policy -> Int] /\ r.loaded \in Nat
  BY <1>1, Unfolded DEF Write, At, Typed
<1>7. PICK saves \in Nat : saves = log.saves  BY DEF IInv, FilesTyped
<1>8. MemoriesTyped /\ FilesTyped /\ Bounded /\ Apart /\ \A d \in Client : Good(d, client[d])
  BY DEF IInv
<1>9. log'.saves = saves + 1 /\ log'.last = state /\ log'.overlapped = log.overlapped
  <2>1. DOMAIN log = {"saves", "last", "overlapped"}  BY <1>8 DEF FilesTyped
  <2> QED BY <1>5, <1>7, <2>1
<1>10. /\ Sound(state) /\ LogKept(r.engine, state) /\ Len(state.versions) = Len(r.engine.versions)
       /\ \A i \in DOMAIN state.versions : ~state.versions[i].after.live
  BY <1>2, <1>6, WrittenSound
<1>11. FilesTyped'
  <2>1. policyFile'.kind = "ok" /\ policyFile'.state = state  BY <1>5 DEF File
  <2>2. DOMAIN log' = {"saves", "last", "overlapped"}  BY <1>5, <1>8 DEF FilesTyped
  <2> QED BY <1>5, <1>8, <1>9, <1>10, <2>1, <2>2 DEF FilesTyped
<1>12. MemoriesTyped' /\ Bounded'  BY <1>5, <1>8 DEF MemoriesTyped, Bounded
<1>13. /\ client'[c] = s /\ DOMAIN client' = Client
       /\ \A d \in Client \ {c} : client'[d] = client[d]
  BY <1>5, <1>6 DEF Become
<1>14. /\ u.engine = r.engine /\ u.scheduler = r.scheduler /\ u.weights = r.weights
       /\ u.loaded = r.loaded /\ u.seen = saves + 1
  BY <1>3, <1>6, <1>7 DEF ClientField
<1>15. /\ DOMAIN s = ClientField /\ s.pc \in {"closed", "ready"} /\ Sound(s.engine)
       /\ s.scheduler \in SchedulerState /\ s.weights \in [Policy -> Int]
       /\ s.trace = <<>> /\ s.path = "none" /\ s.injected = {} /\ s.decision.action \in RecallAction
       /\ s.retrieved = <<>> /\ s.selected = <<>> /\ s.conflicts = <<>> /\ s.plan = <<>>
       /\ s.seen \in 0..(saves + 1) /\ s.sound \in BOOLEAN /\ s.loaded \in Nat
       /\ s.pc # "closed" => s.engine = r.engine /\ s.loaded = r.loaded
  <2>1. CASE c \notin Sessions
    <3>1. s = Closed  BY <1>4, <2>1 DEF Ended
    <3>2. /\ s.pc = "closed" /\ s.engine = FreshState /\ s.scheduler = FreshScheduler
          /\ s.weights = DefaultWeights /\ s.trace = <<>> /\ s.path = "none"
          /\ s.injected = {} /\ s.decision = NoRecall /\ s.retrieved = <<>>
          /\ s.selected = <<>> /\ s.conflicts = <<>> /\ s.plan = <<>>
          /\ s.seen = 0 /\ s.loaded = 0
      BY <3>1 DEF Closed
    <3>3. s.sound \in BOOLEAN  BY <3>1 DEF Closed
    <3>4. DOMAIN s = ClientField  BY <3>1, FreshType
    <3>5. s.seen \in 0..(saves + 1) /\ s.loaded \in Nat  BY <3>2
    <3>6. Sound(s.engine)  BY <3>2, FreshSound
    <3>7. s.scheduler \in SchedulerState /\ s.weights \in [Policy -> Int]
          /\ s.decision.action \in RecallAction
      BY <3>2, FreshType
    <3> QED BY <3>2, <3>3, <3>4, <3>5, <3>6, <3>7
  <2>2. CASE c \in Sessions
    <3>1. s = [Closed EXCEPT !.pc = "ready", !.engine = u.engine, !.scheduler = u.scheduler,
                             !.weights = u.weights, !.seen = u.seen, !.sound = u.sound,
                             !.loaded = u.loaded]
      BY <1>4, <2>2 DEF Ended
    <3>2. /\ DOMAIN s = ClientField
          /\ s.pc = "ready" /\ s.engine = u.engine /\ s.scheduler = u.scheduler
          /\ s.weights = u.weights /\ s.seen = u.seen /\ s.loaded = u.loaded
          /\ s.trace = <<>> /\ s.path = "none" /\ s.injected = {} /\ s.decision = NoRecall
          /\ s.retrieved = <<>> /\ s.selected = <<>> /\ s.conflicts = <<>> /\ s.plan = <<>>
      BY <3>1 DEF Closed, ClientField
    <3>3. s.sound = u.sound  BY <3>1 DEF Closed
    <3>4. u.sound = TRUE  BY <1>3, <1>6 DEF ClientField
    <3>5. s.sound \in BOOLEAN  BY <3>3, <3>4, Zenon
    <3>6. s.decision.action \in RecallAction  BY <3>2, FreshType
    <3>7. s.seen \in 0..(saves + 1)  BY <1>14, <3>2
    <3> QED BY <1>6, <1>14, <3>2, <3>5, <3>6, <3>7
  <2> QED BY <2>1, <2>2
<1>16. s.pc # "closed" =>
         /\ s.loaded <= Len(s.engine.versions)
         /\ \A i \in DOMAIN s.engine.versions : i <= s.loaded => ~s.engine.versions[i].after.live
         /\ ExtendsLog(state, s.engine, s.loaded)
  <2> SUFFICES ASSUME s.engine = r.engine, s.loaded = r.loaded
               PROVE  /\ r.loaded <= Len(r.engine.versions)
                      /\ \A i \in DOMAIN r.engine.versions :
                            i <= r.loaded => ~r.engine.versions[i].after.live
                      /\ ExtendsLog(state, r.engine, r.loaded)
    BY <1>15
  <2>1. /\ r.loaded <= Len(r.engine.versions)
        /\ \A i \in DOMAIN r.engine.versions : i <= r.loaded => ~r.engine.versions[i].after.live
    BY <1>6 DEF UpToDate
  <2>2. /\ DOMAIN r.engine.versions = 1..Len(r.engine.versions)
        /\ DOMAIN state.versions = 1..Len(state.versions)
        /\ Len(state.versions) \in Nat
    BY <1>6, <1>10, VersionType DEF Sound
  <2>3. ASSUME NEW i \in DOMAIN state.versions
        PROVE  SameVersion(state.versions[i], r.engine.versions[i], i > r.loaded)
    <3>1. i \in DOMAIN r.engine.versions  BY <1>10, <2>2
    <3>2. SameVersion(r.engine.versions[i], state.versions[i], r.engine.versions[i].after.live)
      BY <1>10, <3>1 DEF LogKept
    <3>3. i > r.loaded \/ ~r.engine.versions[i].after.live
      <4>1. i \in Nat /\ r.loaded \in Nat  BY <1>6, <2>2
      <4> QED BY <2>1, <3>1, <4>1
    <3> QED BY <3>2, <3>3 DEF SameVersion
  <2>4. ExtendsLog(state, r.engine, r.loaded)
    BY <1>10, <2>2, <2>3 DEF ExtendsLog
  <2> QED BY <2>1, <2>4
<1>17. Good(c, client[c])'
  <2>1. Typed(client[c])'
    <3>1. s.pc \in Idle  BY <1>15 DEF Idle
    <3>2. s.seen \in 0..log'.saves  BY <1>9, <1>15
    <3>3. /\ s.trace \in Seq(Event) /\ s.retrieved \in Seq(mems') /\ s.selected \in Seq(Memory)
          /\ s.conflicts \in Seq(Resolution) /\ s.plan \in Seq(Fact)
      BY <1>15
    <3> QED BY <1>13, <1>15, <3>1, <3>2, <3>3 DEF Typed
  <2>2. Placed(c, client[c])'  BY <1>13, <1>15 DEF Placed, Idle, Deciding, Storing
  <2>3. Walking(client[c])'
    <3>1. Len(s.trace) = 0  BY <1>15
    <3>2. Walk(s.trace)  BY <3>1 DEF Walk
    <3> QED BY <1>13, <1>15, <3>2 DEF Walking, Walk, Goes, Storing
  <2>4. Shielded(client[c])'  BY <1>13, <1>15 DEF Shielded, Storing
  <2>5. Reported(client[c])'  BY <1>13, <1>15 DEF Reported, Storing
  <2>6. Whole(client[c])'  BY <1>13, <1>15 DEF Whole, Finished
  <2>7. UpToDate(client[c])'  BY <1>9, <1>13, <1>16 DEF UpToDate
  <2> QED BY <2>1, <2>2, <2>3, <2>4, <2>5, <2>6, <2>7 DEF Good
<1>18. ASSUME NEW d \in Client \ {c} PROVE Good(d, client[d])'
  <2>0. Good(d, client[d]) /\ client'[d] = client[d]  BY <1>8, <1>13
  <2>1. Typed(client[d]) /\ UpToDate(client[d])  BY <2>0 DEF Good
  <2>2. client[d].seen \in 0..saves  BY <1>7, <2>1 DEF Typed
  <2>3. client[d].seen \in 0..log'.saves /\ client[d].seen # log'.saves
    BY <1>9, <2>2
  <2>4. Typed(client[d])'  BY <1>5, <2>0, <2>1, <2>3 DEF Typed
  <2>5. Placed(d, client[d])'  BY <2>0 DEF Good, Placed
  <2>6. Walking(client[d])'  BY <2>0 DEF Good, Walking, Walk, EndsIn, Goes
  <2>7. Shielded(client[d])'  BY <2>0 DEF Good, Shielded
  <2>8. Reported(client[d])'  BY <2>0 DEF Good, Reported
  <2>9. Whole(client[d])'  BY <1>5, <2>0 DEF Good, Whole, Done, ListedFacts, StoresAsAsked
  <2>10. UpToDate(client[d])'  BY <2>0, <2>1, <2>3 DEF UpToDate
  <2> QED BY <2>4, <2>5, <2>6, <2>7, <2>8, <2>9, <2>10 DEF Good
<1>19. Apart'
  <2>1. s.pc # "store"  BY <1>15
  <2> QED BY <1>5, <1>6, <1>8, <1>9, <2>1, ApartKept
<1> QED BY <1>11, <1>12, <1>13, <1>17, <1>18, <1>19 DEF IInv

-----------------------------------------------------------------------------
(* Storing *)

\* Similarity is symmetric, and so is a clash.
LEMMA ClashSymmetric ==
  ASSUME NEW m \in Memory, NEW n \in Memory
  PROVE  Clash(m, n) <=> Clash(n, m)
<1>1. m[2] \in Fact /\ n[2] \in Fact  BY DEF Memory
<1>2. Near(m[2], n[2], 90) <=> Near(n[2], m[2], 90)  BY <1>1, AdmissionAssumption DEF Near
<1>3. {m[2], n[2]} = {n[2], m[2]}  OBVIOUS
<1> QED BY <1>2, <1>3 DEF Clash

\* After the list of what is stored, each fact worth a row is planned or near a stored
\* one; the plan clashes with nothing, unless another client is storing too.
LEMMA ListStep ==
  ASSUME IInv, NEW c \in Client, List(c)  PROVE IInv'
<1>1. PICK r : r = client[c]  OBVIOUS
<1>2. PICK project \in Project : project = r.request.project
  <2>1. r.pc = "list"  BY <1>1 DEF List, At
  <2> QED BY <1>1, <2>1, UnderWay DEF Storing
<1>3. PICK listed : listed = ListedFacts(project)  OBVIOUS
<1>4. PICK plan : plan = Filtered(Worthy(r), {f \in Fact : ~NearExisting(f, listed)})  OBVIOUS
<1>5. PICK s : s = [r EXCEPT !.plan = plan, !.pc = IF plan = <<>> THEN "complete" ELSE "store"]
  OBVIOUS
<1>6. /\ Become(c, s) /\ UNCHANGED <<policyFile, schedulerFile, mems, queue, used>>
      /\ log' = [log EXCEPT !.overlapped = @ \/ \E d \in Client \ {c} : At(d, "store")]
  BY <1>1, <1>2, <1>3, <1>4, <1>5 DEF List, Once
<1>7. r.pc = "list"  BY <1>1 DEF List, At
<1>8. /\ Core(c, r) /\ Good(c, r) /\ r.request \in TurnRequest /\ r.request \in Requests[c]
  BY <1>1, <1>7, UnderWay DEF Storing
<1>9. MemoriesTyped /\ FilesTyped /\ Bounded /\ Apart /\ DOMAIN client = Client
      /\ \A d \in Client : Good(d, client[d])
  BY DEF IInv
<1>10. DOMAIN log = {"saves", "last", "overlapped"} /\ log.overlapped \in BOOLEAN
  BY <1>9 DEF FilesTyped
<1>11. /\ log'.saves = log.saves /\ log'.last = log.last
       /\ DOMAIN log' = DOMAIN log
       /\ ~log'.overlapped => ~log.overlapped /\ \A d \in Client \ {c} : ~At(d, "store")
       /\ log'.overlapped \in BOOLEAN
  BY <1>6, <1>10
<1>12. Worthy(r) \in Seq(Fact)  BY <1>8, WorthyType
<1>13. /\ plan \in Seq(Fact)
       /\ Items(plan) = Items(Worthy(r)) \cap {f \in Fact : ~NearExisting(f, listed)}
  BY <1>4, <1>12, FilteredItems
<1>14. /\ DOMAIN r = ClientField /\ r.path \in {"cached", "execute", "fallback"}
       /\ r.writeback = "write" /\ Typed(r) /\ Walk(r.trace) /\ UpToDate(r)
  BY <1>7, <1>8 DEF Good, Core, Typed, Placed, Storing
<1>15. /\ Same(r, s, {"plan", "pc"}) /\ s.plan = plan
       /\ s.pc = IF plan = <<>> THEN "complete" ELSE "store"
  BY <1>5, <1>14 DEF Same, ClientField
<1>16. /\ s.request = r.request /\ s.path = r.path /\ s.writeback = r.writeback
       /\ s.trace = r.trace /\ s.injected = r.injected /\ s.retrieved = r.retrieved
       /\ s.selected = r.selected
  BY <1>15 DEF Same, ClientField
<1>17. Core(c, s)
  <2>1. s.pc \in Storing \cup Finished  BY <1>15 DEF Storing, Finished
  <2>2. Same(r, s, {"pc", "path", "writeback", "injected", "suppressed", "selected", "retrieved",
                    "plan"})
    BY <1>15 DEF Same
  <2>3. r.selected \in Seq(Memory) /\ r.retrieved \in Seq(mems)  BY <1>14 DEF Typed
  <2> QED BY <1>8, <1>13, <1>15, <1>16, <2>1, <2>2, <2>3, MovedCore
<1>18. Good(c, s)
  <2>1. Typed(s) /\ UpToDate(s) /\ Walk(s.trace)  BY <1>17 DEF Core
  <2>2. s.pc \in {"store", "complete"}  BY <1>15
  <2>3. Placed(c, s)
    BY <1>8, <1>14, <1>15, <1>16 DEF Placed, Idle, Deciding, Storing
  <2>4. Walking(s)
    <3>1. EndsIn(r.trace, IF r.path = "fallback" THEN {<<"fallback_lightweight", "fallback">>}
                          ELSE BeforeExecute)
      BY <1>7, <1>8 DEF Good, Walking, Storing
    <3> QED BY <1>16, <2>1, <2>2, <3>1 DEF Walking
  <2>5. Shielded(s)
    <3>1. \A e \in r.injected : Has(e[2][2], "sensitive") => r.request.allowSensitive
      BY <1>7, <1>8 DEF Good, Shielded, Storing
    <3> QED BY <1>16, <2>2, <3>1 DEF Shielded, Idle, Deciding
  <2>6. Reported(s)
    <3>1. Reported(r) /\ r.pc \in Storing  BY <1>7, <1>8 DEF Good, Storing
    <3> QED BY <1>16, <2>2, <3>1 DEF Reported
  <2>7. Whole(s)
    <3>1. Worthy(s) = Worthy(r)  BY <1>16, SameWorthy
    <3>2. ASSUME NEW f \in Items(Worthy(r)), f \notin Items(plan) PROVE Done(s, f)
      <4>1. f \in Fact
        <5>1. Items(Worthy(r)) \subseteq Fact  BY <1>12, SeqOfItems
        <5> QED BY <5>1
      <4>2. NearExisting(f, listed)  BY <1>13, <3>2, <4>1
      <4> QED BY <1>2, <1>3, <1>16, <4>2 DEF Done
    <3>3. plan = <<>> => Items(plan) = {}  BY DEF Items
    <3>4. Items(plan) \subseteq Items(Worthy(r))  BY <1>13
    <3>5. CASE plan = <<>>  BY <1>15, <3>1, <3>2, <3>3, <3>5 DEF Whole
    <3>6. CASE plan # <<>>  BY <1>15, <3>1, <3>2, <3>4, <3>6 DEF Whole, Finished
    <3> QED BY <3>5, <3>6
  <2> QED BY <2>1, <2>3, <2>4, <2>5, <2>6, <2>7 DEF Good
<1>19. Good(c, client[c])' /\ DOMAIN client' = Client /\ client'[c] = s
       /\ \A d \in Client \ {c} : client'[d] = client[d]
  BY <1>6, <1>9, <1>11, <1>18, MoverKept
<1>20. \A d \in Client : Good(d, client[d])'
  <2> SUFFICES ASSUME NEW d \in Client PROVE Good(d, client[d])'  OBVIOUS
  <2>1. CASE d = c  BY <1>19, <2>1
  <2>2. CASE d # c
    <3>1. client'[d] = client[d] /\ Good(d, client[d])  BY <1>9, <1>19, <2>2
    <3> QED BY <1>6, <1>11, <3>1, OthersKept
  <2> QED BY <2>1, <2>2
<1>21. Apart'
  <2> SUFFICES ASSUME ~log'.overlapped
               PROVE  /\ \A d, e \in Client : At(d, "store")' /\ At(e, "store")' => d = e
                      /\ \A d \in Client : At(d, "store")' =>
                            \A f \in Items(client'[d].plan), n \in mems :
                               ~Clash(<<client'[d].request.project, f>>, n)
                      /\ \A m \in mems \ InitialMemories, n \in mems : ~Clash(m, n)
    BY <1>6 DEF Apart, Clash
  <2>1. ~log.overlapped /\ \A d \in Client \ {c} : ~At(d, "store")  BY <1>11
  <2>2. \A d \in Client : At(d, "store")' => d = c  BY <1>19, <2>1 DEF At
  <2>3. \A m \in mems \ InitialMemories, n \in mems : ~Clash(m, n)  BY <1>9, <2>1 DEF Apart
  <2>4. ASSUME NEW f \in Items(plan), NEW n \in mems PROVE ~Clash(<<project, f>>, n)
    <3> SUFFICES ASSUME Clash(<<project, f>>, n) PROVE FALSE  OBVIOUS
    <3>1. n[1] = project /\ ~Has(n[2], "sensitive") /\ MemoryType(n[2]) = MemoryType(f)
          /\ Near(f, n[2], 90)
      BY DEF Clash
    <3>2. n \in Listed(mems, project, FALSE)  BY <3>1 DEF Listed
    <3>3. n[2] \in listed  BY <1>3, <3>2 DEF ListedFacts
    <3>4. NearExisting(f, listed)  BY <3>1, <3>3 DEF NearExisting
    <3> QED BY <1>13, <3>4
  <2>5. client'[c].plan = plan /\ client'[c].request.project = project
    BY <1>2, <1>15, <1>16, <1>19
  <2> QED BY <2>2, <2>3, <2>4, <2>5
<1>22. FilesTyped'  BY <1>6, <1>9, <1>10, <1>11 DEF FilesTyped
<1>23. MemoriesTyped' /\ Bounded'  BY <1>6, <1>9 DEF MemoriesTyped, Bounded
<1> QED BY <1>19, <1>20, <1>21, <1>22, <1>23 DEF IInv

\* What is seen to stays so while memories and candidates are added.
LEMMA DoneGrows ==
  ASSUME NEW project, NEW f, mems \subseteq mems', queue \subseteq queue',
         \/ <<project, f>> \in mems \cup queue
         \/ NearExisting(f, ListedFacts(project))
  PROVE  \/ <<project, f>> \in mems' \cup queue'
         \/ NearExisting(f, {m[2] : m \in Listed(mems', project, FALSE)})
<1>1. CASE <<project, f>> \in mems \cup queue  BY <1>1
<1>2. CASE NearExisting(f, ListedFacts(project))
  <2>1. Listed(mems, project, FALSE) \subseteq Listed(mems', project, FALSE)  BY DEF Listed
  <2>2. ListedFacts(project) \subseteq {m[2] : m \in Listed(mems', project, FALSE)}
    BY <2>1 DEF ListedFacts
  <2> QED BY <1>2, <2>2 DEF NearExisting
<1> QED BY <1>1, <1>2

\* The others do not notice that a memory or a candidate is added.
LEMMA OthersKeptByStore ==
  ASSUME NEW d \in Client, Good(d, client[d]), client'[d] = client[d],
         mems \subseteq mems', queue \subseteq queue', log' = log
  PROVE  Good(d, client[d])'
<1>1. PICK r : r = client[d]  OBVIOUS
<1>2. client'[d] = r /\ Good(d, r)  BY <1>1
<1>3. Typed(client[d])'
  <2>1. Typed(r)  BY <1>2 DEF Good
  <2>2. r.retrieved \in Seq(mems')
    <3>1. r.retrieved \in Seq(mems)  BY <2>1 DEF Typed
    <3> QED BY <3>1, SeqOfSuperset
  <2> QED BY <1>2, <2>1, <2>2 DEF Typed
<1>4. Placed(d, client[d])'  BY <1>2 DEF Good, Placed
<1>5. Walking(client[d])'  BY <1>2 DEF Good, Walking, Walk, EndsIn, Goes
<1>6. Shielded(client[d])'  BY <1>2 DEF Good, Shielded
<1>7. Reported(client[d])'  BY <1>2 DEF Good, Reported
<1>8. Whole(client[d])'
  <2>1. Whole(r)  BY <1>2 DEF Good
  <2>2. \A f : Done(r, f) =>
           \/ <<r.request.project, f>> \in mems' \cup queue'
           \/ NearExisting(f, {m[2] : m \in Listed(mems', r.request.project, FALSE)})
    BY DoneGrows DEF Done
  <2> QED BY <1>2, <2>1, <2>2 DEF Whole, Done, ListedFacts, StoresAsAsked
<1>9. UpToDate(client[d])'  BY <1>2 DEF Good, UpToDate
<1> QED BY <1>3, <1>4, <1>5, <1>6, <1>7, <1>8, <1>9 DEF Good

\* Each store takes the head of the plan: it has a row, it waits for review, or a memory
\* near it is listed; the rest of the plan keeps apart from it.
LEMMA StoreStep ==
  ASSUME IInv, NEW c \in Client, Store(c)  PROVE IInv'
<1>1. PICK r : r = client[c]  OBVIOUS
<1>2. PICK f : f = Head(r.plan)  OBVIOUS
<1>3. PICK project \in Project : project = r.request.project
  <2>1. r.pc = "store"  BY <1>1 DEF Store, At
  <2> QED BY <1>1, <2>1, UnderWay DEF Storing
<1>4. PICK m : m = <<project, f>>  OBVIOUS
<1>5. PICK s : s = [r EXCEPT !.plan = Tail(r.plan),
                             !.pc = IF Len(r.plan) = 1 THEN "complete" ELSE "store"]
  OBVIOUS
<1>6. /\ Become(c, s) /\ UNCHANGED <<policyFile, schedulerFile, used, log>>
      /\ \/ mems' = mems \cup {m} /\ queue' = queue
         \/ mems' = mems /\ queue' = queue \cup {m}
  BY <1>1, <1>2, <1>3, <1>4, <1>5 DEF Store, Advanced
<1>7. mems \subseteq mems' /\ queue \subseteq queue' /\ m \in mems' \cup queue'
      /\ mems' \subseteq mems \cup {m} /\ queue' \subseteq queue \cup {m}
  BY <1>6
<1>8. r.pc = "store"  BY <1>1 DEF Store, At
<1>9. /\ Core(c, r) /\ Good(c, r) /\ r.request \in TurnRequest /\ r.request \in Requests[c]
  BY <1>1, <1>8, UnderWay DEF Storing
<1>10. MemoriesTyped /\ FilesTyped /\ Bounded /\ Apart /\ DOMAIN client = Client
       /\ \A d \in Client : Good(d, client[d])
  BY DEF IInv
<1>11. /\ DOMAIN r = ClientField /\ r.path \in {"cached", "execute", "fallback"}
       /\ r.writeback = "write" /\ Typed(r) /\ Walk(r.trace) /\ UpToDate(r)
       /\ r.plan # <<>> /\ r.plan \in Seq(Fact)
  BY <1>8, <1>9 DEF Good, Core, Typed, Placed, Storing
<1>12. /\ Items(r.plan) \subseteq Items(Worthy(r))
       /\ \A g \in Items(Worthy(r)) : g \in Items(r.plan) \/ Done(r, g)
  BY <1>8, <1>9 DEF Good, Whole
<1>13. /\ Worthy(r) \in Seq(Fact)
       /\ Items(Worthy(r)) \subseteq Items(r.request.segments)
       /\ \A g \in Items(Worthy(r)) : Text[g].type \in StoredType
  BY <1>9, WorthyType
<1>14. PICK rest : rest = Tail(r.plan)  OBVIOUS
<1>15. /\ rest \in Seq(Fact) /\ Len(rest) = Len(r.plan) - 1
       /\ Items(r.plan) = Items(rest) \cup {f}
  BY <1>2, <1>11, <1>14, ItemsOfTail
<1>16. f \in Fact /\ f \in Items(Worthy(r)) /\ Text[f].type \in StoredType
  <2>1. f \in Items(r.plan)  BY <1>15
  <2>2. Items(r.plan) \subseteq Fact  BY <1>11, SeqOfItems
  <2> QED BY <1>12, <1>13, <2>1, <2>2
<1>17. m \in Memory /\ m[1] = project /\ m[2] = f  BY <1>4, <1>16 DEF Memory
<1>18. MemoriesTyped'
  <2>1. IsFiniteSet(mems) /\ IsFiniteSet(mems \cup {m})  BY <1>10, FS_AddElement DEF MemoriesTyped
  <2> QED BY <1>6, <1>10, <1>16, <1>17, <2>1 DEF MemoriesTyped
<1>19. FilesTyped' /\ Bounded'  BY <1>6, <1>10 DEF FilesTyped, Bounded
<1>20. /\ client'[c] = s /\ DOMAIN client' = Client
       /\ \A d \in Client \ {c} : client'[d] = client[d]
  BY <1>6, <1>10 DEF Become
<1>21. /\ Same(r, s, {"plan", "pc"}) /\ s.plan = rest
       /\ s.pc = IF Len(r.plan) = 1 THEN "complete" ELSE "store"
  BY <1>5, <1>11, <1>14 DEF Same, ClientField
<1>22. /\ s.request = r.request /\ s.path = r.path /\ s.writeback = r.writeback
       /\ s.trace = r.trace /\ s.injected = r.injected /\ s.retrieved = r.retrieved
       /\ s.selected = r.selected /\ s.suppressed = r.suppressed
  BY <1>21 DEF Same, ClientField
<1>23. Core(c, s)
  <2>1. s.pc \in Storing \cup Finished  BY <1>21 DEF Storing, Finished
  <2>2. Same(r, s, {"pc", "path", "writeback", "injected", "suppressed", "selected", "retrieved",
                    "plan"})
    BY <1>21 DEF Same
  <2>3. r.selected \in Seq(Memory) /\ r.retrieved \in Seq(mems)  BY <1>11 DEF Typed
  <2> QED BY <1>9, <1>15, <1>21, <1>22, <2>1, <2>2, <2>3, MovedCore
<1>24. s.pc \in {"store", "complete"}  BY <1>21
<1>25. Good(c, client[c])'
  <2>1. Typed(s) /\ UpToDate(s) /\ Walk(s.trace)  BY <1>23 DEF Core
  <2>2. Typed(client[c])'
    <3>1. s.retrieved \in Seq(mems')
      <4>1. s.retrieved \in Seq(mems)  BY <2>1 DEF Typed
      <4> QED BY <1>7, <4>1, SeqOfSuperset
    <3> QED BY <1>6, <1>20, <2>1, <3>1 DEF Typed
  <2>3. Placed(c, client[c])'
    <3>1. s.pc = "store" => rest # <<>>
      <4>1. Len(r.plan) # 1 => Len(rest) # 0  BY <1>11, <1>15
      <4>2. Len(<<>>) = 0  OBVIOUS
      <4> QED BY <1>21, <4>1, <4>2
    <3> QED BY <1>9, <1>11, <1>20, <1>21, <1>22, <1>24, <3>1 DEF Placed, Idle, Deciding, Storing
  <2>4. Walking(client[c])'
    <3>1. EndsIn(r.trace, IF r.path = "fallback" THEN {<<"fallback_lightweight", "fallback">>}
                          ELSE BeforeExecute)
      BY <1>8, <1>9 DEF Good, Walking, Storing
    <3> QED BY <1>20, <1>22, <1>24, <2>1, <3>1 DEF Walking, Walk, EndsIn, Goes
  <2>5. Shielded(client[c])'
    <3>1. \A e \in r.injected : Has(e[2][2], "sensitive") => r.request.allowSensitive
      BY <1>8, <1>9 DEF Good, Shielded, Storing
    <3> QED BY <1>20, <1>22, <1>24, <3>1 DEF Shielded, Idle, Deciding
  <2>6. Reported(client[c])'
    <3>1. Reported(r) /\ r.pc \in Storing  BY <1>8, <1>9 DEF Good, Storing
    <3> QED BY <1>20, <1>22, <1>24, <3>1 DEF Reported
  <2>7. Whole(client[c])'
    <3>1. Worthy(s) = Worthy(r)  BY <1>22, SameWorthy
    <3>2. PICK listed : listed = {n[2] : n \in Listed(mems', project, FALSE)}  OBVIOUS
    <3>3. ASSUME NEW g \in Items(Worthy(r)), g \notin Items(rest)
          PROVE  <<project, g>> \in mems' \cup queue' \/ NearExisting(g, listed)
      <4>1. CASE g = f  BY <1>4, <1>7, <4>1
      <4>2. CASE g # f
        <5>1. Done(r, g)  BY <1>12, <1>15, <3>3, <4>2
        <5>2. <<project, g>> \in mems \cup queue \/ NearExisting(g, ListedFacts(project))
          BY <1>3, <5>1 DEF Done
        <5> QED BY <1>7, <3>2, <5>2, DoneGrows
      <4> QED BY <4>1, <4>2
    <3>4. Items(rest) \subseteq Items(Worthy(r))  BY <1>12, <1>15
    <3>5. s.pc = "complete" => Items(rest) = {}
      <4> SUFFICES ASSUME s.pc = "complete" PROVE Items(rest) = {}  OBVIOUS
      <4>1. Len(rest) = 0  BY <1>11, <1>15, <1>21
      <4>2. DOMAIN rest = 1..Len(rest)  BY <1>15
      <4> QED BY <4>1, <4>2 DEF Items
    <3>6. s.request.project = project  BY <1>3, <1>22
    <3>7. CASE s.pc = "store"
      BY <1>20, <1>21, <3>1, <3>2, <3>3, <3>4, <3>6, <3>7 DEF Whole, Done, ListedFacts, Finished
    <3>8. CASE s.pc = "complete"
      BY <1>20, <1>21, <3>1, <3>2, <3>3, <3>5, <3>6, <3>8 DEF Whole, Done, ListedFacts
    <3> QED BY <1>24, <3>7, <3>8
  <2>8. UpToDate(client[c])'  BY <1>6, <1>20, <2>1 DEF UpToDate
  <2> QED BY <2>2, <2>3, <2>4, <2>5, <2>6, <2>7, <2>8 DEF Good
<1>26. \A d \in Client : Good(d, client[d])'
  <2> SUFFICES ASSUME NEW d \in Client PROVE Good(d, client[d])'  OBVIOUS
  <2>1. CASE d = c  BY <1>25, <2>1
  <2>2. CASE d # c
    <3>1. client'[d] = client[d] /\ Good(d, client[d])  BY <1>10, <1>20, <2>2
    <3>2. log' = log  BY <1>6
    <3> QED BY <1>7, <3>1, <3>2, OthersKeptByStore
  <2> QED BY <2>1, <2>2
<1>27. Apart'
  <2> SUFFICES ASSUME ~log.overlapped
               PROVE  /\ \A d, e \in Client : At(d, "store")' /\ At(e, "store")' => d = e
                      /\ \A d \in Client : At(d, "store")' =>
                            \A g \in Items(client'[d].plan), n \in mems' :
                               ~Clash(<<client'[d].request.project, g>>, n)
                      /\ \A k \in mems' \ InitialMemories, n \in mems' : ~Clash(k, n)
    BY <1>6 DEF Apart, Clash
  <2>1. /\ \A d, e \in Client : At(d, "store") /\ At(e, "store") => d = e
        /\ \A g \in Items(r.plan), n \in mems : ~Clash(<<project, g>>, n)
        /\ \A k \in mems \ InitialMemories, n \in mems : ~Clash(k, n)
    BY <1>1, <1>3, <1>8, <1>10 DEF Apart, At
  <2>2. \A d \in Client : At(d, "store")' => d = c  BY <1>1, <1>8, <1>20, <2>1 DEF At
  <2>3. client'[c].plan = rest /\ client'[c].request.project = project
    BY <1>3, <1>20, <1>21, <1>22
  <2>4. ASSUME NEW g \in Items(rest), NEW n \in mems' PROVE ~Clash(<<project, g>>, n)
    <3>1. CASE n \in mems  BY <1>15, <2>1, <3>1
    <3>2. CASE n = m
      <4>1. {g, f} \subseteq Items(r.request.segments)  BY <1>12, <1>13, <1>15
      <4>2. \E d \in Client : \E request \in Requests[d] : {g, f} \subseteq Items(request.segments)
        BY <1>9, <4>1
      <4> QED BY <1>17, <3>2, <4>2 DEF Clash
    <3> QED BY <1>7, <3>1, <3>2
  <2>5. ASSUME NEW n \in mems PROVE ~Clash(m, n) /\ ~Clash(n, m)
    <3>1. ~Clash(m, n)  BY <1>4, <1>15, <2>1
    <3>2. n \in Memory  BY <1>10 DEF MemoriesTyped
    <3> QED BY <1>17, <3>1, <3>2, ClashSymmetric
  <2>6. ~Clash(m, m)  BY DEF Clash
  <2>7. ASSUME NEW k \in mems' \ InitialMemories, NEW n \in mems' PROVE ~Clash(k, n)
    <3>1. k \in mems \/ k = m  BY <1>7
    <3>2. n \in mems \/ n = m  BY <1>7
    <3> QED BY <2>1, <2>5, <2>6, <3>1, <3>2
  <2> QED BY <2>2, <2>3, <2>4, <2>7
<1> QED BY <1>18, <1>19, <1>20, <1>26, <1>27 DEF IInv

-----------------------------------------------------------------------------
(* The invariant *)

\* At the start no client has a turn, and the file is what was saved last.
LEMMA InitInvariant == Init => IInv
<1> SUFFICES ASSUME Init PROVE IInv  OBVIOUS
<1>1. PICK state \in InitialPolicies : policyFile = File(state)  BY DEF Init
<1>2. /\ schedulerFile = FreshScheduler /\ mems = InitialMemories /\ queue = {}
      /\ client = [c \in Client |-> Closed]
      /\ used = [turns |-> 0, failures |-> 0, rollbacks |-> 0]
      /\ log = [saves |-> 0, last |-> policyFile.state, overlapped |-> FALSE]
  BY DEF Init
<1>3. policyFile.kind = "ok" /\ policyFile.state = state  BY <1>1 DEF File
<1>4. /\ DOMAIN log = {"saves", "last", "overlapped"} /\ log.saves = 0 /\ log.last = state
      /\ log.overlapped \in BOOLEAN
  BY <1>2, <1>3
<1>5. Sound(state) /\ \A i \in DOMAIN state.versions : ~state.versions[i].after.live
  <2>1. SavedState(state)  BY TurnAssumption
  <2> QED BY <2>1, SavedSound
<1>6. MemoriesTyped  BY <1>2, TurnAssumption DEF MemoriesTyped, Memory
<1>7. FilesTyped
  <2>1. schedulerFile \in SchedulerState  BY <1>2, FreshType
  <2> QED BY <1>3, <1>4, <1>5, <2>1 DEF FilesTyped
<1>8. Bounded  BY <1>2, TurnAssumption DEF Bounded
<1>9. DOMAIN client = Client /\ \A c \in Client : client[c] = Closed  BY <1>2
<1>10. ASSUME NEW c \in Client PROVE Good(c, client[c]) /\ ~At(c, "store")
  <2>1. log.saves \in Nat  BY <1>4
  <2>2. Good(c, Closed) /\ Closed.pc = "closed"  BY <2>1, ClosedGood
  <2> QED BY <1>9, <2>2 DEF At
<1>11. Apart  BY <1>2, <1>10 DEF Apart
<1> QED BY <1>6, <1>7, <1>8, <1>9, <1>10, <1>11 DEF IInv

\* Whatever a client does, the invariant stays.
LEMMA StepInvariant ==
  ASSUME IInv, NEW c \in Client, Step(c)  PROVE IInv'
<1>1. CASE LoadScheduler(c)  BY <1>1, LoadSchedulerStep
<1>2. CASE Rank(c)  BY <1>2, RankStep
<1>3. CASE SkipMemory(c)  BY <1>3, SkipMemoryStep
<1>4. CASE UseFullBundle(c)  BY <1>4, UseFullBundleStep
<1>5. CASE Execute(c)  BY <1>5, ExecuteStep
<1>6. CASE Operate(c)  BY <1>6, OperateStep
<1>7. CASE List(c)  BY <1>7, ListStep
<1>8. CASE Store(c)  BY <1>8, StoreStep
<1>9. CASE Complete(c)  BY <1>9, CompleteStep
<1>10. CASE Cycle(c)  BY <1>10, CycleStep
<1>11. CASE Truncate(c)  BY <1>11, TruncateStep
<1>12. CASE Write(c)  BY <1>12, WriteStep
<1> QED BY <1>1, <1>2, <1>3, <1>4, <1>5, <1>6, <1>7, <1>8, <1>9, <1>10, <1>11, <1>12 DEF Step

\* Every step keeps the invariant, and so does a step of nobody.
LEMMA NextInvariant == IInv /\ [Next]_vars => IInv'
<1> SUFFICES ASSUME IInv, [Next]_vars PROVE IInv'  OBVIOUS
<1>1. CASE UNCHANGED vars
  <2>1. UNCHANGED <<policyFile, schedulerFile, mems, queue, client, used, log>>
    BY <1>1 DEF vars
  <2>2. /\ MemoriesTyped /\ FilesTyped /\ Bounded /\ DOMAIN client = Client /\ Apart
        /\ \A d \in Client : Good(d, client[d])
    BY DEF IInv
  <2>3. ASSUME NEW d \in Client PROVE Good(d, client[d])'
    <3>1. Good(d, client[d]) /\ client'[d] = client[d]  BY <2>1, <2>2
    <3> QED BY <2>1, <3>1, OthersKept
  <2>4. MemoriesTyped' /\ FilesTyped' /\ Bounded'
    BY <2>1, <2>2 DEF MemoriesTyped, FilesTyped, Bounded
  <2>5. Apart'  BY <2>1, <2>2 DEF Apart, At
  <2>6. DOMAIN client' = Client  BY <2>1, <2>2
  <2> QED BY <2>3, <2>4, <2>5, <2>6 DEF IInv
<1>2. CASE Next
  <2>1. PICK c \in Client :
          \/ Open(c)
          \/ \E request \in Requests[c] : Begin(c, request)
          \/ Step(c)
          \/ \E id \in DOMAIN client[c].engine.versions : RollBack(c, id)
          \/ Fail(c) \/ SaveFails(c) \/ Crash(c)
    BY <1>2 DEF Next
  <2>2. CASE Open(c)  BY <2>2, OpenStep
  <2>3. CASE \E request \in Requests[c] : Begin(c, request)  BY <2>3, BeginStep
  <2>4. CASE Step(c)  BY <2>4, StepInvariant
  <2>5. CASE \E id \in DOMAIN client[c].engine.versions : RollBack(c, id)  BY <2>5, RollBackStep
  <2>6. CASE Fail(c)  BY <2>6, FailStep
  <2>7. CASE SaveFails(c)  BY <2>7, SaveFailsStep
  <2>8. CASE Crash(c)  BY <2>8, CrashStep
  <2> QED BY <2>1, <2>2, <2>3, <2>4, <2>5, <2>6, <2>7, <2>8
<1> QED BY <1>1, <1>2

\* The inductive invariant: what the turns, the memories and the two files keep
\* over every interleaving, failure, crash and rollback.
THEOREM Invariant == Spec => []IInv
<1> QED BY InitInvariant, NextInvariant, PTL DEF Spec

-----------------------------------------------------------------------------
(* What the runs check *)

\* The places of a turn are in their order.
LEMMA PlacesAre ==
  /\ TurnPC = {"rank", "weigh", "bundle", "execute", "operate", "list", "store", "complete",
               "cycle", "save", "write"}
  /\ DOMAIN Places = 1..11
  /\ Places[1] = "rank" /\ Places[2] = "weigh" /\ Places[3] = "bundle" /\ Places[4] = "execute"
  /\ Places[5] = "operate" /\ Places[6] = "list" /\ Places[7] = "store"
  /\ Places[8] = "complete" /\ Places[9] = "cycle" /\ Places[10] = "save" /\ Places[11] = "write"
<1>1. /\ DOMAIN Places = 1..11
      /\ Places[1] = "rank" /\ Places[2] = "weigh" /\ Places[3] = "bundle"
      /\ Places[4] = "execute" /\ Places[5] = "operate" /\ Places[6] = "list"
      /\ Places[7] = "store" /\ Places[8] = "complete" /\ Places[9] = "cycle"
      /\ Places[10] = "save" /\ Places[11] = "write"
  BY DEF Places
<1>2. TurnPC = {"rank", "weigh", "bundle", "execute", "operate", "list", "store", "complete",
                "cycle", "save", "write"}
  <2> HIDE DEF Places
  <2>1. TurnPC = {Places[i] : i \in 1..11}  BY <1>1 DEF TurnPC, Items
  <2> QED BY <1>1, <2>1
<1> QED BY <1>1, <1>2

\* Every variable has its type, and every event a turn traces is in the graph.
THEOREM TypesAlwaysOK == Spec => []TypeOK
<1>1. IInv => TypeOK
  <2> SUFFICES ASSUME IInv PROVE TypeOK  OBVIOUS
  <2>1. policyFile.kind \in {"ok", "broken"} /\ schedulerFile.turns \in Nat
    BY DEF IInv, FilesTyped, SchedulerState
  <2>2. mems \subseteq Project \X Fact /\ queue \subseteq Project \X Fact
    BY DEF IInv, MemoriesTyped, Memory
  <2>3. used.turns \in 0..MaxTurns /\ used.failures \in 0..MaxFailures  BY DEF IInv, Bounded
  <2>4. ASSUME NEW c \in Client
        PROVE  /\ client[c].pc \in TurnPC \cup {"closed", "opening", "ready"}
               /\ Items(client[c].trace) \subseteq Event
               /\ Items(client[c].retrieved) \subseteq mems
               /\ client[c].decision.action \in RecallAction
               /\ client[c].path \in {"none", "cached", "execute", "fallback", "rollback"}
    <3> PICK r : r = client[c]  OBVIOUS
    <3>1. Typed(r) /\ Placed(c, r)  BY Unfolded
    <3>2. r.pc \in {"closed", "opening", "ready"} \cup Deciding \cup {"operate"} \cup Storing
                     \cup Finished
      BY <3>1 DEF Typed, Idle
    <3>3. {"rank", "weigh", "bundle", "execute", "operate", "list", "store", "complete", "cycle",
           "save", "write"} \subseteq TurnPC
      BY PlacesAre
    <3>4. r.pc \in TurnPC \cup {"closed", "opening", "ready"}
      BY <3>2, <3>3 DEF Deciding, Storing, Finished
    <3>5. Items(r.trace) \subseteq Event /\ Items(r.retrieved) \subseteq mems
      BY <3>1 DEF Typed, Items
    <3>6. r.path \in {"none", "cached", "execute", "fallback", "rollback"}
      BY <3>1, <3>2 DEF Placed, Idle, Deciding, Storing, Finished
    <3> QED BY <3>1, <3>4, <3>5, <3>6 DEF Typed
  <2> QED BY <2>1, <2>2, <2>3, <2>4 DEF TypeOK
<1> QED BY <1>1, Invariant, PTL

\* The trace of every turn, of any length, through every failure, fallback and stop in
\* safe mode, goes along the edges of the turn decision graph.
THEOREM TracesWalk == Spec => []TraceIsAWalk
<1>1. IInv => TraceIsAWalk
  BY DEF IInv, Good, Walking, Walk, Goes, TraceIsAWalk
<1> QED BY <1>1, Invariant, PTL

\* The ids of the policy engine's versions are their places in its log, whatever
\* number of turns, rollbacks, lost saves and unreadable files came before.
THEOREM VersionsStayDistinct == Spec => []VersionsAreDistinct
<1>1. IInv => VersionsAreDistinct
  BY DEF IInv, FilesTyped, Good, Typed, Sound, VersionsAreDistinct
<1> QED BY <1>1, Invariant, PTL

\* What the engines learn over all projects is the sum of what they learn in each:
\* adjust_edge, decay, snapshots, saves and rollbacks all keep the two together.
THEOREM GlobalStaysTheSum == Spec => []GlobalIsSumOfProjects
<1>1. IInv => GlobalIsSumOfProjects
  BY DEF IInv, FilesTyped, Good, Typed, Sound, GlobalIsSumOfProjects
<1> QED BY <1>1, Invariant, PTL

\* A turn that stores is done with every fact worth a row, though a store may fail half
\* way and be done again by the fallback, and others may store between.
THEOREM WritebackStaysWhole == Spec => []WritebackIsWhole
<1>1. IInv => WritebackIsWhole
  BY DEF IInv, Good, Whole, Done, Finished, WritebackIsWhole
<1> QED BY <1>1, Invariant, PTL

\* While stores of two clients do not overlap, the reuse check keeps near copies out of
\* the table; near ones can only come in one text.
THEOREM StoresStayApart == Spec => []SequentialStoresKeepApart
<1>1. IInv => SequentialStoresKeepApart
  <2> SUFFICES ASSUME Apart PROVE SequentialStoresKeepApart  BY DEF IInv
  <2> QED BY DEF Apart, Clash, SequentialStoresKeepApart
<1> QED BY <1>1, Invariant, PTL

\* Whatever turns, failures, kills and rollbacks come between, a policy file that can be
\* read holds what TurnAssumption asks of the file a process finds.
THEOREM FileIsSaved == Spec => [](policyFile.kind = "ok" => SavedState(policyFile.state))
<1>1. IInv => (policyFile.kind = "ok" => SavedState(policyFile.state))
  BY SoundIsSaved DEF IInv, FilesTyped
<1> QED BY <1>1, Invariant, PTL

\* What a pack, a bundle or a search shows has nothing that its retrieval found to be
\* suppressed, but in a bundle's profile, whatever others stored between its retrieval
\* and the operation.
THEOREM SuppressedStaysOut == Spec => []SuppressedOnlyInProfile
<1>1. IInv => SuppressedOnlyInProfile
  BY DEF IInv, Good, Reported, SuppressedOnlyInProfile
<1> QED BY <1>1, Invariant, PTL

\* No path through the graph, also not by failure or cache, shows a sensitive memory
\* to a request that does not allow it.
THEOREM SensitiveStaysOut == Spec => []SafeModeKeepsSensitiveOut
<1>1. IInv => SafeModeKeepsSensitiveOut
  BY DEF IInv, Good, Shielded, SafeModeKeepsSensitiveOut
<1> QED BY <1>1, Invariant, PTL

-----------------------------------------------------------------------------
(* What a save may do *)

\* A step that counts a save is the write of a client, and no other client moves.
LEMMA OnlyWriteSaves ==
  ASSUME IInv, [Next]_vars, log'.saves > log.saves
  PROVE  \E c \in Client : Write(c) /\ \A d \in Client \ {c} : client'[d] = client[d]
<1>1. log.saves \in Nat /\ DOMAIN log = {"saves", "last", "overlapped"} /\ DOMAIN client = Client
  BY DEF IInv, FilesTyped
<1>2. log' # log  BY <1>1
<1>3. PICK c \in Client : Write(c) \/ List(c)
  BY <1>2 DEF Next, vars, Step, Open, LoadScheduler, Begin, Rank, SkipMemory, UseFullBundle,
              Execute, Operate, Store, Complete, Cycle, Truncate, RollBack, Fail, SaveFails, Crash
<1>4. ~List(c)
  <2> SUFFICES ASSUME List(c) PROVE FALSE  OBVIOUS
  <2> PICK overlapped : log' = [log EXCEPT !.overlapped = overlapped]  BY DEF List
  <2>1. log'.saves = log.saves  BY <1>1
  <2> QED BY <1>1, <2>1
<1>5. Write(c)  BY <1>3, <1>4
<1>6. PICK s : Become(c, s)  BY <1>5 DEF Write
<1>7. \A d \in Client \ {c} : client'[d] = client[d]  BY <1>1, <1>6 DEF Become
<1> QED BY <1>5, <1>7

\* A save whose engine knows of every earlier one extends the log that was saved
\* last: whatever a save, a failure or a rollback between did to the engine, the
\* versions that it had keep their places and their numbers.
THEOREM SavesExtend == Spec => SaveExtendsTheLog
<1> DEFINE Saving(c) ==
      At(c, "write") /\ log'.saves > log.saves /\ client'[c].pc # "write"
        /\ client[c].sound /\ client[c].seen = log.saves =>
      ExtendsLog(log.last, policyFile'.state, client[c].loaded)
<1>1. IInv /\ [Next]_vars => [\A c \in Client : Saving(c)]_vars
  <2> SUFFICES ASSUME IInv, [Next]_vars, NEW c \in Client, At(c, "write"),
                      log'.saves > log.saves, client'[c].pc # "write", client[c].sound,
                      client[c].seen = log.saves
               PROVE  ExtendsLog(log.last, policyFile'.state, client[c].loaded)
    OBVIOUS
  <2>1. PICK d \in Client : Write(d) /\ \A e \in Client \ {d} : client'[e] = client[e]
    BY OnlyWriteSaves
  <2>2. d = c  BY <2>1 DEF At
  <2>3. PICK r : r = client[c]  OBVIOUS
  <2>4. PICK state : state = Written(r.engine)  OBVIOUS
  <2>5. policyFile' = File(state)  BY <2>1, <2>2, <2>3, <2>4 DEF Write, Once
  <2>6. policyFile'.state = state  BY <2>5 DEF File
  <2>7. /\ Sound(log.last) /\ UpToDate(r) /\ Sound(r.engine) /\ r.loaded \in Nat
        /\ r.pc # "closed" /\ DOMAIN r = ClientField
    BY <2>3, Unfolded DEF At, Typed
  <2>8. Sound(state) /\ LogKept(r.engine, state)  BY <2>4, <2>7, WrittenSound
  <2>9. PICK s : s = [r EXCEPT !.engine = state]  OBVIOUS
  <2>10. /\ s.engine = state /\ s.loaded = r.loaded /\ s.sound = r.sound /\ s.seen = r.seen
         /\ s.pc = r.pc
    BY <2>7, <2>9 DEF ClientField
  <2>11. UpToDate(s)  BY <2>7, <2>8, <2>10, KeptUpToDate
  <2>12. ExtendsLog(log.last, s.engine, s.loaded)
    BY <2>3, <2>7, <2>10, <2>11 DEF UpToDate
  <2> QED BY <2>3, <2>6, <2>10, <2>12
<1> QED BY <1>1, Invariant, PTL DEF Spec, SaveExtendsTheLog

-----------------------------------------------------------------------------
(* A turn advances *)

\* The place of a client that is in a turn is the index of its counter.
LEMMA PlaceIs ==
  ASSUME NEW r, NEW i \in 1..11, Places[i] = r.pc
  PROVE  Place(r) = i
<1>1. \A j \in 1..11 : Places[j] = Places[i] => j = i  BY PlacesAre
<1> QED BY <1>1, PlacesAre DEF Place

\* A later place is nearer to the end, unless a fallback is undone.
LEMMA LaterIsNearer ==
  ASSUME NEW r, NEW s, NEW i \in 1..11, NEW j \in 1..11, Places[i] = r.pc, Places[j] = s.pc,
         i < j, r.path = "fallback" => s.path = "fallback"
  PROVE  Nearer(r, s)
<1>1. Place(r) = i /\ Place(s) = j  BY PlaceIs
<1> QED BY <1>1 DEF Nearer

\* _finish leaves the turn's path as it is.
LEMMA FinishingMoves ==
  ASSUME NEW r, DOMAIN Finishing(r) = ClientField
  PROVE  Finishing(r).pc \in {"list", "complete"} /\ Finishing(r).path = r.path
BY DEF Finishing, ClientField

\* A fallback is known by its path.
LEMMA FallingBackMoves ==
  ASSUME NEW r, DOMAIN FallingBack(r) = ClientField
  PROVE  FallingBack(r).path = "fallback"
<1> PICK traced : traced = Traced([r EXCEPT !.selected = <<>>], "fallback_lightweight", "fallback")
  OBVIOUS
<1> PICK t : t = [traced EXCEPT !.path = "fallback", !.injected = {}]  OBVIOUS
<1>1. FallingBack(r) = Finishing(t)  BY DEF FallingBack
<1>2. DOMAIN Finishing(t) = ClientField /\ Finishing(t).path = t.path  BY <1>1, FinishingMoves
<1>3. DOMAIN t = ClientField  BY <1>2 DEF Finishing
<1>4. t.path = "fallback"  BY <1>3 DEF ClientField
<1> QED BY <1>1, <1>2, <1>4

\* A turn that ends leaves a client without one.
LEMMA EndedMoves ==
  ASSUME NEW c, NEW r
  PROVE  Ended(c, r).pc \in {"closed", "ready"}
<1>1. DOMAIN Closed = ClientField /\ Closed.pc = "closed"  BY FreshType DEF Closed
<1> QED BY <1>1 DEF Ended, ClientField

\* Traced changes the trace and the engine.
LEMMA TracedMoves ==
  ASSUME NEW r, DOMAIN r = ClientField, NEW node, NEW decision
  PROVE  DOMAIN Traced(r, node, decision) = ClientField /\ Traced(r, node, decision).path = r.path
BY DEF Traced, ClientField

\* What is known of a client before and after its step.
LEMMA Mover ==
  ASSUME IInv, IInv', NEW c \in Client, NEW s, Become(c, s)
  PROVE  /\ client'[c] = s /\ DOMAIN s = ClientField
         /\ \A d \in Client \ {c} : client'[d] = client[d]
<1>1. DOMAIN client = Client  BY DEF IInv
<1>2. client'[c] = s /\ \A d \in Client \ {c} : client'[d] = client[d]  BY <1>1 DEF Become
<1>3. (DOMAIN client[c] = ClientField)'  BY DEF IInv, Good, Typed
<1> QED BY <1>2, <1>3

\* The step of a turn brings it nearer to its end.
Advances(c) ==
    /\ client[c].pc \in TurnPC => Nearer(client[c], client'[c])
    /\ \A d \in Client \ {c} : client'[d] = client[d]

\* The nodes that decide go on to later places, or end the turn in safe mode.
LEMMA DecidingAdvances ==
  ASSUME IInv, IInv', NEW c \in Client, Rank(c) \/ SkipMemory(c) \/ UseFullBundle(c)
  PROVE  Advances(c)
<1> PICK r : r = client[c]  OBVIOUS
<1>1. Placed(c, r)  BY Unfolded
<1>2. ASSUME NEW u, NEW pc, NEW i \in 1..11, NEW j \in 1..11, Places[i] = r.pc, Places[j] = pc,
             i < j, r.path = "none", Become(c, [u EXCEPT !.pc = pc])
      PROVE  Advances(c)
  <2> PICK s : s = [u EXCEPT !.pc = pc]  OBVIOUS
  <2>1. client'[c] = s /\ DOMAIN s = ClientField /\ \A d \in Client \ {c} : client'[d] = client[d]
    BY <1>2, Mover
  <2>2. s.pc = pc  BY <2>1 DEF ClientField
  <2>3. Nearer(r, s)  BY <1>2, <2>2, LaterIsNearer
  <2> QED BY <2>1, <2>3 DEF Advances
<1>3. CASE Rank(c)
  <2>1. PICK u : u = Traced(Retrieved(r), "rank_memories", "ranked")  OBVIOUS
  <2>2. Become(c, [u EXCEPT !.pc = "weigh"]) /\ r.pc = "rank"  BY <1>3, <2>1 DEF Rank, At
  <2>3. r.path = "none"  BY <1>1, <2>2 DEF Placed, Deciding
  <2> QED BY <1>2, <2>2, <2>3, PlacesAre
<1>4. CASE SkipMemory(c)
  <2>1. r.pc = "weigh" /\ \E final, decided :
          Become(c, IF final = "skip" THEN FallingBack(decided)
                    ELSE [decided EXCEPT !.pc = "bundle"])
    BY <1>4 DEF SkipMemory, At
  <2>2. PICK final, decided :
          Become(c, IF final = "skip" THEN FallingBack(decided)
                    ELSE [decided EXCEPT !.pc = "bundle"])
    BY <2>1
  <2>3. r.path = "none"  BY <1>1, <2>1 DEF Placed, Deciding
  <2>4. CASE final = "skip"
    <3>1. Become(c, FallingBack(decided))  BY <2>2, <2>4
    <3>2. /\ client'[c] = FallingBack(decided) /\ DOMAIN FallingBack(decided) = ClientField
          /\ \A d \in Client \ {c} : client'[d] = client[d]
      BY <3>1, Mover
    <3>3. client'[c].path = "fallback"  BY <3>2, FallingBackMoves
    <3> QED BY <2>3, <3>2, <3>3 DEF Advances, Nearer
  <2>5. CASE final # "skip"
    <3>1. Become(c, [decided EXCEPT !.pc = "bundle"])  BY <2>2, <2>5
    <3> QED BY <1>2, <2>1, <2>3, <3>1, PlacesAre
  <2> QED BY <2>4, <2>5
<1>5. CASE UseFullBundle(c)
  <2>1. r.pc = "bundle" /\ \E u : Become(c, [u EXCEPT !.pc = "execute"])
    BY <1>5 DEF UseFullBundle, At
  <2>2. PICK u : Become(c, [u EXCEPT !.pc = "execute"])  BY <2>1
  <2>3. r.path = "none"  BY <1>1, <2>1 DEF Placed, Deciding
  <2> QED BY <1>2, <2>1, <2>2, <2>3, PlacesAre
<1> QED BY <1>3, <1>4, <1>5

\* A step to a later place.
LEMMA ToLaterPlace ==
  ASSUME IInv, IInv', NEW c \in Client, NEW s, Become(c, s), NEW i \in 1..11, NEW j \in 1..11,
         Places[i] = client[c].pc, Places[j] = s.pc, i < j,
         client[c].path = "fallback" => s.path = "fallback"
  PROVE  Advances(c)
<1> PICK r : r = client[c]  OBVIOUS
<1>1. Nearer(r, s)  BY LaterIsNearer
<1>2. client'[c] = s /\ \A d \in Client \ {c} : client'[d] = client[d]  BY Mover
<1> QED BY <1>1, <1>2 DEF Advances

\* A step that leaves the client without a turn.
LEMMA ToTheEnd ==
  ASSUME IInv, IInv', NEW c \in Client, NEW s, Become(c, s), s.pc \in {"closed", "ready"}
  PROVE  Advances(c)
<1>1. client'[c] = s /\ \A d \in Client \ {c} : client'[d] = client[d]  BY Mover
<1> QED BY <1>1 DEF Advances, Nearer

\* So do execute and the operation.
LEMMA OperatingAdvances ==
  ASSUME IInv, IInv', NEW c \in Client, Execute(c) \/ Operate(c)
  PROVE  Advances(c)
<1> PICK r : r = client[c]  OBVIOUS
<1>1. Placed(c, r)  BY Unfolded
<1>2. ASSUME NEW u, NEW i \in 1..5, Places[i] = r.pc, r.path # "fallback", Become(c, Finishing(u))
      PROVE  Advances(c)
  <2> PICK s : s = Finishing(u)  OBVIOUS
  <2>1. DOMAIN s = ClientField  BY <1>2, Mover
  <2>2. s.pc \in {"list", "complete"}  BY <2>1, FinishingMoves
  <2>3. PICK j \in {6, 8} : Places[j] = s.pc  BY <2>2, PlacesAre
  <2>4. i \in 1..11 /\ j \in 1..11 /\ i < j  OBVIOUS
  <2>5. r.path = "fallback" => s.path = "fallback"  BY <1>2
  <2>6. Become(c, s) /\ Places[i] = client[c].pc  BY <1>2
  <2> QED BY <2>3, <2>4, <2>5, <2>6, ToLaterPlace
<1>3. CASE Execute(c)
  <2>1. r.pc = "execute"  BY <1>3 DEF Execute, At
  <2>2. r.path = "none"  BY <1>1, <2>1 DEF Placed, Deciding
  <2>3. \/ \E u : Become(c, Finishing(u))
        \/ Become(c, Raised(c, r))
        \/ \E u : Become(c, [u EXCEPT !.pc = "operate", !.path = "execute"])
    BY <1>3 DEF Execute
  <2>4. CASE \E u : Become(c, Finishing(u))
    <3>1. PICK u : Become(c, Finishing(u))  BY <2>4
    <3> QED BY <1>2, <2>1, <2>2, <3>1, PlacesAre
  <2>5. CASE Become(c, Raised(c, r))
    <3>1. Raised(c, r).pc \in {"closed", "ready"}  BY EndedMoves DEF Raised
    <3> QED BY <2>5, <3>1, ToTheEnd
  <2>6. CASE \E u : Become(c, [u EXCEPT !.pc = "operate", !.path = "execute"])
    <3>1. PICK u : Become(c, [u EXCEPT !.pc = "operate", !.path = "execute"])  BY <2>6
    <3>2. PICK s : s = [u EXCEPT !.pc = "operate", !.path = "execute"]  OBVIOUS
    <3>3. Become(c, s) /\ DOMAIN s = ClientField  BY <3>1, <3>2, Mover
    <3>4. s.pc = "operate"  BY <3>2, <3>3 DEF ClientField
    <3> QED BY <2>1, <2>2, <3>3, <3>4, ToLaterPlace, PlacesAre
  <2> QED BY <2>3, <2>4, <2>5, <2>6
<1>4. CASE Operate(c)
  <2>1. r.pc = "operate"  BY <1>4 DEF Operate, At
  <2>2. r.path = "execute"  BY <1>1, <2>1 DEF Placed
  <2>3. \E done :
          \/ Become(c, Finishing(done))
          \/ Become(c, [done EXCEPT !.writeback = "preview", !.pc = "complete"])
          \/ Become(c, [done EXCEPT !.writeback = "write", !.pc = "list"])
    BY <1>4 DEF Operate
  <2>4. PICK done :
          \/ Become(c, Finishing(done))
          \/ Become(c, [done EXCEPT !.writeback = "preview", !.pc = "complete"])
          \/ Become(c, [done EXCEPT !.writeback = "write", !.pc = "list"])
    BY <2>3
  <2>5. CASE Become(c, Finishing(done))  BY <1>2, <2>1, <2>2, <2>5, PlacesAre
  <2>6. CASE Become(c, [done EXCEPT !.writeback = "preview", !.pc = "complete"])
    <3>1. PICK s : s = [done EXCEPT !.writeback = "preview", !.pc = "complete"]  OBVIOUS
    <3>2. Become(c, s) /\ DOMAIN s = ClientField  BY <2>6, <3>1, Mover
    <3>3. s.pc = "complete"  BY <3>1, <3>2 DEF ClientField
    <3> QED BY <2>1, <2>2, <3>2, <3>3, ToLaterPlace, PlacesAre
  <2>7. CASE Become(c, [done EXCEPT !.writeback = "write", !.pc = "list"])
    <3>1. PICK s : s = [done EXCEPT !.writeback = "write", !.pc = "list"]  OBVIOUS
    <3>2. Become(c, s) /\ DOMAIN s = ClientField  BY <2>7, <3>1, Mover
    <3>3. s.pc = "list"  BY <3>1, <3>2 DEF ClientField
    <3> QED BY <2>1, <2>2, <3>2, <3>3, ToLaterPlace, PlacesAre
  <2> QED BY <2>4, <2>5, <2>6, <2>7
<1> QED BY <1>3, <1>4

\* A store shortens the plan, and the last one completes.
LEMMA StoringAdvances ==
  ASSUME IInv, IInv', NEW c \in Client, List(c) \/ Store(c)
  PROVE  Advances(c)
<1> PICK r : r = client[c]  OBVIOUS
<1>1. DOMAIN r = ClientField /\ Typed(r) /\ Placed(c, r)  BY Unfolded
<1>2. CASE List(c)
  <2>1. r.pc = "list" /\ \E plan, pc : pc \in {"complete", "store"}
                            /\ Become(c, [r EXCEPT !.plan = plan, !.pc = pc])
    BY <1>2 DEF List, At
  <2>2. PICK plan, pc : pc \in {"complete", "store"} /\ Become(c, [r EXCEPT !.plan = plan, !.pc = pc])
    BY <2>1
  <2>3. PICK s : s = [r EXCEPT !.plan = plan, !.pc = pc]  OBVIOUS
  <2>4. Become(c, s) /\ s.pc = pc /\ s.path = r.path  BY <1>1, <2>2, <2>3 DEF ClientField
  <2>5. PICK j \in {7, 8} : Places[j] = s.pc  BY <2>2, <2>4, PlacesAre
  <2>6. Places[6] = client[c].pc /\ 6 \in 1..11 /\ j \in 1..11 /\ 6 < j  BY <2>1, PlacesAre
  <2> QED BY <2>4, <2>5, <2>6, ToLaterPlace
<1>3. CASE Store(c)
  <2>1. r.pc = "store" /\ Become(c, Advanced(r))  BY <1>3 DEF Store, At
  <2>2. r.plan \in Seq(Fact) /\ r.plan # <<>>  BY <1>1, <2>1 DEF Typed, Placed
  <2>3. Tail(r.plan) \in Seq(Fact) /\ Len(Tail(r.plan)) < Len(r.plan)  BY <2>2
  <2>4. PICK s : s = Advanced(r)  OBVIOUS
  <2>5. /\ s.path = r.path /\ s.plan = Tail(r.plan) /\ s.pc \in {"complete", "store"}
    BY <1>1, <2>4 DEF Advanced, ClientField
  <2>6. CASE s.pc = "complete"  BY <2>1, <2>4, <2>5, <2>6, ToLaterPlace, PlacesAre
  <2>7. CASE s.pc = "store"
    <3>1. Place(r) = 7 /\ Place(s) = 7  BY <2>1, <2>7, PlaceIs, PlacesAre
    <3>2. Nearer(r, s)  BY <2>3, <2>5, <3>1 DEF Nearer
    <3>3. client'[c] = s /\ \A d \in Client \ {c} : client'[d] = client[d]  BY <2>1, <2>4, Mover
    <3> QED BY <3>2, <3>3 DEF Advances
  <2> QED BY <2>5, <2>6, <2>7
<1> QED BY <1>2, <1>3

\* What follows the completion only goes on.
LEMMA EndingAdvances ==
  ASSUME IInv, IInv', NEW c \in Client, Complete(c) \/ Cycle(c) \/ Truncate(c) \/ Write(c)
  PROVE  Advances(c)
<1> PICK r : r = client[c]  OBVIOUS
<1>1. DOMAIN r = ClientField  BY Unfolded
<1>2. CASE Complete(c)
  <2>1. PICK executed : executed = IF r.path = "fallback" THEN r ELSE Traced(r, "execute", "executed")
    OBVIOUS
  <2>2. PICK told : told = Traced(executed, "writeback", r.writeback)  OBVIOUS
  <2>3. PICK done : done = Traced(told, "complete", "done")  OBVIOUS
  <2>4. DOMAIN done = ClientField /\ done.path = r.path
    <3>1. DOMAIN executed = ClientField /\ executed.path = r.path  BY <1>1, <2>1, TracedMoves
    <3>2. DOMAIN told = ClientField /\ told.path = r.path  BY <2>2, <3>1, TracedMoves
    <3> QED BY <2>3, <3>2, TracedMoves
  <2>5. r.pc = "complete" /\ \E engine : Become(c, [done EXCEPT !.pc = "cycle", !.engine = engine])
    BY <1>2, <2>1, <2>2, <2>3 DEF Complete, At, Once
  <2>6. PICK engine : Become(c, [done EXCEPT !.pc = "cycle", !.engine = engine])  BY <2>5
  <2>7. PICK s : s = [done EXCEPT !.pc = "cycle", !.engine = engine]  OBVIOUS
  <2>8. Become(c, s) /\ s.pc = "cycle" /\ s.path = r.path  BY <2>4, <2>6, <2>7 DEF ClientField
  <2> QED BY <2>5, <2>8, ToLaterPlace, PlacesAre
<1>3. CASE Cycle(c)
  <2>1. r.pc = "cycle" /\ \E after, weights :
          Become(c, [r EXCEPT !.scheduler = after, !.pc = "save", !.weights = weights])
    BY <1>3 DEF Cycle, At
  <2>2. PICK after, weights :
          Become(c, [r EXCEPT !.scheduler = after, !.pc = "save", !.weights = weights])
    BY <2>1
  <2>3. PICK s : s = [r EXCEPT !.scheduler = after, !.pc = "save", !.weights = weights]  OBVIOUS
  <2>4. Become(c, s) /\ s.pc = "save" /\ s.path = r.path  BY <1>1, <2>2, <2>3 DEF ClientField
  <2> QED BY <2>1, <2>4, ToLaterPlace, PlacesAre
<1>4. CASE Truncate(c)
  <2>1. r.pc = "save" /\ Become(c, [r EXCEPT !.pc = "write"])  BY <1>4 DEF Truncate, At
  <2>2. PICK s : s = [r EXCEPT !.pc = "write"]  OBVIOUS
  <2>3. Become(c, s) /\ s.pc = "write" /\ s.path = r.path  BY <1>1, <2>1, <2>2 DEF ClientField
  <2> QED BY <2>1, <2>3, ToLaterPlace, PlacesAre
<1>5. CASE Write(c)
  <2>1. PICK u : u = [r EXCEPT !.seen = log.saves + 1, !.sound = TRUE]  OBVIOUS
  <2>2. Become(c, Ended(c, u))  BY <1>5, <2>1 DEF Write
  <2>3. Ended(c, u).pc \in {"closed", "ready"}  BY EndedMoves
  <2> QED BY <2>2, <2>3, ToTheEnd
<1> QED BY <1>2, <1>3, <1>4, <1>5

\* A failure falls back where the turn has not, or ends it.
LEMMA FailingAdvances ==
  ASSUME IInv, IInv', NEW c \in Client, Fail(c) \/ SaveFails(c) \/ Crash(c)
  PROVE  Advances(c)
<1> PICK r : r = client[c]  OBVIOUS
<1>1. Placed(c, r)  BY Unfolded
<1>2. Raised(c, r).pc \in {"closed", "ready"}  BY EndedMoves DEF Raised
<1>3. CASE Fail(c)
  <2>1. \/ r.pc = "rank" /\ \E u : Become(c, FallingBack(u))
        \/ r.path \in {"none", "execute"} /\ \E u : Become(c, FallingBack(u))
        \/ Become(c, Raised(c, r))
    <3>1. Become(c, CASE At(c, "rank") -> FallingBack(Traced(r, "rank_memories", "recall_failed"))
                    [] /\ r.pc \notin {"rank", "cycle"}
                       /\ r.request.op = "auto_context"
                       /\ r.path \in {"none", "execute"} ->
                         FallingBack(Traced(r, "execute", "recall_failed"))
                    [] OTHER -> Raised(c, r))
      BY <1>3 DEF Fail
    <3> HIDE DEF At
    <3>2. CASE At(c, "rank")  
      <4>1. ~(/\ r.pc \notin {"rank", "cycle"}
                       /\ r.request.op = "auto_context"
                       /\ r.path \in {"none", "execute"})
        BY <3>2 DEF At
      <4>2. Become(c, FallingBack(Traced(r, "rank_memories", "recall_failed")))
        BY <3>1, <3>2, <4>1
      <4> QED BY <3>2, <4>2 DEF At
    <3>3. CASE ~At(c, "rank")  BY <3>1, <3>3
    <3> QED BY <3>2, <3>3
  <2>2. r.pc = "rank" => r.path = "none"  BY <1>1 DEF Placed, Deciding
  <2>3. CASE r.path \in {"none", "execute"} /\ \E u : Become(c, FallingBack(u))
    <3>1. PICK u : Become(c, FallingBack(u))  BY <2>3
    <3>2. /\ client'[c] = FallingBack(u) /\ DOMAIN FallingBack(u) = ClientField
          /\ \A d \in Client \ {c} : client'[d] = client[d]
      BY <3>1, Mover
    <3>3. client'[c].path = "fallback"  BY <3>2, FallingBackMoves
    <3> QED BY <2>3, <3>2, <3>3 DEF Advances, Nearer
  <2>4. CASE Become(c, Raised(c, r))  BY <1>2, <2>4, ToTheEnd
  <2> QED BY <2>1, <2>2, <2>3, <2>4
<1>4. CASE SaveFails(c)
  <2>1. Become(c, Raised(c, r))  BY <1>4 DEF SaveFails
  <2> QED BY <1>2, <2>1, ToTheEnd
<1>5. CASE Crash(c)
  <2>1. Become(c, Closed) /\ Closed.pc = "closed"  BY <1>5 DEF Crash, Closed
  <2> QED BY <2>1, ToTheEnd
<1> QED BY <1>3, <1>4, <1>5

\* A client without a turn.
LEMMA BeginningAdvances ==
  ASSUME IInv, NEW c \in Client,
         \/ Open(c) \/ LoadScheduler(c)
         \/ \E request \in Requests[c] : Begin(c, request)
         \/ \E id \in DOMAIN client[c].engine.versions : RollBack(c, id)
  PROVE  Advances(c)
<1>1. client[c].pc \in {"closed", "opening", "ready"}
  BY DEF Open, LoadScheduler, Begin, RollBack, At
<1>2. client[c].pc \notin TurnPC  BY <1>1, PlacesAre
<1>3. DOMAIN client = Client  BY DEF IInv
<1>4. PICK s : Become(c, s)  BY DEF Open, LoadScheduler, Begin, RollBack
<1> QED BY <1>2, <1>3, <1>4 DEF Advances, Become

\* A turn cannot go round for ever: each of its steps ends it, makes it fall back,
\* once, or brings it to a later place or to a shorter plan.
THEOREM TurnsAdvance == Spec => TurnAdvances
<1> DEFINE Advancing(c) == client[c].pc \in TurnPC /\ client'[c] # client[c]
                              => Nearer(client[c], client'[c])
<1>1. IInv /\ IInv' /\ [Next]_vars => [\A c \in Client : Advancing(c)]_vars
  <2> SUFFICES ASSUME IInv, IInv', Next PROVE \A c \in Client : Advancing(c)  OBVIOUS
  <2>1. PICK c \in Client :
          \/ Open(c)
          \/ \E request \in Requests[c] : Begin(c, request)
          \/ Step(c)
          \/ \E id \in DOMAIN client[c].engine.versions : RollBack(c, id)
          \/ Fail(c) \/ SaveFails(c) \/ Crash(c)
    BY DEF Next
  <2>2. Advances(c)
    <3>1. CASE Step(c)
      BY <3>1, BeginningAdvances, DecidingAdvances, OperatingAdvances, StoringAdvances,
         EndingAdvances DEF Step
    <3>2. CASE Fail(c) \/ SaveFails(c) \/ Crash(c)  BY <3>2, FailingAdvances
    <3>3. CASE \/ Open(c)
               \/ \E request \in Requests[c] : Begin(c, request)
               \/ \E id \in DOMAIN client[c].engine.versions : RollBack(c, id)
      BY <3>3, BeginningAdvances
    <3> QED BY <2>1, <3>1, <3>2, <3>3
  <2> QED BY <2>2 DEF Advances
<1> QED BY <1>1, Invariant, PTL DEF Spec, TurnAdvances
=============================================================================
