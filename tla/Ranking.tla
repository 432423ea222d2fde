------------------------------ MODULE Ranking ------------------------------
(***************************************************************************)
(* Retriever.search with explain_memory_score, the router's rerank, and the *)
(* memories that a pack, a change plan and a project's profile choose.      *)
(*                                                                          *)
(* A memory is a pair of a project and a fact.  Projects are numbered, 0    *)
(* stands for none.  Semantic search is off, as with the default hash       *)
(* backend.  Recency and usage, at most a tenth of a score, are those of a  *)
(* new memory.  Scores are in hundredths.                                   *)
(***************************************************************************)
EXTENDS Integers, Sequences, FiniteSets, Ordering, Admission, TaskRelevance

ASSUME RankingAssumption == \A f \in Fact : Text[f].marks \subseteq Mark

NoProject == 0

\* list_memories; what auto_store_memories stores is visible to its project, or sensitive.
Listed(mems, project, includeSensitive) ==
    {m \in mems : /\ project # NoProject => m[1] = project
                  /\ Has(m[2], "sensitive") => includeSensitive}

TypeBoost(type) ==
    [constraint |-> 12, decision |-> 10, failure |-> 9, task_state |-> 8, user_preference |-> 6,
     project_context |-> 5, technical_fact |-> 3][type]

\* explain_memory_score of a listed memory; hits are the facts the query's words are in.
MemoryScore(m, project, hits) ==
    LET home == project # NoProject /\ m[1] = project IN
    Clamped((IF m[2] \in hits THEN 25 ELSE 0) + (IF home THEN 15 ELSE 0)
            + (10 * Importance(m[2]) + 5 * Confidence(m[2])) \div 100 + 5
            + TypeBoost(MemoryType(m[2]))
            - (IF home \/ Has(m[2], "sensitive") THEN 0 ELSE 20))

\* _important_candidate_ids.
AlwaysCandidate(m, project) ==
    \/ MemoryType(m[2]) = "task_state"
    \/ Importance(m[2]) >= 80
    \/ /\ project # NoProject
       /\ MemoryType(m[2]) \in {"constraint", "decision", "failure", "project_context"}
       /\ Importance(m[2]) >= 65

Candidates(listed, project, hits) ==
    With({m \in listed : m[2] \in hits \/ AlwaysCandidate(m, project)},
         LAMBDA found : IF found = {} THEN listed ELSE found)

\* _dedupe_results and the packer's _dedupe.
KeepApart(threshold, kept, m) ==
    IF \E i \in DOMAIN kept : Near(m[2], kept[i][2], threshold) THEN kept ELSE Append(kept, m)
WithoutNearCopies(results) == FoldOf(KeepApart, 92, <<>>, results)

\* Retriever.search.  Candidates of one score come in no particular order in the
\* code; here by number.
BestFirst(found, project, hits) ==
    SortedBy(found, [m \in found |-> <<MemoryScore(m, project, hits), m[2], m[1]>>])
Search(mems, project, hits, includeSensitive, topK) ==
    With(Candidates(Listed(mems, project, includeSensitive), project, hits), LAMBDA found :
    With(BestFirst(found, project, hits), LAMBDA sorted :
    With(WithoutNearCopies(sorted), LAMBDA results : Top(results, topK))))

\* MemoryRelevanceRouter.rerank.
RoutedScore(m, project, hits, intent) == Adjust(MemoryScore(m, project, hits), Text[m[2]].marks, intent)
RouteKey(results, project, hits, intent) ==
    [i \in DOMAIN results |->
        <<RoutedScore(results[i], project, hits, intent), Importance(results[i][2]),
          Confidence(results[i][2]), 0 - i>>]
Rerank(results, project, hits, intent) ==
    Arranged(results, RouteKey(results, project, hits, intent))

SuppressedIn(results, intent) ==
    {results[i] : i \in {j \in DOMAIN results : Suppressed(Text[results[j][2]].marks, intent)}}

Section(m) == IF MemoryType(m[2]) \in {"project_context", "user_preference"}
              THEN "context" ELSE MemoryType(m[2])
SectionLimit(section, compact) ==
    IF ~compact THEN 3 ELSE IF section \in {"constraint", "technical_fact"} THEN 2 ELSE 1

\* Preferred memories first, in their order.
PlaceIn(preferred, m) ==
    IF \E i \in DOMAIN preferred : preferred[i] = m
    THEN CHOOSE i \in DOMAIN preferred : preferred[i] = m ELSE Len(preferred) + 1
PreferredFirst(found, preferred) ==
    Arranged(found, [i \in DOMAIN found |-> <<0 - PlaceIn(preferred, found[i]), 0 - i>>])

\* The first memories of each section.
InSections(kept, compact) ==
    {kept[i] : i \in {j \in DOMAIN kept :
        Cardinality({k \in 1..j : Section(kept[k]) = Section(kept[j])})
            <= SectionLimit(Section(kept[j]), compact)}}

Without(results, excluded) == Filtered(results, Items(results) \ excluded)

\* MemoryPacker.pack: the memories of its sections.  It searches for itself, never
\* with sensitive memories.
PackSearch(mems, project, hits, compact) ==
    Search(mems, project, hits, FALSE, IF compact THEN 12 ELSE 30)
Sectioned(results, excluded, preferred, compact) ==
    With(Without(results, excluded), LAMBDA found :
    With(WithoutNearCopies(PreferredFirst(found, preferred)), LAMBDA kept :
         InSections(kept, compact)))
PackedMemories(mems, project, hits, excluded, preferred, compact) ==
    With(PackSearch(mems, project, hits, compact), LAMBDA results :
         Sectioned(results, excluded, preferred, compact))

\* ChangePlanner.plan: the memories it quotes.
Quoted(results, excluded, preferred) ==
    Items(Top(PreferredFirst(Without(results, excluded), preferred), 5))
PlanSearch(mems, project, hits) == Search(mems, project, hits, FALSE, 8)
PlannedMemories(mems, project, hits, excluded, preferred) ==
    With(PlanSearch(mems, project, hits), LAMBDA results : Quoted(results, excluded, preferred))

\* ProjectProfileBuilder.build: the five most important memories of each of its
\* sections, nothing left out; in a lean bundle the first lines of it, which end
\* after the goals.  Memories of one importance come here by number.
ProfileSections(lean) ==
    IF lean THEN {"project_context"}
    ELSE {"project_context", "task_state", "decision", "constraint", "failure"}
ByImportance(found) == SortedBy(found, [m \in found |-> <<Importance(m[2]), m[2], m[1]>>])
MostImportant(listed, lean) ==
    {m \in listed : \E type \in ProfileSections(lean) :
        m \in Items(Top(ByImportance({n \in listed : MemoryType(n[2]) = type}), 5))}
ProfileList(mems, project) == Listed(mems, project, FALSE)
ProfiledMemories(mems, project, lean) ==
    With(ProfileList(mems, project), LAMBDA listed : MostImportant(listed, lean))
=============================================================================
