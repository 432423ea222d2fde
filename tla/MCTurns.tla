------------------------------- MODULE MCTurns -------------------------------
(***************************************************************************)
(* An instance of TurnOrchestrator: an entry point and a library session    *)
(* over two projects and seven facts.  Facts 1 and 2 are near each other,   *)
(* and 1 and 7; 3 is noise, 4 is sensitive, 5 belongs to the runtime layer, *)
(* 6 is hedged and only queued.                                             *)
(***************************************************************************)
EXTENDS TurnOrchestrator, TLC

MCProject == {NoProject, 1, 2}
MCFact == 1..7
MCText == <<[type |-> "decision", traits |-> {}, marks |-> {"architecture_type"}],
            [type |-> "decision", traits |-> {}, marks |-> {"architecture_type"}],
            [type |-> "technical_fact", traits |-> {}, marks |-> {"runtime", "noise"}],
            [type |-> "failure", traits |-> {"sensitive"}, marks |-> {"failure_type"}],
            [type |-> "constraint", traits |-> {}, marks |-> {"runtime"}],
            [type |-> "task_state", traits |-> {"hedged"}, marks |-> {}],
            [type |-> "decision", traits |-> {}, marks |-> {"architecture_type"}]>>
MCSimilarity == [p \in MCFact \X MCFact |->
                    IF p[1] = p[2] THEN 100 ELSE IF {p[1], p[2]} \in {{1, 2}, {1, 7}} THEN 91 ELSE 20]

Keywords == [architecture |-> 0, bug |-> 0, debug |-> 0, understand |-> 0, words |-> {}]
BugFix == [Keywords EXCEPT !.bug = 30, !.words = {"bug", "fix"}]

\* The defaults of _TurnConfig, for a request of project 1.
Request ==
    [op |-> "auto_context", project |-> 1, mode |-> "preview", cues |-> {}, keywords |-> Keywords,
     hits |-> {}, segments |-> <<>>, writeback |-> TRUE, cached |-> FALSE,
     includeSensitive |-> FALSE, allowSensitive |-> FALSE, storeMode |-> "auto", dryRun |-> FALSE,
     maxCandidates |-> 12, strategy |-> "auto", compact |-> FALSE, target |-> <<1, 1>>,
     exclude |-> {}, candidateK |-> 12, selectedK |-> 5, maxTokens |-> 3500, tokens |-> 20,
     minRank |-> 35]

EntryRequests == {
    \* a risky change, whose text is stored: two facts near each other and a queued one
    [Request EXCEPT !.mode = "write", !.cues = {"risky_change"}, !.hits = {1, 3},
                    !.segments = <<1, 7, 6>>],
    \* no memory asked for: low confidence, or no recall at all
    [Request EXCEPT !.cues = {"low_signal"}],
    [Request EXCEPT !.mode = "write", !.cached = TRUE, !.cues = {"overview"},
                    !.segments = <<1>>],
    \* a change plan for the code a change is near
    [Request EXCEPT !.cues = {"impact"}, !.hits = {3, 5}],
    \* packs for a bug fix, for which runtime facts are suppressed
    [Request EXCEPT !.op = "memory_pack", !.keywords = BugFix, !.hits = {3, 5}, !.candidateK = 2],
    [Request EXCEPT !.op = "memory_search", !.project = 2, !.keywords = BugFix, !.hits = {4},
                    !.includeSensitive = TRUE],
    [Request EXCEPT !.op = "memory_search", !.project = NoProject, !.hits = {4},
                    !.includeSensitive = TRUE, !.allowSensitive = TRUE],
    [Request EXCEPT !.op = "context_bundle", !.project = NoProject],
    \* the other operations, a full bundle among them, whose profile may list what is
    \* suppressed
    [Request EXCEPT !.op = "context_bundle", !.strategy = "full", !.keywords = BugFix,
                    !.hits = {3, 5}],
    [Request EXCEPT !.op = "context_callback", !.cues = {"continue"}, !.hits = {3}],
    [Request EXCEPT !.op = "memory_explain", !.target = <<1, 3>>, !.writeback = FALSE],
    [Request EXCEPT !.op = "memory_auto_store", !.project = 2, !.mode = "write",
                    !.storeMode = "write", !.allowSensitive = TRUE, !.segments = <<4, 5>>]}

SessionRequests == {
    [Request EXCEPT !.mode = "write", !.cues = {"task_like"}, !.keywords = BugFix,
                    !.hits = {5}, !.segments = <<5>>],
    [Request EXCEPT !.op = "memory_auto_store", !.mode = "write", !.segments = <<2>>]}

MCRequests == [c \in {"entry", "session"} |->
                  IF c = "entry" THEN EntryRequests ELSE SessionRequests]

\* A library has twice penalised the skipping of recall in project 1; then a
\* turn found and used memories.
Penalised(s) == AdjustEdge(s, 1, "should_recall", "skip", -10)
Walk == <<<<"start", "begin">>, <<"should_recall", "recall">>, <<"use_cache", "miss">>,
          <<"rank_memories", "ranked">>, <<"skip_memory", "inject">>, <<"use_full_bundle", "lean">>,
          <<"execute", "executed">>, <<"writeback", "preview">>, <<"complete", "done">>>>
Recording(project, s, event) == RecordDecision(s, project, event)
AfterTurn(s) == UpdateFromTrace(FoldOf(Recording, 1, s, Walk), 1, Walk, 1)
Tuned == Written(AfterTurn(Penalised(Penalised(FreshState))))

MCInitialPolicies == {Tuned}
MCInitialMemories == {<<1, 3>>, <<2, 4>>}
=============================================================================
