------------------------------ MODULE TurnGraph ------------------------------
(***************************************************************************)
(* TurnDecisionGraph: the nodes of a turn and the table that names, for a   *)
(* node and a decision taken there, the node it says comes next.            *)
(***************************************************************************)
None == "none"

Node == {"start", "should_recall", "use_cache", "rank_memories", "skip_memory",
         "use_full_bundle", "execute", "fallback_lightweight", "writeback", "complete"}

\* The edges of the graph: the node, a decision taken there, the node it leads to.
Edge ==
    {<<"start", "begin", "should_recall">>,
     <<"should_recall", "recall", "use_cache">>,
     <<"should_recall", "skip", "skip_memory">>,
     <<"should_recall", "writeback_only", "execute">>,
     <<"use_cache", "hit", "execute">>,
     <<"use_cache", "miss", "rank_memories">>,
     <<"rank_memories", "ranked", "skip_memory">>,
     <<"rank_memories", "recall_failed", "fallback_lightweight">>,
     <<"skip_memory", "inject", "use_full_bundle">>,
     <<"skip_memory", "skip", "fallback_lightweight">>,
     <<"skip_memory", "policy_skip", "execute">>,
     <<"use_full_bundle", "full", "execute">>,
     <<"use_full_bundle", "lean", "execute">>,
     <<"execute", "executed", "writeback">>,
     <<"execute", "recall_failed", "fallback_lightweight">>,
     <<"fallback_lightweight", "fallback", "writeback">>,
     <<"writeback", "preview", "complete">>,
     <<"writeback", "write", "complete">>,
     <<"writeback", "skipped", "complete">>,
     <<"complete", "done", None>>}

\* _edge_index: the table of the edges, by the first two.
EdgeIndex ==
    [event \in {<<e[1], e[2]>> : e \in Edge} |->
        (CHOOSE e \in Edge : <<e[1], e[2]>> = event)[3]]

\* An event of a trace is a pair of a node and the decision taken there.
Event == DOMAIN EdgeIndex

ASSUME GraphAssumption ==
    \A event \in Event : event[1] \in Node /\ EdgeIndex[event] \in Node \cup {None}

\* KeyError, hence ValueError, outside the table: no turn of TurnOrchestrator
\* decides what the table does not have (its TypeOK says so).
NextNode(event) == EdgeIndex[event]

\* The decisions each policy choice is among, in the code's order.
RecallChoices == <<"recall", "skip", "writeback_only">>
InjectChoices == <<"inject", "skip">>
BundleChoices == <<"full", "lean">>
=============================================================================
