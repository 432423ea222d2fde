-------------------------- MODULE TurnOrchestrator --------------------------
(***************************************************************************)
(* TurnOrchestrator.run_turn: a turn walks the decision graph, retrieves,   *)
(* packs and stores memories, learns from its trace, lets the scheduler run *)
(* a cycle, and saves the policy file.                                      *)
(*                                                                          *)
(* Clients share the memories and the two files beside the database.  An    *)
(* entry point builds an orchestrator for one turn; a library session keeps *)
(* one over several, and may roll its policy back.  A step reads or writes  *)
(* the shared state at most once, so that any other client may come between *)
(* two of them; a database call may fail, a process may die.                *)
(***************************************************************************)
EXTENDS Integers, Sequences, FiniteSets,
        PolicyEngine, RecallPolicy, Ranking, MemoryScheduler

CONSTANTS
    Client,           \* processes that run turns
    Sessions,         \* those that keep their orchestrator
    Requests,         \* the requests each client makes
    InitialMemories,  \* what is stored before
    InitialPolicies,  \* policy states saved before; the fresh one stands for no file
    MaxTurns, MaxFailures, MaxRollbacks  \* bounds of an instance

Operation == {"auto_context", "memory_search", "memory_pack", "context_bundle", "context_callback",
              "memory_explain", "memory_auto_store"}

\* _TurnConfig.from_context, and what the functions that read a request's text find
\* in it: cues, keywords, segments, and the facts that its words hit.
TurnRequest ==
    [op : Operation, project : Project, mode : STRING, cues : SUBSET STRING,
     keywords : [architecture : Nat, bug : Nat, debug : Nat, understand : Nat,
                 words : SUBSET STRING],
     hits : SUBSET Fact, segments : Seq(Fact), writeback : BOOLEAN, cached : BOOLEAN,
     includeSensitive : BOOLEAN, allowSensitive : BOOLEAN,
     storeMode : {"auto", "write", "queue", "preview"}, dryRun : BOOLEAN,
     maxCandidates : Nat \ {0}, strategy : {"auto", "full", "lean", "pack"}, compact : BOOLEAN,
     target : Project \X Fact, exclude : SUBSET (Project \X Fact),
     candidateK : Nat \ {0}, selectedK : Nat \ {0}, maxTokens : Nat \ {0}, tokens : Nat,
     minRank : Int]

\* What was saved before was saved by this code.
ASSUME TurnAssumption ==
    /\ Sessions \subseteq Client
    /\ NoProject \in Project
    /\ \A c \in Client : Requests[c] \subseteq TurnRequest
    /\ InitialMemories \subseteq Project \X Fact /\ IsFiniteSet(InitialMemories)
    /\ \A m \in InitialMemories : Text[m[2]].type \in StoredType
    /\ \A s \in InitialPolicies : SavedState(s)
    /\ MaxTurns \in Nat /\ MaxFailures \in Nat /\ MaxRollbacks \in Nat

VARIABLES
    policyFile,     \* the .policy.json file: [kind, state]
    schedulerFile,  \* the .scheduler.json file
    mems,           \* stored memories, pairs of a project and a fact
    queue,          \* candidates waiting for review, a fact once however often it waits
    client,         \* what each client is at
    used,           \* how much of each bound is used up
    log             \* auxiliary: what was last saved, and whether turns overlapped

vars == <<policyFile, schedulerFile, mems, queue, client, used, log>>

BrokenFile == [kind |-> "broken", state |-> FreshState]
File(state) == [kind |-> "ok", state |-> state]

NoRequest == [op |-> "none", project |-> NoProject, mode |-> "preview"]

Closed ==
    [pc |-> "closed", request |-> NoRequest, engine |-> FreshState, scheduler |-> FreshScheduler,
     weights |-> DefaultWeights, trace |-> <<>>, decision |-> NoRecall, retrieved |-> <<>>,
     selected |-> <<>>, suppressed |-> {}, injected |-> {}, conflicts |-> <<>>, path |-> "none",
     plan |-> <<>>, writeback |-> "none",
     seen |-> 0, sound |-> TRUE, loaded |-> 0]  \* auxiliary: the saves and versions its engine read

At(c, pc) == client[c].pc = pc
Become(c, r) == client' = [client EXCEPT ![c] = r]

-----------------------------------------------------------------------------
(* A turn's own records *)

\* _trace_decision: the event joins the trace and the engine records it.
Traced(r, node, decision) ==
    [r EXCEPT !.trace = Append(@, <<node, decision>>),
              !.engine = RecordDecision(@, r.request.project, <<node, decision>>)]

\* _operation_requests_memory.
RequestsMemory(op) ==
    op \in {"memory_search", "memory_pack", "context_bundle", "context_callback", "memory_explain"}

IntentOf(request) == ClassifyTaskIntent(request.keywords)

\* _policy_context; what of the state a policy looks at.
PolicyContext(request) ==
    [sensitive |-> request.includeSensitive /\ ~request.allowSensitive, minRank |-> request.minRank]

RoutedScores(r, intent) ==
    {RoutedScore(m, r.request.project, r.request.hits, intent) : m \in Items(r.retrieved)}
Greatest(scores) == IF scores = {} THEN 0 ELSE CHOOSE x \in scores : \A y \in scores : x >= y
MaxScore(r) ==
    With(IntentOf(r.request), LAMBDA intent :
    With(RoutedScores(r, intent), LAMBDA scores : Greatest(scores)))

StateOf(r) ==
    [tokens |-> r.request.tokens, maxTokens |-> r.request.maxTokens, action |-> r.decision.action,
     retrieved |-> Len(r.retrieved), selected |-> Len(r.selected), rank |-> MaxScore(r)]

\* _arbitrate_decision.
Verdict(r, node, governed, allowed, deterministic) ==
    With(governed, LAMBDA proposed : With(StateOf(r), LAMBDA s :
         Arbitrate(node, proposed, allowed, s, PolicyContext(r.request), r.weights,
                   deterministic)))
Heard(r, verdict) == [r EXCEPT !.conflicts = @ \o verdict.conflicts]

\* Mutant: a turn that falls back stores nothing.
FallsBackSilently(r) ==
    [Traced([r EXCEPT !.selected = <<>>], "fallback_lightweight", "fallback")
        EXCEPT !.path = "fallback", !.injected = {}, !.writeback = "skipped", !.pc = "complete"]

\* _finish, where the writeback is planned unless the request wants none; a dry
\* run changes nothing.
Finishing(r) ==
    IF ~r.request.writeback THEN [r EXCEPT !.writeback = "skipped", !.pc = "complete"]
    ELSE IF r.request.mode # "write" THEN [r EXCEPT !.writeback = "preview", !.pc = "complete"]
    ELSE [r EXCEPT !.writeback = "write", !.pc = "list"]

\* Mutant: the fallback is traced with what led to it.
MisnamesFallback(r) ==
    Finishing([Traced([r EXCEPT !.selected = <<>>], "fallback_lightweight", "recall_failed")
                  EXCEPT !.path = "fallback", !.injected = {}])

\* Mutant: the fallback is not traced.
UntracedFallback(r) ==
    Finishing([r EXCEPT !.selected = <<>>, !.path = "fallback", !.injected = {}])

\* _run_graph_fallback.
FallingBack(r) ==
    Finishing([Traced([r EXCEPT !.selected = <<>>], "fallback_lightweight", "fallback")
                  EXCEPT !.path = "fallback", !.injected = {}])

-----------------------------------------------------------------------------
(* Building an orchestrator *)

Loaded(file) == IF file.kind = "ok" THEN file.state ELSE FreshState

\* DecisionPolicyEngine.for_database.
Open(c) ==
    /\ At(c, "closed")
    /\ used.turns < MaxTurns
    /\ Become(c, [Closed EXCEPT !.pc = "opening", !.engine = Loaded(policyFile),
                              !.loaded = Len(Loaded(policyFile).versions),
                              !.seen = log.saves, !.sound = (policyFile.kind # "broken")])
    /\ UNCHANGED <<policyFile, schedulerFile, mems, queue, used, log>>

\* MemoryScheduler.for_database.
LoadScheduler(c) ==
    /\ At(c, "opening")
    /\ Become(c, [client[c] EXCEPT !.pc = "ready", !.scheduler = schedulerFile])
    /\ UNCHANGED <<policyFile, schedulerFile, mems, queue, used, log>>

\* The end of run_turn: an entry point drops its orchestrator.
Ended(c, r) ==
    IF c \in Sessions
    THEN [Closed EXCEPT !.pc = "ready", !.engine = r.engine, !.scheduler = r.scheduler,
                        !.weights = r.weights, !.seen = r.seen, !.sound = r.sound,
                        !.loaded = r.loaded]
    ELSE Closed

-----------------------------------------------------------------------------
(* The decisions of a turn *)

RecallProposed(op, decision) ==
    CASE op = "memory_auto_store" -> "writeback_only"
      [] RequestsMemory(op) \/ decision.action # "none" -> "recall"
      [] OTHER -> "skip"

Led(r, final) ==
    IF final # "recall" THEN [Traced(r, "skip_memory", "policy_skip") EXCEPT !.pc = "execute"]
    ELSE IF r.request.cached THEN [Traced(r, "use_cache", "hit") EXCEPT !.pc = "weigh"]
    ELSE [Traced(r, "use_cache", "miss") EXCEPT !.pc = "rank"]

Begun(r, request, decision) ==
    Traced([r EXCEPT !.request = request, !.decision = decision], "start", "begin")

\* _run_decision_graph up to use_cache.
Begin(c, request) ==
    LET fixed == request.op # "auto_context"
        decision == DecideRecall(request.cues, request.project # NoProject, request.maxTokens)
        proposed == RecallProposed(request.op, decision)
        Governed(r) == SelectDecision(r.engine, request.project, "should_recall", proposed,
                                      RecallChoices, fixed)
    IN /\ At(c, "ready")
       /\ used.turns < MaxTurns
       /\ \E r \in Once(Begun(client[c], request, decision)) :
          \E verdict \in Once(Verdict(r, "should_recall", Governed(r), RecallChoices, fixed)) :
          \E decided \in Once(Traced(Heard(r, verdict), "should_recall", verdict.final)) :
              Become(c, Led(decided, verdict.final))
       /\ used' = [used EXCEPT !.turns = @ + 1]
       /\ UNCHANGED <<policyFile, schedulerFile, mems, queue, log>>

\* The results of a search, in the router's order.
Routed(request) ==
    With(IntentOf(request), LAMBDA intent :
    With(Search(mems, request.project, request.hits, request.includeSensitive, request.candidateK),
         LAMBDA found : Rerank(found, request.project, request.hits, intent)))

\* Mutant: the report of an earlier retrieval stays.
KeepsFirstReport(r) ==
    With(Routed(r.request), LAMBDA found :
         [r EXCEPT !.retrieved = found,
                   !.suppressed = IF r.retrieved = <<>>
                                  THEN SuppressedIn(found, IntentOf(r.request)) ELSE @])

Reporting(r, found) ==
    [r EXCEPT !.retrieved = found, !.suppressed = SuppressedIn(found, IntentOf(r.request))]

\* _retrieve: the search, reranked, with the router's report of what it suppresses.
Retrieved(r) == With(Routed(r.request), LAMBDA found : Reporting(r, found))

\* _rank_for_graph.
Rank(c) ==
    /\ At(c, "rank")
    /\ Become(c, [Traced(Retrieved(client[c]), "rank_memories", "ranked") EXCEPT !.pc = "weigh"])
    /\ UNCHANGED <<policyFile, schedulerFile, mems, queue, used, log>>

\* _skip_memory_for_graph: results of low confidence settle it, the policies may
\* still refuse the others.
LowConfidence(r) ==
    r.request.op = "auto_context" /\ r.retrieved # <<>> /\ MaxScore(r) < r.request.minRank

SkipMemory(c) ==
    LET low == LowConfidence(client[c])
        Chosen(r) == IF low THEN r ELSE [r EXCEPT !.selected = Top(r.retrieved, r.request.selectedK)]
        proposed == IF low THEN "skip" ELSE "inject"
    IN /\ At(c, "weigh")
       /\ \E r \in Once(Chosen(client[c])) :
          \E verdict \in Once(Verdict(r, "skip_memory", proposed, InjectChoices, low)) :
          \E decided \in Once(Traced(Heard(r, verdict), "skip_memory", verdict.final)) :
              Become(c, IF verdict.final = "skip" THEN FallingBack(decided)
                        ELSE [decided EXCEPT !.pc = "bundle"])
       /\ UNCHANGED <<policyFile, schedulerFile, mems, queue, used, log>>

\* _uses_full_bundle.
UsesFullBundle(request, decision) ==
    IF request.op = "context_bundle"
    THEN request.strategy = "full" \/ (request.strategy # "lean" /\ "overview" \in request.cues)
    ELSE decision.action = "context_bundle" /\ decision.strategy = "full"

\* The choice between a full and a lean bundle: what it decides is traced, and
\* nothing else.
UseFullBundle(c) ==
    LET Proposed(r) == IF UsesFullBundle(r.request, r.decision) THEN "full" ELSE "lean"
        Governed(r) == SelectDecision(r.engine, r.request.project, "use_full_bundle", Proposed(r),
                                      BundleChoices, FALSE)
    IN /\ At(c, "bundle")
       /\ \E r \in Once(client[c]) :
          \E verdict \in Once(Verdict(r, "use_full_bundle", Governed(r), BundleChoices, FALSE)) :
              Become(c, [Traced(Heard(r, verdict), "use_full_bundle", verdict.final)
                            EXCEPT !.pc = "execute"])
       /\ UNCHANGED <<policyFile, schedulerFile, mems, queue, used, log>>

-----------------------------------------------------------------------------
(* The operation *)

\* The turn raises: nothing of it is learned or saved, an entry point ends.
Raised(c, r) == Ended(c, r)

\* What _run_context_bundle, _run_context_callback and _run_memory_explain refuse.
Refused(request) ==
    \/ request.op \in {"context_bundle", "context_callback"} /\ request.project = NoProject
    \/ request.op = "memory_explain" /\ request.target \notin mems

\* _execute_graph_operation: a cached context needs no operation; every operation
\* retrieves again, whatever was decided above.
Execute(c) ==
    LET r == client[c] IN
    /\ At(c, "execute")
    /\ Become(c, IF r.request.cached THEN Finishing([r EXCEPT !.path = "cached"])
               ELSE IF Refused(r.request) THEN Raised(c, r)
               ELSE [Retrieved(r) EXCEPT !.pc = "operate", !.path = "execute"])
    /\ UNCHANGED <<policyFile, schedulerFile, mems, queue, used, log>>

\* _task_relevance_memory_filters.
Excluded(r) == r.request.exclude \cup r.suppressed
Preferred(r) == Without(r.retrieved, Excluded(r))

\* ContextBundleBuilder.build: the sections of a bundle, and of what build_auto_context
\* answers with one.  A lean bundle packs compactly, another is the pack alone.
BundleStrategy(request) ==
    IF request.strategy # "auto" THEN request.strategy
    ELSE IF "overview" \in request.cues THEN "full" ELSE "lean"
BundleOf(r) ==
    CASE r.request.op = "context_bundle" -> BundleStrategy(r.request)
      [] r.request.op = "auto_context" /\ r.decision.action = "context_bundle" ->
           r.decision.strategy
      [] OTHER -> "none"

\* The memories each operation packs; build_auto_context and a callback pack for
\* themselves, without the router's report.  A callback is taken to be the first
\* of its session: PackSession has the later ones.
Packed(r) ==
    LET request == r.request
        Pack(excluded, preferred, compact) ==
            PackedMemories(mems, request.project, request.hits, excluded, preferred, compact)
    IN CASE request.op = "memory_pack" -> Pack(Excluded(r), Preferred(r), request.compact)
         [] request.op = "context_bundle" -> Pack(Excluded(r), Preferred(r), BundleOf(r) # "full")
         [] request.op = "context_callback" -> Pack({}, <<>>, request.compact)
         [] request.op = "auto_context" /\ PacksMemories(r.decision) ->
              Pack({}, <<>>, IsCompact(r.decision))
         [] OTHER -> {}

\* The memories a change plan quotes: the router's report is kept to here too.
QuotedInPlan(r) ==
    LET Plan(excluded, preferred) ==
            PlannedMemories(mems, r.request.project, r.request.hits, excluded, preferred)
    IN CASE r.request.op = "context_bundle" /\ BundleOf(r) # "pack" ->
              Plan(Excluded(r), Preferred(r))
         [] r.request.op = "auto_context" /\ PlansChange(r.decision) -> Plan({}, <<>>)
         [] OTHER -> {}

\* The memories a bundle's project profile lists, whatever the router reports.
Profiled(r) ==
    IF BundleOf(r) \in {"full", "lean"}
    THEN ProfiledMemories(mems, r.request.project, BundleOf(r) = "lean") ELSE {}

\* The memories the operation names to _select.
Named(r, packed) ==
    IF \/ r.request.op \in {"memory_pack", "context_callback"}
       \/ r.request.op = "auto_context" /\ NamesMemories(r.decision, r.request.project # NoProject)
    THEN packed ELSE {}

\* _select: the named memories, or else the first ones; none that is suppressed.
Selected(r, named) ==
    LET free == Items(r.retrieved) \ r.suppressed
    IN IF named # {} THEN Filtered(r.retrieved, free \cap named)
       ELSE Top(Filtered(r.retrieved, free), r.request.selectedK)

SelectedOf(r, packed) ==
    IF r.request.op = "memory_explain" THEN <<r.request.target>>
    ELSE Selected(r, Named(r, packed))

\* The memories in the text, each with its section.
InText(r, packed, selected) ==
    IF r.request.op = "memory_search" THEN {"results"} \X Items(selected)
    ELSE ({"pack"} \X packed) \cup ({"plan"} \X QuotedInPlan(r)) \cup ({"profile"} \X Profiled(r))
Choosing(r, packed, selected) ==
    [r EXCEPT !.selected = selected, !.injected = InText(r, packed, selected)]

\* _run_operation_linear after its retrieval: it packs, selects and finishes;
\* _run_memory_auto_store plans its own writeback.
Selecting(r, packed) ==
    With(SelectedOf(r, packed), LAMBDA selected : Choosing(r, packed, selected))

Operate(c) ==
    LET request == client[c].request
        dry == request.mode # "write" \/ request.dryRun \/ request.storeMode = "preview"
    IN /\ At(c, "operate")
       /\ \E packed \in {Packed(client[c])} : \E done \in {Selecting(client[c], packed)} :
             Become(c, IF request.op # "memory_auto_store" THEN Finishing(done)
                       ELSE IF dry THEN [done EXCEPT !.writeback = "preview", !.pc = "complete"]
                       ELSE [done EXCEPT !.writeback = "write", !.pc = "list"])
       /\ UNCHANGED <<policyFile, schedulerFile, mems, queue, used, log>>

-----------------------------------------------------------------------------
(* auto_store_memories *)

\* What a turn stores with: an auto_store with its request's settings, any other
\* with the defaults of auto_store_memories.
StoresAsAsked(r) == r.request.op = "memory_auto_store" /\ r.path = "execute"
StoreMode(r) == IF StoresAsAsked(r) THEN r.request.storeMode ELSE "auto"
AllowsSensitive(r) == StoresAsAsked(r) /\ r.request.allowSensitive
MaxCandidates(r) == IF StoresAsAsked(r) THEN r.request.maxCandidates ELSE 12
TargetOf(r, f) == TargetAction(f, StoreMode(r), AllowsSensitive(r))

\* The facts of the request worth a row, as planned.
Worthy(r) ==
    Filtered(PlanAdmission(r.request.segments, MaxCandidates(r), AllowsSensitive(r)),
             {f \in Fact : TargetOf(r, f) # "skip"})

ListedFacts(project) == {m[2] : m \in Listed(mems, project, FALSE)}

\* Lists what is stored and drops what is near it; the list is not read again.
List(c) ==
    LET r == client[c]
        Planning(listed) == Filtered(Worthy(r), {f \in Fact : ~NearExisting(f, listed)})
    IN /\ At(c, "list")
       /\ \E plan \in Once(Planning(ListedFacts(r.request.project))) :
             Become(c, [r EXCEPT !.plan = plan,
                                 !.pc = IF plan = <<>> THEN "complete" ELSE "store"])
       /\ log' = [log EXCEPT !.overlapped = @ \/ \E d \in Client \ {c} : At(d, "store")]
       /\ UNCHANGED <<policyFile, schedulerFile, mems, queue, used>>

\* Mutant: what was carried out goes back to the end of the plan.
PutsBack(r) == [r EXCEPT !.plan = Append(Tail(@), Head(@))]

Advanced(r) == [r EXCEPT !.plan = Tail(@), !.pc = IF Len(r.plan) = 1 THEN "complete" ELSE "store"]

\* One decision is carried out: the writer keeps an exact duplicate from being
\* stored again, a candidate is inserted each time.
Store(c) ==
    LET r == client[c]
        m == <<r.request.project, Head(r.plan)>>
        write == TargetOf(r, Head(r.plan)) = "write"
    IN /\ At(c, "store")
       /\ mems' = IF write THEN mems \cup {m} ELSE mems
       /\ queue' = IF write THEN queue ELSE queue \cup {m}
       /\ Become(c, Advanced(r))
       /\ UNCHANGED <<policyFile, schedulerFile, used, log>>

-----------------------------------------------------------------------------
(* The end of a turn *)

\* _trace_graph_completion: the operation's event is traced after it has finished,
\* the engine learns from the whole trace.
Complete(c) ==
    LET r == client[c]
        Executed == IF r.path = "fallback" THEN r ELSE Traced(r, "execute", "executed")
        Ending(s) == Traced(Traced(s, "writeback", r.writeback), "complete", "done")
    IN /\ At(c, "complete")
       /\ \E done \in Once(Ending(Executed)) :
          \E engine \in Once(UpdateFromTrace(done.engine, r.request.project, done.trace,
                                         Len(r.selected))) :
             Become(c, [done EXCEPT !.pc = "cycle", !.engine = engine])
       /\ UNCHANGED <<policyFile, schedulerFile, mems, queue, used, log>>

\* run_cycle: the scheduler's file is saved with the cycle; when that fails the
\* turn goes on, and reports it.
Cycle(c) ==
    LET r == client[c]
        signals == Signals(r.trace, Len(r.selected))
        reward == [e \in Event |-> Reward(e, Len(r.selected))]
        mean == IF signals = <<>> THEN 0 ELSE Total(reward, signals) \div Len(signals)
    IN /\ At(c, "cycle")
       /\ \E after \in Once(AfterCycle(r.scheduler, mean, r.conflicts)) :
             /\ Become(c, [r EXCEPT !.scheduler = after, !.pc = "save",
                               !.weights = Synchronized(@, after.reward, after.bias)])
             /\ \/ schedulerFile' = after /\ used' = used
                \/ /\ used.failures < MaxFailures
                   /\ used' = [used EXCEPT !.failures = @ + 1]
                   /\ schedulerFile' = schedulerFile
       /\ UNCHANGED <<policyFile, mems, queue, log>>

\* DecisionPolicyEngine.save: write_text truncates the file, then fills it.
Truncate(c) ==
    /\ At(c, "save")
    /\ policyFile' = BrokenFile
    /\ Become(c, [client[c] EXCEPT !.pc = "write"])
    /\ UNCHANGED <<schedulerFile, mems, queue, used, log>>

Write(c) ==
    LET r == client[c]
        saves == log.saves + 1
    IN /\ At(c, "write")
       /\ \E state \in Once(Written(r.engine)) :
             /\ policyFile' = File(state)
             /\ log' = [log EXCEPT !.saves = saves, !.last = state]
       /\ Become(c, Ended(c, [r EXCEPT !.seen = saves, !.sound = TRUE]))
       /\ UNCHANGED <<schedulerFile, mems, queue, used>>

\* rollback_to_version, and the save at its end.
RollBack(c, id) ==
    /\ At(c, "ready") /\ c \in Sessions
    /\ used.rollbacks < MaxRollbacks
    /\ \E engine \in Once(Rollback(client[c].engine, id)) :
          Become(c, [client[c] EXCEPT !.engine = engine, !.pc = "save", !.path = "rollback"])
    /\ used' = [used EXCEPT !.rollbacks = @ + 1]
    /\ UNCHANGED <<policyFile, schedulerFile, mems, queue, log>>

-----------------------------------------------------------------------------
(* Failures *)

\* A call of the database fails.  The ranking and an auto_context answer from the
\* request alone, and go on to store: what was stored stays.  Any other turn,
\* one that has fallen back already, and the scheduler's own list, raise.
Fail(c) ==
    LET r == client[c]
        reads == r.request.op \notin {"memory_search", "memory_auto_store"}
    IN /\ \/ At(c, "rank")
          \/ At(c, "execute") /\ ~r.request.cached
          \/ At(c, "operate") /\ reads
          \/ At(c, "list")
          \/ At(c, "store")
          \/ At(c, "cycle")
       /\ used.failures < MaxFailures
       /\ used' = [used EXCEPT !.failures = @ + 1]
       /\ Become(c, CASE At(c, "rank") -> FallingBack(Traced(r, "rank_memories", "recall_failed"))
                    [] /\ r.pc \notin {"rank", "cycle"}
                       /\ r.request.op = "auto_context"
                       /\ r.path \in {"none", "execute"} ->
                         FallingBack(Traced(r, "execute", "recall_failed"))
                    [] OTHER -> Raised(c, r))
       /\ UNCHANGED <<policyFile, schedulerFile, mems, queue, log>>

\* The policy file cannot be opened for writing, or not be filled: save raises.
SaveFails(c) ==
    /\ At(c, "save") \/ At(c, "write")
    /\ used.failures < MaxFailures
    /\ used' = [used EXCEPT !.failures = @ + 1]
    /\ Become(c, Raised(c, client[c]))
    /\ UNCHANGED <<policyFile, schedulerFile, mems, queue, log>>

\* A process dies; the next one of its kind starts anew.
Crash(c) ==
    /\ ~At(c, "closed")
    /\ used.failures < MaxFailures
    /\ used' = [used EXCEPT !.failures = @ + 1]
    /\ Become(c, Closed)
    /\ UNCHANGED <<policyFile, schedulerFile, mems, queue, log>>

-----------------------------------------------------------------------------
(* The specification *)

Init ==
    /\ policyFile \in {File(s) : s \in InitialPolicies}
    /\ schedulerFile = FreshScheduler
    /\ mems = InitialMemories
    /\ queue = {}
    /\ client = [c \in Client |-> Closed]
    /\ used = [turns |-> 0, failures |-> 0, rollbacks |-> 0]
    /\ log = [saves |-> 0, last |-> policyFile.state, overlapped |-> FALSE]

\* What a client that has work goes on to do.
Step(c) ==
    \/ LoadScheduler(c) \/ Rank(c) \/ SkipMemory(c) \/ UseFullBundle(c) \/ Execute(c) \/ Operate(c)
    \/ List(c) \/ Store(c) \/ Complete(c) \/ Cycle(c) \/ Truncate(c) \/ Write(c)

Next == \E c \in Client :
    \/ Open(c)
    \/ \E request \in Requests[c] : Begin(c, request)
    \/ Step(c)
    \/ \E id \in DOMAIN client[c].engine.versions : RollBack(c, id)
    \/ Fail(c) \/ SaveFails(c) \/ Crash(c)

Spec == Init /\ [][Next]_vars

-----------------------------------------------------------------------------
(* Properties *)

\* Where a turn can be, in the order in which it gets there.
Places == <<"rank", "weigh", "bundle", "execute", "operate", "list", "store", "complete", "cycle",
            "save", "write">>
TurnPC == Items(Places)

\* Every variable has its type; every event a turn traces is in the decision
\* graph, which raises for any other.
TypeOK ==
    /\ policyFile.kind \in {"ok", "broken"}
    /\ schedulerFile.turns \in Nat
    /\ mems \subseteq Project \X Fact /\ queue \subseteq Project \X Fact
    /\ \A c \in Client :
          LET r == client[c] IN
          /\ r.pc \in TurnPC \cup {"closed", "opening", "ready"}
          /\ Items(r.trace) \subseteq Event
          /\ Items(r.retrieved) \subseteq mems
          /\ r.decision.action \in RecallAction
          /\ r.path \in {"none", "cached", "execute", "fallback", "rollback"}
    /\ used.turns \in 0..MaxTurns /\ used.failures \in 0..MaxFailures

\* The trace of a turn walks the decision graph: after an event comes the node its
\* edge names, also where an operation fails and falls back; except that a cached
\* context and a store without recall pass through skip_memory, where their edges
\* name execute.
TraceIsAWalk ==
    \A c \in Client : LET trace == client[c].trace IN
        \A i \in 1..(Len(trace) - 1) :
            \/ trace[i + 1][1] = NextNode(trace[i])
            \/ /\ trace[i] \in {<<"use_cache", "hit">>, <<"should_recall", "writeback_only">>}
               /\ trace[i + 1][1] = "skip_memory"

\* The text of a pack, a bundle or a search never has a memory that the turn's own
\* retrieval found to be suppressed for its task, whatever was stored between the
\* two retrievals of the turn; except in the project profile of a bundle, which
\* asks no router.  A memory the retrieval did not reach may be anywhere.
SuppressedOnlyInProfile ==
    \A c \in Client : LET r == client[c] IN
        r.pc \in {"complete", "cycle"} /\ r.path = "execute"
            /\ r.request.op \in {"memory_pack", "context_bundle", "memory_search"} =>
        \A entry \in r.injected :
            entry[2] \in Items(r.retrieved)
                /\ Suppressed(Text[entry[2][2]].marks, IntentOf(r.request)) =>
            entry[1] = "profile" /\ r.request.op = "context_bundle"

\* A sensitive memory is in a section of a turn's text only if its request allowed it: to
\* include one without that ends in safe mode at the nodes of the graph.
SafeModeKeepsSensitiveOut ==
    \A c \in Client : LET r == client[c] IN
        r.pc \in {"complete", "cycle"} /\ (\E entry \in r.injected : Has(entry[2][2], "sensitive")) =>
            r.request.allowSensitive

\* While no two stores overlap, no memory is stored near another of its project
\* and type, unless the two came in one text.
SequentialStoresKeepApart ==
    ~log.overlapped =>
        \A m \in mems \ InitialMemories : \A n \in mems \ {m} :
            m[1] = n[1] /\ MemoryType(m[2]) = MemoryType(n[2]) /\ Near(m[2], n[2], 90) =>
                \/ Has(m[2], "sensitive") \/ Has(n[2], "sensitive")
                \/ \E c \in Client : \E request \in Requests[c] :
                       {m[2], n[2]} \subseteq Items(request.segments)

\* A turn that stored is done with every fact of its request worth a row: it is
\* stored, it waits, or a memory near it was there; also when storing failed half
\* way and the fallback did it again.
WritebackIsWhole ==
    \A c \in Client : LET r == client[c] IN
        r.pc \in {"complete", "cycle", "save", "write"} /\ r.request.mode = "write"
            /\ r.path # "rollback"
            /\ (r.request.writeback \/ StoresAsAsked(r))
            /\ ~(StoresAsAsked(r) /\ r.writeback = "preview") =>
        \A f \in Items(Worthy(r)) :
            \/ <<r.request.project, f>> \in mems \cup queue
            \/ NearExisting(f, ListedFacts(r.request.project))

\* A save whose engine knows of every earlier one extends the log that was saved
\* last, over turns, failures, crashes of others and rollbacks.
SaveExtendsTheLog ==
    [][\A c \in Client :
          At(c, "write") /\ log'.saves > log.saves /\ client'[c].pc # "write"
              /\ client[c].sound /\ client[c].seen = log.saves =>
          ExtendsLog(log.last, policyFile'.state, client[c].loaded)]_vars

\* The ids of versions are their places in the log, in the file and in every engine:
\* no rollback, lost save or unreadable file makes an id twice.
VersionsAreDistinct ==
    /\ LogIsWellFormed(policyFile.state)
    /\ \A c \in Client : LogIsWellFormed(client[c].engine)

\* What is learned over all projects is what is learned in each, in every engine and
\* in the file, after rollbacks too.
GlobalIsSumOfProjects ==
    SumsUp(policyFile.state) /\ \A c \in Client : SumsUp(client[c].engine)

\* A turn cannot go round for ever: each of its steps ends it, or makes it fall
\* back, which happens once, or brings it to a later place, or to a shorter plan.
Place(r) == CHOOSE i \in DOMAIN Places : Places[i] = r.pc
Nearer(r, s) ==
    \/ s.pc \in {"closed", "ready"}
    \/ r.path # "fallback" /\ s.path = "fallback"
    \/ /\ r.path = "fallback" => s.path = "fallback"
       /\ Place(s) > Place(r) \/ (Place(s) = Place(r) /\ Len(s.plan) < Len(r.plan))
TurnAdvances ==
    [][\A c \in Client :
          client[c].pc \in TurnPC /\ client'[c] # client[c] => Nearer(client[c], client'[c])]_vars
=============================================================================
