# A verification of hippocampus-memory

`hippocampus-memory` is a local long-term memory for coding agents. CLI
commands, an MCP server and a FastAPI application (whose handlers run on a
thread pool) work on one SQLite file and on two JSON files beside it. This
directory models the parts of it that keep state, checks them with TLC on small
instances, and proves the main invariants with TLAPS for every instance.

Line numbers below are of `src/hippocampus_memory/` unless they say otherwise.

## The system

### What SQLite gives and what it does not

`Database.connect` (db.py:28) opens a connection for each `with` block, with
`foreign_keys = ON` and a busy timeout of 30 seconds. Python's `sqlite3` opens a
transaction at the first INSERT, UPDATE or DELETE of a block. So in every model

- what a block *writes* is atomic;
- what a block *reads* before its first write is outside that transaction, and
  may be stale when it writes (db.py:114, conflict_detector.py:43,
  project_indexer.py:72 and 230, consolidator.py:77);
- a call of several blocks can be interrupted between any two: by another
  process, by a kill, or by an exception (database locked past its timeout, a
  foreign key, a file gone). The open block rolls back, earlier ones stand.

One action of a model is one such atomic piece; the local variables a call
carries from one to the next are variables of the model, per client.

### Components

| component | state | operations | what is hard |
|---|---|---|---|
| memory tables (`db.py`, `memory_writer.py`, `consolidator.py`, `session_ingestor.py`) | `memories`, `memory_fts`, `memory_vectors`, `memory_candidates` | write, forget (one or a project, soft or hard), supersede, consolidate, queue, accept, discard, count usage | check-then-insert without a unique index; rows, full-text entries and vectors kept in step by hand; sweeps by stale ids; crash between a write and its mark |
| project indexer (`project_indexer.py`) | `files`, `chunks`, `code_symbols`, `code_references`, source memories; the files on disk | `index_project` | files change and vanish during a run; a run dies half way; memories shared by files; equality by a lossy hash |
| callback sessions (`callback.py`, `packer.py`) | `callback_sessions` | callback, reset | read-modify-write of the whole row over a long call |
| conflict ledger (`conflict_detector.py`) | `conflicts` | detect (each pack and consolidation), resolve, list | look-up outside the transaction, no unique index |
| turn orchestrator (`orchestrator/turn_orchestrator.py`) | policy file `*.policy.json`, per-turn trace | `run_turn`, learning, versions, rollback | whole-file load and save by several processes; corrupt file becomes a fresh state; log and state rolled back differently |
| memory scheduler (`orchestrator/memory_scheduler.py`) | `*.scheduler.json`, cool-down table | `run_cycle` once a turn | as above; cool-down against oscillating tiers; one blocked step skips others |
| admission and recall policies, ranking, retrieval (`memory_policy.py`, `recall_policy.py`, `ranker.py`, `retriever.py`) | none but usage counts | scoring of texts | thresholds, stale lists |
| code intelligence, packs, bundles, summaries, reports | none | reading and formatting | - |
| deployment, entry points | set-up files | written once, by hand | - |
| `scripts/safe_apply_patch.py` | files of a repository, backups | apply a patch | files written one by one |

`PROJECT.json` lists every source file under one of these, modelled or not,
and the reason for those that are not.

Interaction is by calls downwards and by the shared tables sideways: the
orchestrator calls the retriever, the packer, callback and the admission policy;
the packer calls the conflict detector; the indexer and the accept of a
candidate call `MemoryWriter.write`; consolidation touches memories, source
chunks and conflicts. No component waits for another, so nothing deadlocks
apart from SQLite's own lock, which times out into an exception.

### What makes each component correct

- *Memory tables.* A live memory can be found; nothing is live twice unless two
  writers raced; a retired memory stays retired; a vector has its row; an
  accepted candidate reached the store; a discarded one stays out.
- *Project indexer.* What a run reports as indexed is in the tables; a file's
  chunks are those of one version; no source memory is live without a chunk
  after a run, or twice; a dead run harms nothing a later one does not repair.
- *Callback sessions.* The session remembers exactly what was injected, and a
  pack repeats nothing.
- *Conflict ledger.* A conflict has one open row.
- *Turn orchestrator.* A turn's trace is a path of the decision graph; a turn
  ends; what it shows is neither suppressed for its task nor sensitive unless
  allowed; what it was to store is stored, also when an operation fails half way
  and the fallback does it again.
- *Policy engine.* Ids of versions are unique and parents precede; no save that
  knew all earlier ones rewrites the log, over rollbacks too; what is learned
  over all projects is the sum of what each learned.
- *Memory scheduler.* What is learned from conflicts is kept by each save;
  biases and weights stay in bounds; a compression is not put off for ever;
  a plan does not both promote and drop a memory; the contradictions its reports
  refuse are those its attention and its task are about.

## Modules

| module | models |
|---|---|
| `MemoryLifecycle` | the abstract life of a memory: unborn, live, retired, and an index that holds all live ones |
| `MemoryStore` | the memory tables and the calls that change them; implements `MemoryLifecycle` |
| `MCMemoryStore` | its instances |
| `MemoryStore_proofs` | its theorems |
| `ProjectIndex`, `MCProjectIndex` | the project indexer, edits on disk, forgets and the sweep of missing sources |
| `ProjectIndex_proofs` | its theorems |
| `PackSession`, `MCPackSession` | callback sessions and the conflict ledger |
| `PackSession_proofs` | its theorems |
| `TurnGraph` | the decision graph: nodes, and which follows after which decision |
| `PolicyArbiter` | the five policies, the cost estimate, and the arbitration between them |
| `PolicyEngine` | learned weights, decisions on record, version log, snapshots, rollback |
| `RecallPolicy`, `TaskRelevance`, `Admission`, `Ranking` | what of a request is asked from memory; which memories its task promotes or suppresses; which of its text is stored; search and pack |
| `TurnOrchestrator`, `MCTurns` | `run_turn`, composing the modules above with the memories and the two files |
| `MemoryScheduler` | the operators of a cycle: rewards, biases, tiers, lifecycle actions |
| `Cognition` | a cycle's reports on contradictions, concepts, goals, attention and task |
| `SchedulerCycles`, `MCSchedulerCycles` | cycles of several sessions over memories that are used and age, and the scheduler's file |
| `SchedulerCycles_proofs` | its theorems |
| `Ordering` | sorting, filtering, folding, and arguments that are evaluated once |
| `Folding` | what a fold returns, for any operator |
| `Ordering_proofs` | what sorting, filtering and adding up return |
| `PolicyEngine_proofs` | what learning, saving and rolling back keep of a policy state |
| `TurnOrchestrator_proofs` | its theorems |

`TurnOrchestrator` EXTENDS `PolicyEngine`, `RecallPolicy`, `Ranking` (with
`Admission` and `TaskRelevance`) and `MemoryScheduler` (with `PolicyArbiter`);
`SchedulerCycles` EXTENDS `Cognition`, which EXTENDS `MemoryScheduler`. The
modules without variables are the pure parts of the code, so that the same
operators are run by both.

### MemoryStore

State: `status` of each row of `memories` ("none" before it is inserted, "gone"
after a hard delete), the ids in `memory_fts` and `memory_vectors`, the rows
ever `used`, the rows `expired`, the status `cand` of each candidate; per
client the program counter `pc` and the call's locals `wkey`, `src`, `ids`,
`scope`. Project, type, content hash, importance, ttl and first status of a row
are never updated by the code, so they are constant functions of its id:
choosing an unused id is choosing the data of the new row. `raced` is a
history variable: keys for which two clients were between `find_duplicate` and
`insert_memory` at once. So is `overtaken`: rows a client had in hand when they were
last forgotten, or superseded afterwards.

| code | actions |
|---|---|
| `MemoryWriter.write` | `BeginWrite`, `InsertMemory`, `UpsertVector` or `UpsertVectorFails` |
| `accept_candidate` | `BeginAccept`, `AcceptFindsDuplicate` or `AcceptFindsNoDuplicate` and the rest of write, `MarkAccepted` |
| `queue_summary_candidates`, `discard_candidate` | `QueueCandidate`, `DiscardCandidate` |
| `forget` | `ForgetSoft`, `ForgetHard`; `SelectProjectIds` then `EraseProjectSoft` or `EraseProjectHard` |
| `supersede_memory` | `BeginSupersede`, `MarkOutdated` |
| `consolidate` | `TakeSnapshot`, `ArchiveNext` for each row it archives |
| `Retriever.search` | `RecordUsage` |
| time, kills, exceptions | `Expire`, `Crash` |

A write that finds a duplicate changes nothing and is left out unless an accept
waits for it. `supersede_memory` reads its two rows in two blocks; they are one
action, since only the existence of the rows matters and both orders end in the
same update. The order of the list `consolidate` reads is by importance, then by
time of update; time is left out, so any of the most important rows of a hash
may be first. Its limit of 1000 rows is above every bound here.

### ProjectIndex

State: the content of each file on `disk`; the `files` rows (a version stands
for what the row's hash and summary were computed from); the version `code`
holds; the `chunks`; the source memories `mem` in order of creation, because
`find_duplicate` takes the oldest; the locals of a `run`; what a consolidation
has read (`doomed`, sources of missing files; `merging`, duplicates it is archiving
one by one). A version is a sequence of parts, the result of
`split_chunks`. `Digest` and `PartHash` are `content_hash` of versions and
parts: not injective, since the hash folds case and white space. Blank files
have no parts. A run is `Start`, for each file `ReadFile`, `PeekRow`,
`UpsertFile`, `ReplaceCode` and per part `FindDuplicate`, `InsertPart`,
`LinkChunk`, then `MarkMissing`, `ReadMissing`, `ClearCode`, `ReadUnlinked`,
`ArchiveUnlinked`; the actions named `...Fails` are the exceptions. `lost` is a
history variable for what the design gives up: memories archived with another
file's old version, because their file was missing for a while, or as duplicates,
that a chunk still links.

`consolidate` keeps the first row of each hash in a list of every row that is not
deleted, of all projects, types and statuses (consolidator.py:25-34). Here the rows
of other projects and types are not in the state, so `ListDuplicates` keeps at most
one row of each hash, any one, or none; `MergeNext` archives the rest, one
transaction each, by ids as old as the list. What `consolidate` archives for low
value is in the same choice: a row of a hash that is not kept.

### PackSession

State: the status of each memory as a listing sees it; `seen`, the session
rows; `open` and `closed`, the numbers of rows of `conflicts` for each scope
and pair; the locals of each `call`. A callback is `BeginCallback`, `Search`,
`ListConflicts`, `CheckConflict` for pairs already open, `InsertConflicts` for
all that are left (from the first INSERT on, `_persist` is in one transaction),
`Remember`. Other packs and consolidations enter at `ListConflicts` through
`BeginDetection`. History: `injected` and `printed` per session since its last
reset, `stale` calls whose session row was written since they read it,
`tangled` sessions written by a stale call, `disputed` conflicts inserted by two
calls at once or reopened by hand.

### TurnOrchestrator

State: `policyFile` and `schedulerFile` beside the database; `mems`, the stored
memories as pairs of a project and a fact; `queue`, the candidates; `client`,
for each process its orchestrator (policy engine, scheduler, arbiter weights)
and the locals of the turn it is in; `used`, what is used up of the bounds.
`log` is a history variable: the number of saves, the state of the last, and
whether two stores overlapped; `seen`, `sound` and `loaded` of a client say which
save its engine was loaded from. An entry point builds an orchestrator for each
turn; a session (a library user) keeps one, and can roll its policy back.

| code (`turn_orchestrator.py`) | actions |
|---|---|
| `DecisionPolicyEngine.for_database`, `MemoryScheduler.for_database` | `Open`, `LoadScheduler` |
| `_run_decision_graph` up to `use_cache` | `Begin` |
| `_rank_for_graph` | `Rank` |
| `_skip_memory_for_graph` | `SkipMemory` |
| the choice of a bundle | `UseFullBundle` |
| `_execute_graph_operation`, retrieval of `_run_operation_linear` | `Execute` |
| the `_run_...` operations, `_select`, planning in `_finish` | `Operate` |
| `auto_store_memories` (`memory_policy.py`) | `List`, `Store` for each decision |
| `_trace_graph_completion` | `Complete`, `Cycle`, then `Truncate` and `Write` of `save` |
| `rollback_to_version` | `RollBack`, then the save |
| exceptions and kills | `Fail`, `SaveFails`, `Crash` |

Each action reads or writes shared state at most once, so other clients and failures
come between any two. `_trace_decision` is `Traced`, in every action that decides. A
request carries what the code computes from its text: cues of `recall_policy.py`,
keyword weights of `task_intent.py`, facts its words hit and the facts (segments) it
consists of. A fact has a type, traits (what the admission rules look for), marks
(what the router looks for) and a similarity to each other fact. What a turn shows,
`injected`, is a set of pairs of a section of its text and a memory: "results" of a
search, "pack", "plan" for the memories a change plan quotes, and "profile" for the
decisions, task states, constraints and failures that a bundle's project profile
lists (project_profile.py). Scores, weights and rewards are integers (hundredths and
finer) with the code's thresholds and clamps.

Left out: texts and their cutting (a memory counts as shown although the text may be
cut before it); recency and usage in a score; a profile's limit of 200 rows; the
outcome history and drift report; averages of confidence; later callbacks of one
session, which `PackSession` has; the report when the scheduler's file cannot be
saved. A callback is the first of its session. The sections of a bundle are read in
one step, where the code lists the table once for each: a memory stored in between
would be in the later ones only. The scheduler's save is one step here;
`SchedulerCycles` splits it.

Things the model makes plain, none of them contradicting a text or a test: the
graph's edges name `execute` after a cache hit and after `writeback_only`, but the
code passes through `skip_memory` (`TraceIsAWalk` states this exception); the choice
between a full and a lean bundle at `use_full_bundle` affects the trace only (the
operation goes by the request and `decide_recall`); a turn the policies forbid to
recall still retrieves and packs for `auto_context`, without sensitive memories; a
bundle's pack and change plan are told which memories are suppressed, its profile is
not (context_bundle.py:105 and 148-150), so it may list one that the same bundle's
pack leaves out (`SuppressedOnlyInProfile` allows exactly this); versions an engine
recorded share their decision weights with its live state, so a session's later
turns change what its earlier versions show (`ExtendsLog` allows exactly that).

### PolicyEngine

`PolicyState` is a record: weights per project and over all projects, `recent`
decisions of `should_recall`, the number of turns, the current version,
`versions`, `snapshots`. `AdjustEdge`, `RecordDecision`, `SelectDecision`,
`UpdateFromTrace` and `Rollback` are the methods; `Written` is what `save` writes.
`to_dict` copies numbers and shares dictionaries; a version that the engine
itself recorded is therefore `live`, and `Shown` says what it shows.

### SchedulerCycles

State: `store`, the memories in the order of the database's list; `file`;
`session`, for each its scheduler state, the arbiter's weights, and the last
transition the stability controller keeps for each memory; `used` and `log` as
above. `RunCycle` is `run_cycle` up to its save (for any set of selected
memories, load and rewards of the constants), `Truncate` and `Write` are
`save`, and `SaveFails` a save that fails before or after it has truncated the file
(the session goes on either way); `Use` and `Pass` are `record_usage` and time;
`Crash`, `Open` and `Close` the life of a session. A session's `skipped` counts, for
`CompressionIsNotStarved`, cycles in a row that left out a compression that was
due. Goals, attention and task of `Cognition` change nothing; two invariants
relate them to the contradictions reported.

Weights of the arbiter are saved but never read back: each session starts from
the defaults (`Open`). A promotion of a memory that is in L2 already counts as a
transition and holds back the next ones for `Window - 1` cycles, with the
compression and demotion of the same memory (memory_scheduler.py:1185).

## Runs

| run | instance | shows |
|---|---|---|
| `MemoryStore_copies` | 2 clients, 3 possible copies of one memory, 1 candidate, crashes | `TypeOK`, `CallsKnow`, `ActiveIsSearchable`, `DuplicatesOnlyFromRaces`, `AcceptedWasWritten`, `DiscardSticks`, `ImplementsLifecycle` |
| `MemoryStore_shared` | 2 clients, one content in 2 projects, one row with a ttl and low importance, one written already deleted, crashes | `VectorsHaveRows`, `NeverReactivated`, `ForgottenReturnsOvertaken` |
| `MemoryStore_live` | 2 clients, 2 copies, 1 candidate, no crashes, fairness | `ActiveGetsVector`, `AcceptDecides` |
| `MemoryStore_merge` | 1 client, 2 copies of different importance | `ConsolidationKeepsACopy` is violated |
| `ProjectIndex_crash` | 1 indexer, 2 files, 3 versions (two parts, the first part alone, blank), 2 runs, 1 edit, crashes, forgets, missing sources archived | `TypeOK`, `VisitedIsIndexed`, `TextsAreActiveOnce`, `EndsWithoutOrphans` |
| `ProjectIndex_edit` | 1 indexer, the same 2 files and 3 versions, 3 runs, 2 edits, missing sources and duplicates archived, no kills and no forgets | `ChunksAreOneVersion`, `ActiveIsLinked`, `ArchivedLinkIsALeak` |
| `ProjectIndex_recased` | versions equal up to case | `ChangedIsRechunked` is violated |
| `ProjectIndex_partial` | one file of 2 parts, crashes | `LongFileIsWhole` is violated |
| `PackSession_race` | 2 clients, 3 memories in 2 contradicting pairs, 1 session, 2 calls, crashes | `TypeOK`, `SeenIsWhatWasInjected`, `OpenOnce`, `NoRepeats` |
| `PackSession_trim` | packs over `max_tokens` | `SeenWasPrinted` is violated |
| `Turns` | an entry point with 12 requests and a session with 2, over 2 projects (and none), 7 facts, a learned policy; 2 turns, 1 failure, 1 rollback | `TypeOK`, `TraceIsAWalk`, `SuppressedOnlyInProfile`, `SafeModeKeepsSensitiveOut`, `SequentialStoresKeepApart`, `WritebackIsWhole`, `VersionsAreDistinct`, `GlobalIsSumOfProjects`, `SaveExtendsTheLog`, `TurnAdvances` |
| `SchedulerCycles` | 2 sessions, 4 stores of 1 to 3 memories, 2 loads, 2 conflict traces; 4 looks, 1 use, 60 days, 1 failure | `TypeOK`, `CompressionIsNotStarved`, `NoMixedPlan`, `ContradictionsAreAttended`, `TaskIsAttendedFirst`, `SaveKeepsLearning`, `SafetyNeverFalls` |

Bounds. `MemId` bounds the rows ever inserted, and `RoomFor` keeps a client from
starting a write that could not be given a row; three rows are two copies and
one more after both are retired. `MaxRuns`, `MaxEdits` and `MaxCalls` bound
runs of the indexer, edits and calls. Two clients are enough for each race of a
look-up and an insert; calls of one transaction need no client and may come
between any two steps, so they act as a third. The ProjectIndex runs check no
deadlock: when runs and edits are used up, the system stops. Model values are
symmetric where a run checks no liveness.

In `Turns` the requests are chosen so that every operation takes its main path and
every edge of the graph is walked: near facts in one text and in two, a queued fact,
a suppressed one, a sensitive one with and without permission, noise, a cached
context, a refused bundle and full ones, one of them with a suppressed memory in its
profile, a change plan, a turn without recall. Two turns are the fewest that
overlap, and that follow each other in one session; with a rollback between and a
first policy that already has a version, the log reaches three. One failure at any
step is enough for the fallback, for a torn file, and for one half of a turn without
the other. In `SchedulerCycles` a store each is made for promotions held back, a
pending task that ages, contradictions with and without equal prefixes, doubtful and
old memories; a cycle looks at each memory of its store, so four looks (`MaxLooks`)
are four cycles over one memory, two over two and one over three. Four are `Window +
1`: the first promotes, two are held back, and the next must let the compression
through. 60 days cross the thresholds of 30 and 60 (and, from 110, of 120) days.
Both stop when turns or looks are used up, so deadlock is not checked there.

Fairness. `FairSpec` asks weak fairness of `Continue(c)`, the rest of a call
that has begun: between two blocks it is straight-line code that waits for
nobody. Nothing obliges a client to begin a call, a candidate to be reviewed or
a row to expire, and the liveness run has no crashes: after one, a memory may
stay without its vector for ever, since no other call repairs it.

That a turn ends is stated without fairness, as the variant `TurnAdvances`: each
of its steps ends it, falls back for the only time, gets to a later place, or
shortens its plan. The code waits for nobody inside a turn, so a process that is
not killed takes these steps.

### What the violated runs show

- `ConsolidationKeepsACopy`: write a memory, supersede it, write its content
  again, consolidate. The outdated row, if more important, is kept as the first
  of its hash and the active one archived as its duplicate (consolidator.py:33).
- `ChangedIsRechunked`: edit a file in case only; the run records the new
  version and keeps the old chunks (utils.py:26).
- `LongFileIsWhole`: kill a run between two chunks of a file; every later run
  skips the file and its remaining lines are never indexed
  (project_indexer.py:132).
- `SeenWasPrinted`: a memory cut from the text at `max_tokens` counts as shown
  and is excluded from then on (packer.py:162).

## Proofs

All theorems are for any number of clients, rows, candidates, projects, files,
sessions and memories, from the named assumptions on the constants, which TLC
evaluates on every run. Those of `ProjectIndex_proofs` state their further
assumptions on the constants; no other is made.

`MemoryStore_proofs`. The safety invariants are not inductive alone.
`ActiveIsSearchable` needs to know that the ids a client is about to remove from the
index belong to rows of the project it is about to erase (`EraseKnows`);
`AcceptedWasWritten` that a client at "vector" or "mark" has its memory written
(`AcceptKnows`); `DuplicatesOnlyFromRaces` that, for a key that did not race, a
client at "insert" is alone there and no active copy exists (`WriteKnows`). These
are `CallsKnow`, and `IInv` is their conjunction with the types and the invariants.
`Invariance` proves it from `InitIInv` and `StepIInv`, with one lemma per conjunct
and, below, one case per action; the other invariants follow. The action properties
`NeverReactivated`, `DiscardSticks` and `ForgottenReturnsOvertaken` follow from
lemmas on how one step may change a row (`StepAges`: a row only ages) and whose
locals it may change (`OthersKeepLocals`). `ForgottenStays` rests on `HeldIsKnown`,
a part of `IInv`: a forgotten row that some call still has in hand is in
`overtaken`. A list read after the forget leaves out deleted rows, so it brings none
back. `Refinement` proves that every step is an insert that publishes one memory, a
retirement of some, or a stutter of `MemoryLifecycle`.

`PackSession_proofs`. `IInv` joins types, `SeenIsWhatWasInjected`, `OpenOnce` and
what a call knows: its exclusion list is the session's row unless it is stale,
it includes nothing it excludes, and before an INSERT its conflict has no open
row unless disputed. `NoRepeats` follows from these at any moment. The crux is
`RowChangesMakeStale` (whoever changes a session row marks the calls that read
it) and `RowsGrow` (which steps add an open row).

`ProjectIndex_proofs`. `TypeCorrect` is for any number of runs at once. The others
assume `OneIndexer`: one `index_project` at a time, any number of them one after the
other. `Indexed(x)` joins the types with what the run x knows: `Visits` (what it is
done with is out of its list, and a file it is writing has its row already),
`Inserts` (before it inserts a text no active memory has it) and `Sweeps` (before
the last update, the memories it read as unlinked still are, and every other active
one is linked; a memory it is about to link was archived only by a leak). A
consolidation may archive any memory at any time, linked or not, so
`OnlyLeaksAreArchived` must say of each archived link how it came about.
`RunVisiting`, `RunTexts` and `RunLinks` show that its own steps keep these, the
`Others...` lemmas that edits, erasures and consolidation do. `RowsAreOneVersion`
and `NoneIsStranded` assume in addition `~MayCrash` and `~MayForget`, without which
`LongFileIsWhole` shows the first to be false. They need `Strands` (an active memory
without a chunk is in the hands of x) and `Chunks` (the chunks there are and the
parts still to do are the parts of the new version, and a file that is skipped for
an equal digest keeps those of the old one).

`SchedulerCycles_proofs`. `IInv` joins the types, that a whole file holds what
was saved last, `HeldBriefly` and `Extends`. `CompressionIsNotStarved` is not
inductive: the number of cycles that passed a compression over must be tied to
the turn of the last transition of that memory (`HeldBriefly`: no more of them
than turns since), since the controller counts turns, not skipped work; and a
memory's tier may change between any two cycles, so the argument may not use
it. `SaveKeepsLearning` needs `Extends`: a session that missed no save has at
least what the last save had, and one cycle more when it is about to save; a
save that failed keeps the session ahead of the file, and a session that loaded a
torn file is not `sound`. `PlansAreNotMixed` is arithmetic over the thresholds: a
promoted memory has been used, so it does not decay and is not demoted, and its
strength is far above that of an eviction. `SafetyIsKept` follows from the types,
which bound the weights between the limits a cycle clamps to. The two properties
of attention are about every reachable store. `ConflictingAttended` follows the
pair of a contradiction through `Conflicting`, `Merged` and `Goals`: the ids of
conflicts have the greatest attention there is (`AttentionIs`), and their goal leads
the tasks (`TaskIs`). What remains is that the reports miss none of each other's
contradictions though they go by different keys: the consistency model compares
prefix and body, and keeps the last memory of each polarity, merged meanings and the
cognitive reports compare bodies; opposite claims of one key are claims over one body,
and for these there is a pair among the `Contradictions` (`ContradictedBody`).

`Folding`, `Ordering_proofs`. Learning, filtering, adding up and removing near copies
are folds over sequences. What a fold returns is an induction over its sequence; the
induction theorems of the library cannot be cited here, so `UpTo` proves one from
the well-foundedness of strict subset on finite sets, with a set of numbers in the
place of a predicate, and `RecursionExists` that a recursion up to n has a solution.
`Fold` says that a fold whose step stays in a set goes through values of that set, one
for each element; a proof then chooses the set, or does one more induction with
`UpTo`. The operator is a constant of `Folding`, which is instantiated for each
operator that is folded (`KeepIn`, `AddUp`, `Learn`, `KeepNew`, `KeepApart`).
`SortedEnumerates` says that sorting a finite set by keys that tell its elements
apart gives each of them once, by counting for each element those that precede
it; `FilteredItems` what a filter keeps; `TotalChange` that changing one summand
changes the total by as much. The recursive functions of `Ordering` are written so
that they can be cited there, and are the ones that TLC runs.

`PolicyEngine_proofs`. `Sound` is what every engine and the file keep: the type of
the state, `LogIsWellFormed`, `SumsUp` of the state and of each version in its log,
and, for a version that shares its dictionaries with the live state, that the live
state has all its entries (`Covered`). The last is what makes `Shown`, and with it a
save and a rollback, well defined. `UpdateSound`, `WrittenSound` and
`RollbackSound` prove that it is kept by `update_from_trace`, `save` and
`rollback_to_version`, with the log before being a beginning of the log after
(`LogKept`); `FreshSound` that it holds of what an engine starts from without a file.
The assumption on `InitialPolicies` is that each is a `SavedState`: one with all its
versions written out, none of them live. That this asks no more than the code gives
is proved: `WrittenIsSaved` says that what a sound engine saves is a `SavedState`, and
`FileIsSaved` of `TurnOrchestrator_proofs` that, from such a file or none, a file that
can be read always holds one, whoever saved it and after whatever failures.

`TurnOrchestrator_proofs`. None of the invariants of a turn is inductive. `IInv`
(checked by TLC on the instance of `Turns` before it was proved) joins, of the
shared state, `MemoriesTyped`, `FilesTyped` (the file holds what was saved last or is
torn, and both are `Sound`), `Bounded` and `Apart`; and of each client

- `Typed` and `Placed`: its locals have their types, and where it is tells how it
  got there (what path, which writeback, a plan that is not empty while it stores);
- `Walking`, for `TraceIsAWalk`: the trace is a walk and ends with an event that
  allows the next one to be traced at that place;
- `Shielded`, for `SafeModeKeepsSensitiveOut`: a search that would include what it
  may not show never gets as far as the bundle, because the arbitration at
  `skip_memory` ended in safe mode (`VerdictType`; only for an `auto_context` is it
  bypassed); so what is shown of sensitive memories was allowed;
- `Reported`, for `SuppressedOnlyInProfile`: the report in the context is the one
  of the retrieval the operation uses, not of the ranking before, and neither the
  results, nor the pack, nor the plan has a memory it excludes (`PlannedType`,
  `QuotedOfTurn`);
- `Whole`, for `WritebackIsWhole`: while it stores, each fact worth a row is seen to
  or still in the plan; memories are never removed, so what was seen to stays so;
- `UpToDate`, for `SaveExtendsTheLog`: an engine that has seen every save has a log
  that extends the one saved last, and shares none of the versions it loaded.

`Apart`, for `SequentialStoresKeepApart`, says besides that nothing stored clashes
with what is planned while stores do not overlap, and that one client at most is
storing then. There is one lemma per action (`RankStep`, `WriteStep`, ...);
`MoverKept` and `Moved` say once that a step of one client leaves the others as
they are. The action property `SaveExtendsTheLog` follows from `UpToDate` and
`FilesTyped`; the variant `TurnAdvances` from the types and `Placed`, with a lemma for
each stretch of a turn. All is for any clients, requests, memories and similarity of
facts, and any bounds on turns, failures and rollbacks: bounds of 0, 2 or a thousand
turns make no difference to the argument.

Where a module with proofs updates several fields of one record in a function, it
does so by one inner EXCEPT, with the old value written out in place of `@`: the
installed prover misreads the form with several paths to the same index.

Only model-checked: the liveness properties `ActiveGetsVector` and `AcceptDecides`
(TLAPS proves nothing from fairness here), and the violations. Every invariant and
every action property that a passing run checks is also a theorem.

## What is not modelled

Texts: contents of memories, layout and cutting of packs, which words make a cue,
trait or mark; embeddings and semantic search (off with the default backend).
Code intelligence, summaries, the token ledger and reports, which read or append
only. Two indexers of one project at once; limits of 500 and 1000 rows. Policies
a library adds to the arbiter, and its direct calls of `adjust_edge` other than
before the first turn. Of a scheduler's cycle, the reports nothing else is
computed from. `safe_apply_patch.py`, set-up commands and the benchmark harnesses,
each run by hand by one process. `PROJECT.json` gives the reason for each, and its
list of hazards says which ones no property covers.

## Plan

What is left, in order:

1. `SafeApplyPatch`: staging and the write loop as a refinement of an atomic patch
   while nothing fails.
2. A second indexer in `ProjectIndex`, with the weaker guarantees two runs that
   sweep at once still give.
3. An abstract specification of the policy file, a log of versions that sound
   saves extend, with `TurnOrchestrator` shown to implement it: `SavesExtend` and
   `Invariant` are its steps.
