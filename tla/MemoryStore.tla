----------------------------- MODULE MemoryStore -----------------------------
(***************************************************************************)
(* The long-term memory tables of hippocampus-memory and the calls that     *)
(* change them: write, forget, supersede, consolidate and the review of     *)
(* queued candidates.                                                       *)
(*                                                                          *)
(* CLI commands, MCP servers and the HTTP daemon share one SQLite file, so  *)
(* a Client here is a process (or a server thread) in the middle of one     *)
(* call.  Database.connect opens a connection for each "with" block, and    *)
(* Python's sqlite3 opens a transaction at the block's first DML statement: *)
(* what a block writes is atomic, and what a call READ before that may be   *)
(* stale when it writes.  One action below is one such atomic piece; the    *)
(* points between them are where other clients run, or the process dies.    *)
(*                                                                          *)
(* Nothing ever updates the content, type, project, importance, ttl or the  *)
(* first status of a row, so these are constant functions of the row's id:  *)
(* stable_id is an unused identifier, and choosing which unused one is      *)
(* choosing the data of the new row.                                        *)
(***************************************************************************)
EXTENDS Naturals, FiniteSets

CONSTANTS
    Client,         \* the processes that may have a call in progress
    MemId,          \* identifiers of memories rows
    Cand,           \* identifiers of memory_candidates rows
    Project,        \* project names
    Key,            \* [hash, project, type]: what find_duplicate compares
    KeyOf,          \* the key of each row
    InitStatus,     \* the status each row is written with
    Importance,     \* the importance of each row; level 0 stands for below 0.2
    HasTtl,         \* the rows that have an expires_at
    CandKey,        \* the key each candidate is written under when accepted
    MayCrash,       \* whether a client may die, or its call raise, on the way
    NoKey, NoCand, NoProject, AllProjects

RowStatus == {"active", "outdated", "archived", "deleted"}

ASSUME KeyAssumption ==
    /\ \A k \in Key : k.project \in Project
    /\ NoKey \notin Key
ASSUME RowAssumption ==
    /\ KeyOf \in [MemId -> Key]
    /\ InitStatus \in [MemId -> RowStatus]
    /\ Importance \in [MemId -> Nat]
    /\ HasTtl \subseteq MemId
ASSUME CandAssumption ==
    /\ CandKey \in [Cand -> Key]
    /\ NoCand \notin Cand
ASSUME ScopeAssumption ==
    /\ NoProject \notin Project
    /\ AllProjects \notin Project
    /\ NoProject # AllProjects
ASSUME CrashAssumption == MayCrash \in BOOLEAN

VARIABLES
    status,          \* memories.status, "none" before the insert, "gone" after a DELETE
    memory_fts,      \* the ids that have a memory_fts row
    memory_vectors,  \* the ids that have a memory_vectors row
    used,            \* the rows whose usage_count is above zero
    expired,         \* the rows whose expires_at has passed
    cand,            \* memory_candidates.status, "none" before the insert
    pc,              \* how far the client's call has got
    wkey,            \* the key of the memory a client is writing
    src,             \* the candidate a client is accepting
    ids,             \* the rows a client read and will still change
    scope,           \* the project a client is erasing
    raced,           \* history: keys two clients were about to insert at once
    overtaken        \* history: forgotten rows that a call which will write their status
                     \* had in hand when they were forgotten, or took up afterwards

tables == <<status, memory_fts, memory_vectors, used, expired, cand>>
locals == <<pc, wkey, src, ids, scope>>
history == <<raced, overtaken>>
vars == <<tables, locals, history>>

-----------------------------------------------------------------------------
Exists(i) == status[i] \in RowStatus
RowsOf(p) == {i \in MemId : Exists(i) /\ KeyOf[i].project = p}

\* Mutant: find_duplicate looks among the archived rows.
ArchivedCopies(k) == {i \in MemId : status[i] = "archived" /\ KeyOf[i] = k}

\* What find_duplicate looks for.
ActiveCopies(k) == {i \in MemId : status[i] = "active" /\ KeyOf[i] = k}

CandStatus == {"none", "pending", "accepted", "discarded"}
Pc == {"idle", "check", "insert", "vector", "mark", "erase_soft",
       "erase_hard", "supersede", "sweep"}

Init ==
    /\ status = [i \in MemId |-> "none"]
    /\ memory_fts = {}
    /\ memory_vectors = {}
    /\ used = {}
    /\ expired = {}
    /\ cand = [x \in Cand |-> "none"]
    /\ pc = [c \in Client |-> "idle"]
    /\ wkey = [c \in Client |-> NoKey]
    /\ src = [c \in Client |-> NoCand]
    /\ ids = [c \in Client |-> {}]
    /\ scope = [c \in Client |-> NoProject]
    /\ raced = {}
    /\ overtaken = {}

Goto(c, l) == pc' = [pc EXCEPT ![c] = l]

\* The call returns (or raises): its local variables are gone.
Return(c) ==
    /\ Goto(c, "idle")
    /\ wkey' = [wkey EXCEPT ![c] = NoKey]
    /\ src' = [src EXCEPT ![c] = NoCand]
    /\ ids' = [ids EXCEPT ![c] = {}]
    /\ scope' = [scope EXCEPT ![c] = NoProject]

\* Mutant: accept_candidate returns with the write.
AcceptStopsAtWrite(c) == Return(c)

\* What follows MemoryWriter.write: accept_candidate goes on to mark its candidate.
WriteReturns(c) ==
    IF src[c] = NoCand
    THEN Return(c)
    ELSE /\ Goto(c, "mark")
         /\ wkey' = [wkey EXCEPT ![c] = NoKey]
         /\ ids' = [ids EXCEPT ![c] = {}]
         /\ UNCHANGED <<src, scope>>

-----------------------------------------------------------------------------
(* MemoryWriter.write: three blocks, find_duplicate, insert_memory and the   *)
(* vector upsert, each with a connection of its own.  A write that finds a   *)
(* duplicate returns its id and changes nothing; accept_candidate, which     *)
(* reads the candidate first, then goes on to mark it.                       *)

\* Bound: there is an unused active identifier of key k for one more writer,
\* so that no client waits for one in the middle of a call.
RoomFor(k) ==
    Cardinality({i \in MemId : status[i] = "none" /\ KeyOf[i] = k /\ InitStatus[i] = "active"})
        > Cardinality({c \in Client : /\ pc[c] \in {"check", "insert"}
                                      /\ \/ wkey[c] = k
                                         \/ src[c] # NoCand /\ CandKey[src[c]] = k})

\* The find_duplicate of client c finds no active row: it will insert one.
GoInsert(c, k) ==
    /\ ActiveCopies(k) = {}
    /\ Goto(c, "insert")
    /\ wkey' = [wkey EXCEPT ![c] = k]
    /\ raced' = IF \E d \in Client : pc[d] = "insert" /\ wkey[d] = k
                THEN raced \cup {k} ELSE raced
    /\ UNCHANGED <<tables, src, ids, scope, overtaken>>

BeginWrite(c, k) ==
    /\ pc[c] = "idle"
    /\ RoomFor(k)
    /\ GoInsert(c, k)

\* Mutant: the candidate's status is not looked at.
AcceptAnyStatus(c, x) ==
    /\ pc[c] = "idle"
    /\ cand[x] # "none"
    /\ RoomFor(CandKey[x])
    /\ Goto(c, "check")
    /\ src' = [src EXCEPT ![c] = x]
    /\ UNCHANGED <<tables, wkey, ids, scope, history>>

\* Mutant: the candidate is marked before its memory is written.
AcceptMarksFirst(c, x) ==
    /\ pc[c] = "idle"
    /\ cand[x] = "pending"
    /\ Goto(c, "mark")
    /\ src' = [src EXCEPT ![c] = x]
    /\ UNCHANGED <<tables, wkey, ids, scope, history>>

BeginAccept(c, x) ==
    /\ pc[c] = "idle"
    /\ cand[x] = "pending"
    /\ RoomFor(CandKey[x])
    /\ Goto(c, "check")
    /\ src' = [src EXCEPT ![c] = x]
    /\ UNCHANGED <<tables, wkey, ids, scope, history>>

AcceptFindsDuplicate(c) ==
    /\ pc[c] = "check"
    /\ ActiveCopies(CandKey[src[c]]) # {}
    /\ Goto(c, "mark")
    /\ UNCHANGED <<tables, wkey, src, ids, scope, history>>

AcceptFindsNoDuplicate(c) ==
    /\ pc[c] = "check"
    /\ GoInsert(c, CandKey[src[c]])

\* Row and memory_fts entry in one transaction.  accept_candidate leaves the
\* status at its default.
InsertMemory(c) ==
    /\ pc[c] = "insert"
    /\ \E i \in MemId :
        /\ status[i] = "none"
        /\ KeyOf[i] = wkey[c]
        /\ src[c] # NoCand => InitStatus[i] = "active"
        /\ status' = [status EXCEPT ![i] = InitStatus[i]]
        /\ IF InitStatus[i] = "deleted"
           THEN /\ WriteReturns(c)
                /\ UNCHANGED memory_fts
           ELSE /\ memory_fts' = memory_fts \cup {i}
                /\ Goto(c, "vector")
                /\ ids' = [ids EXCEPT ![c] = {i}]
                /\ UNCHANGED <<wkey, src, scope>>
    /\ UNCHANGED <<memory_vectors, used, expired, cand, history>>

\* Mutant: foreign keys are not enforced (PRAGMA foreign_keys is off).
UpsertVectorUnchecked(c) ==
    /\ pc[c] = "vector"
    /\ memory_vectors' = memory_vectors \cup ids[c]
    /\ WriteReturns(c)
    /\ UNCHANGED <<status, memory_fts, used, expired, cand, history>>

\* Mutant: the upsert is rolled back and the error swallowed.
UpsertVectorLost(c) ==
    /\ pc[c] = "vector"
    /\ WriteReturns(c)
    /\ UNCHANGED <<tables, history>>

UpsertVector(c) ==
    /\ pc[c] = "vector"
    /\ \A i \in ids[c] : Exists(i)
    /\ memory_vectors' = memory_vectors \cup ids[c]
    /\ WriteReturns(c)
    /\ UNCHANGED <<status, memory_fts, used, expired, cand, history>>

\* The row was hard-deleted since the insert: the foreign key of
\* memory_vectors raises, and the exception leaves write and accept_candidate.
UpsertVectorFails(c) ==
    /\ pc[c] = "vector"
    /\ \E i \in ids[c] : ~Exists(i)
    /\ Return(c)
    /\ UNCHANGED <<tables, history>>

-----------------------------------------------------------------------------
(* The review queue.  queue_summary_candidates and discard_candidate are     *)
(* one transaction; accept_candidate reads, writes a memory, then marks.     *)

QueueCandidate(x) ==
    /\ cand[x] = "none"
    /\ cand' = [cand EXCEPT ![x] = "pending"]
    /\ UNCHANGED <<status, memory_fts, memory_vectors, used, expired, locals, history>>

\* Mutant: the verb is stored in place of the status.
DiscardByVerb(x) ==
    /\ cand[x] # "none"
    /\ cand' = [cand EXCEPT ![x] = "discard"]
    /\ UNCHANGED <<status, memory_fts, memory_vectors, used, expired, locals, history>>

\* update_candidate_status has no condition on the old status.
DiscardCandidate(x) ==
    /\ cand[x] # "none"
    /\ cand' = [cand EXCEPT ![x] = "discarded"]
    /\ UNCHANGED <<status, memory_fts, memory_vectors, used, expired, locals, history>>

MarkAccepted(c) ==
    /\ pc[c] = "mark"
    /\ cand' = [cand EXCEPT ![src[c]] = "accepted"]
    /\ Return(c)
    /\ UNCHANGED <<status, memory_fts, memory_vectors, used, expired, history>>

-----------------------------------------------------------------------------
\* Client c has read row i and will write its status, by id, whatever it is then.
Holds(c, i) == pc[c] \in {"sweep", "supersede"} /\ i \in ids[c]

\* History: the rows F are forgotten, some of them in the hands of other calls.
\* A row that is taken back, or gone, leaves the record.
Forgotten(F) ==
    overtaken' = (overtaken \ F) \cup {i \in F : \E d \in Client : Holds(d, i)}

(* Forgetting one memory is one transaction; forgetting a project selects    *)
(* the ids first, then deletes index entries by id and rows by project.      *)

\* Mutant: the row is unindexed before its status is updated elsewhere.
ForgetUnindexesFirst(i) ==
    /\ status[i] # "none"
    /\ memory_fts' = memory_fts \ {i}
    /\ UNCHANGED <<status, memory_vectors, used, expired, cand, locals, history>>

ForgetSoft(i) ==
    /\ status[i] # "none"
    /\ status' = [status EXCEPT ![i] = IF Exists(i) THEN "deleted" ELSE @]
    /\ memory_fts' = memory_fts \ {i}
    /\ Forgotten({i})
    /\ UNCHANGED <<memory_vectors, used, expired, cand, locals, raced>>

ForgetHard(i) ==
    /\ status[i] # "none"
    /\ status' = [status EXCEPT ![i] = "gone"]
    /\ memory_fts' = memory_fts \ {i}
    /\ memory_vectors' = memory_vectors \ {i}
    /\ used' = used \ {i}
    /\ expired' = expired \ {i}
    /\ overtaken' = overtaken \ {i}
    /\ UNCHANGED <<cand, locals, raced>>

SelectProjectIds(c, p, l) ==
    /\ pc[c] = "idle"
    /\ Goto(c, l)
    /\ ids' = [ids EXCEPT ![c] = RowsOf(p)]
    /\ scope' = [scope EXCEPT ![c] = p]
    /\ UNCHANGED <<tables, wkey, src, history>>

\* Mutant: rows by the ids read, index entries by project.
EraseProjectSwapped(c) ==
    /\ pc[c] = "erase_soft"
    /\ status' = [i \in MemId |-> IF i \in ids[c] /\ Exists(i) THEN "deleted" ELSE status[i]]
    /\ memory_fts' = memory_fts \ RowsOf(scope[c])
    /\ Return(c)
    /\ UNCHANGED <<memory_vectors, used, expired, cand, history>>

EraseProjectSoft(c) ==
    /\ pc[c] = "erase_soft"
    /\ status' = [i \in MemId |-> IF i \in RowsOf(scope[c]) THEN "deleted" ELSE status[i]]
    /\ memory_fts' = memory_fts \ ids[c]
    /\ Forgotten(RowsOf(scope[c]))
    /\ Return(c)
    /\ UNCHANGED <<memory_vectors, used, expired, cand, raced>>

\* memory_vectors follows its rows (ON DELETE CASCADE); memory_fts does not.
EraseProjectHard(c) ==
    /\ pc[c] = "erase_hard"
    /\ status' = [i \in MemId |-> IF i \in RowsOf(scope[c]) THEN "gone" ELSE status[i]]
    /\ memory_fts' = memory_fts \ ids[c]
    /\ memory_vectors' = memory_vectors \ (ids[c] \cup RowsOf(scope[c]))
    /\ used' = used \ RowsOf(scope[c])
    /\ expired' = expired \ RowsOf(scope[c])
    /\ overtaken' = overtaken \ RowsOf(scope[c])
    /\ Return(c)
    /\ UNCHANGED <<cand, raced>>

-----------------------------------------------------------------------------
(* supersede_memory reads both rows, forgotten ones too, then updates the    *)
(* old one whatever its status is by then.  The metadata it adds is left out.*)

BeginSupersede(c, old, new) ==
    /\ pc[c] = "idle"
    /\ Exists(old) /\ Exists(new)
    /\ KeyOf[old].project = KeyOf[new].project
    /\ Goto(c, "supersede")
    /\ ids' = [ids EXCEPT ![c] = {old}]
    /\ overtaken' = IF status[old] = "deleted" THEN overtaken \cup {old} ELSE overtaken
    /\ UNCHANGED <<tables, wkey, src, scope, raced>>

MarkOutdated(c) ==
    /\ pc[c] = "supersede"
    /\ status' = [i \in MemId |-> IF i \in ids[c] /\ Exists(i) THEN "outdated" ELSE status[i]]
    /\ overtaken' = overtaken \ ids[c]
    /\ Return(c)
    /\ UNCHANGED <<memory_fts, memory_vectors, used, expired, cand, raced>>

-----------------------------------------------------------------------------
(* Consolidator.consolidate lists every row that is not deleted (its limit   *)
(* of 1000 is above the bound on MemId), decides from that list which rows   *)
(* to archive, and archives them one transaction at a time, whatever their   *)
(* status is by then: the expired rows, all but the first row of each        *)
(* content hash, and the low-value ones.  The list is ordered by importance, *)
(* then by updated_at; timestamps are left out, so any of the most important *)
(* rows of a hash may come first.  All updates are the same, so the order of *)
(* the passes is left out too.  _archive_missing_source_chunks and the       *)
(* conflict ledger are not part of this module.                              *)

\* Mutant: the list includes the deleted rows.
InScopeOrDeleted(p) == {i \in MemId : Exists(i) /\ p \in {AllProjects, KeyOf[i].project}}

InScope(p) == {i \in MemId : /\ Exists(i)
                             /\ status[i] # "deleted"
                             /\ p \in {AllProjects, KeyOf[i].project}}

\* The rows the list has first for their content hash: one for each hash.
FirstOfEachHash(S) ==
    {K \in SUBSET S : \A i \in S : \E j \in K :
        /\ KeyOf[j].hash = KeyOf[i].hash
        /\ Importance[j] >= Importance[i]
        /\ \A l \in K : KeyOf[l].hash = KeyOf[i].hash => l = j}

LowValue == {i \in MemId : Importance[i] = 0} \ used

TakeSnapshot(c, p) ==
    /\ pc[c] = "idle"
    /\ LET snapshot == InScope(p)
       IN \E keep \in FirstOfEachHash(snapshot) :
            LET doomed == (snapshot \ keep) \cup (snapshot \cap (expired \cup LowValue))
            IN /\ doomed # {}
               /\ ids' = [ids EXCEPT ![c] = doomed]
    /\ Goto(c, "sweep")
    /\ UNCHANGED <<tables, wkey, src, scope, history>>

ArchiveNext(c) ==
    /\ pc[c] = "sweep"
    /\ \E i \in ids[c] :
        /\ status' = [status EXCEPT ![i] = IF Exists(i) THEN "archived" ELSE @]
        /\ overtaken' = overtaken \ {i}
        /\ IF ids[c] = {i}
           THEN Return(c)
           ELSE /\ ids' = [ids EXCEPT ![c] = @ \ {i}]
                /\ UNCHANGED <<pc, wkey, src, scope>>
    /\ UNCHANGED <<memory_fts, memory_vectors, used, expired, cand, raced>>

-----------------------------------------------------------------------------
\* Mutant: a memory that was recalled is live again.
RecallRevives(i) ==
    /\ Exists(i)
    /\ used' = used \cup {i}
    /\ status' = [status EXCEPT ![i] = "active"]
    /\ UNCHANGED <<memory_fts, memory_vectors, expired, cand, locals, history>>

\* Retriever.search counts its results as used, by id, some time after reading
\* them.  The count matters only to rows of low importance.
RecordUsage(i) ==
    /\ Exists(i)
    /\ i \in LowValue
    /\ used' = used \cup {i}
    /\ UNCHANGED <<status, memory_fts, memory_vectors, expired, cand, locals, history>>

\* Time passes the expires_at of a row.
Expire(i) ==
    /\ Exists(i)
    /\ i \in HasTtl \ expired
    /\ expired' = expired \cup {i}
    /\ UNCHANGED <<status, memory_fts, memory_vectors, used, cand, locals, history>>

\* The process is killed, or sqlite3 raises (the database stays locked past
\* busy_timeout): SQLite rolls the open block back, earlier blocks stand.
Crash(c) ==
    /\ MayCrash
    /\ pc[c] # "idle"
    /\ Return(c)
    /\ UNCHANGED <<tables, history>>

-----------------------------------------------------------------------------
Continue(c) ==
    \/ AcceptFindsDuplicate(c)
    \/ AcceptFindsNoDuplicate(c)
    \/ InsertMemory(c)
    \/ UpsertVector(c)
    \/ UpsertVectorFails(c)
    \/ MarkAccepted(c)
    \/ EraseProjectSoft(c)
    \/ EraseProjectHard(c)
    \/ MarkOutdated(c)
    \/ ArchiveNext(c)

Begin(c) ==
    \/ \E k \in Key : BeginWrite(c, k)
    \/ \E x \in Cand : BeginAccept(c, x)
    \/ \E p \in Project, l \in {"erase_soft", "erase_hard"} : SelectProjectIds(c, p, l)
    \/ \E old, new \in MemId : BeginSupersede(c, old, new)
    \/ \E p \in Project \cup {AllProjects} : TakeSnapshot(c, p)

OneTransaction ==
    \/ \E x \in Cand : QueueCandidate(x) \/ DiscardCandidate(x)
    \/ \E i \in MemId : ForgetSoft(i) \/ ForgetHard(i) \/ RecordUsage(i) \/ Expire(i)

Next ==
    \/ \E c \in Client : Begin(c) \/ Continue(c) \/ Crash(c)
    \/ OneTransaction

Spec == Init /\ [][Next]_vars

\* A call that has started keeps running: Python code between two blocks
\* never waits for another client.  Nothing obliges a client to start a call.
FairSpec == Spec /\ \A c \in Client : WF_vars(Continue(c))

-----------------------------------------------------------------------------
(* Properties *)

\* Types of the tables, of the clients' locals and of the history variable.
TypeOK ==
    /\ status \in [MemId -> RowStatus \cup {"none", "gone"}]
    /\ memory_fts \subseteq MemId
    /\ memory_vectors \subseteq MemId
    /\ used \subseteq MemId
    /\ expired \subseteq MemId
    /\ cand \in [Cand -> CandStatus]
    /\ pc \in [Client -> Pc]
    /\ wkey \in [Client -> Key \cup {NoKey}]
    /\ src \in [Client -> Cand \cup {NoCand}]
    /\ ids \in [Client -> SUBSET MemId]
    /\ scope \in [Client -> Project \cup {NoProject}]
    /\ raced \subseteq Key
    /\ overtaken \subseteq MemId

\* memory_fts is kept by hand, by id, while rows are erased by project: still,
\* no interleaving hides an active memory from full-text search.
ActiveIsSearchable ==
    \A i \in MemId : status[i] = "active" => i \in memory_fts

\* A vector is written in a transaction after its row's.  No forget in between
\* leaves a vector whose memory is gone.
VectorsHaveRows ==
    \A i \in memory_vectors : Exists(i)

\* find_duplicate and insert_memory are separate transactions, and nothing in
\* the schema makes a key unique: two active copies of a memory exist only if
\* two clients were between the two for that key at the same time.
DuplicatesOnlyFromRaces ==
    \A i, j \in MemId :
        (status[i] = "active" /\ status[j] = "active" /\ KeyOf[i] = KeyOf[j] /\ i # j)
            => KeyOf[i] \in raced

\* An accepted candidate's memory reached the store, even if the client that
\* began to accept it died and another one finished, or the memory it found
\* was forgotten before the candidate was marked.
AcceptedWasWritten ==
    \A x \in Cand : cand[x] = "accepted" =>
        \E i \in MemId : KeyOf[i] = CandKey[x] /\ status[i] # "none"

\* What a client learnt earlier in its call and still relies on: the key and
\* the row of the candidate it accepts, that nobody wrote the memory it is
\* about to insert (unless raced), and whose rows it is erasing.
Written(k) == \E i \in MemId : status[i] # "none" /\ KeyOf[i] = k

AcceptKnows(c) ==
    /\ pc[c] \in {"check", "mark"} => src[c] # NoCand
    /\ src[c] # NoCand =>
        /\ pc[c] \in {"check", "insert", "vector", "mark"}
        /\ pc[c] = "insert" => wkey[c] = CandKey[src[c]]
        /\ pc[c] \in {"vector", "mark"} => Written(CandKey[src[c]])

WriteKnows(c) ==
    (pc[c] = "insert" /\ wkey[c] \notin raced) =>
        /\ ActiveCopies(wkey[c]) = {}
        /\ \A d \in Client : pc[d] = "insert" /\ wkey[d] = wkey[c] => d = c

EraseKnows(c) ==
    pc[c] \in {"erase_soft", "erase_hard"} =>
        \A i \in ids[c] : status[i] # "none" /\ KeyOf[i].project = scope[c]

CallsKnow == \A c \in Client : AcceptKnows(c) /\ WriteKnows(c) /\ EraseKnows(c)

\* A row in the hands of a sweep or a supersede was written, and if it is
\* forgotten by now, that is on record.
HeldIsKnown ==
    \A c \in Client, i \in MemId : Holds(c, i) =>
        /\ status[i] # "none"
        /\ status[i] = "deleted" => i \in overtaken

\* A row that was retired (archived, outdated, deleted or gone) never becomes
\* active again, whichever stale ids the clients hold; writing its content
\* again makes a new row.
NeverReactivated ==
    [][\A i \in MemId : status[i] \notin {"none", "active"} => status'[i] # "active"]_vars

\* A forgotten memory is taken back (as archived by a consolidation's list, as
\* outdated by a supersede, and then recalled by default) only by a call that
\* had it in hand when it was last forgotten, or superseded it afterwards: no
\* call that reads the tables later than the forget finds it by itself.
ForgottenReturnsOvertaken ==
    [][\A i \in MemId : (status[i] = "deleted" /\ status'[i] \notin {"deleted", "gone"})
                            => i \in overtaken]_vars

\* A discarded candidate that nobody is accepting stays discarded, and nobody
\* starts to accept it.
Reviewed(x) == cand[x] = "discarded" /\ \A c \in Client : src[c] # x
DiscardSticks == [][\A x \in Cand : Reviewed(x) => Reviewed(x)']_vars

\* If clients do not die, every active memory gets the vector that semantic
\* search needs, or is retired first.
ActiveGetsVector ==
    \A i \in MemId :
        (status[i] = "active") ~> (i \in memory_vectors \/ status[i] # "active")

\* If clients do not die, an accept ends with its candidate marked, or with its
\* memory hard-deleted under it.
AcceptDecides ==
    \A x \in Cand, c \in Client :
        (src[c] = x) ~> (src[c] # x /\ (cand[x] # "pending" \/ \E i \in MemId :
                                        KeyOf[i] = CandKey[x] /\ status[i] = "gone"))

\* The inductive invariant.
IInv ==
    /\ TypeOK
    /\ CallsKnow
    /\ ActiveIsSearchable
    /\ VectorsHaveRows
    /\ DuplicatesOnlyFromRaces
    /\ AcceptedWasWritten
    /\ HeldIsKnown

\* The tables implement the life cycle a reader sees: each transaction is one
\* of its steps, or none.
Lifecycle == INSTANCE MemoryLifecycle WITH
    life <- [i \in MemId |-> CASE status[i] = "none" -> "unborn"
                               [] status[i] = "active" -> "live"
                               [] OTHER -> "retired"],
    index <- memory_fts
ImplementsLifecycle == Lifecycle!Spec

-----------------------------------------------------------------------------
(* What the command line says of consolidate *)

\* "Consolidate duplicate, stale, and conflicting memories": a memory that is
\* neither expired nor of low value is archived as the duplicate of a memory
\* that stays active.
Stale(i) == i \in expired \cup LowValue
ConsolidationKeepsACopy ==
    [][\A c \in Client : pc'[c] = "sweep" => \A i \in ids'[c] :
        (i \notin ids[c] /\ status[i] = "active" /\ ~Stale(i)) =>
            \E j \in MemId : /\ status[j] = "active"
                             /\ KeyOf[j].hash = KeyOf[i].hash
                             /\ j \notin ids'[c]]_vars
=============================================================================
