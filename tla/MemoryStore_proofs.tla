------------------------- MODULE MemoryStore_proofs -------------------------
(***************************************************************************)
(* Theorems about MemoryStore, for any number of clients, rows, candidates  *)
(* and projects.                                                            *)
(***************************************************************************)
EXTENDS MemoryStore, TLAPS

USE DEF RowStatus, CandStatus, Pc, history

\* The initial state is well typed.
LEMMA InitType == Init => TypeOK
BY KeyAssumption, CandAssumption, ScopeAssumption DEF Init, TypeOK

\* A call that returns leaves well-typed locals.
LEMMA ReturnType ==
    ASSUME TypeOK, NEW c \in Client, Return(c)
    PROVE  /\ pc' \in [Client -> Pc]
           /\ wkey' \in [Client -> Key \cup {NoKey}]
           /\ src' \in [Client -> Cand \cup {NoCand}]
           /\ ids' \in [Client -> SUBSET MemId]
           /\ scope' \in [Client -> Project \cup {NoProject}]
BY DEF TypeOK, Return, Goto

\* So does a write that returns, to its caller or to accept_candidate.
LEMMA WriteReturnsType ==
    ASSUME TypeOK, NEW c \in Client, WriteReturns(c)
    PROVE  /\ pc' \in [Client -> Pc]
           /\ wkey' \in [Client -> Key \cup {NoKey}]
           /\ src' \in [Client -> Cand \cup {NoCand}]
           /\ ids' \in [Client -> SUBSET MemId]
           /\ scope' \in [Client -> Project \cup {NoProject}]
<1>1. CASE src[c] = NoCand
  BY <1>1, ReturnType DEF WriteReturns
<1>2. CASE src[c] # NoCand
  BY <1>2 DEF TypeOK, WriteReturns, Goto
<1> QED BY <1>1, <1>2

\* The first step of a call keeps the types.
LEMMA BeginType ==
    ASSUME TypeOK, NEW c \in Client, Begin(c)
    PROVE  TypeOK'
<1>1. ASSUME NEW k \in Key, BeginWrite(c, k) PROVE TypeOK'
  BY <1>1 DEF BeginWrite, GoInsert, Goto, TypeOK, tables
<1>2. ASSUME NEW x \in Cand, BeginAccept(c, x) PROVE TypeOK'
  BY <1>2 DEF BeginAccept, Goto, TypeOK, tables
<1>3. ASSUME NEW p \in Project, NEW l \in {"erase_soft", "erase_hard"},
             SelectProjectIds(c, p, l)
      PROVE  TypeOK'
  BY <1>3 DEF SelectProjectIds, Goto, TypeOK, tables, RowsOf
<1>4. ASSUME NEW old \in MemId, NEW new \in MemId, BeginSupersede(c, old, new)
      PROVE  TypeOK'
  BY <1>4 DEF BeginSupersede, Goto, TypeOK, tables
<1>5. ASSUME NEW p \in Project \cup {AllProjects}, TakeSnapshot(c, p) PROVE TypeOK'
  <2>1. PICK doomed \in SUBSET MemId : ids' = [ids EXCEPT ![c] = doomed]
    BY <1>5 DEF TakeSnapshot, InScope
  <2> QED BY <1>5, <2>1 DEF TakeSnapshot, Goto, TypeOK, tables
<1> QED BY <1>1, <1>2, <1>3, <1>4, <1>5 DEF Begin

\* Every later step of a call keeps them.
LEMMA ContinueType ==
    ASSUME TypeOK, CallsKnow, NEW c \in Client, Continue(c)
    PROVE  TypeOK'
<1>1. CASE AcceptFindsDuplicate(c)
  BY <1>1 DEF AcceptFindsDuplicate, Goto, TypeOK, tables
<1>2. CASE AcceptFindsNoDuplicate(c)
  <2>1. CandKey[src[c]] \in Key
    BY <1>2, CandAssumption DEF AcceptFindsNoDuplicate, TypeOK, CallsKnow, AcceptKnows
  <2> QED BY <1>2, <2>1 DEF AcceptFindsNoDuplicate, GoInsert, Goto, TypeOK, tables
<1>3. CASE InsertMemory(c)
  <2>1. PICK i \in MemId :
          /\ status' = [status EXCEPT ![i] = InitStatus[i]]
          /\ IF InitStatus[i] = "deleted"
             THEN WriteReturns(c) /\ UNCHANGED memory_fts
             ELSE /\ memory_fts' = memory_fts \cup {i}
                  /\ Goto(c, "vector")
                  /\ ids' = [ids EXCEPT ![c] = {i}]
                  /\ UNCHANGED <<wkey, src, scope>>
    BY <1>3 DEF InsertMemory
  <2>2. status' \in [MemId -> RowStatus \cup {"none", "gone"}]
    BY <2>1, RowAssumption DEF TypeOK
  <2>3. CASE InitStatus[i] = "deleted"
    BY <1>3, <2>1, <2>2, <2>3, WriteReturnsType DEF InsertMemory, TypeOK
  <2>4. CASE InitStatus[i] # "deleted"
    BY <1>3, <2>1, <2>2, <2>4 DEF InsertMemory, Goto, TypeOK
  <2> QED BY <2>3, <2>4
<1>4. CASE UpsertVector(c)
  BY <1>4, WriteReturnsType DEF UpsertVector, TypeOK
<1>5. CASE UpsertVectorFails(c)
  BY <1>5, ReturnType DEF UpsertVectorFails, TypeOK, tables
<1>6. CASE MarkAccepted(c)
  BY <1>6, ReturnType DEF MarkAccepted, TypeOK
<1>7. CASE EraseProjectSoft(c)
  <2>1. overtaken' \subseteq MemId
    BY <1>7 DEF EraseProjectSoft, Forgotten, RowsOf, TypeOK
  <2> QED BY <1>7, <2>1, ReturnType DEF EraseProjectSoft, TypeOK
<1>8. CASE EraseProjectHard(c)
  BY <1>8, ReturnType DEF EraseProjectHard, TypeOK
<1>9. CASE MarkOutdated(c)
  BY <1>9, ReturnType DEF MarkOutdated, TypeOK
<1>10. CASE ArchiveNext(c)
  <2>1. PICK i \in MemId :
          /\ status' = [status EXCEPT ![i] = IF Exists(i) THEN "archived" ELSE @]
          /\ \/ Return(c)
             \/ ids' = [ids EXCEPT ![c] = @ \ {i}] /\ UNCHANGED <<pc, wkey, src, scope>>
    BY <1>10 DEF ArchiveNext, TypeOK
  <2>2. status' \in [MemId -> RowStatus \cup {"none", "gone"}]
    BY <2>1 DEF TypeOK
  <2>3. CASE Return(c)
    BY <1>10, <2>2, <2>3, ReturnType DEF ArchiveNext, TypeOK
  <2>4. CASE ids' = [ids EXCEPT ![c] = @ \ {i}] /\ UNCHANGED <<pc, wkey, src, scope>>
    BY <1>10, <2>2, <2>4 DEF ArchiveNext, TypeOK
  <2> QED BY <2>1, <2>3, <2>4
<1> QED BY <1>1, <1>2, <1>3, <1>4, <1>5, <1>6, <1>7, <1>8, <1>9, <1>10 DEF Continue

\* So do the calls that are one transaction.
LEMMA OneTransactionType ==
    ASSUME TypeOK, OneTransaction
    PROVE  TypeOK'
<1> USE DEF TypeOK, locals
<1>1. ASSUME NEW x \in Cand, QueueCandidate(x) PROVE TypeOK'
  BY <1>1 DEF QueueCandidate
<1>2. ASSUME NEW x \in Cand, DiscardCandidate(x) PROVE TypeOK'
  BY <1>2 DEF DiscardCandidate
<1>3. ASSUME NEW i \in MemId, ForgetSoft(i) PROVE TypeOK'
  BY <1>3 DEF ForgetSoft, Forgotten
<1>4. ASSUME NEW i \in MemId, ForgetHard(i) PROVE TypeOK'
  BY <1>4 DEF ForgetHard
<1>5. ASSUME NEW i \in MemId, RecordUsage(i) PROVE TypeOK'
  BY <1>5 DEF RecordUsage
<1>6. ASSUME NEW i \in MemId, Expire(i) PROVE TypeOK'
  BY <1>6 DEF Expire
<1> QED BY <1>1, <1>2, <1>3, <1>4, <1>5, <1>6 DEF OneTransaction

\* Nothing changes, nor do the types.
LEMMA StutterType == TypeOK /\ UNCHANGED vars => TypeOK'
BY DEF TypeOK, vars, tables, locals

\* Every step keeps the types.
LEMMA NextType == TypeOK /\ CallsKnow /\ Next => TypeOK'
<1> SUFFICES ASSUME TypeOK, CallsKnow, Next PROVE TypeOK'
  OBVIOUS
<1>1. ASSUME NEW c \in Client, Begin(c) PROVE TypeOK'
  BY <1>1, BeginType
<1>2. ASSUME NEW c \in Client, Continue(c) PROVE TypeOK'
  BY <1>2, ContinueType
<1>3. ASSUME NEW c \in Client, Crash(c) PROVE TypeOK'
  BY <1>3, ReturnType DEF Crash, TypeOK, tables
<1>4. CASE OneTransaction
  BY <1>4, OneTransactionType
<1> QED BY <1>1, <1>2, <1>3, <1>4 DEF Next

-----------------------------------------------------------------------------
(* What a step may do to the rows, whoever takes it *)

\* Rows are never unborn again, and none but an insert makes one active.
Ages(i) ==
    /\ status[i] # "none" => status'[i] # "none"
    /\ status'[i] = "active" => status[i] \in {"none", "active"}

\* No step of a call in progress turns a row back.
LEMMA ContinueAges ==
    ASSUME TypeOK, NEW c \in Client, Continue(c)
    PROVE  \A i \in MemId : Ages(i)
<1> USE DEF TypeOK, Ages, Exists, tables
<1>1. CASE AcceptFindsDuplicate(c)
  BY <1>1 DEF AcceptFindsDuplicate
<1>2. CASE AcceptFindsNoDuplicate(c)
  BY <1>2 DEF AcceptFindsNoDuplicate, GoInsert
<1>3. CASE InsertMemory(c)
  BY <1>3, RowAssumption DEF InsertMemory
<1>4. CASE UpsertVector(c)
  BY <1>4 DEF UpsertVector
<1>5. CASE UpsertVectorFails(c)
  BY <1>5 DEF UpsertVectorFails
<1>6. CASE MarkAccepted(c)
  BY <1>6 DEF MarkAccepted
<1>7. CASE EraseProjectSoft(c)
  BY <1>7 DEF EraseProjectSoft, RowsOf
<1>8. CASE EraseProjectHard(c)
  BY <1>8 DEF EraseProjectHard, RowsOf
<1>9. CASE MarkOutdated(c)
  BY <1>9 DEF MarkOutdated
<1>10. CASE ArchiveNext(c)
  BY <1>10 DEF ArchiveNext
<1> QED BY <1>1, <1>2, <1>3, <1>4, <1>5, <1>6, <1>7, <1>8, <1>9, <1>10 DEF Continue

\* A call begins, and dies, without touching the tables.
LEMMA BeginKeepsTables ==
    ASSUME NEW c \in Client, Begin(c) \/ Crash(c)
    PROVE  UNCHANGED tables
BY DEF Begin, BeginWrite, GoInsert, BeginAccept, SelectProjectIds, BeginSupersede, TakeSnapshot, Crash

\* No one-transaction call turns a row back.
LEMMA OneTransactionAges ==
    ASSUME TypeOK, OneTransaction
    PROVE  \A i \in MemId : Ages(i)
BY DEF TypeOK, Ages, Exists, OneTransaction, QueueCandidate, DiscardCandidate, ForgetSoft,
       ForgetHard, RecordUsage, Expire

\* No step does.
LEMMA StepAges ==
    ASSUME TypeOK, [Next]_vars
    PROVE  \A i \in MemId : Ages(i)
<1>1. CASE UNCHANGED tables
  BY <1>1 DEF tables, Ages
<1>2. CASE UNCHANGED vars
  BY <1>1, <1>2 DEF vars
<1>3. CASE Next
  BY <1>1, <1>3, ContinueAges, BeginKeepsTables, OneTransactionAges DEF Next
<1> QED BY <1>2, <1>3

-----------------------------------------------------------------------------
(* What the clients know *)

\* A step of one client leaves the locals of the others alone.
LEMMA OthersKeepLocals ==
    ASSUME TypeOK, NEW c \in Client, Begin(c) \/ Continue(c) \/ Crash(c),
           NEW d \in Client, d # c
    PROVE  /\ pc'[d] = pc[d] /\ wkey'[d] = wkey[d] /\ src'[d] = src[d]
           /\ ids'[d] = ids[d] /\ scope'[d] = scope[d]
<1> USE DEF TypeOK, Goto, Return, WriteReturns
<1>1. CASE Begin(c)
  BY <1>1 DEF Begin, BeginWrite, GoInsert, BeginAccept, SelectProjectIds, BeginSupersede,
              TakeSnapshot
<1>2. CASE Continue(c)
  BY <1>2 DEF Continue, AcceptFindsDuplicate, AcceptFindsNoDuplicate, GoInsert, InsertMemory,
              UpsertVector, UpsertVectorFails, MarkAccepted, EraseProjectSoft,
              EraseProjectHard, MarkOutdated, ArchiveNext
<1>3. CASE Crash(c)
  BY <1>3 DEF Crash
<1> QED BY <1>1, <1>2, <1>3

\* A key that was ever written stays written.
LEMMA WrittenStays ==
    ASSUME TypeOK, [Next]_vars, NEW k, Written(k)
    PROVE  Written(k)'
BY StepAges DEF Written, Ages

\* A client that does not move keeps what it knows of candidates and projects.
LEMMA IdleKnows ==
    ASSUME TypeOK, [Next]_vars, NEW d \in Client, AcceptKnows(d), EraseKnows(d),
           pc'[d] = pc[d], wkey'[d] = wkey[d], src'[d] = src[d],
           ids'[d] = ids[d], scope'[d] = scope[d]
    PROVE  AcceptKnows(d)' /\ EraseKnows(d)'
<1>1. AcceptKnows(d)'
  BY WrittenStays DEF AcceptKnows
<1>2. EraseKnows(d)'
  BY StepAges DEF EraseKnows, Ages, TypeOK
<1> QED BY <1>1, <1>2

\* An idle client has nothing to know.
LEMMA ReturnKnows ==
    ASSUME TypeOK, NEW c \in Client, Return(c)
    PROVE  AcceptKnows(c)' /\ EraseKnows(c)' /\ pc'[c] = "idle"
BY DEF TypeOK, Return, Goto, AcceptKnows, EraseKnows

\* A write that returns knows that its candidate was written.
LEMMA WriteReturnsKnows ==
    ASSUME TypeOK, NEW c \in Client, WriteReturns(c),
           src[c] # NoCand => Written(CandKey[src[c]])'
    PROVE  AcceptKnows(c)' /\ EraseKnows(c)' /\ pc'[c] \in {"idle", "mark"}
<1>1. CASE src[c] = NoCand
  BY <1>1, ReturnKnows DEF WriteReturns
<1>2. CASE src[c] # NoCand
  BY <1>2 DEF TypeOK, WriteReturns, Goto, AcceptKnows, EraseKnows
<1> QED BY <1>1, <1>2

\* What a client knows after the first step of a call.
LEMMA BeginKnows ==
    ASSUME TypeOK, CallsKnow, NEW c \in Client, Begin(c)
    PROVE  AcceptKnows(c)' /\ EraseKnows(c)'
<1> USE DEF TypeOK, CallsKnow, AcceptKnows, EraseKnows, Goto
<1>1. ASSUME NEW k \in Key, BeginWrite(c, k) PROVE AcceptKnows(c)' /\ EraseKnows(c)'
  BY <1>1 DEF BeginWrite, GoInsert
<1>2. ASSUME NEW x \in Cand, BeginAccept(c, x) PROVE AcceptKnows(c)' /\ EraseKnows(c)'
  BY <1>2, CandAssumption DEF BeginAccept
<1>3. ASSUME NEW p \in Project, NEW l \in {"erase_soft", "erase_hard"},
             SelectProjectIds(c, p, l)
      PROVE  AcceptKnows(c)' /\ EraseKnows(c)'
  BY <1>3 DEF SelectProjectIds, RowsOf, Exists, tables
<1>4. ASSUME NEW old \in MemId, NEW new \in MemId, BeginSupersede(c, old, new)
      PROVE  AcceptKnows(c)' /\ EraseKnows(c)'
  BY <1>4 DEF BeginSupersede
<1>5. ASSUME NEW p \in Project \cup {AllProjects}, TakeSnapshot(c, p)
      PROVE  AcceptKnows(c)' /\ EraseKnows(c)'
  BY <1>5 DEF TakeSnapshot
<1> QED BY <1>1, <1>2, <1>3, <1>4, <1>5 DEF Begin

\* What it knows after each later step.
LEMMA ContinueKnows ==
    ASSUME TypeOK, CallsKnow, NEW c \in Client, Continue(c)
    PROVE  AcceptKnows(c)' /\ EraseKnows(c)'
<1> USE DEF TypeOK, CallsKnow, AcceptKnows, EraseKnows, Goto
<1>1. CASE AcceptFindsDuplicate(c)
  <2>1. Written(CandKey[src[c]])
    BY <1>1 DEF AcceptFindsDuplicate, ActiveCopies, Written
  <2> QED BY <1>1, <2>1 DEF AcceptFindsDuplicate, Written, tables
<1>2. CASE AcceptFindsNoDuplicate(c)
  BY <1>2 DEF AcceptFindsNoDuplicate, GoInsert
<1>3. CASE InsertMemory(c)
  <2>1. PICK i \in MemId :
          /\ KeyOf[i] = wkey[c]
          /\ status' = [status EXCEPT ![i] = InitStatus[i]]
          /\ IF InitStatus[i] = "deleted"
             THEN WriteReturns(c)
             ELSE /\ Goto(c, "vector")
                  /\ ids' = [ids EXCEPT ![c] = {i}]
                  /\ UNCHANGED <<wkey, src, scope>>
    BY <1>3 DEF InsertMemory
  <2>2. src[c] # NoCand => Written(CandKey[src[c]])'
    <3>1. status'[i] # "none"
      BY <2>1, RowAssumption
    <3> QED BY <1>3, <2>1, <3>1 DEF InsertMemory, Written
  <2>3. CASE InitStatus[i] = "deleted"
    BY <2>1, <2>2, <2>3, WriteReturnsKnows
  <2>4. CASE InitStatus[i] # "deleted"
    BY <2>1, <2>2, <2>4
  <2> QED BY <2>3, <2>4
<1>4. CASE UpsertVector(c)
  <2>1. src[c] # NoCand => Written(CandKey[src[c]])'
    BY <1>4 DEF UpsertVector, WriteReturns, Written
  <2> QED BY <1>4, <2>1, WriteReturnsKnows DEF UpsertVector
<1>5. CASE ArchiveNext(c)
  BY <1>5, ReturnKnows DEF ArchiveNext
<1>6. CASE Return(c)
  BY <1>6, ReturnKnows
<1> QED BY <1>1, <1>2, <1>3, <1>4, <1>5, <1>6 DEF Continue, UpsertVectorFails, MarkAccepted,
           EraseProjectSoft, EraseProjectHard, MarkOutdated

\* Only an insert of key k that the writer c has announced adds an active copy.
LEMMA NewCopyWasAnnounced ==
    ASSUME TypeOK, [Next]_vars, NEW i \in MemId, status[i] # "active", status'[i] = "active"
    PROVE  \E c \in Client : /\ pc[c] = "insert" /\ wkey[c] = KeyOf[i]
                            /\ InsertMemory(c)
                            /\ status' = [status EXCEPT ![i] = "active"]
<1>1. status[i] = "none"
  BY StepAges DEF Ages
<1>2. ~UNCHANGED tables
  BY DEF tables
<1>3. ~OneTransaction
  BY <1>1 DEF TypeOK, Exists, OneTransaction, QueueCandidate, DiscardCandidate,
        ForgetSoft, ForgetHard, RecordUsage, Expire
<1>4. ASSUME NEW c \in Client, Continue(c)
      PROVE  InsertMemory(c)
  BY <1>1, <1>2, <1>4 DEF TypeOK, Exists, RowsOf, Continue, AcceptFindsDuplicate,
        AcceptFindsNoDuplicate, GoInsert, UpsertVector, UpsertVectorFails, MarkAccepted,
        EraseProjectSoft, EraseProjectHard, MarkOutdated, ArchiveNext, tables
<1>5. PICK c \in Client : InsertMemory(c)
  BY <1>2, <1>3, <1>4, BeginKeepsTables DEF Next, vars
<1>6. PICK j \in MemId : KeyOf[j] = wkey[c] /\ status' = [status EXCEPT ![j] = InitStatus[j]]
  BY <1>5 DEF InsertMemory
<1>7. j = i /\ InitStatus[i] = "active"
  BY <1>6 DEF TypeOK
<1> QED BY <1>5, <1>6, <1>7 DEF InsertMemory

\* A client comes to insert only by finding no duplicate.
LEMMA NewInserter ==
    ASSUME TypeOK, [Next]_vars, NEW c \in Client, pc[c] # "insert", pc'[c] = "insert"
    PROVE  GoInsert(c, wkey'[c])
<1> USE DEF TypeOK, Goto
<1>1. ASSUME NEW k, GoInsert(c, k) PROVE GoInsert(c, wkey'[c])
  BY <1>1 DEF GoInsert
<1>2. ~UNCHANGED pc
  OBVIOUS
<1>3. CASE OneTransaction
  BY <1>2, <1>3 DEF OneTransaction, QueueCandidate, DiscardCandidate, ForgetSoft, ForgetHard,
        RecordUsage, Expire, locals
<1>4. CASE Begin(c)
  BY <1>1, <1>4 DEF Begin, BeginWrite, BeginAccept, SelectProjectIds, BeginSupersede, TakeSnapshot
<1>5. CASE Continue(c)
  BY <1>1, <1>5 DEF Continue, AcceptFindsDuplicate, AcceptFindsNoDuplicate, InsertMemory,
        UpsertVector, UpsertVectorFails, MarkAccepted, EraseProjectSoft, EraseProjectHard,
        MarkOutdated, ArchiveNext, WriteReturns, Return
<1>6. CASE Crash(c)
  BY <1>6 DEF Crash, Return
<1> QED BY <1>2, <1>3, <1>4, <1>5, <1>6, OthersKeepLocals DEF Next, vars, locals

\* After its insert, a client is no inserter.
LEMMA InsertEnds ==
    ASSUME TypeOK, NEW c \in Client, InsertMemory(c)
    PROVE  pc'[c] # "insert"
BY DEF TypeOK, InsertMemory, WriteReturns, Return, Goto

\* The key of an inserter does not change under it.
LEMMA InserterKeepsKey ==
    ASSUME TypeOK, [Next]_vars, NEW c \in Client, pc[c] = "insert", pc'[c] = "insert"
    PROVE  wkey'[c] = wkey[c]
<1>1. CASE UNCHANGED locals
  BY <1>1 DEF locals
<1>2. CASE OneTransaction
  BY <1>1, <1>2 DEF OneTransaction, QueueCandidate, DiscardCandidate, ForgetSoft, ForgetHard,
        RecordUsage, Expire
<1>3. ~Begin(c)
  BY DEF Begin, BeginWrite, BeginAccept, SelectProjectIds, BeginSupersede, TakeSnapshot
<1>4. ~Continue(c)
  BY InsertEnds DEF Continue, AcceptFindsDuplicate, AcceptFindsNoDuplicate, UpsertVector,
        UpsertVectorFails, MarkAccepted, EraseProjectSoft, EraseProjectHard, MarkOutdated,
        ArchiveNext
<1>5. ~Crash(c)
  BY DEF Crash, Return, Goto, TypeOK
<1> QED BY <1>1, <1>2, <1>3, <1>4, <1>5, OthersKeepLocals DEF Next, vars

\* A raced key stays raced.
LEMMA RacedGrows ==
    ASSUME [Next]_vars
    PROVE  raced \subseteq raced'
<1>1. ASSUME NEW c \in Client, NEW k, GoInsert(c, k) PROVE raced \subseteq raced'
  BY <1>1 DEF GoInsert
<1>2. CASE UNCHANGED raced
  BY <1>2
<1> QED BY <1>1, <1>2 DEF Next, OneTransaction, QueueCandidate, DiscardCandidate, ForgetSoft,
        ForgetHard, RecordUsage, Expire, Begin, BeginWrite, BeginAccept, SelectProjectIds,
        BeginSupersede, TakeSnapshot, Continue, AcceptFindsDuplicate, AcceptFindsNoDuplicate,
        InsertMemory, UpsertVector, UpsertVectorFails, MarkAccepted, EraseProjectSoft,
        EraseProjectHard, MarkOutdated, ArchiveNext, Crash, vars

\* Two inserters of one key are in raced, whichever came first.
LEMMA StepWriteKnows ==
    ASSUME TypeOK, TypeOK', CallsKnow, [Next]_vars, NEW c \in Client
    PROVE  WriteKnows(c)'
<1> DEFINE k == wkey'[c]
<1> SUFFICES ASSUME pc'[c] = "insert", k \notin raced'
             PROVE  /\ \A i \in MemId : ~(status'[i] = "active" /\ KeyOf[i] = k)
                    /\ \A d \in Client : pc'[d] = "insert" /\ wkey'[d] = k => d = c
  BY DEF WriteKnows, ActiveCopies
<1>0. k \notin raced
  BY RacedGrows
<1>1. CASE pc[c] = "insert"
  <2>1. wkey[c] = k
    BY <1>1, InserterKeepsKey
  <2>2. /\ \A i \in MemId : ~(status[i] = "active" /\ KeyOf[i] = k)
        /\ \A d \in Client : pc[d] = "insert" /\ wkey[d] = k => d = c
    BY <1>0, <1>1, <2>1 DEF CallsKnow, WriteKnows, ActiveCopies
  <2>3. ASSUME NEW i \in MemId, status'[i] = "active", KeyOf[i] = k PROVE FALSE
    BY <2>2, <2>3, NewCopyWasAnnounced, InsertEnds
  <2>4. ASSUME NEW d \in Client, pc'[d] = "insert", wkey'[d] = k, d # c PROVE FALSE
    <3>1. CASE pc[d] = "insert"
      BY <2>2, <2>4, <3>1, InserterKeepsKey
    <3>2. CASE pc[d] # "insert"
      BY <1>1, <2>1, <2>4, <3>2, NewInserter DEF GoInsert
    <3> QED BY <3>1, <3>2
  <2> QED BY <2>3, <2>4
<1>2. CASE pc[c] # "insert"
  <2>1. GoInsert(c, k)
    BY <1>2, NewInserter
  <2>2. ASSUME NEW d \in Client, pc'[d] = "insert", wkey'[d] = k, d # c PROVE FALSE
    BY <2>1, <2>2 DEF GoInsert, Goto, TypeOK
  <2> QED BY <2>1, <2>2 DEF GoInsert, ActiveCopies, tables
<1> QED BY <1>1, <1>2

\* Every step keeps what the clients know.
LEMMA StepCallsKnow ==
    ASSUME TypeOK, TypeOK', CallsKnow, [Next]_vars
    PROVE  CallsKnow'
<1> SUFFICES ASSUME NEW d \in Client PROVE AcceptKnows(d)' /\ EraseKnows(d)'
  BY StepWriteKnows DEF CallsKnow
<1>1. AcceptKnows(d) /\ EraseKnows(d)
  BY DEF CallsKnow
<1>2. CASE UNCHANGED locals
  BY <1>1, <1>2, IdleKnows DEF locals
<1>3. CASE OneTransaction
  BY <1>2, <1>3 DEF OneTransaction, QueueCandidate, DiscardCandidate, ForgetSoft, ForgetHard,
        RecordUsage, Expire
<1>4. ASSUME NEW c \in Client, Begin(c) \/ Continue(c) \/ Crash(c), c # d
      PROVE  AcceptKnows(d)' /\ EraseKnows(d)'
  BY <1>1, <1>4, OthersKeepLocals, IdleKnows
<1>5. CASE Begin(d) \/ Continue(d) \/ Crash(d)
  BY <1>5, BeginKnows, ContinueKnows, ReturnKnows DEF Crash
<1> QED BY <1>2, <1>3, <1>4, <1>5 DEF Next, vars

-----------------------------------------------------------------------------
(* The invariants *)

\* Every step keeps the active rows indexed.
LEMMA StepSearchable ==
    ASSUME IInv, [Next]_vars
    PROVE  ActiveIsSearchable'
<1> USE DEF IInv, TypeOK, ActiveIsSearchable
<1>1. CASE UNCHANGED <<status, memory_fts>>
  BY <1>1
<1>2. ASSUME NEW c \in Client, Continue(c) PROVE ActiveIsSearchable'
  <2>1. CASE InsertMemory(c)
    BY <2>1, RowAssumption DEF InsertMemory
  <2>2. CASE EraseProjectSoft(c) \/ EraseProjectHard(c)
    <3>1. EraseKnows(c)
      BY DEF CallsKnow
    <3>2. ASSUME NEW i \in MemId, status'[i] = "active"
          PROVE  i \notin RowsOf(scope[c]) /\ status[i] = "active"
      BY <2>2, <3>2 DEF EraseProjectSoft, EraseProjectHard
    <3>3. ASSUME NEW i \in ids[c] PROVE KeyOf[i].project = scope[c]
      BY <2>2, <3>1, <3>3 DEF EraseProjectSoft, EraseProjectHard, EraseKnows
    <3>4. ASSUME NEW i \in MemId, status'[i] = "active" PROVE i \in memory_fts \ ids[c]
      BY <3>2, <3>3, <3>4 DEF RowsOf, Exists
    <3> QED BY <2>2, <3>4 DEF EraseProjectSoft, EraseProjectHard
  <2>3. CASE MarkOutdated(c) \/ ArchiveNext(c)
    BY <2>3 DEF MarkOutdated, ArchiveNext
  <2> QED BY <1>1, <1>2, <2>1, <2>2, <2>3 DEF Continue, AcceptFindsDuplicate,
             AcceptFindsNoDuplicate, GoInsert, UpsertVector, UpsertVectorFails, MarkAccepted, tables
<1>3. CASE OneTransaction
  BY <1>3 DEF OneTransaction, QueueCandidate, DiscardCandidate, ForgetSoft, ForgetHard,
        RecordUsage, Expire, Exists
<1> QED BY <1>1, <1>2, <1>3, BeginKeepsTables DEF Next, vars, tables

\* Every step keeps the vectors on rows.
LEMMA StepVectors ==
    ASSUME IInv, [Next]_vars
    PROVE  VectorsHaveRows'
<1> USE DEF IInv, TypeOK, VectorsHaveRows, Exists
<1>1. CASE UNCHANGED <<status, memory_vectors>>
  BY <1>1
<1>2. ASSUME NEW c \in Client, Continue(c) PROVE VectorsHaveRows'
  <2>1. CASE InsertMemory(c)
    BY <2>1, RowAssumption DEF InsertMemory
  <2>2. CASE EraseProjectSoft(c) \/ EraseProjectHard(c)
    BY <2>2 DEF EraseProjectSoft, EraseProjectHard, RowsOf
  <2>3. CASE MarkOutdated(c) \/ ArchiveNext(c)
    BY <2>3 DEF MarkOutdated, ArchiveNext
  <2>4. CASE UpsertVector(c)
    BY <2>4 DEF UpsertVector
  <2> QED BY <1>1, <1>2, <2>1, <2>2, <2>3, <2>4 DEF Continue, AcceptFindsDuplicate,
             AcceptFindsNoDuplicate, GoInsert, UpsertVectorFails, MarkAccepted, tables
<1>3. CASE OneTransaction
  BY <1>3 DEF OneTransaction, QueueCandidate, DiscardCandidate, ForgetSoft, ForgetHard,
        RecordUsage, Expire
<1> QED BY <1>1, <1>2, <1>3, BeginKeepsTables DEF Next, vars, tables

\* Every step keeps the active copies of an unraced key single.
LEMMA StepDuplicates ==
    ASSUME IInv, TypeOK', [Next]_vars
    PROVE  DuplicatesOnlyFromRaces'
<1> USE DEF IInv
<1> SUFFICES ASSUME NEW i \in MemId, NEW j \in MemId, i # j, KeyOf[i] = KeyOf[j],
                    status'[i] = "active", status'[j] = "active", KeyOf[i] \notin raced'
             PROVE  FALSE
  BY DEF DuplicatesOnlyFromRaces
<1>1. KeyOf[i] \notin raced
  BY RacedGrows
<1>2. status[i] # "active" \/ status[j] # "active"
  BY <1>1 DEF DuplicatesOnlyFromRaces
<1>3. ASSUME NEW a \in MemId, NEW b \in MemId, a # b, KeyOf[a] = KeyOf[b], KeyOf[a] \notin raced,
             status'[a] = "active", status'[b] = "active", status[a] # "active"
      PROVE  FALSE
  <2>1. PICK c \in Client : /\ pc[c] = "insert" /\ wkey[c] = KeyOf[a]
                           /\ InsertMemory(c)
                           /\ status' = [status EXCEPT ![a] = "active"]
    BY <1>3, NewCopyWasAnnounced
  <2>2. status[b] = "active"
    BY <1>3, <2>1 DEF TypeOK
  <2> QED BY <1>3, <2>1, <2>2 DEF CallsKnow, WriteKnows, ActiveCopies
<1> QED BY <1>1, <1>2, <1>3

\* Every step keeps the accepted candidates written.
LEMMA StepAccepted ==
    ASSUME IInv, TypeOK', [Next]_vars
    PROVE  AcceptedWasWritten'
<1> USE DEF IInv
<1>1. ASSUME NEW x \in Cand, Written(CandKey[x]) PROVE Written(CandKey[x])'
  BY <1>1, WrittenStays
<1> SUFFICES ASSUME NEW x \in Cand, cand'[x] = "accepted" PROVE Written(CandKey[x])
  BY <1>1 DEF AcceptedWasWritten, Written
<1>2. CASE cand[x] = "accepted"
  BY <1>2 DEF AcceptedWasWritten, Written
<1>3. CASE cand[x] # "accepted"
  <2>1. PICK c \in Client : MarkAccepted(c)
    BY <1>3, BeginKeepsTables DEF TypeOK, Next, Continue, OneTransaction, AcceptFindsDuplicate,
        AcceptFindsNoDuplicate, GoInsert, InsertMemory, UpsertVector, UpsertVectorFails,
        EraseProjectSoft, EraseProjectHard, MarkOutdated, ArchiveNext, QueueCandidate,
        DiscardCandidate, ForgetSoft, ForgetHard, RecordUsage, Expire, vars, tables
  <2>2. src[c] = x
    BY <1>3, <2>1 DEF MarkAccepted, TypeOK
  <2> QED BY <2>1, <2>2, CandAssumption DEF MarkAccepted, CallsKnow, AcceptKnows
<1> QED BY <1>2, <1>3

\* The forgotten rows in a call's hands stay on record while others take theirs up,
\* forget rows, or put theirs down.
LEMMA StepHeld ==
    ASSUME IInv, TypeOK', [Next]_vars
    PROVE  HeldIsKnown'
<1> USE DEF IInv, TypeOK
<1> SUFFICES ASSUME NEW d \in Client, NEW i \in MemId, Holds(d, i)'
             PROVE  status'[i] # "none" /\ (status'[i] = "deleted" => i \in overtaken')
  BY DEF HeldIsKnown
<1>1. Holds(d, i) => status[i] # "none" /\ (status[i] = "deleted" => i \in overtaken)
  BY DEF HeldIsKnown
<1>2. status[i] # "none" => status'[i] # "none"
  BY StepAges DEF Ages
<1>3. CASE UNCHANGED vars
  BY <1>1, <1>3 DEF vars, tables, locals, Holds
<1>4. CASE OneTransaction
  <2>1. Holds(d, i)
    BY <1>4 DEF Holds, OneTransaction, QueueCandidate, DiscardCandidate, ForgetSoft, ForgetHard,
          RecordUsage, Expire, locals
  <2>2. ASSUME status'[i] = "deleted" PROVE i \in overtaken'
    <3>1. ASSUME NEW j \in MemId, ForgetSoft(j) PROVE i \in overtaken'
      BY <1>1, <2>1, <2>2, <3>1 DEF ForgetSoft, Forgotten
    <3>2. ASSUME NEW j \in MemId, ForgetHard(j) PROVE i \in overtaken'
      BY <1>1, <2>1, <2>2, <3>2 DEF ForgetHard
    <3> QED BY <1>1, <1>4, <2>1, <2>2, <3>1, <3>2 DEF OneTransaction, QueueCandidate,
               DiscardCandidate, RecordUsage, Expire
  <2> QED BY <1>1, <1>2, <2>1, <2>2
<1>5. ASSUME NEW c \in Client, Begin(c)
      PROVE  status'[i] # "none" /\ (status'[i] = "deleted" => i \in overtaken')
  <2>1. UNCHANGED status
    BY <1>5, BeginKeepsTables DEF tables
  <2>2. overtaken \subseteq overtaken'
    BY <1>5 DEF Begin, BeginWrite, GoInsert, BeginAccept, SelectProjectIds, BeginSupersede,
          TakeSnapshot
  <2>3. CASE Holds(d, i)
    BY <1>1, <2>1, <2>2, <2>3
  <2>4. CASE ~Holds(d, i)
    <3>1. c = d
      BY <1>5, <2>4, OthersKeepLocals DEF Holds
    <3>2. ASSUME NEW p \in Project \cup {AllProjects}, TakeSnapshot(c, p)
          PROVE  status[i] \notin {"none", "deleted"}
      <4>1. PICK keep \in FirstOfEachHash(InScope(p)) :
              ids' = [ids EXCEPT ![c] =
                        (InScope(p) \ keep) \cup (InScope(p) \cap (expired \cup LowValue))]
        BY <3>2 DEF TakeSnapshot
      <4>2. i \in InScope(p)
        BY <3>1, <4>1 DEF Holds
      <4> QED BY <4>2 DEF InScope, Exists
    <3>3. ASSUME NEW old \in MemId, NEW new \in MemId, BeginSupersede(c, old, new)
          PROVE  status[i] # "none" /\ (status[i] = "deleted" => i \in overtaken')
      BY <3>1, <3>3 DEF BeginSupersede, Holds, Exists
    <3> QED BY <1>5, <2>1, <3>1, <3>2, <3>3 DEF Begin, BeginWrite, GoInsert, BeginAccept,
               SelectProjectIds, Holds, Goto
  <2> QED BY <2>3, <2>4
<1>6. ASSUME NEW c \in Client, Continue(c)
      PROVE  status'[i] # "none" /\ (status'[i] = "deleted" => i \in overtaken')
  <2>1. Holds(d, i)
    <3>1. CASE c = d
      BY <1>6, <3>1 DEF Holds, Continue, AcceptFindsDuplicate, AcceptFindsNoDuplicate, GoInsert,
            InsertMemory, UpsertVector, UpsertVectorFails, MarkAccepted, EraseProjectSoft,
            EraseProjectHard, MarkOutdated, ArchiveNext, WriteReturns, Return, Goto
    <3>2. CASE c # d
      BY <1>6, <3>2, OthersKeepLocals DEF Holds
    <3> QED BY <3>1, <3>2
  <2>2. ASSUME status'[i] = "deleted" PROVE i \in overtaken'
    <3>1. CASE InsertMemory(c)
      BY <1>1, <2>1, <2>2, <3>1 DEF InsertMemory
    <3>2. CASE EraseProjectSoft(c)
      BY <1>1, <2>1, <2>2, <3>2 DEF EraseProjectSoft, Forgotten
    <3>3. CASE EraseProjectHard(c)
      BY <1>1, <2>1, <2>2, <3>3 DEF EraseProjectHard
    <3>4. CASE MarkOutdated(c)
      BY <1>1, <1>2, <2>1, <2>2, <3>4 DEF MarkOutdated, Exists
    <3>5. CASE ArchiveNext(c)
      BY <1>1, <1>2, <2>1, <2>2, <3>5 DEF ArchiveNext, Exists
    <3> QED BY <1>1, <1>6, <2>1, <2>2, <3>1, <3>2, <3>3, <3>4, <3>5 DEF Continue,
               AcceptFindsDuplicate, AcceptFindsNoDuplicate, GoInsert, UpsertVector,
               UpsertVectorFails, MarkAccepted, tables
  <2> QED BY <1>1, <1>2, <2>1, <2>2
<1>7. ASSUME NEW c \in Client, Crash(c)
      PROVE  status'[i] # "none" /\ (status'[i] = "deleted" => i \in overtaken')
  <2>1. Holds(d, i)
    BY <1>7, OthersKeepLocals DEF Crash, Return, Goto, Holds
  <2> QED BY <1>1, <1>7, <2>1 DEF Crash, tables
<1> QED BY <1>3, <1>4, <1>5, <1>6, <1>7 DEF Next

\* The invariant holds initially.
LEMMA InitIInv == Init => IInv
BY InitType, CandAssumption DEF Init, IInv, CallsKnow, AcceptKnows, WriteKnows, EraseKnows,
   ActiveIsSearchable, VectorsHaveRows, DuplicatesOnlyFromRaces, AcceptedWasWritten,
   HeldIsKnown, Holds

\* Every step keeps it.
LEMMA StepIInv == IInv /\ [Next]_vars => IInv'
<1> SUFFICES ASSUME IInv, [Next]_vars PROVE IInv'
  OBVIOUS
<1>1. TypeOK'
  BY NextType, StutterType DEF IInv
<1>2. CallsKnow'
  BY <1>1, StepCallsKnow DEF IInv
<1> QED BY <1>1, <1>2, StepSearchable, StepVectors, StepDuplicates, StepAccepted,
       StepHeld DEF IInv

\* The inductive invariant holds in every reachable state.
THEOREM Invariance == Spec => []IInv
BY InitIInv, StepIInv, PTL DEF Spec

\* The tables and the clients' locals keep their types whatever the interleaving.
THEOREM TypeCorrect == Spec => []TypeOK
<1>1. IInv => TypeOK
  BY DEF IInv
<1> QED BY Invariance, <1>1, PTL

\* No interleaving of writes and erasures hides an active memory from
\* full-text search.
THEOREM SearchableAlways == Spec => []ActiveIsSearchable
<1>1. IInv => ActiveIsSearchable
  BY DEF IInv
<1> QED BY Invariance, <1>1, PTL

\* The vector upsert that follows an insert never outlives the row.
THEOREM VectorsAlwaysHaveRows == Spec => []VectorsHaveRows
<1>1. IInv => VectorsHaveRows
  BY DEF IInv
<1> QED BY Invariance, <1>1, PTL

\* Without two clients between find_duplicate and insert_memory for one key,
\* there is never a second active copy.
THEOREM NoOtherDuplicates == Spec => []DuplicatesOnlyFromRaces
<1>1. IInv => DuplicatesOnlyFromRaces
  BY DEF IInv
<1> QED BY Invariance, <1>1, PTL

\* Whatever the other clients do between its transactions, what a call learnt earlier
\* still holds when it goes on: the memory of the candidate it marks was written, a
\* copy is inserted only where there is none (unless raced), and what it erases are
\* rows of its own project.
THEOREM CallsAlwaysKnow == Spec => []CallsKnow
<1>1. IInv => CallsKnow
  BY DEF IInv
<1> QED BY Invariance, <1>1, PTL

\* A candidate is marked accepted only after its memory reached the store.
THEOREM AcceptedAlwaysWritten == Spec => []AcceptedWasWritten
<1>1. IInv => AcceptedWasWritten
  BY DEF IInv
<1> QED BY Invariance, <1>1, PTL

\* No step, of any client, makes a retired row active again.
THEOREM RetiredForGood == Spec => NeverReactivated
<1>1. IInv /\ [Next]_vars =>
        [\A i \in MemId : status[i] \notin {"none", "active"} => status'[i] # "active"]_vars
  BY StepAges DEF IInv, Ages
<1> QED BY Invariance, <1>1, PTL DEF Spec, NeverReactivated

\* A discarded candidate that no client had begun to accept is never accepted.
THEOREM DiscardedForGood == Spec => DiscardSticks
<1>1. ASSUME IInv, [Next]_vars, NEW x \in Cand, Reviewed(x)
      PROVE  Reviewed(x)'
  <2> USE DEF IInv, TypeOK, Goto, Return
  <2>1. \A c \in Client : src[c] # x
    BY <1>1 DEF Reviewed
  <2>2. CASE OneTransaction
    BY <1>1, <2>1, <2>2 DEF Reviewed, OneTransaction, QueueCandidate, DiscardCandidate,
          ForgetSoft, ForgetHard, RecordUsage, Expire, locals
  <2>3. ASSUME NEW c \in Client, Begin(c) PROVE Reviewed(x)'
    <3>1. UNCHANGED cand
      BY <2>3, BeginKeepsTables DEF tables
    <3>2. ASSUME NEW d \in Client PROVE src'[d] # x
      BY <1>1, <2>1, <2>3 DEF Reviewed, Begin, BeginWrite, GoInsert, BeginAccept,
            SelectProjectIds, BeginSupersede, TakeSnapshot
    <3> QED BY <1>1, <3>1, <3>2 DEF Reviewed
  <2>4. ASSUME NEW c \in Client, Continue(c) PROVE Reviewed(x)'
    <3>1. cand'[x] = cand[x]
      BY <1>1, <2>1, <2>4 DEF Continue, AcceptFindsDuplicate, AcceptFindsNoDuplicate, GoInsert,
            InsertMemory, UpsertVector, UpsertVectorFails, MarkAccepted, EraseProjectSoft,
            EraseProjectHard, MarkOutdated, ArchiveNext, tables
    <3>2. ASSUME NEW d \in Client PROVE src'[d] # x
      BY <1>1, <2>1, <2>4, CandAssumption DEF Continue, AcceptFindsDuplicate,
            AcceptFindsNoDuplicate, GoInsert, InsertMemory, UpsertVector, UpsertVectorFails,
            MarkAccepted, EraseProjectSoft, EraseProjectHard, MarkOutdated, ArchiveNext,
            WriteReturns
    <3> QED BY <1>1, <3>1, <3>2 DEF Reviewed
  <2>5. ASSUME NEW c \in Client, Crash(c) PROVE Reviewed(x)'
    BY <1>1, <2>1, <2>5, CandAssumption DEF Reviewed, Crash, tables
  <2>6. CASE UNCHANGED vars
    BY <1>1, <2>6 DEF Reviewed, vars, tables, locals
  <2> QED BY <1>1, <2>2, <2>3, <2>4, <2>5, <2>6 DEF Next
<1>2. IInv /\ [Next]_vars => [\A x \in Cand : Reviewed(x) => Reviewed(x)']_vars
  BY <1>1
<1> QED BY Invariance, <1>2, PTL DEF Spec, DiscardSticks

\* A forgotten row comes back only from the hands of a call that had it when it was
\* forgotten, or that superseded it afterwards: a consolidation whose list is later
\* than the forget leaves it alone.
THEOREM ForgottenStays == Spec => ForgottenReturnsOvertaken
<1>1. ASSUME IInv, [Next]_vars, NEW i \in MemId,
             status[i] = "deleted", status'[i] \notin {"deleted", "gone"}
      PROVE  i \in overtaken
  <2> USE DEF IInv, TypeOK
  <2>1. ~UNCHANGED tables
    BY <1>1 DEF tables
  <2>2. ~OneTransaction
    BY <1>1 DEF OneTransaction, QueueCandidate, DiscardCandidate, ForgetSoft, ForgetHard,
          RecordUsage, Expire, Exists
  <2>3. PICK c \in Client : Continue(c)
    BY <1>1, <2>1, <2>2, BeginKeepsTables DEF Next, vars
  <2>4. ~InsertMemory(c)
    BY <1>1 DEF InsertMemory
  <2>5. ~EraseProjectSoft(c) /\ ~EraseProjectHard(c)
    BY <1>1 DEF EraseProjectSoft, EraseProjectHard
  <2>6. MarkOutdated(c) \/ ArchiveNext(c)
    BY <1>1, <2>1, <2>3, <2>4, <2>5 DEF Continue, AcceptFindsDuplicate, AcceptFindsNoDuplicate,
          GoInsert, UpsertVector, UpsertVectorFails, MarkAccepted, tables
  <2>7. Holds(c, i)
    BY <1>1, <2>6 DEF MarkOutdated, ArchiveNext, Holds
  <2> QED BY <1>1, <2>7 DEF HeldIsKnown
<1>2. IInv /\ [Next]_vars =>
        [\A i \in MemId : (status[i] = "deleted" /\ status'[i] \notin {"deleted", "gone"})
                              => i \in overtaken]_vars
  BY <1>1
<1> QED BY Invariance, <1>2, PTL DEF Spec, ForgottenReturnsOvertaken

-----------------------------------------------------------------------------
(* The refinement of MemoryLifecycle *)

Life(st) == CASE st = "none" -> "unborn"
              [] st = "active" -> "live"
              [] OTHER -> "retired"

\* What the refinement mapping makes of each status.
LEMMA LifeValues ==
    /\ Life("none") = "unborn" /\ Life("active") = "live"
    /\ \A st \in {"outdated", "archived", "deleted", "gone"} : Life(st) = "retired"
BY DEF Life

\* A step that neither bears a row nor indexes one retires what it changes.
LEMMA AgingRetires ==
    ASSUME TypeOK, TypeOK', ActiveIsSearchable',
           \A i \in MemId : Ages(i) /\ (status[i] = "none" => status'[i] = "none"),
           memory_fts' \subseteq memory_fts
    PROVE  Lifecycle!Next
<1> DEFINE life == [i \in MemId |-> Life(status[i])]
<1>0. PICK S \in SUBSET MemId : S = {i \in MemId : status[i] = "active" /\ status'[i] # "active"}
  OBVIOUS
<1>1. Lifecycle!Live = {i \in MemId : life[i] = "live"}
  BY DEF Lifecycle!Live, Life
<1>2. \A i \in MemId : life[i] = "live" <=> status[i] = "active"
  BY LifeValues DEF TypeOK
<1>3. S \in SUBSET Lifecycle!Live
  BY <1>0, <1>1, <1>2
<1>4. ASSUME NEW i \in MemId
      PROVE  Life(status'[i]) = IF i \in S THEN "retired" ELSE life[i]
  BY <1>0, LifeValues DEF TypeOK, Ages
<1>5. [i \in MemId |-> Life(status'[i])] = [i \in MemId |-> IF i \in S THEN "retired" ELSE life[i]]
  BY <1>4
<1>6. Lifecycle!Live \ S \subseteq memory_fts'
  BY <1>0, <1>1, <1>2 DEF ActiveIsSearchable
<1>7. Lifecycle!Retire(S)
  BY <1>5, <1>6 DEF Lifecycle!Retire, Life
<1> QED BY <1>3, <1>7 DEF Lifecycle!Next

\* An insert is a publication of the life cycle.
LEMMA InsertPublishes ==
    ASSUME TypeOK, NEW c \in Client, InsertMemory(c)
    PROVE  Lifecycle!Next
<1> DEFINE life == [j \in MemId |-> Life(status[j])]
<1>1. PICK i \in MemId :
        /\ status[i] = "none"
        /\ status' = [status EXCEPT ![i] = InitStatus[i]]
        /\ memory_fts' = IF InitStatus[i] = "deleted" THEN memory_fts ELSE memory_fts \cup {i}
  BY DEF InsertMemory
<1>2. life[i] = "unborn"
  BY <1>1, LifeValues
<1>3. [j \in MemId |-> Life(status'[j])] = [life EXCEPT ![i] = Life(InitStatus[i])]
  <2>1. ASSUME NEW j \in MemId
        PROVE  Life(status'[j]) = IF j = i THEN Life(InitStatus[i]) ELSE life[j]
    BY <1>1 DEF TypeOK
  <2> QED BY <2>1
<1>4. CASE InitStatus[i] = "active"
  BY <1>1, <1>2, <1>3, <1>4, LifeValues DEF Lifecycle!Next, Lifecycle!Publish, Life
<1>5. CASE InitStatus[i] # "active"
  <2>1. Life(InitStatus[i]) = "retired"
    BY <1>5, RowAssumption, LifeValues
  <2> QED BY <1>1, <1>2, <1>3, <2>1 DEF Lifecycle!Next, Lifecycle!Publish, Life
<1> QED BY <1>4, <1>5

\* Every step of the tables is a step of the life cycle, or none.
THEOREM Refinement == Spec => ImplementsLifecycle
<1>1. Init => Lifecycle!Init
  BY DEF Init, Lifecycle!Init
<1>2. IInv /\ IInv' /\ [Next]_vars => [Lifecycle!Next]_(Lifecycle!vars)
  <2> SUFFICES ASSUME IInv, IInv', [Next]_vars PROVE [Lifecycle!Next]_(Lifecycle!vars)
    OBVIOUS
  <2> USE DEF IInv
  <2>1. CASE UNCHANGED <<status, memory_fts>>
    BY <2>1 DEF Lifecycle!vars
  <2>2. ASSUME NEW c \in Client, InsertMemory(c) PROVE Lifecycle!Next
    BY <2>2, InsertPublishes
  <2>3. ASSUME \A i \in MemId : status[i] = "none" => status'[i] = "none",
               memory_fts' \subseteq memory_fts
        PROVE  Lifecycle!Next
    BY <2>3, StepAges, AgingRetires
  <2>4. ASSUME NEW c \in Client, Continue(c), ~InsertMemory(c)
        PROVE  /\ \A i \in MemId : status[i] = "none" => status'[i] = "none"
               /\ memory_fts' \subseteq memory_fts
    BY <2>4 DEF TypeOK, Continue, AcceptFindsDuplicate, AcceptFindsNoDuplicate, GoInsert,
          UpsertVector, UpsertVectorFails, MarkAccepted, EraseProjectSoft, EraseProjectHard,
          RowsOf, Exists, MarkOutdated, ArchiveNext, tables
  <2>5. ASSUME OneTransaction
        PROVE  /\ \A i \in MemId : status[i] = "none" => status'[i] = "none"
               /\ memory_fts' \subseteq memory_fts
    BY <2>5 DEF TypeOK, Exists, OneTransaction, QueueCandidate, DiscardCandidate, ForgetSoft,
          ForgetHard, RecordUsage, Expire
  <2> QED BY <2>1, <2>2, <2>3, <2>4, <2>5, BeginKeepsTables DEF Next, vars, tables
<1> QED BY <1>1, <1>2, Invariance, PTL DEF Spec, Lifecycle!Spec, ImplementsLifecycle
=============================================================================
