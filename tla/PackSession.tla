----------------------------- MODULE PackSession -----------------------------
(***************************************************************************)
(* callback_pack and the conflict ledger: what a session remembers of the   *)
(* memories it was given, and the rows of the table conflicts that every    *)
(* pack and every consolidation adds to.                                    *)
(*                                                                          *)
(* A call reads the session row, searches, lists the memories for the       *)
(* conflict detector, records the conflicts it found, and writes the        *)
(* session row back, each on a connection of its own.  In _persist the      *)
(* SELECTs before the first INSERT are outside its transaction, those after *)
(* it are inside.                                                           *)
(*                                                                          *)
(* One project.  A row of conflicts belongs to the project or, when a       *)
(* consolidation of all projects found it, to none.  Ranking, sections and  *)
(* near-duplicate removal are left out: a pack includes any of the memories *)
(* it may include.                                                          *)
(***************************************************************************)
EXTENDS Naturals, FiniteSets

CONSTANTS
    Client,        \* processes, each with at most one call in progress
    Mem,           \* the memories of the project
    Session,       \* session keys
    Scope,         \* what detect_for_project may be called with
    Contradicts,   \* pairs of memories detect_conflicts reports
    MaxCalls,      \* bound: calls begun
    MayTrim,       \* whether a pack may exceed max_tokens
    MayCrash,      \* whether a client may die, or its call raise, on the way
    ProjectScope,  \* the scope of a pack
    NoSession, NoPair

ASSUME PackAssumption ==
    /\ Contradicts \subseteq SUBSET Mem
    /\ ProjectScope \in Scope
    /\ NoSession \notin Session
    /\ NoPair \notin Contradicts
    /\ MaxCalls \in Nat
    /\ MayTrim \in BOOLEAN /\ MayCrash \in BOOLEAN

VARIABLES
    mem,       \* the status of each memory: "listed" stands for active and outdated,
               \* "absent" for deleted and for not yet written
    seen,      \* callback_sessions.seen_memory_ids; {} also when there is no row
    open,      \* open rows of conflicts, by scope and pair
    closed,    \* the other rows
    call,      \* the locals of each client's call
    calls,     \* counter for the bound
    injected,  \* history: what the packs of a session included since its last reset
    printed,   \* history: what they had in their text
    stale,     \* history: clients whose session row was written since they read it
    tangled,   \* history: sessions whose row was written from a stale read
    disputed   \* history: conflicts two calls recorded at once, or reopened by hand

tables == <<mem, seen, open, closed>>
history == <<injected, printed, stale, tangled, disputed>>
vars == <<tables, call, calls, history>>

Entry == Scope \X Contradicts

-----------------------------------------------------------------------------
MemStatus == {"absent", "listed", "archived"}
Pc == {"idle", "search", "list", "check", "insert", "remember"}
Idle == [pc |-> "idle", key |-> NoSession, scope |-> ProjectScope,
         excluded |-> {}, included |-> {}, found |-> {}, next |-> NoPair]

Init ==
    /\ mem = [m \in Mem |-> "absent"]
    /\ seen = [k \in Session |-> {}]
    /\ open = [e \in Entry |-> 0]
    /\ closed = [e \in Entry |-> 0]
    /\ call = [c \in Client |-> Idle]
    /\ calls = 0
    /\ injected = [k \in Session |-> {}]
    /\ printed = [k \in Session |-> {}]
    /\ stale = {}
    /\ tangled = {}
    /\ disputed = {}

At(c, pc) == call[c].pc = pc
Update(c, locals) == call' = [call EXCEPT ![c] = locals]
Return(c) == Update(c, Idle)

\* The end of MemoryPacker.pack: a callback goes on to its session row.
Packed(c) ==
    IF call[c].key = NoSession
    THEN Return(c)
    ELSE Update(c, [call[c] EXCEPT !.pc = "remember", !.found = {}, !.next = NoPair])

-----------------------------------------------------------------------------
(* callback_pack *)

BeginCallback(c, k) ==
    /\ At(c, "idle")
    /\ calls < MaxCalls
    /\ calls' = calls + 1
    /\ Update(c, [call[c] EXCEPT !.pc = "search", !.key = k, !.excluded = seen[k]])
    /\ stale' = stale \ {c}
    /\ UNCHANGED <<tables, injected, printed, tangled, disputed>>

\* Mutant: the results are ranked first and the exclusion list is forgotten.
SearchIgnoresSeen(c) ==
    /\ At(c, "search")
    /\ \E S \in SUBSET {m \in Mem : mem[m] = "listed"} :
           Update(c, [call[c] EXCEPT !.pc = "list", !.included = S])
    /\ UNCHANGED <<tables, calls, history>>

\* Retriever.search lists what is neither archived nor deleted; the pack drops
\* what the session has seen.
Search(c) ==
    /\ At(c, "search")
    /\ \E S \in SUBSET {m \in Mem : mem[m] = "listed" /\ m \notin call[c].excluded} :
           Update(c, [call[c] EXCEPT !.pc = "list", !.included = S])
    /\ UNCHANGED <<tables, calls, history>>

\* The other callers of detect_for_project: a pack without a session, and
\* consolidate, of one project or of all.
BeginDetection(c, s) ==
    /\ At(c, "idle")
    /\ calls < MaxCalls
    /\ calls' = calls + 1
    /\ Update(c, [call[c] EXCEPT !.pc = "list", !.scope = s])
    /\ UNCHANGED <<tables, history>>

\* list_memories with include_archived, then detect_conflicts on the list.
ListConflicts(c) ==
    /\ At(c, "list")
    /\ LET found == {q \in Contradicts : \A m \in q : mem[m] # "absent"}
       IN IF found = {}
          THEN Packed(c)
          ELSE Update(c, [call[c] EXCEPT !.pc = "check", !.found = found])
    /\ UNCHANGED <<tables, calls, history>>

\* Mutant: the lookup compares with the unsorted list of ids and finds nothing.
NeverOpen(s, q) == FALSE

\* SELECT id FROM conflicts WHERE status = 'open' AND ...
IsOpen(s, q) == open[<<s, q>>] > 0

CheckConflict(c, q) ==
    /\ At(c, "check")
    /\ q \in call[c].found
    /\ IF ~IsOpen(call[c].scope, q)
       THEN Update(c, [call[c] EXCEPT !.pc = "insert", !.next = q])
       ELSE IF call[c].found = {q}
            THEN Packed(c)
            ELSE Update(c, [call[c] EXCEPT !.found = call[c].found \ {q}])
    /\ UNCHANGED <<tables, calls, history>>

\* The first INSERT opens the transaction: the pairs that are left are looked
\* up and inserted in it.
InsertConflicts(c) ==
    /\ At(c, "insert")
    /\ LET s == call[c].scope
           new == {call[c].next} \cup {q \in call[c].found : ~IsOpen(s, q)}
           awaited(q) == \E d \in Client \ {c} : At(d, "insert") /\ call[d].scope = s
                                                  /\ call[d].next = q
       IN /\ open' = [e \in Entry |-> IF e[1] = s /\ e[2] \in new THEN open[e] + 1 ELSE open[e]]
          /\ disputed' = disputed \cup {<<s, q>> : q \in {r \in new : awaited(r)}}
    /\ Packed(c)
    /\ UNCHANGED <<mem, seen, closed, calls, injected, printed, stale, tangled>>

\* Mutant: the row is replaced by the new ids alone.
RememberOnlyNew(c) ==
    /\ At(c, "remember")
    /\ LET k == call[c].key
       IN /\ seen' = [seen EXCEPT ![k] = call[c].included]
          /\ injected' = [injected EXCEPT ![k] = @ \cup call[c].included]
    /\ Return(c)
    /\ UNCHANGED <<mem, open, closed, calls, printed, stale, tangled, disputed>>

\* update_callback_session writes what was read plus what was included; the
\* text is returned afterwards, cut at max_tokens.
Remember(c) ==
    /\ At(c, "remember")
    /\ LET k == call[c].key
           others == {d \in Client \ {c} : call[d].key = k}
       IN /\ seen' = [seen EXCEPT ![k] = call[c].excluded \cup call[c].included]
          /\ injected' = [injected EXCEPT ![k] = @ \cup call[c].included]
          /\ \E S \in IF MayTrim THEN SUBSET call[c].included ELSE {call[c].included} :
                 printed' = [printed EXCEPT ![k] = @ \cup S]
          /\ stale' = (stale \ {c}) \cup others
          /\ tangled' = IF c \in stale THEN tangled \cup {k} ELSE tangled
    /\ Return(c)
    /\ UNCHANGED <<mem, open, closed, calls, disputed>>

-----------------------------------------------------------------------------
\* reset_callback_pack
Reset(k) ==
    /\ seen' = [seen EXCEPT ![k] = {}]
    /\ injected' = [injected EXCEPT ![k] = {}]
    /\ printed' = [printed EXCEPT ![k] = {}]
    /\ stale' = stale \cup {c \in Client : call[c].key = k}
    /\ tangled' = tangled \ {k}
    /\ UNCHANGED <<mem, open, closed, call, calls, disputed>>

\* Mutant: a row is closed again and again.
ResolveTwice(e) ==
    /\ open[e] + closed[e] > 0
    /\ open' = [open EXCEPT ![e] = @ - 1]
    /\ closed' = [closed EXCEPT ![e] = @ + 1]
    /\ UNCHANGED <<mem, seen, call, calls, history>>

\* update_conflict sets any status, by id.
Resolve(e) ==
    /\ open[e] > 0
    /\ open' = [open EXCEPT ![e] = @ - 1]
    /\ closed' = [closed EXCEPT ![e] = @ + 1]
    /\ UNCHANGED <<mem, seen, call, calls, history>>

Reopen(e) ==
    /\ closed[e] > 0
    /\ open' = [open EXCEPT ![e] = @ + 1]
    /\ closed' = [closed EXCEPT ![e] = @ - 1]
    /\ disputed' = disputed \cup {e}
    /\ UNCHANGED <<mem, seen, call, calls, injected, printed, stale, tangled>>

\* Memories are written, and their status changes in any way; supersede lists a
\* forgotten one again.
ChangeMemory(m, s) ==
    /\ mem[m] # s
    /\ mem' = [mem EXCEPT ![m] = s]
    /\ UNCHANGED <<seen, open, closed, call, calls, history>>

Crash(c) ==
    /\ MayCrash
    /\ ~At(c, "idle")
    /\ Return(c)
    /\ UNCHANGED <<tables, calls, history>>

-----------------------------------------------------------------------------
Step(c) ==
    \/ \E k \in Session : BeginCallback(c, k)
    \/ \E s \in Scope : BeginDetection(c, s)
    \/ Search(c)
    \/ ListConflicts(c)
    \/ \E q \in Contradicts : CheckConflict(c, q)
    \/ InsertConflicts(c)
    \/ Remember(c)
    \/ Crash(c)

Next ==
    \/ \E c \in Client : Step(c)
    \/ \E k \in Session : Reset(k)
    \/ \E e \in Entry : Resolve(e) \/ Reopen(e)
    \/ \E m \in Mem, s \in MemStatus : ChangeMemory(m, s)

Spec == Init /\ [][Next]_vars

-----------------------------------------------------------------------------
(* Properties *)

Locals == [pc : Pc, key : Session \cup {NoSession}, scope : Scope,
           excluded : SUBSET Mem, included : SUBSET Mem,
           found : SUBSET Contradicts, next : Contradicts \cup {NoPair}]

\* Types of the tables, of the calls' locals and of the history variables.
TypeOK ==
    /\ mem \in [Mem -> MemStatus]
    /\ seen \in [Session -> SUBSET Mem]
    /\ open \in [Entry -> Nat]
    /\ closed \in [Entry -> Nat]
    /\ call \in [Client -> Locals]
    /\ calls \in 0 .. MaxCalls
    /\ injected \in [Session -> SUBSET Mem]
    /\ printed \in [Session -> SUBSET Mem]
    /\ stale \subseteq Client
    /\ tangled \subseteq Session
    /\ disputed \subseteq Entry

\* The session row holds the memories its packs included since it was reset,
\* no more and no fewer, unless a pack wrote it after another pack or a reset
\* had changed what it read.  Packs that died leave it alone.
SeenIsWhatWasInjected == \A k \in Session \ tangled : seen[k] = injected[k]

\* A pack that nothing has overtaken includes no memory of an earlier pack of
\* its session, however long ago its exclusion list was read.
NoRepeats ==
    \A c \in Client : LET k == call[c].key IN
        (k \in Session \ tangled /\ c \notin stale)
            => call[c].included \cap injected[k] = {}

\* A conflict has two open rows in a scope only if two calls had each found
\* none before either inserted, or someone reopened one by hand.
OpenOnce == \A e \in Entry : open[e] > 1 => e \in disputed

\* What a call knows: which memories its session had been given, unless it is
\* stale; that it includes none of them; and, before an INSERT, that the
\* conflict has no open row, unless it is disputed.
CallKnows(c) ==
    /\ At(c, "idle") => call[c] = Idle
    /\ call[c].key \in Session /\ c \notin stale => call[c].excluded = seen[call[c].key]
    /\ call[c].included \cap call[c].excluded = {}
    /\ At(c, "remember") => call[c].key \in Session
    /\ At(c, "insert") =>
        /\ call[c].next \in Contradicts
        /\ <<call[c].scope, call[c].next>> \notin disputed
            => open[<<call[c].scope, call[c].next>>] = 0

\* The inductive invariant.
IInv ==
    /\ TypeOK
    /\ \A c \in Client : CallKnows(c)
    /\ SeenIsWhatWasInjected
    /\ OpenOnce

\* "Generate a project-scoped callback pack and remember injected memories":
\* what the session will not be given again was in the text of a pack.
SeenWasPrinted == \A k \in Session \ tangled : seen[k] \subseteq printed[k]
=============================================================================
