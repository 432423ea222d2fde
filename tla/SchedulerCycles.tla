--------------------------- MODULE SchedulerCycles ---------------------------
(***************************************************************************)
(* MemoryScheduler over many turns: sessions that each keep a scheduler and *)
(* an arbiter run cycles over the same memories, and save to one file.      *)
(*                                                                          *)
(* Memories are used and grow old between cycles.  A cycle changes the      *)
(* scheduler's state, the weights of the arbiter's policies, and what the   *)
(* stability controller remembers; then it saves, which may fail, or die    *)
(* between truncating the file and filling it.                              *)
(***************************************************************************)
EXTENDS Integers, Sequences, FiniteSets, Cognition

CONSTANTS
    Session,         \* processes that run turns
    InitialStates,   \* what the file may hold at first; the fresh state stands for no file
    Stores,          \* the memories there may be at first, as the database lists them
    Means,           \* means of the rewards of a turn's trace
    ConflictTraces,  \* sequences of resolutions
    Loads,           \* system loads
    Ages,            \* days that pass at once
    MaxLooks,        \* bound: looks that cycles take at memories
    MaxUses, MaxDays, MaxFailures  \* bounds of an instance

State == [turns : Nat, reward : -100..100, bias : [Resolution -> 0..100]]
Memory == [importance : 0..100, confidence : 0..100, usage : Nat, age : Nat, tokens : Nat,
           type : STRING, body : Body, prefix : Prefix, negative : BOOLEAN,
           words : SUBSET Word, terms : SUBSET DOMAIN Canonical]

ASSUME CyclesAssumption ==
    /\ InitialStates \subseteq State
    /\ Stores \subseteq Seq(Memory)
    /\ Means \subseteq -100..100
    /\ \A conflicts \in ConflictTraces : conflicts \in Seq(Resolution)
    /\ Ages \subseteq Nat
    /\ {MaxLooks, MaxUses, MaxDays, MaxFailures} \subseteq Nat

VARIABLES
    store,    \* the memories, in the order of the list
    file,     \* the .scheduler.json file: [kind, state]
    session,  \* what each session is at
    used,     \* how much of each bound is used up
    log       \* auxiliary: how many saves there were, and the state of the last

vars == <<store, file, session, used, log>>

File(state) == [kind |-> "ok", state |-> state]
Broken == [kind |-> "broken", state |-> FreshScheduler]

\* _load_state.
Loaded(f) == IF f.kind = "ok" THEN f.state ELSE FreshScheduler

\* last is the controller's _last_transition; skipped counts, for the properties, the
\* cycles in a row that left out a compression that was due.
Closed == [pc |-> "closed", state |-> FreshScheduler, weights |-> DefaultWeights,
           last |-> [i \in DOMAIN store |-> NoTransition], skipped |-> [i \in DOMAIN store |-> 0],
           seen |-> 0, sound |-> TRUE]

At(s, pc) == session[s].pc = pc
Become(s, r) == session' = [session EXCEPT ![s] = r]

-----------------------------------------------------------------------------
(* The sessions *)

\* for_database, with the arbiter's default weights: those the file has of earlier
\* sessions are never read.
Open(s) ==
    /\ At(s, "closed")
    /\ Become(s, [Closed EXCEPT !.pc = "ready", !.state = Loaded(file),
                              !.seen = log.saves, !.sound = (file.kind = "ok")])
    /\ UNCHANGED <<store, file, used, log>>

\* The lifecycle actions of a cycle for memory i.
Planned(r, i, selected, load) ==
    Lifecycle(store[i], Tier(store[i], i \in selected), r.last[i], r.state.turns + 1, load)

\* Whether a cycle passed over a compression that was due.
PassedOver(m, actions) == WantsCompression(m) /\ \A a \in actions : a.type # "compress"

\* run_cycle, up to its save; a first cycle's turn is 1.
RunCycle(s, selected, load, mean, conflicts) ==
    LET r == session[s]
        after == AfterCycle(r.state, mean, conflicts)
    IN /\ At(s, "ready")
       /\ used.looks + Len(store) <= MaxLooks
       /\ used' = [used EXCEPT !.looks = @ + Len(store)]
       /\ Become(s, [r EXCEPT
              !.pc = "save",
              !.state = after,
              !.weights = Synchronized(r.weights, after.reward, after.bias),
              !.last = [i \in DOMAIN store |-> Planned(r, i, selected, load).last],
              !.skipped = [i \in DOMAIN store |->
                  IF PassedOver(store[i], Planned(r, i, selected, load).actions)
                  THEN r.skipped[i] + 1 ELSE 0]])
       /\ UNCHANGED <<store, file, log>>

\* save truncates the file, then fills it.
Truncate(s) ==
    /\ At(s, "save")
    /\ file' = Broken
    /\ Become(s, [session[s] EXCEPT !.pc = "write"])
    /\ UNCHANGED <<store, used, log>>

Write(s) ==
    /\ At(s, "write")
    /\ file' = File(session[s].state)
    /\ log' = [saves |-> log.saves + 1, last |-> session[s].state]
    /\ Become(s, [session[s] EXCEPT !.pc = "ready", !.seen = log.saves + 1, !.sound = TRUE])
    /\ UNCHANGED <<store, used>>

\* The file cannot be opened, or not be filled: the cycle reports it, and its
\* session goes on.
SaveFails(s) ==
    /\ session[s].pc \in {"save", "write"}
    /\ used.failures < MaxFailures
    /\ used' = [used EXCEPT !.failures = @ + 1]
    /\ Become(s, [session[s] EXCEPT !.pc = "ready"])
    /\ UNCHANGED <<store, file, log>>

\* A session ends.
Close(s) ==
    /\ At(s, "ready")
    /\ Become(s, Closed)
    /\ UNCHANGED <<store, file, used, log>>

\* Its process dies before the save is done.
Crash(s) ==
    /\ session[s].pc \in {"save", "write"}
    /\ used.failures < MaxFailures
    /\ used' = [used EXCEPT !.failures = @ + 1]
    /\ Become(s, Closed)
    /\ UNCHANGED <<store, file, log>>

-----------------------------------------------------------------------------
(* The memories *)

\* record_usage counts a use of memory i, from which its age starts anew.
Use(i) ==
    /\ used.uses < MaxUses
    /\ used' = [used EXCEPT !.uses = @ + 1]
    /\ store' = [store EXCEPT ![i] = [@ EXCEPT !.usage = store[i].usage + 1, !.age = 0]]
    /\ UNCHANGED <<file, session, log>>

Pass(days) ==
    /\ used.days + days <= MaxDays
    /\ used' = [used EXCEPT !.days = @ + days]
    /\ store' = [i \in DOMAIN store |-> [store[i] EXCEPT !.age = @ + days]]
    /\ UNCHANGED <<file, session, log>>

-----------------------------------------------------------------------------
(* The specification *)

Init ==
    /\ store \in Stores
    /\ file \in {File(state) : state \in InitialStates}
    /\ session = [s \in Session |-> Closed]
    /\ used = [looks |-> 0, uses |-> 0, days |-> 0, failures |-> 0]
    /\ log = [saves |-> 0, last |-> file.state]

Next ==
    \/ \E s \in Session :
          \/ Open(s)
          \/ \E selected \in SUBSET DOMAIN store, load \in Loads, mean \in Means,
                conflicts \in ConflictTraces : RunCycle(s, selected, load, mean, conflicts)
          \/ Truncate(s) \/ Write(s) \/ SaveFails(s) \/ Close(s) \/ Crash(s)
    \/ \E i \in DOMAIN store : Use(i)
    \/ \E days \in Ages : Pass(days)

Spec == Init /\ [][Next]_vars

-----------------------------------------------------------------------------
(* Properties *)

Transition == [from : {"L0", "L1", "L2", "L3", "none"}, to : {"L1", "L2", "none"}, turn : Nat]
SessionRecord ==
    [pc : {"closed", "ready", "save", "write"}, state : State, weights : [Policy -> 10..300],
     last : [DOMAIN store -> Transition],
     skipped : [DOMAIN store -> Nat], seen : Nat, sound : BOOLEAN]

\* Every variable has its type; what is learned and the weights keep their limits.
TypeOK ==
    /\ store \in Seq(Memory)
    /\ file \in [kind : {"ok", "broken"}, state : State]
    /\ session \in [Session -> SessionRecord]
    /\ used \in [looks : Nat, uses : Nat, days : Nat, failures : Nat]
    /\ log \in [saves : Nat, last : State]

\* A session whose memory is due for compression, cycle after cycle, leaves it out
\* in fewer than Window cycles in a row, though a promotion that the controller
\* holds back skips the rest of the memory's turn: whatever is used or passes
\* between the cycles.
CompressionIsNotStarved ==
    \A s \in Session : \A i \in DOMAIN store : session[s].skipped[i] < Window

\* No cycle plans to promote a memory and to decay, evict or demote it, after any
\* uses and any time.
KeepsOrDrops(m, tier, last, turn, load) ==
    LET types == {a.type : a \in Lifecycle(m, tier, last, turn, load).actions}
    IN "promote" \in types => types \cap {"decay", "evict", "demote"} = {}
NoMixedPlan ==
    \A s \in Session, i \in DOMAIN store, selected \in SUBSET DOMAIN store, load \in Loads :
        KeepsOrDrops(store[i], Tier(store[i], i \in selected), session[s].last[i],
                     session[s].state.turns + 1, load)

\* Where the consistency model refuses a commit for a contradiction, or opposite
\* claims are reported as one merged meaning, the cognitive reports of the cycle,
\* which go by other keys, see a contradiction over the same body, give both of its
\* memories their full attention, and make it the task.
Attended(pair, attention, task) ==
    /\ \A i \in {pair[1], pair[2]} : /\ i \in DOMAIN attention /\ attention[i] = 100
                                   /\ i \in task.targets
    /\ task.id = "resolve_cognitive_conflict"
ContradictionsAreAttended ==
    LET refused == {store[c.pair[1]].body : c \in GlobalContradictions(store)}
        mixed == {S \in MergedMeanings(store) : {store[i].negative : i \in S} = BOOLEAN}
        bodies == refused \cup {store[i].body : i \in UNION mixed}
    IN bodies # {} =>
       \A task \in Once(Task(store)) : \A selected \in SUBSET DOMAIN store :
           \A attention \in Once(Attention(store, selected)) : \A body \in bodies :
               \E c \in Contradictions(store) :
                   store[c.pair[1]].body = body /\ Attended(c.pair, attention, task)

\* The memories the selected task is about are attended to, and none that it is
\* not about more than one of them: goals and attention are computed apart.
TaskIsAttendedFirst ==
    \A task \in Once(Task(store)) :
        task.id # "maintain_reasoning_continuity" =>
        \A selected \in SUBSET DOMAIN store : \A attention \in Once(Attention(store, selected)) :
            \A i \in task.targets : \A j \in DOMAIN attention \ task.targets :
                i \in DOMAIN attention /\ attention[i] >= attention[j]

\* A save of a session that knows every earlier one counts its cycles on, and
\* forgets nothing that was learned from conflicts, also after saves that failed
\* and crashes of other sessions.
SaveKeepsLearning ==
    [][\A s \in Session :
          At(s, "write") /\ session'[s].pc = "ready" /\ log'.saves > log.saves
              /\ session[s].sound /\ session[s].seen = log.saves =>
          /\ file'.state.turns > log.last.turns
          /\ \A r \in Resolution : file'.state.bias[r] >= log.last.bias[r]]_vars

\* Once safe mode has settled a conflict, in this session or one whose file it
\* loaded, no cycle lowers the weight of the safety policy, whatever its reward.
SafetyNeverFalls ==
    [][\A s \in Session :
          session'[s].pc = "save" /\ session'[s].state.bias["safe_mode"] > 0 =>
          session'[s].weights["safety"] >= session[s].weights["safety"]]_vars
-----------------------------------------------------------------------------
(* The inductive invariant of the theorems in SchedulerCycles_proofs *)

\* Compressions were passed over only since the controller's last transition, which
\* holds a promotion back for less than Window cycles.
HeldBriefly(r) ==
    \A i \in DOMAIN store :
        r.skipped[i] < Window /\ r.skipped[i] <= r.state.turns - r.last[i].turn

\* A session that missed no save has at least what the last one saved, and a cycle
\* more when it is about to save.
KnowsAll(r) == r.pc # "closed" /\ r.sound /\ r.seen = log.saves
Extends(r) ==
    KnowsAll(r) =>
        /\ r.state.turns >= log.last.turns
        /\ r.pc \in {"save", "write"} => r.state.turns > log.last.turns
        /\ \A x \in Resolution : r.state.bias[x] >= log.last.bias[x]

IInv ==
    /\ TypeOK
    /\ file.kind = "ok" => file.state = log.last
    /\ \A s \in Session : /\ session[s].seen <= log.saves
                         /\ HeldBriefly(session[s])
                         /\ Extends(session[s])
=============================================================================
