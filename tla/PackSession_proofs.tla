-------------------------- MODULE PackSession_proofs --------------------------
(***************************************************************************)
(* Theorems about PackSession, for any number of clients, memories,         *)
(* sessions, scopes and conflicts.                                          *)
(***************************************************************************)
EXTENDS PackSession, TLAPS

\* The locals of an idle client are well typed.
LEMMA IdleType == Idle \in Locals
BY PackAssumption DEF Idle, Locals, Pc

\* The invariant holds initially.
LEMMA InitIInv == Init => IInv
<1> SUFFICES ASSUME Init PROVE IInv
  OBVIOUS
<1>1. TypeOK
  BY IdleType, PackAssumption DEF Init, TypeOK, MemStatus
<1>2. ASSUME NEW c \in Client PROVE CallKnows(c)
  BY <1>2, PackAssumption DEF Init, CallKnows, At, Idle
<1> QED BY <1>1, <1>2 DEF Init, IInv, SeenIsWhatWasInjected, OpenOnce

\* A client's update keeps types, sets its own locals and leaves the others'.
LEMMA UpdateType ==
    ASSUME TypeOK, NEW c \in Client, NEW r \in Locals, Update(c, r)
    PROVE  /\ call' \in [Client -> Locals]
           /\ call'[c] = r
           /\ \A d \in Client \ {c} : call'[d] = call[d]
BY DEF TypeOK, Update

-----------------------------------------------------------------------------
(* What each step of a client makes of its locals *)

Mine(c) == call'[c]
OthersKeep(c) == \A d \in Client \ {c} : call'[d] = call[d]
Moved(c) == call' \in [Client -> Locals] /\ OthersKeep(c)

\* The first step of a callback.
LEMMA CallbackMoves ==
    ASSUME TypeOK, NEW c \in Client, NEW k \in Session, BeginCallback(c, k), CallKnows(c)
    PROVE  /\ Moved(c)
           /\ Mine(c).key = k /\ Mine(c).excluded = seen[k] /\ Mine(c).included = {}
           /\ Mine(c).pc = "search"
<1>1. PICK r \in Locals : r = call[c]
  BY DEF TypeOK
<1>2. PICK n : n = [r EXCEPT !.pc = "search", !.key = k, !.excluded = seen[k]]
  OBVIOUS
<1>3. seen[k] \in SUBSET Mem
  BY DEF TypeOK
<1>4. n \in Locals /\ n.key = k /\ n.excluded = seen[k] /\ n.included = r.included
      /\ n.pc = "search"
  BY <1>2, <1>3 DEF Locals, Pc
<1>5. r.included = {}
  BY <1>1 DEF BeginCallback, CallKnows, At, Idle
<1>6. Update(c, n)
  BY <1>1, <1>2 DEF BeginCallback
<1> QED BY <1>4, <1>5, <1>6, UpdateType DEF Moved, OthersKeep, Mine

\* The first step of a detection.
LEMMA DetectionMoves ==
    ASSUME TypeOK, NEW c \in Client, NEW s \in Scope, BeginDetection(c, s), CallKnows(c)
    PROVE  /\ Moved(c)
           /\ Mine(c).key = NoSession /\ Mine(c).excluded = {} /\ Mine(c).included = {}
           /\ Mine(c).pc = "list"
<1>1. PICK r \in Locals : r = call[c]
  BY DEF TypeOK
<1>2. PICK n : n = [r EXCEPT !.pc = "list", !.scope = s]
  OBVIOUS
<1>3. n \in Locals /\ n.key = r.key /\ n.excluded = r.excluded /\ n.included = r.included
      /\ n.pc = "list"
  BY <1>2 DEF Locals, Pc
<1>4. r.key = NoSession /\ r.excluded = {} /\ r.included = {}
  BY <1>1 DEF BeginDetection, CallKnows, At, Idle
<1>5. Update(c, n)
  BY <1>1, <1>2 DEF BeginDetection
<1> QED BY <1>3, <1>4, <1>5, UpdateType DEF Moved, OthersKeep, Mine

\* A search includes nothing the session has seen.
LEMMA SearchMoves ==
    ASSUME TypeOK, NEW c \in Client, Search(c)
    PROVE  /\ Moved(c)
           /\ Mine(c).key = call[c].key /\ Mine(c).excluded = call[c].excluded
           /\ Mine(c).included \cap call[c].excluded = {}
           /\ Mine(c).pc = "list"
<1>1. PICK r \in Locals : r = call[c]
  BY DEF TypeOK
<1>2. PICK S \in SUBSET {m \in Mem : mem[m] = "listed" /\ m \notin call[c].excluded} :
          Update(c, [call[c] EXCEPT !.pc = "list", !.included = S])
  BY DEF Search
<1>3. PICK n : n = [r EXCEPT !.pc = "list", !.included = S]
  OBVIOUS
<1>4. S \in SUBSET Mem /\ S \cap call[c].excluded = {}
  OBVIOUS
<1>5. n \in Locals /\ n.key = r.key /\ n.excluded = r.excluded /\ n.included = S
      /\ n.pc = "list"
  BY <1>3, <1>4 DEF Locals, Pc
<1>6. Update(c, n)
  BY <1>1, <1>2, <1>3
<1> QED BY <1>1, <1>4, <1>5, <1>6, UpdateType DEF Moved, OthersKeep, Mine

\* The end of a pack: the client is idle, or about to remember what it packed.
LEMMA PackedMoves ==
    ASSUME TypeOK, NEW c \in Client, Packed(c)
    PROVE  /\ Moved(c)
           /\ \/ Mine(c) = Idle
              \/ /\ Mine(c).key = call[c].key /\ call[c].key \in Session
                 /\ Mine(c).excluded = call[c].excluded
                 /\ Mine(c).included = call[c].included
                 /\ Mine(c).pc = "remember"
<1>1. CASE call[c].key = NoSession
  BY <1>1, IdleType, UpdateType DEF Packed, Return, Moved, OthersKeep, Mine
<1>2. CASE call[c].key # NoSession
  <2>1. PICK r \in Locals : r = call[c]
    BY DEF TypeOK
  <2>2. PICK n : n = [r EXCEPT !.pc = "remember", !.found = {}, !.next = NoPair]
    OBVIOUS
  <2>3. n \in Locals /\ n.key = r.key /\ n.excluded = r.excluded /\ n.included = r.included
        /\ n.pc = "remember"
    BY <2>2 DEF Locals, Pc
  <2>4. Update(c, n)
    BY <1>2, <2>1, <2>2 DEF Packed
  <2>5. r.key \in Session
    BY <1>2, <2>1 DEF Locals
  <2> QED BY <2>1, <2>3, <2>4, <2>5, UpdateType DEF Moved, OthersKeep, Mine
<1> QED BY <1>1, <1>2

KeepsPack(c) ==
    /\ Mine(c).key = call[c].key
    /\ Mine(c).excluded = call[c].excluded
    /\ Mine(c).included = call[c].included

\* What has been packed stays packed until the call is over.
LEMMA ListMoves ==
    ASSUME TypeOK, NEW c \in Client, ListConflicts(c)
    PROVE  /\ Moved(c)
           /\ \/ Mine(c) = Idle
              \/ KeepsPack(c) /\ Mine(c).pc = "remember" /\ call[c].key \in Session
              \/ KeepsPack(c) /\ Mine(c).pc = "check"
<1>1. CASE Packed(c)
  BY <1>1, PackedMoves DEF KeepsPack
<1>2. CASE ~Packed(c)
  <2>1. PICK r \in Locals : r = call[c]
    BY DEF TypeOK
  <2>2. PICK found \in SUBSET Contradicts :
            Update(c, [call[c] EXCEPT !.pc = "check", !.found = found])
    BY <1>2 DEF ListConflicts
  <2>3. PICK n : n = [r EXCEPT !.pc = "check", !.found = found]
    OBVIOUS
  <2>4. n \in Locals /\ n.key = r.key /\ n.excluded = r.excluded /\ n.included = r.included
        /\ n.pc = "check"
    BY <2>3 DEF Locals, Pc
  <2>5. Update(c, n)
    BY <2>1, <2>2, <2>3
  <2> QED BY <2>1, <2>4, <2>5, UpdateType DEF Moved, OthersKeep, Mine, KeepsPack
<1> QED BY <1>1, <1>2

\* A client about to insert has found no open row.
LEMMA CheckMoves ==
    ASSUME TypeOK, NEW c \in Client, NEW q \in Contradicts, CheckConflict(c, q)
    PROVE  /\ Moved(c)
           /\ \/ Mine(c) = Idle
              \/ KeepsPack(c) /\ Mine(c).pc = "remember" /\ call[c].key \in Session
              \/ KeepsPack(c) /\ Mine(c).pc = "check"
              \/ /\ KeepsPack(c) /\ Mine(c).pc = "insert"
                 /\ Mine(c).next = q /\ Mine(c).scope = call[c].scope
                 /\ ~IsOpen(call[c].scope, q)
<1>1. PICK r \in Locals : r = call[c]
  BY DEF TypeOK
<1>2. CASE Packed(c)
  BY <1>2, PackedMoves DEF KeepsPack
<1>3. CASE ~IsOpen(call[c].scope, q)
  <2>1. PICK n : n = [r EXCEPT !.pc = "insert", !.next = q]
    OBVIOUS
  <2>2. n \in Locals /\ n.key = r.key /\ n.excluded = r.excluded /\ n.included = r.included
        /\ n.scope = r.scope /\ n.pc = "insert" /\ n.next = q
    BY <2>1 DEF Locals, Pc
  <2>3. Update(c, n)
    BY <1>1, <1>3, <2>1 DEF CheckConflict
  <2> QED BY <1>1, <1>3, <2>2, <2>3, UpdateType DEF Moved, OthersKeep, Mine, KeepsPack
<1>4. CASE ~Packed(c) /\ IsOpen(call[c].scope, q)
  <2>1. PICK n : n = [r EXCEPT !.found = r.found \ {q}]
    OBVIOUS
  <2>2. r.found \ {q} \in SUBSET Contradicts
    BY DEF Locals
  <2>3. n \in Locals /\ n.key = r.key /\ n.excluded = r.excluded /\ n.included = r.included
        /\ n.pc = r.pc
    BY <2>1, <2>2 DEF Locals, Pc
  <2>4. Update(c, n) /\ r.pc = "check"
    BY <1>1, <1>4, <2>1 DEF CheckConflict, At
  <2> QED BY <1>1, <2>3, <2>4, UpdateType DEF Moved, OthersKeep, Mine, KeepsPack
<1> QED BY <1>2, <1>3, <1>4

\* A call that returns leaves an idle client.
LEMMA ReturnMoves ==
    ASSUME TypeOK, NEW c \in Client, Return(c)
    PROVE  Moved(c) /\ Mine(c) = Idle
BY IdleType, UpdateType DEF Return, Moved, OthersKeep, Mine

-----------------------------------------------------------------------------
(* Types *)

\* The step of a client keeps the types.
LEMMA StepType ==
    ASSUME IInv, NEW c \in Client, Step(c)
    PROVE  TypeOK'
<1> USE DEF IInv, tables, history
<1>1. ASSUME NEW k \in Session, BeginCallback(c, k) PROVE TypeOK'
  <2>1. call' \in [Client -> Locals]
    BY <1>1, CallbackMoves DEF Moved
  <2> QED BY <1>1, <2>1, PackAssumption DEF BeginCallback, TypeOK
<1>2. ASSUME NEW s \in Scope, BeginDetection(c, s) PROVE TypeOK'
  <2>1. call' \in [Client -> Locals]
    BY <1>2, DetectionMoves DEF Moved
  <2> QED BY <1>2, <2>1, PackAssumption DEF BeginDetection, TypeOK
<1>3. CASE Search(c)
  <2>1. call' \in [Client -> Locals]
    BY <1>3, SearchMoves DEF Moved
  <2> QED BY <1>3, <2>1 DEF Search, TypeOK
<1>4. CASE ListConflicts(c)
  <2>1. call' \in [Client -> Locals]
    BY <1>4, ListMoves DEF Moved
  <2> QED BY <1>4, <2>1 DEF ListConflicts, TypeOK
<1>5. ASSUME NEW q \in Contradicts, CheckConflict(c, q) PROVE TypeOK'
  <2>1. call' \in [Client -> Locals]
    BY <1>5, CheckMoves DEF Moved
  <2> QED BY <1>5, <2>1 DEF CheckConflict, TypeOK
<1>6. CASE InsertConflicts(c)
  <2>1. call' \in [Client -> Locals]
    BY <1>6, PackedMoves DEF InsertConflicts, Moved
  <2>2. call[c].next \in Contradicts /\ call[c].scope \in Scope
        /\ call[c].found \subseteq Contradicts
    BY <1>6 DEF InsertConflicts, CallKnows, TypeOK, Locals
  <2>3. open' \in [Entry -> Nat]
    BY <1>6 DEF InsertConflicts, TypeOK
  <2>4. disputed' \subseteq Entry
    BY <1>6, <2>2 DEF InsertConflicts, TypeOK, Entry
  <2> QED BY <1>6, <2>1, <2>3, <2>4 DEF InsertConflicts, TypeOK
<1>7. CASE Remember(c)
  <2>1. call' \in [Client -> Locals]
    BY <1>7, ReturnMoves DEF Remember, Moved
  <2>2. call[c].key \in Session
    BY <1>7 DEF Remember, CallKnows
  <2>3. call[c].included \subseteq Mem /\ call[c].excluded \subseteq Mem
    BY DEF TypeOK, Locals
  <2> QED BY <1>7, <2>1, <2>2, <2>3 DEF Remember, TypeOK
<1>8. CASE Crash(c)
  <2>1. call' \in [Client -> Locals]
    BY <1>8, ReturnMoves DEF Crash, Moved
  <2> QED BY <1>8, <2>1 DEF Crash, TypeOK
<1> QED BY <1>1, <1>2, <1>3, <1>4, <1>5, <1>6, <1>7, <1>8 DEF Step

\* So does every other step.
LEMMA NextType ==
    ASSUME IInv, [Next]_vars
    PROVE  TypeOK'
<1> USE DEF IInv, TypeOK, tables, history
<1>1. ASSUME NEW c \in Client, Step(c) PROVE TypeOK'
  BY <1>1, StepType
<1>2. ASSUME NEW k \in Session, Reset(k) PROVE TypeOK'
  BY <1>2 DEF Reset
<1>3. ASSUME NEW e \in Entry, Resolve(e) PROVE TypeOK'
  BY <1>3 DEF Resolve
<1>4. ASSUME NEW e \in Entry, Reopen(e) PROVE TypeOK'
  BY <1>4 DEF Reopen
<1>5. ASSUME NEW m \in Mem, NEW s \in MemStatus, ChangeMemory(m, s) PROVE TypeOK'
  BY <1>5 DEF ChangeMemory
<1>6. CASE UNCHANGED vars
  BY <1>6 DEF vars
<1> QED BY <1>1, <1>2, <1>3, <1>4, <1>5, <1>6 DEF Next

-----------------------------------------------------------------------------
(* What the calls know *)

\* An idle client has nothing to know.
LEMMA IdleKnows ==
    ASSUME NEW c \in Client, Mine(c) = Idle
    PROVE  CallKnows(c)'
BY PackAssumption DEF CallKnows, Mine, At, Idle

\* A pack that goes on, with the exclusion list it has, knows what it knew.
LEMMA PackKnows ==
    ASSUME NEW c \in Client, CallKnows(c), KeepsPack(c), UNCHANGED <<seen, stale>>,
           Mine(c).pc \in {"check", "remember"},
           Mine(c).pc = "remember" => call[c].key \in Session
    PROVE  CallKnows(c)'
BY DEF CallKnows, KeepsPack, Mine, At

\* The client that moves knows what it relies on.
LEMMA MoverKnows ==
    ASSUME IInv, NEW c \in Client, Step(c)
    PROVE  CallKnows(c)'
<1>0. CallKnows(c) /\ TypeOK
  BY DEF IInv
<1> USE DEF tables, history
<1>1. ASSUME NEW k \in Session, BeginCallback(c, k) PROVE CallKnows(c)'
  <2>1. Mine(c).key = k /\ Mine(c).excluded = seen[k] /\ Mine(c).included = {}
        /\ Mine(c).pc = "search"
    BY <1>0, <1>1, CallbackMoves
  <2>2. UNCHANGED seen
    BY <1>1 DEF BeginCallback
  <2> QED BY <2>1, <2>2 DEF CallKnows, Mine, At
<1>2. ASSUME NEW s \in Scope, BeginDetection(c, s) PROVE CallKnows(c)'
  <2>1. Mine(c).key = NoSession /\ Mine(c).excluded = {} /\ Mine(c).included = {}
        /\ Mine(c).pc = "list"
    BY <1>0, <1>2, DetectionMoves
  <2> QED BY <2>1, PackAssumption DEF CallKnows, Mine, At
<1>3. CASE Search(c)
  <2>1. Mine(c).key = call[c].key /\ Mine(c).excluded = call[c].excluded
        /\ Mine(c).included \cap call[c].excluded = {} /\ Mine(c).pc = "list"
    BY <1>0, <1>3, SearchMoves
  <2>2. UNCHANGED <<seen, stale>>
    BY <1>3 DEF Search
  <2> QED BY <1>0, <2>1, <2>2 DEF CallKnows, Mine, At
<1>4. CASE ListConflicts(c)
  <2>1. UNCHANGED <<seen, stale>>
    BY <1>4 DEF ListConflicts
  <2> QED BY <1>0, <1>4, <2>1, ListMoves, IdleKnows, PackKnows
<1>5. ASSUME NEW q \in Contradicts, CheckConflict(c, q) PROVE CallKnows(c)'
  <2>1. UNCHANGED <<seen, stale, open, disputed>>
    BY <1>5 DEF CheckConflict
  <2>2. CASE Mine(c) = Idle
    BY <2>2, IdleKnows
  <2>3. CASE KeepsPack(c) /\ Mine(c).pc \in {"check", "remember"}
             /\ (Mine(c).pc = "remember" => call[c].key \in Session)
    BY <1>0, <2>1, <2>3, PackKnows
  <2>4. CASE /\ KeepsPack(c) /\ Mine(c).pc = "insert"
             /\ Mine(c).next = q /\ Mine(c).scope = call[c].scope
             /\ ~IsOpen(call[c].scope, q)
    <3>1. <<call[c].scope, q>> \in Entry
      BY <1>0 DEF TypeOK, Locals, Entry
    <3>2. open[<<call[c].scope, q>>] = 0
      BY <1>0, <2>4, <3>1 DEF IsOpen, TypeOK
    <3>3. <<Mine(c).scope, Mine(c).next>> = <<call[c].scope, q>>
      BY <2>4
    <3>4. open'[<<Mine(c).scope, Mine(c).next>>] = 0
      BY <2>1, <3>2, <3>3
    <3> QED BY <1>0, <2>1, <2>4, <3>4 DEF CallKnows, KeepsPack, Mine, At
  <2> QED BY <1>0, <1>5, <2>2, <2>3, <2>4, CheckMoves
<1>6. CASE InsertConflicts(c)
  <2>1. UNCHANGED <<seen, stale>>
    BY <1>6 DEF InsertConflicts
  <2> QED BY <1>0, <1>6, <2>1, PackedMoves, IdleKnows, PackKnows DEF InsertConflicts, KeepsPack
<1>7. CASE Remember(c) \/ Crash(c)
  BY <1>0, <1>7, ReturnMoves, IdleKnows DEF Remember, Crash
<1> QED BY <1>1, <1>2, <1>3, <1>4, <1>5, <1>6, <1>7 DEF Step

\* A session row changes under a call only if the call becomes stale.
LEMMA RowChangesMakeStale ==
    ASSUME IInv, [Next]_vars, NEW d \in Client, call'[d] = call[d],
           call[d].key \in Session, d \notin stale'
    PROVE  d \notin stale /\ seen'[call[d].key] = seen[call[d].key]
<1> USE DEF tables, history
<1>0. TypeOK /\ \A c \in Client : CallKnows(c)
  BY DEF IInv
<1>1. CASE UNCHANGED <<seen, stale>>
  BY <1>1
<1>2. ASSUME NEW c \in Client, NEW k \in Session, BeginCallback(c, k)
      PROVE  d \notin stale /\ UNCHANGED seen
  <2>1. c # d
    <3>1. Mine(c).pc = "search" /\ call[c].pc = "idle"
      BY <1>0, <1>2, CallbackMoves DEF BeginCallback, At
    <3> QED BY <3>1 DEF Mine
  <2> QED BY <1>2, <2>1 DEF BeginCallback
<1>3. ASSUME NEW c \in Client, Remember(c)
      PROVE  d \notin stale /\ seen'[call[d].key] = seen[call[d].key]
  <2>1. c # d
    <3>1. Mine(c).pc = "idle" /\ call[c].pc = "remember"
      BY <1>0, <1>3, ReturnMoves DEF Remember, At, Idle
    <3> QED BY <3>1 DEF Mine
  <2>2. d \notin stale /\ call[d].key # call[c].key
    BY <1>3, <2>1 DEF Remember
  <2> QED BY <1>0, <1>3, <2>2 DEF Remember, TypeOK
<1>4. ASSUME NEW k \in Session, Reset(k)
      PROVE  d \notin stale /\ seen'[call[d].key] = seen[call[d].key]
  BY <1>0, <1>4 DEF Reset, TypeOK
<1>5. ASSUME NEW c \in Client, Step(c)
      PROVE  d \notin stale /\ seen'[call[d].key] = seen[call[d].key]
  BY <1>1, <1>2, <1>3, <1>5 DEF Step, BeginDetection, Search, ListConflicts, CheckConflict,
       InsertConflicts, Crash
<1> QED BY <1>1, <1>4, <1>5 DEF Next, vars, Resolve, Reopen, ChangeMemory

\* A second open row comes only with a dispute.
LEMMA RowsGrow ==
    ASSUME IInv, [Next]_vars, NEW e \in Entry
    PROVE  /\ disputed \subseteq disputed'
           /\ \/ open'[e] <= open[e]
              \/ e \in disputed'
              \/ \E c \in Client : /\ InsertConflicts(c)
                                   /\ open[e] = 0 /\ open'[e] = 1
                                   /\ \A d \in Client \ {c} :
                                        At(d, "insert") => e # <<call[d].scope, call[d].next>>
<1> USE DEF tables, history
<1>0. TypeOK
  BY DEF IInv
<1>1. CASE UNCHANGED <<open, disputed>>
  BY <1>0, <1>1 DEF TypeOK
<1>2. ASSUME NEW f \in Entry, Resolve(f)
      PROVE  disputed \subseteq disputed' /\ open'[e] <= open[e]
  BY <1>0, <1>2 DEF Resolve, TypeOK
<1>3. ASSUME NEW f \in Entry, Reopen(f)
      PROVE  disputed \subseteq disputed' /\ (open'[e] <= open[e] \/ e \in disputed')
  BY <1>0, <1>3 DEF Reopen, TypeOK
<1>4. ASSUME NEW c \in Client, InsertConflicts(c)
      PROVE  /\ disputed \subseteq disputed'
             /\ \/ open'[e] <= open[e]
                \/ e \in disputed'
                \/ /\ open[e] = 0 /\ open'[e] = 1
                   /\ \A d \in Client \ {c} :
                        At(d, "insert") => e # <<call[d].scope, call[d].next>>
  <2> DEFINE s == call[c].scope
             new == {call[c].next} \cup {q \in call[c].found : ~IsOpen(s, q)}
  <2>1. disputed \subseteq disputed'
    BY <1>4 DEF InsertConflicts
  <2>2. CASE ~(e[1] = s /\ e[2] \in new)
    BY <1>0, <1>4, <2>1, <2>2 DEF InsertConflicts, TypeOK
  <2>3. CASE e[1] = s /\ e[2] \in new
    <3>1. e = <<s, e[2]>>
      BY <2>3 DEF Entry
    <3>2. open'[e] = open[e] + 1
      BY <1>0, <1>4, <2>3 DEF InsertConflicts, TypeOK
    <3>3. open[e] = 0 \/ e \in disputed
      <4>1. CASE e[2] = call[c].next
        <5>1. e \notin disputed => open[e] = 0
          BY <1>4, <3>1, <4>1 DEF InsertConflicts, IInv, CallKnows
        <5> QED BY <5>1
      <4>2. CASE e[2] # call[c].next
        BY <1>0, <2>3, <3>1, <4>2 DEF IsOpen, TypeOK
      <4> QED BY <4>1, <4>2
    <3>4. ASSUME NEW d \in Client \ {c}, At(d, "insert"), e = <<call[d].scope, call[d].next>>
          PROVE  e \in disputed'
      <4>1. call[d].scope = s /\ call[d].next = e[2]
        BY <3>1, <3>4
      <4> QED BY <1>4, <2>3, <3>1, <3>4, <4>1 DEF InsertConflicts
    <3> QED BY <2>1, <3>2, <3>3, <3>4
  <2> QED BY <2>2, <2>3
<1>5. ASSUME NEW c \in Client, Step(c), ~InsertConflicts(c) PROVE UNCHANGED <<open, disputed>>
  BY <1>5 DEF Step, BeginCallback, BeginDetection, Search, ListConflicts, CheckConflict,
       Remember, Crash
<1> QED BY <1>1, <1>2, <1>3, <1>4, <1>5 DEF Next, vars, Reset, ChangeMemory

\* A client that does not move keeps what it knows, or is stale.
LEMMA BystanderKnows ==
    ASSUME IInv, [Next]_vars, NEW d \in Client, call'[d] = call[d]
    PROVE  CallKnows(d)'
<1>0. TypeOK /\ TypeOK' /\ CallKnows(d)
  BY NextType DEF IInv
<1>1. call[d].key \in Session /\ d \notin stale' => call[d].excluded = seen'[call[d].key]
  BY <1>0, RowChangesMakeStale DEF CallKnows
<1>2. ASSUME At(d, "insert"), <<call[d].scope, call[d].next>> \notin disputed'
      PROVE  open'[<<call[d].scope, call[d].next>>] = 0
  <2> DEFINE e == <<call[d].scope, call[d].next>>
  <2>1. call[d].next \in Contradicts
    BY <1>0, <1>2 DEF CallKnows
  <2>2. e \in Entry
    BY <1>0, <2>1 DEF TypeOK, Locals, Entry
  <2>3. disputed \subseteq disputed'
    BY <2>2, RowsGrow
  <2>4. open[e] = 0
    BY <1>0, <1>2, <2>3 DEF CallKnows
  <2>5. CASE open'[e] <= open[e]
    BY <1>0, <2>2, <2>4, <2>5 DEF TypeOK
  <2>6. ASSUME NEW c \in Client, InsertConflicts(c),
               \A b \in Client \ {c} : At(b, "insert") => e # <<call[b].scope, call[b].next>>
        PROVE  FALSE
    <3>1. c = d
      BY <1>2, <2>6
    <3>2. Mine(c).pc # "insert"
      BY <1>0, <2>6, PackedMoves DEF InsertConflicts, Idle
    <3> QED BY <1>2, <3>1, <3>2 DEF Mine, At
  <2> QED BY <1>2, <2>2, <2>5, <2>6, RowsGrow
<1> QED BY <1>0, <1>1, <1>2 DEF CallKnows, At

\* Every step keeps what the calls know.
LEMMA StepCallsKnow ==
    ASSUME IInv, [Next]_vars, NEW d \in Client
    PROVE  CallKnows(d)'
<1>1. ASSUME NEW c \in Client, Step(c), d # c PROVE call'[d] = call[d]
  <2>1. TypeOK /\ CallKnows(c)
    BY DEF IInv
  <2>2. OthersKeep(c)
    BY <1>1, <2>1, CallbackMoves, DetectionMoves, SearchMoves, ListMoves, CheckMoves,
       PackedMoves, ReturnMoves DEF Step, InsertConflicts, Remember, Crash, Moved
  <2> QED BY <1>1, <2>2 DEF OthersKeep
<1>2. CASE UNCHANGED call
  BY <1>2, BystanderKnows
<1>3. ASSUME NEW c \in Client, Step(c) PROVE CallKnows(d)'
  <2>1. CASE d = c
    BY <1>3, <2>1, MoverKnows
  <2>2. CASE d # c
    BY <1>1, <1>3, <2>2, BystanderKnows
  <2> QED BY <2>1, <2>2
<1> QED BY <1>2, <1>3 DEF Next, vars, Reset, Resolve, Reopen, ChangeMemory

-----------------------------------------------------------------------------
(* Sessions and the ledger *)

\* Every step keeps the row of an untangled session equal to what was injected.
LEMMA StepSession ==
    ASSUME IInv, [Next]_vars
    PROVE  SeenIsWhatWasInjected'
<1> USE DEF tables, history
<1>0. TypeOK /\ SeenIsWhatWasInjected /\ \A c \in Client : CallKnows(c)
  BY DEF IInv
<1>1. CASE UNCHANGED <<seen, injected, tangled>>
  BY <1>0, <1>1 DEF SeenIsWhatWasInjected
<1>2. ASSUME NEW c \in Client, Remember(c) PROVE SeenIsWhatWasInjected'
  <2> SUFFICES ASSUME NEW k \in Session, k \notin tangled' PROVE seen'[k] = injected'[k]
    BY DEF SeenIsWhatWasInjected
  <2>1. k \notin tangled /\ seen[k] = injected[k]
    BY <1>0, <1>2 DEF Remember, SeenIsWhatWasInjected
  <2>2. CASE k = call[c].key
    <3>1. call[c].excluded = seen[k]
      BY <1>0, <1>2, <2>2 DEF Remember, CallKnows
    <3>2. seen'[k] = call[c].excluded \cup call[c].included
      BY <1>0, <1>2, <2>2 DEF Remember, TypeOK
    <3>3. injected'[k] = injected[k] \cup call[c].included
      BY <1>0, <1>2, <2>2 DEF Remember, TypeOK
    <3> QED BY <2>1, <3>1, <3>2, <3>3
  <2>3. CASE k # call[c].key
    BY <1>0, <1>2, <2>1, <2>3 DEF Remember, TypeOK
  <2> QED BY <2>2, <2>3
<1>3. ASSUME NEW k \in Session, Reset(k) PROVE SeenIsWhatWasInjected'
  BY <1>0, <1>3 DEF Reset, SeenIsWhatWasInjected, TypeOK
<1>4. ASSUME NEW c \in Client, Step(c), ~Remember(c) PROVE UNCHANGED <<seen, injected, tangled>>
  BY <1>4 DEF Step, BeginCallback, BeginDetection, Search, ListConflicts, CheckConflict,
       InsertConflicts, Crash
<1> QED BY <1>1, <1>2, <1>3, <1>4 DEF Next, vars, Resolve, Reopen, ChangeMemory

\* Every step keeps an undisputed conflict on one open row.
LEMMA StepOpenOnce ==
    ASSUME IInv, [Next]_vars
    PROVE  OpenOnce'
<1> SUFFICES ASSUME NEW e \in Entry, open'[e] > 1 PROVE e \in disputed'
  BY DEF OpenOnce
<1>0. TypeOK /\ TypeOK' /\ OpenOnce
  BY NextType DEF IInv
<1>1. CASE open'[e] <= open[e]
  <2>1. open[e] > 1
    BY <1>0, <1>1 DEF TypeOK
  <2> QED BY <1>0, <2>1, RowsGrow DEF OpenOnce
<1>2. CASE open'[e] = 1
  BY <1>2
<1> QED BY <1>1, <1>2, RowsGrow

\* Every step keeps the invariant.
LEMMA StepIInv == IInv /\ [Next]_vars => IInv'
<1> SUFFICES ASSUME IInv, [Next]_vars PROVE IInv'
  OBVIOUS
<1>1. \A c \in Client : CallKnows(c)'
  BY StepCallsKnow
<1> QED BY <1>1, NextType, StepSession, StepOpenOnce DEF IInv

\* The inductive invariant holds in every reachable state.
THEOREM Invariance == Spec => []IInv
BY InitIInv, StepIInv, PTL DEF Spec

\* The tables and the calls' locals keep their types whatever the interleaving.
THEOREM TypeCorrect == Spec => []TypeOK
<1>1. IInv => TypeOK
  BY DEF IInv
<1> QED BY Invariance, <1>1, PTL

\* A session row that no stale pack wrote is what the packs included since the
\* last reset.
THEOREM SessionIsExact == Spec => []SeenIsWhatWasInjected
<1>1. IInv => SeenIsWhatWasInjected
  BY DEF IInv
<1> QED BY Invariance, <1>1, PTL

\* A pack that nothing overtook repeats no memory of its session.
THEOREM PacksDoNotRepeat == Spec => []NoRepeats
<1>1. ASSUME IInv PROVE NoRepeats
  <2> SUFFICES ASSUME NEW c \in Client, call[c].key \in Session \ tangled, c \notin stale
               PROVE  call[c].included \cap injected[call[c].key] = {}
    BY DEF NoRepeats
  <2>1. seen[call[c].key] = injected[call[c].key]
    BY <1>1 DEF IInv, SeenIsWhatWasInjected
  <2> QED BY <1>1, <2>1 DEF IInv, CallKnows
<1> QED BY Invariance, <1>1, PTL

\* A conflict nobody disputes has at most one open row in each scope.
THEOREM ConflictsOpenOnce == Spec => []OpenOnce
<1>1. IInv => OpenOnce
  BY DEF IInv
<1> QED BY Invariance, <1>1, PTL
=============================================================================
