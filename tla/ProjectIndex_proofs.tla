------------------------- MODULE ProjectIndex_proofs -------------------------
(***************************************************************************)
(* Theorems about ProjectIndex, for any files, versions, parts and hashes,  *)
(* any number of runs and edits.                                            *)
(***************************************************************************)
EXTENDS ProjectIndex, TLAPS

-----------------------------------------------------------------------------
(* The inductive invariant *)

RunType(n) ==
    [pc : Pc, todo : SUBSET File, done : SUBSET File, file : File \cup {NoFile},
     version : Version \cup {NoVersion}, known : Version \cup {NoVersion},
     chunked : BOOLEAN, rest : Seq(Part), got : {Null} \cup 1..n,
     stale : SUBSET File, unlinked : SUBSET (1..n)]
ChunkType(n) == [file : File, part : Part, mem : {Null} \cup 1..n]
MemType == [part : Part, status : MemStatus]

\* A run works on a file that has parts, has some left while it chunks, and has
\* a memory when it links it.
Handling == {"peek", "upsert", "code", "find", "insert", "link"}
RunKnows(r) ==
    /\ r.pc \in Handling =>
          r.file \in File /\ r.version \in Version /\ Parts[r.version] # <<>>
    /\ r.pc \in {"find", "insert", "link"} => r.rest # <<>>
    /\ (r.pc = "link") <=> (r.got # Null)

Types ==
    /\ disk \in [File -> Version \cup {Absent}]
    /\ files \in [File -> [version : Version \cup {NoVersion}, status : RowStatus]]
    /\ code \in [File -> Version \cup {NoVersion}]
    /\ chunks \subseteq ChunkType(Len(mem))
    /\ mem \in Seq(MemType)
    /\ run \in [Indexer -> RunType(Len(mem))]
    /\ doomed \subseteq 1..Len(mem)
    /\ merging \subseteq 1..Len(mem)
    /\ lost \subseteq 1..Len(mem)
    /\ runs \in 0 .. MaxRuns
    /\ edits \in 0 .. MaxEdits
    /\ \A x \in Indexer : RunKnows(run[x])

-----------------------------------------------------------------------------
(* Types *)

\* An empty database, and no run, have their types.
LEMMA InitTypes == Init => Types
BY ContentAssumption, BoundAssumption
   DEF Init, Types, RunType, ChunkType, MemType, RunKnows, Idle, Pc, RowStatus, Handling, Null

\* Archiving keeps the memories, their parts and their types.
LEMMA ArchiveType ==
    ASSUME mem \in Seq(MemType), NEW ids
    PROVE  /\ Archive(ids) \in Seq(MemType)
           /\ Len(Archive(ids)) = Len(mem)
           /\ \A m \in 1..Len(mem) :
                 /\ Archive(ids)[m].part = mem[m].part
                 /\ Archive(ids)[m].status =
                       IF m \in ids /\ Active(m) THEN "archived" ELSE mem[m].status
<1>1. \A m \in 1..Len(mem) : mem[m] \in MemType
  OBVIOUS
<1>2. DOMAIN mem = 1..Len(mem)
  OBVIOUS
<1> DEFINE a(m) == IF m \in ids /\ Active(m) THEN [mem[m] EXCEPT !.status = "archived"] ELSE mem[m]
<1>3. \A m \in 1..Len(mem) :
        /\ a(m) \in MemType /\ a(m).part = mem[m].part
        /\ a(m).status = IF m \in ids /\ Active(m) THEN "archived" ELSE mem[m].status
  BY <1>1 DEF MemType, MemStatus
<1>4. Archive(ids) = [m \in 1..Len(mem) |-> a(m)]
  BY <1>2 DEF Archive
<1> HIDE DEF a
<1>5. Len(mem) \in Nat
  OBVIOUS
<1> QED BY <1>3, <1>4, <1>5

\* The first of some parts and the others.
LEMMA RestOfParts ==
    ASSUME NEW s \in Seq(Part), s # <<>>
    PROVE  /\ Head(s) = s[1] /\ Head(s) \in Part /\ Tail(s) \in Seq(Part)
           /\ Len(Tail(s)) = Len(s) - 1 /\ \A n \in 1..Len(Tail(s)) : Tail(s)[n] = s[n + 1]
           /\ (Len(s) = 1) <=> (Tail(s) = <<>>)
<1>1. Len(s) \in Nat \ {0}
  OBVIOUS
<1>2. Head(s) = s[1] /\ Head(s) \in Part
  BY <1>1
<1>3. Tail(s) \in Seq(Part) /\ Len(Tail(s)) = Len(s) - 1
  BY <1>1
<1>4. \A n \in 1..Len(Tail(s)) : Tail(s)[n] = s[n + 1]
  BY <1>1
<1>5. (Len(s) = 1) <=> (Tail(s) = <<>>)
  BY <1>1, <1>3
<1> QED BY <1>2, <1>3, <1>4, <1>5

\* A step of a run that leaves its locals well typed.
LEMMA RunStep ==
    ASSUME Types, NEW x \in Indexer, NEW s \in RunType(Len(mem)), RunKnows(s),
           run' = [run EXCEPT ![x] = s]
    PROVE  /\ run' \in [Indexer -> RunType(Len(mem))]
           /\ \A y \in Indexer : RunKnows(run'[y])
<1>1. run \in [Indexer -> RunType(Len(mem))] /\ \A y \in Indexer : RunKnows(run[y])
  BY DEF Types
<1>2. \A y \in Indexer : run'[y] = IF y = x THEN s ELSE run[y]
  BY <1>1
<1>3. run' \in [Indexer -> RunType(Len(mem))]
  BY <1>1
<1> QED BY <1>1, <1>2, <1>3

\* A run starts with nothing in hands.
LEMMA StartTypes ==
    ASSUME Types, NEW x \in Indexer, Start(x)
    PROVE  Types'
<1>1. run[x] \in RunType(Len(mem)) /\ RunKnows(run[x]) /\ Len(mem) \in Nat
  BY DEF Types
<1> DEFINE s == [run[x] EXCEPT !.pc = "scan", !.todo = File]
<1>2. s \in RunType(Len(mem)) /\ RunKnows(s)
  BY <1>1, ContentAssumption DEF Start, At, RunType, RunKnows, Pc, Handling, Null
<1>3. run' = [run EXCEPT ![x] = s]
  BY  DEF Start, Types
<1> HIDE DEF s
<1>4. run' \in [Indexer -> RunType(Len(mem))] /\ \A y \in Indexer : RunKnows(run'[y])
  BY <1>1, <1>2, <1>3, RunStep
<1> QED BY <1>1, <1>4, BoundAssumption DEF Types, Start, tables

\* A file that is read has a version with parts, or is absent.
LEMMA ReadFileTypes ==
    ASSUME Types, NEW x \in Indexer, NEW f \in File, ReadFile(x, f)
    PROVE  Types'
<1>1. run[x] \in RunType(Len(mem)) /\ RunKnows(run[x]) /\ Len(mem) \in Nat
  BY DEF Types
<1>d. disk[f] \in Version \cup {Absent}
  BY DEF Types
<1>2. run' \in [Indexer -> RunType(Len(mem))] /\ \A y \in Indexer : RunKnows(run'[y])
  <2>1. CASE disk[f] = Absent \/ Parts[disk[f]] = <<>>
    <3> DEFINE s == [run[x] EXCEPT !.todo = run[x].todo \ {f}]
    <3>1. s \in RunType(Len(mem)) /\ RunKnows(s)
      BY <1>1, <2>1, <1>d, ContentAssumption DEF ReadFile, At, RunType, RunKnows, Pc, Handling, Null
    <3>2. run' = [run EXCEPT ![x] = s]
      BY <2>1 DEF ReadFile
    <3> HIDE DEF s
    <3> QED BY <3>1, <3>2, RunStep
  <2>2. CASE ~(disk[f] = Absent \/ Parts[disk[f]] = <<>>)
    <3> DEFINE s == [run[x] EXCEPT !.todo = run[x].todo \ {f}, !.pc = "peek",
                              !.file = f, !.version = disk[f]]
    <3>1. s \in RunType(Len(mem)) /\ RunKnows(s)
      BY <1>1, <2>2, <1>d, ContentAssumption DEF ReadFile, At, RunType, RunKnows, Pc, Handling, Null
    <3>2. run' = [run EXCEPT ![x] = s]
      BY <2>2 DEF ReadFile
    <3> HIDE DEF s
    <3> QED BY <3>1, <3>2, RunStep
  <2> QED BY <2>1, <2>2
<1> QED BY <1>1, <1>2, BoundAssumption DEF Types, ReadFile, tables

\* A read that raises ends the run.
LEMMA ReadFailsTypes ==
    ASSUME Types, NEW x \in Indexer, NEW f \in File, ReadFails(x, f)
    PROVE  Types'
BY ContentAssumption, BoundAssumption
   DEF Types, ReadFails, At, Goto, Return, FileDone, tables, Idle, RunType, ChunkType, MemType,
       RunKnows, Pc, Handling, Null, RowStatus, MemStatus

\* Looking at the row changes what the run knows, nothing else.
LEMMA PeekRowTypes ==
    ASSUME Types, NEW x \in Indexer, PeekRow(x)
    PROVE  Types'
<1>1. run[x] \in RunType(Len(mem)) /\ RunKnows(run[x]) /\ Len(mem) \in Nat
  BY DEF Types
<1>d. run[x].file \in File => files[run[x].file].version \in Version \cup {NoVersion}
  BY DEF Types
<1> DEFINE s == [run[x] EXCEPT !.pc = "upsert",
                                !.known = files[run[x].file].version,
                                !.chunked = ChunksOf(run[x].file) # {}]
<1>2. s \in RunType(Len(mem)) /\ RunKnows(s)
  BY <1>1, <1>d, ContentAssumption DEF PeekRow, At, RunType, RunKnows, Pc, Handling, Null
<1>3. run' = [run EXCEPT ![x] = s]
  BY  DEF PeekRow, Types
<1> HIDE DEF s
<1>4. run' \in [Indexer -> RunType(Len(mem))] /\ \A y \in Indexer : RunKnows(run'[y])
  BY <1>1, <1>2, <1>3, RunStep
<1> QED BY <1>1, <1>4, BoundAssumption DEF Types, PeekRow, tables

\* The new row has a version that was read; the memories it archives were there.
LEMMA UpsertFileTypes ==
    ASSUME Types, NEW x \in Indexer, UpsertFile(x)
    PROVE  Types'
<1>1. run[x] \in RunType(Len(mem)) /\ RunKnows(run[x]) /\ Len(mem) \in Nat
  BY DEF Types
<1> DEFINE rest == IF SameDigest(x) /\ run[x].chunked /\ ~NeedsRefresh(run[x].file)
                   THEN <<>> ELSE Parts[run[x].version]
<1>d. run[x].pc = "upsert" /\ run[x].version \in Version
  BY <1>1 DEF UpsertFile, At, RunKnows, Handling
<1>e. rest \in Seq(Part)
  <2>1. Parts[run[x].version] \in Seq(Part)
    BY <1>d, ContentAssumption
  <2>2. <<>> \in Seq(Part)
    OBVIOUS
  <2> QED BY <2>1, <2>2
<1>f. run' = [run EXCEPT ![x].pc = "code", ![x].rest = rest]
  BY DEF UpsertFile
<1> HIDE DEF rest
<1> DEFINE s == [run[x] EXCEPT !.pc = "code", !.rest = rest]
<1>2. s \in RunType(Len(mem)) /\ RunKnows(s)
  BY <1>1, <1>d, <1>e, <1>f, ContentAssumption DEF UpsertFile, At, RunType, RunKnows, Pc,
        Handling, Null
<1>3. run' = [run EXCEPT ![x] = s]
  BY <1>f DEF UpsertFile, Types
<1> HIDE DEF s
<1>4. run' \in [Indexer -> RunType(Len(mem))] /\ \A y \in Indexer : RunKnows(run'[y])
  BY <1>1, <1>2, <1>3, RunStep
<1>5. /\ files' \in [File -> [version : Version \cup {NoVersion}, status : RowStatus]]
      /\ chunks' \subseteq ChunkType(Len(mem)) /\ lost' \subseteq 1..Len(mem)
  <2>1. run[x].file \in File /\ run[x].version \in Version
    BY <1>1 DEF UpsertFile, At, RunKnows, Handling
  <2>2. files' = [files EXCEPT ![run[x].file] = [version |-> run[x].version, status |-> "active"]]
    BY DEF UpsertFile
  <2>3. chunks' \subseteq chunks
    BY DEF UpsertFile
  <2>4. lost' \subseteq lost \cup (1..Len(mem))
    <3>1. {c.mem : c \in ChunksOf(run[x].file)} \ {Null} \subseteq 1..Len(mem)
      BY DEF Types, ChunkType, ChunksOf
    <3> QED BY <3>1 DEF UpsertFile
  <2> QED BY <2>1, <2>2, <2>3, <2>4 DEF Types, RowStatus
<1>6. mem' \in Seq(MemType) /\ Len(mem') = Len(mem)
  BY ArchiveType DEF Types, UpsertFile
<1> QED BY <1>1, <1>4, <1>5, <1>6, BoundAssumption DEF Types, UpsertFile, tables

\* A row that cannot be written ends the run.
LEMMA UpsertFailsTypes ==
    ASSUME Types, NEW x \in Indexer, UpsertFails(x)
    PROVE  Types'
BY ContentAssumption, BoundAssumption
   DEF Types, UpsertFails, At, Goto, Return, FileDone, tables, Idle, RunType, ChunkType, MemType,
       RunKnows, Pc, Handling, Null, RowStatus, MemStatus

\* After the code rows, the run has parts left, or goes on to the next file.
LEMMA ReplaceCodeTypes ==
    ASSUME Types, NEW x \in Indexer, ReplaceCode(x)
    PROVE  Types'
<1>1. run[x] \in RunType(Len(mem)) /\ RunKnows(run[x]) /\ Len(mem) \in Nat
  BY DEF Types
<1>2. run' \in [Indexer -> RunType(Len(mem))] /\ \A y \in Indexer : RunKnows(run'[y])
  <2>1. CASE run[x].rest = <<>>
    <3> DEFINE s == [run[x] EXCEPT !.pc = "scan", !.done = run[x].done \cup {run[x].file}]
    <3>1. s \in RunType(Len(mem)) /\ RunKnows(s)
      BY <1>1, <2>1, ContentAssumption DEF ReplaceCode, At, RunType, RunKnows, Pc, Handling, Null
    <3>2. run' = [run EXCEPT ![x] = s]
      BY <2>1 DEF ReplaceCode, Goto, FileDone
    <3> HIDE DEF s
    <3> QED BY <3>1, <3>2, RunStep
  <2>2. CASE run[x].rest # <<>>
    <3> DEFINE s == [run[x] EXCEPT !.pc = "find"]
    <3>1. s \in RunType(Len(mem)) /\ RunKnows(s)
      BY <1>1, <2>2, ContentAssumption DEF ReplaceCode, At, RunType, RunKnows, Pc, Handling, Null
    <3>2. run' = [run EXCEPT ![x] = s]
      BY <2>2 DEF ReplaceCode, Goto, FileDone
    <3> HIDE DEF s
    <3> QED BY <3>1, <3>2, RunStep
  <2> QED BY <2>1, <2>2
<1>5. code' \in [File -> Version \cup {NoVersion}]
  BY <1>1 DEF ReplaceCode, Types, At, RunKnows, Handling
<1> QED BY <1>1, <1>2, <1>5, BoundAssumption DEF Types, ReplaceCode, tables

\* What the look-up finds is a memory there is.
LEMMA FindDuplicateTypes ==
    ASSUME Types, NEW x \in Indexer, FindDuplicate(x)
    PROVE  Types'
<1>1. /\ run[x] \in RunType(Len(mem)) /\ RunKnows(run[x])
      /\ run \in [Indexer -> RunType(Len(mem))] /\ Len(mem) \in Nat
  BY DEF Types
<1>d. run[x].pc = "find"
  BY DEF FindDuplicate, At
<1>2. run' \in [Indexer -> RunType(Len(mem))] /\ \A y \in Indexer : RunKnows(run'[y])
  <2>1. CASE run' = [run EXCEPT ![x].pc = "insert"]
    <3> DEFINE s == [run[x] EXCEPT !.pc = "insert"]
    <3>1. s \in RunType(Len(mem)) /\ RunKnows(s)
      BY <1>1, <1>d DEF RunType, RunKnows, Pc, Handling
    <3>2. run' = [run EXCEPT ![x] = s]
      BY <1>1, <2>1
    <3> HIDE DEF s
    <3> QED BY <3>1, <3>2, RunStep
  <2>2. ASSUME NEW m \in 1..Len(mem), run' = [run EXCEPT ![x].pc = "link", ![x].got = m]
        PROVE  run' \in [Indexer -> RunType(Len(mem))] /\ \A y \in Indexer : RunKnows(run'[y])
    <3> DEFINE s == [run[x] EXCEPT !.pc = "link", !.got = m]
    <3>1. s \in RunType(Len(mem)) /\ RunKnows(s)
      <4>1. m \in {Null} \cup 1..Len(mem) /\ m # Null
        BY <1>1 DEF Null
      <4>2. s \in RunType(Len(mem))
        BY <1>1, <4>1 DEF RunType, Pc
      <4>3. s.pc = "link" /\ s.got = m /\ s.file = run[x].file /\ s.version = run[x].version /\ s.rest = run[x].rest
        BY <1>1 DEF RunType
      <4> QED BY <1>1, <1>d, <4>1, <4>2, <4>3 DEF RunKnows, Handling
    <3>2. run' = [run EXCEPT ![x] = s]
      BY <1>1, <2>2
    <3> HIDE DEF s
    <3> QED BY <3>1, <3>2, RunStep
  <2>3. SameText(Head(run[x].rest)) \subseteq 1..Len(mem)
    BY DEF SameText, Types
  <2> QED BY <2>1, <2>2, <2>3 DEF FindDuplicate, Goto
<1> QED BY <1>2 DEF Types, FindDuplicate, tables

\* An insert adds one memory, and the run has it in hands.
LEMMA InsertPartTypes ==
    ASSUME Types, NEW x \in Indexer, InsertPart(x)
    PROVE  Types'
<1>1. run[x] \in RunType(Len(mem)) /\ RunKnows(run[x]) /\ Len(mem) \in Nat
  BY DEF Types
<1>2. mem' \in Seq(MemType) /\ Len(mem') = Len(mem) + 1
  <2>1. Head(run[x].rest) \in Part
    BY <1>1 DEF InsertPart, At, RunType, RunKnows
  <2>2. [part |-> Head(run[x].rest), status |-> "active"] \in MemType
    BY <2>1 DEF MemType, MemStatus
  <2> HIDE DEF MemType
  <2> QED BY <2>2 DEF InsertPart, Types
<1>3. \A y \in Indexer : run[y] \in RunType(Len(mem'))
  BY <1>1, <1>2 DEF Types, RunType
<1> DEFINE s == [run[x] EXCEPT !.pc = "link", !.got = Len(mem) + 1]
<1>4. s \in RunType(Len(mem'))
  <2>1. run[x] \in RunType(Len(mem')) /\ Len(mem) + 1 \in 1..Len(mem')
    BY <1>1, <1>2, <1>3
  <2> QED BY <2>1 DEF RunType, Pc
<1>5. RunKnows(s)
  BY <1>1 DEF InsertPart, At, RunType, RunKnows, Handling, Null
<1>6. run' = [run EXCEPT ![x] = s]
  BY DEF InsertPart
<1> HIDE DEF s
<1>7. run' \in [Indexer -> RunType(Len(mem'))] /\ \A y \in Indexer : RunKnows(run'[y])
  BY <1>3, <1>4, <1>5, <1>6 DEF Types
<1>8. chunks' \subseteq ChunkType(Len(mem')) /\ doomed' \subseteq 1..Len(mem') /\ lost' \subseteq 1..Len(mem')
  BY <1>1, <1>2 DEF Types, InsertPart, ChunkType
<1> QED BY <1>2, <1>7, <1>8 DEF Types, InsertPart

\* A link joins a memory there is; the run goes on to its next part or file.
LEMMA LinkChunkTypes ==
    ASSUME Types, NEW x \in Indexer, LinkChunk(x)
    PROVE  Types'
<1>1. run[x] \in RunType(Len(mem)) /\ RunKnows(run[x]) /\ Len(mem) \in Nat
  BY DEF Types
<1>d. /\ run[x].rest \in Seq(Part) /\ run[x].rest # <<>> /\ run[x].file \in File
      /\ run[x].got \in {Null} \cup 1..Len(mem)
  BY <1>1 DEF LinkChunk, At, RunType, RunKnows, Handling
<1>e. /\ Head(run[x].rest) \in Part /\ Tail(run[x].rest) \in Seq(Part)
      /\ Len(run[x].rest) # 1 => Tail(run[x].rest) # <<>>
  BY <1>d, RestOfParts
<1> DEFINE s == [run[x] EXCEPT !.rest = Tail(run[x].rest), !.got = Null,
                                !.pc = IF Len(run[x].rest) = 1 THEN "scan" ELSE "find",
                                !.done = IF Len(run[x].rest) = 1
                                         THEN run[x].done \cup {run[x].file} ELSE run[x].done]
<1>2. s \in RunType(Len(mem)) /\ RunKnows(s)
  BY <1>1, <1>d, <1>e, ContentAssumption DEF LinkChunk, At, RunType, RunKnows, Pc, Handling, Null
<1>3. run' = [run EXCEPT ![x] = s]
  BY  DEF LinkChunk, Types
<1> HIDE DEF s
<1>4. run' \in [Indexer -> RunType(Len(mem))] /\ \A y \in Indexer : RunKnows(run'[y])
  BY <1>1, <1>2, <1>3, RunStep
<1>5. chunks' \subseteq ChunkType(Len(mem))
  BY <1>d, <1>e DEF LinkChunk, Types, ChunkType
<1> QED BY <1>1, <1>4, <1>5, BoundAssumption DEF Types, LinkChunk, tables

\* A link to an erased memory raises and ends the run.
LEMMA LinkFailsTypes ==
    ASSUME Types, NEW x \in Indexer, LinkFails(x)
    PROVE  Types'
BY ContentAssumption, BoundAssumption
   DEF Types, LinkFails, At, Goto, Return, FileDone, tables, Idle, RunType, ChunkType, MemType,
       RunKnows, Pc, Handling, Null, RowStatus, MemStatus

\* The rows that are marked missing keep their versions.
LEMMA MarkMissingTypes ==
    ASSUME Types, NEW x \in Indexer, MarkMissing(x)
    PROVE  Types'
<1>1. run[x] \in RunType(Len(mem)) /\ RunKnows(run[x]) /\ Len(mem) \in Nat
  BY DEF Types
<1> DEFINE s == [run[x] EXCEPT !.pc = "missing"]
<1>2. s \in RunType(Len(mem)) /\ RunKnows(s)
  BY <1>1, ContentAssumption DEF MarkMissing, At, RunType, RunKnows, Pc, Handling, Null, Goto
<1>3. run' = [run EXCEPT ![x] = s]
  BY  DEF MarkMissing, Types, Goto
<1> HIDE DEF s
<1>4. run' \in [Indexer -> RunType(Len(mem))] /\ \A y \in Indexer : RunKnows(run'[y])
  BY <1>1, <1>2, <1>3, RunStep
<1>5. files' \in [File -> [version : Version \cup {NoVersion}, status : RowStatus]]
  BY DEF MarkMissing, Types, RowStatus
<1> QED BY <1>1, <1>4, <1>5, BoundAssumption DEF Types, MarkMissing, tables

\* The files whose code rows are stale are files.
LEMMA ReadMissingTypes ==
    ASSUME Types, NEW x \in Indexer, ReadMissing(x)
    PROVE  Types'
<1>1. run[x] \in RunType(Len(mem)) /\ RunKnows(run[x]) /\ Len(mem) \in Nat
  BY DEF Types
<1> DEFINE s == [run[x] EXCEPT !.pc = "clear",
                                !.stale = {f \in File : files[f].status = "missing"}]
<1>2. s \in RunType(Len(mem)) /\ RunKnows(s)
  BY <1>1, ContentAssumption DEF ReadMissing, At, RunType, RunKnows, Pc, Handling, Null
<1>3. run' = [run EXCEPT ![x] = s]
  BY  DEF ReadMissing, Types
<1> HIDE DEF s
<1>4. run' \in [Indexer -> RunType(Len(mem))] /\ \A y \in Indexer : RunKnows(run'[y])
  BY <1>1, <1>2, <1>3, RunStep
<1> QED BY <1>1, <1>4, BoundAssumption DEF Types, ReadMissing, tables

\* Clearing removes code rows of files.
LEMMA ClearCodeTypes ==
    ASSUME Types, NEW x \in Indexer, ClearCode(x)
    PROVE  Types'
<1>1. run[x] \in RunType(Len(mem)) /\ RunKnows(run[x]) /\ Len(mem) \in Nat
  BY DEF Types
<1> DEFINE s == [run[x] EXCEPT !.pc = "unlinked"]
<1>2. s \in RunType(Len(mem)) /\ RunKnows(s)
  BY <1>1, ContentAssumption DEF ClearCode, At, RunType, RunKnows, Pc, Handling, Null, Goto
<1>3. run' = [run EXCEPT ![x] = s]
  BY  DEF ClearCode, Types, Goto
<1> HIDE DEF s
<1>4. run' \in [Indexer -> RunType(Len(mem))] /\ \A y \in Indexer : RunKnows(run'[y])
  BY <1>1, <1>2, <1>3, RunStep
<1>5. code' \in [File -> Version \cup {NoVersion}]
  BY DEF ClearCode, Types
<1> QED BY <1>1, <1>4, <1>5, BoundAssumption DEF Types, ClearCode, tables

\* The memories that are found unlinked are there.
LEMMA ReadUnlinkedTypes ==
    ASSUME Types, NEW x \in Indexer, ReadUnlinked(x)
    PROVE  Types'
<1>1. run[x] \in RunType(Len(mem)) /\ RunKnows(run[x]) /\ Len(mem) \in Nat
  BY DEF Types
<1>d. {m \in DOMAIN mem : Active(m) /\ ~Linked(m)} \subseteq 1..Len(mem)
  BY DEF Types
<1> DEFINE s == [run[x] EXCEPT !.pc = "archive",
                                !.unlinked = {m \in DOMAIN mem : Active(m) /\ ~Linked(m)}]
<1>2. s \in RunType(Len(mem)) /\ RunKnows(s)
  BY <1>1, <1>d, ContentAssumption DEF ReadUnlinked, At, RunType, RunKnows, Pc, Handling, Null
<1>3. run' = [run EXCEPT ![x] = s]
  BY  DEF ReadUnlinked, Types
<1> HIDE DEF s
<1>4. run' \in [Indexer -> RunType(Len(mem))] /\ \A y \in Indexer : RunKnows(run'[y])
  BY <1>1, <1>2, <1>3, RunStep
<1> QED BY <1>1, <1>4, BoundAssumption DEF Types, ReadUnlinked, tables

\* Archiving changes a status to another one.
LEMMA ArchiveUnlinkedTypes ==
    ASSUME Types, NEW x \in Indexer, ArchiveUnlinked(x)
    PROVE  Types'
<1>1. run[x] \in RunType(Len(mem)) /\ RunKnows(run[x]) /\ Len(mem) \in Nat
  BY DEF Types
<1> DEFINE s == Idle
<1>2. s \in RunType(Len(mem)) /\ RunKnows(s)
  BY <1>1, ContentAssumption DEF ArchiveUnlinked, At, RunType, RunKnows, Pc, Handling, Null,
        Return, Idle
<1>3. run' = [run EXCEPT ![x] = s]
  BY  DEF ArchiveUnlinked, Types, Return
<1> HIDE DEF s
<1>4. run' \in [Indexer -> RunType(Len(mem))] /\ \A y \in Indexer : RunKnows(run'[y])
  BY <1>1, <1>2, <1>3, RunStep
<1>5. mem' \in Seq(MemType) /\ Len(mem') = Len(mem)
  BY ArchiveType DEF Types, ArchiveUnlinked
<1> QED BY <1>1, <1>4, <1>5, BoundAssumption DEF Types, ArchiveUnlinked, tables

\* A run that dies leaves the tables.
LEMMA CrashTypes ==
    ASSUME Types, NEW x \in Indexer, Crash(x)
    PROVE  Types'
BY ContentAssumption, BoundAssumption
   DEF Types, Crash, At, Goto, Return, FileDone, tables, Idle, RunType, ChunkType, MemType,
       RunKnows, Pc, Handling, Null, RowStatus, MemStatus

\* An edit replaces a version of a file by another.
LEMMA EditTypes ==
    ASSUME Types, NEW f \in File, NEW v \in Version \cup {Absent}, Edit(f, v)
    PROVE  Types'
BY BoundAssumption DEF Types, Edit, tables

\* Erasing changes a status to another one.
LEMMA ForgetTypes ==
    ASSUME Types, NEW m \in DOMAIN mem, NEW how \in {"deleted", "gone"}, Forget(m, how)
    PROVE  Types'
<1>1. mem \in Seq(MemType) /\ m \in 1..Len(mem) /\ Len(mem) \in Nat
  BY DEF Types
<1>2. mem' \in Seq(MemType) /\ Len(mem') = Len(mem)
  <2>1. [mem[m] EXCEPT !.status = how] \in MemType
    <3>1. mem[m] \in MemType
      BY <1>1
    <3> QED BY <3>1 DEF MemType, MemStatus
  <2>2. mem' = [mem EXCEPT ![m] = [mem[m] EXCEPT !.status = how]]
    BY DEF Forget
  <2> HIDE DEF MemType
  <2> QED BY <1>1, <2>1, <2>2
<1>3. chunks' \subseteq ChunkType(Len(mem))
  <2>1. chunks \subseteq ChunkType(Len(mem))
    BY DEF Types
  <2> QED BY <2>1 DEF Forget, ChunkType, Null
<1> QED BY <1>2, <1>3 DEF Types, Forget

\* The consolidation reads memories there are.
LEMMA ReadMissingSourcesTypes ==
    ASSUME Types, ReadMissingSources
    PROVE  Types'
BY DEF Types, ReadMissingSources, tables

\* ... and archives some of them.
LEMMA ArchiveMissingSourcesTypes ==
    ASSUME Types, ArchiveMissingSources
    PROVE  Types'
BY ArchiveType DEF Types, ArchiveMissingSources

\* The duplicates it lists are memories too.
LEMMA ListDuplicatesTypes ==
    ASSUME Types, ListDuplicates
    PROVE  Types'
<1>1. PICK keep \in SUBSET Listed : merging' = Listed \ keep
  BY DEF ListDuplicates
<1>2. Listed \subseteq 1..Len(mem)
  BY DEF Listed, Types
<1> QED BY <1>1, <1>2 DEF Types, ListDuplicates, tables

\* Merging changes the status of one memory, and that to archived.
LEMMA MergeStatus ==
    ASSUME Types, NEW m \in merging,
           mem' = IF mem[m].status = "gone" THEN mem ELSE [mem EXCEPT ![m].status = "archived"]
    PROVE  /\ mem' \in Seq(MemType) /\ Len(mem') = Len(mem) /\ DOMAIN mem' = DOMAIN mem
           /\ \A k \in 1..Len(mem) :
                 /\ mem'[k].part = mem[k].part
                 /\ mem'[k].status = IF k = m /\ mem[m].status # "gone"
                                     THEN "archived" ELSE mem[k].status
<1>1. mem \in Seq(MemType) /\ DOMAIN mem = 1..Len(mem) /\ Len(mem) \in Nat /\ m \in 1..Len(mem)
  BY DEF Types
<1>2. \A k \in 1..Len(mem) : mem[k] \in MemType
  BY <1>1
<1>3. CASE mem[m].status = "gone"
  BY <1>1, <1>3
<1>4. CASE mem[m].status # "gone"
  <2> DEFINE e == [mem[m] EXCEPT !.status = "archived"]
  <2>1. e \in MemType /\ e.part = mem[m].part /\ e.status = "archived"
    BY <1>1, <1>2 DEF MemType, MemStatus
  <2>2. mem' = [mem EXCEPT ![m] = e]
    BY <1>4
  <2> HIDE DEF e, MemType
  <2>3. mem' \in Seq(MemType) /\ Len(mem') = Len(mem) /\ DOMAIN mem' = DOMAIN mem
    BY <1>1, <2>1, <2>2
  <2>4. \A k \in 1..Len(mem) : mem'[k] = IF k = m THEN e ELSE mem[k]
    BY <1>1, <2>2
  <2> QED BY <1>4, <2>1, <2>3, <2>4
<1> QED BY <1>3, <1>4

\* ... and keeps the types.
LEMMA MergeNextTypes ==
    ASSUME Types, MergeNext
    PROVE  Types'
<1>1. PICK m \in merging :
        /\ mem' = IF mem[m].status = "gone" THEN mem ELSE [mem EXCEPT ![m].status = "archived"]
        /\ merging' = merging \ {m} /\ lost' = lost \cup {m}
  BY DEF MergeNext
<1>2. mem' \in Seq(MemType) /\ Len(mem') = Len(mem)
  BY <1>1, MergeStatus
<1> QED BY <1>1, <1>2 DEF Types, MergeNext

\* Every step keeps the types.
LEMMA StepTypes == Types /\ [Next]_vars => Types'
<1> SUFFICES ASSUME Types, [Next]_vars PROVE Types'
  OBVIOUS
<1>1. ASSUME NEW x \in Indexer, IndexFile(x) PROVE Types'
  BY <1>1, ReadFileTypes, ReadFailsTypes, PeekRowTypes, UpsertFileTypes, UpsertFailsTypes,
     ReplaceCodeTypes, FindDuplicateTypes, InsertPartTypes, LinkChunkTypes, LinkFailsTypes
     DEF IndexFile
<1>2. ASSUME NEW x \in Indexer, EndRun(x) PROVE Types'
  BY <1>2, MarkMissingTypes, ReadMissingTypes, ClearCodeTypes, ReadUnlinkedTypes,
     ArchiveUnlinkedTypes DEF EndRun
<1>3. CASE UNCHANGED vars
  BY <1>3 DEF Types, vars, tables
<1> QED BY <1>1, <1>2, <1>3, StartTypes, CrashTypes, EditTypes, ForgetTypes,
           ReadMissingSourcesTypes, ArchiveMissingSourcesTypes, ListDuplicatesTypes,
           MergeNextTypes DEF Next

\* The types hold in every reachable state.
LEMMA TypesAlways == Spec => []Types
BY InitTypes, StepTypes, PTL DEF Spec

\* Rows, memories and the locals of every run keep their types, whatever runs,
\* edits, crashes and erasures do.
THEOREM TypeCorrect == Spec => []TypeOK
<1>1. Types => TypeOK
  <2>1. Types => DOMAIN mem = 1..Len(mem)
    BY DEF Types
  <2> QED BY <2>1 DEF Types, TypeOK, RunType, ChunkType, MemType
<1> QED BY <1>1, TypesAlways, PTL

-----------------------------------------------------------------------------
(* What one run alone keeps.  Each part is a fact about the run x and the     *)
(* tables; every step of x keeps it, and every step of the others.            *)

\* Where x stands with the file in its hands, and with the files it is done with.
Writing == {"code", "find", "insert", "link"}
Visits(x) ==
    LET r == run[x] IN
    /\ r.done \cap r.todo = {}
    /\ r.pc = "idle" => r.done = {}
    /\ r.pc \in Handling => r.file \notin r.done \cup r.todo
    /\ r.pc = "upsert" => r.chunked = (ChunksOf(r.file) # {})
    /\ r.pc \in Writing => files[r.file] = [version |-> r.version, status |-> "active"]
    /\ r.pc \in Writing \ {"code"} => code[r.file] = r.version
    /\ (r.pc = "code" /\ r.rest = <<>>) => ChunksOf(r.file) # {}
    /\ r.pc = "clear" => r.stale \cap r.done = {}
    /\ \A f \in r.done : ActiveRow(f) /\ code[f] = files[f].version /\ ChunksOf(f) # {}

\* When x is about to insert a text, no active memory has it.
Inserts(x) == At(x, "insert") => SameText(Head(run[x].rest)) = {}

\* What x is about to link, and what it is about to archive.
Sweeps(x) ==
    LET r == run[x] IN
    /\ (r.pc = "link" /\ mem[r.got].status = "archived") => r.got \in lost
    /\ r.pc = "archive" =>
          /\ \A m \in r.unlinked : ~Linked(m)
          /\ \A m \in DOMAIN mem : Active(m) => Linked(m) \/ m \in r.unlinked

\* When nothing dies and nothing is erased, the chunks of the file in hands and
\* the parts still to do are those of its version.
PartsIn(s) == {s[n] : n \in 1 .. Len(s)}
ChunkParts(f) == {c.part : c \in ChunksOf(f)}
OneVersion(f) ==
    \E v \in Version : Digest[v] = Digest[files[f].version] /\ ChunkParts(f) = PartsOf(v)
Chunks(x) ==
    LET r == run[x] IN
    /\ r.pc = "upsert" => r.known = files[r.file].version
    /\ (r.pc \in Writing /\ r.rest # <<>>) =>
          ChunkParts(r.file) \cup PartsIn(r.rest) = PartsOf(r.version)
    /\ \A f \in File : (files[f].version # NoVersion /\ ~(r.file = f /\ r.pc \in Writing)) => OneVersion(f)
    /\ (r.pc = "code" /\ r.rest = <<>>) => OneVersion(r.file)

\* ... and every active memory is linked, or in the hands of x.
Strands(x) ==
    /\ \A m \in DOMAIN mem : mem[m].status # "gone"
    /\ \A m \in DOMAIN mem : Active(m) => Linked(m) \/ run[x].got = m

\* The parts still to do are the next one and the rest.
LEMMA HeadAndRest ==
    ASSUME NEW s \in Seq(Part), s # <<>>
    PROVE  PartsIn(s) = {Head(s)} \cup PartsIn(Tail(s))
<1>1. Len(s) \in Nat \ {0} /\ Len(Tail(s)) = Len(s) - 1
  BY RestOfParts
<1>2. PartsIn(Tail(s)) = {s[n] : n \in 2 .. Len(s)}
  <2>1. \A n \in 1..Len(Tail(s)) : Tail(s)[n] = s[n + 1] /\ n + 1 \in 2 .. Len(s)
    BY <1>1, RestOfParts
  <2>2. \A n \in 2 .. Len(s) : n - 1 \in 1..Len(Tail(s)) /\ Tail(s)[n - 1] = s[n]
    BY <1>1, RestOfParts
  <2> QED BY <2>1, <2>2 DEF PartsIn
<1>3. 1 .. Len(s) = {1} \cup 2 .. Len(s)
  BY <1>1
<1> QED BY <1>2, <1>3, RestOfParts DEF PartsIn

\* What the steps with several outcomes do, without the updates of run.
ReadsFile(x, f) ==
    /\ run[x].pc = "scan" /\ f \in run[x].todo
    /\ UNCHANGED <<files, code, chunks, mem, lost>>
    /\ run'[x].todo = run[x].todo \ {f}
    /\ run'[x].done = run[x].done /\ run'[x].got = run[x].got
    /\ \/ run'[x].pc = "scan"
       \/ run'[x].pc = "peek" /\ run'[x].file = f

ReplacesCode(x) ==
    /\ run[x].pc = "code" /\ run[x].file \in File
    /\ code' = [code EXCEPT ![run[x].file] = run[x].version]
    /\ UNCHANGED <<files, chunks, mem, lost>>
    /\ run'[x].todo = run[x].todo /\ run'[x].got = run[x].got
    /\ run'[x].file = run[x].file /\ run'[x].version = run[x].version
    /\ run'[x].rest = run[x].rest
    /\ \/ /\ run[x].rest = <<>> /\ run'[x].pc = "scan"
          /\ run'[x].done = run[x].done \cup {run[x].file}
       \/ run[x].rest # <<>> /\ run'[x].pc = "find" /\ run'[x].done = run[x].done

FindsDuplicate(x) ==
    /\ run[x].pc = "find"
    /\ UNCHANGED <<files, code, chunks, mem, lost>>
    /\ run'[x].todo = run[x].todo /\ run'[x].done = run[x].done
    /\ run'[x].file = run[x].file /\ run'[x].version = run[x].version
    /\ run'[x].rest = run[x].rest
    /\ \/ /\ run'[x].pc = "insert" /\ run'[x].got = run[x].got
          /\ SameText(Head(run[x].rest)) = {}
       \/ run'[x].pc = "link" /\ run'[x].got \in SameText(Head(run[x].rest))

LinksChunk(x) ==
    /\ run[x].pc = "link" /\ run[x].got \in 1..Len(mem) /\ run[x].file \in File
    /\ run[x].rest \in Seq(Part) /\ run[x].rest # <<>>
    /\ chunks' = chunks \cup {[file |-> run[x].file, part |-> Head(run[x].rest), mem |-> run[x].got]}
    /\ UNCHANGED <<files, code, mem, lost>>
    /\ run'[x].todo = run[x].todo /\ run'[x].got = Null
    /\ run'[x].file = run[x].file /\ run'[x].version = run[x].version
    /\ run'[x].rest = Tail(run[x].rest)
    /\ \/ /\ run'[x].rest = <<>> /\ run'[x].pc = "scan"
          /\ run'[x].done = run[x].done \cup {run[x].file}
       \/ run'[x].rest # <<>> /\ run'[x].pc = "find" /\ run'[x].done = run[x].done

\* A read skips the file or takes it up.
LEMMA ReadFileEffect ==
    ASSUME Types, NEW x \in Indexer, NEW f \in File, ReadFile(x, f)
    PROVE  ReadsFile(x, f)
<1>1. run[x] \in RunType(Len(mem)) /\ run \in [Indexer -> RunType(Len(mem))]
  BY DEF Types
<1>2. \/ run'[x] = [run[x] EXCEPT !.todo = run[x].todo \ {f}]
      \/ run'[x] = [run[x] EXCEPT !.todo = run[x].todo \ {f}, !.pc = "peek",
                                  !.file = f, !.version = disk[f]]
  BY <1>1 DEF ReadFile
<1>3. run[x].pc = "scan" /\ f \in run[x].todo /\ UNCHANGED <<files, code, chunks, mem, lost>>
  BY DEF ReadFile, At, tables
<1> QED BY <1>1, <1>2, <1>3 DEF ReadsFile, RunType

\* Replacing the code rows ends the file, or begins its parts.
LEMMA ReplaceCodeEffect ==
    ASSUME Types, NEW x \in Indexer, ReplaceCode(x)
    PROVE  ReplacesCode(x)
<1>1. /\ run[x] \in RunType(Len(mem)) /\ RunKnows(run[x])
      /\ run \in [Indexer -> RunType(Len(mem))]
  BY DEF Types
<1>2. \/ /\ run[x].rest = <<>>
         /\ run'[x] = [run[x] EXCEPT !.pc = "scan", !.done = run[x].done \cup {run[x].file}]
      \/ run[x].rest # <<>> /\ run'[x] = [run[x] EXCEPT !.pc = "find"]
  BY <1>1 DEF ReplaceCode, FileDone, Goto
<1>3. /\ run[x].pc = "code" /\ run[x].file \in File
      /\ code' = [code EXCEPT ![run[x].file] = run[x].version]
      /\ UNCHANGED <<files, chunks, mem, lost>>
  BY <1>1 DEF ReplaceCode, At, RunKnows, Handling
<1> QED BY <1>1, <1>2, <1>3 DEF ReplacesCode, RunType

\* The look-up finds an active memory of the text, or there is none.
LEMMA FindDuplicateEffect ==
    ASSUME Types, NEW x \in Indexer, FindDuplicate(x)
    PROVE  FindsDuplicate(x)
<1>1. run[x] \in RunType(Len(mem)) /\ run \in [Indexer -> RunType(Len(mem))]
  BY DEF Types
<1>2. \/ SameText(Head(run[x].rest)) = {} /\ run'[x] = [run[x] EXCEPT !.pc = "insert"]
      \/ \E m \in SameText(Head(run[x].rest)) : run'[x] = [run[x] EXCEPT !.pc = "link", !.got = m]
  BY <1>1 DEF FindDuplicate, Goto
<1>3. run[x].pc = "find" /\ UNCHANGED <<files, code, chunks, mem, lost>>
  BY DEF FindDuplicate, At, tables
<1> QED BY <1>1, <1>2, <1>3 DEF FindsDuplicate, RunType

\* A link adds a chunk of the file in hands, and goes on.
LEMMA LinkChunkEffect ==
    ASSUME Types, NEW x \in Indexer, LinkChunk(x)
    PROVE  LinksChunk(x)
<1>1. /\ run[x] \in RunType(Len(mem)) /\ RunKnows(run[x])
      /\ run \in [Indexer -> RunType(Len(mem))]
  BY DEF Types
<1>2. /\ run[x].pc = "link" /\ run[x].got \in 1..Len(mem) /\ run[x].file \in File
      /\ run[x].rest \in Seq(Part) /\ run[x].rest # <<>>
  BY <1>1 DEF LinkChunk, At, RunType, RunKnows, Handling
<1>3. /\ run'[x].todo = run[x].todo /\ run'[x].got = Null
      /\ run'[x].file = run[x].file /\ run'[x].version = run[x].version
      /\ run'[x].rest = Tail(run[x].rest)
      /\ run'[x].pc = IF Len(run[x].rest) = 1 THEN "scan" ELSE "find"
      /\ run'[x].done = IF Len(run[x].rest) = 1 THEN run[x].done \cup {run[x].file} ELSE run[x].done
  BY <1>1 DEF LinkChunk, RunType
<1>4. (Len(run[x].rest) = 1) <=> (Tail(run[x].rest) = <<>>)
  BY <1>2, RestOfParts
<1> QED BY <1>2, <1>3, <1>4 DEF LinksChunk, LinkChunk

\* Erasing a memory leaves the chunks of every file, without their link to it.
LEMMA ForgetKeepsFiles ==
    ASSUME Types, NEW m \in DOMAIN mem, NEW how \in {"deleted", "gone"}, Forget(m, how)
    PROVE  /\ \A c \in chunks : \E d \in chunks' : d.file = c.file /\ (c.mem # m => d.mem = c.mem)
           /\ \A d \in chunks' : \E c \in chunks : d.file = c.file /\ (d.mem # Null => d.mem = c.mem)
<1>1. \A c \in chunks : c \in ChunkType(Len(mem))
  BY DEF Types
<1> DEFINE d(c) == IF c.mem = m THEN [c EXCEPT !.mem = Null] ELSE c
<1>2. \A c \in chunks : /\ d(c).file = c.file
                        /\ d(c).mem = IF c.mem = m THEN Null ELSE c.mem
  BY <1>1 DEF ChunkType
<1>3. chunks' = IF how = "gone" THEN {d(c) : c \in chunks} ELSE chunks
  BY DEF Forget
<1> HIDE DEF d
<1> QED BY <1>2, <1>3

\* Erasing changes the status of one memory and nothing else of any.
LEMMA ForgetStatus ==
    ASSUME Types, NEW m \in DOMAIN mem, NEW how \in {"deleted", "gone"}, Forget(m, how)
    PROVE  /\ Len(mem') = Len(mem) /\ DOMAIN mem' = DOMAIN mem
           /\ \A k \in 1..Len(mem) : /\ mem'[k].part = mem[k].part
                                       /\ mem'[k].status = IF k = m THEN how ELSE mem[k].status
<1>1. mem \in Seq(MemType) /\ DOMAIN mem = 1..Len(mem)
  BY DEF Types
<1>2. mem' = [mem EXCEPT ![m] = [mem[m] EXCEPT !.status = how]]
  BY DEF Forget
<1>3. \A k \in 1..Len(mem) : mem[k] \in MemType
  BY <1>1
<1>4. \A k \in 1..Len(mem) : mem'[k] = IF k = m THEN [mem[m] EXCEPT !.status = how] ELSE mem[k]
  BY <1>1, <1>2
<1>5. Len(mem') = Len(mem) /\ DOMAIN mem' = DOMAIN mem
  BY <1>1, <1>2
<1> QED BY <1>1, <1>3, <1>4, <1>5 DEF MemType

\* Archiving and erasing: the same memories, with the same parts, and none active
\* that was not.
Fewer ==
    /\ Len(mem') = Len(mem)
    /\ \A m \in 1..Len(mem) :
          mem'[m].part = mem[m].part /\ (mem'[m].status = "active" => mem[m].status = "active")

\* No archiving and no erasure makes a memory active.
LEMMA ArchivesFewer ==
    ASSUME Types,
           \/ \E x \in Indexer : UpsertFile(x) \/ ArchiveUnlinked(x)
           \/ ArchiveMissingSources
           \/ MergeNext
           \/ \E m \in DOMAIN mem, how \in {"deleted", "gone"} : Forget(m, how)
    PROVE  Fewer
<1>1. CASE \E ids : mem' = Archive(ids)
  BY <1>1, ArchiveType DEF Types, Fewer, Active
<1>2. CASE mem' = mem
  BY <1>2 DEF Fewer
<1>3. ASSUME NEW m \in DOMAIN mem, NEW how \in {"deleted", "gone"}, Forget(m, how)
      PROVE  Fewer
  BY <1>3, ForgetStatus DEF Fewer
<1>4. CASE MergeNext
  <2>1. PICK m \in merging :
          mem' = IF mem[m].status = "gone" THEN mem ELSE [mem EXCEPT ![m].status = "archived"]
    BY <1>4 DEF MergeNext
  <2> QED BY <2>1, MergeStatus DEF Fewer
<1> QED BY <1>1, <1>2, <1>3, <1>4 DEF UpsertFile, ArchiveUnlinked, ArchiveMissingSources

-----------------------------------------------------------------------------
(* Each part of what a run keeps: its own steps first, then those of others.  *)

\* What x has visited stays indexed: it is out of todo, and only missing rows
\* lose their code.
LEMMA RunVisiting ==
    ASSUME Types, Types', NEW x \in Indexer, Visits(x),
           Start(x) \/ IndexFile(x) \/ EndRun(x) \/ Crash(x)
    PROVE  Visits(x)'
<1>1. /\ run[x] \in RunType(Len(mem)) /\ RunKnows(run[x])
      /\ run \in [Indexer -> RunType(Len(mem))]
      /\ Len(mem) \in Nat /\ DOMAIN mem = 1..Len(mem)
  BY DEF Types
<1>2. CASE Start(x)
  BY <1>1, <1>2 DEF Start, Visits, RunType, RunKnows, Handling, Writing, Null, At, Goto, Return,
        FileDone, Idle, tables, ActiveRow, ChunksOf
<1>3. ASSUME NEW f \in File, ReadFile(x, f)
      PROVE  Visits(x)'
  <2>1. ReadsFile(x, f)
    BY <1>3, ReadFileEffect
  <2> QED BY <1>1, <2>1 DEF ReadsFile, Visits, RunType, RunKnows, Handling, Writing, Null,
        ActiveRow, ChunksOf
<1>4. ASSUME NEW f \in File, ReadFails(x, f)
      PROVE  Visits(x)'
  BY <1>1, <1>4 DEF ReadFails, Visits, RunType, RunKnows, Handling, Writing, Null, At, Goto,
        Return, FileDone, Idle, tables, ActiveRow, ChunksOf
<1>5. CASE PeekRow(x)
  <2>2. /\ run'[x].done = run[x].done /\ run'[x].todo = run[x].todo
        /\ run'[x].file = run[x].file /\ run'[x].pc = "upsert"
        /\ run'[x].chunked = (ChunksOf(run[x].file) # {})
    BY <1>1, <1>5 DEF PeekRow, RunType
  <2> QED BY <1>1, <1>5, <2>2 DEF Visits, PeekRow, At, Handling, Writing, tables, ActiveRow,
        ChunksOf
<1>6. CASE UpsertFile(x)
  <2>2. /\ run[x].pc = "upsert" /\ run[x].file \in File /\ run[x].version \in Version
        /\ Parts[run[x].version] # <<>>
    BY <1>1, <1>6 DEF UpsertFile, At, RunKnows, Handling
  <2>3. /\ run'[x].done = run[x].done /\ run'[x].todo = run[x].todo
        /\ run'[x].file = run[x].file /\ run'[x].version = run[x].version
        /\ run'[x].pc = "code"
        /\ run'[x].rest = IF SameDigest(x) /\ run[x].chunked /\ ~NeedsRefresh(run[x].file)
                          THEN <<>> ELSE Parts[run[x].version]
    BY <1>1, <1>6 DEF UpsertFile, RunType
  <2>4. run'[x].rest = <<>> => ChunksOf(run[x].file)' # {}
    BY <1>6, <2>2, <2>3 DEF UpsertFile, Visits, ChunksOf
  <2>5. /\ \A f \in File \ {run[x].file} : ChunksOf(f)' = ChunksOf(f) /\ files'[f] = files[f]
        /\ files'[run[x].file] = [version |-> run[x].version, status |-> "active"]
        /\ code' = code
    BY <1>6, <2>2 DEF UpsertFile, ChunksOf, Types
  <2>6. run[x].done \subseteq File \ {run[x].file}
    BY <1>1, <2>2 DEF Visits, Handling, RunType
  <2> QED BY <2>2, <2>3, <2>4, <2>5, <2>6 DEF Visits, Handling, Writing, ActiveRow
<1>7. CASE UpsertFails(x)
  BY <1>1, <1>7 DEF UpsertFails, Visits, RunType, RunKnows, Handling, Writing, Null, At, Goto,
        Return, FileDone, Idle, tables, ActiveRow, ChunksOf
<1>8. CASE ReplaceCode(x)
  <2>2. ReplacesCode(x)
    BY <1>8, ReplaceCodeEffect
  <2>3. /\ run[x].file \notin run[x].done \cup run[x].todo
        /\ files[run[x].file] = [version |-> run[x].version, status |-> "active"]
        /\ run[x].rest = <<>> => ChunksOf(run[x].file) # {}
    BY <2>2 DEF ReplacesCode, Visits, Handling, Writing
  <2>4. /\ \A f \in File : code'[f] = IF f = run[x].file THEN run[x].version ELSE code[f]
        /\ run[x].done \subseteq File /\ files' = files /\ chunks' = chunks
    BY <1>1, <2>2 DEF ReplacesCode, Types, RunType
  <2> QED BY <2>2, <2>3, <2>4 DEF ReplacesCode, Visits, Handling, Writing, ActiveRow, ChunksOf
<1>9. CASE FindDuplicate(x)
  <2>1. FindsDuplicate(x)
    BY <1>9, FindDuplicateEffect
  <2> QED BY <1>1, <2>1 DEF FindsDuplicate, Visits, RunType, RunKnows, Handling, Writing, Null,
        ActiveRow, ChunksOf
<1>10. CASE InsertPart(x)
  BY <1>1, <1>10 DEF InsertPart, Visits, RunType, RunKnows, Handling, Writing, Null, At, Goto,
        Return, FileDone, Idle, tables, ActiveRow, ChunksOf
<1>11. CASE LinkChunk(x)
  <2>2. LinksChunk(x)
    BY <1>11, LinkChunkEffect
  <2>3. /\ run[x].file \notin run[x].done \cup run[x].todo
        /\ files[run[x].file] = [version |-> run[x].version, status |-> "active"]
        /\ code[run[x].file] = run[x].version
    BY <2>2 DEF LinksChunk, Visits, Handling, Writing
  <2> PICK c : c = [file |-> run[x].file, part |-> Head(run[x].rest), mem |-> run[x].got]
    OBVIOUS
  <2>7. chunks' = chunks \cup {c} /\ c.file = run[x].file /\ run'[x].file = run[x].file
    BY <2>2 DEF LinksChunk
  <2>4. /\ run[x].done \subseteq File /\ files' = files /\ code' = code
        /\ \A f \in File : ChunksOf(f) \subseteq ChunksOf(f)'
        /\ ChunksOf(run[x].file)' # {}
    BY <1>1, <2>2, <2>7 DEF LinksChunk, RunType, ChunksOf
  <2>5. CASE run'[x].pc = "scan"
    BY <2>2, <2>3, <2>4, <2>5 DEF LinksChunk, Visits, Handling, Writing, ActiveRow
  <2>6. CASE run'[x].pc = "find"
    BY <2>2, <2>3, <2>4, <2>6 DEF LinksChunk, Visits, Handling, Writing, ActiveRow
  <2> QED BY <2>2, <2>5, <2>6 DEF LinksChunk
<1>12. CASE LinkFails(x)
  BY <1>1, <1>12 DEF LinkFails, Visits, RunType, RunKnows, Handling, Writing, Null, At, Goto,
        Return, FileDone, Idle, tables, ActiveRow, ChunksOf
<1>13. CASE MarkMissing(x)
  BY <1>1, <1>13 DEF MarkMissing, Visits, RunType, RunKnows, Handling, Writing, Null, At, Goto,
        Return, FileDone, Idle, tables, ActiveRow, ChunksOf
<1>14. CASE ReadMissing(x)
  <2>2. /\ run'[x].done = run[x].done /\ run'[x].todo = run[x].todo
        /\ run'[x].pc = "clear"
        /\ run'[x].stale = {f \in File : files[f].status = "missing"}
    BY <1>1, <1>14 DEF ReadMissing, RunType
  <2> QED BY <1>1, <1>14, <2>2 DEF Visits, ReadMissing, At, Handling, Writing, tables,
        ActiveRow, ChunksOf
<1>15. CASE ClearCode(x)
  BY <1>1, <1>15 DEF ClearCode, Visits, RunType, RunKnows, Handling, Writing, Null, At, Goto,
        Return, FileDone, Idle, tables, ActiveRow, ChunksOf
<1>16. CASE ReadUnlinked(x)
  <2>2. /\ run'[x].done = run[x].done /\ run'[x].todo = run[x].todo
        /\ run'[x].pc = "archive"
    BY <1>1, <1>16 DEF ReadUnlinked, RunType
  <2> QED BY <1>1, <1>16, <2>2 DEF Visits, ReadUnlinked, At, Handling, Writing, tables,
        ActiveRow, ChunksOf
<1>17. CASE ArchiveUnlinked(x)
  BY <1>1, <1>17 DEF ArchiveUnlinked, Visits, RunType, RunKnows, Handling, Writing, Null, At,
        Goto, Return, FileDone, Idle, tables, ActiveRow, ChunksOf
<1>18. CASE Crash(x)
  BY <1>1, <1>18 DEF Crash, Visits, RunType, RunKnows, Handling, Writing, Null, At, Goto,
        Return, FileDone, Idle, tables, ActiveRow, ChunksOf
<1> QED BY <1>2, <1>3, <1>4, <1>5, <1>6, <1>7, <1>8, <1>9, <1>10, <1>11, <1>12, <1>13, <1>14,
      <1>15, <1>16, <1>17, <1>18 DEF IndexFile, EndRun

\* Edits, erasures and consolidations keep what the run has indexed.
LEMMA OthersVisiting ==
    ASSUME Types, Types', NEW x \in Indexer, Visits(x)
    PROVE  /\ \A f \in File, v \in Version \cup {Absent} : Edit(f, v) => Visits(x)'
           /\ \A m \in DOMAIN mem, how \in {"deleted", "gone"} : Forget(m, how) => Visits(x)'
           /\ ReadMissingSources \/ ArchiveMissingSources \/ ListDuplicates \/ MergeNext => Visits(x)'
           /\ UNCHANGED vars => Visits(x)'
<1>1. /\ run[x] \in RunType(Len(mem)) /\ RunKnows(run[x])
      /\ run \in [Indexer -> RunType(Len(mem))]
      /\ Len(mem) \in Nat /\ DOMAIN mem = 1..Len(mem)
  BY DEF Types
<1>2. ASSUME NEW f \in File, NEW v \in Version \cup {Absent}, Edit(f, v)
      PROVE  Visits(x)'
  BY <1>1, <1>2 DEF Edit, Visits, RunType, RunKnows, Handling, Writing, Null, At, Goto, Return,
        FileDone, Idle, tables, ActiveRow, ChunksOf
<1>3. ASSUME NEW m \in DOMAIN mem, NEW how \in {"deleted", "gone"}, Forget(m, how)
      PROVE  Visits(x)'
  <2>2. \A f \in File : (ChunksOf(f)' = {}) = (ChunksOf(f) = {})
    BY <1>3, ForgetKeepsFiles DEF ChunksOf
  <2>3. run' = run /\ files' = files /\ code' = code
    BY <1>3 DEF Forget
  <2> QED BY <1>1, <2>2, <2>3 DEF Visits, Handling, Writing, ActiveRow, RunType, RunKnows
<1>4. ASSUME ReadMissingSources
      PROVE  Visits(x)'
  BY <1>1, <1>4 DEF ReadMissingSources, Visits, RunType, RunKnows, Handling, Writing, Null, At,
        Goto, Return, FileDone, Idle, tables, ActiveRow, ChunksOf
<1>5. ASSUME ArchiveMissingSources
      PROVE  Visits(x)'
  BY <1>1, <1>5 DEF ArchiveMissingSources, Visits, RunType, RunKnows, Handling, Writing, Null,
        At, Goto, Return, FileDone, Idle, tables, ActiveRow, ChunksOf
<1>6. CASE UNCHANGED vars
  BY <1>6 DEF vars, tables, Visits, RunType, RunKnows, Handling, Writing, Null, At, Goto,
        Return, FileDone, Idle, tables, ActiveRow, ChunksOf
<1>7. ASSUME ListDuplicates
      PROVE  Visits(x)'
  BY <1>1, <1>7 DEF ListDuplicates, Visits, RunType, RunKnows, Handling, Writing, Null, At,
        Goto, Return, FileDone, Idle, tables, ActiveRow, ChunksOf
<1>8. ASSUME MergeNext
      PROVE  Visits(x)'
  BY <1>1, <1>8 DEF MergeNext, Visits, RunType, RunKnows, Handling, Writing, Null, At, Goto,
        Return, FileDone, Idle, tables, ActiveRow, ChunksOf
<1> QED BY <1>2, <1>3, <1>4, <1>5, <1>6, <1>7, <1>8

\* No text becomes active a second time: x looked for it before it inserts.
LEMMA RunTexts ==
    ASSUME Types, Types', NEW x \in Indexer, TextsAreActiveOnce, Inserts(x),
           Start(x) \/ IndexFile(x) \/ EndRun(x) \/ Crash(x)
    PROVE  TextsAreActiveOnce' /\ Inserts(x)'
<1>1. /\ run[x] \in RunType(Len(mem)) /\ RunKnows(run[x])
      /\ run \in [Indexer -> RunType(Len(mem))]
      /\ Len(mem) \in Nat /\ DOMAIN mem = 1..Len(mem)
  BY DEF Types
<1>2. CASE Start(x)
  BY <1>1, <1>2 DEF Start, TextsAreActiveOnce, Inserts, SameText, RunType, RunKnows, Handling,
        Null, At, Goto, Return, FileDone, Idle, tables, Active
<1>3. ASSUME NEW f \in File, ReadFile(x, f)
      PROVE  TextsAreActiveOnce' /\ Inserts(x)'
  <2>1. ReadsFile(x, f)
    BY <1>3, ReadFileEffect
  <2> QED BY <1>1, <2>1 DEF ReadsFile, TextsAreActiveOnce, Inserts, RunType, RunKnows, Handling,
        Null, At, Active
<1>4. ASSUME NEW f \in File, ReadFails(x, f)
      PROVE  TextsAreActiveOnce' /\ Inserts(x)'
  BY <1>1, <1>4 DEF ReadFails, TextsAreActiveOnce, Inserts, SameText, RunType, RunKnows,
        Handling, Null, At, Goto, Return, FileDone, Idle, tables, Active
<1>5. CASE PeekRow(x)
  BY <1>1, <1>5 DEF PeekRow, TextsAreActiveOnce, Inserts, SameText, RunType, RunKnows, Handling,
        Null, At, Goto, Return, FileDone, Idle, tables, Active
<1>6. CASE UpsertFile(x)
  <2>2. Fewer
    BY <1>6, ArchivesFewer
  <2>3. run'[x].pc = "code"
    BY <1>1, <1>6 DEF UpsertFile, RunType, Return, Idle
  <2>4. DOMAIN mem = 1..Len(mem) /\ DOMAIN mem' = 1..Len(mem)
    BY <2>2 DEF Types, Fewer
  <2> QED BY <1>1, <2>2, <2>3, <2>4 DEF TextsAreActiveOnce, Inserts, Fewer, Active, At
<1>7. CASE UpsertFails(x)
  BY <1>1, <1>7 DEF UpsertFails, TextsAreActiveOnce, Inserts, SameText, RunType, RunKnows,
        Handling, Null, At, Goto, Return, FileDone, Idle, tables, Active
<1>8. CASE ReplaceCode(x)
  <2>1. ReplacesCode(x)
    BY <1>8, ReplaceCodeEffect
  <2> QED BY <1>1, <2>1 DEF ReplacesCode, TextsAreActiveOnce, Inserts, RunType, RunKnows,
        Handling, Null, At, Active
<1>9. CASE FindDuplicate(x)
  <2>2. FindsDuplicate(x)
    BY <1>9, FindDuplicateEffect
  <2>3. TextsAreActiveOnce'
    BY <2>2 DEF FindsDuplicate, TextsAreActiveOnce, Active
  <2>4. Inserts(x)'
    BY <2>2 DEF FindsDuplicate, Inserts, At, SameText, Active
  <2> QED BY <2>3, <2>4
<1>10. CASE InsertPart(x)
  BY <1>1, <1>10 DEF InsertPart, TextsAreActiveOnce, Inserts, SameText, RunType, RunKnows,
        Handling, Null, At, Goto, Return, FileDone, Idle, tables, Active
<1>11. CASE LinkChunk(x)
  <2>1. LinksChunk(x)
    BY <1>11, LinkChunkEffect
  <2> QED BY <1>1, <2>1 DEF LinksChunk, TextsAreActiveOnce, Inserts, RunType, RunKnows,
        Handling, Null, At, Active
<1>12. CASE LinkFails(x)
  BY <1>1, <1>12 DEF LinkFails, TextsAreActiveOnce, Inserts, SameText, RunType, RunKnows,
        Handling, Null, At, Goto, Return, FileDone, Idle, tables, Active
<1>13. CASE MarkMissing(x)
  BY <1>1, <1>13 DEF MarkMissing, TextsAreActiveOnce, Inserts, SameText, RunType, RunKnows,
        Handling, Null, At, Goto, Return, FileDone, Idle, tables, Active
<1>14. CASE ReadMissing(x)
  BY <1>1, <1>14 DEF ReadMissing, TextsAreActiveOnce, Inserts, SameText, RunType, RunKnows,
        Handling, Null, At, Goto, Return, FileDone, Idle, tables, Active
<1>15. CASE ClearCode(x)
  BY <1>1, <1>15 DEF ClearCode, TextsAreActiveOnce, Inserts, SameText, RunType, RunKnows,
        Handling, Null, At, Goto, Return, FileDone, Idle, tables, Active
<1>16. CASE ReadUnlinked(x)
  BY <1>1, <1>16 DEF ReadUnlinked, TextsAreActiveOnce, Inserts, SameText, RunType, RunKnows,
        Handling, Null, At, Goto, Return, FileDone, Idle, tables, Active
<1>17. CASE ArchiveUnlinked(x)
  <2>2. Fewer
    BY <1>17, ArchivesFewer
  <2>3. run'[x].pc = "idle"
    BY <1>1, <1>17 DEF ArchiveUnlinked, RunType, Return, Idle
  <2>4. DOMAIN mem = 1..Len(mem) /\ DOMAIN mem' = 1..Len(mem)
    BY <2>2 DEF Types, Fewer
  <2> QED BY <1>1, <2>2, <2>3, <2>4 DEF TextsAreActiveOnce, Inserts, Fewer, Active, At
<1>18. CASE Crash(x)
  BY <1>1, <1>18 DEF Crash, TextsAreActiveOnce, Inserts, SameText, RunType, RunKnows, Handling,
        Null, At, Goto, Return, FileDone, Idle, tables, Active
<1> QED BY <1>2, <1>3, <1>4, <1>5, <1>6, <1>7, <1>8, <1>9, <1>10, <1>11, <1>12, <1>13, <1>14,
      <1>15, <1>16, <1>17, <1>18 DEF IndexFile, EndRun

\* ... that no text is active twice, or about to be,
LEMMA OthersTexts ==
    ASSUME Types, Types', NEW x \in Indexer, TextsAreActiveOnce, Inserts(x)
    PROVE  /\ \A f \in File, v \in Version \cup {Absent} : Edit(f, v) => TextsAreActiveOnce' /\ Inserts(x)'
           /\ \A m \in DOMAIN mem, how \in {"deleted", "gone"} : Forget(m, how) => TextsAreActiveOnce' /\ Inserts(x)'
           /\ ReadMissingSources \/ ArchiveMissingSources \/ ListDuplicates \/ MergeNext => TextsAreActiveOnce' /\ Inserts(x)'
           /\ UNCHANGED vars => TextsAreActiveOnce' /\ Inserts(x)'
<1>1. /\ run[x] \in RunType(Len(mem)) /\ RunKnows(run[x])
      /\ run \in [Indexer -> RunType(Len(mem))]
      /\ Len(mem) \in Nat /\ DOMAIN mem = 1..Len(mem)
  BY DEF Types
<1>2. ASSUME NEW f \in File, NEW v \in Version \cup {Absent}, Edit(f, v)
      PROVE  TextsAreActiveOnce' /\ Inserts(x)'
  BY <1>1, <1>2 DEF Edit, TextsAreActiveOnce, Inserts, SameText, RunType, RunKnows, Handling,
        Null, At, Goto, Return, FileDone, Idle, tables, Active
<1>3. ASSUME NEW m \in DOMAIN mem, NEW how \in {"deleted", "gone"}, Forget(m, how)
      PROVE  TextsAreActiveOnce' /\ Inserts(x)'
  <2>2. Fewer
    BY <1>3, ArchivesFewer
  <2>3. run' = run
    BY <1>3 DEF Forget
  <2>4. DOMAIN mem = 1..Len(mem) /\ DOMAIN mem' = 1..Len(mem)
    BY <2>2 DEF Types, Fewer
  <2> QED BY <2>2, <2>3, <2>4 DEF TextsAreActiveOnce, Inserts, Fewer, Active, At, SameText
<1>4. ASSUME ReadMissingSources
      PROVE  TextsAreActiveOnce' /\ Inserts(x)'
  BY <1>1, <1>4 DEF ReadMissingSources, TextsAreActiveOnce, Inserts, SameText, RunType,
        RunKnows, Handling, Null, At, Goto, Return, FileDone, Idle, tables, Active
<1>5. ASSUME ArchiveMissingSources
      PROVE  TextsAreActiveOnce' /\ Inserts(x)'
  <2>2. Fewer
    BY <1>5, ArchivesFewer
  <2>3. run' = run
    BY <1>5 DEF ArchiveMissingSources
  <2>4. DOMAIN mem = 1..Len(mem) /\ DOMAIN mem' = 1..Len(mem)
    BY <2>2 DEF Types, Fewer
  <2> QED BY <2>2, <2>3, <2>4 DEF TextsAreActiveOnce, Inserts, Fewer, Active, At, SameText
<1>6. CASE UNCHANGED vars
  BY <1>6 DEF vars, tables, TextsAreActiveOnce, Inserts, SameText, RunType, RunKnows, Handling,
        Null, At, Goto, Return, FileDone, Idle, tables, Active
<1>7. ASSUME ListDuplicates
      PROVE  TextsAreActiveOnce' /\ Inserts(x)'
  BY <1>1, <1>7 DEF ListDuplicates, TextsAreActiveOnce, Inserts, SameText, RunType, RunKnows,
        Handling, Null, At, Goto, Return, FileDone, Idle, tables, Active
<1>8. ASSUME MergeNext
      PROVE  TextsAreActiveOnce' /\ Inserts(x)'
  <2>2. Fewer
    BY <1>8, ArchivesFewer
  <2>3. run' = run
    BY <1>8 DEF MergeNext
  <2>4. DOMAIN mem = 1..Len(mem) /\ DOMAIN mem' = 1..Len(mem)
    BY <2>2 DEF Types, Fewer
  <2> QED BY <2>2, <2>3, <2>4 DEF TextsAreActiveOnce, Inserts, Fewer, Active, At, SameText
<1> QED BY <1>2, <1>3, <1>4, <1>5, <1>6, <1>7, <1>8

\* What is archived was not linked, or goes on the list of leaks.
LEMMA RunLinks ==
    ASSUME Types, Types', NEW x \in Indexer, ArchivedLinkIsALeak, Sweeps(x),
           Start(x) \/ IndexFile(x) \/ EndRun(x) \/ Crash(x)
    PROVE  ArchivedLinkIsALeak' /\ Sweeps(x)'
<1>1. /\ run[x] \in RunType(Len(mem)) /\ RunKnows(run[x])
      /\ run \in [Indexer -> RunType(Len(mem))]
      /\ Len(mem) \in Nat /\ DOMAIN mem = 1..Len(mem)
  BY DEF Types
<1>2. CASE Start(x)
  BY <1>1, <1>2 DEF Start, ArchivedLinkIsALeak, Sweeps, Linked, RunType, RunKnows, Handling,
        Null, At, Goto, Return, FileDone, Idle, tables, Active
<1>3. ASSUME NEW f \in File, ReadFile(x, f)
      PROVE  ArchivedLinkIsALeak' /\ Sweeps(x)'
  <2>1. ReadsFile(x, f)
    BY <1>3, ReadFileEffect
  <2> QED BY <1>1, <2>1 DEF ReadsFile, ArchivedLinkIsALeak, Sweeps, Linked, RunType, RunKnows,
        Handling, Null, Active
<1>4. ASSUME NEW f \in File, ReadFails(x, f)
      PROVE  ArchivedLinkIsALeak' /\ Sweeps(x)'
  BY <1>1, <1>4 DEF ReadFails, ArchivedLinkIsALeak, Sweeps, Linked, RunType, RunKnows, Handling,
        Null, At, Goto, Return, FileDone, Idle, tables, Active
<1>5. CASE PeekRow(x)
  BY <1>1, <1>5 DEF PeekRow, ArchivedLinkIsALeak, Sweeps, Linked, RunType, RunKnows, Handling,
        Null, At, Goto, Return, FileDone, Idle, tables, Active
<1>6. CASE UpsertFile(x)
  <2> DEFINE old == {c.mem : c \in ChunksOf(run[x].file)} \ {Null}
  <2>2. ASSUME NEW c \in chunks', c.mem # Null, mem'[c.mem].status = "archived"
        PROVE  c.mem \in lost'
    <3>1. c \in chunks /\ c.mem \in 1..Len(mem)
      BY <1>6, <2>2 DEF UpsertFile, Types, ChunkType, Null
    <3>2. CASE mem[c.mem].status = "archived"
      BY <1>6, <2>2, <3>1, <3>2 DEF UpsertFile, ArchivedLinkIsALeak
    <3>3. CASE mem[c.mem].status # "archived"
      <4>1. mem' # mem
        BY <2>2, <3>3
      <4>2. /\ mem' = Archive(old)
            /\ chunks' = chunks \ ChunksOf(run[x].file)
            /\ lost' = lost \cup {m \in old : \E d \in chunks : d.mem = m /\ d.file # run[x].file}
        BY <1>6, <4>1 DEF UpsertFile
      <4>3. c.mem \in old
        BY <2>2, <3>1, <3>3, <4>2, ArchiveType DEF Types
      <4>4. c.file # run[x].file
        BY <2>2, <4>2 DEF ChunksOf
      <4> QED BY <3>1, <4>2, <4>3, <4>4
    <3> QED BY <3>2, <3>3
  <2>3. run'[x].pc = "code"
    BY <1>1, <1>6 DEF UpsertFile, RunType
  <2> QED BY <2>2, <2>3 DEF ArchivedLinkIsALeak, Sweeps
<1>7. CASE UpsertFails(x)
  BY <1>1, <1>7 DEF UpsertFails, ArchivedLinkIsALeak, Sweeps, Linked, RunType, RunKnows,
        Handling, Null, At, Goto, Return, FileDone, Idle, tables, Active
<1>8. CASE ReplaceCode(x)
  <2>1. ReplacesCode(x)
    BY <1>8, ReplaceCodeEffect
  <2> QED BY <1>1, <2>1 DEF ReplacesCode, ArchivedLinkIsALeak, Sweeps, Linked, RunType,
        RunKnows, Handling, Null, Active
<1>9. CASE FindDuplicate(x)
  <2>1. FindsDuplicate(x)
    BY <1>9, FindDuplicateEffect
  <2> QED BY <1>1, <2>1 DEF FindsDuplicate, ArchivedLinkIsALeak, Sweeps, Linked, RunType,
        RunKnows, Handling, Null, Active, SameText, Active
<1>10. CASE InsertPart(x)
  <2>2. /\ \A m \in 1..Len(mem) : mem'[m] = mem[m]
        /\ mem'[Len(mem) + 1].status = "active"
    BY <1>1, <1>10 DEF InsertPart, Types
  <2>3. run'[x].pc = "link" /\ run'[x].got = Len(mem) + 1
    BY <1>1, <1>10 DEF InsertPart, RunType
  <2>4. \A c \in chunks : c.mem # Null => c.mem \in 1..Len(mem)
    BY DEF Types, ChunkType
  <2> QED BY <1>10, <2>2, <2>3, <2>4 DEF InsertPart, ArchivedLinkIsALeak, Sweeps
<1>11. CASE LinkChunk(x)
  <2>1. LinksChunk(x)
    BY <1>11, LinkChunkEffect
  <2> QED BY <1>1, <2>1 DEF LinksChunk, ArchivedLinkIsALeak, Sweeps, Linked, RunType, RunKnows,
        Handling, Null, Active
<1>12. CASE LinkFails(x)
  BY <1>1, <1>12 DEF LinkFails, ArchivedLinkIsALeak, Sweeps, Linked, RunType, RunKnows,
        Handling, Null, At, Goto, Return, FileDone, Idle, tables, Active
<1>13. CASE MarkMissing(x)
  BY <1>1, <1>13 DEF MarkMissing, ArchivedLinkIsALeak, Sweeps, Linked, RunType, RunKnows,
        Handling, Null, At, Goto, Return, FileDone, Idle, tables, Active
<1>14. CASE ReadMissing(x)
  BY <1>1, <1>14 DEF ReadMissing, ArchivedLinkIsALeak, Sweeps, Linked, RunType, RunKnows,
        Handling, Null, At, Goto, Return, FileDone, Idle, tables, Active
<1>15. CASE ClearCode(x)
  BY <1>1, <1>15 DEF ClearCode, ArchivedLinkIsALeak, Sweeps, Linked, RunType, RunKnows,
        Handling, Null, At, Goto, Return, FileDone, Idle, tables, Active
<1>16. CASE ReadUnlinked(x)
  BY <1>1, <1>16 DEF ReadUnlinked, ArchivedLinkIsALeak, Sweeps, Linked, RunType, RunKnows,
        Handling, Null, At, Goto, Return, FileDone, Idle, tables, Active
<1>17. CASE ArchiveUnlinked(x)
  <2>2. ASSUME NEW c \in chunks', c.mem # Null, mem'[c.mem].status = "archived"
        PROVE  c.mem \in lost'
    <3>1. c \in chunks /\ c.mem \in 1..Len(mem)
      BY <1>17, <2>2 DEF ArchiveUnlinked, Types, ChunkType, Null
    <3>2. c.mem \notin run[x].unlinked
      BY <1>17, <3>1 DEF ArchiveUnlinked, At, Sweeps, Linked
    <3>3. mem[c.mem].status = "archived"
      BY <1>17, <2>2, <3>1, <3>2, ArchiveType DEF ArchiveUnlinked, Types
    <3> QED BY <1>17, <2>2, <3>1, <3>3 DEF ArchiveUnlinked, ArchivedLinkIsALeak
  <2>3. run'[x].pc = "idle"
    BY <1>1, <1>17 DEF ArchiveUnlinked, Return, Idle
  <2> QED BY <2>2, <2>3 DEF ArchivedLinkIsALeak, Sweeps
<1>18. CASE Crash(x)
  BY <1>1, <1>18 DEF Crash, ArchivedLinkIsALeak, Sweeps, Linked, RunType, RunKnows, Handling,
        Null, At, Goto, Return, FileDone, Idle, tables, Active
<1> QED BY <1>2, <1>3, <1>4, <1>5, <1>6, <1>7, <1>8, <1>9, <1>10, <1>11, <1>12, <1>13, <1>14,
      <1>15, <1>16, <1>17, <1>18 DEF IndexFile, EndRun

\* ... that links to archived memories come from the known leaks,
LEMMA OthersLinks ==
    ASSUME Types, Types', NEW x \in Indexer, ArchivedLinkIsALeak, Sweeps(x)
    PROVE  /\ \A f \in File, v \in Version \cup {Absent} : Edit(f, v) => ArchivedLinkIsALeak' /\ Sweeps(x)'
           /\ \A m \in DOMAIN mem, how \in {"deleted", "gone"} : Forget(m, how) => ArchivedLinkIsALeak' /\ Sweeps(x)'
           /\ ReadMissingSources \/ ArchiveMissingSources \/ ListDuplicates \/ MergeNext => ArchivedLinkIsALeak' /\ Sweeps(x)'
           /\ UNCHANGED vars => ArchivedLinkIsALeak' /\ Sweeps(x)'
<1>1. /\ run[x] \in RunType(Len(mem)) /\ RunKnows(run[x])
      /\ run \in [Indexer -> RunType(Len(mem))]
      /\ Len(mem) \in Nat /\ DOMAIN mem = 1..Len(mem)
  BY DEF Types
<1>2. ASSUME NEW f \in File, NEW v \in Version \cup {Absent}, Edit(f, v)
      PROVE  ArchivedLinkIsALeak' /\ Sweeps(x)'
  BY <1>1, <1>2 DEF Edit, ArchivedLinkIsALeak, Sweeps, Linked, RunType, RunKnows, Handling,
        Null, At, Goto, Return, FileDone, Idle, tables, Active
<1>3. ASSUME NEW m \in DOMAIN mem, NEW how \in {"deleted", "gone"}, Forget(m, how)
      PROVE  ArchivedLinkIsALeak' /\ Sweeps(x)'
  <2>2. /\ run' = run /\ lost' = lost
        /\ DOMAIN mem' = DOMAIN mem
        /\ \A k \in 1..Len(mem) : mem'[k].status = IF k = m THEN how ELSE mem[k].status
    BY <1>1, <1>3, ForgetStatus DEF Forget
  <2>3. \A c \in chunks' : c.mem # Null => \E d \in chunks : d.mem = c.mem
    BY <1>3, ForgetKeepsFiles
  <2>4. \A k \in 1..Len(mem) : k # m => Linked(k)' = Linked(k)
    BY <1>3, ForgetKeepsFiles DEF Linked, Null
  <2>5. \A c \in chunks' : c.mem # Null => c.mem \in 1..Len(mem)
    BY <2>2 DEF Types, ChunkType
  <2>6. ArchivedLinkIsALeak'
    BY <2>2, <2>3, <2>5 DEF ArchivedLinkIsALeak
  <2>7. \A k \in 1..Len(mem) : Linked(k)' => Linked(k)
    BY <2>3 DEF Linked, Null
  <2>8. \A k \in 1..Len(mem) : Active(k)' => Active(k) /\ k # m
    BY <2>2 DEF Active
  <2>9. Sweeps(x)'
    BY <1>1, <2>2, <2>4, <2>7, <2>8 DEF Sweeps, RunType, RunKnows, Null
  <2> QED BY <2>6, <2>9
<1>4. ASSUME ReadMissingSources
      PROVE  ArchivedLinkIsALeak' /\ Sweeps(x)'
  BY <1>1, <1>4 DEF ReadMissingSources, ArchivedLinkIsALeak, Sweeps, Linked, RunType, RunKnows,
        Handling, Null, At, Goto, Return, FileDone, Idle, tables, Active
<1>5. ASSUME ArchiveMissingSources
      PROVE  ArchivedLinkIsALeak' /\ Sweeps(x)'
  <2>2. /\ run' = run /\ chunks' = chunks /\ lost' = lost \cup doomed /\ DOMAIN mem' = DOMAIN mem
        /\ \A m \in 1..Len(mem) : /\ mem'[m].status = "archived" => mem[m].status = "archived" \/ m \in doomed
                                  /\ mem'[m].status = "active" => mem[m].status = "active"
    BY <1>5, ArchiveType DEF ArchiveMissingSources, Types
  <2>3. \A c \in chunks : c.mem # Null => c.mem \in 1..Len(mem)
    BY DEF Types, ChunkType
  <2>4. ArchivedLinkIsALeak'
    BY <2>2, <2>3 DEF ArchivedLinkIsALeak
  <2>5. Sweeps(x)'
    BY <1>1, <2>2 DEF Sweeps, Linked, Active, RunType, RunKnows, Null
  <2> QED BY <2>4, <2>5
<1>6. CASE UNCHANGED vars
  BY <1>6 DEF vars, tables, ArchivedLinkIsALeak, Sweeps, Linked, RunType, RunKnows, Handling,
        Null, At, Goto, Return, FileDone, Idle, tables, Active
<1>7. ASSUME ListDuplicates
      PROVE  ArchivedLinkIsALeak' /\ Sweeps(x)'
  BY <1>1, <1>7 DEF ListDuplicates, ArchivedLinkIsALeak, Sweeps, Linked, RunType, RunKnows,
        Handling, Null, At, Goto, Return, FileDone, Idle, tables, Active
<1>8. ASSUME MergeNext
      PROVE  ArchivedLinkIsALeak' /\ Sweeps(x)'
  <2>1. PICK k \in merging :
          /\ mem' = IF mem[k].status = "gone" THEN mem ELSE [mem EXCEPT ![k].status = "archived"]
          /\ lost' = lost \cup {k}
    BY <1>8 DEF MergeNext
  <2>2. /\ run' = run /\ chunks' = chunks /\ DOMAIN mem' = DOMAIN mem
        /\ \A m \in 1..Len(mem) : /\ mem'[m].status = "archived" => mem[m].status = "archived" \/ m = k
                                  /\ mem'[m].status = "active" => mem[m].status = "active"
    <3>1. \A m \in 1..Len(mem) :
            mem'[m].status = IF m = k /\ mem[k].status # "gone" THEN "archived" ELSE mem[m].status
      BY <2>1, MergeStatus
    <3>2. DOMAIN mem' = DOMAIN mem
      BY <2>1, MergeStatus
    <3> QED BY <1>8, <3>1, <3>2 DEF MergeNext
  <2>3. \A c \in chunks : c.mem # Null => c.mem \in 1..Len(mem)
    BY DEF Types, ChunkType
  <2>4. ArchivedLinkIsALeak'
    BY <2>1, <2>2, <2>3 DEF ArchivedLinkIsALeak
  <2>5. Sweeps(x)'
    BY <1>1, <2>1, <2>2 DEF Sweeps, Linked, Active, RunType, RunKnows, Null
  <2> QED BY <2>4, <2>5
<1> QED BY <1>2, <1>3, <1>4, <1>5, <1>6, <1>7, <1>8

\* Without deaths, a memory that loses its last chunk is archived with it.
LEMMA RunStranding ==
    ASSUME Types, Types', NEW x \in Indexer, ~MayCrash, ~MayForget, Visits(x), Strands(x),
           Start(x) \/ IndexFile(x) \/ EndRun(x) \/ Crash(x)
    PROVE  Strands(x)'
<1>1. /\ run[x] \in RunType(Len(mem)) /\ RunKnows(run[x])
      /\ run \in [Indexer -> RunType(Len(mem))]
      /\ Len(mem) \in Nat /\ DOMAIN mem = 1..Len(mem)
  BY DEF Types
<1>2. CASE Start(x)
  BY <1>1, <1>2 DEF Start, Strands, Linked, Active, RunType, RunKnows, Handling, Null, At, Goto,
        Return, FileDone, Idle, tables
<1>3. ASSUME NEW f \in File, ReadFile(x, f)
      PROVE  Strands(x)'
  <2>1. ReadsFile(x, f)
    BY <1>3, ReadFileEffect
  <2> QED BY <1>1, <2>1 DEF ReadsFile, Strands, Linked, Active, RunType, RunKnows, Handling, Null
<1>4. ASSUME NEW f \in File, ReadFails(x, f)
      PROVE  Strands(x)'
  BY <1>1, <1>4 DEF ReadFails, Strands, Linked, Active, RunType, RunKnows, Handling, Null, At,
        Goto, Return, FileDone, Idle, tables
<1>5. CASE PeekRow(x)
  BY <1>1, <1>5 DEF PeekRow, Strands, Linked, Active, RunType, RunKnows, Handling, Null, At,
        Goto, Return, FileDone, Idle, tables
<1>6. CASE UpsertFile(x)
  <2> DEFINE f == run[x].file
             old == {c.mem : c \in ChunksOf(f)} \ {Null}
  <2>2. /\ run[x].got = Null /\ run'[x].got = Null
        /\ run[x].chunked = (ChunksOf(f) # {})
    BY <1>1, <1>6 DEF UpsertFile, At, RunType, RunKnows, Visits, Null
  <2>3. \/ mem' = mem /\ chunks' = chunks
        \/ mem' = mem /\ chunks' = chunks \ ChunksOf(f) /\ ~run[x].chunked
        \/ mem' = Archive(old) /\ chunks' = chunks \ ChunksOf(f)
    BY <1>6 DEF UpsertFile
  <2>4. \A m \in DOMAIN mem : mem[m].status # "gone" /\ (Active(m) => Linked(m))
    BY <1>1, <2>2 DEF Strands, Null
  <2>5. CASE mem' = mem /\ chunks' = chunks
    BY <2>2, <2>4, <2>5 DEF Strands, Active, Linked
  <2>6. CASE mem' = mem /\ chunks' = chunks \ ChunksOf(f) /\ ~run[x].chunked
    BY <2>2, <2>4, <2>6 DEF Strands, Active, Linked
  <2>7. CASE mem' = Archive(old) /\ chunks' = chunks \ ChunksOf(f)
    <3>1. /\ DOMAIN mem' = DOMAIN mem
          /\ \A m \in DOMAIN mem : mem'[m].status = IF m \in old /\ Active(m) THEN "archived"
                                                                        ELSE mem[m].status
      <4> HIDE DEF old
      <4>1. mem \in Seq(MemType)
        BY DEF Types
      <4>2. Len(Archive(old)) = Len(mem) /\ Archive(old) \in Seq(MemType)
        BY <4>1, ArchiveType
      <4> QED BY <1>1, <2>7, <4>1, <4>2, ArchiveType
    <3>2. ASSUME NEW m \in DOMAIN mem, mem'[m].status = "active" PROVE Linked(m)'
      <4>1. Active(m) /\ m \notin old
        BY <3>1, <3>2 DEF Active
      <4>2. PICK c \in chunks : c.mem = m
        BY <2>4, <4>1 DEF Linked
      <4>3. c \notin ChunksOf(f)
        BY <1>1, <4>1, <4>2 DEF Null
      <4> QED BY <2>7, <4>2, <4>3 DEF Linked
    <3> QED BY <2>2, <2>4, <3>1, <3>2 DEF Strands, Active
  <2> QED BY <2>3, <2>5, <2>6, <2>7
<1>7. CASE UpsertFails(x)
  BY <1>1, <1>7 DEF UpsertFails, Strands, Linked, Active, RunType, RunKnows, Handling, Null, At,
        Goto, Return, FileDone, Idle, tables
<1>8. CASE ReplaceCode(x)
  <2>1. ReplacesCode(x)
    BY <1>8, ReplaceCodeEffect
  <2> QED BY <1>1, <2>1 DEF ReplacesCode, Strands, Linked, Active, RunType, RunKnows, Handling, Null
<1>9. CASE FindDuplicate(x)
  <2>1. FindsDuplicate(x)
    BY <1>9, FindDuplicateEffect
  <2> QED BY <1>1, <2>1 DEF FindsDuplicate, Strands, Linked, Active, RunType, RunKnows,
        Handling, Null
<1>10. CASE InsertPart(x)
  <2>2. /\ run'[x].got = Len(mem) + 1 /\ run[x].got = Null
        /\ chunks' = chunks /\ DOMAIN mem' = 1..Len(mem) + 1
        /\ \A m \in 1..Len(mem) : mem'[m] = mem[m]
        /\ mem'[Len(mem) + 1].status = "active"
    BY <1>1, <1>10 DEF InsertPart, At, RunType, RunKnows, Types
  <2>3. \A m \in DOMAIN mem : mem[m].status # "gone" /\ (Active(m) => Linked(m))
    BY <1>1, <2>2 DEF Strands, Null
  <2> QED BY <1>1, <2>2, <2>3 DEF Strands, Active, Linked
<1>11. CASE LinkChunk(x)
  <2>2. LinksChunk(x)
    BY <1>11, LinkChunkEffect
  <2>3. \A m \in DOMAIN mem : Linked(m) \/ run[x].got = m => Linked(m)'
    <3> PICK c : c = [file |-> run[x].file, part |-> Head(run[x].rest), mem |-> run[x].got]
      OBVIOUS
    <3>1. chunks' = chunks \cup {c} /\ c.mem = run[x].got
      BY <2>2 DEF LinksChunk
    <3> QED BY <3>1 DEF Linked
  <2>4. mem' = mem
    BY <2>2 DEF LinksChunk
  <2> QED BY <2>3, <2>4 DEF Strands, Active
<1>12. CASE LinkFails(x)
  BY <1>1, <1>12 DEF LinkFails, Strands, Linked, Active, RunType, RunKnows, Handling, Null, At,
        Goto, Return, FileDone, Idle, tables
<1>13. CASE MarkMissing(x)
  BY <1>1, <1>13 DEF MarkMissing, Strands, Linked, Active, RunType, RunKnows, Handling, Null,
        At, Goto, Return, FileDone, Idle, tables
<1>14. CASE ReadMissing(x)
  BY <1>1, <1>14 DEF ReadMissing, Strands, Linked, Active, RunType, RunKnows, Handling, Null,
        At, Goto, Return, FileDone, Idle, tables
<1>15. CASE ClearCode(x)
  BY <1>1, <1>15 DEF ClearCode, Strands, Linked, Active, RunType, RunKnows, Handling, Null, At,
        Goto, Return, FileDone, Idle, tables
<1>16. CASE ReadUnlinked(x)
  BY <1>1, <1>16 DEF ReadUnlinked, Strands, Linked, Active, RunType, RunKnows, Handling, Null,
        At, Goto, Return, FileDone, Idle, tables
<1>17. CASE ArchiveUnlinked(x)
  <2>2. /\ DOMAIN mem' = DOMAIN mem /\ chunks' = chunks
        /\ \A m \in DOMAIN mem : mem'[m].status \in {"archived", mem[m].status}
    BY <1>1, <1>17, ArchiveType DEF ArchiveUnlinked, Types
  <2>3. run[x].got = Null /\ run'[x].got = Null
    BY <1>1, <1>17 DEF ArchiveUnlinked, At, RunType, RunKnows, Return, Idle
  <2> QED BY <1>1, <2>2, <2>3 DEF Strands, Active, Linked, Null
<1>18. CASE Crash(x)
  BY <1>1, <1>18 DEF Crash, Strands, Linked, Active, RunType, RunKnows, Handling, Null, At,
        Goto, Return, FileDone, Idle, tables
<1> QED BY <1>2, <1>3, <1>4, <1>5, <1>6, <1>7, <1>8, <1>9, <1>10, <1>11, <1>12, <1>13, <1>14,
      <1>15, <1>16, <1>17, <1>18 DEF IndexFile, EndRun

\* ... that every active memory is linked or in hands, when nothing is erased,
LEMMA OthersStranding ==
    ASSUME Types, Types', NEW x \in Indexer, ~MayCrash, ~MayForget, Visits(x), Strands(x)
    PROVE  /\ \A f \in File, v \in Version \cup {Absent} : Edit(f, v) => Strands(x)'
           /\ \A m \in DOMAIN mem, how \in {"deleted", "gone"} : Forget(m, how) => Strands(x)'
           /\ ReadMissingSources \/ ArchiveMissingSources \/ ListDuplicates \/ MergeNext => Strands(x)'
           /\ UNCHANGED vars => Strands(x)'
<1>1. /\ run[x] \in RunType(Len(mem)) /\ RunKnows(run[x])
      /\ run \in [Indexer -> RunType(Len(mem))]
      /\ Len(mem) \in Nat /\ DOMAIN mem = 1..Len(mem)
  BY DEF Types
<1>2. ASSUME NEW f \in File, NEW v \in Version \cup {Absent}, Edit(f, v)
      PROVE  Strands(x)'
  BY <1>1, <1>2 DEF Edit, Strands, Linked, Active, RunType, RunKnows, Handling, Null, At, Goto,
        Return, FileDone, Idle, tables
<1>3. ASSUME NEW m \in DOMAIN mem, NEW how \in {"deleted", "gone"}, Forget(m, how)
      PROVE  Strands(x)'
  BY <1>1, <1>3 DEF Forget, Strands, Linked, Active, RunType, RunKnows, Handling, Null, At,
        Goto, Return, FileDone, Idle, tables
<1>4. ASSUME ReadMissingSources
      PROVE  Strands(x)'
  BY <1>1, <1>4 DEF ReadMissingSources, Strands, Linked, Active, RunType, RunKnows, Handling,
        Null, At, Goto, Return, FileDone, Idle, tables
<1>5. ASSUME ArchiveMissingSources
      PROVE  Strands(x)'
  <2>2. /\ DOMAIN mem' = DOMAIN mem /\ chunks' = chunks
        /\ \A m \in DOMAIN mem : mem'[m].status \in {"archived", mem[m].status}
    BY <1>1, <1>5, ArchiveType DEF ArchiveMissingSources, Types
  <2>3. run' = run
    BY <1>5 DEF ArchiveMissingSources
  <2> QED BY <1>1, <2>2, <2>3 DEF Strands, Active, Linked, Null
<1>6. CASE UNCHANGED vars
  BY <1>6 DEF vars, tables, Strands, Linked, Active, RunType, RunKnows, Handling, Null, At,
        Goto, Return, FileDone, Idle, tables
<1>7. ASSUME ListDuplicates
      PROVE  Strands(x)'
  BY <1>1, <1>7 DEF ListDuplicates, Strands, Linked, Active, RunType, RunKnows, Handling, Null,
        At, Goto, Return, FileDone, Idle, tables
<1>8. ASSUME MergeNext
      PROVE  Strands(x)'
  <2>1. PICK k \in merging :
          mem' = IF mem[k].status = "gone" THEN mem ELSE [mem EXCEPT ![k].status = "archived"]
    BY <1>8 DEF MergeNext
  <2>2. /\ DOMAIN mem' = DOMAIN mem /\ chunks' = chunks /\ run' = run
        /\ \A m \in DOMAIN mem : mem'[m].status \in {"archived", mem[m].status}
    BY <1>1, <1>8, <2>1, MergeStatus DEF MergeNext
  <2> QED BY <1>1, <2>2 DEF Strands, Active, Linked, Null
<1> QED BY <1>2, <1>3, <1>4, <1>5, <1>6, <1>7, <1>8

\* Without deaths, the chunks of a row are replaced as a whole.
LEMMA RunChunking ==
    ASSUME Types, Types', NEW x \in Indexer, ~MayCrash, ~MayForget, Visits(x), Strands(x), Chunks(x),
           Start(x) \/ IndexFile(x) \/ EndRun(x) \/ Crash(x)
    PROVE  Chunks(x)'
<1>1. /\ run[x] \in RunType(Len(mem)) /\ RunKnows(run[x])
      /\ run \in [Indexer -> RunType(Len(mem))]
      /\ Len(mem) \in Nat /\ DOMAIN mem = 1..Len(mem)
  BY DEF Types
<1>2. CASE Start(x)
  BY <1>1, <1>2 DEF Start, Chunks, OneVersion, ChunkParts, ChunksOf, RunType, RunKnows,
        Handling, Writing, Null, At, Goto, Return, FileDone, Idle, tables
<1>3. ASSUME NEW f \in File, ReadFile(x, f)
      PROVE  Chunks(x)'
  <2>1. ReadsFile(x, f)
    BY <1>3, ReadFileEffect
  <2> QED BY <1>1, <2>1 DEF ReadsFile, Chunks, OneVersion, ChunkParts, ChunksOf, RunType,
        RunKnows, Handling, Writing, Null
<1>4. ASSUME NEW f \in File, ReadFails(x, f)
      PROVE  Chunks(x)'
  BY <1>1, <1>4 DEF ReadFails, Chunks, OneVersion, ChunkParts, ChunksOf, RunType, RunKnows,
        Handling, Writing, Null, At, Goto, Return, FileDone, Idle, tables
<1>5. CASE PeekRow(x)
  BY <1>1, <1>5 DEF PeekRow, Chunks, OneVersion, ChunkParts, ChunksOf, RunType, RunKnows,
        Handling, Writing, Null, At, Goto, Return, FileDone, Idle, tables
<1>6. CASE UpsertFile(x)
  <2> PICK f : f = run[x].file
    OBVIOUS
  <2> DEFINE skip == SameDigest(x) /\ run[x].chunked /\ ~NeedsRefresh(f)
  <2>2. /\ run[x].pc = "upsert" /\ f \in File /\ run[x].version \in Version
        /\ run[x].known = files[f].version
    BY <1>1, <1>6 DEF UpsertFile, At, RunKnows, Handling, Chunks
  <2>3. /\ run'[x].pc = "code" /\ run'[x].file = f /\ run'[x].version = run[x].version
        /\ run'[x].rest = IF skip THEN <<>> ELSE Parts[run[x].version]
    BY <1>1, <1>6 DEF UpsertFile, RunType
  <2>4. /\ \A g \in File : files'[g].version = IF g = f THEN run[x].version ELSE files[g].version
        /\ chunks' = IF skip THEN chunks ELSE chunks \ ChunksOf(f)
    BY <1>6, <2>2 DEF UpsertFile, Types
  <2>5. \A g \in File \ {f} : ChunkParts(g)' = ChunkParts(g)
    BY <2>4 DEF ChunkParts, ChunksOf
  <2>6. \A g \in File \ {f} : files'[g].version # NoVersion => OneVersion(g)'
    BY <2>2, <2>4, <2>5 DEF Chunks, OneVersion, Writing
  <2>7. CASE skip
    <3>1. Digest[files[f].version] = Digest[run[x].version] /\ files[f].version # NoVersion
      BY <2>2, <2>7 DEF SameDigest
    <3>2. OneVersion(f)
      BY <2>2, <3>1 DEF Chunks, Writing
    <3>3. ChunkParts(f)' = ChunkParts(f)
      BY <2>4, <2>7 DEF ChunkParts, ChunksOf
    <3>4. OneVersion(f)'
      BY <2>2, <2>4, <3>1, <3>2, <3>3 DEF OneVersion
    <3> QED BY <2>2, <2>3, <2>6, <2>7, <3>4 DEF Chunks, OneVersion, Writing
  <2>8. CASE ~skip
    <3>1. ChunkParts(f)' = {}
      BY <2>4, <2>8 DEF ChunkParts, ChunksOf
    <3>2. run'[x].rest = Parts[run[x].version] /\ run'[x].rest # <<>>
      BY <1>1, <2>2, <2>3, <2>8 DEF RunKnows, Handling
    <3>3. PartsIn(run'[x].rest) = PartsOf(run[x].version)
      BY <3>2 DEF PartsIn, PartsOf
    <3> QED BY <2>2, <2>3, <2>6, <3>1, <3>2, <3>3 DEF Chunks, OneVersion, Writing, ChunkParts,
          ChunksOf, PartsIn
  <2> QED BY <2>7, <2>8
<1>7. CASE UpsertFails(x)
  BY <1>1, <1>7 DEF UpsertFails, Chunks, OneVersion, ChunkParts, ChunksOf, RunType, RunKnows,
        Handling, Writing, Null, At, Goto, Return, FileDone, Idle, tables
<1>8. CASE ReplaceCode(x)
  <2>2. ReplacesCode(x)
    BY <1>8, ReplaceCodeEffect
  <2>3. files' = files /\ chunks' = chunks
    BY <2>2 DEF ReplacesCode
  <2>4. run[x].rest = <<>> => OneVersion(run[x].file)
    BY <2>2 DEF ReplacesCode, Chunks
  <2>5. \A g \in File : OneVersion(g) = OneVersion(g)'
    BY <2>3 DEF OneVersion, ChunkParts, ChunksOf
  <2> QED BY <2>2, <2>3, <2>4, <2>5 DEF ReplacesCode, Chunks, Writing, ChunkParts, ChunksOf, PartsIn
<1>9. CASE FindDuplicate(x)
  <2>2. FindsDuplicate(x)
    BY <1>9, FindDuplicateEffect
  <2>3. files' = files /\ chunks' = chunks
    BY <2>2 DEF FindsDuplicate
  <2>4. \A g \in File : OneVersion(g) = OneVersion(g)'
    BY <2>3 DEF OneVersion, ChunkParts, ChunksOf
  <2> QED BY <2>2, <2>3, <2>4 DEF FindsDuplicate, Chunks, Writing, ChunkParts, ChunksOf, PartsIn
<1>10. CASE InsertPart(x)
  BY <1>1, <1>10 DEF InsertPart, Chunks, OneVersion, ChunkParts, ChunksOf, RunType, RunKnows,
        Handling, Writing, Null, At, Goto, Return, FileDone, Idle, tables
<1>11. CASE LinkChunk(x)
  <2> PICK f, r, c : /\ f = run[x].file /\ r = run[x].rest
                     /\ c = [file |-> f, part |-> Head(r), mem |-> run[x].got]
    OBVIOUS
  <2>2. LinksChunk(x)
    BY <1>11, LinkChunkEffect
  <2>3. /\ files' = files /\ files[f].version = run[x].version /\ run[x].version \in Version
        /\ ChunkParts(f) \cup PartsIn(r) = PartsOf(run[x].version)
    BY <1>1, <2>2 DEF LinksChunk, Visits, Chunks, Writing, RunKnows, Handling
  <2>4. /\ ChunkParts(f)' = ChunkParts(f) \cup {Head(r)}
        /\ \A g \in File \ {f} : ChunkParts(g)' = ChunkParts(g)
    <3>1. chunks' = chunks \cup {c} /\ c.file = f /\ c.part = Head(r)
      BY <2>2 DEF LinksChunk
    <3> QED BY <3>1 DEF ChunkParts, ChunksOf
  <2>5. PartsIn(r) = {Head(r)} \cup PartsIn(Tail(r))
    BY <2>2, HeadAndRest DEF LinksChunk
  <2>6. ChunkParts(f)' \cup PartsIn(Tail(r)) = PartsOf(run[x].version)
    BY <2>3, <2>4, <2>5
  <2>7. \A g \in File \ {f} : files'[g].version # NoVersion => OneVersion(g)'
    BY <2>2, <2>3, <2>4 DEF Chunks, OneVersion
  <2>8. CASE run'[x].pc = "scan"
    <3>1. PartsIn(Tail(r)) = {}
      <4>1. Tail(r) = <<>>
        BY <2>2, <2>8 DEF LinksChunk
      <4>2. PartsIn(<<>>) = {}
        BY DEF PartsIn
      <4> QED BY <4>1, <4>2
    <3>2. OneVersion(f)'
      BY <2>2, <2>3, <2>6, <3>1 DEF OneVersion, LinksChunk
    <3> QED BY <2>2, <2>7, <2>8, <3>2 DEF Chunks, Writing, LinksChunk
  <2>9. CASE run'[x].pc = "find"
    <3>1. ChunkParts(run[x].file)' = ChunkParts(f)'
      BY <2>2 DEF LinksChunk, ChunkParts, ChunksOf
    <3> QED BY <2>2, <2>6, <2>7, <2>9, <3>1 DEF Chunks, Writing, LinksChunk, PartsIn
  <2> QED BY <2>2, <2>8, <2>9 DEF LinksChunk
<1>12. CASE LinkFails(x)
  <2>2. run[x].got \in DOMAIN mem
    BY <1>1, <1>12 DEF LinkFails, At, RunType, RunKnows
  <2> QED BY <1>12, <2>2 DEF LinkFails, Strands
<1>13. CASE MarkMissing(x)
  <2>2. /\ \A g \in File : files'[g].version = files[g].version
        /\ chunks' = chunks /\ run[x].pc = "scan" /\ run'[x].pc = "missing"
    BY <1>1, <1>13 DEF MarkMissing, At, Goto, RunType, Types
  <2>3. \A g \in File : OneVersion(g) => OneVersion(g)'
    BY <2>2 DEF OneVersion, ChunkParts, ChunksOf
  <2> QED BY <2>2, <2>3 DEF Chunks, Writing
<1>14. CASE ReadMissing(x)
  BY <1>1, <1>14 DEF ReadMissing, Chunks, OneVersion, ChunkParts, ChunksOf, RunType, RunKnows,
        Handling, Writing, Null, At, Goto, Return, FileDone, Idle, tables
<1>15. CASE ClearCode(x)
  BY <1>1, <1>15 DEF ClearCode, Chunks, OneVersion, ChunkParts, ChunksOf, RunType, RunKnows,
        Handling, Writing, Null, At, Goto, Return, FileDone, Idle, tables
<1>16. CASE ReadUnlinked(x)
  BY <1>1, <1>16 DEF ReadUnlinked, Chunks, OneVersion, ChunkParts, ChunksOf, RunType, RunKnows,
        Handling, Writing, Null, At, Goto, Return, FileDone, Idle, tables
<1>17. CASE ArchiveUnlinked(x)
  BY <1>1, <1>17 DEF ArchiveUnlinked, Chunks, OneVersion, ChunkParts, ChunksOf, RunType,
        RunKnows, Handling, Writing, Null, At, Goto, Return, FileDone, Idle, tables
<1>18. CASE Crash(x)
  BY <1>1, <1>18 DEF Crash, Chunks, OneVersion, ChunkParts, ChunksOf, RunType, RunKnows,
        Handling, Writing, Null, At, Goto, Return, FileDone, Idle, tables
<1> QED BY <1>2, <1>3, <1>4, <1>5, <1>6, <1>7, <1>8, <1>9, <1>10, <1>11, <1>12, <1>13, <1>14,
      <1>15, <1>16, <1>17, <1>18 DEF IndexFile, EndRun

\* ... and that chunks are those of one version.
LEMMA OthersChunking ==
    ASSUME Types, Types', NEW x \in Indexer, ~MayCrash, ~MayForget, Visits(x), Strands(x), Chunks(x)
    PROVE  /\ \A f \in File, v \in Version \cup {Absent} : Edit(f, v) => Chunks(x)'
           /\ \A m \in DOMAIN mem, how \in {"deleted", "gone"} : Forget(m, how) => Chunks(x)'
           /\ ReadMissingSources \/ ArchiveMissingSources \/ ListDuplicates \/ MergeNext => Chunks(x)'
           /\ UNCHANGED vars => Chunks(x)'
<1>1. /\ run[x] \in RunType(Len(mem)) /\ RunKnows(run[x])
      /\ run \in [Indexer -> RunType(Len(mem))]
      /\ Len(mem) \in Nat /\ DOMAIN mem = 1..Len(mem)
  BY DEF Types
<1>2. ASSUME NEW f \in File, NEW v \in Version \cup {Absent}, Edit(f, v)
      PROVE  Chunks(x)'
  BY <1>1, <1>2 DEF Edit, Chunks, OneVersion, ChunkParts, ChunksOf, RunType, RunKnows, Handling,
        Writing, Null, At, Goto, Return, FileDone, Idle, tables
<1>3. ASSUME NEW m \in DOMAIN mem, NEW how \in {"deleted", "gone"}, Forget(m, how)
      PROVE  Chunks(x)'
  BY <1>1, <1>3 DEF Forget, Chunks, OneVersion, ChunkParts, ChunksOf, RunType, RunKnows,
        Handling, Writing, Null, At, Goto, Return, FileDone, Idle, tables
<1>4. ASSUME ReadMissingSources
      PROVE  Chunks(x)'
  BY <1>1, <1>4 DEF ReadMissingSources, Chunks, OneVersion, ChunkParts, ChunksOf, RunType,
        RunKnows, Handling, Writing, Null, At, Goto, Return, FileDone, Idle, tables
<1>5. ASSUME ArchiveMissingSources
      PROVE  Chunks(x)'
  BY <1>1, <1>5 DEF ArchiveMissingSources, Chunks, OneVersion, ChunkParts, ChunksOf, RunType,
        RunKnows, Handling, Writing, Null, At, Goto, Return, FileDone, Idle, tables
<1>6. CASE UNCHANGED vars
  BY <1>6 DEF vars, tables, Chunks, OneVersion, ChunkParts, ChunksOf, RunType, RunKnows,
        Handling, Writing, Null, At, Goto, Return, FileDone, Idle, tables
<1>7. ASSUME ListDuplicates
      PROVE  Chunks(x)'
  BY <1>1, <1>7 DEF ListDuplicates, Chunks, OneVersion, ChunkParts, ChunksOf, RunType, RunKnows,
        Handling, Writing, Null, At, Goto, Return, FileDone, Idle, tables
<1>8. ASSUME MergeNext
      PROVE  Chunks(x)'
  BY <1>1, <1>8 DEF MergeNext, Chunks, OneVersion, ChunkParts, ChunksOf, RunType, RunKnows,
        Handling, Writing, Null, At, Goto, Return, FileDone, Idle, tables
<1> QED BY <1>2, <1>3, <1>4, <1>5, <1>6, <1>7, <1>8

-----------------------------------------------------------------------------
(* Theorems for one index_project at a time *)

\* The code keeps no second index_project of a project out; these theorems are
\* about one that has none beside it.
OneIndexer == \E x : Indexer = {x}

Indexed(x) ==
    /\ Types
    /\ Visits(x)
    /\ TextsAreActiveOnce
    /\ Inserts(x)
    /\ ArchivedLinkIsALeak
    /\ Sweeps(x)

\* Nothing is indexed yet at the start.
LEMMA InitIndexed ==
    ASSUME NEW x \in Indexer, Init
    PROVE  Indexed(x)
<1>1. Types
  BY InitTypes
<1>2. run[x] = Idle /\ chunks = {} /\ mem = <<>>
  BY DEF Init
<1> QED BY <1>1, <1>2 DEF Indexed, Visits, TextsAreActiveOnce, Inserts, ArchivedLinkIsALeak, Sweeps,
                         Idle, Handling, Writing, At

\* Every step of the run, and of the others, keeps what it has indexed.
LEMMA StepIndexed ==
    ASSUME NEW x, Indexer = {x}, Indexed(x), [Next]_vars
    PROVE  Indexed(x)'
<1>1. Types /\ Types' /\ x \in Indexer
  BY StepTypes DEF Indexed
<1>2. Visits(x)'
  BY <1>1, RunVisiting, OthersVisiting DEF Next, Indexed
<1>3. TextsAreActiveOnce' /\ Inserts(x)'
  BY <1>1, RunTexts, OthersTexts DEF Next, Indexed
<1>4. ArchivedLinkIsALeak' /\ Sweeps(x)'
  BY <1>1, RunLinks, OthersLinks DEF Next, Indexed
<1> QED BY <1>1, <1>2, <1>3, <1>4 DEF Indexed

AllIndexed == \A x \in Indexer : Indexed(x)

\* With one run at a time that holds in every reachable state.
LEMMA IndexedAlways ==
    ASSUME OneIndexer
    PROVE  Spec => []AllIndexed
<1>1. Init => AllIndexed
  BY InitIndexed DEF AllIndexed
<1>2. AllIndexed /\ [Next]_vars => AllIndexed'
  BY OneIndexer, StepIndexed DEF OneIndexer, AllIndexed
<1> QED BY <1>1, <1>2, PTL DEF Spec

\* What a run counts as indexed is in the tables until it ends, whatever earlier
\* runs left and whatever is edited, erased or consolidated meanwhile.
THEOREM VisitedStaysIndexed ==
    ASSUME OneIndexer
    PROVE  Spec => []VisitedIsIndexed
<1>1. AllIndexed => VisitedIsIndexed
  BY OneIndexer DEF OneIndexer, AllIndexed, Indexed, Visits, VisitedIsIndexed
<1> QED BY <1>1, IndexedAlways, PTL

\* No text is active twice, however many runs die between an insert and its link.
THEOREM NoTextTwice ==
    ASSUME OneIndexer
    PROVE  Spec => []TextsAreActiveOnce
<1>1. AllIndexed => TextsAreActiveOnce
  BY OneIndexer DEF OneIndexer, AllIndexed, Indexed
<1> QED BY <1>1, IndexedAlways, PTL

\* A chunk links an archived memory only after another file's old version took the
\* memory with it, or a consolidation archived it for a missing file or as a copy.
THEOREM OnlyLeaksAreArchived ==
    ASSUME OneIndexer
    PROVE  Spec => []ArchivedLinkIsALeak
<1>1. AllIndexed => ArchivedLinkIsALeak
  BY OneIndexer DEF OneIndexer, AllIndexed, Indexed
<1> QED BY <1>1, IndexedAlways, PTL

\* The last sweep leaves no active memory without a chunk.
LEMMA SweepsAll ==
    ASSUME NEW x, Indexer = {x}, Indexed(x), [Next]_vars,
           At(x, "archive"), run'[x].pc = "idle", mem' # mem \/ run[x].unlinked = {}
    PROVE  \A m \in DOMAIN mem' : mem'[m].status = "active" => \E c \in chunks' : c.mem = m
<1>1. /\ mem \in Seq(MemType) /\ DOMAIN mem = 1..Len(mem) /\ Sweeps(x)
      /\ run \in [Indexer -> RunType(Len(mem))] /\ x \in Indexer
  BY DEF Indexed, Types
<1>2. CASE ArchiveUnlinked(x)
  <2>1. /\ chunks' = chunks /\ DOMAIN mem' = DOMAIN mem
        /\ \A m \in 1..Len(mem) :
              mem'[m].status = IF m \in run[x].unlinked /\ Active(m) THEN "archived" ELSE mem[m].status
    BY <1>1, <1>2, ArchiveType DEF ArchiveUnlinked
  <2> QED BY <1>1, <2>1 DEF Sweeps, At, Active, Linked
<1>3. CASE Crash(x)
  BY <1>1, <1>3 DEF Crash, tables, Sweeps, At, Active, Linked
<1>4. CASE run' = run
  BY <1>4 DEF At
<1>5. ArchiveUnlinked(x) \/ Crash(x) \/ run' = run
  <2>1. CASE Start(x) \/ IndexFile(x) \/ EndRun(x)
    BY <2>1 DEF Start, IndexFile, ReadFile, ReadFails, PeekRow, UpsertFile, UpsertFails,
          ReplaceCode,
                FindDuplicate, InsertPart, LinkChunk, LinkFails, EndRun, MarkMissing, ReadMissing,
                ClearCode, ReadUnlinked, At
  <2> QED BY <2>1 DEF Next, Edit, Forget, ReadMissingSources, ArchiveMissingSources,
             ListDuplicates, MergeNext, vars
<1> QED BY <1>2, <1>3, <1>4, <1>5

\* What crashes stranded, the last sweep of the next run archives.
THEOREM SweepLeavesNoOrphan ==
    ASSUME OneIndexer
    PROVE  Spec => EndsWithoutOrphans
<1>1. AllIndexed /\ [Next]_vars =>
        [\A x \in Indexer :
            (At(x, "archive") /\ run'[x].pc = "idle" /\ (mem' # mem \/ run[x].unlinked = {})) =>
                \A m \in DOMAIN mem' : mem'[m].status = "active" => \E c \in chunks' : c.mem = m]_vars
  BY OneIndexer, SweepsAll DEF OneIndexer, AllIndexed
<1> QED BY <1>1, IndexedAlways, PTL DEF Spec, EndsWithoutOrphans

-----------------------------------------------------------------------------
(* Theorems when in addition no run dies and no memory is erased *)

Undisturbed(x) == Indexed(x) /\ Strands(x) /\ Chunks(x)

\* Nothing is stranded at the start.
LEMMA InitUndisturbed ==
    ASSUME NEW x \in Indexer, Init
    PROVE  Undisturbed(x)
<1>1. run[x] = Idle /\ chunks = {} /\ mem = <<>> /\ files = [f \in File |-> [version |-> NoVersion, status |-> "none"]]
  BY DEF Init
<1> QED BY <1>1, InitIndexed DEF Undisturbed, Strands, Chunks, Idle, Writing

\* Without kills and erasures, every step keeps all memories linked and rows whole.
LEMMA StepUndisturbed ==
    ASSUME NEW x, Indexer = {x}, ~MayCrash, ~MayForget, Undisturbed(x), [Next]_vars
    PROVE  Undisturbed(x)'
<1>1. Indexed(x) /\ Indexed(x)' /\ x \in Indexer
  BY StepIndexed DEF Undisturbed
<1>2. Types /\ Types' /\ Visits(x) /\ Strands(x) /\ Chunks(x)
  BY <1>1 DEF Indexed, Undisturbed
<1>3. Strands(x)'
  BY <1>1, <1>2, RunStranding, OthersStranding DEF Next
<1>4. Chunks(x)'
  BY <1>1, <1>2, RunChunking, OthersChunking DEF Next
<1> QED BY <1>1, <1>3, <1>4 DEF Undisturbed

AllUndisturbed == \A x \in Indexer : Undisturbed(x)

\* So they are in every reachable state.
LEMMA UndisturbedAlways ==
    ASSUME OneIndexer, ~MayCrash, ~MayForget
    PROVE  Spec => []AllUndisturbed
<1>1. Init => AllUndisturbed
  BY InitUndisturbed DEF AllUndisturbed
<1>2. AllUndisturbed /\ [Next]_vars => AllUndisturbed'
  BY OneIndexer, StepUndisturbed DEF OneIndexer, AllUndisturbed
<1> QED BY <1>1, <1>2, PTL DEF Spec

\* A row no run works on has the chunks of one whole version with its digest.
THEOREM RowsAreOneVersion ==
    ASSUME OneIndexer, ~MayCrash, ~MayForget
    PROVE  Spec => []ChunksAreOneVersion
<1>1. AllUndisturbed => ChunksAreOneVersion
  BY OneIndexer DEF OneIndexer, AllUndisturbed, Undisturbed, Chunks, OneVersion, ChunkParts,
        ChunksAreOneVersion, InHands, Writing
<1> QED BY <1>1, UndisturbedAlways, PTL

\* Editing and removing files, shared texts and failed runs strand no memory.
THEOREM NoneIsStranded ==
    ASSUME OneIndexer, ~MayCrash, ~MayForget
    PROVE  Spec => []ActiveIsLinked
<1>1. AllUndisturbed => ActiveIsLinked
  BY OneIndexer DEF OneIndexer, AllUndisturbed, Undisturbed, Strands, ActiveIsLinked
<1> QED BY <1>1, UndisturbedAlways, PTL
=============================================================================
