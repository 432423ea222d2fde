---------------------------- MODULE ProjectIndex ----------------------------
(***************************************************************************)
(* ProjectIndexer.index_project: keeping the tables files, chunks,          *)
(* code_symbols and the source_chunk memories in step with the files of a   *)
(* project, while the files are edited, memories are forgotten and another  *)
(* process consolidates.                                                    *)
(*                                                                          *)
(* A run visits the files in any order, a few transactions per file, and    *)
(* ends with three sweeps over the whole project.  An exception (a file     *)
(* gone between two calls, a memory erased under the run) leaves            *)
(* index_project at once, like a kill does; committed transactions stand.   *)
(*                                                                          *)
(* A Version is a whole file content, a Part one of the pieces split_chunks *)
(* makes of it.  content_hash drops case and white space, so different      *)
(* versions, and different parts, may have the same hash: Digest and        *)
(* PartHash say which.  A part's line range is in its chunk's summary and   *)
(* in the summary of the memory first written for it.                       *)
(***************************************************************************)
EXTENDS Naturals, Sequences

CONSTANTS
    Indexer,     \* the index_project calls that may be in progress
    File,        \* relative paths
    Version,     \* file contents
    Part,        \* chunk contents with their place in the file
    Parts,       \* split_chunks of each version; none for a blank one
    Digest,      \* content_hash of each version
    PartHash,    \* content_hash of each part
    PartLines,   \* the line range of each part
    MaxRuns,     \* bound: index_project calls
    MaxEdits,    \* bound: changes to the files on disk
    MayCrash,    \* whether a run may die on the way
    MayForget,   \* whether source memories are erased
    MayMerge,    \* whether duplicates are consolidated
    Absent, NoVersion, NoFile

ASSUME ContentAssumption ==
    /\ Parts \in [Version -> Seq(Part)]
    /\ Version = DOMAIN Digest
    /\ Part = DOMAIN PartHash
    /\ Part = DOMAIN PartLines
    /\ Absent \notin Version /\ NoVersion \notin Version /\ NoFile \notin File
ASSUME BoundAssumption ==
    /\ MaxRuns \in Nat /\ MaxEdits \in Nat
    /\ MayCrash \in BOOLEAN /\ MayForget \in BOOLEAN
    /\ MayMerge \in BOOLEAN

Null == 0   \* chunks.memory_id after ON DELETE SET NULL; memories are numbered from 1

VARIABLES
    disk,     \* the content of each file, or Absent
    files,    \* the files row of each path: the version last read, and its status
    code,     \* the version code_symbols and code_references hold for each path
    chunks,   \* the chunks rows: file, part, memory
    mem,      \* the source_chunk memories in order of creation: part, status
    run,      \* the locals of each index_project call
    doomed,   \* memories of missing files a consolidation read and will archive
    merging,  \* memories a consolidation listed as duplicates and will archive
    runs, edits,   \* counters for the bounds
    lost      \* history: memories archived while a chunk of another file, or of
              \* a missing file that came back, still links them, and those
              \* archived as duplicates

tables == <<files, code, chunks, mem>>
vars == <<disk, tables, run, doomed, merging, runs, edits, lost>>

-----------------------------------------------------------------------------
ChunksOf(f) == {c \in chunks : c.file = f}
Linked(m) == \E c \in chunks : c.mem = m
Active(m) == mem[m].status = "active"
ActiveRow(f) == files[f].status = "active"
Idle == [pc |-> "idle", todo |-> {}, done |-> {}, file |-> NoFile, version |-> NoVersion,
         known |-> NoVersion, chunked |-> FALSE, rest |-> <<>>, got |-> Null,
         stale |-> {}, unlinked |-> {}]

Init ==
    /\ disk \in [File -> Version \cup {Absent}]
    /\ files = [f \in File |-> [version |-> NoVersion, status |-> "none"]]
    /\ code = [f \in File |-> NoVersion]
    /\ chunks = {}
    /\ mem = <<>>
    /\ run = [x \in Indexer |-> Idle]
    /\ doomed = {}
    /\ merging = {}
    /\ runs = 0
    /\ edits = 0
    /\ lost = {}

\* UPDATE memories SET status = 'archived' WHERE id IN ids AND status = 'active'
Archive(ids) == [m \in DOMAIN mem |-> IF m \in ids /\ Active(m)
                                      THEN [mem[m] EXCEPT !.status = "archived"] ELSE mem[m]]

At(x, pc) == run[x].pc = pc
Goto(x, pc) == run' = [run EXCEPT ![x].pc = pc]
Return(x) == run' = [run EXCEPT ![x] = Idle]

\* The loop of index_project goes on with the next file.
FileDone(x) == run' = [run EXCEPT ![x] = [@ EXCEPT !.pc = "scan", !.done = run[x].done \cup {run[x].file}]]

-----------------------------------------------------------------------------
Start(x) ==
    /\ At(x, "idle")
    /\ runs < MaxRuns
    /\ runs' = runs + 1
    /\ run' = [run EXCEPT ![x] = [@ EXCEPT !.pc = "scan", !.todo = File]]
    /\ UNCHANGED <<disk, tables, doomed, merging, edits, lost>>

\* Files that are not there, and blank ones, are passed over.
ReadFile(x, f) ==
    /\ At(x, "scan")
    /\ f \in run[x].todo
    /\ IF disk[f] = Absent \/ Parts[disk[f]] = <<>>
       THEN run' = [run EXCEPT ![x].todo = @ \ {f}]
       ELSE run' = [run EXCEPT ![x] = [@ EXCEPT !.todo = run[x].todo \ {f}, !.pc = "peek",
                                                !.file = f, !.version = disk[f]]]
    /\ UNCHANGED <<disk, tables, doomed, merging, runs, edits, lost>>

\* The file was listed, and is gone when read_text opens it.
ReadFails(x, f) ==
    /\ At(x, "scan")
    /\ f \in run[x].todo
    /\ disk[f] = Absent
    /\ Return(x)
    /\ UNCHANGED <<disk, tables, doomed, merging, runs, edits, lost>>

\* The two queries before the first INSERT of the block: outside its transaction.
PeekRow(x) ==
    /\ At(x, "peek")
    /\ run' = [run EXCEPT ![x] = [@ EXCEPT !.pc = "upsert",
                                           !.known = files[run[x].file].version,
                                           !.chunked = ChunksOf(run[x].file) # {}]]
    /\ UNCHANGED <<disk, tables, doomed, merging, runs, edits, lost>>

SameDigest(x) == run[x].known # NoVersion /\ Digest[run[x].known] = Digest[run[x].version]

\* _chunks_need_summary_refresh: the line range in a chunk's own summary is
\* always right; that of the linked memory may be another chunk's.
NeedsRefresh(f) ==
    \E c \in ChunksOf(f) : c.mem = Null \/ PartLines[mem[c.mem].part] # PartLines[c.part]

\* Mutant: the chunks go without their memories.
UpsertKeepsMemories(x) ==
    /\ At(x, "upsert")
    /\ LET f == run[x].file
           skip == SameDigest(x) /\ run[x].chunked /\ ~NeedsRefresh(f)
       IN /\ disk[f] # Absent
          /\ files' = [files EXCEPT ![f] = [version |-> run[x].version, status |-> "active"]]
          /\ run' = [run EXCEPT ![x] = [@ EXCEPT !.pc = "code",
                                                 !.rest = IF skip THEN <<>> ELSE Parts[run[x].version]]]
          /\ chunks' = IF skip THEN chunks ELSE chunks \ ChunksOf(f)
    /\ UNCHANGED <<disk, code, mem, doomed, merging, runs, edits, lost>>

\* Mutant: a file whose digest is unchanged is skipped, chunked or not.
UpsertTrustsDigest(x) ==
    /\ At(x, "upsert")
    /\ LET f == run[x].file
           old == {c.mem : c \in ChunksOf(f)} \ {Null}
       IN /\ disk[f] # Absent
          /\ files' = [files EXCEPT ![f] = [version |-> run[x].version, status |-> "active"]]
          /\ run' = [run EXCEPT ![x] = [@ EXCEPT !.pc = "code",
                                                 !.rest = IF SameDigest(x) THEN <<>> ELSE Parts[run[x].version]]]
          /\ chunks' = IF SameDigest(x) THEN chunks ELSE chunks \ ChunksOf(f)
          /\ mem' = IF SameDigest(x) THEN mem ELSE Archive(old)
    /\ UNCHANGED <<disk, code, doomed, merging, runs, edits, lost>>

\* Mutant: the old chunks stay.
UpsertKeepsChunks(x) ==
    /\ At(x, "upsert")
    /\ LET f == run[x].file
           skip == SameDigest(x) /\ run[x].chunked /\ ~NeedsRefresh(f)
       IN /\ disk[f] # Absent
          /\ files' = [files EXCEPT ![f] = [version |-> run[x].version, status |-> "active"]]
          /\ run' = [run EXCEPT ![x] = [@ EXCEPT !.pc = "code",
                                                 !.rest = IF skip THEN <<>> ELSE Parts[run[x].version]]]
    /\ UNCHANGED <<disk, code, chunks, mem, doomed, merging, runs, edits, lost>>

UpsertFile(x) ==
    /\ At(x, "upsert")
    /\ LET f == run[x].file
           refresh == SameDigest(x) /\ run[x].chunked /\ NeedsRefresh(f)
           skip == SameDigest(x) /\ run[x].chunked /\ ~refresh
           old == {c.mem : c \in ChunksOf(f)} \ {Null}
       IN /\ disk[f] # Absent
          /\ files' = [files EXCEPT ![f] = [version |-> run[x].version, status |-> "active"]]
          /\ run' = [run EXCEPT ![x] = [@ EXCEPT !.pc = "code",
                                                 !.rest = IF skip THEN <<>> ELSE Parts[run[x].version]]]
          /\ chunks' = IF skip THEN chunks ELSE chunks \ ChunksOf(f)
          /\ mem' = IF ~SameDigest(x) \/ refresh THEN Archive(old) ELSE mem
          /\ lost' = IF ~SameDigest(x) \/ refresh
                     THEN lost \cup {m \in old : \E c \in chunks : c.mem = m /\ c.file # f}
                     ELSE lost
    /\ UNCHANGED <<disk, code, doomed, merging, runs, edits>>

\* path.stat() in the same block raises: the file is gone.
UpsertFails(x) ==
    /\ At(x, "upsert")
    /\ disk[run[x].file] = Absent
    /\ Return(x)
    /\ UNCHANGED <<disk, tables, doomed, merging, runs, edits, lost>>

ReplaceCode(x) ==
    /\ At(x, "code")
    /\ code' = [code EXCEPT ![run[x].file] = run[x].version]
    /\ IF run[x].rest = <<>> THEN FileDone(x) ELSE Goto(x, "find")
    /\ UNCHANGED <<disk, files, chunks, mem, doomed, merging, runs, edits, lost>>

\* Mutant: the lookup forgets the status.
SameTextAnyStatus(p) == {m \in DOMAIN mem : PartHash[mem[m].part] = PartHash[p]}

\* Mutant: no lookup.
NoSameText(p) == {}

\* MemoryWriter.write: the oldest active memory with the hash of the part, or a
\* new one.
SameText(p) == {m \in DOMAIN mem : Active(m) /\ PartHash[mem[m].part] = PartHash[p]}

FindDuplicate(x) ==
    /\ At(x, "find")
    /\ LET same == SameText(Head(run[x].rest))
       IN IF same = {}
          THEN Goto(x, "insert")
          ELSE \E m \in same : /\ \A n \in same : m <= n
                               /\ run' = [run EXCEPT ![x] = [@ EXCEPT !.pc = "link", !.got = m]]
    /\ UNCHANGED <<disk, tables, doomed, merging, runs, edits, lost>>

InsertPart(x) ==
    /\ At(x, "insert")
    /\ mem' = Append(mem, [part |-> Head(run[x].rest), status |-> "active"])
    /\ run' = [run EXCEPT ![x] = [@ EXCEPT !.pc = "link", !.got = Len(mem) + 1]]
    /\ UNCHANGED <<disk, files, code, chunks, doomed, merging, runs, edits, lost>>

LinkChunk(x) ==
    /\ At(x, "link")
    /\ mem[run[x].got].status # "gone"
    /\ chunks' = chunks \cup {[file |-> run[x].file, part |-> Head(run[x].rest), mem |-> run[x].got]}
    /\ run' = [run EXCEPT ![x] = [@ EXCEPT !.rest = Tail(run[x].rest), !.got = Null,
                                           !.pc = IF Len(run[x].rest) = 1 THEN "scan" ELSE "find",
                                           !.done = IF Len(run[x].rest) = 1
                                                    THEN run[x].done \cup {run[x].file} ELSE run[x].done]]
    /\ UNCHANGED <<disk, files, code, mem, doomed, merging, runs, edits, lost>>

\* The foreign key raises: the memory was erased since (also when the vector
\* upsert, which comes first, finds out).
LinkFails(x) ==
    /\ At(x, "link")
    /\ mem[run[x].got].status = "gone"
    /\ Return(x)
    /\ UNCHANGED <<disk, tables, doomed, merging, runs, edits, lost>>

-----------------------------------------------------------------------------
(* The end of a run: _mark_missing_files, whose second block clears the code *)
(* of the missing files, and _archive_unlinked_source_memories.  The last    *)
(* two read before they write.                                               *)

MarkMissing(x) ==
    /\ At(x, "scan")
    /\ run[x].todo = {}
    /\ files' = [f \in File |-> IF ActiveRow(f) /\ f \notin run[x].done
                                THEN [files[f] EXCEPT !.status = "missing"] ELSE files[f]]
    /\ Goto(x, "missing")
    /\ UNCHANGED <<disk, code, chunks, mem, doomed, merging, runs, edits, lost>>

ReadMissing(x) ==
    /\ At(x, "missing")
    /\ run' = [run EXCEPT ![x] = [@ EXCEPT !.pc = "clear",
                                           !.stale = {f \in File : files[f].status = "missing"}]]
    /\ UNCHANGED <<disk, tables, doomed, merging, runs, edits, lost>>

ClearCode(x) ==
    /\ At(x, "clear")
    /\ code' = [f \in File |-> IF f \in run[x].stale THEN NoVersion ELSE code[f]]
    /\ Goto(x, "unlinked")
    /\ UNCHANGED <<disk, files, chunks, mem, doomed, merging, runs, edits, lost>>

\* Mutant: the sweep spares every memory.
ReadNoUnlinked(x) ==
    /\ At(x, "unlinked")
    /\ Goto(x, "archive")
    /\ UNCHANGED <<disk, tables, doomed, merging, runs, edits, lost>>

ReadUnlinked(x) ==
    /\ At(x, "unlinked")
    /\ run' = [run EXCEPT ![x] = [@ EXCEPT !.pc = "archive",
                                           !.unlinked = {m \in DOMAIN mem : Active(m) /\ ~Linked(m)}]]
    /\ UNCHANGED <<disk, tables, doomed, merging, runs, edits, lost>>

ArchiveUnlinked(x) ==
    /\ At(x, "archive")
    /\ mem' = Archive(run[x].unlinked)
    /\ Return(x)
    /\ UNCHANGED <<disk, files, code, chunks, doomed, merging, runs, edits, lost>>

-----------------------------------------------------------------------------
(* Everyone else *)

Edit(f, v) ==
    /\ edits < MaxEdits
    /\ disk[f] # v
    /\ disk' = [disk EXCEPT ![f] = v]
    /\ edits' = edits + 1
    /\ UNCHANGED <<tables, run, doomed, merging, runs, lost>>

\* Mutant: the verb is stored in place of the status.
ForgetByVerb(m, how) ==
    /\ MayForget
    /\ mem[m].status # "gone"
    /\ mem' = [mem EXCEPT ![m].status = "forget"]
    /\ UNCHANGED <<disk, files, code, chunks, run, doomed, merging, runs, edits, lost>>

\* delete_memory sets chunks.memory_id to NULL.
Forget(m, how) ==
    /\ MayForget
    /\ mem[m].status # "gone"
    /\ mem' = [mem EXCEPT ![m].status = how]
    /\ chunks' = IF how = "gone"
                 THEN {IF c.mem = m THEN [c EXCEPT !.mem = Null] ELSE c : c \in chunks}
                 ELSE chunks
    /\ UNCHANGED <<disk, files, code, run, doomed, merging, runs, edits, lost>>

\* Consolidator._archive_missing_source_chunks
ReadMissingSources ==
    /\ doomed = {}
    /\ doomed' = {m \in DOMAIN mem : Active(m) /\ \E c \in chunks :
                      c.mem = m /\ files[c.file].status = "missing"}
    /\ UNCHANGED <<disk, tables, run, merging, runs, edits, lost>>

ArchiveMissingSources ==
    /\ doomed # {}
    /\ mem' = Archive(doomed)
    /\ doomed' = {}
    /\ lost' = lost \cup doomed
    /\ UNCHANGED <<disk, files, code, chunks, run, merging, runs, edits>>

Listed == {m \in DOMAIN mem : mem[m].status \in {"active", "archived"}}

\* Consolidator.consolidate keeps the first row of each content hash in its
\* list, which has every row that is not deleted, archived ones and those of
\* other types and projects too, and may therefore keep no row of the project.
ListDuplicates ==
    /\ MayMerge
    /\ merging = {}
    /\ \E keep \in SUBSET Listed :
        /\ \A m, n \in keep : PartHash[mem[m].part] = PartHash[mem[n].part] => m = n
        /\ merging' = Listed \ keep
    /\ UNCHANGED <<disk, tables, run, doomed, runs, edits, lost>>

\* update_memory_status archives the rest by id, one transaction each,
\* whatever became of them since the list was read.
MergeNext ==
    /\ \E m \in merging :
        /\ mem' = IF mem[m].status = "gone" THEN mem ELSE [mem EXCEPT ![m].status = "archived"]
        /\ merging' = merging \ {m}
        /\ lost' = lost \cup {m}
    /\ UNCHANGED <<disk, files, code, chunks, run, doomed, runs, edits>>

Crash(x) ==
    /\ MayCrash
    /\ ~At(x, "idle")
    /\ Return(x)
    /\ UNCHANGED <<disk, tables, doomed, merging, runs, edits, lost>>

-----------------------------------------------------------------------------
IndexFile(x) ==
    \/ \E f \in File : ReadFile(x, f) \/ ReadFails(x, f)
    \/ PeekRow(x)
    \/ UpsertFile(x)
    \/ UpsertFails(x)
    \/ ReplaceCode(x)
    \/ FindDuplicate(x)
    \/ InsertPart(x)
    \/ LinkChunk(x)
    \/ LinkFails(x)

EndRun(x) ==
    \/ MarkMissing(x)
    \/ ReadMissing(x)
    \/ ClearCode(x)
    \/ ReadUnlinked(x)
    \/ ArchiveUnlinked(x)

Next ==
    \/ \E x \in Indexer : Start(x) \/ IndexFile(x) \/ EndRun(x) \/ Crash(x)
    \/ \E f \in File, v \in Version \cup {Absent} : Edit(f, v)
    \/ \E m \in DOMAIN mem, how \in {"deleted", "gone"} : Forget(m, how)
    \/ ReadMissingSources
    \/ ArchiveMissingSources
    \/ ListDuplicates
    \/ MergeNext

Spec == Init /\ [][Next]_vars

-----------------------------------------------------------------------------
(* Properties *)

RowStatus == {"none", "active", "missing"}
MemStatus == {"active", "archived", "deleted", "gone"}
Pc == {"idle", "scan", "peek", "upsert", "code", "find", "insert", "link",
       "missing", "clear", "unlinked", "archive"}

\* Types of the tables and of the locals of the runs.
TypeOK ==
    /\ disk \in [File -> Version \cup {Absent}]
    /\ files \in [File -> [version : Version \cup {NoVersion}, status : RowStatus]]
    /\ code \in [File -> Version \cup {NoVersion}]
    /\ chunks \subseteq [file : File, part : Part, mem : {Null} \cup DOMAIN mem]
    /\ mem \in Seq([part : Part, status : MemStatus])
    /\ run \in [Indexer ->
          [pc : Pc, todo : SUBSET File, done : SUBSET File, file : File \cup {NoFile},
           version : Version \cup {NoVersion}, known : Version \cup {NoVersion},
           chunked : BOOLEAN, rest : Seq(Part), got : {Null} \cup DOMAIN mem,
           stale : SUBSET File, unlinked : SUBSET DOMAIN mem]]
    /\ doomed \subseteq DOMAIN mem
    /\ merging \subseteq DOMAIN mem
    /\ lost \subseteq DOMAIN mem
    /\ runs \in 0 .. MaxRuns
    /\ edits \in 0 .. MaxEdits

\* What a run has counted as indexed is in the tables until the run ends: an
\* active row with the code of the version it names, and at least one chunk.
\* Earlier runs that died half way do not matter.
VisitedIsIndexed ==
    \A x \in Indexer : \A f \in run[x].done :
        ActiveRow(f) /\ code[f] = files[f].version /\ ChunksOf(f) # {}

\* A run that dies between its writes leaves memories without chunks, and the
\* next one finds them again: no text is ever active twice.
TextsAreActiveOnce ==
    \A m, n \in DOMAIN mem :
        (Active(m) /\ Active(n) /\ PartHash[mem[m].part] = PartHash[mem[n].part]) => m = n

\* Unless a run dies, a row that no run is working on has the chunks of all
\* parts of one version with its digest, and of no other.
InHands(f) == \E x \in Indexer : run[x].file = f /\ run[x].pc \in {"code", "find", "insert", "link"}
PartsOf(v) == {Parts[v][n] : n \in 1 .. Len(Parts[v])}
ChunksAreOneVersion ==
    \A f \in File : (files[f].version # NoVersion /\ ~InHands(f)) =>
        \E v \in Version : /\ Digest[v] = Digest[files[f].version]
                           /\ {c.part : c \in ChunksOf(f)} = PartsOf(v)

\* The memory a chunk links is recalled, or was forgotten, or belongs to the
\* three leaks of this design: archived with another file's old version, while
\* the file was missing, or as a copy of a row that came first in a list.  A
\* chunk never links a memory the run's own sweep archives, nor one that was
\* archived, outside these, before the chunk was written.
ArchivedLinkIsALeak ==
    \A c \in chunks :
        (c.mem # Null /\ mem[c.mem].status = "archived") => c.mem \in lost

\* Unless a run dies or a memory is erased under it, an active source memory is
\* linked by a chunk, or about to be: changing and removing files, shared texts
\* and failed runs strand none.
ActiveIsLinked ==
    \A m \in DOMAIN mem : Active(m) => Linked(m) \/ \E x \in Indexer : run[x].got = m

\* What crashes stranded, the last sweep of the next run archives, even if
\* memories are forgotten between its query and its update.
EndsWithoutOrphans ==
    [][\A x \in Indexer :
        (At(x, "archive") /\ run'[x].pc = "idle" /\ (mem' # mem \/ run[x].unlinked = {})) =>
            \A m \in DOMAIN mem' : mem'[m].status = "active" => \E c \in chunks' : c.mem = m]_vars

-----------------------------------------------------------------------------
(* What the tests say of a run *)

\* test_project_indexer_archives_old_chunks_when_file_changes: the chunks of a
\* file a run has been through are parts of its content.
ChangedIsRechunked ==
    \A x \in Indexer : \A f \in run[x].done :
        \A c \in ChunksOf(f) : c.part \in PartsOf(files[f].version)

\* test_project_indexer_source_chunk_summaries_include_line_range: every part of
\* a file a run has been through has a chunk.
LongFileIsWhole ==
    \A x \in Indexer : \A f \in run[x].done :
        PartsOf(files[f].version) \subseteq {c.part : c \in ChunksOf(f)}
=============================================================================
