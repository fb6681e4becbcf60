----------------------------- MODULE SemanticIndex -----------------------------
(***************************************************************************)
(* The semantic memory of the Markdown notes: the tables documents and     *)
(* vec_documents (internal/memory/memory.go), the routine that indexes one *)
(* file (sync.go), the watcher that calls it when files change             *)
(* (watcher.go) and the mining command that calls it for all (miner.go).   *)
(*                                                                         *)
(* A version stands for the content of a file and its hash; 0 is no file.  *)
(* A vector is what it was computed from.  vec_documents is the virtual    *)
(* table of the sqlite-vec sources in the repository: it refuses a rowid   *)
(* it has, INSERT OR REPLACE or not.                                       *)
(***************************************************************************)
EXTENDS Integers, FiniteSets, FiniteSetsExt

CONSTANTS
  Files,
  Timers,       \* the debounce timers that may run at once; "scanner" is not one
  NumChunks,    \* of a file
  MaxVersion,   \* bound: versions of a file
  MaxRow,       \* bound: rowids of documents
  MaxEdits,     \* bound: changes of the files
  MaxScans      \* bound: restarts of the watcher and runs of the miner

ASSUME SemanticConfig ==
  /\ IsFiniteSet(Files)
  /\ "scanner" \notin Timers
  /\ NumChunks \in Nat \ {0}
  /\ {MaxVersion, MaxRow, MaxEdits, MaxScans} \subseteq Nat

Syncers == Timers \union {"scanner"}

VARIABLES
  disk,       \* the version of each file
  edits,      \* changes of the files so far
  docs,       \* rows of documents
  vecs,       \* rows of vec_documents
  due,        \* files whose debounce timer runs
  removals,   \* files whose Remove event is not handled yet
  scan,       \* files SyncFiles or Mine has still to visit
  scans,
  watching,   \* the initial SyncFiles is over
  job,        \* the syncFile each syncer runs
  broken      \* history: files whose indexing was cut short or overlapped

semanticVars == <<disk, edits, docs, vecs, due, removals, scan, scans, watching, job,
                  broken>>

Idle == [step |-> "idle"]

SemanticInit ==
  /\ disk = [f \in Files |-> 0]
  /\ edits = 0
  /\ docs = {} /\ vecs = {}
  /\ due = {} /\ removals = {} /\ scan = {}
  /\ scans = 0
  /\ watching = TRUE
  /\ job = [s \in Syncers |-> Idle]
  /\ broken = {}

Active(f) == {s \in Syncers : job[s] # Idle /\ job[s].file = f}

RowsOf(f) == {d \in docs : d.file = f}

Goto(s, step) == job' = [job EXCEPT ![s].step = step]

EndJob(s) == job' = [job EXCEPT ![s] = Idle]

-----------------------------------------------------------------------------
(* The user's files and the events the watcher gets *)

\* The watches are set after the initial scan: what changes during it makes no
\* event.
Edit(f) == \E v \in 1..MaxVersion :
  /\ disk[f] # v /\ edits < MaxEdits
  /\ edits' = edits + 1
  /\ disk' = [disk EXCEPT ![f] = v]
  /\ due' = IF watching THEN due \union {f} ELSE due
  /\ UNCHANGED <<docs, vecs, removals, scan, scans, watching, job, broken>>

RemoveFile(f) ==
  /\ disk[f] # 0 /\ edits < MaxEdits
  /\ edits' = edits + 1
  /\ disk' = [disk EXCEPT ![f] = 0]
  /\ removals' = IF watching THEN removals \union {f} ELSE removals
  /\ UNCHANGED <<docs, vecs, due, scan, scans, watching, job, broken>>

\* DeleteBySource, on the goroutine of the watcher.  The vectors stay.
HandleRemove(f) ==
  /\ f \in removals
  /\ removals' = removals \ {f}
  /\ docs' = docs \ RowsOf(f)
  /\ broken' = IF Active(f) # {} THEN broken \union {f} ELSE broken
  /\ UNCHANGED <<disk, edits, vecs, due, scan, scans, watching, job>>

-----------------------------------------------------------------------------
(* syncFile *)

\* Reads the file, if there is one.
BeginJob(s, f) ==
  /\ job[s] = Idle
  /\ job' = IF disk[f] = 0 THEN job
            ELSE [job EXCEPT ![s] = [step |-> "read", file |-> f, ver |-> disk[f],
                                     next |-> 1, fits |-> TRUE]]
  /\ broken' = IF Active(f) # {} THEN broken \union {f} ELSE broken
  /\ UNCHANGED <<disk, edits, docs, vecs, removals, scans, watching>>

TimerSyncs(s) == \E f \in due :
  /\ s \in Timers
  /\ BeginJob(s, f)
  /\ due' = due \ {f}
  /\ UNCHANGED scan

ScannerSyncs == \E f \in scan :
  /\ BeginJob("scanner", f)
  /\ scan' = scan \ {f}
  /\ UNCHANGED due

\* SourceHash asks any one row of the source.
CheckHash(s) ==
  /\ job[s].step = "read"
  /\ \/ /\ \E d \in RowsOf(job[s].file) : d.ver = job[s].ver
        /\ EndJob(s)
     \/ /\ RowsOf(job[s].file) = {} \/ \E d \in RowsOf(job[s].file) : d.ver # job[s].ver
        /\ Goto(s, "changed")
  /\ UNCHANGED <<disk, edits, docs, vecs, due, removals, scan, scans, watching, broken>>

ClearOld(s) ==
  /\ job[s].step = "changed"
  /\ docs' = docs \ RowsOf(job[s].file)
  /\ Goto(s, "cleared")
  /\ UNCHANGED <<disk, edits, vecs, due, removals, scan, scans, watching, broken>>

\* One call for all the chunks.  The vectors fit unless they were computed by a
\* model of another dimension.
EmbedChunks(s) ==
  /\ job[s].step = "cleared"
  /\ \/ EndJob(s)
     \/ \E fits \in BOOLEAN :
          job' = [job EXCEPT ![s].step = "embedded", ![s].fits = fits]
  /\ UNCHANGED <<disk, edits, docs, vecs, due, removals, scan, scans, watching, broken>>

NewRow == IF docs = {} THEN 1 ELSE Max({d.row : d \in docs}) + 1

\* Index, committed: the row replaces one with the same id, under a new rowid.
Indexed(j, vectors) ==
  /\ docs' = {d \in docs : ~(d.file = j.file /\ d.chunk = j.next)}
               \union {[row |-> NewRow, file |-> j.file, chunk |-> j.next,
                        ver |-> j.ver, fits |-> j.fits]}
  /\ vecs' = vectors

TakenRow == \E v \in vecs : v.row = NewRow

OwnVector(j) == {[row |-> NewRow, file |-> j.file, chunk |-> j.next, ver |-> j.ver]}

ChunkDone(s) ==
  IF job[s].next = NumChunks THEN EndJob(s)
  ELSE job' = [job EXCEPT ![s].next = @ + 1]

IndexChunk(s) ==
  /\ job[s].step = "embedded" /\ NewRow <= MaxRow
  /\ ~(job[s].fits /\ TakenRow)
  /\ Indexed(job[s], IF job[s].fits THEN vecs \union OwnVector(job[s]) ELSE vecs)
  /\ ChunkDone(s)
  /\ UNCHANGED <<disk, edits, due, removals, scan, scans, watching, broken>>

\* Broken: goes on with the next chunk.
IndexFailsOn(s) ==
  /\ job[s].step = "embedded"
  /\ ChunkDone(s)
  /\ UNCHANGED <<disk, edits, docs, vecs, due, removals, scan, scans, watching, broken>>

\* The rowid is taken, or the database fails: the transaction is rolled back and
\* the file given up.
IndexFails(s) ==
  /\ job[s].step = "embedded"
  /\ EndJob(s)
  /\ broken' = IF job[s].next > 1 THEN broken \union {job[s].file} ELSE broken
  /\ UNCHANGED <<disk, edits, docs, vecs, due, removals, scan, scans, watching>>

-----------------------------------------------------------------------------
(* Scans *)

\* SyncFiles has visited every file: it deletes the sources without a file, and
\* Watch sets its watches.
CleanUp ==
  /\ ~watching /\ scan = {} /\ job["scanner"] = Idle
  /\ docs' = {d \in docs : disk[d.file] # 0}
  /\ watching' = TRUE
  /\ UNCHANGED <<disk, edits, vecs, due, removals, scan, scans, job, broken>>

Mine ==
  /\ scans < MaxScans
  /\ watching /\ scan = {} /\ job["scanner"] = Idle
  /\ scan' = {f \in Files : disk[f] # 0}
  /\ scans' = scans + 1
  /\ UNCHANGED <<disk, edits, docs, vecs, due, removals, watching, job, broken>>

\* The process ends at any moment and is started again.
RestartWatch ==
  /\ scans < MaxScans
  /\ scans' = scans + 1
  /\ due' = {} /\ removals' = {}
  /\ job' = [s \in Syncers |-> Idle]
  /\ broken' = broken \union {f \in Files : \E s \in Active(f) : job[s].next > 1}
  /\ scan' = {f \in Files : disk[f] # 0}
  /\ watching' = FALSE
  /\ UNCHANGED <<disk, edits, docs, vecs>>

-----------------------------------------------------------------------------
SemanticNext ==
  \/ \E f \in Files : Edit(f) \/ RemoveFile(f) \/ HandleRemove(f)
  \/ \E s \in Syncers :
       TimerSyncs(s) \/ CheckHash(s) \/ ClearOld(s) \/ EmbedChunks(s)
       \/ IndexChunk(s) \/ IndexFails(s)
  \/ ScannerSyncs \/ CleanUp \/ Mine \/ RestartWatch

SemanticSpec == SemanticInit /\ [][SemanticNext]_semanticVars

-----------------------------------------------------------------------------
(* Properties *)

Chunk == [row : Nat, file : Files, chunk : 1..NumChunks, ver : 1..MaxVersion]

Document == [row : 1..MaxRow, file : Files, chunk : 1..NumChunks, ver : 1..MaxVersion,
             fits : BOOLEAN]

SyncJob == [step : {"read", "changed", "cleared", "embedded"}, file : Files,
        ver : 1..MaxVersion, next : 1..NumChunks, fits : BOOLEAN]

SemanticTypeOK ==
  /\ disk \in [Files -> 0..MaxVersion]
  /\ edits \in 0..MaxEdits
  /\ docs \subseteq Document /\ vecs \subseteq Chunk
  /\ due \subseteq Files /\ removals \subseteq Files /\ scan \subseteq Files
  /\ scans \in 0..MaxScans
  /\ watching \in BOOLEAN
  /\ job \in [Syncers -> {Idle} \union SyncJob]
  /\ broken \subseteq Files

\* A file the next scan would skip, because a row of it has the hash of the file
\* on disk, is indexed completely and with that version only: the exceptions are
\* the files whose indexing was once cut short or ran twice at a time, which stay
\* incomplete until they are edited.
SkippedIsComplete == \A f \in Files \ broken :
  Active(f) = {} /\ (\E d \in RowsOf(f) : d.ver = disk[f]) =>
    /\ {d.chunk : d \in RowsOf(f)} = 1..NumChunks
    /\ \A d \in RowsOf(f) : d.ver = disk[f]

\* A search finds a chunk by a vector computed from it: rowids are used again and
\* deletions leave vectors behind, yet only a chunk whose own vector had the
\* wrong dimension inherits one from a deleted chunk.
VectorsMatch == \A d \in docs, v \in vecs :
  d.row = v.row /\ d.fits =>
    <<d.file, d.chunk, d.ver>> = <<v.file, v.chunk, v.ver>>

\* What the index says of a file, in rows and in vectors, is what the file holds.
IndexIsTrue == SkippedIsComplete /\ VectorsMatch
=============================================================================
