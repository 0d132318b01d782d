-------------------------- MODULE IncrementalFiles --------------------------
(***************************************************************************)
(* One cell that ingests a directory incrementally: the loop of            *)
(* runner.py:run_cell, the files source (sources/files.py), the cursor     *)
(* file (incremental_cursor.py) and the chunks table of a sink             *)
(* (sinks/pg.py), while users create, edit, restore and delete files.      *)
(*                                                                         *)
(* A file's content is a version number.  Every edit draws a new number    *)
(* from one clock, which also serves as the file's mtime; restoring an old *)
(* content keeps the old version under a new mtime.  A sha256 is the       *)
(* version it was computed from.  Version 0 stands for "no file", "no      *)
(* cursor entry" and "no row".                                             *)
(***************************************************************************)
EXTENDS Integers, Sequences, FiniteSets

CONSTANTS
    Paths,          \* positive integers: a path is its rank in sorted(glob)
    RawIds,         \* values of Document.id before framing
    IdOf,           \* [Paths -> RawIds], FilesSource._id_for under cfg.id_from
    MaxVersion,     \* bound: how many edits the users make altogether
    MaxChunks,      \* bound: chunks per framed document
    Frames,         \* Frames[v]: what framer and chunker make of content v
    Calls,          \* Calls[v]: paths of the files that define what v calls
    Keys,           \* suffixes of framed ids; Whole is the unsuffixed raw.id
    Whole,
    Detect,         \* cfg.source.incremental.detect: "hash" or "mtime"
    Mode,           \* cfg.target.mode
    DeleteOrphans,  \* cfg.target.delete_orphans
    TwoPhase,       \* the extractor has finalize(): edges follow the cursor
    Limits,         \* values runtime.doc_limit takes, NoLimit for None
    MaxFaults,      \* bound: exceptions and process deaths altogether
    Online,         \* files may change while a run is in progress
    Restores        \* users may put back an earlier content (git checkout)

NoLimit == -1
Versions == 1 .. MaxVersion
Seqs == 0 .. MaxChunks - 1
DocKeys == RawIds \X Keys

ASSUME PathsAssumption == Paths \subseteq Nat \ {0} /\ IsFiniteSet(Paths)
ASSUME IdsAssumption == IdOf \in [Paths -> RawIds] /\ Whole \in Keys
ASSUME BoundsAssumption ==
    MaxVersion \in Nat /\ MaxChunks \in Nat /\ MaxFaults \in Nat
\* A framer gives the documents of one file distinct ids, and a framed
\* document has at most MaxChunks chunks (0 when the chunker returns []).
ASSUME FramesAssumption ==
    /\ Frames \in [Versions -> Seq([key : Keys, n : 0 .. MaxChunks])]
    /\ \A v \in Versions : \A i, j \in DOMAIN Frames[v] :
          Frames[v][i].key = Frames[v][j].key => i = j
\* A file defines its own symbols, whatever its content: an fqn is made of it.
ASSUME CallsAssumption == Calls \in [Versions -> SUBSET Paths]
ASSUME SwitchesAssumption ==
    /\ Detect \in {"hash", "mtime"}
    /\ Mode \in {"overwrite", "append", "create_if_missing"}
    /\ DeleteOrphans \in BOOLEAN /\ TwoPhase \in BOOLEAN
    /\ Online \in BOOLEAN /\ Restores \in BOOLEAN
    /\ Limits \subseteq Nat \cup {NoLimit}

VARIABLES
    \* the world outside the process
    disk,        \* disk[p]: the file at p, as [ver, mt]
    clock,       \* edits made so far
    \* what survives the process
    chunks,      \* chunks[<<id, key>>][seq]: version held by the row, or 0
    edges,       \* rows of code_edges: <<caller's path, callee's path>>
    cursorFile,  \* the JSON file at cursor_path: [h, mt] per path
    \* locals of run_cell and of its generators
    pc,          \* where run_cell is
    base,        \* cursor, as loaded
    newCur,      \* new_cursor
    todo,        \* paths the generator of iter_changes_since has yet to visit
    cur,         \* the path it is at
    fp,          \* content_hash of cur, Document.fingerprint
    body,        \* the version the parser read, Document.content
    ix,          \* next framed document of body to be written
    docs,        \* docs_processed
    limit,       \* runtime.doc_limit of this run
    dels,        \* doc ids iter_deleted_since yielded, not yet deleted
    seen,        \* <<path, version>> whose symbols and calls extract() has met
    \* observation only
    result,      \* how the latest run ended
    quiet,       \* no file changed since the latest run started
    faults       \* exceptions and process deaths so far

world == <<disk, clock>>
locals == <<base, newCur, todo, cur, fp, body, ix, docs, limit, dels, seen>>
vars == <<world, chunks, edges, cursorFile, pc, locals, result, quiet, faults>>

NoFile == [ver |-> 0, mt |-> 0]
NoEntry == [h |-> 0, mt |-> 0]
NoCursor == [p \in Paths |-> NoEntry]
EmptyDoc == [s \in Seqs |-> 0]

Disks == [Paths -> [ver : 0 .. MaxVersion, mt : 0 .. MaxVersion]]
Cursors == [Paths -> [h : 0 .. MaxVersion, mt : 0 .. MaxVersion]]
Docs == [Seqs -> 0 .. MaxVersion]
Tables == [DocKeys -> Docs]

TypeOK ==
    /\ disk \in Disks
    /\ clock \in 0 .. MaxVersion
    /\ chunks \in Tables
    /\ edges \in SUBSET (Paths \X Paths)
    /\ cursorFile \in Cursors
    /\ pc \in {"idle", "create", "glob", "next", "read", "parse", "frame",
               "end", "prune_glob", "prune", "trim", "save", "finalize"}
    /\ base \in Cursors
    /\ newCur \in Cursors
    /\ todo \in SUBSET Paths
    /\ cur \in Paths \cup {0}
    /\ (pc \in {"read", "parse", "frame"} => cur \in Paths)
    /\ fp \in 0 .. MaxVersion
    /\ body \in 0 .. MaxVersion
    /\ (pc = "frame" => body \in Versions)
    /\ ix \in Nat \ {0}
    /\ docs \in Nat
    /\ limit \in Nat \cup {NoLimit}
    /\ dels \in SUBSET RawIds
    /\ seen \in SUBSET (Paths \X Versions)
    /\ result \in {"none", "complete", "truncated", "failed", "crashed"}
    /\ quiet \in BOOLEAN
    /\ faults \in 0 .. MaxFaults

Init ==
    /\ disk = [p \in Paths |-> NoFile]
    /\ clock = 0
    /\ chunks = [d \in DocKeys |-> EmptyDoc]
    /\ edges = {}
    /\ cursorFile = NoCursor
    /\ pc = "idle"
    /\ base = NoCursor /\ newCur = NoCursor
    /\ todo = {} /\ cur = 0 /\ fp = 0 /\ body = 0 /\ ix = 1
    /\ docs = 0 /\ limit = NoLimit /\ dels = {} /\ seen = {}
    /\ result = "none" /\ quiet = TRUE /\ faults = 0

-----------------------------------------------------------------------------
(* The users of the directory.                                             *)

MayTouchDisk == Online \/ pc = "idle"

\* Write content version v to p; the clock is the file's new mtime.
PutFile(p, v) ==
    /\ MayTouchDisk
    /\ clock < MaxVersion
    /\ clock' = clock + 1
    /\ disk' = [disk EXCEPT ![p] = [ver |-> v, mt |-> clock + 1]]
    /\ quiet' = FALSE
    /\ UNCHANGED <<chunks, edges, cursorFile, pc, locals, result, faults>>

\* Create p, or replace its content by one no file has held before.
Edit(p) == PutFile(p, clock + 1)

\* Put back, copy or touch: a content that existed before, under a new mtime.
Restore(p) == Restores /\ \E v \in 1 .. clock : PutFile(p, v)

Delete(p) ==
    /\ MayTouchDisk
    /\ disk[p].ver # 0
    /\ disk' = [disk EXCEPT ![p] = NoFile]
    /\ quiet' = FALSE
    /\ UNCHANGED <<clock, chunks, edges, cursorFile, pc, locals, result, faults>>

-----------------------------------------------------------------------------
(* The end of a run: every local goes, what was committed stays.           *)

EndRun(how) ==
    /\ pc' = "idle"
    /\ result' = how
    /\ base' = NoCursor /\ newCur' = NoCursor
    /\ todo' = {} /\ cur' = 0 /\ fp' = 0 /\ body' = 0 /\ ix' = 1
    /\ docs' = 0 /\ limit' = NoLimit /\ dels' = {} /\ seen' = {}

\* An exception caught by run_cell that only the scan itself can raise: the
\* file the generator is at has gone.
FileVanished ==
    /\ EndRun("failed")
    /\ UNCHANGED <<world, chunks, edges, cursorFile, quiet, faults>>

\* Any other exception: parser, embedder, sink, cursor write, edges write.
\* After the cursor is saved only finalize() can still raise one.
Raise ==
    /\ pc # "idle"
    /\ pc = "finalize" => TwoPhase
    /\ faults < MaxFaults
    /\ faults' = faults + 1
    /\ EndRun("failed")
    /\ UNCHANGED <<world, chunks, edges, cursorFile, quiet>>

\* The process dies.  An open transaction is rolled back by the database.
Crash ==
    /\ pc # "idle"
    /\ faults < MaxFaults
    /\ faults' = faults + 1
    /\ EndRun("crashed")
    /\ UNCHANGED <<world, chunks, edges, cursorFile, quiet>>

-----------------------------------------------------------------------------
(* run_cell.                                                               *)

\* current_paths(): what the glob matches at this moment.
CurrentPaths == {p \in Paths : disk[p].ver # 0}

FirstPath(S) == CHOOSE p \in S : \A q \in S : p <= q

\* load_cursor, new_cursor = dict(cursor); the generator does nothing yet.
Start ==
    /\ pc = "idle"
    /\ pc' = "create"
    /\ base' = cursorFile
    /\ newCur' = cursorFile
    /\ limit' \in Limits
    /\ result' = "none"
    /\ quiet' = TRUE
    /\ UNCHANGED <<world, chunks, edges, cursorFile, todo, cur, fp, body, ix,
                   docs, dels, seen, faults>>

\* sink.create_table(): mode "overwrite" drops the table and makes a new one
\* in one transaction, the other modes keep the rows.
CreateTable ==
    /\ pc = "create"
    /\ pc' = "glob"
    /\ chunks' = IF Mode = "overwrite" THEN [d \in DocKeys |-> EmptyDoc]
                                       ELSE chunks
    /\ UNCHANGED <<world, edges, cursorFile, locals, result, quiet, faults>>

\* The first next() on the generator takes the list of paths once.
Glob ==
    /\ pc = "glob"
    /\ pc' = "next"
    /\ todo' = CurrentPaths
    /\ UNCHANGED <<world, chunks, edges, cursorFile, base, newCur, cur, fp,
                   body, ix, docs, limit, dels, seen, result, quiet, faults>>

\* prev.get("mt") == st.st_mtime: an mtime names one edit here, so the size
\* comparison that follows it is implied.
StatMatches(p, entry) ==
    Detect = "mtime" /\ entry.h # 0 /\ entry.mt = disk[p].mt

\* Faulty variant of HashMatches: a path with an entry counts as unchanged.
AnyEntryMatches(p, entry) == entry.h # 0 /\ disk[p].ver # 0

HashMatches(p, entry) == entry.h # 0 /\ entry.h = disk[p].ver

\* path.stat() of the next path.
StatNext ==
    /\ pc = "next"
    /\ todo # {}
    /\ LET p == FirstPath(todo) IN
         \/ disk[p].ver = 0 /\ FileVanished
         \/ /\ disk[p].ver # 0
            /\ todo' = todo \ {p}
            /\ cur' = p
            /\ pc' = IF StatMatches(p, base[p]) THEN "next" ELSE "read"
            /\ UNCHANGED <<world, chunks, edges, cursorFile, base, newCur, fp,
                           body, ix, docs, limit, dels, seen, result, quiet,
                           faults>>

\* path.read_bytes() and the hash comparison.
ReadBytes ==
    /\ pc = "read"
    /\ \/ disk[cur].ver = 0 /\ FileVanished
       \/ /\ disk[cur].ver # 0
          /\ IF HashMatches(cur, base[cur])
             THEN pc' = "next" /\ fp' = fp
             ELSE pc' = "parse" /\ fp' = disk[cur].ver
          /\ UNCHANGED <<world, chunks, edges, cursorFile, base, newCur, todo,
                         cur, body, ix, docs, limit, dels, seen, result, quiet,
                         faults>>

LimitReached == limit # NoLimit /\ docs >= limit

\* Faulty variant of Parse: frames counted from 0.
ParseFromZero ==
    /\ pc = "parse"
    /\ disk[cur].ver # 0
    /\ body' = disk[cur].ver
    /\ ix' = 0
    /\ pc' = IF LimitReached THEN "end" ELSE "frame"
    /\ UNCHANGED <<world, chunks, edges, cursorFile, base, newCur, todo, cur,
                   fp, docs, limit, dels, seen, result, quiet, faults>>

\* parser.parse(path) reads the file a second time; the document is yielded
\* and the loop leaves at once when the limit has been reached.
Parse ==
    /\ pc = "parse"
    /\ \/ disk[cur].ver = 0 /\ FileVanished
       \/ /\ disk[cur].ver # 0
          /\ body' = disk[cur].ver
          /\ ix' = 1
          /\ pc' = IF LimitReached THEN "end" ELSE "frame"
          /\ UNCHANGED <<world, chunks, edges, cursorFile, base, newCur, todo,
                         cur, fp, docs, limit, dels, seen, result, quiet,
                         faults>>

\* Faulty variant of Written: the chunk after the last one survives.
WrittenKeepsOne(rows, n, v) ==
    [s \in Seqs |-> IF s < n THEN v
                    ELSE IF DeleteOrphans /\ s > n THEN 0 ELSE rows[s]]

\* Faulty variant of Written: the rows land one by one, the last one is lost.
WrittenTorn(rows, n, v) ==
    [s \in Seqs |-> IF s < n /\ (s = 0 \/ s < n - 1) THEN v
                    ELSE IF DeleteOrphans /\ s >= n THEN 0 ELSE rows[s]]

\* Rows of one framed document after write_document: the upsert of n rows
\* and, when delete_orphans is set, DELETE ... seq_num >= n.
Written(rows, n, v) ==
    [s \in Seqs |-> IF s < n THEN v
                    ELSE IF DeleteOrphans THEN 0 ELSE rows[s]]

\* One framed document: chunk, embed, extract, write and commit.  A document
\* without chunks is skipped before the sink sees it.
WriteFrame ==
    /\ pc = "frame"
    /\ ix <= Len(Frames[body])
    /\ ix' = ix + 1
    /\ LET f == Frames[body][ix]
           d == <<IdOf[cur], f.key>>
       IN IF f.n = 0
          THEN chunks' = chunks /\ seen' = seen
          ELSE /\ chunks' = [chunks EXCEPT ![d] = Written(@, f.n, body)]
               /\ seen' = IF TwoPhase THEN seen \cup {<<cur, body>>} ELSE seen
    /\ UNCHANGED <<world, edges, cursorFile, pc, base, newCur, todo, cur, fp,
                   body, docs, limit, dels, result, quiet, faults>>

\* Faulty variant of RecordDoc: the hash is taken when the document is done.
RecordDocRehash ==
    /\ pc = "frame"
    /\ ix > Len(Frames[body])
    /\ disk[cur].ver # 0
    /\ pc' = "next"
    /\ docs' = docs + 1
    /\ newCur' = [newCur EXCEPT ![cur] = [h |-> disk[cur].ver, mt |-> disk[cur].mt]]
    /\ UNCHANGED <<world, chunks, edges, cursorFile, base, todo, cur, fp, body,
                   ix, limit, dels, seen, result, quiet, faults>>

\* Faulty variant of RecordDoc: the cursor file is written per document.
RecordDocSaves ==
    /\ pc = "frame"
    /\ ix > Len(Frames[body])
    /\ disk[cur].ver # 0
    /\ pc' = "next"
    /\ docs' = docs + 1
    /\ newCur' = [newCur EXCEPT ![cur] = [h |-> fp, mt |-> disk[cur].mt]]
    /\ cursorFile' = newCur'
    /\ UNCHANGED <<world, chunks, edges, base, todo, cur, fp, body, ix, limit,
                   dels, seen, result, quiet, faults>>

\* docs_processed += 1; new_cursor.update(cursor_from(raw)): the hash that
\* was read first, with the mtime the file has now.
RecordDoc ==
    /\ pc = "frame"
    /\ ix > Len(Frames[body])
    /\ \/ disk[cur].ver = 0 /\ FileVanished
       \/ /\ disk[cur].ver # 0
          /\ pc' = "next"
          /\ docs' = docs + 1
          /\ newCur' = [newCur EXCEPT ![cur] = [h |-> fp, mt |-> disk[cur].mt]]
          /\ UNCHANGED <<world, chunks, edges, cursorFile, base, todo, cur, fp,
                         body, ix, limit, dels, seen, result, quiet, faults>>

ScanDone ==
    /\ pc = "next"
    /\ todo = {}
    /\ pc' = "end"
    /\ UNCHANGED <<world, chunks, edges, cursorFile, locals, result, quiet,
                   faults>>

\* A run that reached doc_limit neither prunes nor saves the cursor.
EndLoop ==
    /\ pc = "end"
    /\ pc' = IF LimitReached THEN "finalize" ELSE "prune_glob"
    /\ UNCHANGED <<world, chunks, edges, cursorFile, locals, result, quiet,
                   faults>>

\* Faulty variant of PruneGlob: what this run did not ingest is pruned.
PruneUnchanged ==
    /\ pc = "prune_glob"
    /\ pc' = "prune"
    /\ dels' = {IdOf[p] : p \in {q \in Paths : base[q].h # 0 /\ newCur[q] = base[q]}}
    /\ UNCHANGED <<world, chunks, edges, cursorFile, base, newCur, todo, cur,
                   fp, body, ix, docs, limit, seen, result, quiet, faults>>

\* list(source.iter_deleted_since(cursor)): a second glob.
PruneGlob ==
    /\ pc = "prune_glob"
    /\ pc' = "prune"
    /\ dels' = {IdOf[p] : p \in {q \in Paths : /\ base[q].h # 0
                                               /\ q \notin CurrentPaths}}
    /\ UNCHANGED <<world, chunks, edges, cursorFile, base, newCur, todo, cur,
                   fp, body, ix, docs, limit, seen, result, quiet, faults>>

\* sink.delete_document(did), a transaction of its own.  The order is that of
\* the cursor's keys in the JSON file, here any order.
PruneOne ==
    /\ pc = "prune"
    /\ \E id \in dels :
         /\ dels' = dels \ {id}
         /\ chunks' = [chunks EXCEPT ![<<id, Whole>>] = EmptyDoc]
    /\ UNCHANGED <<world, edges, cursorFile, pc, base, newCur, todo, cur, fp,
                   body, ix, docs, limit, seen, result, quiet, faults>>

PruneDone ==
    /\ pc = "prune"
    /\ dels = {}
    /\ pc' = "trim"
    /\ UNCHANGED <<world, chunks, edges, cursorFile, locals, result, quiet,
                   faults>>

\* Faulty variant of Trim: the entries of deleted files stay in the cursor.
TrimNothing ==
    /\ pc = "trim"
    /\ pc' = "save"
    /\ UNCHANGED <<world, chunks, edges, cursorFile, locals, result, quiet,
                   faults>>

\* keep = set(current_paths()): a third glob.
Trim ==
    /\ pc = "trim"
    /\ pc' = "save"
    /\ newCur' = [p \in Paths |-> IF p \in CurrentPaths THEN newCur[p]
                                  ELSE NoEntry]
    /\ UNCHANGED <<world, chunks, edges, cursorFile, base, todo, cur, fp, body,
                   ix, docs, limit, dels, seen, result, quiet, faults>>

\* save_cursor_atomic: temp file and os.replace, one step to an observer.
Save ==
    /\ pc = "save"
    /\ pc' = "finalize"
    /\ cursorFile' = newCur
    /\ UNCHANGED <<world, chunks, edges, locals, result, quiet, faults>>

\* Faulty variant of Resolved: a callee must have been met before its caller.
ResolvedInOrder(met) ==
    {e \in Paths \X Paths : \E v, w \in Versions :
        <<e[1], v>> \in met /\ <<e[2], w>> \in met /\ e[2] \in Calls[v] /\ e[2] <= e[1]}

\* The edges finalize() makes of what a run has met: a call is resolved
\* against the symbols of this run alone; no candidate, no edge.
Resolved(met) ==
    {e \in Paths \X Paths : \E v, w \in Versions :
        <<e[1], v>> \in met /\ <<e[2], w>> \in met /\ e[2] \in Calls[v]}

\* extractor.finalize() and write_edges (an upsert that deletes nothing), then
\* CellResult(error=None).
Finalize ==
    /\ pc = "finalize"
    /\ edges' = edges \cup Resolved(seen)
    /\ EndRun(IF LimitReached THEN "truncated" ELSE "complete")
    /\ UNCHANGED <<world, chunks, cursorFile, quiet, faults>>

RunStep ==
    \/ CreateTable \/ Glob \/ StatNext \/ ReadBytes \/ Parse \/ WriteFrame
    \/ RecordDoc \/ ScanDone \/ EndLoop \/ PruneGlob \/ PruneOne \/ PruneDone
    \/ Trim \/ Save \/ Finalize

User == \E p \in Paths : Edit(p) \/ Restore(p) \/ Delete(p)

Next == Start \/ RunStep \/ Raise \/ Crash \/ User

Spec == Init /\ [][Next]_vars

\* A scheduler starts the cell again and again, and a started run takes its
\* next step; nothing is promised of the users or of faults.
FairSpec == Spec /\ WF_vars(Start) /\ WF_vars(RunStep)

-----------------------------------------------------------------------------
(* Properties.                                                             *)

\* Document i of content v, as read from p, is in table t: all its chunks.
FrameHeld(t, p, v, i) ==
    \A s \in 0 .. Frames[v][i].n - 1 :
        t[<<IdOf[p], Frames[v][i].key>>][s] = v

Held(t, p, v) == \A i \in DOMAIN Frames[v] : FrameHeld(t, p, v, i)

\* iter_changes_since would pass over p if it looked at it now.
WouldSkip(p, cursor) ==
    disk[p].ver # 0 /\ (StatMatches(p, cursor[p]) \/ HashMatches(p, cursor[p]))

\* The rows a table must have to mirror the directory exactly.
Mirrored ==
    \A d \in DocKeys, s \in Seqs :
        chunks[d][s] =
            IF \E p \in CurrentPaths : \E i \in DOMAIN Frames[disk[p].ver] :
                 /\ d = <<IdOf[p], Frames[disk[p].ver][i].key>>
                 /\ s < Frames[disk[p].ver][i].n
            THEN disk[CHOOSE p \in CurrentPaths : IdOf[p] = d[1]].ver
            ELSE 0

\* The saved cursor never promises more than the table holds: whatever file
\* the next run would pass over as unchanged has every chunk of its current
\* content in the table, at every moment, whichever runs failed or died
\* (incremental_cursor.py:7-9, the upsert and the cursor as one protocol).
SkippedIsIngested ==
    \A p \in Paths : WouldSkip(p, cursorFile) => Held(chunks, p, disk[p].ver)

\* A complete run during which no file changed leaves the table equal to the
\* directory: every chunk of every file, no chunk of anything else
\* (docs/incremental.md:520, "captures inserts, updates, AND deletes").
MirrorsAtCompletion == (result = "complete" /\ quiet) => Mirrored

\* A run that reports an error leaves the cursor file as it found it
\* (incremental_cursor.py:7-9).
FailedRunKeepsCursor ==
    [][(pc # "idle" /\ result' = "failed") => cursorFile' = base]_vars

\* No step takes chunks of a file's current content out of the table, once
\* they are all there and the file stays as it is.
SyncedStaysSynced ==
    [][\A p \in Paths :
         /\ disk[p].ver # 0
         /\ disk'[p] = disk[p]
         /\ Held(chunks, p, disk[p].ver)
         => Held(chunks', p, disk[p].ver)]_vars

\* Pruning takes away the chunks of files that are gone, never those of a
\* file that is there (docs/incremental.md:509-510).
PruneSparesPresentFiles ==
    [][pc = "prune" =>
         \A p \in Paths :
            disk[p].ver # 0 /\ disk'[p] = disk[p] /\ Held(chunks, p, disk[p].ver)
                => Held(chunks', p, disk[p].ver)]_vars

\* p was ingested by the run in progress, still has the content that went
\* into its entry, and that content has chunks.
IngestedNow(p) ==
    /\ newCur[p] # base[p]
    /\ newCur[p].h # 0 /\ newCur[p].h = disk[p].ver
    /\ \E i \in DOMAIN Frames[newCur[p].h] : Frames[newCur[p].h][i].n > 0

\* When a run ends without an error, the calls between the files it has put
\* into its cursor have their edges, whichever came first in the scan, was
\* edited or cut off by doc_limit: the next run may pass over all of them and
\* would not extract any (runner.py:202-252 after runner.py:199).  Calls into
\* files this run has passed over are not resolved at all.
FilesOfARunAreLinked ==
    [][pc = "finalize" /\ result' \in {"complete", "truncated"} =>
         \A p, q \in Paths :
            IngestedNow(p) /\ IngestedNow(q) /\ q \in Calls[newCur[p].h]
                => <<p, q>> \in edges']_vars

\* Once users and faults are done, the table comes to hold, and keeps, the
\* current content of every file (the crash-safety paragraph of
\* docs/incremental.md:512-516).
EventuallyIngested ==
    <>[](\A p \in CurrentPaths : Held(chunks, p, disk[p].ver))

-----------------------------------------------------------------------------
(* The inductive invariant behind SkippedIsIngested and SyncedStaysSynced   *)
(* when contents are never restored and changes are detected by hash.       *)

\* The path whose document is between the scan and its cursor entry.
InFlight == IF pc \in {"read", "parse", "frame"} THEN {cur} ELSE {}

\* No row of p in table t holds content v.
NoRow(t, p, v) == \A k \in Keys, s \in Seqs : t[<<IdOf[p], k>>][s] # v

\* p is on disk with the content the entry records.
Current(p, entry) == entry.h # 0 /\ entry.h = disk[p].ver

\* Nobody knows a content that the clock has not given out yet.
Known ==
    /\ \A p \in Paths : /\ disk[p].ver <= clock
                        /\ cursorFile[p].h <= clock
                        /\ newCur[p].h <= clock
    /\ fp <= clock
    /\ body <= clock
    /\ \A d \in DocKeys, s \in Seqs : chunks[d][s] <= clock

\* cursor, as loaded, is the cursor file until the new one replaces it, and
\* new_cursor differs from it only in paths the scan has passed.
Loaded ==
    /\ pc \notin {"idle", "finalize"} => base = cursorFile
    /\ pc \in {"create", "glob"} => newCur = base
    /\ pc \in {"next", "read", "parse", "frame"} =>
          /\ \A p \in todo \cup InFlight : newCur[p] = base[p]
          /\ InFlight \cap todo = {}

\* Both cursors vouch only for contents that are in the table.
Vouched ==
    \A p \in Paths :
        /\ Current(p, cursorFile[p]) => Held(chunks, p, cursorFile[p].h)
        /\ Current(p, newCur[p]) => Held(chunks, p, newCur[p].h)

\* A document being ingested is not one the cursor calls unchanged, its text
\* is that of its hash unless the file has moved on, the documents framed so
\* far are in the table, and content the file has moved on to is not.
Ingesting ==
    /\ pc \in {"parse", "frame"} => fp # 0 /\ ~Current(cur, base[cur])
    /\ pc = "frame" =>
          /\ disk[cur].ver = fp => body = fp
          /\ \A i \in 1 .. ix - 1 : FrameHeld(chunks, cur, body, i)
          /\ disk[cur].ver \in {0, body} \/ NoRow(chunks, cur, disk[cur].ver)
    /\ pc = "frame" => ix <= Len(Frames[body]) + 1

\* A document about to be pruned is that of a file that is gone, or that came
\* back with a content no cursor and no row knows.
Pruning ==
    \A p \in Paths :
        pc = "prune" /\ IdOf[p] \in dels =>
            \/ disk[p].ver = 0
            \/ /\ ~Current(p, cursorFile[p])
               /\ ~Current(p, newCur[p])
               /\ NoRow(chunks, p, disk[p].ver)

\* Together: what every step of such a cell preserves.
CursorInv == TypeOK /\ Known /\ Loaded /\ Vouched /\ Ingesting /\ Pruning

=============================================================================
