---------------------------- MODULE SharedTarget ----------------------------
(***************************************************************************)
(* One chunks table that several cells and pipelines write: create_table   *)
(* in its three modes, write_document and delete_document of the four      *)
(* sinks (sinks/pg.py, sqlite.py, mariadb.py, clickhouse.py), each on its  *)
(* engine, with what the engine makes of their statements.                 *)
(*                                                                         *)
(* PostgreSQL: create_table and every document are transactions; what they *)
(* change is seen when they commit, and until then they hold locks.        *)
(* SQLite, MariaDB, ClickHouse: every DDL statement takes effect at once;  *)
(* a document is written atomically (SQLite's write lock, InnoDB's row     *)
(* locks, one inserted block).                                             *)
(***************************************************************************)
EXTENDS Integers, FiniteSets

CONSTANTS
    Cells,
    Docs,
    Size,           \* Size[v]: number of chunks of content v, positive
    Engines,        \* the engines of interest
    Tags, NoTag,    \* source_tag; NoTag is None
    TagOf,          \* [Cells -> Tags \cup {NoTag}]
    ModeOf,         \* target.mode
    DimOf,          \* dimension of the cell's embedder
    DocsOf,         \* documents a run of the cell comes across
    ForceOverwrite, \* cells with target.force_overwrite
    Recorders,      \* cells with target.documents.enabled
    Pipelines,      \* in-process Pipelines; the others are run_cell
    PrunesOf,       \* documents the cell may call delete_document for
    DeleteOrphans,  \* target.delete_orphans
    Alike,          \* <<d, e>>: id e, not d, is LIKE the pattern d || '::%'
    Overlap         \* an overwriting cell may start while others are running

NoCell == "none"
Transactional == "postgres"
Contents == DOMAIN Size

ASSUME CellsAssumption ==
    /\ Engines \subseteq {"postgres", "sqlite", "mariadb", "clickhouse"}
    /\ NoCell \notin Cells /\ IsFiniteSet(Cells) /\ NoTag \notin Tags
    /\ TagOf \in [Cells -> Tags \cup {NoTag}]
    /\ ModeOf \in [Cells -> {"overwrite", "append", "create_if_missing"}]
    /\ \A c \in Cells : ModeOf[c] = "append" => TagOf[c] # NoTag
    /\ DimOf \in [Cells -> Nat] /\ DocsOf \in [Cells -> SUBSET Docs]
    /\ PrunesOf \in [Cells -> SUBSET Docs]
    /\ ForceOverwrite \cup Recorders \cup Pipelines \subseteq Cells
ASSUME ContentsAssumption ==
    /\ Contents \subseteq Nat \ {0} /\ Size \in [Contents -> Nat \ {0}]
    /\ Alike \subseteq Docs \X Docs
    /\ DeleteOrphans \in BOOLEAN /\ Overlap \in BOOLEAN

VARIABLES
    engine,
    table,      \* the chunks table: does it exist, and with which dimension
    rows,       \* its committed rows
    vectors,    \* SQLite: the vec0 table
    records,    \* PostgreSQL: the documents table
    lock,       \* who holds the create lock
    last,       \* last[d]: the content written last, 0 if withdrawn since
    cell        \* cell[c]: the locals and the open transaction of a run

vars == <<engine, table, rows, vectors, records, lock, last, cell>>

Seqs == UNION {0 .. Size[v] - 1 : v \in Contents}
Dims == {DimOf[c] : c \in Cells} \cup {0}
\* doomed: a ClickHouse mutation that will remove the row has been submitted.
Rows == [doc : Docs, seq : Seqs, ver : Contents, src : Tags \cup {NoTag},
         dim : Dims, doomed : BOOLEAN]
Idle == [pc |-> "idle", todo |-> {}, doc |-> 0, ver |-> 0, ids |-> {},
         dropped |-> {}]

TypeOK ==
    /\ engine \in Engines
    /\ table \in [made : BOOLEAN, dim : Dims]
    /\ rows \subseteq Rows
    /\ vectors \in [made : BOOLEAN, dim : Dims,
                    ids : SUBSET [doc : Docs, seq : Seqs, ver : Contents]]
    /\ records \in [made : BOOLEAN,
                    docs : SUBSET [doc : Docs, ver : Contents, n : Nat,
                                   src : Tags \cup {NoTag}]]
    /\ lock \in Cells \cup {NoCell}
    /\ last \in [Docs -> Contents \cup {0}]
    /\ cell \in [Cells -> [pc : {"idle", "lock", "dispatch", "drop", "alter",
            "drop_more", "make", "make_more", "ready", "record", "write",
            "commit", "delete", "unrecord"},
          todo : SUBSET Docs, doc : Docs \cup {0}, ver : Contents \cup {0},
          ids : SUBSET Seqs, dropped : SUBSET {"chunks", "documents"}]]

\* A database in which nothing was created yet.
Init ==
    /\ engine \in Engines
    /\ table = [made |-> FALSE, dim |-> 0] /\ rows = {}
    /\ vectors = [made |-> FALSE, dim |-> 0, ids |-> {}]
    /\ records = [made |-> FALSE, docs |-> {}]
    /\ lock = NoCell
    /\ last = [d \in Docs |-> 0]
    /\ cell = [c \in Cells |-> Idle]

data == <<table, rows, vectors, records, last>>

Goto(c, pc) == cell' = [cell EXCEPT ![c].pc = pc]

\* Faulty variant of Released: RELEASE_LOCK forgotten on a pooled connection.
ReleasedNever(c) == lock

\* The end of with_create_lock: of the transaction, RELEASE_LOCK.
Released(c) == IF lock = c THEN NoCell ELSE lock
\* The run ends; what its connection holds is released and rolled back.
Stop(c) == cell' = [cell EXCEPT ![c] = Idle] /\ lock' = Released(c)

-----------------------------------------------------------------------------
(* Locks of the engines: what the next statement of c waits for.           *)

\* PostgreSQL transactions that have written to the chunks table, or, a
\* DELETE that waits for a row, are about to.
UsesChunks(k) == cell[k].pc \in {"commit", "delete", "unrecord"}
UsesRecords(k) == k \in Recorders \ Pipelines /\ cell[k].pc \in {"write", "commit"}
\* DROP and ALTER take ACCESS EXCLUSIVE until the commit.
OwnsChunks(k) == cell[k].pc \in {"drop_more", "make"} /\ table.made
OwnsRecords(k) == cell[k].pc = "make" /\ "documents" \in cell[k].dropped
HasRow(k, d) == cell[k].doc = d /\ \/ cell[k].pc = "commit"
                                   \/ cell[k].pc = "unrecord" /\ cell[k].ids # {}

\* c waits for k, another session of the PostgreSQL server.
PgWaits(c, k) ==
    LET pc == cell[c].pc
        d == cell[c].doc
    IN \/ pc \in {"drop", "alter"} /\ table.made /\ UsesChunks(k)
       \/ pc = "drop_more" /\ c \in Recorders /\ records.made /\ UsesRecords(k)
       \/ /\ pc = "record"
          /\ OwnsRecords(k) \/ (UsesRecords(k) /\ cell[k].doc = d)
       \/ pc = "write" /\ (OwnsChunks(k) \/ HasRow(k, d))
       \/ pc = "delete" /\ HasRow(k, d) /\ cell[c].ids # {}
       \/ /\ pc = "unrecord"
          /\ \/ OwnsRecords(k)
             \/ /\ UsesRecords(k) /\ cell[k].doc = d
                /\ \E r \in records.docs : r.doc = d

\* pg_advisory_xact_lock, GET_LOCK; the other engines have no create lock.
Waits(c, k) ==
    /\ k # c
    /\ \/ cell[c].pc = "lock" /\ lock = k /\ engine \in {"postgres", "mariadb"}
       \/ engine = "postgres" /\ PgWaits(c, k)

Free(c) == \A k \in Cells : ~Waits(c, k)

\* Every session of S waits for another one of S.
Deadlocked(S) == S # {} /\ \A c \in S : \E k \in S : Waits(c, k)

-----------------------------------------------------------------------------
(* create_table.                                                           *)

\* A run of cell c: run_cell or Pipeline.__init__ up to create_table.  Unless
\* Overlap, whoever schedules the cells keeps overwriting runs apart.
Start(c) ==
    /\ cell[c].pc = "idle"
    /\ \A k \in Cells \ {c} :
          Overlap \/ cell[k].pc = "idle" \/ "overwrite" \notin {ModeOf[c], ModeOf[k]}
    /\ cell' = [cell EXCEPT ![c] = [Idle EXCEPT !.pc = "lock", !.todo = DocsOf[c]]]
    /\ UNCHANGED <<engine, data, lock>>

\* with_create_lock.
Lock(c) ==
    /\ cell[c].pc = "lock"
    /\ Free(c)
    /\ lock' = IF engine \in {"postgres", "mariadb"} THEN c ELSE lock
    /\ Goto(c, "dispatch")
    /\ UNCHANGED <<engine, data>>

\* GET_LOCK gives up after 30 seconds.
LockTimeout(c) ==
    /\ engine = "mariadb"
    /\ cell[c].pc = "lock"
    /\ ~Free(c)
    /\ Stop(c)
    /\ UNCHANGED <<engine, data>>

\* Faulty variant of Foreign: the table is the cell's own once its tag occurs.
ForeignIfAbsent(c, found) ==
    LET tags == {r.src : r \in found} \ {NoTag}
    IN IF TagOf[c] \in tags THEN {} ELSE tags

\* SELECT DISTINCT source ... WHERE source IS NOT NULL, less the own tag.
Foreign(c, found) == {r.src : r \in found} \ {NoTag, TagOf[c]}

\* _overwrite_create refuses to drop other tags' rows.
RefusesForeign(c) ==
    /\ c \notin ForceOverwrite
    /\ \/ table.made /\ Foreign(c, rows) # {}
       \/ c \in Recorders /\ records.made /\ Foreign(c, records.docs) # {}

\* Dimensions that embedding_dim may report, {} when it finds none: from the
\* column's type, from the vec0 table's DDL, or from whichever row comes first.
FoundDims ==
    CASE engine = "sqlite" -> IF vectors.made THEN {vectors.dim} ELSE {}
      [] engine = "clickhouse" -> {r.dim : r \in rows}
      [] OTHER -> {table.dim}

\* What _append_preflight may say; ClickHouse takes an empty table on faith.
Preflight(c) ==
    IF ~table.made THEN {FALSE}
    ELSE IF FoundDims = {} THEN {engine = "clickhouse"}
    ELSE {d = DimOf[c] : d \in FoundDims}

\* May the run go on to its statements?
Verdicts(c) ==
    CASE ModeOf[c] = "overwrite" -> {~RefusesForeign(c)}
      [] ModeOf[c] = "append" -> Preflight(c)
      [] OTHER -> {TRUE}

\* The checks of the mode, and which statements follow.  A table that is
\* there is altered (ADD COLUMN IF NOT EXISTS), which on PostgreSQL means a
\* table lock and elsewhere is over at once.
Dispatch(c) ==
    /\ cell[c].pc = "dispatch"
    /\ TRUE \in Verdicts(c)
    /\ \/ ModeOf[c] = "overwrite" /\ Goto(c, "drop") /\ UNCHANGED lock
       \/ /\ ModeOf[c] # "overwrite" /\ ~table.made
          /\ Goto(c, "make") /\ UNCHANGED lock
       \/ /\ ModeOf[c] # "overwrite" /\ table.made
          /\ IF engine = Transactional THEN Goto(c, "alter") /\ UNCHANGED lock
             ELSE Goto(c, "ready") /\ lock' = Released(c)
    /\ UNCHANGED <<engine, data>>

\* RuntimeError: the run ends before it wrote anything.
Refuse(c) ==
    /\ cell[c].pc = "dispatch"
    /\ FALSE \in Verdicts(c)
    /\ Stop(c)
    /\ UNCHANGED <<engine, data>>

\* PostgreSQL: DROP TABLE chunks, or ALTER TABLE, once nobody writes there.
PgChunks(c) ==
    /\ engine = Transactional
    /\ cell[c].pc \in {"drop", "alter"}
    /\ Free(c)
    /\ cell' = [cell EXCEPT
          ![c].dropped = IF cell[c].pc = "drop" /\ table.made THEN {"chunks"} ELSE {},
          ![c].pc = IF cell[c].pc = "drop" THEN "drop_more" ELSE "make"]
    /\ UNCHANGED <<engine, data, lock>>

\* PostgreSQL: DROP TABLE documents.
PgDropRecords(c) ==
    /\ engine = Transactional
    /\ cell[c].pc = "drop_more"
    /\ Free(c)
    /\ cell' = [cell EXCEPT ![c].pc = "make",
          ![c].dropped = @ \cup (IF c \in Recorders /\ records.made
                                 THEN {"documents"} ELSE {})]
    /\ UNCHANGED <<engine, data, lock>>

\* PostgreSQL: CREATE TABLE IF NOT EXISTS for both tables, and the commit.
PgMake(c) ==
    /\ engine = Transactional
    /\ cell[c].pc = "make"
    /\ rows' = IF "chunks" \in cell[c].dropped THEN {} ELSE rows
    /\ last' = IF "chunks" \in cell[c].dropped THEN [d \in Docs |-> 0] ELSE last
    /\ table' = IF table.made /\ "chunks" \notin cell[c].dropped THEN table
                ELSE [made |-> TRUE, dim |-> DimOf[c]]
    /\ records' = [made |-> records.made \/ c \in Recorders,
                   docs |-> IF "documents" \in cell[c].dropped THEN {} ELSE records.docs]
    /\ cell' = [cell EXCEPT ![c].pc = "ready", ![c].dropped = {}]
    /\ lock' = Released(c)
    /\ UNCHANGED <<engine, vectors>>

\* The other engines: DROP TABLE if a second look still finds the table.
Drop(c) ==
    /\ engine # Transactional
    /\ cell[c].pc = "drop"
    /\ table' = [made |-> FALSE, dim |-> 0]
    /\ rows' = {}
    /\ last' = [d \in Docs |-> 0]
    /\ Goto(c, IF engine = "sqlite" /\ table.made THEN "drop_more" ELSE "make")
    /\ UNCHANGED <<engine, vectors, records, lock>>

\* SQLite: DROP TABLE IF EXISTS of the vec0 table.
DropVectors(c) ==
    /\ engine = "sqlite"
    /\ cell[c].pc = "drop_more"
    /\ vectors' = [made |-> FALSE, dim |-> 0, ids |-> {}]
    /\ Goto(c, "make")
    /\ UNCHANGED <<engine, table, rows, records, last, lock>>

\* CREATE TABLE IF NOT EXISTS.
Make(c) ==
    /\ engine # Transactional
    /\ cell[c].pc = "make"
    /\ table' = IF table.made THEN table ELSE [made |-> TRUE, dim |-> DimOf[c]]
    /\ IF engine = "sqlite" THEN Goto(c, "make_more") /\ UNCHANGED lock
       ELSE Goto(c, "ready") /\ lock' = Released(c)
    /\ UNCHANGED <<engine, rows, vectors, records, last>>

\* SQLite: CREATE VIRTUAL TABLE IF NOT EXISTS ... USING vec0.
MakeVectors(c) ==
    /\ engine = "sqlite"
    /\ cell[c].pc = "make_more"
    /\ vectors' = IF vectors.made THEN vectors
                  ELSE [made |-> TRUE, dim |-> DimOf[c], ids |-> {}]
    /\ Goto(c, "ready")
    /\ UNCHANGED <<engine, table, rows, records, last, lock>>

-----------------------------------------------------------------------------
(* write_document.                                                         *)

\* The next document, framed, chunked and embedded, with any content.
BeginWrite(c) ==
    /\ cell[c].pc = "ready"
    /\ \E d \in cell[c].todo, v \in Contents :
          cell' = [cell EXCEPT ![c].todo = @ \ {d}, ![c].doc = d, ![c].ver = v,
                      ![c].pc = IF /\ engine = Transactional
                                   /\ c \in Recorders \ Pipelines
                                THEN "record" ELSE "write"]
    /\ UNCHANGED <<engine, data, lock>>

\* PostgreSQL: the upsert of the document record, first in the transaction;
\* create_table has seen to it that the documents table is there.
PgRecord(c) ==
    /\ cell[c].pc = "record"
    /\ Free(c)
    /\ Goto(c, "write")
    /\ UNCHANGED <<engine, data, lock>>

\* The tables the INSERT names are there and take vectors of this dimension
\* (ClickHouse's Array(Float32) takes any).
Insertable(c) ==
    /\ table.made
    /\ engine \notin {"sqlite", "clickhouse"} => table.dim = DimOf[c]
    /\ engine = "sqlite" => vectors.made /\ vectors.dim = DimOf[c]

\* `source` is write-once: not among the columns an upsert updates.
OwnerOf(c, d, s) ==
    LET old == {r \in rows : r.doc = d /\ r.seq = s}
    IN IF old = {} THEN TagOf[c] ELSE (CHOOSE r \in old : TRUE).src

\* Faulty variant of NewRows: chunks are numbered from one.
NewRowsFromOne(c) ==
    {[doc |-> cell[c].doc, seq |-> s, ver |-> cell[c].ver, dim |-> DimOf[c],
      src |-> OwnerOf(c, cell[c].doc, s), doomed |-> FALSE] :
        s \in 1 .. Size[cell[c].ver]}

\* The rows of the document's chunks.
NewRows(c) ==
    {[doc |-> cell[c].doc, seq |-> s, ver |-> cell[c].ver, dim |-> DimOf[c],
      src |-> OwnerOf(c, cell[c].doc, s), doomed |-> FALSE] :
        s \in 0 .. Size[cell[c].ver] - 1}

\* Faulty variant of Upserted: the orphan DELETE is one off.
UpsertedKeepsOne(c) ==
    LET n == Size[cell[c].ver]
        Replaced(r) == /\ r.doc = cell[c].doc
                       /\ r.seq < n \/ (DeleteOrphans /\ r.seq > n)
    IN {r \in rows : ~Replaced(r)} \cup NewRows(c)

\* INSERT ... ON CONFLICT (id) DO UPDATE, then DELETE ... seq_num >= n.
Upserted(c) ==
    LET n == Size[cell[c].ver]
        Replaced(r) == /\ r.doc = cell[c].doc
                       /\ r.seq < n \/ (DeleteOrphans /\ r.seq >= n)
    IN {r \in rows : ~Replaced(r)} \cup NewRows(c)

Written(c) ==
    /\ last' = [last EXCEPT ![cell[c].doc] = cell[c].ver]
    /\ cell' = [cell EXCEPT ![c].pc = "ready", ![c].doc = 0, ![c].ver = 0]

\* PostgreSQL: the upserts and the orphan DELETE, the first of which waits for
\* whoever has the row of seq_num 0, or is inserting it.
PgRows(c) ==
    /\ engine = Transactional
    /\ cell[c].pc = "write"
    /\ Insertable(c)
    /\ Free(c)
    /\ Goto(c, "commit")
    /\ UNCHANGED <<engine, data, lock>>

\* Faulty variant of Recorded: a record once written is not replaced.
RecordedOnce(c) ==
    records.docs \cup
        IF \E r \in records.docs : r.doc = cell[c].doc THEN {}
        ELSE {[doc |-> cell[c].doc, ver |-> cell[c].ver, n |-> Size[cell[c].ver],
               src |-> TagOf[c]]}

\* The documents table with the record of c's document, its source write-once.
Recorded(c) ==
    LET old == {r \in records.docs : r.doc = cell[c].doc}
    IN (records.docs \ old) \cup
       {[doc |-> cell[c].doc, ver |-> cell[c].ver, n |-> Size[cell[c].ver],
         src |-> IF old = {} THEN TagOf[c] ELSE (CHOOSE r \in old : TRUE).src]}

PgCommit(c) ==
    /\ cell[c].pc = "commit"
    /\ rows' = Upserted(c)
    /\ records' = IF c \in Recorders \ Pipelines
                  THEN [records EXCEPT !.docs = Recorded(c)] ELSE records
    /\ Written(c)
    /\ UNCHANGED <<engine, table, vectors, lock>>

\* Faulty variant of UpsertedVectors: a vector that is there is left alone.
InsertedVectors(c) ==
    vectors.ids \cup
        {[doc |-> r.doc, seq |-> r.seq, ver |-> r.ver] : r \in
            {x \in NewRows(c) : ~ \E i \in vectors.ids : i.doc = x.doc /\ i.seq = x.seq}}

\* vec0 knows no upsert: DELETE by id and INSERT, then the orphans by LIKE.
UpsertedVectors(c) ==
    LET n == Size[cell[c].ver]
        Replaced(i) ==
            \/ i.doc = cell[c].doc /\ i.seq < n
            \/ /\ DeleteOrphans /\ i.seq >= n
               /\ i.doc = cell[c].doc \/ <<cell[c].doc, i.doc>> \in Alike
    IN {i \in vectors.ids : ~Replaced(i)} \cup
       {[doc |-> r.doc, seq |-> r.seq, ver |-> r.ver] : r \in NewRows(c)}

\* SQLite: both tables in one transaction.
SqliteWrite(c) ==
    /\ engine = "sqlite"
    /\ cell[c].pc = "write"
    /\ Insertable(c)
    /\ rows' = Upserted(c)
    /\ vectors' = [vectors EXCEPT !.ids = UpsertedVectors(c)]
    /\ Written(c)
    /\ UNCHANGED <<engine, table, records, lock>>

\* MariaDB: INSERT ... ON DUPLICATE KEY UPDATE row by row, the orphan DELETE
\* and the commit; writers of the document wait at its first row.
MariaWrite(c) ==
    /\ engine = "mariadb"
    /\ cell[c].pc = "write"
    /\ Insertable(c)
    /\ rows' = Upserted(c)
    /\ Written(c)
    /\ UNCHANGED <<engine, table, vectors, records, lock>>

\* ClickHouse: rows are only ever added.
ClickHouseWrite(c) ==
    /\ engine = "clickhouse"
    /\ cell[c].pc = "write"
    /\ Insertable(c)
    /\ rows' = rows \cup {[r EXCEPT !.src = TagOf[c]] : r \in NewRows(c)}
    /\ Written(c)
    /\ UNCHANGED <<engine, table, vectors, records, lock>>

\* The statement fails, and with it the run: no such table, or vectors of
\* another dimension.
WriteRejected(c) ==
    /\ cell[c].pc = "write"
    /\ ~Insertable(c)
    /\ Stop(c)
    /\ UNCHANGED <<engine, data>>

-----------------------------------------------------------------------------
(* delete_document.                                                        *)

InScope(c, r) == TagOf[c] = NoTag \/ r.src = TagOf[c]
Owned(c, d) == {r \in rows : r.doc = d /\ InScope(c, r)}

\* The first statement and what it reads: the snapshot of PostgreSQL's DELETE,
\* SQLite's SELECT of the ids, ClickHouse's count.
BeginDelete(c) ==
    /\ cell[c].pc = "ready"
    /\ table.made
    /\ engine = Transactional => \A k \in Cells : ~OwnsChunks(k)
    /\ \E d \in cell[c].todo \cap PrunesOf[c] :
          cell' = [cell EXCEPT ![c].todo = @ \ {d}, ![c].doc = d, ![c].pc = "delete",
                      ![c].ids = {r.seq : r \in Owned(c, d)}]
    /\ UNCHANGED <<engine, data, lock>>

\* last after c removed rows of its document.
Withdrawn(c, any) == IF any THEN [last EXCEPT ![cell[c].doc] = 0] ELSE last
Deleted(c) == cell' = [cell EXCEPT ![c].pc = "ready", ![c].doc = 0, ![c].ids = {}]
Picked(c) == {r \in rows : r.doc = cell[c].doc /\ r.seq \in cell[c].ids}

\* PostgreSQL: the DELETE gets its row locks.  A row updated in the meantime
\* is deleted all the same; one inserted in the meantime is not seen.
PgDelete(c) ==
    /\ engine = Transactional
    /\ cell[c].pc = "delete"
    /\ Free(c)
    /\ Goto(c, "unrecord")
    /\ UNCHANGED <<engine, data, lock>>

\* PostgreSQL: the DELETE on the documents table, and the commit.
PgUnrecord(c) ==
    /\ cell[c].pc = "unrecord"
    /\ Free(c)
    /\ rows' = rows \ {r \in Picked(c) : InScope(c, r)}
    /\ records' = IF c \in Recorders
                  THEN [records EXCEPT !.docs =
                          {r \in @ : ~(r.doc = cell[c].doc /\ InScope(c, r))}]
                  ELSE records
    /\ last' = Withdrawn(c, cell[c].ids # {})
    /\ Deleted(c)
    /\ UNCHANGED <<engine, table, vectors, lock>>

\* SQLite: DELETE ... WHERE id IN (the ids read before), in both tables.
SqliteDelete(c) ==
    /\ engine = "sqlite"
    /\ cell[c].pc = "delete"
    /\ rows' = rows \ Picked(c)
    /\ vectors' = [vectors EXCEPT !.ids =
          {i \in @ : ~(i.doc = cell[c].doc /\ i.seq \in cell[c].ids)}]
    /\ last' = Withdrawn(c, Picked(c) # {})
    /\ Deleted(c)
    /\ UNCHANGED <<engine, table, records, lock>>

\* MariaDB: a DELETE reads what is committed when it gets its locks.
MariaDelete(c) ==
    /\ engine = "mariadb"
    /\ cell[c].pc = "delete"
    /\ rows' = rows \ Owned(c, cell[c].doc)
    /\ last' = Withdrawn(c, Owned(c, cell[c].doc) # {})
    /\ Deleted(c)
    /\ UNCHANGED <<engine, table, vectors, records, lock>>

\* ClickHouse: ALTER TABLE ... DELETE is queued; it will remove the rows that
\* are there now.
ClickHouseDelete(c) ==
    /\ engine = "clickhouse"
    /\ cell[c].pc = "delete"
    /\ LET hit == IF cell[c].ids = {} THEN {} ELSE Owned(c, cell[c].doc)
       IN /\ rows' = (rows \ hit) \cup {[r EXCEPT !.doomed = TRUE] : r \in hit}
          /\ last' = Withdrawn(c, hit # {})
    /\ Deleted(c)
    /\ UNCHANGED <<engine, table, vectors, records, lock>>

\* The server gets round to its mutations.
Mutate ==
    /\ \E r \in rows : r.doomed
    /\ rows' = {r \in rows : ~r.doomed}
    /\ UNCHANGED <<engine, table, vectors, records, lock, last, cell>>

-----------------------------------------------------------------------------

\* The run is over, or the Pipeline closed.
Finish(c) ==
    /\ cell[c].pc = "ready"
    /\ Stop(c)
    /\ UNCHANGED <<engine, data>>

\* An exception or the death of the process: open transactions roll back,
\* statements that took effect at once stay.
Fail(c) ==
    /\ cell[c].pc # "idle"
    /\ Stop(c)
    /\ UNCHANGED <<engine, data>>

\* PostgreSQL aborts one of the transactions that wait for each other.
Victim(c) ==
    /\ \E S \in SUBSET Cells :
          c \in S /\ Deadlocked(S) /\ ~Deadlocked(S \ {c})
    /\ Stop(c)
    /\ UNCHANGED <<engine, data>>

CreateStep(c) ==
    \/ Lock(c) \/ LockTimeout(c) \/ Dispatch(c) \/ Refuse(c) \/ PgChunks(c)
    \/ PgDropRecords(c) \/ PgMake(c) \/ Drop(c) \/ DropVectors(c) \/ Make(c)
    \/ MakeVectors(c)
WriteStep(c) ==
    \/ BeginWrite(c) \/ PgRecord(c) \/ PgRows(c) \/ PgCommit(c) \/ SqliteWrite(c)
    \/ MariaWrite(c) \/ ClickHouseWrite(c) \/ WriteRejected(c)
DeleteStep(c) ==
    \/ BeginDelete(c) \/ PgDelete(c) \/ PgUnrecord(c) \/ SqliteDelete(c)
    \/ MariaDelete(c) \/ ClickHouseDelete(c)
RunStep(c) == CreateStep(c) \/ WriteStep(c) \/ DeleteStep(c) \/ Finish(c)

Next ==
    \/ \E c \in Cells : Start(c) \/ RunStep(c) \/ Fail(c) \/ Victim(c)
    \/ Mutate

Spec == Init /\ [][Next]_vars

\* A started run takes its next step; locks are granted in the order of the
\* requests, so that a statement which may go on time and again does so; the
\* deadlock detector works.
FairSpec ==
    /\ Spec
    /\ \A c \in Cells : SF_vars(RunStep(c)) /\ WF_vars(Victim(c))

-----------------------------------------------------------------------------
(* Properties.                                                             *)

\* However the writers of a document interleave, shrink it, fail or are
\* aborted, its rows are those of the write that took effect last, all of them
\* and, where the engine can upsert, no other (pg.py:470-497; incremental.md,
\* "there is no half-written intermediate state").
LastWriteStands ==
    \A d \in Docs :
        LET now == {<<r.seq, r.ver>> : r \in {x \in rows : x.doc = d /\ ~x.doomed}}
            written == IF last[d] = 0 THEN {}
                       ELSE {<<s, last[d]>> : s \in 0 .. Size[last[d]] - 1}
        IN /\ written \subseteq now
           /\ engine # "clickhouse" => now = written

\* SQLite: every chunk has the vector of its own content, else query_top_k
\* does not find it, or finds it by another text (sqlite.py:1-6, 233-252).
VectorsPresent ==
    engine = "sqlite" =>
        \A r \in rows : [doc |-> r.doc, seq |-> r.seq, ver |-> r.ver] \in vectors.ids

\* SQLite: the vector table holds nothing else (sqlite.py:291, "The id column
\* on chunks_vec mirrors the main table's id").
VectorsMirror ==
    (engine = "sqlite" /\ \A c \in Cells : cell[c].pc = "idle") =>
        vectors.ids = {[doc |-> r.doc, seq |-> r.seq, ver |-> r.ver] : r \in rows}

\* PostgreSQL: the documents table tells of every document the content and the
\* number of the chunks that are there, and of no other document.
RecordsAgree ==
    engine = "postgres" =>
        \A d \in Docs :
            {<<r.ver, r.n>> : r \in {x \in records.docs : x.doc = d}} =
            IF last[d] = 0 THEN {}
            ELSE {<<last[d], Cardinality({r \in rows : r.doc = d})>>}

\* Every row of another source_tag than c's is still there after the step.
RowsKept(c) ==
    \A r \in {x \in rows : x.src \notin {NoTag, TagOf[c]} /\ ~x.doomed} :
        \E q \in rows' : /\ q.doc = r.doc /\ q.seq = r.seq
                         /\ q.src = r.src /\ ~q.doomed

\* No step of a cell takes away rows of another source_tag, unless it was told
\* to with force_overwrite (architecture.md, "Refuses to drop a table that
\* holds rows from a foreign source_tag").
ForeignRowsSurvive ==
    [][\A c \in Cells \ ForceOverwrite : cell'[c] # cell[c] => RowsKept(c)]_vars

\* All vectors of the table can be compared (architecture.md, append mode).
VectorsComparable == \A r, q \in rows : r.dim = q.dim

\* Whatever locks the cells take in whatever order, every run comes to an end.
EveryRunEnds == \A c \in Cells : cell[c].pc # "idle" ~> cell[c].pc = "idle"
=============================================================================
