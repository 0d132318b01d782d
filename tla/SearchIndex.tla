---------------------------- MODULE SearchIndex ----------------------------
(***************************************************************************)
(* The full-text index of a chunk table over its life: built or validated  *)
(* when an ingest run starts (target.fts) or by a manual ensure_fts, then  *)
(* searched while runs write, rewrite and delete documents.  On PostgreSQL *)
(* and MariaDB the server keeps the index up to date; on SQLite it is a    *)
(* table of its own, filled when it is (re)built, which a run does before  *)
(* it writes, and naming rows by rowid (sinks/, search.py,                 *)
(* search_sqlite.py, search_mariadb.py).                                   *)
(***************************************************************************)
EXTENDS Integers, Sequences, FiniteSets, FiniteSetsExt, Functions

CONSTANTS
    Engines,     \* among "postgres", "mariadb", "sqlite"
    Documents,   \* doc ids
    Words,       \* a chunk's text is one of these
    MaxChunks,   \* chunks of a document
    MaxRuns,     \* ingest runs
    MaxRowid     \* bound on SQLite's rowids

IndexAssumption ==
    /\ Engines \subseteq {"postgres", "mariadb", "sqlite"}
    /\ MaxChunks \in Nat \ {0} /\ MaxRuns \in Nat /\ MaxRowid \in Nat

Ids == Documents \X (0 .. MaxChunks - 1)
Modes == {"overwrite", "append", "create_if_missing"}

VARIABLES
    engine,
    exists,      \* the chunk table is there
    rows,        \* set of [id, rowid, word]
    ftsIndex,    \* is there one; for SQLite, what it holds: rowid -> word
    run,         \* "none", or the mode, fts and ids written of the run at work
    lastRun,     \* the one that has completed
    runs,        \* started
    indexed      \* observed: <<id, word>> of each row the index was last built from
                 \* that has not been deleted since

indexVars == <<engine, exists, rows, ftsIndex, run, lastRun, runs, indexed>>

NoRun == [mode |-> "none", fts |-> FALSE, wrote |-> {}]
NoIndex == [there |-> FALSE, holds |-> <<>>]

IndexInit ==
    /\ engine \in Engines
    /\ exists = FALSE /\ rows = {} /\ ftsIndex = NoIndex
    /\ run = NoRun /\ lastRun = NoRun /\ runs = 0 /\ indexed = {}

RowWith(table, id) == CHOOSE r \in table : r.id = id
Has(table, id) == \E r \in table : r.id = id
Texts(table) == {<<r.id, r.word>> : r \in table}
StillThere(table) == {text \in indexed : Has(table, text[1])}
NextRowid(table) == IF table = {} THEN 1 ELSE 1 + Max({r.rowid : r \in table})

-----------------------------------------------------------------------------
(* Building the index.                                                     *)

Rebuilt(table) == [n \in {r.rowid : r \in table} |-> (CHOOSE r \in table : r.rowid = n).word]

\* Faulty variant of EnsureSqlite: an index that is there is left as it is.
EnsureSqliteOnce(table, index) ==
    IF index.there THEN index ELSE [there |-> TRUE, holds |-> Rebuilt(table)]

EnsureSqlite(table, index) == [there |-> TRUE, holds |-> Rebuilt(table)]

\* A generated column with its GIN index, and a FULLTEXT index: nothing to fill.
EnsureServer(table, index) == [there |-> TRUE, holds |-> <<>>]

Ensured(table, index) ==
    IF engine = "sqlite" THEN EnsureSqlite(table, index) ELSE EnsureServer(table, index)

\* A caller's ensure_fts; on a missing table it raises.
EnsureFts ==
    /\ exists
    /\ ftsIndex' = Ensured(rows, ftsIndex) /\ indexed' = Texts(rows)
    /\ UNCHANGED <<engine, exists, rows, run, lastRun, runs>>

-----------------------------------------------------------------------------
(* An ingest run.                                                          *)

\* _overwrite_create drops the table, with the server's index on it; SQLite's
\* <table>_fts is not dropped.
Dropped(index) == IF engine = "sqlite" THEN index ELSE NoIndex

\* create_table, then _ensure_or_validate_fts: append needs a table, and with
\* target.fts its index, and changes neither.
CreateTable ==
    /\ run = NoRun /\ runs < MaxRuns
    /\ \E mode \in Modes, fts \in BOOLEAN :
         LET table == IF mode = "overwrite" THEN {} ELSE rows
             kept == IF mode = "overwrite" /\ exists THEN Dropped(ftsIndex) ELSE ftsIndex
         IN /\ mode = "append" => exists /\ (fts => ftsIndex.there)
            /\ exists' = TRUE /\ rows' = table
            /\ ftsIndex' = IF fts /\ mode # "append" THEN Ensured(table, kept) ELSE kept
            /\ indexed' = IF fts /\ mode # "append" THEN Texts(table) ELSE StillThere(table)
            /\ run' = [mode |-> mode, fts |-> fts, wrote |-> {}]
    /\ runs' = runs + 1
    /\ UNCHANGED <<engine, lastRun>>

\* Faulty variant of RowidFor: INSERT OR REPLACE, a new row for an old id.
RowidForReplaced(table, id) == NextRowid({r \in table : r.id # id})

\* INSERT ... ON CONFLICT DO UPDATE keeps the row, and its rowid.
RowidFor(table, id) == IF Has(table, id) THEN RowWith(table, id).rowid ELSE NextRowid(table)

\* Upsert by id, chunk after chunk; then the orphans.
RECURSIVE Upserted(_, _, _, _)
Upserted(table, doc, words, n) ==
    IF n = Len(words) THEN table
    ELSE LET id == <<doc, n>>
             row == [id |-> id, rowid |-> RowidFor(table, id), word |-> words[n + 1]]
         IN Upserted({r \in table : r.id # id} \union {row}, doc, words, n + 1)

WriteDocument ==
    /\ run # NoRun
    /\ \E doc \in Documents, words \in UNION {[1 .. n -> Words] : n \in 1 .. MaxChunks} :
         /\ rows' = {r \in Upserted(rows, doc, words, 0) : r.id[1] = doc => r.id[2] < Len(words)}
         /\ NextRowid(rows') <= MaxRowid + 1
         /\ run' = [run EXCEPT !.wrote = (@ \ ({doc} \X Nat)) \union {<<doc, n>> : n \in 0 .. Len(words) - 1}]
    /\ indexed' = StillThere(rows')
    /\ UNCHANGED <<engine, exists, ftsIndex, lastRun, runs>>

DeleteDocument ==
    /\ run # NoRun
    /\ \E doc \in Documents :
         /\ rows' = {r \in rows : r.id[1] # doc}
         /\ run' = [run EXCEPT !.wrote = {id \in @ : id[1] # doc}]
    /\ indexed' = StillThere(rows')
    /\ UNCHANGED <<engine, exists, ftsIndex, lastRun, runs>>

EndRun ==
    /\ run # NoRun
    /\ lastRun' = run /\ run' = NoRun
    /\ UNCHANGED <<engine, exists, rows, ftsIndex, runs, indexed>>

IndexNext == EnsureFts \/ CreateTable \/ WriteDocument \/ DeleteDocument \/ EndRun
IndexSpec == IndexInit /\ [][IndexNext]_indexVars

-----------------------------------------------------------------------------
(* The keyword leg.                                                        *)

\* SQLite finds rowids in what the index holds and joins them to the table as
\* it is now; without an index the search fails and its error is taken for
\* "no hits".  The servers search the rows themselves and fail without one.
Found(word) ==
    IF engine = "sqlite"
    THEN {r \in rows : r.rowid \in DOMAIN ftsIndex.holds /\ ftsIndex.holds[r.rowid] = word}
    ELSE {r \in rows : ftsIndex.there /\ r.word = word}

\* What was indexed is found, whatever came after: a row that has the text the
\* index was last built from, and has not been deleted since, is found by its
\* word and by no other, however often it was rewritten meanwhile and whichever
\* rows have come, gone or taken over rowids.  (On SQLite a row written since is
\* in no hit or in those of another text: WrittenIsSearchable.)  On the servers
\* what a completed run with target.fts left is found at once.
IndexedIsFound ==
    /\ ftsIndex.there =>
           \A r \in rows : <<r.id, r.word>> \in indexed =>
               \A word \in Words : r \in Found(word) <=> word = r.word
    /\ (engine # "sqlite" /\ run = NoRun /\ lastRun.fts) =>
           \A r \in rows : r \in Found(r.word)

\* "For ingest-driven setups you can skip the manual ensure_fts call entirely by
\* declaring target.fts": what a completed run with it wrote is found by its words.
WrittenIsSearchable ==
    (run = NoRun /\ lastRun.fts) =>
        \A id \in lastRun.wrote :
            Has(rows, id) => RowWith(rows, id) \in Found(RowWith(rows, id).word)
=============================================================================
