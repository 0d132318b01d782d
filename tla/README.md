# chunkshop: a TLA+ model

chunkshop turns documents into rows of a vector table: a *cell* reads a source,
frames and chunks each document, embeds the chunks and writes them through a
sink. Most of it is a pipeline of pure steps; what is hard is what happens
*between* the steps, because cells run again and again from cron, are killed,
fail half-way, run beside each other and beside whoever changes the source, and
keep their progress in a file or a JSON column that no transaction ties to the
table. This directory models that part, checks it with TLC and proves the core
of it with TLAPS. Around it are modules for what is pure but easily wrong: how
texts and code are cut, how searches rank and filter, what the commands decide.

Source paths below are relative to `python/src/chunkshop/` unless they start
with another top directory of the repository.

## Inventory

| component | state it keeps | operations | what is hard | correct means |
|---|---|---|---|---|
| cell runner (`runner.py`), files source (`sources/files.py`), cursor file (`incremental_cursor.py`) | cursor file; locals of a run | start, scan, stat/hash, parse, write, record, prune, trim, save, finalize | kill or exception at any step; files edited under the scan; two reads and three globs per run; `doc_limit` | the cursor never vouches for what the table lacks; a complete run mirrors the directory; ingestion gets through |
| PostgreSQL sink (`sinks/pg.py`) | chunks table, documents table, pending record, write connection | create_table (3 modes), write_document, delete_document | one transaction per document; shared by cells of different source tags; shrinking documents | no torn document; foreign rows survive; orphans go |
| agent memory: staging (`memory/staging.py`), session source (`sources/session_staging.py`), memory sink (`sinks/memory_pg.py`), framer, consolidation chunker | staging table with a watermark column; memory table; per-run `_superseded`, `_seq_base` | stage, select, yield, supersede, insert, invalidate, stamp, prune | realtime and consolidate cells on one session at once; late events; a watermark written long after the read; three transactions per document | nothing staged is forgotten; consolidated memory wins; only the newest fact is live |
| SQLite, MariaDB, ClickHouse sinks | chunks plus a separate vector table (SQLite); delete-then-insert (ClickHouse) | as the PostgreSQL sink | two tables in step; no transactions (ClickHouse) | every chunk has its vector and no other |
| table sources (`sources/pg_table.py` ...), S3 (`sources/s3.py`) | `(after_ts, after_id)` cursor; map of ETags | list after a cursor, fetch, cursor_from | rows committed behind the cursor; objects newer than their listing | no row is skipped for good |
| HTTP source (`sources/http.py`) | ETags and `Last-Modified` per URL, frontier, robots cache | crawl, conditional fetch | 304 pages contribute no links; limits; redirects | every reachable page is visited, a 304 hides no change of an ETag nor one of another second |
| connectors of services (`connectors/*/connector.py`) | tokens, SHAs, timestamps handed to the consumer | walk, changes since, fetch | the service changes between two requests; positions fixed before or after the listing | what the target lacks the next sync comes across |
| connector runner (`_base/runner.py`), raw store (`raw_store/local.py`) | batch of documents, checkpoint; blob and `meta.json` | batch, hand on, checkpoint; put, exists | runs that end early and are tried again; two writes, no transaction | the checkpoint is backed by documents; a fingerprint describes its blob unless a put was cut short |
| rate limiter, OAuth tokens | call history; stored token | wait, call; load, refresh, store | three readings of the clock per call; two processes refreshing one token | no more than one call beyond the window; the stored token is accepted |
| orchestrator (`orchestrator.py`) | pool of processes | spawn, poll, checkpoint, kill | pipes nobody reads; timeout beside completion | every cell is accounted for once; it returns |
| Pipeline (`pipeline.py`) | a sink held open | ingest_text, delete_document | caller threads, retries | as the sink |
| search (`search*.py`) | idle connections; the text index | search legs, fuse, summarize | dead and forked connections; index behind the rows; four dialects of one filter | reads heal; the engines agree; fusion favours nobody |
| embedders (`embedders/`) | the model cache that processes share | download, purge, load; batches with retries | interrupted downloads; answers out of order | a broken download heals; the n-th vector is of the n-th text |
| chunkers (`chunkers/`) | none | cut, pack, group, fall back | window arithmetic, ceilings, chains of fallbacks | chunks cover the text and fit |
| code parsing (`codeparse/`), code relationships | symbols, imports and pending calls of a run | walk, register, resolve, write edges | ten grammars; order of files | no symbol is lost; callers exist; order does not matter |
| bake-off, evaluation, CLI | one table per combination | ingest, score, recommend; plan; search commands | keys that collide; filters combined | a score is of its own combination |
| summarizers, configuration | none that outlives a run | | | |
| Rust port (`rust/chunkshop`) | as the Python components | as the Python components | deferred watermark hook instead of a generator | as the Python components |

How they interact: `run_cell` drives a source's generator and calls the sink
for every framed document; the generator's code after a `yield` runs only when
the runner asks for the next document, which is how the session source defers
its stamp. Cells share nothing but tables and files.

`PROJECT.json` lists every component with its status and every hazard with the
line where it bites.

## Modules

| module | models |
|---|---|
| `IncrementalFiles` | `run_cell` over an incremental `files` source: every step from `load_cursor` to `finalize`, the users of the directory, exceptions and kills |
| `DirectoryMirror` | abstract: what an incrementally synced directory promises a reader of the table |
| `IncrementalFilesMirror` | the refinement mapping from the first to the second |
| `IncrementalFilesProofs` | proofs about `IncrementalFiles` and that it implements `DirectoryMirror` |
| `SessionMemory` | staging table, session source, memory sink, the realtime and consolidate cells, `prune_staging` |
| `SharedTarget` | the chunks table as cells and Pipelines share it: `create_table`, `write_document`, `delete_document` of the four sinks, each on its engine |
| `SessionMemoryProofs`, `SharedTargetProofs`, `ConnectorRunProofs`, `RequestPermitsProofs`, `JobPoolProofs`, `WebCrawlProofs`, `RemoteSourcesProofs` | proofs about the module they are named after |
| `MCIncrementalFiles`, `MCSessionMemory`, `MCSharedTarget` | constants for TLC |
| `RemoteSources` | a consumer and one source of twelve kinds (tables, S3, blobs, RSS, Drive with and without file ids, Dropbox, Notion's databases and its `page_ids`, GitHub, GitLab, Slack) whose history grows between the requests of a sync |
| `WebCrawl` | the HTTP source: seeds, sitemap, robots, frontier, conditional requests and the cursor of validators |
| `ConnectorRun` | the connector runner's batches and checkpoints, the consumer that persists them, the local raw store |
| `RequestPermits` | rate limiter and refreshes of a stored OAuth token |
| `JobPool` | `orchestrate`: child processes, pipes, checkpoints, overall timeout |
| `SearchPool` | the read connections of PostgreSQL searches: reuse, second try, fork, outage, `ef_search` |
| `SearchIndex` | the text index of a table over runs, deletions and rewrites, on three engines |
| `ModelCache` | the fastembed cache: processes that download, die, purge, prefetch |
| `RemoteEmbedder` | one call of the remote embedder: batches, retries, answers in any order |
| `CodeGraph` | the two-phase relationship extractor over files in any order |
| `Bakeoff` | matrix, keys, tables, scores, leaderboards, recommendation |
| `CodeSymbols`, `CommentBlocks`, `TextChunks`, `Retrieval`, `MemoryReader`, `CommandLine`, `EvalPlan` | algorithms without state: code walks and symbol chunks, comment extraction, text chunkers, search and fusion, the reader of memory, CLI commands, evaluation plans |
| `MCServices` | composes `RemoteSources`, `WebCrawl`, `ConnectorRun`, `RequestPermits` and `JobPool` for one run |
| `MCParts`, `MCInputs` | compose the others for one run; inputs of the stateless modules grow step by step |

### IncrementalFiles

A file content is a version number that no file has had before (`Edit`), or one
that existed earlier (`Restore`, when `Restores`). `Frames[v]` says which
documents, with how many chunks each, content `v` is framed into; a document is
`<<IdOf[path], key>>`, `key` standing for the suffix a framer adds. `chunks` is
the table, `cursorFile` the JSON file. `edges` are the `code_edges` rows of a
two-phase extractor, pairs of a calling and a called file: `Calls[v]` names the
files content `v` calls into, and `finalize` resolves a call (`Resolved`) only
against the files `seen` in the same run. `pc` is where `run_cell` is; `base` and `newCur` are its
`cursor` and `new_cursor`; `todo`, `cur`, `fp`, `body` are the locals of the
suspended generator.

The granularity is that of effects others can see or be seen by: a stat, a read
of the file, a commit, a glob, a rename are one action each, so an edit may fall
between the hash (`ReadBytes`) and the parse (`Parse`), between the parse and
the second stat (`RecordDoc`), or between the three globs (`Glob`, `PruneGlob`,
`Trim`). A document's rows commit in one action because `write_document` is one
transaction (`pg.py:470-497`); an exception or kill inside it is `Raise` or
`Crash` before it. `Raise` is any exception but the one the scan itself meets
when its file has gone (`FileVanished`). Saving the cursor is one action because
of `os.replace`.

Settings of the cell are constants: `Detect`, `Mode`, `DeleteOrphans`,
`TwoPhase`, `Limits` (`doc_limit`). `Online` says whether users write while a
run is on; `MaxVersion` bounds the edits and `MaxFaults` the failures.

### SessionMemory

An event is its `seq`. `staged[e]` goes from `absent` over `open` (its INSERT
not committed yet; `staged_at` is the transaction's start) to `committed`. Quietness and the end of
an episode go by `EventTime`, the event's own `EventTs` where it has one and
`staged_at` otherwise; the watermark goes by `staged_at` alone.
`consumed[m][e]` is the watermark in the JSON column. `memory` is a set of row
records; `evs` is the set of events whose text the row holds and `fact` the
(subject, predicate) pair of a fact row. `cell[m]` holds the locals of a run.
`Open` takes the watermark, `Select` reads (READ COMMITTED: it sees what other
transactions committed since), `Take` is the generator yielding the next
session, `Supersede`, `Insert` and `Invalidate` are the sink's three
transactions, `Mark` is the UPDATE the generator reaches when the runner asks
for one more document. `Capped` is `max_sessions`; `LimitReached` is
`doc_limit`, which leaves the generator before `Mark`. The consolidator is
external: it returns the episode's facts or fails (then the episode alone is
kept). `Episodes` and `Windows` are the framer and the realtime chunker, assumed
only to lose no event.

### SharedTarget

The `engine` is chosen in `Init`. `rows` are the committed rows, `vectors` is
SQLite's `vec0` table, `records` PostgreSQL's documents table, `last[d]`
remembers which content of `d` was written last. `cell[c].pc` is the next
statement of the run of cell `c`; `dropped` is what its open transaction has
dropped, `ids` what its DELETE has read.

What an engine makes of the statements is external and shapes the actions.
On PostgreSQL `create_table` and each document are one transaction: `PgMake`,
`PgCommit` and `PgUnrecord` are the commits at which changes are seen, and
`Waits` says which lock the next statement of a cell waits for (the advisory
lock; ACCESS EXCLUSIVE of DROP and ALTER against ROW EXCLUSIVE of writers; row
locks of a document and of its record). `Victim` is the deadlock detector.
On SQLite, MariaDB and ClickHouse each DDL statement takes effect at once
(Python's `sqlite3` opens no transaction for DDL, MariaDB commits implicitly),
so `Drop`, `DropVectors`, `Make` and `MakeVectors` are steps of their own and a
failure between them leaves what was done; a document is one step, being one
transaction under SQLite's write lock or InnoDB's row locks, or one inserted
block. A DELETE is two steps, since what it deletes is read first: PostgreSQL's
snapshot, SQLite's SELECT of the ids, ClickHouse's count. ClickHouse then only
marks the rows (`doomed`); `Mutate` removes them some time later.

`Overlap` says whether an overwriting cell may start beside others. A Pipeline
is a cell that writes no document records; one whose write failed is taken to
be closed.

### Around a pipeline: RemoteSources, WebCrawl, ConnectorRun, RequestPermits, JobPool

`RemoteSources` takes a source to be its history `log`; what a service answers
is a view of the log taken when it is asked. `sync` is the call in progress:
`Start` lists (or only fixes the position, where the connector does that
first), `List`, `Stat`, `FetchPage` and `ReadPage` are the further requests, `Emit` is a
document yielded and written, `Merged` what `cursor_from` makes of it.
`Changed`, `Body` and `Merged` have one operator per kind, translated from that
connector. The consumer persists the cursor after the sync or, where the source
permits it (`PerDocument`), after each document. What the services themselves
answer (Notion's filter, Slack's threads) is taken from the repository's mocks.
Everything the world may do that a connector cannot cope with is named in
`Hazards` and off in the run: transactions that commit behind the cursor, equal
contents, two edits in a minute Notion has already handed out, an edit of a page
of `page_ids` that was fetched while others are still to be, downloads that
fail after the position moved, force pushes, late replies. A Notion database is
listed in one response; where it takes several, what is said of `page_ids` holds
of it too. `page_ids` name pages that exist, as a missing one fails every sync;
adding a page to them whose last edit is older than the cursor is not modelled.

In `WebCrawl` a URL is normalized by `PageOf`; `tags` is the persisted map of
validators: a page's ETag changes with its content, a page without one
(`Untagged`) is told by the second of its `Last-Modified` (`SecondOf`), and one
with neither (`Undated`) is fetched every time. `crawl` has the locals of one
crawl, whose requests are one action each.
`ConnectorRun` numbers documents in source order, so that a checkpoint is a
number; `run` is where the runner's generator stands, `docBatch` the attribute
that survives a generator that was dropped. `raw[d]` is a blob and a
`meta.json`, written in two actions, either of which may tear its file; `cut[d]`
remembers for which content a put came to no end. `exists` raises on a torn
`meta.json`, as `local.py:43` does. `RequestPermits` has a discrete clock for
the limiter's history, its waits and the token's expiry. A call reads the clock
when it drops old calls (`Look`) and when it notes itself (`Note`), and goes out
after that (`Send`); a sleep ends at its time or, as the system may have it, any
time later. `noted` is what the limiter has written down, `made` what has gone
out. In `JobPool` a child
writes into a pipe with room for `PipeRoom`, and `phase` walks through one
iteration of the orchestrator's loop.

### Parts of a cell

`SearchPool`, `SearchIndex`, `ModelCache`, `RemoteEmbedder`, `CodeGraph` and
`Bakeoff` are state machines with one action per effect that other threads,
processes or later runs can see. The modules without state are operators; a
text is a sequence of character classes with places, so that covering a text is
a statement about places; source code is a sequence of declarations and calls
with their enclosing node, so that each language's downward walk (symbols) and
upward walk (callers) can be compared; a table to search is a sequence of rows,
nearest first; names that the code joins with separators are sequences of
words, so that collisions are kept, and `SlugOf` makes of a word what `_slug`
does. The rows of a session are numbered as `MemorySink` stores them (`Stored`).
`MCInputs` says with what each of them
begins and how it grows, one line, token, row or edge per step.
An edge of `CodeGraph` ends at a node: a name and the file it was registered
with. Two files that agree in the last three parts of their paths give their
symbols one name, and the file read first keeps it; `GraphIgnoresOrder` is
stated for files that differ there, and its instance has only such files.

## Runs

| run | shows |
|---|---|
| `files_safety` | two files, edits and deletions during runs, kills, exceptions, `doc_limit`, documents that change ids with their content, `delete_orphans` off: `SkippedIsIngested`, `SyncedStaysSynced`, `FailedRunKeepsCursor`; and the inductive invariant of the proofs, `CursorInv` |
| `files_offline` | no failures, files change only between runs, old contents may return: a complete run leaves an exact mirror (`MirrorsAtCompletion`) |
| `files_refine` | `DirectoryMirror` is implemented, its fairness included, and `EventuallyIngested`, through a failure and edits during runs; with a two-phase extractor, a run that ends without an error has linked the files it ingested to each other (`FilesOfARunAreLinked`) |
| `memory_consolidate` | the consolidate cell alone, late events, a failure, `doc_limit`: `RetiredIsRemembered` and `FactsOfSessionSettled` |
| `memory_both` | both cells and `prune_staging` on one session, staging transactions in flight: `RowsContiguous` |
| `memory_live` | every staged event reaches consolidated memory and stays (`EventuallyRemembered`), events staged in any order |
| `targets_apart` | three cells of two tags on one table, all four engines, failures anywhere, overwriting runs apart: `LastWriteStands`, `VectorsPresent`, `RecordsAgree`, `ForeignRowsSurvive` |
| `targets_overlap` | overwriting runs at any time, on the engines with locks: `LastWriteStands`, `RecordsAgree` and `EveryRunEnds` through lock waits, time-outs and deadlocks |
| `services` | crawls (`FirstCrawlIsComplete`, `UnmodifiedIsStored`), connector runs (`CheckpointIsBacked`, `StoreIsTruthful`), limiter and tokens (`RateIsHeld`, `StoredTokenIsValid`), the orchestrator (`ResultIsTrue`, `OrchestrateReturns`) and syncs of every kind of source (`StaleIsDue`, `SettledIsDone`, `EventuallyCurrent`); 470,499 states |
| `parts` | connections (`PoolServes`), text index (`IndexedIsFound`), embedders (`EmbedderServes`), code and comments (`CodeIsRead`), call graph (`GraphIgnoresOrder`), chunkers (`ChunksAreComplete`), search and memory reader (`AnswersAgree`), commands and plans (`CommandsAnswer`), bake-off (`BakeoffIsFair`); 405,717 states |
| `memory_overwritten` | **violated**: `RetiredIsRemembered`, when a slow realtime run writes over a consolidated row |
| `bakeoff_collide` | **violated**: `BestIsRecommended`, when two chunkers differ in a setting that is not in the key of their table |

In `services` and `parts` each behaviour belongs to one `subject`, chosen in
the initial state; the others stay as they began. It is one run in place of
many and not a composition: the subjects share no state in the code either.
Where one property of `parts` joins several (`AnswersAgree`, `CommandsAnswer`,
`EmbedderServes`, `CodeIsRead`, `PoolServes`), each conjunct has a mutant.

The properties are stated, each with the code it is about, at the end of the
modules. Every property of a passing run has at least one mutant in `PROJECT.json`: a
plausible slip in one operation under which TLC finds the property violated.

### Bounds

Two paths, three or four contents and up to two chunks per document: a document
can grow, shrink and return, one file can be in flight while another is done,
pruned or recreated. One failure is enough, since a run keeps no memory of an
earlier one but through cursor and table, both of which the first failed run
can leave in every reachable combination. Three events in two sessions, or two
in one with both cells active: one session can be consolidated while another is
capped or late, and an event can straddle a run. `MaxTime` (4 to 8 ticks) lets
each event be staged, become quiet and be consolidated twice. `SharedTarget`
has no bound on runs, writes or failures: contents are chosen from two (one
chunk, two chunks), so a document grows, shrinks and returns for ever in
finitely many states; the two cells of tag `A` write one document, the cell of
tag `B` another.

`services`: a sync sees up to four events and one failure, enough for two items
to change before, between and after the requests of a sync and for a second
sync to meet what the first one left; the crawl has seven pages on two hosts
three links deep with `crawl_depth` 1 and `max_pages` 4, so that depth, limit,
robots, hosts and content types each cut something; two versions of each page
and one mishap; three connector documents in batches and pages of two; two
calls per period of four ticks; two processes; three cells, two at a time, one
of which writes more than its pipe holds. `parts`: three readers, one of them
in a forked child, and one outage; two documents of two chunks and two runs on
each engine; three loaders of two repositories, two of which share one, and two
kills; five texts in batches of three; programs of up to four declarations in
ten languages, comments of up to five tokens, documents of four lines under
sixteen configurations, tables of five rows under nine filters, graphs of three
functions and three edges, two evaluation axes, a bake-off of four chunkers and
two models on three targets. The smallest instance of each fault that the
mutants plant lies well inside these.

### Fairness

Liveness assumes what cron gives: a cell that is idle is started again
(`WF(Start)`), a started run takes its next step (`WF(RunStep)`), a staging
transaction commits, time passes. Nothing is assumed of users or failures; they
end because they are bounded, which is the "once they are done" of the
properties. `EveryRunEnds` assumes nothing of the scheduler that starts cells,
but that a started run takes its next step (`SF(RunStep)`: strong, because the
databases queue lock requests, so a statement that may go on again and again is
served) and that PostgreSQL's deadlock detector works (`WF(Victim)`).

`EventuallyCurrent` assumes that the consumer keeps calling the source and a
started sync goes on (`WF(SyncStep)`), and that an open transaction ends; what
changes at the source and what fails is bounded. `OrchestrateReturns` assumes
that the orchestrator's loop goes on (`WF(Orchestrator)`; the loop sleeps and
polls, it waits for no child) and that time passes (`WF(Elapse)`): nothing is
assumed of the children, which may wait for ever on a full pipe.

### Further configurations

The directory holds configurations that are not runs of the project. Each
checks one property that documentation suggests and the code does not keep, and
TLC shows how in a few steps; `tlc -config <name>.cfg <module>.tla` reproduces
it.

| configuration | refutes | how |
|---|---|---|
| `files_framed_delete` | `MirrorsAtCompletion` | a deleted file's framed ids (`a.md#0`) are not the id that is pruned |
| `targets_foreign` | `ForeignRowsSurvive` | another cell commits between the check for foreign tags and the DROP |
| `targets_torn_delete` | `LastWriteStands` | PostgreSQL's DELETE waits for a writer of the same document and does not see the rows it inserted |
| `targets_sqlite_race` | `VectorsPresent` | no create lock: an overwriting cell drops the `vec0` table another cell has just made and filled |
| `targets_sqlite_stale` | `VectorsMirror` | dead between the two DROPs, the next run finds no chunks table and keeps the old vectors |
| `targets_sqlite_like` | `VectorsPresent` | the orphan DELETE takes the vectors of a document whose id its LIKE pattern matches |

The same modules refute more with other constants, starting from a run's
configuration:

| from | with | refutes |
|---|---|---|
| `files_offline` | `Frames <- EmptiedFrames` | `MirrorsAtCompletion`: content without chunks never reaches the sink, the old rows stay |
| `files_offline` | `Online = TRUE`, `Restores = FALSE` | `MirrorsAtCompletion`: ingested and deleted within one run, in no cursor, never pruned |
| `files_offline` | `Online = TRUE` | `PruneSparesPresentFiles`: gone at the prune's glob, back before its DELETE |
| `files_offline` | `MaxFaults = 1` | `SkippedIsIngested`: old content returns after a run that died with newer content written |
| `files_refine` | `Detect = "mtime"` | `SkippedIsIngested`: the second stat sees an edit nobody ingested |
| `files_offline` | `Mode = "overwrite"` | `SkippedIsIngested`: the default mode drops the table and keeps the cursor |
| `files_safety` | `TwoPhase = TRUE` | `FailedRunKeepsCursor`: `write_edges` fails after the cursor was saved |
| `memory_consolidate` | `DeleteOrphans = TRUE` | `RetiredIsRemembered`: the orphan DELETE counts the chunks of one episode |
| `memory_consolidate` | property `MemoryIsNeverLost` | between supersede and insert nothing of the session is there |
| `memory_consolidate` | `MaxSessions = 1` | `RetiredIsRemembered`: sessions beyond the cap are stamped all the same |
| `memory_consolidate` | `Straddle = TRUE` | `RetiredIsRemembered`: INSERT begun before the watermark, committed after the SELECT, stamped by the UPDATE |
| `memory_consolidate` | property `NewestFactWins` | rebuilding an older session brings its retracted fact back live |
| `memory_consolidate` | `Prunes = TRUE`, `Monotone = FALSE`, property `PrunedIsRemembered` | a stamp given to a row that was never read lets it be pruned |
| `memory_both` | `Cells = {"realtime"}` | `ConsumedIsReadable`: a second realtime run starts at `seq` 0 over the first run's rows |
| `targets_apart` | two cells of two tags, `DocsOf <- DocOne` | `ForeignRowsSurvive`: the orphan DELETE is not scoped by tag |
| `targets_apart` | `Pipelines = {"b"}` | `RecordsAgree`: a Pipeline writes no document records |
| `targets_apart` | ClickHouse, `DimOf <- OtherDim` | `VectorsComparable`: the preflight takes an empty table on faith |
| `services` | `Hazards` of `RemoteSources`, one at a time | `StaleIsDue`: late commits, failed downloads, force pushes, late replies, same-minute edits and edits between the fetches of `page_ids` each leave a document that no later sync comes across |
| `services` | property `UnmodifiedIsCurrent` of `WebCrawl` | a page without an ETag changes twice within one second: the second content is answered with 304 and never fetched (`http.py:266`) |
| `services` | property `StoredMatches` of `ConnectorRun` | after a put that was cut short, the new or a torn blob stands under the old fingerprint (`local.py:28-30` against `raw_store/base.py:23-25`) |
| `services` | property `RateIsExact` of `RequestPermits` | a call that goes out late is followed by those of a new window: the service gets one more than `max_calls` in a period (`rate_limit.py:75-76` against 25-26) |
| `services` | property `OneDocumentPerPage` | a seed and a link that normalize alike are stored under two URLs (`http.py:62-64`) |
| `services` | property `NoRefreshIsRejected` | two processes refresh one rotating token, one is refused (`oauth/refresh.py:11-12`) |
| `services` | property `EveryCellRuns` | after the overall timeout pending cells are in no list of the result |
| `services` | property `WhereSelects` | the query of a PostgreSQL table's `iter_changes_since` has no `where`: rows the configuration leaves out are taken (`pg_table.py:83`) |
| `parts` | property `GlobsAreKept` | `--by-symbol "Base,Http*"`: name and glob become two conditions on one column and nothing matches |
| `parts` | property `EfSearchIsUsed` | on a pooled connection, in autocommit, the transaction-local `ef_search` is gone when the query runs |
| `parts` | property `WrittenIsSearchable` | SQLite's text index is filled before the run writes (`sqlite.py:97-122` against `docs/hybrid-search.md:381`) |
| `parts` | property `FactsHaveTheirChunk` | the facts of a session's second episode come with the first one's text: `source_chunk_seq` is 0 (`consolidation.py:67`), the rows are numbered on (`memory_pg.py:59`) |
| `parts` | property `RunIdsDiffer` | workloads `w1` and `W1` are both accepted and their runs have one id (`eval/planner.py:91`) |
| `parts` | `CodeIsRead` for Java and C# | calls in anonymous classes and default interface methods have callers that are no symbols |
| `parts` | `CodeIsRead` for Go, Rust and C++ | methods declared outside their type have a parent and are in no function chunk (`symbol_aware.py:303`) |
| `parts` | `Short` of `RemoteEmbedder` | `EmbedderServes`: an endpoint that leaves items out shifts every later vector; nothing compares the lengths |
| `parts` | property `LiveDownloadStays` of `ModelCache` | the purge also deletes what another process is downloading (`fastembed_provider.py:36-38`) |
| `parts` | `TenantsStayApart` of `MemoryReader` | without a namespace, equal session ids of two tenants make one record (`reader.py:114`) |
| `parts` | `SplitsFit`, `SectionsAreStoredWhole` of `TextChunks` | a separator kept after a full piece exceeds the limit (`_splitting.py:68`); a long section is cut in pieces, and a last piece shorter than `min_chars` is dropped (`sentence_aware.py:51`) |

They mark the limits of what the passing runs show: `files_safety` holds
because its contents never return and changes are detected by hash,
`memory_consolidate` because no staging transaction straddles a run, and so on.
Some hazards of `PROJECT.json` have no property that covers all of them, because
what the code does there is the hazard: edges lost to a failure after the cursor
was saved, or to callees in files the run passes over; links of pages answered
with 304 in later crawls; rows that SQLite's text index has not seen; hits that
SQLite misses with a selective filter over more than 4k rows; methods in
languages that `CodeIsRead` leaves out. Their notes say so.

## Proofs

Eight modules hold the theorems. Each is proved for every value of the
constants that the module's own `ASSUME`s admit (any numbers of files, cells,
documents, events, edits and failures, any framing); where a theorem needs
more, it says so as its own hypothesis. The hypotheses of a theorem are true in
the run that checks its property.

| theorem | says | hypotheses |
|---|---|---|
| `IncrementalFilesProofs`: `Typing` | `TypeOK` | |
| `Invariance` | `CursorInv` | `SafeConfig`: hash detection, a mode that keeps the table, contents that never return, injective ids |
| `SkippedFilesAreIngested` | `SkippedIsIngested` | `SafeConfig` |
| `IngestedContentStays` | `SyncedStaysSynced` | `SafeConfig` |
| `FailedRunsKeepTheCursor` | `FailedRunKeepsCursor` | a one-phase extractor |
| `CellIsMirror` | every step is a step of `DirectoryMirror` or a stutter | `SafeConfig`; `WholeDocuments`: each content one document with a chunk, `delete_orphans` |
| `CompleteRunsMirror` | `MirrorsAtCompletion` | `Offline`: files change between runs only, no failures; `WholeRuns`: no `doc_limit`, a mode that keeps the table, injective ids; `WholeDocuments` |
| `RunsLinkTheirFiles` | `FilesOfARunAreLinked` | `SafeConfig`; a two-phase extractor |
| `SessionMemoryProofs`: `Typing` | `TypeOK` | |
| `RowsStayContiguous` | `RowsContiguous` | `delete_orphans` off |
| `DeliveryIsGuaranteed` | `RetiredIsRemembered` | `GuaranteedDelivery`: the consolidate cell alone, no `max_sessions`, no staging transaction across a run, `delete_orphans` off |
| `FactsSettle` | `FactsOfSessionSettled` | `GuaranteedDelivery`; no pruning; events staged in order; `EpisodesInOrder`: the framer keeps their order |
| `SharedTargetProofs`: `Typing` | `TypeOK` | |
| `CreationIsExclusive` | one cell at a time is in `create_table` (PostgreSQL, MariaDB) | |
| `LastWritesStand` | `LastWriteStands` | `Undisturbed`: on engines other than ClickHouse `delete_orphans`, one tag per document, and but for MariaDB nobody else writes what a run withdraws |
| `VectorsArePresent` | `VectorsPresent` | overwriting runs apart; no id that another document's LIKE pattern matches, or `delete_orphans` off |
| `ForeignRowsAreKept` | `ForeignRowsSurvive` | overwriting runs apart; one tag per document |
| `RecordsAlwaysAgree` | `RecordsAgree` | every cell keeps records; `delete_orphans`; one tag per document; nobody else writes what a run withdraws |
| `ConnectorRunProofs`: `CheckpointsAreBacked` | `CheckpointIsBacked` | |
| `StoreClaimsWhatItHolds` | `StoreIsTruthful` | |
| `RequestPermitsProofs`: `RateIsNeverExceeded` | `RateIsHeld` | |
| `StoredTokensAreValid` | `StoredTokenIsValid` | |
| `JobPoolProofs`: `ResultsAreTrue` | `ResultIsTrue` | |
| `WebCrawlProofs`: `FirstCrawlComplete` | `FirstCrawlIsComplete` | |
| `UnmodifiedStored` | `UnmodifiedIsStored` | |
| `RemoteSourcesProofs`: `SyncInvariant` | `SyncInv`, `SettledInv` | `Orderly`: none of the hazards; a consumer that persists the cursor at each document does so only for tables, S3 and Drive's file ids |
| `NothingIsSkipped` | `StaleIsDue` | `Orderly` |
| `SettledSyncIsEmpty` | `SettledIsDone` | `Orderly` |

`LastWritesStand` and `RecordsAlwaysAgree` do not ask that overwriting runs stay
apart, so they cover `targets_overlap` too. The hypotheses are not for the
proofs' convenience: what refutes the properties without them is in the two
tables above, and in these instances: `RowsContiguous`
with `delete_orphans` when a session's episodes have one, one and three chunks
(the orphan DELETE of the second takes its own row, the third is numbered from 2
and loses all behind that);
`FactsOfSessionSettled` with `Monotone = FALSE`, or with episodes in reverse order;
`LastWriteStands` and `RecordsAgree` of `targets_apart` with
`DeleteOrphans = FALSE`, `LastWriteStands` there with two tags on one document,
`RecordsAgree` of `targets_torn_delete`. Only ClickHouse needs nothing for
`LastWriteStands`, which asks less of it, and MariaDB's DELETE reads what it
deletes under its locks. The exception is that nobody prunes in `FactsSettle`: TLC
finds nothing against it in the instance of `memory_consolidate` with
`Prunes = TRUE`, but the argument by the order of staging does not cover an event
that is pruned and staged again while a run has it in its batch.

### Arguments

None of the properties is inductive. Each proof has an inductive invariant, one
lemma per action (or per group of actions that do the same to what the
invariant speaks of), and a theorem that joins them.

**Cursor** (`CursorInv`). `SkippedIsIngested` speaks of the saved cursor only,
and `Save` makes it speak of `newCur`. The invariant adds that both cursors
vouch only for contents in the table (`Vouched`), that the loaded cursor is
still the saved one and `newCur` differs from it only where the scan has passed
(`Loaded`), that nobody knows a content not written yet (`Known`), what is known
of the document in flight (`Ingesting`: its text is that of its hash unless the
file has moved on, and then no cursor or row knows the new content) and that
whatever is about to be pruned is gone or newer than every cursor (`Pruning`).
TLC checks it in `files_safety`.

**Mirror** (`MirrorInv`). To `CursorInv` it adds that no file's rows are torn
between contents (`Untorn`), that none is published newer than the file
(`Behind`) and that a document being ingested lies between the two (`Reading`):
without the last, a write could take the mirror back to an older content. The
fairness half of `ImplementsMirror` stays with `files_refine`.

**Offline runs** (`RestInv`, `ExactInv`). Without users the file in
flight has the hash and the text it was read with, and an entry with a file's
mtime has its content, so mtime detection is covered too. Then `new_cursor` says
exactly what the table has, but for the document in flight and what is still to
be pruned (`TableInv`), and comes to say what the directory has (`ScanInv`).

**Edges** (`EdgesInv`). Whatever is in `new_cursor` and not as it was loaded was
extracted in this run, with the content of its entry, so `finalize` has both
ends of a call between two such files, whichever was read first.

**Memory.** `NumberedInv` ties `seq_base` of both runs to a row that is there,
which the other cell's supersede must not take: a consolidating run that has
superseded owns the numbers of its session. `RememberedInv` follows an event
from the SELECT to the stamp: the batch is all that was staged of its sessions
by the watermark (`SelectionInv`), what is not yet in memory is in the episodes
still to be written, which get numbers no row has (`SessionInv`), and what a run
has finished is remembered although the stamp comes later. Pruning may take
rows from under a run, but retires no session: the oldest rows go first and the
stamps of a session are those of one run (`OneStamp`). `FactsInv` adds that episodes are written oldest first, so that between an insert and its
invalidation only what that episode states is unsettled.

**Shared table.** `TypeInv` includes which statements a mode and an engine have
(`Fits`). The create lock is held by whoever is creating (`CreatorsLock`); rows
and records carry the tag of all cells that write the document (`SourcesInv`);
what a DELETE has read is still all there is (`DeleteInv`), which is where
`SoleDeleters` is needed. For the records, what `create_table` is about to drop
is known at each of its statements (`DropsFit`), so that chunks never go without
their records, and rows are counted by their distinct `seq`. On SQLite no
chunk is left between the two DROPs (`VectorsInv`).

**Connectors.** A document the run has passed was reported or is coming: the
last of it in `doc_batch`, or the target, is as new as the run (`Passed`); this
survives a kept runner that hands an old batch on first. For the raw store,
`meta.json` describes the blob beside it or a content whose successor's put was
cut short, and is torn only by such a put (`TruthInv`, `MetaVouches`); nothing is
assumed of the runners, whether kept or fresh.

**Rate.** The history is the rest of what the limiter has noted, and what it has
forgotten is a period old (`Remembered`); between a call and the `MaxCalls`-th
after it lies a period (`Spaced`); a request goes out after its call was noted
and before the next one is (`Arrived`), so at most one that was noted earlier
falls into a period of the service's. That `_cleanup` keeps exactly the calls of the
window is induction over the history, made by the least counterexample (`WFMin`
on the naturals).

**Tokens.** With rotation either the storage has the valid token or the one
process that is about to store it has (`OneHolder`), whoever else holds an
outdated one.

**Orchestrator.** Every cell is in the queue, running or in the result, and in
one of them once (`Partition`), and the result agrees with the exit codes
(`Truthful`).

**Crawl** (`CrawlInv`). A first crawl goes in waves (`Wave`): the queue holds
pages `n` links away from a seed, then pages `n + 1` links away; nearer ones
have been visited, and what the fetched pages link to is visited or queued. A
page is therefore first met by its shortest way, and marking it as visited
cannot take from it the depth a later entry would have had. That the waves are
the levels of the definition is induction over the depth, by the least
counterexample (`UpTo`). A validator, persisted or running, came with a content
no newer than the target's (`TagsInv`); validators never go back, so where it is
still the page's, the target's is the same (`Validators`).

**Remote sources** (`SyncInv`). A cursor is given a number, `Reach`, and each
item the number from which on a cursor speaks for it, `Stamp`: its position for
most kinds, its minute for Notion, the position of its thread for a reply.
Whatever the persisted cursor reaches is written (`SavedInv`); whatever the
running one will reach is written or among what the sync has still to emit
(`FlightInv`), and what was listed is still what the source has unless the item
has moved beyond the cursor since (`TodoInv`). For S3 and Drive's file ids,
whose cursors are maps, the cursor's entry is never newer than the target's
(`MapsInv`); for GitHub and GitLab a cursor is a prefix of the branch
(`GitInv`). As long as pages of `page_ids` are being fetched, what was read of
them is still so, which is what excludes the hazard of that name (`FetchInv`). A
change, an open transaction, a reply only ever moves stamps up
(`Grows`), so one lemma covers them all. For `SettledIsDone`, what an undisturbed
sync has listed is all there is and its cursor will be the source's end
(`CalmInv`). TLC agrees with these invariants on the instance of `services`.

Only model-checked: all liveness (`EventuallyIngested`, `EventuallyRemembered`,
`EveryRunEnds`, `OrchestrateReturns`, `EventuallyCurrent`, the fairness of
`ImplementsMirror`), which is out of the provers' reach together with `ENABLED`;
and every property of `parts`. Of these last the pure algorithms are RECURSIVE operators or folds over
data whose results would need induction with an operator as a parameter; each
is compared with a reference definition over enumerated inputs instead.

## Plan

1. `SharedTarget`, the rest: the Rust writers where they differ (SQLite's DELETE
   in one transaction, row-by-row inserts on ClickHouse, MariaDB's lock), a
   Pipeline that stays open after a failed write, `ReplacingMergeTree`.
2. The Rust port where it differs: the memory source's `commit_processed`.
3. Framers and the keyword extractors over enumerated inputs; the other comment
   syntaxes.
4. Proofs: `PoolServes` and the cache half of `EmbedderServes`.

## Not modelled

Wording of texts, embeddings and distances; tree-sitter's grammars;
authentication and paging of the services' APIs; most of the validation of
configuration; statistics and logs. They keep no state a later run depends on,
or are numeric and textual detail that the properties above do not tell apart.
Summarizers and consolidators are heuristics on text, taken as inputs. Demos,
benchmarks and sweep scripts call the cells and print. The Rust port repeats
the Python design and is compared with it only in the plan above; promoted
columns and ClickHouse's merges are not modelled because no property here
depends on them.
