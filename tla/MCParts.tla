------------------------------ MODULE MCParts ------------------------------
(***************************************************************************)
(* The parts of a cell and the commands that read its tables, in one run:  *)
(* each behaviour is that of one subject, chosen at the start, while the   *)
(* others stay as they began.  What has no state of its own is asked about *)
(* an input that grows.                                                    *)
(***************************************************************************)
EXTENDS MCInputs

CONSTANTS
    Subjects,       \* the ones of interest
    Matrices        \* of the bake-off

VARIABLES
    subject, input,
    pooled, idle, conn, reader, server, outages, forked,                            \* SearchPool
    engine, exists, rows, ftsIndex, run, lastRun, runs, indexed,                    \* SearchIndex
    corpus, unread, taken, extractor, edges, graphRuns,                             \* CodeGraph
    chunkers, tables, stage, combo, written, sink, vectors, ingests, results,       \* Bakeoff
    report, recommended,
    cache, loading, attempt, registered, loads, kills, alone,                       \* ModelCache
    call, start, retry, embedded                                                    \* RemoteEmbedder

-----------------------------------------------------------------------------
(* Connections, the text index, the model cache, the remote embedder.      *)

Pool == INSTANCE SearchPool WITH
    Readers <- {1, 2, 3}, Children <- {3}, Wanted <- [r \in {1, 2, 3} |-> IF r = 1 THEN 0 ELSE 100],
    MaxIdle <- 2, MaxOutages <- 1

Index == INSTANCE SearchIndex WITH
    Engines <- {"postgres", "mariadb", "sqlite"}, Documents <- {"d1", "d2"},
    Words <- {"apple", "pear"}, MaxChunks <- 2, MaxRuns <- 2, MaxRowid <- 2

\* 2 and 3 use one repository; 3 brings its own file of it.
ModelOf(p) == [repo |-> IF p = 1 THEN "a" ELSE "b", file |-> IF p = 3 THEN "int8" ELSE "fp32", byo |-> p = 3]
Cache == INSTANCE ModelCache WITH Loaders <- {1, 2, 3}, Model <- ModelOf, MaxKills <- 2, MaxLoads <- 2

Remote == INSTANCE RemoteEmbedder WITH Texts <- 5, BatchSize <- 3, MaxRetries <- 2, Short <- FALSE

-----------------------------------------------------------------------------
(* The call graph of three files.                                          *)

Module(symbols, calls, imports, bases) ==
    [hint |-> "python", looks |-> "none", symbols |-> symbols, calls |-> calls,
     imports |-> imports, bases |-> bases]
Run == <<"", "run">>
Go == <<"", "go">>
Base == <<"", "Base">>
ClassRun == <<"K", "run">>
TextsOf == [f \in {"a", "b", "c"} |->
    CASE f = "a" -> {<<Module(<<Run, Go>>, <<<<Run, "go">>, <<Run, "run">>>>, {}, <<>>),
                       Module(<<<<"", "K">>, ClassRun>>, <<<<ClassRun, "go">>>>, {},
                            <<<<"K", "INHERITS", "Base">>>>)>>,
                     <<Module(<<Run>>, <<<<Run, "go">>>>, {"b"}, <<>>)>>}
      [] f = "b" -> {<<Module(<<Go>>, <<<<Go, "run">>>>, {}, <<>>), Module(<<Base>>, <<>>, {}, <<>>)>>,
                     <<Module(<<Go>>, <<<<Go, "K">>>>, {}, <<>>),
                       [Module(<<Run>>, <<>>, {}, <<>>) EXCEPT !.hint = "none"]>>}
      [] OTHER -> {<<Module(<<Go>>, <<<<Go, "run">>, <<Go, "go">>>>, {}, <<>>)>>,
                   <<Module(<<Base, Go>>, <<<<Go, "K">>>>, {"a"}, <<>>)>>, <<>>}]
Graph == INSTANCE CodeGraph WITH
    SourceFiles <- {"a", "b", "c"}, Prefix <- [f \in {"a", "b", "c"} |-> f], Texts <- TextsOf,
    MaxGraphRuns <- 2

-----------------------------------------------------------------------------
(* A bake-off of chunkers and two models on three targets.                 *)

Chunker(type, window, step, max_chars, base) ==
    [type |-> type, window |-> window, step |-> step, max_chars |-> max_chars, base |-> base]
Narrow == Chunker("fixed_overlap", 1, 1, 0, <<>>)
Wide == Chunker("fixed_overlap", 2, 1, 0, <<>>)
Sections(n) == Chunker("hierarchy", 0, 0, n, <<>>)
\* The second one has a chunker that the keys do not know.
DistinctKeys == {<<Sections(1), Narrow, Wide, Chunker("neighbor_expand", 1, 0, 0, <<Narrow>>)>>,
                 <<Wide, Chunker("code_aware", 0, 0, 0, <<>>)>>}
SharedKeys == {<<Sections(1), Sections(2)>>}
CountOf(chunker, doc) ==
    CASE chunker.type = "hierarchy" -> 2 \div chunker.max_chars
      [] doc = 3 /\ chunker.window = 2 -> 0
      [] OTHER -> 2
\* Any numbers that tell combinations apart.
DistanceOf(q, e, row, metric) ==
    LET blur == 2 * row.chunker.window + row.chunker.max_chars + Len(row.chunker.base)
                + (IF row.embedder.model = "x" THEN 1 ELSE 0) + (IF row.embedder # e THEN 3 ELSE 0)
                + (IF metric = "l2" THEN 1 ELSE 0)
    IN ((3 * (q + blur) + 5 * row.doc + row.seq) % 7) * 10 + 2 * row.doc + row.seq
Bake == INSTANCE Bakeoff WITH
    Embedders <- <<[org |-> "o", model |-> "x"], [org |-> "o", model |-> "y"]>>,
    Targets <- <<[type |-> "postgres", dsn |-> "PG", label |-> <<>>, metric |-> "cosine"],
                 [type |-> "postgres", dsn |-> "PG", label |-> <<>>, metric |-> "l2"],
                 [type |-> "sqlite", dsn |-> "SQ", label |-> <<>>, metric |-> "cosine"]>>,
    Exported <- {"PG", "SQ"}, Documents <- <<1, 2, 3>>,
    GoldQueries <- <<[query |-> 1, gold_doc_id |-> 1], [query |-> 2, gold_doc_id |-> 2]>>,
    RecallAt <- {1, 2}, TopK <- 3, ChunkCount <- CountOf, Distance <- DistanceOf

ASSUME PartsAssumption == Pool!PoolAssumption /\ Index!IndexAssumption /\ Graph!GraphAssumption

-----------------------------------------------------------------------------
(* The whole.                                                              *)

poolVars == <<pooled, idle, conn, reader, server, outages, forked>>
indexVars == <<engine, exists, rows, ftsIndex, run, lastRun, runs, indexed>>
graphVars == <<corpus, unread, taken, extractor, edges, graphRuns>>
bakeVars == <<chunkers, tables, stage, combo, written, sink, vectors, ingests, results, report, recommended>>
cacheVars == <<cache, loading, attempt, registered, loads, kills, alone>>
embedVars == <<call, start, retry, embedded>>
partVars == <<subject, input, poolVars, indexVars, graphVars, bakeVars,
              cacheVars, embedVars>>

\* Who is not the subject begins in one state only.
PartsInit ==
    /\ subject \in Subjects
    /\ input \in Seeds(subject)
    /\ Pool!PoolInit /\ (subject # "pool" => pooled)
    /\ Index!IndexInit /\ (subject # "index" => engine = "sqlite")
    /\ Graph!GraphInit
    /\ subject # "graph" => \A f \in DOMAIN corpus : corpus[f] = CHOOSE text \in TextsOf[f] : TRUE
    /\ Bake!BakeInit /\ (subject # "bakeoff" => chunkers = CHOOSE matrix \in Matrices : TRUE)
    /\ Cache!CacheInit /\ Remote!EmbedInit

PartsNext ==
    /\ UNCHANGED subject
    /\ \/ subject = "pool" /\ Pool!PoolNext
       \/ subject # "pool" /\ UNCHANGED poolVars
    /\ \/ subject = "index" /\ Index!IndexNext
       \/ subject # "index" /\ UNCHANGED indexVars
    /\ \/ subject = "graph" /\ Graph!GraphNext
       \/ subject # "graph" /\ UNCHANGED graphVars
    /\ \/ subject = "bakeoff" /\ Bake!BakeNext
       \/ subject # "bakeoff" /\ UNCHANGED bakeVars
    /\ \/ subject = "cache" /\ Cache!CacheNext
       \/ subject # "cache" /\ UNCHANGED cacheVars
    /\ \/ subject = "remote" /\ Remote!EmbedNext
       \/ subject # "remote" /\ UNCHANGED embedVars
    /\ \/ input' \in Grown(subject, input)
       \/ Grown(subject, input) = {} /\ UNCHANGED input

PartsSpec == PartsInit /\ [][PartsNext]_partVars
-----------------------------------------------------------------------------
(* What is claimed of them; each definition is at its module.              *)

\* A search does not fail for a connection that the server dropped while it
\* was idle, and no connection is in the hands of two readers or processes.
PoolServes == subject = "pool" => Pool!ReadsSelfHeal /\ Pool!ConnectionsAreOwned

\* A row that the text index was built from is found by its word, and by no
\* other, until it is rewritten or deleted.
IndexedIsFound == subject = "index" => Index!IndexedIsFound

\* A download that was interrupted does not keep its model from loading, and
\* the n-th vector of a batch is that of the n-th text.
EmbedderServes ==
    /\ subject = "cache" => Cache!InterruptedLoadHeals
    /\ subject = "remote" => Remote!VectorsAreOfTexts

\* Callers are symbols of the file and no symbol is missing from the chunks,
\* in the languages whose walk reaches them all; what is taken for a comment
\* is one, under the masking of strings.
CodeIsRead ==
    /\ subject = "symbols" /\ input.tree # <<>> =>
          LET found == Sources!Dispatch(input.lang, input.tree, input.grammar)
          IN /\ input.lang \notin {"java", "csharp"} => Sources!CallersAreSymbols(found)
             /\ input.lang \notin {"go", "rust", "cpp"} /\ input.grammar =>
                   Sources!SymbolsAreChunked(input.tree, found, 9)
    /\ subject = "comments" => Comments!CommentsAreComments(input.lang, input.text)

\* The edges of a run do not depend on the order in which the files came.
GraphIgnoresOrder == subject = "graph" => Graph!GraphIgnoresOrder

\* No text is lost between chunks, no chunk is above the ceiling that its
\* configuration promises, coarse chunks cover their fine ones, and a topic has
\* its least number of sentences.
ChunksAreComplete ==
    subject = "chunks" => \E document \in {DocumentOf(input.lines)} :
        \E chunks \in {Chunks!ChunkDocument(input.cfg, document)} :
            /\ Chunks!ChunksCoverText(input.cfg, document, chunks)
            /\ Chunks!ChunksFit(input.cfg, document, chunks)
            /\ Chunks!CoarseCoversFine(input.cfg, document, chunks)
            /\ Chunks!TopicsAreLongEnough(input.cfg, document)

\* The engines answer a filtered query alike, an identifier finds the row that
\* has it, fusion favours no leg, a summary keeps the headings of its hits, and
\* memory reaches its reader whole and in order.
AnswersAgree ==
    /\ subject = "answers" =>
          /\ \A k \in {1, 2} : Answers!EnginesAgree(RowsOf(input.kinds), input.filter, k)
          /\ \A word \in {Incident, Other} : Answers!IdentifierIsFound(RowsOf(input.kinds), word)
    /\ subject = "hybrid" /\ input.order # <<>> =>
          /\ input.filter = <<>> => \A k \in {1, 2} :
                Answers!FusionIsFair(Ranked([i \in DOMAIN input.kinds |-> i]), Ranked(input.order), k)
          /\ \A fusion \in {"rrf", "weighted"} :
                Answers!SummaryKeepsHeadings(RowsOf(input.kinds), HybridCall(input.filter, fusion),
                                             input.order)
    /\ subject = "memory" => \A namespace \in {"n", "m"} : Memory!MemoryIsHandedOn(input, namespace)

\* Facts and text answer their own command only, a symbol's name selects its
\* chunks, impact reports the shortest way, a smoke run has every cell, and a
\* plan has every combination that was asked for.
CommandsAnswer ==
    /\ subject = "commands" =>
          LET table == [i \in DOMAIN input |-> CommandRow(input[i])]
          IN /\ \A where \in Wheres : Commands!FactsStayApart(table, where)
             /\ \A names \in {<<Name(<<"Http">>, FALSE)>>, <<Name(<<"Http">>, TRUE)>>,
                               <<Name(<<"Http", "Source">>, FALSE), Name(<<"Base">>, FALSE)>>} :
                   Commands!BySymbolSelects(table, names)
    /\ subject = "graph search" =>
          \A depth \in {1, 3}, floor \in {0, 7}, kinds \in {{}, {"calls"}} :
              Commands!ImpactIsShortest(input, Functions, ImpactCall(depth, floor, kinds))
    /\ subject = "smoke" => Commands!SmokeRunsEveryCell(input)
    /\ subject = "plan" => Plan!PlanIsComplete(input.cfg, input.request)

\* A score is made of the rows of its own combination, the recommendation is
\* the best of all, and every combination is in the report.
BakeoffIsFair == subject = "bakeoff" => Bake!BakeoffIsFair

-----------------------------------------------------------------------------
(* What is said of them and does not hold.                                 *)

\* Every combination has a table of its own (docs/tutorial-bakeoff.md:16), so
\* that the one recommended is the best of them on its own score; settings
\* outside the key (bakeoff/keys.py:39) make two share a table.
BestIsRecommended == subject = "bakeoff" => Bake!BestIsRecommended

\* The example of _parse_by_symbol (cli.py:608): an exact name together with a
\* glob selects the symbols of either.
GlobsAreKept ==
    subject = "commands" =>
        Commands!BySymbolSelects([i \in DOMAIN input |-> CommandRow(input[i])],
                                 <<Name(<<"Base">>, FALSE), Name(<<"Http">>, TRUE)>>)

\* "fact-search" resolves each fact's originating chunk (cli.py:1325); the rows
\* of a session's second episode are numbered on, the fact's reference is not.
FactsHaveTheirChunk ==
    subject = "commands" =>
        Commands!FactsHaveTheirChunk([i \in DOMAIN input |-> CommandRow(input[i])])

\* The id of a run names its workload and its policy (eval/planner.py:91); it is
\* made of their slugs.
RunIdsDiffer ==
    subject = "plan" => (Plan!BuildEvalPlan(input.cfg, input.request) = Plan!Refused
                         \/ Plan!RunIdsDiffer(input.cfg, input.request))

\* A search runs under the ef_search of its call (search.py:232); on a pooled
\* connection in autocommit the setting ends with its own statement.
EfSearchIsUsed == subject = "pool" => Pool!EfSearchIsUsed

\* The sink builds the text index as part of the run (docs/hybrid-search.md:381),
\* so what the run has written can be found; SQLite's is built before it.
WrittenIsSearchable == subject = "index" => Index!WrittenIsSearchable
=============================================================================
