------------------------------ MODULE Bakeoff ------------------------------
(***************************************************************************)
(* run_bakeoff (bakeoff/): every chunker and embedder of a matrix makes a  *)
(* table in every target, all gold queries are asked of every table, and   *)
(* the best combination is written out as a cell to run.  A name is the    *)
(* sequence of its words, so that joining names with "_" is \o.  Times,    *)
(* labels and NDCG (a function of the rank, as MRR is) are left out.       *)
(***************************************************************************)
EXTENDS Integers, Sequences, FiniteSets, FiniteSetsExt, SequencesExt

CONSTANTS
    Matrices,       \* sequences of [type, window, step, max_chars, base], base in <<>> or <<c>>
    Embedders,      \* sequence of [org, model]
    Targets,        \* sequence of [type, dsn, label, metric]
    Exported,       \* the DSN variables that are set
    Documents,      \* what the source yields, in order
    GoldQueries,    \* sequence of [query, gold_doc_id]
    RecallAt, TopK, \* scoring.k, scoring.top_k
    ChunkCount(_, _),       \* chunks that a chunker makes of a document
    Distance(_, _, _, _)    \* of a query, as one embedder has it, from a row, under a metric

VARIABLES
    chunkers,   \* the one of Matrices that is run
    tables,     \* tables[<<dsn, table>>]: a set of rows
    stage,      \* "check", "create", "write", "queries", "score", "output", "done", "failed"
    combo,      \* number of the combination being ingested
    written,    \* documents of it written
    sink,       \* targets served in the present step
    vectors,    \* vectors[key]: the embedder that embedded the queries under the key
    ingests, results,   \* ingest_meta, combo_results
    report, recommended \* the files written

bakeVars == <<chunkers, tables, stage, combo, written, sink, vectors, ingests, results, report, recommended>>

-----------------------------------------------------------------------------
(* Keys (keys.py).                                                         *)

EmbedderKey(e) == <<e.model>>

\* Faulty variant of KeyOver: the sizes of windows are not part of the key.
KeyOverTypes(c, base) == <<c.type>> \o base

\* "base" is the key of the chunker it wraps; <<>> stands for the ValueError.
KeyOver(c, base) ==
    CASE c.type \in {"hierarchy", "sentence_aware", "semantic"} -> <<c.type>>
      [] c.type = "fixed_overlap" -> <<c.type, ToString(c.window), ToString(c.step)>>
      [] c.type = "neighbor_expand" /\ base # <<>> -> <<c.type, ToString(c.window)>> \o base
      [] c.type \in {"summary_embed", "hierarchical_summary", "consolidation"} /\ base # <<>> ->
            <<c.type>> \o base
      [] OTHER -> <<>>
RECURSIVE ChunkerKey(_)
ChunkerKey(c) == KeyOver(c, IF c.base = <<>> THEN <<>> ELSE ChunkerKey(c.base[1]))

ComboTable(c, e) == ChunkerKey(c) \o EmbedderKey(e)

TargetDisplayKey(t) ==
    LET twins == Cardinality({i \in DOMAIN Targets : Targets[i].type = t.type}) > 1
    IN CASE t.label # <<>> -> t.label
         [] t.label = <<>> /\ t.type = "postgres" /\ (twins \/ t.metric # "cosine") ->
                <<"postgres", t.metric>>
         [] OTHER -> <<t.type>>

TargetDisplayKeys ==
    [i \in DOMAIN Targets |->
        LET base == TargetDisplayKey(Targets[i])
            seen == Cardinality({j \in 1 .. i : TargetDisplayKey(Targets[j]) = base})
        IN IF seen = 1 THEN base ELSE base \o <<ToString(seen)>>]

Combos == [n \in 1 .. Len(chunkers) * Len(Embedders) |->
              [chunker |-> chunkers[((n - 1) \div Len(Embedders)) + 1],
               embedder |-> Embedders[((n - 1) % Len(Embedders)) + 1]]]
TableOf(t, c) == <<t.dsn, ComboTable(c.chunker, c.embedder)>>

-----------------------------------------------------------------------------
(* Scores (score.py).  MRR is in sixtieths, and sums stand for means.      *)

TopOf(rows, query, vec, metric) ==
    LET near(r, s) == Distance(query, vec, r, metric) < Distance(query, vec, s, metric)
        ranked == SortSeq(FoldSet(LAMBDA r, s : Append(s, r), <<>>, rows), near)
    IN SubSeq(ranked, 1, Min({TopK, Len(ranked)}))

ScoreQuery(top, gold) ==
    LET hits == {i \in DOMAIN top : top[i].doc = gold}
    IN [recall |-> [k \in RecallAt |-> IF hits # {} /\ Min(hits) <= k THEN 1 ELSE 0],
        mrr |-> IF hits = {} THEN 0 ELSE 60 \div Min(hits)]

AggregateScores(scores) ==
    [recall |-> [k \in RecallAt |-> FoldLeft(LAMBDA sum, s : sum + s.recall[k], 0, scores)],
     mrr |-> FoldLeft(LAMBDA sum, s : sum + s.mrr, 0, scores)]

ScoreOf(rows, vec, metric) ==
    AggregateScores([q \in DOMAIN GoldQueries |->
        ScoreQuery(TopOf(rows, GoldQueries[q].query, vec, metric), GoldQueries[q].gold_doc_id)])

-----------------------------------------------------------------------------
(* The run (runner.py).                                                    *)

BakeInit ==
    /\ chunkers \in Matrices
    /\ tables = [p \in {TableOf(Targets[i], Combos[n]) : i \in DOMAIN Targets, n \in DOMAIN Combos}
                     |-> {}]
    /\ stage = "check" /\ combo = 1 /\ written = 0 /\ sink = 0
    /\ vectors = [k \in {EmbedderKey(e) : e \in ToSet(Embedders)} |-> <<>>]
    /\ ingests = <<>> /\ results = <<>> /\ report = <<>> /\ recommended = <<>>

Files == <<report, recommended>>
Here == Combos[combo]

CheckEnvironment ==
    /\ stage = "check"
    /\ stage' = IF \E t \in ToSet(Targets) : t.dsn \notin Exported THEN "failed" ELSE "create"
    /\ UNCHANGED <<chunkers, tables, combo, written, sink, vectors, ingests, results, Files>>

\* A chunker without a key ends the whole run.
NoKey ==
    /\ stage = "create" /\ sink = 0 /\ ChunkerKey(Here.chunker) = <<>>
    /\ stage' = "failed"
    /\ UNCHANGED <<chunkers, tables, combo, written, sink, vectors, ingests, results, Files>>

\* create_table of the next target; its mode is always "overwrite".
CreateTable ==
    /\ stage = "create" /\ ChunkerKey(Here.chunker) # <<>>
    /\ tables' = [tables EXCEPT ![TableOf(Targets[sink + 1], Here)] = {}]
    /\ IF sink + 1 = Len(Targets) THEN stage' = "write" /\ sink' = 0
                                  ELSE stage' = stage /\ sink' = sink + 1
    /\ UNCHANGED <<chunkers, combo, written, vectors, ingests, results, Files>>

RowsOf(doc, c) ==
    {[doc |-> doc, seq |-> i, chunker |-> c.chunker, embedder |-> c.embedder] :
        i \in 0 .. ChunkCount(c.chunker, doc) - 1}

\* The next document is written to one target after the other; a document
\* without chunks is written to none.
WriteDocument ==
    /\ stage = "write" /\ written < Len(Documents)
    /\ LET doc == Documents[written + 1]
           place == TableOf(Targets[sink + 1], Here)
           last == sink + 1 = Len(Targets) \/ RowsOf(doc, Here) = {}
       IN /\ tables' = IF RowsOf(doc, Here) = {} THEN tables
                       ELSE [tables EXCEPT ![place] =
                                {r \in @ : r.doc # doc} \cup RowsOf(doc, Here)]
          /\ sink' = IF last THEN 0 ELSE sink + 1
          /\ written' = IF last THEN written + 1 ELSE written
    /\ UNCHANGED <<chunkers, stage, combo, vectors, ingests, results, Files>>

EndCombo ==
    /\ stage = "write" /\ written = Len(Documents)
    /\ ingests' = ingests \o [i \in DOMAIN Targets |->
            [target |-> i, combo |-> Here,
             chunks |-> MapThenSumSet(LAMBDA d : ChunkCount(Here.chunker, d), ToSet(Documents))]]
    /\ written' = 0
    /\ IF combo = Len(Combos) THEN stage' = "queries" /\ combo' = 1
                              ELSE stage' = "create" /\ combo' = combo + 1
    /\ UNCHANGED <<chunkers, tables, sink, vectors, results, Files>>

\* The gold queries are embedded once for every key of an embedder.
EmbedQueries ==
    /\ stage = "queries"
    /\ LET first(k) == SelectSeq(Embedders, LAMBDA e : EmbedderKey(e) = k)[1]
       IN vectors' = [k \in DOMAIN vectors |-> <<first(k)>>]
    /\ stage' = "score"
    /\ UNCHANGED <<chunkers, tables, combo, written, sink, ingests, results, Files>>

Score ==
    /\ stage = "score" /\ Len(results) < Len(ingests)
    /\ LET meta == ingests[Len(results) + 1]
           t == Targets[meta.target]
           c == meta.combo
       IN results' = Append(results,
            [backend |-> t.type, target_key |-> TargetDisplayKeys[meta.target],
             chunker_key |-> ChunkerKey(c.chunker), embedder_key |-> EmbedderKey(c.embedder),
             ingest_chunks |-> meta.chunks, of |-> meta,
             aggregate |-> ScoreOf(tables[TableOf(t, c)], vectors[EmbedderKey(c.embedder)][1], t.metric)])
    /\ UNCHANGED <<chunkers, tables, stage, combo, written, sink, vectors, ingests, Files>>

\* A sink or an embedder raises: nothing is caught.
Raise ==
    /\ stage \in {"create", "write", "queries", "score"}
    /\ stage' = "failed"
    /\ UNCHANGED <<chunkers, tables, combo, written, sink, vectors, ingests, results, Files>>

-----------------------------------------------------------------------------
(* What is written (output.py).                                            *)

BackendOrder == <<"postgres", "mariadb", "sqlite", "clickhouse">>
BackendRank(r) == SelectInSeq(BackendOrder, LAMBDA b : b = r.backend)

ByMrr(list) ==
    LET better(i, j) == \/ list[i].aggregate.mrr > list[j].aggregate.mrr
                        \/ list[i].aggregate.mrr = list[j].aggregate.mrr /\ i < j
    IN SortSeq([i \in DOMAIN list |-> i], better)

Leaderboard(key) ==
    LET own == SelectSeq(results, LAMBDA r : r.target_key = key)
        order == ByMrr(own)
    IN [i \in DOMAIN own |-> own[order[i]]]

\* The cross table keeps one result of a chunker key, an embedder key and a
\* target key: the last.
CrossCell(ck, ek, key) ==
    LET own == SelectSeq(results, LAMBDA r :
                   r.chunker_key = ck /\ r.embedder_key = ek /\ r.target_key = key)
    IN IF own = <<>> THEN <<>> ELSE <<Last(own)>>

ReportOf ==
    LET all == ToSet(results)
        keys == {r.target_key : r \in all}
    IN [leaderboards |-> [k \in keys |-> Leaderboard(k)],
        cross |-> [row \in {<<r.chunker_key, r.embedder_key>> : r \in all} |->
                      [k \in keys |-> CrossCell(row[1], row[2], k)]]]

\* Ties on MRR and backend are broken by the names of the keys, here in any way.
Tops ==
    {r \in ToSet(results) : \A s \in ToSet(results) :
        \/ r.aggregate.mrr > s.aggregate.mrr
        \/ r.aggregate.mrr = s.aggregate.mrr /\ BackendRank(r) <= BackendRank(s)}

\* The configurations are found again by their keys, the first that has them.
RecommendedCell(top) ==
    LET chunker == SelectSeq(chunkers, LAMBDA c : ChunkerKey(c) = top.chunker_key)[1]
        embedder == SelectSeq(Embedders, LAMBDA e : EmbedderKey(e) = top.embedder_key)[1]
        targets == {i \in DOMAIN Targets : /\ TargetDisplayKeys[i] = top.target_key
                                          /\ Targets[i].type = top.backend}
    IN [chunker |-> chunker, embedder |-> embedder, target |-> Targets[Min(targets)]]

WriteReport ==
    /\ stage = "score" /\ Len(results) = Len(ingests)
    /\ report' = <<ReportOf>> /\ stage' = "output"
    /\ UNCHANGED <<chunkers, tables, combo, written, sink, vectors, ingests, results, recommended>>

WriteRecommended ==
    /\ stage = "output" /\ stage' = "done"
    /\ \E top \in Tops : recommended' = <<RecommendedCell(top)>>
    /\ UNCHANGED <<chunkers, tables, combo, written, sink, vectors, ingests, results, report>>

BakeNext ==
    \/ CheckEnvironment \/ NoKey \/ CreateTable \/ WriteDocument \/ EndCombo
    \/ EmbedQueries \/ Score \/ Raise \/ WriteReport \/ WriteRecommended

-----------------------------------------------------------------------------

\* The score a chunker and an embedder deserve on a target: that of the table
\* of all documents they make on their own.
OwnScore(c, t) ==
    ScoreOf(UNION {RowsOf(d, c) : d \in ToSet(Documents)}, c.embedder, t.metric)

\* Every cell is scored on exactly what its own chunker and embedder make of
\* the corpus, however many cells share a database: keys tell the cells apart.
ScoresAreOwn ==
    \A i \in DOMAIN results :
        results[i].aggregate = OwnScore(results[i].of.combo, Targets[results[i].of.target])

\* The cell recommended is one whose own score is the best of the matrix.
BestIsRecommended ==
    \A i \in DOMAIN recommended :
        LET r == recommended[i]
            own == OwnScore([chunker |-> r.chunker, embedder |-> r.embedder], r.target).mrr
        IN \A n \in DOMAIN Combos, t \in ToSet(Targets) : OwnScore(Combos[n], t).mrr <= own

\* Every result is on its target's leaderboard, below no worse one, and in the
\* cross table.
AllAreReported ==
    \A i \in DOMAIN report, j \in DOMAIN results :
        LET r == results[j]
            board == report[i].leaderboards[r.target_key]
        IN /\ \E n \in DOMAIN board : board[n] = r
           /\ \A m, n \in DOMAIN board : m < n => board[m].aggregate.mrr >= board[n].aggregate.mrr
           /\ report[i].cross[<<r.chunker_key, r.embedder_key>>][r.target_key] = <<r>>

\* The bake-off is a fair comparison (bakeoff/keys.py, runner.py, output.py).
BakeoffIsFair == ScoresAreOwn /\ BestIsRecommended /\ AllAreReported
=============================================================================
