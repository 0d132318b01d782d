----------------------------- MODULE Retrieval -----------------------------
(***************************************************************************)
(* What a search answers, on each of the four engines: the filter and the  *)
(* two legs (search.py, search_sqlite.py, search_mariadb.py,               *)
(* search_clickhouse.py), the fusion of their rankings and the summary of  *)
(* the hits (search_common.py).  A table is a sequence of rows, nearest to *)
(* the query's vector first; a leg's answer is a sequence of positions in  *)
(* it; ranks of the keyword leg, which the engine decides, are an input.   *)
(***************************************************************************)
EXTENDS Integers, Sequences, FiniteSets, FiniteSetsExt, SequencesExt, Functions

Engines == {"postgres", "sqlite", "mariadb", "clickhouse"}
Prefix(s, n) == SubSeq(s, 1, IF n < Len(s) THEN n ELSE Len(s))

-----------------------------------------------------------------------------
(* The filter.  A filter is a function on the keys it has; a tag has a     *)
(* text and a case; a metadata value a type and a text.                    *)

Casefold(tag) == [tag EXCEPT !.upper = FALSE]

SupportedKeys(engine) ==
    {"tags", "source", "metadata"} \union
    (IF engine = "postgres" THEN {"metadata_not", "column_in", "column_like"} ELSE {})

\* Whether _build_where raises: unknown keys, or no values for a column.
Rejected(engine, filter) ==
    \/ ~(DOMAIN filter \subseteq SupportedKeys(engine))
    \/ "column_in" \in DOMAIN filter /\ \E col \in DOMAIN filter.column_in : filter.column_in[col] = {}

\* PostgreSQL: array overlap with the folded tags, jsonb containment, and
\* IS DISTINCT FROM, which keeps the rows without the key.
AdmitsPostgres(row, filter) ==
    /\ "source" \in DOMAIN filter => row.source = filter.source
    /\ "tags" \in DOMAIN filter => row.tags \intersect {Casefold(t) : t \in filter.tags} # {}
    /\ "metadata" \in DOMAIN filter => \A key \in DOMAIN filter.metadata :
          key \in DOMAIN row.metadata /\ row.metadata[key] = filter.metadata[key]
    /\ "metadata_not" \in DOMAIN filter => \A key \in DOMAIN filter.metadata_not :
          key \in DOMAIN row.metadata => row.metadata[key].text # filter.metadata_not[key].text
    /\ "column_in" \in DOMAIN filter => \A col \in DOMAIN filter.column_in :
          row.columns[col] \in filter.column_in[col]
    \* a LIKE pattern is the set of what it matches
    /\ "column_like" \in DOMAIN filter => \A col \in DOMAIN filter.column_like :
          row.columns[col] \in filter.column_like[col]

\* SQLite folds both sides of a tag; json_extract compares type and text.
AdmitsSqlite(row, filter) ==
    /\ "source" \in DOMAIN filter => row.source = filter.source
    /\ "tags" \in DOMAIN filter =>
          {Casefold(t) : t \in row.tags} \intersect {Casefold(t) : t \in filter.tags} # {}
    /\ "metadata" \in DOMAIN filter => \A key \in DOMAIN filter.metadata :
          key \in DOMAIN row.metadata /\ row.metadata[key] = filter.metadata[key]

\* Faulty variant of AdmitsMariadb: a JSON string keeps its quotes.
AdmitsMariadbQuoted(row, filter) ==
    /\ "source" \in DOMAIN filter => row.source = filter.source
    /\ "tags" \in DOMAIN filter => row.tags \intersect {Casefold(t) : t \in filter.tags} # {}
    /\ "metadata" \in DOMAIN filter => \A key \in DOMAIN filter.metadata :
          /\ key \in DOMAIN row.metadata /\ row.metadata[key].type # "string"
          /\ row.metadata[key].text = filter.metadata[key].text

\* MariaDB unquotes the value and compares it with the text of the filter's.
AdmitsMariadb(row, filter) ==
    /\ "source" \in DOMAIN filter => row.source = filter.source
    /\ "tags" \in DOMAIN filter => row.tags \intersect {Casefold(t) : t \in filter.tags} # {}
    /\ "metadata" \in DOMAIN filter => \A key \in DOMAIN filter.metadata :
          key \in DOMAIN row.metadata /\ row.metadata[key].text = filter.metadata[key].text

\* JSONExtractString: "" for a missing key and for what is no string.
AdmitsClickhouse(row, filter) ==
    /\ "source" \in DOMAIN filter => row.source = filter.source
    /\ "tags" \in DOMAIN filter => row.tags \intersect {Casefold(t) : t \in filter.tags} # {}
    /\ "metadata" \in DOMAIN filter => \A key \in DOMAIN filter.metadata :
          filter.metadata[key].text = IF key \in DOMAIN row.metadata /\ row.metadata[key].type = "string"
                                      THEN row.metadata[key].text ELSE ""

Admits(engine, row, filter) ==
    CASE engine = "postgres" -> AdmitsPostgres(row, filter)
      [] engine = "sqlite" -> AdmitsSqlite(row, filter)
      [] engine = "mariadb" -> AdmitsMariadb(row, filter)
      [] engine = "clickhouse" -> AdmitsClickhouse(row, filter)

-----------------------------------------------------------------------------
(* The semantic leg.                                                       *)

\* Positions of the rows the filter admits, nearest first.
Nearest(engine, table, filter) ==
    SelectSeq([i \in DOMAIN table |-> i], LAMBDA i : Admits(engine, table[i], filter))

\* Faulty variant of SemanticSqlite: as many as are wanted, then the filter.
SemanticSqliteTight(table, filter, k) ==
    SelectSeq([i \in 1 .. Min({k, Len(table)}) |-> i], LAMBDA i : Admits("sqlite", table[i], filter))

\* vec0 takes no other predicate: four times as many, then the filter.
SemanticSqlite(table, filter, k) ==
    LET fetched == IF DOMAIN filter = {} THEN k ELSE 4 * k
    IN Prefix(SelectSeq([i \in 1 .. Min({fetched, Len(table)}) |-> i],
                        LAMBDA i : Admits("sqlite", table[i], filter)), k)

Semantic(engine, table, filter, k) ==
    IF engine = "sqlite" THEN SemanticSqlite(table, filter, k)
    ELSE Prefix(Nearest(engine, table, filter), k)

\* Higher is better, from the operator's value; only PostgreSQL has a choice.
VectorScore(metric, value) == IF metric = "cosine" THEN 100 - value ELSE -value

\* hnsw.ef_search: a number from 1 to 1000, or none (0).
ValidEfSearch(ef) == ef \in 0 .. 1000

-----------------------------------------------------------------------------
(* The keyword leg.  A word is a sequence of runs joined by hyphens, a run *)
(* [text, digits, size].                                                   *)

WordSize(word) == FoldLeft(LAMBDA n, run : n + run.size, Len(word) - 1, word)

\* Faulty variant of TokensPostgres: hyphens part words.
TokensPostgresRuns(query) ==
    {t \in {<<run>> : run \in UNION {Range(w) : w \in Range(query)}} : WordSize(t) >= 2}

\* Whole words; what is not two characters long is dropped.
TokensPostgres(query) == {w \in Range(query) : WordSize(w) >= 2}

\* Runs; SQLite drops those of one character, ClickHouse none.
Runs(query) == UNION {Range(w) : w \in Range(query)}
TokensSqlite(query) == {run \in Runs(query) : run.size >= 2}
TokensClickhouse(query) == Runs(query)

\* The lexemes of to_tsvector: digits after a hyphen are a signed number.
Lexemes(word) == [i \in DOMAIN word |-> [run |-> word[i].text, signed |-> i > 1 /\ word[i].digits]]
MatchesPostgres(token, word) ==
    LET t == Lexemes(token) w == Lexemes(word)
    IN \E i \in 0 .. Len(w) - Len(t) : t = SubSeq(w, i + 1, i + Len(t))

\* Any token matches some word of the row; no token, no hit.  (ClickHouse also
\* finds a token inside a longer run, which is left out.)
MatchesTsquery(query, row) == \E t \in TokensPostgres(query), w \in row.words : MatchesPostgres(t, w)
MatchesFts5(query, row) == \E w \in row.words : TokensSqlite(query) \intersect Range(w) # {}
MatchesMultiSearch(query, row) == \E w \in row.words : TokensClickhouse(query) \intersect Range(w) # {}

\* Natural language mode makes its own words, of three characters and more.
MatchesFulltext(query, row) ==
    \E w \in row.words : \E run \in Runs(query) \intersect Range(w) : run.size >= 3

Matches(engine, query, row) ==
    CASE engine = "postgres" -> MatchesTsquery(query, row)
      [] engine = "sqlite" -> MatchesFts5(query, row)
      [] engine = "clickhouse" -> MatchesMultiSearch(query, row)
      [] engine = "mariadb" -> MatchesFulltext(query, row)

Keyword(engine, table, query, filter, ranking, k) ==
    Prefix(SelectSeq(ranking, LAMBDA i : Matches(engine, query, table[i])
                                          /\ Admits(engine, table[i], filter)), k)

-----------------------------------------------------------------------------
(* Fusion.  A leg is a sequence of hits [row, score]; a score is a         *)
(* fraction <<n, d>>, d > 0.                                               *)

Plus(x, y) == <<x[1] * y[2] + y[1] * x[2], x[2] * y[2]>>
Less(x, y) == x[1] * y[2] < y[1] * x[2]
RowsOf(leg) == [p \in DOMAIN leg |-> leg[p].row]
RankIn(leg, row) == CHOOSE p \in DOMAIN leg : leg[p].row = row

\* Faulty variant of RrfOf: the leg that comes last decides.
RrfOfLast(legs, rrfK, row) ==
    LET last == Max({i \in DOMAIN legs : row \in Range(RowsOf(legs[i]))})
    IN <<1, rrfK + RankIn(legs[last], row)>>

\* _fuse_rrf: a leg that has the row adds 1 / (rrf_k + rank).
RrfOf(legs, rrfK, row) ==
    FoldLeft(LAMBDA sum, leg : IF row \in Range(RowsOf(leg)) THEN Plus(sum, <<1, rrfK + RankIn(leg, row)>>) ELSE sum,
             <<0, 1>>, legs)

\* _fuse_weighted: min-max within the leg, times its weight.
WeightedOf(legs, weights, row) ==
    LET part(i) ==
            LET scores == {h.score : h \in Range(legs[i])}
                span == Max(scores) - Min(scores)
                score == legs[i][RankIn(legs[i], row)].score
            IN IF span = 0 THEN <<weights[i], 1>> ELSE <<weights[i] * (score - Min(scores)), span>>
    IN FoldLeft(LAMBDA sum, i : IF row \in Range(RowsOf(legs[i])) THEN Plus(sum, part(i)) ELSE sum,
                <<0, 1>>, [i \in DOMAIN legs |-> i])

\* The rows of all legs, the first leg's first.
Merged(legs) == FoldLeft(LAMBDA seen, leg : seen \o SelectSeq(RowsOf(leg), LAMBDA r : r \notin Range(seen)),
                         <<>>, legs)

\* Sorted by score, best first, keeping the order of equals.
Sorted(rows, Score(_)) ==
    LET position(r) == CHOOSE p \in DOMAIN rows : rows[p] = r
    IN SortSeq(rows, LAMBDA r, s : \/ Less(Score(s), Score(r))
                                   \/ ~Less(Score(r), Score(s)) /\ position(r) < position(s))

Fuse(legs, k, fusion, weights, rrfK) ==
    LET Score(r) == IF fusion = "rrf" THEN RrfOf(legs, rrfK, r) ELSE WeightedOf(legs, weights, r)
    IN Prefix(Sorted(Merged(legs), Score), k)

\* Only a leg that runs looks at the filter, and the keyword leg of a query
\* without tokens does not run (MariaDB's always does).
FilterIsRead(engine, call) ==
    \/ "semantic" \in call.legs \/ engine = "mariadb"
    \/ engine = "postgres" /\ TokensPostgres(call.query) # {}
    \/ engine = "sqlite" /\ TokensSqlite(call.query) # {}
    \/ engine = "clickhouse" /\ TokensClickhouse(call.query) # {}

\* validate_hybrid_args, _validate_ef_search and rrf_k: is the call refused?
InvalidCall(engine, call) ==
    \/ call.legs = {} \/ ~(call.legs \subseteq {"semantic", "fts"})
    \/ ("semantic" \in call.legs /\ ~call.hasVector) \/ ("fts" \in call.legs /\ ~call.hasQuery)
    \/ call.fusion \notin {"rrf", "weighted"} \/ (call.fusion = "rrf" /\ call.rrfK < 1)
    \/ ("semantic" \in call.legs /\ ~ValidEfSearch(call.ef))
    \/ (FilterIsRead(engine, call) /\ Rejected(engine, call.filter))

\* Faulty variant of Candidates: a leg is asked for k.
CandidatesK(k) == k

\* candidate_multiplier
Candidates(k) == 3 * k

Refused == <<0>>

\* hybrid_search; the rows a caller gets, best first, or Refused.
HybridSearch(engine, table, call, ranking) ==
    LET cand == Candidates(call.k)
        near == Semantic(engine, table, call.filter, cand)
        worded == Keyword(engine, table, call.query, call.filter, ranking, cand)
        semantic == [p \in DOMAIN near |->
            [row |-> near[p], score |-> VectorScore(call.metric, table[near[p]].distance)]]
        fts == [p \in DOMAIN worded |->
            [row |-> worded[p], score |-> IF engine = "clickhouse" THEN 1 ELSE table[worded[p]].relevance]]
        legs == (IF "semantic" \in call.legs THEN <<semantic>> ELSE <<>>)
                \o (IF "fts" \in call.legs THEN <<fts>> ELSE <<>>)
    IN IF InvalidCall(engine, call) THEN Refused
       ELSE Fuse(legs, call.k, call.fusion, call.weights, call.rrfK)

-----------------------------------------------------------------------------
(* The summary.                                                            *)

MaxPrependedHeadings == 5

\* Faulty variant of HeadingsOf: compared with their case.
HeadingsOfCased(table, hits) ==
    LET headed == SelectSeq(hits, LAMBDA r : table[r].heading.text # "")
        firsts == SelectSeq([p \in DOMAIN headed |-> p],
                            LAMBDA p : \A q \in 1 .. p - 1 : table[headed[q]].heading # table[headed[p]].heading)
    IN Prefix([n \in DOMAIN firsts |-> table[headed[firsts[n]]].heading], MaxPrependedHeadings)

\* The first distinct headings, compared without case, in the order of the hits.
HeadingsOf(table, hits) ==
    LET headed == SelectSeq(hits, LAMBDA r : table[r].heading.text # "")
        first(p) == \A q \in 1 .. p - 1 :
                        Casefold(table[headed[q]].heading) # Casefold(table[headed[p]].heading)
        firsts == SelectSeq([p \in DOMAIN headed |-> p], LAMBDA p : first(p))
    IN Prefix([n \in DOMAIN firsts |-> table[headed[firsts[n]]].heading], MaxPrependedHeadings)

\* _summarize_for_query and summarize_hits: what the summarizer is given, and
\* the headings put before what it makes of it.
SummaryOf(table, hits, call) ==
    IF hits = <<>> THEN [of |-> <<>>, hints |-> {}, headings |-> <<>>]
    ELSE [of |-> hits,
          hints |-> LET own == IF call.hasHints THEN call.hints ELSE call.derivedHints
                    IN IF call.expands /\ own # {} THEN own \union call.expansion ELSE own,
          headings |-> HeadingsOf(table, hits)]

NoSummary == [of |-> <<>>, hints |-> {}, headings |-> <<>>]

\* search(): always PostgreSQL's hybrid search.
Answer(table, call, hits) ==
    IF hits = Refused \/ (call.mode # "chunks" /\ ~call.hasSummarizer)
    THEN [chunks |-> Refused, summary |-> NoSummary]
    ELSE [chunks |-> IF call.mode = "summary" THEN <<>> ELSE hits,
          summary |-> IF call.mode = "chunks" THEN NoSummary ELSE SummaryOf(table, hits, call)]
Search(table, call, ranking) == Answer(table, call, HybridSearch("postgres", table, call, ranking))
-----------------------------------------------------------------------------
(* Properties.                                                             *)

\* The engines answer one query alike ("returning the SAME Hit contract"): with
\* tags in lower case and string metadata, a filter of the keys they share gives
\* the same k nearest rows on each, on tables SQLite's over-fetch can cover.
EnginesAgree(table, filter, k) ==
    (/\ Len(table) <= 4 * k /\ ~Rejected("sqlite", filter)
     /\ \A i \in DOMAIN table : \A t \in table[i].tags : ~t.upper
     /\ \A i \in DOMAIN table : \A key \in DOMAIN table[i].metadata : table[i].metadata[key].type = "string"
     /\ "metadata" \in DOMAIN filter => \A key \in DOMAIN filter.metadata :
           filter.metadata[key].type = "string" /\ filter.metadata[key].text # "")
    => \A engine \in Engines : Semantic(engine, table, filter, k) = Semantic("postgres", table, filter, k)

\* A hyphenated identifier is found by the keyword leg wherever some row has it
\* (#86), on the engines whose words chunkshop makes itself, if it has a run of
\* two characters.
IdentifierIsFound(table, word) ==
    \A engine \in Engines \ {"mariadb"} :
        \A i \in DOMAIN table :
            (word \in table[i].words /\ \E run \in Range(word) : run.size >= 2)
                => Matches(engine, <<word>>, table[i])

\* Over-fetching is enough for every row within a leg's candidates ("a chunk
\* that ranks > k within an individual leg but would land in the fused top-k
\* still enters"): none whose full ranks are all within them is passed over for
\* a row with a smaller full score.  And a row of both legs comes before a row
\* of one leg that ranks no better there than it does.
FusionIsFair(semantic, fts, k) ==
    LET full == <<semantic, fts>>
        cut == <<Prefix(semantic, Candidates(k)), Prefix(fts, Candidates(k))>>
        answer == Fuse(cut, k, "rrf", <<1, 1>>, 60)
        ranks(r) == {RankIn(full[i], r) : i \in {i \in {1, 2} : r \in Range(RowsOf(full[i]))}}
        matchedBy(r) == Cardinality({i \in {1, 2} : r \in Range(RowsOf(full[i]))})
        reachable == {r \in Range(Merged(full)) : \A n \in ranks(r) : n <= 3 * k}
        score(r) == RrfOf(full, 60, r)
    IN /\ \A r \in reachable \ Range(answer), s \in Range(answer) :
             Len(answer) = k /\ ~Less(score(s), score(r))
       /\ \A p, q \in DOMAIN answer :
             (/\ matchedBy(answer[p]) = 2 /\ matchedBy(answer[q]) = 1
              /\ \A n \in ranks(answer[p]) : n <= 3 * k
              /\ Min(ranks(answer[p])) <= Min(ranks(answer[q]))) => p < q

\* What the answer shows of a case survives summarizing: in the modes with a
\* summary, each of the first five headings among the hits comes before it,
\* once, and a caller of the other mode gets the same hits.
SummaryKeepsHeadings(table, call, ranking) ==
    \E asked \in {[mode \in {"chunks", "summary", "summary+chunks"} |->
                     Search(table, [call EXCEPT !.mode = mode], ranking)]} :
    LET heads == {Casefold(table[r].heading) : r \in Range(asked["chunks"].chunks)}
                 \ {[text |-> "", upper |-> FALSE]}
        kept == asked["summary"].summary.headings
    IN ~InvalidCall("postgres", call) =>
       /\ Len(kept) = Min({5, Cardinality(heads)})
       /\ {Casefold(kept[n]) : n \in DOMAIN kept} \subseteq heads
       /\ Cardinality({Casefold(kept[n]) : n \in DOMAIN kept}) = Len(kept)
       /\ asked["summary"].summary = asked["summary+chunks"].summary
       /\ asked["summary+chunks"].chunks = asked["chunks"].chunks
=============================================================================
