---------------------------- MODULE CommandLine ----------------------------
(***************************************************************************)
(* What the commands of cli.py decide themselves: the filter that "search" *)
(* builds, facts kept apart from chunks and looked up with the chunk they  *)
(* name as theirs, callers and callees at a distance in the graph of the code,  *)
(* and the cells that "orchestrate" is given.  The search is Retrieval's,  *)
(* on PostgreSQL.  A symbol is the sequence of its parts, so that a prefix *)
(* of it is one of the sequence.                                           *)
(***************************************************************************)
EXTENDS Integers, Sequences, FiniteSets, FiniteSetsExt, SequencesExt, TLC

CONSTANT Symbols    \* names of symbols

R == INSTANCE Retrieval

Str(text) == [type |-> "string", text |-> text]
FactKind == "kind" :> Str("fact")
UsageError == [error |-> {}]
Put(filter, key, value) == key :> value @@ filter
IsFact(row) == "kind" \in DOMAIN row.metadata /\ row.metadata["kind"] = Str("fact")

-----------------------------------------------------------------------------
(* The filter of "search".                                                 *)

\* _parse_where: an option has a "key", and "value"; of a key given twice the
\* last counts, while the keys of the metadata add up.
ParseWhere(options) ==
    LET Add(filter, o) ==
            CASE o.key = "tags" -> Put(filter, "tags", o.value)
              [] o.key = "source" -> Put(filter, "source", o.value)
              [] o.key = "metadata" ->
                    Put(filter, "metadata", o.name :> Str(o.value) @@
                            IF "metadata" \in DOMAIN filter THEN filter.metadata ELSE <<>>)
    IN IF \E o \in ToSet(options) : o.key \notin {"tags", "source", "metadata"}
       THEN UsageError ELSE FoldLeft(Add, <<>>, options)

\* _parse_by_symbol: a name is [stem, star], "star" for a "*" or "%" at its end.
Exact(names) == {n.stem : n \in {m \in ToSet(names) : ~m.star}}
Like(names) == {n.stem : n \in {m \in ToSet(names) : m.star}}
Matching(stem) == {s \in Symbols : IsPrefix(stem, s)}

\* Several patterns become the names before their stars.
SymbolFilter(filter, names) ==
    LET several == Cardinality(Like(names)) > 1
        exact == Exact(names) \cup IF several THEN Like(names) ELSE {}
        narrowed == IF exact = {} THEN filter
                    ELSE Put(filter, "column_in", "symbol_name" :> exact)
    IN IF Cardinality(Like(names)) # 1 THEN narrowed
       ELSE Put(narrowed, "column_like",
                "symbol_name" :> UNION {Matching(stem) : stem \in Like(names)})

\* Faulty variant of WithoutFacts: only where nothing else is asked for.
WithoutFactsPlain(filter) ==
    IF filter = <<>> THEN Put(filter, "metadata_not", FactKind) ELSE filter

WithoutFacts(filter) ==
    IF "metadata_not" \in DOMAIN filter THEN filter ELSE Put(filter, "metadata_not", FactKind)

\* call: [where, include_facts, by_symbol]; <<>> when --by-symbol is not given.
SearchFilter(call) ==
    LET parsed == ParseWhere(call.where)
        apart == IF call.include_facts THEN parsed ELSE WithoutFacts(parsed)
    IN CASE parsed = UsageError -> UsageError
         [] parsed # UsageError /\ call.by_symbol = <<>> -> apart
         [] OTHER -> SymbolFilter(apart, call.by_symbol)

HybridCall(filter, k) ==
    [k |-> k, legs |-> {"semantic"}, hasVector |-> TRUE, hasQuery |-> TRUE, query |-> <<>>,
     fusion |-> "rrf", weights |-> <<1, 1>>, rrfK |-> 60, ef |-> 0, filter |-> filter,
     metric |-> "cosine", mode |-> "chunks", hasSummarizer |-> FALSE]

\* The semantic leg alone; the positions of the hits in the table.
SearchCommand(table, call, k) ==
    IF SearchFilter(call) = UsageError THEN R!Refused
    ELSE R!HybridSearch("postgres", table, HybridCall(SearchFilter(call), k), <<>>)

-----------------------------------------------------------------------------
(* fact-search.                                                            *)

\* Faulty variant of Stored: every episode is numbered from zero.
StoredPerEpisode(rows) ==
    LET before(n) == {m \in 1 .. n - 1 : rows[m].doc = rows[n].doc}
        episodes(n) == {m \in before(n) \cup {n} : ~IsFact(rows[m])}
    IN [n \in DOMAIN rows |-> "seq" :> n - Max(episodes(n) \cup {1}) @@ rows[n]]

\* The rows of a session as MemorySink.write_document numbers them: on from one
\* episode to the next.  A fact keeps the number its episode has in the chunker's
\* own list, which is zero (consolidation.py).
Stored(rows) ==
    [n \in DOMAIN rows |->
        "seq" :> Cardinality({m \in 1 .. n - 1 : rows[m].doc = rows[n].doc}) @@ rows[n]]

\* _fetch_chunk: by document and number, whatever kind of row it is.
FetchChunk(table, doc, seq) == {i \in DOMAIN table : table[i].doc = doc /\ table[i].seq = seq}

\* Facts under the floor are dropped after the search; those without a
\* confidence (-1) stay.  Of the search, the semantic leg is written out.
FactSearch(table, floor, k) ==
    LET sure(i) == table[i].confidence = -1 \/ table[i].confidence >= floor
        withChunks(facts) == [n \in DOMAIN facts |-> [fact |-> facts[n],
            chunk |-> FetchChunk(table, table[facts[n]].doc, table[facts[n]].source_chunk_seq)]]
    IN withChunks(SelectSeq(R!HybridSearch("postgres", table,
                                HybridCall([metadata |-> FactKind], k), <<>>), sure))

-----------------------------------------------------------------------------
(* impact-of.  An edge has src, dst, type, kind, project, confidence.      *)

ImpactMaxDepth == 10

AnchorOf(e, direction) == IF direction = "callers" THEN e.dst ELSE e.src
NextOf(e, direction) == IF direction = "callers" THEN e.src ELSE e.dst

\* An empty set of kinds stands for no --edge-kind.
Followed(e, call) ==
    /\ e.project = call.project /\ e.type = call.type /\ e.confidence >= call.floor
    /\ call.kinds = {} \/ e.kind \in call.kinds

\* Faulty variant of Level: the walk goes on from the edges at the depth itself.
LevelDeeper(edges, fqn, direction, call) ==
    LET level[hop \in 1 .. call.depth + 1] ==
            {e \in edges : /\ Followed(e, call)
                           /\ IF hop = 1 THEN AnchorOf(e, direction) = fqn
                              ELSE \E w \in level[hop - 1] : AnchorOf(e, direction) = NextOf(w, direction)}
    IN level

\* The rows of the recursive query "walk", by hop.
Level(edges, fqn, direction, call) ==
    LET level[hop \in 1 .. call.depth] ==
            {e \in edges : /\ Followed(e, call)
                           /\ IF hop = 1 THEN AnchorOf(e, direction) = fqn
                              ELSE \E w \in level[hop - 1] : AnchorOf(e, direction) = NextOf(w, direction)}
    IN level

\* One row for a name: its least hop, and its highest confidence.
ImpactQuery(edges, fqn, direction, call) ==
    LET level == Level(edges, fqn, direction, call)
        walk == UNION {level[hop] : hop \in DOMAIN level}
        into(name) == {e \in walk : NextOf(e, direction) = name}
    IN {[fqn |-> name, hop |-> Min({h \in DOMAIN level : level[h] \cap into(name) # {}}),
         confidence |-> Max({e.confidence : e \in into(name)})] :
            name \in {NextOf(e, direction) : e \in walk}}

\* _enrich_with_chunk_metadata: the paths a row may be shown with, those of the
\* first chunks by number; none where the table has no column for names.
PathsOf(chunks, hasFqn, name) ==
    LET own == {c \in chunks : c.fqn = name}
    IN IF ~hasFqn \/ own = {} THEN {}
       ELSE {c.path : c \in {d \in own : d.seq = Min({x.seq : x \in own})}}

ImpactOf(edges, chunks, hasFqn, fqn, call) ==
    LET answer(direction) ==
            IF call.direction \in {direction, "both"}
            THEN {[row |-> r, paths |-> PathsOf(chunks, hasFqn, r.fqn)] :
                     r \in ImpactQuery(edges, fqn, direction, call)}
            ELSE {}
    IN IF call.depth \notin 1 .. ImpactMaxDepth THEN UsageError
       ELSE [callers |-> answer("callers"), callees |-> answer("callees")]

-----------------------------------------------------------------------------
(* orchestrate.  A path has a directory and a name.                        *)

\* --smoke: a copy of every configuration, with a limit of one document, under
\* its own name in one directory.
SmokeCopies(paths) ==
    LET last(name) == SelectLastInSeq(paths, LAMBDA p : p.name = name)
    IN [n \in DOMAIN paths |-> [of |-> paths[last(paths[n].name)], doc_limit |-> 1]]

\* What is run, in order; either a directory or the configurations are given.
CellsToRun(dir, configs, smoke) ==
    LET paths == IF dir # <<>> THEN dir ELSE configs
    IN CASE dir # <<>> /\ configs # <<>> -> UsageError
         [] paths = <<>> -> UsageError
         [] OTHER -> IF smoke THEN SmokeCopies(paths)
                     ELSE [n \in DOMAIN paths |-> [of |-> paths[n], doc_limit |-> 0]]

-----------------------------------------------------------------------------
(* Properties.                                                             *)

Hits(table, where, facts) ==
    ToSet(SearchCommand(table, [where |-> where, include_facts |-> facts, by_symbol |-> <<>>], Len(table)))

\* Facts and chunks share a table and no answer (cli.py, "search" and
\* "fact-search"): whatever a search is narrowed to, it has no fact, and every
\* other row it has with --include-facts, of whatever kind or none.  A fact comes
\* with one chunk, an episode of its own session: the first, which is the one it
\* was found in where the session has no other.
FactsStayApart(rows, where) ==
    LET table == Stored(rows)
        session(i) == {m \in DOMAIN table : table[m].doc = table[i].doc}
    IN /\ Hits(table, where, FALSE) = {i \in Hits(table, where, TRUE) : ~IsFact(table[i])}
       /\ \E facts \in {FactSearch(table, -1, Len(table))} :
             /\ {facts[n].fact : n \in DOMAIN facts} = {i \in DOMAIN table : IsFact(table[i])}
             /\ \A n \in DOMAIN facts : facts[n].chunk =
                   {Min({m \in session(facts[n].fact) : ~IsFact(table[m])})}

\* "For each fact resolves its originating chunk" (fact_search): the last
\* episode of its session before it.
FactsHaveTheirChunk(rows) ==
    LET table == Stored(rows)
        facts == FactSearch(table, -1, Len(table))
        origin(i) == Max({m \in 1 .. i : table[m].doc = table[i].doc /\ ~IsFact(table[m])})
    IN \A n \in DOMAIN facts : facts[n].chunk = {origin(facts[n].fact)}

\* A list of names narrows a search to the symbols it names ("Comma-separated
\* names act as IN(...). A trailing '*' or '%' enables LIKE prefix-match").
BySymbolSelects(table, names) ==
    LET hits == ToSet(SearchCommand(table,
                    [where |-> <<>>, include_facts |-> TRUE, by_symbol |-> names], Len(table)))
        named(symbol) == \E n \in ToSet(names) :
            IF n.star THEN IsPrefix(n.stem, symbol) ELSE n.stem = symbol
    IN hits = {i \in DOMAIN table : named(table[i].columns["symbol_name"])}

\* Consecutive edges, from a name on.
IsWalk(path, fqn, direction, call) ==
    \A n \in DOMAIN path :
        /\ Followed(path[n], call)
        /\ AnchorOf(path[n], direction) = IF n = 1 THEN fqn ELSE NextOf(path[n - 1], direction)

\* The hop of a name is the length of a shortest way to it along edges that are
\* followed, cycles or not, and every name within the depth is there; and x is
\* a caller of y as y is a callee of x (_impact_query_one_direction).
ImpactIsShortest(edges, names, call) ==
    LET ways(fqn, direction, x, n) ==
            \E path \in [1 .. n -> edges] :
                IsWalk(path, fqn, direction, call) /\ NextOf(path[n], direction) = x
        found(fqn, direction) == ImpactQuery(edges, fqn, direction, call)
        hops(fqn, direction, x) == {r.hop : r \in {q \in found(fqn, direction) : q.fqn = x}}
    IN \A x, y \in names :
        /\ hops(y, "callers", x) =
              {n \in 1 .. call.depth : /\ ways(y, "callers", x, n)
                                       /\ \A m \in 1 .. n - 1 : ~ways(y, "callers", x, m)}
        /\ hops(y, "callers", x) = hops(x, "callees", y)

\* A smoke run of configurations with different names runs each, once.
SmokeRunsEveryCell(paths) ==
    (\A m, n \in DOMAIN paths : paths[m].name = paths[n].name => m = n)
        => LET cells == CellsToRun(<<>>, paths, TRUE)
           IN paths # <<>> => [n \in DOMAIN cells |-> cells[n].of] = paths
=============================================================================
