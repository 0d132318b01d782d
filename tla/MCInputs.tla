------------------------------ MODULE MCInputs ------------------------------
(***************************************************************************)
(* Inputs for the modules that have no state: what each subject begins     *)
(* with (Seeds) and how it grows (Grown).                                  *)
(***************************************************************************)
EXTENDS Integers, Sequences, FiniteSets, SequencesExt, TLC

Sources == INSTANCE CodeSymbols
Comments == INSTANCE CommentBlocks
Chunks == INSTANCE TextChunks
Answers == INSTANCE Retrieval
PlanWords == {"w1", "W1", "w2", "b", "c", "p", "q", "e1", "e2", "h", "s"}
Plan == INSTANCE EvalPlan WITH SlugOf <- [w \in PlanWords |-> IF w = "W1" THEN "w1" ELSE w]
Memory == INSTANCE MemoryReader
Commands == INSTANCE CommandLine WITH Symbols <- {<<"Http">>, <<"Http", "Source">>, <<"Base">>}

-----------------------------------------------------------------------------
(* Source files as trees of declarations and calls.                        *)

\* What a node of a kind may stand in.
Grammar ==
  [python |-> [class |-> {"file", "class", "function"}, function |-> {"file", "class", "function"},
               call |-> {"file", "class", "function"}, import |-> {"file", "function"}],
   java |-> [class |-> {"file", "class", "interface", "method"}, interface |-> {"file", "class", "interface"},
             method |-> {"class", "interface"}, call |-> {"method"}],
   javascript |-> [class |-> {"file", "function", "method"}, function |-> {"file", "function", "method", "if"},
                   method |-> {"class", "function", "file"},
                   call |-> {"file", "function", "method", "if"}, if |-> {"function"}],
   typescript |-> [class |-> {"file", "function", "method"}, interface |-> {"file"},
                   function |-> {"file", "function", "method"},
                   method |-> {"class", "function"}, call |-> {"file", "function", "method"}],
   go |-> [class |-> {"file", "function"}, interface |-> {"file"}, function |-> {"file"},
           method |-> {"file"}, call |-> {"function", "method"}],
   rust |-> [class |-> {"file", "function"}, interface |-> {"file"}, impl |-> {"file", "function"},
             function |-> {"file", "impl", "interface", "function"}, call |-> {"function"}],
   c |-> [class |-> {"file", "function"}, function |-> {"file"}, call |-> {"function"},
          member_call |-> {"function"}],
   cpp |-> [class |-> {"file", "class", "function"}, function |-> {"file", "class"}, call |-> {"function"}],
   csharp |-> [class |-> {"file", "class"}, interface |-> {"file"}, method |-> {"class", "interface"},
               call |-> {"method"}],
   ruby |-> [class |-> {"file", "class", "module"}, module |-> {"file", "module"},
             method |-> {"file", "class", "module", "method"}, call |-> {"file", "class", "method"}]]

\* The type that a receiver, a qualifier or an impl names.
NamedTypes(lang, kind, up) ==
    CASE lang = "go" /\ kind = "method" -> {"a"}
      [] lang = "rust" /\ kind = "impl" -> {"a"}
      [] lang = "cpp" /\ kind = "function" /\ up = 0 -> {"", "a"}
      [] OTHER -> {""}
KindAt(tree, n) == IF n = 0 THEN "file" ELSE tree[n].kind
Nodes(lang, tree) ==
    {node \in [kind : DOMAIN Grammar[lang], name : {<<"a", "b", "c", "d">>[Len(tree) + 1]},
               of : {"", "a"}, up : 0..Len(tree)] :
        /\ node.up \in {0, Len(tree)} \union Sources!Above(tree, Len(tree))
        /\ KindAt(tree, node.up) \in Grammar[lang][node.kind]
        /\ node.of \in NamedTypes(lang, node.kind, node.up)}

-----------------------------------------------------------------------------
(* Documents and the chunkers they are given to.                           *)

Lines == {<<>>, <<"a">>, <<"a", "a", "a">>, <<"a", ".", " ", "a", ".">>, <<"#">>, <<"##">>}
TextOf(lines) ==
    LET chars == FlattenSeq([k \in DOMAIN lines |-> lines[k] \o <<"nl">>])
    IN [i \in DOMAIN chars |-> [c |-> chars[i], at |-> i]]
NodeOf(lines, k) ==
    LET before == Len(TextOf(SubSeq(lines, 1, k - 1)))
    IN [text |-> SubSeq(TextOf(lines), before + 1, before + Len(lines[k])),
        kind |-> CASE lines[k] = <<"a">> -> "import" [] lines[k] = <<"a", "a", "a">> -> "function"
                   [] OTHER -> "other"]
DocumentOf(lines) ==
    LET statements == SelectSeq(lines, LAMBDA l : l # <<>>)
    IN [content |-> TextOf(lines), title |-> Chunks!Put("a"), summary |-> Chunks!Put("a"),
        shifts |-> {k \in 1..4 : lines # <<>> /\ k % Len(lines) # 0},
        nodes |-> [k \in DOMAIN statements |-> NodeOf(statements, k)],
        python |-> statements = lines, parses |-> \A k \in DOMAIN lines : lines[k] # <<"#">>]

Nothing == <<>>
SentencesOf(doc_type, most, least) ==
    [type |-> "sentence_aware", doc_type |-> doc_type, max_chars |-> most, min_chars |-> least,
     if_oversize |-> Nothing]
Code(most) == SentencesOf("code", most, 0)
Windowed(window, step, most, fallback) ==
    [type |-> "fixed_overlap", window_words |-> window, step_words |-> step, max_chars |-> most,
     if_oversize |-> fallback]
Headings(most, fallback) ==
    [type |-> "hierarchy", max_chars |-> most, min_section_chars |-> 1, prefix_heading |-> TRUE,
     if_oversize |-> fallback]
Topics(most, fallback) ==
    [type |-> "semantic", max_chars |-> most, min_sentences |-> 2, if_oversize |-> fallback]
Neighbours(base, fallback) ==
    [type |-> "neighbor_expand", base |-> base, window |-> 1, max_chars |-> 0, if_oversize |-> fallback]
Summaries(base) ==
    [type |-> "summary_embed", base |-> base, summarizer |-> "callable", max_chars |-> 0,
     if_oversize |-> Nothing]
Grouped(base, grouping, fallback) ==
    [type |-> "hierarchical_summary", base |-> base, summarizer |-> "passthrough", grouping |-> grouping,
     group_n |-> 2, group_words |-> 2, max_chars |-> 3, if_oversize |-> fallback]
Python(most, fallback) ==
    [type |-> "code_aware", max_chars |-> most, min_chars |-> 1, include_imports |-> TRUE,
     if_oversize |-> fallback]
Configurations ==
    {SentencesOf("prose", 4, 0), SentencesOf("prose", 3, 2), Code(3), Windowed(2, 1, 0, Nothing),
     Windowed(2, 2, 3, <<Code(2)>>), Windowed(2, 2, 0, <<Code(2)>>), Headings(4, <<Code(3)>>),
     Headings(4, <<Windowed(1, 1, 2, <<Code(2)>>)>>), Topics(4, <<Code(3)>>),
     Neighbours(Headings(3, Nothing), <<Code(3)>>), Summaries(Windowed(2, 1, 4, Nothing)),
     Grouped(Headings(4, Nothing), "section_aware", <<Code(3)>>), Grouped(Code(4), "fixed_n", Nothing),
     Grouped(Windowed(1, 1, 0, Nothing), "word_budget", Nothing), Python(3, <<Code(2)>>),
     Neighbours(Topics(6, Nothing), Nothing)}

-----------------------------------------------------------------------------
(* Tables to search, by row kind.                                          *)

Tag(text) == [text |-> text, upper |-> FALSE]
Text(text) == [type |-> "string", text |-> text]
Part(text, digits) == [text |-> text, digits |-> digits, size |-> 4]
Incident == <<[Part("inc", FALSE) EXCEPT !.size = 3], Part("0001", TRUE)>>
Other == <<[Part("a", FALSE) EXCEPT !.size = 1], Part("0001", TRUE)>>
SearchRow(kind, n) ==
    [source |-> IF kind = 1 THEN "x" ELSE "y",
     tags |-> IF kind \in {1, 2} THEN {Tag("api")} ELSE {},
     metadata |-> CASE kind = 1 -> ("topic" :> Text("ops"))
                    [] kind = 2 -> ("topic" :> Text("law"))
                    [] kind = 4 -> ("topic" :> [type |-> "number", text |-> "1"])
                    [] OTHER -> <<>>,
     columns |-> ("tenant" :> IF kind = 1 THEN "t1" ELSE "t2"),
     words |-> CASE kind = 1 -> {Incident, Other} [] kind = 2 -> {<<Part("inc", FALSE)>>} [] OTHER -> {Other},
     distance |-> n * n, relevance |-> kind,
     heading |-> [text |-> CASE kind = 1 -> <<"one", "two", "three", "four", "five", "six">>[n]
                             [] kind = 2 -> "one" [] OTHER -> "",
                  upper |-> kind = 2]]
RowsOf(kinds) == [n \in DOMAIN kinds |-> SearchRow(kinds[n], n)]
Filters ==
    {<<>>, [tags |-> {[text |-> "api", upper |-> TRUE]}], [source |-> "x"],
     [metadata |-> ("topic" :> Text("ops"))],
     [source |-> "y", metadata |-> ("topic" :> Text("law"))], [metadata_not |-> ("topic" :> Text("law"))],
     [column_in |-> ("tenant" :> {"t1"})],
     [column_like |-> ("tenant" :> {"t1", "t2"}), tags |-> {Tag("api")}],
     [column_in |-> ("tenant" :> {})]}
HybridCall(filter, fusion) ==
    [k |-> 6, legs |-> {"semantic", "fts"}, hasVector |-> TRUE, hasQuery |-> TRUE, query |-> <<Incident>>,
     fusion |-> fusion, weights |-> <<2, 1>>, rrfK |-> 60, ef |-> 40, filter |-> filter,
     metric |-> "cosine", hasHints |-> FALSE, hints |-> {}, derivedHints |-> {"inc"}, expands |-> TRUE,
     expansion |-> {"incident"}, mode |-> "chunks", hasSummarizer |-> TRUE]
Ranked(order) == [i \in DOMAIN order |-> [row |-> order[i], score |-> 10 - i]]

-----------------------------------------------------------------------------
(* Tables with symbols and facts, graphs of calls, configurations to run.  *)

CommandRow(kind) ==
    [doc |-> IF kind % 2 = 0 THEN "a" ELSE "b", source |-> "x", tags |-> {}, distance |-> 1, relevance |-> 1,
     words |-> {}, heading |-> [text |-> "", upper |-> FALSE],
     columns |-> ("symbol_name" :> CASE kind = 1 -> <<"Http">> [] kind = 2 -> <<"Http", "Source">>
                                     [] OTHER -> <<"Base">>),
     metadata |-> CASE kind = 2 -> ("kind" :> Text("code") @@ "topic" :> Text("t"))
                    [] kind = 3 -> Commands!FactKind
                    [] kind = 4 -> (Commands!FactKind @@ "topic" :> Text("t"))
                    [] kind = 5 -> ("kind" :> Text("episode"))
                    [] OTHER -> <<>>,
     confidence |-> IF kind = 3 THEN 5 ELSE -1, source_chunk_seq |-> 0]
Wheres == {<<>>, <<[key |-> "source", value |-> "x"]>>,
           <<[key |-> "metadata", name |-> "topic", value |-> "t"]>>}
Name(stem, star) == [stem |-> stem, star |-> star]

Functions == {"f", "g", "h"}
Edge(src, dst, confidence, kind, project) ==
    [src |-> src, dst |-> dst, confidence |-> confidence, type |-> "CALLS", kind |-> kind,
     project |-> project]
Edges == {Edge(s, d, 9, "calls", "p") : s \in Functions, d \in Functions} \union
    {Edge("f", "g", 5, "calls", "p"), [Edge("g", "h", 9, "extends", "p") EXCEPT !.type = "INHERITS"],
     Edge("f", "h", 9, "imports", "p"), Edge("h", "f", 9, "calls", "q")}
ImpactCall(depth, floor, kinds) ==
    [depth |-> depth, direction |-> "both", floor |-> floor, type |-> "CALLS", kinds |-> kinds,
     project |-> "p"]
Paths == [dir : {"x", "y"}, name : {"a", "b"}]

-----------------------------------------------------------------------------
(* Evaluation matrices and requests; rows of memory.                       *)

Named(name, tags) == [name |-> <<name>>, tags |-> tags]
MatrixWith(include, second, baselines) ==
    [workloads |-> <<[name |-> <<"w1">>, tags |-> {}, judged |-> TRUE],
                     [name |-> <<second>>, tags |-> {"fast"}, judged |-> FALSE]>>,
     baselines |-> baselines, candidates |-> <<Named("c", {"fast"})>>,
     axes |-> [embedders |-> <<Named("e1", {"fast"}), Named("e2", {})>>,
               chunkers |-> <<Named("h", {}), Named("s", {"fast"})>>,
               twice |-> <<Named("h", {}), Named("h", {})>>],
     profiles |-> [p |-> [tags |-> {}, include |-> include], q |-> [tags |-> {"q"}, include |-> <<>>]],
     profileOrder |-> <<"p", "q">>]
Includes == {[axis |-> "embedders", names |-> <<<<"e1">>, <<"e2">>>>], [axis |-> "twice", names |-> <<<<"h">>>>],
             [axis |-> "chunkers", names |-> <<>>], [axis |-> "chunkers", names |-> <<<<"h">>, <<"s">>>>]}

MemoryRow(namespace, session, seq, kind, tier, retracted, object) ==
    [namespace |-> namespace, doc |-> session, seq |-> seq, kind |-> kind, tier |-> tier,
     retracted |-> retracted, subject |-> "s", predicate |-> IF kind = "fact" THEN "p" ELSE "",
     object |-> object]
MemoryRows ==
    {MemoryRow("n", 1, 1, "episode", "consolidated", FALSE, ""),
     MemoryRow("n", 1, 2, "episode", "consolidated", FALSE, ""),
     MemoryRow("n", 1, 3, "fact", "consolidated", FALSE, "o"),
     MemoryRow("n", 1, 4, "fact", "consolidated", TRUE, "q"),
     MemoryRow("n", 1, 5, "fact", "consolidated", FALSE, "s"),
     MemoryRow("m", 1, 1, "episode", "consolidated", FALSE, ""),
     MemoryRow("n", 2, 1, "episode", "provisional", FALSE, ""),
     MemoryRow("n", 2, 2, "fact", "consolidated", FALSE, "")}

-----------------------------------------------------------------------------

Seeds(subject) ==
    CASE subject = "symbols" -> [lang : DOMAIN Grammar, grammar : BOOLEAN, tree : {<<>>}]
      [] subject = "comments" -> [lang : {"javascript", "c"}, text : {<<>>}]
      [] subject = "chunks" -> [cfg : Configurations, lines : {<<>>}]
      [] subject = "answers" -> [kinds : {<<>>}, filter : Filters, order : {<<>>}]
      [] subject = "hybrid" -> [kinds : {<<1, 1, 1, 1, 1, 1>>, <<1, 2, 3, 1, 4, 1>>},
                                filter : {<<>>, [source |-> "x"]}, order : {<<>>}]
      [] subject = "graph search" -> {{}}
      [] subject = "plan" ->
             [cfg : {MatrixWith(<<>>, "w2", <<Named("b", {})>>), MatrixWith(<<>>, "W1", <<Named("b", {})>>),
                     MatrixWith(<<>>, "w2", <<Named("b", {}), Named("b", {})>>)},
              request : [profiles : {<<>>, <<"q">>, <<"r">>}, tags : {{}, {"fast"}, {"q"}},
                         baselines : {TRUE}, candidates : BOOLEAN]]
      [] OTHER -> {<<>>}

Grown(subject, input) ==
    CASE subject = "symbols" ->
             {[input EXCEPT !.tree = Append(@, node)] :
                 node \in IF Len(input.tree) < 4 THEN Nodes(input.lang, input.tree) ELSE {}}
      [] subject = "comments" ->
             {[input EXCEPT !.text = Append(@, token)] :
                 token \in IF Len(input.text) < 5
                           THEN {"nl", "x", "quote", "tick", "//", "/*", "*/"} ELSE {}}
      [] subject = "chunks" ->
             {[input EXCEPT !.lines = Append(@, line)] : line \in IF Len(input.lines) < 4 THEN Lines ELSE {}}
      [] subject = "answers" ->
             {[input EXCEPT !.kinds = Append(@, kind)] : kind \in IF Len(input.kinds) < 5 THEN 1..4 ELSE {}}
      [] subject = "hybrid" ->
             {[input EXCEPT !.order = Append(@, row)] :
                 row \in IF Len(input.order) < 4 THEN DOMAIN input.kinds \ Range(input.order) ELSE {}}
      [] subject = "commands" ->
             {Append(input, kind) : kind \in {n \in (1..5) \ Range(input) :
                 n \in {3, 4} => \E m \in Range(input) \ {3, 4} : CommandRow(m).doc = CommandRow(n).doc}}
      [] subject = "graph search" ->
             {input \union {edge} : edge \in IF Cardinality(input) < 3 THEN Edges ELSE {}}
      [] subject = "smoke" ->
             {Append(input, path) : path \in IF Len(input) < 3 THEN Paths ELSE {}}
      [] subject = "plan" ->
             LET include == input.cfg.profiles.p.include
             IN {[input EXCEPT !.cfg.profiles.p.include = Append(@, part)] :
                    part \in IF Len(include) < 2
                             THEN {i \in Includes : \A n \in DOMAIN include : include[n].axis # i.axis} ELSE {}}
      [] subject = "memory" ->
             {Append(input, row) : row \in IF Len(input) < 5 THEN MemoryRows \ Range(input) ELSE {}}
      [] OTHER -> {}
=============================================================================
