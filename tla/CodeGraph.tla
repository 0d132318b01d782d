----------------------------- MODULE CodeGraph -----------------------------
(***************************************************************************)
(* The code graph (extractors/code_relationships.py).  A cell's extractor  *)
(* collects symbols, imports and unresolved calls chunk by chunk, in the   *)
(* order the source has them; at the end it resolves names over all it has *)
(* seen, and write_edges upserts the edges.  The next run is another       *)
(* extractor, over the files that changed.                                 *)
(***************************************************************************)
EXTENDS Integers, Sequences, FiniteSets, FiniteSetsExt, SequencesExt, TLC

CONSTANTS
    SourceFiles,
    Prefix,     \* [SourceFiles -> prefixes]: the last three parts of a path
    Texts,      \* [SourceFiles -> sets of texts]; a text is a Seq of chunks
    MaxGraphRuns

\* A chunk has a language, symbols <<parent, name>> in order, calls
\* <<caller, callee>> in order, the files whose stems its imports name, and
\* bases <<class, edge type, base>>.
GraphAssumption ==
    /\ IsFiniteSet(SourceFiles) /\ DOMAIN Prefix = SourceFiles
    /\ DOMAIN Texts = SourceFiles /\ MaxGraphRuns \in Nat

VARIABLES
    corpus,     \* the text of each file
    unread,     \* files a run has to extract yet
    taken,      \* files this extractor has seen
    extractor,  \* its symbols, imports and pending calls and bases
    edges,      \* code_edges: <<type, src node, dst node>> to how it was resolved
    graphRuns

graphVars == <<corpus, unread, taken, extractor, edges, graphRuns>>

Fresh == [symbols |-> <<>>, imports |-> [f \in SourceFiles |-> {}], pending |-> <<>>]

GraphInit ==
    /\ corpus \in [SourceFiles -> UNION {Texts[f] : f \in SourceFiles}]
    /\ \A f \in SourceFiles : corpus[f] \in Texts[f]
    /\ unread = SourceFiles /\ taken = {}
    /\ extractor = Fresh /\ edges = <<>> /\ graphRuns = 1

-----------------------------------------------------------------------------
\* build_fqn: with the class around it.
Fqn(f, symbol) == <<Prefix[f], symbol[1], symbol[2]>>
BareName(fqn) == fqn[3]

\* The caller's hint, or what the text looks like.
LanguageOf(chunk) == IF chunk.hint # "none" THEN chunk.hint ELSE chunk.looks

\* _register_symbol: the first with an fqn stays.
Registered(symbols, f, chunk) ==
    symbols @@ [q \in {Fqn(f, s) : s \in ToSet(chunk.symbols)} |-> f]

\* code_symbol_node_id: an edge ends at the file the name was registered with.
NodeId(x, fqn) == <<x.symbols[fqn], fqn>>

\* Sibling symbols of a call by name, never for a function's own name.
Siblings(chunk, call) ==
    SelectSeq(chunk.symbols, LAMBDA s : s[2] = call[2] /\ call[1][2] # call[2])

\* Faulty variant of PendingCall: the name is looked up when the call is seen.
PendingCallNow(x, f, chunk, call) ==
    LET known == {q \in DOMAIN x.symbols : BareName(q) = call[2]}
    IN [type |-> "CALLS", file |-> f, src |-> Fqn(f, call[1]), name |-> call[2],
        dst |-> IF Cardinality(known) = 1 THEN CHOOSE q \in known : TRUE ELSE <<>>]

\* A call with what is known of it: the symbol of the chunk it means, if any.
PendingCall(x, f, chunk, call) ==
    [type |-> "CALLS", file |-> f, src |-> Fqn(f, call[1]), name |-> call[2],
     dst |-> IF Siblings(chunk, call) = <<>> THEN <<>>
             ELSE Fqn(f, Head(Siblings(chunk, call)))]

\* _scan_class_edges: of Python and Java only, of top-level classes by name.
PendingBases(f, chunk) ==
    IF LanguageOf(chunk) \notin {"python", "java"} THEN <<>>
    ELSE [n \in 1 .. Len(chunk.bases) |->
            [type |-> chunk.bases[n][2], file |-> f, dst |-> <<>>,
             src |-> Fqn(f, <<"", chunk.bases[n][1]>>), name |-> chunk.bases[n][3]]]

\* extract; nothing comes of a text of no known language.
Extracted(x, f, chunk) ==
    IF LanguageOf(chunk) = "none" THEN x
    ELSE LET symbols == Registered(x.symbols, f, chunk)
             y == [x EXCEPT !.symbols = symbols]
             calls == SelectSeq(chunk.calls, LAMBDA c : c[1] \in ToSet(chunk.symbols))
         IN [y EXCEPT
               !.imports[f] = @ \cup chunk.imports,
               !.pending = @ \o [n \in 1 .. Len(calls) |-> PendingCall(y, f, chunk, calls[n])]
                             \o PendingBases(f, chunk)]

ExtractedFile(x, f) == FoldLeft(LAMBDA y, chunk : Extracted(y, f, chunk), x, corpus[f])

-----------------------------------------------------------------------------
\* _import_supported: the caller's file imports the module of a candidate.
ImportSupported(x, f, candidate) == x.symbols[candidate] \in x.imports[f]

\* What a pending name means, and how that was found out.
Resolved(x, p) ==
    LET candidates == {q \in DOMAIN x.symbols : BareName(q) = p.name}
        supported == {q \in candidates : ImportSupported(x, p.file, q)}
    IN CASE p.dst # <<>> -> [dst |-> {p.dst}, how |-> "intra_file"]
         [] p.dst = <<>> /\ Cardinality(candidates) <= 1 ->
               [dst |-> candidates, how |-> "unique_name"]
         [] p.dst = <<>> /\ Cardinality(candidates) > 1 /\ Cardinality(supported) = 1 ->
               [dst |-> supported, how |-> "import_resolved"]
         [] OTHER -> [dst |-> candidates, how |-> "ambiguous_name"]

\* _emit: both ends are registered, and the first of its kind stays.
Emitted(x, found, p) ==
    IF p.src \notin DOMAIN x.symbols THEN found
    ELSE LET ends == Resolved(x, p).dst \cap DOMAIN x.symbols
         IN found @@ [k \in {<<p.type, NodeId(x, p.src), NodeId(x, d)>> : d \in ends}
                        |-> Resolved(x, p).how]

\* finalize: calls before bases.
FinalEdges(x) ==
    LET calls == SelectSeq(x.pending, LAMBDA p : p.type = "CALLS")
        bases == SelectSeq(x.pending, LAMBDA p : p.type # "CALLS")
    IN FoldLeft(LAMBDA found, p : Emitted(x, found, p), <<>>, calls \o bases)

Confident(how) == how # "ambiguous_name"

-----------------------------------------------------------------------------
ExtractFile(f) ==
    /\ f \in unread
    /\ extractor' = ExtractedFile(extractor, f)
    /\ unread' = unread \ {f} /\ taken' = taken \cup {f}
    /\ UNCHANGED <<corpus, edges, graphRuns>>

\* write_edges: an upsert; edges of earlier runs are never deleted.
WriteEdges ==
    /\ unread = {} /\ taken # {}
    /\ edges' = FinalEdges(extractor) @@ edges
    /\ taken' = {} /\ extractor' = Fresh
    /\ UNCHANGED <<corpus, unread, graphRuns>>

\* Files change, and the next run of the cell reads those.
NextRun(changed) ==
    /\ unread = {} /\ taken = {} /\ graphRuns < MaxGraphRuns
    /\ changed # {}
    /\ \E new \in [changed -> UNION {Texts[f] : f \in changed}] :
          /\ \A f \in changed : new[f] \in Texts[f] \ {corpus[f]}
          /\ corpus' = new @@ corpus
    /\ unread' = changed /\ graphRuns' = graphRuns + 1
    /\ UNCHANGED <<taken, extractor, edges>>

GraphNext ==
    \/ \E f \in SourceFiles : ExtractFile(f)
    \/ WriteEdges
    \/ \E changed \in SUBSET SourceFiles : NextRun(changed)

GraphSpec == GraphInit /\ [][GraphNext]_graphVars

-----------------------------------------------------------------------------
\* The graph of a run is a function of its files: resolving names only once
\* all are known makes it the same, with the same confidence, in whatever
\* order the source has them, as long as no two files agree in the three
\* parts of their paths that name a symbol.
GraphIgnoresOrder ==
    unread = {} /\ (\A f, g \in SourceFiles : Prefix[f] = Prefix[g] => f = g) => FinalEdges(extractor) =
        FinalEdges(FoldLeft(LAMBDA x, f : ExtractedFile(x, f), Fresh, SetToSeq(taken)))

\* After a run the table has the edges of a corpus extracted at once.  The code
\* does not promise it: a run that reads only changed files resolves no name of
\* the others, and calls that are gone keep their edges.
TableIsGraph ==
    unread = {} /\ taken = {} => edges =
        FinalEdges(FoldLeft(LAMBDA x, f : ExtractedFile(x, f), Fresh, SetToSeq(SourceFiles)))
=============================================================================
