----------------------------- MODULE TextChunks -----------------------------
(***************************************************************************)
(* How a document becomes chunks (chunkshop/chunkers).  A text is a        *)
(* sequence of characters, each with its class ("a": a letter, ".": the end*)
(* of a sentence, " " and "nl": blanks, "#" and "##": heading lines, which *)
(* differ in their text) and its place in the document; 0 is the place of  *)
(* what a chunker put in.  A configuration is a record, its "max_chars" 0  *)
(* when there is none and its "if_oversize" a sequence of at most one      *)
(* configuration.  A document has "content", the "title", the "summary" a  *)
(* summarizer not written here returns, the distances' breakpoints "shifts"*)
(* (sentence numbers), and for Python the top-level "nodes" of its parser  *)
(* ("python", "parses").  The guard against more than five nested          *)
(* fallbacks is left out: the configurations here nest less.               *)
(***************************************************************************)
EXTENDS Integers, Sequences, FiniteSets, FiniteSetsExt, SequencesExt

Blank(char) == char.c \in {" ", "nl"}
Put(class) == <<[c |-> class, at |-> 0]>>
Gap == Put("nl") \o Put("nl")
Places(t) == {t[i].at : i \in 1 .. Len(t)} \ {0}

\* The numbers of S in order.
Ascending(S) ==
    [k \in 1 .. Cardinality(S) |-> CHOOSE x \in S : Cardinality({y \in S : y < x}) = k - 1]

Intervals(S) ==
    {r \in S \X S : /\ r[1] <= r[2] /\ r[1] .. r[2] \subseteq S
                    /\ r[1] - 1 \notin S /\ r[2] + 1 \notin S}
InOrder(runs) ==
    LET from == Ascending({r[1] : r \in runs})
    IN [k \in DOMAIN from |-> CHOOSE r \in runs : r[1] = from[k]]

\* str.strip.
Strip(t) ==
    LET kept == {i \in 1 .. Len(t) : ~Blank(t[i])}
    IN IF kept = {} THEN <<>> ELSE SubSeq(t, Min(kept), Max(kept))

\* What of text t lies between the cuts after the positions of S.
CutAfter(t, S) ==
    LET ends == Ascending(S \cup {Len(t)})
        begin(k) == IF k = 1 THEN 1 ELSE ends[k - 1] + 1
    IN IF t = <<>> THEN <<>> ELSE [k \in 1 .. Len(ends) |-> SubSeq(t, begin(k), ends[k])]

NonEmpty(texts) == SelectSeq(texts, LAMBDA t : t # <<>>)

-----------------------------------------------------------------------------
(* Paragraphs, sentences, slices (_splitting.py, _sentence_split.py).      *)

BlankRuns(t) == Intervals({i \in 1 .. Len(t) : Blank(t[i])})

\* A run of blanks with two line ends, or more, ends a paragraph.
Paragraphs(t) ==
    LET breaks == {r \in BlankRuns(t) : Cardinality({i \in r[1] .. r[2] : t[i].c = "nl"}) >= 2}
        cut == CutAfter(t, {r[2] : r \in breaks})
    IN NonEmpty([k \in DOMAIN cut |-> Strip(cut[k])])

\* A sentence has its trailing blanks.
SentenceTokens(t) ==
    CutAfter(t, {r[2] : r \in {q \in BlankRuns(t) : q[1] > 1 /\ t[q[1] - 1].c = "."}})

NaiveSentences(t) ==
    LET tokens == SentenceTokens(t) IN NonEmpty([k \in DOMAIN tokens |-> Strip(tokens[k])])

CharSlice(t, max_chars) ==
    CutAfter(t, {i \in 1 .. Len(t) - 1 : i % max_chars = 0})

\* Greedy packing of pieces: joined by "sep" while they fit "budget", ended by
\* "tail" when they do not; a piece over "max" is split further by Down.
Packed(pieces, how, Down(_)) ==
    LET ended(buf, tail) == IF buf = <<>> THEN <<>> ELSE <<buf \o tail>>
        Add(acc, piece) ==
            CASE Len(piece) > how.max ->
                    [out |-> acc.out \o ended(acc.buf, how.tail) \o Down(piece), buf |-> <<>>]
              [] /\ Len(piece) <= how.max /\ acc.buf # <<>>
                 /\ Len(acc.buf) + Len(how.sep) + Len(piece) > how.budget ->
                    [out |-> acc.out \o ended(acc.buf, how.tail), buf |-> piece]
              [] OTHER ->
                    [acc EXCEPT !.buf = IF @ = <<>> THEN piece ELSE @ \o how.sep \o piece]
        all == FoldLeft(Add, [out |-> <<>>, buf |-> <<>>], pieces)
    IN all.out \o ended(all.buf, <<>>)

SplitSentences(t, max_chars) ==
    Packed(SentenceTokens(t),
           [sep |-> <<>>, tail |-> <<>>, budget |-> max_chars, max |-> max_chars],
           LAMBDA s : CharSlice(s, max_chars))

\* split_to_max_chars.  A paragraph of max_chars exactly gets its line end too.
SplitToMaxChars(t, max_chars) ==
    IF Len(t) <= max_chars THEN <<t>>
    ELSE Packed(Paragraphs(t),
                [sep |-> Gap, tail |-> Put("nl"), budget |-> max_chars - 1, max |-> max_chars],
                LAMBDA p : SplitSentences(p, max_chars))

-----------------------------------------------------------------------------
(* Chunks of one text.                                                     *)

Chunk(text) == [original |-> text, embedded |-> text, heading |-> "", coarse |-> FALSE, group |-> 0]
Chunks(texts) == [k \in DOMAIN texts |-> Chunk(texts[k])]

\* Windows over the words; no window starts after one that reached the end.
FixedOverlap(cfg, doc) ==
    LET t == doc.content
        words == InOrder(Intervals({i \in 1 .. Len(t) : ~Blank(t[i])}))
        starts == {i \in 1 .. Len(words) : (i - 1) % cfg.step_words = 0 /\
                     (i = 1 \/ i - cfg.step_words + cfg.window_words <= Len(words))}
        from == Ascending(starts)
    IN [k \in DOMAIN from |->
          Chunk(SubSeq(t, words[from[k]][1],
                       words[Min({from[k] + cfg.window_words - 1, Len(words)})][2]))]

SplitPlain(t, max_chars) ==
    Packed(Paragraphs(t),
           [sep |-> Gap, tail |-> <<>>, budget |-> max_chars, max |-> max_chars],
           LAMBDA p : SplitToMaxChars(p, max_chars))

\* Sections(t)[1] is what precedes the first heading; the others begin with theirs.
Headings(t) == {i \in 1 .. Len(t) : t[i].c \in {"#", "##"}}
Sections(t) ==
    LET at == Ascending(Headings(t))
        last(k) == IF k = Len(at) THEN Len(t) ELSE at[k + 1] - 1
    IN <<SubSeq(t, 1, at[1] - 1)>> \o [k \in DOMAIN at |-> SubSeq(t, at[k], last(k))]

\* With headings, pieces shorter than min_chars are dropped, unless the whole
\* text is one piece's worth.
SplitProse(t, cfg) ==
    LET sections == NonEmpty([k \in DOMAIN Sections(t) |-> Strip(Sections(t)[k])])
        pieces == FlattenSeq([k \in DOMAIN sections |-> SplitToMaxChars(sections[k], cfg.max_chars)])
    IN CASE Headings(t) = {} -> SplitPlain(t, cfg.max_chars)
         [] Headings(t) # {} /\ Len(t) <= cfg.max_chars -> pieces
         [] OTHER -> SelectSeq(pieces, LAMBDA p : Len(p) >= cfg.min_chars)

SentenceAware(cfg, doc) ==
    Chunks(IF cfg.doc_type = "code" THEN SplitPlain(doc.content, cfg.max_chars)
           ELSE SplitProse(doc.content, cfg))

\* A section's body; the heading (the title, before the first one) is embedded
\* only.
SectionChunks(cfg, body, heading, name) ==
    LET parts == SplitToMaxChars(body, cfg.max_chars)
        framed(part) == IF heading # <<>> /\ cfg.prefix_heading THEN heading \o Gap \o part ELSE part
    IN [k \in DOMAIN parts |-> [Chunk(parts[k]) EXCEPT !.embedded = framed(parts[k]), !.heading = name]]

\* Faulty variant of Hierarchy: what precedes the first heading is not looked at.
HierarchyHeaded(cfg, doc) ==
    LET t == doc.content
        sections == Sections(t)
        body(k) == Strip(Tail(sections[k]))
        each == [k \in DOMAIN sections |->
                   IF k = 1 \/ Len(body(k)) < cfg.min_section_chars THEN <<>>
                   ELSE SectionChunks(cfg, body(k), <<sections[k][1]>>, sections[k][1].c)]
    IN IF Headings(t) = {} THEN SectionChunks(cfg, Strip(t), doc.title, "title") ELSE FlattenSeq(each)

Hierarchy(cfg, doc) ==
    LET t == doc.content
        sections == Sections(t)
        body(k) == Strip(IF k = 1 THEN sections[k] ELSE Tail(sections[k]))
        each == [k \in DOMAIN sections |->
                   CASE Len(body(k)) < cfg.min_section_chars \/ (k = 1 /\ sections[1] = <<>>) -> <<>>
                     [] k = 1 -> SectionChunks(cfg, body(k), doc.title, "title")
                     [] OTHER -> SectionChunks(cfg, body(k), <<sections[k][1]>>, sections[k][1].c)]
    IN CASE Headings(t) # {} -> FlattenSeq(each)
         [] Headings(t) = {} /\ Strip(t) = <<>> -> <<>>
         [] OTHER -> SectionChunks(cfg, Strip(t), doc.title, "title")

-----------------------------------------------------------------------------
(* Topic shifts (semantic.py).                                             *)

SpanSize(span) == span[2] - span[1]

\* Spans are joined to the one before them; a small first one takes the next,
\* and a small last one goes to the one before.
MergeSmall(spans, min_sents) ==
    LET merged == FoldLeft(LAMBDA acc, s : IF acc # <<>> /\ SpanSize(s) < min_sents
                                           THEN [acc EXCEPT ![Len(acc)] = <<@[1], s[2]>>]
                                           ELSE Append(acc, s),
                           <<>>, spans)
        first == IF Len(merged) > 1 /\ SpanSize(merged[1]) < min_sents
                 THEN <<<<merged[1][1], merged[2][2]>>>> \o SubSeq(merged, 3, Len(merged))
                 ELSE merged
        n == Len(first)
    IN IF n > 1 /\ SpanSize(first[n]) < min_sents
       THEN Append(SubSeq(first, 1, n - 2), <<first[n - 1][1], first[n][2]>>)
       ELSE first

\* Only the last piece is sliced: a long sentence before it stays whole.
SplitIfTooLarge(body, max_chars) ==
    LET pieces == Packed(NaiveSentences(body),
                         [sep |-> Put(" "), tail |-> <<>>, budget |-> max_chars, max |-> Len(body)],
                         LAMBDA s : <<s>>)
    IN IF Len(body) <= max_chars THEN <<body>>
       ELSE Front(pieces) \o CharSlice(Last(pieces), max_chars)

\* The spans of sentences (half open) between the shifts the model sees.
SpansOf(cfg, doc, n) ==
    LET ends == Ascending({i \in doc.shifts : i < n} \cup {n})
    IN MergeSmall([k \in DOMAIN ends |-> <<IF k = 1 THEN 0 ELSE ends[k - 1], ends[k]>>],
                  cfg.min_sentences)

Semantic(cfg, doc) ==
    LET sentences == NaiveSentences(doc.content)
        spans == SpansOf(cfg, doc, Len(sentences))
        joined(span) == FoldLeft(LAMBDA acc, s : IF acc = <<>> THEN s ELSE acc \o Put(" ") \o s,
                                 <<>>, SubSeq(sentences, span[1] + 1, span[2]))
    IN IF sentences = <<>> THEN <<>>
       ELSE Chunks(FlattenSeq([k \in DOMAIN spans |->
                                 SplitIfTooLarge(joined(spans[k]), cfg.max_chars)]))

-----------------------------------------------------------------------------
(* Python source (code_aware.py): definitions, and what lies between them. *)

Definition(node) == node.kind \in {"function", "class"}
ImportsBlock(nodes) ==
    LET leading == {k \in DOMAIN nodes : \A j \in 1 .. k : ~Definition(nodes[j])}
    IN FlattenSeq([k \in 1 .. Cardinality(leading) |->
                     IF nodes[k].kind = "import" THEN nodes[k].text \o Put("nl") ELSE <<>>])

PythonChunks(cfg, nodes) ==
    LET imports == IF cfg.include_imports THEN ImportsBlock(nodes) ELSE <<>>
        framed(text) == IF imports = <<>> THEN text ELSE imports \o Put("nl") \o text
        plain == Intervals({k \in DOMAIN nodes : ~Definition(nodes[k])})
        runs == InOrder(plain \cup {<<k, k>> : k \in {j \in DOMAIN nodes : Definition(nodes[j])}})
        text(run) == FlattenSeq([k \in 1 .. 1 + run[2] - run[1] |->
                       (IF k = 1 THEN <<>> ELSE Put("nl")) \o nodes[run[1] + k - 1].text])
    IN [k \in DOMAIN runs |-> [Chunk(text(runs[k])) EXCEPT !.embedded = framed(text(runs[k]))]]

-----------------------------------------------------------------------------
(* Wrappers.                                                               *)

Summarized(cfg, doc, text) == IF cfg.summarizer = "passthrough" THEN text ELSE doc.summary

NeighborExpanded(cfg, base) ==
    LET joined(i) == FlattenSeq([k \in 1 .. 1 + Min({Len(base), i + cfg.window}) - Max({1, i - cfg.window}) |->
                       (IF k = 1 THEN <<>> ELSE Gap) \o base[Max({1, i - cfg.window}) + k - 1].embedded])
    IN [i \in DOMAIN base |-> [base[i] EXCEPT !.embedded = joined(i)]]

SummaryEmbedded(cfg, doc, base) ==
    [i \in DOMAIN base |-> [base[i] EXCEPT !.embedded = Summarized(cfg, doc, base[i].original)]]

WordCount(t) == Cardinality(Intervals({i \in 1 .. Len(t) : ~Blank(t[i])}))

\* Where groups end: after every n chunks, before a chunk that passes the budget
\* of words, where the heading changes.
GroupEnds(cfg, base) ==
    LET n == Len(base)
        words[i \in 0 .. n] ==
            CASE i = 0 -> 0
              [] i > 0 /\ words[i - 1] > 0
                 /\ words[i - 1] + WordCount(base[i].original) > cfg.group_words ->
                    WordCount(base[i].original)
              [] OTHER -> words[i - 1] + WordCount(base[i].original)
    IN {n} \cup {i \in 1 .. n - 1 :
          CASE cfg.grouping = "fixed_n" -> i % cfg.group_n = 0
            [] cfg.grouping = "word_budget" -> words[i] + WordCount(base[i + 1].original) > cfg.group_words
            [] OTHER -> base[i].heading # base[i + 1].heading}

\* The fine rows of a group, then its one coarse row.
HierarchicallySummarized(cfg, doc, base) ==
    LET ends == Ascending(GroupEnds(cfg, base))
        members(g) == SubSeq(base, IF g = 1 THEN 1 ELSE ends[g - 1] + 1, ends[g])
        joined(g) == FlattenSeq([k \in DOMAIN members(g) |->
                       (IF k = 1 THEN <<>> ELSE Gap) \o members(g)[k].original])
        fine(g) == [k \in DOMAIN members(g) |-> [members(g)[k] EXCEPT !.group = g]]
        coarse(g) == [Chunk(joined(g)) EXCEPT !.embedded = Summarized(cfg, doc, joined(g)),
                                              !.coarse = TRUE, !.group = g]
    IN IF base = <<>> THEN <<>>
       ELSE FlattenSeq([g \in DOMAIN ends |-> Append(fine(g), coarse(g))])

-----------------------------------------------------------------------------
(* Configurations that hold configurations.                                *)

Wraps(cfg) == cfg.type \in {"neighbor_expand", "summary_embed", "hierarchical_summary"}

\* What a chunker makes of the chunks of another; code_aware hands them on.
Wrapped(cfg, doc, base) ==
    CASE cfg.type = "neighbor_expand" -> NeighborExpanded(cfg, base)
      [] cfg.type = "summary_embed" -> SummaryEmbedded(cfg, doc, base)
      [] cfg.type = "hierarchical_summary" -> HierarchicallySummarized(cfg, doc, base)
      [] OTHER -> base

RECURSIVE EffectiveMaxChars(_)
EffectiveMaxChars(cfg) ==
    IF Wraps(cfg) /\ cfg.max_chars = 0 THEN EffectiveMaxChars(cfg.base) ELSE cfg.max_chars

\* What the validators of a configuration ask: a fallback needs a ceiling, of the chunker's own or
\* of one it wraps, and sections come from a hierarchy.
HasCeiling(cfg) == cfg.if_oversize # <<>> => EffectiveMaxChars(cfg) # 0
GroupsSections(cfg) ==
    cfg.type = "hierarchical_summary" /\ cfg.grouping = "section_aware" => cfg.base.type = "hierarchy"
RECURSIVE Accepted(_)
Accepted(cfg) ==
    /\ HasCeiling(cfg) /\ GroupsSections(cfg)
    /\ Wraps(cfg) => Accepted(cfg.base)
    /\ cfg.if_oversize # <<>> => Accepted(cfg.if_oversize[1])

\* Faulty variant of IsOversize: only what is stored is measured.
IsOversizeOriginal(chunk, ceiling) == Len(chunk.original) > ceiling

IsOversize(chunk, ceiling) ==
    Len(chunk.embedded) > ceiling \/ Len(chunk.original) > ceiling

\* "exempt": whether coarse rows are, which those of a fallback are not.
TooLong(chunk, cfg, exempt) ==
    /\ ~(exempt /\ chunk.coarse) /\ EffectiveMaxChars(cfg) # 0
    /\ IsOversize(chunk, EffectiveMaxChars(cfg))

\* Only the original text of an oversize row is left in the rows that replace it.
Replaced(c, subs) ==
    [k \in DOMAIN subs |->
       [c EXCEPT !.original = subs[k].original, !.embedded = subs[k].original,
                 !.heading = IF subs[k].heading = "" THEN @ ELSE subs[k].heading,
                 !.coarse = IF subs[k].group = 0 THEN @ ELSE subs[k].coarse,
                 !.group = IF subs[k].group = 0 THEN @ ELSE subs[k].group]]

\* What code_aware falls back to for another language.
OtherLanguage(cfg) ==
    IF cfg.if_oversize # <<>> THEN cfg.if_oversize[1]
    ELSE [type |-> "sentence_aware", doc_type |-> "prose", max_chars |-> cfg.max_chars,
          min_chars |-> cfg.min_chars, if_oversize |-> <<>>]

\* The chunks before a fallback; "inner" are those of the chunker that is wrapped
\* or taken instead.
RawChunks(cfg, doc, inner) ==
    CASE cfg.type = "fixed_overlap" -> FixedOverlap(cfg, doc)
      [] cfg.type = "sentence_aware" -> SentenceAware(cfg, doc)
      [] cfg.type = "hierarchy" -> Hierarchy(cfg, doc)
      [] cfg.type = "semantic" -> Semantic(cfg, doc)
      [] cfg.type = "code_aware" /\ doc.python ->
             IF doc.parses THEN PythonChunks(cfg, doc.nodes) ELSE <<Chunk(doc.content)>>
      [] OTHER -> Wrapped(cfg, doc, inner)

RECURSIVE ApplyIfOversize(_, _, _, _), ChunkDocument(_, _)

\* The fallback has applied its own fallback when that one is applied to what it
\* returned.
Rechunked(fallback, doc) ==
    ApplyIfOversize(ChunkDocument(fallback, doc), fallback, doc, FALSE)

\* An oversize row is chunked again by the fallback; without one it stays.
ApplyIfOversize(chunks, cfg, doc, exempt) ==
    FlattenSeq([k \in DOMAIN chunks |->
       IF TooLong(chunks[k], cfg, exempt) /\ cfg.if_oversize # <<>>
       THEN Replaced(chunks[k], Rechunked(cfg.if_oversize[1], [doc EXCEPT !.content = chunks[k].original]))
       ELSE <<chunks[k]>>])

\* load_chunker, and the chunker's chunk(); Python that does not parse, and what
\* is not Python, has no fallback applied.
Unread(cfg, doc) == cfg.type = "code_aware" /\ ~(doc.python /\ doc.parses)
ChunkDocument(cfg, doc) ==
    ApplyIfOversize(
        RawChunks(cfg, doc, ChunkDocument(IF Wraps(cfg) THEN cfg.base ELSE OtherLanguage(cfg), doc)),
        IF Unread(cfg, doc) THEN [cfg EXCEPT !.if_oversize = <<>>] ELSE cfg,
        doc, TRUE)

-----------------------------------------------------------------------------
(* What chunks == ChunkDocument(cfg, doc) owe the document.                *)

Stored(chunks) == UNION {Places(chunks[k].original) : k \in DOMAIN chunks}

\* What there is to store: the text without its heading lines, and of Python the
\* nodes.
ToStore(cfg, doc) ==
    IF cfg.type = "code_aware" /\ doc.python /\ doc.parses
    THEN UNION {Places(doc.nodes[k].text) : k \in DOMAIN doc.nodes}
    ELSE {doc.content[i].at : i \in {j \in 1 .. Len(doc.content) : doc.content[j].c \in {"a", "."}}}

RECURSIVE Keeps(_)
\* Nothing in the configuration says to leave text out.
Keeps(cfg) ==
    /\ cfg.type = "fixed_overlap" => cfg.step_words <= cfg.window_words
    /\ cfg.type \in {"sentence_aware", "code_aware"} => cfg.min_chars <= 1
    /\ cfg.type = "hierarchy" => cfg.min_section_chars <= 1
    /\ Wraps(cfg) => Keeps(cfg.base)
    /\ cfg.if_oversize # <<>> => Keeps(cfg.if_oversize[1])

\* Every chunker, wrapper and chain of fallbacks that is not told to leave text
\* out stores all of it, and in the order of the document.
ChunksCoverText(cfg, doc, chunks) ==
    LET first(k) == Min(Places(chunks[k].original))
    IN Keeps(cfg) =>
         /\ ToStore(cfg, doc) \subseteq Stored(chunks)
         /\ \A j, k \in DOMAIN chunks : j < k /\ ~chunks[j].coarse /\ ~chunks[k].coarse
              /\ Places(chunks[j].original) # {} /\ Places(chunks[k].original) # {} => first(j) <= first(k)

\* A fallback that splits by characters at last (sentence_aware, of code) leaves
\* no row but the coarse ones that the embedder would cut off.
ChunksFit(cfg, doc, chunks) ==
    cfg.if_oversize # <<>> /\ Accepted(cfg) =>
        LET fallback == cfg.if_oversize[1]
        IN fallback.type = "sentence_aware" /\ fallback.doc_type = "code"
           /\ (cfg.type = "code_aware" => doc.python /\ doc.parses) =>
             \A k \in {j \in DOMAIN chunks : ~chunks[j].coarse} :
                Max({Len(chunks[k].embedded), Len(chunks[k].original)})
                    <= Max({EffectiveMaxChars(cfg), fallback.max_chars})

\* "match coarse, return fine": a group has one coarse row, of the text its fine
\* rows have, whatever became of them when they were too long.
CoarseCoversFine(cfg, doc, chunks) ==
    cfg.type = "hierarchical_summary" /\ Keeps(cfg) =>
        LET rows(g, c) == {k \in DOMAIN chunks : chunks[k].group = g /\ chunks[k].coarse = c}
            places(ks) == UNION {Places(chunks[k].original) : k \in ks}
            body(p) == p \cap ToStore(cfg, doc)
        IN \A g \in {chunks[k].group : k \in DOMAIN chunks} :
             /\ Cardinality(rows(g, TRUE)) = 1
             /\ body(places(rows(g, TRUE))) = body(places(rows(g, FALSE)))

\* A topic has as many sentences as it should have, if the document does.
TopicsAreLongEnough(cfg, doc) ==
    LET n == Len(NaiveSentences(doc.content))
        spans == SpansOf(cfg, doc, n)
    IN cfg.type = "semantic" /\ n >= cfg.min_sentences =>
         \A k \in DOMAIN spans : SpanSize(spans[k]) >= cfg.min_sentences

\* "chunks no larger than max_chars", which a paragraph of that length is not
\* when another one follows.
SplitsFit(t, max_chars) ==
    \A k \in DOMAIN SplitToMaxChars(t, max_chars) : Len(SplitToMaxChars(t, max_chars)[k]) <= max_chars

\* A long section is stored to its end, which sentence_aware drops when it is
\* shorter than min_chars.
SectionsAreStoredWhole(cfg, doc, chunks) ==
    LET sections == Sections(doc.content)
    IN cfg.type = "sentence_aware" /\ Headings(doc.content) # {} =>
         \A k \in DOMAIN sections : Len(Strip(sections[k])) >= cfg.min_chars =>
            Places(Strip(sections[k])) \cap ToStore(cfg, doc) \subseteq Stored(chunks)

=============================================================================
