--------------------------- MODULE CommentBlocks ---------------------------
(***************************************************************************)
(* Comments of a source file as documents (codeparse/comments.py, sources/ *)
(* comment_extracts.py).  A text is a sequence of tokens: "nl" ends a line,*)
(* "x" is anything to read and "blank" is white space, the others are      *)
(* quotes and marks of comments.  A block has the positions of its tokens. *)
(***************************************************************************)
EXTENDS Integers, Sequences, FiniteSets, FiniteSetsExt

LineOf(t, i) == 1 + Cardinality({k \in 1 .. i - 1 : t[k] = "nl"})
LinesIn(t) == 1 .. LineOf(t, Len(t) + 1)
OnLine(t, l) == {i \in 1 .. Len(t) : t[i] # "nl" /\ LineOf(t, i) = l}
Readable(t, positions) == \E i \in positions : t[i] \notin {"nl", "blank"}

Block(t, positions, kind) ==
    [start |-> LineOf(t, Min(positions)), end |-> LineOf(t, Max(positions)),
     kind |-> kind, at |-> positions]

-----------------------------------------------------------------------------
(* C-style languages.                                                      *)

\* A template literal is a string of JavaScript and TypeScript.
Quotes(lang) == IF lang \in {"javascript", "typescript"} THEN {"quote", "tick"} ELSE {"quote"}

\* What a token is followed by: code, a comment, or the rest of a string,
\* which is named by the quote that opened it.
After(lang, context, token) ==
    CASE context = "line" -> IF token = "nl" THEN "code" ELSE "line"
      [] context = "block" -> IF token = "*/" THEN "code" ELSE "block"
      [] context \in Quotes(lang) -> IF token = context THEN "code" ELSE context
      [] context = "code" ->
            CASE token = "//" -> "line"
              [] token = "/*" -> "block"
              [] token \in Quotes(lang) -> token
              [] OTHER -> "code"

\* contexts[i]: what follows the first i tokens.
Contexts(lang, t) ==
    LET contexts[i \in 0 .. Len(t)] ==
          IF i = 0 THEN "code" ELSE After(lang, contexts[i - 1], t[i])
    IN contexts

\* Faulty variant of StripStrings: a quote in a comment opens a string as well.
StripAnyString(lang, t) ==
    LET open(i) == Cardinality({k \in 1 .. i - 1 : t[k] = "quote"}) % 2 = 1
    IN [i \in 1 .. Len(t) |-> IF open(i) /\ t[i] \notin {"nl", "quote"} THEN "blank" ELSE t[i]]

\* _strip_strings: blanks for what is in a string.
StripStrings(lang, t) ==
    LET contexts == Contexts(lang, t)
    IN [i \in 1 .. Len(t) |->
          IF contexts[i - 1] \in Quotes(lang) /\ t[i] \notin {"nl", contexts[i - 1]}
          THEN "blank" ELSE t[i]]

\* The matches of /* ... */, from left to right; those without text are no
\* comments.
BlockMatches(s) ==
    LET from[n \in 1 .. Len(s) + 1] ==
          LET pairs == {<<a, b>> \in (n .. Len(s)) \X (n .. Len(s)) :
                           a < b /\ s[a] = "/*" /\ s[b] = "*/"}
          IN IF pairs = {} THEN {}
             ELSE LET a == Min({p[1] : p \in pairs})
                      b == Min({p[2] : p \in {q \in pairs : q[1] = a}})
                  IN {a .. b} \cup from[b + 1]
    IN {m \in from[1] : Readable(s, m \ {Min(m), Max(m)})}

\* The first mark on a line, unless it is within a block: all of the line after
\* it is the comment.
LineMatches(s, mark, blocks) ==
    LET first(l) == Min({i \in OnLine(s, l) : s[i] = mark})
        marked == {l \in LinesIn(s) : \E i \in OnLine(s, l) : s[i] = mark}
    IN {{i \in OnLine(s, l) : i >= first(l)} :
           l \in {k \in marked : \A m \in blocks : first(k) \notin m}}

Standalone(s, match) ==
    \A i \in OnLine(s, LineOf(s, Min(match))) : i >= Min(match) \/ s[i] = "blank"

\* _is_c_style_pragma_line: of a line that is a comment only.
Pragma(s, match) ==
    /\ Standalone(s, match)
    /\ \E i \in match : s[i] = "pragma" /\ \A k \in match : Min(match) < k /\ k < i => s[k] = "blank"

\* Comments alone on adjacent lines become one; others stay as they are.
Grouped(s, matches) ==
    LET lineOf(m) == LineOf(s, Min(m))
        alone == {m \in matches : Standalone(s, m)}
        lines == {lineOf(m) : m \in alone}
        group(a, b) == UNION {m \in alone : lineOf(m) \in a .. b}
    IN (matches \ alone)
       \cup {group(r[1], r[2]) : r \in {<<a, b>> \in lines \X lines :
               a <= b /\ a .. b \subseteq lines /\ a - 1 \notin lines /\ b + 1 \notin lines}}

\* Text besides marks; Rust's doc comments count as blocks.
HasText(s, group, mark) == \E i \in group : s[i] \notin {mark, "blank"}
KindOf(lang, s, group) ==
    IF lang = "rust" /\ \E i \in group : s[i] = "doc" THEN "block" ELSE "line"

CStyleComments(lang, t, skip_pragmas) ==
    LET s == StripStrings(lang, t)
        blocks == BlockMatches(s)
        matches == {m \in LineMatches(s, "//", blocks) : ~(skip_pragmas /\ Pragma(t, m))}
    IN {Block(s, m, "block") : m \in blocks}
       \cup {Block(s, g, KindOf(lang, t, g)) :
                g \in {h \in Grouped(s, matches) : HasText(t, h, "//")}}

-----------------------------------------------------------------------------
(* SQL, shell, Python.                                                     *)

\* Every quote toggles, those in comments too.
StripSqlStrings(t) ==
    LET open(i) == Cardinality({k \in 1 .. i - 1 : t[k] = "quote"}) % 2 = 1
    IN [i \in 1 .. Len(t) |-> IF open(i) /\ t[i] \notin {"nl", "quote"} THEN "blank" ELSE t[i]]

SqlComments(t) ==
    LET s == StripSqlStrings(t)
        blocks == BlockMatches(s)
    IN {Block(s, m, "block") : m \in blocks}
       \cup {Block(s, g, "line") :
                g \in {h \in Grouped(s, LineMatches(s, "--", blocks)) : HasText(t, h, "--")}}

\* Strings are not looked at; a shebang is on the first line.
ShellComments(t, skip_pragmas) ==
    LET spaced(m) == Standalone(t, m) \/ t[Min(m) - 1] = "blank"
        shebang(m) == /\ LineOf(t, Min(m)) = 1 /\ Standalone(t, m)
                      /\ Min(m) + 1 \in m /\ t[Min(m) + 1] = "pragma"
        matches == {m \in LineMatches(t, "#", {}) : spaced(m) /\ ~(skip_pragmas /\ shebang(m))}
    IN {Block(t, g, "line") : g \in {h \in Grouped(t, matches) : HasText(t, h, "#")}}

\* With the comments and docstrings Python's own parsers find, as blocks; what
\* a comment stands next to does not matter here, and docstrings of functions
\* in functions are left out.
PythonComments(comments, docstrings, skip_pragmas) ==
    LET kept == {c \in comments : ~(skip_pragmas /\ c.pragma)}
        lines == {c.start : c \in kept}
        runs == {r \in lines \X lines :
                   r[1] <= r[2] /\ r[1] .. r[2] \subseteq lines /\ r[1] - 1 \notin lines /\ r[2] + 1 \notin lines}
    IN {[start |-> r[1], end |-> r[2], kind |-> "line",
         at |-> UNION {c.at : c \in {k \in kept : k.start \in r[1] .. r[2]}}] : r \in runs}
       \cup {[start |-> d.start, end |-> d.end, kind |-> "docstring", at |-> d.at] :
                d \in {k \in docstrings : k.depth = "outer"}}

-----------------------------------------------------------------------------
(* Documents.                                                              *)

\* _filter_blocks, with the length of a text taken for its tokens.
Filtered(blocks, include_docstrings, min_chars) ==
    {b \in blocks : /\ b.kind = "docstring" => include_docstrings
                    /\ Cardinality(b.at) >= min_chars}

\* per_line: each line of a group is a document of its own.
Exploded(t, blocks) ==
    {b \in blocks : b.kind # "line"} \cup
    UNION {{Block(t, b.at \cap OnLine(t, l), "line") :
               l \in {k \in b.start .. b.end : b.at \cap OnLine(t, k) # {}}} :
           b \in {c \in blocks : c.kind = "line"}}

\* A document's id is the path and the line the block starts on.
DocumentsOf(t, blocks, granularity, include_docstrings, min_chars) ==
    LET kept == Filtered(blocks, include_docstrings, min_chars)
        each == IF granularity = "per_line"
                THEN Filtered(Exploded(t, kept), TRUE, min_chars) ELSE kept
    IN CASE kept = {} -> {}
         [] kept # {} /\ granularity = "per_file" -> {[id |-> 0, blocks |-> kept]}
         [] OTHER -> {[id |-> b.start, blocks |-> {b}] : b \in each}

-----------------------------------------------------------------------------
\* Where the comments of a C-style text are, marks included, by the grammar of
\* the language.
InComments(lang, t) ==
    LET contexts == Contexts(lang, t)
    IN {i \in 1 .. Len(t) : t[i] # "nl" /\
          ({contexts[i - 1], contexts[i]} \cap {"line", "block"} # {})}

\* No comment has the marks of another inside it, all are closed, none is empty.
Plain(lang, t) ==
    LET contexts == Contexts(lang, t)
    IN /\ contexts[Len(t)] # "block"
       /\ \A i \in 1 .. Len(t) :
            /\ contexts[i - 1] \in {"line", "block"} /\ contexts[i] # "code" =>
                  t[i] \notin {"//", "/*", "pragma"}
            /\ contexts[i] \in {"line", "block"} /\ contexts[i - 1] = "code" =>
                  i < Len(t) /\ t[i + 1] \notin {"nl", "*/", "blank", "pragma"}
            /\ t[i] = "*/" => contexts[i - 1] = "block"

\* Strings hide what looks like a comment, and comments what looks like a
\* string: the extracted blocks are the comments of the file, no more and no
\* less, as long as no comment talks about the marks of comments.
CommentsAreComments(lang, t) ==
    Plain(lang, t) =>
        UNION {b.at : b \in CStyleComments(lang, t, TRUE)} \ {i \in 1 .. Len(t) : t[i] = "nl"}
            = InComments(lang, t)

\* The same of SQL, where a comment with an apostrophe hides the next one.
SqlCommentsAreFound(t) ==
    \A i \in 1 .. Len(t) :
        /\ t[i] = "--" /\ i < Len(t) /\ t[i + 1] = "x"
        /\ \A k \in 1 .. i - 1 : t[k] = "quote" =>
              \E j \in 1 .. k : t[j] = "--" /\ LineOf(t, j) = LineOf(t, k)
        => \E b \in SqlComments(t) : i \in b.at

\* Two comments that start on one line have one id: the document written last
\* replaces the other.
DocumentIdsDiffer(documents) ==
    \A d, e \in documents : d.id = e.id => d = e
=============================================================================
