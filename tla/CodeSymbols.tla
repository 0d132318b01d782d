---------------------------- MODULE CodeSymbols ----------------------------
(***************************************************************************)
(* Symbols and call sites of one source file (chunkshop/codeparse) and the *)
(* chunks cut at them (chunkers/symbol_aware.py).  A file is the sequence  *)
(* of its declarations and calls in document order, each on a line of its  *)
(* own: up is the number of the enclosing one, 0 for the file, of is the   *)
(* type that a Go receiver, a C++ qualifier or a Rust impl names, "" if    *)
(* none.  Every language has its two walks over the tree: downwards for    *)
(* the symbols, upwards from a call for its caller.  The other half of the *)
(* module is the fallback that matches lines.                              *)
(***************************************************************************)
EXTENDS Integers, Sequences, FiniteSets, FiniteSetsExt

None == "none"
Nodes(t) == 1 .. Len(t)

\* above[n]: the nodes around node n.
Above(t, n) ==
    LET above[i \in 0 .. Len(t)] ==
          IF i = 0 \/ t[i].up = 0 THEN {} ELSE {t[i].up} \cup above[t[i].up]
    IN above[n]

Kind(t, kinds) == {n \in Nodes(t) : t[n].kind \in kinds}
Around(t, n, kinds) == Above(t, n) \cap Kind(t, kinds)

\* What a climb from n meets first, and what it meets last; 0 if nothing.
Nearest(t, n, kinds) == Max(Around(t, n, kinds) \cup {0})
Outermost(t, n, kinds) ==
    IF Around(t, n, kinds) = {} THEN 0 ELSE Min(Around(t, n, kinds))

NameAt(t, n) == IF n = 0 THEN None ELSE t[n].name

\* Nodes a downward walk visits that does not go below the kinds of stop.
Reached(t, stop) == {n \in Nodes(t) : Around(t, n, stop) = {}}

Symbol(t, n, type, parent) ==
    [at |-> n, name |-> t[n].name, symbol_type |-> type, parent_name |-> parent]

Types(t, reached, kinds, type) ==
    {Symbol(t, n, type, None) : n \in reached \cap Kind(t, kinds)}

Methods(t, reached, kinds, Parent(_)) ==
    {Symbol(t, n, "method", Parent(n)) : n \in reached \cap Kind(t, kinds)}

\* Methods, or functions when nothing is their parent.
Functions(t, reached, kinds, Parent(_)) ==
    {Symbol(t, n, IF Parent(n) = None THEN "function" ELSE "method", Parent(n)) :
        n \in reached \cap Kind(t, kinds)}

\* (name, parent_name) of the caller; no caller for a call at module level.
Caller(t, f, parent) == IF f = 0 THEN None ELSE <<t[f].name, parent>>

Calls == {"call", "member_call"}

\* _extract_call_sites: one record for each captured call with a caller.
CallSites(t, symbols, CallerOf(_), captured) ==
    {[line |-> n, callee_name |-> t[n].name, caller |-> CallerOf(n),
      resolved_intra_file |-> /\ \E s \in symbols : s.name = t[n].name
                              /\ CallerOf(n)[1] # t[n].name] :
        n \in {c \in Kind(t, captured) : CallerOf(c) # None}}

Imports(t) == {n \in Kind(t, {"import"}) : t[n].up = 0}

ParseResult(symbols, call_sites, imports, parser) ==
    [symbols |-> symbols, call_sites |-> call_sites, imports |-> imports,
     parser |-> parser]

-----------------------------------------------------------------------------
PythonSymbols(t) ==
    LET reached == Reached(t, {"function"})
        Class(n) == NameAt(t, Nearest(t, n, {"class"}))
    IN Types(t, reached, {"class"}, "class")
       \cup Functions(t, reached, {"function"}, Class)

PythonCaller(t, n) ==
    LET f == Outermost(t, n, {"function"})
    IN Caller(t, f, NameAt(t, Nearest(t, f, {"class"})))

PythonCalls(t) ==
    CallSites(t, PythonSymbols(t), LAMBDA n : PythonCaller(t, n), Calls)
PythonImports(t) == Imports(t)
PythonParse(t) ==
    ParseResult(PythonSymbols(t), PythonCalls(t), PythonImports(t), "tree-sitter")

-----------------------------------------------------------------------------
JavaSymbols(t) ==
    LET reached == Reached(t, {"method"})
        Class(n) == NameAt(t, Nearest(t, n, {"class", "interface"}))
    IN Types(t, reached, {"class"}, "class")
       \cup Types(t, reached, {"interface"}, "interface")
       \cup Methods(t, reached, {"method"}, Class)

\* The nearest method, whatever is around that.
JavaCaller(t, n) ==
    LET f == Nearest(t, n, {"method"})
    IN Caller(t, f, NameAt(t, Nearest(t, f, {"class", "interface"})))

JavaCalls(t) == CallSites(t, JavaSymbols(t), LAMBDA n : JavaCaller(t, n), Calls)
JavaImports(t) == Imports(t)
JavaParse(t) == ParseResult(JavaSymbols(t), JavaCalls(t), JavaImports(t), "tree-sitter")

-----------------------------------------------------------------------------
\* TypeScript and JavaScript; a method may be one of an object literal.
ScriptSymbols(t) ==
    LET reached == Reached(t, {"function", "method", "interface"})
        Class(n) == NameAt(t, Nearest(t, n, {"class"}))
    IN Types(t, reached, {"class"}, "class")
       \cup Types(t, reached, {"interface"}, "interface")
       \cup Functions(t, reached, {"function"}, Class)
       \cup Methods(t, reached, {"method"}, Class)

ScriptCaller(t, n) ==
    LET f == Outermost(t, n, {"function", "method"})
    IN Caller(t, f, IF f # 0 /\ t[f].kind = "method"
                    THEN NameAt(t, Nearest(t, f, {"class"})) ELSE None)

ScriptCalls(t) ==
    CallSites(t, ScriptSymbols(t), LAMBDA n : ScriptCaller(t, n), Calls)
ScriptImports(t) == Imports(t)
TypescriptParse(t) ==
    ParseResult(ScriptSymbols(t), ScriptCalls(t), ScriptImports(t), "tree-sitter")
JavascriptParse(t) ==
    ParseResult(ScriptSymbols(t), ScriptCalls(t), ScriptImports(t), "tree-sitter")

-----------------------------------------------------------------------------
\* _receiver_type of a method.
ReceiverType(t, n) == IF t[n].of = "" THEN None ELSE t[n].of

GoSymbols(t) ==
    LET reached == Reached(t, {"class", "interface", "function", "method"})
        Receiver(n) == ReceiverType(t, n)
    IN Types(t, reached, {"class"}, "class")
       \cup Types(t, reached, {"interface"}, "interface")
       \cup {Symbol(t, n, "function", None) : n \in reached \cap Kind(t, {"function"})}
       \cup Methods(t, reached, {"method"}, Receiver)

GoCaller(t, n) ==
    LET f == Nearest(t, n, {"function", "method"})
    IN Caller(t, f, IF f # 0 /\ t[f].kind = "method" THEN ReceiverType(t, f) ELSE None)

GoCalls(t) == CallSites(t, GoSymbols(t), LAMBDA n : GoCaller(t, n), Calls)
GoImports(t) == Imports(t)
GoParse(t) == ParseResult(GoSymbols(t), GoCalls(t), GoImports(t), "tree-sitter")

-----------------------------------------------------------------------------
\* What is around a function: an impl by its type, a trait by its name.
ImplType(t, n) ==
    IF n = 0 THEN None ELSE IF t[n].kind = "impl" THEN t[n].of ELSE t[n].name

RustSymbols(t) ==
    LET reached == Reached(t, {"class", "function"})
        Parent(n) == ImplType(t, Nearest(t, n, {"impl", "interface"}))
    IN Types(t, reached, {"class"}, "class")
       \cup Types(t, reached, {"interface"}, "interface")
       \cup Functions(t, reached, {"function"}, Parent)

RustCaller(t, n) ==
    LET f == Outermost(t, n, {"function"})
    IN Caller(t, f, ImplType(t, Nearest(t, f, {"impl", "interface"})))

RustCalls(t) == CallSites(t, RustSymbols(t), LAMBDA n : RustCaller(t, n), Calls)
RustImports(t) == Imports(t)
RustParse(t) == ParseResult(RustSymbols(t), RustCalls(t), RustImports(t), "tree-sitter")

-----------------------------------------------------------------------------
CSymbols(t) ==
    LET reached == Reached(t, {"class", "function"})
    IN Types(t, reached, {"class"}, "class")
       \cup {Symbol(t, n, "function", None) : n \in reached \cap Kind(t, {"function"})}

CCaller(t, n) == Caller(t, Outermost(t, n, {"function"}), None)

CCalls(t) == CallSites(t, CSymbols(t), LAMBDA n : CCaller(t, n), {"call"})
CImports(t) == Imports(t)
CParse(t) == ParseResult(CSymbols(t), CCalls(t), CImports(t), "tree-sitter")

-----------------------------------------------------------------------------
Qualifier(t, n) == IF n = 0 \/ t[n].of = "" THEN None ELSE t[n].of

\* The class around a definition comes before the qualifier ...
CppSymbols(t) ==
    LET reached == Reached(t, {"function"})
        Parent(n) == LET c == NameAt(t, Nearest(t, n, {"class"}))
                     IN IF c # None THEN c ELSE Qualifier(t, n)
    IN Types(t, reached, {"class"}, "class")
       \cup Functions(t, reached, {"function"}, Parent)

\* ... and after it here.
CppCaller(t, n) ==
    LET f == Outermost(t, n, {"function"})
    IN Caller(t, f, IF Qualifier(t, f) # None THEN Qualifier(t, f)
                    ELSE NameAt(t, Nearest(t, f, {"class"})))

CppCalls(t) == CallSites(t, CppSymbols(t), LAMBDA n : CppCaller(t, n), Calls)
CppImports(t) == Imports(t)
CppParse(t) == ParseResult(CppSymbols(t), CppCalls(t), CppImports(t), "tree-sitter")

-----------------------------------------------------------------------------
CsharpSymbols(t) ==
    LET reached == Reached(t, {"interface", "method"})
        Class(n) == NameAt(t, Nearest(t, n, {"class"}))
    IN Types(t, reached, {"class"}, "class")
       \cup Types(t, reached, {"interface"}, "interface")
       \cup Methods(t, reached, {"method"}, Class)

CsharpCaller(t, n) ==
    LET f == Outermost(t, n, {"method"})
    IN Caller(t, f, NameAt(t, Nearest(t, f, {"class"})))

CsharpCalls(t) == CallSites(t, CsharpSymbols(t), LAMBDA n : CsharpCaller(t, n), Calls)
\* using directives may stand in a namespace.
CsharpImports(t) == Kind(t, {"import"})
CsharpParse(t) ==
    ParseResult(CsharpSymbols(t), CsharpCalls(t), CsharpImports(t), "tree-sitter")

-----------------------------------------------------------------------------
\* A module is a class here.
RubySymbols(t) ==
    LET reached == Reached(t, {"method"})
        Class(n) == NameAt(t, Nearest(t, n, {"class", "module"}))
    IN Types(t, reached, {"class", "module"}, "class")
       \cup Functions(t, reached, {"method"}, Class)

\* Faulty variant of RubyCaller: the method around the call itself.
RubyCallerInnermost(t, n) ==
    LET f == Nearest(t, n, {"method"})
    IN Caller(t, f, NameAt(t, Nearest(t, f, {"class", "module"})))

RubyCaller(t, n) ==
    LET f == Outermost(t, n, {"method"})
    IN Caller(t, f, NameAt(t, Nearest(t, f, {"class", "module"})))

RubyCalls(t) == CallSites(t, RubySymbols(t), LAMBDA n : RubyCaller(t, n), Calls)
\* require is a call.
RubyImports(t) == Imports(t)
RubyParse(t) == ParseResult(RubySymbols(t), RubyCalls(t), RubyImports(t), "tree-sitter")

-----------------------------------------------------------------------------
(* The fallback, by lines.                                                 *)

\* Kinds whose lines the patterns of a language match, by the type they get.
\* An indented "if (...) {" looks like a method of JavaScript.
Patterns ==
    [python |-> [class |-> {"class"}, interface |-> {}, method |-> {}, function |-> {"function"}],
     java |-> [class |-> {"class"}, interface |-> {"interface"}, method |-> {"method"}, function |-> {}],
     javascript |-> [class |-> {"class"}, interface |-> {}, method |-> {"method", "if"}, function |-> {"function"}],
     typescript |-> [class |-> {"class"}, interface |-> {"interface"}, method |-> {"method", "if"}, function |-> {"function"}],
     go |-> [class |-> {"class"}, interface |-> {}, method |-> {"method"}, function |-> {"function"}],
     rust |-> [class |-> {"class"}, interface |-> {"interface"}, method |-> {}, function |-> {"function"}],
     c |-> [class |-> {"class"}, interface |-> {}, method |-> {}, function |-> {"function"}],
     cpp |-> [class |-> {"class"}, interface |-> {}, method |-> {}, function |-> {"function"}],
     csharp |-> [class |-> {"class"}, interface |-> {"interface"}, method |-> {"method"}, function |-> {}],
     ruby |-> [class |-> {"class"}, interface |-> {"module"}, method |-> {}, function |-> {"method"}]]

Languages == DOMAIN Patterns

\* The class a line is in by indentation (Python) or braces; Ruby has no
\* braces, so the class declared last is never closed.
OpenClass(lang, t, n) ==
    LET types == Patterns[lang].class \cup Patterns[lang].interface
    IN NameAt(t, IF lang = "ruby" THEN Max({k \in Kind(t, types) : k < n} \cup {0})
                 ELSE Nearest(t, n, types))

\* C and C++ functions only match without indentation.
Unindented(lang, t, n) == lang \in {"c", "cpp"} => t[n].up = 0

RegexSymbols(lang, t) ==
    LET p == Patterns[lang]
        Open(n) == OpenClass(lang, t, n)
    IN {Symbol(t, n, "class", Open(n)) : n \in Kind(t, p.class)}
       \cup {Symbol(t, n, "interface", Open(n)) : n \in Kind(t, p.interface)}
       \cup Functions(t, Nodes(t), p.method, Open)
       \cup (IF lang = "python" THEN Functions(t, Nodes(t), p.function, Open)
             ELSE {Symbol(t, n, "function", None) :
                      n \in {k \in Kind(t, p.function) : Unindented(lang, t, k)}})

\* The symbol declared last above the line.
RegexCaller(symbols, n) ==
    LET above == {s \in symbols : s.at <= n /\ s.symbol_type \in {"function", "method"}}
    IN IF above = {} THEN None
       ELSE LET s == CHOOSE s \in above : \A o \in above : o.at <= s.at
            IN <<s.name, s.parent_name>>

\* "name(" also matches where a function is declared.
RegexCalls(lang, t) ==
    LET symbols == RegexSymbols(lang, t)
    IN CallSites(t, symbols, LAMBDA n : RegexCaller(symbols, n),
                 {"call", "function", "method"})

RegexImports(lang, t) ==
    IF lang \in {"python", "java", "javascript", "typescript", "go"}
    THEN Kind(t, {"import"}) ELSE {}

RegexParse(lang, t) ==
    ParseResult(RegexSymbols(lang, t), RegexCalls(lang, t), RegexImports(lang, t), "regex")

\* _dispatch: without the grammar, or when it fails, the fallback.
Dispatch(lang, t, grammar) ==
    CASE ~grammar -> RegexParse(lang, t)
      [] lang = "python" -> PythonParse(t)
      [] lang = "java" -> JavaParse(t)
      [] lang = "typescript" -> TypescriptParse(t)
      [] lang = "javascript" -> JavascriptParse(t)
      [] lang = "go" -> GoParse(t)
      [] lang = "rust" -> RustParse(t)
      [] lang = "c" -> CParse(t)
      [] lang = "cpp" -> CppParse(t)
      [] lang = "csharp" -> CsharpParse(t)
      [] lang = "ruby" -> RubyParse(t)

-----------------------------------------------------------------------------
(* Which language: hints of the configuration, the metadata, a path, the   *)
(* id, the content; None where there is none.                              *)

\* The best score of the markers, if it leads clearly.
FromContent(shebang, generated, score) ==
    LET best == CHOOSE l \in DOMAIN score : \A o \in DOMAIN score : score[o] <= score[l]
    IN IF generated THEN None
       ELSE IF shebang # None THEN shebang
       ELSE IF /\ score[best] >= 3
               /\ \A o \in DOMAIN score \ {best} : score[best] - score[o] >= 2
            THEN best ELSE None

\* normalize_language_tag: a tag, an alias of one, or nothing.
NormalizeTag(hint, alias) ==
    IF hint \in Languages THEN hint ELSE IF hint \in DOMAIN alias THEN alias[hint] ELSE None

ResolveLanguage(cfg, hint, path, id, content) ==
    LET clues == SelectSeq(<<cfg, hint, path, id, content>>, LAMBDA l : l # None)
    IN IF clues = <<>> THEN None ELSE Head(clues)

-----------------------------------------------------------------------------
(* Chunks.  The lines of a symbol are those of its node and all below.     *)

LinesOf(t, n) == {n} \cup {k \in Nodes(t) : n \in Above(t, k)}

SymbolChunk(t, s) == [symbol |-> s.name, lines |-> LinesOf(t, s.at)]
ModuleBlock(t, functions) ==
    [symbol |-> "<module_block>", lines |-> UNION {LinesOf(t, s.at) : s \in functions}]
ModuleChunk(t) == [symbol |-> "<module>", lines |-> Nodes(t)]

\* Faulty variant of TopLevel: methods only.
TopLevelMethods(symbols) == {s \in symbols : s.parent_name # None}

TopLevel(symbols) == {s \in symbols : s.parent_name = None}

ChunksFromResult(granularity, t, symbols) ==
    LET top == TopLevel(symbols)
        functions == {s \in top : s.symbol_type = "function"}
    IN CASE granularity = "module" -> {ModuleChunk(t)}
         [] granularity = "function" -> {SymbolChunk(t, s) : s \in top}
         [] granularity = "class" ->
              {SymbolChunk(t, s) : s \in {s \in top : s.symbol_type = "class"}}
              \cup (IF functions = {} THEN {} ELSE {ModuleBlock(t, functions)})

\* The sentence-aware chunker has every line.
FallbackChunks(t, reason) == {[symbol |-> reason, lines |-> Nodes(t)]}

\* chunk: too many symbols, or none, and the file is cut by sentences.
Chunked(granularity, t, result, maxSymbols) ==
    LET chunks == ChunksFromResult(granularity, t, result.symbols)
    IN IF result.symbols = {} \/ chunks = {} THEN FallbackChunks(t, "no_symbols")
       ELSE IF Cardinality(chunks) > maxSymbols THEN FallbackChunks(t, "too_many_symbols")
       ELSE chunks

-----------------------------------------------------------------------------
\* Each call is attributed to a symbol the other walk over the same tree has
\* found, by name and parent: what the resolver joins on.
CallersAreSymbols(result) ==
    \A c \in result.call_sites : \E s \in result.symbols :
        /\ s.symbol_type \in {"function", "method"}
        /\ c.caller = <<s.name, s.parent_name>>

\* "methods inside a class bundle into the class chunk": no symbol is lost
\* when a file is cut at its functions.
SymbolsAreChunked(t, result, maxSymbols) ==
    \A s \in result.symbols : \E c \in Chunked("function", t, result, maxSymbols) : s.at \in c.lines
=============================================================================
