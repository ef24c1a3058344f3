---------------------------- MODULE LineParsers -----------------------------
(* The line parsers of repomap/ for languages without a syntax tree.  A     *)
(* line is [tokens, indented]; a token is "open" or "close" of a comment,   *)
(* "quote" for Python's triple quotes, "decl" for what a pattern of the     *)
(* language declares a symbol with, "func" for what C declares a function   *)
(* with, "use" for an import, "hash" for a directive or a line comment,     *)
(* "word" for anything else.                                                *)
EXTENDS RepoScan

SourceLine == [tokens : Seq({"open", "close", "quote", "decl", "func", "use", "hash", "word"}), indented : BOOLEAN]

Has(line, t)    == t \in ToSet(line.tokens)
Starts(line, t) == line.tokens # <<>> /\ Head(line.tokens) = t
NoSymbol == {}
Sym == {"symbol"}
Imp == {"import"}

\* Whether the line leaves a comment open; one that opens after another was
\* closed on the line is not seen.
TrackBlockComment(line, inside) ==
  IF inside THEN ~Has(line, "close")
  ELSE LET i == SelectInSeq(line.tokens, LAMBDA t : t = "open")
       IN  i # 0 /\ "close" \notin ToSet(SubSeq(line.tokens, i + 1, Len(line.tokens)))

\* A docstring is a line that starts with the quotes and does not end it.
TrackDocstring(line, inside) ==
  IF inside THEN ~Has(line, "quote")
  ELSE Starts(line, "quote") /\ ~Has([line EXCEPT !.tokens = Tail(@)], "quote")

(* What one line adds outside of comments: patterns that are anchored look  *)
(* at its first token, the others find theirs anywhere.                     *)
ParseRust(line) == IF Starts(line, "decl") THEN Sym ELSE IF Starts(line, "use") THEN Imp ELSE NoSymbol
\* A function of C is declared at column 0 only, a struct, class, enum or typedef
\* anywhere; includes are directives.
ParseC(line)    == IF Starts(line, "hash") THEN IF Has(line, "use") THEN Imp ELSE NoSymbol
                   ELSE IF Starts(line, "decl") \/ (Starts(line, "func") /\ ~line.indented) THEN Sym ELSE NoSymbol
ParseJava(line) == IF Starts(line, "use") THEN Imp ELSE IF Has(line, "decl") THEN Sym ELSE NoSymbol
ParsePHP(line)  == IF Starts(line, "use") THEN Imp ELSE IF Starts(line, "decl") THEN Sym ELSE NoSymbol
ParseRuby(line) == IF Starts(line, "decl") THEN Sym ELSE NoSymbol
ParseTS(line)   == IF Has(line, "decl") THEN Sym ELSE IF Has(line, "use") THEN Imp ELSE NoSymbol
\* Python's patterns see the line with its indentation.
ParsePython(line) == IF line.indented THEN NoSymbol
                     ELSE IF Starts(line, "decl") THEN Sym ELSE IF Starts(line, "use") THEN Imp ELSE NoSymbol

Languages == {"rust", "c", "java", "php", "ruby", "typescript", "python", "lua"}
Track(lang, line, inside) ==
  CASE lang \in {"rust", "c", "java", "php"} -> TrackBlockComment(line, inside)
    [] lang = "python" -> TrackDocstring(line, inside)
    [] OTHER -> FALSE
Parse(lang, line) ==
  CASE lang = "rust" -> ParseRust(line)  [] lang = "c"    -> ParseC(line)
    [] lang = "java" -> ParseJava(line)  [] lang = "php"  -> ParsePHP(line)
    [] lang = "ruby" -> ParseRuby(line)  [] lang = "typescript" -> ParseTS(line)
    [] lang = "python" -> ParsePython(line)
    [] OTHER -> NoSymbol

\* Whether a comment is open after the first n lines.
Inside(lang, lines) ==
  LET inside[n \in 0 .. Len(lines)] == n > 0 /\ Track(lang, lines[n], inside[n - 1]) IN inside

\* The numbers of the lines that give a symbol; only the first `cap` are read.
ParseGenericFile(lang, lines, cap) ==
  InTurn({n \in 1 .. Len(lines) : n <= cap /\ ~Inside(lang, lines)[n] /\ Parse(lang, lines[n]) = Sym})

(* A reference: after which lines a comment is open, when comments are      *)
(* written on lines of their own or at the start of a line.                 *)
Tidy(line) == \A i \in DOMAIN line.tokens : line.tokens[i] \in {"open", "close"} =>
                \/ line.tokens = <<"open">> \/ line.tokens = <<"close">>
                \/ line.tokens = <<"open", "close">> \/ line.tokens = <<"open", "decl", "close">>
OpenAfter(lines, n) ==
  \E i \in 1 .. n : lines[i].tokens = <<"open">> /\ \A j \in i + 1 .. n : ~Has(lines[j], "close")

(* In files with tidy comments the parsers with comment tracking report     *)
(* exactly the declarations that stand outside of comments, of functions of *)
(* C those at column 0, each once and in order; none reports a line beyond  *)
(* the limit (parser_cfamily.go:83, 91, 135).                               *)
DeclarationsAreFound(lang, lines, cap) ==
  LET s == ParseGenericFile(lang, lines, cap) IN
  /\ \A i \in DOMAIN s : s[i] <= cap /\ (Has(lines[s[i]], "decl") \/ Has(lines[s[i]], "func")) /\ (i > 1 => s[i - 1] < s[i])
  /\ lang \in {"rust", "c", "java", "php"} /\ (\A i \in DOMAIN lines : Tidy(lines[i])) =>
       \A n \in 1 .. Len(lines) : n <= cap =>
         /\ Starts(lines[n], "decl") => (n \in ToSet(s) <=> ~OpenAfter(lines, n))
         /\ lang = "c" /\ Starts(lines[n], "func") => (n \in ToSet(s) <=> ~OpenAfter(lines, n) /\ ~lines[n].indented)
=============================================================================
