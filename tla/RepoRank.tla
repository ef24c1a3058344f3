------------------------------ MODULE RepoRank ------------------------------
(* The pure core of repomap/: which files are scanned, what the ranking     *)
(* counts, how the token budget is spent, and what the two renderings show. *)
(* A path is a number (its place in the alphabet); an import is the name it *)
(* resolves to (a Go import path, or a base name for other languages).      *)
EXTENDS RepoScan

(***************************************************************************)
(* ranker.go.  A file is [path, base, exported, depth, test, lang, pkg,    *)
(* imports].                                                               *)
(***************************************************************************)
RepoFile == [path : Nat, base : STRING, exported : Nat, depth : Nat, test : BOOLEAN, lang : STRING,
             pkg : STRING, imports : Seq(STRING)]

EntryBoost(f) == CASE f.base = "main.go" -> 50
                   [] f.base = "entry"   -> 30
                   [] OTHER              -> 0
DepthPenalty(f) == (IF f.depth > 2 THEN f.depth - 2 ELSE 0) + (IF f.test THEN 5 ELSE 0)

\* Each importing file counts once, however often it names the package.
Importers(files, name) == Cardinality({i \in DOMAIN files : name \in ToSet(files[i].imports)})

\* One Go file makes it a Go project, where a file without an import path has
\* no importers.
ImportedBy(files, f) ==
  IF f.pkg = NoName /\ \E i \in DOMAIN files : files[i].lang = "go" THEN 0
  ELSE Importers(files, f.pkg)

Score(files, f) == EntryBoost(f) + f.exported - DepthPenalty(f) + 10 * ImportedBy(files, f)

\* Faulty: ties keep the order of the input.
BeforeByScoreOnly(a, b) == a.score > b.score
Before(a, b) == a.score > b.score \/ (a.score = b.score /\ a.path < b.path)

Scored(files, f) ==
  [path |-> f.path, score |-> Score(files, f), importedBy |-> ImportedBy(files, f)]
RankFiles(files) ==
  LET ranked == [i \in DOMAIN files |-> Scored(files, files[i])]
      order == Ordered(DOMAIN files, {e \in (DOMAIN files) \X (DOMAIN files) : Before(ranked[e[1]], ranked[e[2]])})
  IN  [k \in DOMAIN order |-> ranked[order[k]]]

(* The ranking does not depend on the order in which the parsers returned,  *)
(* and no import, however often it is written, weighs more than the file    *)
(* that holds it (ranker.go:31, ranker.go:117).                             *)
RankIsOrderFree(files) ==
  LET r == RankFiles(files) IN
  /\ \A p \in Bijection(DOMAIN files, DOMAIN files) : RankFiles([i \in DOMAIN files |-> files[p[i]]]) = r
  /\ \A i \in DOMAIN r : r[i].importedBy <= Len(files)
  /\ \A i, j \in DOMAIN r : i < j => r[i].score >= r[j].score

(***************************************************************************)
(* budget.go.  A ranked file is [header, groups, symbols, fields, level]:  *)
(* the bytes of its header line, its symbol categories, its symbols, the   *)
(* length of its first field list (0: none) and its DetailLevel.           *)
(***************************************************************************)
RankedFile == [header : Nat, groups : Nat, symbols : Nat, fields : Nat, level : {0}, test : BOOLEAN, block : Nat]

HeaderCap(bytes) == (bytes * 70) \div 100

\* What the first n of a list of numbers come to.
Sums(numbers) ==
  LET sum[n \in 0 .. Len(numbers)] == IF n = 0 THEN 0 ELSE sum[n - 1] + numbers[n] IN sum
HeaderSums(ranked) == Sums([i \in DOMAIN ranked |-> ranked[i].header])

\* The files whose headers fit before the first that does not.
Cutoff(ranked, bytes) ==
  LET fit == {n \in 0 .. Len(ranked) : HeaderSums(ranked)[n] <= HeaderCap(bytes)}
  IN  CHOOSE n \in fit : \A m \in fit : m <= n

SummaryCost(f) == 30 * f.groups
SymbolCost(f)  == 20 * f.symbols

\* Phase 2 on one file: the bytes used so far, and the level it gets. The
\* summary is given back whether or not it was charged.
Detail(used, f, bytes) ==
  LET fits1 == used + SummaryCost(f) <= bytes
      u1 == IF fits1 THEN used + SummaryCost(f) ELSE used
      fits2 == u1 + SymbolCost(f) - SummaryCost(f) <= bytes
  IN  IF f.symbols = 0 THEN [used |-> used, level |-> 0]
      ELSE [used  |-> IF fits2 THEN u1 + SymbolCost(f) - SummaryCost(f) ELSE u1,
            level |-> IF fits2 THEN 2 ELSE IF fits1 THEN 1 ELSE f.level]

\* Phase 2: the bytes used after each of the first n files.
Used(ranked, n, bytes) ==
  LET used[k \in 0 .. n] == IF k = 0 THEN HeaderSums(ranked)[n] ELSE Detail(used[k - 1], ranked[k], bytes).used
  IN  used
SecondLevels(ranked, n, bytes) ==
  [k \in 1 .. n |-> Detail(Used(ranked, n, bytes)[k - 1], ranked[k], bytes).level]

\* Phase 3: the first ten files with fields to show, while they fit.
Fits(acc, f, level, bytes) ==
  acc.promoted < 10 /\ level >= 2 /\ f.fields > 0 /\ acc.used + f.fields + 10 <= bytes
Promote(acc, f, level, bytes) ==
  IF Fits(acc, f, level, bytes)
  THEN [used |-> acc.used + f.fields + 10, promoted |-> acc.promoted + 1] ELSE acc
Promoted(ranked, n, levels, bytes) ==
  LET acc[k \in 0 .. n] == IF k = 0 THEN [used |-> Used(ranked, n, bytes)[n], promoted |-> 0]
                           ELSE Promote(acc[k - 1], ranked[k], levels[k], bytes)
  IN  acc

BudgetLevels(ranked, bytes) ==
  LET n == Cutoff(ranked, bytes)
      second == SecondLevels(ranked, n, bytes)
      third == Promoted(ranked, n, second, bytes)
  IN  [k \in DOMAIN ranked |-> IF k > n THEN -1
                               ELSE IF Fits(third[k - 1], ranked[k], second[k], bytes) THEN 3 ELSE second[k]]
BudgetFiles(ranked, maxTokens) ==
  [k \in DOMAIN ranked |->
     [ranked[k] EXCEPT !.level = IF maxTokens = 0 THEN 2 ELSE BudgetLevels(ranked, maxTokens * 4)[k]]]

\* What the levels cost by the estimates of budget.go, and what was given back.
LevelCost(f) == CASE f.level = -1 -> 0
                  [] f.level = 0  -> f.header
                  [] f.level = 1  -> f.header + SummaryCost(f)
                  [] f.level = 2  -> f.header + SymbolCost(f)
                  [] OTHER        -> f.header + SymbolCost(f) + f.fields + 10
GivenBack(f) == IF f.level >= 2 THEN SummaryCost(f) ELSE 0
EstimatedCost(out) == Sums([i \in DOMAIN out |-> LevelCost(out[i])])[Len(out)]

(* The omitted files are the lowest ranked ones; a second pass over the     *)
(* shared list, as String and StringLines make, changes no level; and the   *)
(* bytes spent never exceed the budget by more than the summaries that were *)
(* given back without having been charged (budget.go:44, budget.go:66).     *)
BudgetIsSteady(ranked, maxTokens) ==
  LET out == BudgetFiles(ranked, maxTokens) IN
  /\ BudgetFiles(out, maxTokens) = out
  /\ \A i, j \in DOMAIN out : i < j /\ out[i].level = -1 => out[j].level = -1
  /\ maxTokens > 0 => 
       EstimatedCost(out) <= maxTokens * 4 + Sums([i \in DOMAIN out |-> GivenBack(out[i])])[Len(out)]

(***************************************************************************)
(* render.go and render_lines.go: what is shown, not how.                  *)
(***************************************************************************)
\* FormatMap in budget mode: the files shown, and whether the footer is there.
FormatMap(ranked, maxTokens) ==
  LET out == BudgetFiles(ranked, maxTokens)
      shown == Cardinality({i \in DOMAIN out : out[i].level # -1})
  IN  [shown |-> shown, footer |-> shown < Len(ranked)]

\* FormatLines: len is the text so far, head its header, block(f) what the
\* file adds. Test files with symbols are passed over, the first file that does
\* not fit ends the text, and the first file shown always fits.
Lines(acc, f, bytes) ==
  LET over == acc.shown > 0 /\ bytes > 0 /\
              (acc.len + f.block > bytes \/ (f.symbols > 0 /\ acc.len > bytes - 200))
  IN  IF acc.done \/ (f.symbols > 0 /\ f.test) THEN acc
      ELSE IF over THEN [acc EXCEPT !.done = TRUE]
      ELSE [acc EXCEPT !.shown = @ + 1, !.len = @ + f.block]
LinesSoFar(head, ranked, bytes) ==
  LET acc[k \in 0 .. Len(ranked)] == IF k = 0 THEN [shown |-> 0, len |-> head, done |-> FALSE]
                                     ELSE Lines(acc[k - 1], ranked[k], bytes)
  IN  acc
FormatLines(head, ranked, maxTokens) == LinesSoFar(head, ranked, maxTokens * 4)[Len(ranked)]

(* The two renderings keep to their budget once one file is shown, and the  *)
(* footer appears exactly when a file was left out (render_lines.go:47,     *)
(* render.go:81).                                                           *)
LinesKeepBudget(head, ranked, maxTokens) ==
  LET r == FormatLines(head, ranked, maxTokens) IN
  /\ maxTokens > 0 /\ r.shown > 1 => r.len <= maxTokens * 4
  /\ \A i \in DOMAIN ranked : ~ranked[i].test => r.shown > 0
  /\ LET m == FormatMap(ranked, maxTokens) IN
     m.footer <=> \E i \in DOMAIN ranked : BudgetFiles(ranked, maxTokens)[i].level = -1

(***************************************************************************)
(* depgraph.go and categorize.go.                                          *)
(***************************************************************************)
DependencyEdges(files) ==
  LET pkgs == {files[i].pkg : i \in DOMAIN files} \ {NoName}
      edges == {e \in pkgs \X pkgs : e[1] # e[2] /\
                  \E i \in DOMAIN files : files[i].pkg = e[1] /\ e[2] \in ToSet(files[i].imports)}
  IN  IF Cardinality(pkgs) < 2 THEN {} ELSE edges

SymbolCategory(test, s) ==
  CASE test /\ s.testName -> "tests"
    [] s.kind \in {"struct", "type"}       -> "types"
    [] s.kind \in {"function", "fn"}       -> "funcs"
    [] s.kind \in {"constant", "const"}    -> "consts"
    [] s.kind \in {"variable", "static"}   -> "vars"
    [] s.kind = "interface" -> "interfaces"
    [] s.kind = "class"     -> "classes"
    [] s.kind = "enum"      -> "enums"
    [] s.kind = "method"    -> "methods"
    [] OTHER                -> "other"
CountGroups(test, syms) == Cardinality({SymbolCategory(test, syms[i]) : i \in DOMAIN syms})

(* A package that imports nothing of the project has no arrow, no package   *)
(* points to itself, and a file pointed at was counted as imported.         *)
EdgesAreImports(files) ==
  \A e \in DependencyEdges(files) :
    e[1] # e[2] /\ \A i \in DOMAIN files : files[i].pkg = e[2] => ImportedBy(files, files[i]) > 0
=============================================================================
