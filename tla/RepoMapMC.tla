----------------------------- MODULE RepoMapMC -----------------------------
(* The repository map: either its state machine runs, or one case of its   *)
(* algorithms is looked at, or one of what the other extensions compute    *)
(* without keeping any state.                                              *)
EXTENDS RepoMap, RepoRank, RepoScan, LineParsers, AnswerCases

-----------------------------------------------------------------------------
(* What is looked at: files to rank, ranked files and budgets of tokens,    *)
(* scanned files, entries of ctags, declarations, counted files, lines.     *)

CONSTANTS RepoLists, RankedLists, Budgets, FileSets, FileLists, EntryLists, DeclLists,
          CountedLists, Caps, FilterKeys, LineLists

ASSUME RepoCasesAssumption ==
  /\ \A f \in RepoLists : f \in Seq(RepoFile) /\ PathsDiffer(f)
  /\ RankedLists \subseteq Seq(RankedFile) /\ Budgets \subseteq Nat
  /\ \A S \in FileSets : S \subseteq ScannedFile
  /\ \A f \in FileLists : f \in Seq(CtagsFile) /\ PathsDiffer(f)
  /\ EntryLists \subseteq Seq(CtagsEntry) /\ DeclLists \subseteq Seq(GoDecl)
  /\ \A f \in CountedLists : f \in Seq(CountedFile) /\ PathsDiffer(f)
  /\ Caps \subseteq Nat \ {0}
  /\ FilterKeys \subseteq STRING \ {">", "<", "=", "!"}
  /\ LineLists \subseteq Seq(SourceLine)

RankCase == \E f \in RepoLists : case' = [of |-> "rank", files |-> f]
BudgetCase == \E r \in RankedLists, t \in Budgets : case' = [of |-> "budget", ranked |-> r, tokens |-> t]
ScanCase == \E S \in FileSets, root \in {"skip", "ok"} : case' = [of |-> "scan", sources |-> S, root |-> root]
CtagsCase == \E f \in FileLists, e \in EntryLists : case' = [of |-> "ctags", entries |-> e, files |-> f]
GoCase ==
  \E d \in DeclLists, isMain, test \in BOOLEAN : case' = [of |-> "go", decls |-> d, main |-> isMain, test |-> test]
InventoryCase ==
  \E f \in CountedLists, cap, stop \in Caps : case' = [of |-> "inventory", files |-> f, cap |-> cap, stop |-> stop]
FilterCase ==
  \E fs \in CountedLists, k \in FilterKeys, n \in Budgets : \E f \in ToSet(fs) :
    case' = [of |-> "filter", file |-> f, key |-> k, n |-> n]
ParseCase ==
  \E lang \in Languages, l \in LineLists, cap \in Caps : case' = [of |-> "parse", lang |-> lang, lines |-> l, cap |-> cap]

RepoCase == RankCase \/ BudgetCase \/ ScanCase \/ CtagsCase \/ InventoryCase \/ FilterCase \/ ParseCase \/ GoCase

-----------------------------------------------------------------------------
\* The order of ranked files does not depend on the order in which parsing ended, an edge is an
\* import of another file (ranker.go:20, depgraph.go:11); the budget is settled after one pass, omits
\* the lowest ranked files and is kept to by the lines printed (budget.go:15, render_lines.go:13).
RepoRanksSteadily ==
  /\ case.of = "rank" => RankIsOrderFree(case.files) /\ EdgesAreImports(case.files)
  /\ case.of = "budget" => BudgetIsSteady(case.ranked, case.tokens) /\ LinesKeepBudget(40, case.ranked, case.tokens)

\* Every exported declaration of a Go file is shown, and besides these only the entry points of a
\* program, each in a group with a name (repomap/parser_go.go:42, categorize.go:23).
GoIsShown(decls, isMain, test) ==
  LET syms == GoSymbols(isMain, decls)
      shown == {i \in DOMAIN decls : \/ decls[i].exported
                                     \/ isMain /\ decls[i].decl = "func" /\ decls[i].recv = NoName
                                              /\ decls[i].name \in {"main", "init"}}
      tagged == [i \in DOMAIN syms |-> [kind |-> syms[i].kind, testName |-> FALSE]] IN
  /\ Len(syms) = Cardinality(shown)
  /\ {syms[k].name : k \in DOMAIN syms} = {decls[i].name : i \in shown}
  /\ CountGroups(test, tagged) = Cardinality({SymbolCategory(test, tagged[i]) : i \in DOMAIN syms} \ {"other"})

\* The walk that stands in for git ls-files finds what git lists unless the root itself is to be skipped (scanner.go:128),
\* fields go to their own symbol (parser_ctags.go:60), the inventory says when it is cut
\* (inventory.go:60), a filter means what it says, and the line parsers report the declarations
\* outside of comments (parser_cfamily.go:135).
RepoScans ==
  /\ case.of = "scan" => WalkStandsIn(case.sources, case.root)
  /\ case.of = "ctags" => FieldsFindTheirOwner(case.files, case.entries)
  /\ case.of = "inventory" => InventoryIsHonest(case.files, case.cap, case.stop)
  /\ case.of = "go" => GoIsShown(case.decls, case.main, case.test)
  /\ case.of = "filter" => FiltersReadBack(case.file, case.key, case.n)
  /\ case.of = "parse" => DeclarationsAreFound(case.lang, case.lines, case.cap)

\* What is computed for the map is right in every case, from the scan to the lines that are shown.
ScansAreRanked == RepoRanksSteadily /\ RepoScans

\* What is shown of a repository, of schedules and their runs (cron/schedules.go:20), and of the
\* tasks (tasklist/store.go:58) is right in every case.
ViewsAreTrue == ScansAreRanked /\ SchedulesAreTold /\ TasksAreFound

-----------------------------------------------------------------------------
(* The map, or a case.                                                     *)

VARIABLE focus

repovars == <<vars, case, focus>>

RepoInit ==
  /\ Init /\ case = NoCase
  /\ focus \in {"map", "repo", "route", "pipelines", "schedules", "packages", "tasks"}

RepoNext ==
  \/ focus = "map" /\ Next /\ UNCHANGED <<case, focus>>
  \/ /\ case = NoCase
     /\ \/ focus = "repo" /\ RepoCase
        \/ focus = "route" /\ RouteCase
        \/ focus = "pipelines" /\ PipelineCase
        \/ focus = "schedules" /\ CronCase
        \/ focus = "packages" /\ DepgraphCase
        \/ focus = "tasks" /\ TaskCase
     /\ UNCHANGED <<vars, focus>>

\* The fairness of the map, where it runs.
RepoFairness ==
  /\ \A b \in Builders : WF_vars(focus = "map" /\ BuildStep(b))
  /\ \A c \in {"init", "turn"} : WF_vars(focus = "map" /\ CheckStep(c))
  /\ WF_vars(focus = "map" /\ Start) /\ WF_vars(focus = "map" /\ Age)
  /\ WF_vars(focus = "map" /\ TurnEnd(FALSE))

RepoSpec == RepoInit /\ [][RepoNext]_repovars /\ RepoFairness

-----------------------------------------------------------------------------
(* Small files, entries of ctags, lines and limits.                         *)

\* A file whose new version does not parse.
MCUnparsable == {<<CHOOSE f \in Files : TRUE, 2>>}

MCRepoLists ==
  LET F(p, b, g, k, im) == [path |-> p, base |-> b, exported |-> 2, depth |-> 2, test |-> p = 3,
                            lang |-> g, pkg |-> k, imports |-> im]
  IN  {<<F(1, b1, g, k1, i1), F(2, "other", "go", k2, i2), F(3, b1, "js", k3, i1 \o i2)>> :
         b1 \in {"main.go", "entry", "other"}, g \in {"go", "js"}, k1 \in {"", "p"}, k2 \in {"p", "q"}, k3 \in {"", "q"},
         i1 \in {<<>>, <<"q">>, <<"q", "q", "p">>}, i2 \in {<<>>, <<"p">>, <<"q", "p", "p">>}}

MCRanked == {[header |-> h, groups |-> g, symbols |-> s, fields |-> fs, level |-> 0, test |-> t, block |-> h * 4] :
               h \in {20, 45}, g \in {1, 3}, s \in {0, 4}, fs \in {0, 12}, t \in BOOLEAN}
MCRankedLists ==
  {<<a, b, c>> : a \in {r \in MCRanked : r.symbols = 0 => r.groups = 1}, b \in {r \in MCRanked : r.symbols = 0 => r.groups = 1},
                 c \in {r \in MCRanked : r.groups = 1 /\ r.header = 20 /\ ~r.test}}

MCScanned == [dirs : {<<>>, <<"ok">>, <<"skip">>, <<"skip", "ok">>}, lang : {"", "go"}, big : BOOLEAN,
              artifact : BOOLEAN, repo : BOOLEAN, ignored : BOOLEAN, quoted : BOOLEAN]
MCFileSets == {{f, g} : f \in MCScanned, g \in {h \in MCScanned : h.lang = "go" /\ ~h.big /\ ~h.artifact /\ h.dirs # <<"skip">>}}

MCEntries == [file : {1, 2}, name : {"x"}, kind : {"member"}, scope : {"", "s", "t"}, of : {"struct", "module"}]
               \cup [file : {1, 2}, name : {"s", "t"}, kind : {"struct", "function", "module"}, scope : {""}, of : {""}]
MCEntryLists == [1 .. 3 -> MCEntries]
MCFileLists == {<<[path |-> 1, lang |-> "c"], [path |-> 3, lang |-> "go"], [path |-> 2, lang |-> "c"]>>}

MCDecls ==
  {[decl |-> k, name |-> n, exported |-> n = "Run", recv |-> r] :
     k \in {"func", "struct", "interface", "type", "const", "var"}, n \in {"main", "init", "Run"}, r \in {"", "T"}}
MCDeclLists == [1 .. 2 -> {d \in MCDecls : d.recv # "" => d.decl = "func"}]

MCCounted(p) == [go : BOOLEAN, lines : {1, 2}, imports : {0, 2}, path : {p}]
MCCountedLists == {<<a, b, c>> : a \in MCCounted(1), b \in MCCounted(2), c \in MCCounted(3)}

MCLines == [tokens : {<<>>, <<"open">>, <<"close">>, <<"open", "close">>, <<"open", "decl", "close">>, <<"decl">>,
                      <<"word", "decl">>, <<"use", "decl">>, <<"quote">>, <<"hash", "use">>},
            indented : {FALSE}] \cup [tokens : {<<"decl">>, <<"func">>}, indented : {TRUE}]
           \cup [tokens : {<<"func">>}, indented : {FALSE}]
MCLineLists == [1 .. 3 -> MCLines]
=============================================================================
