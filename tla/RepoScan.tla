------------------------------ MODULE RepoScan ------------------------------
(* What repomap/ reads from a repository: the files a scan finds, by git or *)
(* by walking; the symbols the Go parser and ctags report; the inventory    *)
(* and its filters.                                                         *)
EXTENDS Integers, Sequences, FiniteSets, SequencesExt

NoName == ""

(* The places K one after the other: by `before', a set of pairs of places, *)
(* and as they stand where `before' does not tell them apart.               *)
Ordered(K, before) ==
  LET ahead(i) == {j \in K : <<j, i>> \in before \/ (<<i, j>> \notin before /\ j < i)}
  IN  [k \in 1 .. Cardinality(K) |-> CHOOSE i \in K : Cardinality(ahead(i)) = k - 1]
InTurn(K) == Ordered(K, {})

PathsDiffer(files) == \A i, j \in DOMAIN files : files[i].path = files[j].path => i = j

(***************************************************************************)
(* scanner.go.  A file on the disk is [dirs, lang, big, artifact, repo,    *)
(* ignored, quoted]: the kinds of the directories between it and the root  *)
(* ("skip" for a name of skipDirs), its language or "", its size, its      *)
(* name, whether it lies in a nested repository, whether git ignores it,   *)
(* and whether git quotes its name.                                        *)
(***************************************************************************)
ScannedFile == [dirs : Seq(STRING), lang : STRING, big : BOOLEAN, artifact : BOOLEAN, repo : BOOLEAN,
                ignored : BOOLEAN, quoted : BOOLEAN]

Wanted(f)    == f.lang # NoName /\ ~f.big /\ ~f.artifact
InSkipDir(f) == "skip" \in ToSet(f.dirs)

\* git ls-files --cached --others --exclude-standard stops at nested
\* repositories itself; a quoted name ends in no extension of a language.
ScanGit(files) == {f \in files : ~f.ignored /\ ~f.repo /\ ~InSkipDir(f) /\ Wanted(f) /\ ~f.quoted}
\* The walk descends neither into a skipped directory, which the root may
\* be, nor into a nested repository.
ScanWalk(files, root) ==
  {f \in files : "skip" \notin {root} \cup ToSet(f.dirs) /\ ~f.repo /\ Wanted(f)}

ScanFiles(files, root, inRepo, gitRuns) ==
  IF ~inRepo THEN {} ELSE IF gitRuns THEN ScanGit(files) ELSE ScanWalk(files, root)

(* Without git the walk finds everything git would have listed, unless the  *)
(* root has the name of a directory to skip, when it finds nothing; what it *)
(* adds is ignored by git or has a name that git quotes                     *)
(* (scanner.go:128-230).                                                    *)
WalkStandsIn(files, root) ==
  LET git == ScanFiles(files, root, TRUE, TRUE) walk == ScanFiles(files, root, TRUE, FALSE) IN
  /\ IF root = "skip" THEN walk = {} ELSE git \subseteq walk
  /\ \A f \in walk \ git : f.ignored \/ f.quoted
  /\ ScanFiles(files, root, FALSE, TRUE) = {}

(***************************************************************************)
(* parser_go.go.  A declaration is [decl, name, exported, recv]: a "func", *)
(* or one spec of a "type", "const" or "var".                              *)
(***************************************************************************)
GoDecl == [decl : {"func", "struct", "interface", "type", "const", "var"}, name : STRING, exported : BOOLEAN, recv : STRING]

ExtractFunc(isMain, d) ==
  d.exported \/ (isMain /\ d.recv = NoName /\ d.name \in {"main", "init"})
ExtractGenDecl(d) == d.exported
GoSymbols(isMain, decls) ==
  LET Keep(d) == IF d.decl = "func" THEN ExtractFunc(isMain, d) ELSE ExtractGenDecl(d)
      Kind(d) == CASE d.decl = "func"  -> IF d.recv # NoName THEN "method" ELSE "function"
                   [] d.decl = "const" -> "constant"
                   [] d.decl = "var"   -> "variable"
                   [] OTHER            -> d.decl
      kept == InTurn({i \in DOMAIN decls : Keep(decls[i])})
  IN  [k \in DOMAIN kept |-> [name |-> decls[kept[k]].name, kind |-> Kind(decls[kept[k]]),
                              exported |-> decls[kept[k]].exported]]

(***************************************************************************)
(* parser_ctags.go.  An entry is [file, name, kind, scope, of]: a member   *)
(* belongs to the container of that name if the kind of its scope can own  *)
(* fields.  A symbol gathers the fields of its name; of two symbols of one *)
(* name in a file the later one gets them.                                 *)
(***************************************************************************)
CtagsFile  == [path : Nat, lang : STRING]
CtagsEntry == [file : Nat, name : STRING \ {NoName}, kind : STRING, scope : STRING, of : STRING]

IsMemberKind(k)     == k \in {"member", "field"}
IsScopeContainer(k) == k \in {"struct", "class"}
MapCtagsKind(k) == IF k \in {"module", "namespace"} THEN NoName ELSE k

\* The entries of a file that become symbols, and the members of symbol number i.
SymbolEntries(file, entries) ==
  {i \in DOMAIN entries : /\ entries[i].file = file
                          /\ ~IsMemberKind(entries[i].kind) /\ MapCtagsKind(entries[i].kind) # NoName}
MemberEntries(file, entries, i) ==
  {m \in DOMAIN entries :
     /\ entries[m].file = file /\ IsMemberKind(entries[m].kind)
     /\ entries[m].scope # NoName /\ IsScopeContainer(entries[m].of)
     /\ entries[m].scope = entries[i].name
     /\ \A j \in SymbolEntries(file, entries) : j > i => entries[j].name # entries[i].name}

CtagsSymbols(file, entries) ==
  LET syms == InTurn(SymbolEntries(file, entries))
      Fields(i) == LET own == InTurn(MemberEntries(file, entries, i))
                   IN  [k \in DOMAIN own |-> entries[own[k]].name]
  IN  [k \in DOMAIN syms |-> [name |-> entries[syms[k]].name, kind |-> entries[syms[k]].kind,
                              fields |-> Fields(syms[k])]]

\* One result per file that is not Go, in the order of the scan.
ParseWithCtags(files, entries) ==
  LET rest == InTurn({i \in DOMAIN files : files[i].lang # "go"})
  IN  [k \in DOMAIN rest |-> [path |-> files[rest[k]].path,
                              symbols |-> CtagsSymbols(files[rest[k]].path, entries)]]

(* Every file of another language gets its result, no field is shown under  *)
(* two symbols or outside its own file, and none that has a container among *)
(* the symbols is lost (parser_ctags.go:150).                               *)
FieldsFindTheirOwner(files, entries) ==
  LET out == ParseWithCtags(files, entries)
      Shown(n) == {p \in (DOMAIN out) \X (1 .. Len(entries)) :
                     p[2] \in DOMAIN out[p[1]].symbols /\ n \in ToSet(out[p[1]].symbols[p[2]].fields)}
  IN  \A k \in DOMAIN entries : IsMemberKind(entries[k].kind) =>
        LET e == entries[k] s == Shown(e.name)
            twin == \E l \in DOMAIN entries \ {k} : entries[l].name = e.name /\ IsMemberKind(entries[l].kind)
            owned == IsScopeContainer(e.of) /\
                     \E i \in DOMAIN out : out[i].path = e.file /\
                        \E j \in DOMAIN out[i].symbols : out[i].symbols[j].name = e.scope
        IN  ~twin => /\ owned <=> Cardinality(s) = 1
                     /\ \A p \in s : out[p[1]].path = e.file

(***************************************************************************)
(* inventory.go.  The walk visits files in order; it stops at the cap or   *)
(* when the context ends before file number `stop`.                        *)
(***************************************************************************)
CountedFile == [go : BOOLEAN, lines : Nat, imports : Nat, path : Nat]

Failed == [failed |-> TRUE, files |-> <<>>, truncated |-> FALSE]
ScanInventory(files, cap, stop) ==
  LET goes == {i \in DOMAIN files : i < stop /\ files[i].go}
      kept == {i \in goes : Cardinality({j \in goes : j < i}) < cap}
      ended == Cardinality(goes) >= cap \/ stop <= Len(files)
      Longer(a, b) == a.lines > b.lines \/ (a.lines = b.lines /\ a.path < b.path)
      sorted == Ordered(kept, {e \in kept \X kept : Longer(files[e[1]], files[e[2]])})
  IN  IF ended /\ kept = {} THEN Failed
      ELSE [failed |-> FALSE, truncated |-> ended, files |-> [k \in DOMAIN sorted |-> files[sorted[k]]]]

(* An inventory that does not call itself truncated holds every Go file,    *)
(* longest first, and none is ever longer than the cap (inventory.go:80).   *)
InventoryIsHonest(files, cap, stop) ==
  LET inv == ScanInventory(files, cap, stop)
  IN  /\ Len(inv.files) <= cap
      /\ ~inv.failed /\ ~inv.truncated => ToSet(inv.files) = {f \in ToSet(files) : f.go}
      /\ \A i, j \in DOMAIN inv.files : i < j => inv.files[i].lines >= inv.files[j].lines

(***************************************************************************)
(* Filters: the operators are tried in a fixed order, wherever they stand. *)
(* A filter is a sequence of tokens; an operator of two characters is two  *)
(* tokens.                                                                 *)
(***************************************************************************)
FilterOps == << <<">", "=">>, <<"<", "=">>, <<"!", "=">>, <<">">>, <<"<">>, <<"=">> >>

Occurs(op, s) == {i \in 1 .. Len(s) - Len(op) + 1 : \A k \in DOMAIN op : s[i + k - 1] = op[k]}
ParseFilter(s) ==
  LET found == {k \in DOMAIN FilterOps : Occurs(FilterOps[k], s) # {}}
      k == CHOOSE k \in found : \A l \in found : k <= l
      op == FilterOps[k]
      at == CHOOSE i \in Occurs(op, s) : \A j \in Occurs(op, s) : i <= j
  IN  IF found = {} THEN [op |-> <<>>, key |-> <<>>, value |-> s]
      ELSE [op |-> op, key |-> SubSeq(s, 1, at - 1), value |-> SubSeq(s, at + Len(op), Len(s))]

\* A path is compared with = and != only; another key matches nothing, nor
\* does a value that is no number where there should be one.
MatchesFilter(f, op, key, number, n, inPath) ==
  LET v == IF key = "lines" THEN f.lines ELSE f.imports IN
  CASE key = "path" -> (op = <<"=">> /\ inPath) \/ (op = <<"!", "=">> /\ ~inPath)
    [] key \in {"lines", "imports"} /\ number ->
         CASE op = <<">">> -> v > n [] op = <<">", "=">> -> v >= n
           [] op = <<"<">> -> v < n [] op = <<"<", "=">> -> v <= n
           [] op = <<"=">> -> v = n [] OTHER -> v # n
    [] OTHER -> FALSE

(* A filter written key, operator, value is read back as it was written,    *)
(* although some operators are parts of others; each operator matches       *)
(* exactly the files its negation leaves if the value is a number, and none *)
(* of both matches if it is not (inventory.go:146-208).                     *)
FiltersReadBack(f, key, n) ==
  LET neg == << <<"<">>, <<">">>, <<"=">>, <<"<", "=">>, <<">", "=">>, <<"!", "=">> >> IN
  \A k \in DOMAIN FilterOps :
    /\ ParseFilter(<<key>> \o FilterOps[k] \o <<"value">>)
         = [op |-> FilterOps[k], key |-> <<key>>, value |-> <<"value">>]
    /\ key \in {"lines", "imports"} =>
         /\ MatchesFilter(f, FilterOps[k], key, TRUE, n, FALSE) <=> ~MatchesFilter(f, neg[k], key, TRUE, n, FALSE)
         /\ ~MatchesFilter(f, FilterOps[k], key, FALSE, n, FALSE)
=============================================================================
