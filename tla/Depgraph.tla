------------------------------ MODULE Depgraph ------------------------------
(***************************************************************************)
(* The dependency graph of a Go module (depgraph/graph.go, query.go and    *)
(* cmd/depgraph/main.go): its edges, the package a file belongs to, the    *)
(* traversals, the cycles, the shortest path, and the command line with    *)
(* the graph it keeps in a cache.                                          *)
(*                                                                         *)
(* A package is a number, in the order of its import path, and an import   *)
(* of something outside the module a number that has no entry.  A          *)
(* directory is a sequence of names.  Entries, as `go list' prints them,   *)
(* are a function from packages to their directories and imports.          *)
(***************************************************************************)
EXTENDS Naturals, SequencesExt

Sorted(S) == SetToSortSeq(S, <)

-----------------------------------------------------------------------------

(* Imports of code and tests, each once, within the module. *)
BuildGraph(root, entries) ==
    LET packages == DOMAIN entries
        deps(p) == (Range(entries[p].imports) \cap packages) \ {p} IN
    [root |-> root, packages |-> packages, dirs |-> [p \in packages |-> entries[p].dir],
     forward |-> [p \in packages |-> Sorted(deps(p))],
     reverse |-> [p \in packages |-> Sorted({q \in packages : p \in deps(q)})]]

UnknownPackage == 0

(* The package whose directory is the longest beginning of a path. *)
Enclosing(g, path) ==
    LET holds == {p \in g.packages : IsPrefix(g.dirs[p], path)} IN
    IF holds = {} THEN UnknownPackage
    ELSE CHOOSE p \in holds : \A q \in holds : Len(g.dirs[q]) <= Len(g.dirs[p])

(* An import path, a path from the root with or without a leading dot, or  *)
(* an absolute path, of a package or of a file in one.                     *)
ResolvePackage(g, input) ==
    CASE input.kind = "import" /\ input.of \in g.packages -> input.of
      [] input.kind = "import" -> Enclosing(g, g.root \o <<"import path">>)
      [] input.kind = "relative" -> Enclosing(g, g.root \o input.path)
      [] input.kind = "absolute" -> Enclosing(g, input.path)

-----------------------------------------------------------------------------

(* Breadth first: a package is taken from the queue, and found maps each    *)
(* package met to its depth.                                               *)
SpreadQueuesAll(st, maxDepth, edges) ==
    IF st.queue = <<>> THEN st
    ELSE LET p == Head(st.queue)
             depth == st.found[p] + 1
             fresh == SelectSeq(edges[p], LAMBDA n : n \notin DOMAIN st.found) IN
         [queue |-> Tail(st.queue) \o (IF maxDepth = 0 \/ depth <= maxDepth THEN fresh ELSE <<>>),
          found |-> st.found @@ [n \in Range(fresh) |-> depth]] \* Faulty: the greatest depth is expanded too.

Spread(st, maxDepth, edges) ==
    IF st.queue = <<>> THEN st
    ELSE LET p == Head(st.queue)
             depth == st.found[p] + 1
             fresh == SelectSeq(edges[p], LAMBDA n : n \notin DOMAIN st.found) IN
         [queue |-> Tail(st.queue) \o (IF maxDepth = 0 \/ depth < maxDepth THEN fresh ELSE <<>>),
          found |-> st.found @@ [n \in Range(fresh) |-> depth]]

\* A package is queued once, so that the queue is empty when all were taken.
Bfs(start, maxDepth, edges) ==
    LET st[k \in 0 .. Cardinality(DOMAIN edges)] ==
            IF k = 0 THEN [queue |-> <<start>>, found |-> start :> 0] ELSE Spread(st[k - 1], maxDepth, edges) IN
    st[Cardinality(DOMAIN edges)].found

Entries(start, maxDepth, edges) ==
    LET found == Bfs(start, maxDepth, edges)
        Before(a, b) == a.depth < b.depth \/ (a.depth = b.depth /\ a.package < b.package) IN
    SetToSortSeq({[package |-> p, depth |-> found[p]] : p \in DOMAIN found \ {start}}, Before)

Deps(g, p, maxDepth) == Entries(p, maxDepth, g.forward)
ReverseDeps(g, p, maxDepth) == Entries(p, maxDepth, g.reverse)

Impact(g, input) ==
    LET p == ResolvePackage(g, input) IN
    IF p = UnknownPackage THEN <<>>
    ELSE Sorted({p} \cup {e.package : e \in Range(ReverseDeps(g, p, 0))})

-----------------------------------------------------------------------------

(* A cycle is told from its smallest package on. *)
NormalisedCycle(path) ==
    LET least == CHOOSE i \in DOMAIN path : \A j \in DOMAIN path : path[i] <= path[j] IN
    SubSeq(path, least, Len(path)) \o SubSeq(path, 1, least - 1)

(* An edge back to a package of the stack closes a cycle. *)
CloseCycle(st, q) ==
    LET start == CHOOSE i \in DOMAIN st.stack : st.stack[i] = q IN
    [st EXCEPT !.cycles = @ \cup {NormalisedCycle(SubSeq(st.stack, start, Len(st.stack)))}]

DfsStates == [stack : Seq(Nat), black : SUBSET Nat, cycles : SUBSET Seq(Nat)]

DetectCycles(g) ==
    LET Visit[st \in DfsStates, p \in Nat] ==
            LET Step(s, q) == IF q \in Range(s.stack) THEN CloseCycle(s, q)
                              ELSE IF q \in s.black THEN s ELSE Visit[s, q]
                left == FoldLeft(Step, [st EXCEPT !.stack = Append(@, p)], g.forward[p]) IN
            [left EXCEPT !.stack = Front(@), !.black = @ \cup {p}]
        From(st, p) == IF p \in st.black THEN st ELSE Visit[st, p] IN
    FoldLeft(From, [stack |-> <<>>, black |-> {}, cycles |-> {}], Sorted(g.packages)).cycles

(* The first way breadth-first search finds, read back along the parents. *)
Search(st, dst, edges) ==
    IF st.queue = <<>> \/ dst \in DOMAIN st.parent THEN st
    ELSE LET p == Head(st.queue)
             fresh == SelectSeq(edges[p], LAMBDA n : n \notin DOMAIN st.parent) IN
         [queue |-> Tail(st.queue) \o fresh, parent |-> st.parent @@ [n \in Range(fresh) |-> p]]

ShortestPath(g, src, dst) ==
    LET st[k \in 0 .. Cardinality(g.packages)] ==
            IF k = 0 THEN [queue |-> <<src>>, parent |-> src :> UnknownPackage]
            ELSE Search(st[k - 1], dst, g.forward)
        parents == st[Cardinality(g.packages)].parent
        Back[p \in DOMAIN parents] == IF p = src THEN <<src>> ELSE Append(Back[parents[p]], p) IN
    IF dst \in DOMAIN parents THEN Back[dst] ELSE <<>>

(* The lines that fit the budget; what is left out is counted. *)
WithinTokens(lines, header, tokens) ==
    LET used[k \in 0 .. Len(lines)] == IF k = 0 THEN header ELSE used[k - 1] + lines[k]
        cut == {k \in 1 .. Len(lines) : used[k] > 4 * tokens}
        shown == IF tokens = 0 \/ cut = {} THEN Len(lines) ELSE (CHOOSE k \in cut : \A j \in cut : k <= j) - 1 IN
    [shown |-> shown, more |-> Len(lines) - shown]

-----------------------------------------------------------------------------

(* The command line: exit code and answer.  An impact of nothing known is  *)
(* an empty answer, not an error.                                          *)
Answered(exit, result) == [exit |-> exit, result |-> result]

Query(g, cmd, args, depth) ==
    LET needed == CASE cmd \in {"deps", "rdeps", "impact"} -> 1 [] cmd = "path" -> 2 [] OTHER -> 0
        packages == [i \in DOMAIN args |-> ResolvePackage(g, args[i])] IN
    IF cmd \notin {"deps", "rdeps", "impact", "cycles", "path"} \/ Len(args) < needed THEN Answered(2, <<>>)
    ELSE IF cmd \in {"deps", "rdeps", "path"} /\ \E i \in 1 .. needed : packages[i] = UnknownPackage THEN Answered(1, <<>>)
    ELSE CASE cmd = "deps" -> Answered(0, Deps(g, packages[1], depth))
           [] cmd = "rdeps" -> Answered(0, ReverseDeps(g, packages[1], depth))
           [] cmd = "impact" -> Answered(0, Impact(g, args[1]))
           [] cmd = "cycles" -> Answered(0, DetectCycles(g))
           [] cmd = "path" -> Answered(0, ShortestPath(g, packages[1], packages[2]))

(* The graph of a command: kept under the contents of go.mod and nothing   *)
(* else, so that it outlives every change of the imports.                  *)
LoadGraph(cache, goMod, root, entries, noCache) ==
    IF ~noCache /\ goMod \in DOMAIN cache THEN cache[goMod] ELSE BuildGraph(root, entries)

SaveGraph(cache, goMod, root, entries, noCache) ==
    (goMod :> LoadGraph(cache, goMod, root, entries, noCache)) @@ cache

-----------------------------------------------------------------------------

(* The lengths of the shortest ways from p, by the definition. *)
Ways(g, p) ==
    LET within[n \in 0 .. Cardinality(g.packages)] ==
            IF n = 0 THEN {p}
            ELSE LET near == within[n - 1] IN near \cup UNION {Range(g.forward[q]) : q \in near} IN
    within

Distance(g, p, q) ==
    LET ways == Ways(g, p)
        within == {n \in DOMAIN ways : q \in ways[n]} IN
    IF within = {} THEN Cardinality(g.packages) + 1 ELSE CHOOSE n \in within : \A m \in within : n <= m

(* Dependencies, dependents and paths tell the distances of the graph, up  *)
(* to the depth that was asked for; the impact of a package is itself and  *)
(* whatever reaches it; and only what is not in the module has no answer.  *)
DistancesAreTold(g, maxDepth) ==
    LET far == Cardinality(g.packages)
        limit == IF maxDepth = 0 THEN far ELSE maxDepth
        named(p) == [kind |-> "import", of |-> p]
        ask(cmd, args) == Query(g, cmd, [i \in DOMAIN args |-> named(args[i])], maxDepth)
        told(cmd, p) == Range(ask(cmd, <<p>>).result) IN
    \A p, q \in g.packages :
        LET d == Distance(g, p, q)
            way == ask("path", <<p, q>>).result
            entry(r) == [package |-> r, depth |-> d] IN
        /\ p # q => /\ (entry(q) \in told("deps", p)) <=> (d <= limit /\ d <= far)
                    /\ (entry(p) \in told("rdeps", q)) <=> (d <= limit /\ d <= far)
        /\ \A e, f \in told("deps", p) : e.package = f.package => e = f
        /\ (p \in told("impact", q)) <=> d <= far
        /\ IF d > far THEN way = <<>>
           ELSE /\ Len(way) = d + 1 /\ Head(way) = p /\ Last(way) = q
                /\ \A i \in 1 .. d : way[i + 1] \in Range(g.forward[way[i]])
        /\ \A cmd \in {"deps", "rdeps", "impact", "cycles"} : ask(cmd, <<p>>).exit = 0

(* Every cycle told is one of the graph, told once and without a shortcut  *)
(* through itself, and every package that reaches itself shares a knot     *)
(* with a cycle that is told.                                              *)
CyclesAreTold(g) ==
    LET cycles == DetectCycles(g)
        far == Cardinality(g.packages)
        together(p, q) == Distance(g, p, q) <= far /\ Distance(g, q, p) <= far IN
    /\ \A c \in cycles : /\ Len(c) > 1 /\ IsInjective(c) /\ Head(c) = Head(Sorted(Range(c)))
                         /\ \A i \in DOMAIN c : c[(i % Len(c)) + 1] \in Range(g.forward[c[i]])
    /\ \A p, q \in g.packages : p # q /\ together(p, q) =>
           \E c \in cycles : \E r \in Range(c) : together(p, r)

(* A file belongs to the nearest package above it, however it is named.    *)
FilesAreFound(g, path) ==
    LET p == ResolvePackage(g, [kind |-> "relative", path |-> path]) IN
    /\ p = ResolvePackage(g, [kind |-> "absolute", path |-> g.root \o path])
    /\ p # UnknownPackage => /\ IsPrefix(g.dirs[p], g.root \o path)
                       /\ \A q \in g.packages : IsPrefix(g.dirs[q], g.root \o path) => Len(g.dirs[q]) <= Len(g.dirs[p])

(* A list that is cut says how much it leaves out, and is not cut early.    *)
CutsAreCounted(lines, header, tokens) ==
    LET cut == WithinTokens(lines, header, tokens)
        width[k \in 0 .. Len(lines)] == IF k = 0 THEN header ELSE width[k - 1] + lines[k] IN
    /\ cut.shown + cut.more = Len(lines)
    /\ cut.more > 0 => tokens > 0 /\ width[cut.shown + 1] > 4 * tokens
    /\ tokens > 0 /\ cut.shown > 0 => width[cut.shown] <= 4 * tokens
=============================================================================
