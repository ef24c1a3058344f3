-------------------------------- MODULE Bulk --------------------------------
(***************************************************************************)
(* One bulk call (bulk/, cmd/bulk/main.go): the arguments of the tool or   *)
(* of the command line, the scan for items, the filter and the command,    *)
(* each in a group of bounded size, and the summary.                       *)
(*                                                                         *)
(* A path is a sequence of names, a name a number.  The world holds the    *)
(* directories, the ones that cannot be read, the files, and the state of  *)
(* the git repositories, where a branch without upstream is neither ahead  *)
(* nor behind but an error.                                                *)
(***************************************************************************)
EXTENDS Naturals, SequencesExt

CONSTANTS
    BulkWorld,          \* [dirs, unreadable, files, repos : [directory -> [dirty, upstream, ahead, behind]]]
    ToolArgs,           \* the arguments the model gives to the tool
    CommandArgs,        \* ... and to the command line
    BulkConcurrency     \* the default of both groups (8 in the code)

Sources == {"git_repos", "dirs", "files", "list"}
Path == Seq(Nat)

ASSUME BulkAssumption ==
    /\ BulkConcurrency \in Nat \ {0}
    \* The directories are a finite tree below <<>>.
    /\ BulkWorld.dirs \subseteq Path /\ IsFiniteSet(BulkWorld.dirs) /\ <<>> \in BulkWorld.dirs
    /\ \A d \in BulkWorld.dirs \ {<<>>} : Front(d) \in BulkWorld.dirs
    /\ BulkWorld.files \subseteq Path /\ IsFiniteSet(BulkWorld.files)
    /\ \A a \in ToolArgs :
           /\ a.source \in Sources /\ {a.depth, a.concurrency} \subseteq Nat /\ a.paths \in Seq(Path)
           /\ a.dryRun \in {"unset", "true", "false"}
    /\ \A a \in CommandArgs : {a.depth, a.concurrency} \subseteq Nat /\ a.paths \in Seq(Path) /\ a.dryRun \in BOOLEAN

VARIABLES
    bulk,       \* the call and how far it is
    shells      \* history: the items the command was started for, and how it ended

bvars == <<bulk, shells>>

-----------------------------------------------------------------------------
(* The arguments. *)

Positive(n, default) == IF n > 0 THEN n ELSE default

IsMutating(command) == command = "mutating"

(* A mutating command is only tried out unless dry_run says otherwise. *)
DryRunArg(args) == IF args.dryRun # "unset" THEN args.dryRun = "true" ELSE IsMutating(args.command)

ToolCall(args) ==
    [by |-> "tool", source |-> args.source, depth |-> Positive(args.depth, 1), pattern |-> args.pattern,
     paths |-> args.paths, filter |-> args.filter, command |-> args.command, explicit |-> args.dryRun = "false",
     limit |-> Positive(args.concurrency, BulkConcurrency), dry |-> DryRunArg(args)]

(* The first source flag in a fixed order wins; nothing is tried out       *)
(* unless -dry-run asks for it.                                            *)
SourceOfFlags(flags) ==
    LET order == <<"git_repos", "dirs", "files", "list">>
        given == {k \in DOMAIN order : order[k] \in flags} IN
    IF given = {} THEN "none" ELSE order[Min(given)]

CommandCall(args) ==
    [by |-> "command", source |-> SourceOfFlags(args.flags), depth |-> Positive(args.depth, 1),
     pattern |-> args.pattern, paths |-> args.paths, filter |-> args.filter, command |-> args.command,
     explicit |-> TRUE, limit |-> Positive(args.concurrency, BulkConcurrency), dry |-> args.dryRun]

BulkCalls == {ToolCall(a) : a \in ToolArgs} \cup {CommandCall(a) : a \in CommandArgs}

-----------------------------------------------------------------------------
(* The scan. *)

Precedes(p, q) ==
    \/ IsStrictPrefix(p, q)
    \/ \E i \in DOMAIN p \cap DOMAIN q : p[i] < q[i] /\ \A j \in 1 .. i - 1 : p[j] = q[j]

IsRepo(d) == d \in DOMAIN BulkWorld.repos

DirMatch(call, d) ==
    IF call.source = "git_repos" THEN IsRepo(d)
    ELSE call.pattern = 0 \/ Append(d, call.pattern) \in BulkWorld.files \cup BulkWorld.dirs

(* What walkDirs finds in a directory it has come to: an unreadable one is *)
(* passed over, and so are all at the depth asked for.                     *)
ReadDir(call, d) ==
    IF Len(d) >= call.depth \/ d \in BulkWorld.unreadable THEN {}
    ELSE {e \in BulkWorld.dirs \ {<<>>} : Front(e) = d}

(* The directories it comes to, from the root down, where a matched one is *)
(* not entered: the least set closed under that step.                      *)
Visited(call) ==
    {v \in BulkWorld.dirs :
        \A S \in SUBSET BulkWorld.dirs :
            <<>> \in S /\ (\A d \in S : \A e \in ReadDir(call, d) : ~DirMatch(call, e) => e \in S) => v \in S}

WalkDirs(call) == {e \in UNION {ReadDir(call, d) : d \in Visited(call)} : DirMatch(call, e)}

(* Paths are sorted, and there is one way to.                              *)
InPathOrder(S) ==
    {listing \in Bijection(1 .. Cardinality(S), S) : \A i, j \in DOMAIN listing : i < j => Precedes(listing[i], listing[j])}

(* The items of a set of indices by name; slices.SortFunc leaves those of  *)
(* one name in any order.                                                  *)
NameOrders(paths, I) ==
    {order \in Bijection(1 .. Cardinality(I), I) :
        \A k, l \in DOMAIN order : k < l => Last(paths[order[k]]) <= Last(paths[order[l]])}

Taken(paths, order) == [k \in DOMAIN order |-> paths[order[k]]]

InNameOrder(paths, I) == {Taken(paths, order) : order \in NameOrders(paths, I)}

(* Directories and matches of a glob in the order of their paths, a list   *)
(* in the order of its names.                                              *)
Scanned(call) ==
    CASE call.source \in {"git_repos", "dirs"} -> InPathOrder(WalkDirs(call))
      [] call.source = "files" -> InPathOrder({f \in BulkWorld.files : Last(f) = call.pattern})
      [] call.source = "list" -> InNameOrder(call.paths, DOMAIN call.paths)

(* How a predicate may judge an item: a word that names a git state, for   *)
(* repositories, or any shell command.  An error excludes.                 *)
GitKeywords == {"dirty", "clean", "ahead", "behind", "diverged"}

FilterOutcomes(call, item) ==
    IF call.source = "git_repos" /\ call.filter \in GitKeywords
    THEN LET r == BulkWorld.repos[item] IN
         {CASE call.filter = "dirty" -> r.dirty
            [] call.filter = "clean" -> ~r.dirty
            [] call.filter = "ahead" -> r.upstream /\ r.ahead
            [] call.filter = "behind" -> r.upstream /\ r.behind
            [] call.filter = "diverged" -> r.upstream /\ r.ahead /\ r.behind}
    ELSE BOOLEAN

Filters(call) == call.filter # "" /\ ~(call.source = "git_repos" /\ call.filter = "all")

-----------------------------------------------------------------------------
(* The two groups. *)

BulkIdle == [phase |-> "idle"]

BulkInit ==
    /\ bulk = BulkIdle
    /\ shells = <<>>

Waiting(n) == [i \in 1 .. n |-> "waiting"]

(* What comes after the filter: the command, or the list of what it would  *)
(* have run on.                                                            *)
RunOn(b, matched) == [b EXCEPT !.phase = IF b.call.dry THEN "summary" ELSE "run", !.matched = matched,
                               !.jobs = IF b.call.dry THEN [i \in DOMAIN matched |-> "skipped"] ELSE Waiting(Len(matched))]

Refused(call) == call.source = "none" \/ (call.by = "command" /\ call.command = "" /\ ~call.dry)

BulkStart(call) ==
    /\ bulk.phase = "idle"
    /\ \/ Refused(call) /\ bulk' = [phase |-> "refused", call |-> call]
       \/ /\ ~Refused(call)
          /\ \E items \in Scanned(call) :
                LET b == [phase |-> "filter", call |-> call, ctx |-> "alive", items |-> items,
                          jobs |-> Waiting(Len(items)), matched |-> <<>>] IN
                bulk' = IF Filters(call) THEN b ELSE RunOn(b, items)
    /\ UNCHANGED shells

BulkRunning == {i \in DOMAIN bulk.jobs : bulk.jobs[i] = "running"}

HasSlotAlways(i) == bulk.jobs[i] = "waiting" /\ \A j \in 1 .. i - 1 : bulk.jobs[j] # "waiting" \* Faulty: no limit.

(* The loop that starts the group waits for a slot. *)
HasSlot(i) ==
    /\ bulk.jobs[i] = "waiting"
    /\ \A j \in 1 .. i - 1 : bulk.jobs[j] # "waiting"
    /\ Cardinality(BulkRunning) < bulk.call.limit

FilterStarts(i) ==
    /\ bulk.phase = "filter"
    /\ HasSlot(i)
    /\ bulk' = [bulk EXCEPT !.jobs[i] = IF bulk.ctx = "ended" THEN "drop" ELSE "running"]
    /\ UNCHANGED shells

(* The predicate has no deadline of its own, and even the end of the       *)
(* context only kills its shell.                                           *)
FilterEnds(i) ==
    /\ bulk.phase = "filter"
    /\ bulk.jobs[i] = "running"
    /\ \E keep \in FilterOutcomes(bulk.call, bulk.items[i]) \cup (IF bulk.ctx = "ended" THEN {FALSE} ELSE {}) :
           bulk' = [bulk EXCEPT !.jobs[i] = IF keep THEN "keep" ELSE "drop"]
    /\ UNCHANGED shells

Filtered ==
    /\ bulk.phase = "filter"
    /\ \A i \in DOMAIN bulk.jobs : bulk.jobs[i] \in {"keep", "drop"}
    /\ \E matched \in InNameOrder(bulk.items, {i \in DOMAIN bulk.jobs : bulk.jobs[i] = "keep"}) :
           bulk' = RunOn(bulk, matched)
    /\ UNCHANGED shells

CommandStarts(i) ==
    /\ bulk.phase = "run"
    /\ HasSlot(i)
    /\ bulk' = [bulk EXCEPT !.jobs[i] = IF bulk.ctx = "ended" THEN "error" ELSE "running"]
    /\ shells' = IF bulk.ctx = "ended" THEN shells ELSE Append(shells, [item |-> bulk.matched[i], job |-> i, end |-> "none"])

Ended(i, outcome) == [bulk.jobs EXCEPT ![i] = outcome]

(* A result is stored at the index of its item. *)
StoredEnd(i, outcome) == Ended(i, outcome)

(* A command ends with an outcome.  Its deadline kills its shell, but it   *)
(* has ended only when all that the shell started has closed its output.   *)
CommandEnds(i) ==
    /\ bulk.phase = "run"
    /\ \E k \in DOMAIN shells : shells[k].job = i /\ shells[k].end = "none"
    /\ \E outcome \in {"ok", "error"} :
           /\ bulk' = [bulk EXCEPT !.jobs = StoredEnd(i, outcome)]
           /\ shells' = [k \in DOMAIN shells |-> IF shells[k].job = i THEN [shells[k] EXCEPT !.end = outcome] ELSE shells[k]]

RanAll ==
    /\ bulk.phase = "run"
    /\ \A i \in DOMAIN bulk.jobs : bulk.jobs[i] \notin {"waiting", "running"}
    /\ bulk' = [bulk EXCEPT !.phase = "summary"]
    /\ UNCHANGED shells

CountFailed(b, status) == Cardinality({i \in DOMAIN b.jobs : b.jobs[i] = status})

(* The results of commands are in the order of the names, what a dry run   *)
(* lists stays as it is.                                                   *)
ResultOrders(b) ==
    IF b.call.dry THEN {[i \in DOMAIN b.matched |-> i]} ELSE NameOrders(b.matched, DOMAIN b.matched)

(* The answer, and the exit code of the command line.                      *)
BulkSummary(b, order) ==
    LET failed == CountFailed(b, "error") IN
    [total |-> Len(b.items), matched |-> Len(b.matched), failed |-> failed, ok |-> Len(b.matched) - failed,
     results |-> [k \in DOMAIN order |-> [item |-> b.matched[order[k]], status |-> b.jobs[order[k]]]],
     exit |-> IF failed > 0 THEN 1 ELSE 0]

Summarise ==
    /\ bulk.phase = "summary"
    /\ \E order \in ResultOrders(bulk) :
           bulk' = [phase |-> "done", call |-> bulk.call, ctx |-> bulk.ctx, items |-> bulk.items,
                    jobs |-> bulk.jobs, matched |-> bulk.matched, answer |-> BulkSummary(bulk, order)]
    /\ UNCHANGED shells

BulkContextEnds ==
    /\ bulk.phase \in {"filter", "run"}
    /\ bulk.ctx = "alive"
    /\ bulk' = [bulk EXCEPT !.ctx = "ended"]
    /\ UNCHANGED shells

BulkJobs == IF bulk.phase \in {"idle", "refused"} THEN {} ELSE DOMAIN bulk.jobs

BulkLoop == \E i \in BulkJobs : FilterStarts(i) \/ CommandStarts(i)

BulkNext ==
    \/ \E call \in BulkCalls : BulkStart(call)
    \/ BulkLoop
    \/ \E i \in BulkJobs : FilterEnds(i) \/ CommandEnds(i)
    \/ Filtered \/ RanAll \/ Summarise
    \/ BulkContextEnds

(* The loops go on; nothing makes a predicate or a command end.            *)
BulkStep == BulkLoop \/ Filtered \/ RanAll \/ Summarise

BulkSpec == BulkInit /\ [][BulkNext]_bvars /\ WF_bvars(BulkStep)

-----------------------------------------------------------------------------

BulkTypeOK ==
    /\ bulk.phase \in {"idle", "refused", "filter", "run", "summary", "done"}
    /\ bulk.phase \notin {"idle", "refused"} =>
           /\ bulk.call \in BulkCalls /\ bulk.ctx \in {"alive", "ended"}
           /\ Range(bulk.matched) \subseteq Range(bulk.items)
           /\ Cardinality(BulkRunning) <= bulk.call.limit
    /\ \A k \in DOMAIN shells : shells[k].end \in {"none", "ok", "error"}

(* bulk/execute.go:13-38, 76-136: the command runs at most once for every  *)
(* listed item, never in a dry run, never - when it looks destructive and  *)
(* comes from the tool - unless dry_run is given as false, and what the    *)
(* summary says of each item and of their number is what happened.         *)
BulkTellsWhatRan ==
    /\ \A k, l \in DOMAIN shells : shells[k].job = shells[l].job => k = l
    /\ shells # <<>> => ~bulk.call.dry /\ (IsMutating(bulk.call.command) => bulk.call.explicit)
    /\ bulk.phase = "done" =>
           LET answer == bulk.answer
               told(item, status) == Cardinality({k \in DOMAIN answer.results : answer.results[k] = [item |-> item, status |-> status]})
               ended(item, end) == Cardinality({k \in DOMAIN shells : shells[k].item = item /\ shells[k].end = end}) IN
           /\ answer.matched = Len(answer.results)
           /\ answer.ok + answer.failed = answer.matched
           /\ \A item \in Range(bulk.matched) : told(item, "ok") = ended(item, "ok")
           /\ (answer.exit = 0 /\ ~bulk.call.dry) => \A k \in DOMAIN answer.results : answer.results[k].status = "ok"
           /\ bulk.ctx = "alive" => Len(shells) = IF bulk.call.dry THEN 0 ELSE answer.matched

(* bulk/scanner.go:47-71: no item lies within another, every item is one   *)
(* that was asked for, within the depth, and none such is missed that can  *)
(* be read and lies in no other.                                           *)
ScansFindTheOutermost ==
    bulk.phase \notin {"idle", "refused"} /\ bulk.call.source \in {"git_repos", "dirs"} =>
        LET found == Range(bulk.items)
            within(d) == {SubSeq(d, 1, n) : n \in 0 .. Len(d) - 1} IN
        /\ \A d \in found : DirMatch(bulk.call, d) /\ Len(d) <= bulk.call.depth
        /\ \A d, e \in found : ~IsStrictPrefix(d, e)
        /\ \A d \in BulkWorld.dirs : DirMatch(bulk.call, d) /\ Len(d) \in 1 .. bulk.call.depth =>
               \/ d \in found
               \/ within(d) \cap (found \cup BulkWorld.unreadable) # {}

(* bulk/execute.go:80-136, filter.go:20: a call comes to its summary       *)
(* unless a predicate or a command never returns.                          *)
BulkReturns ==
    \/ bulk.phase \in {"filter", "run"} ~> bulk.phase = "done"
    \/ <>[](bulk.phase \in {"filter", "run"} /\ BulkRunning # {})
=============================================================================
