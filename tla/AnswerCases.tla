----------------------------- MODULE AnswerCases -----------------------------
(* Inputs for what the extensions compute without keeping any state, one   *)
(* case at a time: the router, the definitions of pipelines, schedules, the *)
(* package graph and the lists of tasks.                                   *)
EXTENDS Route, PipelineData, CronViews, Depgraph, TaskViews

VARIABLE case

NoCase == [of |-> "none"]
UpTo(S, n) == UNION {[1 .. k -> S] : k \in 0 .. n}

-----------------------------------------------------------------------------
(* The router: prompts of two words, components and intents.               *)

MCSingular == [x \in {"tests"} |-> "test"]
Intent == [primary |-> "debug", secondary |-> ""]
Tokens == {s \in UpTo({"test", "tests", "fix", "go"}, 2) : IsInjective(s)}
Components ==
  {[name |-> "fix", intents |-> i, domains |-> {}, keywords |-> k, triggers |-> t, anti |-> a] :
     i \in {<<>>, <<"debug", "testing">>}, k \in {<<>>, <<"go">>, <<"go", "tests">>},
     t \in {<<>>, <<{"test", "fix"}>>}, a \in {<<>>, <<"fix">>}}
IntentDefs ==
  {[debug |-> [verbs |-> v, keywords |-> k], testing |-> [verbs |-> {"test"}, keywords |-> {"tests", "go"}]] :
     v \in {{"fix"}, {"fix", "test"}, {}}, k \in {{}, {"go"}}}

RouteCase ==
  \E t \in Tokens :
    \/ \E q \in BOOLEAN, d \in IntentDefs :
         case' = [of |-> "intent", prompt |-> [tokens |-> t, question |-> q], defs |-> d]
    \/ \E c \in Components, before, correct \in BOOLEAN, learnt \in Tokens :
         case' = [of |-> "feedback", log |-> <<[tokens |-> learnt, correct |-> correct]>>,
                  prompt |-> [tokens |-> t, question |-> FALSE], before |-> before, c |-> c]
    \/ \E c, d \in Components, dom \in {{}, {"go"}} :
         case' = [of |-> "tiers", tokens |-> t, cs |-> <<c, d>>, dom |-> dom]

\* An intent does not depend on the order of a map unless two share words, a component that was right
\* for a prompt scores no less for it afterwards and one that was wrong no more, and the tiers follow
\* the scores (route/intent.go:49, merge.go:6, scorer.go:64).
RouteScores ==
  /\ case.of = "intent" => IntentIsSettled(case.defs, case.prompt)
  /\ case.of = "feedback" => FeedbackHelps(case.log, case.prompt, case.before, case.c, Intent)
  /\ case.of = "tiers" => TiersAreRanked(case.tokens, Intent, case.dom, case.cs, 1, 1)

-----------------------------------------------------------------------------
(* Pipelines: loops, definitions of up to five steps in every arrangement,  *)
(* arguments of the tool and the command line, and the files of a directory.*)

AStep(n) == [name |-> n, refs |-> {1}, each |-> <<>>, loop |-> NoVars, format |-> "",
             retries |-> 0, timeout |-> 0, delay |-> 0, allow |-> FALSE]
APipeline(mains, groups, finals, onError) ==
  [name |-> "p", params |-> NoVars, steps |-> mains, parallel |-> groups, finally |-> finals,
   onError |-> onError, concurrency |-> 0]
StepNames == {<<"a">>, <<"b">>, <<"c">>, <<"d">>}
Outcomes == {[n \in StepNames |-> [by |-> n, status |-> st[n]]] : st \in [StepNames -> {"ok", "error", "skipped"}]}
Ranges == {[kind |-> "list", items |-> <<1, 2>>], [kind |-> "list", items |-> <<>>], [kind |-> "list", items |-> <<3, 3>>],
           [kind |-> "numbers", from |-> 1, to |-> 3], [kind |-> "numbers", from |-> 2, to |-> 1],
           [kind |-> "days", from |-> 2, to |-> 1], [kind |-> "single", value |-> 7],
           [kind |-> "malformed days"]}

\* Numbers of main steps, of the steps of each group and of final steps.
Shapes == {<<2, <<>>, 1>>, <<1, <<2>>, 1>>, <<1, <<1, 1>>, 1>>, <<0, <<2, 1>>, 1>>, <<2, <<1>>, 1>>, <<3, <<>>, 0>>}
Arranged(steps, shape) ==
  LET groups == shape[2]
      before(k) == shape[1] + FoldLeft(+, 0, SubSeq(groups, 1, k)) IN
  [steps |-> SubSeq(steps, 1, shape[1]),
   groups |-> [k \in DOMAIN groups |-> SubSeq(steps, before(k - 1) + 1, before(k))],
   finally |-> SubSeq(steps, before(Len(groups)) + 1, Len(steps))]
NumberOfSteps(shape) == shape[1] + FoldLeft(+, 0, shape[2]) + shape[3]

OnErrors == {"", "continue"}
Defaults == {"", "d"}
PipelineNames == {"", "x"}
OneStep == APipeline(<<AStep(<<"t">>)>>, <<>>, <<>>, "")
Flags == UpTo({[kind |-> "assignment", key |-> k, value |-> v] : k \in {"k", "l"}, v \in {"", "v"}}
               \cup {[kind |-> "--dry-run"], [kind |-> "word"], [kind |-> "--param"]}, 3)
StoredWith(default) ==
  (<<"x", ".yaml">> :> [OneStep EXCEPT !.params = ("k" :> [default |-> default, required |-> TRUE])]) @@ (<<"x", ".yml">> :> Nil)
Directories == [{"x", "y"} \X {".yaml", ".yml"} -> {Nil, Broken, APipeline(<<>>, <<>>, <<>>, "")}]
Arrangements(shape) == {n \in [1 .. NumberOfSteps(shape) -> StepNames] : Cardinality(Range(n)) >= NumberOfSteps(shape) - 1}
Arrange(shape, names, allowed, onError) ==
  LET p == Arranged([i \in DOMAIN names |-> [AStep(names[i]) EXCEPT !.allow = names[i] \in allowed]], shape)
  IN  APipeline(p.steps, p.groups, p.finally, onError)
Loops == UNION {[names -> Ranges] : names \in SUBSET {"x", "y"}}

IterationCase ==
  \E e \in {<<>>, <<"i">>, <<"i", "j">>, <<"i", "i">>}, l \in Loops :
    case' = [of |-> "iterations", step |-> [AStep(<<"a">>) EXCEPT !.each = e, !.loop = l]]
ArrangementCase ==
  \E shape \in Shapes, allowed \in SUBSET {<<"a">>}, e \in OnErrors : \E names \in Arrangements(shape) :
    case' = [of |-> "pipeline", p |-> Arrange(shape, names, allowed, e)]
SurfaceCase ==
  \E dry \in BOOLEAN, default \in Defaults, flags \in Flags :
    case' = [of |-> "surfaces", flags |-> flags, dry |-> dry, stored |-> StoredWith(default)]
FilesCase ==
  \E f \in Directories, n \in PipelineNames : case' = [of |-> "files", stored |-> f, name |-> n]
PipelineCase == IterationCase \/ ArrangementCase \/ SurfaceCase \/ FilesCase

\* Only steps of the main sequence are ever skipped.
CanHappen(o, p) == \A s \in Range(FlattenSeq(p.parallel)) \cup Range(p.finally) : o[s.name].status # "skipped"

\* Iterations are the combinations of the loops, references of a step find the outputs of the steps
\* before it, the dry run shows what a run would do, /pipe-new overwrites nothing, and the tool, the
\* command and the command line run the same (pipeline/loops.go:16, template.go:76, execute.go:167,
\* handlers.go:196).
PipelinesAreRead ==
  /\ case.of = "iterations" => IterationsAreExact(case.step)
  /\ case.of = "pipeline" => \A o \in Outcomes : /\ CanHappen(o, case.p) => ReferencesResolve(case.p, NoVars, o)
                                                 /\ PreviewAgrees(case.p, NoVars, o)
  /\ case.of = "files" => NewKeepsTheOthers(case.stored, case.name, OneStep)
  /\ case.of = "surfaces" => SurfacesAgree(case.stored, "x", case.flags, case.dry)

-----------------------------------------------------------------------------
(* Schedules, and histories of three runs.                                 *)

Schedules == [every : {Unset, Bad, 0, 1, 3}, dailyAt : {Unset, Bad, 0, 2, 9},
              weekly : {Unset, Bad} \cup [weekday : 0 .. Week - 1, at : 0 .. Day - 1]]
SomeSchedules == {[every |-> Unset, dailyAt |-> 1, weekly |-> Unset], [every |-> Bad, dailyAt |-> 1, weekly |-> Unset],
                  [every |-> 2, dailyAt |-> Unset, weekly |-> Unset]}
Histories == {h \in UpTo([task : {"a", "b"}, ok : BOOLEAN, at : 0 .. 2], 3) : \A i, j \in DOMAIN h : i <= j => h[i].at <= h[j].at}

CronCase ==
  \/ \E s \in Schedules, last \in -1 .. 8, now \in 0 .. 14 :
       case' = [of |-> "schedule", s |-> ParseSchedule(s), last |-> last, now |-> now]
  \/ \E h \in Histories, name \in {Unset, "a"}, limit \in 1 .. 3 :
       case' = [of |-> "history", h |-> h, name |-> name, limit |-> limit]
  \/ \E h \in Histories, sa, sb \in SomeSchedules, enabled \in BOOLEAN, now \in 2 .. 5 :
       /\ Len(h) <= 2
       /\ case' = [of |-> "tasks", h |-> h, now |-> now,
                   tasks |-> [n \in {"a", "b"} |-> IF n = "a" THEN [schedule |-> sa, enabled |-> enabled]
                                                   ELSE [schedule |-> sb, enabled |-> TRUE]]]

\* A schedule is due once its time has come and not again before the next one, and the lists and the
\* history show every task and run that they are asked for (cron/schedules.go:20, tools.go:20, commands.go:60).
SchedulesAreTold ==
  /\ case.of = "schedule" => SchedulesKeepTime(case.s, case.last, case.now)
  /\ case.of = "history" => ViewsAreFaithful(case.h, case.name, case.limit)
  /\ case.of = "tasks" => ListIsFaithful(case.tasks, case.h, case.now)

-----------------------------------------------------------------------------
(* Packages: all graphs of three, those of four with at most two imports    *)
(* each, paths of files and outputs of three lines.                        *)

DirOf == <<<<"r">>, <<"r", "a">>, <<"r", "a", "b">>, <<"r", "c">>>>
WithImports(imports) == [p \in DOMAIN imports |-> [dir |-> DirOf[p], imports |-> Sorted(imports[p])]]
Graph(es) == LoadGraph(SaveGraph([x \in {} |-> 0], "m", <<"r">>, es, TRUE), "m", <<"r">>, es, FALSE)

DepgraphCase ==
  \/ \E P \in {{1, 2, 3}, {2, 4}} : \E im \in [P -> SUBSET (P \cup IF 1 \in P THEN {} ELSE {9})], m \in 0 .. 2 :
       case' = [of |-> "graph", es |-> WithImports(im), depth |-> m]
  \/ \E im \in [1 .. 4 -> SUBSET (1 .. 4)] :
       /\ im[4] \subseteq {1, 2} /\ \A p \in 1 .. 4 : p \notin im[p] /\ Cardinality(im[p]) <= 2
       /\ case' = [of |-> "graph", es |-> WithImports(im), depth |-> 0]
  \/ \E P \in SUBSET (1 .. 4), path \in UpTo({"a", "b", "c"}, 3) :
       case' = [of |-> "file", es |-> WithImports([p \in P |-> {}]), path |-> path]
  \/ \E ls \in UpTo(1 .. 9, 3), h \in {1, 5}, t \in 0 .. 3 : case' = [of |-> "cut", ls |-> ls, header |-> h, tokens |-> t]

\* Dependencies come with their distances, every knot of imports is told by a cycle, a file finds its
\* package, and the output says how much of it was cut (depgraph/query.go:24, graph.go:136, format.go:15).
DepgraphAnswers ==
  /\ case.of = "graph" => LET g == Graph(case.es) IN DistancesAreTold(g, case.depth) /\ CyclesAreTold(g)
  /\ case.of = "file" => FilesAreFound(Graph(case.es), case.path)
  /\ case.of = "cut" => CutsAreCounted(case.ls, case.header, case.tokens)

-----------------------------------------------------------------------------
(* Tasks: ids that begin and end like others, and trees of three tasks.     *)

TaskIDs == {<<11>>, <<11, 12>>, <<12>>, <<12, 11>>, <<11, 2>>, <<>>}
InOrder(first) == <<first, <<11, 12>>, <<12>>>>
Firsts == {<<>>, <<11>>}
ATask == [status |-> "active", group |-> "todo", parent |-> <<>>, updated |-> 1, words |-> {}]
Kinds == [status : {"active", "done"}, group : {"todo", "backlog"}, under : 0 .. 2]
StoreOf(kinds, n, first) ==
  [id \in {InOrder(first)[i] : i \in 1 .. n} |->
     LET i == CHOOSE i \in 1 .. n : InOrder(first)[i] = id IN
     [status |-> kinds[i].status, group |-> kinds[i].group, updated |-> (i * 2) % 5, words |-> {},
      parent |-> IF kinds[i].under \in 1 .. i - 1 THEN InOrder(first)[kinds[i].under] ELSE <<>>]]

TaskCase ==
  \/ \E D \in SUBSET TaskIDs, slug \in {<<>>, <<11>>, <<12>>}, q \in UpTo({11, 12, 2}, 2) :
       case' = [of |-> "query", d |-> [x \in D |-> ATask], slug |-> slug, q |-> q]
  \/ \E kinds \in [1 .. 3 -> Kinds], n \in 0 .. 3, first \in Firsts, room \in {2, 9} :
       case' = [of |-> "view", d |-> StoreOf(kinds, n, first), room |-> room]

\* A query never finds a task it could have meant another than, a new id is free, and the counts,
\* lists and the prompt section agree (tasklist/store.go:58, store_write.go:10, prompt.go:10).
TasksAreFound ==
  /\ case.of = "query" => QueriesAreCertain(case.d, case.slug, case.q)
  /\ case.of = "view" => SummariesAgree(case.d, case.room)

(* What is answered about prompts, pipeline definitions and packages, from  *)
(* data alone, is right in every case.                                      *)
AnswersAreTrue == RouteScores /\ PipelinesAreRead /\ DepgraphAnswers
=============================================================================
