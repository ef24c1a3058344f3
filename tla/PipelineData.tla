---------------------------- MODULE PipelineData ----------------------------
(***************************************************************************)
(* What module Pipeline leaves out of a run (pipeline/): which definitions *)
(* are accepted, the iterations a step expands to, what a template of a    *)
(* step can see of the others, the preview of a dry run, and the tool and  *)
(* the commands that find, list and create definitions.                    *)
(*                                                                         *)
(* A step is a record of its name, the templates of its run command (none:  *)
(* no command), its each list, its loop ranges, its format and so on.  A   *)
(* name is the sequence of its parts: "finally:a" is <<"finally", "a">>.   *)
(***************************************************************************)
EXTENDS Integers, Sequences, FiniteSets, SequencesExt, Functions, TLC

CONSTANTS
    Unresolved,   \* a template that is left as it stands
    Nil,          \* nil: no previous step, no file, no item
    Broken        \* a file that is no definition

-----------------------------------------------------------------------------
(* Definitions                                                             *)

\* defaults and applyStepDefaults
StepWithDefaults(s) == [s EXCEPT
    !.timeout = IF @ <= 0 THEN 30 ELSE @,
    !.delay = IF @ <= 0 /\ s.retries > 0 THEN 5 ELSE @]

AllWithDefaults(steps) == [i \in DOMAIN steps |-> StepWithDefaults(steps[i])]

WithDefaults(p) == [p EXCEPT
    !.concurrency = IF @ <= 0 THEN 4 ELSE @,
    !.onError = IF @ = "" THEN "halt" ELSE @,
    !.steps = AllWithDefaults(@),
    !.parallel = [g \in DOMAIN @ |-> AllWithDefaults(@[g])],
    !.finally = AllWithDefaults(@)]

\* An empty default is none; an override counts even when it is empty.
MergeParams(p, overrides) ==
    LET defaulted == {n \in DOMAIN p.params : p.params[n].default # ""} IN
    overrides @@ [n \in defaulted |-> p.params[n].default]

AllSteps(p) == p.steps \o FlattenSeq(p.parallel) \o p.finally

StepIsValid(s) == s.name # <<>> /\ s.refs # {} /\ s.format \in {"", "text", "json"}

Valid(p, params) ==
    /\ p.name # "" /\ (p.steps # <<>> \/ p.parallel # <<>>)
    /\ \A n \in DOMAIN p.params :
        p.params[n].required => n \in DOMAIN params \/ p.params[n].default # ""
    /\ p.onError \in {"", "halt", "continue"}
    /\ \A i \in DOMAIN AllSteps(p) : StepIsValid(AllSteps(p)[i])
    /\ \A i, j \in DOMAIN AllSteps(p) : AllSteps(p)[i].name = AllSteps(p)[j].name => i = j

-----------------------------------------------------------------------------
(* Iterations                                                              *)

Counted(from, to) ==
    IF from > to THEN [i \in 1 .. from - to + 1 |-> from - i + 1]
                 ELSE [i \in 1 .. to - from + 1 |-> from + i - 1]

\* parseRange: days always ascend, a string that is no range stands for itself.
RangeValues(raw) ==
    CASE raw.kind = "list" -> raw.items
      [] raw.kind = "numbers" -> Counted(raw.from, raw.to)
      [] raw.kind = "days" -> IF raw.from > raw.to THEN Counted(raw.to, raw.from)
                                                   ELSE Counted(raw.from, raw.to)
      [] raw.kind = "single" -> <<raw.value>>
      [] OTHER -> <<>>

Malformed(s) == \E k \in DOMAIN s.loop : s.loop[k].kind = "malformed days"

PairsOf(A, B) == FlattenSeq([i \in DOMAIN A |-> [j \in DOMAIN B |-> <<A[i], B[j]>>]])

NoVars == [k \in {} |-> Nil]

\* cartesianLoop; keys is the order in which the map of the ranges is walked.
Combinations(loop, keys) ==
    LET WithValues(k, rest) ==
            LET pairs == PairsOf(RangeValues(loop[k]), rest) IN
            [i \in DOMAIN pairs |-> (k :> pairs[i][1]) @@ pairs[i][2]]
    IN  FoldRight(WithValues, keys, <<NoVars>>)

Iterated(s) == s.each # <<>> \/ DOMAIN s.loop # {}

Iterations(s, keys) ==
    LET items == IF s.each = <<>> THEN <<"">> ELSE s.each
        pairs == PairsOf(items, Combinations(s.loop, keys)) IN
    IF ~Iterated(s) THEN <<>>
    ELSE [i \in DOMAIN pairs |-> [item |-> pairs[i][1], vars |-> pairs[i][2]]]

-----------------------------------------------------------------------------
(* Templates: what a step may refer to                                     *)

Context(params) ==
    [params |-> params, prev |-> Nil, steps |-> NoVars, item |-> Nil, vars |-> NoVars]

\* executeIterated: {item} is the empty string in a step that only loops.
InIteration(tc, it) == [tc EXCEPT !.item = it.item, !.vars = it.vars]

Lookup(f, key) == IF key \in DOMAIN f THEN f[key] ELSE Unresolved

ResolveRef(tc, ref) ==
    CASE ref.of = "param" -> Lookup(tc.params, ref.name)
      [] ref.of = "step" -> Lookup(tc.steps, ref.name)
      [] ref.of = "loop" -> Lookup(tc.vars, ref.name)
      [] ref.of = "prev" -> IF tc.prev = Nil THEN Unresolved ELSE tc.prev
      [] ref.of = "item" -> IF tc.item = Nil THEN Unresolved ELSE tc.item
      [] OTHER -> Unresolved

Expand(tc, refs) == [r \in refs |-> ResolveRef(tc, r)]

Remember(tc, s, out) == [tc EXCEPT !.steps = (s.name :> out) @@ @, !.prev = out]

-----------------------------------------------------------------------------
(* A run whose steps end as outs says: outs[name] = [by |-> .., status |-> ..] *)

Reported(run, s, name, status) == [run EXCEPT
    !.seen = (s :> run.tc) @@ @,
    !.report = Append(@, [name |-> name, status |-> status])]

MainStep(p, outs, run, s) ==
    IF run.halted THEN run
    ELSE LET out == outs[s.name] IN
         [Reported(run, s, s.name, out.status) EXCEPT
            !.tc = IF out.status = "skipped" THEN @ ELSE Remember(@, s, out),
            !.halted = out.status = "error" /\ ~s.allow /\ p.onError # "continue"]

\* The steps of a group see what was there before it; the last of them becomes the previous one.
Group(p, outs, run, group) ==
    LET failed(s) == outs[s.name].status = "error" /\ ~s.allow IN
    IF run.stopped THEN run
    ELSE [run EXCEPT
            !.seen = [s \in Range(group) |-> run.tc] @@ @,
            !.report = @ \o [i \in DOMAIN group |->
                                [name |-> group[i].name, status |-> outs[group[i].name].status]],
            !.tc = FoldLeft(LAMBDA tc, s : Remember(tc, s, outs[s.name]), @, group),
            !.stopped = p.onError # "continue" /\ \E s \in Range(group) : failed(s)]

\* A finally step is remembered under its prefix and is nobody's previous step.
FinalStep(outs, run, s) ==
    [Reported(run, s, <<"finally">> \o s.name, outs[s.name].status) EXCEPT
        !.tc.steps = ((<<"finally">> \o s.name) :> outs[s.name]) @@ @]

Begin(p, params) ==
    [tc |-> Context(MergeParams(p, params)), seen |-> NoVars, report |-> <<>>,
     halted |-> FALSE, stopped |-> FALSE]

Run(p, params, outs) ==
    LET mains == FoldLeft(LAMBDA r, s : MainStep(p, outs, r, s), Begin(p, params), p.steps)
        groups == FoldLeft(LAMBDA r, g : Group(p, outs, r, g), mains, p.parallel)
    IN FoldLeft(LAMBDA r, s : FinalStep(outs, r, s), groups, p.finally)

-----------------------------------------------------------------------------
(* The preview                                                             *)

DryOut == [by |-> "dry run", status |-> "ok"]

PreviewStep(run, s) ==
    [Reported(run, s, s.name, "skipped") EXCEPT !.tc = Remember(@, s, DryOut)]

PreviewGroup(run, group, g) ==
    [FoldLeft(LAMBDA r, s : Reported(r, s, <<"parallel", g>> \o s.name, "skipped"), run, group)
        EXCEPT !.tc.prev = DryOut]

PreviewFinal(run, s) ==
    [Reported(run, s, <<"finally">> \o s.name, "skipped") EXCEPT
        !.tc.steps = ((<<"finally">> \o s.name) :> DryOut) @@ @]

DryRun(p, params) ==
    LET mains == FoldLeft(PreviewStep, Begin(p, params), p.steps)
        groups == FoldLeft(LAMBDA r, g : PreviewGroup(r, p.parallel[g], g), mains,
                           [g \in DOMAIN p.parallel |-> g])
    IN FoldLeft(PreviewFinal, groups, p.finally)

\* A range that cannot be parsed is previewed as one iteration; the run fails on it.
PreviewedIterations(s, keys) ==
    IF Malformed(s) \/ Iterations(s, keys) = <<>> THEN 1 ELSE Len(Iterations(s, keys))

-----------------------------------------------------------------------------
(* The tool and the commands: files[<<name, extension>>] is a definition,  *)
(* Broken or Nil                                                           *)

StoredPipeline(files, name) ==
    LET file == IF files[<<name, ".yaml">>] # Nil THEN files[<<name, ".yaml">>]
                                                     ELSE files[<<name, ".yml">>]
    IN IF file \in {Nil, Broken} THEN file ELSE WithDefaults(file)

Listed(files) == {f \in DOMAIN files : files[f] \notin {Nil, Broken}}

\* executePipeline, /pipe and the command line: what is asked for, the definition it names,
\* and whether it is run, previewed or refused.
Requested(files, args) ==
    IF args.name # "" THEN StoredPipeline(files, args.name) ELSE args.inline

Answer(files, args) ==
    LET p == Requested(files, args) IN
    IF p \in {Nil, Broken} THEN "error"
    ELSE IF ~Valid(p, MergeParams(p, args.params)) THEN "invalid"
    ELSE IF args.dryRun THEN "previewed" ELSE "ran"

\* /pipe-new looks for a .yaml file only.
PipeNew(files, name, template) ==
    IF name = "" \/ files[<<name, ".yaml">>] # Nil THEN files
    ELSE [files EXCEPT ![<<name, ".yaml">>] = template]

\* The words of /pipe: the name, then --dry-run and --param key=value in any order.
\* A word that is neither is passed over, and so is a --param without a value or without "=".
PipeWords(words) ==
    LET value[i \in DOMAIN words] == i > 2 /\ words[i - 1].kind = "--param" /\ ~value[i - 1]
        assigned == {i \in DOMAIN words : value[i] /\ words[i].kind = "assignment"}
        last(k) == CHOOSE i \in assigned : /\ words[i].key = k
                                           /\ \A j \in assigned : words[j].key = k => j <= i IN
    [name |-> words[1].text,
     dryRun |-> \E i \in 2 .. Len(words) : words[i].kind = "--dry-run" /\ ~value[i],
     params |-> [k \in {words[i].key : i \in assigned} |-> words[last(k)].value]]

\* The command line: of the -param flags without "=" none counts, of those of a key the last one.
ParseParams(flags) ==
    LET assigned == {i \in DOMAIN flags : flags[i].kind = "assignment"}
        last(k) == CHOOSE i \in assigned : /\ flags[i].key = k
                                           /\ \A j \in assigned : flags[j].key = k => j <= i IN
    [k \in {flags[i].key : i \in assigned} |-> flags[last(k)].value]

\* It exits with 1 for a definition that is missing or refused and for a run that ended in error.
ExitCode(p, flags, dryRun, status) ==
    IF p \in {Nil, Broken} THEN 1
    ELSE IF ~Valid(p, MergeParams(p, ParseParams(flags))) THEN 1
    ELSE IF ~dryRun /\ status = "error" THEN 1 ELSE 0

-----------------------------------------------------------------------------
(* What holds                                                              *)

Orders(S) == {q \in [1 .. Cardinality(S) -> S] : \A i, j \in DOMAIN q : q[i] = q[j] => i = j}

\* A step runs once for every item with every combination of its ranges, whatever the order in
\* which the map of the ranges is walked, different iterations run different commands, and the
\* preview counts them (pipeline/loops.go ExpandIterations, step.go executeIterated).
IterationsAreExact(s) ==
    \A keys \in Orders(DOMAIN s.loop) :
        LET its == Iterations(s, keys)
            values(k) == Range(RangeValues(s.loop[k]))
            items == IF s.each = <<>> THEN {""} ELSE Range(s.each)
            choices == {f \in [DOMAIN s.loop -> UNION {values(k) : k \in DOMAIN s.loop}] :
                            \A k \in DOMAIN s.loop : f[k] \in values(k)}
            many == FoldRight(LAMBDA k, n : Len(RangeValues(s.loop[k])) * n, keys,
                              IF s.each = <<>> THEN 1 ELSE Len(s.each))
            refs == {[of |-> "item"]} \cup {[of |-> "loop", name |-> k] : k \in DOMAIN s.loop}
            command(it) == Expand(InIteration(Context(NoVars), it), refs)
        IN Iterated(s) =>
            /\ Range(its) = [item : items, vars : choices]
            /\ Len(its) = many
            /\ PreviewedIterations(s, keys) = IF many = 0 THEN 1 ELSE many
            /\ \A i, j \in DOMAIN its : its[i] # its[j] => command(its[i]) # command(its[j])

\* What has run before step s, in the order of the definition: for a main step the main steps
\* before it, for a step of a group all main steps and the groups before it, for a finally step
\* all of them; what was skipped, or never reached after a failure, is not among it.
RanBefore(p, outs, s) ==
    LET failed(t) == outs[t.name].status = "error" /\ ~t.allow /\ p.onError # "continue"
        mainOf(i) == \A j \in 1 .. i - 1 : ~failed(p.steps[j])
        mains == [i \in {j \in DOMAIN p.steps : mainOf(j)} |-> p.steps[i]]
        groupRuns(g) == \A h \in 1 .. g - 1 : \A i \in DOMAIN p.parallel[h] : ~failed(p.parallel[h][i])
        groups == SelectSeq([g \in DOMAIN p.parallel |-> g], groupRuns)
        upTo(g) == FlattenSeq([h \in DOMAIN SelectSeq(groups, LAMBDA k : k < g) |-> p.parallel[h]])
        did(q) == SelectSeq(q, LAMBDA t : outs[t.name].status # "skipped")
    IN IF s \in Range(p.steps)
       THEN did(SubSeq(p.steps, 1, (CHOOSE i \in DOMAIN p.steps : p.steps[i] = s) - 1))
       ELSE did(mains) \o upTo(IF \E g \in DOMAIN p.parallel : s \in Range(p.parallel[g])
                              THEN CHOOSE g \in DOMAIN p.parallel : s \in Range(p.parallel[g])
                              ELSE Len(p.parallel) + 1)

\* A template of a step that runs is the output of the step it names if that one ran in an earlier
\* stage, and {prev} that of the last one that did; anything else stays as it stands, also when
\* steps run side by side or were skipped (pipeline/template.go resolve, execute.go Run).
ReferencesResolve(p, params, outs) ==
    Valid(p, MergeParams(p, params)) =>
        LET run == Run(p, params, outs) IN
        \A s \in DOMAIN run.seen :
            LET before == RanBefore(p, outs, s) IN
            /\ \A t \in Range(AllSteps(p)) :
                ResolveRef(run.seen[s], [of |-> "step", name |-> t.name]) =
                    IF t \in Range(before) THEN outs[t.name] ELSE Unresolved
            /\ ResolveRef(run.seen[s], [of |-> "prev"]) =
                    IF before = <<>> THEN Unresolved ELSE outs[before[Len(before)].name]

\* A preview shows the steps a run reports that fails nowhere, in the same order; the templates
\* of its main steps resolve where those of the run do (pipeline/execute.go DryRun).
PreviewAgrees(p, params, outs) ==
    (Valid(p, MergeParams(p, params)) /\ \A n \in DOMAIN outs : outs[n].status = "ok") =>
        LET run == Run(p, params, outs)
            dry == DryRun(p, params) IN
        /\ Len(run.report) = Len(dry.report)
        /\ \A i \in DOMAIN run.report :
            IsSuffix(AllSteps(p)[i].name, run.report[i].name)
            /\ IsSuffix(AllSteps(p)[i].name, dry.report[i].name)
        /\ \A s \in Range(p.steps), ref \in [of : {"step"}, name : {t.name : t \in Range(AllSteps(p))}]
                                            \cup {[of |-> "prev"]} :
            (ResolveRef(run.seen[s], ref) = Unresolved) = (ResolveRef(dry.seen[s], ref) = Unresolved)

\* /pipe-new changes what one name stands for at most, and only if no .yaml file had it; what
\* was listed still is
\* (pipeline/handlers.go handlePipeNewCommand).
NewKeepsTheOthers(files, name, template) ==
    LET after == PipeNew(files, name, template) IN
    /\ Listed(files) \subseteq Listed(after)
    /\ \A f \in DOMAIN files :
        StoredPipeline(after, f[1]) # StoredPipeline(files, f[1]) =>
            f[1] = name /\ files[<<name, ".yaml">>] = Nil
                /\ StoredPipeline(after, name) = WithDefaults(template)

\* /pipe and the command line take the same parameters from the same assignments, and what one of
\* them refuses so does the other (pipeline/handlers.go, cmd/pipeline/main.go).
SurfacesAgree(files, name, flags, dryRun) ==
    LET param == [kind |-> "--param"]
        words == <<[kind |-> "word", text |-> name]>>
                    \o FlattenSeq([i \in DOMAIN flags |-> <<param, flags[i]>>])
                    \o IF dryRun THEN <<[kind |-> "--dry-run"]>> ELSE <<>>
        args == PipeWords(words)
        answer == Answer(files, [name |-> args.name, params |-> args.params,
                                 dryRun |-> args.dryRun, inline |-> Nil])
    IN /\ args.params = ParseParams(flags)
       /\ (answer \in {"error", "invalid"}) = (ExitCode(StoredPipeline(files, name), flags, dryRun, "ok") = 1)
       /\ answer = "previewed" => dryRun
=============================================================================
