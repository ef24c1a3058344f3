------------------------------ MODULE Pipeline ------------------------------
(***************************************************************************)
(* One run of a pipeline (pipeline/execute.go, step.go): the main steps in *)
(* sequence, then the parallel groups one after the other, then the        *)
(* finally steps.  A command is one shellRun; it ends, well or badly, and  *)
(* an ended context lets no other start.  Outputs and templates are left   *)
(* out.                                                                    *)
(***************************************************************************)
EXTENDS Naturals, Sequences, FiniteSets

CONSTANTS
    Main, Groups, Finals,   \* Steps, Parallel and Finally: sequences of steps
    Allow,          \* the steps with allow_failure
    When,           \* When[s]: "none", or what the predicate says when it can run
    Retries,        \* Retries[s]
    Iterated,       \* the steps with each or loop
    Iters,          \* Iters[s]: how many iterations they make, 0 for an empty list
    Malformed,      \* the iterated steps with a range that cannot be parsed
    Json,           \* the steps with output_format json
    Concurrency,
    OnErrors,       \* the error policies: "halt", "continue"
    CanCancel       \* the context may end

InSeq(q) == {q[i] : i \in DOMAIN q}
GroupSteps == UNION {InSeq(Groups[g]) : g \in DOMAIN Groups}
Steps == InSeq(Main) \cup GroupSteps \cup InSeq(Finals)

\* What waits for what: a main step, a group or a finally step each, and the one a step is in.
Stages ==
    [i \in DOMAIN Main |-> {Main[i]}] \o [g \in DOMAIN Groups |-> InSeq(Groups[g])]
        \o [i \in DOMAIN Finals |-> {Finals[i]}]
Stage(s) == CHOOSE i \in DOMAIN Stages : s \in Stages[i]

\* A step is a place in the definition, in one stage and there once.
ASSUME PipelineAssumption ==
    /\ Main \in Seq(Steps) /\ Groups \in Seq(Seq(Steps)) /\ Finals \in Seq(Steps)
    /\ \A i, j \in DOMAIN Stages : i # j => Stages[i] \cap Stages[j] = {}
    /\ \A g \in DOMAIN Groups : \A i, j \in DOMAIN Groups[g] : i # j => Groups[g][i] # Groups[g][j]
    /\ Allow \subseteq Steps /\ Json \subseteq Steps
    /\ Iterated \subseteq Steps /\ Malformed \subseteq Iterated
    /\ When \in [Steps -> {"none", "yes", "no"}]
    /\ Retries \in [Steps -> Nat] /\ Iters \in [Steps -> Nat]
    /\ Concurrency \in Nat \ {0}
    /\ OnErrors \subseteq {"halt", "continue"}

VARIABLES
    part,       \* "main", "groups", "finally" or "done"
    at,         \* the index of the main step, group or finally step reached
    begun,      \* how many steps of the group have been handed to the errgroup
    active,     \* the steps executeStep is working on
    tries,      \* tries[s]: attempts of a single step, or iterations handed out
    commands,   \* the commands that run, as <<step, try>>
    bad,        \* the steps one of whose iterations, or whose last attempt, failed
    ended,      \* ended[s]: the status executeStep has returned, or ""
    stepResults, \* PipelineResult.Steps without the finally steps
    status,     \* PipelineResult.Status
    ctxDone,
    onError,    \* the error policy of the pipeline
    ran         \* history: how many commands of each step were started

vars == <<part, at, begun, active, tries, commands, bad, ended, stepResults, status, ctxDone, onError, ran>>

Init ==
    /\ part = "main"
    /\ at = 1
    /\ begun = 0
    /\ active = {}
    /\ tries = [s \in Steps |-> 0]
    /\ commands = {}
    /\ bad = {}
    /\ ended = [s \in Steps |-> ""]
    /\ stepResults = <<>>
    /\ status = ""
    /\ ctxDone = FALSE
    /\ onError \in OnErrors
    /\ ran = [s \in Steps |-> 0]

Result(s, how) == [step |-> s, status |-> how]
MayFail(s) == s \in Allow \/ onError = "continue"
Failed(q) == {q[i].step : i \in {j \in DOMAIN q : q[j].status = "error"}}

-----------------------------------------------------------------------------
(* executeStep: executeSingle and executeIterated                          *)

Tries(s) == IF s \in Malformed THEN 0 ELSE IF s \in Iterated THEN Iters[s] ELSE Retries[s] + 1
Parallelism(s) == IF s \in Iterated THEN Concurrency ELSE 1
RunningOf(s) == {c \in commands : c[1] = s}

\* Faulty: a failing command is retried until it succeeds.
HasNextForever(s) ==
    /\ s \in active
    /\ Cardinality(RunningOf(s)) < Parallelism(s)
    /\ IF s \in Iterated THEN tries[s] < Tries(s) ELSE tries[s] = 0 \/ s \in bad

\* A single step tries again only after a failure; iterations all get their turn.
HasNext(s) ==
    /\ s \in active
    /\ tries[s] < Tries(s)
    /\ Cardinality(RunningOf(s)) < Parallelism(s)
    /\ s \notin Iterated => tries[s] = 0 \/ s \in bad

StartCommand(s) ==
    /\ HasNext(s)
    /\ ~ctxDone
    /\ tries' = [tries EXCEPT ![s] = @ + 1]
    /\ commands' = commands \cup {<<s, tries[s] + 1>>}
    /\ bad' = IF s \in Iterated THEN bad ELSE bad \ {s}
    /\ ran' = [ran EXCEPT ![s] = @ + 1]
    /\ UNCHANGED <<part, at, begun, active, ended, stepResults, status, ctxDone, onError>>

\* Faulty: a command that could not start does not count as an attempt.
StartRefusedUncounted(s) ==
    /\ HasNext(s)
    /\ ctxDone
    /\ bad' = bad \cup {s}
    /\ UNCHANGED <<part, at, begun, active, tries, commands, ended, stepResults, status, ctxDone, ran, onError>>

\* exec refuses to start a command under an ended context; the retry delay is slept through.
StartRefused(s) ==
    /\ HasNext(s)
    /\ ctxDone
    /\ tries' = [tries EXCEPT ![s] = @ + 1]
    /\ bad' = bad \cup {s}
    /\ UNCHANGED <<part, at, begun, active, commands, ended, stepResults, status, ctxDone, ran, onError>>

\* A command may have done its work just before the ended context would have killed it.
EndCommand(c, good) ==
    /\ c \in commands
    /\ commands' = commands \ {c}
    /\ bad' = IF good THEN bad ELSE bad \cup {c[1]}
    /\ UNCHANGED <<part, at, begun, active, tries, ended, stepResults, status, ctxDone, ran, onError>>

\* executeStep returns.  Output that should be JSON and is not is an error without a retry.
Return(s, how) ==
    /\ s \in active
    /\ RunningOf(s) = {}
    /\ tries[s] = Tries(s) \/ (s \notin Iterated /\ tries[s] > 0 /\ s \notin bad)
    /\ how = "ok" => s \notin bad \cup Malformed
    /\ how = "error" => s \in bad \cup Malformed \cup Json
    /\ active' = active \ {s}
    /\ ended' = [ended EXCEPT ![s] = how]

-----------------------------------------------------------------------------
(* Run                                                                     *)

Begin(s) ==
    /\ active' = active \cup {s}
    /\ UNCHANGED <<part, at, tries, commands, bad, ended, stepResults, status, ctxDone, ran, onError>>

MainStep == part = "main" /\ at <= Len(Main)
Idle(s) == s \notin active /\ ended[s] = ""

\* The when predicate fails, or cannot be run because the context has ended.
Skip ==
    /\ MainStep
    /\ Idle(Main[at])
    /\ When[Main[at]] = "no" \/ (When[Main[at]] = "yes" /\ ctxDone)
    /\ stepResults' = Append(stepResults, Result(Main[at], "skipped"))
    /\ at' = at + 1
    /\ UNCHANGED <<part, begun, active, tries, commands, bad, ended, status, ctxDone, ran, onError>>

BeginMain ==
    /\ MainStep
    /\ Idle(Main[at])
    /\ When[Main[at]] = "none" \/ (When[Main[at]] = "yes" /\ ~ctxDone)
    /\ Begin(Main[at])
    /\ UNCHANGED begun

\* A failure that is not allowed ends the main steps; the groups come next all the same.
ReturnMain(how) ==
    /\ MainStep
    /\ Return(Main[at], how)
    /\ stepResults' = Append(stepResults, Result(Main[at], how))
    /\ IF how = "error" /\ ~MayFail(Main[at])
       THEN status' = "error" /\ part' = "groups" /\ at' = 1
       ELSE at' = at + 1 /\ UNCHANGED <<part, status>>
    /\ UNCHANGED <<begun, tries, commands, bad, ctxDone, ran, onError>>

LeaveMain ==
    /\ part = "main"
    /\ at > Len(Main)
    /\ part' = "groups"
    /\ at' = 1
    /\ UNCHANGED <<begun, active, tries, commands, bad, ended, stepResults, status, ctxDone, ran, onError>>

\* errgroup.Go in the order of the group, at most Concurrency steps at a time.
BeginInGroup ==
    /\ part = "groups"
    /\ at <= Len(Groups)
    /\ begun < Len(Groups[at])
    /\ Cardinality(active) < Concurrency
    /\ begun' = begun + 1
    /\ Begin(Groups[at][begun + 1])

ReturnInGroup(s, how) ==
    /\ part = "groups"
    /\ Return(s, how)
    /\ UNCHANGED <<part, at, begun, tries, commands, bad, stepResults, status, ctxDone, ran, onError>>

GroupResults(g) == [i \in DOMAIN g |-> Result(g[i], ended[g[i]])]

\* Faulty: the next group does not wait for this one.
LeaveGroupEarly ==
    /\ part = "groups"
    /\ at <= Len(Groups)
    /\ begun = Len(Groups[at])
    /\ stepResults' = stepResults \o GroupResults(Groups[at])
    /\ begun' = 0
    /\ at' = at + 1
    /\ UNCHANGED <<part, active, tries, commands, bad, ended, status, ctxDone, ran, onError>>

\* Wait returns.  A failure that is not allowed keeps the later groups from commands.
LeaveGroup ==
    /\ part = "groups"
    /\ at <= Len(Groups)
    /\ \A s \in InSeq(Groups[at]) : ended[s] # ""
    /\ stepResults' = stepResults \o GroupResults(Groups[at])
    /\ begun' = 0
    /\ IF \E s \in InSeq(Groups[at]) : ended[s] = "error" /\ ~MayFail(s)
       THEN status' = "error" /\ part' = "finally" /\ at' = 1
       ELSE at' = at + 1 /\ UNCHANGED <<part, status>>
    /\ UNCHANGED <<active, tries, commands, bad, ended, ctxDone, ran, onError>>

LeaveGroups ==
    /\ part = "groups"
    /\ at > Len(Groups)
    /\ part' = "finally"
    /\ at' = 1
    /\ UNCHANGED <<begun, active, tries, commands, bad, ended, stepResults, status, ctxDone, ran, onError>>

\* Their predicates are not evaluated.
BeginFinally ==
    /\ part = "finally"
    /\ at <= Len(Finals)
    /\ Idle(Finals[at])
    /\ Begin(Finals[at])
    /\ UNCHANGED begun

\* A failure only shows in the message.
ReturnFinally(how) ==
    /\ part = "finally"
    /\ at <= Len(Finals)
    /\ Return(Finals[at], how)
    /\ at' = at + 1
    /\ UNCHANGED <<part, begun, tries, commands, bad, stepResults, status, ctxDone, ran, onError>>

Finish ==
    /\ part = "finally"
    /\ at > Len(Finals)
    /\ part' = "done"
    /\ status' = IF status # "" THEN status ELSE IF Failed(stepResults) # {} THEN "partial" ELSE "ok"
    /\ UNCHANGED <<at, begun, active, tries, commands, bad, ended, stepResults, ctxDone, ran, onError>>

ContextEnds ==
    /\ CanCancel
    /\ part # "done"
    /\ ~ctxDone
    /\ ctxDone' = TRUE
    /\ UNCHANGED <<part, at, begun, active, tries, commands, bad, ended, stepResults, status, ran, onError>>

Step ==
    \/ Skip \/ BeginMain \/ LeaveMain \/ BeginInGroup \/ LeaveGroup \/ LeaveGroups
    \/ BeginFinally \/ Finish
    \/ \E s \in Steps : StartCommand(s) \/ StartRefused(s)
    \/ \E c \in commands, good \in BOOLEAN : EndCommand(c, good)
    \/ \E how \in {"ok", "error"} :
         ReturnMain(how) \/ ReturnFinally(how) \/ \E s \in GroupSteps : ReturnInGroup(s, how)

Next == Step \/ ContextEnds

Spec == Init /\ [][Next]_vars

\* Run goes on when it can, and every command ends: by itself, or by its timeout, which kills
\* the shell only. A process the shell leaves behind with the pipe of its output may keep Wait
\* from returning (shell.go:34-38 sets no WaitDelay); that none does is assumed here.
FairSpec == Spec /\ WF_vars(Step)
-----------------------------------------------------------------------------
(* What a run promises                                                     *)

\* The variables have their types; no command runs beyond the retries or iterations.
TypeOK ==
    /\ part \in {"main", "groups", "finally", "done"}
    /\ at \in Nat /\ begun \in Nat
    /\ active \subseteq Steps /\ bad \subseteq Steps
    /\ tries \in [Steps -> Nat] /\ ran \in [Steps -> Nat]
    /\ \A c \in commands : c[1] \in Steps /\ c[2] \in 1 .. Tries(c[1])
    /\ ended \in [Steps -> {"", "ok", "error"}]
    /\ \A i \in DOMAIN stepResults :
         stepResults[i].step \in Steps \ InSeq(Finals) /\ stepResults[i].status \in {"ok", "error", "skipped"}
    /\ status \in {"", "ok", "partial", "error"}
    /\ ctxDone \in BOOLEAN

\* The barriers hold: while a command runs, nothing of an earlier stage is unfinished
\* and nothing of a later one has begun, however steps, retries and iterations overlap.
StagesInOrder ==
    \A c \in commands, s \in Steps :
        /\ Stage(s) < Stage(c[1]) => s \notin active
        /\ Stage(s) > Stage(c[1]) => s \notin active /\ ran[s] = 0

\* Both errgroup limits hold: the steps at work, and the iterations of each step.
WithinConcurrency ==
    /\ Cardinality(active) <= Concurrency
    /\ \A s \in Steps : Cardinality(RunningOf(s)) <= Parallelism(s)

\* The status of the run tells what became of its steps (finally steps aside): error when
\* a failure was not allowed, partial when every failure was, ok when there was none.
StatusTells ==
    part = "done" =>
        LET failed == {s \in Steps \ InSeq(Finals) : ended[s] = "error"}
        IN  status = IF \E s \in failed : ~MayFail(s) THEN "error"
                     ELSE IF failed # {} THEN "partial" ELSE "ok"

\* The report has one entry for every step that ran, with the status it ended with, in
\* the order of the definition, although the steps of a group end in any order.
ReportIsComplete ==
    part = "done" =>
        /\ \A s \in Steps \ InSeq(Finals) :
             ended[s] # "" => \E i \in DOMAIN stepResults : stepResults[i] = Result(s, ended[s])
        /\ \A i, j \in DOMAIN stepResults : i < j =>
             /\ stepResults[i].step # stepResults[j].step
             /\ Stage(stepResults[i].step) <= Stage(stepResults[j].step)

\* A step without iterations fails for its command only when every retry was used.
FailsAfterRetries ==
    \A s \in Steps \ (Iterated \cup Json) :
        ended[s] = "error" /\ ~ctxDone => ran[s] = Retries[s] + 1

\* As long as the context lives, a run that is over has run its finally steps, whatever
\* failed before them or among them.
FinallyAttempted ==
    part = "done" /\ ~ctxDone => \A s \in InSeq(Finals) : Tries(s) > 0 => ran[s] > 0

\* Stages, limits, retries and finally steps are kept to, and the report says what happened, however
\* the steps of a group, their retries and their iterations overlap (pipeline/execute.go:19, step.go:48).
RunsAreReported ==
    StagesInOrder /\ WithinConcurrency /\ StatusTells /\ ReportIsComplete /\ FailsAfterRetries
        /\ FinallyAttempted

\* Every run ends: no barrier, limit or retry can keep it.
Terminates == <>(part = "done")
=============================================================================
