------------------------------ MODULE CronViews ------------------------------
(***************************************************************************)
(* What the cron extension computes (cron/schedules.go, cron.go,           *)
(* helpers.go, tools.go, executor.go): the schedule a specification stands *)
(* for, when it is due and what is shown as its next run, the summaries of *)
(* the tasks, the history that is shown, and the outcome of a task.        *)
(* Time is counted in ticks from a midnight at the start of a week.        *)
(***************************************************************************)
EXTENDS Integers, Sequences, FiniteSets, SequencesExt

CONSTANTS
    Day, Week,    \* ticks of a day, days of a week
    Unset, Bad    \* a field that is not given; text that cannot be parsed

ASSUME CronViewsAssumption == Day \in Nat \ {0} /\ Week \in Nat \ {0}

NeverRan == -1

\* ParseSchedule: the first field that is given decides, whatever the others say; an
\* interval has at least one tick.
ParseSchedule(spec) ==
    IF spec.every # Unset
    THEN IF spec.every = Bad \/ spec.every < 1 THEN Bad
         ELSE [kind |-> "interval", every |-> spec.every]
    ELSE IF spec.dailyAt # Unset
    THEN IF spec.dailyAt = Bad \/ spec.dailyAt \notin 0 .. Day - 1 THEN Bad
         ELSE [kind |-> "daily", at |-> spec.dailyAt]
    ELSE IF spec.weekly # Unset
    THEN IF spec.weekly = Bad \/ spec.weekly.at \notin 0 .. Day - 1 THEN Bad
         ELSE [kind |-> "weekly", weekday |-> spec.weekly.weekday, at |-> spec.weekly.at]
    ELSE Bad

\* The target of the day, for a weekly task that of the coming weekday.
TargetAt(s, t) ==
    IF s.kind = "daily" THEN (t \div Day) * Day + s.at
    ELSE (t \div Day + ((s.weekday - t \div Day) % Week)) * Day + s.at

PeriodOf(s) == IF s.kind = "interval" THEN s.every ELSE IF s.kind = "daily" THEN Day ELSE Week * Day

\* ShouldRun: after the target of the day, or when more than a period has passed.
DueAt(s, last, t) ==
    IF s.kind = "interval" THEN last = NeverRan \/ t - last >= s.every
    ELSE \/ last # NeverRan /\ t - last > PeriodOf(s)
         \/ t >= TargetAt(s, t) /\ last < TargetAt(s, t)

NextAfter(s, from) ==
    IF s.kind = "interval" THEN from + s.every
    ELSE IF from >= TargetAt(s, from) THEN TargetAt(s, from) + PeriodOf(s) ELSE TargetAt(s, from)

-----------------------------------------------------------------------------
(* The history and the summaries                                           *)

LastSuccess(h, name) ==
    LET ok == {i \in DOMAIN h : h[i].task = name /\ h[i].ok} IN
    IF ok = {} THEN NeverRan ELSE h[CHOOSE i \in ok : \A j \in ok : j <= i].at

\* ListTasks leaves out what does not parse; a task that never ran is shown as next now and
\* never as overdue; a disabled one may be shown as overdue.
StatusSummary(task, last, t) ==
    LET s == ParseSchedule(task.schedule) IN
    [enabled |-> task.enabled, last |-> last,
     next |-> IF last = NeverRan THEN t ELSE NextAfter(s, last),
     overdue |-> last # NeverRan /\ DueAt(s, last, t)]

ListTasks(tasks, h, t) ==
    [name \in {n \in DOMAIN tasks : ParseSchedule(tasks[n].schedule) # Bad} |->
        StatusSummary(tasks[name], LastSuccess(h, name), t)]

\* countTasks, for the status and the status line; "OVERDUE" hides "disabled".
Counts(summaries) ==
    [enabled |-> Cardinality({n \in DOMAIN summaries : summaries[n].enabled}),
     overdue |-> Cardinality({n \in DOMAIN summaries : summaries[n].overdue})]

\* cron_status counts what the file holds, whether it parses or not.
StatusCounts(tasks) ==
    [total |-> Cardinality(DOMAIN tasks),
     enabled |-> Cardinality({n \in DOMAIN tasks : tasks[n].enabled})]

Word(summary) == IF summary.overdue THEN "OVERDUE" ELSE IF summary.enabled THEN "enabled" ELSE "disabled"

FilterHistory(h, name) ==
    LET mine[k \in 0 .. Len(h)] ==
            IF k = 0 THEN <<>> ELSE IF h[k].task = name THEN Append(mine[k - 1], h[k]) ELSE mine[k - 1] IN
    IF name = Unset THEN h ELSE mine[Len(h)]

\* cron_history and /cron history: the last entries of the task.
ShownHistory(h, name, limit) ==
    LET mine == FilterHistory(h, name) IN
    IF Len(mine) > limit THEN SubSeq(mine, Len(mine) - limit + 1, Len(mine)) ELSE mine

-----------------------------------------------------------------------------
(* Execute: what a task comes to in a world that answers                   *)

Needs(action) == CASE action = "shell" -> "command"
                   [] action = "prompt" -> "prompt"
                   [] action = "webhook" -> "url"
                   [] OTHER -> "nothing"

Timeout(task) == IF task.timeout \in {Unset, Bad} THEN 300 ELSE task.timeout

\* The timeout of the task ends a command, a webhook also ends after its own 30 seconds; a
\* status of 400 and above is a failure.
Execute(task, world) ==
    [ok |-> /\ task.action \in {"shell", "prompt", "webhook"}
            /\ Needs(task.action) \in task.given
            /\ world.lasts < Timeout(task)
            /\ IF task.action = "webhook" THEN world.lasts < 30 /\ world.code < 400
                                          ELSE world.code = 0]

-----------------------------------------------------------------------------
(* What holds                                                              *)

Occurrences(s, until) ==
    {t \in 0 .. until : t % Day = s.at /\ (s.kind = "weekly" => (t \div Day) % Week = s.weekday)}

\* The next run that is shown is the first time of the schedule after the last run; an overdue
\* task has such a time behind it; and one that was missed is caught up, at the latest when a
\* whole period has passed (cron/schedules.go, cron.go ListTasks).
SchedulesKeepTime(s, last, t) ==
    (s # Bad /\ last <= t) =>
        /\ last # NeverRan =>
            /\ s.kind # "interval" => LET later == {u \in Occurrences(s, last + Week * Day) : u > last} IN
                NextAfter(s, last) \in later /\ \A u \in later : NextAfter(s, last) <= u
            /\ DueAt(s, last, t) => NextAfter(s, last) <= t
            /\ t - NextAfter(s, last) >= PeriodOf(s) => DueAt(s, last, t)
            /\ s.kind = "interval" => (DueAt(s, last, t) <=> NextAfter(s, last) <= t)
        /\ (last = NeverRan /\ s.kind # "interval") =>
            (DueAt(s, last, t) <=> \E u \in Occurrences(s, t) : u \div Day = t \div Day)

\* The history that is shown is the end of what there is of the task, in order, as much of it
\* as the limit allows; the last run that is shown with a task is the newest success in it
\* (cron/tools.go formatHistory, history.go LastRun).
ViewsAreFaithful(h, name, limit) ==
    LET shown == ShownHistory(h, name, limit)
        mine == {i \in DOMAIN h : name \in {Unset, h[i].task}} IN
    /\ Len(shown) = IF Cardinality(mine) < limit THEN Cardinality(mine) ELSE limit
    /\ \A i \in DOMAIN shown : \E j \in mine :
        shown[i] = h[j] /\ Cardinality({k \in mine : k >= j}) = Len(shown) - i + 1
    /\ name # Unset => \A i \in DOMAIN shown : shown[i].ok => shown[i].at <= LastSuccess(h, name)
    /\ name # Unset /\ LastSuccess(h, name) # NeverRan =>
        \E i \in mine : h[i].ok /\ h[i].at = LastSuccess(h, name)

\* A task is listed exactly if its schedule parses, never as overdue before it has run once, and
\* what the status line counts is what the list shows (cron/helpers.go countTasks).
ListIsFaithful(tasks, h, t) ==
    LET list == ListTasks(tasks, h, t) IN
    /\ Counts(list).enabled <= StatusCounts(tasks).enabled
    /\ Counts(list).overdue = Cardinality({n \in DOMAIN list : Word(list[n]) = "OVERDUE"})
    /\ \A n \in DOMAIN list : list[n].overdue => \E i \in DOMAIN h : h[i].task = n /\ h[i].ok
    /\ \A n \in DOMAIN list : list[n].next > t => ~list[n].overdue
=============================================================================
