-------------------------------- MODULE Cron --------------------------------
(***************************************************************************)
(* piglet-cron (cmd/piglet-cron/main.go, cron/lock.go, cron.go, history.go, *)
(* schedules.go, executor.go): short-lived instances started by launchd and *)
(* by "/cron test", kept apart by a lock file.  An instance reads the       *)
(* history of successful runs, runs what is due, appends the outcomes and   *)
(* trims the history.                                                      *)
(*                                                                         *)
(* Time is counted in ticks from a midnight at the start of a week.        *)
(***************************************************************************)
EXTENDS Integers, Sequences, FiniteSets

CONSTANTS
    Tasks,         \* the enabled tasks, with schedules that parse
    Procs,         \* the instances that can exist at a time
    Agent,         \* the one launchd starts, again and again
    Schedules,     \* Schedules[t]: the schedules t may have
    Day,           \* ticks of a day
    Week,          \* days of a week
    MaxLines,      \* maxHistoryLines
    MaxNow,        \* bound: the clock stops there
    MaxForced,     \* bound: how many instances "/cron test" starts
    MaxMishaps     \* bound: how many instances are killed and appends fail

Interval == [kind : {"interval"}, every : Nat \ {0}]
Daily == [kind : {"daily"}, at : 0 .. Day - 1]
Weekly == [kind : {"weekly"}, weekday : 0 .. Week - 1, at : 0 .. Day - 1]

ASSUME CronAssumption ==
    /\ Agent \in Procs /\ IsFiniteSet(Procs)
    /\ Day \in Nat \ {0} /\ Week \in Nat \ {0} /\ MaxLines \in Nat \ {0}
    /\ {MaxNow, MaxForced, MaxMishaps} \subseteq Nat
    /\ Schedules \in [Tasks -> SUBSET (Interval \cup Daily \cup Weekly)]

Never == -1     \* the zero time
NoFile == 0
Inodes == 1 .. Cardinality(Procs) + 1

VARIABLES
    now,
    sched,     \* sched[t]: schedules.yaml
    history,   \* cron-history.jsonl: [task, at, ok]
    lockFile,  \* the inode at lockPath, or NoFile
    fd,        \* fd[p]: the inode the instance has open
    locked,    \* the instances that hold the flock of their inode
    pc,        \* "out", "opened", "inside", "run", "record", "rotate", "rename", "unlock", "unlink"
    todo,      \* todo[p]: the tasks executeTasks has yet to finish
    collected, \* collected[p]: the outcomes not yet recorded, [task, ok]
    appendErr, \* the instances an append of which failed
    keep,      \* keep[p]: what RotateHistory is about to write
    forced, mishaps, \* how many there have been
    lastOk,    \* history: when a task last succeeded
    cause,     \* history: why no record of that is left: "none", "rotated" or "lost"
    stolen,    \* history: a lock file was unlinked while another instance had it locked
    overlap    \* history: two instances were past the lock at a time

lock == <<lockFile, fd, locked>>
work == <<todo, collected, appendErr, keep>>
ghosts == <<lastOk, cause, stolen, overlap>>
budget == <<forced, mishaps>>
vars == <<now, sched, history, lock, pc, work, budget, ghosts>>

Init ==
    /\ now = 0
    /\ sched \in {f \in [Tasks -> UNION {Schedules[t] : t \in Tasks}] :
                    \A t \in Tasks : f[t] \in Schedules[t]}
    /\ history = <<>>
    /\ lockFile = NoFile
    /\ fd = [p \in Procs |-> NoFile]
    /\ locked = {}
    /\ pc = [p \in Procs |-> "out"]
    /\ todo = [p \in Procs |-> {}]
    /\ collected = [p \in Procs |-> {}]
    /\ appendErr = {}
    /\ keep = [p \in Procs |-> <<>>]
    /\ forced = 0 /\ mishaps = 0
    /\ lastOk = [t \in Tasks |-> Never]
    /\ cause = [t \in Tasks |-> "none"]
    /\ stolen = FALSE
    /\ overlap = FALSE

-----------------------------------------------------------------------------
(* Schedules and the history                                               *)

Midnight == (now \div Day) * Day

\* The target of today, for a weekly task that of the coming weekday.
Target(s) == IF s.kind = "daily"
             THEN Midnight + s.at
             ELSE Midnight + ((s.weekday - now \div Day) % Week) * Day + s.at

Period(s) == IF s.kind = "daily" THEN Day ELSE Week * Day

ShouldRun(s, last) ==
    IF s.kind = "interval"
    THEN last = Never \/ now - last >= s.every
    ELSE \/ last # Never /\ now - last > Period(s)
         \/ now >= Target(s) /\ last < Target(s)

Successes(h, t) == {i \in DOMAIN h : h[i].task = t /\ h[i].ok}

LastRun(h, t) ==
    IF Successes(h, t) = {} THEN Never
    ELSE h[CHOOSE i \in Successes(h, t) : \A j \in Successes(h, t) : j <= i].at

Due(t) == ShouldRun(sched[t], LastRun(history, t))

-----------------------------------------------------------------------------
(* The clock, and the lock                                                 *)

Tick ==
    /\ now < MaxNow
    /\ now' = now + 1
    /\ UNCHANGED <<sched, history, lock, pc, work, budget, ghosts>>

\* launchd runs one instance at a time; the others are forced.
Start(p) ==
    /\ pc[p] = "out"
    /\ IF p = Agent THEN UNCHANGED forced ELSE forced < MaxForced /\ forced' = forced + 1

\* Faulty: a lock file that exists counts as held.
OpenExclusive(p) ==
    /\ Start(p)
    /\ lockFile = NoFile
    /\ \E i \in Inodes :
        /\ \A q \in Procs : fd[q] # i
        /\ lockFile' = i
        /\ fd' = [fd EXCEPT ![p] = i]
    /\ pc' = [pc EXCEPT ![p] = "opened"]
    /\ UNCHANGED <<now, sched, history, locked, work, mishaps, ghosts>>

\* Acquire opens the file at lockPath or creates one.
Open(p) ==
    /\ Start(p)
    /\ \/ lockFile # NoFile /\ UNCHANGED lockFile
       \/ /\ lockFile = NoFile
          /\ lockFile' = CHOOSE i \in Inodes : \A q \in Procs : fd[q] # i
    /\ fd' = [fd EXCEPT ![p] = lockFile']
    /\ pc' = [pc EXCEPT ![p] = "opened"]
    /\ UNCHANGED <<now, sched, history, locked, work, mishaps, ghosts>>

\* Faulty: the lock is shared.
LockShared(p) ==
    /\ pc[p] = "opened"
    /\ locked' = locked \cup {p}
    /\ pc' = [pc EXCEPT ![p] = "inside"]
    /\ overlap' = (overlap \/ locked # {})
    /\ UNCHANGED <<now, sched, history, lockFile, fd, work, budget, lastOk, cause, stolen>>

\* ... and takes its flock, if nobody has the one of this very inode.
Lock(p) ==
    /\ pc[p] = "opened"
    /\ \A q \in locked : fd[q] # fd[p]
    /\ locked' = locked \cup {p}
    /\ pc' = [pc EXCEPT ![p] = "inside"]
    /\ overlap' = (overlap \/ locked # {})
    /\ UNCHANGED <<now, sched, history, lockFile, fd, work, budget, lastOk, cause, stolen>>

\* The process is gone: its descriptor is closed, what it knew is forgotten.
Gone(p) ==
    /\ fd' = [fd EXCEPT ![p] = NoFile]
    /\ locked' = locked \ {p}
    /\ pc' = [pc EXCEPT ![p] = "out"]
    /\ todo' = [todo EXCEPT ![p] = {}]
    /\ collected' = [collected EXCEPT ![p] = {}]
    /\ appendErr' = appendErr \ {p}
    /\ keep' = [keep EXCEPT ![p] = <<>>]
    /\ UNCHANGED lockFile

\* "piglet-cron already running": exit code 0.
Refused(p) ==
    /\ pc[p] = "opened"
    /\ \E q \in locked : fd[q] = fd[p]
    /\ Gone(p)
    /\ UNCHANGED <<now, sched, history, budget, ghosts>>

\* Killed, or the machine goes down.
Kill(p) ==
    /\ pc[p] # "out"
    /\ mishaps < MaxMishaps
    /\ mishaps' = mishaps + 1
    /\ Gone(p)
    /\ cause' = [t \in Tasks |-> IF [task |-> t, ok |-> TRUE] \in collected[p]
                                  THEN "lost" ELSE cause[t]]
    /\ UNCHANGED <<now, sched, history, forced, lastOk, stolen, overlap>>

-----------------------------------------------------------------------------
(* Run                                                                     *)

\* LoadConfig, ReadHistory, collectDueTasks; "--task" forces the one it names.
Collect(p) ==
    /\ pc[p] = "inside"
    /\ \E due \in IF p = Agent THEN {{t \in Tasks : Due(t)}} ELSE {{t} : t \in Tasks} :
        /\ todo' = [todo EXCEPT ![p] = due]
        /\ pc' = [pc EXCEPT ![p] = IF due = {} THEN "unlock" ELSE "run"]
    /\ UNCHANGED <<now, sched, history, lock, collected, appendErr, keep, budget, ghosts>>

\* A task of executeTasks ends: its outcome waits for the others.
Execute(p, t) ==
    /\ pc[p] = "run"
    /\ t \in todo[p]
    /\ todo' = [todo EXCEPT ![p] = @ \ {t}]
    /\ \E ok \in BOOLEAN :
        /\ collected' = [collected EXCEPT ![p] = @ \cup {[task |-> t, ok |-> ok]}]
        /\ lastOk' = IF ok THEN [lastOk EXCEPT ![t] = now] ELSE lastOk
        /\ cause' = IF ok THEN [cause EXCEPT ![t] = "none"] ELSE cause
    /\ pc' = [pc EXCEPT ![p] = IF todo[p] = {t} THEN "record" ELSE "run"]
    /\ UNCHANGED <<now, sched, history, lock, appendErr, keep, budget, stolen, overlap>>

\* Faulty: an outcome is kept only if the task failed.
RecordFailures(p) ==
    /\ pc[p] = "record"
    /\ \E r \in collected[p] :
        /\ collected' = [collected EXCEPT ![p] = @ \ {r}]
        /\ history' = IF r.ok THEN history
                      ELSE Append(history, [task |-> r.task, at |-> now, ok |-> r.ok])
        /\ pc' = [pc EXCEPT ![p] = IF collected[p] = {r} THEN "rotate" ELSE "record"]
    /\ UNCHANGED <<now, sched, lock, todo, appendErr, keep, budget, ghosts>>

\* recordResults: RanAt is the time of the append.
Record(p) ==
    /\ pc[p] = "record"
    /\ \E r \in collected[p] :
        /\ collected' = [collected EXCEPT ![p] = @ \ {r}]
        /\ pc' = [pc EXCEPT ![p] = IF collected[p] = {r} THEN "rotate" ELSE "record"]
        /\ \/ /\ history' = Append(history, [task |-> r.task, at |-> now, ok |-> r.ok])
              /\ UNCHANGED <<appendErr, cause, mishaps>>
           \/ /\ mishaps < MaxMishaps
              /\ mishaps' = mishaps + 1
              /\ appendErr' = appendErr \cup {p}
              /\ cause' = IF r.ok THEN [cause EXCEPT ![r.task] = "lost"] ELSE cause
              /\ UNCHANGED history
    /\ UNCHANGED <<now, sched, lock, todo, keep, forced, lastOk, stolen, overlap>>

\* Faulty: off by one.
RotateOffByOne(p) ==
    /\ pc[p] = "rotate"
    /\ IF Len(history) <= MaxLines
       THEN /\ pc' = [pc EXCEPT ![p] = "unlock"]
            /\ UNCHANGED keep
       ELSE /\ pc' = [pc EXCEPT ![p] = "rename"]
            /\ keep' = [keep EXCEPT ![p] = SubSeq(history, Len(history) - MaxLines, Len(history))]
    /\ UNCHANGED <<now, sched, history, lock, todo, collected, appendErr, budget, ghosts>>

\* RotateHistory reads the file and, when it is too long, prepares the new one ...
Rotate(p) ==
    /\ pc[p] = "rotate"
    /\ IF Len(history) <= MaxLines
       THEN /\ pc' = [pc EXCEPT ![p] = "unlock"]
            /\ UNCHANGED keep
       ELSE /\ pc' = [pc EXCEPT ![p] = "rename"]
            /\ keep' = [keep EXCEPT ![p] =
                            SubSeq(history, Len(history) - MaxLines + 1, Len(history))]
    /\ UNCHANGED <<now, sched, history, lock, todo, collected, appendErr, budget, ghosts>>

\* ... and renames it into place.
Rename(p) ==
    /\ pc[p] = "rename"
    /\ history' = keep[p]
    /\ keep' = [keep EXCEPT ![p] = <<>>]
    /\ cause' = [t \in Tasks |->
                    IF LastRun(keep[p], t) # LastRun(history, t) THEN "rotated" ELSE cause[t]]
    /\ pc' = [pc EXCEPT ![p] = "unlock"]
    /\ UNCHANGED <<now, sched, lock, todo, collected, appendErr, budget, lastOk, stolen, overlap>>

\* main returns through the deferred Release: unlock and close ...
Unlock(p) ==
    /\ pc[p] = "unlock"
    /\ p \notin appendErr
    /\ locked' = locked \ {p}
    /\ fd' = [fd EXCEPT ![p] = NoFile]
    /\ pc' = [pc EXCEPT ![p] = "unlink"]
    /\ UNCHANGED <<now, sched, history, lockFile, work, budget, ghosts>>

\* ... then remove the file, whoever has it locked by now.
Unlink(p) ==
    /\ pc[p] = "unlink"
    /\ stolen' = (stolen \/ \E q \in Procs : fd[q] # NoFile /\ fd[q] = lockFile)
    /\ lockFile' = NoFile
    /\ pc' = [pc EXCEPT ![p] = "out"]
    /\ UNCHANGED <<now, sched, history, fd, locked, work, budget, lastOk, cause, overlap>>

\* main leaves through os.Exit(1), which runs no deferred call: the file stays.
ExitWithError(p) ==
    /\ pc[p] = "unlock"
    /\ p \in appendErr
    /\ Gone(p)
    /\ UNCHANGED <<now, sched, history, budget, ghosts>>

Step(p) ==
    \/ Lock(p) \/ Refused(p) \/ Collect(p)
    \/ \E t \in Tasks : Execute(p, t)
    \/ Record(p) \/ Rotate(p) \/ Rename(p)
    \/ Unlock(p) \/ Unlink(p) \/ ExitWithError(p)

Next ==
    \/ Tick
    \/ \E p \in Procs : Open(p) \/ Step(p) \/ Kill(p)

Spec == Init /\ [][Next]_vars

\* launchd starts the agent every 60 seconds, and every task ends: by itself, or by its timeout,
\* which kills the shell only. That no process it leaves behind holds the pipe of its output any
\* longer (executor.go:66-78 sets no WaitDelay) is assumed here.
FairSpec == Spec /\ WF_vars(Open(Agent)) /\ \A p \in Procs : WF_vars(Step(p))

-----------------------------------------------------------------------------
Past(p) == pc[p] \in {"inside", "run", "record", "rotate", "rename", "unlock"}

TypeOK ==
    /\ now \in 0 .. MaxNow
    /\ \A t \in Tasks : sched[t] \in Schedules[t]
    /\ \A i \in DOMAIN history : history[i] \in [task : Tasks, at : 0 .. now, ok : BOOLEAN]
    /\ lockFile \in Inodes \cup {NoFile}
    /\ fd \in [Procs -> Inodes \cup {NoFile}]
    /\ locked = {p \in Procs : Past(p)}
    /\ \A p \in Procs : fd[p] = NoFile <=> pc[p] \in {"out", "unlink"}
    /\ \A p \in Procs : todo[p] # {} => pc[p] = "run"
    /\ \A p \in Procs : collected[p] # {} => pc[p] \in {"run", "record"}
    /\ \A p \in Procs : Len(keep[p]) = IF pc[p] = "rename" THEN MaxLines ELSE 0
    /\ \A t \in Tasks : lastOk[t] \in -1 .. now

\* Two instances work at a time only after a Release has unlinked the lock file another one
\* had open: no kill, exit without Release or restart breaks the lock (cron/lock.go).
ExclusiveUnlessUnlinked ==
    (\E p, q \in Procs : p # q /\ Past(p) /\ Past(q)) => stolen

Scheduled(t) ==
    /\ pc[Agent] = "inside" /\ pc'[Agent] = "run"
    /\ t \in todo'[Agent]

\* What the schedule says when it is asked about the runs there really have been: a run that
\* it would not start is started only if the record of the last success was lost with a
\* killed instance or a failed append, was rotated out, or two instances overlapped.
RepeatsOnlyIfForgotten ==
    [][\A t \in Tasks : Scheduled(t) =>
            ShouldRun(sched[t], lastOk[t]) \/ cause[t] # "none" \/ overlap]_vars

\* A task that is due is started, or stops being due: no killed, refused or failing instance
\* leaves the agent locked out.
DueTasksAreStarted ==
    \A t \in Tasks : Due(t) ~> (~Due(t) \/ \E p \in Procs : t \in todo[p])
=============================================================================
