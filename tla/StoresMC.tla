------------------------------ MODULE StoresMC ------------------------------
(* The extensions that keep something: the cache, plan.md, the search       *)
(* index, schedules.yaml, the conversation and what the handlers of a turn  *)
(* remember.  They share no state: in a behaviour one of them runs.         *)
EXTENDS CacheFiles, Plan, Recall, CronExtension, SessionEvents, Compaction, TLC

\* Turns without a result, with one and with two: files read and edited anew and again, a command
\* that failed, outputs that are cut and cleared.
Result(tool, file, failed, size) == [tool |-> tool, file |-> file, failed |-> failed, size |-> size]
SomeTurns ==
  LET f == CHOOSE p \in Paths : TRUE IN
  {<<>>, <<Result("Bash", NoPath, TRUE, 2)>>}
    \cup {<<Result("Edit", f, FALSE, 1), Result("Read", p, FALSE, 4)>> : p \in Paths \ {f}}
    \cup {<<Result("Read", f, FALSE, 3), Result("other", f, FALSE, 1)>>}

VARIABLE focus

storesvars == <<focus, cvars, pvars, rvars, cronvars, evars, mvars>>

StoresInit ==
  /\ focus \in {"cache", "plan", "recall", "cron", "session", "compaction"}
  /\ CacheInit /\ PlanInit /\ RecallInit /\ CronExtensionInit /\ SessionInit /\ CompactionInit
  \* Where one may start in several states, the others start in one.
  /\ focus # "cron" => schedules = Missing /\ flatFile = Missing

StoresNext ==
  /\ UNCHANGED focus
  /\ \/ focus = "cache" /\ CacheNext /\ UNCHANGED <<pvars, rvars, cronvars, evars, mvars>>
     \/ focus = "plan" /\ PlanNext /\ UNCHANGED <<cvars, rvars, cronvars, evars, mvars>>
     \/ focus = "recall" /\ RecallNext /\ UNCHANGED <<cvars, pvars, cronvars, evars, mvars>>
     \/ focus = "cron" /\ CronExtensionNext /\ UNCHANGED <<cvars, pvars, rvars, evars, mvars>>
     \/ focus = "session" /\ SessionNext /\ UNCHANGED <<cvars, pvars, rvars, cronvars, mvars>>
     \/ focus = "compaction" /\ CompactionNext /\ UNCHANGED <<cvars, pvars, rvars, cronvars, evars>>

\* Nothing tells apart the two who call and the processes of the search, nor its sessions or terms.
StoresSymmetry == Permutations(Processes) \cup Permutations(SessionIds) \cup Permutations(Terms)

StoresSpec == StoresInit /\ [][StoresNext]_storesvars

-----------------------------------------------------------------------------
\* The variables of every module keep their kinds.
StoresTypeOK ==
  CacheTypeOK /\ PlanTypeOK /\ RecallTypeOK /\ CronExtensionTypeOK /\ SessionTypeOK /\ CompactionTypeOK

\* What is kept in files is whole: an entry of the cache that is handed out and the one that a Set
\* left (cache/cache.go:41), the plan in plan.md and every copy of it (plan/store.go:30), the search
\* index of every process (recall/index.go:105), whatever calls of other processes come in between;
\* and the agent of launchd has its property list, unless launchctl failed to unload it or an install
\* overlapped an uninstall (cron/commands.go:252).
StoresAreWhole == HitsAreWhole /\ SetIsKept /\ PlanIsCoherent /\ IndexFindsItsDocuments /\ AgentHasItsPlist

\* What is kept is dropped only for what is newer: documents of the index (recall/index.go:163),
\* messages and the list of files through compactions (memory/register.go:170), messages also by a
\* clearer unless others changed the conversation while it ran (memory/clearer.go:69), and tasks
\* of schedules.yaml unless the file was changed under the call (cron/tools.go:184).
NothingElseIsDropped == NewestAreKept /\ NewestStay /\ FilesStayListed /\ OnlyStaleCallsDestroy
=============================================================================
