---------------------------- MODULE CronExtension ----------------------------
(***************************************************************************)
(* The tools and commands of the cron extension that change something      *)
(* (cron/tools.go, commands.go, config.go, internal/xdg/yaml.go): sessions *)
(* load schedules.yaml, change one task and save the whole file, users     *)
(* edit it by hand, and "/cron install" and "/cron uninstall" handle the   *)
(* property list and the launchd agent.                                    *)
(***************************************************************************)
EXTENDS Naturals, FiniteSets

CONSTANTS
    CronCallers,        \* tool calls and commands of any session that can overlap
    TaskNames,
    Configs,        \* what a task may be
    Missing, Corrupt,  \* no file; one that is no YAML
    MaxCronEdits    \* bound: how often a file is edited by hand

NoTasks == [n \in {} |-> Missing]
TaskMaps == UNION {[S -> Configs] : S \in SUBSET TaskNames}
\* A map of tasks is neither of the two.
ASSUME CronExtensionAssumption == Missing \notin TaskMaps /\ Corrupt \notin TaskMaps

Readable(f) == f \notin {Missing, Corrupt}
TaskIn(f, n) == IF Readable(f) /\ n \in DOMAIN f THEN f[n] ELSE Missing

Calls == [op : {"add"}, name : TaskNames, task : Configs]
            \cup [op : {"remove"}, name : TaskNames]
            \cup {[op |-> "view"], [op |-> "install"], [op |-> "uninstall"]}
NoCronCall == [op |-> "none"]

VARIABLES
    schedules,   \* extensions/cron/schedules.yaml
    flatFile,    \* schedules.yaml in the flat directory of earlier versions
    cronPc,      \* "idle", "heal", "loaded", "bootout", "bootstrap" or "remove"
    cronCall,        \* call[c]
    cfg,         \* cfg[c]: the Config it works on
    plist,       \* the property list is there
    agent,       \* launchd has the agent loaded
    cronEdits,
    stale,       \* history: the callers since whose read the file has changed
    mixed,       \* history: an install and an uninstall have overlapped
    refused      \* history: the last launchctl bootout left an agent loaded

files == <<schedules, flatFile>>
launchd == <<plist, agent, mixed, refused>>
cronvars == <<files, cronPc, cronCall, cfg, launchd, cronEdits, stale>>

CronExtensionInit ==
    /\ schedules \in {Missing} \cup TaskMaps
    /\ flatFile \in {Missing, Corrupt} \cup TaskMaps
    /\ cronPc = [c \in CronCallers |-> "idle"]
    /\ cronCall = [c \in CronCallers |-> NoCronCall]
    /\ cfg = [c \in CronCallers |-> NoTasks]
    /\ plist = FALSE /\ agent = FALSE /\ mixed = FALSE /\ refused = FALSE
    /\ cronEdits = 0
    /\ stale = {}

Continue(c, to) == cronPc' = [cronPc EXCEPT ![c] = to]

Return(c) ==
    /\ Continue(c, "idle")
    /\ cronCall' = [cronCall EXCEPT ![c] = NoCronCall]
    /\ cfg' = [cfg EXCEPT ![c] = NoTasks]

Write(f, writers) ==
    /\ schedules' = f
    /\ stale' = IF f = schedules THEN stale
                ELSE stale \cup {c \in CronCallers \ writers : cronPc[c] # "idle"}

\* The user edits the file, and may leave it broken.
EditByHand ==
    /\ cronEdits < MaxCronEdits
    /\ cronEdits' = cronEdits + 1
    /\ \E f \in {Corrupt, Missing} \cup TaskMaps : f # schedules /\ Write(f, {})
    /\ UNCHANGED <<flatFile, cronPc, cronCall, cfg, launchd>>

-----------------------------------------------------------------------------
(* LoadConfig: LoadYAMLExt                                                 *)

\* What is read: the file, else the flat one, else no tasks.
Loaded == IF Readable(schedules) THEN schedules ELSE IF Readable(flatFile) THEN flatFile ELSE NoTasks

\* cron_add checks the schedule before it loads; a call that only looks ends with the load.
LoadSchedules(c) ==
    /\ cronPc[c] = "idle"
    /\ \E k \in Calls :
        /\ k.op \in {"add", "remove", "view"}
        /\ cronCall' = [cronCall EXCEPT ![c] = k]
    /\ cfg' = [cfg EXCEPT ![c] = Loaded]
    /\ stale' = stale \ {c}
    /\ Continue(c, IF Readable(schedules) THEN "loaded" ELSE "heal")
    /\ UNCHANGED <<files, launchd, cronEdits>>

\* A file that was not there or not readable is written anew: the flat one is migrated, or
\* the defaults are; whether that succeeds is not looked at.
Heal(c) ==
    /\ cronPc[c] = "heal"
    /\ \/ Write(cfg[c], {c})
       \/ UNCHANGED <<schedules, stale>>
    /\ Continue(c, "loaded")
    /\ UNCHANGED <<flatFile, cronCall, cfg, launchd, cronEdits>>

View(c) ==
    /\ cronPc[c] = "loaded" /\ cronCall[c].op = "view"
    /\ Return(c)
    /\ UNCHANGED <<files, launchd, cronEdits, stale>>

-----------------------------------------------------------------------------
(* cron_add, cron_remove and "/cron remove"                                *)

WithTask(m, n, t) == [k \in DOMAIN m \cup {n} |-> IF k = n THEN t ELSE m[k]]
WithoutTask(m, n) == [k \in DOMAIN m \ {n} |-> m[k]]

Changed(c) == IF cronCall[c].op = "add" THEN WithTask(cfg[c], cronCall[c].name, cronCall[c].task)
                                    ELSE WithoutTask(cfg[c], cronCall[c].name)

\* The save succeeds, or an error is shown and the file is as it was.
SaveConfig(c) ==
    /\ cronPc[c] = "loaded"
    /\ \/ cronCall[c].op = "add"
       \/ cronCall[c].op = "remove" /\ cronCall[c].name \in DOMAIN cfg[c]
    /\ \/ Write(Changed(c), {c})
       \/ UNCHANGED <<schedules, stale>>
    /\ Return(c)
    /\ UNCHANGED <<flatFile, launchd, cronEdits>>

NoSuchTask(c) ==
    /\ cronPc[c] = "loaded"
    /\ cronCall[c].op = "remove" /\ cronCall[c].name \notin DOMAIN cfg[c]
    /\ Return(c)
    /\ UNCHANGED <<files, launchd, cronEdits, stale>>

-----------------------------------------------------------------------------
(* "/cron install" and "/cron uninstall"                                   *)

Others(c) == {cronCall[d].op : d \in CronCallers \ {c}}

\* The property list is written, or the command ends with an error.
Install(c) ==
    /\ cronPc[c] = "idle"
    /\ cronCall' = [cronCall EXCEPT ![c] = [op |-> "install"]]
    /\ plist' = TRUE
    /\ mixed' = (mixed \/ "uninstall" \in Others(c))
    /\ Continue(c, "bootout")
    /\ UNCHANGED <<files, cfg, agent, refused, cronEdits, stale>>

Uninstall(c) ==
    /\ cronPc[c] = "idle"
    /\ cronCall' = [cronCall EXCEPT ![c] = [op |-> "uninstall"]]
    /\ mixed' = (mixed \/ "install" \in Others(c))
    /\ Continue(c, "bootout")
    /\ UNCHANGED <<files, cfg, plist, agent, refused, cronEdits, stale>>

\* launchctl finds the agent through the property list, and may fail for reasons of its own;
\* its error is discarded and the command goes on.
Bootout(c) ==
    /\ cronPc[c] = "bootout"
    /\ agent' \in (IF plist THEN {FALSE, agent} ELSE {agent})
    /\ refused' = agent'
    /\ Continue(c, IF cronCall[c].op = "install" THEN "bootstrap" ELSE "remove")
    /\ UNCHANGED <<files, cronCall, cfg, plist, mixed, cronEdits, stale>>

\* It loads an agent that is not loaded yet, or says why not.
Bootstrap(c) ==
    /\ cronPc[c] = "bootstrap"
    /\ \/ plist /\ ~agent /\ agent' = TRUE
       \/ UNCHANGED agent
    /\ Return(c)
    /\ UNCHANGED <<files, plist, mixed, refused, cronEdits, stale>>

RemovePlist(c) ==
    /\ cronPc[c] = "remove"
    /\ plist' \in {FALSE, plist}
    /\ Return(c)
    /\ UNCHANGED <<files, agent, mixed, refused, cronEdits, stale>>

CronExtensionNext ==
    \/ EditByHand
    \/ \E c \in CronCallers :
        \/ LoadSchedules(c) \/ Heal(c) \/ View(c) \/ SaveConfig(c) \/ NoSuchTask(c)
        \/ Install(c) \/ Uninstall(c) \/ Bootout(c) \/ Bootstrap(c) \/ RemovePlist(c)

CronExtensionSpec == CronExtensionInit /\ [][CronExtensionNext]_cronvars

-----------------------------------------------------------------------------
CronExtensionTypeOK ==
    /\ schedules \in {Missing, Corrupt} \cup TaskMaps
    /\ \A c \in CronCallers : cfg[c] \in TaskMaps /\ (cronPc[c] = "idle" <=> cronCall[c] = NoCronCall)
    /\ stale \subseteq CronCallers

NamedBy(k) == IF k.op \in {"add", "remove"} THEN {k.name} ELSE {}

\* A call changes no task but the one it names, and never replaces a file that can be read by
\* an older state of it, unless the file was changed under it since it read it
\* (cron/config.go LoadConfig, SaveConfig; there is no lock).
OnlyStaleCallsDestroy ==
    [][\A c \in CronCallers : cronPc[c] # cronPc'[c] /\ schedules' # schedules =>
            \/ c \in stale
            \/ \A n \in TaskNames : TaskIn(schedules', n) # TaskIn(schedules, n) =>
                \/ n \in NamedBy(cronCall[c])
                \/ ~Readable(schedules) /\ TaskIn(flatFile, n) = TaskIn(schedules', n)]_cronvars

\* The agent is left loaded without the property list that removes it again only where launchctl
\* failed to unload it, which an uninstall does not look at, or where an install and an uninstall
\* have overlapped (cron/commands.go:236, 252, 254).
AgentHasItsPlist == agent => plist \/ mixed \/ refused
=============================================================================
