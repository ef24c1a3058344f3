---------------------------- MODULE Coordinator -----------------------------
(* The coordinate tool of coordinator/: a model splits the request into     *)
(* tasks, an agent of the host runs each, at most three at a time, and the  *)
(* answers are merged in the order of the plan.                             *)
EXTENDS Integers, Sequences, FiniteSets

CONSTANTS Replies,  \* what the planning model may answer: a record of its kind and tasks
          MaxTasks, \* values of max_tasks; 0 is an absent or invalid one
          Limit     \* dispatchConcurrency

ASSUME CoordinatorAssumption ==
  /\ MaxTasks \subseteq Nat /\ Limit \in Nat \ {0}
  /\ \A reply \in Replies :
       /\ reply.kind \in {"error", "garbage", "tasks"}
       /\ reply.tasks \in Seq([tools : STRING, model : STRING, turns : Int])

VARIABLES phase,   \* "plan", "dispatch" or "merged"
          requested,   \* max_tasks of the call
          tasks,   \* what is dispatched
          started, \* tasks handed to the group
          agents,  \* task -> "running" or how the agent ended
          results, \* the slice Dispatch returns
          ctx      \* the context of the call: "live" or "done"

dvars == <<phase, requested, tasks, started, agents, results, ctx>>

maxSubTasks == 5
defaultMaxTurns == 10
maxTurnsCap == 20

Request == [tools |-> "all", model |-> "default", turns |-> defaultMaxTurns]
NormalisedTask(t) ==
  [tools |-> IF t.tools = "" THEN "all" ELSE t.tools,
   model |-> IF t.model = "" THEN "default" ELSE t.model,
   turns |-> IF t.turns \in 1 .. maxTurnsCap THEN t.turns ELSE defaultMaxTurns]
Shorter(s, n) == SubSeq(s, 1, IF Len(s) < n THEN Len(s) ELSE n)
\* A failed chat, an answer that is no list or an empty one: one agent gets it all.
PlanTasks(reply) ==
  IF reply.kind \in {"error", "garbage"} \/ reply.tasks = <<>> THEN <<Request>>
  ELSE [i \in DOMAIN Shorter(reply.tasks, maxSubTasks) |-> NormalisedTask(reply.tasks[i])]
AtMost(n) == IF n = 0 THEN 3 ELSE IF n > 5 THEN 5 ELSE n

CoordinatorInit ==
  /\ phase = "plan" /\ requested \in MaxTasks /\ ctx = "live"
  /\ tasks = <<>> /\ started = 0 /\ agents = <<>> /\ results = <<>>

PlanTheTasks ==
  /\ phase = "plan"
  /\ \E reply \in Replies : tasks' = Shorter(PlanTasks(reply), AtMost(requested))
  /\ phase' = "dispatch"
  /\ agents' = [i \in DOMAIN tasks' |-> "waiting"]
  /\ results' = [i \in DOMAIN tasks' |-> "zero"]
  /\ UNCHANGED <<requested, started, ctx>>

RunningAgents == {i \in DOMAIN agents : agents[i] = "running"}

Room == Cardinality(RunningAgents) < Limit

\* eg.Go blocks its caller until fewer than the limit run.
Spawn ==
  /\ phase = "dispatch" /\ started < Len(tasks) /\ Room
  /\ started' = started + 1
  /\ agents' = [agents EXCEPT ![started + 1] = "running"]
  /\ UNCHANGED <<phase, requested, tasks, results, ctx>>

\* Faulty: the goroutine reads the loop's index when it ends.
SlotOfLoop(i) == started
Slot(i) == i
\* RunAgent returns; its failure is written down and does not end the siblings.
AgentEnds(i) ==
  /\ i \in RunningAgents
  /\ \E r \in {"text", "empty", "error"} \cup (IF ctx = "done" THEN {"cancelled"} ELSE {}) :
        /\ agents' = [agents EXCEPT ![i] = r]
        /\ results' = [results EXCEPT ![Slot(i)] = r]
  /\ UNCHANGED <<phase, requested, tasks, started, ctx>>

Merge ==
  /\ phase = "dispatch" /\ started = Len(tasks) /\ RunningAgents = {}
  /\ phase' = "merged"
  /\ UNCHANGED <<requested, tasks, started, agents, results, ctx>>

CallerGivesUp ==
  /\ phase # "merged" /\ ctx = "live" /\ ctx' = "done"
  /\ UNCHANGED <<phase, requested, tasks, started, agents, results>>

CoordinatorNext ==
  PlanTheTasks \/ Spawn \/ (\E i \in DOMAIN agents : AgentEnds(i)) \/ Merge \/ CallerGivesUp
\* Neither the planning model nor an agent of the host has a deadline: nothing makes them end.
CoordinatorFairness == WF_dvars(Spawn \/ Merge)
CoordinatorSpec == CoordinatorInit /\ [][CoordinatorNext]_dvars /\ CoordinatorFairness
-----------------------------------------------------------------------------
(* Kinds of the variables.                                                  *)
CoordinatorTypeOK ==
  /\ phase \in {"plan", "dispatch", "merged"} /\ ctx \in {"live", "done"}
  /\ started \in 0 .. Len(tasks)
  /\ DOMAIN agents = DOMAIN tasks /\ DOMAIN results = DOMAIN tasks

(* No more agents run than the group and the call allow, in whatever order  *)
(* they end; the merged answer has, at the place of every task of the plan, *)
(* how its own agent ended, and never none of them (dispatch.go:43).        *)
EveryAgentIsHeard ==
  /\ Cardinality(RunningAgents) <= Limit
  /\ Len(tasks) <= AtMost(requested)
  /\ \A i \in DOMAIN tasks : tasks[i].turns \in 1 .. maxTurnsCap
  /\ \A i \in DOMAIN tasks : results[i] = IF agents[i] \in {"waiting", "running"} THEN "zero" ELSE agents[i]
  /\ phase = "merged" => tasks # <<>> /\ \A i \in DOMAIN results : results[i] # "zero"

(* Once it has its plan, the tool answers unless an agent never returns,    *)
(* also after a failure or when the caller gave up (dispatch.go:26-63).     *)
CoordinateAnswers == (phase = "dispatch" ~> phase = "merged") \/ <>[](RunningAgents # {})
=============================================================================
