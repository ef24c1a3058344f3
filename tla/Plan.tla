-------------------------------- MODULE Plan --------------------------------
(* plan.md and the handlers that change it (plan/): each tool, command or   *)
(* interception loads the file under the store's lock, changes its copy,    *)
(* and saves it under the lock again.  Saving writes text and loading reads *)
(* it back: the file keeps no step numbers.  Nothing looks at the texts of  *)
(* steps, several of which may say the same, nor at notes and commits: a    *)
(* step is its number and its status.                                       *)
EXTENDS Naturals, Sequences, FiniteSets, SequencesExt

CONSTANTS PlanCallers,     \* calls that may be in progress together
          MaxSteps,    \* bound: steps of a plan
          NoPlan

ASSUME PlanAssumption == MaxSteps \in Nat

VARIABLES planFile,     \* plan.md: NoPlan or [steps, mode]
          planCall      \* Caller -> the call in progress: the plan it will save

pvars == <<planFile, planCall>>

Terminal == {"done"}   \* and skipped and failed, which count alike
Statuses == {"pending", "in_progress"} \cup Terminal

NoPlanCall == [at |-> "idle", plan |-> NoPlan]
PlanInit ==
  /\ planFile = NoPlan
  /\ planCall = [c \in PlanCallers |-> NoPlanCall]

(***************************************************************************)
(* plan.go.                                                                *)
(***************************************************************************)
NewStep(id) == [id |-> id, status |-> "pending"]
NewPlan(n)  == [steps |-> [i \in 1 .. n |-> NewStep(i)], mode |-> "execute"]

\* The place of the step of that number, 0 if there is none.
StepIndex(p, id) == SelectInSeq(p.steps, LAMBDA s : s.id = id)
NextID(p) == Max({0} \cup {p.steps[i].id : i \in DOMAIN p.steps}) + 1

\* Starting a step puts the one in progress back.
Demoted(p) == [i \in DOMAIN p.steps |-> IF p.steps[i].status = "in_progress"
                                        THEN [p.steps[i] EXCEPT !.status = "pending"] ELSE p.steps[i]]
UpdateStep(p, i, status) ==
  [p EXCEPT !.steps = [IF status = "in_progress" THEN Demoted(p) ELSE @ EXCEPT ![i].status = status]]
AddStepAfter(p, i) == [p EXCEPT !.steps = InsertAt(@, i + 1, NewStep(NextID(p)))]
RemoveStep(p, i)   == [p EXCEPT !.steps = RemoveAt(@, i)]
AppendStep(p)      == [p EXCEPT !.steps = Append(@, NewStep(NextID(p)))]
IsComplete(p) == p.steps # <<>> /\ \A i \in DOMAIN p.steps : p.steps[i].status \in Terminal
ResumeStep(p) == SelectInSeq(p.steps, LAMBDA s : s.status \notin Terminal)

\* markdown.go: a plan read back after it was written has its steps numbered anew.
FormatAndParse(p) ==
  IF p = NoPlan THEN NoPlan ELSE [p EXCEPT !.steps = [i \in DOMAIN @ |-> [@[i] EXCEPT !.id = i]]]

\* format.go: the numbers under which the copy in hand is listed, and the one to go on at.
FormatPrompt(p) == [listed |-> {p.steps[i].id : i \in DOMAIN p.steps},
                    next   |-> IF IsComplete(p) \/ ResumeStep(p) = 0 THEN 0 ELSE p.steps[ResumeStep(p)].id]

(***************************************************************************)
(* handlers.go and commands.go: a call that changes the plan is the load   *)
(* and the change, and then the save, which may fail.                      *)
(***************************************************************************)
LoadPlan(c, plan) ==
  /\ planCall[c].at = "idle" /\ planFile # NoPlan
  /\ planCall' = [planCall EXCEPT ![c] = [at |-> "save", plan |-> plan]]
  /\ UNCHANGED planFile
Save(c) ==
  /\ planCall[c].at = "save"
  /\ planFile' \in {FormatAndParse(planCall[c].plan), planFile}
  /\ planCall' = [planCall EXCEPT ![c] = NoPlanCall]

PlanCreate(c) ==
  /\ planCall[c].at = "idle"
  /\ \E n \in 1 .. MaxSteps : planFile' = FormatAndParse(NewPlan(n))
  /\ UNCHANGED planCall

\* plan_update: a step number that is not there ends the call, unless there
\* was nothing to do with it.
UpdateAndAdd(p, i, status, add) ==
  LET q == IF status = "" THEN p ELSE UpdateStep(p, i, status)
  IN  IF add THEN AddStepAfter(q, i) ELSE q
Room(p) == Len(p.steps) < MaxSteps
PlanUpdate(c) ==
  /\ planFile # NoPlan
  /\ \/ \E id \in 1 .. Len(planFile.steps), status \in Statuses \cup {""}, add \in {FALSE, Room(planFile)} :
          LoadPlan(c, UpdateAndAdd(planFile, StepIndex(planFile, id), status, add))
     \/ \E id \in 1 .. Len(planFile.steps) : LoadPlan(c, RemoveStep(planFile, StepIndex(planFile, id)))
PlanMode(c)          == planFile # NoPlan /\ \E m \in {"execute", "propose"} : LoadPlan(c, [planFile EXCEPT !.mode = m])
ApproveActivePlan(c) == planFile # NoPlan /\ LoadPlan(c, [planFile EXCEPT !.mode = "execute"])
ClearActivePlan(c)   == LoadPlan(c, NoPlan)
\* A tool that changes files, while the plan says propose, is refused and
\* recorded as a step.
Intercept(c) ==
  /\ planFile # NoPlan
  /\ planFile.mode = "propose" /\ Room(planFile)
  /\ LoadPlan(c, AppendStep(planFile))

PlanNext == \E c \in PlanCallers :
  \/ PlanCreate(c) \/ PlanUpdate(c) \/ PlanMode(c) \/ ApproveActivePlan(c) \/ ClearActivePlan(c)
  \/ Intercept(c) \/ Save(c)

PlanSpec == PlanInit /\ [][PlanNext]_pvars
-----------------------------------------------------------------------------
Plans == ({planFile} \cup {planCall[c].plan : c \in PlanCallers}) \ {NoPlan}

(* Kinds of the variables.                                                  *)
PlanTypeOK ==
  /\ \A p \in Plans :
       /\ p.mode \in {"execute", "propose"}
       /\ \A i \in DOMAIN p.steps : p.steps[i].status \in Statuses
  /\ \A c \in PlanCallers : planCall[c].at \in {"idle", "save"}

(* However calls overlap, overwrite each other and fail to save, in the     *)
(* file and in every copy of it at most one step is in progress, the        *)
(* listing that answers the call shows every step by a number of its own,   *)
(* and goes on at a step that is not finished as long as there is one       *)
(* (plan.go:79, plan.go:197, handlers.go:56).                               *)
PlanIsCoherent ==
  \A p \in Plans :
    /\ Cardinality({i \in DOMAIN p.steps : p.steps[i].status = "in_progress"}) <= 1
    /\ Cardinality(FormatPrompt(p).listed) = Len(p.steps)
    /\ LET unfinished == {p.steps[i].id : i \in {j \in DOMAIN p.steps : p.steps[j].status \notin Terminal}}
       IN  IF unfinished = {} THEN FormatPrompt(p).next = 0 ELSE FormatPrompt(p).next \in unfinished
=============================================================================
