----------------------------- MODULE WorkProofs -----------------------------
(* Proofs about the extensions that set other work going and wait for it,   *)
(* about their composition, and about a run of a pipeline: each of them     *)
(* for any values of its own constants, with its own inductive invariant.   *)
EXTENDS WorkMC, Pipeline, FiniteSetTheorems, SequenceTheorems, WellFoundedInduction, TLAPS

(***************************************************************************)
(* /loop.  One loop ticks because a loop is started only when the newest   *)
(* has left the flag down (Newest), and it does so after its last tick;    *)
(* every older loop is past that (Older).                                  *)
(***************************************************************************)
GoAts == {"none", "select", "tick", "onTick", "exit", "close", "closed"}
Goroutines == [at : GoAts, cancelled : BOOLEAN, timer : BOOLEAN, ticks : Nat]
Stops == [at : {"idle", "cancel", "wait", "stopped"}, loop : 0 .. MaxStarts]

LoopKinds ==
  /\ running \in BOOLEAN /\ loop \in 0 .. MaxStarts /\ count \in 0 .. MaxTicks + 1
  /\ go \in [Loops -> Goroutines]
  /\ stop \in [Commands -> Stops]

\* A loop ticks once more than the timer was set, and the first tick is free.
Ticks == \A l \in Loops :
  /\ go[l].ticks <= MaxTicks + 1
  /\ go[l].timer => go[l].ticks <= MaxTicks

Older == \A l \in Loops :
  /\ l > loop <=> go[l].at = "none"
  /\ l < loop => go[l].at \in {"close", "closed"}

Newest == \A l \in Loops : l = loop =>
  /\ running <=> go[l].at \in {"select", "tick", "onTick", "exit"}
  /\ go[l].at \in {"select", "onTick"} => count = go[l].ticks
  /\ go[l].at = "tick" => go[l].ticks > 0 /\ count = go[l].ticks - 1

\* A Stop is about a loop there was, and has answered when that one was over.
StopsAreOfLoops ==
  /\ running => loop > 0
  /\ \A c \in Commands :
       /\ stop[c].at # "idle" => stop[c].loop \in 1 .. loop
       /\ stop[c].at = "stopped" => go[stop[c].loop].at = "closed"

LoopIInv == LoopKinds /\ Ticks /\ Older /\ Newest /\ StopsAreOfLoops

\* The scheduler begins idle.
LEMMA LoopInitIInv == LoopInit => LoopIInv
<1> SUFFICES ASSUME LoopInit PROVE LoopIInv
  OBVIOUS
<1> USE LoopAssumption
<1>1. Loops \subseteq Nat \ {0} /\ MaxTicks \in Nat /\ MaxStarts \in Nat
  BY DEF Loops
<1>2. LoopKinds
  <2>1. [at |-> "none", cancelled |-> FALSE, timer |-> FALSE, ticks |-> 0] \in Goroutines
    BY DEF Goroutines, GoAts
  <2>2. NoStop \in Stops
    BY <1>1 DEF Stops, NoStop
  <2>3. go \in [Loops -> Goroutines] /\ stop \in [Commands -> Stops]
    BY <2>1, <2>2 DEF LoopInit
  <2>4. 0 \in 0 .. MaxStarts /\ 0 \in 0 .. MaxTicks + 1
    BY <1>1
  <2> QED  BY <2>3, <2>4 DEF LoopInit, LoopKinds
<1>3. Ticks /\ Older /\ Newest /\ StopsAreOfLoops
  BY <1>1 DEF LoopInit, Ticks, Older, Newest, StopsAreOfLoops, NoStop
<1> QED  BY <1>2, <1>3 DEF LoopIInv

\* Every step keeps the kinds and the bound on the ticks.
LEMMA LoopKindsStep == LoopIInv /\ [LoopNext]_lvars => (LoopKinds /\ Ticks)'
<1> SUFFICES ASSUME LoopIInv, [LoopNext]_lvars PROVE (LoopKinds /\ Ticks)'
  OBVIOUS
<1> USE LoopAssumption DEF LoopIInv
<1>1. Loops \subseteq Nat /\ MaxTicks \in Nat /\ MaxStarts \in Nat /\ loop \in Nat
  BY DEF Loops, LoopKinds
<1>2. \A l \in Loops : /\ go[l] \in Goroutines /\ go[l].ticks \in Nat /\ go[l].at \in GoAts
                       /\ go[l].timer \in BOOLEAN /\ go[l].cancelled \in BOOLEAN
  BY DEF LoopKinds, Goroutines
<1>3. CASE Start
  <2>1. [at |-> "select", cancelled |-> FALSE, timer |-> TRUE, ticks |-> 0] \in Goroutines
    BY DEF Goroutines, GoAts
  <2>2. loop + 1 \in 0 .. MaxStarts /\ 0 \in 0 .. MaxTicks + 1
    BY <1>1, <1>3 DEF Start
  <2>3. LoopKinds'
    BY <1>3, <2>1, <2>2 DEF Start, LoopKinds
  <2>4. Ticks'
    <3>1. 0 <= MaxTicks + 1 /\ 0 <= MaxTicks
      BY <1>1
    <3>2. \A l \in Loops : go'[l] = go[l] \/ go'[l] = [at |-> "select", cancelled |-> FALSE, timer |-> TRUE, ticks |-> 0]
      BY <1>3 DEF Start, LoopKinds
    <3> QED  BY <3>1, <3>2 DEF Ticks
  <2> QED  BY <2>3, <2>4
<1>4. ASSUME NEW l \in Loops, Goroutine(l) \/ TimerFires(l) PROVE (LoopKinds /\ Ticks)'
  <2>1. /\ UNCHANGED <<loop, stop>> /\ running' \in BOOLEAN /\ count' \in 0 .. MaxTicks + 1
        /\ \E g \in Goroutines : /\ go' = [go EXCEPT ![l] = g]
                                 /\ g.ticks <= MaxTicks + 1
                                 /\ g.timer => g.ticks <= MaxTicks
    <3> DEFINE OneGoes(g) == /\ go' = [go EXCEPT ![l] = g] /\ g \in Goroutines /\ g.ticks <= MaxTicks + 1
                             /\ g.timer => g.ticks <= MaxTicks
    <3> SUFFICES /\ UNCHANGED <<loop, stop>> /\ running' \in BOOLEAN /\ count' \in 0 .. MaxTicks + 1
                 /\ \E g : OneGoes(g)
      OBVIOUS
    <3> USE <1>1, <1>2 DEF Ticks, LoopKinds
    <3>1. CASE TimerFires(l)
      <4> DEFINE w == [go[l] EXCEPT !.timer = TRUE]
      <4>1. w \in Goroutines /\ w.ticks = go[l].ticks
        BY DEF Goroutines
      <4>2. go[l].ticks <= MaxTicks + 1 /\ go[l].ticks <= MaxTicks
        BY <3>1 DEF TimerFires
      <4>3. go' = [go EXCEPT ![l] = w] /\ UNCHANGED <<running, loop, count, stop>>
        BY <3>1 DEF TimerFires
      <4> HIDE DEF w
      <4> QED  BY <4>1, <4>2, <4>3
    <3>2. CASE SelectTimer(l)
      <4>1. OneGoes([go[l] EXCEPT !.at = "tick", !.timer = FALSE, !.ticks = @ + 1])
        BY <3>2 DEF SelectTimer, Goroutines, GoAts
      <4> QED  BY <3>2, <4>1 DEF SelectTimer
    <3>3. CASE SelectDone(l)
      <4>1. OneGoes([go[l] EXCEPT !.at = "exit"])
        BY <3>3 DEF SelectDone, Goroutines, GoAts
      <4> QED  BY <3>3, <4>1 DEF SelectDone
    <3>4. CASE Tick(l)
      <4>1. OneGoes([go[l] EXCEPT !.at = "onTick"])
        BY <3>4 DEF Tick, Goroutines, GoAts
      <4>2. count' \in 0 .. MaxTicks + 1
        BY <3>4 DEF Tick
      <4> QED  BY <3>4, <4>1, <4>2 DEF Tick
    <3>5. CASE OnTickReturns(l)
      <4>1. OneGoes([go[l] EXCEPT !.at = "select"])
        BY <3>5 DEF OnTickReturns, Goroutines, GoAts
      <4> QED  BY <3>5, <4>1 DEF OnTickReturns
    <3>6. CASE ClearRunning(l)
      <4>1. OneGoes([go[l] EXCEPT !.at = "close"])
        BY <3>6 DEF ClearRunning, Goroutines, GoAts
      <4> QED  BY <3>6, <4>1 DEF ClearRunning
    <3>7. CASE CloseDone(l)
      <4>1. OneGoes([go[l] EXCEPT !.at = "closed"])
        BY <3>7 DEF CloseDone, Goroutines, GoAts
      <4> QED  BY <3>7, <4>1 DEF CloseDone
    <3> QED  BY <1>4, <3>1, <3>2, <3>3, <3>4, <3>5, <3>6, <3>7 DEF Goroutine
  <2> QED  BY <1>1, <1>2, <2>1 DEF LoopKinds, Ticks
<1>5. ASSUME NEW c \in Commands, StopLoop(c) \/ Cancel(c) \/ Stopped(c) \/ Forget(c)
      PROVE (LoopKinds /\ Ticks)'
  <2>1. stop[c] \in Stops /\ NoStop \in Stops /\ [at |-> "cancel", loop |-> loop] \in Stops
    BY <1>1 DEF Stops, NoStop, LoopKinds
  <2>2. [Awaiting(c) EXCEPT !.loop = stop[c].loop] \in Stops /\ [stop[c] EXCEPT !.at = "stopped"] \in Stops
    BY <2>1 DEF Stops, Awaiting
  <2>3. \A l \in Loops : [go[l] EXCEPT !.cancelled = TRUE] \in Goroutines
    BY <1>2 DEF Goroutines
  <2>4. CASE StopLoop(c)
    BY <2>1, <2>4 DEF StopLoop, LoopKinds, Ticks
  <2>5. CASE Cancel(c)
    <3>1. stop' \in [Commands -> Stops] /\ UNCHANGED <<running, loop, count>>
      BY <2>2, <2>5 DEF Cancel, LoopKinds
    <3>2. go' \in [Loops -> Goroutines]
      BY <2>3, <2>5 DEF Cancel, LoopKinds
    <3>3. \A l \in Loops : go'[l].ticks = go[l].ticks /\ go'[l].timer = go[l].timer
      BY <2>5 DEF Cancel, LoopKinds, Goroutines
    <3>4. Ticks'
      BY <3>3 DEF Ticks
    <3> QED  BY <3>1, <3>2, <3>4 DEF LoopKinds
  <2>6. CASE Stopped(c)
    BY <2>2, <2>6 DEF Stopped, LoopKinds, Ticks
  <2>7. CASE Forget(c)
    BY <2>1, <2>7 DEF Forget, LoopKinds, Ticks
  <2> QED  BY <1>5, <2>4, <2>5, <2>6, <2>7
<1>6. CASE UNCHANGED lvars
  BY <1>6 DEF lvars, LoopKinds, Ticks
<1> QED  BY <1>3, <1>4, <1>5, <1>6 DEF LoopNext

\* Every step keeps what is said of the loops and of the Stops.
LEMMA LoopOrderStep == LoopIInv /\ [LoopNext]_lvars => (Older /\ Newest /\ StopsAreOfLoops)'
<1> SUFFICES ASSUME LoopIInv, [LoopNext]_lvars PROVE (Older /\ Newest /\ StopsAreOfLoops)'
  OBVIOUS
<1> USE LoopAssumption DEF LoopIInv
<1>1. Loops = 1 .. MaxStarts /\ MaxTicks \in Nat /\ MaxStarts \in Nat /\ loop \in Nat
  BY DEF Loops, LoopKinds
<1> USE <1>1 DEF LoopKinds, Goroutines, GoAts, Stops, Older, Newest, StopsAreOfLoops
<1>2. CASE Start
  BY <1>2 DEF Start, MayStart
<1>3. ASSUME NEW l \in Loops, Goroutine(l) \/ TimerFires(l) PROVE (Older /\ Newest /\ StopsAreOfLoops)'
  <2>1. CASE SelectTimer(l)
    BY <2>1 DEF SelectTimer
  <2>2. CASE SelectDone(l)
    BY <2>2 DEF SelectDone
  <2>3. CASE Tick(l)
    BY <2>3 DEF Tick
  <2>4. CASE OnTickReturns(l)
    BY <2>4 DEF OnTickReturns
  <2>5. CASE ClearRunning(l)
    BY <2>5 DEF ClearRunning
  <2>6. CASE CloseDone(l)
    BY <2>6 DEF CloseDone
  <2>7. CASE TimerFires(l)
    BY <2>7 DEF TimerFires
  <2> QED  BY <1>3, <2>1, <2>2, <2>3, <2>4, <2>5, <2>6, <2>7 DEF Goroutine
<1>4. ASSUME NEW c \in Commands, StopLoop(c) \/ Cancel(c) \/ Stopped(c) \/ Forget(c)
      PROVE (Older /\ Newest /\ StopsAreOfLoops)'
  <2>1. CASE StopLoop(c)
    BY <2>1 DEF StopLoop
  <2>2. CASE Cancel(c)
    BY <2>2 DEF Cancel, Awaiting
  <2>3. CASE Stopped(c)
    BY <2>3 DEF Stopped
  <2>4. CASE Forget(c)
    BY <2>4 DEF Forget, NoStop
  <2> QED  BY <1>4, <2>1, <2>2, <2>3, <2>4
<1>5. CASE UNCHANGED lvars
  BY <1>5 DEF lvars
<1> QED  BY <1>2, <1>3, <1>4, <1>5 DEF LoopNext

\* At most the newest loop is alive.
LEMMA LoopIInvOneTicks == LoopIInv => OneLoopTicks
<1> SUFFICES ASSUME LoopIInv PROVE OneLoopTicks
  OBVIOUS
<1> USE LoopAssumption DEF LoopIInv
<1>1. Loops = 1 .. MaxStarts /\ loop \in Nat
  BY DEF Loops, LoopKinds
<1>2. \A l \in Alive : l = loop /\ l \in Loops
  BY <1>1 DEF Alive, Older
<1>3. Cardinality(Alive) <= 1
  <2>1. Alive \in SUBSET {loop}
    BY <1>2
  <2>2. IsFiniteSet({loop}) /\ Cardinality({loop}) = 1
    BY FS_Singleton
  <2> QED  BY <2>1, <2>2, FS_Subset
<1>4. \A c \in Commands : stop[c].at = "stopped" => stop[c].loop \notin Alive
  BY DEF Alive, StopsAreOfLoops
<1>5. \A l \in Alive : running /\ l = loop /\ count \in {go[l].ticks, go[l].ticks - 1}
  BY <1>2 DEF Alive, Newest
<1> QED  BY <1>3, <1>4, <1>5 DEF OneLoopTicks

\* The kinds, as the model has them.
LEMMA LoopTyped == LoopIInv => LoopTypeOK
BY DEF LoopIInv, LoopKinds, LoopTypeOK, Goroutines, GoAts, Stops

(* However the handlers of /loop and /loop-stop overlap, whatever the       *)
(* number of loops and of ticks, one loop sends prompts at a time and the   *)
(* one a Stop answered for sends none (loop/loop.go:70, loop/loop.go:112).  *)
THEOREM OneLoop == LoopSpec => [](LoopTypeOK /\ OneLoopTicks)
<1>1. LoopIInv /\ [LoopNext]_lvars => LoopIInv'
  BY LoopKindsStep, LoopOrderStep DEF LoopIInv
<1> QED  BY <1>1, LoopTyped, LoopInitIInv, LoopIInvOneTicks, PTL DEF LoopSpec

(***************************************************************************)
(* The dispatch tool.                                                      *)
(***************************************************************************)
SubagentIInv ==
  /\ opts.abs \in Nat /\ opts.inact \in Nat
  /\ SubagentTypeOK

\* A call begins with the pane running and no answer.
LEMMA SubagentInitIInv == SubagentInit => SubagentIInv
<1> SUFFICES ASSUME SubagentInit PROVE SubagentIInv
  OBVIOUS
<1>1. opts.abs \in Nat /\ opts.inact \in Nat
  BY SubagentAssumption DEF SubagentInit
<1>2. 0 \in 0 .. MaxPolls /\ 0 \in 0 .. 0
  BY SubagentAssumption
<1> QED  BY <1>1, <1>2 DEF SubagentInit, SubagentIInv, SubagentTypeOK

\* Every step keeps the invariant.
LEMMA SubagentNextIInv == SubagentIInv /\ [SubagentNext]_svars => SubagentIInv'
<1> SUFFICES ASSUME SubagentIInv, [SubagentNext]_svars PROVE SubagentIInv'
  OBVIOUS
<1> USE SubagentAssumption DEF SubagentIInv, SubagentTypeOK
<1>1. CASE Output
  BY <1>1 DEF Output
<1>2. CASE WriteResult
  BY <1>2 DEF WriteResult
<1>3. CASE Poll
  <2>1. polls' \in 0 .. MaxPolls /\ polls <= polls' /\ UNCHANGED <<opts, output, resultFile>>
    BY <1>3 DEF Poll
  <2>2. output' \in 0 .. polls' /\ lastActivity' \in 0 .. output'
    BY <1>3, <2>1 DEF Poll
  <2>3. /\ answer' \in {"none", "result", "timeout", "inactive"} /\ pane' \in {pane, "killed"}
    BY <1>3 DEF Poll, Returned, KillPane
  <2> QED  BY <2>1, <2>2, <2>3
<1>4. CASE CtxDone
  BY <1>4 DEF CtxDone, Returned
<1>5. CASE UNCHANGED svars
  BY <1>5 DEF svars
<1> QED  BY <1>1, <1>2, <1>3, <1>4, <1>5 DEF SubagentNext

(* For any timeouts, a result that was there before a poll is what the poll *)
(* returns, the tool gives up no agent for inactivity that was heard within *)
(* the limit, and an agent is killed only by the poll that gives it up,     *)
(* without a result and with its time over or its limit exceeded            *)
(* (subagent/dispatch.go:104-168).                                          *)
THEOREM ResultWins == SubagentSpec => []SubagentTypeOK /\ ResultsWin
<1>1. SubagentIInv => SubagentTypeOK
  BY DEF SubagentIInv
<1> DEFINE Told ==
      /\ answer # answer' /\ answer' # "cancelled" => ((resultFile # "none") <=> (answer' = "result"))
      /\ answer # "inactive" /\ answer' = "inactive" => lastActivity # 0 /\ polls - lastActivity > opts.inact
      /\ pane # "killed" /\ pane' = "killed" =>
             /\ resultFile' = "none" /\ answer = "none" /\ answer' \in {"timeout", "inactive"}
             /\ answer' = "timeout" => polls >= opts.abs
<1>2. SubagentIInv /\ SubagentIInv' /\ [SubagentNext]_svars => [Told]_svars
  <2> SUFFICES ASSUME SubagentIInv, SubagentIInv', SubagentNext PROVE Told
    BY DEF Told
  <2>2. CASE Output \/ WriteResult \/ CtxDone
    BY <2>2 DEF Output, WriteResult, CtxDone, Returned
  <2>3. CASE Poll
    <3>1. answer # answer' => ((resultFile # "none") <=> (answer' = "result"))
      BY <2>3 DEF Poll, Returned
    <3>2. answer' = "inactive" => lastActivity # 0 /\ polls > lastActivity + opts.inact
      BY <2>3 DEF Poll, Returned, Inactive, PaneStalled
    <3>3. answer' = "inactive" => polls - lastActivity > opts.inact
      BY <3>2 DEF SubagentIInv, SubagentTypeOK
    <3>4. pane # "killed" /\ pane' = "killed" =>
             /\ resultFile' = "none" /\ answer = "none" /\ answer' \in {"timeout", "inactive"}
             /\ answer' = "timeout" => polls >= opts.abs
      BY <2>3 DEF Poll, Returned, KillPane
    <3> QED  BY <3>1, <3>2, <3>3, <3>4
  <2> QED  BY <2>2, <2>3 DEF SubagentNext
<1>3. SubagentSpec => []SubagentIInv
  BY SubagentInitIInv, SubagentNextIInv, PTL DEF SubagentSpec
<1>4. SubagentSpec => [][SubagentNext]_svars
  BY PTL DEF SubagentSpec
<1>5. SubagentSpec => [][Told]_svars
  BY <1>2, <1>3, <1>4, PTL
<1> QED  BY <1>1, <1>3, <1>5, PTL DEF ResultsWin

(***************************************************************************)
(* The coordinate tool.  The group keeps its limit because a place is free *)
(* when an agent is spawned; the merged answer is whole because the agents *)
(* are spawned in the order of the plan (Dispatched) and the merge waits   *)
(* for every one (Merged).                                                 *)
(***************************************************************************)
Names == STRING \cup {"all", "default"}
Task == [tools : Names, model : Names, turns : 1 .. maxTurnsCap]
Ends == {"text", "empty", "error", "cancelled"}

CoordinatorKinds ==
  /\ phase \in {"plan", "dispatch", "merged"} /\ ctx \in {"live", "done"}
  /\ requested \in MaxTasks /\ tasks \in Seq(Task) /\ started \in Nat
  /\ agents \in [1 .. Len(tasks) -> {"waiting", "running"} \cup Ends]
  /\ results \in [1 .. Len(tasks) -> {"zero"} \cup Ends]

Planned ==
  /\ Len(tasks) <= AtMost(requested)
  /\ phase = "plan" => Len(tasks) = 0
  /\ phase # "plan" => Len(tasks) > 0

Dispatched ==
  /\ started <= Len(tasks)
  /\ \A i \in 1 .. Len(tasks) : agents[i] = "waiting" <=> i > started
  /\ Cardinality(RunningAgents) <= Limit

Merged == phase = "merged" => \A i \in 1 .. Len(tasks) : agents[i] \in Ends

Told == \A i \in 1 .. Len(tasks) :
  results[i] = IF agents[i] \in {"waiting", "running"} THEN "zero" ELSE agents[i]

CoordinatorIInv == CoordinatorKinds /\ Planned /\ Dispatched /\ Merged /\ Told

\* What is dispatched is never empty, within both limits, and of legal numbers of turns.
LEMMA PlanFacts ==
  ASSUME NEW reply \in Replies, NEW n \in Nat
  PROVE  LET plan == Shorter(PlanTasks(reply), AtMost(n)) IN
         plan \in Seq(Task) /\ Len(plan) \in 1 .. AtMost(n)
<1> USE CoordinatorAssumption
<1> DEFINE tasked == reply.tasks
           most == Shorter(tasked, maxSubTasks)
           all == PlanTasks(reply)
<1>1. tasked \in Seq([tools : STRING, model : STRING, turns : Int])
  OBVIOUS
<1>2. AtMost(n) \in 1 .. 5
  BY DEF AtMost
<1>3. ASSUME NEW S, NEW s \in Seq(S), NEW k \in Nat
      PROVE  /\ Shorter(s, k) \in Seq(S)
             /\ Len(Shorter(s, k)) = IF Len(s) < k THEN Len(s) ELSE k
  <2> DEFINE m == IF Len(s) < k THEN Len(s) ELSE k
  <2>1. Len(s) \in Nat /\ m \in Nat /\ m <= Len(s)
    OBVIOUS
  <2>2. \A i \in 1 .. m : s[i] \in S
    BY <2>1
  <2>3. Shorter(s, k) = SubSeq(s, 1, m)
    BY DEF Shorter
  <2> HIDE DEF m
  <2>4. SubSeq(s, 1, m) \in Seq(S) /\ Len(SubSeq(s, 1, m)) = IF 1 <= m THEN m - 1 + 1 ELSE 0
    BY <2>1, <2>2, SubSeqProperties
  <2>5. Len(SubSeq(s, 1, m)) = m
    BY <2>1, <2>4
  <2> QED  BY <2>3, <2>4, <2>5 DEF m
<1>4. all \in Seq(Task) /\ Len(all) > 0
  <2>1. CASE reply.kind \in {"error", "garbage"} \/ tasked = <<>>
    <3>1. all = <<Request>>
      BY <2>1 DEF PlanTasks
    <3>2. Request \in Task
      <4>1. defaultMaxTurns \in 1 .. maxTurnsCap
        BY DEF defaultMaxTurns, maxTurnsCap
      <4>2. "all" \in Names /\ "default" \in Names
        BY DEF Names
      <4> QED  BY <4>1, <4>2 DEF Request, Task
    <3> QED  BY <3>1, <3>2
  <2>2. CASE ~(reply.kind \in {"error", "garbage"} \/ tasked = <<>>)
    <3>1. all = [i \in DOMAIN most |-> NormalisedTask(tasked[i])]
      BY <2>2 DEF PlanTasks
    <3>2. Len(tasked) \in Nat /\ Len(tasked) > 0
      BY <1>1, <2>2
    <3>3. /\ most \in Seq([tools : STRING, model : STRING, turns : Int])
          /\ Len(most) = IF Len(tasked) < maxSubTasks THEN Len(tasked) ELSE maxSubTasks
      BY <1>1, <1>3 DEF maxSubTasks
    <3>4. Len(most) \in Nat /\ Len(most) > 0 /\ Len(most) <= Len(tasked) /\ DOMAIN most = 1 .. Len(most)
      BY <3>2, <3>3 DEF maxSubTasks
    <3>5. \A i \in 1 .. Len(most) : NormalisedTask(tasked[i]) \in Task
      <4> SUFFICES ASSUME NEW i \in 1 .. Len(most) PROVE NormalisedTask(tasked[i]) \in Task
        OBVIOUS
      <4> DEFINE t == tasked[i]
      <4>1. i \in 1 .. Len(tasked)
        BY <3>2, <3>4
      <4>2. t \in [tools : STRING, model : STRING, turns : Int]
        BY <1>1, <4>1, ElementOfSeq
      <4>3. defaultMaxTurns \in 1 .. maxTurnsCap
        BY DEF defaultMaxTurns, maxTurnsCap
      <4> HIDE DEF t
      <4>4. t.tools \in Names /\ t.model \in Names /\ "all" \in Names /\ "default" \in Names
        BY <4>2 DEF Names
      <4>5. NormalisedTask(t) \in Task
        BY ONLY <4>3, <4>4 DEF NormalisedTask, Task
      <4> QED  BY <4>5 DEF t
    <3> HIDE DEF most, all, tasked
    <3>6. all \in [1 .. Len(most) -> Task]
      BY <3>1, <3>4, <3>5
    <3> QED  BY <3>4, <3>6
  <2> QED  BY <2>1, <2>2
<1> HIDE DEF all
<1>5. Shorter(all, AtMost(n)) \in Seq(Task) /\ Len(Shorter(all, AtMost(n))) \in 1 .. AtMost(n)
  BY <1>2, <1>3, <1>4
<1> QED  BY <1>5 DEF all

\* A call begins with nothing planned.
LEMMA CoordinatorInitIInv == CoordinatorInit => CoordinatorIInv
<1> SUFFICES ASSUME CoordinatorInit PROVE CoordinatorIInv
  OBVIOUS
<1>1. tasks \in Seq(Task) /\ Len(tasks) = 0 /\ 1 .. Len(tasks) = {}
  BY DEF CoordinatorInit
<1>2. agents \in [1 .. 0 -> {"waiting", "running"} \cup Ends] /\ results \in [1 .. 0 -> {"zero"} \cup Ends]
  BY DEF CoordinatorInit
<1>3. RunningAgents = {}
  BY DEF CoordinatorInit, RunningAgents
<1>4. Cardinality(RunningAgents) = 0
  BY <1>3, FS_EmptySet
<1>5. AtMost(requested) \in 1 .. 5
  BY CoordinatorAssumption DEF AtMost, CoordinatorInit
<1>6. CoordinatorKinds
  BY <1>1, <1>2 DEF CoordinatorInit, CoordinatorKinds
<1>7. Planned /\ Dispatched /\ Merged /\ Told
  BY <1>1, <1>4, <1>5, CoordinatorAssumption DEF CoordinatorInit, Planned, Dispatched, Merged, Told
<1> QED  BY <1>6, <1>7 DEF CoordinatorIInv

\* Every step keeps the invariant.
LEMMA CoordinatorNextIInv == CoordinatorIInv /\ [CoordinatorNext]_dvars => CoordinatorIInv'
<1> SUFFICES ASSUME CoordinatorIInv, [CoordinatorNext]_dvars PROVE CoordinatorIInv'
  OBVIOUS
<1> USE CoordinatorAssumption DEF CoordinatorIInv
<1>1. /\ Len(tasks) \in Nat /\ requested \in Nat /\ started \in Nat /\ Limit \in Nat
      /\ DOMAIN agents = 1 .. Len(tasks) /\ DOMAIN results = 1 .. Len(tasks)
  BY DEF CoordinatorKinds
<1>2. IsFiniteSet(RunningAgents) /\ Cardinality(RunningAgents) \in Nat
  <2>1. IsFiniteSet(1 .. Len(tasks))
    BY <1>1, FS_Interval
  <2>2. RunningAgents \in SUBSET (1 .. Len(tasks))
    BY <1>1 DEF RunningAgents
  <2> QED  BY <2>1, <2>2, FS_Subset, FS_CardinalityType
<1>3. CASE PlanTheTasks
  <2>1. tasks' \in Seq(Task) /\ Len(tasks') \in 1 .. AtMost(requested) /\ UNCHANGED <<requested, started, ctx>>
    BY <1>1, <1>3, PlanFacts DEF PlanTheTasks
  <2>2. DOMAIN tasks' = 1 .. Len(tasks') /\ AtMost(requested) \in Nat
    BY <1>1, <2>1 DEF AtMost
  <2>3. /\ agents' = [i \in 1 .. Len(tasks') |-> "waiting"] /\ results' = [i \in 1 .. Len(tasks') |-> "zero"]
        /\ phase = "plan" /\ phase' = "dispatch"
    BY <1>3, <2>2 DEF PlanTheTasks
  <2>4. CoordinatorKinds'
    BY <2>1, <2>3 DEF CoordinatorKinds
  <2>5. started' = 0
    BY <1>1, <2>1, <2>3 DEF Planned, Dispatched
  <2>6. RunningAgents' = {}
    BY <2>3 DEF RunningAgents
  <2>7. Cardinality(RunningAgents') = 0
    BY <2>6, FS_EmptySet
  <2>8. Planned' /\ Merged' /\ Told'
    BY <2>1, <2>2, <2>3 DEF Planned, Merged, Told
  <2>9. Dispatched'
    BY <2>1, <2>2, <2>3, <2>5, <2>7 DEF Dispatched
  <2> QED  BY <2>4, <2>8, <2>9
<1>4. CASE Spawn
  <2> DEFINE i == started + 1
  <2>1. /\ i \in 1 .. Len(tasks) /\ started' = i /\ agents' = [agents EXCEPT ![i] = "running"]
        /\ phase = "dispatch" /\ Cardinality(RunningAgents) < Limit
        /\ UNCHANGED <<phase, requested, tasks, results, ctx>>
    BY <1>1, <1>4 DEF Spawn, Room
  <2>2. CoordinatorKinds'
    BY <2>1 DEF CoordinatorKinds
  <2>3. RunningAgents' = RunningAgents \cup {i}
    <3>1. DOMAIN agents' = DOMAIN agents /\ agents'[i] = "running" /\ \A j \in DOMAIN agents \ {i} : agents'[j] = agents[j]
      BY <1>1, <2>1
    <3>2. i \in DOMAIN agents
      BY <1>1, <2>1
    <3> HIDE DEF i
    <3>3. \A j : j \in RunningAgents' <=> j \in RunningAgents \cup {i}
      BY <3>1, <3>2 DEF RunningAgents
    <3> QED  BY <3>3
  <2>4. Cardinality(RunningAgents') <= Limit
    <3>1. \/ Cardinality(RunningAgents \cup {i}) = Cardinality(RunningAgents)
          \/ Cardinality(RunningAgents \cup {i}) = Cardinality(RunningAgents) + 1
      BY <1>2, FS_AddElement
    <3> HIDE DEF i
    <3> QED  BY <1>1, <1>2, <2>1, <2>3, <3>1
  <2>5. \A j \in 1 .. Len(tasks) : agents'[j] = IF j = i THEN "running" ELSE agents[j]
    BY <1>1, <2>1
  <2>6. Dispatched'
    BY <1>1, <2>1, <2>4, <2>5 DEF Dispatched
  <2>7. agents[i] = "waiting"
    BY <1>1, <2>1 DEF Dispatched
  <2>8. Planned' /\ Merged' /\ Told'
    BY <1>1, <2>1, <2>5, <2>7 DEF Planned, Merged, Told
  <2> QED  BY <2>2, <2>6, <2>8
<1>5. ASSUME NEW i \in DOMAIN agents, AgentEnds(i) PROVE CoordinatorIInv'
  <2>1. PICK r \in Ends : /\ agents' = [agents EXCEPT ![i] = r] /\ results' = [results EXCEPT ![i] = r]
    BY <1>5 DEF AgentEnds, Slot, Ends
  <2>2. i \in 1 .. Len(tasks) /\ agents[i] = "running" /\ UNCHANGED <<phase, requested, tasks, started, ctx>>
    BY <1>1, <1>5 DEF AgentEnds, RunningAgents
  <2>3. CoordinatorKinds'
    BY <2>1, <2>2 DEF CoordinatorKinds
  <2>4. \A j \in 1 .. Len(tasks) : /\ agents'[j] = IF j = i THEN r ELSE agents[j]
                                   /\ results'[j] = IF j = i THEN r ELSE results[j]
    BY <1>1, <2>1, <2>2
  <2>5. RunningAgents' = RunningAgents \ {i}
    <3>1. DOMAIN agents' = DOMAIN agents /\ agents'[i] # "running" /\ \A j \in DOMAIN agents \ {i} : agents'[j] = agents[j]
      BY <1>1, <2>1, <2>2 DEF Ends
    <3>2. \A j : j \in RunningAgents' <=> j \in RunningAgents \ {i}
      BY <3>1 DEF RunningAgents
    <3> QED  BY <3>2
  <2>6. Cardinality(RunningAgents') <= Limit
    <3>1. \/ Cardinality(RunningAgents \ {i}) = Cardinality(RunningAgents)
          \/ Cardinality(RunningAgents \ {i}) = Cardinality(RunningAgents) - 1
      BY <1>2, FS_RemoveElement
    <3> QED  BY <1>1, <1>2, <2>5, <3>1 DEF Dispatched
  <2>7. Dispatched'
    BY <1>1, <2>2, <2>4, <2>6 DEF Dispatched, Ends
  <2>8. Planned' /\ Merged' /\ Told'
    BY <1>1, <2>2, <2>4 DEF Planned, Merged, Told, Ends
  <2> QED  BY <2>3, <2>7, <2>8
<1>6. CASE Merge
  <2>1. \A i \in 1 .. Len(tasks) : agents[i] \in Ends
    BY <1>1, <1>6 DEF Merge, Dispatched, RunningAgents, CoordinatorKinds
  <2>2. RunningAgents' = RunningAgents
    BY <1>6 DEF Merge, RunningAgents
  <2> QED  BY <1>6, <2>1, <2>2 DEF Merge, CoordinatorKinds, Planned, Dispatched, Merged, Told
<1>7. CASE CallerGivesUp
  <2>1. RunningAgents' = RunningAgents
    BY <1>7 DEF CallerGivesUp, RunningAgents
  <2> QED  BY <1>7, <2>1 DEF CallerGivesUp, CoordinatorKinds, Planned, Dispatched, Merged, Told
<1>8. CASE UNCHANGED dvars
  <2>1. RunningAgents' = RunningAgents
    BY <1>8 DEF dvars, RunningAgents
  <2> QED  BY <1>8, <2>1 DEF dvars, CoordinatorKinds, Planned, Dispatched, Merged, Told
<1> QED  BY <1>3, <1>4, <1>5, <1>6, <1>7, <1>8 DEF CoordinatorNext

\* What the invariant says of a call.
LEMMA CoordinatorTells == CoordinatorIInv => CoordinatorTypeOK /\ EveryAgentIsHeard
<1>1. CoordinatorIInv => CoordinatorTypeOK
  BY DEF CoordinatorIInv, CoordinatorKinds, Dispatched, CoordinatorTypeOK
<1>2. CoordinatorIInv => EveryAgentIsHeard
  <2> SUFFICES ASSUME CoordinatorIInv PROVE EveryAgentIsHeard
    OBVIOUS
  <2>1. DOMAIN tasks = 1 .. Len(tasks) /\ DOMAIN results = 1 .. Len(tasks) /\ Len(tasks) \in Nat
    BY DEF CoordinatorIInv, CoordinatorKinds
  <2>2. \A i \in 1 .. Len(tasks) : tasks[i].turns \in 1 .. maxTurnsCap
    <3>1. \A i \in 1 .. Len(tasks) : tasks[i] \in Task
      BY DEF CoordinatorIInv, CoordinatorKinds
    <3> QED  BY <3>1 DEF Task
  <2>3. phase = "merged" => tasks # <<>> /\ \A i \in DOMAIN results : results[i] # "zero"
    BY <2>1 DEF CoordinatorIInv, Planned, Merged, Told, Ends
  <2> QED  BY <2>1, <2>2, <2>3 DEF CoordinatorIInv, Planned, Dispatched, Told, EveryAgentIsHeard
<1> QED  BY <1>1, <1>2

(* For any replies of the model and any limit, no more agents run than the  *)
(* group allows, no more tasks than the call, and the merged answer has     *)
(* what became of each (coordinator/dispatch.go:43).                        *)
THEOREM AgentsHeard == CoordinatorSpec => [](CoordinatorTypeOK /\ EveryAgentIsHeard)
BY CoordinatorTells, CoordinatorInitIInv, CoordinatorNextIInv, PTL DEF CoordinatorSpec

(***************************************************************************)
(* The MCP servers.  Each server answers once and is then counted, so that *)
(* as many results as there are servers means a result of every one of     *)
(* them (Counted, OneAnswerEach).                                          *)
(***************************************************************************)
Answers == [server : Servers, ok : BOOLEAN]
Heard == clients \cup failures

McpKinds ==
  /\ McpTypeOK
  /\ answers \in Seq(Answers) /\ clients \subseteq Servers /\ failures \subseteq Servers
  /\ mcpInit = "new" => answers = <<>> /\ Heard = {} /\ \A n \in Servers : dialing[n] = "no"

OneAnswerEach ==
  /\ \A i \in 1 .. Len(answers) : dialing[answers[i].server] = "done" /\ answers[i].server \notin Heard
  /\ \A i, j \in 1 .. Len(answers) : answers[i].server = answers[j].server => i = j
  /\ \A n \in Heard : dialing[n] = "done"

Counted ==
  /\ clients \cap failures = {}
  /\ heard = Cardinality(Heard)
  /\ mcpInit \in {"discovering", "registered"} => Heard = Servers

Registered == toAsk \subseteq clients /\ \A t \in registered : t.server \in clients

Shown ==
  /\ \A r, s \in statusRows : r.server = s.server => r = s
  /\ statusPc = "listing" => \A r \in statusRows : r.server \in IF r.asked THEN clients ELSE failures
  /\ shownAfter => {r.server : r \in statusRows} = Servers

McpIInv == McpKinds /\ OneAnswerEach /\ Counted /\ Registered /\ Shown

\* A session begins with nothing connected.
LEMMA McpInitIInv == McpInit => McpIInv
<1> SUFFICES ASSUME McpInit PROVE McpIInv
  OBVIOUS
<1>1. Heard = {} /\ Cardinality({}) = 0 /\ Cardinality(Servers) \in Nat
  BY McpAssumption, FS_EmptySet, FS_CardinalityType DEF McpInit, Heard
<1>2. McpKinds
  BY <1>1 DEF McpInit, McpKinds, McpTypeOK
<1>3. OneAnswerEach /\ Counted /\ Registered /\ Shown
  BY <1>1 DEF McpInit, OneAnswerEach, Counted, Registered, Shown
<1> QED  BY <1>2, <1>3 DEF McpIInv

\* Steps that leave the answers and the servers alone.
LEMMA McpQuietStep ==
  ASSUME McpIInv, UNCHANGED startvars, McpKinds', mcpInit' \in {"discovering", "registered"} => Heard = Servers,
         Registered', Shown'
  PROVE  McpIInv'
BY DEF McpIInv, startvars, OneAnswerEach, Counted, Heard

\* Taking a result counts its server, which was not counted before.
LEMMA CollectStep == McpIInv /\ Collect => McpIInv'
<1> SUFFICES ASSUME McpIInv, Collect PROVE McpIInv'
  OBVIOUS
<1> USE DEF McpIInv
<1> DEFINE h == Head(answers)
<1>1. /\ answers \in Seq(Answers) /\ answers # <<>> /\ Len(answers) \in Nat /\ heard \in Nat
      /\ Len(answers) > 0
  BY DEF McpKinds, McpTypeOK, Collect
<1>2. h = answers[1] /\ h \in Answers
  BY <1>1
<1>3. /\ answers' \in Seq(Answers) /\ Len(answers') = Len(answers) - 1
      /\ \A i \in 1 .. Len(answers') : i + 1 \in 1 .. Len(answers) /\ answers'[i] = answers[i + 1]
  BY <1>1, HeadTailProperties DEF Collect
<1>4. h.server \in Servers /\ h.ok \in BOOLEAN
  BY <1>2 DEF Answers
<1>5. h.server \notin Heard /\ dialing[h.server] = "done"
  BY <1>1, <1>2 DEF OneAnswerEach
<1>6. /\ heard' = heard + 1 /\ heard < Cardinality(Servers) /\ mcpInit = "starting"
      /\ clients' = IF h.ok THEN clients \cup {h.server} ELSE clients
      /\ failures' = IF h.ok THEN failures ELSE failures \cup {h.server}
      /\ UNCHANGED <<dialing, mcpInit, discovery, statusvars>>
  BY DEF Collect, Expected
<1> HIDE DEF h
<1>7. /\ Heard' = Heard \cup {h.server} /\ clients \subseteq clients' /\ failures \subseteq failures'
      /\ clients' \subseteq Servers /\ failures' \subseteq Servers
  BY <1>4, <1>6 DEF Heard, McpKinds
<1>8. Cardinality(Heard') = heard + 1
  <2>1. IsFiniteSet(Heard)
    BY McpAssumption, FS_Subset DEF Heard, McpKinds
  <2>2. Cardinality(Heard \cup {h.server}) = Cardinality(Heard) + 1
    BY <1>5, <2>1, FS_AddElement
  <2> QED  BY <1>7, <2>2 DEF Counted
<1>9. McpKinds'
  <2>1. Cardinality(Servers) \in Nat
    BY McpAssumption, FS_CardinalityType
  <2>2. heard' \in 0 .. Cardinality(Servers)
    BY <1>1, <1>6, <2>1
  <2> QED  BY <1>3, <1>6, <1>7, <2>2 DEF McpKinds, McpTypeOK, discovery, statusvars
<1>10. OneAnswerEach'
  <2>1. \A i \in 1 .. Len(answers') : /\ dialing'[answers'[i].server] = "done"
                                      /\ answers'[i].server \notin Heard /\ answers'[i].server # h.server
    <3> SUFFICES ASSUME NEW i \in 1 .. Len(answers')
                 PROVE  /\ dialing'[answers'[i].server] = "done"
                        /\ answers'[i].server \notin Heard /\ answers'[i].server # h.server
      OBVIOUS
    <3>1. i + 1 \in 1 .. Len(answers) /\ i + 1 # 1 /\ 1 \in 1 .. Len(answers) /\ answers'[i] = answers[i + 1]
      BY <1>1, <1>3
    <3> QED  BY <3>1, <1>2, <1>6 DEF OneAnswerEach
  <2>2. \A i, j \in 1 .. Len(answers') : answers'[i].server = answers'[j].server => i = j
    BY <1>1, <1>3 DEF OneAnswerEach
  <2>3. \A n \in Heard' : dialing'[n] = "done"
    BY <1>5, <1>6, <1>7 DEF OneAnswerEach
  <2> QED  BY <1>7, <2>1, <2>2, <2>3 DEF OneAnswerEach
<1>11. Counted'
  <2>1. clients' \cap failures' = {}
    BY <1>5, <1>6 DEF Counted, Heard
  <2> QED  BY <1>6, <1>8, <2>1 DEF Counted
<1>12. Registered' /\ Shown'
  BY <1>6, <1>7 DEF Registered, Shown, discovery, statusvars
<1> QED  BY <1>9, <1>10, <1>11, <1>12

\* A server that answers is none that answered before.
LEMMA SentStep ==
  ASSUME McpIInv, NEW n \in Servers, dialing[n] \in {"yes", "closing"}, NEW ok \in BOOLEAN, Sent(n, ok),
         UNCHANGED <<heard, clients, failures, mcpInit, discovery, statusvars>>
  PROVE  McpIInv'
<1> USE DEF McpIInv
<1>1. answers' = Append(answers, [server |-> n, ok |-> ok])
  BY DEF Sent
<1>2. /\ dialing[n] \in {"yes", "closing"} /\ dialing' = [dialing EXCEPT ![n] = "done"]
      /\ UNCHANGED <<heard, clients, failures, mcpInit, discovery, statusvars>>
  BY DEF Sent
<1>3. answers \in Seq(Answers) /\ Len(answers) \in Nat /\ [server |-> n, ok |-> ok] \in Answers
  BY DEF McpKinds, Answers
<1>4. /\ answers' \in Seq(Answers) /\ Len(answers') = Len(answers) + 1
      /\ \A i \in 1 .. Len(answers) : answers'[i] = answers[i]
      /\ answers'[Len(answers) + 1].server = n
  BY <1>1, <1>3, AppendProperties
<1>5. /\ dialing \in [Servers -> {"no", "yes", "closing", "done"}] /\ dialing'[n] = "done"
      /\ \A m \in Servers : dialing[m] = "done" => dialing'[m] = "done"
  BY <1>2 DEF McpKinds, McpTypeOK
<1>6. \A i \in 1 .. Len(answers) : answers[i].server # n /\ answers[i].server \in Servers
  <2>1. \A i \in 1 .. Len(answers) : answers[i] \in Answers
    BY <1>3, ElementOfSeq
  <2> QED  BY <1>2, <2>1 DEF OneAnswerEach, Answers
<1>7. Heard' = Heard /\ n \notin Heard /\ Heard \subseteq Servers
  BY <1>2 DEF Heard, OneAnswerEach, McpKinds
<1>8. McpKinds'
  <2>1. mcpInit # "new"
    BY <1>2 DEF McpKinds
  <2> QED  BY <1>2, <1>4, <2>1, <1>7 DEF McpKinds, McpTypeOK, discovery, statusvars
<1>9. OneAnswerEach'
  <2>1. \A i \in 1 .. Len(answers') : i \in 1 .. Len(answers) \/ i = Len(answers) + 1
    BY <1>3, <1>4
  <2>2. \A i \in 1 .. Len(answers') : dialing'[answers'[i].server] = "done" /\ answers'[i].server \notin Heard'
    BY <1>4, <1>5, <1>6, <1>7, <2>1 DEF OneAnswerEach
  <2>3. \A i, j \in 1 .. Len(answers') : answers'[i].server = answers'[j].server => i = j
    BY <1>4, <1>6, <2>1 DEF OneAnswerEach
  <2>4. \A m \in Heard' : dialing'[m] = "done"
    BY <1>5, <1>7 DEF OneAnswerEach
  <2> QED  BY <2>2, <2>3, <2>4 DEF OneAnswerEach
<1>10. Counted' /\ Registered' /\ Shown'
  BY <1>2, <1>7 DEF Counted, Registered, Shown, discovery, statusvars
<1> QED  BY <1>8, <1>9, <1>10

\* A server that is connected, refused or closed answers; one that is closed first does not yet.
LEMMA ConnectStep == ASSUME McpIInv, NEW n \in Servers, Connect(n) \/ CloseReturns(n) PROVE McpIInv'
<1>1. CASE \E ok \in BOOLEAN : Sent(n, ok)
  <2>1. dialing[n] \in {"yes", "closing"} /\ UNCHANGED <<heard, clients, failures, mcpInit, discovery, statusvars>>
    BY DEF Connect, CloseReturns
  <2> QED  BY <1>1, <2>1, SentStep
<1>2. CASE dialing[n] = "yes" /\ dialing' = [dialing EXCEPT ![n] = "closing"] /\ UNCHANGED answers
           /\ UNCHANGED <<heard, clients, failures, mcpInit, discovery, statusvars>>
  <2>1. dialing \in [Servers -> {"no", "yes", "closing", "done"}] /\ mcpInit # "new"
    BY <1>2 DEF McpIInv, McpKinds, McpTypeOK
  <2>2. \A m \in Servers : dialing[m] = "done" => dialing'[m] = "done"
    BY <1>2, <2>1
  <2>3. Heard' = Heard /\ Heard \subseteq Servers
    BY <1>2 DEF Heard, McpIInv, McpKinds
  <2>4. \A i \in 1 .. Len(answers) : answers[i].server \in Servers
    <3>1. answers \in Seq(Answers)
      BY DEF McpIInv, McpKinds
    <3>2. \A i \in 1 .. Len(answers) : answers[i] \in Answers
      BY <3>1, ElementOfSeq
    <3> QED  BY <3>2 DEF Answers
  <2>5. McpKinds'
    BY <1>2, <2>1, <2>3 DEF McpIInv, McpKinds, McpTypeOK, discovery, statusvars
  <2>6. OneAnswerEach'
    BY <1>2, <2>2, <2>3, <2>4 DEF McpIInv, OneAnswerEach
  <2>7. Counted' /\ Registered' /\ Shown'
    BY <1>2, <2>3 DEF McpIInv, Counted, Registered, Shown, discovery, statusvars
  <2> QED  BY <2>5, <2>6, <2>7 DEF McpIInv
<1> QED  BY <1>1, <1>2 DEF Connect, CloseReturns, Sent

\* What /mcp copies has every server at most once, and all when all were heard.
LEMMA SnapshotFacts ==
  ASSUME clients \cap failures = {}
  PROVE  /\ \A r, s \in Snapshot : r.server = s.server => r = s
         /\ \A r \in Snapshot : r.server \in IF r.asked THEN clients ELSE failures
         /\ {r.server : r \in Snapshot} = Heard
<1>1. \A r \in Snapshot : \/ r.server \in clients /\ r = [server |-> r.server, asked |-> TRUE]
                          \/ r.server \in failures /\ r = [server |-> r.server, asked |-> FALSE]
  BY DEF Snapshot
<1>2. \A r \in Snapshot : /\ r.asked => r.server \in clients
                          /\ ~r.asked => r.server \in failures
                          /\ r.server \in Heard
  BY <1>1 DEF Heard
<1>3. ASSUME NEW n \in Heard PROVE \E r \in Snapshot : r.server = n
  <2>1. CASE n \in clients
    <3>1. [server |-> n, asked |-> TRUE] \in Snapshot
      BY <2>1 DEF Snapshot
    <3> QED  BY <3>1
  <2>2. CASE n \in failures
    <3>1. [server |-> n, asked |-> FALSE] \in Snapshot
      BY <2>2 DEF Snapshot
    <3> QED  BY <3>1
  <2> QED  BY <2>1, <2>2 DEF Heard
<1>4. \A r, s \in Snapshot : r.server = s.server => r = s
  BY <1>1
<1> QED  BY <1>2, <1>3, <1>4

\* Every step keeps the invariant.
LEMMA McpNextIInv == McpIInv /\ [McpNext]_mcpvars => McpIInv'
<1> SUFFICES ASSUME McpIInv, [McpNext]_mcpvars PROVE McpIInv'
  OBVIOUS
<1> USE DEF McpIInv
<1>1. CASE StartAll
  <2>1. /\ answers = <<>> /\ Heard = {} /\ dialing' = [n \in Servers |-> "yes"] /\ mcpInit' = "starting"
        /\ UNCHANGED <<answers, heard, clients, failures, discovery, statusvars>>
    BY <1>1 DEF StartAll, McpKinds
  <2>2. Heard' = {} /\ Heard' = Heard /\ Len(answers') = 0
    BY <2>1 DEF Heard
  <2>3. McpKinds' /\ OneAnswerEach'
    BY <2>1, <2>2 DEF McpKinds, McpTypeOK, OneAnswerEach, discovery, statusvars
  <2> QED  BY <2>1, <2>2, <2>3 DEF Counted, Registered, Shown, discovery, statusvars
<1>2. CASE BeginDiscovery
  <2>1. Heard = Servers
    <3>1. Cardinality(Heard) = Cardinality(Servers)
      BY <1>2 DEF BeginDiscovery, Expected, Counted
    <3>2. Heard \in SUBSET Servers
      BY DEF Heard, McpKinds
    <3> QED  BY <3>1, <3>2, McpAssumption, FS_Subset
  <2>2. McpKinds' /\ Registered' /\ Shown' /\ UNCHANGED startvars
    BY <1>2 DEF BeginDiscovery, McpKinds, McpTypeOK, Registered, Shown, startvars, statusvars
  <2> QED  BY <2>1, <2>2, McpQuietStep
<1>3. CASE EndDiscovery
  <2>1. McpKinds' /\ Registered' /\ Shown' /\ UNCHANGED startvars /\ Heard = Servers
    BY <1>3 DEF EndDiscovery, McpKinds, McpTypeOK, Registered, Shown, Counted, startvars, statusvars
  <2> QED  BY <2>1, McpQuietStep
<1>4. ASSUME NEW n \in Servers, AskForTools(n) PROVE McpIInv'
  <2>1. PICK tools \in SUBSET Tools : registered' = registered \cup {[server |-> n, tool |-> t] : t \in tools}
    BY <1>4 DEF AskForTools
  <2>2. n \in clients /\ \A x \in registered' : x \in registered \/ x.server = n
    BY <1>4, <2>1 DEF AskForTools, Registered
  <2>3. Registered'
    BY <1>4, <2>2 DEF AskForTools, Registered, startvars
  <2>4. McpKinds' /\ Shown' /\ UNCHANGED startvars /\ UNCHANGED mcpInit
    BY <1>4 DEF AskForTools, McpKinds, McpTypeOK, Shown, startvars, statusvars
  <2> QED  BY <2>3, <2>4, McpQuietStep DEF Counted
<1>5. CASE BeginStatus
  <2>1. /\ UNCHANGED <<startvars, mcpInit, discovery>> /\ statusRows' = Snapshot /\ statusPc' = "listing"
        /\ shownAfter' = (heard = Cardinality(Servers))
    BY <1>5 DEF BeginStatus
  <2>2. shownAfter' => Heard = Servers
    <3>1. Heard \in SUBSET Servers
      BY DEF Heard, McpKinds
    <3> QED  BY <2>1, <3>1, McpAssumption, FS_Subset DEF Counted
  <2>3. Shown'
    BY <2>1, <2>2, SnapshotFacts DEF Shown, Counted, startvars
  <2>4. McpKinds' /\ Registered' /\ UNCHANGED startvars /\ UNCHANGED mcpInit
    BY <2>1 DEF McpKinds, Heard, McpTypeOK, Registered, startvars, discovery
  <2> QED  BY <2>3, <2>4, McpQuietStep DEF Counted
<1>6. CASE EndStatus
  <2>1. McpKinds' /\ Registered' /\ Shown' /\ UNCHANGED startvars /\ UNCHANGED mcpInit
    BY <1>6 DEF EndStatus, McpKinds, Heard, McpTypeOK, Registered, Shown, startvars, discovery
  <2> QED  BY <2>1, McpQuietStep DEF Counted
<1>7. CASE UNCHANGED mcpvars
  BY <1>7 DEF mcpvars, startvars, discovery, statusvars, McpKinds, McpTypeOK, OneAnswerEach, Counted, Heard,
              Registered, Shown
<1> QED  BY <1>1, <1>2, <1>3, <1>4, <1>5, <1>6, <1>7, CollectStep, ConnectStep DEF McpNext

\* What the invariant says of the servers.
LEMMA McpTells == McpIInv => McpTypeOK /\ ServersAreToldApart
BY DEF McpIInv, McpKinds, Counted, Registered, Shown, ServersAreToldApart, Heard

(* For any set of servers, each is connected or failed and never both, the  *)
(* tools registered are of connected ones, and /mcp shows every server once *)
(* when all have been heard (mcp/manager.go:43, mcp/manager.go:131).        *)
THEOREM ServersApart == McpSpec => [](McpTypeOK /\ ServersAreToldApart)
BY McpTells, McpInitIInv, McpNextIInv, PTL DEF McpSpec

-----------------------------------------------------------------------------

(***************************************************************************)
(* One bulk call.  Every shell is of a job of its own and says how that    *)
(* one stands, and every job that was run has one (ShellsStand): so what   *)
(* the summary counts of the jobs is what the shells came to.              *)
(***************************************************************************)
JobStates == {"waiting", "running", "keep", "drop", "skipped", "ok", "error"}
Shell == [item : Path, job : Nat, end : {"none", "ok", "error"}]

\* A call that has not been refused, and what it works on.
BulkKind(b) ==
  /\ b.phase \in {"filter", "run", "summary", "done"}
  /\ DOMAIN b = {"phase", "call", "ctx", "items", "jobs", "matched"} \cup IF b.phase = "done" THEN {"answer"} ELSE {}
  /\ b.call \in BulkCalls /\ ~Refused(b.call) /\ b.ctx \in {"alive", "ended"}
  /\ b.items \in Scanned(b.call)
  /\ b.matched \in Seq(Path) /\ Range(b.matched) \subseteq Range(b.items)
  /\ b.jobs \in Seq(JobStates)

\* The states of the jobs in each phase, within the limit.
JobsStand(b) ==
  /\ b.phase = "filter" => /\ Len(b.jobs) = Len(b.items) /\ b.matched = <<>>
                           /\ \A i \in DOMAIN b.jobs : b.jobs[i] \in {"waiting", "running", "keep", "drop"}
  /\ b.phase # "filter" => /\ Len(b.jobs) = Len(b.matched)
                           /\ b.call.dry => b.phase # "run" /\ \A i \in DOMAIN b.jobs : b.jobs[i] = "skipped"
                           /\ ~b.call.dry => \A i \in DOMAIN b.jobs :
                                 \/ b.jobs[i] \in {"ok", "error"}
                                 \/ b.phase = "run" /\ b.jobs[i] \in {"waiting", "running"}
  /\ Cardinality({i \in DOMAIN b.jobs : b.jobs[i] = "running"}) <= b.call.limit

\* One shell for each job that was started, and it says how that one stands.
ShellsStand(b, sh) ==
  /\ b.phase = "filter" \/ b.call.dry => sh = <<>>
  /\ \A k \in DOMAIN sh : /\ sh[k].job \in DOMAIN b.jobs /\ sh[k].item = b.matched[sh[k].job]
                          /\ b.jobs[sh[k].job] = IF sh[k].end = "none" THEN "running" ELSE sh[k].end
  /\ \A k, l \in DOMAIN sh : sh[k].job = sh[l].job => k = l
  /\ b.phase # "filter" => \A i \in DOMAIN b.jobs :
        b.jobs[i] \in {"running", "ok"} \/ (b.jobs[i] = "error" /\ b.ctx = "alive") =>
          \E k \in DOMAIN sh : sh[k].job = i

BulkStands(b, sh) ==
  /\ sh \in Seq(Shell)
  /\ \/ b = BulkIdle /\ sh = <<>>
     \/ b.phase = "refused" /\ sh = <<>>
     \/ /\ BulkKind(b) /\ JobsStand(b) /\ ShellsStand(b, sh)
        /\ b.phase = "done" => \E order \in ResultOrders(b) : b.answer = BulkSummary(b, order)

BulkIInv == BulkStands(bulk, shells)

-----------------------------------------------------------------------------
\* What a call asks for.
LEMMA CallFacts ==
  ASSUME NEW call \in BulkCalls
  PROVE  /\ call.source \in Sources \cup {"none"} /\ call.depth \in Nat \ {0} /\ call.limit \in Nat \ {0}
         /\ call.paths \in Seq(Path) /\ call.dry \in BOOLEAN
         /\ ~call.dry /\ IsMutating(call.command) => call.explicit
<1>1. \A n \in Nat, m \in Nat \ {0} : Positive(n, m) \in Nat \ {0}
  BY DEF Positive
<1>0. BulkConcurrency \in Nat \ {0} /\ 1 \in Nat \ {0}
  BY BulkAssumption
<1>2. CASE \E a \in ToolArgs : call = ToolCall(a)
  <2>1. PICK a \in ToolArgs : call = ToolCall(a)
    BY <1>2
  <2>2. /\ a.source \in Sources /\ a.depth \in Nat /\ a.concurrency \in Nat /\ a.paths \in Seq(Path)
        /\ a.dryRun \in {"unset", "true", "false"}
    BY BulkAssumption
  <2>3. /\ call.source = a.source /\ call.depth = Positive(a.depth, 1) /\ call.limit = Positive(a.concurrency, BulkConcurrency)
        /\ call.paths = a.paths /\ call.dry = DryRunArg(a) /\ call.command = a.command /\ call.explicit = (a.dryRun = "false")
    BY <2>1 DEF ToolCall
  <2>4. Positive(a.depth, 1) \in Nat \ {0} /\ Positive(a.concurrency, BulkConcurrency) \in Nat \ {0}
    BY <1>0, <1>1, <2>2
  <2>5. DryRunArg(a) \in BOOLEAN /\ (~DryRunArg(a) /\ IsMutating(a.command) => a.dryRun = "false")
    BY <2>2 DEF DryRunArg, IsMutating
  <2> QED  BY <2>2, <2>3, <2>4, <2>5
<1>3. CASE \E a \in CommandArgs : call = CommandCall(a)
  <2>1. PICK a \in CommandArgs : call = CommandCall(a)
    BY <1>3
  <2>2. a.depth \in Nat /\ a.concurrency \in Nat /\ a.paths \in Seq(Path) /\ a.dryRun \in BOOLEAN
    BY BulkAssumption
  <2>3. /\ call.source = SourceOfFlags(a.flags) /\ call.depth = Positive(a.depth, 1)
        /\ call.limit = Positive(a.concurrency, BulkConcurrency)
        /\ call.paths = a.paths /\ call.dry = a.dryRun /\ call.explicit = TRUE
    BY <2>1 DEF CommandCall
  <2>4. Positive(a.depth, 1) \in Nat \ {0} /\ Positive(a.concurrency, BulkConcurrency) \in Nat \ {0}
    BY <1>0, <1>1, <2>2
  <2>5. SourceOfFlags(a.flags) \in Sources \cup {"none"}
    <3> DEFINE order == <<"git_repos", "dirs", "files", "list">>
               given == {k \in DOMAIN order : order[k] \in a.flags}
    <3>1. CASE given = {}
      BY <3>1 DEF SourceOfFlags
    <3>2. CASE given # {}
      <4>1. given \subseteq 1 .. 4 /\ \A k \in 1 .. 4 : order[k] \in Sources
        BY DEF Sources
      <4>2. \E m \in given : \A k \in given : m <= k
        <5>1. given \subseteq {1, 2, 3, 4}
          BY <4>1
        <5> HIDE DEF given
        <5>2. 1 \in given \/ 2 \in given \/ 3 \in given \/ 4 \in given
          BY <3>2, <5>1
        <5>3. \A k \in given : k = 1 \/ k = 2 \/ k = 3 \/ k = 4
          BY <5>1
        <5> QED  BY <5>2, <5>3
      <4> HIDE DEF given
      <4>3. Min(given) \in given
        BY <4>2 DEF Min
      <4>4. SourceOfFlags(a.flags) = order[Min(given)]
        BY <3>2 DEF SourceOfFlags, given
      <4> QED  BY <4>1, <4>3, <4>4
    <3> QED  BY <3>1, <3>2
  <2> QED  BY <2>2, <2>3, <2>4, <2>5
<1> QED  BY <1>2, <1>3 DEF BulkCalls

-----------------------------------------------------------------------------
\* f matches the members of A and those of U, one to one.
Matches(f, A, U) ==
  /\ \A x \in A : f[x] \in U
  /\ \A x, y \in A : f[x] = f[y] => x = y
  /\ \A u \in U : \E x \in A : f[x] = u

\* What is matched has as many members as what it is matched with.
LEMMA MatchedCount ==
  ASSUME NEW f, NEW A, NEW U, IsFiniteSet(A), Matches(f, A, U)
  PROVE  IsFiniteSet(U) /\ Cardinality(U) = Cardinality(A)
<1> DEFINE g == [x \in A |-> f[x]]
<1>1. g \in [A -> U] /\ (\A x, y \in DOMAIN g : g[x] = g[y] => x = y) /\ \A u \in U : \E x \in A : g[x] = u
  BY DEF Matches
<1> HIDE DEF g
<1>2. g \in Bijection(A, U)
  BY <1>1 DEF Bijection, Injection, Surjection, IsInjective
<1>3. ExistsBijection(A, U)
  BY <1>2 DEF ExistsBijection
<1> QED  BY <1>3, FS_Bijection

\* What a sort of the members of a set is: each of them once.
LEMMA SortedFacts ==
  ASSUME NEW I, IsFiniteSet(I), NEW order \in Bijection(1 .. Cardinality(I), I)
  PROVE  /\ Cardinality(I) \in Nat /\ DOMAIN order = 1 .. Cardinality(I)
         /\ order \in [1 .. Cardinality(I) -> I] /\ order \in Seq(I) /\ Len(order) = Cardinality(I)
         /\ \A k, l \in DOMAIN order : order[k] = order[l] => k = l
         /\ \A i \in I : \E k \in DOMAIN order : order[k] = i
<1>1. Cardinality(I) \in Nat
  BY FS_CardinalityType
<1>2. /\ order \in [1 .. Cardinality(I) -> I] /\ \A k, l \in DOMAIN order : order[k] = order[l] => k = l
      /\ \A i \in I : \E k \in 1 .. Cardinality(I) : order[k] = i
  BY DEF Bijection, Injection, Surjection, IsInjective
<1> DEFINE n == Cardinality(I)
<1> HIDE DEF n
<1>3. n \in Nat /\ order \in [1 .. n -> I] => order \in Seq(I) /\ Len(order) = n /\ DOMAIN order = 1 .. n
  OBVIOUS
<1> QED  BY <1>1, <1>2, <1>3 DEF n

\* The indices of a sequence are finitely many, as many as it is long.
LEMMA IndexFacts ==
  ASSUME NEW S, NEW s \in Seq(S)
  PROVE  /\ DOMAIN s = 1 .. Len(s) /\ Len(s) \in Nat
         /\ IsFiniteSet(DOMAIN s) /\ Cardinality(DOMAIN s) = Len(s)
         /\ \A I \in SUBSET DOMAIN s : IsFiniteSet(I) /\ Cardinality(I) \in Nat /\ Cardinality(I) <= Len(s)
<1> DEFINE n == Len(s)
<1>1. DOMAIN s = 1 .. n /\ n \in Nat
  OBVIOUS
<1> HIDE DEF n
<1>2. IsFiniteSet(1 .. n) /\ Cardinality(1 .. n) = n
  BY <1>1, FS_Interval
<1>3. ASSUME NEW I \in SUBSET (1 .. n) PROVE IsFiniteSet(I) /\ Cardinality(I) \in Nat /\ Cardinality(I) <= n
  BY <1>2, FS_Subset, FS_CardinalityType
<1> QED  BY <1>1, <1>2, <1>3 DEF n

\* Items taken from a list by some of its indices, in any order.
LEMMA TakenFacts ==
  ASSUME NEW paths \in Seq(Path), NEW I \in SUBSET DOMAIN paths, NEW items \in InNameOrder(paths, I)
  PROVE  items \in Seq(Path) /\ Range(items) \subseteq Range(paths)
<1>1. PICK order \in NameOrders(paths, I) : items = Taken(paths, order)
  BY DEF InNameOrder
<1>2. IsFiniteSet(I)
  BY IndexFacts
<1>3. order \in Bijection(1 .. Cardinality(I), I)
  BY <1>1 DEF NameOrders
<1>4. order \in Seq(I) /\ DOMAIN order = 1 .. Len(order) /\ Len(order) \in Nat /\ \A k \in DOMAIN order : order[k] \in I
  BY <1>2, <1>3, SortedFacts
<1>5. \A i \in I : paths[i] \in Path /\ paths[i] \in Range(paths)
  BY DEF Range
<1>6. items = [k \in 1 .. Len(order) |-> paths[order[k]]]
  BY <1>1, <1>4 DEF Taken
<1>7. \A k \in 1 .. Len(order) : paths[order[k]] \in Path /\ paths[order[k]] \in Range(paths)
  BY <1>4, <1>5
<1>8. items \in [1 .. Len(order) -> Path]
  BY <1>6, <1>7
<1>9. items \in Seq(Path)
  <2> DEFINE n == Len(order)
  <2>1. n \in Nat /\ items \in [1 .. n -> Path]
    BY <1>4, <1>8
  <2> HIDE DEF n
  <2> QED  BY <2>1
<1> QED  BY <1>6, <1>7, <1>9 DEF Range

\* A scan lists paths, and every directory or file it finds.
LEMMA ScanFacts ==
  ASSUME NEW call \in BulkCalls, ~Refused(call), NEW items \in Scanned(call)
  PROVE  /\ items \in Seq(Path)
         /\ call.source \in {"git_repos", "dirs"} => Range(items) = WalkDirs(call)
<1>1. call.source \in Sources /\ call.paths \in Seq(Path)
  BY CallFacts DEF Refused, Sources
<1>2. ASSUME NEW S, S \subseteq Path, IsFiniteSet(S), items \in InPathOrder(S)
      PROVE  items \in Seq(Path) /\ Range(items) = S
  <2>1. items \in Bijection(1 .. Cardinality(S), S)
    BY <1>2 DEF InPathOrder
  <2>2. /\ items \in Seq(S) /\ items \in [1 .. Cardinality(S) -> S] /\ DOMAIN items = 1 .. Cardinality(S)
        /\ \A i \in S : \E k \in DOMAIN items : items[k] = i
    BY <1>2, <2>1, SortedFacts
  <2>3. items \in [1 .. Cardinality(S) -> Path] /\ Cardinality(S) \in Nat
    BY <1>2, <2>2, FS_CardinalityType
  <2> QED  BY <2>2, <2>3 DEF Range
<1>3. CASE call.source \in {"git_repos", "dirs"}
  <2>1. Scanned(call) = InPathOrder(WalkDirs(call))
    BY <1>3 DEF Scanned
  <2>2. WalkDirs(call) \subseteq BulkWorld.dirs
    BY DEF WalkDirs, ReadDir
  <2>3. BulkWorld.dirs \subseteq Path /\ IsFiniteSet(BulkWorld.dirs)
    BY BulkAssumption
  <2>4. IsFiniteSet(WalkDirs(call))
    BY <2>2, <2>3, FS_Subset
  <2> QED  BY <1>2, <2>1, <2>2, <2>3, <2>4
<1>4. CASE call.source = "files"
  <2> DEFINE F == {f \in BulkWorld.files : Last(f) = call.pattern}
  <2>1. Scanned(call) = InPathOrder(F)
    BY <1>4 DEF Scanned
  <2>2. F \subseteq BulkWorld.files
    OBVIOUS
  <2>3. BulkWorld.files \subseteq Path /\ IsFiniteSet(BulkWorld.files)
    BY BulkAssumption
  <2> HIDE DEF F
  <2>4. IsFiniteSet(F)
    BY <2>2, <2>3, FS_Subset
  <2> QED  BY <1>2, <1>4, <2>1, <2>2, <2>3, <2>4
<1>5. CASE call.source = "list"
  <2>1. Scanned(call) = InNameOrder(call.paths, DOMAIN call.paths)
    BY <1>5 DEF Scanned
  <2> QED  BY <1>1, <1>5, <2>1, TakenFacts
<1> QED  BY <1>1, <1>3, <1>4, <1>5 DEF Sources

\* What walkDirs comes to is a part of the tree, with the root, closed under its step, and in
\* every such part.
LEMMA VisitedFacts ==
  ASSUME NEW call
  PROVE  /\ Visited(call) \subseteq BulkWorld.dirs /\ <<>> \in Visited(call)
         /\ \A d \in Visited(call) : \A e \in ReadDir(call, d) : ~DirMatch(call, e) => e \in Visited(call)
         /\ \A S \in SUBSET BulkWorld.dirs :
              <<>> \in S /\ (\A d \in S : \A e \in ReadDir(call, d) : ~DirMatch(call, e) => e \in S) => Visited(call) \subseteq S
<1>1. <<>> \in BulkWorld.dirs
  BY BulkAssumption
<1>2. \A d : ReadDir(call, d) \subseteq BulkWorld.dirs
  BY DEF ReadDir
<1>3. Visited(call) \subseteq BulkWorld.dirs /\ <<>> \in Visited(call)
  BY <1>1 DEF Visited
<1>4. ASSUME NEW d \in Visited(call), NEW e \in ReadDir(call, d), ~DirMatch(call, e) PROVE e \in Visited(call)
  <2>1. ASSUME NEW S \in SUBSET BulkWorld.dirs,
               <<>> \in S, \A x \in S : \A y \in ReadDir(call, x) : ~DirMatch(call, y) => y \in S
        PROVE  e \in S
    <3>1. d \in S
      BY <2>1 DEF Visited
    <3> QED  BY <1>4, <2>1, <3>1
  <2>2. e \in BulkWorld.dirs
    BY <1>2, <1>4
  <2> QED  BY <2>1, <2>2 DEF Visited
<1>5. ASSUME NEW S \in SUBSET BulkWorld.dirs,
             <<>> \in S, \A d \in S : \A e \in ReadDir(call, d) : ~DirMatch(call, e) => e \in S
      PROVE  Visited(call) \subseteq S
  BY <1>5 DEF Visited
<1> QED  BY <1>3, <1>4, <1>5

\* A path without its last name, and the prefixes of both.
LEMMA PrefixFacts ==
  ASSUME NEW e \in Path, e # <<>>
  PROVE  /\ Front(e) \in Path /\ Len(e) \in Nat \ {0} /\ Len(Front(e)) = Len(e) - 1
         /\ Front(e) = SubSeq(e, 1, Len(e) - 1)
         /\ \A d \in Path : IsPrefix(d, e) => d = e \/ IsPrefix(d, Front(e))
<1> DEFINE n == Len(e)  f == SubSeq(e, 1, n - 1)
<1>1. n \in Nat /\ n # 0 /\ n = Len(e) /\ \A i \in 1 .. n : e[i] \in Nat
  BY DEF Path
<1> HIDE DEF n
<1>2. f \in Seq(Nat) /\ Len(f) = n - 1 /\ \A i \in 1 .. n - 1 : f[i] = e[i]
  BY <1>1, SubSeqProperties
<1>3. Front(e) = f
  BY DEF Front, n
<1> HIDE DEF f
<1>4. ASSUME NEW d \in Path, IsPrefix(d, e), d # e PROVE IsPrefix(d, f)
  <2> DEFINE m == Len(d)
  <2>1. m \in Nat /\ m = Len(d) /\ d \in Seq(Nat) /\ e \in Seq(Nat) /\ m <= n /\ SubSeq(d, 1, m) = SubSeq(e, 1, m)
    BY <1>1, <1>4 DEF IsPrefix, n, Path
  <2> HIDE DEF m
  <2>2. SubSeq(d, 1, m) = d
    BY <2>1
  <2>3. m # n
    <3> SUFFICES ASSUME m = n PROVE FALSE
      OBVIOUS
    <3>1. SubSeq(e, 1, n) = e
      BY <1>1, <2>1
    <3> QED  BY <1>4, <2>1, <2>2, <3>1
  <2>4. m <= n - 1
    BY <1>1, <2>1, <2>3
  <2>5. SubSeq(f, 1, m) = SubSeq(e, 1, m)
    <3>1. SubSeq(f, 1, m) \in Seq(Nat) /\ Len(SubSeq(f, 1, m)) = m /\ \A i \in 1 .. m : SubSeq(f, 1, m)[i] = f[i]
      BY <1>1, <1>2, <2>1, <2>4, SubSeqProperties
    <3>2. SubSeq(e, 1, m) \in Seq(Nat) /\ Len(SubSeq(e, 1, m)) = m /\ \A i \in 1 .. m : SubSeq(e, 1, m)[i] = e[i]
      BY <1>1, <2>1, SubSeqProperties
    <3>3. \A i \in 1 .. m : f[i] = e[i]
      BY <1>1, <1>2, <2>1, <2>4
    <3> QED  BY <2>1, <3>1, <3>2, <3>3
  <2> QED  BY <1>2, <2>1, <2>4, <2>5 DEF IsPrefix
<1> QED  BY <1>1, <1>2, <1>3, <1>4 DEF n, f, Path

\* No directory a walk comes to has matched, nor one above it.
LEMMA VisitedUnmatched ==
  ASSUME NEW call, NEW v \in Visited(call), NEW d \in Path, d # <<>>, IsPrefix(d, v)
  PROVE  ~DirMatch(call, d)
<1> DEFINE S == {x \in Visited(call) : \A p \in Path : p # <<>> /\ IsPrefix(p, x) => ~DirMatch(call, p)}
<1>1. <<>> \in S
  <2> SUFFICES ASSUME NEW p \in Path, p # <<>>, IsPrefix(p, <<>>) PROVE FALSE
    BY VisitedFacts
  <2>1. Len(p) <= 0 /\ Len(p) \in Nat
    BY DEF IsPrefix, Path
  <2> QED  BY <2>1 DEF Path
<1>2. ASSUME NEW x \in S, NEW e \in ReadDir(call, x), ~DirMatch(call, e) PROVE e \in S
  <2>1. e \in BulkWorld.dirs /\ e # <<>> /\ Front(e) = x
    BY <1>2 DEF ReadDir
  <2>2. e \in Path
    BY <2>1, BulkAssumption
  <2>3. ASSUME NEW p \in Path, p # <<>>, IsPrefix(p, e) PROVE ~DirMatch(call, p)
    <3>1. p = e \/ IsPrefix(p, x)
      BY <2>1, <2>2, <2>3, PrefixFacts
    <3> QED  BY <1>2, <2>3, <3>1
  <2>4. e \in Visited(call)
    BY <1>2, VisitedFacts
  <2> QED  BY <2>3, <2>4
<1>3. S \in SUBSET BulkWorld.dirs
  BY VisitedFacts
<1> HIDE DEF S
<1>4. Visited(call) \subseteq S
  BY <1>1, <1>2, <1>3, VisitedFacts
<1> QED  BY <1>4 DEF S

\* A set of naturals has a least member.
LEMMA SomeSmallest ==
  ASSUME NEW S, S \subseteq Nat, S # {}
  PROVE  \E x \in S : \A y \in S : x <= y
<1> DEFINE T == {0 .. s : s \in S}
<1>1. ASSUME NEW s \in S PROVE 0 .. s \in FiniteSubsetsOf(Nat)
  <2>1. s \in Int /\ 0 \in Int
    OBVIOUS
  <2>2. IsFiniteSet(0 .. s)
    BY <2>1, FS_Interval
  <2>3. 0 .. s \in SUBSET Nat
    BY <2>1
  <2> QED  BY <2>2, <2>3 DEF FiniteSubsetsOf
<1>2. T \subseteq FiniteSubsetsOf(Nat) /\ T # {}
  BY <1>1
<1>3. PICK x \in T : \A y \in T : ~(<<y, x>> \in StrictSubsetOrdering(Nat))
  <2>1. IsWellFoundedOn(StrictSubsetOrdering(Nat), FiniteSubsetsOf(Nat))
    BY FS_StrictSubsetOrderingWellFounded
  <2> HIDE DEF T
  <2> QED  BY <1>2, <2>1, WFMin
<1>4. PICK a \in S : x = 0 .. a
  BY <1>3
<1>5. ASSUME NEW b \in S PROVE a <= b
  <2>1. a \in Nat /\ b \in Nat
    OBVIOUS
  <2>2. ~(<<0 .. b, 0 .. a>> \in StrictSubsetOrdering(Nat))
    BY <1>3, <1>4
  <2> HIDE DEF T
  <2>3. ASSUME b < a PROVE FALSE
    <3>1. 0 .. b \subseteq 0 .. a /\ a \in 0 .. a /\ a \notin 0 .. b
      BY <2>1, <2>3
    <3>2. 0 .. b \in SUBSET Nat /\ 0 .. a \in SUBSET Nat
      BY <2>1
    <3>3. <<0 .. b, 0 .. a>> \in StrictSubsetOrdering(Nat)
      BY <3>1, <3>2 DEF StrictSubsetOrdering
    <3> QED  BY <2>2, <3>3
  <2> QED  BY <2>1, <2>3
<1> QED  BY <1>5

\* WHAT A WALK FINDS: directories that match, within the depth, none within another, and every one
\* that lies in no other it finds and in none it cannot read.
LEMMA WalkFinds ==
  ASSUME NEW call \in BulkCalls
  PROVE  LET found == WalkDirs(call)
             within(d) == {SubSeq(d, 1, n) : n \in 0 .. Len(d) - 1} IN
         /\ \A d \in found : DirMatch(call, d) /\ Len(d) <= call.depth
         /\ \A d, e \in found : ~IsStrictPrefix(d, e)
         /\ \A d \in BulkWorld.dirs : DirMatch(call, d) /\ Len(d) \in 1 .. call.depth =>
               \/ d \in found
               \/ within(d) \cap (found \cup BulkWorld.unreadable) # {}
<1> DEFINE found == WalkDirs(call)  within(d) == {SubSeq(d, 1, n) : n \in 0 .. Len(d) - 1}
<1>1. call.depth \in Nat \ {0}
  BY CallFacts
<1>2. \A d \in BulkWorld.dirs : d \in Path /\ d \in Seq(Nat)
  BY BulkAssumption DEF Path
<1>3. ASSUME NEW e \in found
      PROVE  /\ DirMatch(call, e) /\ e \in Path /\ e # <<>> /\ Front(e) \in Visited(call)
             /\ Len(e) <= call.depth
  <2>1. PICK v \in Visited(call) : e \in ReadDir(call, v)
    BY DEF WalkDirs
  <2>2. DirMatch(call, e) /\ e \in BulkWorld.dirs /\ e # <<>> /\ Front(e) = v /\ ~(Len(v) >= call.depth)
    BY <2>1 DEF WalkDirs, ReadDir
  <2>3. e \in Path
    BY <1>2, <2>2
  <2>4. Len(e) \in Nat \ {0} /\ Len(v) = Len(e) - 1
    BY <2>2, <2>3, PrefixFacts
  <2> DEFINE l == Len(e)  m == Len(v)
  <2> HIDE DEF l, m
  <2>5. l <= call.depth
    BY <1>1, <2>2, <2>4 DEF l, m
  <2> QED  BY <2>1, <2>2, <2>3, <2>5 DEF l
<1>4. ASSUME NEW d \in found, NEW e \in found, IsStrictPrefix(d, e) PROVE FALSE
  <2>1. IsPrefix(d, e) /\ d # e
    BY <1>4 DEF IsStrictPrefix
  <2>2. IsPrefix(d, Front(e))
    BY <1>3, <2>1, PrefixFacts
  <2> QED  BY <1>3, <2>2, VisitedUnmatched
<1>5. ASSUME NEW d \in BulkWorld.dirs, DirMatch(call, d), Len(d) \in 1 .. call.depth,
             d \notin found, within(d) \cap (found \cup BulkWorld.unreadable) = {}
      PROVE  FALSE
  <2> DEFINE L == Len(d)  pre(n) == SubSeq(d, 1, n)  N == {n \in 0 .. L - 1 : pre(n) \notin Visited(call)}
  <2>1. L \in Nat \ {0} /\ L <= call.depth /\ L = Len(d) /\ d \in Seq(Nat) /\ d # <<>>
    <3>1. d \in Seq(Nat)
      BY <1>2
    <3> QED  BY <1>1, <1>5, <3>1
  <2> HIDE DEF L
  <2>2. pre(0) = <<>>
    BY <2>1
  <2>3. \A n \in 0 .. L : pre(n) \in Seq(Nat) /\ Len(pre(n)) = n
    BY <2>1, SubSeqProperties
  <2>4. \A n \in 1 .. L : pre(n) # <<>> /\ Front(pre(n)) = pre(n - 1)
    <3> SUFFICES ASSUME NEW n \in 1 .. L PROVE pre(n) # <<>> /\ Front(pre(n)) = pre(n - 1)
      OBVIOUS
    <3>1. n \in 0 .. L /\ n - 1 \in 0 .. L /\ n \in Nat /\ n # 0 /\ n - 1 \in Nat
      BY <2>1
    <3>2. pre(n) \in Seq(Nat) /\ Len(pre(n)) = n /\ \A i \in 1 .. n : pre(n)[i] = d[i]
      BY <2>1, <3>1, SubSeqProperties
    <3>3. pre(n - 1) \in Seq(Nat) /\ Len(pre(n - 1)) = n - 1 /\ \A i \in 1 .. n - 1 : pre(n - 1)[i] = d[i]
      BY <2>1, <3>1, SubSeqProperties
    <3> DEFINE x == pre(n)  y == pre(n - 1)
    <3> HIDE DEF x, y
    <3>4. SubSeq(x, 1, n - 1) \in Seq(Nat) /\ Len(SubSeq(x, 1, n - 1)) = n - 1
            /\ \A i \in 1 .. n - 1 : SubSeq(x, 1, n - 1)[i] = x[i]
      BY <3>1, <3>2, SubSeqProperties DEF x
    <3>5. \A i \in 1 .. n - 1 : x[i] = y[i]
      BY <3>1, <3>2, <3>3 DEF x, y
    <3>6. SubSeq(x, 1, n - 1) = y
      BY <3>1, <3>3, <3>4, <3>5 DEF y
    <3>7. Front(x) = SubSeq(x, 1, n - 1)
      BY <3>2 DEF Front, x
    <3> QED  BY <3>1, <3>2, <3>6, <3>7 DEF x, y
  <2>5. pre(L) = d
    BY <2>1
  <2>6. \A n \in 0 .. L - 1 : pre(n) \notin found /\ pre(n) \notin BulkWorld.unreadable
    <3> SUFFICES ASSUME NEW n \in 0 .. L - 1 PROVE pre(n) \notin found /\ pre(n) \notin BulkWorld.unreadable
      OBVIOUS
    <3>1. pre(n) \in within(d)
      BY DEF L
    <3> QED  BY <1>5, <3>1
  \* A directory under a visited one is listed, and visited unless it matches.
  <2>7. ASSUME NEW n \in 1 .. L, pre(n - 1) \in Visited(call), pre(n) \in BulkWorld.dirs
        PROVE  pre(n) \in ReadDir(call, pre(n - 1))
    <3>1. n - 1 \in 0 .. L - 1 /\ n - 1 \in 0 .. L /\ ~(n - 1 >= call.depth)
      BY <1>1, <2>1
    <3>2. ~(Len(pre(n - 1)) >= call.depth) /\ pre(n - 1) \notin BulkWorld.unreadable
      BY <2>3, <2>6, <3>1
    <3>3. pre(n) # <<>> /\ Front(pre(n)) = pre(n - 1)
      BY <2>4
    <3> HIDE DEF pre
    <3> QED  BY <2>7, <3>2, <3>3 DEF ReadDir
  <2>8. \A n \in 0 .. L : pre(n) \in BulkWorld.dirs
    <3> DEFINE M == {n \in 0 .. L : pre(L - n) \notin BulkWorld.dirs}
    <3> SUFFICES ASSUME M # {} PROVE FALSE
      <4>1. \A n \in 0 .. L : L - n \in 0 .. L /\ L - (L - n) = n
        BY <2>1
      <4> HIDE DEF pre
      <4> QED  BY <4>1
    <3>1. M \subseteq Nat
      BY <2>1
    <3> HIDE DEF M
    <3>2. PICK m \in M : \A j \in M : m <= j
      BY <3>1, SomeSmallest
    <3>3. m \in 0 .. L /\ pre(L - m) \notin BulkWorld.dirs
      BY <3>2 DEF M
    <3>4. m # 0
      <4> HIDE DEF pre
      <4>1. L - 0 = L
        BY <2>1
      <4>2. pre(L) \in BulkWorld.dirs
        BY <2>5
      <4> QED  BY <3>3, <4>1, <4>2
    <3>5. m - 1 \in 0 .. L /\ ~(m <= m - 1) /\ L - (m - 1) \in 1 .. L /\ (L - (m - 1)) - 1 = L - m
      BY <2>1, <3>3, <3>4
    <3> HIDE DEF pre
    <3>6. pre(L - (m - 1)) \in BulkWorld.dirs
      BY <3>2, <3>5 DEF M
    <3>7. Front(pre(L - (m - 1))) = pre(L - m) /\ pre(L - (m - 1)) # <<>>
      BY <2>4, <3>5
    <3>8. \A x \in BulkWorld.dirs \ {<<>>} : Front(x) \in BulkWorld.dirs
      BY BulkAssumption
    <3> QED  BY <3>3, <3>6, <3>7, <3>8
  <2>9. N = {}
    <3> SUFFICES ASSUME N # {} PROVE FALSE
      OBVIOUS
    <3>1. N \subseteq Nat
      BY <2>1
    <3> HIDE DEF N
    <3>2. PICK m \in N : \A j \in N : m <= j
      BY <3>1, SomeSmallest
    <3>3. m \in 0 .. L - 1 /\ pre(m) \notin Visited(call)
      BY <3>2 DEF N
    <3>4. m # 0
      BY <2>2, <3>3, VisitedFacts
    <3>5. m - 1 \in 0 .. L - 1 /\ ~(m <= m - 1) /\ m \in 1 .. L /\ m \in 0 .. L
      BY <2>1, <3>3, <3>4
    <3> HIDE DEF pre
    <3>6. pre(m - 1) \in Visited(call)
      BY <3>2, <3>5 DEF N
    <3>7. pre(m) \in ReadDir(call, pre(m - 1))
      BY <2>7, <2>8, <3>5, <3>6
    <3>8. DirMatch(call, pre(m))
      BY <3>3, <3>6, <3>7, VisitedFacts
    <3>9. pre(m) \in found
      BY <3>6, <3>7, <3>8 DEF WalkDirs
    <3> QED  BY <2>6, <3>3, <3>9
  <2>10. L - 1 \in 0 .. L - 1 /\ L \in 1 .. L /\ L \in 0 .. L
    BY <2>1
  <2> HIDE DEF pre
  <2>11. pre(L - 1) \in Visited(call)
    BY <2>9, <2>10
  <2>12. pre(L) \in ReadDir(call, pre(L - 1))
    BY <2>7, <2>8, <2>10, <2>11
  <2> QED  BY <1>5, <2>5, <2>11, <2>12 DEF WalkDirs
<1> QED  BY <1>3, <1>4, <1>5

RunningIn(b) == {i \in DOMAIN b.jobs : b.jobs[i] = "running"}

\* What a call is, in simple facts.
LEMMA KindFacts ==
  ASSUME NEW b, BulkKind(b)
  PROVE  /\ b.items \in Seq(Path) /\ b.call.limit \in Nat \ {0} /\ b.call.dry \in BOOLEAN
         /\ b.jobs \in [1 .. Len(b.jobs) -> JobStates] /\ DOMAIN b.jobs = 1 .. Len(b.jobs) /\ Len(b.jobs) \in Nat
         /\ \A I \in SUBSET DOMAIN b.jobs : IsFiniteSet(I) /\ Cardinality(I) \in Nat
         /\ DOMAIN b.items = 1 .. Len(b.items) /\ DOMAIN b.matched = 1 .. Len(b.matched)
<1>1. b.items \in Seq(Path) /\ b.call.limit \in Nat \ {0} /\ b.call.dry \in BOOLEAN
  BY ScanFacts, CallFacts DEF BulkKind
<1>2. b.jobs \in Seq(JobStates) /\ b.matched \in Seq(Path)
  BY DEF BulkKind
<1> QED  BY <1>1, <1>2, IndexFacts

\* Several jobs of which none is running.
LEMMA WaitingFacts ==
  ASSUME NEW n \in Nat, NEW x \in JobStates
  PROVE  LET jobs == [i \in 1 .. n |-> x]
         IN  jobs \in Seq(JobStates) /\ Len(jobs) = n /\ DOMAIN jobs = 1 .. n /\ \A i \in 1 .. n : jobs[i] = x
OBVIOUS

\* After the filter the call is ready to run, or to list what it would have run on.
LEMMA RunOnStands ==
  ASSUME NEW b, BulkKind(b), b.phase = "filter", NEW matched \in Seq(Path), Range(matched) \subseteq Range(b.items)
  PROVE  BulkStands(RunOn(b, matched), <<>>) /\ RunOn(b, matched).phase \in {"run", "summary"}
<1> DEFINE c == RunOn(b, matched)  dry == b.call.dry  n == Len(matched)
           jobs == IF dry THEN [i \in 1 .. n |-> "skipped"] ELSE [i \in 1 .. n |-> "waiting"]
<1>1. n \in Nat /\ DOMAIN matched = 1 .. n /\ b.call.limit \in Nat /\ dry \in BOOLEAN
  BY KindFacts
<1>2. /\ DOMAIN b = {"phase", "call", "ctx", "items", "jobs", "matched"}
      /\ b.call \in BulkCalls /\ ~Refused(b.call) /\ b.ctx \in {"alive", "ended"} /\ b.items \in Scanned(b.call)
  BY DEF BulkKind
<1>3. c = [b EXCEPT !.phase = IF dry THEN "summary" ELSE "run", !.matched = matched, !.jobs = jobs]
  BY <1>1 DEF RunOn, Waiting
<1> HIDE DEF c, jobs
<1>4. /\ c.phase = (IF dry THEN "summary" ELSE "run") /\ DOMAIN c = DOMAIN b
      /\ c.call = b.call /\ c.ctx = b.ctx /\ c.items = b.items /\ c.jobs = jobs /\ c.matched = matched
  BY <1>2, <1>3
<1>5. /\ jobs \in Seq(JobStates) /\ Len(jobs) = n /\ DOMAIN jobs = 1 .. n
      /\ \A i \in 1 .. n : jobs[i] = IF dry THEN "skipped" ELSE "waiting"
  <2>1. "skipped" \in JobStates /\ "waiting" \in JobStates
    BY DEF JobStates
  <2> QED  BY <1>1, <2>1, WaitingFacts DEF jobs
<1>6. BulkKind(c)
  BY <1>2, <1>4, <1>5 DEF BulkKind
<1>7. Cardinality({i \in DOMAIN c.jobs : c.jobs[i] = "running"}) <= c.call.limit
  <2>1. {i \in DOMAIN c.jobs : c.jobs[i] = "running"} = {}
    BY <1>4, <1>5
  <2>2. Cardinality({i \in DOMAIN c.jobs : c.jobs[i] = "running"}) = 0 /\ c.call.limit \in Nat
    BY <1>1, <1>4, <2>1, FS_EmptySet, Zenon
  <2> HIDE DEF n, dry
  <2> QED  BY <2>2
<1>8. JobsStand(c)
  BY <1>1, <1>4, <1>5, <1>7 DEF JobsStand
<1>9. ShellsStand(c, <<>>)
  BY <1>1, <1>4, <1>5 DEF ShellsStand
<1>10. <<>> \in Seq(Shell)
  OBVIOUS
<1>11. c.phase \in {"run", "summary"}
  BY <1>4
<1> QED  BY <1>6, <1>8, <1>9, <1>10, <1>11 DEF BulkStands, c

\* A call begins refused, with the filter, or with what comes after it.
LEMMA StartStands ==
  ASSUME BulkIInv, NEW call \in BulkCalls, BulkStart(call)
  PROVE  BulkIInv'
<1>1. bulk.phase = "idle" /\ shells' = shells
  BY DEF BulkStart
<1>2. shells = <<>>
  BY <1>1 DEF BulkIInv, BulkStands, BulkKind
<1>3. CASE Refused(call)
  <2>1. bulk' = [phase |-> "refused", call |-> call]
    BY <1>3 DEF BulkStart
  <2> QED  BY <1>1, <1>2, <2>1 DEF BulkIInv, BulkStands
<1>4. CASE ~Refused(call)
  <2> DEFINE b(items) == [phase |-> "filter", call |-> call, ctx |-> "alive", items |-> items,
                          jobs |-> Waiting(Len(items)), matched |-> <<>>]
  <2>1. PICK items \in Scanned(call) : bulk' = IF Filters(call) THEN b(items) ELSE RunOn(b(items), items)
    BY <1>4 DEF BulkStart
  <2>2. items \in Seq(Path) /\ Len(items) \in Nat
    BY <1>4, <2>1, ScanFacts
  <2> DEFINE w == Waiting(Len(items))
  <2>3. /\ w \in Seq(JobStates) /\ Len(w) = Len(items) /\ DOMAIN w = 1 .. Len(items)
        /\ \A i \in 1 .. Len(items) : w[i] = "waiting"
    <3>1. "waiting" \in JobStates
      BY DEF JobStates
    <3> QED  BY <2>2, <3>1, WaitingFacts DEF Waiting
  <2> DEFINE c == b(items)
  <2>4. /\ c.phase = "filter" /\ c.call = call /\ c.ctx = "alive" /\ c.items = items /\ c.jobs = w /\ c.matched = <<>>
        /\ DOMAIN c = {"phase", "call", "ctx", "items", "jobs", "matched"}
    OBVIOUS
  <2> HIDE DEF b, c, w
  <2>5. BulkKind(c)
    <3>1. <<>> \in Seq(Path) /\ Range(<<>>) \subseteq Range(items)
      BY DEF Range
    <3> QED  BY <1>4, <2>1, <2>3, <2>4, <3>1 DEF BulkKind
  <2>6. BulkStands(c, <<>>)
    <3>1. Cardinality({i \in DOMAIN c.jobs : c.jobs[i] = "running"}) <= c.call.limit
      <4>1. {i \in DOMAIN c.jobs : c.jobs[i] = "running"} = {}
        BY <2>3, <2>4
      <4>2. c.call.limit \in Nat
        BY <2>5, KindFacts
      <4> QED  BY <4>1, <4>2, FS_EmptySet
    <3>2. JobsStand(c)
      BY <2>3, <2>4, <3>1 DEF JobsStand
    <3>3. ShellsStand(c, <<>>)
      BY <2>4 DEF ShellsStand
    <3> QED  BY <2>4, <2>5, <3>2, <3>3 DEF BulkStands
  <2>7. BulkStands(RunOn(c, items), <<>>)
    BY <2>2, <2>4, <2>5, RunOnStands
  <2>8. BulkStands(bulk', <<>>)
    BY <2>1, <2>6, <2>7 DEF c
  <2> QED  BY <1>1, <1>2, <2>8 DEF BulkIInv
<1> QED  BY <1>3, <1>4

\* A call at work is no other.
LEMMA AtWork ==
  ASSUME BulkIInv, bulk.phase \in {"filter", "run", "summary", "done"}
  PROVE  BulkKind(bulk) /\ JobsStand(bulk) /\ ShellsStand(bulk, shells) /\ shells \in Seq(Shell)
BY DEF BulkIInv, BulkStands, BulkIdle

\* What is known of a shell.
LEMMA ShellFacts ==
  ASSUME NEW sh \in Seq(Shell)
  PROVE  /\ DOMAIN sh = 1 .. Len(sh) /\ Len(sh) \in Nat
         /\ \A k \in DOMAIN sh : /\ sh[k] = [item |-> sh[k].item, job |-> sh[k].job, end |-> sh[k].end]
                                 /\ sh[k].item \in Path /\ sh[k].job \in Nat /\ sh[k].end \in {"none", "ok", "error"}
<1>1. \A k \in DOMAIN sh : sh[k] \in Shell
  OBVIOUS
<1>2. \A r \in Shell : /\ r = [item |-> r.item, job |-> r.job, end |-> r.end]
                       /\ r.item \in Path /\ r.job \in Nat /\ r.end \in {"none", "ok", "error"}
  BY DEF Shell
<1>3. DOMAIN sh = 1 .. Len(sh) /\ Len(sh) \in Nat
  OBVIOUS
<1> QED  BY <1>1, <1>2, <1>3, Zenon

\* One job moves on: the others stay, and the limit is kept if a slot was free.
LEMMA JobMoves ==
  ASSUME NEW b, BulkKind(b), b.phase \in {"filter", "run"}, NEW i \in DOMAIN b.jobs, NEW x \in JobStates,
         Cardinality(RunningIn(b)) <= b.call.limit,
         x = "running" => Cardinality(RunningIn(b)) < b.call.limit,
         NEW c, c = [b EXCEPT !.jobs[i] = x]
  PROVE  /\ BulkKind(c) /\ c.phase = b.phase /\ c.call = b.call /\ c.ctx = b.ctx /\ c.items = b.items /\ c.matched = b.matched
         /\ DOMAIN c.jobs = DOMAIN b.jobs /\ Len(c.jobs) = Len(b.jobs)
         /\ \A j \in DOMAIN b.jobs : c.jobs[j] = IF j = i THEN x ELSE b.jobs[j]
         /\ Cardinality(RunningIn(c)) <= c.call.limit
<1> DEFINE n == Len(b.jobs)  jobs == [b.jobs EXCEPT ![i] = x]
<1>1. /\ DOMAIN b = {"phase", "call", "ctx", "items", "jobs", "matched"}
      /\ b.call \in BulkCalls /\ ~Refused(b.call) /\ b.ctx \in {"alive", "ended"} /\ b.items \in Scanned(b.call)
      /\ b.matched \in Seq(Path) /\ Range(b.matched) \subseteq Range(b.items)
  BY DEF BulkKind
<1>2. b.jobs \in [1 .. n -> JobStates] /\ n \in Nat /\ DOMAIN b.jobs = 1 .. n /\ b.call.limit \in Nat
  BY KindFacts
<1>3. /\ c.phase = b.phase /\ c.call = b.call /\ c.ctx = b.ctx /\ c.items = b.items /\ c.matched = b.matched
      /\ c.jobs = jobs /\ DOMAIN c = DOMAIN b
  BY <1>1
<1> HIDE DEF n
<1>4. jobs \in [1 .. n -> JobStates] /\ \A j \in 1 .. n : jobs[j] = IF j = i THEN x ELSE b.jobs[j]
  BY <1>2
<1> HIDE DEF jobs
<1>5. jobs \in Seq(JobStates) /\ Len(jobs) = n /\ DOMAIN jobs = 1 .. n
  BY <1>2, <1>4
<1>6. BulkKind(c)
  BY <1>1, <1>3, <1>5 DEF BulkKind
<1>7. Cardinality(RunningIn(c)) <= c.call.limit
  <2>1. RunningIn(b) \in SUBSET DOMAIN b.jobs
    BY DEF RunningIn
  <2>2. IsFiniteSet(RunningIn(b)) /\ Cardinality(RunningIn(b)) \in Nat
    BY <2>1, KindFacts
  <2>3. CASE x = "running"
    <3>1. RunningIn(c) \subseteq RunningIn(b) \cup {i}
      BY <1>2, <1>3, <1>4, <1>5 DEF RunningIn
    <3>2. IsFiniteSet(RunningIn(b) \cup {i}) /\ Cardinality(RunningIn(b) \cup {i}) \in Nat
          /\ Cardinality(RunningIn(b) \cup {i}) <= Cardinality(RunningIn(b)) + 1
      <4> DEFINE k == Cardinality(RunningIn(b))  l == Cardinality(RunningIn(b) \cup {i})
      <4>1. IsFiniteSet(RunningIn(b) \cup {i}) /\ (l = k \/ l = k + 1)
        BY <2>2, FS_AddElement
      <4>2. k \in Nat
        BY <2>2
      <4> HIDE DEF k, l
      <4>3. l \in Nat /\ l <= k + 1
        BY <4>1, <4>2
      <4> QED  BY <4>1, <4>3 DEF k, l
    <3>3. Cardinality(RunningIn(c)) \in Nat /\ Cardinality(RunningIn(c)) <= Cardinality(RunningIn(b) \cup {i})
      BY <3>1, <3>2, FS_Subset, FS_CardinalityType
    <3> QED  BY <1>2, <1>3, <2>2, <2>3, <3>2, <3>3
  <2>4. CASE x # "running"
    <3>1. RunningIn(c) \subseteq RunningIn(b)
      BY <1>2, <1>3, <1>4, <1>5, <2>4 DEF RunningIn
    <3>2. Cardinality(RunningIn(c)) \in Nat /\ Cardinality(RunningIn(c)) <= Cardinality(RunningIn(b))
      BY <2>2, <3>1, FS_Subset, FS_CardinalityType
    <3> QED  BY <1>2, <1>3, <2>2, <3>2
  <2> QED  BY <2>3, <2>4
<1> QED  BY <1>2, <1>3, <1>4, <1>5, <1>6, <1>7 DEF n

\* The filter takes up and judges one item at a time, with no shell started yet.
LEMMA FilterStands ==
  ASSUME BulkIInv, NEW i \in BulkJobs, FilterStarts(i) \/ FilterEnds(i)
  PROVE  BulkIInv'
<1>1. /\ bulk.phase = "filter" /\ shells' = shells
      /\ BulkKind(bulk) /\ JobsStand(bulk) /\ ShellsStand(bulk, shells)
      /\ i \in DOMAIN bulk.jobs
  BY AtWork DEF FilterStarts, FilterEnds, BulkJobs
<1>2. PICK x \in {"running", "keep", "drop"} :
        /\ bulk' = [bulk EXCEPT !.jobs[i] = x]
        /\ x = "running" => Cardinality(RunningIn(bulk)) < bulk.call.limit
  <2>1. CASE FilterStarts(i)
    BY <2>1 DEF FilterStarts, HasSlot, BulkRunning, RunningIn
  <2>2. CASE FilterEnds(i)
    <3>1. PICK keep : bulk' = [bulk EXCEPT !.jobs[i] = IF keep THEN "keep" ELSE "drop"]
      BY <2>2 DEF FilterEnds
    <3> QED  BY <3>1
  <2> QED  BY <2>1, <2>2
<1>3. Cardinality(RunningIn(bulk)) <= bulk.call.limit
  BY <1>1 DEF JobsStand, RunningIn
<1>4. x \in JobStates
  BY DEF JobStates
<1> DEFINE c == bulk'
<1> HIDE DEF c
<1>5. /\ BulkKind(c) /\ c.phase = "filter" /\ c.items = bulk.items /\ c.matched = bulk.matched
      /\ DOMAIN c.jobs = DOMAIN bulk.jobs /\ Len(c.jobs) = Len(bulk.jobs)
      /\ \A j \in DOMAIN bulk.jobs : c.jobs[j] = IF j = i THEN x ELSE bulk.jobs[j]
      /\ Cardinality(RunningIn(c)) <= c.call.limit
  BY <1>1, <1>2, <1>3, <1>4, JobMoves DEF c
<1>6. JobsStand(c)
  BY <1>1, <1>5 DEF JobsStand, RunningIn
<1>7. shells = <<>> /\ ShellsStand(c, <<>>)
  BY <1>1, <1>5 DEF ShellsStand
<1>8. BulkStands(c, <<>>)
  BY <1>5, <1>6, <1>7 DEF BulkStands
<1> QED  BY <1>1, <1>7, <1>8 DEF BulkIInv, c

\* What is kept goes on in the order of its names.
LEMMA FilteredStands ==
  ASSUME BulkIInv, Filtered
  PROVE  BulkIInv'
<1>1. /\ bulk.phase = "filter" /\ shells' = shells
      /\ BulkKind(bulk) /\ JobsStand(bulk) /\ ShellsStand(bulk, shells)
  BY AtWork DEF Filtered
<1> DEFINE kept == {i \in DOMAIN bulk.jobs : bulk.jobs[i] = "keep"}
<1>2. PICK matched \in InNameOrder(bulk.items, kept) : bulk' = RunOn(bulk, matched)
  BY DEF Filtered
<1>3. bulk.items \in Seq(Path) /\ kept \in SUBSET DOMAIN bulk.items
  BY <1>1, KindFacts DEF JobsStand
<1> HIDE DEF kept
<1>4. matched \in Seq(Path) /\ Range(matched) \subseteq Range(bulk.items)
  BY <1>2, <1>3, TakenFacts
<1>5. BulkStands(bulk', <<>>)
  BY <1>1, <1>2, <1>4, RunOnStands
<1>6. shells = <<>>
  BY <1>1 DEF ShellsStand
<1> QED  BY <1>1, <1>5, <1>6 DEF BulkIInv

\* A command is started, with a shell of its own while the context lives.
LEMMA CommandBegins ==
  ASSUME BulkIInv, NEW i \in BulkJobs, CommandStarts(i)
  PROVE  BulkIInv'
<1>1. /\ bulk.phase = "run" /\ bulk.jobs[i] = "waiting" /\ i \in DOMAIN bulk.jobs
      /\ BulkKind(bulk) /\ JobsStand(bulk) /\ ShellsStand(bulk, shells) /\ shells \in Seq(Shell)
      /\ Cardinality(RunningIn(bulk)) < bulk.call.limit
  BY AtWork DEF CommandStarts, BulkJobs, HasSlot, BulkRunning, RunningIn
<1> DEFINE c == bulk'  x == IF bulk.ctx = "ended" THEN "error" ELSE "running"
           r == [item |-> bulk.matched[i], job |-> i, end |-> "none"]
<1>2. c = [bulk EXCEPT !.jobs[i] = x] /\ shells' = IF bulk.ctx = "ended" THEN shells ELSE Append(shells, r)
  BY DEF CommandStarts
<1>3. /\ Cardinality(RunningIn(bulk)) <= bulk.call.limit /\ x \in JobStates
      /\ bulk.ctx \in {"alive", "ended"} /\ DOMAIN bulk.jobs = 1 .. Len(bulk.jobs)
  BY <1>1 DEF JobsStand, RunningIn, JobStates, BulkKind
<1>4. ~bulk.call.dry /\ DOMAIN bulk.matched = DOMAIN bulk.jobs /\ Len(bulk.jobs) = Len(bulk.matched)
  BY <1>1, KindFacts DEF JobsStand
<1>5. r \in Shell
  <2>1. bulk.matched \in Seq(Path) /\ i \in Nat
    BY <1>1, <1>3 DEF BulkKind
  <2>2. bulk.matched[i] \in Path
    BY <1>1, <1>4, <2>1
  <2> QED  BY <2>1, <2>2 DEF Shell
<1> HIDE DEF c, r
<1>6. /\ BulkKind(c) /\ c.phase = "run" /\ c.call = bulk.call /\ c.ctx = bulk.ctx
      /\ c.items = bulk.items /\ c.matched = bulk.matched
      /\ DOMAIN c.jobs = DOMAIN bulk.jobs /\ Len(c.jobs) = Len(bulk.jobs)
      /\ \A j \in DOMAIN bulk.jobs : c.jobs[j] = IF j = i THEN x ELSE bulk.jobs[j]
      /\ Cardinality(RunningIn(c)) <= c.call.limit
  <2> HIDE DEF x
  <2>1. x = "running" => Cardinality(RunningIn(bulk)) < bulk.call.limit
    BY <1>1
  <2> QED  BY <1>1, <1>2, <1>3, <2>1, JobMoves
<1>7. JobsStand(c)
  <2>1. \A j \in DOMAIN c.jobs : c.jobs[j] \in {"ok", "error", "waiting", "running"}
    BY <1>1, <1>4, <1>6 DEF JobsStand
  <2> QED  BY <1>4, <1>6, <2>1 DEF JobsStand, RunningIn
<1>8. \A k \in DOMAIN shells : /\ shells[k].job \in DOMAIN bulk.jobs /\ shells[k].job # i
                               /\ shells[k].item = bulk.matched[shells[k].job] /\ shells[k].end \in {"none", "ok", "error"}
                               /\ bulk.jobs[shells[k].job] = IF shells[k].end = "none" THEN "running" ELSE shells[k].end
  <2>1. \A k \in DOMAIN shells : shells[k].end \in {"none", "ok", "error"}
    BY <1>1, ShellFacts
  <2> QED  BY <1>1, <2>1 DEF ShellsStand
<1>9. \A k, l \in DOMAIN shells : shells[k].job = shells[l].job => k = l
  BY <1>1 DEF ShellsStand
<1>10. \A j \in DOMAIN bulk.jobs : bulk.jobs[j] \in {"running", "ok"} \/ (bulk.jobs[j] = "error" /\ bulk.ctx = "alive") =>
          \E k \in DOMAIN shells : shells[k].job = j
  BY <1>1 DEF ShellsStand
<1>11. CASE bulk.ctx = "ended"
  <2>1. shells' = shells /\ x = "error"
    BY <1>2, <1>11
  <2>2. ShellsStand(c, shells)
    BY <1>4, <1>6, <1>8, <1>9, <1>10, <1>11, <2>1 DEF ShellsStand
  <2> QED  BY <1>1, <1>6, <1>7, <2>1, <2>2 DEF BulkIInv, BulkStands, c
<1>12. CASE bulk.ctx = "alive"
  <2> DEFINE n == Len(shells)  sh == Append(shells, r)
  <2>1. shells' = sh /\ x = "running"
    BY <1>2, <1>12
  <2>2. /\ sh \in Seq(Shell) /\ n \in Nat /\ DOMAIN shells = 1 .. n /\ DOMAIN sh = 1 .. (n + 1)
        /\ sh[n + 1] = r /\ \A k \in 1 .. n : sh[k] = shells[k]
    BY <1>1, <1>5, AppendProperties
  <2> HIDE DEF n, sh
  <2>3. \A k \in DOMAIN sh : k = n + 1 \/ k \in DOMAIN shells
    BY <2>2
  <2>4. r.job = i /\ r.item = bulk.matched[i] /\ r.end = "none" /\ n + 1 \in DOMAIN sh /\ n + 1 \notin DOMAIN shells
        /\ \A k \in DOMAIN shells : k \in DOMAIN sh
    BY <2>2 DEF r
  <2>5. \A k \in DOMAIN sh : /\ sh[k].job \in DOMAIN c.jobs /\ sh[k].item = c.matched[sh[k].job]
                             /\ c.jobs[sh[k].job] = IF sh[k].end = "none" THEN "running" ELSE sh[k].end
    <3>1. ASSUME NEW k \in DOMAIN shells
          PROVE  /\ sh[k].job \in DOMAIN c.jobs /\ sh[k].item = c.matched[sh[k].job]
                 /\ c.jobs[sh[k].job] = IF sh[k].end = "none" THEN "running" ELSE sh[k].end
      BY <1>6, <1>8, <2>2
    <3>2. /\ sh[n + 1].job \in DOMAIN c.jobs /\ sh[n + 1].item = c.matched[sh[n + 1].job]
          /\ c.jobs[sh[n + 1].job] = IF sh[n + 1].end = "none" THEN "running" ELSE sh[n + 1].end
      BY <1>1, <1>6, <2>1, <2>2, <2>4
    <3> QED  BY <2>3, <3>1, <3>2
  <2>6. \A k, l \in DOMAIN sh : sh[k].job = sh[l].job => k = l
    <3>1. \A k \in DOMAIN shells : sh[k].job = shells[k].job /\ shells[k].job # i
      BY <1>8, <2>2
    <3>2. sh[n + 1].job = i
      BY <2>2, <2>4
    <3> QED  BY <1>9, <2>3, <3>1, <3>2
  <2>7. \A j \in DOMAIN c.jobs : c.jobs[j] \in {"running", "ok"} \/ (c.jobs[j] = "error" /\ c.ctx = "alive") =>
          \E k \in DOMAIN sh : sh[k].job = j
    <3> SUFFICES ASSUME NEW j \in DOMAIN c.jobs, c.jobs[j] \in {"running", "ok"} \/ (c.jobs[j] = "error" /\ c.ctx = "alive")
                 PROVE  \E k \in DOMAIN sh : sh[k].job = j
      OBVIOUS
    <3>1. CASE j = i
      BY <2>2, <2>4, <3>1
    <3>2. CASE j # i
      <4>1. PICK k \in DOMAIN shells : shells[k].job = j
        BY <1>6, <1>10, <3>2
      <4> QED  BY <2>2, <2>4, <4>1
    <3> QED  BY <3>1, <3>2
  <2>8. ShellsStand(c, sh)
    BY <1>4, <1>6, <2>5, <2>6, <2>7 DEF ShellsStand
  <2> QED  BY <1>6, <1>7, <2>1, <2>2, <2>8 DEF BulkIInv, BulkStands, c
<1> QED  BY <1>3, <1>11, <1>12

\* A command ends: its job and its shell say how.
LEMMA CommandStops ==
  ASSUME BulkIInv, NEW i \in BulkJobs, CommandEnds(i)
  PROVE  BulkIInv'
<1>1. /\ bulk.phase = "run" /\ i \in DOMAIN bulk.jobs
      /\ BulkKind(bulk) /\ JobsStand(bulk) /\ ShellsStand(bulk, shells) /\ shells \in Seq(Shell)
  BY AtWork DEF CommandEnds, BulkJobs
<1>2. PICK x \in {"ok", "error"} :
        /\ bulk' = [bulk EXCEPT !.jobs = StoredEnd(i, x)]
        /\ shells' = [k \in DOMAIN shells |-> IF shells[k].job = i THEN [shells[k] EXCEPT !.end = x] ELSE shells[k]]
  BY DEF CommandEnds
<1>3. PICK m \in DOMAIN shells : shells[m].job = i /\ shells[m].end = "none"
  BY DEF CommandEnds
<1> DEFINE c == bulk'  sh == shells'  n == Len(shells)
<1>4. c = [bulk EXCEPT !.jobs[i] = x]
  BY <1>2 DEF StoredEnd, Ended
<1>5. Cardinality(RunningIn(bulk)) <= bulk.call.limit /\ x \in JobStates /\ x # "running"
  BY <1>1 DEF JobsStand, RunningIn, JobStates
<1>6. ~bulk.call.dry /\ Len(bulk.jobs) = Len(bulk.matched)
  BY <1>1 DEF JobsStand
<1>7. /\ DOMAIN shells = 1 .. n /\ n \in Nat
      /\ \A k \in DOMAIN shells : /\ shells[k] = [item |-> shells[k].item, job |-> shells[k].job, end |-> shells[k].end]
                                  /\ shells[k].item \in Path /\ shells[k].job \in Nat /\ shells[k].end \in {"none", "ok", "error"}
  BY <1>1, ShellFacts
<1> HIDE DEF c, sh, n
<1>8. /\ BulkKind(c) /\ c.phase = "run" /\ c.call = bulk.call /\ c.ctx = bulk.ctx
      /\ c.items = bulk.items /\ c.matched = bulk.matched
      /\ DOMAIN c.jobs = DOMAIN bulk.jobs /\ Len(c.jobs) = Len(bulk.jobs)
      /\ \A j \in DOMAIN bulk.jobs : c.jobs[j] = IF j = i THEN x ELSE bulk.jobs[j]
      /\ Cardinality(RunningIn(c)) <= c.call.limit
  BY <1>1, <1>4, <1>5, JobMoves
<1>9. JobsStand(c)
  <2>1. \A j \in DOMAIN c.jobs : c.jobs[j] \in {"ok", "error", "waiting", "running"}
    BY <1>1, <1>6, <1>8 DEF JobsStand
  <2> QED  BY <1>6, <1>8, <2>1 DEF JobsStand, RunningIn
<1>10. \A k \in DOMAIN shells : /\ shells[k].job \in DOMAIN bulk.jobs /\ shells[k].item = bulk.matched[shells[k].job]
                                /\ bulk.jobs[shells[k].job] = IF shells[k].end = "none" THEN "running" ELSE shells[k].end
  BY <1>1 DEF ShellsStand
<1>11. \A k, l \in DOMAIN shells : shells[k].job = shells[l].job => k = l
  BY <1>1 DEF ShellsStand
<1>12. \A j \in DOMAIN bulk.jobs : bulk.jobs[j] \in {"running", "ok"} \/ (bulk.jobs[j] = "error" /\ bulk.ctx = "alive") =>
          \E k \in DOMAIN shells : shells[k].job = j
  BY <1>1 DEF ShellsStand
<1>13. sh = [k \in DOMAIN shells |-> IF shells[k].job = i THEN [shells[k] EXCEPT !.end = x] ELSE shells[k]]
  BY <1>2 DEF sh
<1>14. /\ DOMAIN sh = DOMAIN shells
       /\ \A k \in DOMAIN shells : /\ sh[k].item = shells[k].item /\ sh[k].job = shells[k].job
                                   /\ sh[k].end = IF shells[k].job = i THEN x ELSE shells[k].end
                                   /\ sh[k] = [item |-> sh[k].item, job |-> sh[k].job, end |-> sh[k].end]
  <2>1. \A k \in DOMAIN shells : shells[k].job = i => sh[k] = [item |-> shells[k].item, job |-> shells[k].job, end |-> x]
    BY <1>7, <1>13
  <2>2. \A k \in DOMAIN shells : shells[k].job # i => sh[k] = shells[k]
    BY <1>13
  <2> QED  BY <1>7, <1>13, <2>1, <2>2
<1>15. sh \in Seq(Shell)
  <2>1. \A k \in 1 .. n : sh[k] \in Shell
    <3> SUFFICES ASSUME NEW k \in 1 .. n PROVE sh[k] \in Shell
      OBVIOUS
    <3>1. sh[k].item \in Path /\ sh[k].job \in Nat /\ sh[k].end \in {"none", "ok", "error"}
      BY <1>7, <1>14
    <3>2. sh[k] = [item |-> sh[k].item, job |-> sh[k].job, end |-> sh[k].end]
      BY <1>7, <1>14
    <3> QED  BY <3>1, <3>2 DEF Shell
  <2>2. sh \in [1 .. n -> Shell]
    BY <1>7, <1>13, <2>1
  <2> QED  BY <1>7, <2>2
<1>16. ShellsStand(c, sh)
  <2>1. \A k \in DOMAIN sh : /\ sh[k].job \in DOMAIN c.jobs /\ sh[k].item = c.matched[sh[k].job]
                             /\ c.jobs[sh[k].job] = IF sh[k].end = "none" THEN "running" ELSE sh[k].end
    <3> SUFFICES ASSUME NEW k \in DOMAIN shells
                 PROVE  /\ sh[k].job \in DOMAIN c.jobs /\ sh[k].item = c.matched[sh[k].job]
                        /\ c.jobs[sh[k].job] = IF sh[k].end = "none" THEN "running" ELSE sh[k].end
      BY <1>14
    <3>1. CASE shells[k].job = i
      BY <1>1, <1>8, <1>10, <1>14, <3>1
    <3>2. CASE shells[k].job # i
      BY <1>8, <1>10, <1>14, <3>2
    <3> QED  BY <3>1, <3>2
  <2>2. \A k, l \in DOMAIN sh : sh[k].job = sh[l].job => k = l
    BY <1>11, <1>14
  <2>3. \A j \in DOMAIN c.jobs : c.jobs[j] \in {"running", "ok"} \/ (c.jobs[j] = "error" /\ c.ctx = "alive") =>
          \E k \in DOMAIN sh : sh[k].job = j
    <3> SUFFICES ASSUME NEW j \in DOMAIN c.jobs, c.jobs[j] \in {"running", "ok"} \/ (c.jobs[j] = "error" /\ c.ctx = "alive")
                 PROVE  \E k \in DOMAIN sh : sh[k].job = j
      OBVIOUS
    <3>1. CASE j = i
      BY <1>3, <1>14, <3>1
    <3>2. CASE j # i
      BY <1>8, <1>12, <1>14, <3>2
    <3> QED  BY <3>1, <3>2
  <2> QED  BY <1>6, <1>8, <2>1, <2>2, <2>3 DEF ShellsStand
<1> QED  BY <1>8, <1>9, <1>15, <1>16 DEF BulkIInv, BulkStands, c, sh

\* The context ends, or every command has ended.
LEMMA WorkStands ==
  ASSUME BulkIInv, BulkContextEnds \/ RanAll
  PROVE  BulkIInv'
<1>1. /\ bulk.phase \in {"filter", "run"} /\ shells' = shells
      /\ BulkKind(bulk) /\ JobsStand(bulk) /\ ShellsStand(bulk, shells) /\ shells \in Seq(Shell)
  BY AtWork DEF BulkContextEnds, RanAll
<1> DEFINE c == bulk'
<1>2. DOMAIN bulk = {"phase", "call", "ctx", "items", "jobs", "matched"}
  BY <1>1 DEF BulkKind
<1>3. /\ DOMAIN c = DOMAIN bulk /\ c.call = bulk.call /\ c.items = bulk.items /\ c.jobs = bulk.jobs /\ c.matched = bulk.matched
      /\ \/ c.phase = bulk.phase /\ c.ctx = "ended"
         \/ /\ bulk.phase = "run" /\ c.phase = "summary" /\ c.ctx = bulk.ctx
            /\ \A i \in DOMAIN bulk.jobs : bulk.jobs[i] \notin {"waiting", "running"}
  BY <1>2 DEF BulkContextEnds, RanAll
<1> HIDE DEF c
<1>4. BulkKind(c)
  BY <1>1, <1>2, <1>3 DEF BulkKind
<1>5. JobsStand(c)
  BY <1>1, <1>3 DEF JobsStand
<1>6. ShellsStand(c, shells)
  BY <1>1, <1>3 DEF ShellsStand
<1> QED  BY <1>1, <1>3, <1>4, <1>5, <1>6 DEF BulkIInv, BulkStands, c

\* The summary is made from what the call has come to.
LEMMA SummaryStands ==
  ASSUME BulkIInv, Summarise
  PROVE  BulkIInv'
<1>1. /\ bulk.phase = "summary" /\ shells' = shells
      /\ BulkKind(bulk) /\ JobsStand(bulk) /\ ShellsStand(bulk, shells) /\ shells \in Seq(Shell)
  BY AtWork DEF Summarise
<1>2. PICK order \in ResultOrders(bulk) :
        bulk' = [phase |-> "done", call |-> bulk.call, ctx |-> bulk.ctx, items |-> bulk.items,
                 jobs |-> bulk.jobs, matched |-> bulk.matched, answer |-> BulkSummary(bulk, order)]
  BY DEF Summarise
<1> DEFINE c == bulk'
<1>3. /\ DOMAIN c = {"phase", "call", "ctx", "items", "jobs", "matched", "answer"}
      /\ c.phase = "done" /\ c.call = bulk.call /\ c.ctx = bulk.ctx /\ c.items = bulk.items
      /\ c.jobs = bulk.jobs /\ c.matched = bulk.matched /\ c.answer = BulkSummary(bulk, order)
  BY <1>2
<1> HIDE DEF c
<1>4. BulkKind(c)
  BY <1>1, <1>3 DEF BulkKind
<1>5. JobsStand(c)
  BY <1>1, <1>3 DEF JobsStand
<1>6. ShellsStand(c, shells)
  BY <1>1, <1>3 DEF ShellsStand
<1>7. ResultOrders(c) = ResultOrders(bulk) /\ BulkSummary(c, order) = BulkSummary(bulk, order)
  BY <1>3 DEF ResultOrders, BulkSummary, CountFailed
<1> QED  BY <1>1, <1>2, <1>3, <1>4, <1>5, <1>6, <1>7 DEF BulkIInv, BulkStands, c

\* The invariant holds at first and is kept by every step.
LEMMA BulkInductive ==
  /\ BulkInit => BulkIInv
  /\ BulkIInv /\ [BulkNext]_bvars => BulkIInv'
<1>1. BulkInit => BulkIInv
  BY DEF BulkInit, BulkIInv, BulkStands
<1>2. ASSUME BulkIInv, [BulkNext]_bvars PROVE BulkIInv'
  <2>1. CASE UNCHANGED bvars
    BY <1>2, <2>1 DEF bvars, BulkIInv
  <2>2. CASE BulkNext
    BY <1>2, <2>2, StartStands, FilterStands, FilteredStands, CommandBegins, CommandStops, WorkStands, SummaryStands
       DEF BulkNext, BulkLoop
  <2> QED  BY <1>2, <2>1, <2>2
<1> QED  BY <1>1, <1>2

\* The listed are in an order of what matched.
LEMMA OrderFacts ==
  ASSUME NEW b, BulkKind(b), NEW order \in ResultOrders(b)
  PROVE  /\ Len(b.matched) \in Nat /\ DOMAIN b.matched = 1 .. Len(b.matched) /\ DOMAIN order = 1 .. Len(b.matched)
         /\ \A k \in 1 .. Len(b.matched) : order[k] \in 1 .. Len(b.matched)
         /\ \A k, l \in 1 .. Len(b.matched) : order[k] = order[l] => k = l
         /\ \A i \in 1 .. Len(b.matched) : \E k \in 1 .. Len(b.matched) : order[k] = i
<1> DEFINE n == Len(b.matched)
<1>1. n \in Nat /\ DOMAIN b.matched = 1 .. n /\ b.matched \in Seq(Path)
  BY DEF BulkKind
<1>2. IsFiniteSet(DOMAIN b.matched) /\ Cardinality(DOMAIN b.matched) = n
  BY <1>1, IndexFacts
<1> HIDE DEF n
<1>3. IsFiniteSet(1 .. n) /\ Cardinality(1 .. n) = n
  BY <1>1, <1>2
<1>4. CASE b.call.dry
  <2>1. order = [i \in 1 .. n |-> i]
    BY <1>1, <1>4 DEF ResultOrders
  <2> QED  BY <1>1, <2>1 DEF n
<1>5. CASE ~b.call.dry
  <2>1. order \in Bijection(1 .. n, 1 .. n)
    BY <1>1, <1>3, <1>5 DEF ResultOrders, NameOrders
  <2>2. order \in Bijection(1 .. Cardinality(1 .. n), 1 .. n)
    BY <1>3, <2>1
  <2>3. /\ DOMAIN order = 1 .. n /\ order \in [1 .. n -> 1 .. n]
        /\ \A k, l \in DOMAIN order : order[k] = order[l] => k = l
        /\ \A i \in 1 .. n : \E k \in DOMAIN order : order[k] = i
    BY <1>3, <2>2, SortedFacts
  <2> QED  BY <1>1, <2>3 DEF n
<1> QED  BY <1>4, <1>5

\* An item is told to have ended well as often as its jobs have.
LEMMA ToldFacts ==
  ASSUME NEW b, BulkKind(b), NEW order \in ResultOrders(b)
  PROVE  LET listed == BulkSummary(b, order).results IN
         /\ DOMAIN listed = 1 .. Len(b.matched) /\ Len(listed) = Len(b.matched)
         /\ \A k \in DOMAIN listed : listed[k].status = b.jobs[order[k]]
         /\ \A item : Cardinality({k \in DOMAIN listed : listed[k] = [item |-> item, status |-> "ok"]})
                        = Cardinality({j \in DOMAIN b.matched : b.matched[j] = item /\ b.jobs[j] = "ok"})
<1> DEFINE n == Len(b.matched)  listed == BulkSummary(b, order).results
           r(k) == [item |-> b.matched[order[k]], status |-> b.jobs[order[k]]]
<1>1. /\ n \in Nat /\ DOMAIN b.matched = 1 .. n /\ DOMAIN order = 1 .. n
      /\ \A k \in 1 .. n : order[k] \in 1 .. n
      /\ \A k, l \in 1 .. n : order[k] = order[l] => k = l
      /\ \A i \in 1 .. n : \E k \in 1 .. n : order[k] = i
  BY OrderFacts
<1>2. listed = [k \in DOMAIN order |-> r(k)]
  BY DEF BulkSummary
<1> HIDE DEF n, r, listed
<1>3. listed = [k \in 1 .. n |-> r(k)]
  BY <1>1, <1>2
<1>4. Len(listed) = n /\ DOMAIN listed = 1 .. n
  <2> DEFINE R == {r(k) : k \in 1 .. n}
  <2>1. \A k \in 1 .. n : r(k) \in R
    OBVIOUS
  <2> HIDE DEF R
  <2>2. listed \in [1 .. n -> R]
    BY <1>3, <2>1
  <2> QED  BY <1>1, <2>2
<1>5. \A k \in 1 .. n : listed[k] = r(k)
  BY <1>3
<1>6. ASSUME NEW item
      PROVE  Cardinality({k \in DOMAIN listed : listed[k] = [item |-> item, status |-> "ok"]})
               = Cardinality({j \in DOMAIN b.matched : b.matched[j] = item /\ b.jobs[j] = "ok"})
  <2> DEFINE A == {k \in DOMAIN listed : listed[k] = [item |-> item, status |-> "ok"]}
             J == {j \in DOMAIN b.matched : b.matched[j] = item /\ b.jobs[j] = "ok"}
  <2>1. \A k \in 1 .. n : r(k) = [item |-> item, status |-> "ok"] <=> b.matched[order[k]] = item /\ b.jobs[order[k]] = "ok"
    BY DEF r
  <2>2. A \subseteq 1 .. n /\ \A k \in 1 .. n : k \in A <=> order[k] \in J
    BY <1>1, <1>4, <1>5, <2>1
  <2>3. J \subseteq 1 .. n
    BY <1>1
  <2> HIDE DEF A, J
  <2>4. IsFiniteSet(A)
    <3>1. IsFiniteSet(1 .. n)
      BY <1>1, FS_Interval
    <3> QED  BY <2>2, <3>1, FS_Subset
  <2>5. \A x \in A : order[x] \in J
    BY <2>2
  <2>6. \A x, y \in A : order[x] = order[y] => x = y
    BY <1>1, <2>2
  <2>7. \A u \in J : \E x \in A : order[x] = u
    BY <1>1, <2>2, <2>3
  <2>8. Matches(order, A, J)
    BY <2>5, <2>6, <2>7 DEF Matches
  <2>9. Cardinality(J) = Cardinality(A)
    BY <2>4, <2>8, MatchedCount
  <2> QED  BY <2>9 DEF A, J
<1>7. \A k \in DOMAIN listed : listed[k].status = b.jobs[order[k]]
  BY <1>4, <1>5 DEF r
<1> QED  BY <1>4, <1>6, <1>7 DEF n, listed

\* The shells of a call that is done are those of its jobs that ended well, and others.
LEMMA ShellsCount ==
  ASSUME NEW b, BulkKind(b), JobsStand(b), b.phase = "done", NEW sh \in Seq(Shell), ShellsStand(b, sh)
  PROVE  /\ \A item : Cardinality({k \in DOMAIN sh : sh[k].item = item /\ sh[k].end = "ok"})
                        = Cardinality({j \in DOMAIN b.matched : b.matched[j] = item /\ b.jobs[j] = "ok"})
         /\ b.ctx = "alive" => Len(sh) = IF b.call.dry THEN 0 ELSE Len(b.matched)
<1> DEFINE f == [k \in DOMAIN sh |-> sh[k].job]
<1>1. /\ DOMAIN sh = 1 .. Len(sh) /\ Len(sh) \in Nat /\ IsFiniteSet(DOMAIN sh) /\ Cardinality(DOMAIN sh) = Len(sh)
      /\ \A I \in SUBSET DOMAIN sh : IsFiniteSet(I)
  BY IndexFacts
<1>2. /\ \A k \in DOMAIN sh : /\ sh[k].job \in DOMAIN b.jobs /\ sh[k].item = b.matched[sh[k].job]
                              /\ b.jobs[sh[k].job] = IF sh[k].end = "none" THEN "running" ELSE sh[k].end
      /\ \A k, l \in DOMAIN sh : sh[k].job = sh[l].job => k = l
      /\ \A j \in DOMAIN b.jobs : b.jobs[j] \in {"running", "ok"} \/ (b.jobs[j] = "error" /\ b.ctx = "alive") =>
            \E k \in DOMAIN sh : sh[k].job = j
      /\ b.call.dry => sh = <<>>
  BY DEF ShellsStand
<1>3. DOMAIN b.matched = DOMAIN b.jobs /\ DOMAIN b.jobs = 1 .. Len(b.matched) /\ Len(b.matched) \in Nat
  BY KindFacts DEF JobsStand
<1>4. \A k \in DOMAIN sh : f[k] = sh[k].job
  OBVIOUS
<1> HIDE DEF f
<1>5. ASSUME NEW item
      PROVE  Cardinality({k \in DOMAIN sh : sh[k].item = item /\ sh[k].end = "ok"})
               = Cardinality({j \in DOMAIN b.matched : b.matched[j] = item /\ b.jobs[j] = "ok"})
  <2> DEFINE B == {k \in DOMAIN sh : sh[k].item = item /\ sh[k].end = "ok"}
             J == {j \in DOMAIN b.matched : b.matched[j] = item /\ b.jobs[j] = "ok"}
  <2>1. IsFiniteSet(B)
    BY <1>1
  <2>2. \A k \in DOMAIN sh : k \in B <=> f[k] \in J
    BY <1>2, <1>3, <1>4
  <2>3. \A u \in J : u \in DOMAIN b.jobs /\ b.jobs[u] = "ok"
    BY <1>3
  <2>4. B \subseteq DOMAIN sh
    OBVIOUS
  <2> HIDE DEF B, J
  <2>5. \A x \in B : f[x] \in J
    BY <2>2, <2>4
  <2>6. \A x, y \in B : f[x] = f[y] => x = y
    BY <1>2, <1>4, <2>4
  <2>7. \A u \in J : \E x \in B : f[x] = u
    <3> SUFFICES ASSUME NEW u \in J PROVE \E x \in B : f[x] = u
      OBVIOUS
    <3>1. PICK k \in DOMAIN sh : sh[k].job = u
      BY <1>2, <2>3
    <3> QED  BY <1>4, <2>2, <3>1
  <2>8. Matches(f, B, J)
    BY <2>5, <2>6, <2>7 DEF Matches
  <2>9. Cardinality(J) = Cardinality(B)
    BY <2>1, <2>8, MatchedCount
  <2> QED  BY <2>9 DEF B, J
<1>6. ASSUME b.ctx = "alive" PROVE Len(sh) = IF b.call.dry THEN 0 ELSE Len(b.matched)
  <2>1. CASE b.call.dry
    BY <1>2, <2>1
  <2>2. CASE ~b.call.dry
    <3>1. \A j \in DOMAIN b.jobs : b.jobs[j] \in {"ok", "error"}
      BY <2>2 DEF JobsStand
    <3>2. \A u \in DOMAIN b.jobs : \E k \in DOMAIN sh : f[k] = u
      BY <1>2, <1>4, <1>6, <3>1
    <3>3. \A x \in DOMAIN sh : f[x] \in DOMAIN b.jobs
      BY <1>2, <1>4
    <3>4. \A x, y \in DOMAIN sh : f[x] = f[y] => x = y
      BY <1>2, <1>4
    <3>5. Matches(f, DOMAIN sh, DOMAIN b.jobs)
      BY <3>2, <3>3, <3>4 DEF Matches
    <3>6. Cardinality(DOMAIN b.jobs) = Cardinality(DOMAIN sh)
      BY <1>1, <3>5, MatchedCount
    <3>7. Cardinality(DOMAIN b.jobs) = Len(b.matched)
      BY <1>3, FS_Interval
    <3> QED  BY <1>1, <2>2, <3>6, <3>7
  <2>3. b.call.dry \in BOOLEAN
    BY KindFacts
  <2> QED  BY <2>1, <2>2, <2>3
<1> QED  BY <1>5, <1>6

\* What the summary counts.
LEMMA SummaryCounts ==
  ASSUME NEW b, BulkKind(b), JobsStand(b), b.phase = "done", NEW order
  PROVE  LET summary == BulkSummary(b, order) IN
         /\ summary.ok + summary.failed = summary.matched
         /\ summary.exit = 0 /\ ~b.call.dry => \A j \in DOMAIN b.jobs : b.jobs[j] = "ok"
<1> DEFINE E == {j \in DOMAIN b.jobs : b.jobs[j] = "error"}  failed == CountFailed(b, "error")
           summary == BulkSummary(b, order)
<1>1. failed = Cardinality(E)
  BY DEF CountFailed
<1>2. E \in SUBSET DOMAIN b.jobs
  OBVIOUS
<1>3. IsFiniteSet(E) /\ Cardinality(E) \in Nat
  BY <1>2, KindFacts
<1>4. Len(b.matched) \in Nat
  BY DEF BulkKind
<1>5. /\ summary.ok = Len(b.matched) - failed /\ summary.failed = failed /\ summary.matched = Len(b.matched)
      /\ summary.exit = IF failed > 0 THEN 1 ELSE 0
  BY DEF BulkSummary
<1>6. ASSUME ~b.call.dry, failed = 0 PROVE \A j \in DOMAIN b.jobs : b.jobs[j] = "ok"
  <2>1. E = {}
    BY <1>1, <1>3, <1>6, FS_EmptySet
  <2>2. \A j \in DOMAIN b.jobs : b.jobs[j] \in {"ok", "error"}
    BY <1>6 DEF JobsStand
  <2> QED  BY <2>1, <2>2
<1> HIDE DEF E, failed, summary
<1>7. failed \in Nat
  BY <1>1, <1>3
<1>8. summary.ok + summary.failed = summary.matched
  BY <1>4, <1>5, <1>7
<1>9. summary.exit = 0 => failed = 0
  BY <1>5, <1>7
<1> QED  BY <1>6, <1>8, <1>9 DEF summary

\* What the invariant says of the summary.
LEMMA BulkTells == BulkIInv => BulkTellsWhatRan
<1> SUFFICES ASSUME BulkIInv PROVE BulkTellsWhatRan
  OBVIOUS
<1>1. CASE ~(BulkKind(bulk) /\ JobsStand(bulk) /\ ShellsStand(bulk, shells))
  <2>1. shells = <<>> /\ bulk.phase # "done"
    BY <1>1 DEF BulkIInv, BulkStands, BulkIdle
  <2> QED  BY <2>1 DEF BulkTellsWhatRan
<1>2. CASE BulkKind(bulk) /\ JobsStand(bulk) /\ ShellsStand(bulk, shells)
  <2>1. /\ \A k, l \in DOMAIN shells : shells[k].job = shells[l].job => k = l
        /\ bulk.call.dry => shells = <<>>
    BY <1>2 DEF ShellsStand
  <2>2. shells # <<>> => ~bulk.call.dry /\ (IsMutating(bulk.call.command) => bulk.call.explicit)
    BY <1>2, <2>1, CallFacts DEF BulkKind
  <2>3. ASSUME bulk.phase = "done"
        PROVE  LET summary == bulk.answer
                   well(item) == Cardinality({k \in DOMAIN summary.results : summary.results[k] = [item |-> item, status |-> "ok"]})
                   endedWell(item) == Cardinality({k \in DOMAIN shells : shells[k].item = item /\ shells[k].end = "ok"}) IN
               /\ summary.matched = Len(summary.results)
               /\ summary.ok + summary.failed = summary.matched
               /\ \A item \in Range(bulk.matched) : well(item) = endedWell(item)
               /\ (summary.exit = 0 /\ ~bulk.call.dry) => \A k \in DOMAIN summary.results : summary.results[k].status = "ok"
               /\ bulk.ctx = "alive" => Len(shells) = IF bulk.call.dry THEN 0 ELSE summary.matched
    <3>1. PICK order \in ResultOrders(bulk) : bulk.answer = BulkSummary(bulk, order)
      BY <2>3 DEF BulkIInv, BulkStands, BulkIdle
    <3>2. shells \in Seq(Shell)
      BY DEF BulkIInv, BulkStands
    <3> DEFINE summary == bulk.answer
    <3>3. summary.matched = Len(bulk.matched)
      BY <3>1 DEF BulkSummary
    <3> DEFINE listed == BulkSummary(bulk, order).results
    <3>4. /\ DOMAIN listed = 1 .. Len(bulk.matched) /\ Len(listed) = Len(bulk.matched)
          /\ \A k \in DOMAIN listed : listed[k].status = bulk.jobs[order[k]]
          /\ \A item : Cardinality({k \in DOMAIN listed : listed[k] = [item |-> item, status |-> "ok"]})
                         = Cardinality({j \in DOMAIN bulk.matched : bulk.matched[j] = item /\ bulk.jobs[j] = "ok"})
      BY <1>2, ToldFacts
    <3> HIDE DEF listed
    <3>5. summary.results = listed
      BY <3>1 DEF listed
    <3>6. /\ \A item : Cardinality({k \in DOMAIN shells : shells[k].item = item /\ shells[k].end = "ok"})
                         = Cardinality({j \in DOMAIN bulk.matched : bulk.matched[j] = item /\ bulk.jobs[j] = "ok"})
          /\ bulk.ctx = "alive" => Len(shells) = IF bulk.call.dry THEN 0 ELSE Len(bulk.matched)
      BY <1>2, <2>3, <3>2, ShellsCount
    <3>7. /\ summary.ok + summary.failed = summary.matched
          /\ summary.exit = 0 /\ ~bulk.call.dry => \A j \in DOMAIN bulk.jobs : bulk.jobs[j] = "ok"
      BY <1>2, <2>3, <3>1, SummaryCounts
    <3>8. (summary.exit = 0 /\ ~bulk.call.dry) => \A k \in DOMAIN summary.results : summary.results[k].status = "ok"
      <4>1. \A k \in 1 .. Len(bulk.matched) : order[k] \in DOMAIN bulk.jobs
        BY <1>2, <2>3, <3>1, OrderFacts, KindFacts DEF JobsStand
      <4> HIDE DEF summary
      <4>2. \A k \in DOMAIN summary.results : summary.results[k].status = bulk.jobs[order[k]]
        BY <3>4, <3>5
      <4>3. DOMAIN summary.results = 1 .. Len(bulk.matched)
        BY <3>4, <3>5
      <4> QED  BY <3>7, <4>1, <4>2, <4>3
    <3> HIDE DEF summary
    <3>9. \A item \in Range(bulk.matched) :
            Cardinality({k \in DOMAIN summary.results : summary.results[k] = [item |-> item, status |-> "ok"]})
              = Cardinality({k \in DOMAIN shells : shells[k].item = item /\ shells[k].end = "ok"})
      <4> SUFFICES ASSUME NEW item \in Range(bulk.matched)
                   PROVE  Cardinality({k \in DOMAIN summary.results : summary.results[k] = [item |-> item, status |-> "ok"]})
                            = Cardinality({k \in DOMAIN shells : shells[k].item = item /\ shells[k].end = "ok"})
        OBVIOUS
      <4>1. Cardinality({k \in DOMAIN summary.results : summary.results[k] = [item |-> item, status |-> "ok"]})
              = Cardinality({j \in DOMAIN bulk.matched : bulk.matched[j] = item /\ bulk.jobs[j] = "ok"})
        BY <3>4, <3>5, Zenon
      <4>2. Cardinality({k \in DOMAIN shells : shells[k].item = item /\ shells[k].end = "ok"})
              = Cardinality({j \in DOMAIN bulk.matched : bulk.matched[j] = item /\ bulk.jobs[j] = "ok"})
        BY <3>6, Zenon
      <4> QED  BY <4>1, <4>2, Zenon
    <3> QED  BY <3>4, <3>3, <3>5, <3>6, <3>7, <3>8, <3>9 DEF summary
  <2> QED  BY <2>1, <2>2, <2>3 DEF BulkTellsWhatRan
<1> QED  BY <1>1, <1>2

\* What the invariant says of the scan, and of the kinds.
LEMMA BulkFinds == BulkIInv => BulkTypeOK /\ ScansFindTheOutermost
<1> SUFFICES ASSUME BulkIInv PROVE BulkTypeOK /\ ScansFindTheOutermost
  OBVIOUS
<1>1. CASE bulk.phase \in {"idle", "refused"}
  <2>1. shells = <<>>
    BY <1>1 DEF BulkIInv, BulkStands, BulkKind
  <2> QED  BY <1>1, <2>1 DEF BulkTypeOK, ScansFindTheOutermost
<1>2. CASE bulk.phase \notin {"idle", "refused"}
  <2>1. /\ BulkKind(bulk) /\ shells \in Seq(Shell)
        /\ Cardinality({i \in DOMAIN bulk.jobs : bulk.jobs[i] = "running"}) <= bulk.call.limit
    BY <1>2 DEF BulkIInv, BulkStands, BulkIdle, JobsStand
  <2>2. \A k \in DOMAIN shells : shells[k].end \in {"none", "ok", "error"}
    BY <2>1, ShellFacts
  <2>3. BulkTypeOK
    BY <2>1, <2>2 DEF BulkKind, BulkTypeOK, BulkRunning
  <2>4. bulk.call.source \in {"git_repos", "dirs"} => Range(bulk.items) = WalkDirs(bulk.call)
    BY <2>1, ScanFacts DEF BulkKind
  <2>5. ScansFindTheOutermost
    <3>1. bulk.call \in BulkCalls
      BY <2>1 DEF BulkKind
    <3> QED  BY <2>4, <3>1, WalkFinds DEF ScansFindTheOutermost
  <2> QED  BY <2>3, <2>5
<1> QED  BY <1>1, <1>2

(* For any tree of directories and any arguments, a command runs once for   *)
(* each item and as the call allows, the summary tells what became of each, *)
(* and a scan finds the outermost matches (bulk/execute.go:13,              *)
(* bulk/scanner.go:47).                                                     *)
THEOREM BulkTold == BulkSpec => [](BulkTypeOK /\ BulkTellsWhatRan /\ ScansFindTheOutermost)
BY BulkInductive, BulkTells, BulkFinds, PTL DEF BulkSpec

-----------------------------------------------------------------------------
(* The composition: whichever of them runs, the others stay as they are.    *)

WorkIInv == LoopIInv /\ SubagentIInv /\ CoordinatorIInv /\ BulkIInv /\ McpIInv

\* The invariants hold together at first and are kept together.
LEMMA WorkInductive ==
  /\ WorkInit => WorkIInv
  /\ WorkIInv /\ [WorkNext]_workvars => WorkIInv'
<1>1. WorkInit => WorkIInv
  BY LoopInitIInv, SubagentInitIInv, CoordinatorInitIInv, BulkInductive, McpInitIInv DEF WorkInit, WorkIInv
<1>2. [WorkNext]_workvars => /\ [LoopNext]_lvars /\ [SubagentNext]_svars /\ [CoordinatorNext]_dvars
                             /\ [BulkNext]_bvars /\ [McpNext]_mcpvars
  BY DEF WorkNext, workvars
<1>3. LoopIInv /\ [LoopNext]_lvars => LoopIInv'
  BY LoopKindsStep, LoopOrderStep DEF LoopIInv
<1> QED  BY <1>1, <1>2, <1>3, SubagentNextIInv, CoordinatorNextIInv, BulkInductive, McpNextIInv DEF WorkIInv

(* For any values of the constants, the variables of every module keep      *)
(* their kinds, whichever of them runs.                                     *)
THEOREM WorkTyped == WorkSpec => []WorkTypeOK
<1>1. WorkIInv => WorkTypeOK
  BY LoopTyped, CoordinatorTells, BulkFinds, McpTells DEF WorkIInv, WorkTypeOK, SubagentIInv
<1> QED  BY <1>1, WorkInductive, PTL DEF WorkSpec

(* EACH IS TOLD ONCE: of agents, of commands and of MCP servers that are    *)
(* started side by side one thing is told of each                           *)
(* (coordinator/dispatch.go:43, bulk/execute.go:13, mcp/manager.go:43).     *)
THEOREM EachToldOnce == WorkSpec => []EachIsToldOnce
<1>1. WorkIInv => EachIsToldOnce
  BY CoordinatorTells, BulkTells, BulkFinds, McpTells DEF WorkIInv, EachIsToldOnce
<1> QED  BY <1>1, WorkInductive, PTL DEF WorkSpec

-----------------------------------------------------------------------------

(***************************************************************************)
(* One run of a pipeline.  Everything is said by stages: Now is the one    *)
(* the run has reached.  What is active is of that stage (ActiveHere), no  *)
(* later step has ended (LaterUnended), and a step neither active nor      *)
(* ended is as it was at first (Untouched).                                *)
(***************************************************************************)
Ungrouped == Len(Main)
Unfinal == Len(Main) + Len(Groups)
Now ==
  CASE part = "main" -> at
    [] part = "groups" -> Len(Main) + at
    [] OTHER -> Len(Main) + Len(Groups) + at

Reported == Steps \ InSeq(Finals)
Entries == [step : Reported, status : {"ok", "error", "skipped"}]

PipeKinds ==
  /\ part \in {"main", "groups", "finally", "done"}
  /\ at \in Nat \ {0} /\ begun \in Nat
  /\ active \subseteq Steps /\ bad \subseteq Steps /\ IsFiniteSet(active)
  /\ tries \in [Steps -> Nat] /\ ran \in [Steps -> Nat]
  /\ ended \in [Steps -> {"", "ok", "error"}]
  /\ stepResults \in Seq(Entries)
  /\ status \in {"", "ok", "partial", "error"}
  /\ ctxDone \in BOOLEAN

Bounds ==
  /\ part = "main" => at <= Len(Main) + 1
  /\ part = "groups" => at <= Len(Groups) + 1
  /\ part = "finally" => at <= Len(Finals) + 1
  /\ part = "done" => at = Len(Finals) + 1

\* Commands are of active steps, and no more of a step than it may have.
CommandsHere ==
  /\ IsFiniteSet(commands)
  /\ \A c \in commands : c[1] \in active /\ c[2] \in 1 .. Tries(c[1])
  /\ \A s \in Steps : Cardinality(RunningOf(s)) <= Parallelism(s)

ActiveHere == \A s \in active :
  /\ ended[s] = "" /\ Stage(s) = Now /\ part # "done"
  /\ part = "main" => Stage(s) <= Ungrouped
  /\ part = "groups" => Stage(s) \in Ungrouped + 1 .. Unfinal
  /\ part = "finally" => Stage(s) > Unfinal

LaterUnended == \A s \in Steps : Stage(s) >= Now /\ ended[s] # "" =>
  part = "groups" /\ Stage(s) = Now /\ Stage(s) <= Unfinal

Untouched == \A s \in Steps : s \notin active /\ ended[s] = "" =>
  tries[s] = 0 /\ ran[s] = 0 /\ s \notin bad

\* The group is begun in its order.
GroupBegun == part = "groups" /\ at <= Len(Groups) =>
  \A i \in DOMAIN Groups[at] : i > begun => Groups[at][i] \notin active /\ ended[Groups[at][i]] = ""

ActiveLimit == Cardinality(active) <= Concurrency

\* The steps of the report that ended in an error before now.
FailedBefore == {s \in Reported : Stage(s) < Now /\ ended[s] = "error"}

StatusSoFar == part # "done" =>
  status = IF \E s \in FailedBefore : ~MayFail(s) THEN "error" ELSE ""

\* The report so far: what ended, as it ended, in the order of the stages.
EndedAreReported == \A s \in Reported : Stage(s) < Now /\ ended[s] # "" =>
  \E i \in DOMAIN stepResults : stepResults[i] = Result(s, ended[s])
ReportedHaveEnded == \A i \in DOMAIN stepResults :
  /\ Stage(stepResults[i].step) < Now
  /\ stepResults[i].status = "skipped" \/ ended[stepResults[i].step] = stepResults[i].status
InOrderOnce == \A i, j \in DOMAIN stepResults : i < j =>
  /\ stepResults[i].step # stepResults[j].step
  /\ Stage(stepResults[i].step) <= Stage(stepResults[j].step)

\* What a step that has ended has tried.
Attempts == \A s \in Steps :
  /\ ~ctxDone => ran[s] = tries[s]
  /\ ended[s] = "error" /\ s \notin Iterated \cup Json => tries[s] = Tries(s)
  /\ ended[s] # "" /\ Tries(s) > 0 => tries[s] > 0

FinalsEnd == part \in {"finally", "done"} =>
  \A s \in InSeq(Finals) : Stage(s) < Now => ended[s] # ""

PipeIInv ==
  /\ PipeKinds /\ Bounds /\ CommandsHere /\ ActiveHere /\ LaterUnended /\ Untouched /\ GroupBegun
  /\ ActiveLimit /\ StatusSoFar /\ EndedAreReported /\ ReportedHaveEnded /\ InOrderOnce
  /\ Attempts /\ FinalsEnd
  /\ StatusTells


\* A function on an initial interval is a sequence.
LEMMA FunctionIsSeq ==
  ASSUME NEW S, NEW n \in Nat, NEW f \in [1 .. n -> S]
  PROVE  f \in Seq(S) /\ Len(f) = n /\ DOMAIN f = 1 .. n
BY SeqDef

\* The three parts of a definition and what they hold.
LEMMA PartsFacts ==
  /\ Main \in Seq(Steps) /\ Groups \in Seq(Seq(Steps)) /\ Finals \in Seq(Steps)
  /\ Len(Main) \in Nat /\ Len(Groups) \in Nat /\ Len(Finals) \in Nat
  /\ DOMAIN Main = 1 .. Len(Main) /\ DOMAIN Groups = 1 .. Len(Groups) /\ DOMAIN Finals = 1 .. Len(Finals)
  /\ \A i \in DOMAIN Main : Main[i] \in Steps
  /\ \A i \in DOMAIN Finals : Finals[i] \in Steps
  /\ \A g \in DOMAIN Groups :
       /\ Groups[g] \in Seq(Steps)
       /\ Len(Groups[g]) \in Nat /\ DOMAIN Groups[g] = 1 .. Len(Groups[g])
       /\ InSeq(Groups[g]) \subseteq Steps
<1>1. Main \in Seq(Steps) /\ Groups \in Seq(Seq(Steps)) /\ Finals \in Seq(Steps)
  BY PipelineAssumption
<1>2. /\ Len(Main) \in Nat /\ Len(Groups) \in Nat /\ Len(Finals) \in Nat
      /\ DOMAIN Main = 1 .. Len(Main) /\ DOMAIN Groups = 1 .. Len(Groups) /\ DOMAIN Finals = 1 .. Len(Finals)
  BY <1>1, LenProperties
<1>3. ASSUME NEW g \in DOMAIN Groups
      PROVE  /\ Groups[g] \in Seq(Steps)
             /\ Len(Groups[g]) \in Nat /\ DOMAIN Groups[g] = 1 .. Len(Groups[g])
  BY <1>1, <1>2, ElementOfSeq, LenProperties
<1>4. \A g \in DOMAIN Groups : InSeq(Groups[g]) \subseteq Steps
  BY DEF Steps, GroupSteps
<1>5. \A i \in DOMAIN Main : Main[i] \in Steps
  BY DEF Steps, InSeq
<1>6. \A i \in DOMAIN Finals : Finals[i] \in Steps
  BY DEF Steps, InSeq
<1> QED BY <1>1, <1>2, <1>3, <1>4, <1>5, <1>6

\* How many stages of each kind there are.
LEMMA Sizes ==
  /\ Len(Main) \in Nat /\ Len(Groups) \in Nat /\ Len(Finals) \in Nat
  /\ Ungrouped = Len(Main) /\ Unfinal = Len(Main) + Len(Groups)
  /\ DOMAIN Main = 1 .. Len(Main) /\ DOMAIN Groups = 1 .. Len(Groups) /\ DOMAIN Finals = 1 .. Len(Finals)
BY PartsFacts DEF Ungrouped, Unfinal

\* What the stages are.
LEMMA StagesAre ==
  /\ DOMAIN Stages = 1 .. Unfinal + Len(Finals)
  /\ \A i \in DOMAIN Main : Stages[i] = {Main[i]}
  /\ \A g \in DOMAIN Groups : Stages[Ungrouped + g] = InSeq(Groups[g])
  /\ \A i \in DOMAIN Finals : Stages[Unfinal + i] = {Finals[i]}
<1> DEFINE a == [i \in DOMAIN Main |-> {Main[i]}]
           b == [g \in DOMAIN Groups |-> InSeq(Groups[g])]
           c == [i \in DOMAIN Finals |-> {Finals[i]}]
           S == SUBSET Steps
           d == a \o b
<1>1. a \in [1 .. Len(Main) -> S] /\ b \in [1 .. Len(Groups) -> S] /\ c \in [1 .. Len(Finals) -> S]
  BY PartsFacts
<1>2. /\ \A i \in DOMAIN Main : a[i] = {Main[i]}
      /\ \A g \in DOMAIN Groups : b[g] = InSeq(Groups[g])
      /\ \A i \in DOMAIN Finals : c[i] = {Finals[i]}
  OBVIOUS
<1>3. Stages = a \o b \o c
  BY DEF Stages
<1> HIDE DEF a, b, c, S, d
<1>4. /\ a \in Seq(S) /\ b \in Seq(S) /\ c \in Seq(S)
      /\ Len(a) = Len(Main) /\ Len(b) = Len(Groups) /\ Len(c) = Len(Finals)
  BY <1>1, PartsFacts, FunctionIsSeq
<1>5. /\ d \in Seq(S) /\ Len(d) = Unfinal
      /\ \A i \in 1 .. Unfinal : d[i] = IF i <= Len(Main) THEN a[i] ELSE b[i - Len(Main)]
  <2>1. /\ a \o b \in Seq(S) /\ Len(a \o b) = Len(a) + Len(b)
        /\ \A i \in 1 .. Len(a) + Len(b) : (a \o b)[i] = IF i <= Len(a) THEN a[i] ELSE b[i - Len(a)]
    BY <1>4, ConcatProperties
  <2> QED BY <2>1, <1>4 DEF Unfinal, d
<1>6. /\ Stages \in Seq(S) /\ Len(Stages) = Unfinal + Len(Finals)
      /\ \A i \in 1 .. Unfinal + Len(Finals) :
           Stages[i] = IF i <= Unfinal THEN d[i] ELSE c[i - Unfinal]
  <2>2. /\ d \o c \in Seq(S) /\ Len(d \o c) = Len(d) + Len(c)
        /\ \A i \in 1 .. Len(d) + Len(c) : (d \o c)[i] = IF i <= Len(d) THEN d[i] ELSE c[i - Len(d)]
    <3>1. d \in Seq(S) /\ c \in Seq(S)
      BY <1>5, <1>4
    <3> QED BY ONLY <3>1, ConcatProperties
  <2>3. Stages = d \o c
    BY <1>3 DEF d
  <2> QED BY <1>5, <2>2, <2>3, <1>4
<1>7. DOMAIN Stages = 1 .. Unfinal + Len(Finals)
  BY <1>6, LenProperties
<1>8. Len(Main) \in Nat /\ Len(Groups) \in Nat /\ Len(Finals) \in Nat
  BY PartsFacts
<1>12. ASSUME NEW k \in 1 .. Unfinal PROVE Stages[k] = d[k]
  <2>1. k \in 1 .. Unfinal + Len(Finals) /\ k <= Unfinal
    BY <1>8 DEF Unfinal
  <2> QED BY <2>1, <1>6
<1>9. ASSUME NEW i \in DOMAIN Main PROVE Stages[i] = {Main[i]}
  <2>1. i \in 1 .. Len(Main)
    BY PartsFacts
  <2>2. Stages[i] = d[i]
    BY <2>1, <1>12, <1>8 DEF Unfinal
  <2>3. d[i] = a[i]
    BY <2>1, <1>5, <1>8 DEF Unfinal
  <2> QED BY <2>2, <2>3, <1>2
<1>10. ASSUME NEW g \in DOMAIN Groups PROVE Stages[Ungrouped + g] = InSeq(Groups[g])
  <2> DEFINE k == Ungrouped + g
  <2>1. g \in 1 .. Len(Groups)
    BY PartsFacts
  <2>2. k \in 1 .. Unfinal /\ ~(k <= Len(Main)) /\ k - Len(Main) = g
    BY <2>1, <1>8 DEF Unfinal, Ungrouped
  <2> HIDE DEF k
  <2>3. Stages[k] = d[k]
    BY <2>2, <1>12
  <2>4. d[k] = b[k - Len(Main)]
    BY <2>2, <1>5
  <2> QED BY <2>2, <2>3, <2>4, <1>2 DEF k
<1>11. ASSUME NEW i \in DOMAIN Finals PROVE Stages[Unfinal + i] = {Finals[i]}
  <2>1. i \in 1 .. Len(Finals)
    BY PartsFacts
  <2> QED BY <2>1, <1>2, <1>6, <1>8 DEF Unfinal
<1> QED BY <1>7, <1>9, <1>10, <1>11

\* A step is of the stage it is in.
LEMMA StageIs == ASSUME NEW i \in DOMAIN Stages, NEW s \in Stages[i] PROVE Stage(s) = i
BY PipelineAssumption DEF Stage

\* Where the steps are.
LEMMA PlaceFacts ==
  /\ \A s \in Steps : Stage(s) \in 1 .. Unfinal + Len(Finals)
  /\ \A i \in DOMAIN Main : Stage(Main[i]) = i
  /\ \A g \in DOMAIN Groups : \A s \in InSeq(Groups[g]) : Stage(s) = Ungrouped + g
  /\ \A i \in DOMAIN Finals : Stage(Finals[i]) = Unfinal + i
  /\ \A s \in Steps :
       /\ Stage(s) <= Ungrouped => Stage(s) \in DOMAIN Main /\ s = Main[Stage(s)]
       /\ Stage(s) \in Ungrouped + 1 .. Unfinal =>
            Stage(s) - Ungrouped \in DOMAIN Groups /\ s \in InSeq(Groups[Stage(s) - Ungrouped])
       /\ Stage(s) > Unfinal => Stage(s) - Unfinal \in DOMAIN Finals /\ s = Finals[Stage(s) - Unfinal]
       /\ s \in InSeq(Finals) <=> Stage(s) > Unfinal
<1>0. /\ Len(Main) \in Nat /\ Len(Groups) \in Nat /\ Len(Finals) \in Nat
      /\ Ungrouped = Len(Main) /\ Unfinal = Len(Main) + Len(Groups)
      /\ DOMAIN Main = 1 .. Len(Main) /\ DOMAIN Groups = 1 .. Len(Groups)
      /\ DOMAIN Finals = 1 .. Len(Finals)
  BY PartsFacts DEF Ungrouped, Unfinal
<1>6. /\ \A i \in DOMAIN Main : i \in DOMAIN Stages
      /\ \A g \in DOMAIN Groups : Ungrouped + g \in DOMAIN Stages
      /\ \A i \in DOMAIN Finals : Unfinal + i \in DOMAIN Stages
  <2>1. DOMAIN Stages = 1 .. Unfinal + Len(Finals)
    BY StagesAre
  <2> QED BY <1>0, <2>1
<1>1. ASSUME NEW i \in DOMAIN Main PROVE Stage(Main[i]) = i
  <2>1. i \in DOMAIN Stages /\ Main[i] \in Stages[i]
    BY <1>6, StagesAre
  <2> QED BY <2>1, StageIs
<1>2. ASSUME NEW g \in DOMAIN Groups, NEW s \in InSeq(Groups[g]) PROVE Stage(s) = Ungrouped + g
  <2>1. Ungrouped + g \in DOMAIN Stages /\ s \in Stages[Ungrouped + g]
    BY <1>6, StagesAre
  <2> QED BY <2>1, StageIs
<1>3. ASSUME NEW i \in DOMAIN Finals PROVE Stage(Finals[i]) = Unfinal + i
  <2>1. Unfinal + i \in DOMAIN Stages /\ Finals[i] \in Stages[Unfinal + i]
    BY <1>6, StagesAre
  <2> QED BY <2>1, StageIs
<1>4. ASSUME NEW s \in Steps
      PROVE  \/ \E i \in DOMAIN Main : s = Main[i]
             \/ \E g \in DOMAIN Groups : s \in InSeq(Groups[g])
             \/ \E i \in DOMAIN Finals : s = Finals[i]
  BY DEF Steps, GroupSteps, InSeq
<1>5. ASSUME NEW s \in Steps
      PROVE  /\ Stage(s) \in 1 .. Unfinal + Len(Finals)
             /\ Stage(s) <= Ungrouped => Stage(s) \in DOMAIN Main /\ s = Main[Stage(s)]
             /\ Stage(s) \in Ungrouped + 1 .. Unfinal =>
                  Stage(s) - Ungrouped \in DOMAIN Groups /\ s \in InSeq(Groups[Stage(s) - Ungrouped])
             /\ Stage(s) > Unfinal => Stage(s) - Unfinal \in DOMAIN Finals /\ s = Finals[Stage(s) - Unfinal]
             /\ s \in InSeq(Finals) <=> Stage(s) > Unfinal
  <2>0. s \in InSeq(Finals) <=> \E i \in DOMAIN Finals : s = Finals[i]
    BY DEF InSeq
  <2>1. CASE \E i \in DOMAIN Main : s = Main[i]
    BY <2>0, <2>1, <1>0, <1>1, <1>3
  <2>2. CASE \E g \in DOMAIN Groups : s \in InSeq(Groups[g])
    <3>1. PICK g \in DOMAIN Groups : s \in InSeq(Groups[g])
      BY <2>2
    <3>2. Stage(s) = Ungrouped + g /\ g \in 1 .. Len(Groups) /\ Stage(s) - Ungrouped = g
      BY <3>1, <1>2, <1>0
    <3> QED BY <2>0, <3>1, <3>2, <1>0, <1>3
  <2>3. CASE \E i \in DOMAIN Finals : s = Finals[i]
    <3>1. PICK i \in DOMAIN Finals : s = Finals[i]
      BY <2>3
    <3>2. Stage(s) = Unfinal + i /\ i \in 1 .. Len(Finals) /\ Stage(s) - Unfinal = i
      BY <3>1, <1>3, <1>0
    <3>3. /\ Stage(s) \in 1 .. Unfinal + Len(Finals) /\ ~(Stage(s) <= Ungrouped)
          /\ Stage(s) \notin Ungrouped + 1 .. Unfinal /\ Stage(s) > Unfinal
      <4>1. /\ Len(Main) \in Nat /\ Len(Groups) \in Nat /\ Len(Finals) \in Nat
            /\ Ungrouped = Len(Main) /\ Unfinal = Len(Main) + Len(Groups)
        BY <1>0
      <4>2. Stage(s) = Unfinal + i /\ i \in 1 .. Len(Finals)
        BY <3>2
      <4> QED BY ONLY <4>1, <4>2
    <3>4. s \in InSeq(Finals) /\ Stage(s) - Unfinal \in DOMAIN Finals /\ s = Finals[Stage(s) - Unfinal]
      BY <2>0, <3>1, <3>2
    <3> QED BY <3>3, <3>4
  <2> QED BY <1>4, <2>1, <2>2, <2>3
<1> QED BY <1>1, <1>2, <1>3, <1>5


\* The counters of a run.
LEMMA Counters ==
  PipeKinds => at \in Nat \ {0} /\ begun \in Nat /\ part \in {"main", "groups", "finally", "done"}
BY DEF PipeKinds

\* The main step the run has reached.
LEMMA AtMain ==
  ASSUME PipeKinds, MainStep
  PROVE  /\ Main[at] \in Reported
         /\ Stage(Main[at]) = Now /\ Now = at /\ Stage(Main[at]) <= Ungrouped
         /\ part = "main" /\ at \in 1 .. Len(Main)
<1>1. part = "main" /\ at \in DOMAIN Main
  BY Sizes, Counters DEF MainStep
<1>2. Main[at] \in Steps /\ Stage(Main[at]) = at
  BY <1>1, PartsFacts, PlaceFacts
<1>3. Now = at /\ at <= Ungrouped /\ at <= Unfinal
  BY <1>1, Sizes, Counters DEF Now
<1>4. Main[at] \notin InSeq(Finals)
  BY <1>2, <1>3, PlaceFacts, Sizes, Counters
<1> QED BY <1>1, <1>2, <1>3, <1>4, PartsFacts DEF Reported

\* The steps of the group the run has reached.
LEMMA AtGroup ==
  ASSUME PipeKinds, part = "groups", at <= Len(Groups), NEW s \in InSeq(Groups[at])
  PROVE  /\ s \in Reported
         /\ Stage(s) = Now /\ Now = Ungrouped + at /\ Stage(s) \in Ungrouped + 1 .. Unfinal
<1>1. at \in DOMAIN Groups
  BY Sizes, Counters
<1>2. s \in Steps /\ Stage(s) = Ungrouped + at
  BY <1>1, PartsFacts, PlaceFacts
<1>3. Now = Ungrouped + at /\ Ungrouped + at \in Ungrouped + 1 .. Unfinal
  BY Sizes, Counters DEF Now
<1>4. s \notin InSeq(Finals)
  <2>1. ~(Stage(s) > Unfinal)
    BY <1>2, <1>3, Sizes, Counters
  <2> QED BY <1>2, <2>1, PlaceFacts
<1> QED BY <1>2, <1>3, <1>4 DEF Reported

\* The finally step the run has reached.
LEMMA AtFinal ==
  ASSUME PipeKinds, part = "finally", at <= Len(Finals)
  PROVE  /\ Finals[at] \in Steps /\ Finals[at] \in InSeq(Finals)
         /\ Stage(Finals[at]) = Now /\ Now = Unfinal + at /\ Stage(Finals[at]) > Unfinal
         /\ at \in DOMAIN Finals
<1>1. at \in DOMAIN Finals
  BY Sizes, Counters
<1>2. Finals[at] \in Steps /\ Stage(Finals[at]) = Unfinal + at
  BY <1>1, PartsFacts, PlaceFacts
<1>3. Now = Unfinal + at /\ Unfinal + at > Unfinal
  BY Sizes, Counters DEF Now
<1> QED BY <1>1, <1>2, <1>3 DEF InSeq

\* The numbers the stages are counted by.
LEMMA NowFacts ==
  ASSUME PipeKinds
  PROVE  /\ Ungrouped \in Nat /\ Unfinal \in Nat /\ Ungrouped <= Unfinal /\ Len(Finals) \in Nat
         /\ Ungrouped = Len(Main) /\ Unfinal = Ungrouped + Len(Groups) /\ Len(Groups) \in Nat
         /\ Now \in Nat /\ at \in Nat \ {0}
         /\ part = "main" => Now = at
         /\ part = "groups" => Now = Ungrouped + at
         /\ part \in {"finally", "done"} => Now = Unfinal + at
         /\ \A s \in Steps : Stage(s) \in Nat
<1>1. \A s \in Steps : Stage(s) \in Nat
  BY PlaceFacts, Sizes
<1> QED BY <1>1, Sizes, Counters DEF Now

\* How many attempts or iterations a step may have is a number.
LEMMA TriesNat == \A s \in Steps : Tries(s) \in Nat /\ Parallelism(s) \in Nat \ {0}
BY PipelineAssumption DEF Tries, Parallelism

-----------------------------------------------------------------------------
(* The steps of a run are of four kinds: work within a step, the begin of a *)
(* step, its return, and the going on to what comes next.                   *)

Work ==
  \/ \E s \in Steps : StartCommand(s) \/ StartRefused(s)
  \/ \E c \in commands, good \in BOOLEAN : EndCommand(c, good)
  \/ ContextEnds

Begins(s) ==
  \/ s = Main[at] /\ BeginMain
  \/ part = "groups" /\ at <= Len(Groups) /\ begun + 1 \in DOMAIN Groups[at]
       /\ s = Groups[at][begun + 1] /\ BeginInGroup
  \/ part = "finally" /\ at <= Len(Finals) /\ s = Finals[at] /\ BeginFinally

Returns(s, how) ==
  \/ s = Main[at] /\ ReturnMain(how)
  \/ s \in GroupSteps /\ ReturnInGroup(s, how)
  \/ part = "finally" /\ at <= Len(Finals) /\ s = Finals[at] /\ ReturnFinally(how)

GoesOn == Skip \/ LeaveMain \/ LeaveGroup \/ LeaveGroups \/ Finish

\* Every step of a run is of one of these kinds.
LEMMA PipeSteps ==
  ASSUME PipeKinds, Next
  PROVE  \/ Work \/ GoesOn
         \/ \E s \in Steps : Begins(s)
         \/ \E s \in Steps, how \in {"ok", "error"} : Returns(s, how)
<1>1. CASE BeginMain
  <2>1. Main[at] \in Steps
    BY <1>1, AtMain DEF BeginMain, Reported
  <2> QED BY <1>1, <2>1 DEF Begins
<1>2. CASE BeginInGroup
  <2>1. at \in DOMAIN Groups
    BY <1>2, Sizes, Counters DEF BeginInGroup
  <2>2. begun + 1 \in DOMAIN Groups[at]
    BY <1>2, <2>1, PartsFacts, Counters DEF BeginInGroup
  <2>3. Groups[at][begun + 1] \in Steps
    BY <2>1, <2>2, PartsFacts DEF InSeq
  <2> QED BY <1>2, <2>2, <2>3 DEF Begins, BeginInGroup
<1>3. CASE BeginFinally
  <2>1. Finals[at] \in Steps
    BY <1>3, AtFinal DEF BeginFinally
  <2> QED BY <1>3, <2>1 DEF Begins, BeginFinally
<1>4. ASSUME NEW how \in {"ok", "error"}, ReturnMain(how)
      PROVE  \E s \in Steps : Returns(s, how)
  <2>1. Main[at] \in Steps
    BY <1>4, AtMain DEF ReturnMain, Reported
  <2> QED BY <1>4, <2>1 DEF Returns
<1>5. ASSUME NEW how \in {"ok", "error"}, NEW s \in GroupSteps, ReturnInGroup(s, how)
      PROVE  \E q \in Steps : Returns(q, how)
  <2>1. s \in Steps
    BY DEF Steps
  <2> QED BY <1>5, <2>1 DEF Returns
<1>6. ASSUME NEW how \in {"ok", "error"}, ReturnFinally(how)
      PROVE  \E s \in Steps : Returns(s, how)
  <2>1. Finals[at] \in Steps
    BY <1>6, AtFinal DEF ReturnFinally
  <2> QED BY <1>6, <2>1 DEF Returns, ReturnFinally
<1> QED BY <1>1, <1>2, <1>3, <1>4, <1>5, <1>6 DEF Next, Step, Work, GoesOn


-----------------------------------------------------------------------------
\* What work within a step leaves alone.
LEMMA WorkLeaves ==
  ASSUME Work
  PROVE  UNCHANGED <<part, at, begun, active, ended, stepResults, status, onError>>
BY DEF Work, StartCommand, StartRefused, EndCommand, ContextEnds

\* What the begin of a step does, and when.
LEMMA BeginDoes ==
  ASSUME PipeKinds, ActiveHere, GroupBegun, LaterUnended, NEW s \in Steps, Begins(s)
  PROVE  /\ s \notin active /\ ended[s] = "" /\ Stage(s) = Now /\ part # "done"
         /\ part = "main" => Stage(s) <= Ungrouped
         /\ part = "groups" => Stage(s) \in Ungrouped + 1 .. Unfinal
         /\ part = "finally" => Stage(s) > Unfinal
         /\ active' = active \cup {s}
         /\ UNCHANGED <<part, at, tries, commands, bad, ended, stepResults, status, ctxDone, ran, onError>>
         /\ begun' \in Nat
<1>1. CASE s = Main[at] /\ BeginMain
  BY <1>1, AtMain, Counters DEF BeginMain, Begin, Idle
<1>2. CASE /\ part = "groups" /\ at <= Len(Groups) /\ begun + 1 \in DOMAIN Groups[at]
           /\ s = Groups[at][begun + 1] /\ BeginInGroup
  <2>1. s \in InSeq(Groups[at])
    BY <1>2 DEF InSeq
  <2>2. s \notin active /\ ended[s] = ""
    <3>1. begun + 1 > begun
      BY Counters
    <3> QED BY <1>2, <3>1 DEF GroupBegun
  <2>3. active' = active \cup {s} /\ begun' = begun + 1
        /\ UNCHANGED <<part, at, tries, commands, bad, ended, stepResults, status, ctxDone, ran, onError>>
    BY <1>2 DEF BeginInGroup, Begin
  <2>4. part = "groups" /\ begun' \in Nat
    BY <1>2, <2>3, Counters
  <2>5. Stage(s) = Now /\ Stage(s) \in Ungrouped + 1 .. Unfinal
    BY <1>2, <2>1, AtGroup
  <2> QED BY <2>2, <2>3, <2>4, <2>5
<1>3. CASE part = "finally" /\ at <= Len(Finals) /\ s = Finals[at] /\ BeginFinally
  BY <1>3, AtFinal, Counters DEF BeginFinally, Begin, Idle
<1> QED BY <1>1, <1>2, <1>3 DEF Begins

\* What the return of a step does, whichever part of the run it is in.
LEMMA ReturnDoes ==
  ASSUME PipeKinds, ActiveHere, NEW s \in Steps, NEW how \in {"ok", "error"}, Returns(s, how)
  PROVE  /\ s \in active /\ RunningOf(s) = {} /\ part # "done" /\ Stage(s) = Now /\ ended[s] = ""
         /\ tries[s] = Tries(s) \/ (s \notin Iterated /\ tries[s] > 0 /\ s \notin bad)
         /\ how = "error" => s \in bad \cup Malformed \cup Json
         /\ active' = active \ {s} /\ ended' = [ended EXCEPT ![s] = how]
         /\ UNCHANGED <<begun, tries, commands, bad, ctxDone, ran, onError>>
BY DEF Returns, ReturnMain, ReturnInGroup, ReturnFinally, Return, ActiveHere

\* What going on leaves alone.
LEMMA GoesOnLeaves ==
  ASSUME GoesOn
  PROVE  UNCHANGED <<active, tries, commands, bad, ended, ctxDone, ran, onError>>
BY DEF GoesOn, Skip, LeaveMain, LeaveGroup, LeaveGroups, Finish

\* The steps of a group that have all ended make entries of the report.
LEMMA GroupEntries ==
  ASSUME PipeKinds, LeaveGroup
  PROVE  LET g == Groups[at]
             q == GroupResults(g)
         IN  /\ q \in Seq(Entries) /\ Len(q) = Len(g)
             /\ Len(g) \in Nat /\ DOMAIN g = 1 .. Len(g)
             /\ \A i \in DOMAIN g : q[i] = Result(g[i], ended[g[i]])
<1> DEFINE g == Groups[at]
           q == GroupResults(g)
<1>0. part = "groups" /\ at <= Len(Groups)
  BY DEF LeaveGroup
<1>1. \A s \in InSeq(g) : ended[s] # ""
  BY DEF LeaveGroup
<1>2. at \in DOMAIN Groups
  BY <1>0, Sizes, Counters
<1>3. Len(g) \in Nat /\ DOMAIN g = 1 .. Len(g)
  BY <1>2, PartsFacts
<1>4. ASSUME NEW i \in DOMAIN g PROVE Result(g[i], ended[g[i]]) \in Entries
  <2>1. g[i] \in InSeq(g)
    BY DEF InSeq
  <2>2. g[i] \in Reported
    BY <2>1, <1>0, AtGroup
  <2>3. ended[g[i]] \in {"ok", "error"}
    <3>1. g[i] \in Steps
      BY <2>2 DEF Reported
    <3>2. ended \in [Steps -> {"", "ok", "error"}]
      BY DEF PipeKinds
    <3> QED BY <3>1, <3>2, <2>1, <1>1
  <2> QED BY <2>2, <2>3 DEF Result, Entries
<1>5. q = [i \in 1 .. Len(g) |-> Result(g[i], ended[g[i]])]
  BY <1>3 DEF GroupResults
<1>6. q \in [1 .. Len(g) -> Entries]
  BY <1>3, <1>4, <1>5
<1>7. \A i \in DOMAIN g : q[i] = Result(g[i], ended[g[i]])
  BY <1>3, <1>5
<1> HIDE DEF q
<1>8. q \in Seq(Entries) /\ Len(q) = Len(g)
  BY <1>3, <1>6, FunctionIsSeq
<1> QED BY <1>3, <1>7, <1>8 DEF q


\* Main and finally steps are alone.
LEMMA OneActive ==
  ASSUME PipeKinds, ActiveHere, part \in {"main", "finally"}, NEW s \in active, NEW q \in active
  PROVE  s = q
<1>1. s \in Steps /\ q \in Steps /\ Stage(s) = Now /\ Stage(q) = Now
  BY DEF PipeKinds, ActiveHere
<1>2. CASE part = "main"
  <2>1. Stage(s) <= Ungrouped
    BY <1>2 DEF ActiveHere
  <2>2. s = Main[Stage(s)] /\ q = Main[Stage(q)]
    BY <2>1, <1>1, PlaceFacts
  <2> QED BY <2>2, <1>1
<1>3. CASE part = "finally"
  <2>1. Stage(s) > Unfinal
    BY <1>3 DEF ActiveHere
  <2>2. s = Finals[Stage(s) - Unfinal] /\ q = Finals[Stage(q) - Unfinal]
    BY <2>1, <1>1, PlaceFacts
  <2> QED BY <2>2, <1>1
<1> QED BY <1>2, <1>3

\* The run goes on only when no step is active.
LEMMA GoesOnIdle ==
  ASSUME PipeKinds, ActiveHere, GoesOn
  PROVE  active = {}
<1>1. SUFFICES ASSUME NEW s \in active PROVE FALSE
  OBVIOUS
<1>2. s \in Steps /\ Stage(s) = Now /\ ended[s] = ""
      /\ (part = "main" => Stage(s) <= Ungrouped)
      /\ (part = "groups" => Stage(s) \in Ungrouped + 1 .. Unfinal)
      /\ (part = "finally" => Stage(s) > Unfinal)
  BY DEF PipeKinds, ActiveHere
<1>3. CASE Skip
  <2>1. Main[at] \notin active /\ MainStep
    BY <1>3 DEF Skip, Idle
  <2>2. part = "main" /\ Stage(s) = at /\ Stage(s) <= Ungrouped
    BY <2>1, <1>2, AtMain
  <2>3. s = Main[at]
    BY <2>2, <1>2, PlaceFacts
  <2> QED BY <2>1, <2>3
<1>4. CASE LeaveMain
  <2>1. part = "main" /\ at > Len(Main)
    BY <1>4 DEF LeaveMain
  <2>2. Stage(s) = at /\ Stage(s) <= Ungrouped
    BY <2>1, <1>2, NowFacts
  <2> QED BY <2>1, <2>2, Sizes, Counters
<1>5. CASE LeaveGroup
  <2>1. part = "groups" /\ at <= Len(Groups) /\ \A q \in InSeq(Groups[at]) : ended[q] # ""
    BY <1>5 DEF LeaveGroup
  <2>2. Stage(s) \in Ungrouped + 1 .. Unfinal /\ Stage(s) = Ungrouped + at
    BY <2>1, <1>2, NowFacts
  <2>3. Stage(s) - Ungrouped = at
    BY <2>2, NowFacts
  <2>4. s \in InSeq(Groups[at])
    BY <2>2, <2>3, <1>2, PlaceFacts
  <2> QED BY <2>1, <2>4, <1>2
<1>6. CASE LeaveGroups
  <2>1. part = "groups" /\ at > Len(Groups)
    BY <1>6 DEF LeaveGroups
  <2>2. Stage(s) = Ungrouped + at
    BY <2>1, <1>2, NowFacts
  <2>3. Stage(s) \in Ungrouped + 1 .. Unfinal
    BY <2>1, <1>2
  <2> QED BY <2>1, <2>2, <2>3, Sizes, Counters
<1>7. CASE Finish
  <2>1. part = "finally" /\ at > Len(Finals)
    BY <1>7 DEF Finish
  <2>2. Stage(s) = Unfinal + at /\ Stage(s) \in 1 .. Unfinal + Len(Finals)
    BY <2>1, <1>2, NowFacts, PlaceFacts
  <2> QED BY <2>1, <2>2, NowFacts
<1> QED BY <1>3, <1>4, <1>5, <1>6, <1>7 DEF GoesOn

\* Where a return leads.
LEMMA ReturnLeads ==
  ASSUME PipeKinds, ActiveHere, NEW s \in Steps, NEW how \in {"ok", "error"}, Returns(s, how)
  PROVE  \/ /\ part = "groups" /\ UNCHANGED <<part, at, stepResults, status>>
         \/ /\ part = "main" /\ MainStep /\ s = Main[at] /\ active = {s}
            /\ stepResults' = Append(stepResults, Result(s, how))
            /\ \/ how = "error" /\ ~MayFail(s) /\ status' = "error" /\ part' = "groups" /\ at' = 1
               \/ ~(how = "error" /\ ~MayFail(s)) /\ at' = at + 1 /\ UNCHANGED <<part, status>>
         \/ /\ part = "finally" /\ at <= Len(Finals) /\ s = Finals[at] /\ active = {s}
            /\ at' = at + 1 /\ UNCHANGED <<part, stepResults, status>>
<1>1. s \in active
  BY ReturnDoes
<1>2. CASE s = Main[at] /\ ReturnMain(how)
  <2>1. MainStep /\ part = "main"
    BY <1>2 DEF ReturnMain, MainStep
  <2>2. active = {s}
    BY <1>1, <2>1, OneActive
  <2> QED BY <1>2, <2>1, <2>2 DEF ReturnMain
<1>3. CASE s \in GroupSteps /\ ReturnInGroup(s, how)
  BY <1>3 DEF ReturnInGroup
<1>4. CASE part = "finally" /\ at <= Len(Finals) /\ s = Finals[at] /\ ReturnFinally(how)
  <2>1. active = {s}
    BY <1>1, <1>4, OneActive
  <2> QED BY <1>4, <2>1 DEF ReturnFinally
<1> QED BY <1>2, <1>3, <1>4 DEF Returns

\* Where going on leads.
LEMMA GoesOnLeads ==
  ASSUME PipeKinds, Bounds, GoesOn
  PROVE  \/ /\ MainStep /\ part = "main" /\ at' = at + 1 /\ UNCHANGED <<part, begun, status>>
            /\ ended[Main[at]] = ""
            /\ stepResults' = Append(stepResults, Result(Main[at], "skipped"))
         \/ /\ part = "main" /\ at = Len(Main) + 1 /\ part' = "groups" /\ at' = 1
            /\ UNCHANGED <<begun, stepResults, status>>
         \/ /\ LeaveGroup /\ part = "groups" /\ at <= Len(Groups) /\ begun' = 0
            /\ \A q \in InSeq(Groups[at]) : ended[q] # ""
            /\ stepResults' = stepResults \o GroupResults(Groups[at])
            /\ \/ /\ \E q \in InSeq(Groups[at]) : ended[q] = "error" /\ ~MayFail(q)
                  /\ status' = "error" /\ part' = "finally" /\ at' = 1
               \/ /\ ~ \E q \in InSeq(Groups[at]) : ended[q] = "error" /\ ~MayFail(q)
                  /\ at' = at + 1 /\ UNCHANGED <<part, status>>
         \/ /\ part = "groups" /\ at = Len(Groups) + 1 /\ part' = "finally" /\ at' = 1
            /\ UNCHANGED <<begun, stepResults, status>>
         \/ /\ part = "finally" /\ at = Len(Finals) + 1 /\ part' = "done"
            /\ status' = IF status # "" THEN status ELSE IF Failed(stepResults) # {} THEN "partial" ELSE "ok"
            /\ UNCHANGED <<at, begun, stepResults>>
<1>1. CASE Skip
  BY <1>1 DEF Skip, MainStep, Idle
<1>2. CASE LeaveMain
  BY <1>2, Sizes, Counters DEF LeaveMain, Bounds
<1>3. CASE LeaveGroup
  BY <1>3 DEF LeaveGroup
<1>4. CASE LeaveGroups
  <2>1. part = "groups" /\ at > Len(Groups) /\ at <= Len(Groups) + 1
    BY <1>4 DEF LeaveGroups, Bounds
  <2>2. at = Len(Groups) + 1
    BY <2>1, Sizes, Counters
  <2> QED BY <1>4, <2>2 DEF LeaveGroups
<1>5. CASE Finish
  <2>1. part = "finally" /\ at > Len(Finals) /\ at <= Len(Finals) + 1
    BY <1>5 DEF Finish, Bounds
  <2>2. at = Len(Finals) + 1
    BY <2>1, Sizes, Counters
  <2> QED BY <1>5, <2>2 DEF Finish
<1> QED BY <1>1, <1>2, <1>3, <1>4, <1>5 DEF GoesOn


-----------------------------------------------------------------------------
\* Work within a step counts its attempts and keeps the types.
LEMMA WorkCounts ==
  ASSUME PipeKinds, CommandsHere, Work
  PROVE  tries' \in [Steps -> Nat] /\ ran' \in [Steps -> Nat] /\ bad' \subseteq Steps /\ ctxDone' \in BOOLEAN
<1>0. /\ tries \in [Steps -> Nat] /\ ran \in [Steps -> Nat] /\ bad \subseteq Steps
      /\ ctxDone \in BOOLEAN /\ active \subseteq Steps
  BY DEF PipeKinds
<1>1. ASSUME NEW s \in Steps, StartCommand(s)
      PROVE  tries' \in [Steps -> Nat] /\ ran' \in [Steps -> Nat] /\ bad' \subseteq Steps /\ ctxDone' \in BOOLEAN
  BY <1>0, <1>1 DEF StartCommand
<1>2. ASSUME NEW s \in Steps, StartRefused(s)
      PROVE  tries' \in [Steps -> Nat] /\ ran' \in [Steps -> Nat] /\ bad' \subseteq Steps /\ ctxDone' \in BOOLEAN
  BY <1>0, <1>2 DEF StartRefused
<1>3. ASSUME NEW c \in commands, NEW good \in BOOLEAN, EndCommand(c, good)
      PROVE  tries' \in [Steps -> Nat] /\ ran' \in [Steps -> Nat] /\ bad' \subseteq Steps /\ ctxDone' \in BOOLEAN
  <2>1. c[1] \in Steps
    BY <1>0 DEF CommandsHere
  <2> QED BY <1>0, <1>3, <2>1 DEF EndCommand
<1>4. CASE ContextEnds
  BY <1>0, <1>4 DEF ContextEnds
<1> QED BY <1>1, <1>2, <1>3, <1>4 DEF Work

\* What the run leads to is in the report's type, and so are the entries.
LEMMA ReportTyped ==
  ASSUME PipeKinds, ActiveHere, Bounds,
         \/ \E s \in Steps, how \in {"ok", "error"} : Returns(s, how)
         \/ GoesOn
  PROVE  stepResults' \in Seq(Entries)
<1>0. stepResults \in Seq(Entries)
  BY DEF PipeKinds
<1>1. ASSUME NEW e \in Entries PROVE Append(stepResults, e) \in Seq(Entries)
  BY <1>0, AppendProperties
<1>2. ASSUME MainStep, NEW how \in {"ok", "error", "skipped"} PROVE Result(Main[at], how) \in Entries
  BY <1>2, AtMain DEF Result, Entries
<1>3. ASSUME NEW s \in Steps, NEW how \in {"ok", "error"}, Returns(s, how)
      PROVE  stepResults' \in Seq(Entries)
  <2>1. CASE MainStep /\ s = Main[at] /\ stepResults' = Append(stepResults, Result(s, how))
    BY <2>1, <1>1, <1>2
  <2>2. CASE UNCHANGED stepResults
    BY <2>2, <1>0
  <2> QED BY <1>3, <2>1, <2>2, ReturnLeads
<1>4. CASE GoesOn
  <2>1. CASE MainStep /\ stepResults' = Append(stepResults, Result(Main[at], "skipped"))
    BY <2>1, <1>1, <1>2
  <2>2. CASE LeaveGroup /\ stepResults' = stepResults \o GroupResults(Groups[at])
    <3>1. GroupResults(Groups[at]) \in Seq(Entries)
      BY <2>2, GroupEntries
    <3> QED BY <2>2, <3>1, <1>0, ConcatProperties
  <2>3. CASE UNCHANGED stepResults
    BY <2>3, <1>0
  <2> QED BY <1>4, <2>1, <2>2, <2>3, GoesOnLeads
<1> QED BY <1>3, <1>4

\* The variables keep their types.
LEMMA KeepsPipeKinds ==
  ASSUME PipeKinds, CommandsHere, ActiveHere, GroupBegun, LaterUnended, Bounds, Next
  PROVE  PipeKinds'
<1>0. /\ active \subseteq Steps /\ IsFiniteSet(active) /\ ended \in [Steps -> {"", "ok", "error"}]
      /\ tries \in [Steps -> Nat] /\ ran \in [Steps -> Nat] /\ bad \subseteq Steps /\ ctxDone \in BOOLEAN
      /\ stepResults \in Seq(Entries) /\ status \in {"", "ok", "partial", "error"}
      /\ at \in Nat \ {0} /\ begun \in Nat /\ part \in {"main", "groups", "finally", "done"}
  BY DEF PipeKinds
<1>1. CASE Work
  BY <1>0, <1>1, WorkLeaves, WorkCounts DEF PipeKinds
<1>2. ASSUME NEW s \in Steps, Begins(s) PROVE PipeKinds'
  <2>1. /\ active' = active \cup {s} /\ begun' \in Nat
        /\ UNCHANGED <<part, at, tries, commands, bad, ended, stepResults, status, ctxDone, ran, onError>>
    BY <1>2, BeginDoes
  <2>2. active' \subseteq Steps /\ IsFiniteSet(active')
    BY <1>0, <2>1, FS_AddElement
  <2> QED BY <1>0, <2>1, <2>2 DEF PipeKinds
<1>3. ASSUME NEW s \in Steps, NEW how \in {"ok", "error"}, Returns(s, how) PROVE PipeKinds'
  <2>1. /\ active' = active \ {s} /\ ended' = [ended EXCEPT ![s] = how]
        /\ UNCHANGED <<begun, tries, commands, bad, ctxDone, ran, onError>>
    BY <1>3, ReturnDoes
  <2>2. active' \subseteq Steps /\ IsFiniteSet(active')
    BY <1>0, <2>1, FS_RemoveElement
  <2>3. ended' \in [Steps -> {"", "ok", "error"}]
    BY <1>0, <2>1
  <2>4. /\ at' \in Nat \ {0} /\ part' \in {"main", "groups", "finally", "done"}
        /\ status' \in {"", "ok", "partial", "error"}
    <3>1. at' \in {at, at + 1, 1} /\ part' \in {part, "groups"} /\ status' \in {status, "error"}
      BY <1>3, ReturnLeads
    <3>2. at' \in Nat \ {0}
      BY <3>1, Counters
    <3>3. part' \in {"main", "groups", "finally", "done"} /\ status' \in {"", "ok", "partial", "error"}
      BY <3>1, <1>0
    <3> QED BY <3>2, <3>3
  <2>5. stepResults' \in Seq(Entries)
    BY <1>3, ReportTyped
  <2> QED BY <1>0, <2>1, <2>2, <2>3, <2>4, <2>5 DEF PipeKinds
<1>4. CASE GoesOn
  <2>1. UNCHANGED <<active, tries, commands, bad, ended, ctxDone, ran, onError>>
    BY <1>4, GoesOnLeaves
  <2>2. /\ at' \in Nat \ {0} /\ part' \in {"main", "groups", "finally", "done"} /\ begun' \in Nat
        /\ status' \in {"", "ok", "partial", "error"}
    <3>1. /\ at' \in {at, at + 1, 1} /\ part' \in {part, "groups", "finally", "done"}
          /\ begun' \in {begun, 0} /\ status' \in {status, "error", "partial", "ok"}
      BY <1>4, GoesOnLeads
    <3>2. at' \in Nat \ {0} /\ begun' \in Nat
      BY <3>1, Counters
    <3>3. part' \in {"main", "groups", "finally", "done"} /\ status' \in {"", "ok", "partial", "error"}
      BY <3>1, <1>0
    <3> QED BY <3>2, <3>3
  <2>3. stepResults' \in Seq(Entries)
    BY <1>4, ReportTyped
  <2> QED BY <1>0, <2>1, <2>2, <2>3 DEF PipeKinds
<1> QED BY <1>1, <1>2, <1>3, <1>4, PipeSteps

\* The place stays within the definition.
LEMMA KeepsBounds ==
  ASSUME PipeKinds, CommandsHere, ActiveHere, GroupBegun, LaterUnended, Bounds, Next
  PROVE  Bounds'
<1>0. at \in Nat \ {0} /\ Len(Main) \in Nat /\ Len(Groups) \in Nat /\ Len(Finals) \in Nat
  BY Sizes, Counters
<1>1. CASE Work
  BY <1>1, WorkLeaves DEF Bounds
<1>2. ASSUME NEW s \in Steps, Begins(s) PROVE Bounds'
  <2>1. UNCHANGED <<part, at>>
    BY <1>2, BeginDoes
  <2> QED BY <2>1 DEF Bounds
<1>3. ASSUME NEW s \in Steps, NEW how \in {"ok", "error"}, Returns(s, how) PROVE Bounds'
  <2>1. CASE UNCHANGED <<part, at>>
    BY <2>1 DEF Bounds
  <2>2. CASE part' = "groups" /\ at' = 1
    BY <2>2, <1>0 DEF Bounds
  <2>3. CASE MainStep /\ part = "main" /\ part' = part /\ at' = at + 1
    BY <2>3, <1>0 DEF Bounds, MainStep
  <2>4. CASE part = "finally" /\ at <= Len(Finals) /\ part' = part /\ at' = at + 1
    BY <2>4, <1>0 DEF Bounds
  <2> QED BY <1>3, <2>1, <2>2, <2>3, <2>4, ReturnLeads
<1>4. CASE GoesOn
  <2>1. CASE part' \in {"groups", "finally"} /\ at' = 1
    BY <2>1, <1>0 DEF Bounds
  <2>2. CASE MainStep /\ part = "main" /\ part' = part /\ at' = at + 1
    BY <2>2, <1>0 DEF Bounds, MainStep
  <2>3. CASE part = "groups" /\ at <= Len(Groups) /\ part' = part /\ at' = at + 1
    BY <2>3, <1>0 DEF Bounds
  <2>4. CASE part' = "done" /\ at' = Len(Finals) + 1
    BY <2>4 DEF Bounds
  <2> QED BY <1>4, <2>1, <2>2, <2>3, <2>4, GoesOnLeads
<1> QED BY <1>1, <1>2, <1>3, <1>4, PipeSteps


\* A command that starts is one more of its step at most.
LEMMA StartKeepsCommands ==
  ASSUME PipeKinds, CommandsHere, NEW s \in Steps, StartCommand(s)
  PROVE  CommandsHere'
<1> DEFINE n == <<s, tries[s] + 1>>
<1>1. /\ s \in active /\ tries[s] < Tries(s) /\ Cardinality(RunningOf(s)) < Parallelism(s)
      /\ commands' = commands \cup {n} /\ active' = active
  BY DEF StartCommand, HasNext
<1>2. n[1] = s /\ n[2] \in 1 .. Tries(s)
  <2>1. tries[s] \in Nat
    BY DEF PipeKinds
  <2> QED BY <1>1, <2>1, TriesNat
<1> HIDE DEF n
<1>3. IsFiniteSet(commands') /\ \A c \in commands' : c[1] \in active' /\ c[2] \in 1 .. Tries(c[1])
  BY <1>1, <1>2, FS_AddElement DEF CommandsHere
<1>4. ASSUME NEW q \in Steps PROVE Cardinality(RunningOf(q)') <= Parallelism(q)
  <2>1. CASE q = s
    <3>1. RunningOf(q)' = RunningOf(s) \cup {n}
      BY <2>1, <1>1, <1>2 DEF RunningOf
    <3>2. IsFiniteSet(RunningOf(s))
      BY FS_Subset DEF CommandsHere, RunningOf
    <3>3. Cardinality(RunningOf(s)) \in Nat
      BY <3>2, FS_CardinalityType
    <3>4. Cardinality(RunningOf(s) \cup {n}) \in {Cardinality(RunningOf(s)), Cardinality(RunningOf(s)) + 1}
      BY <3>2, FS_AddElement
    <3>5. Cardinality(RunningOf(s)) < Parallelism(s) /\ Parallelism(s) \in Nat
      BY <1>1, TriesNat
    <3>6. Cardinality(RunningOf(s) \cup {n}) <= Parallelism(s)
      BY <3>3, <3>4, <3>5
    <3> QED BY <2>1, <3>1, <3>6
  <2>2. CASE q # s
    <3>1. RunningOf(q)' = RunningOf(q)
      BY <2>2, <1>1, <1>2 DEF RunningOf
    <3> QED BY <3>1 DEF CommandsHere
  <2> QED BY <2>1, <2>2
<1> QED BY <1>3, <1>4 DEF CommandsHere

\* Commands stay within their steps.
LEMMA KeepsCommands ==
  ASSUME PipeKinds, CommandsHere, ActiveHere, GroupBegun, LaterUnended, Bounds, Next
  PROVE  CommandsHere'
<1>1. ASSUME NEW s \in Steps, StartCommand(s) PROVE CommandsHere'
  BY <1>1, StartKeepsCommands
<1>2. ASSUME NEW s \in Steps, StartRefused(s) \/ ContextEnds PROVE CommandsHere'
  BY <1>2 DEF StartRefused, ContextEnds, CommandsHere, RunningOf
<1>3. ASSUME NEW c \in commands, NEW good \in BOOLEAN, EndCommand(c, good) PROVE CommandsHere'
  <2>1. commands' = commands \ {c} /\ active' = active
    BY <1>3 DEF EndCommand
  <2>2. IsFiniteSet(commands') /\ \A d \in commands' : d[1] \in active' /\ d[2] \in 1 .. Tries(d[1])
    BY <2>1, FS_RemoveElement DEF CommandsHere
  <2>3. ASSUME NEW q \in Steps PROVE Cardinality(RunningOf(q)') <= Parallelism(q)
    <3>1. RunningOf(q)' \subseteq RunningOf(q)
      BY <2>1 DEF RunningOf
    <3>2. IsFiniteSet(RunningOf(q))
      BY FS_Subset DEF CommandsHere, RunningOf
    <3>3. /\ Cardinality(RunningOf(q)') <= Cardinality(RunningOf(q))
          /\ Cardinality(RunningOf(q)') \in Nat /\ Cardinality(RunningOf(q)) \in Nat
      BY <3>1, <3>2, FS_Subset, FS_CardinalityType
    <3>4. Cardinality(RunningOf(q)) <= Parallelism(q)
      BY DEF CommandsHere
    <3> QED BY <3>3, <3>4, TriesNat
  <2> QED BY <2>2, <2>3 DEF CommandsHere
<1>4. ASSUME NEW s \in Steps, Begins(s) PROVE CommandsHere'
  <2>1. active' = active \cup {s} /\ UNCHANGED commands
    BY <1>4, BeginDoes
  <2> QED BY <2>1 DEF CommandsHere, RunningOf
<1>5. ASSUME NEW s \in Steps, NEW how \in {"ok", "error"}, Returns(s, how) PROVE CommandsHere'
  <2>1. active' = active \ {s} /\ UNCHANGED commands /\ RunningOf(s) = {}
    BY <1>5, ReturnDoes
  <2>2. \A c \in commands : c[1] # s
    BY <2>1 DEF RunningOf
  <2> QED BY <2>1, <2>2 DEF CommandsHere, RunningOf
<1>6. CASE GoesOn
  BY <1>6, GoesOnLeaves DEF CommandsHere, RunningOf
<1>7. CASE ContextEnds
  BY <1>7 DEF ContextEnds, CommandsHere, RunningOf
<1> QED BY <1>1, <1>2, <1>3, <1>4, <1>5, <1>6, <1>7, PipeSteps DEF Work

\* What is active stays of the stage the run has reached.
LEMMA KeepsActive ==
  ASSUME PipeKinds, CommandsHere, ActiveHere, GroupBegun, LaterUnended, Bounds, Next
  PROVE  ActiveHere'
<1>1. CASE Work
  BY <1>1, WorkLeaves DEF ActiveHere, Now
<1>2. ASSUME NEW s \in Steps, Begins(s) PROVE ActiveHere'
  <2>1. Now' = Now
    BY <1>2, BeginDoes DEF Now
  <2>2. active' = active \cup {s} /\ UNCHANGED <<ended, part>>
    BY <1>2, BeginDoes
  <2>3. /\ ended[s] = "" /\ Stage(s) = Now /\ part # "done"
        /\ part = "main" => Stage(s) <= Ungrouped
        /\ part = "groups" => Stage(s) \in Ungrouped + 1 .. Unfinal
        /\ part = "finally" => Stage(s) > Unfinal
    BY <1>2, BeginDoes
  <2> QED BY <2>1, <2>2, <2>3 DEF ActiveHere
<1>3. ASSUME NEW s \in Steps, NEW how \in {"ok", "error"}, Returns(s, how) PROVE ActiveHere'
  <2>1. active' = active \ {s} /\ ended' = [ended EXCEPT ![s] = how] /\ ended \in [Steps -> {"", "ok", "error"}]
        /\ active \subseteq Steps
    BY <1>3, ReturnDoes DEF PipeKinds
  <2>2. CASE UNCHANGED <<part, at>>
    <3>1. \A q \in active' : q \in active /\ ended'[q] = ended[q]
      BY <2>1
    <3>2. Now' = Now
      BY <2>2 DEF Now
    <3> QED BY <2>2, <3>1, <3>2 DEF ActiveHere
  <2>3. CASE active = {s}
    BY <2>1, <2>3 DEF ActiveHere
  <2> QED BY <1>3, <2>2, <2>3, ReturnLeads
<1>4. CASE GoesOn
  BY <1>4, GoesOnIdle, GoesOnLeaves DEF ActiveHere
<1> QED BY <1>1, <1>2, <1>3, <1>4, PipeSteps

\* What has neither begun nor ended stays as it was.
LEMMA KeepsUntouched ==
  ASSUME PipeKinds, CommandsHere, ActiveHere, GroupBegun, LaterUnended, Bounds, Untouched, Next
  PROVE  Untouched'
<1>0. tries \in [Steps -> Nat] /\ ran \in [Steps -> Nat] /\ ended \in [Steps -> {"", "ok", "error"}]
  BY DEF PipeKinds
<1>1. ASSUME NEW s \in Steps, StartCommand(s) PROVE Untouched'
  BY <1>0, <1>1 DEF StartCommand, HasNext, Untouched
<1>2. ASSUME NEW s \in Steps, StartRefused(s) PROVE Untouched'
  BY <1>0, <1>2 DEF StartRefused, HasNext, Untouched
<1>3. ASSUME NEW c \in commands, NEW good \in BOOLEAN, EndCommand(c, good) PROVE Untouched'
  BY <1>0, <1>3 DEF EndCommand, CommandsHere, Untouched
<1>4. CASE ContextEnds
  BY <1>4 DEF ContextEnds, Untouched
<1>5. ASSUME NEW s \in Steps, Begins(s) PROVE Untouched'
  <2>1. active' = active \cup {s} /\ UNCHANGED <<tries, bad, ended, ran>>
    BY <1>5, BeginDoes
  <2> QED BY <2>1 DEF Untouched
<1>6. ASSUME NEW s \in Steps, NEW how \in {"ok", "error"}, Returns(s, how) PROVE Untouched'
  <2>1. active' = active \ {s} /\ ended' = [ended EXCEPT ![s] = how] /\ UNCHANGED <<tries, bad, ran>>
    BY <1>6, ReturnDoes
  <2> QED BY <1>0, <2>1 DEF Untouched
<1>7. CASE GoesOn
  BY <1>7, GoesOnLeaves DEF Untouched
<1> QED BY <1>1, <1>2, <1>3, <1>4, <1>5, <1>6, <1>7, PipeSteps DEF Work


-----------------------------------------------------------------------------
\* What is not before the later of two numbers is past the earlier.
LEMMA Past ==
  ASSUME NEW i \in Nat, NEW m \in Nat, NEW n \in Nat, i >= n, n > m
  PROVE  i >= m /\ i # m /\ ~(i < m)
OBVIOUS

\* A return in a group leaves the run there; another one leads on.
LEMMA ReturnNow ==
  ASSUME PipeKinds, ActiveHere, NEW s \in Steps, NEW how \in {"ok", "error"}, Returns(s, how)
  PROVE  \/ part = "groups" /\ part' = "groups" /\ at' = at /\ Now' = Now /\ Now \in Nat
            /\ UNCHANGED <<stepResults, status>>
         \/ part # "groups" /\ Now \in Nat /\ Now' \in Nat /\ Now' > Now
<1>0. at \in Nat \ {0} /\ Len(Main) \in Nat /\ Len(Groups) \in Nat
  BY Sizes, Counters
<1>1. CASE part = "groups" /\ UNCHANGED <<part, at, stepResults, status>>
  BY <1>1, NowFacts DEF Now
<1>2. CASE part = "main" /\ part' = "groups" /\ at' = 1 /\ MainStep
  BY <1>0, <1>2 DEF Now, MainStep
<1>3. CASE part = "main" /\ at' = at + 1 /\ part' = part
  BY <1>0, <1>3 DEF Now
<1>4. CASE part = "finally" /\ at' = at + 1 /\ part' = part
  BY <1>0, <1>4 DEF Now
<1> QED BY <1>1, <1>2, <1>3, <1>4, ReturnLeads

\* Going on leads on, or nothing at the next stage has ended.
LEMMA GoesOnNow ==
  ASSUME PipeKinds, LaterUnended, Bounds, GoesOn
  PROVE  /\ Now \in Nat /\ Now' \in Nat
         /\ Now' > Now \/ (Now' = Now /\ \A q \in Steps : Stage(q) >= Now => ended[q] = "")
<1>0. at \in Nat \ {0} /\ Len(Main) \in Nat /\ Len(Groups) \in Nat
  BY Sizes, Counters
<1> DEFINE Quiet == \A q \in Steps : Stage(q) >= Now => ended[q] = ""
<1> HIDE DEF Quiet
<1>1. CASE MainStep /\ part = "main" /\ at' = at + 1 /\ part' = part
  <2>1. Now \in Nat /\ Now' \in Nat /\ Now' > Now
    BY <1>0, <1>1 DEF Now
  <2> QED BY <2>1
<1>2. CASE part = "main" /\ at = Len(Main) + 1 /\ part' = "groups" /\ at' = 1
  <2>1. Quiet
    BY <1>2 DEF LaterUnended, Quiet
  <2>2. Now = Len(Main) + 1 /\ Now' = Len(Main) + 1 /\ Len(Main) + 1 \in Nat
    BY <1>0, <1>2 DEF Now
  <2> QED BY <2>1, <2>2 DEF Quiet
<1>3. CASE part = "groups" /\ at <= Len(Groups) /\ part' = "finally" /\ at' = 1
  <2>1. Now = Len(Main) + at /\ Now' = Len(Main) + Len(Groups) + 1
    BY <1>3 DEF Now
  <2>2. Now \in Nat /\ Now' \in Nat /\ Now' > Now
    BY <1>0, <1>3, <2>1
  <2> QED BY <2>2
<1>4. CASE part = "groups" /\ at <= Len(Groups) /\ part' = part /\ at' = at + 1
  <2>1. Now \in Nat /\ Now' \in Nat /\ Now' > Now
    BY <1>0, <1>4 DEF Now
  <2> QED BY <2>1
<1>5. CASE part = "groups" /\ at = Len(Groups) + 1 /\ part' = "finally" /\ at' = 1
  <2>1. Now = Unfinal + 1 /\ Now' = Now /\ Now \in Nat /\ Unfinal \in Nat
    BY <1>5, <1>0 DEF Now, Unfinal
  <2>2. ASSUME NEW q \in Steps, Stage(q) >= Now, ended[q] # "" PROVE FALSE
    <3>1. Stage(q) = Now /\ Stage(q) <= Unfinal
      BY <2>2 DEF LaterUnended
    <3> QED BY <2>1, <3>1
  <2> QED BY <2>1, <2>2
<1>6. CASE part = "finally" /\ at' = at /\ part' = "done"
  <2>1. Quiet
    BY <1>6 DEF LaterUnended, Quiet
  <2>2. Now = Len(Main) + Len(Groups) + at /\ Now' = Now
    BY <1>6 DEF Now
  <2>3. Now \in Nat
    BY <1>0, <2>2
  <2> QED BY <2>1, <2>2, <2>3 DEF Quiet
<1> QED BY <1>1, <1>2, <1>3, <1>4, <1>5, <1>6, GoesOnLeads

\* Nothing of a later stage has ended.
LEMMA KeepsLater ==
  ASSUME PipeKinds, CommandsHere, ActiveHere, GroupBegun, LaterUnended, Bounds, Next
  PROVE  LaterUnended'
<1>0. ended \in [Steps -> {"", "ok", "error"}] /\ \A q \in Steps : Stage(q) \in Nat
  BY NowFacts DEF PipeKinds
<1>1. CASE Work
  BY <1>1, WorkLeaves DEF LaterUnended, Now
<1>2. ASSUME NEW s \in Steps, Begins(s) PROVE LaterUnended'
  BY <1>2, BeginDoes DEF LaterUnended, Now
<1>3. ASSUME NEW s \in Steps, NEW how \in {"ok", "error"}, Returns(s, how) PROVE LaterUnended'
  <2>1. ended' = [ended EXCEPT ![s] = how] /\ Stage(s) = Now /\ s \in active
    BY <1>3, ReturnDoes
  <2>2. \A q \in Steps \ {s} : ended'[q] = ended[q]
    BY <2>1, <1>0
  <2>3. CASE part = "groups" /\ part' = "groups" /\ Now' = Now /\ Now \in Nat
    <3>1. Stage(s) \in Ungrouped + 1 .. Unfinal
      BY <2>1, <2>3 DEF ActiveHere
    <3>2. Stage(s) <= Unfinal
      BY <3>1
    <3> QED BY <2>1, <2>2, <2>3, <3>2 DEF LaterUnended
  <2>4. CASE part # "groups" /\ Now \in Nat /\ Now' \in Nat /\ Now' > Now
    <3>1. \A q \in Steps : Stage(q) >= Now' => Stage(q) >= Now /\ Stage(q) # Now
      BY <1>0, <2>4, Past
    <3> QED BY <2>1, <2>2, <2>4, <3>1 DEF LaterUnended
  <2> QED BY <1>3, <2>3, <2>4, ReturnNow
<1>4. CASE GoesOn
  <2>1. UNCHANGED ended
    BY <1>4, GoesOnLeaves
  <2>2. Now \in Nat /\ Now' \in Nat
        /\ (Now' > Now \/ (Now' = Now /\ \A q \in Steps : Stage(q) >= Now => ended[q] = ""))
    BY <1>4, GoesOnNow
  <2>3. ASSUME NEW q \in Steps, Stage(q) >= Now', ended[q] # "" PROVE FALSE
    <3>1. Now' > Now
      BY <2>2, <2>3
    <3>2. Stage(q) >= Now /\ Stage(q) # Now
      BY <1>0, <2>2, <2>3, <3>1, Past
    <3> QED BY <2>3, <3>2 DEF LaterUnended
  <2> QED BY <2>1, <2>3 DEF LaterUnended
<1> QED BY <1>1, <1>2, <1>3, <1>4, PipeSteps

\* At the next stage nothing has ended and nothing is active.
LEMMA NextStageFresh ==
  ASSUME PipeKinds, ActiveHere, LaterUnended, Bounds, NEW q \in Steps, Stage(q) >= Now',
         \/ \E s \in Steps, how \in {"ok", "error"} : Returns(s, how) /\ part # "groups"
         \/ GoesOn
  PROVE  q \notin active' /\ ended'[q] = ""
<1>0. ended \in [Steps -> {"", "ok", "error"}] /\ active \subseteq Steps /\ \A r \in Steps : Stage(r) \in Nat
  BY NowFacts DEF PipeKinds
<1>1. CASE GoesOn
  <2>1. active' = {} /\ ended' = ended
    BY <1>1, GoesOnIdle, GoesOnLeaves
  <2>2. Now \in Nat /\ Now' \in Nat
        /\ (Now' > Now \/ (Now' = Now /\ \A r \in Steps : Stage(r) >= Now => ended[r] = ""))
    BY <1>1, GoesOnNow
  <2>3. CASE Now' > Now
    <3>1. Stage(q) >= Now /\ Stage(q) # Now
      BY <1>0, <2>2, <2>3, Past
    <3> QED BY <2>1, <3>1 DEF LaterUnended
  <2> QED BY <2>1, <2>2, <2>3
<1>2. ASSUME NEW s \in Steps, NEW how \in {"ok", "error"}, Returns(s, how), part # "groups"
      PROVE  q \notin active' /\ ended'[q] = ""
  <2>1. active' = active \ {s} /\ ended' = [ended EXCEPT ![s] = how] /\ Stage(s) = Now
    BY <1>2, ReturnDoes
  <2>2. Now \in Nat /\ Now' \in Nat /\ Now' > Now /\ active = {s}
    BY <1>2, ReturnNow, ReturnLeads
  <2>3. Stage(q) >= Now /\ Stage(q) # Now
    BY <1>0, <2>2, Past
  <2>4. q # s /\ ended'[q] = ended[q]
    BY <1>0, <2>1, <2>3
  <2>5. ended[q] = ""
    BY <2>3 DEF LaterUnended
  <2> QED BY <2>1, <2>2, <2>4, <2>5
<1> QED BY <1>1, <1>2


\* The steps of a group begin in its order.
LEMMA KeepsGroupBegun ==
  ASSUME PipeKinds, CommandsHere, ActiveHere, GroupBegun, LaterUnended, Bounds, Next
  PROVE  GroupBegun'
<1>0. ended \in [Steps -> {"", "ok", "error"}] /\ begun \in Nat
  BY DEF PipeKinds
<1>1. CASE Work
  BY <1>1, WorkLeaves DEF GroupBegun
<1>2. ASSUME NEW s \in Steps, Begins(s) PROVE GroupBegun'
  <2>1. active' = active \cup {s} /\ UNCHANGED <<part, at, ended>>
    BY <1>2, BeginDoes
  <2>2. SUFFICES ASSUME part = "groups", at <= Len(Groups), NEW i \in DOMAIN Groups[at], i > begun'
                 PROVE  Groups[at][i] \notin active' /\ ended[Groups[at][i]] = ""
    BY <2>1 DEF GroupBegun
  <2>3. begun + 1 \in DOMAIN Groups[at] /\ s = Groups[at][begun + 1] /\ begun' = begun + 1
    BY <1>2, <2>2 DEF Begins, BeginMain, MainStep, BeginInGroup
  <2>4. at \in DOMAIN Groups
    BY <2>2, Sizes, Counters
  <2>5. i \in Nat /\ i > begun /\ i # begun + 1
    <3>1. i \in 1 .. Len(Groups[at])
      BY <2>4, PartsFacts
    <3>2. begun' = begun + 1
      BY <2>3
    <3>3. i \in Nat
      BY <3>1
    <3>4. begun \in Nat
      BY Counters
    <3> QED BY <3>2, <3>3, <3>4, <2>2
  <2>6. Groups[at][i] # s
    BY <2>3, <2>4, <2>5, PipelineAssumption
  <2> QED BY <2>1, <2>2, <2>5, <2>6 DEF GroupBegun
<1>3. ASSUME \/ \E s \in Steps, how \in {"ok", "error"} : Returns(s, how) /\ part # "groups"
             \/ GoesOn
      PROVE  GroupBegun'
  <2>1. SUFFICES ASSUME part' = "groups", at' <= Len(Groups), NEW i \in DOMAIN Groups[at']
                 PROVE  Groups[at'][i] \notin active' /\ ended'[Groups[at'][i]] = ""
    BY DEF GroupBegun
  <2>2. at' \in Nat \ {0}
    <3>1. PipeKinds'
      BY KeepsPipeKinds
    <3> QED BY <3>1 DEF PipeKinds
  <2>3. at' \in DOMAIN Groups
    BY <2>1, <2>2, Sizes
  <2>4. Groups[at'][i] \in InSeq(Groups[at'])
    BY DEF InSeq
  <2>5. Groups[at'][i] \in Steps /\ Stage(Groups[at'][i]) = Ungrouped + at'
    BY <2>3, <2>4, PartsFacts, PlaceFacts
  <2>6. Now' = Ungrouped + at' /\ Ungrouped + at' \in Nat
    BY <2>1, <2>2, Sizes DEF Now
  <2>7. Stage(Groups[at'][i]) >= Now'
    BY <2>5, <2>6
  <2> QED BY <1>3, <2>5, <2>7, NextStageFresh
<1>4. ASSUME NEW s \in Steps, NEW how \in {"ok", "error"}, Returns(s, how), part = "groups" PROVE GroupBegun'
  <2>1. /\ active' = active \ {s} /\ ended' = [ended EXCEPT ![s] = how] /\ UNCHANGED begun
        /\ s \in active
    BY <1>4, ReturnDoes
  <2>2. UNCHANGED <<part, at>>
    BY <1>4, ReturnLeads
  <2>3. \A q \in Steps \ active : ended'[q] = ended[q]
    BY <1>0, <2>1
  <2>4. ASSUME at <= Len(Groups), NEW i \in DOMAIN Groups[at] PROVE Groups[at][i] \in Steps
    <3>1. at \in DOMAIN Groups
      BY <2>4, Sizes, Counters
    <3> QED BY <3>1, <2>4, PartsFacts DEF InSeq
  <2> QED BY <1>4, <2>1, <2>2, <2>3, <2>4 DEF GroupBegun
<1> QED BY <1>1, <1>2, <1>3, <1>4, PipeSteps

\* No more steps are active than the limit.
LEMMA KeepsActiveLimit ==
  ASSUME PipeKinds, CommandsHere, ActiveHere, GroupBegun, LaterUnended, Bounds, ActiveLimit, Next
  PROVE  ActiveLimit'
<1>0. IsFiniteSet(active) /\ Cardinality(active) \in Nat /\ Cardinality(active) <= Concurrency
      /\ Concurrency \in Nat \ {0} /\ active \subseteq Steps
  BY FS_CardinalityType, PipelineAssumption DEF PipeKinds, ActiveLimit
<1>1. CASE Work
  BY <1>1, WorkLeaves DEF ActiveLimit
<1>2. ASSUME NEW s \in Steps, Begins(s) PROVE ActiveLimit'
  <2>1. active' = active \cup {s} /\ s \notin active /\ Stage(s) = Now
    BY <1>2, BeginDoes
  <2>2. Cardinality(active') = Cardinality(active) + 1
    BY <2>1, <1>0, FS_AddElement
  <2>3. CASE Cardinality(active) < Concurrency
    BY <1>0, <2>2, <2>3 DEF ActiveLimit
  <2>4. CASE part \in {"main", "finally"}
    <3>1. ASSUME NEW q \in active PROVE FALSE
      <4>1. q \in Steps /\ Stage(q) = Stage(s) /\ (part = "main" => Stage(q) <= Ungrouped)
            /\ (part = "finally" => Stage(q) > Unfinal)
        BY <2>1, <1>0 DEF ActiveHere
      <4>2. q = s
        BY <4>1, <2>4, PlaceFacts
      <4> QED BY <4>2, <2>1
    <3>2. active = {}
      BY <3>1
    <3>3. Cardinality(active) = 0
      BY <3>2, FS_EmptySet
    <3>4. Cardinality(active') = 1
      BY <2>2, <3>3
    <3> QED BY <3>4, <1>0 DEF ActiveLimit
  <2> QED BY <1>2, <2>3, <2>4 DEF Begins, BeginMain, MainStep, BeginInGroup
<1>3. ASSUME NEW s \in Steps, NEW how \in {"ok", "error"}, Returns(s, how) PROVE ActiveLimit'
  <2>1. active' = active \ {s}
    BY <1>3, ReturnDoes
  <2>2. Cardinality(active') \in Nat /\ Cardinality(active') <= Cardinality(active)
    BY <2>1, <1>0, FS_Subset, FS_CardinalityType
  <2> QED BY <2>2, <1>0 DEF ActiveLimit
<1>4. CASE GoesOn
  BY <1>4, GoesOnLeaves DEF ActiveLimit
<1> QED BY <1>1, <1>2, <1>3, <1>4, PipeSteps

\* Every finally step the run is past has ended.
LEMMA KeepsFinalsEnd ==
  ASSUME PipeKinds, CommandsHere, ActiveHere, GroupBegun, LaterUnended, Bounds, FinalsEnd, Next
  PROVE  FinalsEnd'
<1>0. ended \in [Steps -> {"", "ok", "error"}] /\ InSeq(Finals) \subseteq Steps
  BY DEF PipeKinds, Steps
<1>9. at \in Nat /\ Unfinal \in Nat
  BY NowFacts
<1>1. CASE Work
  BY <1>1, WorkLeaves DEF FinalsEnd, Now
<1>2. ASSUME NEW s \in Steps, Begins(s) PROVE FinalsEnd'
  BY <1>2, BeginDoes DEF FinalsEnd, Now
<1>3. CASE part' \in {"main", "groups"}
  BY <1>3 DEF FinalsEnd
<1>4. CASE part' = "finally" /\ at' = 1
  <2>1. Now' = Unfinal + 1
    BY <1>4 DEF Now, Unfinal
  <2>2. ASSUME NEW q \in InSeq(Finals) PROVE ~(Stage(q) < Now')
    <3>0. q \in Steps
      BY <1>0
    <3>1. Stage(q) > Unfinal /\ Stage(q) \in Nat
      BY <3>0, PlaceFacts, NowFacts
    <3> QED BY <2>1, <3>1, <1>9
  <2> QED BY <2>2 DEF FinalsEnd
<1>5. CASE part = "finally" /\ part' = "done" /\ UNCHANGED <<at, ended>>
  BY <1>5 DEF FinalsEnd, Now
<1>6. ASSUME NEW s \in Steps, NEW how \in {"ok", "error"}, Returns(s, how),
             part = "finally", part' = "finally", at' = at + 1
      PROVE  FinalsEnd'
  <2>1. ended' = [ended EXCEPT ![s] = how] /\ Stage(s) = Now
    BY <1>6, ReturnDoes
  <2>2. Now = Unfinal + at /\ Now' = Unfinal + at + 1
    <3>1. Now = Unfinal + at /\ Now' = Unfinal + at'
      BY <1>6 DEF Now, Unfinal
    <3> QED BY <3>1, <1>9, <1>6
  <2>3. ASSUME NEW q \in InSeq(Finals), Stage(q) < Now' PROVE ended'[q] # ""
    <3>0. q \in Steps
      BY <1>0
    <3>1. q \in Steps /\ Stage(q) \in Nat /\ Stage(q) > Unfinal
      BY <3>0, PlaceFacts, NowFacts
    <3>2. Stage(q) < Now \/ Stage(q) = Now
      BY <2>2, <2>3, <3>1, <1>9
    <3>3. CASE Stage(q) < Now
      <4>1. ended[q] # ""
        BY <1>6, <3>3 DEF FinalsEnd
      <4> QED BY <1>0, <2>1, <3>1, <4>1
    <3>4. CASE Stage(q) = Now
      <4>1. q = s
        BY <3>1, <3>4, <2>1, PlaceFacts
      <4> QED BY <1>0, <2>1, <4>1
    <3> QED BY <3>2, <3>3, <3>4
  <2> QED BY <2>3 DEF FinalsEnd
<1>7. ASSUME NEW s \in Steps, NEW how \in {"ok", "error"}, Returns(s, how) PROVE FinalsEnd'
  BY <1>3, <1>6, <1>7, ReturnLeads
<1>8. CASE GoesOn
  <2>1. UNCHANGED ended
    BY <1>8, GoesOnLeaves
  <2> QED BY <1>3, <1>4, <1>5, <1>8, <2>1, GoesOnLeads
<1> QED BY <1>1, <1>2, <1>7, <1>8, PipeSteps

\* What ended has had its attempts, and what has not counts them.
LEMMA KeepsAttempts ==
  ASSUME PipeKinds, CommandsHere, ActiveHere, GroupBegun, LaterUnended, Bounds, Attempts, Next
  PROVE  Attempts'
<1>0. tries \in [Steps -> Nat] /\ ran \in [Steps -> Nat] /\ ended \in [Steps -> {"", "ok", "error"}]
      /\ ctxDone \in BOOLEAN
  BY DEF PipeKinds
<1>1. ASSUME NEW s \in Steps, StartCommand(s) PROVE Attempts'
  <2>1. /\ tries' = [tries EXCEPT ![s] = @ + 1] /\ ran' = [ran EXCEPT ![s] = @ + 1]
        /\ ~ctxDone /\ UNCHANGED <<ended, ctxDone>> /\ s \in active
    BY <1>1 DEF StartCommand, HasNext
  <2>2. ended[s] = ""
    BY <2>1 DEF ActiveHere
  <2>3. ran[s] = tries[s]
    BY <2>1 DEF Attempts
  <2> QED BY <1>0, <2>1, <2>2, <2>3 DEF Attempts
<1>2. ASSUME NEW s \in Steps, StartRefused(s) PROVE Attempts'
  <2>1. tries' = [tries EXCEPT ![s] = @ + 1] /\ ctxDone /\ UNCHANGED <<ended, ctxDone, ran>> /\ s \in active
    BY <1>2 DEF StartRefused, HasNext
  <2>2. ended[s] = ""
    BY <2>1 DEF ActiveHere
  <2> QED BY <1>0, <2>1, <2>2 DEF Attempts
<1>3. ASSUME NEW c \in commands, NEW good \in BOOLEAN, EndCommand(c, good) PROVE Attempts'
  BY <1>3 DEF EndCommand, Attempts
<1>4. CASE ContextEnds
  BY <1>4 DEF ContextEnds, Attempts
<1>5. ASSUME NEW s \in Steps, Begins(s) PROVE Attempts'
  <2>1. UNCHANGED <<tries, ended, ctxDone, ran>>
    BY <1>5, BeginDoes
  <2> QED BY <2>1 DEF Attempts
<1>6. ASSUME NEW s \in Steps, NEW how \in {"ok", "error"}, Returns(s, how) PROVE Attempts'
  <2>1. /\ tries[s] = Tries(s) \/ (s \notin Iterated /\ tries[s] > 0 /\ s \notin bad)
        /\ how = "error" => s \in bad \cup Malformed \cup Json
        /\ ended' = [ended EXCEPT ![s] = how]
        /\ UNCHANGED <<tries, ctxDone, ran>>
    BY <1>6, ReturnDoes
  <2>2. Malformed \subseteq Iterated
    BY PipelineAssumption
  <2>3. how = "error" /\ s \notin Iterated \cup Json => tries[s] = Tries(s)
    BY <2>1, <2>2
  <2>4. Tries(s) > 0 => tries[s] > 0
    BY <2>1
  <2>5. ended'[s] = how /\ \A q \in Steps \ {s} : ended'[q] = ended[q]
    BY <1>0, <2>1
  <2>6. UNCHANGED <<tries, ctxDone, ran>>
    BY <2>1
  <2>7. ASSUME NEW q \in Steps
        PROVE  /\ ~ctxDone => ran[q] = tries[q]
               /\ ended'[q] = "error" /\ q \notin Iterated \cup Json => tries[q] = Tries(q)
               /\ ended'[q] # "" /\ Tries(q) > 0 => tries[q] > 0
    <3>1. CASE q = s
      BY <3>1, <2>3, <2>4, <2>5 DEF Attempts
    <3>2. CASE q # s
      BY <3>2, <2>5 DEF Attempts
    <3> QED BY <3>1, <3>2
  <2> QED BY <2>6, <2>7 DEF Attempts
<1>7. CASE GoesOn
  <2>1. UNCHANGED <<tries, ended, ctxDone, ran>>
    BY <1>7, GoesOnLeaves
  <2> QED BY <2>1 DEF Attempts
<1> QED BY <1>1, <1>2, <1>3, <1>4, <1>5, <1>6, <1>7, PipeSteps DEF Work


-----------------------------------------------------------------------------
(* The report and the status                                               *)

Report == EndedAreReported /\ ReportedHaveEnded /\ InOrderOnce

\* A stage is before one the run has reached or not, and then before every later one.
LEMMA Between ==
  ASSUME NEW x \in Nat, NEW m \in Nat, NEW n \in Nat
  PROVE  /\ x < m \/ x >= m
         /\ x < m => x <= m /\ x # m /\ ~(x >= m) /\ (n >= m => x < n)
         /\ x = m => x >= m /\ ~(x < m) /\ (n > m => x < n)
         /\ n > m => n >= m
OBVIOUS

\* The elements of r are those of p, then those of q, in their order.
Together(p, q, r) ==
  /\ \A i \in DOMAIN p : i \in DOMAIN r /\ r[i] = p[i]
  /\ \A j \in DOMAIN q : \E i \in DOMAIN r : r[i] = q[j]
  /\ \A i \in DOMAIN r : (i \in DOMAIN p /\ r[i] = p[i]) \/ (\E k \in DOMAIN q : r[i] = q[k])
  /\ \A i, j \in DOMAIN r : i < j =>
       \/ i \in DOMAIN p /\ r[i] = p[i] /\ j \in DOMAIN p /\ r[j] = p[j]
       \/ i \in DOMAIN p /\ r[i] = p[i] /\ \E k \in DOMAIN q : r[j] = q[k]
       \/ \E k, l \in DOMAIN q : k < l /\ r[i] = q[k] /\ r[j] = q[l]

\* Concatenation is that.
LEMMA PutTogether ==
  ASSUME NEW S, NEW p \in Seq(S), NEW q \in Seq(S)
  PROVE  Together(p, q, p \o q)
<1> DEFINE r == p \o q
<1> DEFINE n == Len(p)
           m == Len(q)
<1>1. n \in Nat /\ m \in Nat /\ DOMAIN p = 1 .. n /\ DOMAIN q = 1 .. m
  BY LenProperties
<1>2. /\ r \in Seq(S) /\ Len(r) = n + m
      /\ \A i \in 1 .. n + m : r[i] = IF i <= n THEN p[i] ELSE q[i - n]
  BY ConcatProperties
<1>3. DOMAIN r = 1 .. n + m
  BY <1>2, LenProperties
<1> HIDE DEF n, m, r
<1>4. ASSUME NEW i \in 1 .. n PROVE i \in 1 .. n + m /\ i <= n
  BY <1>1
<1>5. ASSUME NEW j \in 1 .. m PROVE n + j \in 1 .. n + m /\ ~(n + j <= n) /\ (n + j) - n = j
  BY <1>1
<1>6. ASSUME NEW i \in 1 .. n + m, i \notin 1 .. n PROVE ~(i <= n) /\ i - n \in 1 .. m
  BY <1>1, <1>6
<1>7. ASSUME NEW i \in 1 .. n + m, NEW j \in 1 .. n + m, i < j
      PROVE  /\ i - n < j - n
             /\ j \in 1 .. n => i \in 1 .. n
  BY <1>1, <1>7
<1>8. \A i \in 1 .. n : r[i] = p[i]
  BY <1>2, <1>4
<1>9. \A j \in 1 .. m : r[n + j] = q[j]
  <2>1. TAKE j \in 1 .. m
  <2> DEFINE k == n + j
  <2>2. k \in 1 .. n + m /\ ~(k <= n) /\ k - n = j
    BY <1>5
  <2> HIDE DEF k
  <2>3. r[k] = q[j]
    BY <1>2, <2>2
  <2> QED BY <2>3 DEF k
<1>10. \A i \in 1 .. n + m : i \notin 1 .. n => i - n \in 1 .. m /\ r[i] = q[i - n]
  BY <1>2, <1>6
<1>11. ASSUME NEW i \in 1 .. n + m, NEW j \in 1 .. n + m, i < j
       PROVE  \/ i \in 1 .. n /\ r[i] = p[i] /\ j \in 1 .. n /\ r[j] = p[j]
              \/ i \in 1 .. n /\ r[i] = p[i] /\ \E k \in 1 .. m : r[j] = q[k]
              \/ \E k, l \in 1 .. m : k < l /\ r[i] = q[k] /\ r[j] = q[l]
  <2> DEFINE k == i - n
             l == j - n
  <2>1. k < l /\ (j \in 1 .. n => i \in 1 .. n)
    BY <1>7, <1>11
  <2>2. /\ i \notin 1 .. n => k \in 1 .. m /\ r[i] = q[k]
        /\ j \notin 1 .. n => l \in 1 .. m /\ r[j] = q[l]
    BY <1>10
  <2> HIDE DEF k, l
  <2> QED BY <2>1, <2>2, <1>8
<1>12. \A j \in 1 .. m : \E i \in 1 .. n + m : r[i] = q[j]
  <2>1. TAKE j \in 1 .. m
  <2>2. n + j \in 1 .. n + m
    BY <1>5
  <2> QED BY <2>2, <1>9
<1>13. \A i \in 1 .. n + m : (i \in 1 .. n /\ r[i] = p[i]) \/ (\E k \in 1 .. m : r[i] = q[k])
  BY <1>8, <1>10
<1>14. \A i \in 1 .. n : i \in 1 .. n + m
  BY <1>4
<1>15. DOMAIN p = 1 .. n /\ DOMAIN q = 1 .. m /\ DOMAIN r = 1 .. n + m
  BY <1>1, <1>3
<1>16. /\ \A i \in DOMAIN p : i \in DOMAIN r /\ r[i] = p[i]
       /\ \A j \in DOMAIN q : \E i \in DOMAIN r : r[i] = q[j]
       /\ \A i \in DOMAIN r : (i \in DOMAIN p /\ r[i] = p[i]) \/ (\E k \in DOMAIN q : r[i] = q[k])
  BY ONLY <1>15, <1>8, <1>12, <1>13, <1>14, Zenon
<1>17. ASSUME NEW i \in DOMAIN r, NEW j \in DOMAIN r, i < j
       PROVE  \/ i \in DOMAIN p /\ r[i] = p[i] /\ j \in DOMAIN p /\ r[j] = p[j]
              \/ i \in DOMAIN p /\ r[i] = p[i] /\ \E k \in DOMAIN q : r[j] = q[k]
              \/ \E k, l \in DOMAIN q : k < l /\ r[i] = q[k] /\ r[j] = q[l]
  <2>1. i \in 1 .. n + m /\ j \in 1 .. n + m
    BY <1>15
  <2>2. \/ i \in 1 .. n /\ r[i] = p[i] /\ j \in 1 .. n /\ r[j] = p[j]
        \/ i \in 1 .. n /\ r[i] = p[i] /\ \E k \in 1 .. m : r[j] = q[k]
        \/ \E k, l \in 1 .. m : k < l /\ r[i] = q[k] /\ r[j] = q[l]
    BY ONLY <2>1, <1>17, <1>11
  <2> QED BY ONLY <2>2, <1>15, Zenon
<1>18. Together(p, q, r)
  BY ONLY <1>16, <1>17, Zenon DEF Together
<1> QED BY <1>18 DEF r

\* The entries of the report are of steps, and of stages that have a number.
LEMMA EntryFacts ==
  ASSUME PipeKinds, NEW i \in DOMAIN stepResults
  PROVE  stepResults[i].step \in Reported /\ stepResults[i].step \in Steps
<1>1. stepResults \in Seq(Entries)
  BY DEF PipeKinds
<1>2. i \in 1 .. Len(stepResults)
  BY <1>1, LenProperties
<1>3. stepResults[i] \in Entries
  BY <1>1, <1>2, ElementOfSeq
<1> QED BY <1>3 DEF Entries, Reported

\* A step that ends nothing before the stage it leads to leaves report and failures right.
LEMMA ReportStays ==
  ASSUME PipeKinds, Report, Now \in Nat, Now' \in Nat, Now' >= Now, UNCHANGED <<stepResults, onError>>,
         \A s \in Steps : Stage(s) < Now => ended'[s] = ended[s],
         \A s \in Reported : Stage(s) >= Now /\ Stage(s) < Now' => ended'[s] = ""
  PROVE  Report' /\ FailedBefore' = FailedBefore
<1>0. Reported \subseteq Steps
  BY DEF Reported
<1>7. \A s \in Steps : Stage(s) \in Nat
  BY NowFacts
<1>8. \A s \in Steps : (Stage(s) < Now \/ Stage(s) >= Now) /\ (Stage(s) < Now => Stage(s) < Now')
  BY <1>7, Between
<1>1. ASSUME NEW s \in Reported, Stage(s) < Now', ended'[s] # ""
      PROVE  Stage(s) < Now /\ ended'[s] = ended[s]
  BY <1>0, <1>1, <1>8
<1>2. ASSUME NEW s \in Reported, Stage(s) < Now
      PROVE  Stage(s) < Now' /\ ended'[s] = ended[s]
  BY <1>0, <1>2, <1>8
<1>3. EndedAreReported'
  BY <1>1 DEF Report, EndedAreReported
<1>4. ReportedHaveEnded'
  <2>1. SUFFICES ASSUME NEW i \in DOMAIN stepResults
                 PROVE  /\ Stage(stepResults[i].step) < Now'
                        /\ \/ stepResults[i].status = "skipped"
                           \/ ended'[stepResults[i].step] = stepResults[i].status
    BY DEF ReportedHaveEnded
  <2>2. stepResults[i].step \in Reported
    BY EntryFacts
  <2>3. /\ Stage(stepResults[i].step) < Now
        /\ stepResults[i].status = "skipped" \/ ended[stepResults[i].step] = stepResults[i].status
    BY DEF Report, ReportedHaveEnded
  <2> QED BY <2>2, <2>3, <1>2
<1>5. InOrderOnce'
  BY DEF Report, InOrderOnce
<1>6. FailedBefore' = FailedBefore
  BY <1>1, <1>2 DEF FailedBefore
<1> QED BY <1>3, <1>4, <1>5, <1>6 DEF Report

\* Entries of the stage the run leaves make the report grow by what ended there.
LEMMA ReportGrows ==
  ASSUME PipeKinds, Report, NEW q \in Seq(Entries), stepResults' = stepResults \o q,
         Now \in Nat, Now' \in Nat, Now' > Now,
         \A s \in Steps : Stage(s) < Now => ended'[s] = ended[s],
         \A s \in Reported : Stage(s) >= Now /\ Stage(s) < Now' /\ ended'[s] # "" =>
            \E i \in DOMAIN q : q[i] = Result(s, ended'[s]),
         \A i \in DOMAIN q :
            /\ Stage(q[i].step) = Now
            /\ q[i].status = "skipped" \/ ended'[q[i].step] = q[i].status,
         \A i, j \in DOMAIN q : i < j => q[i].step # q[j].step
  PROVE  Report'
<1> DEFINE r == stepResults'
           p == stepResults
<1>0. Reported \subseteq Steps
  BY DEF Reported
<1>1. p \in Seq(Entries)
  BY DEF PipeKinds
<1>2. Together(p, q, r)
  <2>1. Together(p, q, p \o q)
    BY <1>1, PutTogether
  <2> QED BY <2>1
<1>3. \A s \in Steps : Stage(s) \in Nat
  BY NowFacts
<1>4. \A s \in Steps :
        /\ Stage(s) < Now \/ Stage(s) >= Now
        /\ Stage(s) < Now => Stage(s) < Now' /\ Stage(s) <= Now /\ Stage(s) # Now
  BY <1>3, Between
<1>5. Now < Now' /\ Now <= Now
  BY Between
<1>6. ASSUME NEW i \in DOMAIN p
      PROVE  /\ p[i].step \in Steps /\ Stage(p[i].step) < Now
             /\ p[i].status = "skipped" \/ ended'[p[i].step] = p[i].status
  <2>2. p[i].step \in Steps
    BY EntryFacts
  <2>3. /\ Stage(p[i].step) < Now
        /\ p[i].status = "skipped" \/ ended[p[i].step] = p[i].status
    BY DEF Report, ReportedHaveEnded
  <2> QED BY <2>2, <2>3
<1>7. \A i, j \in DOMAIN p : i < j => p[i].step # p[j].step /\ Stage(p[i].step) <= Stage(p[j].step)
  BY DEF Report, InOrderOnce
<1>13. ASSUME NEW s \in Reported, Stage(s) < Now, ended[s] # ""
       PROVE  \E i \in DOMAIN p : p[i] = Result(s, ended[s])
  BY <1>13 DEF Report, EndedAreReported
<1> HIDE DEF r, p
<1>8. ASSUME NEW i \in DOMAIN r
      PROVE  /\ Stage(r[i].step) < Now'
             /\ r[i].status = "skipped" \/ ended'[r[i].step] = r[i].status
  <2>1. CASE i \in DOMAIN p /\ r[i] = p[i]
    BY <2>1, <1>4, <1>6
  <2>2. CASE \E k \in DOMAIN q : r[i] = q[k]
    BY <2>2, <1>5
  <2> QED BY <1>2, <2>1, <2>2 DEF Together
<1>9. ASSUME NEW s \in Reported, Stage(s) < Now', ended'[s] # ""
      PROVE  \E i \in DOMAIN r : r[i] = Result(s, ended'[s])
  <2>1. CASE Stage(s) < Now
    <3>1. ended'[s] = ended[s]
      BY <1>0, <2>1
    <3>2. PICK i \in DOMAIN p : p[i] = Result(s, ended[s])
      BY <1>9, <1>13, <2>1, <3>1
    <3> QED BY <3>1, <3>2, <1>2 DEF Together
  <2>2. CASE Stage(s) >= Now
    <3>1. PICK i \in DOMAIN q : q[i] = Result(s, ended'[s])
      BY <1>9, <2>2
    <3>2. PICK j \in DOMAIN r : r[j] = q[i]
      BY <1>2 DEF Together
    <3> QED BY <3>1, <3>2
  <2> QED BY <1>0, <1>4, <2>1, <2>2
<1>10. ASSUME NEW i \in DOMAIN r, NEW j \in DOMAIN r, i < j
       PROVE  r[i].step # r[j].step /\ Stage(r[i].step) <= Stage(r[j].step)
  <2>1. CASE i \in DOMAIN p /\ r[i] = p[i] /\ j \in DOMAIN p /\ r[j] = p[j]
    BY <1>7, <1>10, <2>1
  <2>2. CASE i \in DOMAIN p /\ r[i] = p[i] /\ \E k \in DOMAIN q : r[j] = q[k]
    <3>1. Stage(r[i].step) < Now /\ r[i].step \in Steps
      BY <2>2, <1>6
    <3>2. Stage(r[j].step) = Now
      BY <2>2
    <3> QED BY <3>1, <3>2, <1>4
  <2>3. CASE \E k, l \in DOMAIN q : k < l /\ r[i] = q[k] /\ r[j] = q[l]
    <3>1. PICK k \in DOMAIN q, l \in DOMAIN q : k < l /\ r[i] = q[k] /\ r[j] = q[l]
      BY <2>3, Zenon
    <3>2. q[k].step # q[l].step
      BY <3>1
    <3>3. Stage(q[k].step) = Now /\ Stage(q[l].step) = Now
      OBVIOUS
    <3>4. Stage(q[k].step) <= Stage(q[l].step)
      BY <3>3, <1>5
    <3> QED BY ONLY <3>1, <3>2, <3>4
  <2>4. \/ i \in DOMAIN p /\ r[i] = p[i] /\ j \in DOMAIN p /\ r[j] = p[j]
        \/ i \in DOMAIN p /\ r[i] = p[i] /\ \E k \in DOMAIN q : r[j] = q[k]
        \/ \E k, l \in DOMAIN q : k < l /\ r[i] = q[k] /\ r[j] = q[l]
    BY <1>2, <1>10, Zenon DEF Together
  <2> QED BY <2>1, <2>2, <2>3, <2>4
<1>11. EndedAreReported'
  BY <1>9 DEF EndedAreReported, r
<1>12. ReportedHaveEnded' /\ InOrderOnce'
  BY <1>8, <1>10 DEF ReportedHaveEnded, InOrderOnce, r
<1> QED BY <1>11, <1>12 DEF Report


\* A step of the run that reports nothing: it ends nothing before the stage it leads to.
Stays ==
  /\ Now \in Nat /\ Now' \in Nat /\ Now' >= Now /\ UNCHANGED <<stepResults, onError>>
  /\ part' = "done" \/ (part # "done" /\ UNCHANGED status)
  /\ \A s \in Steps : Stage(s) < Now => ended'[s] = ended[s]
  /\ \A s \in Reported : Stage(s) >= Now /\ Stage(s) < Now' => ended'[s] = ""

\* A step that changes nothing the report is made of stays.
LEMMA StillStays ==
  ASSUME PipeKinds, UNCHANGED <<part, at, ended, stepResults, status, onError>>
  PROVE  Stays
<1>1. Now' = Now /\ Now \in Nat
  BY NowFacts DEF Now
<1>2. Now' >= Now /\ \A s \in Steps : ~(Stage(s) >= Now /\ Stage(s) < Now)
  BY <1>1, NowFacts, Between
<1>3. Reported \subseteq Steps
  BY DEF Reported
<1> QED BY <1>1, <1>2, <1>3 DEF Stays

\* Going on without a report stays.
LEMMA GoingStays ==
  ASSUME PipeKinds, Bounds, LeaveMain \/ LeaveGroups \/ Finish
  PROVE  Stays
<1>0. at \in Nat \ {0} /\ Len(Main) \in Nat /\ Len(Groups) \in Nat
  BY Sizes, Counters
<1>1. UNCHANGED <<stepResults, onError, ended>>
  BY DEF LeaveMain, LeaveGroups, Finish
<1>2. part' = "done" \/ (part # "done" /\ UNCHANGED status)
  BY DEF LeaveMain, LeaveGroups, Finish
<1>3. Now' = Now
  <2>1. CASE LeaveMain
    <3>1. part = "main" /\ part' = "groups" /\ at' = 1 /\ at > Len(Main) /\ at <= Len(Main) + 1
      BY <2>1 DEF LeaveMain, Bounds
    <3>2. at = Len(Main) + 1
      BY <1>0, <3>1
    <3> QED BY <3>1, <3>2 DEF Now
  <2>2. CASE LeaveGroups
    <3>1. part = "groups" /\ part' = "finally" /\ at' = 1 /\ at > Len(Groups) /\ at <= Len(Groups) + 1
      BY <2>2 DEF LeaveGroups, Bounds
    <3>2. at = Len(Groups) + 1
      BY <1>0, <3>1
    <3>3. Now = Len(Main) + at /\ Now' = Len(Main) + Len(Groups) + 1
      BY <3>1 DEF Now
    <3> QED BY <1>0, <3>2, <3>3
  <2>3. CASE Finish
    BY <2>3 DEF Finish, Now
  <2> QED BY <2>1, <2>2, <2>3
<1>4. Now \in Nat
  BY NowFacts
<1>5. Now' >= Now /\ \A s \in Steps : ~(Stage(s) >= Now /\ Stage(s) < Now)
  BY <1>3, <1>4, NowFacts, Between
<1>6. Reported \subseteq Steps
  BY DEF Reported
<1> QED BY <1>1, <1>2, <1>3, <1>4, <1>5, <1>6 DEF Stays

\* The return of a step outside the main ones stays.
LEMMA ReturnStays ==
  ASSUME PipeKinds, ActiveHere, Bounds, NEW s \in Steps, NEW how \in {"ok", "error"}, Returns(s, how),
         part # "main"
  PROVE  Stays
<1>0. ended \in [Steps -> {"", "ok", "error"}] /\ Reported \subseteq Steps
  BY DEF PipeKinds, Reported
<1>1. ended' = [ended EXCEPT ![s] = how] /\ Stage(s) = Now /\ UNCHANGED onError /\ part # "done"
  BY ReturnDoes
<1>2. Now \in Nat /\ Unfinal \in Nat /\ Now' \in Nat /\ Now' >= Now
      /\ (part = "groups" => Now' = Now)
  <2>1. CASE part = "groups"
    BY <2>1, ReturnNow, NowFacts, Between
  <2>2. CASE part # "groups"
    BY <2>2, ReturnNow, NowFacts, Between
  <2> QED BY <2>1, <2>2
<1>3. UNCHANGED <<stepResults, status>>
  BY DEF Returns, ReturnMain, MainStep, ReturnInGroup, ReturnFinally
<1>4. \A q \in Steps : Stage(q) < Now => ended'[q] = ended[q]
  <2>1. \A q \in Steps : Stage(q) < Now => q # s
    BY <1>1, <1>2, NowFacts, Between
  <2> QED BY <1>0, <1>1, <2>1
<1>5. ASSUME NEW q \in Reported, Stage(q) >= Now, Stage(q) < Now'
      PROVE  ended'[q] = ""
  <2>1. q \in Steps /\ Stage(q) \in Nat
    BY <1>0, NowFacts
  <2>2. CASE part = "groups"
    BY <1>2, <1>5, <2>1, <2>2, Between
  <2>3. CASE part # "groups"
    <3>1. part = "finally"
      BY <1>1, <2>3 DEF PipeKinds
    <3>2. Now > Unfinal
      BY <1>1, <3>1 DEF Returns, ReturnMain, MainStep, ReturnInGroup, ActiveHere, ReturnFinally, Return
    <3>3. Stage(q) > Unfinal
      BY <1>2, <1>5, <2>1, <3>2
    <3> QED BY <2>1, <3>3, PlaceFacts DEF Reported
  <2> QED BY <2>2, <2>3
<1> QED BY <1>1, <1>2, <1>3, <1>4, <1>5 DEF Stays

\* Three steps report: a skip, the return of a main step and the end of a group.
LEMMA StaysOrReports ==
  ASSUME PipeKinds, ActiveHere, GroupBegun, LaterUnended, Bounds, Next
  PROVE  \/ Stays \/ Skip \/ LeaveGroup
         \/ \E how \in {"ok", "error"} : Returns(Main[at], how) /\ ReturnMain(how)
<1>1. CASE Work
  BY <1>1, WorkLeaves, StillStays
<1>2. ASSUME NEW s \in Steps, Begins(s) PROVE Stays
  BY <1>2, BeginDoes, StillStays
<1>3. ASSUME NEW s \in Steps, NEW how \in {"ok", "error"}, Returns(s, how)
      PROVE  Stays \/ (Returns(Main[at], how) /\ ReturnMain(how))
  <2>1. CASE part # "main"
    BY <1>3, <2>1, ReturnStays
  <2>2. CASE part = "main"
    <3>1. s = Main[at] /\ ReturnMain(how)
      BY <1>3, <2>2 DEF Returns, ReturnInGroup, ReturnFinally
    <3> QED BY <1>3, <3>1
  <2> QED BY <2>1, <2>2
<1>4. CASE LeaveMain \/ LeaveGroups \/ Finish
  BY <1>4, GoingStays
<1> QED BY <1>1, <1>2, <1>3, <1>4, PipeSteps DEF GoesOn


\* The failures grow by what ends between the stage the run leaves and the next.
LEMMA FailuresGrow ==
  ASSUME PipeKinds, Now \in Nat, Now' \in Nat, Now' > Now,
         \A s \in Steps : Stage(s) < Now => ended'[s] = ended[s]
  PROVE  FailedBefore' = FailedBefore \cup
           {s \in Reported : Stage(s) >= Now /\ Stage(s) < Now' /\ ended'[s] = "error"}
<1>1. Reported \subseteq Steps
  BY DEF Reported
<1>2. \A s \in Steps : (Stage(s) < Now \/ Stage(s) >= Now) /\ (Stage(s) < Now => Stage(s) < Now')
  BY NowFacts, Between
<1> QED BY <1>1, <1>2 DEF FailedBefore

\* A sequence of one.
LEMMA OneLong ==
  ASSUME NEW S, NEW e \in S
  PROVE  <<e>> \in Seq(S) /\ DOMAIN <<e>> = {1} /\ <<e>>[1] = e
<1>1. <<e>> \in Seq(S) /\ <<e>>[1] = e /\ Len(<<e>>) = 1
  OBVIOUS
<1>2. DOMAIN <<e>> = 1 .. 1
  BY <1>1, LenProperties
<1>3. 1 .. 1 = {1}
  OBVIOUS
<1> QED BY <1>1, <1>2, <1>3

\* A main step is reported when the run leaves it.
LEMMA MainReports ==
  ASSUME PipeKinds, LaterUnended, Report, MainStep, NEW how \in {"ok", "error", "skipped"},
         stepResults' = Append(stepResults, Result(Main[at], how)),
         Now' \in Nat, Now' > Now,
         \A q \in Steps \ {Main[at]} : ended'[q] = ended[q],
         ended'[Main[at]] = IF how = "skipped" THEN "" ELSE how
  PROVE  /\ Report'
         /\ FailedBefore' = FailedBefore \cup (IF how = "error" THEN {Main[at]} ELSE {})
<1> DEFINE s == Main[at]
           q == <<Result(s, how)>>
<1>0. Reported \subseteq Steps /\ stepResults \in Seq(Entries)
  BY DEF Reported, PipeKinds
<1>1. s \in Reported /\ s \in Steps /\ Stage(s) = Now /\ part = "main"
  BY AtMain, <1>0
<1>2. Now \in Nat /\ \A r \in Steps : Stage(r) \in Nat
  BY NowFacts
<1>3. Result(s, how) \in Entries
  BY <1>1 DEF Result, Entries
<1>4. q \in Seq(Entries) /\ stepResults' = stepResults \o q
  <2>1. ASSUME NEW e \in Entries
        PROVE  <<e>> \in Seq(Entries) /\ Append(stepResults, e) = stepResults \o <<e>>
    <3>1. stepResults \in Seq(Entries)
      BY <1>0
    <3>2. Append(stepResults, e) = stepResults \o <<e>>
      BY ONLY <3>1, AppendIsConcat
    <3>3. <<e>> \in Seq(Entries)
      BY OneLong, Zenon
    <3> QED BY <3>2, <3>3, Zenon
  <2>2. <<Result(s, how)>> \in Seq(Entries)
    BY <1>3, <2>1
  <2>3. Append(stepResults, Result(s, how)) = stepResults \o <<Result(s, how)>>
    BY <1>3, <2>1
  <2> QED BY <2>2, <2>3
<1>5. DOMAIN q = {1} /\ q[1] = Result(s, how)
  BY <1>3, OneLong
<1>6. Result(s, how).step = s /\ Result(s, how).status = how
  BY DEF Result
<1>7. \A r \in Steps : Stage(r) < Now => r # s
  BY <1>1, <1>2, Between
<1>8. \A r \in Steps : Stage(r) < Now => ended'[r] = ended[r]
  BY <1>7
<1>9. \A r \in Steps : r # s /\ Stage(r) >= Now => ended'[r] = ""
  BY <1>1 DEF LaterUnended
<1>10. Stage(s) >= Now /\ Stage(s) < Now'
  BY <1>1, <1>2, Between
<1>11. FailedBefore' = FailedBefore \cup
           {r \in Reported : Stage(r) >= Now /\ Stage(r) < Now' /\ ended'[r] = "error"}
  BY <1>2, <1>8, FailuresGrow
<1> HIDE DEF s, q
<1>12. {r \in Reported : Stage(r) >= Now /\ Stage(r) < Now' /\ ended'[r] = "error"}
         = IF how = "error" THEN {s} ELSE {}
  <2>1. \A r \in Reported : Stage(r) >= Now /\ ended'[r] = "error" => r = s
    BY <1>0, <1>9
  <2>2. ended'[s] = "error" <=> how = "error"
    BY DEF s
  <2> QED BY <1>1, <1>10, <2>1, <2>2
<1>13. \A r \in Reported : Stage(r) >= Now /\ Stage(r) < Now' /\ ended'[r] # "" =>
          \E i \in DOMAIN q : q[i] = Result(r, ended'[r])
  <2>1. SUFFICES ASSUME NEW r \in Reported, Stage(r) >= Now, ended'[r] # ""
                 PROVE  q[1] = Result(r, ended'[r])
    BY <1>5
  <2>2. r = s
    BY <1>0, <1>9, <2>1
  <2>3. ended'[s] = how
    BY <2>1, <2>2 DEF s
  <2> QED BY <1>5, <2>2, <2>3
<1> DEFINE ToldAsEnded(e) == Stage(e.step) = Now /\ (e.status = "skipped" \/ ended'[e.step] = e.status)
<1>14. \A i \in DOMAIN q : ToldAsEnded(q[i])
  <2>1. how = "skipped" \/ ended'[s] = how
    BY DEF s
  <2>2. q[1].step = s /\ q[1].status = how
    BY <1>5, <1>6
  <2>3. ToldAsEnded(q[1])
    BY <1>1, <2>1, <2>2
  <2>4. TAKE i \in DOMAIN q
  <2>5. i = 1
    BY <1>5
  <2> HIDE DEF ToldAsEnded
  <2> QED BY <2>3, <2>5
<1>15. \A i, j \in DOMAIN q : i < j => q[i].step # q[j].step
  <2>1. ASSUME NEW i \in DOMAIN q, NEW j \in DOMAIN q, i < j PROVE FALSE
    <3>1. i = 1 /\ j = 1
      BY <1>5
    <3> QED BY ONLY <3>1, <2>1
  <2> QED BY <2>1
<1>16. Report'
  BY <1>2, <1>4, <1>8, <1>13, <1>14, <1>15, ReportGrows
<1> QED BY <1>11, <1>12, <1>16 DEF s

\* A group is reported in its order when the run leaves it.
LEMMA GroupReports ==
  ASSUME PipeKinds, LaterUnended, Report, LeaveGroup, Now' \in Nat, Now' > Now
  PROVE  /\ Report'
         /\ FailedBefore' = FailedBefore \cup {s \in InSeq(Groups[at]) : ended[s] = "error"}
<1> DEFINE g == Groups[at]
           q == GroupResults(g)
<1>0. Reported \subseteq Steps /\ part = "groups" /\ at <= Len(Groups) /\ ended' = ended
      /\ stepResults' = stepResults \o q
  BY DEF Reported, LeaveGroup
<1>1. Now \in Nat /\ \A r \in Steps : Stage(r) \in Nat
  BY NowFacts
<1>2. /\ q \in Seq(Entries) /\ Len(q) = Len(g)
      /\ Len(g) \in Nat /\ DOMAIN g = 1 .. Len(g)
      /\ \A i \in DOMAIN g : q[i] = Result(g[i], ended[g[i]])
  BY GroupEntries
<1>3. DOMAIN q = DOMAIN g
  BY <1>2, LenProperties
<1>4. \A s \in InSeq(g) : s \in Reported /\ Stage(s) = Now
  BY <1>0, AtGroup
<1>5. at \in DOMAIN Groups
  BY <1>0, Sizes, Counters
<1>6. \A i, j \in DOMAIN g : i # j => g[i] # g[j]
  BY <1>5, PipelineAssumption
<1>7. \A r \in Steps : Stage(r) = Now => r \in InSeq(g)
  <2>1. TAKE r \in Steps
  <2>2. Now = Ungrouped + at /\ Now \in Ungrouped + 1 .. Unfinal /\ Now - Ungrouped = at
    BY <1>0, NowFacts
  <2> QED BY <2>2, PlaceFacts
<1>8. \A r \in Steps : Stage(r) >= Now /\ ended[r] # "" => r \in InSeq(g)
  BY <1>7 DEF LaterUnended
<1>9. FailedBefore' = FailedBefore \cup
           {r \in Reported : Stage(r) >= Now /\ Stage(r) < Now' /\ ended'[r] = "error"}
  BY <1>0, <1>1, FailuresGrow
<1>10. Now >= Now
  BY <1>1, Between
<1>11. \A i \in DOMAIN g : g[i] \in InSeq(g)
  BY DEF InSeq
<1>12. \A r \in InSeq(g) : \E i \in DOMAIN g : r = g[i]
  BY DEF InSeq
<1> HIDE DEF g, q
<1>13. {r \in Reported : Stage(r) >= Now /\ Stage(r) < Now' /\ ended'[r] = "error"}
          = {s \in InSeq(g) : ended[s] = "error"}
  BY <1>0, <1>4, <1>8, <1>10
<1>14. \A r \in Reported : Stage(r) >= Now /\ Stage(r) < Now' /\ ended'[r] # "" =>
          \E i \in DOMAIN q : q[i] = Result(r, ended'[r])
  <2>1. SUFFICES ASSUME NEW r \in Reported, Stage(r) >= Now, ended[r] # ""
                 PROVE  \E i \in DOMAIN q : q[i] = Result(r, ended[r])
    BY <1>0
  <2>2. PICK i \in DOMAIN g : r = g[i]
    BY <1>0, <1>8, <1>12, <2>1
  <2> QED BY <1>2, <1>3, <2>2
<1>15. \A i \in DOMAIN q : q[i].step = g[i] /\ q[i].status = ended[g[i]] /\ Stage(g[i]) = Now
  BY <1>2, <1>3, <1>4, <1>11 DEF Result
<1>16. \A i, j \in DOMAIN q : i < j => q[i].step # q[j].step
  <2>1. SUFFICES ASSUME NEW i \in DOMAIN q, NEW j \in DOMAIN q, i < j PROVE g[i] # g[j]
    BY <1>15
  <2>2. i \in 1 .. Len(g) /\ j \in 1 .. Len(g)
    BY <1>2, <1>3
  <2>3. i # j
    BY <1>2, <2>1, <2>2
  <2> QED BY <1>3, <1>6, <2>3
<1>17. \A i \in DOMAIN q :
          /\ Stage(q[i].step) = Now
          /\ q[i].status = "skipped" \/ ended'[q[i].step] = q[i].status
  BY <1>0, <1>15
<1>18. \A s \in Steps : Stage(s) < Now => ended'[s] = ended[s]
  BY <1>0
<1>19. Report'
  BY <1>0, <1>1, <1>2, <1>14, <1>16, <1>17, <1>18, ReportGrows
<1> QED BY <1>9, <1>13, <1>19 DEF g


\* A skip and the end of a group lead on.
LEMMA LeadsOn ==
  ASSUME PipeKinds, Skip \/ LeaveGroup
  PROVE  Now \in Nat /\ Now' \in Nat /\ Now' > Now
<1>0. at \in Nat \ {0} /\ Len(Main) \in Nat /\ Len(Groups) \in Nat
  BY Sizes, Counters
<1>1. CASE Skip
  <2>1. part = "main" /\ part' = part /\ at' = at + 1
    BY <1>1 DEF Skip, MainStep
  <2> QED BY <1>0, <2>1 DEF Now
<1>2. CASE LeaveGroup
  <2>1. part = "groups" /\ at <= Len(Groups)
    BY <1>2 DEF LeaveGroup
  <2>2. Now = Len(Main) + at
    BY <2>1 DEF Now
  <2>3. CASE part' = "finally" /\ at' = 1
    <3>1. Now' = Len(Main) + Len(Groups) + 1
      BY <2>3 DEF Now
    <3> QED BY <1>0, <2>1, <2>2, <3>1
  <2>4. CASE part' = part /\ at' = at + 1
    <3>1. Now' = Len(Main) + (at + 1)
      BY <2>1, <2>4 DEF Now
    <3> QED BY <1>0, <2>1, <2>2, <3>1
  <2> QED BY <1>2, <2>3, <2>4 DEF LeaveGroup
<1> QED BY <1>1, <1>2

\* A skip is reported and fails nothing.
LEMMA SkipReports ==
  ASSUME PipeKinds, LaterUnended, Report, Skip
  PROVE  Report' /\ FailedBefore' = FailedBefore
<1>1. /\ MainStep /\ ended[Main[at]] = "" /\ ended' = ended
      /\ stepResults' = Append(stepResults, Result(Main[at], "skipped"))
  BY DEF Skip, Idle
<1>2. Now' \in Nat /\ Now' > Now
  BY LeadsOn
<1>3. \A q \in Steps \ {Main[at]} : ended'[q] = ended[q]
  BY <1>1
<1>4. ended'[Main[at]] = ""
  BY <1>1
<1> QED BY <1>1, <1>2, <1>3, <1>4, MainReports

\* The return of a main step is reported and may be a failure.
LEMMA ReturnReports ==
  ASSUME PipeKinds, ActiveHere, LaterUnended, Report,
         NEW how \in {"ok", "error"}, Returns(Main[at], how), ReturnMain(how)
  PROVE  /\ Report'
         /\ FailedBefore' = FailedBefore \cup (IF how = "error" THEN {Main[at]} ELSE {})
<1>0. ended \in [Steps -> {"", "ok", "error"}]
  BY DEF PipeKinds
<1>1. MainStep /\ stepResults' = Append(stepResults, Result(Main[at], how))
  BY DEF ReturnMain
<1>2. Main[at] \in Steps /\ part = "main"
  BY <1>1, AtMain DEF Reported
<1>3. ended' = [ended EXCEPT ![Main[at]] = how]
  BY <1>2, ReturnDoes
<1>4. Now' \in Nat /\ Now' > Now
  BY <1>2, ReturnNow
<1>5. \A q \in Steps \ {Main[at]} : ended'[q] = ended[q]
  BY <1>0, <1>3
<1>6. ended'[Main[at]] = how /\ how # "skipped"
  BY <1>0, <1>2, <1>3
<1> QED BY <1>1, <1>4, <1>5, <1>6, MainReports

\* The report stays right.
LEMMA KeepsReport ==
  ASSUME PipeKinds, CommandsHere, ActiveHere, GroupBegun, LaterUnended, Bounds, Report, Next
  PROVE  Report'
<1>1. CASE Stays
  BY <1>1, ReportStays DEF Stays
<1>2. CASE Skip
  BY <1>2, SkipReports
<1>3. CASE LeaveGroup
  BY <1>3, LeadsOn, GroupReports
<1>4. ASSUME NEW how \in {"ok", "error"}, Returns(Main[at], how), ReturnMain(how) PROVE Report'
  BY <1>4, ReturnReports
<1> QED BY <1>1, <1>2, <1>3, <1>4, StaysOrReports

\* The status tells of the failures so far.
LEMMA KeepsStatus ==
  ASSUME PipeKinds, CommandsHere, ActiveHere, GroupBegun, LaterUnended, Bounds, Report, StatusSoFar, Next
  PROVE  StatusSoFar'
<1> DEFINE Fatal(s) == ~(s \in Allow \/ onError = "continue")
<1>1. SUFFICES ASSUME part' # "done"
               PROVE  UNCHANGED onError /\
                      status' = IF \E s \in FailedBefore' : Fatal(s) THEN "error" ELSE ""
  BY DEF StatusSoFar, MayFail
<1>2. part # "done" => status = IF \E s \in FailedBefore : Fatal(s) THEN "error" ELSE ""
  BY DEF StatusSoFar, MayFail
<1>3. CASE Stays
  <2>1. FailedBefore' = FailedBefore
    BY <1>3, ReportStays DEF Stays
  <2> QED BY <1>1, <1>2, <1>3, <2>1 DEF Stays
<1>4. CASE Skip
  <2>1. FailedBefore' = FailedBefore
    BY <1>4, SkipReports
  <2>2. part = "main" /\ UNCHANGED <<status, onError>>
    BY <1>4 DEF Skip, MainStep
  <2> QED BY <1>2, <2>1, <2>2
<1>5. CASE LeaveGroup
  <2>1. FailedBefore' = FailedBefore \cup {s \in InSeq(Groups[at]) : ended[s] = "error"}
    BY <1>5, LeadsOn, GroupReports
  <2>2. /\ part = "groups" /\ UNCHANGED onError
        /\ IF \E s \in InSeq(Groups[at]) : ended[s] = "error" /\ Fatal(s)
           THEN status' = "error" ELSE UNCHANGED status
    BY <1>5 DEF LeaveGroup, MayFail
  <2> HIDE DEF Fatal
  <2> QED BY <1>2, <2>1, <2>2
<1>6. ASSUME NEW how \in {"ok", "error"}, Returns(Main[at], how), ReturnMain(how)
      PROVE  UNCHANGED onError /\
             status' = IF \E s \in FailedBefore' : Fatal(s) THEN "error" ELSE ""
  <2>1. FailedBefore' = FailedBefore \cup (IF how = "error" THEN {Main[at]} ELSE {})
    BY <1>6, ReturnReports
  <2>2. /\ part = "main" /\ UNCHANGED onError
        /\ IF how = "error" /\ Fatal(Main[at])
           THEN status' = "error" ELSE UNCHANGED status
    BY <1>6 DEF ReturnMain, MainStep, MayFail
  <2> HIDE DEF Fatal
  <2> QED BY <1>2, <2>1, <2>2
<1> QED BY <1>3, <1>4, <1>5, <1>6, StaysOrReports

\* Only Finish ends a run.
LEMMA OnlyFinish ==
  ASSUME PipeKinds, ActiveHere, GroupBegun, LaterUnended, Bounds, Next, part' = "done"
  PROVE  Finish \/ Work
<1>1. ASSUME NEW s \in Steps, Begins(s) PROVE FALSE
  BY <1>1, BeginDoes
<1>2. ASSUME NEW s \in Steps, NEW how \in {"ok", "error"}, Returns(s, how) PROVE FALSE
  <2>1. part' \in {part, "groups"} /\ part # "done"
    BY <1>2, ReturnDoes, ReturnLeads
  <2> QED BY <2>1
<1>3. CASE GoesOn
  BY <1>3 DEF GoesOn, Skip, MainStep, LeaveMain, LeaveGroup, LeaveGroups, Finish
<1> QED BY <1>1, <1>2, <1>3, PipeSteps

\* When the run ends its status is that of all its failures.
LEMMA KeepsTells ==
  ASSUME PipeKinds, CommandsHere, ActiveHere, GroupBegun, LaterUnended, Bounds, Report, StatusSoFar,
         StatusTells, Next
  PROVE  StatusTells'
<1>1. CASE part' # "done"
  BY <1>1 DEF StatusTells
<1>2. CASE part' = "done" /\ Work
  <2>1. UNCHANGED <<part, ended, status, onError>>
    BY <1>2, WorkLeaves
  <2> QED BY <2>1 DEF StatusTells, MayFail
<1>3. CASE part' = "done" /\ Finish
  <2> DEFINE all == {s \in Reported : ended[s] = "error"}
             Fatal(s) == ~(s \in Allow \/ onError = "continue")
  <2>1. /\ part = "finally" /\ UNCHANGED <<ended, stepResults, onError>>
        /\ status' = IF status # "" THEN status ELSE IF Failed(stepResults) # {} THEN "partial" ELSE "ok"
    BY <1>3 DEF Finish
  <2>2. \A s \in Reported : Stage(s) < Now
    <3>1. TAKE s \in Reported
    <3>2. s \in Steps /\ ~(Stage(s) > Unfinal)
      BY PlaceFacts DEF Reported
    <3>3. Stage(s) \in Nat /\ Unfinal \in Nat /\ at \in Nat \ {0} /\ Now = Unfinal + at
      BY <2>1, <3>2, NowFacts
    <3> QED BY <3>2, <3>3
  <2>3. FailedBefore = all
    BY <2>2 DEF FailedBefore
  <2>4. status = IF \E s \in all : Fatal(s) THEN "error" ELSE ""
    BY <2>1, <2>3 DEF StatusSoFar, MayFail
  <2>5. Failed(stepResults) # {} <=> all # {}
    <3>1. ASSUME NEW i \in DOMAIN stepResults, stepResults[i].status = "error"
          PROVE  stepResults[i].step \in all
      <4>1. stepResults[i].step \in Reported
        BY EntryFacts
      <4>2. ended[stepResults[i].step] = "error"
        BY <3>1 DEF Report, ReportedHaveEnded
      <4> QED BY <4>1, <4>2
    <3>2. ASSUME NEW s \in all
          PROVE  \E i \in DOMAIN stepResults : stepResults[i].status = "error"
      <4>1. PICK i \in DOMAIN stepResults : stepResults[i] = Result(s, "error")
        BY <2>2 DEF Report, EndedAreReported
      <4> QED BY <4>1 DEF Result
    <3> QED BY <3>1, <3>2 DEF Failed
  <2>6. status' = IF \E s \in all : Fatal(s) THEN "error" ELSE IF all # {} THEN "partial" ELSE "ok"
    BY <2>1, <2>4, <2>5
  <2> QED BY <2>1, <2>6 DEF StatusTells, MayFail, Reported
<1> QED BY <1>1, <1>2, <1>3, OnlyFinish


-----------------------------------------------------------------------------
(* The theorems                                                            *)

\* A run begins with nothing active, ended or reported.
LEMMA PipeInit == Init => PipeIInv
<1> SUFFICES ASSUME Init PROVE PipeIInv
  OBVIOUS
<1>1. /\ part = "main" /\ at = 1 /\ begun = 0 /\ active = {} /\ commands = {} /\ bad = {}
      /\ tries = [s \in Steps |-> 0] /\ ran = [s \in Steps |-> 0] /\ ended = [s \in Steps |-> ""]
      /\ stepResults = <<>> /\ status = "" /\ ctxDone = FALSE
  BY DEF Init
<1>2. PipeKinds
  <2>1. IsFiniteSet(active)
    BY <1>1, FS_EmptySet
  <2>2. stepResults \in Seq(Entries)
    <3>1. <<>> \in Seq(Entries)
      BY EmptySeq
    <3>2. stepResults = <<>>
      BY DEF Init
    <3> QED BY ONLY <3>1, <3>2, Zenon
  <2>3. at \in Nat \ {0} /\ begun \in Nat
    <3>1. at = 1 /\ begun = 0
      BY <1>1
    <3> QED BY ONLY <3>1
  <2>4. tries \in [Steps -> Nat] /\ ran \in [Steps -> Nat]
    BY <1>1
  <2>5. ended \in [Steps -> {"", "ok", "error"}]
    BY <1>1
  <2>6. /\ active \subseteq Steps /\ bad \subseteq Steps /\ ctxDone \in BOOLEAN
        /\ part \in {"main", "groups", "finally", "done"} /\ status \in {"", "ok", "partial", "error"}
    BY <1>1
  <2> QED BY <2>1, <2>2, <2>3, <2>4, <2>5, <2>6 DEF PipeKinds
<1>3. Bounds
  <2>1. 1 <= Len(Main) + 1
    BY Sizes
  <2> QED BY <1>1, <2>1 DEF Bounds
<1>4. CommandsHere
  <2>1. \A s \in Steps : RunningOf(s) = {}
    BY <1>1 DEF RunningOf
  <2>2. Cardinality({}) = 0 /\ IsFiniteSet({})
    BY FS_EmptySet
  <2>3. \A s \in Steps : 0 <= Parallelism(s)
    BY TriesNat
  <2> QED BY <1>1, <2>1, <2>2, <2>3 DEF CommandsHere
<1>5. ActiveHere /\ LaterUnended /\ Untouched /\ GroupBegun
  BY <1>1 DEF ActiveHere, LaterUnended, Untouched, GroupBegun
<1>6. ActiveLimit
  <2>1. Cardinality(active) = 0
    BY <1>1, FS_EmptySet
  <2> QED BY <2>1, PipelineAssumption DEF ActiveLimit
<1>7. StatusSoFar
  BY <1>1 DEF StatusSoFar, FailedBefore, Reported
<1>8. EndedAreReported /\ ReportedHaveEnded /\ InOrderOnce
  <2>1. DOMAIN stepResults = {}
    <3>1. <<>> \in Seq(Entries) /\ Len(<<>>) = 0
      BY EmptySeq
    <3>2. DOMAIN <<>> = 1 .. 0
      BY <3>1, LenProperties
    <3>3. 1 .. 0 = {}
      OBVIOUS
    <3>4. stepResults = <<>>
      BY <1>1
    <3> QED BY ONLY <3>2, <3>3, <3>4
  <2>2. \A s \in Reported : ended[s] = ""
    BY <1>1 DEF Reported
  <2> QED BY <2>1, <2>2 DEF EndedAreReported, ReportedHaveEnded, InOrderOnce
<1>9. Attempts /\ FinalsEnd /\ StatusTells
  BY <1>1 DEF Attempts, FinalsEnd, StatusTells
<1> QED BY <1>2, <1>3, <1>4, <1>5, <1>6, <1>7, <1>8, <1>9 DEF PipeIInv

\* Every step keeps all of it.
LEMMA PipeInductive == PipeIInv /\ [Next]_vars => PipeIInv'
<1> SUFFICES ASSUME PipeIInv, [Next]_vars PROVE PipeIInv'
  OBVIOUS
<1>1. CASE Next
  <2>1. /\ PipeKinds /\ Bounds /\ CommandsHere /\ ActiveHere /\ LaterUnended /\ Untouched /\ GroupBegun
        /\ ActiveLimit /\ StatusSoFar /\ Report /\ Attempts /\ FinalsEnd /\ StatusTells
    BY DEF PipeIInv, Report
  <2>2. PipeKinds' /\ Bounds' /\ CommandsHere' /\ ActiveHere'
    BY <1>1, <2>1, KeepsPipeKinds, KeepsBounds, KeepsCommands, KeepsActive
  <2>3. LaterUnended' /\ Untouched' /\ GroupBegun' /\ ActiveLimit'
    BY <1>1, <2>1, KeepsLater, KeepsUntouched, KeepsGroupBegun, KeepsActiveLimit
  <2>4. StatusSoFar' /\ Report' /\ StatusTells'
    BY <1>1, <2>1, KeepsStatus, KeepsReport, KeepsTells
  <2>5. Attempts' /\ FinalsEnd'
    BY <1>1, <2>1, KeepsAttempts, KeepsFinalsEnd
  <2> QED BY <2>2, <2>3, <2>4, <2>5 DEF PipeIInv, Report
<1>2. CASE UNCHANGED vars
  <2>1. UNCHANGED <<part, at, begun, active, tries, commands, bad, ended, stepResults, status, ctxDone,
                    onError, ran>>
    BY <1>2 DEF vars
  <2>2. Now' = Now /\ FailedBefore' = FailedBefore
    BY <2>1 DEF Now, FailedBefore
  <2>3. PipeKinds' /\ Bounds' /\ ActiveHere' /\ LaterUnended' /\ Untouched' /\ GroupBegun'
    BY <2>1, <2>2 DEF PipeIInv, PipeKinds, Bounds, ActiveHere, LaterUnended, Untouched, GroupBegun
  <2>4. CommandsHere' /\ ActiveLimit' /\ Attempts' /\ FinalsEnd'
    BY <2>1, <2>2 DEF PipeIInv, CommandsHere, RunningOf, ActiveLimit, Attempts, FinalsEnd
  <2>5. StatusSoFar' /\ EndedAreReported' /\ ReportedHaveEnded' /\ InOrderOnce' /\ StatusTells'
    BY <2>1, <2>2 DEF PipeIInv, StatusSoFar, EndedAreReported, ReportedHaveEnded, InOrderOnce,
         StatusTells, MayFail
  <2> QED BY <2>3, <2>4, <2>5 DEF PipeIInv
<1> QED BY <1>1, <1>2

\* The types are part of it.
LEMMA PipeTypes == PipeIInv => TypeOK
<1> SUFFICES ASSUME PipeIInv PROVE TypeOK
  OBVIOUS
<1>1. PipeKinds /\ CommandsHere
  BY DEF PipeIInv
<1>2. \A c \in commands : c[1] \in Steps /\ c[2] \in 1 .. Tries(c[1])
  BY <1>1 DEF PipeKinds, CommandsHere
<1>3. ASSUME NEW i \in DOMAIN stepResults
      PROVE  stepResults[i].step \in Steps \ InSeq(Finals) /\ stepResults[i].status \in {"ok", "error", "skipped"}
  <2>1. stepResults \in Seq(Entries)
    BY <1>1 DEF PipeKinds
  <2>2. i \in 1 .. Len(stepResults)
    BY <2>1, LenProperties
  <2>3. stepResults[i] \in Entries
    BY <2>1, <2>2, ElementOfSeq
  <2> QED BY <2>3 DEF Entries, Reported
<1>4. at \in Nat
  BY <1>1, Counters
<1> QED BY <1>1, <1>2, <1>3, <1>4 DEF PipeKinds, TypeOK

\* When the run is over it is past every step it reports.
LEMMA PastAll ==
  ASSUME PipeKinds, Bounds, part = "done"
  PROVE  \A s \in Steps : Stage(s) < Now
<1>1. TAKE s \in Steps
<1>2. Stage(s) \in 1 .. Unfinal + Len(Finals)
  BY PlaceFacts
<1>3. Now = Unfinal + at /\ at = Len(Finals) + 1 /\ Unfinal \in Nat /\ Len(Finals) \in Nat
  BY NowFacts DEF Bounds
<1> QED BY <1>2, <1>3

\* The parts of what a run promises follow.
LEMMA PipeReports == PipeIInv => RunsAreReported
<1> SUFFICES ASSUME PipeIInv PROVE RunsAreReported
  OBVIOUS
<1>0. /\ PipeKinds /\ Bounds /\ CommandsHere /\ ActiveHere /\ LaterUnended /\ Untouched
      /\ ActiveLimit /\ EndedAreReported /\ InOrderOnce /\ Attempts /\ FinalsEnd /\ StatusTells
  BY DEF PipeIInv
<1>1. \A s \in Steps : Stage(s) \in Nat
  BY <1>0, NowFacts
<1>2. StagesInOrder
  <2>1. SUFFICES ASSUME NEW c \in commands, NEW s \in Steps
                 PROVE  /\ Stage(s) < Stage(c[1]) => s \notin active
                        /\ Stage(s) > Stage(c[1]) => s \notin active /\ ran[s] = 0
    BY DEF StagesInOrder
  <2>2. c[1] \in Steps /\ Stage(c[1]) = Now
    BY <1>0 DEF CommandsHere, ActiveHere, PipeKinds
  <2>3. s \in active => Stage(s) = Now
    BY <1>0 DEF ActiveHere
  <2>4. ASSUME Stage(s) < Stage(c[1]) PROVE s \notin active
    BY <1>1, <2>2, <2>3, <2>4, Between
  <2>5. ASSUME Stage(s) > Stage(c[1]) PROVE s \notin active /\ ran[s] = 0
    <3>1. Stage(s) >= Now /\ Stage(s) # Now
      BY <1>1, <2>2, <2>5, Between
    <3>2. s \notin active
      BY <2>3, <3>1
    <3>3. ended[s] = ""
      BY <1>0, <3>1 DEF LaterUnended
    <3> QED BY <1>0, <3>2, <3>3 DEF Untouched
  <2> QED BY <2>4, <2>5
<1>3. WithinConcurrency
  BY <1>0 DEF WithinConcurrency, ActiveLimit, CommandsHere
<1>4. ReportIsComplete
  <2>1. CASE part = "done"
    <3>1. \A s \in Reported : Stage(s) < Now
      BY <1>0, <2>1, PastAll DEF Reported
    <3>2. \A s \in Steps \ InSeq(Finals) :
             ended[s] # "" => \E i \in DOMAIN stepResults : stepResults[i] = Result(s, ended[s])
      BY <1>0, <3>1 DEF EndedAreReported, Reported
    <3>3. \A i, j \in DOMAIN stepResults : i < j =>
             /\ stepResults[i].step # stepResults[j].step
             /\ Stage(stepResults[i].step) <= Stage(stepResults[j].step)
      BY <1>0 DEF InOrderOnce
    <3> QED BY <3>2, <3>3 DEF ReportIsComplete
  <2> QED BY <2>1 DEF ReportIsComplete
<1>5. FailsAfterRetries
  <2>1. SUFFICES ASSUME NEW s \in Steps \ (Iterated \cup Json), ended[s] = "error", ~ctxDone
                 PROVE  ran[s] = Retries[s] + 1
    BY DEF FailsAfterRetries
  <2>2. ran[s] = tries[s] /\ tries[s] = Tries(s)
    BY <1>0, <2>1 DEF Attempts
  <2>3. Tries(s) = Retries[s] + 1
    BY PipelineAssumption DEF Tries
  <2> QED BY <2>2, <2>3
<1>6. FinallyAttempted
  <2>1. SUFFICES ASSUME part = "done", ~ctxDone, NEW s \in InSeq(Finals), Tries(s) > 0
                 PROVE  ran[s] > 0
    BY DEF FinallyAttempted
  <2>2. s \in Steps
    BY DEF Steps
  <2>3. Stage(s) < Now
    BY <1>0, <2>1, <2>2, PastAll
  <2>4. ended[s] # ""
    BY <1>0, <2>1, <2>3 DEF FinalsEnd
  <2>5. ran[s] = tries[s] /\ tries[s] > 0
    BY <1>0, <2>1, <2>2, <2>4 DEF Attempts
  <2> QED BY <2>5
<1> QED BY <1>0, <1>2, <1>3, <1>4, <1>5, <1>6 DEF RunsAreReported

\* The state of a run has its types, and no command runs beyond the retries or iterations of
\* its step (pipeline/step.go:48).
THEOREM PipelineTyped == Spec => []TypeOK
BY PipeInit, PipeInductive, PipeTypes, PTL DEF Spec

\* Whatever overlaps in a group, in its retries and its iterations, and whenever the context
\* ends: stages are in order, limits hold, the finally steps are attempted, and report and status
\* tell what became of every step (pipeline/execute.go:19).
THEOREM RunsReported == Spec => []RunsAreReported
BY PipeInit, PipeInductive, PipeReports, PTL DEF Spec
=============================================================================
