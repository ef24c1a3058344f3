--------------------------- MODULE LoopScheduler ----------------------------
(* The recurring prompt of loop/: Start runs a goroutine that ticks until   *)
(* its context is cancelled; Stop cancels it and waits for its end, and     *)
(* commands of several callers may overlap.                                 *)
EXTENDS Naturals, FiniteSets

CONSTANTS Commands,  \* handlers of /loop and /loop-stop in progress
          MaxStarts, \* bound: loops started
          MaxTicks   \* bound: ticks of one loop

ASSUME LoopAssumption == {MaxStarts, MaxTicks} \subseteq Nat

VARIABLES running,   \* Scheduler.running
          loop,      \* number of the newest loop; its done and cancel are the fields'
          count,     \* Scheduler.count
          go,        \* loop -> its goroutine
          stop       \* Command -> the Stop in progress

lvars == <<running, loop, count, go, stop>>

Loops == 1 .. MaxStarts
NoStop == [at |-> "idle", loop |-> 0]
LoopInit ==
  /\ running = FALSE /\ loop = 0 /\ count = 0
  /\ go = [l \in Loops |-> [at |-> "none", cancelled |-> FALSE, timer |-> FALSE, ticks |-> 0]]
  /\ stop = [c \in Commands |-> NoStop]

MayStart == ~running

Start ==
  /\ MayStart /\ loop < MaxStarts
  /\ loop' = loop + 1
  /\ running' = TRUE /\ count' = 0
  /\ go' = [go EXCEPT ![loop + 1] = [at |-> "select", cancelled |-> FALSE, timer |-> TRUE, ticks |-> 0]]
  /\ UNCHANGED stop

\* The interval passes.
TimerFires(l) ==
  /\ go[l].at = "select" /\ ~go[l].timer /\ go[l].ticks < MaxTicks
  /\ go' = [go EXCEPT ![l].timer = TRUE]
  /\ UNCHANGED <<running, loop, count, stop>>
\* Both cases of the select may be ready: either is taken.
SelectTimer(l) ==
  /\ go[l].at = "select" /\ go[l].timer
  /\ go' = [go EXCEPT ![l].at = "tick", ![l].timer = FALSE, ![l].ticks = @ + 1]
  /\ UNCHANGED <<running, loop, count, stop>>
SelectDone(l) ==
  /\ go[l].at = "select" /\ go[l].cancelled
  /\ go' = [go EXCEPT ![l].at = "exit"]
  /\ UNCHANGED <<running, loop, count, stop>>
Tick(l) ==
  /\ go[l].at = "tick"
  /\ count' = go[l].ticks
  /\ go' = [go EXCEPT ![l].at = "onTick"]
  /\ UNCHANGED <<running, loop, stop>>
OnTickReturns(l) ==
  /\ go[l].at = "onTick"
  /\ go' = [go EXCEPT ![l].at = "select"]
  /\ UNCHANGED <<running, loop, count, stop>>
\* Faulty: the channel is never closed.
ClearRunningOnly(l) ==
  /\ go[l].at = "exit"
  /\ running' = FALSE
  /\ go' = [go EXCEPT ![l].at = "none"]
  /\ UNCHANGED <<loop, count, stop>>
\* The deferred functions: the flag first, the channel last.
ClearRunning(l) ==
  /\ go[l].at = "exit"
  /\ running' = FALSE
  /\ go' = [go EXCEPT ![l].at = "close"]
  /\ UNCHANGED <<loop, count, stop>>
CloseDone(l) ==
  /\ go[l].at = "close"
  /\ go' = [go EXCEPT ![l].at = "closed"]
  /\ UNCHANGED <<running, loop, count, stop>>

\* Faulty: the answer does not wait for the goroutine.
StopWithoutWaiting(c) == [at |-> "stopped", loop |-> loop]
Awaiting(c) == [at |-> "wait", loop |-> loop]

\* Stop copies cancel and done under the lock and calls cancel after it.
StopLoop(c) ==
  /\ stop[c].at = "idle" /\ running
  /\ stop' = [stop EXCEPT ![c] = [at |-> "cancel", loop |-> loop]]
  /\ UNCHANGED <<running, loop, count, go>>
Cancel(c) ==
  /\ stop[c].at = "cancel"
  /\ go' = [go EXCEPT ![stop[c].loop].cancelled = TRUE]
  /\ stop' = [stop EXCEPT ![c] = [Awaiting(c) EXCEPT !.loop = stop[c].loop]]
  /\ UNCHANGED <<running, loop, count>>
Stopped(c) ==
  /\ stop[c].at = "wait" /\ go[stop[c].loop].at = "closed"
  /\ stop' = [stop EXCEPT ![c].at = "stopped"]
  /\ UNCHANGED <<running, loop, count, go>>
Forget(c) ==
  /\ stop[c].at = "stopped"
  /\ stop' = [stop EXCEPT ![c] = NoStop]
  /\ UNCHANGED <<running, loop, count, go>>

Goroutine(l) == SelectTimer(l) \/ SelectDone(l) \/ Tick(l) \/ OnTickReturns(l) \/ ClearRunning(l) \/ CloseDone(l)
LoopNext ==
  \/ Start
  \/ \E l \in Loops : Goroutine(l) \/ TimerFires(l)
  \/ \E c \in Commands : StopLoop(c) \/ Cancel(c) \/ Stopped(c) \/ Forget(c)
\* Goroutines run; the select does not pass over the cancelled context for ever.
LoopFairness ==
  /\ \A l \in Loops : WF_lvars(Goroutine(l)) /\ SF_lvars(SelectDone(l))
  /\ \A c \in Commands : WF_lvars(Cancel(c)) /\ WF_lvars(Stopped(c))
LoopSpec == LoopInit /\ [][LoopNext]_lvars /\ LoopFairness
-----------------------------------------------------------------------------
Alive == {l \in Loops : go[l].at \in {"select", "tick", "onTick"}}

(* Kinds of the variables.                                                  *)
LoopTypeOK ==
  /\ running \in BOOLEAN /\ loop \in 0 .. MaxStarts /\ count \in 0 .. MaxTicks + 1
  /\ \A l \in Loops : go[l].at \in {"none", "select", "tick", "onTick", "exit", "close", "closed"}
  /\ \A c \in Commands : stop[c].at \in {"idle", "cancel", "wait", "stopped"} /\ stop[c].loop \in 0 .. MaxStarts

(* However Start and Stop overlap, one loop sends prompts at a time, and    *)
(* the loop a Stop answered for sends none afterwards; its count is the     *)
(* one Status shows (loop.go:70, loop.go:112).                              *)
OneLoopTicks ==
  /\ Cardinality(Alive) <= 1
  /\ \A c \in Commands : stop[c].at = "stopped" => stop[c].loop \notin Alive
  /\ \A l \in Alive : running /\ l = loop /\ count \in {go[l].ticks, go[l].ticks - 1}

(* A Stop returns, and a loop that was cancelled ends (loop.go:116).        *)
StopReturns == \A c \in Commands : stop[c].at \in {"cancel", "wait"} ~> stop[c].at = "stopped"
=============================================================================
