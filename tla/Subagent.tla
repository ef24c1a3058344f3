------------------------------ MODULE Subagent ------------------------------
(* The dispatch tool of subagent/: an agent runs in a tmux pane and writes  *)
(* a result file; the tool polls for the file, for its deadlines and for    *)
(* the pane's activity.  Time is a clock of polls.                          *)
EXTENDS Naturals

CONSTANTS AbsTimeouts,   \* absolute_timeout_ms in polls; 0 for values <= 0
          InactTimeouts, \* inactivity_timeout_ms in polls; 0 is disabled
          MaxPolls        \* bound: the clock

ASSUME SubagentAssumption ==
  AbsTimeouts \subseteq Nat /\ InactTimeouts \subseteq Nat /\ MaxPolls \in Nat

VARIABLES polls,   \* polls since the start
          opts,    \* the timeouts of this call
          pane,    \* the agent: "running", "finished" or "killed"
          output,  \* when the pane last showed output; 0 for not yet
          resultFile,    \* result.md
          lastActivity,    \* lastActivity; 0 for the zero time
          answer   \* what the tool returned

svars == <<polls, opts, pane, output, resultFile, lastActivity, answer>>

SubagentInit ==
  /\ polls = 0
  /\ opts \in [abs : AbsTimeouts, inact : InactTimeouts]
  /\ pane = "running" /\ output = 0 /\ resultFile = "none"
  /\ lastActivity = 0 /\ answer = "none"

(***************************************************************************)
(* The agent.                                                              *)
(***************************************************************************)
Output == /\ pane = "running" /\ polls > 0 /\ output < polls
          /\ output' = polls
          /\ UNCHANGED <<polls, opts, pane, resultFile, lastActivity, answer>>
WriteResult == /\ pane = "running" /\ resultFile = "none"
               /\ resultFile' \in {"text", "empty"}
               /\ pane' = "finished"
               /\ UNCHANGED <<polls, opts, output, lastActivity, answer>>

(***************************************************************************)
(* pollResult.                                                             *)
(***************************************************************************)
PaneStalled == lastActivity # 0 /\ polls > lastActivity + opts.inact
Inactive == opts.inact > 0 /\ PaneStalled

\* Best effort: tmux may refuse, or not be there, and nobody is told.
KillPane == pane' \in {pane} \cup (IF pane = "running" THEN {"killed"} ELSE {})

Returned(a) == answer' = a
\* Faulty: the deadline is looked at before the file.
PollDeadlineFirst ==
  /\ answer = "none" /\ polls < MaxPolls
  /\ polls' = polls + 1
  /\ IF polls >= opts.abs THEN Returned("timeout") /\ KillPane /\ UNCHANGED lastActivity
     ELSE IF resultFile # "none" THEN Returned("result") /\ UNCHANGED <<pane, lastActivity>>
     ELSE IF Inactive THEN Returned("inactive") /\ KillPane /\ UNCHANGED lastActivity
     ELSE UNCHANGED <<answer, pane>> /\ lastActivity' \in {lastActivity, output}
  /\ UNCHANGED <<opts, output, resultFile>>
\* The activity query may fail; it is not made when inactivity is disabled.
Poll ==
  /\ answer = "none" /\ polls < MaxPolls
  /\ polls' = polls + 1
  /\ IF resultFile # "none" THEN Returned("result") /\ UNCHANGED <<pane, lastActivity>>
     ELSE IF polls >= opts.abs THEN Returned("timeout") /\ KillPane /\ UNCHANGED lastActivity
     ELSE IF Inactive THEN Returned("inactive") /\ KillPane /\ UNCHANGED lastActivity
     ELSE /\ UNCHANGED <<answer, pane>>
          /\ lastActivity' \in {lastActivity} \cup (IF opts.inact > 0 /\ output > lastActivity THEN {output} ELSE {})
  /\ UNCHANGED <<opts, output, resultFile>>

\* The caller's context ends: the pane is left alone.
CtxDone == /\ answer = "none" /\ polls > 0
           /\ Returned("cancelled")
           /\ UNCHANGED <<polls, opts, pane, output, resultFile, lastActivity>>

SubagentNext == Output \/ WriteResult \/ Poll \/ CtxDone
SubagentSpec == SubagentInit /\ [][SubagentNext]_svars /\ WF_svars(Poll)
-----------------------------------------------------------------------------
(* Kinds of the variables.                                                  *)
SubagentTypeOK ==
  /\ polls \in 0 .. MaxPolls /\ output \in 0 .. polls /\ lastActivity \in 0 .. output
  /\ pane \in {"running", "finished", "killed"} /\ resultFile \in {"none", "text", "empty"}
  /\ answer \in {"none", "result", "timeout", "inactive", "cancelled"}

(* A result that was there before a poll is what the poll returns, whatever *)
(* deadline passed meanwhile; the tool gives an agent up for inactivity     *)
(* only if it was heard once and not again within the limit; and an agent   *)
(* is killed only by the poll that gives it up, without a result and with   *)
(* its time over or its limit exceeded.  That it is killed at all then is   *)
(* not promised (dispatch.go:104-168).                                      *)
ResultsWin ==
  [][/\ answer # answer' /\ answer' # "cancelled" => ((resultFile # "none") <=> (answer' = "result"))
     /\ answer # "inactive" /\ answer' = "inactive" => lastActivity # 0 /\ polls - lastActivity > opts.inact
     /\ pane # "killed" /\ pane' = "killed" =>
            /\ resultFile' = "none" /\ answer = "none" /\ answer' \in {"timeout", "inactive"}
            /\ answer' = "timeout" => polls >= opts.abs]_svars
=============================================================================
