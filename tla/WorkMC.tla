------------------------------- MODULE WorkMC -------------------------------
(* The extensions that set other work going and wait for it: /loop, agents  *)
(* in other windows, coordinated agents, bulk commands and MCP servers.     *)
(* They share no state: in a behaviour one of them runs.                    *)
EXTENDS LoopScheduler, Subagent, Coordinator, Bulk, McpManager, TLC

VARIABLE focus

workvars == <<focus, lvars, svars, dvars, bvars, mcpvars>>

WorkInit ==
  /\ focus \in {"loop", "subagent", "coordinator", "bulk", "mcp"}
  /\ LoopInit /\ SubagentInit /\ CoordinatorInit /\ BulkInit /\ McpInit
  \* Where one may start in several states, the others start in one.
  /\ focus # "subagent" => opts = [abs |-> 3, inact |-> 0]
  /\ focus # "coordinator" => requested = 0

WorkNext ==
  /\ UNCHANGED focus
  /\ \/ focus = "loop" /\ LoopNext /\ UNCHANGED <<svars, dvars, bvars, mcpvars>>
     \/ focus = "subagent" /\ SubagentNext /\ UNCHANGED <<lvars, dvars, bvars, mcpvars>>
     \/ focus = "coordinator" /\ CoordinatorNext /\ UNCHANGED <<lvars, svars, bvars, mcpvars>>
     \/ focus = "bulk" /\ BulkNext /\ UNCHANGED <<lvars, svars, dvars, mcpvars>>
     \/ focus = "mcp" /\ McpNext /\ UNCHANGED <<lvars, svars, dvars, bvars>>

\* The fairness of each module, for the one that runs.
WorkFairness ==
  /\ LoopFairness
  /\ WF_svars(focus = "subagent" /\ Poll)
  /\ WF_dvars(focus = "coordinator" /\ (Spawn \/ Merge))
  /\ WF_bvars(focus = "bulk" /\ BulkStep)
  /\ WF_mcpvars(focus = "mcp" /\ McpStep)

WorkSpec == WorkInit /\ [][WorkNext]_workvars /\ WorkFairness

-----------------------------------------------------------------------------
(* Replies of the planning model: none, garbage, or tasks of legal and of  *)
(* illegal numbers of turns.                                               *)
MCReplies ==
  {[kind |-> k, tasks |-> <<>>] : k \in {"error", "garbage"}}
  \cup {[kind |-> "tasks", tasks |-> [i \in 1 .. n |-> [tools |-> "", model |-> "m", turns |-> t]]] :
          n \in 0 .. 6, t \in {0, 5, 21}}

(* Directories two deep, one of them unreadable, with repositories within   *)
(* repositories, and calls of the tool and the command line.                *)
MCBulkWorld ==
  LET repo(dirty, upstream, ahead, behind) == [dirty |-> dirty, upstream |-> upstream, ahead |-> ahead, behind |-> behind] IN
  [dirs |-> {<<>>, <<1>>, <<2>>, <<3>>, <<2, 1>>, <<2, 3>>, <<3, 2>>, <<1, 2>>},
   unreadable |-> {<<3>>},
   files |-> {<<1, 7>>, <<2, 1, 7>>, <<7>>},
   repos |-> (<<1>> :> repo(TRUE, FALSE, FALSE, FALSE)) @@ (<<2, 1>> :> repo(FALSE, TRUE, TRUE, FALSE))
             @@ (<<2, 3>> :> repo(TRUE, TRUE, TRUE, FALSE)) @@ (<<1, 2>> :> repo(TRUE, TRUE, FALSE, TRUE))]
MCToolArgs ==
  {[source |-> s, depth |-> d, pattern |-> 7, paths |-> <<<<2, 1>>, <<1>>, <<2, 1>>>>, filter |-> f,
    command |-> c, dryRun |-> dry, concurrency |-> 0] :
     s \in {"git_repos", "dirs", "files", "list"}, d \in {0, 2}, f \in {"", "dirty", "diverged", "test"},
     c \in {"plain", "mutating"}, dry \in {"unset", "false"}}
MCCommandArgs ==
  {[flags |-> fl, depth |-> 2, pattern |-> 0, paths |-> <<<<2>>>>, filter |-> f, command |-> c, dryRun |-> dry,
    concurrency |-> 3] :
     fl \in {{}, {"files", "dirs"}, {"git_repos"}}, f \in {"", "all", "clean", "ahead", "behind"},
     c \in {"", "mutating"}, dry \in BOOLEAN}

-----------------------------------------------------------------------------
\* The variables of every module keep their kinds.
WorkTypeOK == LoopTypeOK /\ SubagentTypeOK /\ CoordinatorTypeOK /\ BulkTypeOK /\ McpTypeOK

\* Of everything that is started side by side one thing is told of each: of agents
\* (coordinator/dispatch.go:43), of commands (bulk/execute.go:13) on directories none of which lies
\* within another (bulk/scanner.go:47), and of MCP servers (mcp/manager.go:43).
EachIsToldOnce == EveryAgentIsHeard /\ BulkTellsWhatRan /\ ScansFindTheOutermost /\ ServersAreToldApart

\* What waits for others ends when they do: /loop-stop returns (loop/loop.go:116), a dispatch answers
\* by its deadline (subagent/dispatch.go:113), and a coordinated task, a bulk call and the start of the
\* MCP servers end unless an agent, a command or a Close never returns, as none of these is sure to
\* (coordinator/dispatch.go:35, bulk/exec_helper.go:34, mcp/client.go:59).
WorkEnds ==
  /\ StopReturns
  /\ CoordinateAnswers /\ BulkReturns /\ StartingEnds
  /\ focus = "subagent" /\ answer = "none" /\ opts.abs < MaxPolls ~> answer # "none"
=============================================================================
