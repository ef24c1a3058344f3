----------------------------- MODULE LspManager -----------------------------
(***************************************************************************)
(* The server manager of the lsp extension (lsp/manager.go, lsp/client.go, *)
(* prepareClient in lsp/register.go): concurrent tool calls share one      *)
(* language server per language, started by whichever call comes first.    *)
(*                                                                         *)
(* Manager.mu is held between any two steps that are one action here; it   *)
(* is released around startServer, inside Cond.Wait and around the read of *)
(* a file and its didOpen.  A server is named by the call that spawned it  *)
(* and the candidate of defaultServers it runs.                            *)
(***************************************************************************)
EXTENDS Naturals

CONSTANTS
    Requests,   \* the tool calls
    Files,      \* source files
    Langs,      \* language ids
    FileOf,     \* the file each call asks about
    LangOf,     \* LanguageForFile
    Candidates  \* how many entries defaultServers has for a language

ASSUME ManagerAssumption ==
    /\ FileOf \in [Requests -> Files]
    /\ LangOf \in [Files -> Langs]
    /\ Candidates \in Nat \ {0}

NoServer == <<"none", 0>>
Servers == Requests \X (1..Candidates)
Spawner(s) == s[1]
Lang(r) == LangOf[FileOf[r]]

VARIABLES
    pc,         \* where each call is in prepareClient and the query after it
    attempt,    \* the candidate startServer is trying
    got,        \* the client a call holds
    ctxDone,    \* the calls whose context has ended
    clients,    \* Manager.clients
    starting,   \* Manager.starting
    woken,      \* the waiters a Broadcast has released
    openFiles,  \* Manager.openFiles
    opens,      \* opens[f]: how many didOpen notifications went out for f
    proc,       \* proc[s]: "none", "running", "exited", "killed" or "stopped"
    closed      \* Manager.Shutdown has run

vars == <<pc, attempt, got, ctxDone, clients, starting, woken, openFiles, opens, proc, closed>>

Init ==
    /\ pc = [r \in Requests |-> "start"]
    /\ attempt = [r \in Requests |-> 1]
    /\ got = [r \in Requests |-> NoServer]
    /\ ctxDone = {}
    /\ clients = [l \in Langs |-> NoServer]
    /\ starting = {}
    /\ woken = {}
    /\ openFiles = {}
    /\ opens = [f \in Files |-> 0]
    /\ proc = [s \in Servers |-> "none"]
    /\ closed = FALSE

Goto(r, from, to) == pc[r] = from /\ pc' = [pc EXCEPT ![r] = to]

-----------------------------------------------------------------------------
(* ForFile                                                                 *)

\* The server is there: on arrival, or when a waiter wakes.
UseClient(r) ==
    /\ \/ Goto(r, "start", "open")
       \/ Goto(r, "cond", "open") /\ r \in woken /\ Lang(r) \notin starting
    /\ clients[Lang(r)] # NoServer
    /\ got' = [got EXCEPT ![r] = clients[Lang(r)]]
    /\ woken' = woken \ {r}
    /\ UNCHANGED <<attempt, ctxDone, clients, starting, openFiles, opens, proc, closed>>

\* Cond.Wait; a waiter that wakes while the language is being started again waits again.
WaitForStart(r) ==
    /\ \/ Goto(r, "start", "cond") /\ clients[Lang(r)] = NoServer
       \/ Goto(r, "cond", "cond") /\ r \in woken
    /\ Lang(r) \in starting
    /\ woken' = woken \ {r}
    /\ UNCHANGED <<attempt, got, ctxDone, clients, starting, openFiles, opens, proc, closed>>

WaitedInVain(r) ==
    /\ Goto(r, "cond", "failed")
    /\ r \in woken
    /\ Lang(r) \notin starting
    /\ clients[Lang(r)] = NoServer
    /\ woken' = woken \ {r}
    /\ UNCHANGED <<attempt, got, ctxDone, clients, starting, openFiles, opens, proc, closed>>

\* Faulty: a second call starts the language too.
BeginStartAnyway(r) ==
    /\ Goto(r, "start", "launch")
    /\ clients[Lang(r)] = NoServer
    /\ starting' = starting \cup {Lang(r)}
    /\ UNCHANGED <<attempt, got, ctxDone, clients, woken, openFiles, opens, proc, closed>>

BeginStart(r) ==
    /\ Goto(r, "start", "launch")
    /\ clients[Lang(r)] = NoServer
    /\ Lang(r) \notin starting
    /\ starting' = starting \cup {Lang(r)}
    /\ UNCHANGED <<attempt, got, ctxDone, clients, woken, openFiles, opens, proc, closed>>

\* Faulty: nobody is told when the start fails.
StopStartingQuietly(r) ==
    /\ starting' = starting \ {Lang(r)}
    /\ woken' = IF got[r] = NoServer THEN woken ELSE woken \cup {w \in Requests : pc[w] = "cond"}

\* delete(m.starting, lang) and Broadcast, which releases every waiter of any language.
StopStarting(r) ==
    /\ starting' = starting \ {Lang(r)}
    /\ woken' = woken \cup {w \in Requests : pc[w] = "cond"}

Install(r) ==
    /\ Goto(r, "install", "open")
    /\ clients' = [clients EXCEPT ![Lang(r)] = got[r]]
    /\ StopStarting(r)
    /\ UNCHANGED <<attempt, got, ctxDone, openFiles, opens, proc, closed>>

\* Every candidate was tried.
StartFails(r) ==
    /\ attempt[r] > Candidates
    /\ Goto(r, "launch", "failed")
    /\ StopStarting(r)
    /\ UNCHANGED <<attempt, got, ctxDone, clients, openFiles, opens, proc, closed>>

-----------------------------------------------------------------------------
(* startServer, run without the lock by the call that starts the language  *)

Current(r) == <<r, attempt[r]>>

TryNext(r) ==
    /\ attempt' = [attempt EXCEPT ![r] = @ + 1]
    /\ UNCHANGED <<got, ctxDone, clients, starting, woken, openFiles, opens, proc, closed>>

\* Faulty: the loop runs past the last candidate.
NotFoundUnbounded(r) ==
    /\ attempt[r] <= Candidates + 1
    /\ Goto(r, "launch", "launch")
    /\ TryNext(r)

\* LookPath or NewClient fails.
NotFound(r) ==
    /\ attempt[r] <= Candidates
    /\ Goto(r, "launch", "launch")
    /\ TryNext(r)

\* exec.CommandContext: the process is tied to the context of this call.
Spawn(r) ==
    /\ r \notin ctxDone
    /\ attempt[r] <= Candidates
    /\ Goto(r, "launch", "handshake")
    /\ proc' = [proc EXCEPT ![Current(r)] = "running"]
    /\ UNCHANGED <<attempt, got, ctxDone, clients, starting, woken, openFiles, opens, closed>>

Initialized(r) ==
    /\ Goto(r, "handshake", "install")
    /\ proc[Current(r)] = "running"
    /\ got' = [got EXCEPT ![r] = Current(r)]
    /\ UNCHANGED <<attempt, ctxDone, clients, starting, woken, openFiles, opens, proc, closed>>

\* An error answer, a dead server or an ended context.  Client.Shutdown returns at once
\* because initDone is not set, so the process is left as it is.
InitializeFails(r) ==
    /\ Goto(r, "handshake", "launch")
    /\ TryNext(r)

-----------------------------------------------------------------------------
(* EnsureFileOpen and the query                                            *)

MarkOpen(r) ==
    /\ IF FileOf[r] \in openFiles THEN Goto(r, "open", "query") ELSE Goto(r, "open", "read")
    /\ openFiles' = openFiles \cup {FileOf[r]}
    /\ UNCHANGED <<attempt, got, ctxDone, clients, starting, woken, opens, proc, closed>>

ReadFile(r) ==
    /\ Goto(r, "read", "didOpen") \/ Goto(r, "read", "failed")
    /\ UNCHANGED <<attempt, got, ctxDone, clients, starting, woken, openFiles, opens, proc, closed>>

DidOpen(r) ==
    /\ Goto(r, "didOpen", "query")
    /\ proc[got[r]] = "running"
    /\ opens' = [opens EXCEPT ![FileOf[r]] = @ + 1]
    /\ UNCHANGED <<attempt, got, ctxDone, clients, starting, woken, openFiles, proc, closed>>

\* The notification is written to a process that is gone.
DidOpenFails(r) ==
    /\ Goto(r, "didOpen", "failed")
    /\ proc[got[r]] # "running"
    /\ UNCHANGED <<attempt, got, ctxDone, clients, starting, woken, openFiles, opens, proc, closed>>

\* The request itself: answered by a running server, or failed by its death or the context.
Query(r) ==
    /\ \/ Goto(r, "query", "done") /\ proc[got[r]] = "running"
       \/ Goto(r, "query", "failed") /\ (proc[got[r]] # "running" \/ r \in ctxDone)
    /\ UNCHANGED <<attempt, got, ctxDone, clients, starting, woken, openFiles, opens, proc, closed>>

-----------------------------------------------------------------------------
(* The environment: contexts end, processes die.                           *)

Over(r) == pc[r] \in {"done", "failed"}

Cancel(r) ==
    /\ ~Over(r)
    /\ r \notin ctxDone
    /\ ctxDone' = ctxDone \cup {r}
    /\ UNCHANGED <<pc, attempt, got, clients, starting, woken, openFiles, opens, proc, closed>>

\* os/exec kills the process when the context it was started with ends.
KillWithContext(s) ==
    /\ proc[s] = "running"
    /\ Spawner(s) \in ctxDone
    /\ proc' = [proc EXCEPT ![s] = "killed"]
    /\ UNCHANGED <<pc, attempt, got, ctxDone, clients, starting, woken, openFiles, opens, closed>>

ServerExits(s) ==
    /\ proc[s] = "running"
    /\ proc' = [proc EXCEPT ![s] = "exited"]
    /\ UNCHANGED <<pc, attempt, got, ctxDone, clients, starting, woken, openFiles, opens, closed>>

\* Manager.Shutdown, which lspq defers to the end of its run: every installed client gets
\* shutdown and exit and is waited for.  openFiles is left as it is.
Shutdown ==
    /\ ~closed
    /\ \A r \in Requests : Over(r)
    /\ closed' = TRUE
    /\ proc' = [s \in Servers |->
         IF proc[s] = "running" /\ \E l \in Langs : clients[l] = s THEN "stopped" ELSE proc[s]]
    /\ clients' = [l \in Langs |-> NoServer]
    /\ UNCHANGED <<pc, attempt, got, ctxDone, starting, woken, openFiles, opens>>

RequestStep(r) ==
    \/ UseClient(r) \/ WaitForStart(r) \/ WaitedInVain(r) \/ BeginStart(r) \/ Install(r)
    \/ StartFails(r) \/ NotFound(r) \/ Spawn(r) \/ Initialized(r) \/ InitializeFails(r)
    \/ MarkOpen(r) \/ ReadFile(r) \/ DidOpen(r) \/ DidOpenFails(r) \/ Query(r)

Next ==
    \/ \E r \in Requests : RequestStep(r) \/ Cancel(r)
    \/ \E s \in Servers : KillWithContext(s) \/ ServerExits(s)
    \/ Shutdown

Spec == Init /\ [][Next]_vars

\* Each call that can go on does: a handshake is answered, refused or cut off by its
\* context, and a mutex is not held for ever.
FairSpec == Spec /\ \A r \in Requests : WF_vars(RequestStep(r))

-----------------------------------------------------------------------------
TypeOK ==
    /\ pc \in [Requests -> {"start", "cond", "launch", "handshake", "install", "open", "read",
                            "didOpen", "query", "done", "failed"}]
    /\ attempt \in [Requests -> 1..(Candidates + 1)]
    /\ got \in [Requests -> Servers \cup {NoServer}]
    /\ ctxDone \subseteq Requests
    /\ clients \in [Langs -> Servers \cup {NoServer}]
    /\ starting \subseteq Langs
    /\ woken \subseteq Requests
    /\ openFiles \subseteq Files
    /\ opens \in [Files -> Nat]
    /\ proc \in [Servers -> {"none", "running", "exited", "killed", "stopped"}]
    /\ closed \in BOOLEAN

Starting(r) == pc[r] \in {"launch", "handshake", "install"}

\* One server per language: a language is in starting exactly while one call starts it,
\* never while a client is installed for it, so no client is overwritten and leaked.
SingleFlight ==
    /\ \A l \in starting : \E r \in Requests : Starting(r) /\ Lang(r) = l
    /\ \A r, q \in Requests : Starting(r) /\ Starting(q) /\ Lang(r) = Lang(q) => r = q
    /\ \A r \in Requests : Starting(r) => Lang(r) \in starting /\ clients[Lang(r)] = NoServer

\* A call asleep in Cond.Wait has a start in progress that will wake it, whether that
\* start succeeds or fails.
NoLostWakeup == \A r \in Requests : pc[r] = "cond" => r \in woken \/ Lang(r) \in starting

\* A call never holds a server of a language other than its file's, nor one another call
\* is still shaking hands with.
RightServer == \A r \in Requests : got[r] # NoServer =>
    /\ Lang(Spawner(got[r])) = Lang(r)
    /\ pc[Spawner(got[r])] # "handshake" \/ attempt[Spawner(got[r])] # got[r][2]

\* However many calls ask about a file at once, at most one didOpen goes out for it: a
\* second one is a protocol error for a language server.
DidOpenOnce == \A f \in Files : opens[f] <= 1

\* Calls share servers: one start per language at a time that wakes all who wait for it,
\* nobody is handed a wrong or unready server, and each file is opened once
\* (lsp/manager.go:79, manager.go:153).
ServersAreShared == SingleFlight /\ NoLostWakeup /\ RightServer /\ DidOpenOnce

\* Every call comes to an end: nobody sleeps for ever on a start that is over.
CallsEnd == \A r \in Requests : <>Over(r)

\* docs/extensions/lsp.md: servers are kept alive for the session.  No tool call takes an
\* installed server down with it.
ServerOutlivesCall == \A l \in Langs : clients[l] # NoServer => proc[clients[l]] # "killed"
=============================================================================
