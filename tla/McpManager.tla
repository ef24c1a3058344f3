------------------------------ MODULE McpManager ------------------------------
(***************************************************************************)
(* The MCP servers of a session (mcp/manager.go, client.go, tools.go and   *)
(* mcp/cmd/main.go): connected side by side when the extension starts,     *)
(* asked for their tools one after another with the manager's mutex held,  *)
(* and listed by /mcp, which may run while all that goes on.               *)
(*                                                                         *)
(* Initializing ends within its timeout; the Close of a client that failed *)
(* to initialize has none, and neither has asking a server for its tools:  *)
(* the context is context.Background().                                    *)
(***************************************************************************)
EXTENDS Naturals, Sequences, FiniteSets

CONSTANTS
    Servers,    \* the names in mcp.yaml
    Tools       \* what a server may offer

ASSUME McpAssumption == IsFiniteSet(Servers)

VARIABLES
    dialing,        \* dialing[n]: "no", "yes", "closing" or "done", the goroutine of a server
    answers,        \* the channel of StartAll, as it is read
    heard,          \* how many results StartAll has taken
    clients,        \* Manager.clients
    failures,       \* Manager.failures
    mcpInit,        \* OnInit: "new", "starting", "discovering", "registered"
    toAsk,          \* the clients DiscoverTools has not asked yet
    registered,     \* the tools found, given to the host once all have been asked
    mcpLock,        \* who holds Manager.mu for longer than a step: "none", "init"
    statusPc,       \* /mcp: "idle", "listing"
    statusRows,     \* what /mcp shows: [server, asked]
    shownAfter      \* history: /mcp shows what it copied when all had been heard

startvars == <<dialing, answers, heard, clients, failures>>
statusvars == <<statusPc, statusRows, shownAfter>>
discovery == <<toAsk, registered, mcpLock>>
mcpvars == <<startvars, mcpInit, discovery, statusvars>>

McpInit ==
    /\ dialing = [n \in Servers |-> "no"]
    /\ answers = <<>> /\ heard = 0
    /\ clients = {} /\ failures = {}
    /\ mcpInit = "new"
    /\ toAsk = {} /\ registered = {} /\ mcpLock = "none"
    /\ statusPc = "idle" /\ statusRows = {} /\ shownAfter = FALSE

-----------------------------------------------------------------------------

(* StartAll: a goroutine for each server, and a channel with room for all. *)
StartAll ==
    /\ mcpInit = "new"
    /\ mcpInit' = "starting"
    /\ dialing' = [n \in Servers |-> "yes"]
    /\ UNCHANGED <<answers, heard, clients, failures, discovery, statusvars>>

Sent(n, ok) ==
    /\ dialing' = [dialing EXCEPT ![n] = "done"]
    /\ answers' = Append(answers, [server |-> n, ok |-> ok])

(* Connect: not created; or created and initialized; or refused or timed   *)
(* out, when the client is closed first.                                   *)
Connect(n) ==
    /\ dialing[n] = "yes"
    /\ \/ \E ok \in BOOLEAN : Sent(n, ok)
       \/ dialing' = [dialing EXCEPT ![n] = "closing"] /\ UNCHANGED answers
    /\ UNCHANGED <<heard, clients, failures, mcpInit, discovery, statusvars>>

CloseReturns(n) ==
    /\ dialing[n] = "closing"
    /\ Sent(n, FALSE)
    /\ UNCHANGED <<heard, clients, failures, mcpInit, discovery, statusvars>>

Expected == Cardinality(Servers)

(* One result for every server; the mutex is taken for the map alone.      *)
Collect ==
    /\ mcpInit = "starting"
    /\ heard < Expected
    /\ answers # <<>>
    /\ heard' = heard + 1
    /\ answers' = Tail(answers)
    /\ clients' = IF Head(answers).ok THEN clients \cup {Head(answers).server} ELSE clients
    /\ failures' = IF Head(answers).ok THEN failures ELSE failures \cup {Head(answers).server}
    /\ UNCHANGED <<dialing, mcpInit, discovery, statusvars>>

BeginDiscovery ==
    /\ mcpInit = "starting"
    /\ heard = Expected
    /\ mcpInit' = "discovering"
    /\ mcpLock' = "init"
    /\ toAsk' = clients
    /\ UNCHANGED <<startvars, registered, statusvars>>

(* A server answers with its tools or an error, which leaves it out.       *)
AskForTools(n) ==
    /\ mcpInit = "discovering"
    /\ n \in toAsk
    /\ toAsk' = toAsk \ {n}
    /\ \E tools \in SUBSET Tools : registered' = registered \cup {[server |-> n, tool |-> t] : t \in tools}
    /\ UNCHANGED <<startvars, mcpInit, mcpLock, statusvars>>

EndDiscovery ==
    /\ mcpInit = "discovering"
    /\ toAsk = {}
    /\ mcpInit' = "registered"
    /\ mcpLock' = "none"
    /\ UNCHANGED <<startvars, toAsk, registered, statusvars>>

Snapshot == {[server |-> n, asked |-> TRUE] : n \in clients} \cup {[server |-> n, asked |-> FALSE] : n \in failures}

(* /mcp copies both maps with the mutex held and asks the servers without  *)
(* it.                                                                     *)
BeginStatus ==
    /\ statusPc = "idle" /\ mcpInit # "new"
    /\ mcpLock = "none"
    /\ statusPc' = "listing"
    /\ statusRows' = Snapshot
    /\ shownAfter' = (heard = Cardinality(Servers))
    /\ UNCHANGED <<startvars, mcpInit, discovery>>

(* It shows what it copied, with an error for a server that gives none of  *)
(* its tools now; asking may also never end.                               *)
EndStatus ==
    /\ statusPc = "listing"
    /\ statusPc' = "idle"
    /\ statusRows' = {}
    /\ shownAfter' = FALSE
    /\ UNCHANGED <<startvars, mcpInit, discovery>>

McpNext ==
    \/ StartAll \/ Collect \/ BeginDiscovery \/ EndDiscovery
    \/ \E n \in Servers : Connect(n) \/ CloseReturns(n) \/ AskForTools(n)
    \/ BeginStatus \/ EndStatus

(* Initializing ends by its timeout; closing a client and asking for the   *)
(* tools need not end.                                                     *)
McpStep == StartAll \/ Collect \/ BeginDiscovery \/ \E n \in Servers : Connect(n)

McpSpec == McpInit /\ [][McpNext]_mcpvars /\ WF_mcpvars(McpStep)

-----------------------------------------------------------------------------

McpTypeOK ==
    /\ dialing \in [Servers -> {"no", "yes", "closing", "done"}]
    /\ heard \in 0 .. Cardinality(Servers)
    /\ mcpInit \in {"new", "starting", "discovering", "registered"}
    /\ mcpLock \in {"none", "init"} /\ statusPc \in {"idle", "listing"}

(* mcp/manager.go:43-56, 131-162: a server is connected or failed and never *)
(* both; once the tools are asked for every server is one of the two, the  *)
(* tools registered are those of connected ones, and from then on /mcp     *)
(* shows every server once.                                                *)
ServersAreToldApart ==
    /\ clients \cap failures = {}
    /\ \A t \in registered : t.server \in clients
    /\ mcpInit \in {"discovering", "registered"} => clients \cup failures = Servers
    /\ \A r, s \in statusRows : r.server = s.server => r = s
    /\ statusPc = "listing" => \A r \in statusRows : r.server \in IF r.asked THEN clients ELSE failures
    /\ shownAfter => {r.server : r \in statusRows} = Servers

(* mcp/manager.go:35-56, client.go:43-61: whatever servers refuse or hang  *)
(* while they initialize, the tools of the others are asked for in the     *)
(* end, unless the Close of one that failed never returns.                 *)
StartingEnds ==
    \/ mcpInit = "starting" ~> mcpInit = "discovering"
    \/ <>[](\E n \in Servers : dialing[n] = "closing")
=============================================================================
