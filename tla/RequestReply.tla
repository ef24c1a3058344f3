---------------------------- MODULE RequestReply ----------------------------
(***************************************************************************)
(* What a client of a request/reply connection may rely on: each request   *)
(* ends at most once, and it ends with a reply only after the peer has     *)
(* replied to that request.  lsp/transport.go implements it.               *)
(***************************************************************************)
CONSTANT Clients

VARIABLES
    phase,  \* phase[c]: "idle", "asked", "replied" or "failed"
    ready   \* the clients whose request the peer has replied to

Init ==
    /\ phase = [c \in Clients |-> "idle"]
    /\ ready = {}

Ask(c) ==
    /\ phase[c] = "idle"
    /\ phase' = [phase EXCEPT ![c] = "asked"]
    /\ UNCHANGED ready

\* The peer may reply to a request its client has already given up.
Reply(c) ==
    /\ phase[c] \in {"asked", "failed"}
    /\ c \notin ready
    /\ ready' = ready \cup {c}
    /\ UNCHANGED phase

Take(c) ==
    /\ phase[c] = "asked"
    /\ c \in ready
    /\ phase' = [phase EXCEPT ![c] = "replied"]
    /\ UNCHANGED ready

GiveUp(c) ==
    /\ phase[c] = "asked"
    /\ phase' = [phase EXCEPT ![c] = "failed"]
    /\ UNCHANGED ready

Next == \E c \in Clients : Ask(c) \/ Reply(c) \/ Take(c) \/ GiveUp(c)

Spec == Init /\ [][Next]_<<phase, ready>>
=============================================================================
