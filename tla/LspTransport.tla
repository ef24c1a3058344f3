---------------------------- MODULE LspTransport ----------------------------
(***************************************************************************)
(* The JSON-RPC transport of the lsp extension (lsp/transport.go): many    *)
(* goroutines run callRaw on one transport, one goroutine runs readLoop,   *)
(* and a language server process sits at the other end of two pipes.       *)
(*                                                                         *)
(* A call is one execution of callRaw, so each member of Calls runs once.  *)
(* A frame is reduced to its kind and its id.  A frame whose id is absent, *)
(* not an integer, or whose body does not parse is "other": readLoop       *)
(* treats the three alike.                                                 *)
(***************************************************************************)
EXTENDS Naturals, Sequences, FiniteSets

CONSTANTS
    Calls,      \* the executions of callRaw
    PipeCap,    \* what a pipe holds before a write blocks, in header/body units or frames
    ServerIds   \* the integer ids the server uses for requests of its own; {} when they are strings

ASSUME TransportAssumption ==
    /\ PipeCap \in Nat \ {0, 1}
    /\ ServerIds \subseteq Nat

NoCall == "none"
ASSUME NoCallAssumption == NoCall \notin Calls

Frame   == [kind : {"answer", "request", "other"}, id : Nat]
NoFrame == [kind |-> "none", id |-> 0]
Half    == [part : {"header", "body"}, id : Nat]   \* send() writes a frame in two halves

VARIABLES
    nextID,    \* transport.nextID
    pending,   \* transport.pending: request id -> the call that owns the channel
    chan,      \* chan[c]: the one-place buffer of c's channel
    writer,    \* the call that holds transport.writeMu
    done,      \* transport.done is closed
    pc,        \* where each call is in callRaw
    reqID,     \* the local id of each call
    ctxDone,   \* the calls whose context has ended
    outcome,   \* what each call returned
    held,      \* the frame readLoop looked up and has not sent to its channel yet
    target,    \* the call whose channel that lookup found
    stdin,     \* pipe to the server
    stdout,    \* pipe from the server
    up,        \* the server process runs
    owed,      \* requests the server has read and not answered
    answered   \* requests the server has answered

clientVars == <<nextID, pending, chan, writer, done, pc, reqID, ctxDone, outcome, held, target>>
serverVars == <<up, owed, answered>>
vars == <<clientVars, stdin, stdout, serverVars>>

Steps == {"new", "numbered", "registered", "header", "body", "unlock", "waiting",
          "leaving", "returned"}

Outcomes == [how : {"none", "data", "died", "cancelled", "sendError"}, frame : Frame \cup {NoFrame}]
Returned(how) == [how |-> how, frame |-> NoFrame]

Init ==
    /\ nextID = 0
    /\ pending = [n \in {} |-> NoCall]
    /\ chan = [c \in Calls |-> NoFrame]
    /\ writer = NoCall
    /\ done = FALSE
    /\ pc = [c \in Calls |-> "new"]
    /\ reqID = [c \in Calls |-> 0]
    /\ ctxDone = {}
    /\ outcome = [c \in Calls |-> Returned("none")]
    /\ held = NoFrame
    /\ target = NoCall
    /\ stdin = <<>>
    /\ stdout = <<>>
    /\ up = TRUE
    /\ owed = {}
    /\ answered = {}

-----------------------------------------------------------------------------
(* callRaw: number the request, register its channel, send it, wait.       *)

Goto(c, from, to) == pc[c] = from /\ pc' = [pc EXCEPT ![c] = to]

TakeID(c) ==
    /\ Goto(c, "new", "numbered")
    /\ nextID' = nextID + 1
    /\ reqID' = [reqID EXCEPT ![c] = nextID + 1]
    /\ UNCHANGED <<pending, chan, writer, done, ctxDone, outcome, held, target, stdin, stdout, serverVars>>

Register(c) ==
    /\ Goto(c, "numbered", "registered")
    /\ pending' = [n \in DOMAIN pending \cup {reqID[c]} |-> IF n = reqID[c] THEN c ELSE pending[n]]
    /\ UNCHANGED <<nextID, chan, writer, done, reqID, ctxDone, outcome, held, target, stdin, stdout, serverVars>>

\* Faulty: writeMu is not taken.
LockWriteUnguarded(c) ==
    /\ Goto(c, "registered", "header")
    /\ writer' = c
    /\ UNCHANGED <<nextID, pending, chan, done, reqID, ctxDone, outcome, held, target, stdin, stdout, serverVars>>

\* send: take writeMu.  The context is not looked at here nor while a write blocks.
LockWrite(c) ==
    /\ Goto(c, "registered", "header")
    /\ writer = NoCall
    /\ writer' = c
    /\ UNCHANGED <<nextID, pending, chan, done, reqID, ctxDone, outcome, held, target, stdin, stdout, serverVars>>

\* A write of either half goes through while the process runs and the pipe has room.
WriteHalf(c, part, to) ==
    /\ Goto(c, part, to)
    /\ up
    /\ Len(stdin) < PipeCap
    /\ stdin' = Append(stdin, [part |-> part, id |-> reqID[c]])
    /\ UNCHANGED <<nextID, pending, chan, writer, done, reqID, ctxDone, outcome, held, target, stdout, serverVars>>

WriteHeader(c) == WriteHalf(c, "header", "body")
WriteBody(c)   == WriteHalf(c, "body", "unlock")

\* A write to a dead process fails; send's deferred unlock runs and callRaw returns the error.
SendFails(c) ==
    /\ pc[c] \in {"header", "body"}
    /\ ~up
    /\ pc' = [pc EXCEPT ![c] = "leaving"]
    /\ writer' = NoCall
    /\ outcome' = [outcome EXCEPT ![c] = Returned("sendError")]
    /\ UNCHANGED <<nextID, pending, chan, done, reqID, ctxDone, held, target, stdin, stdout, serverVars>>

UnlockWrite(c) ==
    /\ Goto(c, "unlock", "waiting")
    /\ writer' = NoCall
    /\ UNCHANGED <<nextID, pending, chan, done, reqID, ctxDone, outcome, held, target, stdin, stdout, serverVars>>

\* The three branches of the select.  When several are ready Go picks any of them.
Receive(c) ==
    /\ Goto(c, "waiting", "leaving")
    /\ chan[c] # NoFrame
    /\ outcome' = [outcome EXCEPT ![c] = [how |-> "data", frame |-> chan[c]]]
    /\ chan' = [chan EXCEPT ![c] = NoFrame]
    /\ UNCHANGED <<nextID, pending, writer, done, reqID, ctxDone, held, target, stdin, stdout, serverVars>>

SeeDone(c) ==
    /\ Goto(c, "waiting", "leaving")
    /\ done
    /\ outcome' = [outcome EXCEPT ![c] = Returned("died")]
    /\ UNCHANGED <<nextID, pending, chan, writer, done, reqID, ctxDone, held, target, stdin, stdout, serverVars>>

SeeCancel(c) ==
    /\ Goto(c, "waiting", "leaving")
    /\ c \in ctxDone
    /\ outcome' = [outcome EXCEPT ![c] = Returned("cancelled")]
    /\ UNCHANGED <<nextID, pending, chan, writer, done, reqID, ctxDone, held, target, stdin, stdout, serverVars>>

\* Faulty: the entry stays in pending.
LeaveWithoutDelete(c) ==
    /\ Goto(c, "leaving", "returned")
    /\ UNCHANGED <<nextID, pending, chan, writer, done, reqID, ctxDone, outcome, held, target, stdin, stdout, serverVars>>

\* The deferred delete.
Leave(c) ==
    /\ Goto(c, "leaving", "returned")
    /\ pending' = [n \in DOMAIN pending \ {reqID[c]} |-> pending[n]]
    /\ UNCHANGED <<nextID, chan, writer, done, reqID, ctxDone, outcome, held, target, stdin, stdout, serverVars>>

\* The caller's context ends: a timeout or the user's cancel, at any moment.
Cancel(c) ==
    /\ c \notin ctxDone
    /\ ctxDone' = ctxDone \cup {c}
    /\ UNCHANGED <<nextID, pending, chan, writer, done, pc, reqID, outcome, held, target, stdin, stdout, serverVars>>

-----------------------------------------------------------------------------
(* readLoop.                                                               *)

\* Faulty: any waiting call gets the frame, whatever its id.
ReadFrameAnyCall ==
    /\ ~done
    /\ held = NoFrame
    /\ stdout # <<>>
    /\ stdout' = Tail(stdout)
    /\ IF Head(stdout).kind = "answer" /\ DOMAIN pending # {}
       THEN held' = Head(stdout) /\ \E n \in DOMAIN pending : target' = pending[n]
       ELSE UNCHANGED <<held, target>>
    /\ UNCHANGED <<nextID, pending, chan, writer, done, pc, reqID, ctxDone, outcome, stdin, serverVars>>

\* Read one frame and look its id up under mu.  The method of a frame is never looked
\* at, so a request of the server is looked up exactly as an answer is.
ReadFrame ==
    /\ ~done
    /\ held = NoFrame
    /\ stdout # <<>>
    /\ stdout' = Tail(stdout)
    /\ LET f == Head(stdout) IN
         IF f.kind # "other" /\ f.id \in DOMAIN pending
         THEN held' = f /\ target' = pending[f.id]
         ELSE UNCHANGED <<held, target>>
    /\ UNCHANGED <<nextID, pending, chan, writer, done, pc, reqID, ctxDone, outcome, stdin, serverVars>>

\* Faulty: no continue after the send of an error, so the frame is sent twice.
DeliverTwice ==
    /\ held # NoFrame
    /\ chan[target] = NoFrame
    /\ chan' = [chan EXCEPT ![target] = held]
    /\ \/ UNCHANGED <<held, target>>
       \/ held' = NoFrame /\ target' = NoCall
    /\ UNCHANGED <<nextID, pending, writer, done, pc, reqID, ctxDone, outcome, stdin, stdout, serverVars>>

\* Faulty: the channel is forgotten before the frame is.
DeliverForgets ==
    /\ held # NoFrame
    /\ chan[target] = NoFrame
    /\ chan' = [chan EXCEPT ![target] = held]
    /\ target' = NoCall
    /\ UNCHANGED <<nextID, pending, writer, done, pc, reqID, ctxDone, outcome, held, stdin, stdout, serverVars>>

\* ch <- rpcResult, with mu released: blocks while the one-place buffer is full.
Deliver ==
    /\ held # NoFrame
    /\ chan[target] = NoFrame
    /\ chan' = [chan EXCEPT ![target] = held]
    /\ held' = NoFrame
    /\ target' = NoCall
    /\ UNCHANGED <<nextID, pending, writer, done, pc, reqID, ctxDone, outcome, stdin, stdout, serverVars>>

\* A read error ends the loop; the deferred close(done) runs.
ReaderExit ==
    /\ ~done
    /\ held = NoFrame
    /\ ~up
    /\ stdout = <<>>
    /\ done' = TRUE
    /\ UNCHANGED <<nextID, pending, chan, writer, pc, reqID, ctxDone, outcome, held, target, stdin, stdout, serverVars>>

-----------------------------------------------------------------------------
(* The language server (external): it reads whole frames, answers each     *)
(* request once and in any order, and may notify, ask, and die.            *)

ServerRead ==
    /\ up
    /\ Len(stdin) > 1
    /\ stdin[1].part = "header"
    /\ stdin[2].part = "body"
    /\ stdin' = Tail(Tail(stdin))
    /\ owed' = owed \cup {stdin[2].id}
    /\ UNCHANGED <<clientVars, stdout, up, answered>>

ServerWrites(f) ==
    /\ up
    /\ Len(stdout) < PipeCap
    /\ stdout' = Append(stdout, f)

ServerAnswer(n) ==
    /\ n \in owed
    /\ ServerWrites([kind |-> "answer", id |-> n])
    /\ owed' = owed \ {n}
    /\ answered' = answered \cup {n}
    /\ UNCHANGED <<clientVars, stdin, up>>

ServerNotify ==
    /\ ServerWrites([kind |-> "other", id |-> 0])
    /\ UNCHANGED <<clientVars, stdin, serverVars>>

ServerAsk(n) ==
    /\ ServerWrites([kind |-> "request", id |-> n])
    /\ UNCHANGED <<clientVars, stdin, serverVars>>

ServerDies ==
    /\ up
    /\ up' = FALSE
    /\ UNCHANGED <<clientVars, stdin, stdout, owed, answered>>

-----------------------------------------------------------------------------
CallStep(c) ==
    \/ TakeID(c) \/ Register(c) \/ LockWrite(c) \/ WriteHeader(c) \/ WriteBody(c)
    \/ SendFails(c) \/ UnlockWrite(c) \/ Receive(c) \/ SeeDone(c) \/ SeeCancel(c) \/ Leave(c)

ReadLoop == ReadFrame \/ Deliver \/ ReaderExit

Server ==
    \/ ServerRead \/ ServerNotify \/ ServerDies
    \/ \E n \in owed : ServerAnswer(n)
    \/ \E n \in ServerIds : ServerAsk(n)

Next ==
    \/ \E c \in Calls : CallStep(c) \/ Cancel(c)
    \/ ReadLoop
    \/ Server

Spec == Init /\ [][Next]_vars

\* Goroutines that can run do run, and writeMu does not starve a waiter (sync.Mutex
\* hands over in its starvation mode).  Nothing is assumed of the server or of contexts.
ClientFairness ==
    /\ WF_vars(ReadLoop)
    /\ \A c \in Calls : WF_vars(CallStep(c)) /\ SF_vars(LockWrite(c))

FairSpec == Spec /\ ClientFairness

\* A server that keeps reading and answers what it has read, however many notifications
\* it sends in between.
ServerFairness ==
    /\ WF_vars(ServerRead)
    /\ \A n \in 1..Cardinality(Calls) : SF_vars(ServerAnswer(n))

-----------------------------------------------------------------------------
TypeOK ==
    /\ nextID \in Nat
    /\ DOMAIN pending \subseteq Nat
    /\ \A n \in DOMAIN pending : pending[n] \in Calls
    /\ chan \in [Calls -> Frame \cup {NoFrame}]
    /\ writer \in Calls \cup {NoCall}
    /\ done \in BOOLEAN
    /\ pc \in [Calls -> Steps]
    /\ reqID \in [Calls -> Nat]
    /\ ctxDone \subseteq Calls
    /\ outcome \in [Calls -> Outcomes]
    /\ held \in Frame \cup {NoFrame}
    /\ target \in Calls \cup {NoCall}
    /\ held # NoFrame => target \in Calls
    /\ stdin \in Seq(Half)
    /\ stdout \in Seq(Frame)
    /\ up \in BOOLEAN
    /\ owed \subseteq Nat
    /\ answered \subseteq Nat

\* The calls between the insertion into pending and the deferred delete.
Registered(c) == pc[c] \in {"registered", "header", "body", "unlock", "waiting", "leaving"}

\* pending holds exactly one entry for every call in flight, under that call's own id,
\* and nothing else: no entry outlives its call on any of callRaw's exits, and no call
\* overwrites the entry of another.
PendingOwned ==
    /\ \A c \in Calls : Registered(c) => reqID[c] \in DOMAIN pending /\ pending[reqID[c]] = c
    /\ \A n \in DOMAIN pending : Registered(pending[n]) /\ reqID[pending[n]] = n

\* A call that returns data returns the server's answer to the very request it sent,
\* whatever the order of the answers and whichever calls gave up in between.
OwnAnswer ==
    \A c \in Calls : outcome[c].how = "data" =>
        outcome[c].frame = [kind |-> "answer", id |-> reqID[c]]

\* readLoop never blocks on a channel: the one-place buffer has room whenever it sends,
\* even to a call that has stopped listening.  A blocked readLoop would silence every
\* call on the transport.
ReaderNeverStuck == held # NoFrame => chan[target] = NoFrame

\* When the server process dies, every call waiting for an answer returns (lsp/client.go:
\* ErrServerDied is returned when the language server process exits unexpectedly).
DeathIsReported == \A c \in Calls : (pc[c] = "waiting" /\ ~up) ~> (pc[c] = "returned")

\* A call waiting for an answer returns once its context ends, though the server and
\* readLoop do nothing for it.
CancelReturns == \A c \in Calls : (pc[c] = "waiting" /\ c \in ctxDone) ~> (pc[c] = "returned")

\* With a responsive server every call returns: no answer is lost between the pipe, the
\* pending map and the channel.
EveryCallReturns == ServerFairness => \A c \in Calls : <>(pc[c] = "returned")

\* No call is left waiting: not by a dead server, an ended context or a lost answer.
CallsAreAnswered == DeathIsReported /\ CancelReturns /\ EveryCallReturns

-----------------------------------------------------------------------------
(* What a caller sees is a request/reply service.                          *)
Phase == [c \in Calls |->
    IF pc[c] = "new" THEN "idle"
    ELSE IF outcome[c].how = "none" THEN "asked"
    ELSE IF outcome[c].how = "data" THEN "replied" ELSE "failed"]

Replied == {c \in Calls : reqID[c] \in answered}

Service == INSTANCE RequestReply WITH Clients <- Calls, phase <- Phase, ready <- Replied

\* The transport implements the request/reply service of RequestReply.
ImplementsRequestReply == Service!Spec
=============================================================================
