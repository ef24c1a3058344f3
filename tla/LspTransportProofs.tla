------------------------- MODULE LspTransportProofs -------------------------
(***************************************************************************)
(* Proofs about LspTransport for any set of calls and any pipe capacity.   *)
(***************************************************************************)
EXTENDS LspTransport, SequenceTheorems, TLAPS

\* One name per action that moves a call, so that a proof has one step for each.
LEMMA StepCases ==
    ASSUME [Next]_vars
    PROVE  \/ \E c \in Calls :
                \/ TakeID(c) \/ Register(c) \/ LockWrite(c) \/ WriteHeader(c) \/ WriteBody(c)
                \/ SendFails(c) \/ UnlockWrite(c) \/ Receive(c) \/ SeeDone(c) \/ SeeCancel(c)
                \/ Leave(c) \/ Cancel(c)
           \/ ReadFrame \/ Deliver \/ ReaderExit
           \/ ServerRead \/ ServerNotify \/ ServerDies
           \/ \E n \in owed : ServerAnswer(n)
           \/ \E n \in ServerIds : ServerAsk(n)
           \/ UNCHANGED vars
  BY DEF Next, CallStep, ReadLoop, Server

\* The messages the server writes are frames.
LEMMA FrameTypes ==
    /\ \A n \in Nat : [kind |-> "answer", id |-> n] \in Frame
    /\ \A n \in Nat : [kind |-> "request", id |-> n] \in Frame
    /\ [kind |-> "other", id |-> 0] \in Frame
    /\ NoFrame \notin Frame
  BY DEF Frame, NoFrame

\* What is left of a sequence once its first two elements are read.
LEMMA DropTwo ==
    ASSUME NEW S, NEW s \in Seq(S), Len(s) > 1
    PROVE  /\ s[1] \in S /\ s[2] \in S
           /\ Tail(Tail(s)) \in Seq(S)
           /\ Len(Tail(Tail(s))) = Len(s) - 2
           /\ \A i \in 1..(Len(s) - 2) : Tail(Tail(s))[i] = s[i+2]
  <1>1. Len(s) \in Nat /\ s # <<>>
    BY EmptySeq
  <1>2. /\ Tail(s) \in Seq(S)
        /\ Len(Tail(s)) = Len(s) - 1
        /\ \A i \in 1..(Len(s) - 1) : Tail(s)[i] = s[i+1]
    BY <1>1, HeadTailProperties
  <1>3. Tail(s) # <<>>
    <2>1. Len(Tail(s)) # 0
      BY <1>1, <1>2
    <2> QED BY <2>1, EmptySeq
  <1>4. /\ Tail(Tail(s)) \in Seq(S)
        /\ Len(Tail(Tail(s))) = Len(s) - 2
        /\ \A i \in 1..(Len(s) - 2) : Tail(Tail(s))[i] = Tail(s)[i+1]
    BY <1>1, <1>2, <1>3, HeadTailProperties
  <1> QED BY <1>1, <1>2, <1>4, ElementOfSeq

-----------------------------------------------------------------------------
\* The types hold at first.
LEMMA TypeInit == Init => TypeOK
  <1> SUFFICES ASSUME Init PROVE TypeOK
    OBVIOUS
  <1>1. /\ \A c \in Calls : outcome[c] = [how |-> "none", frame |-> NoFrame]
        /\ [how |-> "none", frame |-> NoFrame] \in Outcomes
    BY DEF Init, Outcomes, Returned
  <1>2. outcome \in [Calls -> Outcomes]
    BY <1>1 DEF Init, Returned, Outcomes
  <1>3. chan \in [Calls -> Frame \cup {NoFrame}] /\ pc \in [Calls -> Steps] /\ reqID \in [Calls -> Nat]
    BY DEF Init, Steps
  <1>4. stdin \in Seq(Half) /\ stdout \in Seq(Frame)
    BY DEF Init
  <1>5. DOMAIN pending = {}
    BY DEF Init
  <1>6. held = NoFrame /\ held \in Frame \cup {NoFrame}
    BY DEF Init
  <1> QED
    BY <1>2, <1>3, <1>4, <1>5, <1>6 DEF Init, TypeOK

\* Every step keeps the types.
LEMMA TypeStep == TypeOK /\ [Next]_vars => TypeOK'
  <1> SUFFICES ASSUME TypeOK, [Next]_vars PROVE TypeOK'
    OBVIOUS
  <1> USE DEF TypeOK
  <1>1. ASSUME NEW c \in Calls, TakeID(c) PROVE TypeOK'
    BY <1>1 DEF TakeID, Goto, Steps, serverVars
  <1>2. ASSUME NEW c \in Calls, Register(c) PROVE TypeOK'
    BY <1>2 DEF Register, Goto, Steps, serverVars
  <1>3. ASSUME NEW c \in Calls, LockWrite(c) PROVE TypeOK'
    BY <1>3 DEF LockWrite, Goto, Steps, serverVars
  <1>4. ASSUME NEW c \in Calls, WriteHeader(c) PROVE TypeOK'
    <2>1. [part |-> "header", id |-> reqID[c]] \in Half
      BY DEF Half
    <2> QED BY <1>4, <2>1 DEF WriteHeader, WriteHalf, Goto, Steps, serverVars
  <1>5. ASSUME NEW c \in Calls, WriteBody(c) PROVE TypeOK'
    <2>1. [part |-> "body", id |-> reqID[c]] \in Half
      BY DEF Half
    <2> QED BY <1>5, <2>1 DEF WriteBody, WriteHalf, Goto, Steps, serverVars
  <1>6. ASSUME NEW c \in Calls, SendFails(c) PROVE TypeOK'
    BY <1>6 DEF SendFails, Steps, serverVars, Outcomes, Returned
  <1>7. ASSUME NEW c \in Calls, UnlockWrite(c) PROVE TypeOK'
    BY <1>7 DEF UnlockWrite, Goto, Steps, serverVars
  <1>8. ASSUME NEW c \in Calls, Receive(c) PROVE TypeOK'
    BY <1>8 DEF Receive, Goto, Steps, serverVars, Outcomes
  <1>9. ASSUME NEW c \in Calls, SeeDone(c) PROVE TypeOK'
    BY <1>9 DEF SeeDone, Goto, Steps, serverVars, Outcomes, Returned
  <1>10. ASSUME NEW c \in Calls, SeeCancel(c) PROVE TypeOK'
    BY <1>10 DEF SeeCancel, Goto, Steps, serverVars, Outcomes, Returned
  <1>11. ASSUME NEW c \in Calls, Leave(c) PROVE TypeOK'
    BY <1>11 DEF Leave, Goto, Steps, serverVars
  <1>12. ASSUME NEW c \in Calls, Cancel(c) PROVE TypeOK'
    BY <1>12 DEF Cancel, serverVars
  <1>13. CASE ReadFrame
    <2>1. stdout' \in Seq(Frame) /\ Head(stdout) \in Frame
      BY <1>13 DEF ReadFrame
    <2>0. UNCHANGED <<nextID, pending, chan, writer, done, pc, reqID, ctxDone, outcome, stdin, up, owed, answered>>
      BY <1>13 DEF ReadFrame, serverVars
    <2>2. CASE Head(stdout).kind # "other" /\ Head(stdout).id \in DOMAIN pending
      <3>1. held' = Head(stdout) /\ target' = pending[Head(stdout).id]
        BY <1>13, <2>2 DEF ReadFrame
      <3>2. held' \in Frame \cup {NoFrame} /\ target' \in Calls
        BY <2>1, <2>2, <3>1
      <3> QED BY <2>0, <2>1, <3>2
    <2>3. CASE ~(Head(stdout).kind # "other" /\ Head(stdout).id \in DOMAIN pending)
      <3>1. held' = held /\ target' = target
        BY <1>13, <2>3 DEF ReadFrame
      <3> QED BY <2>0, <2>1, <3>1
    <2> QED BY <2>2, <2>3
  <1>14. CASE Deliver
    BY <1>14, FrameTypes DEF Deliver, serverVars
  <1>15. CASE ReaderExit
    BY <1>15 DEF ReaderExit, serverVars
  <1>16. CASE ServerRead
    <2>1. stdin' \in Seq(Half) /\ stdin[2] \in Half
      BY <1>16, DropTwo DEF ServerRead
    <2>2. stdin[2].id \in Nat
      BY <2>1 DEF Half
    <2>3. owed' \subseteq Nat
      BY <1>16, <2>2 DEF ServerRead
    <2> QED BY <1>16, <2>1, <2>3 DEF ServerRead, clientVars
  <1>17. CASE ServerNotify
    BY <1>17, FrameTypes DEF ServerNotify, ServerWrites, clientVars, serverVars
  <1>18. CASE ServerDies
    BY <1>18 DEF ServerDies, clientVars
  <1>19. ASSUME NEW n \in owed, ServerAnswer(n) PROVE TypeOK'
    BY <1>19, FrameTypes DEF ServerAnswer, ServerWrites, clientVars
  <1>20. ASSUME NEW n \in ServerIds, ServerAsk(n) PROVE TypeOK'
    BY <1>20, FrameTypes, TransportAssumption DEF ServerAsk, ServerWrites, clientVars, serverVars
  <1>21. CASE UNCHANGED vars
    BY <1>21 DEF vars, clientVars, serverVars
  <1> QED
    BY <1>1, <1>2, <1>3, <1>4, <1>5, <1>6, <1>7, <1>8, <1>9, <1>10, <1>11, <1>12, <1>13,
       <1>14, <1>15, <1>16, <1>17, <1>18, <1>19, <1>20, <1>21, StepCases

\* Every variable of the transport keeps its type.
THEOREM TypeCorrect == Spec => []TypeOK
  BY TypeInit, TypeStep, PTL DEF Spec

-----------------------------------------------------------------------------
(* The inductive invariant.  A request travels stdin -> owed -> answered,  *)
(* an answer travels stdout -> held -> chan, and each is in one place.     *)

HasBody(s, n) == \E i \in 1..Len(s) : s[i].part = "body" /\ s[i].id = n
BodiesDiffer(s) == \A i, j \in 1..Len(s) :
    s[i].part = "body" /\ s[j].part = "body" /\ s[i].id = s[j].id => i = j
BodyIn(n) == HasBody(stdin, n)

HasAnswer(s, n) == \E i \in 1..Len(s) : s[i].kind = "answer" /\ s[i].id = n
AnswersDiffer(s) == \A i, j \in 1..Len(s) :
    s[i].kind = "answer" /\ s[j].kind = "answer" /\ s[i].id = s[j].id => i = j
AnswerOut(n) == HasAnswer(stdout, n)

\* Ids are handed out once, and every id handed out has its call.
IdsUnique ==
    /\ \A c \in Calls : (pc[c] = "new") <=> (reqID[c] = 0)
    /\ \A c \in Calls : reqID[c] <= nextID
    /\ \A c, d \in Calls : reqID[c] = reqID[d] /\ reqID[c] # 0 => c = d
    /\ \A n \in 1..nextID : \E c \in Calls : reqID[c] = n

\* A request is on the wire, read or answered, and none of them before it is written.
RequestOnce ==
    /\ owed \subseteq 1..nextID
    /\ answered \subseteq 1..nextID
    /\ owed \cap answered = {}
    /\ \A i \in 1..Len(stdin) : stdin[i].id \in 1..nextID
    /\ \A n \in 1..nextID : BodyIn(n) => n \notin owed \cup answered
    /\ BodiesDiffer(stdin)
    /\ \A c \in Calls : pc[c] \in {"numbered", "registered", "header", "body"} =>
         reqID[c] \notin owed \cup answered /\ ~BodyIn(reqID[c])

\* An answer is in the pipe, in readLoop's hand or in the channel of the call that asked.
AnswerOnce ==
    /\ \A i \in 1..Len(stdout) :
         stdout[i].kind = "other" \/ (stdout[i].kind = "answer" /\ stdout[i].id \in answered)
    /\ AnswersDiffer(stdout)
    /\ held # NoFrame =>
         /\ held.kind = "answer"
         /\ held.id \in answered
         /\ reqID[target] = held.id
         /\ ~AnswerOut(held.id)
         /\ chan[target] = NoFrame
    /\ \A c \in Calls : chan[c] # NoFrame =>
         /\ chan[c] = [kind |-> "answer", id |-> reqID[c]]
         /\ reqID[c] \in answered
         /\ ~AnswerOut(reqID[c])
    /\ \A c \in Calls : outcome[c].how = "data" =>
         /\ outcome[c].frame = [kind |-> "answer", id |-> reqID[c]]
         /\ reqID[c] \in answered

\* A call has an outcome from the moment it leaves the select, or send, and not before.
EndedOnce == \A c \in Calls : (outcome[c].how = "none") <=> pc[c] \notin {"leaving", "returned"}

IInv == TypeOK /\ IdsUnique /\ PendingOwned /\ RequestOnce /\ AnswerOnce /\ EndedOnce

\* No ids are taken at first.
LEMMA IdsInit == Init => IdsUnique
  BY DEF Init, IdsUnique

\* Ids are taken from an atomic counter: they stay distinct.
LEMMA IdsStep == TypeOK /\ IdsUnique /\ [Next]_vars => IdsUnique'
  <1> SUFFICES ASSUME TypeOK, IdsUnique, [Next]_vars PROVE IdsUnique'
    OBVIOUS
  <1> USE DEF IdsUnique
  <1>0. nextID \in Nat /\ reqID \in [Calls -> Nat] /\ pc \in [Calls -> Steps]
    BY DEF TypeOK
  <1>1. ASSUME NEW c \in Calls, TakeID(c) PROVE IdsUnique'
    <2>1. /\ nextID' = nextID + 1
          /\ pc[c] = "new" /\ reqID[c] = 0
          /\ pc' = [pc EXCEPT ![c] = "numbered"]
          /\ reqID' = [reqID EXCEPT ![c] = nextID + 1]
      BY <1>1 DEF TakeID, Goto
    <2>2. ASSUME NEW n \in 1..nextID' PROVE \E d \in Calls : reqID'[d] = n
      <3>1. CASE n = nextID + 1
        BY <1>0, <2>1, <3>1
      <3>2. CASE n # nextID + 1
        <4>1. n \in 1..nextID
          BY <1>0, <2>1, <3>2
        <4>2. PICK d \in Calls : reqID[d] = n
          BY <4>1
        <4>3. d # c
          BY <2>1, <4>1, <4>2
        <4> QED BY <1>0, <2>1, <4>2, <4>3
      <3> QED BY <3>1, <3>2
    <2>3. \A d \in Calls : reqID'[d] <= nextID'
      BY <1>0, <2>1
    <2>4. \A d, e \in Calls : reqID'[d] = reqID'[e] /\ reqID'[d] # 0 => d = e
      BY <1>0, <2>1
    <2>5. \A d \in Calls : (pc'[d] = "new") <=> (reqID'[d] = 0)
      BY <1>0, <2>1
    <2> QED BY <2>2, <2>3, <2>4, <2>5
  <1>2. ASSUME NEW c \in Calls,
               \/ Register(c) \/ LockWrite(c) \/ WriteHeader(c) \/ WriteBody(c)
               \/ SendFails(c) \/ UnlockWrite(c) \/ Receive(c) \/ SeeDone(c) \/ SeeCancel(c)
               \/ Leave(c)
        PROVE  IdsUnique'
    <2>1. UNCHANGED <<nextID, reqID>>
      BY <1>2 DEF Register, LockWrite, WriteHeader, WriteBody, WriteHalf, SendFails, UnlockWrite,
                  Receive, SeeDone, SeeCancel, Leave
    <2>2. \E to \in Steps \ {"new"} : pc[c] # "new" /\ pc' = [pc EXCEPT ![c] = to]
      BY <1>2 DEF Register, LockWrite, WriteHeader, WriteBody, WriteHalf, SendFails, UnlockWrite,
                  Receive, SeeDone, SeeCancel, Leave, Goto, Steps
    <2>3. \A d \in Calls : (pc'[d] = "new") <=> (pc[d] = "new")
      BY <1>0, <2>2
    <2> QED BY <2>1, <2>3
  <1>3. ASSUME UNCHANGED <<nextID, reqID, pc>> PROVE IdsUnique'
    BY <1>3
  <1>4. QED
    <2>1. ASSUME NEW c \in Calls, Cancel(c) PROVE UNCHANGED <<nextID, reqID, pc>>
      BY <2>1 DEF Cancel
    <2>2. ASSUME ReadFrame \/ Deliver \/ ReaderExit PROVE UNCHANGED <<nextID, reqID, pc>>
      BY <2>2 DEF ReadFrame, Deliver, ReaderExit
    <2>3. ASSUME ServerRead \/ ServerNotify \/ ServerDies \/ (\E n \in owed : ServerAnswer(n))
                 \/ (\E n \in ServerIds : ServerAsk(n))
          PROVE UNCHANGED <<nextID, reqID, pc>>
      BY <2>3 DEF ServerRead, ServerNotify, ServerDies, ServerAnswer, ServerAsk, clientVars
    <2>4. ASSUME UNCHANGED vars PROVE UNCHANGED <<nextID, reqID, pc>>
      BY <2>4 DEF vars, clientVars
    <2> QED BY <1>1, <1>2, <1>3, <2>1, <2>2, <2>3, <2>4, StepCases

\* No call is registered at first.
LEMMA OwnedInit == Init => PendingOwned
  BY DEF Init, PendingOwned, Registered

\* Every step keeps pending to the calls in flight, under their own ids.
LEMMA OwnedStep == TypeOK /\ IdsUnique /\ PendingOwned /\ [Next]_vars => PendingOwned'
  <1> SUFFICES ASSUME TypeOK, IdsUnique, PendingOwned, [Next]_vars PROVE PendingOwned'
    OBVIOUS
  <1> USE DEF PendingOwned, Registered
  <1>0. nextID \in Nat /\ reqID \in [Calls -> Nat] /\ pc \in [Calls -> Steps]
        /\ \A n \in DOMAIN pending : pending[n] \in Calls
    BY DEF TypeOK
  <1>1. ASSUME NEW c \in Calls, TakeID(c) PROVE PendingOwned'
    BY <1>0, <1>1 DEF TakeID, Goto
  <1>2. ASSUME NEW c \in Calls, Register(c) PROVE PendingOwned'
    <2>1. /\ pc[c] = "numbered" /\ pc' = [pc EXCEPT ![c] = "registered"]
          /\ pending' = [n \in DOMAIN pending \cup {reqID[c]} |-> IF n = reqID[c] THEN c ELSE pending[n]]
          /\ reqID' = reqID
      BY <1>2 DEF Register, Goto
    <2>2. \A d \in Calls : reqID[d] = reqID[c] => d = c
      BY <1>0, <2>1 DEF IdsUnique
    <2> QED BY <1>0, <2>1, <2>2
  <1>3. ASSUME NEW c \in Calls,
               \/ LockWrite(c) \/ WriteHeader(c) \/ WriteBody(c) \/ SendFails(c)
               \/ UnlockWrite(c) \/ Receive(c) \/ SeeDone(c) \/ SeeCancel(c)
        PROVE  PendingOwned'
    <2>1. UNCHANGED <<pending, reqID>>
      BY <1>3 DEF LockWrite, WriteHeader, WriteBody, WriteHalf, SendFails, UnlockWrite,
                  Receive, SeeDone, SeeCancel
    <2>2. \E to \in {"header", "body", "unlock", "waiting", "leaving"} :
            Registered(c) /\ pc' = [pc EXCEPT ![c] = to]
      BY <1>3 DEF LockWrite, WriteHeader, WriteBody, WriteHalf, SendFails, UnlockWrite,
                  Receive, SeeDone, SeeCancel, Goto
    <2>3. \A d \in Calls : Registered(d)' <=> Registered(d)
      BY <1>0, <2>2
    <2> QED BY <1>0, <2>1, <2>3
  <1>4. ASSUME NEW c \in Calls, Leave(c) PROVE PendingOwned'
    <2>1. /\ pc[c] = "leaving" /\ pc' = [pc EXCEPT ![c] = "returned"]
          /\ pending' = [n \in DOMAIN pending \ {reqID[c]} |-> pending[n]]
          /\ reqID' = reqID
      BY <1>4 DEF Leave, Goto
    <2>2. \A d \in Calls : reqID[d] = reqID[c] => d = c
      BY <1>0, <2>1 DEF IdsUnique
    <2> QED BY <1>0, <2>1, <2>2
  <1>5. ASSUME UNCHANGED <<pending, reqID, pc>> PROVE PendingOwned'
    BY <1>5
  <1>6. QED
    <2>1. ASSUME NEW c \in Calls, Cancel(c) PROVE UNCHANGED <<pending, reqID, pc>>
      BY <2>1 DEF Cancel
    <2>2. ASSUME ReadFrame \/ Deliver \/ ReaderExit PROVE UNCHANGED <<pending, reqID, pc>>
      BY <2>2 DEF ReadFrame, Deliver, ReaderExit
    <2>3. ASSUME ServerRead \/ ServerNotify \/ ServerDies \/ (\E n \in owed : ServerAnswer(n))
                 \/ (\E n \in ServerIds : ServerAsk(n))
          PROVE UNCHANGED <<pending, reqID, pc>>
      BY <2>3 DEF ServerRead, ServerNotify, ServerDies, ServerAnswer, ServerAsk, clientVars
    <2>4. ASSUME UNCHANGED vars PROVE UNCHANGED <<pending, reqID, pc>>
      BY <2>4 DEF vars, clientVars
    <2> QED BY <1>1, <1>2, <1>3, <1>4, <1>5, <2>1, <2>2, <2>3, <2>4, StepCases

\* The pending map holds the calls in flight and no other, whatever the server sends.
THEOREM PendingOwnership == Spec => []PendingOwned
  <1>1. Init => TypeOK /\ IdsUnique /\ PendingOwned
    BY TypeInit, IdsInit, OwnedInit
  <1>2. TypeOK /\ IdsUnique /\ PendingOwned /\ [Next]_vars => (TypeOK /\ IdsUnique /\ PendingOwned)'
    BY TypeStep, IdsStep, OwnedStep
  <1> QED BY <1>1, <1>2, PTL DEF Spec

-----------------------------------------------------------------------------
\* A body at the end of stdin is the only one of its id if there was none.
LEMMA BodyAppended ==
    ASSUME NEW s \in Seq(Half), NEW h \in Half
    PROVE  /\ \A n : HasBody(Append(s, h), n) <=> HasBody(s, n) \/ (h.part = "body" /\ h.id = n)
           /\ BodiesDiffer(s) /\ (h.part = "body" => ~HasBody(s, h.id)) => BodiesDiffer(Append(s, h))
  <1>1. /\ Len(s) \in Nat
        /\ Len(Append(s, h)) = Len(s) + 1
        /\ \A i \in 1..Len(s) : Append(s, h)[i] = s[i]
        /\ Append(s, h)[Len(s) + 1] = h
    OBVIOUS
  <1>2. \A i : i \in 1..(Len(s) + 1) <=> i \in 1..Len(s) \/ i = Len(s) + 1
    BY <1>1
  <1> QED BY <1>1, <1>2 DEF HasBody, BodiesDiffer

\* A body the server reads leaves stdin for good.
LEMMA BodyRead ==
    ASSUME NEW s \in Seq(Half), Len(s) > 1, s[2].part = "body"
    PROVE  /\ HasBody(s, s[2].id)
           /\ \A n : HasBody(Tail(Tail(s)), n) => HasBody(s, n)
           /\ BodiesDiffer(s) => BodiesDiffer(Tail(Tail(s))) /\ ~HasBody(Tail(Tail(s)), s[2].id)
  <1> DEFINE t == Tail(Tail(s))
  <1>1. /\ Len(s) \in Nat
        /\ Len(t) = Len(s) - 2
        /\ \A i \in 1..Len(t) : t[i] = s[i+2] /\ i+2 \in 1..Len(s)
        /\ 2 \in 1..Len(s)
    BY DropTwo
  <1> HIDE DEF t
  <1>2. HasBody(s, s[2].id)
    BY <1>1 DEF HasBody
  <1>3. ASSUME NEW n, HasBody(t, n) PROVE HasBody(s, n)
    <2>1. PICK i \in 1..Len(t) : t[i].part = "body" /\ t[i].id = n
      BY <1>3 DEF HasBody
    <2> QED BY <1>1, <2>1 DEF HasBody
  <1>4. ASSUME BodiesDiffer(s) PROVE BodiesDiffer(t)
    <2>1. ASSUME NEW i \in 1..Len(t), NEW j \in 1..Len(t),
                 t[i].part = "body" /\ t[j].part = "body" /\ t[i].id = t[j].id
          PROVE  i = j
      <3>1. i+2 = j+2
        BY <1>1, <1>4, <2>1 DEF BodiesDiffer
      <3> QED BY <1>1, <3>1
    <2> QED BY <2>1 DEF BodiesDiffer
  <1>5. ASSUME BodiesDiffer(s), HasBody(t, s[2].id) PROVE FALSE
    <2>1. PICK i \in 1..Len(t) : t[i].part = "body" /\ t[i].id = s[2].id
      BY <1>5 DEF HasBody
    <2>2. i+2 = 2
      BY <1>1, <1>5, <2>1 DEF BodiesDiffer
    <2> QED BY <1>1, <2>1, <2>2
  <1> QED BY <1>2, <1>3, <1>4, <1>5 DEF t

\* Nothing has been written at first.
LEMMA RequestInit == Init => RequestOnce
  BY DEF Init, RequestOnce, BodyIn, HasBody, BodiesDiffer

\* Every step keeps the requests single: a body is written once and answered once.
LEMMA RequestStep == TypeOK /\ IdsUnique /\ RequestOnce /\ [Next]_vars => RequestOnce'
  <1> SUFFICES ASSUME TypeOK, IdsUnique, RequestOnce, [Next]_vars PROVE RequestOnce'
    OBVIOUS
  <1> USE DEF RequestOnce, BodyIn
  <1>0. nextID \in Nat /\ reqID \in [Calls -> Nat] /\ pc \in [Calls -> Steps] /\ stdin \in Seq(Half)
    BY DEF TypeOK
  <1>1. ASSUME NEW c \in Calls, TakeID(c) PROVE RequestOnce'
    <2>1. /\ nextID' = nextID + 1
          /\ pc' = [pc EXCEPT ![c] = "numbered"]
          /\ reqID' = [reqID EXCEPT ![c] = nextID + 1]
          /\ UNCHANGED <<stdin, owed, answered>>
      BY <1>1 DEF TakeID, Goto, serverVars
    <2>2. nextID + 1 \notin owed \cup answered /\ ~BodyIn(nextID + 1)
      BY <1>0 DEF HasBody
    <2>3. 1..nextID \subseteq 1..nextID'
      BY <1>0, <2>1
    <2>4. \A n \in 1..nextID' : BodyIn(n) => n \notin owed \cup answered
      BY <1>0, <2>1, <2>2
    <2>5. \A d \in Calls : pc'[d] \in {"numbered", "registered", "header", "body"} =>
            reqID'[d] \notin owed \cup answered /\ ~BodyIn(reqID'[d])
      BY <1>0, <2>1, <2>2
    <2> QED BY <2>1, <2>3, <2>4, <2>5
  <1>2. ASSUME NEW c \in Calls, WriteHeader(c) PROVE RequestOnce'
    <2>1. /\ pc[c] = "header" /\ pc' = [pc EXCEPT ![c] = "body"]
          /\ stdin' = Append(stdin, [part |-> "header", id |-> reqID[c]])
          /\ UNCHANGED <<nextID, reqID, owed, answered>>
      BY <1>2 DEF WriteHeader, WriteHalf, Goto, serverVars
    <2>2. reqID[c] \in 1..nextID
      BY <1>0, <2>1 DEF IdsUnique
    <2>3. /\ Len(stdin') = Len(stdin) + 1
          /\ \A i \in 1..Len(stdin) : stdin'[i] = stdin[i]
          /\ stdin'[Len(stdin) + 1] = [part |-> "header", id |-> reqID[c]]
      BY <1>0, <2>1
    <2>4. \A n : HasBody(stdin', n) <=> HasBody(stdin, n)
      BY <1>0, <2>1, BodyAppended DEF Half
    <2>5. ASSUME NEW i \in 1..Len(stdin') PROVE stdin'[i].id \in 1..nextID
      <3>1. i \in 1..Len(stdin) \/ i = Len(stdin) + 1
        BY <1>0, <2>3
      <3>2. ASSUME i \in 1..Len(stdin) PROVE stdin'[i].id = stdin[i].id
        BY <2>3, <3>2
      <3>3. ASSUME i = Len(stdin) + 1 PROVE stdin'[i].id = reqID[c]
        BY <2>3, <3>3
      <3> QED BY <2>2, <3>1, <3>2, <3>3
    <2>6. BodiesDiffer(stdin')
      BY <1>0, <2>1, BodyAppended DEF Half
    <2> QED BY <1>0, <2>1, <2>4, <2>5, <2>6
  <1>3. ASSUME NEW c \in Calls, WriteBody(c) PROVE RequestOnce'
    <2>1. /\ pc[c] = "body" /\ pc' = [pc EXCEPT ![c] = "unlock"]
          /\ stdin' = Append(stdin, [part |-> "body", id |-> reqID[c]])
          /\ UNCHANGED <<nextID, reqID, owed, answered>>
      BY <1>3 DEF WriteBody, WriteHalf, Goto, serverVars
    <2>2. reqID[c] \in 1..nextID /\ reqID[c] \notin owed \cup answered /\ ~BodyIn(reqID[c])
      BY <1>0, <2>1 DEF IdsUnique
    <2>3. /\ Len(stdin') = Len(stdin) + 1
          /\ \A i \in 1..Len(stdin) : stdin'[i] = stdin[i]
          /\ stdin'[Len(stdin) + 1] = [part |-> "body", id |-> reqID[c]]
      BY <1>0, <2>1
    <2>4. \A n : HasBody(stdin', n) <=> HasBody(stdin, n) \/ n = reqID[c]
      BY <1>0, <2>1, BodyAppended DEF Half
    <2>5. ASSUME NEW i \in 1..Len(stdin') PROVE stdin'[i].id \in 1..nextID
      <3>1. i \in 1..Len(stdin) \/ i = Len(stdin) + 1
        BY <1>0, <2>3
      <3>2. ASSUME i \in 1..Len(stdin) PROVE stdin'[i].id = stdin[i].id
        BY <2>3, <3>2
      <3>3. ASSUME i = Len(stdin) + 1 PROVE stdin'[i].id = reqID[c]
        BY <2>3, <3>3
      <3> QED BY <2>2, <3>1, <3>2, <3>3
    <2>6. BodiesDiffer(stdin')
      BY <1>0, <2>1, <2>2, BodyAppended DEF Half
    <2>7. \A d \in Calls : d # c /\ pc[d] # "new" => reqID[d] # reqID[c]
      BY <1>0, <2>2 DEF IdsUnique
    <2>8. \A d \in Calls : pc'[d] \in {"numbered", "registered", "header", "body"} =>
            reqID[d] \notin owed \cup answered /\ ~HasBody(stdin', reqID[d])
      BY <1>0, <2>1, <2>4, <2>7
    <2>9. \A n \in 1..nextID : HasBody(stdin', n) => n \notin owed \cup answered
      BY <2>2, <2>4
    <2> QED BY <2>1, <2>5, <2>6, <2>8, <2>9
  <1>4. ASSUME NEW c \in Calls,
               \/ Register(c) \/ LockWrite(c) \/ SendFails(c) \/ UnlockWrite(c)
               \/ Receive(c) \/ SeeDone(c) \/ SeeCancel(c) \/ Leave(c)
        PROVE  RequestOnce'
    <2>1. UNCHANGED <<nextID, reqID, stdin, owed, answered>>
      BY <1>4 DEF Register, LockWrite, SendFails, UnlockWrite, Receive, SeeDone, SeeCancel, Leave, serverVars
    <2>2. \A d \in Calls : pc'[d] \in {"numbered", "registered", "header", "body"} =>
                           pc[d] \in {"numbered", "registered", "header", "body"}
      BY <1>0, <1>4 DEF Register, LockWrite, SendFails, UnlockWrite, Receive, SeeDone, SeeCancel, Leave, Goto
    <2> QED BY <2>1, <2>2
  <1>5. CASE ServerRead
    <2> DEFINE n == stdin[2].id
    <2>1. /\ stdin[2].part = "body" /\ Len(stdin) > 1
          /\ stdin' = Tail(Tail(stdin))
          /\ owed' = owed \cup {n}
          /\ UNCHANGED <<nextID, reqID, pc, answered>>
      BY <1>5 DEF ServerRead, clientVars
    <2>2. /\ Len(stdin) \in Nat
          /\ Len(stdin') = Len(stdin) - 2
          /\ \A i \in 1..(Len(stdin) - 2) : stdin'[i] = stdin[i+2]
      BY <1>0, <2>1, DropTwo
    <2>3. n \in 1..nextID /\ HasBody(stdin, n)
      BY <1>0, <2>1, BodyRead
    <2>4. \A m : HasBody(stdin', m) => HasBody(stdin, m) /\ m # n
      BY <1>0, <2>1, BodyRead
    <2>5. \A i \in 1..Len(stdin') : stdin'[i].id \in 1..nextID
      BY <2>2
    <2>6. BodiesDiffer(stdin')
      BY <1>0, <2>1, BodyRead
    <2>7. n \notin owed \cup answered
      BY <2>3
    <2>8. \A d \in Calls : pc[d] \in {"numbered", "registered", "header", "body"} => reqID[d] # n
      BY <2>3
    <2> QED BY <2>1, <2>3, <2>4, <2>5, <2>6, <2>7, <2>8
  <1>6. ASSUME NEW n \in owed, ServerAnswer(n) PROVE RequestOnce'
    <2>1. /\ owed' = owed \ {n} /\ answered' = answered \cup {n}
          /\ UNCHANGED <<nextID, reqID, pc, stdin>>
      BY <1>6 DEF ServerAnswer, clientVars
    <2> QED BY <2>1
  <1>7. ASSUME UNCHANGED <<nextID, reqID, pc, stdin, owed, answered>> PROVE RequestOnce'
    BY <1>7
  <1>8. QED
    <2>1. ASSUME NEW c \in Calls, Cancel(c) PROVE UNCHANGED <<nextID, reqID, pc, stdin, owed, answered>>
      BY <2>1 DEF Cancel, serverVars
    <2>2. ASSUME ReadFrame \/ Deliver \/ ReaderExit
          PROVE UNCHANGED <<nextID, reqID, pc, stdin, owed, answered>>
      BY <2>2 DEF ReadFrame, Deliver, ReaderExit, serverVars
    <2>3. ASSUME ServerNotify \/ ServerDies \/ (\E n \in ServerIds : ServerAsk(n))
          PROVE UNCHANGED <<nextID, reqID, pc, stdin, owed, answered>>
      BY <2>3 DEF ServerNotify, ServerDies, ServerAsk, clientVars, serverVars
    <2>4. ASSUME UNCHANGED vars PROVE UNCHANGED <<nextID, reqID, pc, stdin, owed, answered>>
      BY <2>4 DEF vars, clientVars, serverVars
    <2> QED BY <1>1, <1>2, <1>3, <1>4, <1>5, <1>6, <1>7, <2>1, <2>2, <2>3, <2>4, StepCases

-----------------------------------------------------------------------------
\* An answer at the end of stdout is the only one of its id if there was none.
LEMMA AnswerAppended ==
    ASSUME NEW s \in Seq(Frame), NEW f \in Frame
    PROVE  /\ \A n : HasAnswer(Append(s, f), n) <=> HasAnswer(s, n) \/ (f.kind = "answer" /\ f.id = n)
           /\ AnswersDiffer(s) /\ (f.kind = "answer" => ~HasAnswer(s, f.id)) => AnswersDiffer(Append(s, f))
           /\ \A i \in 1..Len(Append(s, f)) :
                (i \in 1..Len(s) /\ Append(s, f)[i] = s[i]) \/ Append(s, f)[i] = f
  <1>1. /\ Len(s) \in Nat
        /\ Len(Append(s, f)) = Len(s) + 1
        /\ \A i \in 1..Len(s) : Append(s, f)[i] = s[i]
        /\ Append(s, f)[Len(s) + 1] = f
    OBVIOUS
  <1>2. \A i : i \in 1..(Len(s) + 1) <=> i \in 1..Len(s) \/ i = Len(s) + 1
    BY <1>1
  <1> QED BY <1>1, <1>2 DEF HasAnswer, AnswersDiffer

\* An answer that is read leaves stdout for good.
LEMMA AnswerRead ==
    ASSUME NEW s \in Seq(Frame), s # <<>>
    PROVE  /\ \A n : HasAnswer(Tail(s), n) => HasAnswer(s, n)
           /\ AnswersDiffer(s) => AnswersDiffer(Tail(s))
           /\ AnswersDiffer(s) /\ Head(s).kind = "answer" => ~HasAnswer(Tail(s), Head(s).id)
           /\ \A i \in 1..Len(Tail(s)) : i+1 \in 1..Len(s) /\ Tail(s)[i] = s[i+1]
           /\ 1 \in 1..Len(s) /\ Head(s) = s[1]
  <1> DEFINE t == Tail(s)
  <1>1. /\ Len(s) \in Nat
        /\ Len(t) = Len(s) - 1
        /\ \A i \in 1..Len(t) : t[i] = s[i+1] /\ i+1 \in 1..Len(s)
        /\ 1 \in 1..Len(s) /\ Head(s) = s[1]
    BY HeadTailProperties
  <1> HIDE DEF t
  <1>2. ASSUME NEW n, HasAnswer(t, n) PROVE HasAnswer(s, n)
    <2>1. PICK i \in 1..Len(t) : t[i].kind = "answer" /\ t[i].id = n
      BY <1>2 DEF HasAnswer
    <2> QED BY <1>1, <2>1 DEF HasAnswer
  <1>3. ASSUME AnswersDiffer(s) PROVE AnswersDiffer(t)
    <2>1. ASSUME NEW i \in 1..Len(t), NEW j \in 1..Len(t),
                 t[i].kind = "answer" /\ t[j].kind = "answer" /\ t[i].id = t[j].id
          PROVE  i = j
      <3>1. i+1 = j+1
        BY <1>1, <1>3, <2>1 DEF AnswersDiffer
      <3> QED BY <1>1, <3>1
    <2> QED BY <2>1 DEF AnswersDiffer
  <1>4. ASSUME AnswersDiffer(s), Head(s).kind = "answer", HasAnswer(t, Head(s).id) PROVE FALSE
    <2>1. PICK i \in 1..Len(t) : t[i].kind = "answer" /\ t[i].id = Head(s).id
      BY <1>4 DEF HasAnswer
    <2>2. i+1 = 1
      BY <1>1, <1>4, <2>1 DEF AnswersDiffer
    <2> QED BY <1>1, <2>1, <2>2
  <1> QED BY <1>1, <1>2, <1>3, <1>4 DEF t

\* Nothing has been answered at first.
LEMMA AnswerInit == Init => AnswerOnce
  BY DEF Init, AnswerOnce, HasAnswer, AnswersDiffer, Returned

\* Every step keeps the answers single: in stdout, in a channel or returned.
LEMMA AnswerStep ==
    ASSUME ServerIds = {}
    PROVE  TypeOK /\ IdsUnique /\ PendingOwned /\ RequestOnce /\ AnswerOnce /\ [Next]_vars => AnswerOnce'
  <1> SUFFICES ASSUME TypeOK, IdsUnique, PendingOwned, RequestOnce, AnswerOnce, [Next]_vars
               PROVE  AnswerOnce'
    OBVIOUS
  <1> USE DEF AnswerOnce, AnswerOut
  <1>0. /\ nextID \in Nat /\ reqID \in [Calls -> Nat]
        /\ chan \in [Calls -> Frame \cup {NoFrame}] /\ outcome \in [Calls -> Outcomes]
        /\ held \in Frame \cup {NoFrame} /\ (held # NoFrame => target \in Calls)
        /\ stdout \in Seq(Frame)
    BY DEF TypeOK
  <1>1. ASSUME NEW c \in Calls, TakeID(c) PROVE AnswerOnce'
    <2>1. /\ reqID[c] = 0 /\ reqID' = [reqID EXCEPT ![c] = nextID + 1]
          /\ UNCHANGED <<chan, outcome, held, target, stdout, answered>>
      BY <1>1 DEF TakeID, Goto, serverVars, IdsUnique
    <2>2. answered \subseteq 1..nextID
      BY DEF RequestOnce
    <2>3. 0 \notin answered
      BY <1>0, <2>2
    <2>4. chan[c] = NoFrame /\ outcome[c].how # "data"
      BY <2>1, <2>3
    <2>5. held # NoFrame => target # c
      BY <2>1, <2>3
    <2> QED BY <1>0, <2>1, <2>4, <2>5
  <1>2. ASSUME NEW c \in Calls, SendFails(c) \/ SeeDone(c) \/ SeeCancel(c) PROVE AnswerOnce'
    <2>1. /\ \E how \in {"sendError", "died", "cancelled"} : outcome' = [outcome EXCEPT ![c] = Returned(how)]
          /\ UNCHANGED <<reqID, chan, held, target, stdout, answered>>
      BY <1>2 DEF SendFails, SeeDone, SeeCancel, serverVars
    <2>2. \A d \in Calls : outcome'[d].how = "data" => outcome'[d] = outcome[d]
      BY <1>0, <2>1 DEF Returned
    <2> QED BY <2>1, <2>2
  <1>3. ASSUME NEW c \in Calls, Receive(c) PROVE AnswerOnce'
    <2>1. /\ chan[c] # NoFrame
          /\ outcome' = [outcome EXCEPT ![c] = [how |-> "data", frame |-> chan[c]]]
          /\ chan' = [chan EXCEPT ![c] = NoFrame]
          /\ UNCHANGED <<reqID, held, target, stdout, answered>>
      BY <1>3 DEF Receive, serverVars
    <2>2. chan[c] = [kind |-> "answer", id |-> reqID[c]] /\ reqID[c] \in answered
      BY <2>1
    <2> QED BY <1>0, <2>1, <2>2
  <1>4. CASE ReadFrame
    <2> DEFINE f == Head(stdout)
    <2>1. /\ held = NoFrame /\ stdout # <<>> /\ stdout' = Tail(stdout)
          /\ UNCHANGED <<pending, chan, reqID, outcome, answered>>
      BY <1>4 DEF ReadFrame, serverVars
    <2>2. /\ \A n : HasAnswer(stdout', n) => HasAnswer(stdout, n)
          /\ AnswersDiffer(stdout')
          /\ f.kind = "answer" => ~HasAnswer(stdout', f.id)
          /\ \A i \in 1..Len(stdout') : i+1 \in 1..Len(stdout) /\ stdout'[i] = stdout[i+1]
          /\ 1 \in 1..Len(stdout) /\ f = stdout[1]
      BY <1>0, <2>1, AnswerRead
    <2>3. \A i \in 1..Len(stdout') :
            stdout'[i].kind = "other" \/ (stdout'[i].kind = "answer" /\ stdout'[i].id \in answered)
      BY <2>2
    <2>4. ASSUME held' # NoFrame
          PROVE  /\ held'.kind = "answer" /\ held'.id \in answered
                 /\ reqID[target'] = held'.id
                 /\ ~HasAnswer(stdout', held'.id)
                 /\ chan[target'] = NoFrame
      <3>1. f.kind # "other" /\ f.id \in DOMAIN pending /\ held' = f /\ target' = pending[f.id]
        BY <1>4, <2>1, <2>4 DEF ReadFrame
      <3>2. f.kind = "answer" /\ f.id \in answered /\ HasAnswer(stdout, f.id)
        BY <2>2, <3>1 DEF HasAnswer
      <3>3. target' \in Calls /\ reqID[target'] = f.id
        BY <3>1 DEF PendingOwned, TypeOK
      <3>4. chan[target'] = NoFrame
        BY <3>2, <3>3
      <3> QED BY <2>2, <3>1, <3>2, <3>3, <3>4
    <2>5. \A c \in Calls : chan[c] # NoFrame => ~HasAnswer(stdout', reqID[c])
      BY <2>2
    <2> HIDE DEF f
    <2> QED BY <2>1, <2>2, <2>3, <2>4, <2>5
  <1>5. CASE Deliver
    <2>1. /\ held # NoFrame /\ held' = NoFrame
          /\ chan' = [chan EXCEPT ![target] = held]
          /\ UNCHANGED <<reqID, outcome, stdout, answered>>
      BY <1>5 DEF Deliver, serverVars
    <2>2. held = [kind |-> "answer", id |-> reqID[target]] /\ target \in Calls
      BY <1>0, <2>1 DEF Frame
    <2>3. \A c \in Calls : chan'[c] # NoFrame =>
            /\ chan'[c] = [kind |-> "answer", id |-> reqID[c]]
            /\ reqID[c] \in answered
            /\ ~HasAnswer(stdout, reqID[c])
      BY <1>0, <2>1, <2>2
    <2> QED BY <2>1, <2>3
  <1>6. ASSUME NEW n \in owed, ServerAnswer(n) PROVE AnswerOnce'
    <2> DEFINE f == [kind |-> "answer", id |-> n]
    <2>1. /\ stdout' = Append(stdout, f) /\ answered' = answered \cup {n}
          /\ UNCHANGED <<reqID, chan, outcome, held, target>>
      BY <1>6 DEF ServerAnswer, ServerWrites, clientVars
    <2>2. n \notin answered /\ n \in Nat
      BY DEF RequestOnce, TypeOK
    <2>3. ~HasAnswer(stdout, n)
      BY <2>2 DEF HasAnswer
    <2>4. /\ \A m : HasAnswer(stdout', m) <=> HasAnswer(stdout, m) \/ m = n
          /\ AnswersDiffer(stdout')
          /\ \A i \in 1..Len(stdout') : (i \in 1..Len(stdout) /\ stdout'[i] = stdout[i]) \/ stdout'[i] = f
      BY <1>0, <2>1, <2>2, <2>3, FrameTypes, AnswerAppended
    <2>5. \A i \in 1..Len(stdout') :
            stdout'[i].kind = "other" \/ (stdout'[i].kind = "answer" /\ stdout'[i].id \in answered')
      BY <2>1, <2>4
    <2>6. held # NoFrame => held.id # n
      BY <2>2
    <2>7. \A c \in Calls : chan[c] # NoFrame => reqID[c] # n
      BY <2>2
    <2> HIDE DEF f
    <2> QED BY <2>1, <2>4, <2>5, <2>6, <2>7
  <1>7. CASE ServerNotify
    <2> DEFINE f == [kind |-> "other", id |-> 0]
    <2>1. /\ stdout' = Append(stdout, f)
          /\ UNCHANGED <<reqID, chan, outcome, held, target, answered>>
      BY <1>7 DEF ServerNotify, ServerWrites, clientVars, serverVars
    <2>2. /\ \A m : HasAnswer(stdout', m) <=> HasAnswer(stdout, m)
          /\ AnswersDiffer(stdout')
          /\ \A i \in 1..Len(stdout') : (i \in 1..Len(stdout) /\ stdout'[i] = stdout[i]) \/ stdout'[i] = f
      BY <1>0, <2>1, FrameTypes, AnswerAppended
    <2>3. \A i \in 1..Len(stdout') :
            stdout'[i].kind = "other" \/ (stdout'[i].kind = "answer" /\ stdout'[i].id \in answered)
      BY <2>1, <2>2
    <2> HIDE DEF f
    <2> QED BY <2>1, <2>2, <2>3
  <1>8. ASSUME UNCHANGED <<reqID, chan, outcome, held, target, stdout, answered>> PROVE AnswerOnce'
    BY <1>8
  <1>9. QED
    <2>1. ASSUME NEW c \in Calls,
                 \/ Register(c) \/ LockWrite(c) \/ WriteHeader(c) \/ WriteBody(c) \/ UnlockWrite(c)
                 \/ Leave(c) \/ Cancel(c)
          PROVE UNCHANGED <<reqID, chan, outcome, held, target, stdout, answered>>
      BY <2>1 DEF Register, LockWrite, WriteHeader, WriteBody, WriteHalf, UnlockWrite, Leave, Cancel, serverVars
    <2>2. ASSUME ReaderExit \/ ServerRead \/ ServerDies \/ UNCHANGED vars
          PROVE UNCHANGED <<reqID, chan, outcome, held, target, stdout, answered>>
      BY <2>2 DEF ReaderExit, ServerRead, ServerDies, vars, clientVars, serverVars
    <2> QED BY <1>1, <1>2, <1>3, <1>4, <1>5, <1>6, <1>7, <1>8, <2>1, <2>2, StepCases

\* Every step keeps outcomes to the calls that end.
LEMMA EndedStep == TypeOK /\ EndedOnce /\ [Next]_vars => EndedOnce'
  <1> SUFFICES ASSUME TypeOK, EndedOnce, [Next]_vars PROVE EndedOnce'
    OBVIOUS
  <1> USE DEF EndedOnce
  <1>0. pc \in [Calls -> Steps] /\ outcome \in [Calls -> Outcomes]
    BY DEF TypeOK
  <1>1. ASSUME NEW c \in Calls, SendFails(c) \/ SeeDone(c) \/ SeeCancel(c) \/ Receive(c) PROVE EndedOnce'
    <2>1. pc' = [pc EXCEPT ![c] = "leaving"]
      BY <1>1 DEF SendFails, SeeDone, SeeCancel, Receive, Goto
    <2>2. \E o : o.how # "none" /\ outcome' = [outcome EXCEPT ![c] = o]
      <3>1. CASE Receive(c)
        BY <3>1 DEF Receive
      <3>2. CASE SendFails(c) \/ SeeDone(c) \/ SeeCancel(c)
        BY <3>2 DEF SendFails, SeeDone, SeeCancel, Returned
      <3> QED BY <1>1, <3>1, <3>2
    <2> QED BY <1>0, <2>1, <2>2
  <1>2. ASSUME NEW c \in Calls,
               \/ TakeID(c) \/ Register(c) \/ LockWrite(c) \/ WriteHeader(c) \/ WriteBody(c)
               \/ UnlockWrite(c) \/ Leave(c)
        PROVE  EndedOnce'
    <2>1. \E to \in Steps : /\ pc[c] \in {"leaving", "returned"} <=> to \in {"leaving", "returned"}
                            /\ pc' = [pc EXCEPT ![c] = to]
      BY <1>2 DEF TakeID, Register, LockWrite, WriteHeader, WriteBody, WriteHalf, UnlockWrite, Leave, Goto, Steps
    <2>2. outcome' = outcome
      BY <1>2 DEF TakeID, Register, LockWrite, WriteHeader, WriteBody, WriteHalf, UnlockWrite, Leave
    <2> QED BY <1>0, <2>1, <2>2
  <1>3. ASSUME UNCHANGED <<pc, outcome>> PROVE EndedOnce'
    BY <1>3
  <1>4. QED
    <2>1. ASSUME NEW c \in Calls, Cancel(c) PROVE UNCHANGED <<pc, outcome>>
      BY <2>1 DEF Cancel
    <2>2. ASSUME ReadFrame \/ Deliver \/ ReaderExit PROVE UNCHANGED <<pc, outcome>>
      BY <2>2 DEF ReadFrame, Deliver, ReaderExit
    <2>3. ASSUME ServerRead \/ ServerNotify \/ ServerDies \/ (\E n \in owed : ServerAnswer(n))
                 \/ (\E n \in ServerIds : ServerAsk(n)) \/ UNCHANGED vars
          PROVE UNCHANGED <<pc, outcome>>
      BY <2>3 DEF ServerRead, ServerNotify, ServerDies, ServerAnswer, ServerAsk, vars, clientVars
    <2> QED BY <1>1, <1>2, <1>3, <2>1, <2>2, <2>3, StepCases

\* The strengthened invariant holds always.
LEMMA Inductive == ASSUME ServerIds = {} PROVE Spec => []IInv
  <1>1. Init => IInv
    <2>1. Init => EndedOnce
      BY DEF Init, EndedOnce, Returned
    <2> QED BY <2>1, TypeInit, IdsInit, OwnedInit, RequestInit, AnswerInit DEF IInv
  <1>2. IInv /\ [Next]_vars => IInv'
    BY TypeStep, IdsStep, OwnedStep, RequestStep, AnswerStep, EndedStep DEF IInv
  <1> QED BY <1>1, <1>2, PTL DEF Spec

\* With a server whose own requests do not use integer ids, a call that returns data
\* returns the answer to its own request.
THEOREM AnswersMatch == ASSUME ServerIds = {} PROVE Spec => []OwnAnswer
  <1>1. IInv => OwnAnswer
    BY DEF IInv, AnswerOnce, OwnAnswer
  <1> QED BY <1>1, Inductive, PTL

\* With such a server readLoop never blocks on the channel of a call.
THEOREM ReaderNeverBlocks == ASSUME ServerIds = {} PROVE Spec => []ReaderNeverStuck
  <1>1. IInv => ReaderNeverStuck
    BY DEF IInv, AnswerOnce, ReaderNeverStuck
  <1> QED BY <1>1, Inductive, PTL

-----------------------------------------------------------------------------
\* The transport starts as the service does.
LEMMA RefinesInit == Init => Service!Init
  BY DEF Init, Service!Init, Phase, Replied, Returned

\* Every step of the transport is a step of the service or a stutter.
LEMMA RefinesStep == IInv /\ [Next]_vars => [Service!Next]_<<Phase, Replied>>
  <1> SUFFICES ASSUME IInv, [Next]_vars PROVE Service!Next \/ UNCHANGED <<Phase, Replied>>
    OBVIOUS
  <1>0. /\ pc \in [Calls -> Steps] /\ reqID \in [Calls -> Nat] /\ outcome \in [Calls -> Outcomes]
        /\ nextID \in Nat /\ answered \subseteq 1..nextID /\ 0 \notin answered
        /\ \A d \in Calls : (outcome[d].how = "none") <=> pc[d] \notin {"leaving", "returned"}
    BY DEF IInv, TypeOK, RequestOnce, EndedOnce
  <1>1. ASSUME NEW c \in Calls, TakeID(c) PROVE Service!Ask(c)
    <2>1. /\ pc[c] = "new" /\ pc' = [pc EXCEPT ![c] = "numbered"]
          /\ reqID' = [reqID EXCEPT ![c] = nextID + 1]
          /\ UNCHANGED <<outcome, answered>>
      BY <1>1 DEF TakeID, Goto, serverVars
    <2>2. reqID[c] = 0 /\ nextID + 1 \notin answered
      BY <1>0, <2>1 DEF IInv, IdsUnique
    <2>3. Replied' = Replied
      BY <1>0, <2>1, <2>2 DEF Replied
    <2>4. Phase[c] = "idle" /\ Phase' = [Phase EXCEPT ![c] = "asked"]
      BY <1>0, <2>1 DEF Phase
    <2> QED BY <2>3, <2>4 DEF Service!Ask
  <1>2. ASSUME NEW c \in Calls, Receive(c) PROVE Service!Take(c)
    <2>1. /\ pc[c] = "waiting" /\ pc' = [pc EXCEPT ![c] = "leaving"]
          /\ chan[c] # NoFrame
          /\ outcome' = [outcome EXCEPT ![c] = [how |-> "data", frame |-> chan[c]]]
          /\ UNCHANGED <<reqID, answered>>
      BY <1>2 DEF Receive, Goto, serverVars
    <2>2. c \in Replied /\ Replied' = Replied
      BY <2>1 DEF Replied, IInv, AnswerOnce
    <2>3. Phase[c] = "asked" /\ Phase' = [Phase EXCEPT ![c] = "replied"]
      BY <1>0, <2>1 DEF Phase
    <2> QED BY <2>2, <2>3 DEF Service!Take
  <1>3. ASSUME NEW c \in Calls, SendFails(c) \/ SeeDone(c) \/ SeeCancel(c) PROVE Service!GiveUp(c)
    <2>1. /\ pc[c] \in {"header", "body", "waiting"} /\ pc' = [pc EXCEPT ![c] = "leaving"]
          /\ \E how \in {"sendError", "died", "cancelled"} : outcome' = [outcome EXCEPT ![c] = Returned(how)]
          /\ UNCHANGED <<reqID, answered>>
      BY <1>3 DEF SendFails, SeeDone, SeeCancel, Goto, serverVars
    <2>2. Replied' = Replied
      BY <2>1 DEF Replied
    <2>3. outcome'[c].how \in {"sendError", "died", "cancelled"}
          /\ \A d \in Calls \ {c} : outcome'[d] = outcome[d]
      BY <1>0, <2>1 DEF Returned
    <2>4. pc[c] # "new" /\ outcome[c].how = "none" /\ pc'[c] # "new"
          /\ \A d \in Calls \ {c} : pc'[d] = pc[d]
      BY <1>0, <2>1
    <2>5. Phase[c] = "asked" /\ Phase' = [Phase EXCEPT ![c] = "failed"]
      BY <2>3, <2>4 DEF Phase
    <2> QED BY <2>2, <2>5 DEF Service!GiveUp
  <1>4. ASSUME NEW n \in owed, ServerAnswer(n) PROVE \E c \in Calls : Service!Reply(c)
    <2>1. /\ answered' = answered \cup {n} /\ UNCHANGED <<pc, reqID, outcome>>
      BY <1>4 DEF ServerAnswer, clientVars
    <2>2. n \in 1..nextID /\ n \notin answered
      BY DEF IInv, RequestOnce
    <2>3. PICK c \in Calls : reqID[c] = n
      BY <2>2 DEF IInv, IdsUnique
    <2>4. \A d \in Calls : reqID[d] = n => d = c
      BY <1>0, <2>2, <2>3 DEF IInv, IdsUnique
    <2>5. c \notin Replied /\ Replied' = Replied \cup {c}
      BY <2>1, <2>2, <2>3, <2>4 DEF Replied
    <2>6. Phase' = Phase
      BY <2>1 DEF Phase
    <2>7. pc[c] # "new" /\ outcome[c].how # "data"
      <3>1. reqID[c] # 0 /\ reqID[c] \notin answered
        BY <1>0, <2>2, <2>3
      <3> QED BY <3>1 DEF IInv, IdsUnique, AnswerOnce
    <2>8. Phase[c] \in {"asked", "failed"}
      BY <2>7 DEF Phase
    <2> QED BY <2>5, <2>6, <2>8 DEF Service!Reply
  <1>5. ASSUME NEW c \in Calls,
               Register(c) \/ LockWrite(c) \/ WriteHeader(c) \/ WriteBody(c) \/ UnlockWrite(c) \/ Leave(c)
        PROVE  UNCHANGED <<Phase, Replied>>
    <2>1. /\ UNCHANGED <<outcome, reqID, answered>>
          /\ \E to \in Steps \ {"new"} : pc[c] # "new" /\ pc' = [pc EXCEPT ![c] = to]
      BY <1>5 DEF Register, LockWrite, WriteHeader, WriteBody, WriteHalf, UnlockWrite, Leave, Goto, Steps, serverVars
    <2>2. \A d \in Calls : (pc'[d] = "new") <=> (pc[d] = "new")
      BY <1>0, <2>1
    <2> QED BY <2>1, <2>2 DEF Phase, Replied
  <1>6. ASSUME \/ \E c \in Calls : Cancel(c)
               \/ ReadFrame \/ Deliver \/ ReaderExit \/ ServerRead \/ ServerNotify \/ ServerDies
               \/ \E n \in ServerIds : ServerAsk(n)
               \/ UNCHANGED vars
        PROVE  UNCHANGED <<Phase, Replied>>
    <2>1. UNCHANGED <<pc, outcome, reqID, answered>>
      BY <1>6 DEF Cancel, ReadFrame, Deliver, ReaderExit, ServerRead, ServerNotify, ServerDies, ServerAsk,
                  vars, clientVars, serverVars
    <2> QED BY <2>1 DEF Phase, Replied
  <1> QED
    BY <1>1, <1>2, <1>3, <1>4, <1>5, <1>6, StepCases DEF Service!Next

\* Callers of the transport see a request/reply service, for any number of calls and any
\* pipe capacity, while the server's own requests do not use integer ids.
THEOREM TransportRefines == ASSUME ServerIds = {} PROVE Spec => ImplementsRequestReply
  BY RefinesInit, RefinesStep, Inductive, PTL DEF Spec, Service!Spec, ImplementsRequestReply
=============================================================================
