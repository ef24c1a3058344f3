-------------------------- MODULE LspManagerProofs --------------------------
(***************************************************************************)
(* Proofs about LspManager, for any calls, files, languages and number of  *)
(* candidates.  ServersAreShared becomes inductive together with the       *)
(* types, the servers that are out of their handshake (Ready) and the      *)
(* calls that are about to open a file (Opening).                          *)
(***************************************************************************)
EXTENDS LspManager, TLAPS

\* A call that shakes hands has a candidate left, so that the next one exists or is the end.
Bounded == \A r \in Requests : pc[r] = "handshake" => attempt[r] <= Candidates

\* Where the call that spawned a server stands once the server has answered: never again at
\* a handshake.
Answered == {"install", "open", "read", "didOpen", "query", "done", "failed"}

Ready ==
    /\ \A r \in Requests : got[r] # NoServer =>
         pc[Spawner(got[r])] \in Answered /\ Lang(Spawner(got[r])) = Lang(r)
    /\ \A l \in Langs : clients[l] # NoServer =>
         pc[Spawner(clients[l])] \in Answered /\ Lang(Spawner(clients[l])) = l

Opener(r) == pc[r] \in {"read", "didOpen"}

\* openFiles gives the file to one call, which sends the only didOpen.
Opening ==
    /\ \A r \in Requests : Opener(r) => FileOf[r] \in openFiles /\ opens[FileOf[r]] = 0
    /\ \A r, q \in Requests : Opener(r) /\ Opener(q) /\ FileOf[r] = FileOf[q] => r = q
    /\ \A f \in Files : f \notin openFiles => opens[f] = 0

IInv == TypeOK /\ Bounded /\ SingleFlight /\ NoLostWakeup /\ Ready /\ Opening /\ DidOpenOnce

-----------------------------------------------------------------------------
(* The kinds of servers and languages.                                     *)

\* Every server was spawned by a call, for one of its candidates.
LEMMA SpawnerIsCall ==
    ASSUME NEW s \in Servers
    PROVE  Spawner(s) \in Requests /\ s[2] \in 1..Candidates
BY DEF Servers, Spawner

\* Every call asks about a file of a known language.
LEMMA LangIsLang ==
    ASSUME NEW r \in Requests
    PROVE  FileOf[r] \in Files /\ Lang(r) \in Langs
BY ManagerAssumption DEF Lang

\* The invariant of the run follows from the inductive one.
LEMMA IInvImpliesShared ==
    ASSUME IInv
    PROVE  ServersAreShared
<1>1. ASSUME NEW r \in Requests, got[r] # NoServer
      PROVE  /\ Lang(Spawner(got[r])) = Lang(r)
             /\ pc[Spawner(got[r])] # "handshake" \/ attempt[Spawner(got[r])] # got[r][2]
    BY <1>1 DEF IInv, Ready, Answered
<1> QED BY <1>1 DEF ServersAreShared, RightServer, IInv

\* Before the first call there is nothing to go wrong.
LEMMA InitIInv == Init => IInv
<1> SUFFICES ASSUME Init PROVE IInv
    OBVIOUS
<1>1. TypeOK
    <2>1. 1 \in 1..(Candidates + 1)
        BY ManagerAssumption
    <2> QED BY <2>1 DEF Init, TypeOK
<1>2. Bounded /\ NoLostWakeup /\ Ready /\ Opening /\ DidOpenOnce
    BY DEF Init, Bounded, NoLostWakeup, Ready, Opening, Opener, DidOpenOnce
<1>3. SingleFlight
    BY DEF Init, SingleFlight, Starting
<1> QED BY <1>1, <1>2, <1>3 DEF IInv

-----------------------------------------------------------------------------
(* One lemma for each part of the invariant.                               *)

\* startServer tries no candidate past the last, so the next one exists or is the end.
LEMMA TypeStep ==
    ASSUME IInv, [Next]_vars
    PROVE  TypeOK' /\ Bounded'
<1> USE ManagerAssumption
<1> USE DEF IInv, Bounded, Goto
<1>1. ASSUME NEW r \in Requests, RequestStep(r) PROVE TypeOK' /\ Bounded'
    <2>0. Lang(r) \in Langs /\ FileOf[r] \in Files
        BY LangIsLang
    <2>1. CASE UseClient(r) BY <2>0, <2>1 DEF UseClient, TypeOK
    <2>2. CASE WaitForStart(r) BY <2>0, <2>2 DEF WaitForStart, TypeOK
    <2>3. CASE WaitedInVain(r) BY <2>0, <2>3 DEF WaitedInVain, TypeOK
    <2>4. CASE BeginStart(r) BY <2>0, <2>4 DEF BeginStart, TypeOK
    <2>5. CASE Install(r) BY <2>0, <2>5 DEF Install, StopStarting, TypeOK
    <2>6. CASE StartFails(r) BY <2>0, <2>6 DEF StartFails, StopStarting, TypeOK
    <2>7. CASE NotFound(r) BY <2>0, <2>7 DEF NotFound, TryNext, TypeOK
    <2>8. CASE Spawn(r) BY <2>0, <2>8 DEF Spawn, Current, Servers, TypeOK
    <2>9. CASE Initialized(r) BY <2>0, <2>9 DEF Initialized, Current, Servers, TypeOK
    <2>10. CASE InitializeFails(r) BY <2>0, <2>10 DEF InitializeFails, TryNext, TypeOK
    <2>11. CASE MarkOpen(r) BY <2>0, <2>11 DEF MarkOpen, TypeOK
    <2>12. CASE ReadFile(r) BY <2>0, <2>12 DEF ReadFile, TypeOK
    <2>13. CASE DidOpen(r) BY <2>0, <2>13 DEF DidOpen, TypeOK
    <2>14. CASE DidOpenFails(r) BY <2>0, <2>14 DEF DidOpenFails, TypeOK
    <2>15. CASE Query(r) BY <2>0, <2>15 DEF Query, TypeOK
    <2> QED BY <1>1, <2>1, <2>2, <2>3, <2>4, <2>5, <2>6, <2>7, <2>8, <2>9, <2>10, <2>11,
               <2>12, <2>13, <2>14, <2>15 DEF RequestStep
<1>2. ASSUME NEW r \in Requests, Cancel(r) PROVE TypeOK' /\ Bounded'
    BY <1>2 DEF Cancel, TypeOK
<1>3. ASSUME NEW s \in Servers, KillWithContext(s) \/ ServerExits(s) PROVE TypeOK' /\ Bounded'
    BY <1>3 DEF KillWithContext, ServerExits, TypeOK
<1>4. CASE Shutdown
    BY <1>4 DEF Shutdown, TypeOK
<1>5. CASE UNCHANGED vars
    BY <1>5 DEF vars, TypeOK
<1> QED BY <1>1, <1>2, <1>3, <1>4, <1>5 DEF Next

\* Only the start of a language begins a start, and only where none is: the two that end it
\* take the language out of starting as they leave.
LEMMA FlightStep ==
    ASSUME IInv, [Next]_vars
    PROVE  SingleFlight'
<1> USE DEF IInv, TypeOK, SingleFlight, Starting, Goto
<1>1. ASSUME NEW r \in Requests, RequestStep(r) PROVE SingleFlight'
    <2>0. \A q \in Requests : Lang(q) \in Langs
        BY LangIsLang
    <2>1. CASE UseClient(r) BY <2>0, <2>1 DEF UseClient, Lang
    <2>2. CASE WaitForStart(r) BY <2>0, <2>2 DEF WaitForStart, Lang
    <2>3. CASE WaitedInVain(r) BY <2>0, <2>3 DEF WaitedInVain, Lang
    <2>4. CASE BeginStart(r) BY <2>0, <2>4 DEF BeginStart, Lang
    <2>5. CASE Install(r) BY <2>0, <2>5 DEF Install, StopStarting, Lang
    <2>6. CASE StartFails(r) BY <2>0, <2>6 DEF StartFails, StopStarting, Lang
    <2>7. CASE NotFound(r) BY <2>0, <2>7 DEF NotFound, TryNext, Lang
    <2>8. CASE Spawn(r) BY <2>0, <2>8 DEF Spawn, Lang
    <2>9. CASE Initialized(r) BY <2>0, <2>9 DEF Initialized, Lang
    <2>10. CASE InitializeFails(r) BY <2>0, <2>10 DEF InitializeFails, TryNext, Lang
    <2>11. CASE MarkOpen(r) BY <2>0, <2>11 DEF MarkOpen, Lang
    <2>12. CASE ReadFile(r) BY <2>0, <2>12 DEF ReadFile, Lang
    <2>13. CASE DidOpen(r) \/ DidOpenFails(r) \/ Query(r)
        BY <2>0, <2>13 DEF DidOpen, DidOpenFails, Query, Lang
    <2> QED BY <1>1, <2>1, <2>2, <2>3, <2>4, <2>5, <2>6, <2>7, <2>8, <2>9, <2>10, <2>11,
               <2>12, <2>13 DEF RequestStep
<1>2. ASSUME NEW r \in Requests, Cancel(r) PROVE SingleFlight'
    BY <1>2 DEF Cancel, Lang
<1>3. ASSUME NEW s \in Servers, KillWithContext(s) \/ ServerExits(s) PROVE SingleFlight'
    BY <1>3 DEF KillWithContext, ServerExits, Lang
<1>4. CASE Shutdown
    <2>1. \A r \in Requests : ~Starting(r)
        BY <1>4 DEF Shutdown, Over
    <2> QED BY <1>4, <2>1 DEF Shutdown
<1>5. CASE UNCHANGED vars
    BY <1>5 DEF vars, Lang
<1> QED BY <1>1, <1>2, <1>3, <1>4, <1>5 DEF Next

\* A waiter sleeps only while its language is being started; whoever ends a start wakes them all.
LEMMA WakeStep ==
    ASSUME IInv, [Next]_vars
    PROVE  NoLostWakeup'
<1> USE DEF IInv, TypeOK, NoLostWakeup, Goto
<1>1. ASSUME NEW r \in Requests, RequestStep(r) PROVE NoLostWakeup'
    <2>1. CASE UseClient(r) \/ WaitForStart(r) \/ WaitedInVain(r)
        BY <2>1 DEF UseClient, WaitForStart, WaitedInVain, Lang
    <2>2. CASE BeginStart(r)
        BY <2>2 DEF BeginStart, Lang
    <2>3. CASE Install(r) \/ StartFails(r)
        BY <2>3 DEF Install, StartFails, StopStarting, Lang
    <2>4. CASE NotFound(r) \/ Spawn(r) \/ Initialized(r) \/ InitializeFails(r)
        BY <2>4 DEF NotFound, Spawn, Initialized, InitializeFails, TryNext, Lang
    <2>5. CASE MarkOpen(r) \/ ReadFile(r) \/ DidOpen(r) \/ DidOpenFails(r) \/ Query(r)
        BY <2>5 DEF MarkOpen, ReadFile, DidOpen, DidOpenFails, Query, Lang
    <2> QED BY <1>1, <2>1, <2>2, <2>3, <2>4, <2>5 DEF RequestStep
<1>2. ASSUME NEW r \in Requests, Cancel(r) PROVE NoLostWakeup'
    BY <1>2 DEF Cancel, Lang
<1>3. ASSUME NEW s \in Servers, KillWithContext(s) \/ ServerExits(s) PROVE NoLostWakeup'
    BY <1>3 DEF KillWithContext, ServerExits, Lang
<1>4. CASE Shutdown
    BY <1>4 DEF Shutdown, Lang
<1>5. CASE UNCHANGED vars
    BY <1>5 DEF vars, Lang
<1> QED BY <1>1, <1>2, <1>3, <1>4, <1>5 DEF Next

\* No call goes back from where its server has answered.
LEMMA AnsweredStays ==
    ASSUME IInv, [Next]_vars, NEW q \in Requests, pc[q] \in Answered
    PROVE  pc'[q] \in Answered
<1> USE DEF IInv, TypeOK, Answered, Goto
<1>1. ASSUME NEW r \in Requests, RequestStep(r) PROVE pc'[q] \in Answered
    <2>1. CASE UseClient(r) \/ WaitForStart(r) \/ WaitedInVain(r) \/ BeginStart(r)
        BY <2>1 DEF UseClient, WaitForStart, WaitedInVain, BeginStart
    <2>2. CASE Install(r) \/ StartFails(r) \/ NotFound(r) \/ Spawn(r)
        BY <2>2 DEF Install, StartFails, NotFound, Spawn
    <2>3. CASE Initialized(r) \/ InitializeFails(r)
        BY <2>3 DEF Initialized, InitializeFails
    <2>4. CASE MarkOpen(r) \/ ReadFile(r) \/ DidOpen(r) \/ DidOpenFails(r) \/ Query(r)
        BY <2>4 DEF MarkOpen, ReadFile, DidOpen, DidOpenFails, Query
    <2> QED BY <1>1, <2>1, <2>2, <2>3, <2>4 DEF RequestStep
<1>2. CASE UNCHANGED pc
    BY <1>2
<1> QED BY <1>1, <1>2 DEF Next, Cancel, KillWithContext, ServerExits, Shutdown, vars

\* A call holds what is installed for its language or what it has just shaken hands with.
LEMMA ReadyStep ==
    ASSUME IInv, [Next]_vars
    PROVE  Ready'
<1>0. TypeOK /\ Ready
    BY DEF IInv
<1>1. \A s \in Servers : pc[Spawner(s)] \in Answered => pc'[Spawner(s)] \in Answered
    BY AnsweredStays, SpawnerIsCall
<1>2. ASSUME UNCHANGED <<got, clients>> PROVE Ready'
    BY <1>0, <1>1, <1>2 DEF Ready, TypeOK, Lang
<1>3. ASSUME NEW r \in Requests, UseClient(r) PROVE Ready'
    <2>1. Lang(r) \in Langs
        BY LangIsLang
    <2>2. clients' = clients /\ got' = [got EXCEPT ![r] = clients[Lang(r)]]
        BY <1>3 DEF UseClient
    <2> QED BY <1>0, <1>1, <2>1, <2>2 DEF Ready, TypeOK, Lang
<1>4. ASSUME NEW r \in Requests, Install(r) PROVE Ready'
    <2>1. Lang(r) \in Langs
        BY LangIsLang
    <2>2. got' = got /\ clients' = [clients EXCEPT ![Lang(r)] = got[r]]
        BY <1>4 DEF Install
    <2> QED BY <1>0, <1>1, <2>1, <2>2 DEF Ready, TypeOK, Lang
<1>5. ASSUME NEW r \in Requests, Initialized(r) PROVE Ready'
    <2>1. Current(r) \in Servers /\ Spawner(Current(r)) = r
        BY <1>5, ManagerAssumption DEF Initialized, Goto, IInv, Bounded, TypeOK, Current, Servers, Spawner
    <2>2. clients' = clients /\ got' = [got EXCEPT ![r] = Current(r)] /\ pc'[r] \in Answered
        BY <1>5, <1>0 DEF Initialized, Goto, TypeOK, Answered
    <2> QED BY <1>0, <1>1, <2>1, <2>2 DEF Ready, TypeOK, Lang
<1>6. CASE Shutdown
    <2>1. got' = got /\ clients' = [l \in Langs |-> NoServer]
        BY <1>6 DEF Shutdown
    <2> QED BY <1>0, <1>1, <2>1 DEF Ready, TypeOK, Lang
<1>7. ASSUME NEW r \in Requests, RequestStep(r) PROVE Ready'
    BY <1>2, <1>3, <1>4, <1>5, <1>7
       DEF RequestStep, WaitForStart, WaitedInVain, BeginStart, StartFails, NotFound, Spawn,
           InitializeFails, TryNext, MarkOpen, ReadFile, DidOpen, DidOpenFails, Query
<1> QED BY <1>2, <1>6, <1>7 DEF Next, Cancel, KillWithContext, ServerExits, vars

\* MarkOpen looks at openFiles and adds the file in one step.
LEMMA OpenStep ==
    ASSUME IInv, [Next]_vars
    PROVE  Opening' /\ DidOpenOnce'
<1> USE DEF IInv, TypeOK, Opening, Opener, DidOpenOnce, Goto
<1>0. \A r \in Requests : FileOf[r] \in Files
    BY LangIsLang
<1>1. ASSUME NEW r \in Requests, RequestStep(r) PROVE Opening' /\ DidOpenOnce'
    <2>1. CASE UseClient(r) \/ WaitForStart(r) \/ WaitedInVain(r) \/ BeginStart(r)
        BY <2>1 DEF UseClient, WaitForStart, WaitedInVain, BeginStart
    <2>2. CASE Install(r) \/ StartFails(r) \/ NotFound(r) \/ Spawn(r)
        BY <2>2 DEF Install, StartFails, NotFound, Spawn, TryNext
    <2>3. CASE Initialized(r) \/ InitializeFails(r)
        BY <2>3 DEF Initialized, InitializeFails, TryNext
    <2>4. CASE MarkOpen(r)
        BY <1>0, <2>4 DEF MarkOpen
    <2>5. CASE ReadFile(r)
        BY <2>5 DEF ReadFile
    <2>6. CASE DidOpen(r)
        BY <1>0, <2>6 DEF DidOpen
    <2>7. CASE DidOpenFails(r) \/ Query(r)
        BY <2>7 DEF DidOpenFails, Query
    <2> QED BY <1>1, <2>1, <2>2, <2>3, <2>4, <2>5, <2>6, <2>7 DEF RequestStep
<1>2. CASE UNCHANGED <<pc, openFiles, opens>>
    BY <1>2
<1> QED BY <1>1, <1>2 DEF Next, Cancel, KillWithContext, ServerExits, Shutdown, vars

\* The parts make one inductive invariant.
LEMMA NextIInv == IInv /\ [Next]_vars => IInv'
BY TypeStep, FlightStep, WakeStep, ReadyStep, OpenStep DEF IInv

-----------------------------------------------------------------------------
\* The types of the manager (lsp/manager.go).
THEOREM ManagerTyped == Spec => []TypeOK
<1>1. IInv => TypeOK
    BY DEF IInv
<1> QED BY <1>1, InitIInv, NextIInv, PTL DEF Spec

\* However calls overlap, fail and are cancelled, there is one start per language at a time, no
\* waiter is forgotten, nobody is handed a wrong or unready server, and one didOpen goes out for
\* a file (lsp/manager.go:79, manager.go:153).
THEOREM SharingIsSound == Spec => []ServersAreShared
<1>1. IInv => ServersAreShared
    BY IInvImpliesShared
<1> QED BY <1>1, InitIInv, NextIInv, PTL DEF Spec

\* A client is installed only where none is: none is overwritten and left running
\* (lsp/manager.go:114).
THEOREM InstalledStays ==
    Spec => [][\A l \in Langs : clients[l] # NoServer => clients'[l] = clients[l] \/ closed']_vars
<1>1. IInv /\ [Next]_vars =>
        [\A l \in Langs : clients[l] # NoServer => clients'[l] = clients[l] \/ closed']_vars
    <2> SUFFICES ASSUME IInv, Next, NEW l \in Langs, clients[l] # NoServer
                 PROVE  clients'[l] = clients[l] \/ closed'
        OBVIOUS
    <2>1. ASSUME NEW r \in Requests, Install(r) PROVE clients'[l] = clients[l]
        <3>1. Lang(r) # l
            BY <2>1 DEF Install, Goto, IInv, SingleFlight, Starting
        <3> QED BY <2>1, <3>1 DEF Install, IInv, TypeOK
    <2>2. CASE Shutdown
        BY <2>2 DEF Shutdown
    <2>3. CASE UNCHANGED clients
        BY <2>3
    <2> QED BY <2>1, <2>2, <2>3
            DEF Next, RequestStep, UseClient, WaitForStart, WaitedInVain, BeginStart, StartFails,
                NotFound, Spawn, Initialized, InitializeFails, TryNext, MarkOpen, ReadFile, DidOpen,
                DidOpenFails, Query, Cancel, KillWithContext, ServerExits
<1> QED BY <1>1, InitIInv, NextIInv, PTL DEF Spec
=============================================================================
