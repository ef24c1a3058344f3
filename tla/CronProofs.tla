----------------------------- MODULE CronProofs -----------------------------
(* Proofs about Cron, for any tasks, schedules, instances and lengths of a  *)
(* day, of a week and of the history.  The lock holds as long as every open *)
(* lock file is the one at its path (OneFile); a success is forgotten by    *)
(* nobody but those that say so: it is in the history, or with an instance  *)
(* that is about to write it down (Remembered).                             *)
EXTENDS Cron, FiniteSetTheorems, SequenceTheorems, WellFoundedInduction, TLAPS

Pcs == {"out", "opened", "inside", "run", "record", "rotate", "rename", "unlock", "unlink"}
Lines == [task : Tasks, at : Nat, ok : BOOLEAN]
Outcomes == [task : Tasks, ok : BOOLEAN]
Success(t) == [task |-> t, ok |-> TRUE]

Kinds ==
  /\ now \in 0 .. MaxNow /\ \A t \in Tasks : sched[t] \in Schedules[t]
  /\ lockFile \in Inodes \cup {NoFile} /\ fd \in [Procs -> Inodes \cup {NoFile}]
  /\ locked \subseteq Procs /\ pc \in [Procs -> Pcs]
  /\ todo \in [Procs -> SUBSET Tasks] /\ collected \in [Procs -> SUBSET Outcomes]
  /\ history \in Seq(Lines) /\ keep \in [Procs -> Seq(Lines)]
  /\ lastOk \in [Tasks -> Int] /\ \A t \in Tasks : lastOk[t] \in -1 .. now
  /\ cause \in [Tasks -> {"none", "rotated", "lost"}]
  /\ stolen \in BOOLEAN /\ overlap \in BOOLEAN

\* What an instance holds at the place where it stands.
Stands(p) ==
  /\ fd[p] = NoFile <=> pc[p] \in {"out", "unlink"}
  /\ p \in locked <=> Past(p)
  /\ todo[p] # {} => pc[p] = "run"
  /\ collected[p] # {} => pc[p] \in {"run", "record"}
  /\ Len(keep[p]) = IF pc[p] = "rename" THEN MaxLines ELSE 0

Standing == \A p \in Procs : Stands(p)

\* No flock is held twice; nothing is unlinked under another as long as every open file is at the path.
OneFile ==
  /\ \A p, q \in locked : fd[p] = fd[q] => p = q
  /\ ~stolen => \A p \in Procs : fd[p] # NoFile => fd[p] = lockFile
  /\ ~overlap => \A p, q \in locked : p = q

\* Lines are of the past, and a line of a success is of a task that has succeeded.
Recorded(h, time, ok) ==
  \A i \in 1 .. Len(h) : h[i].at <= time /\ (h[i].ok => ok[h[i].task] # Never)

Records ==
  /\ Recorded(history, now, lastOk)
  /\ \A p \in Procs : Recorded(keep[p], now, lastOk)
  /\ \A p \in Procs : \A r \in collected[p] : r.ok => lastOk[r.task] # Never

Remembered == \A t \in Tasks :
  cause[t] = "none" => \/ lastOk[t] <= LastRun(history, t)
                       \/ \E p \in Procs : Success(t) \in collected[p]

IInv == Kinds /\ Standing /\ OneFile /\ Records /\ Remembered

-----------------------------------------------------------------------------
\* Some number is the largest of a nonempty set of numbers up to n: the intervals above its members
\* are finite, so one of them is the smallest.
LEMMA Largest ==
  ASSUME NEW n \in Nat, NEW S \in SUBSET (1 .. n), S # {}
  PROVE  \E i \in S : \A j \in S : j <= i
<1> DEFINE T == {i .. n : i \in S}
<1>1. \A i \in S : i \in 1 .. n /\ i .. n \in FiniteSubsetsOf(Nat)
  <2> SUFFICES ASSUME NEW i \in S PROVE i \in 1 .. n /\ i .. n \in FiniteSubsetsOf(Nat)
    OBVIOUS
  <2>1. i \in 1 .. n /\ i \in Int /\ n \in Int
    OBVIOUS
  <2>2. IsFiniteSet(i .. n)
    BY <2>1, FS_Interval
  <2>3. i .. n \in SUBSET Nat
    BY <2>1
  <2> QED  BY <2>1, <2>2, <2>3 DEF FiniteSubsetsOf
<1>2. T \subseteq FiniteSubsetsOf(Nat) /\ T # {}
  BY <1>1
<1>3. PICK x \in T : \A y \in T : ~(<<y, x>> \in StrictSubsetOrdering(Nat))
  <2>1. IsWellFoundedOn(StrictSubsetOrdering(Nat), FiniteSubsetsOf(Nat))
    BY FS_StrictSubsetOrderingWellFounded
  <2> HIDE DEF T
  <2> QED  BY <1>2, <2>1, WFMin
<1>4. PICK i \in S : x = i .. n
  BY <1>3
<1>5. ASSUME NEW j \in S PROVE j <= i
  <2> SUFFICES ASSUME j > i PROVE FALSE
    BY <1>1
  <2>1. i \in 1 .. n /\ j \in 1 .. n
    BY <1>1
  <2>2. j .. n \subseteq i .. n /\ i \in i .. n /\ i \notin j .. n
    BY <2>1
  <2>3. j .. n \in T /\ j .. n \in SUBSET Nat /\ i .. n \in SUBSET Nat
    BY <2>1
  <2>4. <<j .. n, i .. n>> \in StrictSubsetOrdering(Nat)
    BY <2>2, <2>3 DEF StrictSubsetOrdering
  <2> QED  BY <1>3, <1>4, <2>3, <2>4
<1> QED  BY <1>5

\* The last success of a history is one of its lines.
LEMMA LastRunFacts ==
  ASSUME NEW h \in Seq(Lines), NEW t \in Tasks
  PROVE  \/ Successes(h, t) = {} /\ LastRun(h, t) = Never
         \/ \E i \in Successes(h, t) : /\ \A j \in Successes(h, t) : j <= i
                                       /\ LastRun(h, t) = h[i].at
<1>1. CASE Successes(h, t) = {}
  BY <1>1 DEF LastRun
<1>2. CASE Successes(h, t) # {}
  <2>1. Successes(h, t) \in SUBSET (1 .. Len(h)) /\ Len(h) \in Nat
    BY DEF Successes
  <2>2. \E i \in Successes(h, t) : \A j \in Successes(h, t) : j <= i
    BY <1>2, <2>1, Largest
  <2> DEFINE last == CHOOSE i \in Successes(h, t) : \A j \in Successes(h, t) : j <= i
  <2>3. last \in Successes(h, t) /\ \A j \in Successes(h, t) : j <= last
    BY <2>2
  <2>4. LastRun(h, t) = h[last].at
    BY <1>2 DEF LastRun
  <2> HIDE DEF last
  <2> QED  BY <2>3, <2>4
<1> QED  BY <1>1, <1>2

\* A line of another task or of a failure changes nothing, one of a success is the last.
LEMMA AppendedRun ==
  ASSUME NEW h \in Seq(Lines), NEW r \in Lines, NEW t \in Tasks
  PROVE  LastRun(Append(h, r), t) = IF r.task = t /\ r.ok THEN r.at ELSE LastRun(h, t)
<1> DEFINE k == Append(h, r)
<1>1. /\ k \in Seq(Lines) /\ Len(k) = Len(h) + 1 /\ Len(h) \in Nat
      /\ k[Len(h) + 1] = r /\ \A i \in 1 .. Len(h) : k[i] = h[i]
  BY AppendProperties
<1>2. DOMAIN k = 1 .. Len(h) + 1 /\ DOMAIN h = 1 .. Len(h)
  BY <1>1
<1> HIDE DEF k
<1>3. \A i : i \in Successes(k, t) <=> i \in Successes(h, t) \/ (i = Len(h) + 1 /\ r.task = t /\ r.ok)
  BY <1>1, <1>2 DEF Successes
<1>4. Successes(h, t) \subseteq 1 .. Len(h)
  BY <1>2 DEF Successes
<1>5. CASE r.task = t /\ r.ok
  <2>1. Len(h) + 1 \in Successes(k, t) /\ \A j \in Successes(k, t) : j \in 1 .. Len(h) + 1
    BY <1>1, <1>3, <1>4, <1>5
  <2>2. PICK i \in Successes(k, t) : (\A j \in Successes(k, t) : j <= i) /\ LastRun(k, t) = k[i].at
    BY <1>1, <2>1, LastRunFacts
  <2>3. i = Len(h) + 1
    BY <1>1, <2>1, <2>2
  <2> QED  BY <1>1, <1>5, <2>2, <2>3 DEF k
<1>6. CASE ~(r.task = t /\ r.ok)
  <2>1. Successes(k, t) = Successes(h, t)
    BY <1>3, <1>6
  <2>2. CASE Successes(h, t) = {}
    BY <1>6, <2>1, <2>2 DEF LastRun, k
  <2>3. CASE Successes(h, t) # {}
    <3>1. PICK i \in Successes(h, t) : (\A j \in Successes(h, t) : j <= i) /\ LastRun(h, t) = h[i].at
      BY <2>3, LastRunFacts
    <3>2. PICK j \in Successes(h, t) : (\A m \in Successes(h, t) : m <= j) /\ LastRun(k, t) = k[j].at
      BY <1>1, <2>1, <2>3, LastRunFacts
    <3>3. i = j
      BY <1>1, <1>4, <3>1, <3>2
    <3>4. k[j] = h[j]
      BY <1>1, <1>4
    <3> QED  BY <1>6, <3>1, <3>2, <3>3, <3>4 DEF k
  <2> QED  BY <2>2, <2>3
<1> QED  BY <1>5, <1>6

\* A process that opens no file leaves an inode free.
LEMMA FreeInode ==
  ASSUME fd \in [Procs -> Inodes \cup {NoFile}]
  PROVE  \E i \in Inodes : \A q \in Procs : fd[q] # i
<1> SUFFICES ASSUME \A i \in Inodes : \E q \in Procs : fd[q] = i PROVE FALSE
  OBVIOUS
<1> DEFINE opener == [i \in Inodes |-> CHOOSE q \in Procs : fd[q] = i]
<1>1. IsFiniteSet(Procs) /\ Cardinality(Procs) \in Nat
  BY CronAssumption, FS_CardinalityType
<1>2. opener \in [Inodes -> Procs] /\ \A i \in Inodes : fd[opener[i]] = i
  OBVIOUS
<1> HIDE DEF opener
<1>3. opener \in Injection(Inodes, Procs)
  BY <1>2 DEF Injection, IsInjective
<1>4. Cardinality(Inodes) <= Cardinality(Procs)
  BY <1>1, <1>3, FS_Injection
<1>5. Cardinality(Inodes) = Cardinality(Procs) + 1
  BY <1>1, FS_Interval DEF Inodes
<1> QED  BY <1>1, <1>4, <1>5

\* The numbers of the assumption.
LEMMA CronNumbers == /\ MaxNow \in Nat /\ MaxLines \in Nat /\ MaxLines > 0
                     /\ Inodes \subseteq Nat /\ NoFile \notin Inodes
BY CronAssumption DEF Inodes, NoFile

\* Nothing runs at first.
LEMMA InitIInv == Init => IInv
<1> SUFFICES ASSUME Init PROVE IInv
  OBVIOUS
<1>1. Kinds
  <2>1. /\ now = 0 /\ now \in 0 .. MaxNow /\ lockFile = NoFile /\ history = <<>> /\ locked = {}
        /\ \A t \in Tasks : sched[t] \in Schedules[t]
    BY CronNumbers DEF Init
  <2>2. fd \in [Procs -> Inodes \cup {NoFile}] /\ pc \in [Procs -> Pcs] /\ todo \in [Procs -> SUBSET Tasks]
    BY DEF Init, Pcs
  <2>3. collected \in [Procs -> SUBSET Outcomes] /\ keep \in [Procs -> Seq(Lines)] /\ history \in Seq(Lines)
    BY DEF Init
  <2>4. lastOk \in [Tasks -> Int] /\ \A t \in Tasks : lastOk[t] \in -1 .. now
    BY <2>1 DEF Init, Never
  <2>5. cause \in [Tasks -> {"none", "rotated", "lost"}] /\ stolen \in BOOLEAN /\ overlap \in BOOLEAN
    BY DEF Init
  <2> QED  BY <2>1, <2>2, <2>3, <2>4, <2>5 DEF Kinds
<1>2. Standing
  BY DEF Init, Standing, Stands, Past
<1>3. OneFile
  BY DEF Init, OneFile
<1>4. Records
  BY DEF Init, Records, Recorded
<1>5. Remembered
  <2> SUFFICES ASSUME NEW t \in Tasks PROVE lastOk[t] <= LastRun(history, t)
    BY DEF Remembered
  <2>1. history = <<>> /\ lastOk[t] = Never
    BY DEF Init
  <2>2. Successes(<<>>, t) = {}
    BY DEF Successes
  <2>3. LastRun(history, t) = Never
    BY <2>1, <2>2 DEF LastRun
  <2> QED  BY <2>1, <2>3 DEF Never
<1> QED  BY <1>1, <1>2, <1>3, <1>4, <1>5 DEF IInv

\* What happens to an instance whose process is gone.
LEMMA GoneFacts ==
  ASSUME Kinds, NEW p \in Procs, Gone(p)
  PROVE  /\ fd' \in [Procs -> Inodes \cup {NoFile}] /\ pc' \in [Procs -> Pcs] /\ locked' \subseteq Procs
         /\ todo' \in [Procs -> SUBSET Tasks] /\ collected' \in [Procs -> SUBSET Outcomes]
         /\ keep' \in [Procs -> Seq(Lines)] /\ UNCHANGED lockFile
BY DEF Kinds, Gone, Pcs

\* What is collected is some set of tasks.
LEMMA CollectedTasks ==
  ASSUME NEW p \in Procs, Collect(p)
  PROVE  \E due \in SUBSET Tasks :
           /\ todo' = [todo EXCEPT ![p] = due]
           /\ pc' = [pc EXCEPT ![p] = IF due = {} THEN "unlock" ELSE "run"]
<1>1. CASE p = Agent
  <2> DEFINE due == {t \in Tasks : Due(t)}
  <2>1. due \in SUBSET Tasks
    OBVIOUS
  <2>2. /\ todo' = [todo EXCEPT ![p] = due]
        /\ pc' = [pc EXCEPT ![p] = IF due = {} THEN "unlock" ELSE "run"]
    BY <1>1 DEF Collect
  <2> HIDE DEF due
  <2> QED  BY <2>1, <2>2
<1>2. CASE p # Agent
  <2>1. PICK t \in Tasks : /\ todo' = [todo EXCEPT ![p] = {t}]
                           /\ pc' = [pc EXCEPT ![p] = IF {t} = {} THEN "unlock" ELSE "run"]
    BY <1>2 DEF Collect
  <2> DEFINE due == {t}
  <2>2. due \in SUBSET Tasks
    OBVIOUS
  <2>3. /\ todo' = [todo EXCEPT ![p] = due]
        /\ pc' = [pc EXCEPT ![p] = IF due = {} THEN "unlock" ELSE "run"]
    BY <2>1
  <2> HIDE DEF due
  <2> QED  BY <2>2, <2>3
<1> QED  BY <1>1, <1>2

\* What RotateHistory keeps: as many lines as it may, each of them of the history.
LEMMA LastLines ==
  ASSUME Kinds, ~(Len(history) <= MaxLines)
  PROVE  LET kept == SubSeq(history, Len(history) - MaxLines + 1, Len(history))
         IN  /\ kept \in Seq(Lines) /\ Len(kept) = MaxLines
             /\ \A i \in 1 .. Len(kept) : \E j \in 1 .. Len(history) : kept[i] = history[j]
<1> DEFINE first == Len(history) - MaxLines + 1
<1>1. history \in Seq(Lines) /\ Len(history) \in Nat /\ MaxLines \in Nat
  BY CronNumbers DEF Kinds
<1>2. first \in 1 .. Len(history) + 1 /\ Len(history) - first + 1 = MaxLines
  BY <1>1
<1>3. \A i \in first .. Len(history) : history[i] \in Lines
  BY <1>1, <1>2, ElementOfSeq
<1>4. /\ SubSeq(history, first, Len(history)) \in Seq(Lines)
      /\ Len(SubSeq(history, first, Len(history))) = MaxLines
      /\ \A i \in 1 .. MaxLines : SubSeq(history, first, Len(history))[i] = history[first + i - 1]
  <2>1. first \in Int /\ Len(history) \in Int /\ first <= Len(history)
    BY <1>1, CronNumbers
  <2> HIDE DEF first
  <2> QED  BY <1>1, <1>2, <1>3, <2>1, SubSeqProperties
<1>5. \A i \in 1 .. MaxLines : first + i - 1 \in 1 .. Len(history)
  BY <1>1, <1>2
<1> QED  BY <1>4, <1>5

\* Every step keeps the kinds.
LEMMA KindsStep == IInv /\ [Next]_vars => Kinds'
<1> SUFFICES ASSUME IInv, [Next]_vars PROVE Kinds'
  OBVIOUS
<1>0. Kinds
  BY DEF IInv
<1>n. now \in Nat /\ MaxNow \in Nat /\ now <= MaxNow
  BY <1>0, CronNumbers DEF Kinds
<1>1. CASE Tick
  <2>1. now' = now + 1 /\ now' \in 0 .. MaxNow /\ UNCHANGED <<sched, history, lock, pc, work, budget, ghosts>>
    BY <1>1, <1>n DEF Tick
  <2>2. \A t \in Tasks : lastOk'[t] \in -1 .. now'
    BY <1>0, <1>n, <2>1 DEF Kinds, ghosts
  <2> QED  BY <1>0, <2>1, <2>2 DEF Kinds, lock, work, ghosts
<1>2. ASSUME NEW p \in Procs, Open(p) PROVE Kinds'
  <2>1. lockFile' \in Inodes
    <3>1. \E i \in Inodes : \A q \in Procs : fd[q] # i
      BY <1>0, FreeInode DEF Kinds
    <3> DEFINE free == CHOOSE i \in Inodes : \A q \in Procs : fd[q] # i
    <3>2. free \in Inodes
      BY <3>1
    <3>3. lockFile' \in {lockFile, free} /\ (lockFile' = lockFile => lockFile # NoFile \/ lockFile = free)
      BY <1>2 DEF Open
    <3> HIDE DEF free
    <3> QED  BY <1>0, <3>2, <3>3 DEF Kinds
  <2>2. fd' \in [Procs -> Inodes \cup {NoFile}] /\ pc' \in [Procs -> Pcs]
    BY <1>0, <1>2, <2>1 DEF Kinds, Open, Pcs
  <2> QED  BY <1>0, <1>2, <2>1, <2>2 DEF Kinds, Open, work, ghosts
<1>3. ASSUME NEW p \in Procs, Lock(p) PROVE Kinds'
  BY <1>0, <1>3 DEF Kinds, Lock, Pcs, work
<1>4. ASSUME NEW p \in Procs, Refused(p) \/ ExitWithError(p) PROVE Kinds'
  <2>1. Gone(p) /\ UNCHANGED <<now, sched, history, budget, ghosts>>
    BY <1>4 DEF Refused, ExitWithError
  <2> QED  BY <1>0, <2>1, GoneFacts DEF Kinds, ghosts
<1>5. ASSUME NEW p \in Procs, Kill(p) PROVE Kinds'
  <2>1. Gone(p) /\ UNCHANGED <<now, sched, history, forced, lastOk, stolen, overlap>>
    BY <1>5 DEF Kill
  <2>2. cause' \in [Tasks -> {"none", "rotated", "lost"}]
    BY <1>0, <1>5 DEF Kill, Kinds
  <2> QED  BY <1>0, <2>1, <2>2, GoneFacts DEF Kinds
<1>6. ASSUME NEW p \in Procs, Collect(p) PROVE Kinds'
  <2>1. \E due \in SUBSET Tasks : /\ todo' = [todo EXCEPT ![p] = due]
                                  /\ pc' = [pc EXCEPT ![p] = IF due = {} THEN "unlock" ELSE "run"]
    BY <1>6, CollectedTasks
  <2>2. pc' \in [Procs -> Pcs] /\ todo' \in [Procs -> SUBSET Tasks]
    BY <1>0, <2>1 DEF Kinds, Pcs
  <2>3. UNCHANGED <<now, sched, history, lock, collected, appendErr, keep, budget, ghosts>>
    BY <1>6 DEF Collect
  <2> QED  BY <1>0, <2>2, <2>3 DEF Kinds, lock, ghosts
<1>7. ASSUME NEW p \in Procs, NEW t \in Tasks, Execute(p, t) PROVE Kinds'
  <2>1. /\ todo' = [todo EXCEPT ![p] = @ \ {t}]
        /\ pc' = [pc EXCEPT ![p] = IF todo[p] = {t} THEN "record" ELSE "run"]
        /\ UNCHANGED <<now, sched, history, lock, appendErr, keep, budget, stolen, overlap>>
    BY <1>7 DEF Execute
  <2>2. PICK ok \in BOOLEAN :
          /\ collected' = [collected EXCEPT ![p] = @ \cup {[task |-> t, ok |-> ok]}]
          /\ lastOk' = IF ok THEN [lastOk EXCEPT ![t] = now] ELSE lastOk
          /\ cause' = IF ok THEN [cause EXCEPT ![t] = "none"] ELSE cause
    BY <1>7 DEF Execute
  <2>3. todo' \in [Procs -> SUBSET Tasks] /\ pc' \in [Procs -> Pcs]
    BY <1>0, <2>1 DEF Kinds, Pcs
  <2>4. collected' \in [Procs -> SUBSET Outcomes]
    <3>1. [task |-> t, ok |-> ok] \in Outcomes
      BY DEF Outcomes
    <3> QED  BY <1>0, <2>2, <3>1 DEF Kinds
  <2>5. lastOk' \in [Tasks -> Int] /\ \A u \in Tasks : lastOk'[u] \in -1 .. now
    BY <1>0, <1>n, <2>2 DEF Kinds
  <2>6. cause' \in [Tasks -> {"none", "rotated", "lost"}]
    BY <1>0, <2>2 DEF Kinds
  <2> QED  BY <1>0, <2>1, <2>3, <2>4, <2>5, <2>6 DEF Kinds, lock
<1>8. ASSUME NEW p \in Procs, Record(p) PROVE Kinds'
  <2>1. PICK x \in collected[p] :
          /\ collected' = [collected EXCEPT ![p] = @ \ {x}]
          /\ pc' = [pc EXCEPT ![p] = IF collected[p] = {x} THEN "rotate" ELSE "record"]
          /\ history' \in {history, Append(history, [task |-> x.task, at |-> now, ok |-> x.ok])}
          /\ cause' \in {cause, [cause EXCEPT ![x.task] = "lost"]}
    BY <1>8 DEF Record
  <2>2. x.task \in Tasks /\ x.ok \in BOOLEAN
    <3>1. x \in Outcomes
      BY <1>0, <2>1 DEF Kinds
    <3> QED  BY <3>1 DEF Outcomes
  <2>3. history' \in Seq(Lines)
    <3>1. [task |-> x.task, at |-> now, ok |-> x.ok] \in Lines
      BY <1>n, <2>2 DEF Lines
    <3>2. \A w \in Lines : Append(history, w) \in Seq(Lines)
      BY <1>0, AppendProperties DEF Kinds
    <3> DEFINE w == [task |-> x.task, at |-> now, ok |-> x.ok]
    <3>3. w \in Lines /\ history' \in {history, Append(history, w)}
      BY <2>1, <3>1
    <3> HIDE DEF w
    <3> QED  BY <1>0, <3>2, <3>3 DEF Kinds
  <2>4. pc' \in [Procs -> Pcs] /\ collected' \in [Procs -> SUBSET Outcomes]
    BY <1>0, <2>1 DEF Kinds, Pcs
  <2>5. cause' \in [Tasks -> {"none", "rotated", "lost"}]
    BY <1>0, <2>1 DEF Kinds
  <2>6. UNCHANGED <<now, sched, lock, todo, keep, forced, lastOk, stolen, overlap>>
    BY <1>8 DEF Record
  <2> QED  BY <1>0, <2>3, <2>4, <2>5, <2>6 DEF Kinds, lock
<1>9. ASSUME NEW p \in Procs, Rotate(p) PROVE Kinds'
  <2>1. UNCHANGED <<now, sched, history, lock, todo, collected, appendErr, budget, ghosts>>
    BY <1>9 DEF Rotate
  <2>2. pc' \in [Procs -> Pcs]
    BY <1>0, <1>9 DEF Rotate, Kinds, Pcs
  <2>3. keep' \in [Procs -> Seq(Lines)]
    <3>1. CASE Len(history) <= MaxLines
      BY <1>0, <1>9, <3>1 DEF Rotate, Kinds
    <3>2. CASE ~(Len(history) <= MaxLines)
      <4> DEFINE kept == SubSeq(history, Len(history) - MaxLines + 1, Len(history))
      <4>1. kept \in Seq(Lines) /\ keep' = [keep EXCEPT ![p] = kept]
        BY <1>0, <1>9, <3>2, LastLines DEF Rotate
      <4> HIDE DEF kept
      <4> QED  BY <1>0, <4>1 DEF Kinds
    <3> QED  BY <3>1, <3>2
  <2> QED  BY <1>0, <2>1, <2>2, <2>3 DEF Kinds, lock, ghosts
<1>10. ASSUME NEW p \in Procs, Rename(p) PROVE Kinds'
  <2>1. history' \in Seq(Lines) /\ keep' \in [Procs -> Seq(Lines)] /\ pc' \in [Procs -> Pcs]
    BY <1>0, <1>10 DEF Rename, Kinds, Pcs
  <2>2. cause' \in [Tasks -> {"none", "rotated", "lost"}]
    BY <1>0, <1>10 DEF Rename, Kinds
  <2>3. UNCHANGED <<now, sched, lock, todo, collected, appendErr, budget, lastOk, stolen, overlap>>
    BY <1>10 DEF Rename
  <2> QED  BY <1>0, <2>1, <2>2, <2>3 DEF Kinds, lock
<1>11. ASSUME NEW p \in Procs, Unlock(p) PROVE Kinds'
  BY <1>0, <1>11 DEF Kinds, Unlock, Pcs, work, ghosts
<1>12. ASSUME NEW p \in Procs, Unlink(p) PROVE Kinds'
  BY <1>0, <1>12 DEF Kinds, Unlink, Pcs, work
<1>13. CASE UNCHANGED vars
  BY <1>0, <1>13 DEF Kinds, vars, lock, work, ghosts
<1> QED  BY <1>1, <1>2, <1>3, <1>4, <1>5, <1>6, <1>7, <1>8, <1>9, <1>10, <1>11, <1>12, <1>13 DEF Next, Step

\* A step of one instance leaves the others where they stand.
LEMMA StandsFrame ==
  ASSUME Standing, NEW p \in Procs, Stands(p)',
         \A q \in Procs \ {p} : /\ fd'[q] = fd[q] /\ pc'[q] = pc[q] /\ todo'[q] = todo[q]
                                /\ collected'[q] = collected[q] /\ keep'[q] = keep[q]
                                /\ (q \in locked' <=> q \in locked)
  PROVE  Standing'
<1> SUFFICES ASSUME NEW q \in Procs, q # p PROVE Stands(q)'
  BY DEF Standing
<1> QED  BY DEF Standing, Stands, Past

\* Every step leaves the one that takes it at a place that fits what it holds.
LEMMA StandingStep == IInv /\ [Next]_vars => Standing'
<1> SUFFICES ASSUME IInv, [Next]_vars PROVE Standing'
  OBVIOUS
<1>0. Kinds /\ Standing
  BY DEF IInv
<1>k. /\ fd \in [Procs -> Inodes \cup {NoFile}] /\ pc \in [Procs -> Pcs] /\ locked \subseteq Procs
      /\ todo \in [Procs -> SUBSET Tasks] /\ collected \in [Procs -> SUBSET Outcomes]
      /\ keep \in [Procs -> Seq(Lines)]
  BY <1>0 DEF Kinds
<1>s. \A p \in Procs : Stands(p)
  BY <1>0 DEF Standing
<1>e. Len(<<>>) = 0
  OBVIOUS
<1>1. CASE Tick
  BY <1>0, <1>1 DEF Standing, Stands, Past, Tick, lock, work
<1>2. ASSUME NEW p \in Procs, Open(p) PROVE Standing'
  <2>1. lockFile' # NoFile
    <3>1. (CHOOSE i \in Inodes : \A q \in Procs : fd[q] # i) \in Inodes
      BY <1>k, FreeInode
    <3> QED  BY <1>2, <3>1, CronNumbers DEF Open
  <2>2. fd' = [fd EXCEPT ![p] = lockFile'] /\ pc' = [pc EXCEPT ![p] = "opened"] /\ pc[p] = "out"
        /\ UNCHANGED <<locked, work>>
    BY <1>2 DEF Open, Start
  <2>3. Stands(p)'
    BY <1>k, <1>s, <2>1, <2>2 DEF Stands, Past, work
  <2> QED  BY <1>0, <1>k, <2>2, <2>3, StandsFrame DEF work
<1>3. ASSUME NEW p \in Procs, Lock(p) PROVE Standing'
  <2>1. Stands(p)'
    BY <1>k, <1>s, <1>3 DEF Stands, Past, Lock, work
  <2> QED  BY <1>0, <1>k, <1>3, <2>1, StandsFrame DEF Lock, work
<1>4. ASSUME NEW p \in Procs, Gone(p) PROVE Standing'
  <2>1. Stands(p)'
    BY <1>k, <1>e, <1>4 DEF Stands, Past, Gone
  <2> QED  BY <1>0, <1>k, <1>4, <2>1, StandsFrame DEF Gone
<1>6. ASSUME NEW p \in Procs, Collect(p) PROVE Standing'
  <2>1. PICK due \in SUBSET Tasks : /\ todo' = [todo EXCEPT ![p] = due]
                                    /\ pc' = [pc EXCEPT ![p] = IF due = {} THEN "unlock" ELSE "run"]
    BY <1>6, CollectedTasks
  <2>2. pc[p] = "inside" /\ UNCHANGED <<lock, collected, appendErr, keep>>
    BY <1>6 DEF Collect
  <2>3. Stands(p)'
    BY <1>k, <1>s, <2>1, <2>2 DEF Stands, Past, lock
  <2> QED  BY <1>0, <1>k, <2>1, <2>2, <2>3, StandsFrame DEF lock
<1>7. ASSUME NEW p \in Procs, NEW t \in Tasks, Execute(p, t) PROVE Standing'
  <2>1. PICK ok \in BOOLEAN : collected' = [collected EXCEPT ![p] = @ \cup {[task |-> t, ok |-> ok]}]
    BY <1>7 DEF Execute
  <2>2. /\ pc[p] = "run" /\ t \in todo[p] /\ todo' = [todo EXCEPT ![p] = @ \ {t}]
        /\ pc' = [pc EXCEPT ![p] = IF todo[p] = {t} THEN "record" ELSE "run"]
        /\ UNCHANGED <<lock, appendErr, keep>>
    BY <1>7 DEF Execute
  <2>3. Stands(p)'
    BY <1>k, <1>s, <2>1, <2>2 DEF Stands, Past, lock
  <2> QED  BY <1>0, <1>k, <2>1, <2>2, <2>3, StandsFrame DEF lock
<1>8. ASSUME NEW p \in Procs, Record(p) PROVE Standing'
  <2>1. PICK x \in collected[p] :
          /\ collected' = [collected EXCEPT ![p] = @ \ {x}]
          /\ pc' = [pc EXCEPT ![p] = IF collected[p] = {x} THEN "rotate" ELSE "record"]
    BY <1>8 DEF Record
  <2>2. pc[p] = "record" /\ UNCHANGED <<lock, todo, keep>>
    BY <1>8 DEF Record
  <2>3. Stands(p)'
    BY <1>k, <1>s, <2>1, <2>2 DEF Stands, Past, lock
  <2> QED  BY <1>0, <1>k, <2>1, <2>2, <2>3, StandsFrame DEF lock
<1>9. ASSUME NEW p \in Procs, Rotate(p) PROVE Standing'
  <2>1. pc[p] = "rotate" /\ UNCHANGED <<lock, todo, collected>>
    BY <1>9 DEF Rotate
  <2>2. CASE Len(history) <= MaxLines
    <3>1. pc' = [pc EXCEPT ![p] = "unlock"] /\ UNCHANGED keep
      BY <1>9, <2>2 DEF Rotate
    <3>2. Stands(p)'
      BY <1>k, <1>s, <2>1, <3>1 DEF Stands, Past, lock
    <3> QED  BY <1>0, <1>k, <2>1, <3>1, <3>2, StandsFrame DEF lock
  <2>3. CASE ~(Len(history) <= MaxLines)
    <3> DEFINE kept == SubSeq(history, Len(history) - MaxLines + 1, Len(history))
    <3>1. pc' = [pc EXCEPT ![p] = "rename"] /\ keep' = [keep EXCEPT ![p] = kept]
      BY <1>9, <2>3 DEF Rotate
    <3>2. Len(kept) = MaxLines
      BY <1>0, <2>3, CronNumbers, LastLines
    <3> HIDE DEF kept
    <3>3. Stands(p)'
      BY <1>k, <1>s, <2>1, <3>1, <3>2 DEF Stands, Past, lock
    <3> QED  BY <1>0, <1>k, <2>1, <3>1, <3>3, StandsFrame DEF lock
  <2> QED  BY <2>2, <2>3
<1>10. ASSUME NEW p \in Procs, Rename(p) PROVE Standing'
  <2>1. /\ pc[p] = "rename" /\ pc' = [pc EXCEPT ![p] = "unlock"] /\ keep' = [keep EXCEPT ![p] = <<>>]
        /\ UNCHANGED <<lock, todo, collected>>
    BY <1>10 DEF Rename
  <2>2. keep'[p] = <<>> /\ pc'[p] = "unlock" /\ Len(keep'[p]) = 0
    BY <1>k, <1>e, <2>1
  <2>4. fd'[p] = fd[p] /\ todo'[p] = todo[p] /\ collected'[p] = collected[p] /\ locked' = locked
    BY <2>1 DEF lock
  <2>3. Stands(p)'
    BY <1>k, <1>s, <2>1, <2>2, <2>4 DEF Stands, Past
  <2> QED  BY <1>0, <1>k, <2>1, <2>3, StandsFrame DEF lock
<1>11. ASSUME NEW p \in Procs, Unlock(p) PROVE Standing'
  <2>1. Stands(p)'
    BY <1>k, <1>s, <1>11 DEF Stands, Past, Unlock, work
  <2> QED  BY <1>0, <1>k, <1>11, <2>1, StandsFrame DEF Unlock, work
<1>12. ASSUME NEW p \in Procs, Unlink(p) PROVE Standing'
  <2>1. Stands(p)'
    BY <1>k, <1>s, <1>12 DEF Stands, Past, Unlink, work
  <2> QED  BY <1>0, <1>k, <1>12, <2>1, StandsFrame DEF Unlink, work
<1>13. CASE UNCHANGED vars
  BY <1>0, <1>13 DEF Standing, Stands, Past, vars, lock, work
<1> QED
  BY <1>1, <1>2, <1>3, <1>4, <1>6, <1>7, <1>8, <1>9, <1>10, <1>11, <1>12, <1>13
  DEF Next, Step, Refused, ExitWithError, Kill

\* Every step keeps the locks apart, and the open files at the path until one is unlinked.
LEMMA OneFileStep == IInv /\ [Next]_vars => OneFile'
<1> SUFFICES ASSUME IInv, [Next]_vars PROVE OneFile'
  OBVIOUS
<1>0. OneFile /\ \A p \in Procs : Stands(p)
  BY DEF IInv, Standing
<1>k. fd \in [Procs -> Inodes \cup {NoFile}] /\ locked \subseteq Procs /\ stolen \in BOOLEAN /\ overlap \in BOOLEAN
  BY DEF IInv, Kinds
<1>1. ASSUME UNCHANGED <<lock, stolen, overlap>> PROVE OneFile'
  BY <1>0, <1>1 DEF OneFile, lock
<1>2. ASSUME NEW p \in Procs, Open(p) PROVE OneFile'
  <2>1. /\ fd' = [fd EXCEPT ![p] = lockFile'] /\ UNCHANGED <<locked, stolen, overlap>>
        /\ lockFile = NoFile \/ lockFile' = lockFile
    BY <1>2 DEF Open, ghosts
  <2>2. p \notin locked
    BY <1>0, <1>2 DEF Stands, Past, Open, Start
  <2>3. \A q, r \in locked' : fd'[q] = fd'[r] => q = r
    BY <1>0, <1>k, <2>1, <2>2 DEF OneFile
  <2>4. ~stolen' => \A q \in Procs : fd'[q] # NoFile => fd'[q] = lockFile'
    BY <1>0, <1>k, <2>1 DEF OneFile
  <2> QED  BY <1>0, <2>1, <2>3, <2>4 DEF OneFile
<1>3. ASSUME NEW p \in Procs, Lock(p) PROVE OneFile'
  <2>1. /\ locked' = locked \cup {p} /\ (overlap' <=> overlap \/ locked # {})
        /\ \A q \in locked : fd[q] # fd[p]
        /\ UNCHANGED <<lockFile, fd, stolen>>
    BY <1>3 DEF Lock
  <2>2. \A q, r \in locked' : fd'[q] = fd'[r] => q = r
    BY <1>0, <1>k, <2>1 DEF OneFile
  <2>3. ~stolen' => \A q \in Procs : fd'[q] # NoFile => fd'[q] = lockFile'
    BY <1>0, <2>1 DEF OneFile
  <2>4. ~overlap' => \A q, r \in locked' : q = r
    BY <1>0, <2>1 DEF OneFile
  <2> QED  BY <2>2, <2>3, <2>4 DEF OneFile
<1>4. ASSUME NEW p \in Procs, fd' = [fd EXCEPT ![p] = NoFile], locked' = locked \ {p},
             UNCHANGED <<lockFile, stolen, overlap>>
      PROVE  OneFile'
  BY <1>0, <1>k, <1>4 DEF OneFile
<1>5. ASSUME NEW p \in Procs, Unlink(p) PROVE OneFile'
  <2>1. /\ stolen' <=> (stolen \/ \E q \in Procs : fd[q] # NoFile /\ fd[q] = lockFile)
        /\ UNCHANGED <<fd, locked, overlap>>
    BY <1>5 DEF Unlink
  <2>2. ~stolen' => \A q \in Procs : fd'[q] # NoFile => fd'[q] = lockFile'
    BY <1>0, <2>1 DEF OneFile
  <2> QED  BY <1>0, <2>1, <2>2 DEF OneFile
<1>6. CASE Tick
  BY <1>1, <1>6 DEF Tick, ghosts
<1>7. ASSUME NEW p \in Procs, Refused(p) \/ ExitWithError(p) \/ Kill(p) PROVE OneFile'
  <2>1. Gone(p) /\ UNCHANGED <<stolen, overlap>>
    BY <1>7 DEF Refused, ExitWithError, Kill, ghosts
  <2> QED  BY <1>4, <2>1 DEF Gone
<1>8. ASSUME NEW p \in Procs,
             Collect(p) \/ (\E t \in Tasks : Execute(p, t)) \/ Record(p) \/ Rotate(p) \/ Rename(p)
      PROVE  OneFile'
  BY <1>1, <1>8 DEF Collect, Execute, Record, Rotate, Rename, ghosts
<1>9. ASSUME NEW p \in Procs, Unlock(p) PROVE OneFile'
  BY <1>4, <1>9 DEF Unlock, ghosts
<1>10. CASE UNCHANGED vars
  BY <1>1, <1>10 DEF vars, ghosts
<1> QED  BY <1>2, <1>3, <1>5, <1>6, <1>7, <1>8, <1>9, <1>10 DEF Next, Step

\* Where nothing is written and nothing succeeds, the lines stay true.
LEMMA RecordsFrame ==
  ASSUME Kinds, Records, now' \in Nat, now <= now', UNCHANGED <<history, lastOk>>,
         \A p \in Procs : keep'[p] \in {keep[p], <<>>} /\ collected'[p] \subseteq collected[p]
  PROVE  Records'
<1>1. \A h \in Seq(Lines) : Recorded(h, now, lastOk) => Recorded(h, now', lastOk)
  <2> SUFFICES ASSUME NEW h \in Seq(Lines), Recorded(h, now, lastOk), NEW i \in 1 .. Len(h)
               PROVE  h[i].at <= now' /\ (h[i].ok => lastOk[h[i].task] # Never)
    BY DEF Recorded
  <2>1. h[i] \in Lines
    BY ElementOfSeq
  <2>2. h[i].at \in Nat /\ now \in Nat
    BY <2>1, CronNumbers DEF Lines, Kinds
  <2> QED  BY <2>2 DEF Recorded
<1>2. Recorded(<<>>, now', lastOk) /\ history \in Seq(Lines) /\ \A p \in Procs : keep[p] \in Seq(Lines)
  BY DEF Recorded, Kinds
<1>3. Recorded(history', now', lastOk')
  BY <1>1, <1>2 DEF Records
<1>4. \A p \in Procs : Recorded(keep'[p], now', lastOk')
  <2> SUFFICES ASSUME NEW p \in Procs PROVE Recorded(keep'[p], now', lastOk)
    OBVIOUS
  <2>1. keep'[p] = keep[p] \/ keep'[p] = <<>>
    OBVIOUS
  <2> QED  BY <1>1, <1>2, <2>1 DEF Records
<1>5. \A p \in Procs : \A r \in collected'[p] : r.ok => lastOk'[r.task] # Never
  BY DEF Records
<1> QED  BY <1>3, <1>4, <1>5 DEF Records

\* Where nothing is written and nothing succeeds, a success is forgotten only by those that say so.
LEMMA RememberedFrame ==
  ASSUME Remembered, UNCHANGED <<history, lastOk>>,
         \A t \in Tasks : cause'[t] = "none" =>
            /\ cause[t] = "none"
            /\ \A p \in Procs : Success(t) \in collected[p] => Success(t) \in collected'[p]
  PROVE  Remembered'
<1> SUFFICES ASSUME NEW t \in Tasks, cause'[t] = "none"
             PROVE  \/ lastOk'[t] <= LastRun(history', t)
                    \/ \E p \in Procs : Success(t) \in collected'[p]
  BY DEF Remembered, Success
<1> QED  BY DEF Remembered

\* The steps that neither write the history nor run a task: what a process that goes has is lost.
LEMMA QuietStep ==
  ASSUME IInv,
         \/ Tick \/ UNCHANGED vars
         \/ \E p \in Procs : \/ Open(p) \/ Lock(p) \/ Collect(p) \/ Unlock(p) \/ Unlink(p)
                             \/ Refused(p) \/ ExitWithError(p) \/ Kill(p)
  PROVE  Records' /\ Remembered'
<1>0. Kinds /\ Records /\ Remembered /\ \A p \in Procs : Stands(p)
  BY DEF IInv, Standing
<1>k. /\ now \in Nat /\ collected \in [Procs -> SUBSET Outcomes] /\ keep \in [Procs -> Seq(Lines)]
      /\ cause \in [Tasks -> {"none", "rotated", "lost"}]
  BY <1>0, CronNumbers DEF Kinds
<1>1. ASSUME UNCHANGED <<now, history, collected, keep, lastOk, cause>> PROVE Records' /\ Remembered'
  BY <1>0, <1>k, <1>1, RecordsFrame, RememberedFrame
<1>2. CASE Tick
  BY <1>0, <1>k, <1>2, RecordsFrame, RememberedFrame DEF Tick, work, ghosts
<1>3. CASE UNCHANGED vars
  BY <1>1, <1>3 DEF vars, work, ghosts
<1>4. ASSUME NEW p \in Procs, Open(p) \/ Lock(p) \/ Collect(p) \/ Unlock(p) \/ Unlink(p)
      PROVE  Records' /\ Remembered'
  BY <1>1, <1>4 DEF Open, Lock, Collect, Unlock, Unlink, work, ghosts
<1>5. ASSUME NEW p \in Procs, Gone(p), UNCHANGED <<now, history, lastOk>>,
             \A t \in Tasks : cause'[t] = "none" => cause[t] = "none" /\ Success(t) \notin collected[p]
      PROVE  Records' /\ Remembered'
  <2>1. \A q \in Procs : keep'[q] \in {keep[q], <<>>} /\ collected'[q] \subseteq collected[q]
    BY <1>k, <1>5 DEF Gone
  <2>2. \A t \in Tasks : cause'[t] = "none" =>
          /\ cause[t] = "none"
          /\ \A q \in Procs : Success(t) \in collected[q] => Success(t) \in collected'[q]
    BY <1>k, <1>5 DEF Gone
  <2> QED  BY <1>0, <1>k, <1>5, <2>1, <2>2, RecordsFrame, RememberedFrame
<1>6. ASSUME NEW p \in Procs, Refused(p) \/ ExitWithError(p) PROVE Records' /\ Remembered'
  <2>1. Gone(p) /\ UNCHANGED <<now, history, lastOk, cause>> /\ pc[p] \in {"opened", "unlock"}
    BY <1>6 DEF Refused, ExitWithError, ghosts
  <2>2. collected[p] = {}
    BY <1>0, <2>1 DEF Stands
  <2> QED  BY <1>5, <2>1, <2>2
<1>7. ASSUME NEW p \in Procs, Kill(p) PROVE Records' /\ Remembered'
  <2>1. Gone(p) /\ UNCHANGED <<now, history, lastOk>>
        /\ cause' = [t \in Tasks |-> IF Success(t) \in collected[p] THEN "lost" ELSE cause[t]]
    BY <1>7 DEF Kill, Success
  <2>2. \A t \in Tasks : cause'[t] = "none" => cause[t] = "none" /\ Success(t) \notin collected[p]
    BY <2>1
  <2> QED  BY <1>5, <2>1, <2>2
<1> QED  BY <1>2, <1>3, <1>4, <1>6, <1>7

\* A task that ends well has just succeeded, and its instance knows.
LEMMA ExecuteRemembers ==
  ASSUME IInv, NEW p \in Procs, NEW t \in Tasks, Execute(p, t)
  PROVE  Records' /\ Remembered'
<1>0. Kinds /\ Records /\ Remembered
  BY DEF IInv
<1>k. /\ now \in Nat /\ collected \in [Procs -> SUBSET Outcomes] /\ lastOk \in [Tasks -> Int]
      /\ cause \in [Tasks -> {"none", "rotated", "lost"}]
  BY <1>0, CronNumbers DEF Kinds
<1>1. PICK ok \in BOOLEAN :
        /\ collected' = [collected EXCEPT ![p] = @ \cup {[task |-> t, ok |-> ok]}]
        /\ lastOk' = IF ok THEN [lastOk EXCEPT ![t] = now] ELSE lastOk
        /\ cause' = IF ok THEN [cause EXCEPT ![t] = "none"] ELSE cause
  BY DEF Execute
<1>2. UNCHANGED <<now, history, keep>>
  BY DEF Execute
<1>3. \A u \in Tasks : lastOk[u] # Never => lastOk'[u] # Never
  BY <1>k, <1>1 DEF Never
<1>4. \A u \in Tasks : lastOk'[u] = lastOk[u] \/ (ok /\ u = t)
  BY <1>k, <1>1
<1>5. ok => lastOk'[t] # Never
  BY <1>k, <1>1 DEF Never
<1>6. ASSUME NEW h \in Seq(Lines), Recorded(h, now, lastOk) PROVE Recorded(h, now', lastOk')
  <2> SUFFICES ASSUME NEW i \in 1 .. Len(h)
               PROVE  h[i].at <= now' /\ (h[i].ok => lastOk'[h[i].task] # Never)
    BY DEF Recorded
  <2>1. h[i] \in Lines
    BY ElementOfSeq
  <2>2. h[i].task \in Tasks
    BY <2>1 DEF Lines
  <2> QED  BY <1>2, <1>3, <1>6, <2>2 DEF Recorded
<1>7. Records'
  <2>1. Recorded(history', now', lastOk')
    BY <1>0, <1>2, <1>6 DEF Records, Kinds
  <2>2. \A q \in Procs : Recorded(keep'[q], now', lastOk')
    BY <1>0, <1>2, <1>6 DEF Records, Kinds
  <2>3. ASSUME NEW q \in Procs, NEW r \in collected'[q], r.ok PROVE lastOk'[r.task] # Never
    <3>1. r \in collected[q] \/ r = [task |-> t, ok |-> ok]
      BY <1>k, <1>1
    <3>2. CASE r \in collected[q]
      <4>1. r \in Outcomes /\ lastOk[r.task] # Never
        BY <1>0, <1>k, <2>3, <3>2 DEF Records
      <4>2. r.task \in Tasks
        BY <4>1 DEF Outcomes
      <4> QED  BY <1>3, <4>1, <4>2
    <3>3. CASE r = [task |-> t, ok |-> ok]
      BY <1>5, <2>3, <3>3
    <3> QED  BY <3>1, <3>2, <3>3
  <2> QED  BY <2>1, <2>2, <2>3 DEF Records
<1>8. ASSUME NEW u \in Tasks, cause'[u] = "none"
      PROVE  \/ lastOk'[u] <= LastRun(history', u)
             \/ \E q \in Procs : Success(u) \in collected'[q]
  <2>1. CASE ok /\ u = t
    <3>1. Success(u) \in collected'[p]
      BY <1>k, <1>1, <2>1 DEF Success
    <3> QED  BY <3>1
  <2>2. CASE ~(ok /\ u = t)
    <3>1. cause[u] = "none" /\ lastOk'[u] = lastOk[u]
      BY <1>k, <1>1, <1>8, <2>2
    <3>2. \A q \in Procs : collected[q] \subseteq collected'[q]
      BY <1>k, <1>1
    <3> QED  BY <1>0, <1>2, <3>1, <3>2 DEF Remembered
  <2> QED  BY <2>1, <2>2
<1> QED  BY <1>7, <1>8 DEF Remembered

\* What is written down is remembered by the history; what an append fails to write is lost.
LEMMA RecordRemembers ==
  ASSUME IInv, NEW p \in Procs, Record(p)
  PROVE  Records' /\ Remembered'
<1>0. Kinds /\ Records /\ Remembered
  BY DEF IInv
<1>k. /\ now \in Nat /\ collected \in [Procs -> SUBSET Outcomes] /\ history \in Seq(Lines)
      /\ cause \in [Tasks -> {"none", "rotated", "lost"}] /\ lastOk \in [Tasks -> Int]
      /\ \A t \in Tasks : lastOk[t] <= now
  BY <1>0, CronNumbers DEF Kinds
<1>1. PICK x \in collected[p] :
        /\ collected' = [collected EXCEPT ![p] = @ \ {x}]
        /\ \/ /\ history' = Append(history, [task |-> x.task, at |-> now, ok |-> x.ok])
              /\ UNCHANGED cause
           \/ /\ cause' = IF x.ok THEN [cause EXCEPT ![x.task] = "lost"] ELSE cause
              /\ UNCHANGED history
  BY DEF Record
<1>2. UNCHANGED <<now, keep, lastOk>>
  BY DEF Record
<1>3. x \in Outcomes /\ x.task \in Tasks /\ x.ok \in BOOLEAN
  BY <1>k, <1>1 DEF Outcomes
<1>4. \A q \in Procs : collected'[q] \subseteq collected[q]
  BY <1>k, <1>1
<1>5. \A q \in Procs : \A r \in collected[q] : r \in collected'[q] \/ r = x
  BY <1>k, <1>1
<1>6. \A t \in Tasks : Success(t) = x => t = x.task /\ x.ok
  BY DEF Success
<1>7. \A q \in Procs : \A r \in collected'[q] : r.ok => lastOk'[r.task] # Never
  BY <1>0, <1>2, <1>4 DEF Records
<1>8. \A q \in Procs : Recorded(keep'[q], now', lastOk')
  BY <1>0, <1>2 DEF Records
<1>9. CASE history' = Append(history, [task |-> x.task, at |-> now, ok |-> x.ok]) /\ UNCHANGED cause
  <2> DEFINE w == [task |-> x.task, at |-> now, ok |-> x.ok]
  <2>1. w \in Lines /\ w.task = x.task /\ w.at = now /\ w.ok = x.ok
    BY <1>k, <1>3 DEF Lines
  <2>2. history' = Append(history, w)
    BY <1>9
  <2> HIDE DEF w
  <2>3. /\ Len(history') = Len(history) + 1 /\ Len(history) \in Nat /\ history'[Len(history) + 1] = w
        /\ \A i \in 1 .. Len(history) : history'[i] = history[i]
    BY <1>k, <2>1, <2>2, AppendProperties
  <2>4. x.ok => lastOk[x.task] # Never
    BY <1>0, <1>1 DEF Records
  <2>5. Recorded(history', now', lastOk')
    <3> SUFFICES ASSUME NEW i \in 1 .. Len(history')
                 PROVE  history'[i].at <= now' /\ (history'[i].ok => lastOk'[history'[i].task] # Never)
      BY DEF Recorded
    <3>1. CASE i \in 1 .. Len(history)
      BY <1>0, <1>2, <2>3, <3>1 DEF Records, Recorded
    <3>2. CASE i = Len(history) + 1
      BY <1>k, <1>2, <2>1, <2>3, <2>4, <3>2
    <3> QED  BY <2>3, <3>1, <3>2
  <2>6. ASSUME NEW t \in Tasks, cause'[t] = "none"
        PROVE  \/ lastOk'[t] <= LastRun(history', t)
               \/ \E q \in Procs : Success(t) \in collected'[q]
    <3>1. LastRun(history', t) = IF x.task = t /\ x.ok THEN now ELSE LastRun(history, t)
      BY <1>k, <2>1, <2>2, AppendedRun
    <3>2. CASE x.task = t /\ x.ok
      BY <1>k, <1>2, <3>1, <3>2
    <3>3. CASE ~(x.task = t /\ x.ok)
      <4>1. LastRun(history', t) = LastRun(history, t) /\ cause[t] = "none" /\ lastOk'[t] = lastOk[t]
        BY <1>2, <1>9, <2>6, <3>1, <3>3
      <4>2. \A q \in Procs : Success(t) \in collected[q] => Success(t) \in collected'[q]
        BY <1>5, <1>6, <3>3
      <4> QED  BY <1>0, <4>1, <4>2 DEF Remembered
    <3> QED  BY <3>2, <3>3
  <2> QED  BY <1>7, <1>8, <2>5, <2>6 DEF Records, Remembered
<1>10. CASE cause' = (IF x.ok THEN [cause EXCEPT ![x.task] = "lost"] ELSE cause) /\ UNCHANGED history
  <2>1. Recorded(history', now', lastOk')
    BY <1>0, <1>2, <1>10 DEF Records
  <2>2. ASSUME NEW t \in Tasks, cause'[t] = "none"
        PROVE  cause[t] = "none" /\ \A q \in Procs : Success(t) \in collected[q] => Success(t) \in collected'[q]
    <3>1. cause[t] = "none" /\ ~(x.ok /\ x.task = t)
      BY <1>k, <1>10, <2>2
    <3> QED  BY <1>5, <1>6, <3>1
  <2>3. Remembered'
    BY <1>0, <1>2, <1>10, <2>2, RememberedFrame
  <2> QED  BY <1>7, <1>8, <2>1, <2>3 DEF Records
<1> QED  BY <1>1, <1>9, <1>10

\* What is kept is of the history.
LEMMA RotateRemembers ==
  ASSUME IInv, NEW p \in Procs, Rotate(p)
  PROVE  Records' /\ Remembered'
<1>0. Kinds /\ Records /\ Remembered
  BY DEF IInv
<1>k. keep \in [Procs -> Seq(Lines)]
  BY <1>0 DEF Kinds
<1>1. UNCHANGED <<now, history, collected, lastOk, cause>>
  BY DEF Rotate, ghosts
<1>2. Remembered'
  BY <1>0, <1>1, RememberedFrame
<1>3. \A q \in Procs : Recorded(keep'[q], now, lastOk)
  <2>1. CASE Len(history) <= MaxLines
    BY <1>0, <2>1 DEF Rotate, Records
  <2>2. CASE ~(Len(history) <= MaxLines)
    <3> DEFINE kept == SubSeq(history, Len(history) - MaxLines + 1, Len(history))
    <3>1. keep' = [keep EXCEPT ![p] = kept]
      BY <2>2 DEF Rotate
    <3>2. \A i \in 1 .. Len(kept) : \E j \in 1 .. Len(history) : kept[i] = history[j]
      BY <1>0, <2>2, LastLines
    <3> HIDE DEF kept
    <3>3. Recorded(kept, now, lastOk)
      BY <1>0, <3>2 DEF Recorded, Records
    <3> QED  BY <1>0, <1>k, <3>1, <3>3 DEF Records
  <2> QED  BY <2>1, <2>2
<1>4. Records'
  BY <1>0, <1>1, <1>3 DEF Records
<1> QED  BY <1>2, <1>4

\* A success that is no longer the last of its task in the new file has been rotated out.
LEMMA RenameRemembers ==
  ASSUME IInv, NEW p \in Procs, Rename(p)
  PROVE  Records' /\ Remembered'
<1>0. Kinds /\ Records /\ Remembered
  BY DEF IInv
<1>k. keep \in [Procs -> Seq(Lines)]
  BY <1>0 DEF Kinds
<1>1. /\ history' = keep[p] /\ keep' = [keep EXCEPT ![p] = <<>>]
      /\ cause' = [t \in Tasks |->
                      IF LastRun(keep[p], t) # LastRun(history, t) THEN "rotated" ELSE cause[t]]
      /\ UNCHANGED <<now, collected, lastOk>>
  BY DEF Rename
<1>2. Recorded(<<>>, now, lastOk) /\ \A q \in Procs : Recorded(keep[q], now, lastOk)
  BY <1>0 DEF Recorded, Records
<1>3. \A q \in Procs : keep'[q] = keep[q] \/ keep'[q] = <<>>
  BY <1>k, <1>1
<1>4. Records'
  BY <1>0, <1>1, <1>2, <1>3 DEF Records
<1>5. ASSUME NEW t \in Tasks, cause'[t] = "none"
      PROVE  \/ lastOk'[t] <= LastRun(history', t)
             \/ \E q \in Procs : Success(t) \in collected'[q]
  <2>1. LastRun(history', t) = LastRun(history, t) /\ cause[t] = "none"
    BY <1>1, <1>5
  <2> QED  BY <1>0, <1>1, <2>1 DEF Remembered
<1> QED  BY <1>4, <1>5 DEF Remembered

\* The invariant is inductive.
LEMMA NextIInv == IInv /\ [Next]_vars => IInv'
<1> SUFFICES ASSUME IInv, [Next]_vars PROVE Records' /\ Remembered'
  BY KindsStep, StandingStep, OneFileStep DEF IInv
<1> QED
  BY QuietStep, ExecuteRemembers, RecordRemembers, RotateRemembers, RenameRemembers DEF Next, Step

\* Every state of the daemon has its types: the clock and the times of the lines, the lock file
\* and the descriptors, what each instance holds where it stands (cmd/piglet-cron/main.go).
THEOREM CronTyped == Spec => []TypeOK
<1>1. IInv => TypeOK
  <2> SUFFICES ASSUME IInv PROVE TypeOK
    OBVIOUS
  <2>0. Kinds /\ Standing /\ Records /\ \A p \in Procs : Stands(p)
    BY DEF IInv, Standing
  <2>1. now \in 0 .. MaxNow /\ now \in Nat
    BY <2>0, CronNumbers DEF Kinds
  <2>2. ASSUME NEW i \in DOMAIN history PROVE history[i] \in [task : Tasks, at : 0 .. now, ok : BOOLEAN]
    <3>1. history \in Seq(Lines) /\ i \in 1 .. Len(history)
      BY <2>0, <2>2 DEF Kinds
    <3>2. history[i] \in Lines /\ history[i].at <= now
      BY <2>0, <3>1, ElementOfSeq DEF Records, Recorded
    <3> QED  BY <2>1, <3>2 DEF Lines
  <2>3. locked = {p \in Procs : Past(p)}
    BY <2>0 DEF Kinds, Stands
  <2>4. /\ \A p \in Procs : fd[p] = NoFile <=> pc[p] \in {"out", "unlink"}
        /\ \A p \in Procs : todo[p] # {} => pc[p] = "run"
        /\ \A p \in Procs : collected[p] # {} => pc[p] \in {"run", "record"}
        /\ \A p \in Procs : Len(keep[p]) = IF pc[p] = "rename" THEN MaxLines ELSE 0
    BY <2>0 DEF Stands
  <2> QED  BY <2>0, <2>1, <2>2, <2>3, <2>4 DEF TypeOK, Kinds
<1> QED  BY <1>1, InitIInv, NextIInv, PTL DEF Spec

\* Two instances are past the lock at a time only after a Release has unlinked the lock file that
\* another one had open: until then every open file is the one at the path, and a flock of it is
\* held by one instance (cron/lock.go).
THEOREM LockExcludes == Spec => []ExclusiveUnlessUnlinked
<1>1. IInv => ExclusiveUnlessUnlinked
  <2> SUFFICES ASSUME IInv, ~stolen, NEW p \in Procs, NEW q \in Procs, Past(p), Past(q) PROVE p = q
    BY DEF ExclusiveUnlessUnlinked, IInv, Kinds
  <2>1. /\ p \in locked /\ q \in locked /\ fd[p] # NoFile /\ fd[q] # NoFile
    BY DEF IInv, Standing, Stands, Past
  <2> QED  BY <2>1 DEF IInv, OneFile
<1> QED  BY <1>1, InitIInv, NextIInv, PTL DEF Spec

\* A task's target and its period are times.
LEMMA ScheduleNumbers ==
  ASSUME now \in Nat, NEW s \in Daily \cup Weekly
  PROVE  Target(s) \in Int /\ Period(s) \in Int
<1>1. Day \in Nat /\ Day > 0 /\ Week \in Nat /\ Week > 0
  BY CronAssumption
<1>2. now \div Day \in Int
  BY <1>1
<1>3. Midnight \in Int
  BY <1>1, <1>2 DEF Midnight
<1>4. Period(s) \in Int
  BY <1>1 DEF Period
<1>5. s.at \in Int
  BY <1>1 DEF Daily, Weekly
<1>6. CASE s.kind = "daily"
  <2>1. Target(s) = Midnight + s.at
    BY <1>6 DEF Target
  <2> QED  BY <1>3, <1>4, <1>5, <2>1
<1>7. CASE s.kind # "daily"
  <2>1. s.weekday \in Int
    BY <1>1, <1>7 DEF Daily, Weekly
  <2> DEFINE ahead == (s.weekday - now \div Day) % Week
  <2>2. ahead \in Int
    BY <1>1, <1>2, <2>1
  <2>3. Target(s) = Midnight + ahead * Day + s.at
    BY <1>7 DEF Target
  <2> HIDE DEF ahead
  <2>4. ahead * Day \in Int
    BY <1>1, <2>2
  <2> QED  BY <1>3, <1>4, <1>5, <2>3, <2>4
<1> QED  BY <1>6, <1>7

\* What is due for a later last run is due for an earlier one.
LEMMA DueEarlier ==
  ASSUME now \in Nat, NEW s \in Interval \cup Daily \cup Weekly,
         NEW early \in Int, NEW late \in Int, early <= late, early = Never <=> late = Never,
         ShouldRun(s, late)
  PROVE  ShouldRun(s, early)
<1>1. CASE s.kind = "interval"
  <2>1. s.every \in Int
    BY <1>1 DEF Interval, Daily, Weekly
  <2> QED  BY <1>1, <2>1 DEF ShouldRun
<1>2. CASE s.kind # "interval"
  <2>1. s \in Daily \cup Weekly
    BY <1>2 DEF Interval
  <2>2. Target(s) \in Int /\ Period(s) \in Int
    BY <2>1, ScheduleNumbers
  <2> QED  BY <1>2, <2>2 DEF ShouldRun
<1> QED  BY <1>1, <1>2

\* The agent schedules tasks by collecting them.
LEMMA ScheduledAreDue ==
  ASSUME IInv, Next, NEW t \in Tasks, Scheduled(t)
  PROVE  Due(t) /\ pc[Agent] = "inside"
<1>0. Kinds /\ Agent \in Procs
  BY CronAssumption DEF IInv
<1>1. pc \in [Procs -> Pcs] /\ todo \in [Procs -> SUBSET Tasks] /\ pc[Agent] = "inside" /\ pc'[Agent] = "run"
  BY <1>0 DEF Kinds, Scheduled
<1>2. ASSUME NEW p \in Procs, NEW place, pc' = [pc EXCEPT ![p] = place], p # Agent \/ place # "run" PROVE FALSE
  BY <1>0, <1>1, <1>2
<1>3. ~Tick
  BY <1>1 DEF Tick
<1>4. ASSUME NEW p \in Procs, Open(p) \/ Lock(p) \/ Gone(p) \/ Rename(p) \/ Unlock(p) \/ Unlink(p) PROVE FALSE
  BY <1>2, <1>4 DEF Open, Lock, Gone, Rename, Unlock, Unlink
<1>5. ASSUME NEW p \in Procs, Rotate(p) PROVE FALSE
  BY <1>2, <1>5 DEF Rotate
<1>6. ASSUME NEW p \in Procs, Record(p) PROVE FALSE
  <2>1. PICK x \in collected[p] : pc' = [pc EXCEPT ![p] = IF collected[p] = {x} THEN "rotate" ELSE "record"]
    BY <1>6 DEF Record
  <2> QED  BY <1>2, <2>1
<1>7. ASSUME NEW p \in Procs, NEW u \in Tasks, Execute(p, u) PROVE FALSE
  <2>1. pc[p] = "run" /\ pc' = [pc EXCEPT ![p] = IF todo[p] = {u} THEN "record" ELSE "run"]
    BY <1>7 DEF Execute
  <2> QED  BY <1>1, <1>2, <2>1
<1>8. PICK p \in Procs : Collect(p)
  BY <1>3, <1>4, <1>5, <1>6, <1>7 DEF Next, Step, Refused, ExitWithError, Kill
<1>9. p = Agent
  <2>1. PICK place : pc' = [pc EXCEPT ![p] = place]
    BY <1>8 DEF Collect
  <2> QED  BY <1>2, <2>1
<1>10. todo' = [todo EXCEPT ![Agent] = {u \in Tasks : Due(u)}]
  BY <1>8, <1>9 DEF Collect
<1>11. t \in todo'[Agent]
  BY DEF Scheduled
<1>12. todo'[Agent] = {u \in Tasks : Due(u)}
  BY <1>0, <1>1, <1>10
<1> QED  BY <1>1, <1>11, <1>12

\* As long as no two instances overlap, a success not said to be forgotten is in the history
\* when the agent asks: the schedule then sees the last run there really was.
LEMMA RepeatsStep ==
  ASSUME IInv, Next, NEW t \in Tasks, Scheduled(t), cause[t] = "none", ~overlap
  PROVE  ShouldRun(sched[t], lastOk[t])
<1> DEFINE last == LastRun(history, t)
<1>0. Kinds /\ Records /\ Remembered /\ OneFile /\ (\A p \in Procs : Stands(p)) /\ Agent \in Procs
  BY CronAssumption DEF IInv, Standing
<1>1. Due(t) /\ pc[Agent] = "inside"
  BY ScheduledAreDue
<1>2. ASSUME NEW p \in Procs PROVE collected[p] = {}
  <2>1. Agent \in locked /\ collected[Agent] = {}
    BY <1>0, <1>1 DEF Stands, Past
  <2>2. collected[p] # {} => p \in locked
    BY <1>0 DEF Stands, Past
  <2> QED  BY <1>0, <2>1, <2>2 DEF OneFile
<1>3. lastOk[t] <= last
  BY <1>0, <1>2 DEF Remembered
<1>4. now \in Nat /\ lastOk[t] \in Int /\ lastOk[t] >= -1 /\ history \in Seq(Lines)
  BY <1>0, CronNumbers DEF Kinds
<1>5. last \in Int /\ (last # Never => lastOk[t] # Never)
  <2>1. CASE last = Never
    BY <2>1 DEF Never
  <2>2. CASE last # Never
    <3>1. PICK i \in Successes(history, t) : last = history[i].at
      BY <1>4, <2>2, LastRunFacts
    <3>2. i \in 1 .. Len(history) /\ history[i].task = t /\ history[i].ok
      BY <1>4, <3>1 DEF Successes
    <3>3. history[i] \in Lines
      BY <1>4, <3>2, ElementOfSeq
    <3>4. history[i].at \in Int
      BY <3>3 DEF Lines
    <3> QED  BY <1>0, <3>1, <3>2, <3>4 DEF Records, Recorded
  <2> QED  BY <2>1, <2>2
<1>6. ShouldRun(sched[t], last)
  BY <1>1 DEF Due
<1>7. sched[t] \in Interval \cup Daily \cup Weekly
  BY <1>0, CronAssumption DEF Kinds
<1> HIDE DEF last
<1>8. last = Never => lastOk[t] = Never
  BY <1>3, <1>4, <1>5 DEF Never
<1> QED  BY <1>3, <1>4, <1>5, <1>6, <1>7, <1>8, DueEarlier

\* A scheduled run that the schedule would not start, asked about the runs there really have been,
\* is started only if the record of the last success was lost with a killed instance or a failed
\* append, was rotated out, or two instances overlapped (cron/schedules.go, cron/history.go).
THEOREM RepeatsForgotten == Spec => RepeatsOnlyIfForgotten
<1>1. IInv /\ [Next]_vars =>
        [\A t \in Tasks : Scheduled(t) =>
            ShouldRun(sched[t], lastOk[t]) \/ cause[t] # "none" \/ overlap]_vars
  BY RepeatsStep DEF IInv, Kinds
<1> QED  BY <1>1, InitIInv, NextIInv, PTL DEF Spec, RepeatsOnlyIfForgotten

=============================================================================
