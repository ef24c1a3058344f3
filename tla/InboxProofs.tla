----------------------------- MODULE InboxProofs -----------------------------
(***************************************************************************)
(* Proofs about Inbox, for any envelopes, ids, paths, modification times   *)
(* and capacity of seen.  That the oldest file of a scan goes first needs  *)
(* what is still due to be listed under its own time (Listed): writers and *)
(* failing removals disturb the directory, not what the listing says of an *)
(* envelope that was whole when it was taken.                              *)
(***************************************************************************)
EXTENDS Inbox, FiniteSetTheorems, TLAPS

Handling == {"send", "record", "ack", "remove"}

Sorts ==
    /\ kind \in [Messages -> {"none", "plain", "ttl", "invalid", "garbage", "link", "locked", "expired"}]
    /\ sent \in Seq(Messages)
    /\ told \subseteq Ids /\ judged \subseteq Messages /\ due \subseteq Messages
    /\ IsFiniteSet(seen)
    /\ ~started => pc = "off"
    /\ pc \in {"off", "idle"} => DOMAIN listing = {}

\* A path in use is the one its envelope was written to; the one being handled is next in line.
Placed ==
    /\ \A p \in Paths : dir[p] # NoMessage => path[dir[p]] = p
    /\ pc \in Handling => path[cur] \in Paths /\ IsNext(path[cur])

\* What was handed over is remembered, or about to be.
Remembered ==
    /\ \A i \in DOMAIN sent : IdOf[sent[i]] \in seen \/ (pc = "record" /\ IdOf[sent[i]] = IdOf[cur])
    /\ pc = "send" => IdOf[cur] \notin seen /\ acks[IdOf[cur]] = NoAck
    /\ pc \in {"record", "ack"} /\ status = "delivered" => IdOf[cur] \in told

\* What is due is whole for as long as it lies there, and listed under the time of its file.
Listed == \A m \in due :
    /\ path[m] # NoPath
    /\ path[m] \in DOMAIN listing => listing[path[m]] = mtime[m]
    /\ Lying(m) => path[m] \in DOMAIN listing /\ path[m] \notin half
    /\ Lying(m) /\ pc \in Handling /\ path[m] = path[cur] => m = cur

IInv == TypeOK /\ Sorts /\ Placed /\ Remembered /\ Listed /\ DeliveriesAreSound

\* Nothing has arrived and nothing runs at first.
LEMMA InitIInv == Init => IInv
<1> SUFFICES ASSUME Init PROVE IInv
    OBVIOUS
<1>1. TypeOK
    <2>1. Cardinality(seen) <= DedupCap
        BY InboxAssumption, FS_EmptySet DEF Init
    <2>2. DOMAIN listing = {} /\ seen \subseteq Ids
        BY DEF Init
    <2>3. /\ \A p \in DOMAIN listing : p \in Paths /\ listing[p] \in Nat
          /\ pc \in {"off", "idle", "scan", "send", "record", "ack", "remove"}
          /\ pc \in {"off", "idle", "scan"} <=> cur = NoMessage
          /\ status \in {NoAck, "delivered", "duplicate", "failed"}
          /\ pc \in {"off", "idle", "scan"} => status = NoAck
        BY <2>2 DEF Init
    <2>4. /\ dir \in [Paths -> Messages \cup {NoMessage}]
          /\ half \subseteq {p \in Paths : dir[p] # NoMessage}
          /\ path \in [Messages -> Paths \cup {NoPath}]
          /\ \A m \in Messages : kind[m] = NoPath <=> path[m] = NoPath
          /\ mtime \in [Messages -> Nat]
          /\ cur \in Messages \cup {NoMessage}
          /\ acks \in [Ids -> {NoAck, "delivered", "duplicate", "failed"}]
          /\ started \in BOOLEAN /\ exited \in BOOLEAN
        BY DEF Init
    <2> QED BY <2>1, <2>2, <2>3, <2>4 DEF TypeOK
<1>2. Sorts
    <2>1. DOMAIN listing = {} /\ sent \in Seq(Messages)
        BY DEF Init
    <2> QED BY <2>1, FS_EmptySet DEF Init, Sorts, NoPath
<1>3. Placed /\ Remembered /\ Listed
    BY DEF Init, Placed, Remembered, Listed, Handling
<1>4. DeliveriesAreSound
    BY DEF Init, DeliveriesAreSound, AtMostOnce, AckedWasDelivered, OldestFirst, NoAck
<1> QED BY <1>1, <1>2, <1>3, <1>4 DEF IInv

-----------------------------------------------------------------------------
(* One lemma for each part of the invariant.                               *)

\* Every step keeps the types.
LEMMA TypeStep ==
    ASSUME IInv, [Next]_vars
    PROVE  TypeOK' /\ Sorts'
<1> USE InboxAssumption
<1> USE DEF IInv, TypeOK, Sorts, Handling
<1>1. ASSUME NEW p \in Paths, Unlinked(p)
      PROVE  /\ dir' \in [Paths -> Messages \cup {NoMessage}]
             /\ half' \subseteq {q \in Paths : dir'[q] # NoMessage}
             /\ UNCHANGED <<path, kind, mtime>>
    BY <1>1 DEF Unlinked
<1>2. ASSUME NEW m \in Messages, NEW p \in Paths, Write(m, p), half' \in {half \ {p}, half \cup {p}}
      PROVE  TypeOK' /\ Sorts'
    <2>1. PICK k \in KindsOf[m] : kind' = [kind EXCEPT ![m] = k]
        BY <1>2 DEF Write
    <2>2. k \in {"plain", "ttl", "invalid", "garbage", "link", "locked"}
        OBVIOUS
    <2>3. /\ path' = [path EXCEPT ![m] = p] /\ dir' = [dir EXCEPT ![p] = m]
          /\ UNCHANGED <<pc, listing, cur, status, seen, acks, started, exited, sent, told, judged, due>>
        BY <1>2 DEF Write, scanner, process, history, handed
    <2>4. path' \in [Messages -> Paths \cup {NoPath}] /\ dir' \in [Paths -> Messages \cup {NoMessage}]
        BY <2>3
    <2>5. \A n \in Messages : kind'[n] = NoPath <=> path'[n] = NoPath
        BY <2>1, <2>2, <2>3 DEF NoPath
    <2>6. kind' \in [Messages -> {"none", "plain", "ttl", "invalid", "garbage", "link", "locked", "expired"}]
        BY <2>1, <2>2
    <2>7. mtime' \in [Messages -> Nat]
        <3>1. PICK t \in TimesOf[m] : mtime' = [mtime EXCEPT ![m] = t]
            BY <1>2 DEF Write
        <3>2. t \in Nat
            OBVIOUS
        <3> QED BY <3>1, <3>2
    <2>8. half' \subseteq {q \in Paths : dir'[q] # NoMessage}
        BY <1>2, <2>3
    <2> QED BY <2>3, <2>4, <2>5, <2>6, <2>7, <2>8
<1>3. ASSUME NEW m \in Messages, NEW p \in Paths, Drop(m, p) \/ BeginWrite(m, p) PROVE TypeOK' /\ Sorts'
    BY <1>2, <1>3 DEF Drop, BeginWrite
<1>5. ASSUME NEW p \in Paths, EndWrite(p) PROVE TypeOK' /\ Sorts'
    <2>1. dir[p] \in Messages
        BY <1>5 DEF EndWrite
    <2>2. mtime' \in [Messages -> Nat]
        <3>1. PICK t \in TimesOf[dir[p]] : mtime' = [mtime EXCEPT ![dir[p]] = t]
            BY <1>5 DEF EndWrite
        <3>2. t \in Nat
            BY <2>1
        <3> QED BY <2>1, <3>1, <3>2
    <2>3. half' \subseteq half /\ UNCHANGED <<dir, path, kind, scanner, seen, acks, process, history>>
        BY <1>5 DEF EndWrite
    <2> QED BY <2>2, <2>3 DEF scanner, process, history, handed
<1>6. ASSUME NEW p \in Paths, Abandon(p) PROVE TypeOK' /\ Sorts'
    BY <1>1, <1>6 DEF Abandon, scanner, process, history, handed
<1>7. ASSUME NEW m \in Messages, Age(m) PROVE TypeOK' /\ Sorts'
    BY <1>7 DEF Age, NoPath, scanner, process, history, handed
<1>8. CASE AgentStart \/ AgentStartFails
    <2>1. CASE AgentStart
        BY <2>1 DEF AgentStart, files, history, handed
    <2>2. CASE AgentStartFails
        BY <2>2 DEF AgentStartFails, files, scanner, history, handed
    <2> QED BY <1>8, <2>1, <2>2
<1>9. CASE Crash \/ Exit
    <2>1. Cardinality({}) <= DedupCap /\ IsFiniteSet({})
        BY FS_EmptySet
    <2>2. <<>> \in Seq(Messages) /\ DOMAIN <<>> = {}
        OBVIOUS
    <2>3. /\ pc' = "off" /\ listing' = <<>> /\ cur' = NoMessage /\ status' = NoAck /\ seen' = {}
          /\ sent' = <<>> /\ due' = {} /\ UNCHANGED <<files, acks, told, judged>>
          /\ started' \in BOOLEAN /\ exited' \in BOOLEAN
        BY <1>9 DEF Crash, Exit, Vanish
    <2> QED BY <2>1, <2>2, <2>3 DEF files, NoAck
<1>10. CASE BeginScan
    <2>1. \A p \in DOMAIN listing' : p \in Paths /\ listing'[p] \in Nat
        <3>1. \A p \in DOMAIN listing' : p \in Paths /\ dir[p] \in Messages /\ listing'[p] = mtime[dir[p]]
            BY <1>10 DEF BeginScan, Listing
        <3> QED BY <3>1
    <2>2. due' \subseteq Messages
        BY <1>10 DEF BeginScan, Listing
    <2> QED BY <1>10, <2>1, <2>2 DEF BeginScan, Listing, files, process, handed
<1>11. CASE EndScan
    BY <1>11 DEF EndScan, files, process, history, handed, NoAck
<1>p. ASSUME NEW p, Passed(p) PROVE \A q \in DOMAIN listing' : q \in Paths /\ listing'[q] \in Nat
    BY <1>p DEF Passed
<1>12. ASSUME NEW p \in Paths, Skip(p) PROVE TypeOK' /\ Sorts'
    BY <1>12, <1>p DEF Skip, files, process, history, handed
<1>13. ASSUME NEW m \in Messages, ReadFails(m) PROVE TypeOK' /\ Sorts'
    BY <1>13, <1>p DEF ReadFails, files, process, handed
<1>14. ASSUME NEW m \in Messages, Verdict(m) PROVE TypeOK' /\ Sorts'
    <2>1. PICK v \in {NoAck, "failed", "duplicate", "delivered"}, next \in Handling : Judge(m, v, next)
        BY <1>14 DEF Verdict, RemoveLink, RejectUnread, RejectInvalid, Expire, RejectDuplicate, Accept
    <2> QED BY <2>1 DEF Judge, files, process, handed
<1>15. CASE Send
    BY <1>15 DEF Send, files, process
<1>16. CASE Record
    <2>1. IdOf[cur] \in Ids /\ cur \in Messages
        BY <1>16 DEF Record
    <2>2. IsFiniteSet(seen') /\ Cardinality(seen') <= DedupCap
        <3>1. CASE Cardinality(seen) >= DedupCap
            <4>1. seen' = {IdOf[cur]}
                BY <1>16, <3>1 DEF Record
            <4>2. IsFiniteSet(seen') /\ Cardinality(seen') = 1
                BY <4>1, FS_Singleton
            <4> QED BY <4>2
        <3>2. CASE ~(Cardinality(seen) >= DedupCap)
            <4>1. seen' = seen \cup {IdOf[cur]}
                BY <1>16, <3>2 DEF Record
            <4>2. IsFiniteSet(seen) /\ Cardinality(seen) \in Nat
                BY FS_CardinalityType
            <4>3. IsFiniteSet(seen') /\ Cardinality(seen') \in {Cardinality(seen), Cardinality(seen) + 1}
                BY <4>1, <4>2, FS_AddElement
            <4> QED BY <3>2, <4>2, <4>3
        <3> QED BY <3>1, <3>2
    <2>3. seen' \subseteq Ids /\ sent' \in Seq(Messages)
        <3>1. sent' \in {sent, <<cur>>} /\ seen' \in {{IdOf[cur]}, seen \cup {IdOf[cur]}}
            BY <1>16 DEF Record
        <3>2. <<cur>> \in Seq(Messages)
            BY <2>1
        <3> QED BY <2>1, <3>1, <3>2
    <2>4. UNCHANGED <<files, listing, cur, status, acks, process, told, judged, due>> /\ pc' = "ack"
          /\ pc = "record"
        BY <1>16 DEF Record
    <2> QED BY <2>2, <2>3, <2>4 DEF files, process
<1>17. CASE WriteAck
    <2>1. IdOf[cur] \in Ids
        BY <1>17 DEF WriteAck
    <2> QED BY <1>17, <2>1 DEF WriteAck, files, process, history, handed
<1>18. CASE Remove
    <2>1. path[cur] \in Paths /\ Passed(path[cur]) /\ due' \subseteq due
        BY <1>18 DEF Remove, Placed
    <2>2. /\ dir' \in [Paths -> Messages \cup {NoMessage}]
          /\ half' \subseteq {q \in Paths : dir'[q] # NoMessage} /\ UNCHANGED <<path, kind, mtime>>
        BY <1>1, <1>18, <2>1 DEF Remove, files
    <2> QED BY <1>18, <1>p, <2>1, <2>2 DEF Remove, process, handed
<1>19. CASE UNCHANGED vars
    BY <1>19 DEF vars, files, scanner, process, history, handed
<1> QED BY <1>3, <1>5, <1>6, <1>7, <1>8, <1>9, <1>10, <1>11, <1>12, <1>13, <1>14, <1>15,
           <1>16, <1>17, <1>18, <1>19 DEF Next, Scan

\* A path is used once for an envelope, and the scanner holds on to the first of its listing.
LEMMA PlacedStep ==
    ASSUME IInv, [Next]_vars
    PROVE  Placed'
<1> USE DEF Handling
<1>0. TypeOK /\ Sorts /\ Placed /\ NoMessage \notin Messages /\ NoPath \notin Paths
    BY InboxAssumption DEF IInv
<1> DEFINE
     Lies == \A p \in Paths : dir[p] # NoMessage => path[dir[p]] = p
     Held == pc \in Handling => path[cur] \in Paths /\ IsNext(path[cur])
<1>1. Lies /\ Held
    BY <1>0 DEF Placed
<1>2. ASSUME NEW p \in Paths, Unlinked(p) PROVE Lies' /\ path' = path
    BY <1>0, <1>1, <1>2 DEF Unlinked, TypeOK
<1>3. ASSUME NEW m \in Messages, NEW p \in Paths, Write(m, p) PROVE Placed'
    <2>1. /\ path[m] = NoPath /\ path' = [path EXCEPT ![m] = p] /\ dir' = [dir EXCEPT ![p] = m]
          /\ UNCHANGED <<pc, listing, cur>>
        BY <1>3 DEF Write, scanner
    <2>2. Lies'
        BY <1>0, <1>1, <2>1 DEF TypeOK
    <2>3. Held'
        BY <1>0, <1>1, <2>1 DEF TypeOK, IsNext
    <2> QED BY <2>2, <2>3 DEF Placed
<1>4. ASSUME NEW m \in Messages, NEW p \in Paths, Drop(m, p) \/ BeginWrite(m, p) PROVE Placed'
    BY <1>3, <1>4 DEF Drop, BeginWrite
<1>5. ASSUME NEW p \in Paths, Abandon(p) PROVE Placed'
    <2>1. UNCHANGED <<pc, listing, cur>>
        BY <1>5 DEF Abandon, scanner
    <2> QED BY <1>1, <1>2, <1>5, <2>1 DEF Placed, Abandon, IsNext
<1>6. CASE UNCHANGED <<dir, path, listing, cur>> /\ (pc' \in Handling => pc \in Handling)
    BY <1>1, <1>6 DEF Placed, IsNext
<1>7. CASE UNCHANGED <<dir, path>> /\ pc' \notin Handling
    BY <1>1, <1>7 DEF Placed
<1>8. CASE Remove
    <2>1. Lies' /\ pc' = "scan"
        BY <1>1, <1>2, <1>8 DEF Remove, files
    <2> QED BY <2>1 DEF Placed
<1>9. ASSUME NEW m \in Messages, Verdict(m) PROVE Placed'
    <2>1. PICK v \in {NoAck, "failed", "duplicate", "delivered"}, next \in Handling : Judge(m, v, next)
        BY <1>9 DEF Verdict, RemoveLink, RejectUnread, RejectInvalid, Expire, RejectDuplicate, Accept
    <2>2. path[m] \in Paths
        BY <1>0, <2>1 DEF Judge, Lying, TypeOK
    <2> QED BY <1>1, <2>1, <2>2 DEF Judge, files, Placed, IsNext
<1> QED BY <1>4, <1>5, <1>6, <1>7, <1>8, <1>9
        DEF Next, Scan, EndWrite, Age, AgentStart, AgentStartFails, Crash, Exit, Vanish, BeginScan,
            Listing, EndScan, Skip, ReadFails, Send, Record, WriteAck, vars, files, scanner

\* What seen and the acks hold keeps the scanner from handing an id over again.
LEMMA RememberedStep ==
    ASSUME IInv, [Next]_vars
    PROVE  Remembered' /\ AtMostOnce' /\ AckedWasDelivered'
<1>0. /\ TypeOK /\ Sorts /\ Remembered /\ AtMostOnce /\ AckedWasDelivered
      /\ IdOf \in [Messages -> Ids] /\ NoMessage \notin Messages
    BY InboxAssumption DEF IInv, DeliveriesAreSound
<1> USE DEF Remembered, AtMostOnce, AckedWasDelivered, NoAck
<1>1. CASE UNCHANGED <<pc, cur, status, seen, acks, sent, told>>
    BY <1>0, <1>1
<1>2. CASE AgentStart \/ BeginScan \/ (\E p \in Paths : Skip(p)) \/ (\E m \in Messages : ReadFails(m))
    <2>1. pc \notin {"send", "record", "ack", "remove"}
        BY <1>0, <1>2 DEF AgentStart, BeginScan, Listing, Skip, ReadFails, Sorts
    <2>2. UNCHANGED <<cur, status, seen, acks, sent, told>> /\ pc' \in {"idle", "scan"}
        BY <1>2 DEF AgentStart, BeginScan, Listing, Skip, ReadFails, history, handed
    <2> QED BY <1>0, <2>1, <2>2
<1>3. CASE Crash \/ Exit
    BY <1>0, <1>3 DEF Crash, Exit, Vanish
<1>4. CASE EndScan
    BY <1>0, <1>4 DEF EndScan, TypeOK, history, handed
<1>5. ASSUME NEW m \in Messages, Verdict(m) PROVE Remembered' /\ AtMostOnce' /\ AckedWasDelivered'
    BY <1>0, <1>5 DEF Verdict, RemoveLink, RejectUnread, RejectInvalid, Expire, RejectDuplicate, Accept,
                      IsDuplicate, Judge, handed
<1>6. CASE Send
    <2>1. /\ DOMAIN sent' = 1..(Len(sent) + 1) /\ DOMAIN sent = 1..Len(sent) /\ Len(sent) \in Nat
          /\ sent'[Len(sent) + 1] = cur /\ \A i \in 1..Len(sent) : sent'[i] = sent[i]
        BY <1>0, <1>6 DEF Send, TypeOK, Sorts
    <2>2. /\ pc = "send" /\ pc' = "record" /\ told' = told \cup {IdOf[cur]}
          /\ UNCHANGED <<cur, seen, acks, status>>
        BY <1>6 DEF Send
    <2>3. \A i \in DOMAIN sent' : i \in DOMAIN sent \/ i = Len(sent) + 1
        BY <2>1
    <2> QED BY <1>0, <2>1, <2>2, <2>3
<1>7. CASE Record
    <2>1. pc = "record" /\ pc' = "ack" /\ UNCHANGED <<cur, status, acks, told>>
        BY <1>7 DEF Record
    <2>2. CASE seen' = {IdOf[cur]} /\ sent' = <<cur>>
        BY <1>0, <2>1, <2>2
    <2>3. CASE seen' = seen \cup {IdOf[cur]} /\ sent' = sent
        BY <1>0, <2>1, <2>3
    <2> QED BY <1>7, <2>2, <2>3 DEF Record
<1>8. CASE WriteAck
    <2>1. cur \in Messages /\ IdOf[cur] \in Ids
        BY <1>0, <1>8 DEF WriteAck, TypeOK
    <2> QED BY <1>0, <1>8, <2>1 DEF WriteAck, TypeOK, history, handed
<1>9. CASE Remove
    BY <1>0, <1>9 DEF Remove, history, handed
<1> QED BY <1>1, <1>2, <1>3, <1>4, <1>5, <1>6, <1>7, <1>8, <1>9
        DEF Next, Scan, Drop, BeginWrite, Write, EndWrite, Abandon, Age, AgentStartFails, vars,
            scanner, history, handed

\* What writers do leaves the listing true of what is due, and so does working through it.
LEMMA ListedStep ==
    ASSUME IInv, [Next]_vars
    PROVE  Listed'
<1> USE DEF Handling
<1>0. /\ TypeOK /\ Sorts /\ Placed /\ Listed
      /\ NoMessage \notin Messages /\ NoPath \notin Paths
    BY InboxAssumption DEF IInv
<1>a. \A m \in due : m \in Messages
    BY <1>0 DEF Sorts
<1>1. CASE UNCHANGED <<dir, half, path, mtime, listing, cur, due>> /\ (pc' \in Handling => pc \in Handling)
    BY <1>0, <1>1 DEF Listed, Lying
<1>2. ASSUME NEW m \in Messages, NEW p \in Paths, Write(m, p), half' \in {half \ {p}, half \cup {p}}
      PROVE  Listed'
    <2>1. /\ path[m] = NoPath /\ path' = [path EXCEPT ![m] = p] /\ dir' = [dir EXCEPT ![p] = m]
          /\ UNCHANGED <<pc, listing, cur, due>>
        BY <1>2 DEF Write, scanner, history
    <2>2. \A n \in Messages : n # m => mtime'[n] = mtime[n]
        BY <1>0, <1>2 DEF Write, TypeOK
    <2> SUFFICES ASSUME NEW n \in due
                 PROVE  /\ path'[n] # NoPath
                        /\ path'[n] \in DOMAIN listing => listing[path'[n]] = mtime'[n]
                        /\ Lying(n)' => path'[n] \in DOMAIN listing /\ path'[n] \notin half'
                        /\ Lying(n)' /\ pc \in Handling /\ path'[n] = path'[cur] => n = cur
        BY <2>1 DEF Listed
    <2>3. n \in Messages /\ n # m /\ path'[n] = path[n] /\ mtime'[n] = mtime[n] /\ path[n] \in Paths
        BY <1>0, <1>a, <2>1, <2>2 DEF Listed, TypeOK
    <2>4. Lying(n)' => Lying(n) /\ path[n] # p
        BY <1>0, <2>1, <2>3 DEF Lying, TypeOK
    <2>5. pc \in Handling => cur \in Messages /\ cur # m /\ path'[cur] = path[cur]
        BY <1>0, <2>1 DEF TypeOK, Placed
    <2> QED BY <1>0, <1>2, <2>3, <2>4, <2>5 DEF Listed
<1>3. ASSUME NEW m \in Messages, NEW p \in Paths, Drop(m, p) \/ BeginWrite(m, p) PROVE Listed'
    BY <1>2, <1>3 DEF Drop, BeginWrite
<1>4. ASSUME NEW p \in Paths, EndWrite(p) PROVE Listed'
    <2>1. /\ half' = half \ {p} /\ p \in half
          /\ UNCHANGED <<dir, path, pc, listing, cur, due>>
        BY <1>4 DEF EndWrite, scanner, history
    <2>2. dir[p] \in Messages /\ path[dir[p]] = p
        BY <1>0, <2>1 DEF TypeOK, Placed
    <2>3. \A n \in Messages : n # dir[p] => mtime'[n] = mtime[n]
        BY <1>0, <1>4 DEF EndWrite, TypeOK
    <2>4. dir[p] \notin due
        BY <1>0, <2>1, <2>2 DEF Listed, Lying
    <2> QED BY <1>0, <1>a, <2>1, <2>3, <2>4 DEF Listed, Lying
<1>5. ASSUME NEW p \in Paths, Unlinked(p)
      PROVE  /\ UNCHANGED <<path, mtime>> /\ half' \subseteq half
             /\ \A n \in due : Lying(n)' => Lying(n) /\ path[n] # p
    <2>1. dir' = [dir EXCEPT ![p] = NoMessage] /\ half' = half \ {p} /\ UNCHANGED <<path, kind, mtime>>
        BY <1>5 DEF Unlinked
    <2>2. ASSUME NEW n \in due, Lying(n)' PROVE Lying(n) /\ path[n] # p
        <3>1. n \in Messages /\ path[n] \in Paths /\ dir'[path[n]] = n
            BY <1>0, <1>a, <2>1, <2>2 DEF Lying, TypeOK, Listed
        <3> QED BY <1>0, <2>1, <3>1 DEF Lying, TypeOK
    <2> QED BY <2>1, <2>2
<1>6. ASSUME NEW p \in Paths, Abandon(p) PROVE Listed'
    <2>1. Unlinked(p) /\ UNCHANGED <<pc, listing, cur, due>>
        BY <1>6 DEF Abandon, scanner, history
    <2> QED BY <1>0, <1>5, <2>1 DEF Listed
<1>7. CASE Crash \/ Exit
    BY <1>7 DEF Crash, Exit, Vanish, Listed
<1>8. CASE AgentStart
    <2>1. pc = "off" /\ pc' \notin Handling
        BY <1>0, <1>8 DEF AgentStart, Sorts
    <2> QED BY <1>0, <1>8, <2>1 DEF AgentStart, files, history, Listed, Lying
<1>9. CASE BeginScan
    <2>1. /\ listing' = [p \in {q \in Paths : dir[q] # NoMessage} |-> mtime[dir[p]]]
          /\ due' = {dir[p] : p \in {q \in Paths : dir[q] # NoMessage} \ half}
          /\ pc' = "scan" /\ UNCHANGED <<dir, half, path, mtime>>
        BY <1>9 DEF BeginScan, Listing, files
    <2>2. ASSUME NEW m \in due' PROVE \E p \in Paths : /\ p \notin half /\ dir[p] = m /\ path[m] = p
                                                         /\ p \in DOMAIN listing' /\ listing'[p] = mtime[m]
        <3>1. PICK p \in {q \in Paths : dir[q] # NoMessage} \ half : m = dir[p]
            BY <2>1
        <3> QED BY <1>0, <2>1, <3>1 DEF Placed
    <2> QED BY <1>0, <2>1, <2>2 DEF Listed
<1>10. ASSUME NEW p \in Paths, Passed(p), UNCHANGED <<path, mtime>>, half' \subseteq half,
              due' \subseteq due, pc' = "scan",
              \A n \in due' : Lying(n)' => Lying(n) /\ path[n] # p
       PROVE  Listed'
    <2>1. \A q : q \in DOMAIN listing' <=> q \in DOMAIN listing /\ q # p
        BY <1>10 DEF Passed
    <2>2. \A q \in DOMAIN listing' : listing'[q] = listing[q]
        BY <1>10 DEF Passed
    <2> SUFFICES ASSUME NEW n \in due'
                 PROVE  /\ path'[n] # NoPath
                        /\ path'[n] \in DOMAIN listing' => listing'[path'[n]] = mtime'[n]
                        /\ Lying(n)' => path'[n] \in DOMAIN listing' /\ path'[n] \notin half'
        BY <1>10 DEF Listed
    <2> QED BY <1>0, <1>10, <2>1, <2>2 DEF Listed
<1>11. ASSUME NEW p \in Paths, Skip(p) PROVE Listed'
    <2>1. /\ Passed(p) /\ dir[p] = NoMessage /\ pc' = "scan"
          /\ UNCHANGED <<dir, half, path, mtime, due>>
        BY <1>11 DEF Skip, files, history
    <2>2. \A n \in due : Lying(n)' => Lying(n) /\ path[n] # p
        BY <1>0, <1>a, <2>1 DEF Lying
    <2> QED BY <1>10, <2>1, <2>2
<1>12. ASSUME NEW m \in Messages, ReadFails(m) PROVE Listed'
    <2>1. /\ Passed(path[m]) /\ Lying(m) /\ pc' = "scan" /\ due' = due \ {m}
          /\ UNCHANGED <<dir, half, path, mtime>>
        BY <1>12 DEF ReadFails, files
    <2>2. path[m] \in Paths
        BY <1>0, <2>1 DEF Lying, TypeOK
    <2>3. \A n \in due' : Lying(n)' => Lying(n) /\ path[n] # path[m]
        BY <2>1 DEF Lying
    <2> QED BY <1>10, <2>1, <2>2, <2>3
<1>13. CASE Remove
    <2>1. /\ Passed(path[cur]) /\ pc = "remove" /\ pc' = "scan" /\ due' = due \ {cur}
          /\ path[cur] \in Paths
        BY <1>0, <1>13 DEF Remove, Placed
    <2>2. /\ UNCHANGED <<path, mtime>> /\ half' \subseteq half
          /\ \A n \in due' : Lying(n)' => Lying(n) /\ path[n] # path[cur]
        <3>1. CASE Unlinked(path[cur])
            BY <1>5, <2>1, <3>1
        <3>2. CASE UNCHANGED files
            <4>1. UNCHANGED <<dir, half, path, mtime>>
                BY <3>2 DEF files
            <4>2. \A n \in due' : Lying(n) => path[n] # path[cur]
                BY <1>0, <2>1 DEF Listed
            <4> QED BY <4>1, <4>2 DEF Lying
        <3> QED BY <1>13, <3>1, <3>2 DEF Remove
    <2> QED BY <1>10, <2>1, <2>2
<1>14. ASSUME NEW m \in Messages, Verdict(m) PROVE Listed'
    <2>1. PICK v \in {NoAck, "failed", "duplicate", "delivered"}, next \in Handling : Judge(m, v, next)
        BY <1>14 DEF Verdict, RemoveLink, RejectUnread, RejectInvalid, Expire, RejectDuplicate, Accept
    <2>2. Lying(m) /\ cur' = m /\ UNCHANGED <<dir, half, path, mtime, listing, due>>
        BY <2>1 DEF Judge, files
    <2> QED BY <1>0, <2>2 DEF Listed, Lying
<1> QED BY <1>1, <1>3, <1>4, <1>6, <1>7, <1>8, <1>9, <1>11, <1>12, <1>13, <1>14
        DEF Next, Age, AgentStartFails, Scan, EndScan, Send, Record, WriteAck, vars, files, scanner,
            history

\* What is handled is first in a listing that is true of what is due.
LEMMA Ordered == Sorts /\ Placed /\ Listed => OldestFirst
<1> SUFFICES ASSUME Sorts, Placed, Listed PROVE OldestFirst
    OBVIOUS
<1>1. ASSUME pc = "send", cur \in due, NEW m \in due, Lying(m) PROVE mtime[cur] <= mtime[m]
    <2>1. IsNext(path[cur])
        BY <1>1 DEF Placed, Handling
    <2>2. path[cur] \in DOMAIN listing /\ path[m] \in DOMAIN listing
        BY <1>1, <2>1 DEF Listed, IsNext
    <2>3. listing[path[cur]] = mtime[cur] /\ listing[path[m]] = mtime[m]
        BY <1>1, <2>2 DEF Listed
    <2> QED BY <2>1, <2>2, <2>3 DEF IsNext
<1>2. ASSUME pc = "idle", NEW m \in due, Lying(m) PROVE FALSE
    BY <1>2 DEF Sorts, Listed
<1> QED BY <1>1, <1>2 DEF OldestFirst

LEMMA OldestNext ==
    ASSUME IInv, [Next]_vars
    PROVE  OldestFirst'
<1>1. Sorts' /\ Placed' /\ Listed'
    BY TypeStep, PlacedStep, ListedStep
<1> QED BY <1>1, Ordered, PTL

\* The parts make one inductive invariant.
LEMMA NextIInv == IInv /\ [Next]_vars => IInv'
BY TypeStep, PlacedStep, RememberedStep, ListedStep, OldestNext DEF IInv, DeliveriesAreSound

-----------------------------------------------------------------------------
\* The types of the scanner (inbox/inbox.go).
THEOREM InboxTyped == Spec => []TypeOK
<1>1. IInv => TypeOK
    BY DEF IInv
<1> QED BY <1>1, InitIInv, NextIInv, PTL DEF Spec

\* However writers, failures and restarts fall between the steps of a scan: no id twice in an
\* unbroken life, no ack ahead of its delivery, and of what a scan finds the older file first
\* (inbox/process.go:134).
THEOREM DeliverySound == Spec => []DeliveriesAreSound
<1>1. IInv => DeliveriesAreSound
    BY DEF IInv
<1> QED BY <1>1, InitIInv, NextIInv, PTL DEF Spec

\* An id with an ack on disk is not handed over again, restarts included (inbox/process.go:150).
THEOREM AckedOnce == Spec => AckedIsNotResent
<1>1. IInv /\ [Next]_vars => [pc = "send" /\ pc' = "record" => acks[IdOf[cur]] = NoAck]_vars
    BY DEF IInv, Remembered
<1> QED BY <1>1, InitIInv, NextIInv, PTL DEF Spec, AckedIsNotResent
=============================================================================
