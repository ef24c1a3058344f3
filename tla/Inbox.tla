-------------------------------- MODULE Inbox --------------------------------
(***************************************************************************)
(* The inbox extension (inbox/inbox.go, process.go, register.go): other    *)
(* processes drop envelope files into a directory; one scanner goroutine   *)
(* reads, judges, delivers, acknowledges and removes them.                 *)
(*                                                                         *)
(* Every effect on the host or on the file system is a step of its own, so *)
(* that a crash or a writer can come between any two.  An envelope is a    *)
(* member of Messages; two of them may carry one id, or use one path.  Its *)
(* writer chooses the path and what the envelope is like.                  *)
(***************************************************************************)
EXTENDS Naturals, Sequences, FiniteSets

CONSTANTS
    Messages,   \* the envelopes other processes drop, each once
    Ids,
    Paths,
    IdOf,
    PathsOf,    \* the paths the writer of an envelope may choose
    KindsOf,    \* what it may write: "plain", "ttl", "invalid" (Validate fails), "garbage" (too
                \* large, not JSON, no id), "link" (a symlink) or "locked" (no right to read it)
    TimesOf,    \* the modification times its file may come with
    DedupCap    \* what seen holds before it is cleared

NoMessage == "none"
NoPath == "none"

ASSUME InboxAssumption ==
    /\ IdOf \in [Messages -> Ids]
    /\ PathsOf \in [Messages -> SUBSET Paths]
    /\ KindsOf \in [Messages -> SUBSET {"plain", "ttl", "invalid", "garbage", "link", "locked"}]
    /\ TimesOf \in [Messages -> SUBSET Nat]
    /\ DedupCap \in Nat \ {0}
    /\ NoMessage \notin Messages /\ NoPath \notin Paths

NoAck == "none"

VARIABLES
    dir,       \* dir[p]: the envelope at a path
    half,      \* the paths whose writer has not finished
    path, kind, \* where and as what each envelope was written, NoPath before
    mtime,     \* the modification time of its file
    pc,        \* the scanner: "off", "idle", "scan", "send", "record", "ack", "remove"
    listing,   \* what is left of the listing scan works through: paths and their times
    cur,       \* the envelope processFile has read
    status,    \* the verdict to be acknowledged
    seen,      \* Scanner.seen
    acks,      \* acks[id]: the status in the ack file
    started,   \* the started flag of Register
    exited,    \* the process has ended in an orderly way
    sent,      \* history: the hand-overs to the host since seen was last empty, in order
    told,      \* history: the ids that were handed over
    judged,    \* history: the envelopes processFile has come to a verdict on
    due        \* history: the envelopes that lay there whole when the listing was taken,
               \* until processFile is done with them

files == <<dir, half, path, kind, mtime>>
scanner == <<pc, listing, cur, status>>
process == <<started, exited>>
handed == <<sent, told>>
history == <<handed, judged, due>>
vars == <<files, scanner, seen, acks, process, history>>

Init ==
    /\ dir = [p \in Paths |-> NoMessage]
    /\ half = {}
    /\ path = [m \in Messages |-> NoPath]
    /\ kind = [m \in Messages |-> NoPath]
    /\ mtime = [m \in Messages |-> 0]
    /\ pc = "off"
    /\ listing = <<>>
    /\ cur = NoMessage
    /\ status = NoAck
    /\ seen = {}
    /\ acks = [i \in Ids |-> NoAck]
    /\ started = FALSE
    /\ exited = FALSE
    /\ sent = <<>>
    /\ told = {}
    /\ judged = {}
    /\ due = {}

Unlinked(p) ==
    /\ dir' = [dir EXCEPT ![p] = NoMessage]
    /\ half' = half \ {p}
    /\ UNCHANGED <<path, kind, mtime>>

-----------------------------------------------------------------------------
(* The writers (external).  The file of an earlier envelope is replaced.   *)

Write(m, p) ==
    /\ path[m] = NoPath
    /\ p \in PathsOf[m]
    /\ path' = [path EXCEPT ![m] = p]
    /\ \E k \in KindsOf[m] : kind' = [kind EXCEPT ![m] = k]
    /\ \E t \in TimesOf[m] : mtime' = [mtime EXCEPT ![m] = t]
    /\ dir' = [dir EXCEPT ![p] = m]
    /\ UNCHANGED <<scanner, seen, acks, process, history>>

\* Written elsewhere and renamed into place: the file keeps the time of its writing, so that
\* it may be older, or as old, as what has been there for long.
Drop(m, p) ==
    /\ Write(m, p)
    /\ half' = half \ {p}

\* Written in place, as the shell redirection of the docs does.
BeginWrite(m, p) ==
    /\ Write(m, p)
    /\ half' = half \cup {p}

EndWrite(p) ==
    /\ p \in half
    /\ half' = half \ {p}
    /\ \E t \in TimesOf[dir[p]] : mtime' = [mtime EXCEPT ![dir[p]] = t]
    /\ UNCHANGED <<dir, path, kind, scanner, seen, acks, process, history>>

\* The writer gives up half way and takes its file back.
Abandon(p) ==
    /\ p \in half
    /\ Unlinked(p)
    /\ UNCHANGED <<scanner, seen, acks, process, history>>

\* The time to live of an envelope runs out.
Age(m) ==
    /\ kind[m] = "ttl"
    /\ kind' = [kind EXCEPT ![m] = "expired"]
    /\ UNCHANGED <<dir, half, path, mtime, scanner, seen, acks, process, history>>

-----------------------------------------------------------------------------
(* Register and the life of the process                                    *)

\* EventAgentStart: the first one starts the scanner.
AgentStart ==
    /\ ~started
    /\ ~exited
    /\ started' = TRUE
    /\ pc' = "idle"
    /\ UNCHANGED <<files, listing, cur, status, seen, acks, exited, history>>

\* No configuration directory: the flag is set all the same and no later event starts it.
AgentStartFails ==
    /\ ~started
    /\ ~exited
    /\ started' = TRUE
    /\ UNCHANGED <<files, scanner, seen, acks, exited, history>>

\* The process ends, killed or shut down by the host, which keeps no handle on the scanner
\* either: nothing calls Scanner.Stop.  seen is gone.
Vanish ==
    /\ pc # "off"
    /\ pc' = "off"
    /\ listing' = <<>>
    /\ cur' = NoMessage
    /\ status' = NoAck
    /\ seen' = {}
    /\ sent' = <<>>
    /\ due' = {}
    /\ UNCHANGED <<files, acks, told, judged>>

\* A process with the same directory follows: a restart, or its pid used again.
Crash == Vanish /\ started' = FALSE /\ UNCHANGED exited

Exit == Vanish /\ exited' = TRUE /\ UNCHANGED started

-----------------------------------------------------------------------------
(* scan and processFile                                                    *)

\* What the directory holds is listed with the time read from each of its files.
Listing(times) ==
    /\ pc = "idle"
    /\ pc' = "scan"
    /\ listing' = [p \in {q \in Paths : dir[q] # NoMessage} |-> times[dir[p]]]
    /\ due' = {dir[p] : p \in {q \in Paths : dir[q] # NoMessage} \ half}
    /\ UNCHANGED <<files, cur, status, seen, acks, process, handed, judged>>

\* Faulty: in the order of the directory, not of modification.
BeginScanUnsorted == Listing([m \in Messages |-> 0])

BeginScan == Listing(mtime)

\* The sort goes by modification time alone: of equal ones, either comes first.
IsNext(p) == p \in DOMAIN listing /\ \A q \in DOMAIN listing : listing[p] <= listing[q]

Passed(p) == listing' = [q \in DOMAIN listing \ {p} |-> listing[q]]

\* pruneAcks, at the end of a scan, drops acks that have come of age.
EndScan ==
    /\ pc = "scan"
    /\ DOMAIN listing = {}
    /\ pc' = "idle"
    /\ \/ UNCHANGED acks
       \/ \E i \in Ids : acks' = [acks EXCEPT ![i] = NoAck]
    /\ UNCHANGED <<files, listing, cur, status, seen, process, history>>

\* Lstat fails: the file is gone since the listing.
Skip(p) ==
    /\ pc = "scan"
    /\ IsNext(p)
    /\ dir[p] = NoMessage
    /\ Passed(p)
    /\ UNCHANGED <<files, pc, cur, status, seen, acks, process, history>>

Lying(m) == path[m] # NoPath /\ dir[path[m]] = m

\* ReadFile fails, for a file that cannot be read or just this time: it stays where it is.
ReadFails(m) ==
    /\ pc = "scan"
    /\ Lying(m)
    /\ IsNext(path[m])
    /\ kind[m] # "link"
    /\ Passed(path[m])
    /\ due' = due \ {m}
    /\ UNCHANGED <<files, pc, cur, status, seen, acks, process, handed, judged>>

Judge(m, verdict, next) ==
    /\ pc = "scan"
    /\ Lying(m)
    /\ IsNext(path[m])
    /\ kind[m] # "locked"
    /\ cur' = m
    /\ status' = verdict
    /\ pc' = next
    /\ judged' = judged \cup {m}
    /\ UNCHANGED <<files, listing, seen, acks, process, handed, due>>

Whole(m) == path[m] \notin half /\ kind[m] \notin {"garbage", "link", "locked"}

RemoveLink(m) == kind[m] = "link" /\ Judge(m, NoAck, "remove")

\* Too large, or not JSON (yet): there is no id to acknowledge.
RejectUnread(m) ==
    /\ ~Whole(m)
    /\ kind[m] # "link"
    /\ Judge(m, NoAck, "remove")

RejectInvalid(m) ==
    /\ Whole(m)
    /\ kind[m] = "invalid"
    /\ Judge(m, "failed", "ack")

Expire(m) ==
    /\ Whole(m)
    /\ kind[m] = "expired"
    /\ Judge(m, "failed", "ack")

\* Faulty: only the memory of this process is asked.
IsDuplicateInMemory(i) == i \in seen

IsDuplicate(i) == i \in seen \/ acks[i] # NoAck

RejectDuplicate(m) ==
    /\ Whole(m)
    /\ kind[m] \in {"plain", "ttl"}
    /\ IsDuplicate(IdOf[m])
    /\ Judge(m, "duplicate", "ack")

Accept(m) ==
    /\ Whole(m)
    /\ kind[m] \in {"plain", "ttl"}
    /\ ~IsDuplicate(IdOf[m])
    /\ Judge(m, "delivered", "send")

\* SendMessage or Steer.
Send ==
    /\ pc = "send"
    /\ pc' = "record"
    /\ sent' = Append(sent, cur)
    /\ told' = told \cup {IdOf[cur]}
    /\ UNCHANGED <<files, listing, cur, status, seen, acks, process, judged, due>>

\* seen is emptied when it is full.
Record ==
    /\ pc = "record"
    /\ pc' = "ack"
    /\ IF Cardinality(seen) >= DedupCap
       THEN seen' = {IdOf[cur]} /\ sent' = <<cur>>
       ELSE seen' = seen \cup {IdOf[cur]} /\ UNCHANGED sent
    /\ UNCHANGED <<files, listing, cur, status, acks, process, told, judged, due>>

\* An error of the write is dropped.
WriteAck ==
    /\ pc = "ack"
    /\ pc' = "remove"
    /\ \/ acks' = [acks EXCEPT ![IdOf[cur]] = status]
       \/ UNCHANGED acks
    /\ UNCHANGED <<files, listing, cur, status, seen, process, history>>

\* Faulty: the verdict outlives its file.
RemoveKeepsVerdict ==
    /\ pc = "remove"
    /\ pc' = "scan"
    /\ Unlinked(path[cur])
    /\ Passed(path[cur])
    /\ cur' = NoMessage
    /\ due' = due \ {cur}
    /\ UNCHANGED <<status, seen, acks, process, handed, judged>>

\* The path is removed, whatever has been put there meanwhile; an error is dropped.
Remove ==
    /\ pc = "remove"
    /\ pc' = "scan"
    /\ \/ Unlinked(path[cur])
       \/ UNCHANGED files
    /\ Passed(path[cur])
    /\ cur' = NoMessage
    /\ status' = NoAck
    /\ due' = due \ {cur}
    /\ UNCHANGED <<seen, acks, process, handed, judged>>

Verdict(m) ==
    \/ RemoveLink(m) \/ RejectUnread(m) \/ RejectInvalid(m)
    \/ Expire(m) \/ RejectDuplicate(m) \/ Accept(m)

Scan ==
    \/ BeginScan \/ EndScan \/ Send \/ Record \/ WriteAck \/ Remove
    \/ \E p \in Paths : Skip(p)
    \/ \E m \in Messages : Verdict(m) \/ ReadFails(m)

Next ==
    \/ \E m \in Messages, p \in Paths : Drop(m, p) \/ BeginWrite(m, p)
    \/ \E p \in Paths : EndWrite(p) \/ Abandon(p)
    \/ \E m \in Messages : Age(m)
    \/ AgentStart \/ AgentStartFails \/ Crash \/ Exit
    \/ Scan

Spec == Init /\ [][Next]_vars

\* The ticker of scanLoop keeps firing once a scanner runs and the directory can be read; a
\* file there is a right to read is read at last, though any one reading of it may fail.
FairSpec == Spec /\ WF_vars(Scan) /\ \A m \in Messages : SF_vars(Verdict(m))

-----------------------------------------------------------------------------
TypeOK ==
    /\ dir \in [Paths -> Messages \cup {NoMessage}]
    /\ half \subseteq {p \in Paths : dir[p] # NoMessage}
    /\ path \in [Messages -> Paths \cup {NoPath}]
    /\ \A m \in Messages : kind[m] = NoPath <=> path[m] = NoPath
    /\ mtime \in [Messages -> Nat]
    /\ pc \in {"off", "idle", "scan", "send", "record", "ack", "remove"}
    /\ \A p \in DOMAIN listing : p \in Paths /\ listing[p] \in Nat
    /\ cur \in Messages \cup {NoMessage}
    /\ pc \in {"off", "idle", "scan"} <=> cur = NoMessage
    /\ status \in {NoAck, "delivered", "duplicate", "failed"}
    /\ pc \in {"off", "idle", "scan"} => status = NoAck
    /\ seen \subseteq Ids /\ Cardinality(seen) <= DedupCap
    /\ acks \in [Ids -> {NoAck, "delivered", "duplicate", "failed"}]
    /\ started \in BOOLEAN /\ exited \in BOOLEAN

\* While its memory is unbroken, one process hands no id over twice, though acks are pruned
\* or fail to be written, files fail to go away and senders repeat ids.
AtMostOnce == \A i, j \in DOMAIN sent : IdOf[sent[i]] = IdOf[sent[j]] => i = j

\* Across restarts, cleared memory and failing writes, an id that has an ack on disk when
\* its envelope is handed over is never handed over again.
AckedIsNotResent ==
    [][pc = "send" /\ pc' = "record" => acks[IdOf[cur]] = NoAck]_vars

\* An ack that says "delivered" is never ahead of the delivery, whenever the process dies.
AckedWasDelivered == \A i \in Ids : acks[i] = "delivered" => i \in told

\* Of the envelopes a scan finds whole, the one with the older file is looked at first: none is
\* handed over while one with an older file still lies there untried, and none is left untried
\* when the scan ends, whatever is replaced, slips in or fails meanwhile.  It is the order of the
\* modification times, not of arrival: a rename into place keeps an old one.
OldestFirst ==
    /\ pc = "send" /\ cur \in due =>
         \A m \in due : Lying(m) => mtime[cur] <= mtime[m]
    /\ pc = "idle" => \A m \in due : ~Lying(m)

\* What is handed over: each id once in an unbroken life, the oldest file first, with its ack
\* behind it (inbox/process.go:134).
DeliveriesAreSound == AtMostOnce /\ AckedWasDelivered /\ OldestFirst

\* A whole envelope that can be read does not lie in the directory for ever: a scanner that keeps
\* running comes to a verdict on it, unless its file is replaced.
EveryEnvelopeIsJudged == \A m \in Messages :
    (Lying(m) /\ Whole(m)) ~> (m \in judged \/ ~Lying(m) \/ pc = "off")

\* Nothing is handed over again once it is acked, and nothing whole and readable stays without a
\* verdict, through crashes, restarts and failing reads and writes (inbox/process.go:150).
EnvelopesAreSettled == AckedIsNotResent /\ EveryEnvelopeIsJudged
=============================================================================
