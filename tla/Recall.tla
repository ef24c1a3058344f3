------------------------------- MODULE Recall -------------------------------
(* The search over past sessions of recall/: processes, each with its own   *)
(* session, hold an inverted index in memory, add their session at the end  *)
(* of every turn and save the whole index over the file all share.          *)
EXTENDS Naturals, Sequences, FiniteSets, Functions

CONSTANTS Processes,    \* running piglets
          SessionIds, \* session ids
          Terms,    \* what tokenize keeps of texts
          MaxDocs,  \* cap of an index
          MaxTerms, \* maxExtractBytes: terms read back from a session file
          MaxLog,   \* bound: terms of a session
          MaxStamps   \* bound: documents stamped

ASSUME RecallAssumption == {MaxDocs, MaxTerms, MaxLog, MaxStamps} \subseteq Nat /\ MaxDocs > 0

VARIABLES log,    \* session -> the terms of its file, in their order
          stamps,  \* documents stamped so far
          proc,   \* process -> its session, index, and the save and rebuild in progress
          gob     \* index.gob

rvars == <<log, stamps, proc, gob>>

(***************************************************************************)
(* The index: Docs, DocFreq and TotalDocs; "torn" marks counts taken while *)
(* documents were added, which nothing in the code remembers.              *)
(***************************************************************************)
NoDocs == [s \in {} |-> 0]
Recount(docs) == [t \in Terms |-> Cardinality({s \in DOMAIN docs : t \in docs[s].terms})]
NewIndex == [docs |-> NoDocs, freq |-> Recount(NoDocs), total |-> 0, torn |-> FALSE]
LoadIndex(g) == [g EXCEPT !.freq = Recount(g.docs)]
Oldest(docs) == CHOOSE s \in DOMAIN docs : \A u \in DOMAIN docs : docs[s].at <= docs[u].at
Minus(freq, terms) == [t \in Terms |-> IF t \in terms /\ freq[t] > 0 THEN freq[t] - 1 ELSE freq[t]]
Plus(freq, terms) == [t \in Terms |-> IF t \in terms THEN freq[t] + 1 ELSE freq[t]]
RemoveDoc(x, s) ==
  IF s \notin DOMAIN x.docs THEN x
  ELSE [x EXCEPT !.docs = Restrict(x.docs, DOMAIN x.docs \ {s}),
                 !.freq = Minus(x.freq, x.docs[s].terms), !.total = x.total - 1]
\* One document was added, so one goes at most; an index is within its cap before.
PruneOldest(x) ==
  IF Cardinality(DOMAIN x.docs) <= MaxDocs THEN x ELSE RemoveDoc(x, Oldest(x.docs))
AddDocument(x, s, terms, stamp) ==
  IF terms = {} THEN x
  ELSE LET y == RemoveDoc(x, s)
       IN PruneOldest([y EXCEPT !.docs = [u \in DOMAIN y.docs \cup {s} |->
                                           IF u = s THEN [terms |-> terms, at |-> stamp] ELSE y.docs[u]],
                                !.freq = Plus(y.freq, terms), !.total = y.total + 1])
\* The sessions Search can return for a query: it scores what DocFreq and TotalDocs let it see.
SearchIndex(x, terms) ==
  IF x.total = 0 THEN {}
  ELSE {s \in DOMAIN x.docs : \E t \in terms : x.freq[t] > 0 /\ t \in x.docs[s].terms}

(***************************************************************************)
(* Processes.                                                              *)
(***************************************************************************)
NoSave == [at |-> "none"]
Off == [on |-> FALSE]
RecallInit ==
  /\ log = [s \in SessionIds |-> <<>>] /\ stamps = 0
  /\ proc = [p \in Processes |-> Off]
  /\ gob = NewIndex

InUse == {proc[p].session : p \in {q \in Processes : proc[q].on}}
OnInit(p) ==
  /\ ~proc[p].on
  /\ \E s \in SessionIds \ InUse :
        proc' = [proc EXCEPT ![p] = [on |-> TRUE, session |-> s, idx |-> LoadIndex(gob), save |-> NoSave,
                                     fresh |-> [at |-> "none"]]]
  /\ UNCHANGED <<log, stamps, gob>>
ExitProcess(p) ==
  /\ proc[p].on
  /\ proc' = [proc EXCEPT ![p] = Off]
  /\ UNCHANGED <<log, stamps, gob>>

\* A turn of the session, and the host's record of it.
Turn(p) ==
  /\ proc[p].on /\ Len(log[proc[p].session]) < MaxLog
  /\ \E t \in Terms : log' = [log EXCEPT ![proc[p].session] = Append(@, t)]
  /\ UNCHANGED <<stamps, proc, gob>>

\* EventAgentEnd: index the session.  The encoder of a save in progress reads the same maps:
\* it sees the change or not, or the runtime ends the process.
IndexTurn(p) ==
  LET me == proc[p]  new == AddDocument(me.idx, me.session, Range(log[me.session]), stamps + 1) IN
  /\ me.on /\ log[me.session] # <<>> /\ stamps < MaxStamps
  /\ stamps' = stamps + 1
  /\ \/ /\ me.save.at \in {"none", "due"}
        /\ proc' = [proc EXCEPT ![p].idx = new, ![p].save = [at |-> "due"]]
     \/ /\ me.save.at = "encode"
        /\ \E seen \in {me.save.x.docs, new.docs} :
              proc' = [proc EXCEPT ![p].idx = new, ![p].save.x.docs = seen,
                                   ![p].save.x.torn = me.save.x.torn \/ seen # me.save.x.docs]
     \/ me.save.at = "encode" /\ proc' = [proc EXCEPT ![p] = Off]
  /\ UNCHANGED <<log, gob>>

\* Save copies the fields under the lock and encodes the maps after it.
SaveBegins(p) ==
  /\ proc[p].on /\ proc[p].save.at = "due"
  /\ proc' = [proc EXCEPT ![p].save = [at |-> "encode", x |-> proc[p].idx]]
  /\ UNCHANGED <<log, stamps, gob>>
SaveEnds(p) ==
  /\ proc[p].on /\ proc[p].save.at = "encode"
  /\ gob' = proc[p].save.x
  /\ proc' = [proc EXCEPT ![p].save = NoSave]
  /\ UNCHANGED <<log, stamps>>

(***************************************************************************)
(* /recall rebuild.                                                        *)
(***************************************************************************)
SessionTerms(s) == Range(SubSeq(log[s], 1, IF Len(log[s]) < MaxTerms THEN Len(log[s]) ELSE MaxTerms))
RebuildBegins(p) ==
  /\ proc[p].on /\ proc[p].fresh.at = "none"
  /\ proc' = [proc EXCEPT ![p].fresh = [at |-> "read", x |-> NewIndex, todo |-> {s \in SessionIds : log[s] # <<>>}]]
  /\ UNCHANGED <<log, stamps, gob>>
\* The host lists sessions in an order of its own; a file may be unreadable.
RebuildReads(p) ==
  /\ proc[p].on /\ proc[p].fresh.at = "read" /\ stamps < MaxStamps
  /\ \E s \in proc[p].fresh.todo, ok \in BOOLEAN :
        proc' = [proc EXCEPT ![p].fresh.todo = @ \ {s},
                             ![p].fresh.x = IF ok THEN AddDocument(@, s, SessionTerms(s), stamps + 1) ELSE @]
  /\ stamps' = stamps + 1
  /\ UNCHANGED <<log, gob>>
RebuildEnds(p) ==
  /\ proc[p].on /\ proc[p].fresh.at = "read" /\ proc[p].fresh.todo = {} /\ proc[p].save.at # "encode"
  /\ proc' = [proc EXCEPT ![p].idx = proc[p].fresh.x, ![p].fresh = [at |-> "none"], ![p].save = [at |-> "due"]]
  /\ UNCHANGED <<log, stamps, gob>>

RecallNext == \E p \in Processes :
  \/ OnInit(p) \/ ExitProcess(p) \/ Turn(p) \/ IndexTurn(p) \/ SaveBegins(p) \/ SaveEnds(p)
  \/ RebuildBegins(p) \/ RebuildReads(p) \/ RebuildEnds(p)
RecallSpec == RecallInit /\ [][RecallNext]_rvars
-----------------------------------------------------------------------------
RunningProcesses == {p \in Processes : proc[p].on}

(* Kinds of the variables.                                                  *)
RecallTypeOK ==
  /\ stamps \in 0 .. MaxStamps
  /\ \A p \in RunningProcesses : /\ proc[p].save.at \in {"none", "due", "encode"}
                        /\ DOMAIN proc[p].idx.docs \subseteq SessionIds
  /\ \A p, q \in RunningProcesses : p = q \/ proc[p].session # proc[q].session

(* After any indexing, pruning, rebuilding, saving and loading an index     *)
(* counts for every term the documents that have it, is within its cap, and *)
(* finds each document by each of its terms; only a save that overlapped    *)
(* with an addition leaves a number of documents that is none               *)
(* (recall/index.go:87, recall/index.go:105).                               *)
IndexFindsItsDocuments ==
  \A p \in RunningProcesses :
    LET x == proc[p].idx IN
    /\ x.freq = Recount(x.docs)
    /\ Cardinality(DOMAIN x.docs) <= MaxDocs
    /\ ~x.torn => /\ x.total = Cardinality(DOMAIN x.docs)
                  /\ \A s \in DOMAIN x.docs : \A t \in x.docs[s].terms : s \in SearchIndex(x, {t})

(* A document leaves the index of a process only for one stamped later, by  *)
(* a rebuild or with the process; the turn just indexed is always in it     *)
(* (recall/index.go:163).                                                   *)
NewestAreKept ==
  [][\A p \in RunningProcesses : proc'[p].on /\ proc[p].fresh.at = proc'[p].fresh.at =>
       /\ \A s \in DOMAIN proc[p].idx.docs \ DOMAIN proc'[p].idx.docs :
            \A u \in DOMAIN proc'[p].idx.docs : proc[p].idx.docs[s].at < proc'[p].idx.docs[u].at
       /\ stamps' > stamps /\ proc'[p].save.at # proc[p].save.at =>
            proc[p].session \in DOMAIN proc'[p].idx.docs]_rvars
=============================================================================
