------------------------------- MODULE Memory -------------------------------
(***************************************************************************)
(* The fact store of the memory extension (memory/store.go) and what works *)
(* on it: the tools and commands, one critical section each, and the       *)
(* handlers that list facts in one critical section and write or delete    *)
(* them in others: the reset at the start of an agent, "/memory clear      *)
(* context", and the extractor with its pruning (register.go, command.go,  *)
(* extractor.go).  Several processes, packs and the memory command line,   *)
(* load and overwrite one file.                                            *)
(*                                                                         *)
(* A fact is what it is and what it is related to; values and times are    *)
(* left out, so which facts are the oldest is left open.                   *)
(***************************************************************************)
EXTENDS Naturals, FiniteSets

CONSTANTS
    Keys,
    Pairs,       \* the pairs of keys memory_relate is called with
    Procs,       \* the processes that use the file
    Handlers,    \* the goroutines of handlers that take several steps
    ProcOf,      \* ProcOf[h]: the process of a handler
    MaxContext,  \* maxContextFacts
    PruneCount,  \* pruneCount
    MaxResults   \* bound: how many tool results a turn has

ASSUME MemoryAssumption ==
    /\ IsFiniteSet(Keys) /\ Pairs \subseteq Keys \X Keys
    /\ ProcOf \in [Handlers -> Procs]
    /\ MaxContext \in Nat /\ PruneCount \in Nat \ {0} /\ MaxResults \in Nat

\* "context" is the category _context; a "huge" fact is one of the user whose line in the
\* file is longer than bufio.Scanner reads (64 KiB).
Kinds == {"user", "huge", "context"}
Fact == [kind : Kinds, rel : SUBSET Keys]
Data == UNION {[D -> Fact] : D \in SUBSET Keys}
Empty == [k \in {} |-> k]

VARIABLES
    mem,      \* mem[s]: Store.data
    disk,     \* the JSONL file of the project
    open,     \* the processes whose store is loaded
    pc,       \* pc[h]: "idle", "sweep", "extract" or "prune"
    results,  \* results[h]: the tool results Extract has yet to look at
    left,     \* left[h]: what is left of the facts h has listed in order to delete them
    since     \* history: the keys set in the process of h since it listed

handlers == <<pc, results, left>>
vars == <<mem, disk, open, handlers, since>>

Init ==
    /\ mem = [s \in Procs |-> Empty]
    /\ disk = Empty
    /\ open = {}
    /\ pc = [h \in Handlers |-> "idle"]
    /\ results = [h \in Handlers |-> 0]
    /\ left = [h \in Handlers |-> {}]
    /\ since = [h \in Handlers |-> {}]

-----------------------------------------------------------------------------
(* What the operations of the store make of its data                       *)

\* An update keeps the relations.
With(d, k, kind) ==
    [x \in DOMAIN d \cup {k} |->
        IF x # k THEN d[x]
        ELSE [kind |-> kind, rel |-> IF k \in DOMAIN d THEN d[k].rel ELSE {}]]

\* Faulty: the relations to the fact stay.
WithoutFactOnly(d, k) == [x \in DOMAIN d \ {k} |-> d[x]]

Without(d, k) == [x \in DOMAIN d \ {k} |-> [d[x] EXCEPT !.rel = @ \ {k}]]

Others(x, a, b) == {y \in {a, b} : {x, y} = {a, b}}

Linked(d, a, b) ==
    [x \in DOMAIN d |-> [kind |-> d[x].kind, rel |-> d[x].rel \cup Others(x, a, b)]]

Context(d) == {k \in DOMAIN d : d[k].kind = "context"}

-----------------------------------------------------------------------------
(* Processes.  A store that does not load leaves the extension without one *)
(* and ends the command line with an error.                                *)

Loadable(d) == \A k \in DOMAIN d : d[k].kind # "huge"

Load(s) ==
    /\ s \notin open
    /\ Loadable(disk)
    /\ open' = open \cup {s}
    /\ mem' = [mem EXCEPT ![s] = disk]
    /\ UNCHANGED <<disk, handlers, since>>

Exit(s) ==
    /\ s \in open
    /\ open' = open \ {s}
    /\ mem' = [mem EXCEPT ![s] = Empty]
    /\ pc' = [h \in Handlers |-> IF ProcOf[h] = s THEN "idle" ELSE pc[h]]
    /\ results' = [h \in Handlers |-> IF ProcOf[h] = s THEN 0 ELSE results[h]]
    /\ left' = [h \in Handlers |-> IF ProcOf[h] = s THEN {} ELSE left[h]]
    /\ since' = [h \in Handlers |-> IF ProcOf[h] = s THEN {} ELSE since[h]]
    /\ UNCHANGED disk

-----------------------------------------------------------------------------
(* The operations of the store.  flush writes the whole map or fails; the  *)
(* map keeps the change either way.                                        *)

Store(s, d) ==
    /\ s \in open
    /\ mem' = [mem EXCEPT ![s] = d]
    /\ disk' \in {d, disk}
    /\ UNCHANGED open

Set(s, k, kind) ==
    /\ Store(s, With(mem[s], k, kind))
    /\ since' = [h \in Handlers |->
         IF ProcOf[h] = s /\ pc[h] \in {"sweep", "prune"} THEN since[h] \cup {k} ELSE since[h]]

Delete(s, k) ==
    /\ k \in DOMAIN mem[s]
    /\ Store(s, Without(mem[s], k))

Relate(s, a, b) ==
    /\ {a, b} \subseteq DOMAIN mem[s]
    /\ Store(s, Linked(mem[s], a, b))

Clear(s) == Store(s, Empty)

\* memory_set, memory_relate, memory_delete, the command line, "/memory" with clear and
\* delete, and the summary of the compactor, which is set like any fact.
Tool(s) ==
    /\ \/ \E k \in Keys, kind \in Kinds : Set(s, k, kind)
       \/ /\ \/ \E k \in Keys : Delete(s, k)
             \/ \E p \in Pairs : Relate(s, p[1], p[2])
             \/ Clear(s)
          /\ UNCHANGED since
    /\ UNCHANGED handlers

-----------------------------------------------------------------------------
(* Handlers of several steps                                               *)

Begin(h, what) ==
    /\ ProcOf[h] \in open
    /\ pc[h] = "idle"
    /\ pc' = [pc EXCEPT ![h] = what]
    /\ UNCHANGED <<mem, disk, open, since>>

\* Faulty: the facts of every category are listed.
BeginSweepOfAll(h) ==
    /\ Begin(h, "sweep")
    /\ left' = [left EXCEPT ![h] = DOMAIN mem[ProcOf[h]]]
    /\ UNCHANGED results

\* The reset at EventAgentStart, and "/memory clear context".
BeginSweep(h) ==
    /\ Begin(h, "sweep")
    /\ left' = [left EXCEPT ![h] = Context(mem[ProcOf[h]])]
    /\ UNCHANGED results

BeginTurn(h) ==
    /\ Begin(h, "extract")
    /\ \E n \in 0 .. MaxResults : results' = [results EXCEPT ![h] = n]
    /\ UNCHANGED left

\* A result that names no file, or has no text, leaves no fact.
ExtractResult(h) ==
    /\ pc[h] = "extract"
    /\ results[h] > 0
    /\ results' = [results EXCEPT ![h] = @ - 1]
    /\ \/ \E k \in Keys : Set(ProcOf[h], k, "context")
       \/ UNCHANGED <<mem, disk, open, since>>
    /\ UNCHANGED <<pc, left>>

\* Faulty: all facts are pruned, not the oldest.
PruneAll(h) ==
    /\ pc[h] = "extract"
    /\ results[h] = 0
    /\ Cardinality(Context(mem[ProcOf[h]])) > MaxContext
    /\ pc' = [pc EXCEPT ![h] = "prune"]
    /\ left' = [left EXCEPT ![h] = Context(mem[ProcOf[h]])]
    /\ UNCHANGED <<mem, disk, open, results, since>>

\* pruneIfNeeded: the min(pruneCount, len(facts)) oldest of what is listed.
Oldest(facts) == {old \in SUBSET facts :
    Cardinality(old) = IF PruneCount < Cardinality(facts) THEN PruneCount ELSE Cardinality(facts)}

Prune(h) ==
    /\ pc[h] = "extract"
    /\ results[h] = 0
    /\ Cardinality(Context(mem[ProcOf[h]])) > MaxContext
    /\ pc' = [pc EXCEPT ![h] = "prune"]
    /\ \E old \in Oldest(Context(mem[ProcOf[h]])) : left' = [left EXCEPT ![h] = old]
    /\ UNCHANGED <<mem, disk, open, results, since>>

PruneNothing(h) ==
    /\ pc[h] = "extract"
    /\ results[h] = 0
    /\ Cardinality(Context(mem[ProcOf[h]])) <= MaxContext
    /\ pc' = [pc EXCEPT ![h] = "idle"]
    /\ UNCHANGED <<mem, disk, open, results, left, since>>

\* Faulty: the first error ends the loop.
DeleteListedOrStop(h) ==
    \E k \in left[h] :
        /\ \/ Delete(ProcOf[h], k)
           \/ k \notin DOMAIN mem[ProcOf[h]] /\ UNCHANGED <<mem, disk, open>>
        /\ left' = [left EXCEPT ![h] = IF disk' = mem'[ProcOf[h]] THEN @ \ {k} ELSE {}]
        /\ UNCHANGED <<pc, results, since>>

\* A fact that is gone by now is passed over; an error is logged or dropped.
DeleteListed(h) ==
    \E k \in left[h] :
        /\ \/ Delete(ProcOf[h], k)
           \/ k \notin DOMAIN mem[ProcOf[h]] /\ UNCHANGED <<mem, disk, open>>
        /\ left' = [left EXCEPT ![h] = @ \ {k}]
        /\ UNCHANGED <<pc, results, since>>

Return(h) ==
    /\ pc[h] \in {"sweep", "prune"}
    /\ left[h] = {}
    /\ pc' = [pc EXCEPT ![h] = "idle"]
    /\ since' = [since EXCEPT ![h] = {}]
    /\ UNCHANGED <<mem, disk, open, results, left>>

HandlerStep(h) ==
    \/ BeginSweep(h) \/ BeginTurn(h) \/ ExtractResult(h)
    \/ Prune(h) \/ PruneNothing(h) \/ DeleteListed(h) \/ Return(h)

Next ==
    \/ \E s \in Procs : Load(s) \/ Exit(s) \/ Tool(s)
    \/ \E h \in Handlers : HandlerStep(h)

Spec == Init /\ [][Next]_vars

-----------------------------------------------------------------------------
TypeOK ==
    /\ mem \in [Procs -> Data]
    /\ disk \in Data
    /\ open \subseteq Procs
    /\ pc \in [Handlers -> {"idle", "sweep", "extract", "prune"}]
    /\ results \in [Handlers -> 0 .. MaxResults]
    /\ left \in [Handlers -> SUBSET Keys]
    /\ since \in [Handlers -> SUBSET Keys]
    /\ \A h \in Handlers : pc[h] # "idle" => ProcOf[h] \in open
    /\ \A h \in Handlers : pc[h] \in {"idle", "extract"} => left[h] = {} /\ since[h] = {}
    /\ \A h \in Handlers : pc[h] = "prune" => Cardinality(left[h]) <= PruneCount

\* Relations are bidirectional and lead to facts: Related follows them with no other check
\* than that the next fact exists, so a broken one would hide or resurrect facts.
Symmetric(d) == \A k \in DOMAIN d : \A r \in d[k].rel : r \in DOMAIN d /\ k \in d[r].rel

\* ... in the memory of every process and in the file, whatever flushes fail, whichever
\* process overwrites the file of another, and whatever is deleted one by one meanwhile.
RelationsHold == Symmetric(disk) /\ \A s \in Procs : Symmetric(mem[s])

\* When the reset (or "/memory clear context") is done, the only context facts are those
\* that were set while it was at work, although every deletion may fail to be saved.
ResetForgets ==
    [][\A h \in Handlers : pc[h] = "sweep" /\ pc'[h] = "idle" /\ ProcOf[h] \in open' =>
            Context(mem[ProcOf[h]]) \subseteq since[h]]_vars

\* No handler deletes a fact of the user, unless the key was a context fact when it was
\* listed and has been set since.
UserFactsStay ==
    [][\A h \in Handlers : \A k \in left[h] \ left'[h] :
            ProcOf[h] \in open' /\ k \in DOMAIN mem[ProcOf[h]] =>
                mem[ProcOf[h]][k].kind = "context" \/ k \in since[h]]_vars
=============================================================================
